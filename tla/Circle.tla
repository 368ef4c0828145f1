------------------------------- MODULE Circle -------------------------------
(***************************************************************************)
(* Group messages under sender keys (core/circle, behind gv_circle_* ).     *)
(*                                                                         *)
(* `record` is what each device keeps about one sender in one group: a list *)
(* of chains, newest first.  The sender's own is a record like the others,  *)
(* whose chains came from announce, with their signing secret, or like the  *)
(* others' from an announcement, without.  An announcement hands the        *)
(* CURRENT step of the newest chain to any device, the sender's too; a note *)
(* is sealed at one step.  Both may arrive any number of times, in any      *)
(* order, or never.                                                         *)
(*                                                                         *)
(* Key material is symbolic: a chain is its signing key (a serial number,   *)
(* fresh for every chain made) under a chain id that the code draws at      *)
(* random and that two chains may therefore share.                          *)
(***************************************************************************)
EXTENDS Integers, FiniteSets, SequencesExt

CONSTANTS
  Devices,         \* the devices that keep a record about the sender
  Sender,          \* the one of them that announces and seals
  ChainIds,        \* the values a 32-bit random chain id can take
  MaxKeys,         \* bound: chains the sender ever makes
  MaxSteps,        \* bound: notes sealed on one chain
  MaxMade,         \* bound: chains made and notes sealed, together
  MaxAnnounces,    \* bound: different announcements handed out
  MaxMembers,      \* max_members, 5 in the code
  MaxSkipped,      \* max_skipped, 2000 in the code
  MaxForwardJump   \* max_forward_jump, 25000 in the code

ASSUME CircleAssumption ==
  /\ Sender \in Devices
  /\ MaxKeys \in Nat /\ MaxSteps \in Nat
  /\ MaxMade \in Nat /\ MaxAnnounces \in Nat
  /\ MaxMembers \in Nat \ {0}
  /\ MaxSkipped \in Nat /\ MaxForwardJump \in Nat

VARIABLES
  record,     \* [Devices -> list of members, newest first]
  announces,  \* announcements handed out so far
  notes,      \* notes sealed so far
  made,       \* how many chains the sender has made
  used,       \* history: the <<key, step>> each device has opened or sealed
  joined,     \* history: the <<key, step>> each device took a chain in at, or made it
  trimmed,    \* history: the <<key, step>> whose skipped key was dropped
  evicted,    \* history: the keys of chains each device once dropped
  last        \* the outcome of the last call of circleOpen, or of a seal that failed

vars == <<record, announces, notes, made, used, joined, trimmed, evicted, last>>
history == <<used, joined, trimmed, evicted>>

Keys == 1..MaxKeys
Steps == 0..MaxSteps

Announced == [id : ChainIds, key : Keys, step : Steps]
Member == [id : ChainIds, key : Keys, step : Steps, skipped : SUBSET Steps, signs : BOOLEAN]
Note == [id : ChainIds, key : Keys, step : Steps, serial : Nat]

Faults == {"none", "NoSession", "BadSignature", "Replay", "BadMessage", "BadSession"}
NoCall == [fault |-> "none"]
Outcome == {NoCall} \cup [device : Devices, key : Keys, step : Steps, fault : Faults]

-----------------------------------------------------------------------------
(* The record. *)

\* Position i is what byChain(id) returns: the first member under that id.
IsByChain(rec, i, id) ==
  /\ i \in DOMAIN rec
  /\ rec[i].id = id
  /\ \A j \in 1 .. i - 1 : rec[j].id # id

Knows(rec, id) == \E i \in DOMAIN rec : rec[i].id = id

\* The members left once every member under this id is taken out.  An id is
\* held once at most (RecordWellFormed), so there is one to take out or none.
Others(rec, id) ==
  IF Knows(rec, id)
  THEN RemoveAt(rec, CHOOSE i \in DOMAIN rec : IsByChain(rec, i, id))
  ELSE rec

\* Mutant of Newest: the limit is passed by one.
NewestAndOneMore(rec, n) == SubSeq(rec, 1, IF Len(rec) <= n THEN Len(rec) ELSE n + 1)

\* The first n members, or all of them.
Newest(rec, n) == SubSeq(rec, 1, IF Len(rec) <= n THEN Len(rec) ELSE n)

\* Mutants of Admitted: a chain already known starts again where it is announced;
\* it does so and keeps its signing secret.
AdmittedAfresh(rec, m) == <<m>> \o Newest(Others(rec, m.id), MaxMembers - 1)
AdmittedAgain(rec, m) ==
  LET signs == \E i \in DOMAIN rec : rec[i].id = m.id /\ rec[i].key = m.key /\ rec[i].signs
  IN  <<[m EXCEPT !.signs = @ \/ signs]>> \o Newest(Others(rec, m.id), MaxMembers - 1)

\* Circle.admit: a chain known under the same signing key keeps its member and
\* moves to the front; otherwise m is put there.  The oldest make room.
Admitted(rec, m) ==
  LET known == {i \in DOMAIN rec : rec[i].id = m.id /\ rec[i].key = m.key}
      kept  == IF known = {} THEN m ELSE rec[CHOOSE i \in known : TRUE]
  IN  <<kept>> \o Newest(Others(rec, m.id), MaxMembers - 1)

\* Member.keepSkipped, once for every step passed over: the list is in step
\* order and holds the newest max_skipped.
KeepSkipped(skipped, passed) ==
  LET all == skipped \cup passed
  IN  {s \in all : Cardinality({t \in all : t > s}) < MaxSkipped}

HeldKeys(rec) == {rec[i].key : i \in DOMAIN rec}

-----------------------------------------------------------------------------
Init ==
  /\ record = [d \in Devices |-> <<>>]
  /\ announces = {} /\ notes = {} /\ made = 0 /\ last = NoCall
  /\ used = [d \in Devices |-> {}]
  /\ joined = [d \in Devices |-> {}]
  /\ trimmed = [d \in Devices |-> {}]
  /\ evicted = [d \in Devices |-> {}]

\* What d's record becomes, with the history of what came in and what fell out.
Store(d, rec) ==
  LET old == HeldKeys(record[d]) IN
  /\ record' = [record EXCEPT ![d] = rec]
  /\ joined' = [joined EXCEPT ![d] = @ \cup
       {<<rec[i].key, rec[i].step>> : i \in {j \in DOMAIN rec : rec[j].key \notin old}}]
  /\ evicted' = [evicted EXCEPT ![d] = @ \cup (old \ HeldKeys(rec))]

\* A member without its signing secret, as an announcement gives it.
MemberOf(a) == [id |-> a.id, key |-> a.key, step |-> a.step, skipped |-> {}, signs |-> FALSE]

AnnouncementOf(m) == [id |-> m.id, key |-> m.key, step |-> m.step]

\* announce on a record without a chain: it makes one, under a random id.  A host
\* that rotates, or that lost its storage, hands over no record and drops its own.
AnnounceNew ==
  /\ made < MaxKeys /\ made + Cardinality(notes) < MaxMade
  /\ made' = made + 1
  /\ \E id \in ChainIds :
       LET m == [id |-> id, key |-> made + 1, step |-> 0, skipped |-> {}, signs |-> TRUE] IN
       /\ Store(Sender, <<m>>)
       /\ announces' = announces \cup {AnnouncementOf(m)}
  /\ Cardinality(announces') <= MaxAnnounces
  /\ last' = NoCall
  /\ UNCHANGED <<notes, used, trimmed>>

\* announce on a record with chains: the newest, where it stands, whether the
\* record holds its secret or not.
AnnounceNewest ==
  /\ record[Sender] # <<>>
  /\ announces' = announces \cup {AnnouncementOf(record[Sender][1])}
  /\ Cardinality(announces') <= MaxAnnounces
  /\ last' = NoCall
  /\ UNCHANGED <<record, notes, made, history>>

\* circleAdmit: any announcement, any number of times, in any order.
Admit(d, a) ==
  /\ Store(d, Admitted(record[d], MemberOf(a)))
  /\ last' = NoCall
  /\ UNCHANGED <<announces, notes, made, used, trimmed>>

\* Link.advance.
Advance(chain) == [chain EXCEPT !.step = @ + 1]

Answer(d, n, fault) ==
  last' = [device |-> d, key |-> n.key, step |-> n.step, fault |-> fault]

\* A call that fails hands back no record: the stored one stays.
Refuse(d, n, fault) ==
  /\ Answer(d, n, fault)
  /\ UNCHANGED <<record, announces, notes, made, history>>

\* seal: a note on the newest chain, whose link advances.
Seal ==
  LET m == record[Sender][1] IN
  /\ record[Sender] # <<>>
  /\ m.signs
  /\ m.step < MaxSteps /\ made + Cardinality(notes) < MaxMade
  /\ notes' = notes \cup {[id |-> m.id, key |-> m.key, step |-> m.step,
                           serial |-> Cardinality(notes)]}
  /\ record' = [record EXCEPT ![Sender][1] = Advance(m)]
  /\ used' = [used EXCEPT ![Sender] = @ \cup {<<m.key, m.step>>}]
  /\ last' = NoCall
  /\ UNCHANGED <<announces, made, joined, trimmed, evicted>>

\* seal, when the newest chain came from an announcement.
SealUnsigned ==
  /\ record[Sender] # <<>>
  /\ ~ record[Sender][1].signs
  /\ Refuse(Sender, record[Sender][1], "BadSession")

OpenUnknown(d, n) ==
  /\ ~ Knows(record[d], n.id)
  /\ Refuse(d, n, "NoSession")

OpenForged(d, n) ==
  /\ \E i \in DOMAIN record[d] : IsByChain(record[d], i, n.id) /\ record[d][i].key # n.key
  /\ Refuse(d, n, "BadSignature")

\* The member whose chain verifies the note's signature.
Opener(d, n, i) == IsByChain(record[d], i, n.id) /\ record[d][i].key = n.key

\* Mutants of Behind and Passed: the link's own step counts as behind it; the
\* last step passed over is not kept; the step before the link is kept again.
BehindOrAt(m, n) == m.step >= n.step
PassedButLast(m, n) == m.step .. n.step - 2
PassedAndBefore(m, n) == m.step - 1 .. n.step - 1

\* yieldFor's test for a note behind the link, and the steps it passes over to
\* reach one ahead.
Behind(m, n) == m.step > n.step
Passed(m, n) == m.step .. n.step - 1

\* yieldFor, behind the link: the skipped key is used up, or there is none.
OpenBehind(d, n) ==
  \E i \in DOMAIN record[d] :
    /\ Opener(d, n, i)
    /\ Behind(record[d][i], n)
    /\ \/ /\ n.step \in record[d][i].skipped
          /\ record' = [record EXCEPT ![d][i].skipped = @ \ {n.step}]
          /\ used' = [used EXCEPT ![d] = @ \cup {<<n.key, n.step>>}]
          /\ Answer(d, n, "none")
          /\ UNCHANGED <<announces, notes, made, joined, trimmed, evicted>>
       \/ /\ n.step \notin record[d][i].skipped
          /\ Refuse(d, n, "Replay")

\* yieldFor, at the link or ahead of it: keys passed over are kept.
OpenAhead(d, n) ==
  \E i \in DOMAIN record[d] :
    LET m == record[d][i]
        kept == KeepSkipped(m.skipped, Passed(m, n))
    IN
    /\ Opener(d, n, i)
    /\ ~ Behind(m, n)
    /\ n.step - m.step <= MaxForwardJump
    /\ record' = [record EXCEPT ![d][i] =
         [id |-> m.id, key |-> m.key, step |-> n.step + 1, skipped |-> kept, signs |-> m.signs]]
    /\ used' = [used EXCEPT ![d] = @ \cup {<<n.key, n.step>>}]
    /\ trimmed' = [trimmed EXCEPT ![d] = @ \cup
         {<<m.key, s>> : s \in (m.skipped \cup Passed(m, n)) \ kept}]
    /\ Answer(d, n, "none")
    /\ UNCHANGED <<announces, notes, made, joined, evicted>>

OpenTooFar(d, n) ==
  /\ \E i \in DOMAIN record[d] :
       Opener(d, n, i) /\ n.step - record[d][i].step > MaxForwardJump
  /\ Refuse(d, n, "BadMessage")

\* circleOpen.
Open(d, n) ==
  \/ OpenUnknown(d, n)
  \/ OpenForged(d, n)
  \/ OpenBehind(d, n)
  \/ OpenAhead(d, n)
  \/ OpenTooFar(d, n)

Next ==
  \/ AnnounceNew
  \/ AnnounceNewest
  \/ \E d \in Devices, a \in announces : Admit(d, a)
  \/ Seal
  \/ SealUnsigned
  \/ \E d \in Devices, n \in notes : Open(d, n)

Spec == Init /\ [][Next]_vars

-----------------------------------------------------------------------------
(* Properties. *)

\* Every variable holds what its declaration says.
TypeOK ==
  /\ record \in [Devices -> Seq(Member)]
  /\ announces \subseteq Announced
  /\ notes \subseteq Note
  /\ made \in 0 .. MaxKeys
  /\ used \in [Devices -> SUBSET (Keys \X Steps)]
  /\ joined \in [Devices -> SUBSET (Keys \X Steps)]
  /\ trimmed \in [Devices -> SUBSET (Keys \X Steps)]
  /\ evicted \in [Devices -> SUBSET Keys]
  /\ last \in Outcome

\* byChain is unambiguous and the limits of record.zig hold: a chain id is in a
\* record once however announcements collide, repeat or come back.
RecordWellFormed ==
  \A d \in Devices :
    /\ Len(record[d]) <= MaxMembers
    /\ \A i, j \in DOMAIN record[d] : record[d][i].id = record[d][j].id => i = j
    /\ \A i \in DOMAIN record[d] :
         /\ Cardinality(record[d][i].skipped) <= MaxSkipped
         /\ \A s \in record[d][i].skipped : s < record[d][i].step

\* A message key seals one note: whatever the sender's host announces, opens or
\* takes in, its own announcements late or again among them, before and after it
\* rotated, seal never returns to a step of a chain.
SealedOnce ==
  \A n1, n2 \in notes : n1.key = n2.key /\ n1.step = n2.step => n1 = n2

\* seal fails with BadSession (cipher.zig:32) only on a chain the sender itself once
\* dropped and has back from an announcement: no announcement that returns to the
\* sender takes from it the signing secret of a chain it holds.
SealsWhatItKept ==
  last.fault = "BadSession" => last.key \in evicted[Sender]

Before(d, k, s) == \A t \in Steps : <<k, t>> \in joined[d] => s < t

\* yieldFor's and seal's books: on a chain a device has held ever since it took it
\* in or made it, the steps behind the link are those it never had, those it
\* opened or sealed, those trimmed and those still kept, and none is two of these.
Ledger ==
  \A d \in Devices : \A i \in DOMAIN record[d] : \A s \in Steps :
    LET m == record[d][i]
        before == Before(d, m.key, s)
        read == <<m.key, s>> \in used[d]
        gone == <<m.key, s>> \in trimmed[d]
        kept == s \in m.skipped
    IN  m.key \notin evicted[d] =>
          /\ s < m.step <=> before \/ read \/ gone \/ kept
          /\ ~ (before /\ read) /\ ~ (before /\ gone) /\ ~ (before /\ kept)
          /\ ~ (read /\ gone) /\ ~ (read /\ kept) /\ ~ (gone /\ kept)

\* circleOpen gives a note's text twice only on a chain that fell out of the
\* record in between: eviction past max_members is the one way to forget.
OpensOnce ==
  [][last' # NoCall /\ last'.fault = "none" =>
       \/ <<last'.key, last'.step>> \notin used[last'.device]
       \/ last'.key \in evicted[last'.device]]_vars

\* Replay is refused for a reason: the note was opened or sealed here, its kept
\* key was trimmed, or it was sealed before the announcement the device took in.
ReplayExplained ==
  last.fault = "Replay" =>
    \/ <<last.key, last.step>> \in used[last.device]
    \/ <<last.key, last.step>> \in trimmed[last.device]
    \/ \E t \in Steps : <<last.key, t>> \in joined[last.device] /\ last.step < t
=============================================================================
