------------------------------ MODULE Session ------------------------------
(***************************************************************************)
(* Two devices and the session records they keep about each other:          *)
(* core/ratchet/engine.zig over state.zig, archive.zig and the handshake.   *)
(*                                                                         *)
(* Key material is symbolic.  A key pair is <<party, n>>, n = 0 being the   *)
(* party's signed pre-key; an agreement is the set of the two public keys.  *)
(* derive.turn(root, dh) is Append(root, dh), and gives the new root and    *)
(* the new chain at once: a chain is named by the path of agreements that   *)
(* leads to it, so two devices hold the same message key exactly when they  *)
(* hold the same path and index.  The post-quantum key mixed into every     *)
(* message is one both sides agree on here; PqRatchet and Braid are about   *)
(* that agreement.                                                         *)
(*                                                                         *)
(* The network keeps every message for ever: each may be delivered late,    *)
(* twice, out of order or never.  A failed call hands back no record, so    *)
(* the device's archive is what it was.                                     *)
(***************************************************************************)
EXTENDS Integers, FiniteSets, SequencesExt

CONSTANTS
  Alice, Bob,
  OneTimeIds,      \* one-time pre-keys each device uploaded
  MaxStarts,       \* bound: sessions started in all
  MaxMessages,     \* bound: messages sealed in all
  MaxPairs,        \* bound: key pairs a device generates
  MaxPrevious,     \* max_previous, 40 in the code
  MaxLanes,        \* max_receiving_lanes, 5 in the code
  MaxSkipped,      \* max_skipped_keys, 2000 in the code
  MaxForwardJump   \* max_forward_jump, 25000 in the code

Parties == {Alice, Bob}
Peer(p) == IF p = Alice THEN Bob ELSE Alice

ASSUME SessionAssumption ==
  /\ Alice # Bob
  /\ MaxStarts \in Nat /\ MaxMessages \in Nat /\ MaxPairs \in Nat
  /\ MaxPrevious \in Nat \ {0} /\ MaxLanes \in Nat \ {0}
  /\ MaxSkipped \in Nat /\ MaxForwardJump \in Nat

VARIABLES
  archive,    \* [Parties -> session record]
  made,       \* [Parties -> key pairs generated so far]
  oneTime,    \* [Parties -> one-time pre-keys still in the device's store]
  server,     \* [Parties -> one-time pre-keys the server still hands out]
  network,    \* every message ever sealed
  opened,     \* history: [Parties -> serials opened]
  trimmed,    \* history: [Parties -> <<path, index>> whose kept key was dropped]
  lanesGone,  \* history: [Parties -> paths of receiving chains dropped]
  forgot,     \* history: [Parties -> bases whose state fell off the shelf]
  last        \* the outcome of the last open

vars == <<archive, made, oneTime, server, network, opened, trimmed, lanesGone, forgot, last>>

NoKey == "none"
NoCall == [fault |-> "none"]

-----------------------------------------------------------------------------
(* One state (state.zig).                                                    *)

Lane(ratchet, path) == [ratchet |-> ratchet, path |-> path, index |-> 0, skipped |-> {}]

LanesOf(s, ratchet) == {i \in DOMAIN s.receiving : s.receiving[i].ratchet = ratchet}

\* addReceiving: the oldest of too many lanes goes.
AddReceiving(lanes, lane) ==
  LET all == Append(lanes, lane) IN IF Len(all) > MaxLanes THEN Tail(all) ELSE all

\* Mutant of InitiatorState: the handshake is not pending.
InitiatorStateAnswered(base, theirSigned, pair, oneTimeId) ==
  LET root == Append(<<{base}>>, {pair, theirSigned}) IN
  [base |-> base, root |-> root,
   sending |-> [ratchet |-> pair, path |-> root, index |-> 0],
   receiving |-> <<Lane(theirSigned, <<{base}>>)>>,
   pending |-> "none", oneTimeId |-> NoKey]

\* initiatorState, with setPending: a receiving lane on their signed pre-key
\* and a sending lane one turn ahead.
InitiatorState(base, theirSigned, pair, oneTimeId) ==
  LET root == Append(<<{base}>>, {pair, theirSigned}) IN
  [base |-> base, root |-> root,
   sending |-> [ratchet |-> pair, path |-> root, index |-> 0],
   receiving |-> <<Lane(theirSigned, <<{base}>>)>>,
   pending |-> "waiting", oneTimeId |-> oneTimeId]

\* responderState: a sending lane on its own signed pre-key.
ResponderState(base, ourSigned) ==
  [base |-> base, root |-> <<{base}>>,
   sending |-> [ratchet |-> ourSigned, path |-> <<{base}>>, index |-> 0],
   receiving |-> <<>>, pending |-> "none", oneTimeId |-> NoKey]

\* Mutants of Turn: the sending chain is the receiving one; the second turn
\* starts from the old root.
TurnOnce(s, ratchet, fresh) ==
  LET receiving == Append(s.root, {s.sending.ratchet, ratchet})
  IN [s EXCEPT !.root = receiving,
               !.receiving = AddReceiving(@, Lane(ratchet, receiving)),
               !.sending = [ratchet |-> fresh, path |-> receiving, index |-> 0]]
TurnFromOld(s, ratchet, fresh) ==
  LET receiving == Append(s.root, {s.sending.ratchet, ratchet})
      sending == Append(s.root, {fresh, ratchet})
  IN [s EXCEPT !.root = sending,
               !.receiving = AddReceiving(@, Lane(ratchet, receiving)),
               !.sending = [ratchet |-> fresh, path |-> sending, index |-> 0]]

\* laneChain: a new ratchet key turns the ratchet twice and makes a fresh pair.
Turn(s, ratchet, fresh) ==
  LET receiving == Append(s.root, {s.sending.ratchet, ratchet})
      sending == Append(receiving, {fresh, ratchet})
  IN [s EXCEPT !.root = sending,
               !.receiving = AddReceiving(@, Lane(ratchet, receiving)),
               !.sending = [ratchet |-> fresh, path |-> sending, index |-> 0]]

Facing(s, m, fresh) ==
  IF LanesOf(s, m.ratchet) = {} THEN Turn(s, m.ratchet, fresh) ELSE s

\* keepSkipped, once for every index passed over: newest first, the oldest out.
KeepSkipped(skipped, passed) ==
  LET all == skipped \cup passed
  IN  {i \in all : Cardinality({j \in all : j > i}) < MaxSkipped}

\* Mutant of Verdict: the chain's next message counts as behind it.
VerdictLate(lane, m) ==
  IF lane.index >= m.index /\ m.index \notin lane.skipped THEN "Replay"
  ELSE IF lane.path # m.path \/ m.index > lane.index + MaxForwardJump THEN "BadMessage"
  ELSE "none"

\* slotFor's verdict on a message for this lane, then the MAC under its key.
Verdict(lane, m) ==
  IF lane.index > m.index /\ m.index \notin lane.skipped THEN "Replay"
  ELSE IF lane.path # m.path \/ m.index > lane.index + MaxForwardJump THEN "BadMessage"
  ELSE "none"

\* Mutant of Taken: a kept key stays when it is used.
TakenKeeping(lane, m) ==
  IF lane.index > m.index THEN lane
  ELSE [lane EXCEPT !.skipped = KeepSkipped(@, lane.index .. m.index - 1),
                    !.index = m.index + 1]

\* slotFor's effect: the kept key is used up, or those passed over are kept.
Taken(lane, m) ==
  IF lane.index > m.index
  THEN [lane EXCEPT !.skipped = @ \ {m.index}]
  ELSE [lane EXCEPT !.skipped = KeepSkipped(@, lane.index .. m.index - 1),
                    !.index = m.index + 1]

\* The keys slotFor no longer keeps once it has passed over those before m.
Dropped(lane, m) ==
  IF lane.index > m.index THEN {}
  ELSE LET all == lane.skipped \cup (lane.index .. m.index - 1)
       IN  all \ KeepSkipped(lane.skipped, lane.index .. m.index - 1)

TheLane(s, m) == CHOOSE i \in LanesOf(s, m.ratchet) : TRUE

\* openWithState: what the state says to the message, and what it becomes.
StateVerdict(s, m, fresh) ==
  LET f == Facing(s, m, fresh) IN Verdict(f.receiving[TheLane(f, m)], m)

StateAfter(s, m, fresh) ==
  LET f == Facing(s, m, fresh)
      i == TheLane(f, m)
  IN [f EXCEPT !.receiving[i] = Taken(@, m), !.pending = "none", !.oneTimeId = NoKey]

-----------------------------------------------------------------------------
(* The record (archive.zig): the live state, if any, and the shelved ones.   *)

EmptyArchive == [live |-> <<>>, previous |-> <<>>]
States(ar) == ar.live \o ar.previous
Bases(ar) == {States(ar)[i].base : i \in DOMAIN States(ar)}

\* shelve: the oldest of a full shelf makes room.
Shelved(ar) ==
  IF ar.live = <<>> THEN ar
  ELSE [live |-> <<>>,
        previous |-> ar.live \o (IF Len(ar.previous) >= MaxPrevious
                                 THEN Front(ar.previous) ELSE ar.previous)]

Promote(ar, s) == [Shelved(ar) EXCEPT !.live = <<s>>]

PromoteShelved(ar, i, s) == Promote([ar EXCEPT !.previous = RemoveAt(@, i)], s)

\* revive: the state for this base, live already or taken off the shelf.
Revive(ar, base) ==
  IF ar.live # <<>> /\ ar.live[1].base = base THEN ar
  ELSE LET i == SelectInSeq(ar.previous, LAMBDA s : s.base = base)
       IN  PromoteShelved(ar, i, ar.previous[i])

\* Mutant of Decider: only the live state is tried.
DeciderLive(ar, m, fresh) ==
  SelectInSeq(ar.live, LAMBDA s : StateVerdict(s, m, fresh) # "BadMessage")

\* openWithArchive: the live state and then the shelved ones in order, up to
\* the first that opens the message or calls it a replay.
Decider(ar, m, fresh) ==
  SelectInSeq(States(ar), LAMBDA s : StateVerdict(s, m, fresh) # "BadMessage")

\* What the record says to the message; sessionOpen has an empty one refuse all.
ArchiveVerdict(ar, m, fresh) ==
  LET i == Decider(ar, m, fresh) IN
  CASE States(ar) = <<>> -> "NoSession"
    [] States(ar) # <<>> /\ i = 0 -> "BadMessage"
    [] OTHER -> StateVerdict(States(ar)[i], m, fresh)

ArchiveAfter(ar, m, fresh) ==
  LET i == Decider(ar, m, fresh)
      s == StateAfter(States(ar)[i], m, fresh)
  IN  IF i <= Len(ar.live) THEN [ar EXCEPT !.live = <<s>>]
      ELSE PromoteShelved(ar, i - Len(ar.live), s)

-----------------------------------------------------------------------------
Init ==
  /\ archive = [p \in Parties |-> EmptyArchive]
  /\ made = [p \in Parties |-> 0]
  /\ oneTime = [p \in Parties |-> OneTimeIds]
  /\ server = [p \in Parties |-> OneTimeIds]
  /\ network = {}
  /\ opened = [p \in Parties |-> {}]
  /\ trimmed = [p \in Parties |-> {}]
  /\ lanesGone = [p \in Parties |-> {}]
  /\ forgot = [p \in Parties |-> {}]
  /\ last = NoCall

Fresh(p) == <<p, made[p] + 1>>
SignedPreKey(p) == <<p, 0>>

\* The bases the device has, or once had, a state for.
Knew(p) == Bases(archive[p]) \cup forgot[p]

PathsOf(s) == {s.receiving[i].path : i \in DOMAIN s.receiving}
Paths(ar) == UNION {PathsOf(States(ar)[i]) : i \in DOMAIN States(ar)}

\* What p's record becomes, with the history of what fell out of it.
Store(p, ar) ==
  /\ archive' = [archive EXCEPT ![p] = ar]
  /\ forgot' = [forgot EXCEPT ![p] = @ \cup (Bases(archive[p]) \ Bases(ar))]
  /\ lanesGone' = [lanesGone EXCEPT ![p] = @ \cup (Paths(archive[p]) \ Paths(ar))]

\* start: a bundle with a one-time pre-key the server hands out once, or with
\* none; a new base pair and a new ratchet pair.
Start(p) ==
  /\ Cardinality(Knew(Alice) \cup Knew(Bob)) < MaxStarts
  /\ \E id \in server[Peer(p)] \cup {NoKey} :
       LET base == Fresh(p)
           pair == <<p, made[p] + 2>>
       IN
       /\ server' = [server EXCEPT ![Peer(p)] = @ \ {id}]
       /\ Store(p, Promote(archive[p],
                           InitiatorState(base, SignedPreKey(Peer(p)), pair, id)))
  /\ made' = [made EXCEPT ![p] = @ + 2]
  /\ made'[p] <= MaxPairs
  /\ last' = NoCall
  /\ UNCHANGED <<oneTime, network, opened, trimmed>>

\* seal: on the live state unless its handshake went stale; wrapped as a first
\* message until the peer has answered.
Seal(p) ==
  LET s == archive[p].live[1] IN
  /\ Cardinality(network) < MaxMessages
  /\ archive[p].live # <<>>
  /\ s.pending # "stale"
  /\ network' = network \cup
       {[to |-> Peer(p), serial |-> Cardinality(network) + 1,
         kind |-> IF s.pending = "waiting" THEN "first" ELSE "whisper",
         base |-> s.base, oneTimeId |-> s.oneTimeId,
         ratchet |-> s.sending.ratchet, path |-> s.sending.path, index |-> s.sending.index]}
  /\ archive' = [archive EXCEPT ![p].live[1].sending.index = @ + 1]
  /\ last' = NoCall
  /\ UNCHANGED <<made, oneTime, server, opened, trimmed, lanesGone, forgot>>

\* canSendAt: thirty days pass over a handshake nobody answered.
Age(p) ==
  /\ archive[p].live # <<>>
  /\ archive[p].live[1].pending = "waiting"
  /\ archive' = [archive EXCEPT ![p].live[1].pending = "stale"]
  /\ last' = NoCall
  /\ UNCHANGED <<made, oneTime, server, network, opened, trimmed, lanesGone, forgot>>

\* sessionShelve: the host retires the live state.
Shelve(p) ==
  /\ archive[p].live # <<>>
  /\ Store(p, Shelved(archive[p]))
  /\ last' = NoCall
  /\ UNCHANGED <<made, oneTime, server, network, opened, trimmed>>

Refuse(m, fault) ==
  /\ last' = [fault |-> fault, to |-> m.to, serial |-> m.serial]
  /\ UNCHANGED <<archive, made, oneTime, server, network, opened, trimmed, lanesGone, forgot>>

\* openWithArchive's success, on the record `before` that openFirst or the host
\* hands it; what KeepSkipped drops on the way is remembered as trimmed.
Accept(p, m, before) ==
  LET fresh == Fresh(p)
      decider == States(before)[Decider(before, m, fresh)]
      faced == Facing(decider, m, fresh)
      lane == faced.receiving[TheLane(faced, m)] IN
  /\ ArchiveVerdict(before, m, fresh) = "none"
  /\ Store(p, ArchiveAfter(before, m, fresh))
  /\ made' = [made EXCEPT ![p] = IF faced = decider THEN @ ELSE @ + 1]
  /\ made'[p] <= MaxPairs
  /\ opened' = [opened EXCEPT ![p] = @ \cup {m.serial}]
  /\ trimmed' = [trimmed EXCEPT ![p] = @ \cup
       {<<lane.path, i>> : i \in Dropped(lane, m)}]
  /\ last' = [fault |-> "none", to |-> p, serial |-> m.serial]
  /\ UNCHANGED <<server, network>>

\* sessionOpen, and openWhisper under it.
OpenWhisper(p, m) ==
  /\ m.to = p
  /\ m.kind = "whisper"
  /\ \/ /\ Accept(p, m, archive[p])
        /\ UNCHANGED oneTime
     \/ /\ ArchiveVerdict(archive[p], m, Fresh(p)) # "none"
        /\ Refuse(m, ArchiveVerdict(archive[p], m, Fresh(p)))

\* openFirst: a base the record knows is made live again; a new one needs the
\* pre-keys it names, and the host drops the one-time pre-key afterwards.
OpenFirst(p, m) ==
  LET known == m.base \in Bases(archive[p])
      before == IF known THEN Revive(archive[p], m.base)
                ELSE Promote(archive[p], ResponderState(m.base, SignedPreKey(p)))
      offered == m.oneTimeId \in oneTime[p] \cup {NoKey}
  IN
  /\ m.to = p
  /\ m.kind = "first"
  /\ \/ /\ known \/ offered
        /\ Accept(p, m, before)
        /\ oneTime' = IF known THEN oneTime ELSE [oneTime EXCEPT ![p] = @ \ {m.oneTimeId}]
     \/ /\ known \/ offered
        /\ ArchiveVerdict(before, m, Fresh(p)) # "none"
        /\ Refuse(m, ArchiveVerdict(before, m, Fresh(p)))
     \/ /\ ~ known /\ ~ offered
        /\ Refuse(m, "UnknownKeyId")

Next ==
  \E p \in Parties :
    \/ Start(p)
    \/ Seal(p)
    \/ Age(p)
    \/ Shelve(p)
    \/ \E m \in network : OpenWhisper(p, m)
    \/ \E m \in network : OpenFirst(p, m)

Spec == Init /\ [][Next]_vars

-----------------------------------------------------------------------------
(* Properties. *)

Message(p, serial) == CHOOSE m \in network : m.to = p /\ m.serial = serial

\* No key seals two messages, on either device, in any session, whatever is
\* shelved, revived, opened twice or started again in between.
SealedOnce ==
  \A m1, m2 \in network : m1.path = m2.path /\ m1.index = m2.index => m1 = m2

\* A message is opened a second time only when the record forgot its session
\* and the message names no one-time pre-key: those are gone by then.
OpensOnce ==
  [][last' # NoCall /\ last'.fault = "none" /\ last'.serial \in opened[last'.to] =>
       LET m == Message(last'.to, last'.serial)
       IN  m.oneTimeId = NoKey /\ m.base \in forgot[m.to]]_vars

\* Replay is refused for a reason: the message was opened, or its kept key was
\* trimmed; sessions forgotten, revived or started again are no third one.
ReplayExplained ==
  last.fault = "Replay" =>
    LET m == Message(last.to, last.serial) IN
    \/ m.serial \in opened[m.to]
    \/ <<m.path, m.index>> \in trimmed[m.to]

\* How far the device has come on the receiving chain at this path.
Reached(ar, path) ==
  LET lanes == UNION {Range(States(ar)[i].receiving) : i \in DOMAIN States(ar)}
      here == {l \in lanes : l.path = path}
  IN  IF here = {} THEN 0 ELSE (CHOOSE l \in here : TRUE).index

\* A genuine message that a device cannot open is one whose session or chain it
\* dropped at a limit, or one too far ahead: order, loss and duplicates alone,
\* crossed session starts and revived sessions never make a message unreadable.
RefusalExplained ==
  last.fault \in {"NoSession", "BadMessage", "UnknownKeyId"} =>
    LET m == Message(last.to, last.serial) IN
    \/ m.base \in forgot[m.to] \cup forgot[Peer(m.to)]
    \/ m.path \in lanesGone[m.to]
    \/ m.index - Reached(archive[m.to], m.path) > MaxForwardJump

\* Of the two devices' states for one base one is half a turn ahead of the other:
\* never level, never further apart, however the sessions' starts and turns cross.
RootsAgree ==
  \A i \in DOMAIN States(archive[Alice]), j \in DOMAIN States(archive[Bob]) :
    LET a == States(archive[Alice])[i]
        b == States(archive[Bob])[j]
    IN  a.base = b.base /\ a.base \notin forgot[Alice] \cup forgot[Bob] =>
          \/ IsPrefix(a.root, b.root) /\ Len(b.root) = Len(a.root) + 1
          \/ IsPrefix(b.root, a.root) /\ Len(a.root) = Len(b.root) + 1

\* A message leaves its wrapper only once the peer is known to hold the session.
WrappedUntilAnswered ==
  \A m \in network : m.kind = "whisper" => m.base \in Knew(m.to)
=============================================================================
