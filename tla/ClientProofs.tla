---------------------------- MODULE ClientProofs ----------------------------
(***************************************************************************)
(* The handle shape, for any messages, bundles, calls and bounds, and with  *)
(* no queue.  Two facts carry the argument: what was saved is still in      *)
(* memory unless a commit went over it, so a key or a message that is new   *)
(* to memory was not let out before; and what a call is about to let out is *)
(* in the stores that the host saves first.                                 *)
(***************************************************************************)
EXTENDS Client, TLAPS

-----------------------------------------------------------------------------
(* The inductive invariant. *)

AllStores ==
  [session : Records, pinned : Identities \cup {NoIdentity}, preKeys : SUBSET OneTimeIds,
   pqUsed : BOOLEAN]

Firsts == {m \in Messages : m.kind = "first"}

Working == [at : {"read_keys", "open"}, job : Firsts, existing : Records]
Finishing == [at : {"hand_out"}, job : Messages \cup {NoJob}, key : Keys \cup {NoSealed}]

\* Every variable holds what its declaration says.
TypeOK ==
  /\ memory \in AllStores /\ saved \in AllStores
  /\ call \in [Calls -> {Idle} \cup Working \cup Finishing]
  /\ returned \in [Messages -> Nat] /\ sent \in [Keys -> Nat]
  /\ asides \in Nat

Held == Holdings(memory.session)

\* What was saved is still in memory, or a commit went over it.
SavedIsHeld == Holdings(saved.session) \subseteq Held \cup unseen

LetsOut(c) == call[c].at = "hand_out"

\* A message that was handed out is in what the host saved, one that is on its way
\* to be was not handed out before and is in memory, and is on its way once; all
\* unless a commit went over it.
SendsOnce(k) ==
  \/ <<"sealed", k>> \in unseen
  \/ /\ sent[k] <= 1
     /\ sent[k] # 0 => <<"sealed", k>> \in Holdings(saved.session)
     /\ \A c \in Calls : LetsOut(c) /\ call[c].key = k => sent[k] = 0 /\ <<"sealed", k>> \in Held
     /\ \A c, d \in Calls : LetsOut(c) /\ LetsOut(d) /\ call[c].key = k /\ call[d].key = k => c = d

\* The same of a text.
ReturnsOnce(m) ==
  \/ <<"opened", m.name>> \in unseen
  \/ /\ returned[m] <= 1
     /\ returned[m] # 0 => <<"opened", m.name>> \in Holdings(saved.session)
     /\ \A c \in Calls : LetsOut(c) /\ call[c].job = m =>
          returned[m] = 0 /\ <<"opened", m.name>> \in Held
     /\ \A c, d \in Calls : LetsOut(c) /\ LetsOut(d) /\ call[c].job = m /\ call[d].job = m => c = d

\* A first message can start its session from these stores.
CanStart(stores) ==
  \A m \in Firsts : m.base \notin stores.session.known =>
    \/ m.oneTimeId \in stores.preKeys \cup {NoKey}
    \/ <<"session", m.base>> \in unseen

IInv ==
  /\ TypeOK /\ SavedIsHeld
  /\ \A k \in Keys : SendsOnce(k)
  /\ \A m \in Messages : ReturnsOnce(m)
  /\ CanStart(memory) /\ CanStart(saved)
-----------------------------------------------------------------------------
(* Records, and what they hold. *)

LEMMA HoldingsHas ==
  ASSUME NEW rec
  PROVE  /\ \A b : <<"session", b>> \in Holdings(rec) <=> b \in rec.known
         /\ \A n : <<"opened", n>> \in Holdings(rec) <=> n \in rec.opened
         /\ \A k : <<"sealed", k>> \in Holdings(rec) <=> k \in Keys /\ k[2] < rec.index[k[1]]
BY DEF Holdings

\* A record that knows, has opened and has sealed no less holds no less.
LEMMA HoldsNoLess ==
  ASSUME NEW rec \in Records, NEW new \in Records,
         rec.known \subseteq new.known, rec.opened \subseteq new.opened,
         \A b \in Bases : rec.index[b] <= new.index[b]
  PROVE  Holdings(rec) \subseteq Holdings(new)
<1>1. \A k \in Keys : k[1] \in Bases /\ k[2] \in Int
  BY ClientAssumption DEF Keys
<1>2. \A k \in Keys : rec.index[k[1]] \in Int /\ new.index[k[1]] \in Int
  BY <1>1 DEF Records
<1>3. \A k \in Keys : k[2] < rec.index[k[1]] => k[2] < new.index[k[1]]
  BY <1>1, <1>2
<1>. QED
  BY <1>3 DEF Holdings

\* sessionOpen and sessionOpenFirst.
LEMMA OpenedHolds ==
  ASSUME NEW rec \in Records, NEW m \in Messages
  PROVE  /\ Opened(rec, m) \in Records
         /\ Opened(rec, m).live = m.base /\ m.base \in Bases
         /\ Opened(rec, m).known = rec.known \cup {m.base}
         /\ Opened(rec, m).opened = rec.opened \cup {m.name}
         /\ Holdings(rec) \subseteq Holdings(Opened(rec, m))
<1>1. m.base \in Bases /\ m.name \in {n.name : n \in Messages}
  BY DEF Bases
<1>2. /\ Opened(rec, m) \in Records
      /\ Opened(rec, m).live = m.base
      /\ Opened(rec, m).known = rec.known \cup {m.base}
      /\ Opened(rec, m).opened = rec.opened \cup {m.name}
      /\ Opened(rec, m).index = rec.index
  BY <1>1 DEF Opened, Records
<1>3. \A b \in Bases : rec.index[b] <= Opened(rec, m).index[b]
  BY <1>2 DEF Records
<1>4. Holdings(rec) \subseteq Holdings(Opened(rec, m))
  BY <1>2, <1>3, HoldsNoLess
<1>. QED
  BY <1>1, <1>2, <1>4

\* sessionStart.
LEMMA StartedHolds ==
  ASSUME NEW rec \in Records, NEW s \in Starts
  PROVE  /\ Started(rec, s) \in Records
         /\ Started(rec, s).live = s.base /\ s.base \in Bases
         /\ Started(rec, s).known = rec.known \cup {s.base}
         /\ Holdings(rec) \subseteq Holdings(Started(rec, s))
<1>1. s.base \in Bases
  BY DEF Bases
<1>2. /\ Started(rec, s) \in Records
      /\ Started(rec, s).live = s.base
      /\ Started(rec, s).known = rec.known \cup {s.base}
      /\ Started(rec, s).opened = rec.opened
      /\ Started(rec, s).index = rec.index
  BY <1>1 DEF Started, Records
<1>3. \A b \in Bases : rec.index[b] <= Started(rec, s).index[b]
  BY <1>2 DEF Records
<1>4. Holdings(rec) \subseteq Holdings(Started(rec, s))
  BY <1>2, <1>3, HoldsNoLess
<1>. QED
  BY <1>1, <1>2, <1>4

\* sessionSeal: the key it uses is new to the record.
LEMMA SealedHolds ==
  ASSUME NEW rec \in Records, rec.live # NoBase, rec.index[rec.live] < MaxSeals
  PROVE  /\ Sealed(rec) \in Records
         /\ Sealed(rec).known = rec.known
         /\ Holdings(rec) \subseteq Holdings(Sealed(rec))
         /\ SealKey(rec) \in Keys
         /\ <<"sealed", SealKey(rec)>> \notin Holdings(rec)
         /\ <<"sealed", SealKey(rec)>> \in Holdings(Sealed(rec))
<1>1. rec.live \in Bases /\ rec.index \in [Bases -> Nat]
  BY DEF Records
<1>2. [rec.index EXCEPT ![rec.live] = @ + 1] \in [Bases -> Nat]
  BY <1>1
<1>3. /\ Sealed(rec) \in Records
      /\ Sealed(rec).known = rec.known /\ Sealed(rec).opened = rec.opened
      /\ Sealed(rec).index = [rec.index EXCEPT ![rec.live] = @ + 1]
  BY <1>2 DEF Sealed, Records
<1>4. \A b \in Bases : rec.index[b] <= Sealed(rec).index[b]
  BY <1>1, <1>3
<1>5. Holdings(rec) \subseteq Holdings(Sealed(rec))
  BY <1>3, <1>4, HoldsNoLess
<1>6. rec.index[rec.live] \in 0..MaxSeals - 1
  BY <1>1, ClientAssumption
<1>7. SealKey(rec) \in Keys /\ SealKey(rec)[1] = rec.live /\ SealKey(rec)[2] = rec.index[rec.live]
  BY <1>1, <1>6 DEF SealKey, Keys
<1>8. ~ (rec.index[rec.live] < rec.index[rec.live])
  BY <1>1
<1>9. rec.index[rec.live] < Sealed(rec).index[rec.live]
  BY <1>1, <1>3
<1>. QED
  BY <1>3, <1>5, <1>7, <1>8, <1>9, HoldingsHas

\* sessionShelve.
LEMMA ArchivedHolds ==
  ASSUME NEW rec \in Records
  PROVE  /\ Archived(rec) \in Records
         /\ Archived(rec).known = rec.known
         /\ Holdings(Archived(rec)) = Holdings(rec)
<1>1. /\ Archived(rec) \in Records
      /\ Archived(rec).known = rec.known /\ Archived(rec).opened = rec.opened
      /\ Archived(rec).index = rec.index
  BY DEF Archived, Records
<1>. QED
  BY <1>1 DEF Holdings

\* commit leaves stores whose session and pinned identity are those of the record.
LEMMA CommittedStores ==
  ASSUME TypeOK, NEW rec \in Records, rec.live \in Bases
  PROVE  /\ Committed(rec) \in AllStores
         /\ Committed(rec).session = rec /\ Committed(rec).pinned = Remote(rec)
         /\ Committed(rec).preKeys = memory.preKeys
<1>1. Remote(rec) \in Identities
  BY DEF Remote, Identities
<1>. QED
  BY <1>1 DEF Committed, Store, SaveIdentity, AllStores, TypeOK

\* NoJob and NoSealed are none of what they stand in for.
LEMMA NoneIsNone == NoJob \notin Messages /\ NoSealed \notin Keys
<1>1. NoJob.kind = "seal"
  BY DEF NoJob
<1>2. NoSealed[1] = NoBase
  BY DEF NoSealed
<1>. QED
  BY <1>1, <1>2, CoreAssumption DEF Keys
-----------------------------------------------------------------------------
(* What a step may do to the calls and to what is held.  Nothing is taken     *)
(* from memory but into unseen, and a call that comes to let something out    *)
(* does so with what is new to memory.                                        *)

HoldsOn ==
  /\ unseen \subseteq unseen'
  /\ Held \subseteq Held' \cup unseen'

\* The key or the text that a call is over with is in memory, and was not.
New(h) == h \in unseen' \/ (h \in Held' /\ h \notin Held)

LEMMA SavedStaysHeld ==
  ASSUME SavedIsHeld, HoldsOn, UNCHANGED saved
  PROVE  SavedIsHeld'
BY DEF SavedIsHeld, HoldsOn

\* The calls that let something out are among those that did.
LEMMA SendsStay ==
  ASSUME HoldsOn, UNCHANGED <<saved, sent>>, NEW k \in Keys, SendsOnce(k),
         \A c \in Calls : LetsOut(c)' => call'[c] = call[c]
  PROVE  SendsOnce(k)'
BY DEF SendsOnce, HoldsOn, LetsOut

LEMMA ReturnsStay ==
  ASSUME HoldsOn, UNCHANGED <<saved, returned>>, NEW m \in Messages, ReturnsOnce(m),
         \A c \in Calls : LetsOut(c)' => call'[c] = call[c]
  PROVE  ReturnsOnce(m)'
BY DEF ReturnsOnce, HoldsOn, LetsOut

\* One more call does, with a key that is new.
LEMMA SendsNew ==
  ASSUME HoldsOn, SavedIsHeld, UNCHANGED <<saved, sent>>, NEW k \in Keys, SendsOnce(k),
         sent[k] \in Nat,
         NEW c \in Calls, \A d \in Calls \ {c} : LetsOut(d)' => call'[d] = call[d],
         call'[c].key = k => New(<<"sealed", k>>)
  PROVE  SendsOnce(k)'
<1>1. CASE <<"sealed", k>> \in unseen'
  BY <1>1 DEF SendsOnce
<1>2. CASE <<"sealed", k>> \notin unseen'
  <2>1. <<"sealed", k>> \notin unseen
    BY <1>2 DEF HoldsOn
  <2>2. /\ sent[k] <= 1
        /\ sent[k] # 0 => <<"sealed", k>> \in Holdings(saved.session)
        /\ \A d \in Calls : LetsOut(d) /\ call[d].key = k =>
             sent[k] = 0 /\ <<"sealed", k>> \in Held
        /\ \A d, e \in Calls : LetsOut(d) /\ LetsOut(e) /\ call[d].key = k /\ call[e].key = k => d = e
    BY <2>1 DEF SendsOnce
  <2>3. CASE call'[c].key # k
    <3>1. \A d \in Calls : LetsOut(d)' /\ call'[d].key = k => d # c /\ LetsOut(d) /\ call[d].key = k
      BY <2>3 DEF LetsOut
    <3>. QED
      BY <1>2, <2>2, <3>1 DEF SendsOnce, HoldsOn
  <2>4. CASE call'[c].key = k
    <3>1. <<"sealed", k>> \in Held' /\ <<"sealed", k>> \notin Held
      BY <1>2, <2>4 DEF New
    <3>2. sent[k] = 0
      BY <2>1, <2>2, <3>1 DEF SavedIsHeld
    <3>3. \A d \in Calls : LetsOut(d)' /\ call'[d].key = k => d = c
      BY <2>2, <3>1 DEF LetsOut
    <3>. QED
      BY <2>2, <3>1, <3>2, <3>3 DEF SendsOnce
  <2>. QED
    BY <2>3, <2>4
<1>. QED
  BY <1>1, <1>2

\* One more call does, with a text that is new.
LEMMA ReturnsNew ==
  ASSUME HoldsOn, SavedIsHeld, UNCHANGED <<saved, returned>>, NEW m \in Messages, ReturnsOnce(m),
         returned[m] \in Nat,
         NEW c \in Calls, \A d \in Calls \ {c} : LetsOut(d)' => call'[d] = call[d],
         call'[c].job = m => New(<<"opened", m.name>>)
  PROVE  ReturnsOnce(m)'
<1>1. CASE <<"opened", m.name>> \in unseen'
  BY <1>1 DEF ReturnsOnce
<1>2. CASE <<"opened", m.name>> \notin unseen'
  <2>1. <<"opened", m.name>> \notin unseen
    BY <1>2 DEF HoldsOn
  <2>2. /\ returned[m] <= 1
        /\ returned[m] # 0 => <<"opened", m.name>> \in Holdings(saved.session)
        /\ \A d \in Calls : LetsOut(d) /\ call[d].job = m =>
             returned[m] = 0 /\ <<"opened", m.name>> \in Held
        /\ \A d, e \in Calls : LetsOut(d) /\ LetsOut(e) /\ call[d].job = m /\ call[e].job = m => d = e
    BY <2>1 DEF ReturnsOnce
  <2>3. CASE call'[c].job # m
    <3>1. \A d \in Calls : LetsOut(d)' /\ call'[d].job = m => d # c /\ LetsOut(d) /\ call[d].job = m
      BY <2>3 DEF LetsOut
    <3>. QED
      BY <1>2, <2>2, <3>1 DEF ReturnsOnce, HoldsOn
  <2>4. CASE call'[c].job = m
    <3>1. <<"opened", m.name>> \in Held' /\ <<"opened", m.name>> \notin Held
      BY <1>2, <2>4 DEF New
    <3>2. returned[m] = 0
      BY <2>1, <2>2, <3>1 DEF SavedIsHeld
    <3>3. \A d \in Calls : LetsOut(d)' /\ call'[d].job = m => d = c
      BY <2>2, <3>1 DEF LetsOut
    <3>. QED
      BY <2>2, <3>1, <3>2, <3>3 DEF ReturnsOnce
  <2>. QED
    BY <2>3, <2>4
<1>. QED
  BY <1>1, <1>2

\* What a step in which the call c comes to `to` has to show, when nothing is saved.
LEMMA MovedTo ==
  ASSUME IInv, NEW c \in Calls, NEW to \in {Idle} \cup Working \cup Finishing, Moves(c, to),
         UNCHANGED <<saved, returned, sent, asides>>, memory' \in AllStores, HoldsOn,
         CanStart(memory)',
         to \in Finishing =>
           /\ to.key \in Keys => New(<<"sealed", to.key>>)
           /\ to.job \in Messages => New(<<"opened", to.job.name>>)
  PROVE  IInv'
<1>1. call' = [call EXCEPT ![c] = to] /\ call \in [Calls -> {Idle} \cup Working \cup Finishing]
  BY DEF Moves, IInv, TypeOK
<1>2. call'[c] = to /\ \A d \in Calls \ {c} : call'[d] = call[d]
  BY <1>1
<1>3. TypeOK'
  BY <1>1 DEF IInv, TypeOK
<1>4. SavedIsHeld'
  BY SavedStaysHeld DEF IInv
<1>5. CanStart(saved)'
  BY DEF IInv, CanStart, HoldsOn
<1>6. CASE to \in Finishing
  <2>1. ASSUME NEW k \in Keys  PROVE SendsOnce(k)'
    <3>1. call'[c].key = k => New(<<"sealed", k>>)
      BY <1>2, <1>6
    <3>2. SendsOnce(k) /\ SavedIsHeld /\ sent[k] \in Nat
      BY DEF IInv, TypeOK
    <3>. QED
      BY <1>2, <3>1, <3>2, SendsNew
  <2>2. ASSUME NEW m \in Messages  PROVE ReturnsOnce(m)'
    <3>1. call'[c].job = m => New(<<"opened", m.name>>)
      BY <1>2, <1>6
    <3>2. ReturnsOnce(m) /\ SavedIsHeld /\ returned[m] \in Nat
      BY DEF IInv, TypeOK
    <3>. QED
      BY <1>2, <3>1, <3>2, ReturnsNew
  <2>. QED
    BY <1>3, <1>4, <1>5, <2>1, <2>2 DEF IInv
<1>7. CASE to \notin Finishing
  <2>1. ~ LetsOut(c)'
    BY <1>2, <1>7 DEF LetsOut, Idle, Working
  <2>2. \A d \in Calls : LetsOut(d)' => call'[d] = call[d]
    BY <1>2, <2>1
  <2>3. \A k \in Keys : SendsOnce(k)'
    BY <2>2, SendsStay DEF IInv
  <2>4. \A m \in Messages : ReturnsOnce(m)'
    BY <2>2, ReturnsStay DEF IInv
  <2>. QED
    BY <1>3, <1>4, <1>5, <2>3, <2>4 DEF IInv
<1>. QED
  BY <1>6, <1>7
-----------------------------------------------------------------------------
(* The steps. *)

\* A call that is begun and was idle, or waits, lets nothing out.
LEMMA EncryptKeeps ==
  ASSUME IInv, NEW c \in Calls, Encrypt(c)
  PROVE  IInv'
<1>. DEFINE session == memory.session  key == SealKey(session)  to == Done(NoJob, key)
<1>1. memory \in AllStores /\ session \in Records
  BY DEF IInv, TypeOK, AllStores
<1>2. session.live # NoBase /\ session.index[session.live] < MaxSeals
      /\ memory' = Store(memory, Sealed(session)) /\ Moves(c, to)
      /\ UNCHANGED <<saved, returned, sent, asides, unseen>>
  BY DEF Encrypt, history
<1>3. /\ Sealed(session) \in Records
      /\ Sealed(session).known = session.known
      /\ Holdings(session) \subseteq Holdings(Sealed(session))
      /\ key \in Keys
      /\ <<"sealed", key>> \notin Holdings(session)
      /\ <<"sealed", key>> \in Holdings(Sealed(session))
  BY ONLY <1>1, <1>2, SealedHolds
<1>4. memory' \in AllStores /\ memory'.session = Sealed(session)
      /\ memory'.preKeys = memory.preKeys
  BY <1>1, <1>2, <1>3 DEF Store, AllStores
<1>5. HoldsOn /\ New(<<"sealed", key>>)
  BY <1>2, <1>3, <1>4 DEF HoldsOn, Held, New
<1>6. CanStart(memory)'
  BY <1>2, <1>3, <1>4 DEF IInv, CanStart
<1>7. to \in Finishing /\ to.key = key /\ to.job \notin Messages
  BY <1>3, NoneIsNone DEF Done, Finishing
<1>. HIDE DEF to, key, session
<1>. QED
  BY <1>2, <1>4, <1>5, <1>6, <1>7, MovedTo

LEMMA DecryptWhisperKeeps ==
  ASSUME IInv, NEW c \in Calls, NEW m \in Messages, DecryptWhisper(c, m)
  PROVE  IInv'
<1>. DEFINE session == memory.session  result == Opened(session, m)  to == Done(m, NoSealed)
<1>1. TypeOK /\ session \in Records
  BY DEF IInv, TypeOK, AllStores
<1>2. OpenFault(session, m) = "none"
      /\ memory' = Committed(result) /\ Moves(c, to)
      /\ UNCHANGED <<saved, returned, sent, asides, unseen>>
  BY DEF DecryptWhisper, history
<1>3. /\ result \in Records /\ result.live \in Bases
      /\ session.known \subseteq result.known
      /\ m.name \in result.opened
      /\ Holdings(session) \subseteq Holdings(result)
  BY <1>1, OpenedHolds
<1>4. m.name \notin session.opened
  BY <1>2 DEF OpenFault
<1>5. memory' \in AllStores /\ memory'.session = result /\ memory'.preKeys = memory.preKeys
  BY <1>1, <1>2, <1>3, CommittedStores
<1>6. HoldsOn /\ New(<<"opened", m.name>>)
  BY <1>2, <1>3, <1>4, <1>5, HoldingsHas DEF HoldsOn, Held, New
<1>7. CanStart(memory)'
  BY <1>2, <1>3, <1>5 DEF IInv, CanStart
<1>8. to \in Finishing /\ to.key \notin Keys /\ to.job = m
  BY NoneIsNone DEF Done, Finishing
<1>. HIDE DEF to, result, session
<1>. QED
  BY <1>2, <1>5, <1>6, <1>7, <1>8, MovedTo

LEMMA ProcessBundleKeeps ==
  ASSUME IInv, NEW c \in Calls, NEW s \in Starts, ProcessBundle(c, s)
  PROVE  IInv'
<1>. DEFINE session == memory.session  result == Started(session, s)  to == Done(NoJob, NoSealed)
<1>1. TypeOK /\ session \in Records
  BY DEF IInv, TypeOK, AllStores
<1>2. memory' = Committed(result) /\ Moves(c, to)
      /\ UNCHANGED <<saved, returned, sent, asides, unseen>>
  BY DEF ProcessBundle, history
<1>3. /\ result \in Records /\ result.live \in Bases
      /\ session.known \subseteq result.known
      /\ Holdings(session) \subseteq Holdings(result)
  BY <1>1, StartedHolds
<1>4. memory' \in AllStores /\ memory'.session = result /\ memory'.preKeys = memory.preKeys
  BY <1>1, <1>2, <1>3, CommittedStores
<1>5. HoldsOn
  BY <1>2, <1>3, <1>4 DEF HoldsOn, Held
<1>6. CanStart(memory)'
  BY <1>2, <1>3, <1>4 DEF IInv, CanStart
<1>7. to \in Finishing /\ to.key \notin Keys /\ to.job \notin Messages
  BY NoneIsNone DEF Done, Finishing
<1>. HIDE DEF to, result, session
<1>. QED
  BY <1>2, <1>4, <1>5, <1>6, <1>7, MovedTo

\* A step in which a call goes on and memory is only read.
LEMMA OnlyReads ==
  ASSUME IInv, NEW c \in Calls, NEW to \in {Idle} \cup Working, Moves(c, to),
         UNCHANGED <<memory, saved, returned, sent, asides, unseen>>
  PROVE  IInv'
<1>1. to \notin Finishing
  BY DEF Idle, Working, Finishing
<1>2. memory' \in AllStores /\ CanStart(memory)' /\ HoldsOn
  BY DEF IInv, TypeOK, CanStart, HoldsOn, Held
<1>. QED
  BY <1>1, <1>2, MovedTo

LEMMA DecryptFirstKeeps ==
  ASSUME IInv, NEW c \in Calls, NEW m \in Messages, DecryptFirst(c, m)
  PROVE  IInv'
<1>. DEFINE to == [at |-> "read_keys", job |-> m, existing |-> memory.session]
<1>1. to \in Working
  BY DEF DecryptFirst, Working, Firsts, IInv, TypeOK, AllStores
<1>2. Moves(c, to) /\ UNCHANGED <<memory, saved, returned, sent, asides, unseen>>
  BY DEF DecryptFirst, history
<1>. HIDE DEF to
<1>. QED
  BY <1>1, <1>2, OnlyReads

\* What a call that works on a first message has read.
LEMMA WorkingCall ==
  ASSUME TypeOK, NEW c \in Calls, call[c].at \in {"read_keys", "open"}
  PROVE  /\ call[c].job \in Firsts /\ call[c].existing \in Records
         /\ call[c] = [at |-> call[c].at, job |-> call[c].job, existing |-> call[c].existing]
<1>1. call[c] \in {Idle} \cup Working \cup Finishing
  BY DEF TypeOK
<1>2. call[c] \in Working
  BY <1>1 DEF Idle, Working, Finishing
<1>. QED
  BY <1>2 DEF Working

LEMMA ReadKeysKeeps ==
  ASSUME IInv, NEW c \in Calls, ReadKeys(c)
  PROVE  IInv'
<1>. DEFINE to == IF HoldsPreKey(memory, call[c].job) THEN [call[c] EXCEPT !.at = "open"] ELSE Idle
<1>1. Moves(c, to) /\ UNCHANGED <<memory, saved, returned, sent, asides, unseen>>
  BY DEF ReadKeys, history
<1>2. call[c].job \in Firsts /\ call[c].existing \in Records
      /\ call[c] = [at |-> call[c].at, job |-> call[c].job, existing |-> call[c].existing]
  BY WorkingCall DEF ReadKeys, IInv
<1>3. [call[c] EXCEPT !.at = "open"] \in Working
  BY <1>2 DEF Working
<1>4. to \in {Idle} \cup Working
  BY <1>3
<1>. HIDE DEF to
<1>. QED
  BY <1>1, <1>4, OnlyReads

\* The commit of a first message: the session it had loaded may lack what memory
\* holds by then, and the pre-key it takes out is of the session it stores.
LEMMA OpenFirstKeeps ==
  ASSUME IInv, NEW c \in Calls, OpenFirst(c)
  PROVE  IInv'
<1>. DEFINE m == call[c].job
            existing == call[c].existing
            result == Opened(existing, m)
            to == Done(m, NoSealed)
<1>1. TypeOK /\ CanStart(memory)
  BY DEF IInv
<1>2. m \in Firsts /\ m \in Messages /\ existing \in Records /\ UNCHANGED <<saved, returned, sent, asides>>
  BY <1>1, WorkingCall DEF OpenFirst, Firsts
<1>3. CASE ~ (OpenFault(existing, m) = "none" /\ MayCommit(result))
  <2>1. Moves(c, Idle) /\ UNCHANGED <<memory, unseen>>
    BY <1>3 DEF OpenFirst
  <2>. QED
    BY <1>2, <2>1, OnlyReads
<1>4. CASE OpenFault(existing, m) = "none" /\ MayCommit(result)
  <2>1. memory' = Consumed(Committed(result), existing, m)
        /\ unseen' = Unseen(existing) /\ Moves(c, to)
    BY <1>4 DEF OpenFirst
  <2>2. /\ result \in Records /\ result.live = m.base /\ m.base \in Bases
        /\ result.known = existing.known \cup {m.base}
        /\ m.name \in result.opened
        /\ Holdings(existing) \subseteq Holdings(result)
    BY <1>2, OpenedHolds
  <2>3. /\ Committed(result) \in AllStores
        /\ Committed(result).session = result
        /\ Committed(result).preKeys = memory.preKeys
    BY <1>1, <2>2, CommittedStores
  <2>4. /\ memory' \in AllStores /\ memory'.session = result
        /\ memory.preKeys \ {m.oneTimeId} \subseteq memory'.preKeys
    <3>. DEFINE stores == Committed(result)
    <3>. HIDE DEF stores
    <3>1. stores \in AllStores => RemovePreKey(stores, m) \in AllStores
            /\ RemovePreKey(stores, m).session = stores.session
            /\ RemovePreKey(stores, m).preKeys = stores.preKeys \ {m.oneTimeId}
      BY DEF RemovePreKey, AllStores
    <3>2. \A left \in AllStores : MarkUsed(left) \in AllStores
            /\ MarkUsed(left).session = left.session /\ MarkUsed(left).preKeys = left.preKeys
      BY DEF MarkUsed, AllStores
    <3>3. stores \in AllStores /\ stores.session = result /\ stores.preKeys = memory.preKeys
      BY <2>3 DEF stores
    <3>4. memory' = IF Consumes(existing, m) THEN MarkUsed(RemovePreKey(stores, m)) ELSE stores
      BY <2>1 DEF Consumed, stores
    <3>. QED
      BY <3>1, <3>2, <3>3, <3>4
  <2>5. HoldsOn
    BY <2>1, <2>2, <2>4 DEF HoldsOn, Held, Unseen
  <2>6. New(<<"opened", m.name>>)
    <3>1. m.name \notin existing.opened
      BY <1>4 DEF OpenFault
    <3>2. <<"opened", m.name>> \in Held' /\ <<"opened", m.name>> \notin Holdings(existing)
      BY <2>2, <2>4, <3>1, HoldingsHas DEF Held
    <3>. QED
      BY <2>1, <3>2 DEF New, Held, Unseen
  <2>7. CanStart(memory)'
    <3>1. SUFFICES ASSUME NEW n \in Firsts, n.base \notin memory'.session.known
                   PROVE  \/ n.oneTimeId \in memory'.preKeys \cup {NoKey}
                          \/ <<"session", n.base>> \in unseen'
      BY DEF CanStart
    <3>2. n.base # m.base /\ n.base \notin existing.known
      BY <2>2, <2>4, <3>1
    <3>3. n.oneTimeId = NoKey \/ n.oneTimeId # m.oneTimeId
      BY <1>2, <3>2, OneTimeAssumption DEF Firsts
    <3>4. CASE n.base \in memory.session.known
      <4>1. <<"session", n.base>> \in Held /\ <<"session", n.base>> \notin Holdings(existing)
        BY <3>2, <3>4, HoldingsHas DEF Held
      <4>. QED
        BY <2>1, <4>1 DEF Unseen, Held
    <3>5. CASE n.base \notin memory.session.known
      BY <1>1, <2>4, <2>5, <3>3, <3>5 DEF CanStart, HoldsOn
    <3>. QED
      BY <3>4, <3>5
  <2>8. to \in Finishing /\ to.key \notin Keys /\ to.job = m
    BY <1>2, NoneIsNone DEF Done, Finishing
  <2>. HIDE DEF to, result, existing, m
  <2>. QED
    BY <1>2, <2>1, <2>4, <2>5, <2>6, <2>7, <2>8, MovedTo
<1>. QED
  BY <1>3, <1>4

\* The host's steps that leave every call as it stands.
LEMMA CallsStand ==
  ASSUME IInv, UNCHANGED <<saved, call, returned, sent, unseen>>, memory' \in AllStores,
         asides' \in Nat, Held' = Held, CanStart(memory)'
  PROVE  IInv'
<1>1. HoldsOn /\ \A c \in Calls : call'[c] = call[c]
  BY DEF HoldsOn
<1>2. TypeOK'
  BY DEF IInv, TypeOK
<1>3. SavedIsHeld'
  BY <1>1, SavedStaysHeld DEF IInv
<1>4. \A k \in Keys : SendsOnce(k)'
  BY <1>1, SendsStay DEF IInv
<1>5. \A m \in Messages : ReturnsOnce(m)'
  BY <1>1, ReturnsStay DEF IInv
<1>6. CanStart(saved)'
  BY DEF IInv, CanStart
<1>. QED
  BY <1>2, <1>3, <1>4, <1>5, <1>6 DEF IInv

LEMMA ArchiveKeeps ==
  ASSUME IInv, Archive
  PROVE  IInv'
<1>1. memory \in AllStores /\ memory.session \in Records /\ asides \in Nat
  BY DEF IInv, TypeOK, AllStores
<1>2. memory' = Store(memory, Archived(memory.session)) /\ asides' = asides + 1
      /\ UNCHANGED <<saved, call, returned, sent, unseen>>
  BY DEF Archive, history
<1>3. /\ Archived(memory.session) \in Records
      /\ Archived(memory.session).known = memory.session.known
      /\ Holdings(Archived(memory.session)) = Holdings(memory.session)
  BY <1>1, ArchivedHolds
<1>4. memory' \in AllStores /\ memory'.session = Archived(memory.session)
      /\ memory'.preKeys = memory.preKeys
  BY <1>1, <1>2, <1>3 DEF Store, AllStores
<1>5. CanStart(memory)'
  BY <1>2, <1>3, <1>4 DEF IInv, CanStart
<1>6. Held' = Held
  BY <1>3, <1>4 DEF Held
<1>. QED
  BY <1>1, <1>2, <1>4, <1>5, <1>6, CallsStand

LEMMA ApproveKeeps ==
  ASSUME IInv, NEW i \in Identities, Approve(i)
  PROVE  IInv'
<1>1. memory \in AllStores /\ asides \in Nat
  BY DEF IInv, TypeOK
<1>2. memory' = SaveIdentity(memory, i) /\ asides' = asides + 1
      /\ UNCHANGED <<saved, call, returned, sent, unseen>>
  BY DEF Approve, history
<1>3. memory' \in AllStores /\ memory'.session = memory.session
      /\ memory'.preKeys = memory.preKeys
  BY <1>1, <1>2 DEF SaveIdentity, AllStores
<1>4. CanStart(memory)' /\ Held' = Held
  BY <1>2, <1>3 DEF IInv, CanStart, Held
<1>. QED
  BY <1>1, <1>2, <1>3, <1>4, CallsStand

\* The host saves what is in memory, so that what it lets out is in what it saved.
LEMMA HandOutKeeps ==
  ASSUME IInv, NEW c \in Calls, HandOut(c)
  PROVE  IInv'
<1>. DEFINE job == call[c].job  key == call[c].key
<1>1. TypeOK /\ SavedIsHeld /\ CanStart(memory)
  BY DEF IInv
<1>2. /\ LetsOut(c) /\ saved' = memory /\ Moves(c, Idle) /\ UNCHANGED <<memory, unseen, asides>>
      /\ returned' = IF job = NoJob THEN returned ELSE [returned EXCEPT ![job] = @ + 1]
      /\ sent' = IF key = NoSealed THEN sent ELSE [sent EXCEPT ![key] = @ + 1]
  BY DEF HandOut, LetsOut
<1>3. call[c] \in {Idle} \cup Working \cup Finishing
  BY <1>1 DEF TypeOK
<1>4. job \in Messages \cup {NoJob} /\ key \in Keys \cup {NoSealed}
  BY <1>2, <1>3 DEF LetsOut, Idle, Working, Finishing
<1>5. call' = [call EXCEPT ![c] = Idle] /\ call \in [Calls -> {Idle} \cup Working \cup Finishing]
  BY <1>1, <1>2 DEF Moves, TypeOK
<1>6. call'[c] = Idle /\ \A d \in Calls \ {c} : call'[d] = call[d]
  BY <1>5
<1>7. \A d \in Calls : LetsOut(d)' => d # c /\ LetsOut(d) /\ call'[d] = call[d]
  BY <1>6 DEF LetsOut, Idle
<1>8. returned \in [Messages -> Nat] /\ sent \in [Keys -> Nat]
  BY <1>1 DEF TypeOK
<1>9. returned' \in [Messages -> Nat] /\ sent' \in [Keys -> Nat]
  BY <1>2, <1>4, <1>8
<1>10. TypeOK'
  BY <1>1, <1>2, <1>5, <1>9 DEF TypeOK
<1>11. SavedIsHeld'
  BY <1>2 DEF SavedIsHeld, Held
<1>12. CanStart(memory)' /\ CanStart(saved)'
  BY <1>1, <1>2 DEF CanStart
<1>13. Holdings(saved'.session) = Held /\ Held' = Held
  BY <1>2 DEF Held
<1>14. ASSUME NEW k \in Keys, <<"sealed", k>> \notin unseen'
       PROVE  SendsOnce(k)'
  <2>1. /\ sent[k] <= 1
        /\ sent[k] # 0 => <<"sealed", k>> \in Holdings(saved.session)
        /\ \A d \in Calls : LetsOut(d) /\ call[d].key = k =>
             sent[k] = 0 /\ <<"sealed", k>> \in Held
        /\ \A d, e \in Calls : LetsOut(d) /\ LetsOut(e) /\ call[d].key = k /\ call[e].key = k => d = e
    BY <1>2, <1>14 DEF IInv, SendsOnce
  <2>2. CASE key = k
    <3>1. sent[k] = 0 /\ <<"sealed", k>> \in Held
      BY <1>2, <2>1, <2>2
    <3>2. sent'[k] = 1
      BY <1>2, <1>8, <2>2, <3>1, NoneIsNone
    <3>3. \A d \in Calls : LetsOut(d)' => call'[d].key # k
      BY <1>2, <1>7, <2>1, <2>2
    <3>. QED
      BY <1>13, <3>1, <3>2, <3>3 DEF SendsOnce
  <2>3. CASE key # k
    <3>1. sent'[k] = sent[k]
      BY <1>2, <1>4, <1>8, <2>3
    <3>2. sent[k] # 0 => <<"sealed", k>> \in Held
      BY <1>1, <1>2, <1>14, <2>1 DEF SavedIsHeld
    <3>. QED
      BY <1>7, <1>13, <2>1, <3>1, <3>2 DEF SendsOnce
  <2>. QED
    BY <2>2, <2>3
<1>15. ASSUME NEW m \in Messages, <<"opened", m.name>> \notin unseen'
       PROVE  ReturnsOnce(m)'
  <2>1. /\ returned[m] <= 1
        /\ returned[m] # 0 => <<"opened", m.name>> \in Holdings(saved.session)
        /\ \A d \in Calls : LetsOut(d) /\ call[d].job = m =>
             returned[m] = 0 /\ <<"opened", m.name>> \in Held
        /\ \A d, e \in Calls : LetsOut(d) /\ LetsOut(e) /\ call[d].job = m /\ call[e].job = m => d = e
    BY <1>2, <1>15 DEF IInv, ReturnsOnce
  <2>2. CASE job = m
    <3>1. returned[m] = 0 /\ <<"opened", m.name>> \in Held
      BY <1>2, <2>1, <2>2
    <3>2. returned'[m] = 1
      BY <1>2, <1>8, <2>2, <3>1, NoneIsNone
    <3>3. \A d \in Calls : LetsOut(d)' => call'[d].job # m
      BY <1>2, <1>7, <2>1, <2>2
    <3>. QED
      BY <1>13, <3>1, <3>2, <3>3 DEF ReturnsOnce
  <2>3. CASE job # m
    <3>1. returned'[m] = returned[m]
      BY <1>2, <1>4, <1>8, <2>3
    <3>2. returned[m] # 0 => <<"opened", m.name>> \in Held
      BY <1>1, <1>2, <1>15, <2>1 DEF SavedIsHeld
    <3>. QED
      BY <1>7, <1>13, <2>1, <3>1, <3>2 DEF ReturnsOnce
  <2>. QED
    BY <2>2, <2>3
<1>16. \A k \in Keys : SendsOnce(k)'
  BY <1>14 DEF SendsOnce
<1>17. \A m \in Messages : ReturnsOnce(m)'
  BY <1>15 DEF ReturnsOnce
<1>. QED
  BY <1>10, <1>11, <1>12, <1>16, <1>17 DEF IInv

\* What was saved fills the stores again, and every call is gone.
LEMMA RestartKeeps ==
  ASSUME IInv, Restart
  PROVE  IInv'
<1>1. /\ memory' = saved /\ call' = [c \in Calls |-> Idle]
      /\ UNCHANGED <<saved, returned, sent, unseen, asides>>
  BY DEF Restart, history
<1>2. \A c \in Calls : ~ LetsOut(c)'
  BY <1>1 DEF LetsOut, Idle
<1>3. TypeOK'
  BY <1>1 DEF IInv, TypeOK
<1>4. SavedIsHeld' /\ CanStart(memory)' /\ CanStart(saved)'
  BY <1>1 DEF IInv, SavedIsHeld, Held, CanStart
<1>5. \A k \in Keys : SendsOnce(k)'
  BY <1>1, <1>2 DEF IInv, SendsOnce
<1>6. \A m \in Messages : ReturnsOnce(m)'
  BY <1>1, <1>2 DEF IInv, ReturnsOnce
<1>. QED
  BY <1>3, <1>4, <1>5, <1>6 DEF IInv

LEMMA InitHolds == Init => IInv
<1>. SUFFICES ASSUME Init  PROVE IInv
  OBVIOUS
<1>1. NoRecord \in Records
  BY DEF NoRecord, Records
<1>2. memory = EmptyStores /\ saved = EmptyStores /\ EmptyStores \in AllStores
  BY <1>1 DEF Init, EmptyStores, AllStores
<1>3. \A c \in Calls : call[c] = Idle /\ ~ LetsOut(c)
  BY DEF Init, Idle, LetsOut
<1>4. TypeOK
  BY <1>2, ClientAssumption DEF TypeOK, Init
<1>5. SavedIsHeld
  BY <1>2 DEF SavedIsHeld, Held
<1>6. \A k \in Keys : SendsOnce(k)
  BY <1>3 DEF SendsOnce, Init
<1>7. \A m \in Messages : ReturnsOnce(m)
  BY <1>3 DEF ReturnsOnce, Init
<1>8. CanStart(memory) /\ CanStart(saved)
  BY <1>2, CoreAssumption DEF CanStart, EmptyStores, Firsts
<1>. QED
  BY <1>4, <1>5, <1>6, <1>7, <1>8 DEF IInv

LEMMA StepKeeps == IInv /\ [Next]_vars => IInv'
<1>. SUFFICES ASSUME IInv, [Next]_vars  PROVE IInv'
  OBVIOUS
<1>1. CASE UNCHANGED vars
  <2>1. UNCHANGED <<saved, call, returned, sent, unseen, memory, asides>>
    BY <1>1 DEF vars, history
  <2>2. memory' \in AllStores /\ asides' \in Nat /\ Held' = Held /\ CanStart(memory)'
    BY <2>1 DEF IInv, TypeOK, Held, CanStart
  <2>. QED
    BY <2>1, <2>2, CallsStand
<1>2. ASSUME NEW c \in Calls, Encrypt(c)  PROVE IInv'
  BY <1>2, EncryptKeeps
<1>3. ASSUME NEW c \in Calls, ReadKeys(c)  PROVE IInv'
  BY <1>3, ReadKeysKeeps
<1>4. ASSUME NEW c \in Calls, OpenFirst(c)  PROVE IInv'
  BY <1>4, OpenFirstKeeps
<1>5. ASSUME NEW c \in Calls, HandOut(c)  PROVE IInv'
  BY <1>5, HandOutKeeps
<1>6. ASSUME NEW c \in Calls, NEW m \in Messages, DecryptWhisper(c, m)  PROVE IInv'
  BY <1>6, DecryptWhisperKeeps
<1>7. ASSUME NEW c \in Calls, NEW m \in Messages, DecryptFirst(c, m)  PROVE IInv'
  BY <1>7, DecryptFirstKeeps
<1>8. ASSUME NEW c \in Calls, NEW s \in Starts, ProcessBundle(c, s)  PROVE IInv'
  BY <1>8, ProcessBundleKeeps
<1>9. CASE Archive
  BY <1>9, ArchiveKeeps
<1>10. ASSUME NEW i \in Identities, Approve(i)  PROVE IInv'
  BY <1>10, ApproveKeeps
<1>11. CASE Restart
  BY <1>11, RestartKeeps
<1>. QED
  BY <1>1, <1>2, <1>3, <1>4, <1>5, <1>6, <1>7, <1>8, <1>9, <1>10, <1>11 DEF Next

-----------------------------------------------------------------------------
(* The theorems. *)

\* The inductive invariant, which the theorems below read their properties off.
THEOREM MemoryAccountsForAll == Spec => []IInv
BY InitHolds, StepKeeps, PTL DEF Spec

\* Every variable holds what its declaration says: what a commit stores is a record,
\* and what is pinned is the identity of one of its sessions.
THEOREM ClientTypes == Spec => []TypeOK
<1>1. IInv => TypeOK
  BY DEF IInv
<1>. QED
  BY <1>1, MemoryAccountsForAll, PTL

\* encryptMessage in one tick, and exportSession before the message is sent: a
\* message key goes out twice only if a first message's commit went over its use.
THEOREM KeyReuseIsExplained == Spec => []ReuseExplained
<1>1. IInv => ReuseExplained
  <2>1. SUFFICES ASSUME IInv, NEW k \in Keys, sent[k] > 1
                 PROVE  <<"sealed", k>> \in unseen
    BY DEF ReuseExplained
  <2>2. SendsOnce(k) /\ sent[k] \in Nat
    BY <2>1 DEF IInv, TypeOK
  <2>. QED
    BY <2>1, <2>2 DEF SendsOnce
<1>. QED
  BY <1>1, MemoryAccountsForAll, PTL

\* decryptMessage: a text is handed out twice only if a first message's commit went
\* over the session that had opened it.
THEOREM OpeningTwiceIsExplained == Spec => []OpenedTwiceExplained
<1>1. IInv => OpenedTwiceExplained
  <2>1. SUFFICES ASSUME IInv, NEW m \in Messages, returned[m] > 1
                 PROVE  <<"opened", m.name>> \in unseen
    BY DEF OpenedTwiceExplained
  <2>2. ReturnsOnce(m) /\ returned[m] \in Nat
    BY <2>1 DEF IInv, TypeOK
  <2>. QED
    BY <2>1, <2>2 DEF ReturnsOnce
<1>. QED
  BY <1>1, MemoryAccountsForAll, PTL

\* remove_pre_key in the tick of commit: a first message without its session finds
\* its one-time pre-key, unless another one's commit took the session away.
THEOREM SessionLossIsExplained == Spec => []LostSessionExplained
<1>1. IInv => LostSessionExplained
  BY DEF IInv, CanStart, Firsts, LostSessionExplained
<1>. QED
  BY <1>1, MemoryAccountsForAll, PTL

\* Only a commit that was trusted when it was made, the host by import_identity, and
\* a restart write the pinned identity.
LEMMA WhoPins ==
  ASSUME TypeOK, [Next]_vars
  PROVE  [memory.pinned \in {NoIdentity, memory'.pinned} \/ asides' # asides \/ Restart]_vars
<1>1. CASE UNCHANGED vars
  BY <1>1
<1>2. memory \in AllStores /\ memory.session \in Records /\ asides \in Nat
      /\ call \in [Calls -> {Idle} \cup Working \cup Finishing]
  BY DEF TypeOK, AllStores
<1>3. \A rec \in Records : rec.live \in Bases /\ MayCommit(rec) =>
        memory.pinned \in {NoIdentity, Committed(rec).pinned}
  BY CommittedStores DEF MayCommit, Trusts
<1>4. ASSUME NEW c \in Calls, Encrypt(c)  PROVE memory'.pinned = memory.pinned
  BY <1>2, <1>4 DEF Encrypt, Store, AllStores
<1>5. ASSUME NEW c \in Calls, ReadKeys(c)  PROVE memory'.pinned = memory.pinned
  BY <1>5 DEF ReadKeys
<1>6. ASSUME NEW c \in Calls, OpenFirst(c)
      PROVE  memory.pinned \in {NoIdentity, memory'.pinned}
  <2>. DEFINE m == call[c].job  result == Opened(call[c].existing, m)
  <2>1. m \in Messages /\ call[c].existing \in Records
    BY <1>6, WorkingCall DEF OpenFirst, Firsts
  <2>2. result \in Records /\ result.live \in Bases
    BY <2>1, OpenedHolds
  <2>3. \A stores \in AllStores : Consumed(stores, call[c].existing, m).pinned = stores.pinned
    BY DEF Consumed, MarkUsed, RemovePreKey, AllStores
  <2>4. Committed(result) \in AllStores
    BY <2>2, CommittedStores
  <2>. QED
    BY <1>3, <1>6, <2>2, <2>3, <2>4 DEF OpenFirst
<1>7. ASSUME NEW c \in Calls, HandOut(c)  PROVE memory'.pinned = memory.pinned
  BY <1>7 DEF HandOut
<1>8. ASSUME NEW c \in Calls, NEW m \in Messages, DecryptWhisper(c, m)
      PROVE  memory.pinned \in {NoIdentity, memory'.pinned}
  BY <1>2, <1>3, <1>8, OpenedHolds DEF DecryptWhisper
<1>9. ASSUME NEW c \in Calls, NEW m \in Messages, DecryptFirst(c, m)
      PROVE  memory'.pinned = memory.pinned
  BY <1>9 DEF DecryptFirst
<1>10. ASSUME NEW c \in Calls, NEW s \in Starts, ProcessBundle(c, s)
       PROVE  memory.pinned \in {NoIdentity, memory'.pinned}
  <2>1. Started(memory.session, s) \in Records /\ Started(memory.session, s).live = s.base
        /\ s.base \in Bases
    BY <1>2, StartedHolds
  <2>2. MayCommit(Started(memory.session, s))
    BY <1>10, <2>1 DEF ProcessBundle, MayCommit, Remote
  <2>. QED
    BY <1>3, <1>10, <2>1, <2>2 DEF ProcessBundle
<1>11. CASE Archive
  BY <1>2, <1>11 DEF Archive
<1>12. ASSUME NEW i \in Identities, Approve(i)  PROVE asides' # asides
  BY <1>2, <1>12 DEF Approve
<1>. QED
  BY <1>1, <1>4, <1>5, <1>6, <1>7, <1>8, <1>9, <1>10, <1>11, <1>12 DEF Next

\* commit checks the identity in the tick that saves it: no call replaces a pinned
\* identity, whatever was checked before an await.
THEOREM PinsAreKept == Spec => PinKept
BY MemoryAccountsForAll, ClientTypes, WhoPins, PTL DEF Spec, PinKept
=============================================================================
