----------------------------- MODULE HostProofs -----------------------------
(***************************************************************************)
(* The session calls of the packages behind one queue, for any messages,    *)
(* bundles, identities and bounds.  The queue and the order of the store    *)
(* accesses in each call are the whole argument: a call still holds the     *)
(* record that is stored until it stores the next one, so every store is    *)
(* one step of the core on the record as it is (RecordCell), and what a     *)
(* call is still to do is safe to lose at any point.                        *)
(***************************************************************************)
EXTENDS Host, FiniteSetTheorems, TLAPS

-----------------------------------------------------------------------------
(* The inductive invariant. *)

\* The queue.
Alone == \A c, d \in Calls : call[c] # Idle /\ call[d] # Idle => c = d

BeforeStore == {"load_keys", "core", "pin", "store"}
AfterTheStore == {"drop_key", "mark_used", "return"}

\* The record a call loaded is the one in the store until the call stores its own,
\* and then that one is.
HoldsTheRecord(c) ==
  /\ call[c].at \in BeforeStore => record = call[c].record
  /\ call[c].at \in AfterTheStore => record = CoreResult(call[c].record, call[c].job)

\* What the core or the first check has found is still so.
StillMay(c) ==
  /\ call[c].job.kind = "start" /\ call[c].at \in {"load"} \cup BeforeStore =>
       call[c].job.base \notin record.known
  /\ call[c].at \in {"pin", "store"} => CoreFault(call[c].record, call[c].job) = "none"
  /\ call[c].at \in BeforeStore \cup AfterTheStore /\ call[c].job.kind = "seal" =>
       call[c].record.live \in Bases
  /\ call[c].at \in {"load_keys", "drop_key", "mark_used"} => call[c].job.kind = "first"

StillTrusted(c) ==
  /\ call[c].at \in {"load", "core", "pin"} /\ call[c].job.kind = "start" =>
       Trusted(IdentityOf[call[c].job.base])
  /\ call[c].at = "pin" => Trusted(Remote(CoreResult(call[c].record, call[c].job)))
  /\ call[c].at = "store" /\ call[c].job.kind # "seal" =>
       pinned = IdentityOf[call[c].job.base]
  /\ call[c].at = "pin" => call[c].job.kind # "seal"

\* A text that is on its way was not handed out before.
NotReturnedYet(c) ==
  call[c].at \in {"pin", "store"} \cup AfterTheStore /\ call[c].job \in Messages =>
    returned[call[c].job] = 0

\* The keys handed out are behind the chains of a record.
SentBelow(rec) == \A s \in sent : s[1][1] \in Bases /\ s[1][2] < rec.index[s[1][1]]

HoldsOn(c) ==
  /\ HoldsTheRecord(c) /\ StillMay(c) /\ StillTrusted(c) /\ NotReturnedYet(c)
  /\ call[c].at \in BeforeStore \cup AfterTheStore => SentBelow(call[c].record)

CallsHoldOn == \A c \in Calls : call[c] # Idle => HoldsOn(c)

LiveOnceUsed == record = NoRecord \/ record.live \in Bases

ReturnedAreOpened == \A m \in Messages : returned[m] # 0 => m.name \in record.opened

PinsArePinned == pins = IF pinned = NoIdentity THEN {} ELSE {pinned}

IInv ==
  /\ TypeOK /\ Alone /\ CallsHoldOn /\ LiveOnceUsed
  /\ SentBelow(record) /\ KeysSentOnce
  /\ FirstMessageRestarts
  /\ ReturnedAreOpened /\ ReturnedOnce
  /\ PinsArePinned /\ SessionsArePinned
-----------------------------------------------------------------------------
(* What the core's calls do to a record. *)

\* The kinds tell the jobs apart, and all but a seal are of a session.
LEMMA JobKinds ==
  ASSUME NEW job \in Jobs
  PROVE  /\ job.kind \in {"first", "whisper", "start", "seal"}
         /\ job \in Messages <=> job.kind \in {"first", "whisper"}
         /\ job \in Starts <=> job.kind = "start"
         /\ job.kind # "seal" => job.base \in Bases
<1>1. CASE job \in Messages
  BY <1>1, CoreAssumption DEF Bases
<1>2. CASE job \in Starts
  BY <1>2, CoreAssumption DEF Bases
<1>3. CASE job = SealJob
  <2>1. job.kind = "seal"
    BY <1>3 DEF SealJob
  <2>2. job \notin Messages /\ job \notin Starts
    BY <2>1, CoreAssumption
  <2>. QED
    BY <2>1, <2>2
<1>. QED
  BY <1>1, <1>2, <1>3 DEF Jobs

LEMMA OpenedGrows ==
  ASSUME NEW rec \in Records, NEW m \in Messages
  PROVE  /\ Opened(rec, m) \in Records
         /\ Opened(rec, m).live = m.base
         /\ Opened(rec, m).known = rec.known \cup {m.base}
         /\ Opened(rec, m).opened = rec.opened \cup {m.name}
         /\ Opened(rec, m).index = rec.index
         /\ WellFormed(rec) => WellFormed(Opened(rec, m))
<1>1. m.base \in Bases /\ m.name \in {n.name : n \in Messages}
  BY DEF Bases
<1>2. /\ Opened(rec, m) \in Records
      /\ Opened(rec, m).live = m.base
      /\ Opened(rec, m).known = rec.known \cup {m.base}
      /\ Opened(rec, m).opened = rec.opened \cup {m.name}
      /\ Opened(rec, m).index = rec.index
  BY <1>1 DEF Opened, Records
<1>3. WellFormed(rec) => WellFormed(Opened(rec, m))
  BY <1>1, <1>2, CoreAssumption DEF WellFormed
<1>. QED
  BY <1>2, <1>3

LEMMA StartedGrows ==
  ASSUME NEW rec \in Records, NEW s \in Starts
  PROVE  /\ Started(rec, s) \in Records
         /\ Started(rec, s).live = s.base
         /\ Started(rec, s).known = rec.known \cup {s.base}
         /\ Started(rec, s).opened = rec.opened
         /\ Started(rec, s).index = rec.index
         /\ WellFormed(rec) => WellFormed(Started(rec, s))
<1>1. s.base \in Bases
  BY DEF Bases
<1>2. /\ Started(rec, s) \in Records
      /\ Started(rec, s).live = s.base
      /\ Started(rec, s).known = rec.known \cup {s.base}
      /\ Started(rec, s).opened = rec.opened
      /\ Started(rec, s).index = rec.index
  BY <1>1 DEF Started, Records
<1>3. WellFormed(rec) => WellFormed(Started(rec, s))
  BY <1>1, <1>2 DEF WellFormed
<1>. QED
  BY <1>2, <1>3

LEMMA SealedGrows ==
  ASSUME NEW rec \in Records, rec.live \in Bases
  PROVE  /\ Sealed(rec) \in Records
         /\ Sealed(rec).live = rec.live
         /\ Sealed(rec).known = rec.known
         /\ Sealed(rec).opened = rec.opened
         /\ Sealed(rec).index = [rec.index EXCEPT ![rec.live] = @ + 1]
         /\ WellFormed(rec) => WellFormed(Sealed(rec))
<1>1. rec.index \in [Bases -> Nat]
  BY DEF Records
<1>2. [rec.index EXCEPT ![rec.live] = @ + 1] \in [Bases -> Nat]
  BY <1>1
<1>3. /\ Sealed(rec) \in Records
      /\ Sealed(rec).live = rec.live
      /\ Sealed(rec).known = rec.known
      /\ Sealed(rec).opened = rec.opened
      /\ Sealed(rec).index = [rec.index EXCEPT ![rec.live] = @ + 1]
  BY <1>2 DEF Sealed, Records
<1>4. WellFormed(rec) => WellFormed(Sealed(rec))
  BY <1>1, <1>3, CoreAssumption DEF WellFormed
<1>. QED
  BY <1>3, <1>4

\* A core call on a record only ever adds to it.
LEMMA ResultGrows ==
  ASSUME NEW rec \in Records, NEW job \in Jobs, job.kind = "seal" => rec.live \in Bases,
         NEW result, result = CoreResult(rec, job)
  PROVE  /\ result \in Records
         /\ result.live \in Bases
         /\ result.known = IF job.kind = "seal" THEN rec.known ELSE rec.known \cup {job.base}
         /\ rec.opened \subseteq result.opened
         /\ job \in Messages => job.name \in result.opened
         /\ \A b \in Bases : rec.index[b] <= result.index[b]
         /\ job.kind = "seal" => rec.index[rec.live] < result.index[rec.live]
         /\ job.kind # "seal" => result.live = job.base
         /\ WellFormed(rec) => WellFormed(result)
<1>0. rec.index \in [Bases -> Nat]
  BY DEF Records
<1>1. CASE job.kind = "seal"
  <2>1. result = Sealed(rec)
    BY <1>1 DEF CoreResult
  <2>2. job \notin Messages
    BY <1>1, JobKinds
  <2>3. /\ result \in Records /\ result.live = rec.live /\ result.known = rec.known
        /\ result.opened = rec.opened
        /\ result.index = [rec.index EXCEPT ![rec.live] = @ + 1]
        /\ WellFormed(rec) => WellFormed(result)
    BY <1>1, <2>1, SealedGrows
  <2>4. \A b \in Bases : rec.index[b] <= result.index[b]
    BY <1>0, <1>1, <2>3
  <2>5. rec.index[rec.live] < result.index[rec.live]
    BY <1>0, <1>1, <2>3
  <2>. QED
    BY <1>1, <2>2, <2>3, <2>4, <2>5
<1>2. CASE job.kind = "start"
  <2>1. result = Started(rec, job)
    BY <1>2 DEF CoreResult
  <2>2. job \notin Messages /\ job \in Starts /\ job.base \in Bases
    BY <1>2, JobKinds
  <2>3. /\ result \in Records /\ result.live = job.base
        /\ result.known = rec.known \cup {job.base}
        /\ result.opened = rec.opened /\ result.index = rec.index
        /\ WellFormed(rec) => WellFormed(result)
    BY <2>1, <2>2, StartedGrows
  <2>4. \A b \in Bases : rec.index[b] <= result.index[b]
    BY <1>0, <2>3
  <2>. QED
    BY <1>2, <2>2, <2>3, <2>4
<1>3. CASE job.kind \in {"first", "whisper"}
  <2>1. result = Opened(rec, job)
    BY <1>3 DEF CoreResult
  <2>2. job \in Messages /\ job.base \in Bases
    BY <1>3, JobKinds
  <2>3. /\ result \in Records /\ result.live = job.base
        /\ result.known = rec.known \cup {job.base}
        /\ result.opened = rec.opened \cup {job.name} /\ result.index = rec.index
        /\ WellFormed(rec) => WellFormed(result)
    BY <2>1, <2>2, OpenedGrows
  <2>4. \A b \in Bases : rec.index[b] <= result.index[b]
    BY <1>0, <2>3
  <2>. QED
    BY <1>3, <2>2, <2>3, <2>4
<1>. QED
  BY <1>1, <1>2, <1>3, JobKinds
-----------------------------------------------------------------------------
(* Steps. *)

\* The queue: while c is in a call no other is, and what holds of c's holds of all.
LEMMA OnlyOne ==
  ASSUME IInv, NEW c \in Calls, NEW to \in CallStates, Moves(c, to),
         \A d \in Calls \ {c} : call[d] = Idle,
         to # Idle => HoldsOn(c)'
  PROVE  call' \in [Calls -> CallStates] /\ call'[c] = to /\ Alone' /\ CallsHoldOn'
<1>1. call \in [Calls -> CallStates]
  BY DEF IInv, TypeOK
<1>2. call' = [call EXCEPT ![c] = to]
  BY DEF Moves
<1>3. call' \in [Calls -> CallStates] /\ call'[c] = to
  BY <1>1, <1>2
<1>4. \A d \in Calls \ {c} : call'[d] = Idle
  BY <1>1, <1>2
<1>5. Alone'
  BY <1>4 DEF Alone
<1>6. CallsHoldOn'
  BY <1>3, <1>4 DEF CallsHoldOn
<1>. QED
  BY <1>3, <1>5, <1>6

LEMMA OthersIdle ==
  ASSUME IInv, NEW c \in Calls, call[c] # Idle
  PROVE  \A d \in Calls \ {c} : call[d] = Idle
BY DEF IInv, Alone

\* What a step that stores nothing has to show.
LEMMA StoresNothing ==
  ASSUME IInv, UNCHANGED <<store, history>>,
         call' \in [Calls -> CallStates], Alone', CallsHoldOn'
  PROVE  IInv'
BY DEF IInv, TypeOK, LiveOnceUsed, SentBelow, KeysSentOnce, FirstMessageRestarts,
       ReturnedAreOpened, ReturnedOnce, PinsArePinned, SessionsArePinned, store, history

LEMMA IdleFits == Idle \in CallStates
BY DEF CallStates

LEMMA ThrowsKeeps ==
  ASSUME IInv, NEW c \in Calls, NEW fault, Throws(c, fault),
         \A d \in Calls \ {c} : call[d] = Idle
  PROVE  IInv'
<1>1. Moves(c, Idle) /\ UNCHANGED <<store, history>>
  BY DEF Throws
<1>2. call' \in [Calls -> CallStates] /\ Alone' /\ CallsHoldOn'
  BY <1>1, IdleFits, OnlyOne
<1>. QED
  BY <1>1, <1>2, StoresNothing

LEMMA BeginKeeps ==
  ASSUME OneQueue, IInv, NEW c \in Calls, NEW job \in Jobs, Begin(c, job)
  PROVE  IInv'
<1>1. \A d \in Calls : call[d] = Idle
  BY DEF Begin, MayBegin
<1>2. CASE job.kind \in {"first", "start"} /\ ~ Trusted(IdentityOf[job.base])
  <2>1. Throws(c, Fault("UntrustedIdentity", job, record))
    BY <1>2 DEF Begin
  <2>. QED
    BY <1>1, <2>1, ThrowsKeeps
<1>3. CASE ~ (job.kind \in {"first", "start"} /\ ~ Trusted(IdentityOf[job.base]))
  <2>. DEFINE to == [at |-> "load", job |-> job]
  <2>1. Moves(c, to) /\ UNCHANGED <<store, history>>
    BY <1>3 DEF Begin
  <2>2. to \in CallStates
    BY DEF CallStates
  <2>3. call'[c] = to
    BY <2>1 DEF Moves, IInv, TypeOK
  <2>4. job.kind = "start" => job.base \notin record'.known /\ Trusted(IdentityOf[job.base])'
    BY <1>3, <2>1 DEF Begin, Fresh, store, Trusted
  <2>5. HoldsOn(c)'
    BY <2>3, <2>4 DEF HoldsOn, HoldsTheRecord, StillMay, StillTrusted, NotReturnedYet,
         BeforeStore, AfterTheStore
  <2>6. call' \in [Calls -> CallStates] /\ Alone' /\ CallsHoldOn'
    BY <1>1, <2>1, <2>2, <2>5, OnlyOne
  <2>. QED
    BY <2>1, <2>6, StoresNothing
<1>. QED
  BY <1>2, <1>3

\* What a call knows of its own job and record.
LEMMA CallKnows ==
  ASSUME IInv, NEW c \in Calls, call[c] # Idle
  PROVE  /\ call[c].job \in Jobs
         /\ HoldsOn(c)
         /\ call[c].at \in BeforeStore \cup AfterTheStore =>
              call[c].record \in Records /\ call[c] = [at |-> call[c].at, job |-> call[c].job,
                                                       record |-> call[c].record]
<1>1. call[c] \in CallStates
  BY DEF IInv, TypeOK
<1>2. HoldsOn(c)
  BY DEF IInv, CallsHoldOn
<1>. QED
  BY <1>1, <1>2 DEF CallStates, Idle, BeforeStore, AfterTheStore

LEMMA LoadKeeps ==
  ASSUME IInv, NEW c \in Calls, Load(c)
  PROVE  IInv'
<1>. DEFINE job == call[c].job
<1>1. call[c].at = "load" /\ call[c] # Idle
  BY DEF Load, Idle
<1>2. \A d \in Calls \ {c} : call[d] = Idle
  BY <1>1, OthersIdle
<1>3. job \in Jobs /\ HoldsOn(c)
  BY <1>1, CallKnows
<1>4. CASE record = NoRecord /\ job.kind \in {"whisper", "seal"}
  <2>1. Throws(c, Fault("SessionNotFound", job, record))
    BY <1>4 DEF Load
  <2>. QED
    BY <1>2, <2>1, ThrowsKeeps
<1>5. CASE ~ (record = NoRecord /\ job.kind \in {"whisper", "seal"})
  <2>. DEFINE at == IF job.kind = "first" THEN "load_keys" ELSE "core"
              to == [at |-> at, job |-> job, record |-> record]
  <2>1. Moves(c, to) /\ UNCHANGED <<store, history>>
    BY <1>5 DEF Load
  <2>2. to \in CallStates
    BY <1>3 DEF CallStates, IInv, TypeOK
  <2>3. call'[c] = to
    BY <2>1 DEF Moves, IInv, TypeOK
  <2>4. job.kind = "seal" => record.live \in Bases
    BY <1>5 DEF IInv, LiveOnceUsed
  <2>5. job.kind = "start" => job.base \notin record.known /\ Trusted(IdentityOf[job.base])
    BY <1>1, <1>3 DEF HoldsOn, StillMay, StillTrusted
  <2>6. SentBelow(record) /\ UNCHANGED <<record, pinned, sent>>
    BY <2>1 DEF IInv, store, history
  <2>7. at \in {"load_keys", "core"} /\ (at = "load_keys" => job.kind = "first")
    OBVIOUS
  <2>8. HoldsOn(c)'
    BY <2>3, <2>4, <2>5, <2>6, <2>7 DEF HoldsOn, HoldsTheRecord, StillMay, StillTrusted,
         NotReturnedYet, BeforeStore, AfterTheStore, Trusted, SentBelow
  <2>9. call' \in [Calls -> CallStates] /\ Alone' /\ CallsHoldOn'
    BY <1>2, <2>1, <2>2, <2>8, OnlyOne
  <2>. QED
    BY <2>1, <2>9, StoresNothing
<1>. QED
  BY <1>4, <1>5

LEMMA LoadKeysKeeps ==
  ASSUME IInv, NEW c \in Calls, LoadKeys(c)
  PROVE  IInv'
<1>. DEFINE job == call[c].job
<1>1. call[c].at = "load_keys" /\ call[c] # Idle
  BY DEF LoadKeys, Idle
<1>2. \A d \in Calls \ {c} : call[d] = Idle
  BY <1>1, OthersIdle
<1>3. job \in Jobs /\ HoldsOn(c) /\ call[c].record \in Records
      /\ call[c] = [at |-> "load_keys", job |-> job, record |-> call[c].record]
  BY <1>1, CallKnows DEF BeforeStore, AfterTheStore
<1>4. CASE KeysLoaded(job)
  <2>. DEFINE to == [at |-> "core", job |-> job, record |-> call[c].record]
  <2>1. [call[c] EXCEPT !.at = "core"] = to
    BY <1>3
  <2>2. Moves(c, to) /\ UNCHANGED <<store, history>>
    BY <1>4, <2>1 DEF LoadKeys
  <2>3. to \in CallStates
    BY <1>3 DEF CallStates
  <2>4. call'[c] = to
    BY <2>2 DEF Moves, IInv, TypeOK
  <2>5. /\ record = call[c].record /\ SentBelow(call[c].record)
        /\ job.kind = "start" => job.base \notin record.known
        /\ job.kind = "seal" => call[c].record.live \in Bases
    BY <1>1, <1>3 DEF HoldsOn, HoldsTheRecord, StillMay, BeforeStore
  <2>6. job.kind # "start"
    BY <1>1, <1>3 DEF HoldsOn, StillMay
  <2>7. HoldsOn(c)'
    BY <2>2, <2>4, <2>5, <2>6 DEF HoldsOn, HoldsTheRecord, StillMay, StillTrusted,
         NotReturnedYet, BeforeStore, AfterTheStore, SentBelow, store, history
  <2>8. call' \in [Calls -> CallStates] /\ Alone' /\ CallsHoldOn'
    BY <1>2, <2>2, <2>3, <2>7, OnlyOne
  <2>. QED
    BY <2>2, <2>8, StoresNothing
<1>5. CASE ~ KeysLoaded(job)
  <2>1. Throws(c, Fault("InvalidKeyId", job, call[c].record))
    BY <1>5 DEF LoadKeys
  <2>. QED
    BY <1>2, <2>1, ThrowsKeeps
<1>. QED
  BY <1>4, <1>5

LEMMA CoreKeeps ==
  ASSUME IInv, NEW c \in Calls, Core(c),
         NEW job, job = call[c].job, NEW rec, rec = call[c].record,
         NEW result, result = CoreResult(rec, job)
  PROVE  IInv'
<1>0. result = CoreResult(rec, job)
  OBVIOUS
<1>1. call[c].at = "core" /\ call[c] # Idle
  BY DEF Core, Idle
<1>2. \A d \in Calls \ {c} : call[d] = Idle
  BY <1>1, OthersIdle
<1>3. job \in Jobs /\ HoldsOn(c) /\ rec \in Records
      /\ call[c] = [at |-> "core", job |-> job, record |-> rec]
  BY <1>1, CallKnows DEF BeforeStore, AfterTheStore
<1>4. \/ \E fault : Throws(c, fault)
      \/ /\ CoreFault(rec, job) = "none"
         /\ job.kind # "start" => Trusted(Remote(result))
         /\ Moves(c, [call[c] EXCEPT !.at = AfterCore(job)])
         /\ UNCHANGED <<store, history>>
  BY DEF Core
<1>5. CASE \E fault : Throws(c, fault)
  BY <1>2, <1>5, ThrowsKeeps
<1>6. ASSUME CoreFault(rec, job) = "none",
             job.kind # "start" => Trusted(Remote(result)),
             Moves(c, [call[c] EXCEPT !.at = AfterCore(job)]),
             UNCHANGED <<store, history>>
      PROVE  IInv'
  <2>. DEFINE to == [at |-> AfterCore(job), job |-> job, record |-> rec]
  <2>1. [call[c] EXCEPT !.at = AfterCore(job)] = to
    BY <1>3
  <2>2. Moves(c, to)
    BY <1>6, <2>1
  <2>3. AfterCore(job) \in {"pin", "store"} /\ (AfterCore(job) = "store" <=> job.kind = "seal")
    BY DEF AfterCore
  <2>4. to \in CallStates
    BY <1>3, <2>3 DEF CallStates
  <2>5. call'[c] = to
    BY <2>2 DEF Moves, IInv, TypeOK
  <2>6. /\ record = rec /\ SentBelow(rec)
        /\ job.kind = "start" => job.base \notin record.known /\ Trusted(IdentityOf[job.base])
        /\ job.kind = "seal" => rec.live \in Bases
    BY <1>1, <1>3 DEF HoldsOn, HoldsTheRecord, StillMay, StillTrusted, BeforeStore
  <2>7. AfterCore(job) = "pin" => Trusted(Remote(result))
    <3>1. CASE job.kind = "start"
      <4>1. job \in Jobs /\ rec \in Records /\ (job.kind = "seal" => rec.live \in Bases)
        BY <1>3, <2>6
      <4>2. result.live = job.base
        BY ONLY <1>0, <3>1, <4>1, ResultGrows
      <4>. QED
        BY <2>6, <3>1, <4>2 DEF Remote
    <3>. QED
      BY <1>6, <3>1
  <2>8. job \in Messages => returned[job] = 0
    <3>1. ASSUME job \in Messages PROVE job.name \notin record.opened
      <4>1. job.kind \in {"first", "whisper"}
        BY <1>3, <3>1, JobKinds
      <4>2. OpenFault(rec, job) = "none"
        BY <1>6, <4>1 DEF CoreFault
      <4>. QED
        BY <2>6, <4>2 DEF OpenFault
    <3>. QED
      BY <3>1 DEF IInv, ReturnedAreOpened
  <2>9. HoldsOn(c)'
    <3>1. UNCHANGED <<record, pinned, returned, sent>>
      BY <1>6 DEF store, history
    <3>2. HoldsTheRecord(c)' /\ StillMay(c)'
      BY <1>6, <2>3, <2>5, <2>6, <3>1 DEF HoldsTheRecord, StillMay, BeforeStore, AfterTheStore
    <3>3. StillTrusted(c)'
      BY <2>3, <2>5, <2>6, <2>7, <3>1 DEF StillTrusted, Trusted
    <3>4. NotReturnedYet(c)' /\ SentBelow(rec)'
      BY <2>5, <2>6, <2>8, <3>1 DEF NotReturnedYet, SentBelow
    <3>. QED
      BY <2>5, <3>2, <3>3, <3>4 DEF HoldsOn
  <2>10. call' \in [Calls -> CallStates] /\ Alone' /\ CallsHoldOn'
    BY <1>2, <2>2, <2>4, <2>9, OnlyOne
  <2>. QED
    BY <1>6, <2>10, StoresNothing
<1>. QED
  BY <1>4, <1>5, <1>6

LEMMA PinKeeps ==
  ASSUME IInv, NEW c \in Calls, Pin(c),
         NEW job, job = call[c].job, NEW rec, rec = call[c].record,
         NEW result, result = CoreResult(rec, job)
  PROVE  IInv'
<1>1. call[c].at = "pin" /\ call[c] # Idle
  BY DEF Pin, Idle
<1>2. \A d \in Calls \ {c} : call[d] = Idle
  BY <1>1, OthersIdle
<1>3. /\ job \in Jobs /\ rec \in Records
      /\ HoldsOn(c)
      /\ call[c] = [at |-> "pin", job |-> job, record |-> rec]
  BY <1>1, CallKnows DEF BeforeStore, AfterTheStore
<1>4. /\ record = rec /\ SentBelow(rec)
      /\ job.kind # "seal" /\ Trusted(Remote(result)) /\ CoreFault(rec, job) = "none"
      /\ job.kind = "start" => job.base \notin record.known
      /\ job \in Messages => returned[job] = 0
  BY <1>1, <1>3 DEF HoldsOn, HoldsTheRecord, StillMay, StillTrusted, NotReturnedYet, BeforeStore
<1>5. job.base \in Bases /\ job.kind \in {"first", "whisper", "start"}
  BY <1>3, <1>4, JobKinds
<1>6. result = CoreResult(rec, job)
  OBVIOUS
<1>7. job \in Jobs /\ rec \in Records /\ job.kind # "seal"
  BY <1>3, <1>4
<1>8. result.live = job.base
  BY ONLY <1>6, <1>7, ResultGrows
<1>. DEFINE i == IdentityOf[job.base]
<1>9. i \in Identities /\ i # NoIdentity
  BY <1>5, HostAssumption DEF Identities
<1>10. /\ pinned' = i /\ pins' = pins \cup {i} /\ pinned \in {NoIdentity, i}
       /\ UNCHANGED <<record, preKeys, pqUsed, returned, sent, calls, approvals>>
  BY <1>4, <1>8 DEF Pin, Remote, Trusted
<1>. DEFINE to == [at |-> "store", job |-> job, record |-> rec]
<1>11. Moves(c, to)
  <2>1. [call[c] EXCEPT !.at = "store"] = to
    BY <1>3
  <2>. QED
    BY <2>1 DEF Pin
<1>12. to \in CallStates
  BY <1>7 DEF CallStates
<1>13. call'[c] = to
  BY <1>11 DEF Moves, IInv, TypeOK
<1>14. HoldsOn(c)'
  <2>1. HoldsTheRecord(c)' /\ StillMay(c)' /\ StillTrusted(c)'
    BY <1>4, <1>10, <1>13 DEF HoldsTheRecord, StillMay, StillTrusted, BeforeStore, AfterTheStore
  <2>2. NotReturnedYet(c)' /\ SentBelow(rec)'
    BY <1>4, <1>10, <1>13 DEF NotReturnedYet, SentBelow
  <2>. QED
    BY <1>13, <2>1, <2>2 DEF HoldsOn
<1>15. call' \in [Calls -> CallStates] /\ Alone' /\ CallsHoldOn'
  BY <1>2, <1>11, <1>12, <1>14, OnlyOne
<1>16. TypeOK'
  BY <1>9, <1>10, <1>15 DEF IInv, TypeOK
<1>17. PinsArePinned'
  BY <1>9, <1>10 DEF IInv, PinsArePinned
<1>18. SessionsArePinned'
  <2>1. ASSUME approvals = 0, NEW b \in record.known PROVE pinned = i
    <3>1. b \in Bases
      BY DEF IInv, TypeOK, Records
    <3>2. IdentityOf[b] \in Identities /\ IdentityOf[b] = pinned
      BY <2>1, <3>1 DEF IInv, SessionsArePinned, Identities
    <3>. QED
      BY <1>10, <3>2, HostAssumption
  <2>. QED
    BY <1>10, <2>1 DEF IInv, SessionsArePinned
<1>19. LiveOnceUsed' /\ SentBelow(record)' /\ KeysSentOnce' /\ FirstMessageRestarts'
       /\ ReturnedAreOpened' /\ ReturnedOnce'
  BY <1>10 DEF IInv, LiveOnceUsed, SentBelow, KeysSentOnce, FirstMessageRestarts,
       ReturnedAreOpened, ReturnedOnce
<1>. QED
  BY <1>15, <1>16, <1>17, <1>18, <1>19 DEF IInv

LEMMA StoreKeeps ==
  ASSUME IInv, NEW c \in Calls, Store(c),
         NEW job, job = call[c].job, NEW rec, rec = call[c].record,
         NEW result, result = CoreResult(rec, job)
  PROVE  IInv'
<1>1. call[c].at = "store" /\ call[c] # Idle
  BY DEF Store, Idle
<1>2. \A d \in Calls \ {c} : call[d] = Idle
  BY <1>1, OthersIdle
<1>3. /\ job \in Jobs /\ rec \in Records
      /\ HoldsOn(c)
      /\ call[c] = [at |-> "store", job |-> job, record |-> rec]
  BY <1>1, CallKnows DEF BeforeStore, AfterTheStore
<1>4. /\ record = rec /\ SentBelow(rec)
      /\ job.kind = "seal" => rec.live \in Bases
      /\ job.kind # "seal" => pinned = IdentityOf[job.base]
      /\ job \in Messages => returned[job] = 0
  BY <1>1, <1>3 DEF HoldsOn, HoldsTheRecord, StillMay, StillTrusted, NotReturnedYet, BeforeStore
<1>5. result = CoreResult(rec, job)
  OBVIOUS
<1>6. job \in Jobs /\ rec \in Records /\ (job.kind = "seal" => rec.live \in Bases)
  BY <1>3, <1>4
<1>7. /\ result \in Records /\ result.live \in Bases
      /\ rec.opened \subseteq result.opened
      /\ \A b \in Bases : rec.index[b] <= result.index[b]
      /\ WellFormed(rec) => WellFormed(result)
  BY ONLY <1>5, <1>6, ResultGrows
<1>8. result.known = IF job.kind = "seal" THEN rec.known ELSE rec.known \cup {job.base}
  BY ONLY <1>5, <1>6, ResultGrows
<1>9. record' = result /\ UNCHANGED <<pinned, preKeys, pqUsed, history>>
  BY DEF Store
<1>. DEFINE at == AfterStore(rec, job)
            to == [at |-> at, job |-> job, record |-> rec]
<1>10. at \in AfterTheStore /\ (at \in {"drop_key", "mark_used"} => job.kind = "first")
  BY DEF AfterStore, AfterTheStore, Consumes
<1>11. Moves(c, to)
  <2>1. [call[c] EXCEPT !.at = at] = to
    BY <1>3
  <2>. QED
    BY <2>1 DEF Store
<1>12. to \in CallStates
  <2>. HIDE DEF at
  <2>. QED
    BY <1>6, <1>10 DEF CallStates, AfterTheStore
<1>13. call'[c] = to
  BY <1>11 DEF Moves, IInv, TypeOK
<1>14. HoldsOn(c)'
  <2>1. HoldsTheRecord(c)' /\ StillMay(c)' /\ StillTrusted(c)'
    <3>. HIDE DEF at
    <3>. QED
      BY <1>4, <1>5, <1>9, <1>10, <1>13
         DEF HoldsTheRecord, StillMay, StillTrusted, BeforeStore, AfterTheStore
  <2>2. NotReturnedYet(c)' /\ SentBelow(rec)'
    BY <1>4, <1>9, <1>13 DEF NotReturnedYet, SentBelow, history
  <2>. QED
    BY <1>13, <2>1, <2>2 DEF HoldsOn
<1>15. call' \in [Calls -> CallStates] /\ Alone' /\ CallsHoldOn'
  BY <1>2, <1>11, <1>12, <1>14, OnlyOne
<1>16. TypeOK'
  BY <1>4, <1>7, <1>9, <1>15 DEF IInv, TypeOK, history
<1>17. LiveOnceUsed' /\ FirstMessageRestarts'
  BY <1>4, <1>7, <1>8, <1>9 DEF IInv, LiveOnceUsed, FirstMessageRestarts
<1>18. SentBelow(record)'
  <2>1. ASSUME NEW s \in sent PROVE s[1][1] \in Bases /\ s[1][2] < result.index[s[1][1]]
    <3>1. s[1][1] \in Bases /\ s[1][2] \in Nat /\ s[1][2] < rec.index[s[1][1]]
      BY <1>4 DEF IInv, TypeOK, SentBelow
    <3>2. rec.index[s[1][1]] \in Nat /\ result.index[s[1][1]] \in Nat
      BY <1>6, <1>7, <3>1 DEF Records
    <3>3. rec.index[s[1][1]] <= result.index[s[1][1]]
      BY <1>7, <3>1
    <3>. QED
      BY <3>1, <3>2, <3>3
  <2>. QED
    BY <1>9, <2>1 DEF SentBelow, history
<1>19. ReturnedAreOpened'
  BY <1>4, <1>7, <1>9 DEF IInv, ReturnedAreOpened, history
<1>20. SessionsArePinned'
  BY <1>4, <1>8, <1>9 DEF IInv, SessionsArePinned, history
<1>21. KeysSentOnce' /\ ReturnedOnce' /\ PinsArePinned'
  BY <1>9 DEF IInv, KeysSentOnce, ReturnedOnce, PinsArePinned, history
<1>. QED
  BY <1>15, <1>16, <1>17, <1>18, <1>19, <1>20, <1>21 DEF IInv

LEMMA DropKeyKeeps ==
  ASSUME IInv, NEW c \in Calls, DropKey(c),
         NEW job, job = call[c].job, NEW rec, rec = call[c].record,
         NEW result, result = CoreResult(rec, job)
  PROVE  IInv'
<1>1. call[c].at = "drop_key" /\ call[c] # Idle
  BY DEF DropKey, Idle
<1>2. \A d \in Calls \ {c} : call[d] = Idle
  BY <1>1, OthersIdle
<1>3. /\ job \in Jobs /\ rec \in Records
      /\ HoldsOn(c)
      /\ call[c] = [at |-> "drop_key", job |-> job, record |-> rec]
  BY <1>1, CallKnows DEF BeforeStore, AfterTheStore
<1>4. /\ record = result /\ SentBelow(rec) /\ job.kind = "first"
      /\ job \in Messages => returned[job] = 0
  BY <1>1, <1>3 DEF HoldsOn, HoldsTheRecord, StillMay, NotReturnedYet, AfterTheStore
<1>5. job \in Jobs /\ rec \in Records /\ job.kind = "first" /\ result = CoreResult(rec, job)
  BY <1>3, <1>4
<1>6. job.base \in result.known
  <2>1. result.known = IF job.kind = "seal" THEN rec.known ELSE rec.known \cup {job.base}
    BY ONLY <1>5, ResultGrows
  <2>. QED
    BY ONLY <1>5, <2>1
<1>7. job \in Messages
  BY <1>3, <1>4, JobKinds
<1>8. preKeys' = preKeys \ {job.oneTimeId} /\ UNCHANGED <<record, pinned, pqUsed, history>>
  BY DEF DropKey
<1>. DEFINE to == [at |-> "mark_used", job |-> job, record |-> rec]
<1>9. Moves(c, to)
  <2>1. [call[c] EXCEPT !.at = "mark_used"] = to
    BY <1>3
  <2>. QED
    BY <2>1 DEF DropKey
<1>10. to \in CallStates
  BY <1>3 DEF CallStates
<1>11. call'[c] = to
  BY <1>9 DEF Moves, IInv, TypeOK
<1>12. HoldsOn(c)'
  BY <1>4, <1>8, <1>11 DEF HoldsOn, HoldsTheRecord, StillMay, StillTrusted, NotReturnedYet,
       SentBelow, BeforeStore, AfterTheStore, history
<1>13. call' \in [Calls -> CallStates] /\ Alone' /\ CallsHoldOn'
  BY <1>2, <1>9, <1>10, <1>12, OnlyOne
<1>14. FirstMessageRestarts'
  <2>1. ASSUME NEW m \in Messages, m.kind = "first", m.base \notin record.known
        PROVE  m.oneTimeId \in preKeys' \cup {NoKey}
    <3>1. m.oneTimeId \in preKeys \cup {NoKey}
      BY <2>1 DEF IInv, FirstMessageRestarts
    <3>2. m.base # job.base
      BY <1>4, <1>6, <2>1
    <3>. QED
      BY <1>7, <1>8, <3>1, <3>2, OneTimeAssumption
  <2>. QED
    BY <1>8, <2>1 DEF FirstMessageRestarts
<1>15. TypeOK'
  BY <1>8, <1>13 DEF IInv, TypeOK, history
<1>. QED
  BY <1>8, <1>13, <1>14, <1>15 DEF IInv, LiveOnceUsed, SentBelow, KeysSentOnce,
       ReturnedAreOpened, ReturnedOnce, PinsArePinned, SessionsArePinned, history

LEMMA MarkUsedKeeps ==
  ASSUME IInv, NEW c \in Calls, MarkUsed(c),
         NEW job, job = call[c].job, NEW rec, rec = call[c].record
  PROVE  IInv'
<1>1. call[c].at = "mark_used" /\ call[c] # Idle
  BY DEF MarkUsed, Idle
<1>2. \A d \in Calls \ {c} : call[d] = Idle
  BY <1>1, OthersIdle
<1>3. /\ job \in Jobs /\ rec \in Records
      /\ HoldsOn(c)
      /\ call[c] = [at |-> "mark_used", job |-> job, record |-> rec]
  BY <1>1, CallKnows DEF BeforeStore, AfterTheStore
<1>4. /\ record = CoreResult(rec, job) /\ SentBelow(rec) /\ job.kind = "first"
      /\ job \in Messages => returned[job] = 0
  BY <1>1, <1>3 DEF HoldsOn, HoldsTheRecord, StillMay, NotReturnedYet, AfterTheStore
<1>5. pqUsed' = TRUE /\ UNCHANGED <<record, pinned, preKeys, history>>
  BY DEF MarkUsed
<1>. DEFINE to == [at |-> "return", job |-> job, record |-> rec]
<1>6. Moves(c, to)
  <2>1. [call[c] EXCEPT !.at = "return"] = to
    BY <1>3
  <2>. QED
    BY <2>1 DEF MarkUsed
<1>7. to \in CallStates
  BY <1>3 DEF CallStates
<1>8. call'[c] = to
  BY <1>6 DEF Moves, IInv, TypeOK
<1>9. HoldsOn(c)'
  BY <1>4, <1>5, <1>8 DEF HoldsOn, HoldsTheRecord, StillMay, StillTrusted, NotReturnedYet,
       SentBelow, BeforeStore, AfterTheStore, history
<1>10. call' \in [Calls -> CallStates] /\ Alone' /\ CallsHoldOn'
  BY <1>2, <1>6, <1>7, <1>9, OnlyOne
<1>11. TypeOK'
  BY <1>5, <1>10 DEF IInv, TypeOK, history
<1>. QED
  BY <1>5, <1>10, <1>11 DEF IInv, LiveOnceUsed, SentBelow, KeysSentOnce, FirstMessageRestarts,
       ReturnedAreOpened, ReturnedOnce, PinsArePinned, SessionsArePinned, history

LEMMA ReturnTextKeeps ==
  ASSUME IInv, NEW c \in Calls, ReturnText(c),
         NEW job, job = call[c].job, NEW rec, rec = call[c].record,
         NEW result, result = CoreResult(rec, job)
  PROVE  IInv'
<1>1. call[c].at = "return" /\ call[c] # Idle /\ job.kind \in {"first", "whisper"}
  BY DEF ReturnText, Idle
<1>2. \A d \in Calls \ {c} : call[d] = Idle
  BY <1>1, OthersIdle
<1>3. job \in Jobs /\ rec \in Records /\ HoldsOn(c)
  BY <1>1, CallKnows DEF AfterTheStore
<1>4. job \in Messages
  BY <1>1, <1>3, JobKinds
<1>5. record = result /\ returned[job] = 0
  BY <1>1, <1>3, <1>4 DEF HoldsOn, HoldsTheRecord, NotReturnedYet, AfterTheStore
<1>6. job \in Jobs /\ rec \in Records /\ job \in Messages /\ job.kind # "seal"
      /\ result = CoreResult(rec, job)
  BY <1>1, <1>3, <1>4
<1>7. job.name \in result.opened
  BY ONLY <1>6, ResultGrows
<1>8. /\ returned' = [returned EXCEPT ![job] = @ + 1] /\ Moves(c, Idle)
      /\ UNCHANGED <<store, sent, calls, pins, approvals>>
  BY DEF ReturnText
<1>9. call' \in [Calls -> CallStates] /\ Alone' /\ CallsHoldOn'
  BY <1>2, <1>8, IdleFits, OnlyOne
<1>10. TypeOK'
  BY <1>4, <1>8, <1>9 DEF IInv, TypeOK, store
<1>11. ReturnedAreOpened' /\ ReturnedOnce'
  BY <1>4, <1>5, <1>7, <1>8 DEF IInv, TypeOK, ReturnedAreOpened, ReturnedOnce, store
<1>. QED
  BY <1>8, <1>9, <1>10, <1>11 DEF IInv, LiveOnceUsed, SentBelow, KeysSentOnce,
       FirstMessageRestarts, PinsArePinned, SessionsArePinned, store

LEMMA ReturnSealedKeeps ==
  ASSUME IInv, NEW c \in Calls, ReturnSealed(c),
         NEW job, job = call[c].job, NEW rec, rec = call[c].record,
         NEW result, result = CoreResult(rec, job)
  PROVE  IInv'
<1>1. call[c].at = "return" /\ call[c] # Idle /\ job.kind = "seal"
  BY DEF ReturnSealed, Idle
<1>2. \A d \in Calls \ {c} : call[d] = Idle
  BY <1>1, OthersIdle
<1>3. job \in Jobs /\ rec \in Records /\ HoldsOn(c)
  BY <1>1, CallKnows DEF AfterTheStore
<1>4. record = result /\ rec.live \in Bases /\ SentBelow(rec)
  BY <1>1, <1>3 DEF HoldsOn, HoldsTheRecord, StillMay, AfterTheStore
<1>5. job \in Jobs /\ rec \in Records /\ job.kind = "seal" /\ rec.live \in Bases
      /\ result = CoreResult(rec, job)
  BY <1>1, <1>3, <1>4
<1>6. rec.index[rec.live] < result.index[rec.live]
  BY ONLY <1>5, ResultGrows
<1>. DEFINE one == <<SealKey(rec), calls'>>
<1>7. /\ calls' = calls + 1 /\ sent' = sent \cup {one} /\ Moves(c, Idle)
      /\ UNCHANGED <<store, returned, pins, approvals>>
  BY DEF ReturnSealed
<1>8. call' \in [Calls -> CallStates] /\ Alone' /\ CallsHoldOn'
  BY <1>2, <1>7, IdleFits, OnlyOne
<1>9. /\ one[1] = <<rec.live, rec.index[rec.live]>> /\ rec.index[rec.live] \in Nat
      /\ one \in ((Bases \cup {NoBase}) \X Nat) \X Nat
  BY <1>3, <1>4, <1>7 DEF SealKey, Records, IInv, TypeOK
<1>10. TypeOK'
  BY <1>7, <1>8, <1>9 DEF IInv, TypeOK, store
<1>11. KeysSentOnce'
  <2>1. \A s \in sent : s[1] # one[1]
    BY <1>4, <1>9 DEF SentBelow, IInv, TypeOK
  <2>. QED
    BY <1>7, <2>1 DEF IInv, KeysSentOnce
<1>12. SentBelow(record)'
  BY <1>4, <1>6, <1>7, <1>9 DEF IInv, SentBelow, store
<1>. QED
  BY <1>7, <1>8, <1>10, <1>11, <1>12 DEF IInv, LiveOnceUsed, FirstMessageRestarts,
       ReturnedAreOpened, ReturnedOnce, PinsArePinned, SessionsArePinned, store

LEMMA ReturnStartedKeeps ==
  ASSUME IInv, NEW c \in Calls, ReturnStarted(c)
  PROVE  IInv'
<1>1. call[c] # Idle /\ Moves(c, Idle) /\ UNCHANGED <<store, history>>
  BY DEF ReturnStarted, Idle
<1>2. \A d \in Calls \ {c} : call[d] = Idle
  BY <1>1, OthersIdle
<1>3. call' \in [Calls -> CallStates] /\ Alone' /\ CallsHoldOn'
  BY <1>1, <1>2, IdleFits, OnlyOne
<1>. QED
  BY <1>1, <1>3, StoresNothing

LEMMA CrashKeeps ==
  ASSUME IInv, Crash
  PROVE  IInv'
<1>1. call' = [c \in Calls |-> Idle] /\ UNCHANGED <<store, history>>
  BY DEF Crash
<1>2. call' \in [Calls -> CallStates] /\ Alone' /\ CallsHoldOn'
  BY <1>1, IdleFits DEF Alone, CallsHoldOn
<1>. QED
  BY <1>1, <1>2, StoresNothing

\* The user's word ends what the calls pinned before it; no call is under way.
LEMMA ApproveKeeps ==
  ASSUME OneQueue, IInv, NEW i \in Identities, Approve(i)
  PROVE  IInv'
<1>1. \A c \in Calls : call[c] = Idle
  BY DEF Approve, MayBegin
<1>2. /\ pinned' = i /\ pins' = {i} /\ approvals' = approvals + 1 /\ approvals' # 0
      /\ UNCHANGED <<record, preKeys, pqUsed, call, returned, sent, calls>>
  BY DEF Approve, IInv, TypeOK
<1>3. Alone' /\ CallsHoldOn'
  BY <1>1, <1>2 DEF Alone, CallsHoldOn
<1>4. TypeOK'
  BY <1>2 DEF IInv, TypeOK
<1>5. PinsArePinned' /\ SessionsArePinned'
  BY <1>2, HostAssumption DEF PinsArePinned, SessionsArePinned
<1>. QED
  BY <1>2, <1>3, <1>4, <1>5 DEF IInv, LiveOnceUsed, SentBelow, KeysSentOnce,
       FirstMessageRestarts, ReturnedAreOpened, ReturnedOnce

LEMMA InitHolds == Init => IInv
<1>. SUFFICES ASSUME Init PROVE IInv
  OBVIOUS
<1>1. NoRecord \in Records /\ WellFormed(NoRecord)
  BY DEF NoRecord, Records, WellFormed
<1>2. TypeOK
  BY <1>1, IdleFits DEF Init, TypeOK
<1>3. Alone /\ CallsHoldOn
  BY DEF Init, Alone, CallsHoldOn
<1>4. FirstMessageRestarts
  BY CoreAssumption DEF Init, FirstMessageRestarts
<1>5. LiveOnceUsed /\ SentBelow(record) /\ KeysSentOnce /\ ReturnedAreOpened /\ ReturnedOnce
      /\ PinsArePinned
  BY DEF Init, LiveOnceUsed, SentBelow, KeysSentOnce, ReturnedAreOpened, ReturnedOnce,
       PinsArePinned
<1>6. SessionsArePinned
  BY DEF Init, SessionsArePinned, NoRecord
<1>. QED
  BY <1>2, <1>3, <1>4, <1>5, <1>6 DEF IInv

\* A step of any call, of the process or of the user.
LEMMA StepKeeps ==
  ASSUME OneQueue, IInv, [Next]_vars
  PROVE  IInv'
<1>1. CASE UNCHANGED vars
  BY <1>1 DEF vars, store, history, IInv, TypeOK, Alone, CallsHoldOn, HoldsOn, HoldsTheRecord,
     StillMay, StillTrusted, Trusted, NotReturnedYet, LiveOnceUsed, SentBelow, KeysSentOnce,
     FirstMessageRestarts, ReturnedAreOpened, ReturnedOnce, PinsArePinned, SessionsArePinned
<1>2. ASSUME NEW c \in Calls, NEW job \in Jobs, Begin(c, job) PROVE IInv'
  BY <1>2, BeginKeeps
<1>3. ASSUME NEW c \in Calls, Load(c) PROVE IInv'
  BY <1>3, LoadKeeps
<1>4. ASSUME NEW c \in Calls, LoadKeys(c) PROVE IInv'
  BY <1>4, LoadKeysKeeps
<1>5. ASSUME NEW c \in Calls, Core(c) PROVE IInv'
  BY <1>5, CoreKeeps
<1>6. ASSUME NEW c \in Calls, Pin(c) PROVE IInv'
  BY <1>6, PinKeeps
<1>7. ASSUME NEW c \in Calls, Store(c) PROVE IInv'
  BY <1>7, StoreKeeps
<1>8. ASSUME NEW c \in Calls, DropKey(c) PROVE IInv'
  BY <1>8, DropKeyKeeps
<1>9. ASSUME NEW c \in Calls, MarkUsed(c) PROVE IInv'
  BY <1>9, MarkUsedKeeps
<1>10. ASSUME NEW c \in Calls, ReturnText(c) PROVE IInv'
  BY <1>10, ReturnTextKeeps
<1>11. ASSUME NEW c \in Calls, ReturnSealed(c) PROVE IInv'
  BY <1>11, ReturnSealedKeeps
<1>12. ASSUME NEW c \in Calls, ReturnStarted(c) PROVE IInv'
  BY <1>12, ReturnStartedKeeps
<1>13. CASE Crash
  BY <1>13, CrashKeeps
<1>14. ASSUME NEW i \in Identities, Approve(i) PROVE IInv'
  BY <1>14, ApproveKeeps
<1>. QED
  BY <1>1, <1>2, <1>3, <1>4, <1>5, <1>6, <1>7, <1>8, <1>9, <1>10, <1>11, <1>12, <1>13, <1>14
     DEF Next
-----------------------------------------------------------------------------
(* With one queue, the invariant holds of every behaviour. *)

\* The inductive invariant, which the theorems below read their properties off.
THEOREM CallsKeepTheirWord ==
  ASSUME OneQueue
  PROVE  Spec => []IInv
<1>1. Init => IInv
  BY InitHolds
<1>2. IInv /\ [Next]_vars => IInv'
  BY StepKeeps
<1>. QED
  BY <1>1, <1>2, PTL DEF Spec

\* Every variable holds what its declaration says, and the stored record speaks
\* of no session it does not hold (the archive that saveSession writes).
THEOREM HostTypes ==
  ASSUME OneQueue
  PROVE  Spec => []TypeOK
<1>1. IInv => TypeOK
  BY DEF IInv
<1>. QED
  BY <1>1, CallsKeepTheirWord, PTL

\* sessionEncrypt hands no message key out twice, wherever a crash falls.
THEOREM KeysAreSentOnce ==
  ASSUME OneQueue
  PROVE  Spec => []KeysSentOnce
<1>1. IInv => KeysSentOnce
  BY DEF IInv
<1>. QED
  BY <1>1, CallsKeepTheirWord, PTL

\* sessionDecryptPreKey: a first message whose session is not in the store finds
\* its one-time pre-key there, however often a crash interrupted it.
THEOREM FirstMessagesRestart ==
  ASSUME OneQueue
  PROVE  Spec => []FirstMessageRestarts
<1>1. IInv => FirstMessageRestarts
  BY DEF IInv
<1>. QED
  BY <1>1, CallsKeepTheirWord, PTL

\* sessionDecrypt and sessionDecryptPreKey hand no text out twice.
THEOREM TextsAreReturnedOnce ==
  ASSUME OneQueue
  PROVE  Spec => []ReturnedOnce
<1>1. IInv => ReturnedOnce
  BY DEF IInv
<1>. QED
  BY <1>1, CallsKeepTheirWord, PTL

\* isTrustedIdentity asked before saveIdentity: the calls pin one identity between
\* two decisions of the user.
THEOREM OneIdentityIsPinned ==
  ASSUME OneQueue
  PROVE  Spec => []PinnedOnFirstUse
<1>1. IInv => PinnedOnFirstUse
  <2>1. Cardinality({}) = 0 /\ Cardinality({pinned}) = 1
    BY FS_EmptySet, FS_Singleton
  <2>. QED
    BY <2>1 DEF IInv, PinsArePinned, PinnedOnFirstUse
<1>. QED
  BY <1>1, CallsKeepTheirWord, PTL

\* saveIdentity before saveSession: until the user approves another identity, a
\* session in the store is with the pinned one.
THEOREM StoredSessionsArePinned ==
  ASSUME OneQueue
  PROVE  Spec => []SessionsArePinned
<1>1. IInv => SessionsArePinned
  BY DEF IInv
<1>. QED
  BY <1>1, CallsKeepTheirWord, PTL
-----------------------------------------------------------------------------
(* Refinement: the store is RecordCell. *)

\* The cell's core is the host's.
LEMMA SameCore ==
  /\ Cell!Bases = Bases /\ Cell!NoBase = NoBase /\ Cell!NoRecord = NoRecord
  /\ \A rec, job : /\ Cell!OpenFault(rec, job) = OpenFault(rec, job)
                    /\ Cell!Opened(rec, job) = Opened(rec, job)
                    /\ Cell!Started(rec, job) = Started(rec, job)
                    /\ Cell!Sealed(rec) = Sealed(rec)
<1>1. Cell!Bases = Bases /\ Cell!NoBase = NoBase
  BY DEF Cell!Bases, Bases, Cell!NoBase, NoBase
<1>2. Cell!NoRecord = NoRecord
  BY <1>1 DEF Cell!NoRecord, NoRecord
<1>3. \A rec, job : /\ Cell!OpenFault(rec, job) = OpenFault(rec, job)
                     /\ Cell!Opened(rec, job) = Opened(rec, job)
                     /\ Cell!Started(rec, job) = Started(rec, job)
                     /\ Cell!Sealed(rec) = Sealed(rec)
  BY DEF Cell!OpenFault, OpenFault, Cell!Opened, Opened, Cell!Started, Started, Cell!Sealed, Sealed
<1>. QED
  BY <1>1, <1>2, <1>3

\* saveSession is the step of the cell that the call's job says.
LEMMA StoreIsOneStep ==
  ASSUME IInv, NEW c \in Calls, Store(c),
         NEW job, job = call[c].job, NEW rec, rec = call[c].record
  PROVE  Cell!Next /\ Cell!Advances(record, record')
<1>1. call[c].at = "store" /\ call[c] # Idle
  BY DEF Store, Idle
<1>2. job \in Jobs /\ rec \in Records /\ HoldsOn(c)
  BY <1>1, CallKnows DEF BeforeStore
<1>3. /\ record = rec /\ CoreFault(rec, job) = "none"
      /\ job.kind = "seal" => rec.live \in Bases
      /\ job.kind = "start" => job.base \notin rec.known
  BY <1>1, <1>2 DEF HoldsOn, HoldsTheRecord, StillMay, BeforeStore
<1>4. job \in Jobs /\ rec \in Records /\ (job.kind = "seal" => rec.live \in Bases)
      /\ record' = CoreResult(rec, job)
  BY <1>2, <1>3 DEF Store
<1>5. /\ rec.opened \subseteq record'.opened
      /\ \A b \in Bases : rec.index[b] <= record'.index[b]
  BY ONLY <1>4, ResultGrows
<1>6. record'.known = IF job.kind = "seal" THEN rec.known ELSE rec.known \cup {job.base}
  BY ONLY <1>4, ResultGrows
<1>7. Cell!Advances(record, record')
  BY <1>3, <1>5, <1>6, SameCore DEF Cell!Advances
<1>8. CASE job.kind = "seal"
  <2>1. rec.live # NoBase
    BY <1>3, <1>8, CoreAssumption
  <2>2. record' = Sealed(rec)
    BY ONLY <1>4, <1>8 DEF CoreResult
  <2>. QED
    BY <1>3, <1>7, <2>1, <2>2, SameCore DEF Cell!Next, Cell!Seal
<1>9. CASE job.kind = "start"
  <2>1. job \in Starts
    BY <1>2, <1>9, JobKinds
  <2>2. record' = Started(rec, job)
    BY ONLY <1>4, <1>9 DEF CoreResult
  <2>. QED
    BY <1>3, <1>7, <1>9, <2>1, <2>2, SameCore DEF Cell!Next, Cell!Start
<1>10. CASE job.kind \in {"first", "whisper"}
  <2>1. job \in Messages
    BY <1>2, <1>10, JobKinds
  <2>2. OpenFault(rec, job) = "none" /\ record' = Opened(rec, job)
    BY <1>3, <1>4, <1>10 DEF CoreFault, CoreResult
  <2>. QED
    BY <1>3, <1>7, <2>1, <2>2, SameCore DEF Cell!Next, Cell!Open
<1>. QED
  BY <1>2, <1>8, <1>9, <1>10, JobKinds

\* Everything else leaves the record alone.
LEMMA StepsOfTheCell ==
  ASSUME IInv, [Next]_vars
  PROVE  UNCHANGED record \/ (Cell!Next /\ Cell!Advances(record, record'))
<1>1. ASSUME NEW c \in Calls, Store(c)
      PROVE  Cell!Next /\ Cell!Advances(record, record')
  BY <1>1, StoreIsOneStep
<1>2. CASE ~ \E c \in Calls : Store(c)
  BY <1>2 DEF Next, vars, store, history, Begin, Throws, Load, LoadKeys, Core, Pin, DropKey,
     MarkUsed, ReturnText, ReturnSealed, ReturnStarted, Crash, Approve
<1>. QED
  BY <1>1, <1>2

\* With one queue the package's calls implement the cell: each takes effect at
\* once, when saveSession writes its record.
THEOREM CallsActAtOnce ==
  ASSUME OneQueue
  PROVE  Spec => ActsAtOnce
<1>1. Init => Cell!Init
  BY SameCore DEF Init, Cell!Init
<1>2. IInv /\ [Next]_vars => [Cell!Next]_record
  BY StepsOfTheCell
<1>. QED
  BY <1>1, <1>2, CallsKeepTheirWord, PTL DEF Spec, ActsAtOnce, Cell!Spec

\* No saveSession takes back what an earlier one stored: a message opened, a
\* session known, a step of a sending chain.
THEOREM TheStoreNeverGoesBack ==
  ASSUME OneQueue
  PROVE  Spec => Cell!NeverGoesBack
<1>1. IInv /\ [Next]_vars => [Cell!Advances(record, record')]_record
  BY StepsOfTheCell
<1>. QED
  BY <1>1, CallsKeepTheirWord, PTL DEF Spec, Cell!NeverGoesBack
=============================================================================
