-------------------------------- MODULE Host --------------------------------
(***************************************************************************)
(* The session calls of the packages (sdk/ts api.ts, sdk/kotlin Session.kt, *)
(* sdk/swift Sessions.swift): each loads records from the host's store,     *)
(* makes one call into the core, and stores what came back.  Every store    *)
(* access is an await in TypeScript, so calls interleave there unless the   *)
(* host keeps a queue; the process may die between any two accesses, and    *)
(* what the store holds survives.  Identities are trusted on first use, as  *)
(* InMemoryProtocolStore does it, until the user approves another one.      *)
(***************************************************************************)
EXTENDS CoreRecord

CONSTANTS
  Calls,        \* the calls that can be under way at once
  OneQueue,     \* TRUE: the host makes one call at a time
  MaxSeals,     \* bound: messages sealed on one chain
  MaxReturns,   \* bound: times one message's text is handed out
  MaxApprovals  \* bound: times the user approves a changed identity

NoIdentity == "none"

ASSUME HostAssumption ==
  /\ OneQueue \in BOOLEAN
  /\ NoIdentity \notin Identities
  /\ MaxSeals \in Nat /\ MaxReturns \in Nat /\ MaxApprovals \in Nat

VARIABLES
  record,     \* the stored session record
  pinned,     \* the stored identity of the peer's address
  preKeys,    \* the stored one-time pre-keys
  pqUsed,     \* whether the post-quantum pre-key was marked used
  call,       \* [Calls -> where each call stands, with what it loaded]
  returned,   \* history: [Messages -> times its text was handed out]
  sent,       \* history: the keys of the messages handed out to be sent, each
              \* with the call that sealed it
  calls,      \* history: calls of sessionEncrypt that handed out a message
  pins,       \* history: the identities that calls stored since the user's word
  approvals,  \* history: how often the user approved an identity
  last        \* the last call that failed

store == <<record, pinned, preKeys, pqUsed>>
history == <<returned, sent, calls, pins, approvals>>
vars == <<store, call, history, last>>

Idle == [at |-> "idle"]
NoFault == [fault |-> "none"]
SealJob == [name |-> 0, kind |-> "seal", base |-> NoBase, oneTimeId |-> NoKey]
Jobs == Messages \cup Starts \cup {SealJob}

Init ==
  /\ record = NoRecord /\ pinned = NoIdentity /\ preKeys = OneTimeIds /\ pqUsed = FALSE
  /\ call = [c \in Calls |-> Idle]
  /\ returned = [m \in Messages |-> 0]
  /\ sent = {} /\ calls = 0 /\ pins = {} /\ approvals = 0
  /\ last = NoFault

-----------------------------------------------------------------------------
Moves(c, to) == call' = [call EXCEPT ![c] = to]

\* The call throws: it is over, and has stored nothing.
Throws(c, fault) ==
  /\ Moves(c, Idle)
  /\ last' = fault
  /\ UNCHANGED <<store, history>>

Fault(kind, job, rec) ==
  [fault |-> kind, job |-> job.name, known |-> job.base \in rec.known]

\* Mutant of Trusted: every identity is.
TrustedAny(i) == TRUE

\* InMemoryProtocolStore.isTrustedIdentity.
Trusted(i) == pinned \in {NoIdentity, i}

\* A session started from a bundle has a base of its own: no two calls, and no
\* call and the record, share one.
Fresh(job) ==
  /\ job.base \notin record.known
  /\ job \notin {call[d].job : d \in {d \in Calls : call[d] # Idle}}

\* A host with a queue makes one call, or asks the user, at a time.
MayBegin == OneQueue => \A d \in Calls : call[d] = Idle

\* The call as far as its first access: a bundle's or a first message's identity
\* is asked about before anything is loaded.
Begin(c, job) ==
  /\ call[c] = Idle
  /\ MayBegin
  /\ job \in Messages => returned[job] < MaxReturns
  /\ job.kind = "start" => Fresh(job)
  /\ IF job.kind \in {"first", "start"} /\ ~ Trusted(IdentityOf[job.base])
       THEN Throws(c, Fault("UntrustedIdentity", job, record))
       ELSE /\ Moves(c, [at |-> "load", job |-> job])
            /\ last' = NoFault
            /\ UNCHANGED <<store, history>>

\* getSession.
Load(c) ==
  LET job == call[c].job IN
  /\ call[c].at = "load"
  /\ IF record = NoRecord /\ job.kind \in {"whisper", "seal"}
       THEN Throws(c, Fault("SessionNotFound", job, record))
       ELSE /\ job.kind = "seal" => record.index[record.live] < MaxSeals
            /\ Moves(c, [at |-> IF job.kind = "first" THEN "load_keys" ELSE "core",
                         job |-> job, record |-> record])
            /\ UNCHANGED <<store, history, last>>

\* sessionDecryptPreKey loads every pre-key the message names, whether or not
\* the session is there already.
KeysLoaded(job) == job.oneTimeId \in preKeys \cup {NoKey}

\* Mutant of LoadKeys: the pre-key is removed as it is loaded.
LoadKeysDropping(c) ==
  /\ call[c].at = "load_keys"
  /\ KeysLoaded(call[c].job)
  /\ preKeys' = preKeys \ {call[c].job.oneTimeId}
  /\ Moves(c, [call[c] EXCEPT !.at = "core"])
  /\ UNCHANGED <<record, pinned, pqUsed, history, last>>

LoadKeys(c) ==
  /\ call[c].at = "load_keys"
  /\ IF KeysLoaded(call[c].job)
       THEN /\ Moves(c, [call[c] EXCEPT !.at = "core"])
            /\ UNCHANGED <<store, history, last>>
       ELSE Throws(c, Fault("InvalidKeyId", call[c].job, call[c].record))

-----------------------------------------------------------------------------
(* The core's call, and what is stored of its result.                        *)

\* Mutant of CoreFault: a message that was opened opens again.
CoreFaultLate(rec, job) == "none"

CoreFault(rec, job) == IF job.kind \in {"first", "whisper"} THEN OpenFault(rec, job) ELSE "none"

CoreResult(rec, job) ==
  CASE job.kind = "seal" -> Sealed(rec)
    [] job.kind = "start" -> Started(rec, job)
    [] OTHER -> Opened(rec, job)

\* Mutant of AfterCore: the record is stored before the identity.
AfterCoreRecordFirst(job) == "store"

\* sessionEncrypt stores no identity; the other calls store it first.
AfterCore(job) == IF job.kind = "seal" THEN "store" ELSE "pin"

\* The core's call on what was loaded, with the question about the identity of
\* the session it made live; processBundle asked before.
Core(c) ==
  LET job == call[c].job
      rec == call[c].record
      fault == CoreFault(rec, job)
      result == CoreResult(rec, job)
  IN
  /\ call[c].at = "core"
  /\ IF fault # "none" THEN Throws(c, Fault(fault, job, rec))
     ELSE IF job.kind # "start" /\ ~ Trusted(Remote(result))
       THEN Throws(c, Fault("UntrustedIdentity", job, rec))
       ELSE /\ Moves(c, [call[c] EXCEPT !.at = AfterCore(job)])
            /\ UNCHANGED <<store, history, last>>

\* saveIdentity.
Pin(c) ==
  LET i == Remote(CoreResult(call[c].record, call[c].job)) IN
  /\ call[c].at = "pin"
  /\ pinned' = i
  /\ pins' = pins \cup {i}
  /\ Moves(c, [call[c] EXCEPT !.at = "store"])
  /\ UNCHANGED <<record, preKeys, pqUsed, returned, sent, calls, approvals, last>>

\* A first message that started its session drops the one-time pre-key it
\* names and marks the post-quantum one.
AfterStore(rec, job) ==
  IF ~ Consumes(rec, job) THEN "return"
  ELSE IF job.oneTimeId # NoKey THEN "drop_key"
  ELSE "mark_used"

\* saveSession.
Store(c) ==
  /\ call[c].at = "store"
  /\ record' = CoreResult(call[c].record, call[c].job)
  /\ Moves(c, [call[c] EXCEPT !.at = AfterStore(call[c].record, call[c].job)])
  /\ UNCHANGED <<pinned, preKeys, pqUsed, history, last>>

\* removePreKey.
DropKey(c) ==
  /\ call[c].at = "drop_key"
  /\ preKeys' = preKeys \ {call[c].job.oneTimeId}
  /\ Moves(c, [call[c] EXCEPT !.at = "mark_used"])
  /\ UNCHANGED <<record, pinned, pqUsed, history, last>>

\* markKyberPreKeyUsed.
MarkUsed(c) ==
  /\ call[c].at = "mark_used"
  /\ pqUsed' = TRUE
  /\ Moves(c, [call[c] EXCEPT !.at = "return"])
  /\ UNCHANGED <<record, pinned, preKeys, history, last>>

ReturnText(c) ==
  LET job == call[c].job IN
  /\ call[c].at = "return"
  /\ job.kind \in {"first", "whisper"}
  /\ returned' = [returned EXCEPT ![job] = @ + 1]
  /\ Moves(c, Idle)
  /\ UNCHANGED <<store, sent, calls, pins, approvals, last>>

ReturnSealed(c) ==
  /\ call[c].at = "return"
  /\ call[c].job.kind = "seal"
  /\ calls' = calls + 1
  /\ sent' = sent \cup {<<SealKey(call[c].record), calls'>>}
  /\ Moves(c, Idle)
  /\ UNCHANGED <<store, returned, pins, approvals, last>>

ReturnStarted(c) ==
  /\ call[c].at = "return"
  /\ call[c].job.kind = "start"
  /\ Moves(c, Idle)
  /\ UNCHANGED <<store, history, last>>

-----------------------------------------------------------------------------
\* The process dies; the store stays.
Crash ==
  /\ \E c \in Calls : call[c] # Idle
  /\ call' = [c \in Calls |-> Idle]
  /\ UNCHANGED <<store, history, last>>

\* The user was asked about a changed identity, and the host stores it.
Approve(i) ==
  /\ approvals < MaxApprovals
  /\ pinned \notin {NoIdentity, i}
  /\ MayBegin
  /\ pinned' = i
  /\ pins' = {i}
  /\ approvals' = approvals + 1
  /\ UNCHANGED <<record, preKeys, pqUsed, call, returned, sent, calls, last>>

Next ==
  \/ \E c \in Calls, job \in Jobs : Begin(c, job)
  \/ \E c \in Calls :
       \/ Load(c) \/ LoadKeys(c) \/ Core(c) \/ Pin(c) \/ Store(c) \/ DropKey(c)
       \/ MarkUsed(c) \/ ReturnText(c) \/ ReturnSealed(c) \/ ReturnStarted(c)
  \/ Crash
  \/ \E i \in Identities : Approve(i)

Spec == Init /\ [][Next]_vars

-----------------------------------------------------------------------------
(* Properties. *)

CallStates ==
  {Idle} \cup [at : {"load"}, job : Jobs]
         \cup [at : {"load_keys", "core", "pin", "store", "drop_key", "mark_used", "return"},
               job : Jobs, record : Records]

\* Every variable holds what its declaration says, and the stored record speaks
\* of no session it does not hold.
TypeOK ==
  /\ record \in Records /\ WellFormed(record)
  /\ pinned \in Identities \cup {NoIdentity}
  /\ preKeys \subseteq OneTimeIds /\ pqUsed \in BOOLEAN
  /\ call \in [Calls -> CallStates]
  /\ returned \in [Messages -> Nat]
  /\ calls \in Nat /\ sent \subseteq (((Bases \cup {NoBase}) \X Nat) \X Nat)
  /\ pins \subseteq Identities /\ approvals \in Nat

\* No message key leaves the device twice: with one queue, a crash anywhere in
\* sessionEncrypt loses a message or a key, and never seals under a key again.
KeysSentOnce == \A s1, s2 \in sent : s1[1] = s2[1] => s1 = s2

\* commit before removePreKey: a first message that a crash interrupted can be
\* delivered again, for as long as its session is not in the store, the pre-key
\* it needs to start it is.
FirstMessageRestarts ==
  \A m \in Messages : m.kind = "first" /\ m.base \notin record.known =>
    m.oneTimeId \in preKeys \cup {NoKey}

\* sdk/ts/README.md:174, "A message opened twice rejects with kind
\* 'DuplicatedMessage'": no text is handed out twice.
ReturnedOnce == \A m \in Messages : returned[m] <= 1

\* api.ts:947, "Trust is on first use": between two decisions of the user the
\* calls store one identity, whatever bundles and first messages arrive.
PinnedOnFirstUse == Cardinality(pins) <= 1

\* saveIdentity before saveSession, in processBundle and commit: wherever a
\* crash falls, a session in the store is with the identity that is pinned, as
\* long as the user has not approved another.
SessionsArePinned ==
  approvals = 0 => \A b \in record.known : IdentityOf[b] = pinned

\* Every call takes effect at once, on the record as it then is: saveSession is
\* the step of RecordCell, everything else leaves the record alone.
Cell == INSTANCE RecordCell WITH cell <- record
ActsAtOnce == Cell!Spec

\* sdk/ts/README.md:174, "Out-of-order messages open", and the more so those in
\* order: a message of a session the record holds never lacks a pre-key.
KnownSessionNeedsNoPreKey == last.fault = "InvalidKeyId" => ~ last.known
=============================================================================
