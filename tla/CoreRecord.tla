----------------------------- MODULE CoreRecord -----------------------------
(***************************************************************************)
(* The core's calls on a session record, as the packages around it see     *)
(* them: a record knows the sessions it holds by their bases, opens a       *)
(* message of theirs once, and seals on the live session's chain, each      *)
(* message one step on.  Session is the detailed model of the same calls;   *)
(* here no limit is reached.                                                *)
(***************************************************************************)
EXTENDS Integers, FiniteSets

CONSTANTS
  Messages,    \* what the peer sealed: [name, kind, base, oneTimeId]
  Starts,      \* the bundles of the peer at hand, each with the base its session gets
  IdentityOf,  \* [bases -> the peer's identity that the session is with]
  OneTimeIds,  \* the one-time pre-keys the device published
  NoKey        \* "this first message names no one-time pre-key"

Bases == {m.base : m \in Messages} \cup {s.base : s \in Starts}
Identities == {IdentityOf[b] : b \in Bases}
NoBase == "none"

ASSUME CoreAssumption ==
  /\ NoKey \notin OneTimeIds
  /\ NoBase \notin Bases
  /\ \A m \in Messages : m.kind \in {"first", "whisper"} /\ m.oneTimeId \in OneTimeIds \cup {NoKey}
  /\ \A m1, m2 \in Messages : m1.name = m2.name => m1 = m2
  /\ \A s \in Starts : s.kind = "start"

\* The server hands a one-time pre-key out once: it starts one session.
ASSUME OneTimeAssumption ==
  \A m1, m2 \in Messages :
    m1.oneTimeId = m2.oneTimeId /\ m1.oneTimeId # NoKey => m1.base = m2.base

Records == [live : Bases \cup {NoBase}, known : SUBSET Bases,
            opened : SUBSET {m.name : m \in Messages}, index : [Bases -> Nat]]

NoRecord == [live |-> NoBase, known |-> {}, opened |-> {}, index |-> [b \in Bases |-> 0]]

\* A record only speaks of sessions it holds.
WellFormed(rec) ==
  /\ rec.live \in rec.known \cup {NoBase}
  /\ \A b \in Bases \ rec.known : rec.index[b] = 0
  /\ \A m \in Messages : m.name \in rec.opened => m.base \in rec.known

\* sessionInfo(record).remoteIdentity.
Remote(rec) == IdentityOf[rec.live]

\* sessionOpen and sessionOpenFirst: a message opens once; a first message of a
\* base the record does not know starts its session.  Opening makes it live.
OpenFault(rec, m) ==
  IF m.name \in rec.opened THEN "DuplicatedMessage"
  ELSE IF m.kind = "whisper" /\ m.base \notin rec.known THEN "InvalidMessage"
  ELSE "none"

\* Mutant of Opened: the message's key is not used up.
OpenedAgain(rec, m) == [rec EXCEPT !.live = m.base, !.known = @ \cup {m.base}]

Opened(rec, m) ==
  [rec EXCEPT !.live = m.base, !.known = @ \cup {m.base}, !.opened = @ \cup {m.name}]

\* consumed.used: the session was started by this message.
Consumes(rec, m) == m.kind = "first" /\ m.base \notin rec.known

\* sessionStart: the new session is the live one, those before it are shelved.
Started(rec, s) == [rec EXCEPT !.live = s.base, !.known = @ \cup {s.base}]

\* sessionSeal: the key of the live chain's step, and the chain one step on.
SealKey(rec) == <<rec.live, rec.index[rec.live]>>

\* Mutant of Sealed: the chain does not move.
SealedInPlace(rec) == rec

Sealed(rec) == [rec EXCEPT !.index[rec.live] = @ + 1]

\* sessionShelve: no session is live until one is opened or started.
Archived(rec) == [rec EXCEPT !.live = NoBase]
=============================================================================
