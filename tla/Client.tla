------------------------------- MODULE Client -------------------------------
(***************************************************************************)
(* The handle shape of the TypeScript package (sdk/ts wasm-api.ts): stores  *)
(* in memory that the host fills before a call and reads after it.  Every   *)
(* call is one tick, but for the decryption of a first message: it loads    *)
(* the session, awaits the stores of its pre-keys, and commits what it made *)
(* of the session it loaded.  The host saves what a call left in memory     *)
(* before it lets the call's message or text out (sdk/ts/README.md:263-276) *)
(* and fills the stores from there when it starts again.                    *)
(***************************************************************************)
EXTENDS CoreRecord

CONSTANTS
  Calls,        \* the calls that can be under way at once
  MaxSeals,     \* bound: messages sealed on one chain
  MaxReturns,   \* bound: times one message's text is handed out
  MaxAsides     \* bound: calls of archive_session and import_identity

ASSUME ClientAssumption ==
  MaxSeals \in Nat /\ MaxReturns \in Nat /\ MaxAsides \in Nat

VARIABLES
  memory,     \* the stores: [session, pinned, preKeys, pqUsed]
  saved,      \* the stores as the host last saved them
  call,       \* [Calls -> where each call stands, with what it read]
  returned,   \* history: [Messages -> times its text was handed out]
  sent,       \* history: [Keys -> times a message sealed under it was handed out]
  unseen,     \* history: what the session held when a commit that had loaded it
              \* before replaced it
  asides      \* history: calls of archive_session and import_identity

history == <<returned, sent, unseen>>
vars == <<memory, saved, call, history, asides>>

Idle == [at |-> "idle"]
NoIdentity == "none"
NoJob == [name |-> 0, kind |-> "seal", base |-> NoBase, oneTimeId |-> NoKey]
Keys == Bases \X (0..MaxSeals - 1)
NoSealed == <<NoBase, 0>>

EmptyStores ==
  [session |-> NoRecord, pinned |-> NoIdentity, preKeys |-> OneTimeIds, pqUsed |-> FALSE]

Init ==
  /\ memory = EmptyStores /\ saved = EmptyStores
  /\ call = [c \in Calls |-> Idle]
  /\ returned = [m \in Messages |-> 0]
  /\ sent = [k \in Keys |-> 0] /\ unseen = {}
  /\ asides = 0

-----------------------------------------------------------------------------
Moves(c, to) == call' = [call EXCEPT ![c] = to]

\* The call is over but for the host's part: it saves the stores, then lets the
\* text of `job` or the message sealed under `key` out.
Done(job, key) == [at |-> "hand_out", job |-> job, key |-> key]

\* WasmInMemIdentityKeyStore.isTrusted: unknown is trusted, a changed key is not.
Trusts(identity) == memory.pinned \in {NoIdentity, identity}

\* What a session record is kept for: the sessions it holds, the messages it
\* opened and the steps of its sending chains.
Holdings(rec) ==
  {<<"session", b>> : b \in rec.known} \cup {<<"opened", n>> : n \in rec.opened}
    \cup {<<"sealed", k>> : k \in {k \in Keys : k[2] < rec.index[k[1]]}}

\* commit: the identity is checked again and saved, and the record is stored
\* over whatever the session store holds by then.
MayCommit(rec) == Trusts(Remote(rec))

SaveIdentity(stores, i) == [stores EXCEPT !.pinned = i]
Store(stores, rec) == [stores EXCEPT !.session = rec]
Committed(rec) == Store(SaveIdentity(memory, Remote(rec)), rec)

Unseen(existing) == unseen \cup (Holdings(memory.session) \ Holdings(existing))

-----------------------------------------------------------------------------
\* encryptMessage.
Encrypt(c) ==
  LET session == memory.session IN
  /\ call[c] = Idle
  /\ session.live # NoBase
  /\ session.index[session.live] < MaxSeals
  /\ Trusts(Remote(session))
  /\ memory' = Store(memory, Sealed(session))
  /\ Moves(c, Done(NoJob, SealKey(session)))
  /\ UNCHANGED <<saved, history, asides>>

\* decryptMessage of a whisper.
DecryptWhisper(c, m) ==
  LET result == Opened(memory.session, m) IN
  /\ call[c] = Idle
  /\ m.kind = "whisper" /\ returned[m] < MaxReturns
  /\ OpenFault(memory.session, m) = "none"
  /\ MayCommit(result)
  /\ memory' = Committed(result)
  /\ Moves(c, Done(m, NoSealed))
  /\ UNCHANGED <<saved, history, asides>>

\* processPreKeyBundle.
ProcessBundle(c, s) ==
  LET session == memory.session IN
  /\ call[c] = Idle
  /\ <<"session", s.base>> \notin unseen /\ s.base \notin session.known
  /\ Trusts(IdentityOf[s.base])
  /\ memory' = Committed(Started(session, s))
  /\ Moves(c, Done(NoJob, NoSealed))
  /\ UNCHANGED <<saved, history, asides>>

\* decryptMessage of a first message, as far as its first await.
DecryptFirst(c, m) ==
  /\ call[c] = Idle
  /\ m.kind = "first" /\ returned[m] < MaxReturns
  /\ Trusts(IdentityOf[m.base])
  /\ Moves(c, [at |-> "read_keys", job |-> m, existing |-> memory.session])
  /\ UNCHANGED <<memory, saved, history, asides>>

\* The stores of pre-keys: whether a message's is there, and taking it out.
HoldsPreKey(stores, m) == m.oneTimeId \in stores.preKeys \cup {NoKey}
RemovePreKey(stores, m) == [stores EXCEPT !.preKeys = @ \ {m.oneTimeId}]
MarkUsed(stores) == [stores EXCEPT !.pqUsed = TRUE]

\* Mutant of ReadKeys: the pre-key is removed as it is read.
ReadKeysDropping(c) ==
  LET m == call[c].job IN
  /\ call[c].at = "read_keys"
  /\ Moves(c, IF HoldsPreKey(memory, m) THEN [call[c] EXCEPT !.at = "open"] ELSE Idle)
  /\ memory' = RemovePreKey(memory, m)
  /\ UNCHANGED <<saved, history, asides>>

\* export_signed_pre_key, export_pre_key and export_kyber_pre_key.
ReadKeys(c) ==
  /\ call[c].at = "read_keys"
  /\ Moves(c, IF HoldsPreKey(memory, call[c].job) THEN [call[c] EXCEPT !.at = "open"] ELSE Idle)
  /\ UNCHANGED <<memory, saved, history, asides>>

\* remove_pre_key, which runs in the tick of commit, and markUsed, which comes
\* an await later and which no call reads.
Consumed(stores, existing, m) ==
  IF Consumes(existing, m) THEN MarkUsed(RemovePreKey(stores, m)) ELSE stores

\* Mutant of OpenFirst: the identity was checked when the call began.
OpenFirstUnchecked(c) ==
  LET m == call[c].job
      existing == call[c].existing
      result == Opened(existing, m)
  IN
  /\ call[c].at = "open"
  /\ IF OpenFault(existing, m) = "none"
       THEN /\ memory' = Consumed(Committed(result), existing, m)
            /\ unseen' = Unseen(existing)
            /\ Moves(c, Done(m, NoSealed))
       ELSE Moves(c, Idle) /\ UNCHANGED <<memory, unseen>>
  /\ UNCHANGED <<saved, returned, sent, asides>>

\* sessionOpenFirst on the session as it was when the call began, commit, and
\* what is done to the pre-keys of a message that started its session.
OpenFirst(c) ==
  LET m == call[c].job
      existing == call[c].existing
      result == Opened(existing, m)
  IN
  /\ call[c].at = "open"
  /\ IF OpenFault(existing, m) = "none" /\ MayCommit(result)
       THEN /\ memory' = Consumed(Committed(result), existing, m)
            /\ unseen' = Unseen(existing)
            /\ Moves(c, Done(m, NoSealed))
       ELSE Moves(c, Idle) /\ UNCHANGED <<memory, unseen>>
  /\ UNCHANGED <<saved, returned, sent, asides>>

-----------------------------------------------------------------------------
(* The host. *)

\* archive_session.
Archive ==
  /\ asides < MaxAsides
  /\ memory.session.live # NoBase
  /\ asides' = asides + 1
  /\ memory' = Store(memory, Archived(memory.session))
  /\ UNCHANGED <<saved, call, history>>

\* import_identity, after the user was asked about a changed key.
Approve(i) ==
  /\ asides < MaxAsides
  /\ memory.pinned \notin {NoIdentity, i}
  /\ asides' = asides + 1
  /\ memory' = SaveIdentity(memory, i)
  /\ UNCHANGED <<saved, call, history>>

\* export_session and the other exports, and what the call gave is let out.
HandOut(c) ==
  LET job == call[c].job
      key == call[c].key
  IN
  /\ call[c].at = "hand_out"
  /\ saved' = memory
  /\ IF job = NoJob THEN UNCHANGED returned
     ELSE returned' = [returned EXCEPT ![job] = @ + 1]
  /\ IF key = NoSealed THEN UNCHANGED sent
     ELSE sent' = [sent EXCEPT ![key] = @ + 1]
  /\ Moves(c, Idle)
  /\ UNCHANGED <<memory, unseen, asides>>

\* The page is closed and opened again: the stores are filled from what was saved.
Restart ==
  /\ memory # saved \/ \E c \in Calls : call[c] # Idle
  /\ memory' = saved
  /\ call' = [c \in Calls |-> Idle]
  /\ UNCHANGED <<saved, history, asides>>

Next ==
  \/ \E c \in Calls :
       \/ Encrypt(c) \/ ReadKeys(c) \/ OpenFirst(c) \/ HandOut(c)
       \/ \E m \in Messages : DecryptWhisper(c, m) \/ DecryptFirst(c, m)
       \/ \E s \in Starts : ProcessBundle(c, s)
  \/ Archive
  \/ \E i \in Identities : Approve(i)
  \/ Restart

Spec == Init /\ [][Next]_vars

-----------------------------------------------------------------------------
(* Properties. *)

\* encryptMessage is one tick and the host saves before it sends: wherever the
\* page is closed, a message key goes out twice only if the decryption of a
\* first message stored a session it had loaded before that key was used.
ReuseExplained ==
  \A k \in Keys : sent[k] > 1 => <<"sealed", k>> \in unseen

\* sdk/ts/README.md:174, "A message opened twice rejects", and when it does not:
\* the decryption of a first message committed over the session that had opened it.
OpenedTwiceExplained ==
  \A m \in Messages : returned[m] > 1 => <<"opened", m.name>> \in unseen

\* remove_pre_key in the tick of commit: a first message whose session is in no
\* store can still start it, unless another first message's commit took the
\* session and its pre-key was gone.
LostSessionExplained ==
  \A m \in Messages : m.kind = "first" /\ m.base \notin memory.session.known =>
    \/ m.oneTimeId \in memory.preKeys \cup {NoKey}
    \/ <<"session", m.base>> \in unseen

\* commit checks and saves in one tick, whatever was checked before an await:
\* only the host, by import_identity or by filling the stores again, replaces a
\* pinned identity.
PinKept ==
  [][memory.pinned \in {NoIdentity, memory'.pinned} \/ asides' # asides
     \/ Restart]_vars
=============================================================================
