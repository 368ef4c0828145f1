----------------------------- MODULE RecordCell -----------------------------
(***************************************************************************)
(* What a conversation's session record goes through when every call of the *)
(* package takes effect at once: the record as it then is opens a message,  *)
(* seals one, or starts a session.  Host, with one queue, implements this.  *)
(***************************************************************************)
EXTENDS CoreRecord

VARIABLE cell

Init == cell = NoRecord

Open(m) == OpenFault(cell, m) = "none" /\ cell' = Opened(cell, m)
Seal == cell.live # NoBase /\ cell' = Sealed(cell)
Start(s) == s.base \notin cell.known /\ cell' = Started(cell, s)

Next == (\E m \in Messages : Open(m)) \/ Seal \/ (\E s \in Starts : Start(s))

Spec == Init /\ [][Next]_cell

\* No advance is ever taken back: not a message opened, a session known, nor a
\* step of a sending chain (what the record store of a conversation is for).
Advances(old, new) ==
  /\ old.opened \subseteq new.opened
  /\ old.known \subseteq new.known
  /\ \A b \in Bases : old.index[b] <= new.index[b]

NeverGoesBack == [][Advances(cell, cell')]_cell
=============================================================================
