--------------------------- MODULE EpochAgreement ---------------------------
(***************************************************************************)
(* What the braid promises, without its pieces: epoch after epoch the two   *)
(* sides come to hold the same secret.  One draws it, the other must learn  *)
(* it before the next is drawn, and they take turns to draw.  The one that  *)
(* learns must first have offered a key pair.  A side is in epoch e from    *)
(* when it holds the secret of e - 1; the one that drew e's stays in e      *)
(* until it sees that the other has gone on.                                *)
(***************************************************************************)
EXTENDS Integers, Sequences, SequencesExt

CONSTANTS
  Initiator, Responder,
  Secrets     \* every secret that can be drawn

Sides == {Initiator, Responder}
Other(side) == IF side = Initiator THEN Responder ELSE Initiator

VARIABLES
  epoch,      \* [Sides -> the epoch its packets carry]
  offered,    \* [Sides -> it has sent of this epoch's key pair]
  secrets     \* [Sides -> the secrets held, the first epoch's first]

agreement == <<epoch, offered, secrets>>

\* The responder draws the odd epochs' secrets.
Drawer(e) == IF e % 2 = 1 THEN Responder ELSE Initiator

EpochInit ==
  /\ epoch = [side \in Sides |-> 1]
  /\ offered = [side \in Sides |-> FALSE]
  /\ secrets = [side \in Sides |-> <<>>]

Offer(side) ==
  /\ side # Drawer(epoch[side])
  /\ ~ offered[side]
  /\ offered' = [offered EXCEPT ![side] = TRUE]
  /\ UNCHANGED <<epoch, secrets>>

Draw(side) ==
  /\ side = Drawer(epoch[side])
  /\ epoch[side] = epoch[Other(side)]
  /\ offered[Other(side)]
  /\ Len(secrets[side]) = epoch[side] - 1
  /\ \E secret \in Secrets \ ToSet(secrets[side]) :
       secrets' = [secrets EXCEPT ![side] = Append(@, secret)]
  /\ UNCHANGED <<epoch, offered>>

Learn(side) ==
  /\ epoch[side] = epoch[Other(side)]
  /\ Len(secrets[side]) < Len(secrets[Other(side)])
  /\ secrets' = [secrets EXCEPT ![side] = secrets[Other(side)]]
  /\ epoch' = [epoch EXCEPT ![side] = @ + 1]
  /\ offered' = [offered EXCEPT ![side] = FALSE]

Follow(side) ==
  /\ epoch[Other(side)] = epoch[side] + 1
  /\ epoch' = [epoch EXCEPT ![side] = @ + 1]
  /\ UNCHANGED <<offered, secrets>>

EpochNext == \E side \in Sides : Offer(side) \/ Draw(side) \/ Learn(side) \/ Follow(side)

EpochSpec == EpochInit /\ [][EpochNext]_agreement
=============================================================================
