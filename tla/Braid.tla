------------------------------- MODULE Braid -------------------------------
(***************************************************************************)
(* Two braids and the packets between them.  Every session message carries  *)
(* one packet, so a side sends whenever its application does, in whatever   *)
(* state it is; a packet may be delivered late, out of order, twice, or     *)
(* never, together with its message.                                        *)
(***************************************************************************)
EXTENDS BraidSteps

CONSTANTS
  Initiator, Responder,
  MaxEpochs,      \* bound: epochs whose key pair is made
  MaxInFlight     \* bound: packets on their way to one side

ASSUME SystemAssumption ==
  /\ Initiator # Responder
  /\ MaxEpochs \in Nat /\ MaxInFlight \in Nat \ {0}

VARIABLES
  braid,      \* [Sides -> state]
  network,    \* [Sides -> packets that may still reach it]
  made,       \* key pairs and secrets made so far
  secrets,    \* [Sides -> the secrets handed to the key stream, in order]
  fault       \* the outcome of the last receive

vars == <<braid, network, made, secrets, fault>>

Sides == {Initiator, Responder}
Other(side) == IF side = Initiator THEN Responder ELSE Initiator

Init ==
  /\ braid = [side \in Sides |-> IF side = Initiator THEN startInitiator ELSE startResponder]
  /\ network = [side \in Sides |-> {}]
  /\ made = 0
  /\ secrets = [side \in Sides |-> <<>>]
  /\ fault = "none"

\* The key stream's nextEpoch, when the step made an epoch's secret.
Emit(side, secret) ==
  secrets' = IF secret = NoSecret THEN secrets
             ELSE [secrets EXCEPT ![side] = Append(@, secret)]

\* send.  The packet joins those on their way; any of these are lost.
Send(side) ==
  LET step == Sent(braid[side], made + 1)
      to == Other(side)
  IN
  /\ braid[side].at = "unsampled" => braid[side].epoch <= MaxEpochs
  /\ \E left \in SUBSET network[to] :
       network' = [network EXCEPT ![to] = left \cup {step.packet}]
  /\ Cardinality(network'[to]) <= MaxInFlight
  /\ braid' = [braid EXCEPT ![side] = step.braid]
  /\ made' = IF MakesFresh(braid[side]) THEN made + 1 ELSE made
  /\ Emit(side, step.secret)
  /\ fault' = "none"

\* receive.  A refused packet changes nothing: the record is not written.
Receive(side, p) ==
  LET step == Received(braid[side], p) IN
  /\ fault' = step.fault
  /\ braid' = [braid EXCEPT ![side] = step.braid]
  /\ Emit(side, step.secret)
  /\ UNCHANGED <<network, made>>

Next ==
  \E side \in Sides :
    \/ Send(side)
    \/ \E p \in network[side] : Receive(side, p)

Spec == Init /\ [][Next]_vars

\* A packet that moves the braid on.
Useful(side, p) == Received(braid[side], p).braid # braid[side]

\* Both applications keep sending; and a network that is handed useful packets
\* again and again in the end delivers one of them.  Nothing is assumed of any
\* one packet.
Fairness ==
  \A side \in Sides :
    /\ WF_vars(Send(side))
    /\ SF_vars(\E p \in network[side] : Useful(side, p) /\ Receive(side, p))

FairSpec == Spec /\ Fairness

-----------------------------------------------------------------------------
(* Properties. *)

MadeKeys == 0 .. 2 * MaxEpochs
SecretSet == [epoch : 1 .. MaxEpochs, key : MadeKeys, rand : MadeKeys]

\* Two devices running this code never refuse each other's packets, however
\* late or often they come: no packet is ahead of what its receiver can take,
\* and no tag or encapsulation key fails its check.
NeverRefuses == fault = "none"

\* The two sides are in opposite roles of one epoch, or the one ahead waits for
\* the header while the other still sends the capsule's second half.
RolesMeet ==
  LET i == braid[Initiator]
      r == braid[Responder]
      Ahead(x, y) == x.epoch = y.epoch + 1 /\ x.at = "waiting" /\ y.at = "second_out"
  IN
  \/ i.epoch = r.epoch /\ (i.at \in SamplerStates <=> r.at \in EncapsulatorStates)
  \/ Ahead(i, r) \/ Ahead(r, i)

\* The message that each state gathers, by its Gather.
Gathered ==
  [waiting |-> "header", header_out |-> "first", encap_out_first_in |-> "second",
   first_out |-> "encap", first_acked |-> "encap"]

\* A Gather holds pieces of one message of this epoch's key pair, and fewer than
\* rebuild it: a state that has its message goes on and leaves none behind, so
\* that the next Gather starts with nothing of an earlier epoch or message.
GathersOneMessage ==
  \A side \in Sides :
    LET b == braid[side] IN
    /\ \A q, r \in b.in : q.of = r.of
    /\ \A q \in b.in : b.key # 0 => q.of.key = b.key
    /\ b.in # {} => /\ b.at \in DOMAIN Gathered
                   /\ Cardinality(b.in) < Need[Gathered[b.at]]

EA == INSTANCE EpochAgreement WITH
        Secrets <- SecretSet,
        epoch <- [side \in Sides |-> braid[side].epoch],
        offered <- [side \in Sides |-> braid[side].at \in SamplerStates \ {"unsampled"}]

\* The braid implements the agreement on every epoch's secret.
AgreesOnEpochs == EA!EpochSpec

\* Neither side stays in an epoch for ever: no state of the eleven waits for a
\* piece that the other side, in the state it is in, no longer sends.
EpochsAdvance ==
  \A side \in Sides : \A e \in 1 .. MaxEpochs :
    braid[side].epoch = e ~> braid[side].epoch = e + 1
=============================================================================
