----------------------------- MODULE PqRatchet -----------------------------
(***************************************************************************)
(* The post-quantum ratchet of one session (core/ratchet/pq/record.zig):    *)
(* the key stream (stream.zig) that gives every message a key of its own,   *)
(* over the agreement on the epochs' secrets that the braid provides (Braid *)
(* implements EpochAgreement).  The stream keeps one pair of flows for an   *)
(* epoch; a key is named here by the secrets that lead to its epoch, the    *)
(* side that seals and the index.                                           *)
(***************************************************************************)
EXTENDS EpochAgreement, FiniteSets

CONSTANTS
  MaxJump,        \* limits.max_jump, 25000 in the code
  MaxSkipped,     \* limits.max_skipped, 2000 in the code
  MaxEpochs,      \* bound: epochs whose secret is drawn
  MaxSends,       \* bound: messages each side sends
  MaxInFlight     \* bound: messages on their way to one side

ASSUME PqAssumption ==
  /\ Initiator # Responder
  /\ MaxJump \in Nat /\ MaxSkipped \in Nat
  /\ MaxEpochs \in Nat /\ MaxSends \in [Sides -> Nat] /\ MaxInFlight \in Nat \ {0}

VARIABLES
  stream,     \* [Sides -> the key stream]
  network,    \* [Sides -> messages that may still reach it]
  sends,      \* [Sides -> messages sent]
  given       \* history: [Sides -> keys its receives gave]

vars == <<epoch, offered, secrets, stream, network, sends, given>>

-----------------------------------------------------------------------------
(* A flow (stream.zig): the counter is the index last given; keys it passed  *)
(* over are held.                                                            *)

NewFlow == [counter |-> 0, held |-> {}, open |-> TRUE]

\* Limits.trimAt.
TrimAt == (MaxSkipped * 11) \div 10 + 1

\* Flow.keyAt, with Held.take.
KeyFault(flow, at) ==
  CASE at > flow.counter -> IF at - flow.counter > MaxJump THEN "KeyJump" ELSE "none"
    [] at = flow.counter -> "KeyAlreadyTaken"
    [] at < flow.counter ->
         IF at + MaxSkipped < flow.counter THEN "KeyTrimmed"
         ELSE IF at \in flow.held THEN "none" ELSE "KeyAlreadyTaken"

\* Mutant of Trimmed: all the held keys go.
TrimmedAll(held, current) == IF Cardinality(held) < TrimAt THEN held ELSE {}

\* Held.trim, when the counter stands at `current`.
Trimmed(held, current) ==
  IF Cardinality(held) < TrimAt THEN held ELSE {i \in held : i >= current - MaxSkipped}

\* Mutant of HeldAt: the key max_skipped steps behind is not kept.
HeldAtShort(flow, at) ==
  LET kept == IF at > flow.counter + MaxSkipped THEN {} ELSE flow.held
      passed == {i \in flow.counter + 1 .. at - 1 : i + MaxSkipped > at}
  IN  Trimmed(kept \cup passed, at - 1)

\* The keys held once those between the counter and `at` are passed over.
HeldAt(flow, at) ==
  LET kept == IF at > flow.counter + MaxSkipped THEN {} ELSE flow.held
      passed == {i \in flow.counter + 1 .. at - 1 : i + MaxSkipped >= at}
  IN  Trimmed(kept \cup passed, at - 1)

\* Mutants of FlowAfter: a held key stays when it is taken; the counter runs one
\* ahead.
FlowAfterKeeping(flow, at) ==
  IF at > flow.counter
  THEN [flow EXCEPT !.counter = at, !.held = HeldAt(flow, at)]
  ELSE flow

FlowAfter(flow, at) ==
  IF at > flow.counter
  THEN [flow EXCEPT !.counter = at, !.held = HeldAt(flow, at)]
  ELSE [flow EXCEPT !.held = @ \ {at}]

-----------------------------------------------------------------------------
(* The stream.                                                               *)

EpochOf(path) == [path |-> path, send |-> NewFlow, recv |-> NewFlow]

OpenStream == [epoch |-> 0, sendEpoch |-> 0, epochs |-> <<EpochOf(<<>>)>>]

\* nextEpoch, when the braid's step leads to one more secret than before.
NextEpoch(s, held) ==
  IF Len(held) = s.epoch THEN s
  ELSE [s EXCEPT !.epoch = Len(held),
                 !.epochs = Append(@, EpochOf(Append(s.epochs[Len(s.epochs)].path,
                                                     held[Len(held)])))]

\* slotOf.
HasSlot(s, e) == e <= s.epoch /\ s.epoch - e < Len(s.epochs)
SlotOf(s, e) == Len(s.epochs) - (s.epoch - e)

\* keyToSend on a later epoch than before: `before` older epochs stay, for what
\* is still to be received, and no flow older than `sending` sends again.
KeptFrom(s, e, before, sending) ==
  LET slot == SlotOf(s, e)
      first == IF slot > before + 1 THEN slot - before ELSE 1
      Closed(pair) == [pair EXCEPT !.send.open = FALSE]
      kept == SubSeq(s.epochs, first, Len(s.epochs))
  IN  [s EXCEPT !.sendEpoch = e,
                !.epochs = [i \in DOMAIN kept |->
                              IF i + first - 1 < sending THEN Closed(kept[i]) ELSE kept[i]]]

\* Mutants of Moved: one epoch too many stays; the new epoch's flow is closed too;
\* the newest epochs make room.
MovedKeepingTwo(s, e) == KeptFrom(s, e, 2, SlotOf(s, e))
MovedClosing(s, e) == KeptFrom(s, e, 1, SlotOf(s, e) + 1)
MovedDroppingNewest(s, e) ==
  [s EXCEPT !.sendEpoch = e,
            !.epochs = IF Len(@) > 2 THEN SubSeq(@, 1, Len(@) - 1) ELSE @]

\* One older epoch stays (epochs_kept_before_send).
Moved(s, e) == KeptFrom(s, e, 1, SlotOf(s, e))

SendFault(s, e) ==
  CASE e < s.sendEpoch -> "SendEpochWentBack"
    [] e >= s.sendEpoch /\ ~ HasSlot(s, e) -> "EpochOutOfRange"
    [] OTHER -> IF s.epochs[SlotOf(s, e)].send.open THEN "none" ELSE "EpochOutOfRange"

\* keyToSend: the stream after the key.
AfterSend(s, e) ==
  LET moved == IF s.sendEpoch = e THEN s ELSE Moved(s, e)
  IN  [moved EXCEPT !.epochs[SlotOf(moved, e)].send.counter = @ + 1]

\* keyToReceive.
ReceiveFault(s, e, index) ==
  IF HasSlot(s, e) THEN KeyFault(s.epochs[SlotOf(s, e)].recv, index)
  ELSE "EpochOutOfRange"

AfterReceive(s, e, index) ==
  [s EXCEPT !.epochs[SlotOf(s, e)].recv = FlowAfter(@, index)]

Key(s, e, from, index) ==
  [path |-> s.epochs[SlotOf(s, e)].path, from |-> from, index |-> index]

-----------------------------------------------------------------------------
Init ==
  /\ EpochInit
  /\ stream = [side \in Sides |-> OpenStream]
  /\ network = [side \in Sides |-> {}]
  /\ sends = [side \in Sides |-> 0]
  /\ given = [side \in Sides |-> {}]

\* What record.send makes of a side's stream when the braid's step leaves it in
\* epoch e with these secrets: the new epoch, if there is one, and a key of the
\* epoch before the packet's.
Sending(side, e, held) ==
  LET opened == NextEpoch(stream[side], held)
      fault == SendFault(opened, e - 1)
      after == IF fault = "none" THEN AfterSend(opened, e - 1) ELSE stream[side]
      index == after.epochs[SlotOf(after, e - 1)].send.counter
  IN
  [fault |-> fault, stream |-> after,
   message |-> [epoch |-> e, index |-> index, key |-> Key(after, e - 1, side, index)]]

\* The braid's send: the sampler's first packet of an epoch offers its key pair,
\* the encapsulator's may draw the secret.
Puts(side) ==
  \/ Offer(side)
  \/ Draw(side) /\ Len(secrets'[side]) <= MaxEpochs
  \/ (side = Drawer(epoch[side]) \/ offered[side]) /\ UNCHANGED agreement

\* record.send.  Any messages on their way may be lost.
Send(side) ==
  /\ sends[side] < MaxSends[side]
  /\ Puts(side)
  /\ LET sending == Sending(side, epoch[side], secrets'[side])
         to == Other(side)
     IN
     /\ sending.fault = "none"
     /\ sends' = [sends EXCEPT ![side] = @ + 1]
     /\ stream' = [stream EXCEPT ![side] = sending.stream]
     /\ \E left \in SUBSET network[to] :
          network' = [network EXCEPT ![to] = left \cup {sending.message}]
     /\ Cardinality(network'[to]) <= MaxInFlight
  /\ UNCHANGED given

\* What record.receive makes of a message, the braid's step taken.
Receiving(side, m, held) ==
  LET opened == NextEpoch(stream[side], held)
      fault == ReceiveFault(opened, m.epoch - 1, m.index)
  IN
  IF fault = "none"
  THEN [fault |-> fault, stream |-> AfterReceive(opened, m.epoch - 1, m.index),
        key |-> Key(opened, m.epoch - 1, Other(side), m.index)]
  ELSE [fault |-> fault, stream |-> stream[side], key |-> m.key]

\* The braid's receive: a packet of this side's epoch may complete the secret,
\* one ahead says that the other side has gone on.
Takes(side, m) ==
  \/ m.epoch = epoch[side] /\ Learn(side)
  \/ m.epoch > epoch[side] /\ Follow(side)
  \/ m.epoch <= epoch[side] /\ UNCHANGED agreement

\* record.receive that gives the message's key.
Receive(side, m) ==
  /\ Takes(side, m)
  /\ LET receiving == Receiving(side, m, secrets'[side]) IN
     /\ receiving.fault = "none"
     /\ stream' = [stream EXCEPT ![side] = receiving.stream]
     /\ given' = [given EXCEPT ![side] = @ \cup {receiving.key}]
  /\ UNCHANGED <<network, sends>>

\* record.receive that refuses it: nothing is written, the braid's step included.
Refuse(side, m) ==
  /\ Receiving(side, m, secrets[side]).fault # "none"
  /\ UNCHANGED vars

Next ==
  \E side \in Sides :
    \/ Send(side)
    \/ \E m \in network[side] : Receive(side, m) \/ Refuse(side, m)

Spec == Init /\ [][Next]_vars

-----------------------------------------------------------------------------
(* Properties. *)

\* A receive that gives a key gives the one the message was sealed under, in
\* whatever epochs the two sides are when it comes.
KeysAgree ==
  [][\A side \in Sides : given'[side] # given[side] =>
       \E m \in network[side] : given'[side] = given[side] \cup {m.key}]_vars

\* No key is given for two receives: a message that comes again is refused,
\* whatever came in between.
KeyGivenOnce ==
  \A side \in Sides : \A m \in network[side] :
    m.key \in given[side] => Receiving(side, m, secrets[side]).fault # "none"

\* keyToSend never refuses: neither SendEpochWentBack nor EpochOutOfRange, so
\* no history of losses leaves a session that can no longer seal.
CanAlwaysSend ==
  \A side \in Sides : Sending(side, epoch[side], secrets[side]).fault = "none"

\* nextEpoch's assertion, epoch == s.epoch + 1, and what keyToSend leaves: the
\* stream's epochs are the last two or three without a gap, its own, the one it
\* sends in, which is that or the one before, and one before that.
EpochsInOrder ==
  \A side \in Sides :
    LET s == stream[side]
        EpochAt(slot) == s.epoch - (Len(s.epochs) - slot)
    IN
    /\ s.epoch = Len(secrets[side])
    /\ s.sendEpoch \in {s.epoch - 1, s.epoch}
    /\ Len(s.epochs) <= 3
    /\ \A slot \in DOMAIN s.epochs :
         /\ s.epochs[slot].path = SubSeq(secrets[side], 1, EpochAt(slot))
         /\ s.epochs[slot].send.open <=> EpochAt(slot) >= s.sendEpoch

\* What refuses a message: its epoch lies more than one before the one this
\* side sends in; its key was given; or max_skipped or max_jump lie between it
\* and the flow's counter.  In particular trimming drops no key that take's own
\* test still admits, and no message comes before its epoch is known.
RefusalExplained ==
  \A side \in Sides : \A m \in network[side] :
    LET fault == Receiving(side, m, secrets[side]).fault
        s == stream[side]
        counter == s.epochs[SlotOf(s, m.epoch - 1)].recv.counter
    IN
    CASE fault = "none" -> TRUE
      [] fault = "EpochOutOfRange" -> m.epoch < s.sendEpoch
      [] fault = "KeyAlreadyTaken" -> m.key \in given[side]
      [] fault = "KeyTrimmed" -> m.index + MaxSkipped < counter
      [] fault = "KeyJump" -> m.index > counter + MaxJump
      [] OTHER -> FALSE
=============================================================================
