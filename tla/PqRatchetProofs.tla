-------------------------- MODULE PqRatchetProofs --------------------------
(***************************************************************************)
(* The post-quantum ratchet, for any secrets and limits and any losses and  *)
(* repetitions on the way.  The agreement keeps the two sides' secrets      *)
(* within one of each other, the shorter a prefix of the longer; a stream's *)
(* epochs are the last of those that these secrets lead to; and a flow's    *)
(* counter and held keys tell which keys were given.                        *)
(***************************************************************************)
EXTENDS PqRatchet, SequenceTheorems, TLAPS

-----------------------------------------------------------------------------
(* The inductive invariant. *)

Epochs == Nat \ {0}
Indices == Nat \ {0}
Flows == [counter : Nat, held : SUBSET Indices, open : BOOLEAN]
Pairs == [path : Seq(Secrets), send : Flows, recv : Flows]
Streams == [epoch : Nat, sendEpoch : Nat, epochs : Seq(Pairs)]
KeyNames == [path : Seq(Secrets), from : Sides, index : Indices]
Packets == [epoch : Epochs, index : Indices, key : KeyNames]

\* Every variable holds what its declaration says.
AgreementTypes ==
  /\ epoch \in [Sides -> Epochs] /\ offered \in [Sides -> BOOLEAN]
  /\ secrets \in [Sides -> Seq(Secrets)]

TypeOK ==
  /\ AgreementTypes
  /\ stream \in [Sides -> Streams] /\ network \in [Sides -> SUBSET Packets]
  /\ sends \in [Sides -> Nat] /\ given \in [Sides -> SUBSET KeyNames]

\* The side that draws its epoch's secret, and where the other one is: in that
\* epoch, with a secret less once this one has drawn, or in the next.
Turn(drawer) ==
  LET other == Other(drawer) IN
  /\ drawer = Drawer(epoch[drawer])
  /\ ~ offered[drawer]
  /\ \/ /\ epoch[other] = epoch[drawer] /\ Len(secrets[drawer]) = epoch[drawer] - 1
        /\ secrets[other] = secrets[drawer]
     \/ /\ epoch[other] = epoch[drawer] /\ Len(secrets[other]) = epoch[drawer] - 1
        /\ \E secret \in Secrets : secrets[drawer] = Append(secrets[other], secret)
        /\ offered[other]
     \/ /\ epoch[other] = epoch[drawer] + 1 /\ Len(secrets[drawer]) = epoch[drawer]
        /\ secrets[other] = secrets[drawer]
        /\ ~ offered[other]

Agreed == AgreementTypes /\ \E drawer \in Sides : Turn(drawer)

\* A stream's epochs: the first it still has, and each by its number.
FirstEpoch(s) == IF s.sendEpoch = 0 THEN 0 ELSE s.sendEpoch - 1
PairAt(s, e) == s.epochs[SlotOf(s, e)]

\* A stream has its last epochs, down to the one before it sends in, each on the
\* path of the secrets that lead to it.
FollowsSecrets(s, held) ==
  /\ s \in Streams
  /\ s.epoch = Len(held) /\ s.sendEpoch <= s.epoch
  /\ Len(s.epochs) = s.epoch - FirstEpoch(s) + 1
  /\ \A e \in FirstEpoch(s)..s.epoch :
       /\ PairAt(s, e).path = SubSeq(held, 1, e)
       /\ PairAt(s, e).send.open <=> e >= s.sendEpoch

\* What a flow says of the keys taken of it.
FlowTells(flow, taken) ==
  /\ \A i \in flow.held : i < flow.counter /\ i \notin taken
  /\ \A i \in taken : i \in 1..flow.counter
  /\ \A i \in 1..flow.counter : i \in taken \/ i \in flow.held \/ i + MaxSkipped < flow.counter

\* The keys of an epoch that a side was given.
Taken(keys, e) == {key.index : key \in {key \in keys : Len(key.path) = e}}

FlowsTell(s, keys) == \A e \in FirstEpoch(s)..s.epoch : FlowTells(PairAt(s, e).recv, Taken(keys, e))

\* The names of the keys that a side can have sealed under, or been given.
Names(key, from, held) ==
  key.from = from /\ Len(key.path) <= Len(held) /\ key.path = SubSeq(held, 1, Len(key.path))

\* How far a side's stream is with sending.
SendsBehind(side) ==
  /\ stream[side].sendEpoch <= epoch[side] - 1
  /\ offered[side] => stream[side].sendEpoch = epoch[side] - 1
  /\ stream[side].epoch <= stream[side].sendEpoch + 1

\* What is on its way to a side is of an epoch that the other has reached.
Sealed(side, m) ==
  /\ m.epoch <= epoch[Other(side)]
  /\ m.key = [path |-> SubSeq(secrets[Other(side)], 1, m.epoch - 1), from |-> Other(side),
              index |-> m.index]

SideHolds(side) ==
  /\ FollowsSecrets(stream[side], secrets[side])
  /\ FlowsTell(stream[side], given[side])
  /\ SendsBehind(side)
  /\ \A m \in network[side] : Sealed(side, m)
  /\ \A key \in given[side] : Names(key, Other(side), secrets[side])

IInv == TypeOK /\ Agreed /\ \A side \in Sides : SideHolds(side)

-----------------------------------------------------------------------------
(* The agreement. *)

LEMMA TwoSides ==
  ASSUME NEW side \in Sides
  PROVE  /\ Other(side) \in Sides /\ Other(side) # side /\ Other(Other(side)) = side
         /\ \A x \in Sides : x = side \/ x = Other(side)
BY PqAssumption DEF Sides, Other

\* They take turns to draw.
LEMMA TurnsToDraw ==
  ASSUME NEW e \in Nat
  PROVE  Drawer(e) \in Sides /\ Drawer(e + 1) = Other(Drawer(e))
BY PqAssumption DEF Drawer, Other, Sides

\* A step of the braid adds one secret, or none.
Extends(held, more) == more = held \/ \E secret \in Secrets : more = Append(held, secret)

\* A step of the braid: nothing, or one of the agreement's.
AgreementStep ==
  \/ UNCHANGED agreement
  \/ \E side \in Sides : Offer(side) \/ Draw(side) \/ Learn(side) \/ Follow(side)

LEMMA OfferKeeps ==
  ASSUME Agreed, NEW side \in Sides, Offer(side)
  PROVE  Agreed'
<1>1. PICK drawer \in Sides : Turn(drawer)
  BY DEF Agreed
<1>2. /\ offered' = [offered EXCEPT ![side] = TRUE] /\ UNCHANGED <<epoch, secrets>>
      /\ side # Drawer(epoch[side]) /\ ~ offered[side]
  BY DEF Offer
<1>3. AgreementTypes'
  BY <1>2 DEF Agreed, AgreementTypes
<1>4. side = Other(drawer) /\ drawer # side
  BY <1>1, <1>2, TwoSides DEF Turn
<1>5. epoch[side] = epoch[drawer]
  BY <1>1, <1>2, <1>4, TurnsToDraw DEF Turn, Agreed, AgreementTypes, Epochs
<1>6. ~ offered'[drawer] /\ offered'[side]
  BY <1>1, <1>2, <1>4 DEF Turn, Agreed, AgreementTypes
<1>7. Turn(drawer)'
  BY <1>1, <1>2, <1>4, <1>5, <1>6 DEF Turn, Agreed, AgreementTypes, Epochs
<1>. QED
  BY <1>3, <1>7 DEF Agreed

LEMMA DrawKeeps ==
  ASSUME Agreed, NEW side \in Sides, Draw(side)
  PROVE  /\ Agreed'
         /\ \E secret \in Secrets : secrets' = [secrets EXCEPT ![side] = Append(secrets[side], secret)]
<1>1. PICK drawer \in Sides : Turn(drawer)
  BY DEF Agreed
<1>2. /\ side = Drawer(epoch[side]) /\ epoch[side] = epoch[Other(side)] /\ offered[Other(side)]
      /\ Len(secrets[side]) = epoch[side] - 1 /\ UNCHANGED <<epoch, offered>>
  BY DEF Draw
<1>3. PICK secret \in Secrets : secrets' = [secrets EXCEPT ![side] = Append(secrets[side], secret)]
  BY DEF Draw
<1>4. side = drawer
  BY <1>1, <1>2, TwoSides DEF Turn
<1>5. /\ secrets'[drawer] = Append(secrets[drawer], secret)
      /\ secrets'[Other(drawer)] = secrets[Other(drawer)]
      /\ secrets[drawer] \in Seq(Secrets)
  BY <1>3, <1>4, TwoSides DEF Agreed, AgreementTypes
<1>6. secrets' \in [Sides -> Seq(Secrets)]
  BY <1>3, <1>5 DEF Agreed, AgreementTypes
<1>7. AgreementTypes'
  BY <1>2, <1>6 DEF Agreed, AgreementTypes
<1>8. Len(secrets[Other(drawer)]) = epoch[drawer] - 1 /\ secrets[Other(drawer)] = secrets[drawer]
  <2>1. epoch[drawer] \in Nat
    BY DEF Agreed, AgreementTypes, Epochs
  <2>2. ASSUME NEW x \in Secrets, secrets[drawer] = Append(secrets[Other(drawer)], x)
        PROVE  Len(secrets[drawer]) = Len(secrets[Other(drawer)]) + 1
    BY <2>2, AppendProperties, TwoSides DEF Agreed, AgreementTypes
  <2>. QED
    BY <1>1, <1>2, <1>4, <2>1, <2>2 DEF Turn
<1>9. Turn(drawer)'
  BY <1>1, <1>2, <1>4, <1>5, <1>8 DEF Turn
<1>. QED
  BY <1>3, <1>7, <1>9 DEF Agreed

LEMMA LearnKeeps ==
  ASSUME Agreed, NEW side \in Sides, Learn(side)
  PROVE  /\ Agreed'
         /\ \E secret \in Secrets : secrets' = [secrets EXCEPT ![side] = Append(secrets[side], secret)]
         /\ offered[side] /\ Len(secrets[side]) = epoch[side] - 1
<1>1. PICK drawer \in Sides : Turn(drawer)
  BY DEF Agreed
<1>2. /\ epoch[side] = epoch[Other(side)] /\ Len(secrets[side]) < Len(secrets[Other(side)])
      /\ secrets' = [secrets EXCEPT ![side] = secrets[Other(side)]]
      /\ epoch' = [epoch EXCEPT ![side] = @ + 1]
      /\ offered' = [offered EXCEPT ![side] = FALSE]
  BY DEF Learn
<1>3. epoch \in [Sides -> Nat \ {0}] /\ offered \in [Sides -> BOOLEAN] /\ secrets \in [Sides -> Seq(Secrets)]
  BY DEF Agreed, AgreementTypes, Epochs
<1>4. AgreementTypes'
  BY <1>2, <1>3, TwoSides DEF AgreementTypes, Epochs
<1>5. secrets[Other(drawer)] # secrets[drawer]
  <2>1. ~ (Len(secrets[side]) < Len(secrets[side]))
    BY <1>3
  <2>2. secrets[side] # secrets[Other(side)]
    BY <1>2, <2>1
  <2>. QED
    BY <2>2, TwoSides
<1>6. PICK secret \in Secrets : secrets[drawer] = Append(secrets[Other(drawer)], secret)
  BY <1>1, <1>5 DEF Turn
<1>7. /\ epoch[Other(drawer)] = epoch[drawer] /\ Len(secrets[Other(drawer)]) = epoch[drawer] - 1
      /\ offered[Other(drawer)]
  BY <1>1, <1>5 DEF Turn
<1>8. Len(secrets[drawer]) = Len(secrets[Other(drawer)]) + 1
  BY <1>3, <1>6, AppendProperties, TwoSides
<1>9. side = Other(drawer) /\ drawer # side /\ drawer = Other(side)
  BY <1>2, <1>3, <1>8, TwoSides
<1>10. /\ secrets'[side] = secrets[drawer] /\ secrets'[drawer] = secrets[drawer]
       /\ epoch'[side] = epoch[drawer] + 1 /\ epoch'[drawer] = epoch[drawer]
       /\ ~ offered'[side] /\ offered'[drawer] = offered[drawer]
  BY <1>2, <1>3, <1>7, <1>9
<1>11. Len(secrets[drawer]) = epoch[drawer]
  BY <1>3, <1>7, <1>8
<1>12. Turn(drawer)'
  BY <1>1, <1>9, <1>10, <1>11 DEF Turn
<1>. QED
  BY <1>2, <1>4, <1>6, <1>7, <1>9, <1>12 DEF Agreed

LEMMA FollowKeeps ==
  ASSUME Agreed, NEW side \in Sides, Follow(side)
  PROVE  Agreed' /\ ~ offered[side]
<1>1. PICK drawer \in Sides : Turn(drawer)
  BY DEF Agreed
<1>2. /\ epoch[Other(side)] = epoch[side] + 1
      /\ epoch' = [epoch EXCEPT ![side] = @ + 1] /\ UNCHANGED <<offered, secrets>>
  BY DEF Follow
<1>3. epoch \in [Sides -> Nat \ {0}] /\ offered \in [Sides -> BOOLEAN] /\ secrets \in [Sides -> Seq(Secrets)]
  BY DEF Agreed, AgreementTypes, Epochs
<1>4. AgreementTypes'
  BY <1>2, <1>3 DEF AgreementTypes, Epochs
<1>5. side = drawer
  BY <1>1, <1>2, <1>3, TwoSides DEF Turn
<1>6. /\ ~ offered[drawer] /\ drawer = Drawer(epoch[drawer])
      /\ epoch[Other(drawer)] = epoch[drawer] + 1 /\ Len(secrets[drawer]) = epoch[drawer]
      /\ secrets[Other(drawer)] = secrets[drawer] /\ ~ offered[Other(drawer)]
  BY <1>1, <1>2, <1>3, <1>5 DEF Turn
<1>. DEFINE next == Other(drawer)
<1>7. next \in Sides /\ Other(next) = drawer /\ next # drawer
  BY TwoSides
<1>8. epoch'[drawer] = epoch[drawer] + 1 /\ epoch'[next] = epoch[drawer] + 1
  BY <1>2, <1>3, <1>5, <1>6, <1>7
<1>9. next = Drawer(epoch'[next])
  BY <1>3, <1>6, <1>8, TurnsToDraw
<1>10. Turn(next)'
  BY <1>2, <1>3, <1>6, <1>7, <1>8, <1>9 DEF Turn
<1>. QED
  BY <1>4, <1>5, <1>6, <1>7, <1>10 DEF Agreed

\* The braid's step keeps the agreement, and takes no secret back.
LEMMA StepAgrees ==
  ASSUME Agreed, AgreementStep
  PROVE  /\ Agreed'
         /\ \A x \in Sides :
              /\ epoch[x] <= epoch'[x]
              /\ Extends(secrets[x], secrets'[x])
<1>0. epoch \in [Sides -> Nat \ {0}] /\ secrets \in [Sides -> Seq(Secrets)]
  BY DEF Agreed, AgreementTypes, Epochs
<1>1. CASE UNCHANGED agreement
  <2>1. Agreed'
    BY <1>1 DEF agreement, Agreed, AgreementTypes, Turn
  <2>. QED
    BY <1>0, <1>1, <2>1 DEF agreement, Extends
<1>2. ASSUME NEW side \in Sides, Offer(side)
      PROVE  Agreed' /\ UNCHANGED <<epoch, secrets>>
  BY <1>2, OfferKeeps DEF Offer
<1>3. ASSUME NEW side \in Sides, Draw(side)
      PROVE  /\ Agreed' /\ UNCHANGED epoch
             /\ \E secret \in Secrets : secrets' = [secrets EXCEPT ![side] = Append(secrets[side], secret)]
  BY <1>3, DrawKeeps DEF Draw
<1>4. ASSUME NEW side \in Sides, Learn(side)
      PROVE  /\ Agreed' /\ epoch' = [epoch EXCEPT ![side] = @ + 1]
             /\ \E secret \in Secrets : secrets' = [secrets EXCEPT ![side] = Append(secrets[side], secret)]
  BY <1>4, LearnKeeps DEF Learn
<1>5. ASSUME NEW side \in Sides, Follow(side)
      PROVE  Agreed' /\ UNCHANGED secrets /\ epoch' = [epoch EXCEPT ![side] = @ + 1]
  BY <1>5, FollowKeeps DEF Follow
<1>. QED
  BY <1>0, <1>1, <1>2, <1>3, <1>4, <1>5 DEF AgreementStep, Extends

-----------------------------------------------------------------------------
(* A flow. *)

\* Trimming takes no key that the next take would still find.
LEMMA HeldAtHas ==
  ASSUME NEW flow \in Flows, \A i \in flow.held : i < flow.counter,
         NEW at \in Indices, at > flow.counter
  PROVE  /\ \A i \in HeldAt(flow, at) : i \in flow.held \/ i \in flow.counter + 1 .. at - 1
         /\ \A i \in Nat : (i \in flow.held \/ i \in flow.counter + 1 .. at - 1) /\ i + MaxSkipped >= at
                             => i \in HeldAt(flow, at)
<1>. DEFINE kept == IF at > flow.counter + MaxSkipped THEN {} ELSE flow.held
            passed == {i \in flow.counter + 1 .. at - 1 : i + MaxSkipped >= at}
            all == kept \cup passed
<1>1. HeldAt(flow, at) = Trimmed(all, at - 1)
  BY DEF HeldAt
<1>2. flow.counter \in Nat /\ flow.held \subseteq Nat /\ MaxSkipped \in Nat /\ at \in Nat
  BY PqAssumption DEF Flows, Indices
<1>3. all \subseteq Nat
  BY <1>2
<1>4. /\ Trimmed(all, at - 1) \subseteq all
      /\ \A i \in all : i >= at - 1 - MaxSkipped => i \in Trimmed(all, at - 1)
  BY <1>2, <1>3 DEF Trimmed
<1>5. \A i \in Nat : (i \in flow.held \/ i \in flow.counter + 1 .. at - 1) /\ i + MaxSkipped >= at
                       => i \in all /\ i >= at - 1 - MaxSkipped
  BY <1>2
<1>. QED
  BY <1>1, <1>4, <1>5

\* keyAt: what refuses a key, and a key that was taken is always refused.
LEMMA KeyFaults ==
  ASSUME NEW flow \in Flows, NEW taken, FlowTells(flow, taken), NEW at \in Indices,
         NEW fault, fault = KeyFault(flow, at)
  PROVE  /\ fault \in {"none", "KeyJump", "KeyAlreadyTaken", "KeyTrimmed"}
         /\ at \in taken => fault # "none"
         /\ fault = "KeyAlreadyTaken" => at \in taken
         /\ fault = "KeyTrimmed" => at + MaxSkipped < flow.counter
         /\ fault = "KeyJump" => at > flow.counter + MaxJump
<1>1. flow.counter \in Nat /\ MaxSkipped \in Nat /\ MaxJump \in Nat /\ at \in Nat /\ at >= 1
  BY PqAssumption DEF Flows, Indices
<1>2. CASE at > flow.counter
  <2>1. fault = IF at - flow.counter > MaxJump THEN "KeyJump" ELSE "none"
    BY <1>1, <1>2 DEF KeyFault
  <2>. QED
    BY <1>1, <1>2, <2>1 DEF FlowTells
<1>3. CASE at = flow.counter
  <2>1. fault = "KeyAlreadyTaken"
    BY <1>1, <1>3 DEF KeyFault
  <2>2. at \in taken
    BY <1>1, <1>3 DEF FlowTells
  <2>. QED
    BY <2>1, <2>2
<1>4. CASE at < flow.counter
  <2>1. fault = IF at + MaxSkipped < flow.counter THEN "KeyTrimmed"
                ELSE IF at \in flow.held THEN "none" ELSE "KeyAlreadyTaken"
    BY <1>1, <1>4 DEF KeyFault
  <2>. QED
    BY <1>1, <1>4, <2>1 DEF FlowTells
<1>. QED
  BY <1>1, <1>2, <1>3, <1>4

\* A key is given: the flow knows it as taken.
LEMMA FlowAfterTells ==
  ASSUME NEW flow \in Flows, NEW taken, FlowTells(flow, taken), NEW at \in Indices,
         KeyFault(flow, at) = "none"
  PROVE  /\ FlowAfter(flow, at) \in Flows /\ FlowAfter(flow, at).open = flow.open
         /\ FlowTells(FlowAfter(flow, at), taken \cup {at})
<1>1. flow.counter \in Nat /\ flow.held \subseteq Nat /\ MaxSkipped \in Nat
      /\ at \in Nat /\ at >= 1 /\ flow.held \subseteq Indices
  BY PqAssumption DEF Flows, Indices
<1>2. CASE at > flow.counter
  <2>. DEFINE new == [flow EXCEPT !.counter = at, !.held = HeldAt(flow, at)]
  <2>1. FlowAfter(flow, at) = new
    BY <1>2 DEF FlowAfter
  <2>2. /\ \A i \in HeldAt(flow, at) : i \in flow.held \/ i \in flow.counter + 1 .. at - 1
        /\ \A i \in Nat : (i \in flow.held \/ i \in flow.counter + 1 .. at - 1) /\ i + MaxSkipped >= at
                            => i \in HeldAt(flow, at)
    BY <1>2, HeldAtHas DEF FlowTells
  <2>3. HeldAt(flow, at) \subseteq Indices
    BY <1>1, <2>2 DEF Indices
  <2>4. /\ new \in Flows /\ new.open = flow.open
        /\ new.counter = at /\ new.held = HeldAt(flow, at)
    BY <1>1, <2>3 DEF Flows
  <2>5. \A i \in new.held : i < new.counter /\ i \notin taken \cup {at}
    BY <1>1, <1>2, <2>2, <2>4 DEF FlowTells
  <2>6. \A i \in taken \cup {at} : i \in 1..new.counter
    BY <1>1, <1>2, <2>4 DEF FlowTells
  <2>7. ASSUME NEW i \in 1..new.counter
        PROVE  i \in taken \cup {at} \/ i \in new.held \/ i + MaxSkipped < new.counter
    <3>1. i \in Nat /\ (i = at \/ i \in flow.counter + 1 .. at - 1 \/ i \in 1..flow.counter)
      BY <1>1, <1>2, <2>4
    <3>2. CASE i \in flow.counter + 1 .. at - 1
      BY <1>1, <2>2, <2>4, <3>1, <3>2
    <3>3. CASE i \in 1..flow.counter
      <4>1. i \in taken \/ i \in flow.held \/ i + MaxSkipped < flow.counter
        BY <3>3 DEF FlowTells
      <4>. QED
        BY <1>1, <1>2, <2>2, <2>4, <3>1, <4>1
    <3>. QED
      BY <3>1, <3>2, <3>3
  <2>. QED
    BY <2>1, <2>4, <2>5, <2>6, <2>7 DEF FlowTells
<1>3. CASE ~ (at > flow.counter)
  <2>. DEFINE new == [flow EXCEPT !.held = @ \ {at}]
  <2>1. FlowAfter(flow, at) = new
    BY <1>3 DEF FlowAfter
  <2>2. new \in Flows /\ new.open = flow.open /\ new.counter = flow.counter
        /\ new.held = flow.held \ {at}
    BY DEF Flows
  <2>. QED
    BY <1>1, <1>3, <2>1, <2>2 DEF FlowTells
<1>. QED
  BY <1>2, <1>3

-----------------------------------------------------------------------------
(* The stream. *)

\* Which numbers have a place, and where.
LEMMA Slots ==
  ASSUME NEW held \in Seq(Secrets), NEW s, FollowsSecrets(s, held)
  PROVE  /\ s \in Streams /\ s.epoch \in Nat /\ s.sendEpoch \in 0..s.epoch
         /\ FirstEpoch(s) \in 0..s.sendEpoch
         /\ s.epochs \in Seq(Pairs)
         /\ \A e \in FirstEpoch(s)..s.epoch :
              /\ SlotOf(s, e) = e - FirstEpoch(s) + 1 /\ SlotOf(s, e) \in 1..Len(s.epochs)
              /\ PairAt(s, e) \in Pairs
         /\ \A e \in Nat : HasSlot(s, e) <=> e \in FirstEpoch(s)..s.epoch
<1>1. /\ s \in Streams /\ s.epoch \in Nat /\ s.sendEpoch \in Nat /\ s.sendEpoch <= s.epoch
      /\ s.epochs \in Seq(Pairs) /\ Len(s.epochs) = s.epoch - FirstEpoch(s) + 1
  BY DEF FollowsSecrets, Streams
<1>2. FirstEpoch(s) \in 0..s.sendEpoch
  BY <1>1 DEF FirstEpoch
<1>3. ASSUME NEW e \in FirstEpoch(s)..s.epoch
      PROVE  /\ SlotOf(s, e) = e - FirstEpoch(s) + 1 /\ SlotOf(s, e) \in 1..Len(s.epochs)
             /\ PairAt(s, e) \in Pairs
  <2>1. SlotOf(s, e) = e - FirstEpoch(s) + 1 /\ SlotOf(s, e) \in 1..Len(s.epochs)
    BY <1>1, <1>2 DEF SlotOf
  <2>2. s.epochs[SlotOf(s, e)] \in Pairs
    BY <1>1, <2>1
  <2>. QED
    BY <2>1, <2>2 DEF PairAt
<1>4. \A e \in Nat : HasSlot(s, e) <=> e \in FirstEpoch(s)..s.epoch
  BY <1>1, <1>2 DEF HasSlot
<1>. QED
  BY <1>1, <1>2, <1>3, <1>4

\* nextEpoch.
LEMMA NextEpochFollows ==
  ASSUME NEW held \in Seq(Secrets), NEW s, FollowsSecrets(s, held),
         NEW more \in Seq(Secrets),
         Extends(held, more),
         NEW t, t = NextEpoch(s, more)
  PROVE  /\ FollowsSecrets(t, more) /\ t.sendEpoch = s.sendEpoch
         /\ \A e \in FirstEpoch(s)..s.epoch : PairAt(t, e) = PairAt(s, e)
         /\ \A e \in s.epoch + 1 .. t.epoch : PairAt(t, e).recv = NewFlow
         /\ more = held => t = s
<1>0. s.epoch = Len(held) /\ Len(held) \in Nat
  BY DEF FollowsSecrets
<1>1. CASE more = held
  <2>1. t = s
    BY <1>0, <1>1 DEF NextEpoch
  <2>. QED
    BY <1>0, <1>1, <2>1
<1>2. ASSUME NEW secret \in Secrets, more = Append(held, secret)
      PROVE  /\ FollowsSecrets(t, more) /\ t.sendEpoch = s.sendEpoch
             /\ \A e \in FirstEpoch(s)..s.epoch : PairAt(t, e) = PairAt(s, e)
             /\ \A e \in s.epoch + 1 .. t.epoch : PairAt(t, e).recv = NewFlow
             /\ more # held
  <2>. DEFINE n == Len(held)
              pair == EpochOf(Append(s.epochs[Len(s.epochs)].path, more[n + 1]))
  <2>1. Len(more) = n + 1 /\ more[n + 1] = secret
        /\ (\A e \in 0..n : SubSeq(more, 1, e) = SubSeq(held, 1, e)) /\ SubSeq(more, 1, n + 1) = more
    BY <1>2
  <2>2. /\ s \in Streams /\ s.sendEpoch \in 0..n /\ FirstEpoch(s) \in 0..s.sendEpoch
        /\ s.epochs \in Seq(Pairs) /\ Len(s.epochs) = n - FirstEpoch(s) + 1
        /\ \A e \in FirstEpoch(s)..n :
             SlotOf(s, e) = e - FirstEpoch(s) + 1 /\ SlotOf(s, e) \in 1..Len(s.epochs)
    BY <1>0, Slots DEF FollowsSecrets
  <2>3. s.epochs[Len(s.epochs)].path = held
    <3>1. SlotOf(s, n) = Len(s.epochs)
      BY <2>2
    <3>2. PairAt(s, n).path = SubSeq(held, 1, n)
      BY <1>0, <2>2 DEF FollowsSecrets
    <3>. QED
      BY <3>1, <3>2 DEF PairAt
  <2>4. pair = EpochOf(more)
    BY <1>2, <2>1, <2>3
  <2>5. pair \in Pairs /\ pair.path = more /\ pair.send.open /\ pair.recv = NewFlow
    BY <2>4 DEF EpochOf, Pairs, NewFlow, Flows
  <2>6. t = [s EXCEPT !.epoch = n + 1, !.epochs = Append(s.epochs, pair)]
    BY <1>0, <2>1 DEF NextEpoch
  <2>. HIDE DEF pair
  <2>7. /\ Append(s.epochs, pair) \in Seq(Pairs)
        /\ Len(Append(s.epochs, pair)) = Len(s.epochs) + 1
        /\ \A i \in 1..Len(s.epochs) : Append(s.epochs, pair)[i] = s.epochs[i]
        /\ Append(s.epochs, pair)[Len(s.epochs) + 1] = pair
    BY <2>2, <2>5, AppendProperties
  <2>8. /\ t \in Streams /\ t.epoch = n + 1 /\ t.sendEpoch = s.sendEpoch
        /\ t.epochs = Append(s.epochs, pair) /\ FirstEpoch(t) = FirstEpoch(s)
    <3>1. n + 1 \in Nat /\ Append(s.epochs, pair) \in Seq(Pairs) /\ s \in Streams
      BY <1>0, <2>2, <2>7
    <3>2. /\ t \in Streams /\ t.epoch = n + 1 /\ t.sendEpoch = s.sendEpoch
          /\ t.epochs = Append(s.epochs, pair)
      BY ONLY <2>6, <3>1 DEF Streams
    <3>. QED
      BY <3>2 DEF FirstEpoch
  <2>9. ASSUME NEW e \in FirstEpoch(s)..n
        PROVE  PairAt(t, e) = PairAt(s, e)
    <3>1. SlotOf(t, e) = SlotOf(s, e)
      BY <1>0, <2>2, <2>7, <2>8, SMTT(30) DEF SlotOf
    <3>. QED
      BY <2>2, <2>7, <2>8, <3>1 DEF PairAt
  <2>10. PairAt(t, n + 1) = pair
    <3>1. SlotOf(t, n + 1) = Len(s.epochs) + 1
      BY <2>2, <2>7, <2>8 DEF SlotOf
    <3>. QED
      BY <2>7, <2>8, <3>1 DEF PairAt
  <2>11. ASSUME NEW e \in FirstEpoch(t)..t.epoch
         PROVE  /\ PairAt(t, e).path = SubSeq(more, 1, e)
                /\ PairAt(t, e).send.open <=> e >= t.sendEpoch
    <3>1. CASE e = n + 1
      BY <2>1, <2>2, <2>5, <2>8, <2>10, <3>1
    <3>2. CASE e # n + 1
      <4>1. e \in FirstEpoch(s)..n /\ e \in 0..n
        BY <2>2, <2>8, <3>2
      <4>. QED
        BY <1>0, <2>1, <2>8, <2>9, <4>1 DEF FollowsSecrets
    <3>. QED
      BY <3>1, <3>2
  <2>12. FollowsSecrets(t, more)
    BY <2>1, <2>2, <2>7, <2>8, <2>11, SMTT(30) DEF FollowsSecrets
  <2>13. more # held
    BY <2>1
  <2>14. \A e \in s.epoch + 1 .. t.epoch : e = n + 1
    BY <1>0, <2>8
  <2>. QED
    BY <1>0, <2>5, <2>8, <2>9, <2>10, <2>12, <2>13, <2>14
<1>. QED
  BY <1>1, <1>2 DEF Extends

\* One pair changes, on the same path and as open to sending as before.
LEMMA OnePairFollows ==
  ASSUME NEW held \in Seq(Secrets), NEW s, FollowsSecrets(s, held),
         NEW e \in FirstEpoch(s)..s.epoch,
         NEW pair \in Pairs, pair.path = PairAt(s, e).path, pair.send.open = PairAt(s, e).send.open,
         NEW t, t = [s EXCEPT !.epochs = [s.epochs EXCEPT ![SlotOf(s, e)] = pair]]
  PROVE  /\ FollowsSecrets(t, held) /\ t.sendEpoch = s.sendEpoch /\ t.epoch = s.epoch
         /\ FirstEpoch(t) = FirstEpoch(s) /\ SlotOf(t, e) = SlotOf(s, e)
         /\ PairAt(t, e) = pair
         /\ \A x \in FirstEpoch(s)..s.epoch : x # e => PairAt(t, x) = PairAt(s, x)
<1>1. /\ s \in Streams /\ s.epochs \in Seq(Pairs) /\ FirstEpoch(s) \in Nat /\ s.epoch \in Nat
      /\ \A x \in FirstEpoch(s)..s.epoch :
           SlotOf(s, x) = x - FirstEpoch(s) + 1 /\ SlotOf(s, x) \in 1..Len(s.epochs)
  BY Slots
<1>. DEFINE epochs == [s.epochs EXCEPT ![SlotOf(s, e)] = pair]
<1>2. SlotOf(s, e) \in 1..Len(s.epochs)
  BY <1>1
<1>3. /\ epochs \in Seq(Pairs) /\ Len(epochs) = Len(s.epochs)
      /\ epochs[SlotOf(s, e)] = pair
      /\ \A i \in 1..Len(s.epochs) : i # SlotOf(s, e) => epochs[i] = s.epochs[i]
  BY <1>1, <1>2
<1>. HIDE DEF epochs
<1>4. /\ t \in Streams /\ t.epoch = s.epoch /\ t.sendEpoch = s.sendEpoch /\ t.epochs = epochs
  BY <1>1, <1>3 DEF Streams, epochs
<1>5. FirstEpoch(t) = FirstEpoch(s) /\ \A x : SlotOf(t, x) = SlotOf(s, x)
  BY <1>3, <1>4 DEF FirstEpoch, SlotOf
<1>6. PairAt(t, e) = pair
  BY <1>3, <1>4, <1>5 DEF PairAt
<1>7. ASSUME NEW x \in FirstEpoch(s)..s.epoch, x # e
      PROVE  PairAt(t, x) = PairAt(s, x)
  <2>1. SlotOf(s, x) \in 1..Len(s.epochs) /\ SlotOf(s, x) # SlotOf(s, e)
    BY <1>1, <1>7
  <2>. QED
    BY <1>3, <1>4, <1>5, <2>1 DEF PairAt
<1>8. FollowsSecrets(t, held)
  <2>1. \A x \in FirstEpoch(s)..s.epoch :
          PairAt(t, x).path = PairAt(s, x).path /\ PairAt(t, x).send.open = PairAt(s, x).send.open
    BY <1>6, <1>7
  <2>2. /\ t.epoch = Len(held) /\ t.sendEpoch <= t.epoch
        /\ Len(t.epochs) = t.epoch - FirstEpoch(t) + 1
    BY <1>3, <1>4, <1>5 DEF FollowsSecrets
  <2>3. ASSUME NEW x \in FirstEpoch(t)..t.epoch
        PROVE  /\ PairAt(t, x).path = SubSeq(held, 1, x)
               /\ PairAt(t, x).send.open <=> x >= t.sendEpoch
    <3>1. x \in FirstEpoch(s)..s.epoch
      BY <1>4, <1>5
    <3>2. /\ PairAt(s, x).path = SubSeq(held, 1, x)
          /\ PairAt(s, x).send.open <=> x >= s.sendEpoch
      BY <3>1 DEF FollowsSecrets
    <3>. QED
      BY <1>4, <2>1, <3>1, <3>2
  <2>. QED
    BY <1>4, <2>2, <2>3 DEF FollowsSecrets
<1>. QED
  BY <1>4, <1>5, <1>6, <1>7, <1>8

\* keyToSend moves on: it keeps the pairs it may still need.
LEMMA MovedFollows ==
  ASSUME NEW held \in Seq(Secrets), NEW s, FollowsSecrets(s, held),
         NEW e \in s.sendEpoch + 1 .. s.epoch,
         NEW t, t = Moved(s, e)
  PROVE  /\ FollowsSecrets(t, held) /\ t.sendEpoch = e /\ t.epoch = s.epoch
         /\ FirstEpoch(t) >= FirstEpoch(s)
         /\ \A x \in FirstEpoch(t)..t.epoch : PairAt(t, x).recv = PairAt(s, x).recv
<1>. DEFINE slot == SlotOf(s, e)
            first == IF slot > 2 THEN slot - 1 ELSE 1
            kept == SubSeq(s.epochs, first, Len(s.epochs))
            Closed(pair) == [pair EXCEPT !.send = [pair.send EXCEPT !.open = FALSE]]
            epochs == [i \in DOMAIN kept |->
                         IF i + first - 1 < slot THEN Closed(kept[i]) ELSE kept[i]]
<1>1. /\ s \in Streams /\ s.epochs \in Seq(Pairs) /\ s.epoch \in Nat /\ s.sendEpoch \in 0..s.epoch
      /\ FirstEpoch(s) \in 0..s.sendEpoch
      /\ Len(s.epochs) = s.epoch - FirstEpoch(s) + 1
      /\ \A x \in FirstEpoch(s)..s.epoch :
           SlotOf(s, x) = x - FirstEpoch(s) + 1 /\ SlotOf(s, x) \in 1..Len(s.epochs)
  BY Slots DEF FollowsSecrets
<1>2. slot = e - FirstEpoch(s) + 1 /\ e \in Nat /\ e # 0 /\ slot \in 1..Len(s.epochs)
  BY <1>1
<1>3. t = [s EXCEPT !.sendEpoch = e, !.epochs = epochs]
  BY DEF Moved, KeptFrom
<1>. HIDE DEF slot
<1>4. first = e - FirstEpoch(s) /\ first \in 1..Len(s.epochs)
  <2>1. /\ slot \in Int /\ e \in Int /\ FirstEpoch(s) \in Int /\ s.sendEpoch \in Nat
        /\ slot = e - FirstEpoch(s) + 1 /\ e > s.sendEpoch
        /\ Len(s.epochs) \in Int /\ slot <= Len(s.epochs)
    BY <1>1, <1>2, SMTT(30)
  <2>2. CASE s.sendEpoch = 0
    <3>1. FirstEpoch(s) = 0
      BY <2>2 DEF FirstEpoch
    <3>. QED
      BY ONLY <2>1, <2>2, <3>1
  <2>3. CASE s.sendEpoch # 0
    <3>1. FirstEpoch(s) = s.sendEpoch - 1
      BY <2>3 DEF FirstEpoch
    <3>. QED
      BY ONLY <2>1, <2>3, <3>1
  <2>. QED
    BY <2>2, <2>3
<1>. HIDE DEF first
<1>5. /\ kept \in Seq(Pairs) /\ Len(kept) = s.epoch - (e - 1) + 1
      /\ \A i \in 1..Len(kept) : kept[i] = s.epochs[i + first - 1]
  <2>1. /\ first \in Int /\ Len(s.epochs) \in Int /\ first <= Len(s.epochs)
        /\ \A i \in first..Len(s.epochs) : s.epochs[i] \in Pairs
    BY <1>1, <1>4
  <2>2. /\ kept \in Seq(Pairs) /\ Len(kept) = Len(s.epochs) - first + 1
        /\ \A i \in 1 .. Len(s.epochs) - first + 1 : kept[i] = s.epochs[first + i - 1]
    BY ONLY <2>1, SubSeqProperties DEF kept
  <2>3. Len(kept) = s.epoch - (e - 1) + 1
    BY <1>1, <1>2, <1>4, <2>2
  <2>4. \A i \in 1..Len(kept) : first + i - 1 = i + first - 1
    BY <2>1, <2>2
  <2>. QED
    BY <2>2, <2>3, <2>4
<1>. HIDE DEF kept
<1>6. \A pair \in Pairs : /\ Closed(pair) \in Pairs /\ Closed(pair).path = pair.path
                          /\ Closed(pair).recv = pair.recv /\ ~ Closed(pair).send.open
  BY DEF Pairs, Flows
<1>. HIDE DEF Closed
<1>7. /\ epochs \in Seq(Pairs) /\ Len(epochs) = Len(kept)
      /\ \A i \in 1..Len(kept) :
           epochs[i] = IF i + first - 1 < slot THEN Closed(kept[i]) ELSE kept[i]
  <2>1. DOMAIN kept = 1..Len(kept) /\ Len(kept) \in Nat /\ \A i \in 1..Len(kept) : kept[i] \in Pairs
    BY <1>5
  <2>2. \A i \in 1..Len(kept) : (IF i + first - 1 < slot THEN Closed(kept[i]) ELSE kept[i]) \in Pairs
    BY <1>6, <2>1
  <2>3. epochs = [i \in 1..Len(kept) |->
                    IF i + first - 1 < slot THEN Closed(kept[i]) ELSE kept[i]]
    BY <2>1
  <2>4. epochs \in [1..Len(kept) -> Pairs]
    BY <2>2, <2>3
  <2>5. epochs \in Seq(Pairs)
    BY <2>1, <2>4, SeqDef
  <2>. QED
    BY <2>1, <2>3, <2>4, <2>5
<1>. HIDE DEF epochs
<1>8. /\ t \in Streams /\ t.epoch = s.epoch /\ t.sendEpoch = e /\ t.epochs = epochs
      /\ FirstEpoch(t) = e - 1
  <2>1. /\ t \in Streams /\ t.epoch = s.epoch /\ t.sendEpoch = e /\ t.epochs = epochs
    BY <1>1, <1>2, <1>3, <1>7 DEF Streams
  <2>. QED
    BY <1>2, <2>1 DEF FirstEpoch
<1>9. ASSUME NEW x \in FirstEpoch(t)..t.epoch
      PROVE  /\ x \in FirstEpoch(s)..s.epoch
             /\ PairAt(t, x) = IF x < e THEN Closed(PairAt(s, x)) ELSE PairAt(s, x)
             /\ PairAt(s, x) \in Pairs
  <2>1. x \in FirstEpoch(s)..s.epoch
    BY <1>1, <1>2, <1>8
  <2>2. /\ x \in Int /\ e \in Int /\ s.epoch \in Int /\ FirstEpoch(s) \in Int
        /\ e - 1 <= x /\ x <= s.epoch /\ slot = e - FirstEpoch(s) + 1 /\ first = e - FirstEpoch(s)
        /\ Len(kept) = s.epoch - (e - 1) + 1
    <3>1. Len(kept) = s.epoch - (e - 1) + 1
      BY <1>5
    <3>2. x \in e - 1 .. s.epoch
      BY <1>8
    <3>3. e \in Int /\ s.epoch \in Int /\ FirstEpoch(s) \in Int
      BY <1>1, <1>2
    <3>. QED
      BY <1>2, <1>4, <3>1, <3>2, <3>3
  <2>3. SlotOf(t, x) = Len(kept) - (s.epoch - x)
    BY <1>7, <1>8 DEF SlotOf
  <2>4. SlotOf(s, x) = x - FirstEpoch(s) + 1
    BY <1>1, <2>1
  <2>5. SlotOf(t, x) = x - (e - 1) + 1 /\ SlotOf(t, x) \in 1..Len(kept)
    <3>1. PICK n \in Int, long \in Int, st \in Int :
            n = s.epoch /\ long = Len(kept) /\ st = SlotOf(t, x)
      BY <2>2, <2>3, SMTT(30)
    <3>2. /\ x \in Int /\ e \in Int /\ e - 1 <= x /\ x <= n
          /\ long = n - (e - 1) + 1 /\ st = long - (n - x)
      BY <2>2, <2>3, <3>1
    <3>3. st = x - (e - 1) + 1 /\ st \in 1..long
      BY <3>2
    <3>. QED
      BY <3>1, <3>3
  <2>6. SlotOf(s, x) = SlotOf(t, x) + first - 1 /\ (SlotOf(s, x) < slot <=> x < e)
    <3>. DEFINE f == FirstEpoch(s)  st == SlotOf(t, x)
    <3>1. st = x - (e - 1) + 1 /\ slot = e - f + 1 /\ first = e - f /\ SlotOf(s, x) = x - f + 1
      BY <2>2, <2>4, <2>5
    <3>2. x \in Int /\ e \in Int /\ f \in Int
      BY <2>2
    <3>. HIDE DEF f, st
    <3>. QED
      BY ONLY <3>1, <3>2 DEF st
  <2>7. PairAt(s, x) \in Pairs
    BY <2>1, Slots
  <2>8. PairAt(t, x) = IF SlotOf(s, x) < slot THEN Closed(s.epochs[SlotOf(s, x)])
                       ELSE s.epochs[SlotOf(s, x)]
    BY <1>5, <1>7, <1>8, <2>5, <2>6 DEF PairAt
  <2>. QED
    BY <2>1, <2>6, <2>7, <2>8 DEF PairAt
<1>10. ASSUME NEW x \in FirstEpoch(t)..t.epoch
       PROVE  /\ PairAt(t, x).path = SubSeq(held, 1, x)
              /\ PairAt(t, x).send.open <=> x >= t.sendEpoch
              /\ PairAt(t, x).recv = PairAt(s, x).recv
  <2>1. /\ PairAt(s, x).path = SubSeq(held, 1, x)
        /\ PairAt(s, x).send.open <=> x >= s.sendEpoch
    BY <1>9 DEF FollowsSecrets
  <2>2. x \in Nat /\ s.sendEpoch \in Nat /\ s.sendEpoch < e
    BY <1>1, <1>2, <1>8
  <2>. QED
    BY <1>2, <1>6, <1>8, <1>9, <2>1, <2>2
<1>11. FollowsSecrets(t, held)
  <2>1. s.epoch = Len(held) /\ e <= s.epoch
    BY <1>1 DEF FollowsSecrets
  <2>. QED
    BY <1>5, <1>7, <1>8, <1>10, <2>1 DEF FollowsSecrets
<1>12. e - 1 >= FirstEpoch(s)
  BY <1>1
<1>. QED
  BY <1>8, <1>10, <1>11, <1>12

\* keyToSend: the flows that receive stay as they are.
LEMMA AfterSendFollows ==
  ASSUME NEW held \in Seq(Secrets), NEW s, FollowsSecrets(s, held),
         NEW e \in s.sendEpoch .. s.epoch,
         NEW t, t = AfterSend(s, e)
  PROVE  /\ FollowsSecrets(t, held) /\ t.sendEpoch = e /\ t.epoch = s.epoch
         /\ FirstEpoch(t) >= FirstEpoch(s) /\ e \in FirstEpoch(t)..t.epoch
         /\ \A x \in FirstEpoch(t)..t.epoch : PairAt(t, x).recv = PairAt(s, x).recv
         /\ PairAt(t, e).send.counter \in Indices
<1>. DEFINE moved == IF s.sendEpoch = e THEN s ELSE Moved(s, e)
            pair == [PairAt(moved, e) EXCEPT !.send =
                       [PairAt(moved, e).send EXCEPT !.counter = @ + 1]]
<1>1. s.sendEpoch \in Nat /\ s.epoch \in Nat /\ e \in Nat /\ FirstEpoch(s) \in Nat
  BY Slots
<1>2. /\ FollowsSecrets(moved, held) /\ moved.sendEpoch = e /\ moved.epoch = s.epoch
      /\ FirstEpoch(moved) >= FirstEpoch(s)
      /\ \A x \in FirstEpoch(moved)..moved.epoch : PairAt(moved, x).recv = PairAt(s, x).recv
  <2>1. CASE s.sendEpoch = e
    BY <1>1, <2>1
  <2>2. CASE s.sendEpoch # e
    <3>1. e \in s.sendEpoch + 1 .. s.epoch
      BY <1>1, <2>2
    <3>. QED
      BY <2>2, <3>1, MovedFollows
  <2>. QED
    BY <2>1, <2>2
<1>3. t = [moved EXCEPT !.epochs = [moved.epochs EXCEPT ![SlotOf(moved, e)] = pair]]
  BY DEF AfterSend, PairAt
<1>. HIDE DEF moved
<1>4. e \in FirstEpoch(moved)..moved.epoch
  <2>1. FirstEpoch(moved) \in 0..moved.sendEpoch
    BY <1>2, Slots
  <2>. QED
    BY <1>1, <1>2, <2>1
<1>5. PairAt(moved, e) \in Pairs
  BY <1>2, <1>4, Slots
<1>6. /\ pair \in Pairs /\ pair.path = PairAt(moved, e).path
      /\ pair.send.open = PairAt(moved, e).send.open
      /\ pair.recv = PairAt(moved, e).recv /\ pair.send.counter \in Indices
  BY <1>5 DEF Pairs, Flows, Indices
<1>. HIDE DEF pair
<1>7. /\ FollowsSecrets(t, held) /\ t.sendEpoch = moved.sendEpoch /\ t.epoch = moved.epoch
      /\ FirstEpoch(t) = FirstEpoch(moved) /\ PairAt(t, e) = pair
      /\ \A x \in FirstEpoch(moved)..moved.epoch : x # e => PairAt(t, x) = PairAt(moved, x)
  BY <1>2, <1>3, <1>4, <1>6, OnePairFollows
<1>. QED
  BY <1>2, <1>4, <1>6, <1>7

\* keyToReceive: one flow gives a key.
LEMMA AfterReceiveFollows ==
  ASSUME NEW held \in Seq(Secrets), NEW s, FollowsSecrets(s, held),
         NEW e \in FirstEpoch(s)..s.epoch, NEW index,
         FlowAfter(PairAt(s, e).recv, index) \in Flows,
         NEW t, t = AfterReceive(s, e, index)
  PROVE  /\ FollowsSecrets(t, held) /\ t.sendEpoch = s.sendEpoch /\ t.epoch = s.epoch
         /\ FirstEpoch(t) = FirstEpoch(s)
         /\ PairAt(t, e).recv = FlowAfter(PairAt(s, e).recv, index)
         /\ \A x \in FirstEpoch(s)..s.epoch : x # e => PairAt(t, x) = PairAt(s, x)
<1>. DEFINE pair == [PairAt(s, e) EXCEPT !.recv = FlowAfter(PairAt(s, e).recv, index)]
<1>1. t = [s EXCEPT !.epochs = [s.epochs EXCEPT ![SlotOf(s, e)] = pair]]
  BY DEF AfterReceive, PairAt
<1>2. PairAt(s, e) \in Pairs
  BY Slots
<1>3. /\ pair \in Pairs /\ pair.path = PairAt(s, e).path
      /\ pair.send.open = PairAt(s, e).send.open
      /\ pair.recv = FlowAfter(PairAt(s, e).recv, index)
  BY <1>2 DEF Pairs
<1>. HIDE DEF pair
<1>. QED
  BY <1>1, <1>3, OnePairFollows

-----------------------------------------------------------------------------
(* A side. *)

\* The two sides' secrets: how many there are, and that they begin alike.
BeginAlike(side) ==
  /\ Len(secrets[side]) \in {epoch[side] - 1, epoch[side]}
  /\ epoch[Other(side)] <= Len(secrets[side]) + 1
  /\ \A n \in Nat : n <= Len(secrets[side]) /\ n <= Len(secrets[Other(side)]) =>
       SubSeq(secrets[side], 1, n) = SubSeq(secrets[Other(side)], 1, n)

BothBeginAlike == \A side \in Sides : BeginAlike(side)

LEMMA SecretsAgree == Agreed => BothBeginAlike
<1>. SUFFICES ASSUME Agreed, NEW side \in Sides  PROVE BeginAlike(side)
  BY DEF BothBeginAlike
<1>1. PICK drawer \in Sides : Turn(drawer)
  BY DEF Agreed
<1>. DEFINE other == Other(drawer)
<1>2. /\ epoch \in [Sides -> Nat \ {0}] /\ secrets \in [Sides -> Seq(Secrets)]
      /\ other \in Sides /\ Other(other) = drawer /\ (side = drawer \/ side = other)
  BY TwoSides DEF Agreed, AgreementTypes, Epochs
<1>3. CASE /\ epoch[other] = epoch[drawer] /\ Len(secrets[drawer]) = epoch[drawer] - 1
           /\ secrets[other] = secrets[drawer]
  BY <1>2, <1>3 DEF BeginAlike
<1>4. CASE epoch[other] = epoch[drawer] + 1 /\ Len(secrets[drawer]) = epoch[drawer]
           /\ secrets[other] = secrets[drawer]
  BY <1>2, <1>4 DEF BeginAlike
<1>5. CASE /\ epoch[other] = epoch[drawer] /\ Len(secrets[other]) = epoch[drawer] - 1
           /\ \E secret \in Secrets : secrets[drawer] = Append(secrets[other], secret)
  <2>1. PICK secret \in Secrets : secrets[drawer] = Append(secrets[other], secret)
    BY <1>5
  <2>2. Len(secrets[drawer]) = Len(secrets[other]) + 1
    BY <1>2, <2>1
  <2>3. \A n \in Nat : n <= Len(secrets[other]) =>
          SubSeq(secrets[drawer], 1, n) = SubSeq(secrets[other], 1, n)
    BY <1>2, <2>1
  <2>4. /\ epoch[drawer] \in Nat /\ epoch[other] = epoch[drawer]
        /\ Len(secrets[other]) = epoch[drawer] - 1 /\ Len(secrets[drawer]) = epoch[drawer]
    BY <1>2, <1>5, <2>2
  <2>5. CASE side = drawer
    BY <2>3, <2>4, <2>5 DEF BeginAlike
  <2>6. CASE side = other
    BY <1>2, <2>3, <2>4, <2>6 DEF BeginAlike
  <2>. QED
    BY <1>2, <2>5, <2>6
<1>. QED
  BY <1>1, <1>3, <1>4, <1>5 DEF Turn

LEMMA SecretsAgreeNext == Agreed' => BothBeginAlike'
BY SecretsAgree, PTL

\* Secrets that are only added to lead where they led.
LEMMA SecretsStay ==
  ASSUME NEW held \in Seq(Secrets), NEW more \in Seq(Secrets),
         Extends(held, more)
  PROVE  /\ Len(held) <= Len(more)
         /\ \A n \in Nat : n <= Len(held) => SubSeq(more, 1, n) = SubSeq(held, 1, n)
<1>1. CASE more = held
  BY <1>1
<1>2. ASSUME NEW secret \in Secrets, more = Append(held, secret)
      PROVE  /\ Len(held) <= Len(more)
             /\ \A n \in Nat : n <= Len(held) => SubSeq(more, 1, n) = SubSeq(held, 1, n)
  BY <1>2
<1>. QED
  BY <1>1, <1>2 DEF Extends

LEMMA PathLength ==
  ASSUME NEW held \in Seq(Secrets), NEW n \in Nat, n <= Len(held)
  PROVE  SubSeq(held, 1, n) \in Seq(Secrets) /\ Len(SubSeq(held, 1, n)) = n
OBVIOUS

\* What is on its way is sealed as it was, however the agreement goes on.
LEMMA SealedStays ==
  ASSUME Agreed, AgreementStep, NEW side \in Sides, NEW m \in Packets, Sealed(side, m)
  PROVE  Sealed(side, m)'
<1>. DEFINE other == Other(side)
<1>1. other \in Sides
  BY TwoSides
<1>2. /\ secrets \in [Sides -> Seq(Secrets)] /\ epoch \in [Sides -> Epochs]
      /\ secrets' \in [Sides -> Seq(Secrets)] /\ epoch' \in [Sides -> Epochs]
      /\ epoch[other] <= epoch'[other]
      /\ Extends(secrets[other], secrets'[other])
  BY <1>1, StepAgrees DEF Agreed, AgreementTypes
<1>3. Len(secrets[other]) \in {epoch[other] - 1, epoch[other]}
  BY <1>1, SecretsAgree DEF BothBeginAlike, BeginAlike
<1>4. /\ m.epoch \in Nat \ {0} /\ m.epoch <= epoch[other]
      /\ epoch[other] \in Nat /\ epoch'[other] \in Nat
  BY <1>1, <1>2 DEF Packets, Epochs, Sealed
<1>5. m.epoch - 1 \in Nat /\ m.epoch - 1 <= Len(secrets[other]) /\ m.epoch <= epoch'[other]
  BY <1>2, <1>3, <1>4
<1>6. SubSeq(secrets'[other], 1, m.epoch - 1) = SubSeq(secrets[other], 1, m.epoch - 1)
  BY <1>1, <1>2, <1>5, SecretsStay
<1>. QED
  BY <1>5, <1>6 DEF Sealed

LEMMA NamesStay ==
  ASSUME NEW held \in Seq(Secrets), NEW more \in Seq(Secrets),
         Extends(held, more),
         NEW key \in KeyNames, NEW from, Names(key, from, held)
  PROVE  Names(key, from, more)
<1>1. Len(key.path) \in Nat /\ Len(held) \in Nat /\ Len(more) \in Nat
  BY DEF KeyNames
<1>2. Len(held) <= Len(more) /\ SubSeq(more, 1, Len(key.path)) = SubSeq(held, 1, Len(key.path))
  BY <1>1, SecretsStay DEF Names
<1>. QED
  BY <1>1, <1>2 DEF Names

\* nextEpoch on a side's stream: no key of a new epoch was given.
LEMMA OpenedTells ==
  ASSUME IInv, NEW side \in Sides, NEW more \in Seq(Secrets),
         Extends(secrets[side], more),
         NEW opened, opened = NextEpoch(stream[side], more)
  PROVE  /\ FollowsSecrets(opened, more) /\ FlowsTell(opened, given[side])
         /\ opened.sendEpoch = stream[side].sendEpoch
<1>1. /\ secrets[side] \in Seq(Secrets) /\ FollowsSecrets(stream[side], secrets[side])
      /\ FlowsTell(stream[side], given[side]) /\ given[side] \subseteq KeyNames
      /\ \A key \in given[side] : Names(key, Other(side), secrets[side])
  BY DEF IInv, TypeOK, AgreementTypes, SideHolds
<1>2. /\ FollowsSecrets(opened, more) /\ opened.sendEpoch = stream[side].sendEpoch
      /\ \A e \in FirstEpoch(stream[side])..stream[side].epoch :
           PairAt(opened, e) = PairAt(stream[side], e)
      /\ \A e \in stream[side].epoch + 1 .. opened.epoch : PairAt(opened, e).recv = NewFlow
  BY <1>1, NextEpochFollows
<1>3. FirstEpoch(opened) = FirstEpoch(stream[side])
  BY <1>2 DEF FirstEpoch
<1>4. /\ FirstEpoch(opened) \in Nat /\ opened.epoch \in Nat
      /\ stream[side].epoch = Len(secrets[side]) /\ stream[side].epoch \in Nat
  <2>1. opened.epoch \in Nat /\ opened.sendEpoch \in Nat /\ FirstEpoch(opened) \in 0..opened.sendEpoch
    BY <1>2, Slots
  <2>2. stream[side].epoch = Len(secrets[side])
    BY <1>1 DEF FollowsSecrets
  <2>. QED
    BY <1>1, <2>1, <2>2
<1>5. ASSUME NEW e \in FirstEpoch(opened)..opened.epoch
      PROVE  FlowTells(PairAt(opened, e).recv, Taken(given[side], e))
  <2>1. CASE e <= stream[side].epoch
    <3>1. e \in FirstEpoch(stream[side])..stream[side].epoch
      BY <1>3, <1>4, <2>1
    <3>. QED
      BY <1>1, <1>2, <3>1 DEF FlowsTell
  <2>2. CASE ~ (e <= stream[side].epoch)
    <3>1. e \in stream[side].epoch + 1 .. opened.epoch
      BY <1>4, <2>2
    <3>2. \A key \in given[side] : Len(key.path) # e
      BY <1>1, <1>4, <2>2 DEF Names
    <3>3. Taken(given[side], e) = {}
      BY <3>2 DEF Taken
    <3>. QED
      BY <1>2, <3>1, <3>3 DEF FlowTells, NewFlow
  <2>. QED
    BY <2>1, <2>2
<1>. QED
  BY <1>2, <1>5 DEF FlowsTell

-----------------------------------------------------------------------------
(* The steps. *)

\* What the agreement's steps leave of the other side's part.
LEMMA PutsStep ==
  ASSUME Agreed, NEW side \in Sides, Puts(side)
  PROVE  /\ AgreementStep /\ epoch' = epoch
         /\ secrets'[Other(side)] = secrets[Other(side)]
         /\ offered'[Other(side)] = offered[Other(side)]
<1>1. secrets \in [Sides -> Seq(Secrets)] /\ offered \in [Sides -> BOOLEAN]
      /\ Other(side) \in Sides /\ Other(side) # side
  BY TwoSides DEF Agreed, AgreementTypes
<1>2. CASE Offer(side)
  BY <1>1, <1>2 DEF Offer, AgreementStep
<1>3. CASE Draw(side)
  BY <1>1, <1>3, DrawKeeps DEF Draw, AgreementStep
<1>4. CASE UNCHANGED agreement
  BY <1>4 DEF agreement, AgreementStep
<1>. QED
  BY <1>2, <1>3, <1>4 DEF Puts

LEMMA TakesStep ==
  ASSUME IInv, NEW side \in Sides, NEW m, Takes(side, m)
  PROVE  /\ AgreementStep
         /\ secrets'[Other(side)] = secrets[Other(side)]
         /\ offered'[Other(side)] = offered[Other(side)]
         /\ epoch'[Other(side)] = epoch[Other(side)]
         /\ stream[side].sendEpoch <= epoch'[side] - 1
         /\ offered'[side] => stream[side].sendEpoch = epoch'[side] - 1
         /\ Len(secrets'[side]) <= stream[side].sendEpoch + 1
<1>1. /\ Agreed /\ AgreementTypes
      /\ secrets \in [Sides -> Seq(Secrets)] /\ offered \in [Sides -> BOOLEAN]
      /\ epoch \in [Sides -> Nat \ {0}]
      /\ Other(side) \in Sides /\ Other(side) # side
  BY TwoSides DEF IInv, Agreed, AgreementTypes, Epochs
<1>2. /\ stream[side].sendEpoch <= epoch[side] - 1
      /\ offered[side] => stream[side].sendEpoch = epoch[side] - 1
      /\ Len(secrets[side]) <= stream[side].sendEpoch + 1
      /\ stream[side].sendEpoch \in Nat
  BY DEF IInv, SideHolds, SendsBehind, FollowsSecrets, Streams
<1>3. CASE Learn(side)
  <2>1. /\ secrets' = [secrets EXCEPT ![side] = secrets[Other(side)]]
        /\ epoch' = [epoch EXCEPT ![side] = @ + 1]
        /\ offered' = [offered EXCEPT ![side] = FALSE]
    BY <1>3 DEF Learn
  <2>2. PICK secret \in Secrets : secrets' = [secrets EXCEPT ![side] = Append(secrets[side], secret)]
    BY <1>1, <1>3, LearnKeeps
  <2>3. offered[side] /\ Len(secrets[side]) = epoch[side] - 1
    BY <1>1, <1>3, LearnKeeps
  <2>4. secrets'[side] = Append(secrets[side], secret) /\ secrets[side] \in Seq(Secrets)
    BY <1>1, <2>2
  <2>5. Len(secrets'[side]) = Len(secrets[side]) + 1
    BY <2>4
  <2>6. epoch'[side] = epoch[side] + 1 /\ ~ offered'[side]
        /\ secrets'[Other(side)] = secrets[Other(side)]
        /\ offered'[Other(side)] = offered[Other(side)] /\ epoch'[Other(side)] = epoch[Other(side)]
    BY <1>1, <2>1
  <2>7. AgreementStep
    BY <1>3 DEF AgreementStep
  <2>8. epoch[side] \in Nat
    BY <1>1
  <2>. QED
    BY <1>2, <2>3, <2>5, <2>6, <2>7, <2>8
<1>4. CASE Follow(side)
  <2>1. epoch' = [epoch EXCEPT ![side] = @ + 1] /\ UNCHANGED <<offered, secrets>>
    BY <1>4 DEF Follow
  <2>2. ~ offered[side]
    BY <1>1, <1>4, FollowKeeps
  <2>3. epoch'[side] = epoch[side] + 1 /\ epoch'[Other(side)] = epoch[Other(side)] /\ epoch[side] \in Nat
    BY <1>1, <2>1
  <2>4. AgreementStep
    BY <1>4 DEF AgreementStep
  <2>. QED
    BY <1>2, <2>1, <2>2, <2>3, <2>4
<1>5. CASE UNCHANGED agreement
  BY <1>2, <1>5 DEF agreement, AgreementStep
<1>. QED
  BY <1>3, <1>4, <1>5 DEF Takes

\* The message of this epoch that is sealed under the key at an index.
SealedAt(side, more, index) ==
  [epoch |-> epoch[side], index |-> index,
   key |-> [path |-> SubSeq(more, 1, epoch[side] - 1), from |-> side, index |-> index]]

\* keyToSend finds the epoch before the packet's, whatever the braid's step was.
LEMMA SendsWell ==
  ASSUME IInv, NEW side \in Sides, NEW more \in Seq(Secrets),
         Extends(secrets[side], more),
         Len(more) <= epoch[side],
         NEW sending, sending = Sending(side, epoch[side], more)
  PROVE  /\ sending.fault = "none"
         /\ FollowsSecrets(sending.stream, more) /\ FlowsTell(sending.stream, given[side])
         /\ sending.stream.sendEpoch = epoch[side] - 1
         /\ \E index \in Indices : sending.message = SealedAt(side, more, index)
<1>. DEFINE opened == NextEpoch(stream[side], more)
            e == epoch[side] - 1
            after == AfterSend(opened, e)
            index == PairAt(after, e).send.counter
<1>1. /\ FollowsSecrets(opened, more) /\ FlowsTell(opened, given[side])
      /\ opened.sendEpoch = stream[side].sendEpoch
  BY OpenedTells
<1>2. /\ epoch[side] \in Nat \ {0} /\ secrets[side] \in Seq(Secrets)
      /\ Len(secrets[side]) \in {epoch[side] - 1, epoch[side]}
  BY SecretsAgree DEF BothBeginAlike, BeginAlike, IInv, Agreed, AgreementTypes, Epochs
<1>3. stream[side].sendEpoch <= e
  BY DEF IInv, SideHolds, SendsBehind
<1>4. /\ opened.epoch = Len(more) /\ opened.epoch \in Nat /\ opened.sendEpoch \in Nat
      /\ FirstEpoch(opened) \in 0..opened.sendEpoch
  BY <1>1, Slots DEF FollowsSecrets
<1>5. Len(secrets[side]) <= Len(more) /\ Len(secrets[side]) \in Nat
  BY <1>2, SecretsStay
<1>6. e \in Nat /\ e \in opened.sendEpoch..opened.epoch
  BY <1>1, <1>2, <1>3, <1>4, <1>5
<1>7. e \in FirstEpoch(opened)..opened.epoch /\ e >= opened.sendEpoch
  BY <1>4, <1>6
<1>8. HasSlot(opened, e) /\ PairAt(opened, e).send.open
  BY <1>1, <1>6, <1>7, Slots DEF FollowsSecrets
<1>9. SendFault(opened, e) = "none"
  <2>1. ~ (e < opened.sendEpoch)
    BY <1>4, <1>6
  <2>. QED
    BY <1>8, <2>1 DEF SendFault, PairAt
<1>10. /\ FollowsSecrets(after, more) /\ after.sendEpoch = e /\ after.epoch = opened.epoch
       /\ FirstEpoch(after) >= FirstEpoch(opened) /\ e \in FirstEpoch(after)..after.epoch
       /\ \A x \in FirstEpoch(after)..after.epoch : PairAt(after, x).recv = PairAt(opened, x).recv
       /\ index \in Indices
  BY <1>1, <1>6, AfterSendFollows
<1>11. sending = [fault |-> "none", stream |-> after,
                  message |-> [epoch |-> epoch[side], index |-> index,
                               key |-> [path |-> PairAt(after, e).path, from |-> side, index |-> index]]]
  BY <1>9 DEF Sending, Key, PairAt
<1>12. PairAt(after, e).path = SubSeq(more, 1, e)
  BY <1>10 DEF FollowsSecrets
<1>13. FlowsTell(after, given[side])
  <2>1. FirstEpoch(after) \in Nat
    BY <1>6, <1>10 DEF FirstEpoch
  <2>2. \A x \in FirstEpoch(after)..after.epoch : x \in FirstEpoch(opened)..opened.epoch
    BY <1>4, <1>10, <2>1
  <2>. QED
    BY <1>1, <1>10, <2>2 DEF FlowsTell
<1>. HIDE DEF after, index, e, opened
<1>14. sending.message =
              [epoch |-> epoch[side], index |-> index,
               key |-> [path |-> SubSeq(more, 1, e), from |-> side, index |-> index]]
  BY <1>11, <1>12
<1>15. sending.fault = "none" /\ sending.stream = after
  BY <1>11
<1>16. \E i \in Indices : sending.message = SealedAt(side, more, i)
  BY <1>10, <1>14 DEF e, SealedAt
<1>17. after.sendEpoch = epoch[side] - 1 /\ FollowsSecrets(after, more)
  BY <1>10 DEF e
<1>. QED
  BY <1>13, <1>15, <1>16, <1>17

\* What a step keeps of a side whose stream, keys and agreement stay.
LEMMA OtherSideHolds ==
  ASSUME IInv, AgreementStep, NEW side \in Sides,
         secrets'[side] = secrets[side], offered'[side] = offered[side], epoch'[side] = epoch[side],
         stream'[side] = stream[side], given'[side] = given[side],
         \A m \in network'[side] : m \in network[side] \/ Sealed(side, m)'
  PROVE  SideHolds(side)'
<1>1. Agreed /\ SideHolds(side) /\ network[side] \subseteq Packets
  BY DEF IInv, TypeOK
<1>2. \A m \in network'[side] : Sealed(side, m)'
  BY <1>1, SealedStays DEF SideHolds
<1>3. SendsBehind(side)'
  BY <1>1 DEF SideHolds, SendsBehind
<1>. QED
  BY <1>1, <1>2, <1>3 DEF SideHolds

LEMMA SendKeeps ==
  ASSUME IInv, NEW side \in Sides, Send(side)
  PROVE  IInv'
<1>. DEFINE other == Other(side)
            more == secrets'[side]
            sending == Sending(side, epoch[side], more)
<1>1. /\ Agreed /\ SideHolds(side) /\ SideHolds(other) /\ other \in Sides /\ other # side
      /\ \A x \in Sides : x = side \/ x = other
  BY TwoSides DEF IInv
<1>2. /\ stream \in [Sides -> Streams] /\ network \in [Sides -> SUBSET Packets]
      /\ sends \in [Sides -> Nat] /\ given \in [Sides -> SUBSET KeyNames]
  BY DEF IInv, TypeOK
<1>3. /\ AgreementStep /\ epoch' = epoch /\ secrets'[other] = secrets[other]
      /\ offered'[other] = offered[other]
  BY <1>1, PutsStep DEF Send
<1>4. /\ Agreed' /\ AgreementTypes /\ AgreementTypes'
      /\ Extends(secrets[side], secrets'[side])
  BY <1>1, <1>3, StepAgrees DEF Agreed
<1>5. /\ more \in Seq(Secrets) /\ epoch[side] \in Nat \ {0}
      /\ offered' \in [Sides -> BOOLEAN]
  BY <1>4 DEF AgreementTypes, Epochs
<1>6. Len(more) \in {epoch[side] - 1, epoch[side]} /\ Len(more) \in Nat
  <2>1. Len(secrets'[side]) \in {epoch'[side] - 1, epoch'[side]}
    BY <1>4, SecretsAgreeNext DEF BothBeginAlike, BeginAlike
  <2>. QED
    BY <1>3, <1>5, <2>1
<1>a. Len(more) <= epoch[side]
  BY <1>5, <1>6
<1>b. sending = Sending(side, epoch[side], more)
  OBVIOUS
<1>. HIDE DEF more, sending
<1>7. /\ FollowsSecrets(sending.stream, more) /\ FlowsTell(sending.stream, given[side])
      /\ sending.stream.sendEpoch = epoch[side] - 1
      /\ \E index \in Indices : sending.message = SealedAt(side, more, index)
  <2>1. Extends(secrets[side], more)
    BY <1>4 DEF more
  <2>. QED
    BY <1>5, <1>a, <1>b, <2>1, SendsWell
<1>8. PICK index \in Indices : sending.message = SealedAt(side, more, index)
  BY <1>7
<1>9. PICK m, after : m = sending.message /\ after = sending.stream
  OBVIOUS
<1>10. PICK left \in SUBSET network[other] : network' = [network EXCEPT ![other] = left \cup {m}]
  BY <1>9 DEF Send, sending, more
<1>11. /\ stream' = [stream EXCEPT ![side] = after] /\ UNCHANGED given
       /\ sends' = [sends EXCEPT ![side] = @ + 1]
  BY <1>9 DEF Send, sending, more
<1>12. /\ FollowsSecrets(after, more) /\ FlowsTell(after, given[side])
       /\ after.sendEpoch = epoch[side] - 1
       /\ m.epoch = epoch[side] /\ m.index = index
       /\ m.key = [path |-> SubSeq(more, 1, epoch[side] - 1), from |-> side, index |-> index]
  BY <1>7, <1>8, <1>9 DEF SealedAt
<1>13. m \in Packets
  <2>1. epoch[side] - 1 \in Nat /\ epoch[side] - 1 <= Len(more)
    BY <1>5, <1>6
  <2>2. SubSeq(more, 1, epoch[side] - 1) \in Seq(Secrets)
    BY <1>5, <2>1, PathLength
  <2>. QED
    BY <1>5, <1>8, <1>9, <2>2 DEF SealedAt, Packets, KeyNames, Epochs
<1>14. TypeOK'
  <2>1. after \in Streams
    BY <1>12 DEF FollowsSecrets
  <2>2. stream' \in [Sides -> Streams]
    BY <1>2, <1>11, <2>1
  <2>3. network' \in [Sides -> SUBSET Packets]
    BY <1>1, <1>2, <1>10, <1>13
  <2>4. sends' \in [Sides -> Nat]
    BY <1>2, <1>11
  <2>. QED
    BY <1>2, <1>4, <1>11, <2>2, <2>3, <2>4 DEF TypeOK
<1>15. Sealed(other, m)'
  <2>1. Other(other) = side
    BY TwoSides
  <2>2. epoch'[side] = epoch[side] /\ epoch[side] <= epoch'[side]
    BY <1>3, <1>5
  <2>. QED
    BY <1>12, <2>1, <2>2 DEF Sealed, more
<1>16. SideHolds(other)'
  <2>1. stream'[other] = stream[other] /\ given'[other] = given[other] /\ epoch'[other] = epoch[other]
    BY <1>1, <1>2, <1>3, <1>11
  <2>2. network'[other] = left \cup {m}
    BY <1>1, <1>2, <1>10
  <2>3. \A x \in network'[other] : x \in network[other] \/ Sealed(other, x)'
    BY <1>15, <2>2
  <2>. QED
    BY <1>1, <1>3, <2>1, <2>3, OtherSideHolds
<1>17. SideHolds(side)'
  <2>1. stream'[side] = after /\ given'[side] = given[side] /\ network'[side] = network[side]
    BY <1>1, <1>2, <1>10, <1>11
  <2>2. FollowsSecrets(stream'[side], secrets'[side]) /\ FlowsTell(stream'[side], given'[side])
    BY <1>12, <2>1 DEF more
  <2>3. SendsBehind(side)'
    <3>1. stream'[side].epoch = Len(more) /\ stream'[side].sendEpoch = epoch'[side] - 1
      BY <1>3, <1>12, <2>1 DEF FollowsSecrets
    <3>. QED
      BY <1>3, <1>5, <1>6, <3>1 DEF SendsBehind
  <2>4. \A x \in network'[side] : Sealed(side, x)'
    BY <1>1, <1>2, <1>3, <2>1, SealedStays DEF SideHolds
  <2>5. \A key \in given'[side] : Names(key, other, secrets'[side])
    <3>1. \A key \in given[side] : key \in KeyNames /\ Names(key, other, secrets[side])
      BY <1>1, <1>2 DEF SideHolds
    <3>2. secrets[side] \in Seq(Secrets)
      BY <1>4 DEF AgreementTypes
    <3>. QED
      BY <1>4, <1>5, <2>1, <3>1, <3>2, NamesStay DEF more
  <2>. QED
    BY <2>2, <2>3, <2>4, <2>5 DEF SideHolds
<1>. QED
  BY <1>1, <1>4, <1>14, <1>16, <1>17 DEF IInv

\* The key that a message names, when the secrets of its epoch are held.
NamedBy(key, m, from, held) ==
  /\ m.epoch - 1 <= Len(held)
  /\ key = [path |-> SubSeq(held, 1, m.epoch - 1), from |-> from, index |-> m.index]

\* keyToReceive: the key is on the path of the side's own secrets, and the flow
\* that gives it tells of it.
LEMMA ReceivesWell ==
  ASSUME IInv, NEW side \in Sides, NEW more \in Seq(Secrets),
         Extends(secrets[side], more),
         NEW m \in Packets, NEW receiving, receiving = Receiving(side, m, more),
         receiving.fault = "none"
  PROVE  /\ FollowsSecrets(receiving.stream, more)
         /\ FlowsTell(receiving.stream, given[side] \cup {receiving.key})
         /\ receiving.stream.sendEpoch = stream[side].sendEpoch
         /\ NamedBy(receiving.key, m, Other(side), more)
<1>. DEFINE opened == NextEpoch(stream[side], more)
            e == m.epoch - 1
            after == AfterReceive(opened, e, m.index)
            key == Key(opened, e, Other(side), m.index)
            flow == PairAt(opened, e).recv
<1>1. /\ FollowsSecrets(opened, more) /\ FlowsTell(opened, given[side])
      /\ opened.sendEpoch = stream[side].sendEpoch
  BY OpenedTells
<1>2. e \in Nat /\ m.index \in Indices
  BY DEF Packets, Epochs
<1>3. ReceiveFault(opened, e, m.index) = "none"
  BY DEF Receiving
<1>4. receiving.stream = after /\ receiving.key = key
  BY <1>3 DEF Receiving
<1>5. HasSlot(opened, e) /\ KeyFault(flow, m.index) = "none"
  BY <1>3 DEF ReceiveFault, PairAt
<1>6. /\ e \in FirstEpoch(opened)..opened.epoch /\ PairAt(opened, e) \in Pairs
      /\ opened.epoch = Len(more)
  BY <1>1, <1>2, <1>5, Slots DEF FollowsSecrets
<1>7. flow \in Flows /\ FlowTells(flow, Taken(given[side], e))
  BY <1>1, <1>6 DEF FlowsTell, Pairs
<1>8. key = [path |-> SubSeq(more, 1, e), from |-> Other(side), index |-> m.index]
  BY <1>1, <1>6 DEF FollowsSecrets, Key, PairAt
<1>. HIDE DEF flow, key
<1>9. /\ FlowAfter(flow, m.index) \in Flows
      /\ FlowTells(FlowAfter(flow, m.index), Taken(given[side], e) \cup {m.index})
  BY <1>2, <1>5, <1>7, FlowAfterTells
<1>10. /\ FollowsSecrets(after, more) /\ after.sendEpoch = opened.sendEpoch
       /\ after.epoch = opened.epoch /\ FirstEpoch(after) = FirstEpoch(opened)
       /\ PairAt(after, e).recv = FlowAfter(flow, m.index)
       /\ \A x \in FirstEpoch(opened)..opened.epoch : x # e => PairAt(after, x) = PairAt(opened, x)
  BY <1>1, <1>6, <1>9, AfterReceiveFollows DEF flow
<1>. HIDE DEF after, opened
<1>11. e <= Len(more) /\ key.index = m.index /\ Len(key.path) = e
  BY <1>2, <1>6, <1>8, PathLength
<1>n. NamedBy(receiving.key, m, Other(side), more)
  BY <1>4, <1>8, <1>11 DEF NamedBy
<1>. HIDE DEF e
<1>12. ASSUME NEW x \in FirstEpoch(after)..after.epoch
       PROVE  FlowTells(PairAt(after, x).recv, Taken(given[side] \cup {key}, x))
  <2>1. CASE x = e
    <3>1. Taken(given[side] \cup {key}, x) = Taken(given[side], e) \cup {m.index}
      BY <1>11, <2>1 DEF Taken
    <3>. QED
      BY <1>9, <1>10, <2>1, <3>1
  <2>2. CASE x # e
    <3>1. Taken(given[side] \cup {key}, x) = Taken(given[side], x)
      BY <1>11, <2>2 DEF Taken
    <3>. QED
      BY <1>1, <1>10, <2>2, <3>1 DEF FlowsTell
  <2>. QED
    BY <2>1, <2>2
<1>. QED
  BY <1>1, <1>4, <1>10, <1>12, <1>n DEF FlowsTell

LEMMA ReceiveKeeps ==
  ASSUME IInv, NEW side \in Sides, NEW m \in network[side], Receive(side, m)
  PROVE  IInv' /\ given'[side] = given[side] \cup {m.key}
<1>. DEFINE other == Other(side)
<1>1. /\ Agreed /\ SideHolds(side) /\ SideHolds(other) /\ other \in Sides /\ other # side
      /\ Other(other) = side /\ \A x \in Sides : x = side \/ x = other
  BY TwoSides DEF IInv
<1>2. /\ stream \in [Sides -> Streams] /\ network \in [Sides -> SUBSET Packets]
      /\ sends \in [Sides -> Nat] /\ given \in [Sides -> SUBSET KeyNames] /\ m \in Packets
  BY DEF IInv, TypeOK
<1>3. /\ AgreementStep /\ secrets'[other] = secrets[other]
      /\ offered'[other] = offered[other] /\ epoch'[other] = epoch[other]
      /\ stream[side].sendEpoch <= epoch'[side] - 1
      /\ offered'[side] => stream[side].sendEpoch = epoch'[side] - 1
      /\ Len(secrets'[side]) <= stream[side].sendEpoch + 1
  BY TakesStep DEF Receive
<1>4. /\ Agreed' /\ AgreementTypes /\ AgreementTypes'
      /\ Extends(secrets[side], secrets'[side])
  BY <1>1, <1>3, StepAgrees DEF Agreed
<1>5. /\ secrets'[side] \in Seq(Secrets) /\ secrets[side] \in Seq(Secrets)
      /\ secrets[other] \in Seq(Secrets)
  BY <1>1, <1>4 DEF AgreementTypes
<1>6. PICK more \in Seq(Secrets) : more = secrets'[side]
  BY <1>5
<1>e. PICK e \in Nat : e = m.epoch - 1
  BY <1>2 DEF Packets, Epochs
<1>r. PICK receiving : receiving = Receiving(side, m, more)
  OBVIOUS
<1>. DEFINE after == receiving.stream
            key == receiving.key
<1>7. /\ receiving.fault = "none" /\ UNCHANGED <<network, sends>>
      /\ stream' = [stream EXCEPT ![side] = after]
      /\ given' = [given EXCEPT ![side] = @ \cup {key}]
  BY <1>6, <1>r DEF Receive
<1>8. /\ FollowsSecrets(after, more) /\ FlowsTell(after, given[side] \cup {key})
      /\ after.sendEpoch = stream[side].sendEpoch /\ NamedBy(key, m, other, more)
  <2>1. Extends(secrets[side], more)
    BY <1>4, <1>6
  <2>2. m \in Packets /\ receiving.fault = "none"
    BY <1>2, <1>7
  <2>. QED
    BY <1>r, <2>1, <2>2, ReceivesWell
<1>. HIDE DEF after, key
<1>n. /\ e <= Len(more)
      /\ key = [path |-> SubSeq(more, 1, e), from |-> other, index |-> m.index]
  BY <1>e, <1>8 DEF NamedBy
<1>9. m.epoch \in Nat /\ m.index \in Indices
  BY <1>2 DEF Packets, Epochs
<1>10. key = m.key
  <2>1. /\ m.epoch <= epoch[other]
        /\ m.key = [path |-> SubSeq(secrets[other], 1, e), from |-> other, index |-> m.index]
    BY <1>1, <1>e DEF SideHolds, Sealed
  <2>2. /\ Len(secrets[other]) \in {epoch[other] - 1, epoch[other]} /\ epoch[other] \in Nat
    BY <1>1, <1>4, SecretsAgree DEF BothBeginAlike, BeginAlike, AgreementTypes, Epochs
  <2>3. e <= Len(secrets'[other])
    BY <1>3, <1>e, <1>9, <2>1, <2>2
  <2>4. SubSeq(more, 1, e) = SubSeq(secrets'[other], 1, e)
    BY <1>4, <1>9, <1>n, <2>3, <1>6, SecretsAgreeNext DEF BothBeginAlike, BeginAlike
  <2>. QED
    BY <1>3, <1>n, <2>1, <2>4
<1>11. Len(SubSeq(more, 1, e)) = e /\ SubSeq(more, 1, e) \in Seq(Secrets)
  BY <1>5, <1>n, <1>9, PathLength
<1>12. key \in KeyNames /\ Names(key, other, more)
  BY <1>1, <1>n, <1>9, <1>11 DEF KeyNames, Names
<1>13. TypeOK'
  <2>1. stream' \in [Sides -> Streams]
    BY <1>2, <1>7, <1>8 DEF FollowsSecrets
  <2>2. given' \in [Sides -> SUBSET KeyNames]
    BY <1>2, <1>7, <1>12
  <2>. QED
    BY <1>2, <1>4, <1>7, <2>1, <2>2 DEF TypeOK
<1>14. SideHolds(other)'
  <2>1. stream'[other] = stream[other] /\ given'[other] = given[other] /\ network'[other] = network[other]
    BY <1>1, <1>2, <1>7
  <2>. QED
    BY <1>1, <1>3, <2>1, OtherSideHolds
<1>15. /\ stream'[side] = after /\ given'[side] = given[side] \cup {key}
       /\ network'[side] = network[side]
  BY <1>2, <1>7
<1>16. SideHolds(side)'
  <2>1. FollowsSecrets(stream'[side], secrets'[side]) /\ FlowsTell(stream'[side], given'[side])
    BY <1>8, <1>15, <1>6
  <2>2. SendsBehind(side)'
    <3>1. stream'[side].epoch = Len(more) /\ stream'[side].sendEpoch = stream[side].sendEpoch
      BY <1>8, <1>15 DEF FollowsSecrets
    <3>. QED
      BY <1>3, <1>6, <3>1 DEF SendsBehind
  <2>3. \A x \in network'[side] : Sealed(side, x)'
    BY <1>1, <1>2, <1>3, <1>15, SealedStays DEF SideHolds
  <2>4. \A x \in given'[side] : Names(x, other, secrets'[side])
    <3>1. \A x \in given[side] : x \in KeyNames /\ Names(x, other, secrets[side])
      BY <1>1, <1>2 DEF SideHolds
    <3>. QED
      BY <1>4, <1>5, <1>12, <1>15, <3>1, NamesStay, <1>6
  <2>. QED
    BY <2>1, <2>2, <2>3, <2>4 DEF SideHolds
<1>. QED
  BY <1>1, <1>4, <1>10, <1>13, <1>14, <1>15, <1>16 DEF IInv

LEMMA InitHolds == Init => IInv
<1>. SUFFICES ASSUME Init  PROVE IInv
  OBVIOUS
<1>. DEFINE none == <<>>
<1>1. none \in Seq(Secrets) /\ Len(none) = 0 /\ SubSeq(none, 1, 0) = none
  OBVIOUS
<1>2. EpochOf(none) \in Pairs /\ EpochOf(none).path = none /\ EpochOf(none).send.open
      /\ EpochOf(none).recv = NewFlow
  BY <1>1 DEF EpochOf, Pairs, NewFlow, Flows
<1>3. /\ OpenStream \in Streams /\ OpenStream.epoch = 0 /\ OpenStream.sendEpoch = 0
      /\ Len(OpenStream.epochs) = 1 /\ OpenStream.epochs[1] = EpochOf(none)
  BY <1>2 DEF OpenStream, Streams
<1>4. FirstEpoch(OpenStream) = 0 /\ PairAt(OpenStream, 0) = EpochOf(none)
  BY <1>3 DEF FirstEpoch, PairAt, SlotOf
<1>5. /\ epoch = [side \in Sides |-> 1] /\ offered = [side \in Sides |-> FALSE]
      /\ secrets = [side \in Sides |-> none] /\ stream = [side \in Sides |-> OpenStream]
      /\ network = [side \in Sides |-> {}] /\ sends = [side \in Sides |-> 0]
      /\ given = [side \in Sides |-> {}]
  BY DEF Init, EpochInit
<1>. HIDE DEF none
<1>6. TypeOK
  BY <1>1, <1>3, <1>5 DEF TypeOK, AgreementTypes, Epochs
<1>7. Agreed
  <2>1. Responder \in Sides /\ Other(Responder) \in Sides /\ Drawer(1) = Responder
    BY PqAssumption DEF Sides, Other, Drawer
  <2>2. Turn(Responder)
    BY <1>1, <1>5, <2>1 DEF Turn
  <2>. QED
    BY <1>6, <2>1, <2>2 DEF Agreed, TypeOK
<1>8. ASSUME NEW side \in Sides
      PROVE  SideHolds(side)
  <2>1. FollowsSecrets(OpenStream, none)
    <3>1. \A e \in FirstEpoch(OpenStream)..OpenStream.epoch : e = 0
      BY <1>3, <1>4
    <3>2. /\ PairAt(OpenStream, 0).path = SubSeq(none, 1, 0)
          /\ PairAt(OpenStream, 0).send.open
      BY <1>1, <1>2, <1>4
    <3>3. Len(OpenStream.epochs) = OpenStream.epoch - FirstEpoch(OpenStream) + 1
      BY <1>3, <1>4
    <3>. QED
      BY <1>1, <1>2, <1>3, <1>4, <3>1, <3>2, <3>3 DEF FollowsSecrets
  <2>2. FlowsTell(OpenStream, {})
    BY <1>2, <1>3, <1>4 DEF FlowsTell, FlowTells, NewFlow, Taken
  <2>3. SendsBehind(side)
    BY <1>3, <1>5 DEF SendsBehind
  <2>. QED
    BY <1>5, <2>1, <2>2, <2>3 DEF SideHolds
<1>. QED
  BY <1>6, <1>7, <1>8 DEF IInv

LEMMA StepKeeps == IInv /\ [Next]_vars => IInv'
<1>. SUFFICES ASSUME IInv, [Next]_vars  PROVE IInv'
  OBVIOUS
<1>1. ASSUME UNCHANGED vars
      PROVE  IInv'
  <2>1. /\ epoch' = epoch /\ offered' = offered /\ secrets' = secrets /\ stream' = stream
        /\ network' = network /\ sends' = sends /\ given' = given
    BY <1>1 DEF vars
  <2>2. TypeOK' /\ Agreed'
    BY <2>1 DEF IInv, TypeOK, Agreed, AgreementTypes, Turn
  <2>3. \A side \in Sides : SideHolds(side)'
    BY <2>1 DEF IInv, SideHolds, SendsBehind, Sealed
  <2>. QED
    BY <2>2, <2>3 DEF IInv
<1>2. ASSUME NEW side \in Sides, Send(side)
      PROVE  IInv'
  BY <1>2, SendKeeps
<1>3. ASSUME NEW side \in Sides, NEW m \in network[side], Receive(side, m)
      PROVE  IInv'
  BY <1>3, ReceiveKeeps
<1>4. ASSUME NEW side \in Sides, NEW m \in network[side], Refuse(side, m)
      PROVE  IInv'
  BY <1>1, <1>4 DEF Refuse
<1>. QED
  BY <1>1, <1>2, <1>3, <1>4 DEF Next

\* In every state of the ratchet the two sides' secrets begin alike, each
\* stream's epochs are the last of those its secrets lead to, and its flows tell
\* which keys were given (record.zig, stream.zig).
THEOREM StreamsFollowSecrets == Spec => []IInv
BY InitHolds, StepKeeps, PTL DEF Spec

-----------------------------------------------------------------------------
(* What follows. *)

\* Every variable of the ratchet keeps its type, the streams' pairs and flows
\* with it.
THEOREM PqTypes == Spec => []TypeOK
<1>1. IInv => TypeOK
  BY DEF IInv
<1>. QED
  BY <1>1, StreamsFollowSecrets, PTL

\* nextEpoch's assertion and what keyToSend leaves of the epochs, for any secrets
\* and any order of messages.
THEOREM EpochsStayInOrder == Spec => []EpochsInOrder
<1>1. ASSUME IInv, NEW side \in Sides
      PROVE  LET s == stream[side]
                 EpochAt(slot) == s.epoch - (Len(s.epochs) - slot)
             IN
             /\ s.epoch = Len(secrets[side])
             /\ s.sendEpoch \in {s.epoch - 1, s.epoch}
             /\ Len(s.epochs) <= 3
             /\ \A slot \in DOMAIN s.epochs :
                  /\ s.epochs[slot].path = SubSeq(secrets[side], 1, EpochAt(slot))
                  /\ s.epochs[slot].send.open <=> EpochAt(slot) >= s.sendEpoch
  <2>. DEFINE s == stream[side]
              EpochAt(slot) == s.epoch - (Len(s.epochs) - slot)
  <2>1. /\ FollowsSecrets(s, secrets[side]) /\ secrets[side] \in Seq(Secrets)
        /\ s.epoch <= s.sendEpoch + 1
    BY <1>1 DEF IInv, SideHolds, SendsBehind, TypeOK, AgreementTypes
  <2>. HIDE DEF s
  <2>2. /\ s.epoch \in Nat /\ s.sendEpoch \in 0..s.epoch /\ FirstEpoch(s) \in 0..s.sendEpoch
        /\ s.epochs \in Seq(Pairs) /\ s.epoch = Len(secrets[side])
        /\ Len(s.epochs) = s.epoch - FirstEpoch(s) + 1
        /\ \A e \in FirstEpoch(s)..s.epoch : SlotOf(s, e) = e - FirstEpoch(s) + 1
    BY <2>1, Slots DEF FollowsSecrets
  <2>3. PICK n \in Nat, k \in Nat, f \in Nat, long \in Nat :
          n = s.epoch /\ k = s.sendEpoch /\ f = FirstEpoch(s) /\ long = Len(s.epochs)
    BY <2>2
  <2>4. n <= k + 1 /\ k <= n /\ f <= k /\ f >= k - 1 /\ long = n - f + 1
    <3>1. f = IF k = 0 THEN 0 ELSE k - 1
      BY <2>3 DEF FirstEpoch
    <3>2. n <= k + 1 /\ k <= n /\ long = n - f + 1
      BY <2>1, <2>2, <2>3
    <3>. QED
      BY <3>1, <3>2
  <2>5. k \in {n - 1, n} /\ long <= 3
    BY <2>4
  <2>6. ASSUME NEW slot \in DOMAIN s.epochs
        PROVE  /\ s.epochs[slot].path = SubSeq(secrets[side], 1, EpochAt(slot))
               /\ s.epochs[slot].send.open <=> EpochAt(slot) >= s.sendEpoch
    <3>1. slot \in 1..long
      <4>1. DOMAIN s.epochs = 1..Len(s.epochs)
        BY <2>2
      <4>. QED
        BY <2>3, <4>1
    <3>2. PICK e : e = EpochAt(slot)
      OBVIOUS
    <3>3. e = n - (long - slot)
      BY <2>3, <3>2
    <3>4. e \in f..n /\ e - f + 1 = slot
      BY <2>4, <3>1, <3>3
    <3>5. SlotOf(s, e) = slot
      BY <2>2, <2>3, <3>4
    <3>. HIDE DEF EpochAt
    <3>. QED
      BY <2>1, <2>3, <3>2, <3>4, <3>5 DEF FollowsSecrets, PairAt
  <2>. QED
    BY <2>2, <2>3, <2>5, <2>6 DEF s
<1>2. IInv => EpochsInOrder
  BY <1>1 DEF EpochsInOrder
<1>. QED
  BY <1>2, StreamsFollowSecrets, PTL

\* keyToSend never answers SendEpochWentBack or EpochOutOfRange: whatever was
\* lost or repeated, both sides can still seal.
THEOREM BothCanSeal == Spec => []CanAlwaysSend
<1>1. ASSUME IInv, NEW side \in Sides
      PROVE  Sending(side, epoch[side], secrets[side]).fault = "none"
  <2>1. /\ secrets[side] \in Seq(Secrets) /\ epoch[side] \in Nat
        /\ Len(secrets[side]) \in {epoch[side] - 1, epoch[side]}
    BY <1>1, SecretsAgree DEF BothBeginAlike, BeginAlike, IInv, TypeOK, AgreementTypes, Epochs
  <2>2. Len(secrets[side]) <= epoch[side] /\ Extends(secrets[side], secrets[side])
    BY <2>1 DEF Extends
  <2>. QED
    BY <1>1, <2>1, <2>2, SendsWell
<1>2. IInv => CanAlwaysSend
  BY <1>1 DEF CanAlwaysSend
<1>. QED
  BY <1>2, StreamsFollowSecrets, PTL

\* A receive that gives a key gives the one the message was sealed under: the
\* path the receiver's own secrets lead to is the sender's.
THEOREM GivesTheSealedKey == Spec => KeysAgree
<1>1. ASSUME IInv, [Next]_vars, NEW side \in Sides, given'[side] # given[side]
      PROVE  \E m \in network[side] : given'[side] = given[side] \cup {m.key}
  <2>1. given \in [Sides -> SUBSET KeyNames]
    BY <1>1 DEF IInv, TypeOK
  <2>2. PICK x \in Sides : \E m \in network[x] : Receive(x, m)
    BY <1>1 DEF Next, vars, Send, Refuse
  <2>3. PICK m \in network[x] : Receive(x, m)
    BY <2>2
  <2>4. x = side
    BY <1>1, <2>1, <2>3 DEF Receive
  <2>. QED
    BY <1>1, <2>3, <2>4, ReceiveKeeps
<1>2. IInv /\ [Next]_vars =>
        [\A side \in Sides : given'[side] # given[side] =>
           \E m \in network[side] : given'[side] = given[side] \cup {m.key}]_vars
  BY <1>1
<1>. QED
  BY <1>2, StreamsFollowSecrets, PTL DEF Spec, KeysAgree

\* A message on its way names a key that its receiver's own secrets lead to.
LEMMA NamesOwnKey ==
  ASSUME IInv, NEW side \in Sides, NEW m \in network[side]
  PROVE  /\ NamedBy(m.key, m, Other(side), secrets[side])
         /\ m.epoch \in Nat \ {0} /\ m.index \in Indices /\ m.key \in KeyNames
<1>. DEFINE other == Other(side)
<1>1. /\ Agreed /\ Sealed(side, m) /\ m \in Packets /\ other \in Sides
      /\ secrets \in [Sides -> Seq(Secrets)] /\ epoch[other] \in Nat
  BY TwoSides DEF IInv, SideHolds, TypeOK, AgreementTypes, Epochs
<1>2. BeginAlike(side) /\ BeginAlike(other)
  BY <1>1, SecretsAgree DEF BothBeginAlike
<1>3. m.epoch \in Nat \ {0} /\ m.index \in Indices /\ m.key \in KeyNames
  BY <1>1 DEF Packets, Epochs
<1>4. PICK e \in Nat : e = m.epoch - 1
  BY <1>3
<1>5. e <= Len(secrets[side]) /\ e <= Len(secrets[other])
  BY <1>1, <1>2, <1>3, <1>4, SMTT(30) DEF BeginAlike, Sealed
<1>6. SubSeq(secrets[side], 1, e) = SubSeq(secrets[other], 1, e)
  BY <1>2, <1>5 DEF BeginAlike
<1>7. m.key = [path |-> SubSeq(secrets[other], 1, e), from |-> other, index |-> m.index]
  BY <1>1, <1>4 DEF Sealed
<1>. QED
  BY <1>3, <1>4, <1>5, <1>6, <1>7 DEF NamedBy

\* What record.receive makes of a message whose epoch's secret is held already.
LEMMA ReceivesOnOwnStream ==
  ASSUME IInv, NEW side \in Sides, NEW m \in network[side],
         NEW fault, fault = Receiving(side, m, secrets[side]).fault,
         NEW e, e = m.epoch - 1
  PROVE  /\ e \in Nat /\ m.index \in Indices /\ e <= stream[side].epoch
         /\ FollowsSecrets(stream[side], secrets[side])
         /\ fault = ReceiveFault(stream[side], e, m.index)
         /\ HasSlot(stream[side], e) <=> e \in FirstEpoch(stream[side])..stream[side].epoch
         /\ HasSlot(stream[side], e) =>
              /\ PairAt(stream[side], e).recv \in Flows
              /\ FlowTells(PairAt(stream[side], e).recv, Taken(given[side], e))
<1>1. /\ FollowsSecrets(stream[side], secrets[side]) /\ FlowsTell(stream[side], given[side])
      /\ secrets[side] \in Seq(Secrets)
  BY DEF IInv, SideHolds, TypeOK, AgreementTypes
<1>2. e \in Nat /\ m.index \in Indices /\ e <= Len(secrets[side])
  <2>1. /\ NamedBy(m.key, m, Other(side), secrets[side])
        /\ m.epoch \in Nat \ {0} /\ m.index \in Indices
    BY NamesOwnKey
  <2>. QED
    BY <2>1 DEF NamedBy
<1>3. NextEpoch(stream[side], secrets[side]) = stream[side]
  BY <1>1 DEF NextEpoch, FollowsSecrets
<1>4. fault = ReceiveFault(stream[side], e, m.index)
  BY <1>3 DEF Receiving
<1>5. HasSlot(stream[side], e) <=> e \in FirstEpoch(stream[side])..stream[side].epoch
  BY <1>1, <1>2, Slots
<1>6. ASSUME HasSlot(stream[side], e)
      PROVE  /\ PairAt(stream[side], e).recv \in Flows
             /\ FlowTells(PairAt(stream[side], e).recv, Taken(given[side], e))
  <2>1. PairAt(stream[side], e) \in Pairs
    BY <1>1, <1>5, <1>6, Slots
  <2>. QED
    BY <1>1, <1>5, <1>6, <2>1 DEF FlowsTell, Pairs
<1>7. e <= stream[side].epoch
  BY <1>1, <1>2 DEF FollowsSecrets
<1>. QED
  BY <1>1, <1>2, <1>4, <1>5, <1>6, <1>7

\* A message's key was given just when the flow says that its index was taken.
LEMMA GivenIsTaken ==
  ASSUME IInv, NEW side \in Sides, NEW m \in network[side], NEW e, e = m.epoch - 1
  PROVE  m.key \in given[side] <=> m.index \in Taken(given[side], e)
<1>. DEFINE other == Other(side)
<1>1. /\ e \in Nat /\ e <= Len(secrets[side]) /\ m.key \in KeyNames
      /\ m.key = [path |-> SubSeq(secrets[side], 1, e), from |-> other, index |-> m.index]
  <2>1. NamedBy(m.key, m, other, secrets[side]) /\ m.epoch \in Nat \ {0} /\ m.key \in KeyNames
    BY NamesOwnKey
  <2>. QED
    BY <2>1 DEF NamedBy
<1>2. /\ secrets[side] \in Seq(Secrets) /\ given[side] \subseteq KeyNames
      /\ \A key \in given[side] : Names(key, other, secrets[side])
  BY DEF IInv, SideHolds, TypeOK, AgreementTypes
<1>3. Len(m.key.path) = e /\ m.key.index = m.index
  BY <1>1, <1>2, PathLength
<1>4. ASSUME NEW key \in given[side], Len(key.path) = e, key.index = m.index
      PROVE  key = m.key
  <2>1. key \in KeyNames /\ key.from = other /\ key.path = SubSeq(secrets[side], 1, e)
    BY <1>2, <1>4 DEF Names
  <2>. QED
    BY <1>1, <1>4, <2>1 DEF KeyNames
<1>. QED
  BY <1>3, <1>4 DEF Taken

\* keyToReceive gives no key a second time: a message that comes again is refused
\* by its flow, in any later epoch and whatever came in between.
THEOREM NoKeyTwice == Spec => []KeyGivenOnce
<1>1. ASSUME IInv, NEW side \in Sides, NEW m \in network[side], m.key \in given[side]
      PROVE  Receiving(side, m, secrets[side]).fault # "none"
  <2>1. PICK fault, e : fault = Receiving(side, m, secrets[side]).fault /\ e = m.epoch - 1
    OBVIOUS
  <2>2. /\ m.index \in Indices /\ fault = ReceiveFault(stream[side], e, m.index)
        /\ HasSlot(stream[side], e) =>
             /\ PairAt(stream[side], e).recv \in Flows
             /\ FlowTells(PairAt(stream[side], e).recv, Taken(given[side], e))
    BY <1>1, <2>1, ReceivesOnOwnStream
  <2>3. m.index \in Taken(given[side], e)
    BY <1>1, <2>1, GivenIsTaken
  <2>4. CASE HasSlot(stream[side], e)
    <3>1. fault = KeyFault(PairAt(stream[side], e).recv, m.index)
      BY <2>2, <2>4 DEF ReceiveFault, PairAt
    <3>. QED
      BY <2>1, <2>2, <2>3, <2>4, <3>1, KeyFaults
  <2>5. CASE ~ HasSlot(stream[side], e)
    BY <2>1, <2>2, <2>5 DEF ReceiveFault
  <2>. QED
    BY <2>4, <2>5
<1>2. IInv => KeyGivenOnce
  BY <1>1 DEF KeyGivenOnce
<1>. QED
  BY <1>2, StreamsFollowSecrets, PTL

\* A message is refused for no other reason than its age, its distance to the
\* flow's counter, or that its key was given: keyToReceive and keyAt.
THEOREM EveryRefusalExplained == Spec => []RefusalExplained
<1>1. ASSUME IInv, NEW side \in Sides, NEW m \in network[side]
      PROVE  LET fault == Receiving(side, m, secrets[side]).fault
                 s == stream[side]
                 counter == s.epochs[SlotOf(s, m.epoch - 1)].recv.counter
             IN
             CASE fault = "none" -> TRUE
               [] fault = "EpochOutOfRange" -> m.epoch < s.sendEpoch
               [] fault = "KeyAlreadyTaken" -> m.key \in given[side]
               [] fault = "KeyTrimmed" -> m.index + MaxSkipped < counter
               [] fault = "KeyJump" -> m.index > counter + MaxJump
               [] OTHER -> FALSE
  <2>1. PICK fault, e : fault = Receiving(side, m, secrets[side]).fault /\ e = m.epoch - 1
    OBVIOUS
  <2>2. PICK s : s = stream[side]
    OBVIOUS
  <2>3. /\ e \in Nat /\ m.index \in Indices /\ e <= s.epoch /\ FollowsSecrets(s, secrets[side])
        /\ fault = ReceiveFault(s, e, m.index)
        /\ HasSlot(s, e) <=> e \in FirstEpoch(s)..s.epoch
        /\ HasSlot(s, e) => /\ PairAt(s, e).recv \in Flows
                            /\ FlowTells(PairAt(s, e).recv, Taken(given[side], e))
    BY <1>1, <2>1, <2>2, ReceivesOnOwnStream
  <2>4. CASE HasSlot(s, e)
    <3>1. fault = KeyFault(PairAt(s, e).recv, m.index)
      BY <2>3, <2>4 DEF ReceiveFault, PairAt
    <3>2. m.index \in Taken(given[side], e) <=> m.key \in given[side]
      BY <1>1, <2>1, GivenIsTaken
    <3>3. /\ fault \in {"none", "KeyJump", "KeyAlreadyTaken", "KeyTrimmed"}
          /\ fault = "KeyAlreadyTaken" => m.key \in given[side]
          /\ fault = "KeyTrimmed" => m.index + MaxSkipped < PairAt(s, e).recv.counter
          /\ fault = "KeyJump" => m.index > PairAt(s, e).recv.counter + MaxJump
      BY <2>3, <2>4, <3>1, <3>2, KeyFaults
    <3>. QED
      BY <2>1, <2>2, <3>3 DEF PairAt
  <2>5. CASE ~ HasSlot(s, e)
    <3>1. fault = "EpochOutOfRange"
      BY <2>3, <2>5 DEF ReceiveFault
    <3>2. m.epoch \in Nat
      BY <1>1, NamesOwnKey
    <3>3. s.sendEpoch \in Nat /\ s.epoch \in Nat /\ FirstEpoch(s) \in Nat
      BY <2>3 DEF FollowsSecrets, Streams, FirstEpoch
    <3>4. e < FirstEpoch(s)
      BY <2>3, <2>5, <3>3
    <3>5. m.epoch < s.sendEpoch
      <4>1. s.sendEpoch # 0 /\ FirstEpoch(s) = s.sendEpoch - 1
        BY <2>3, <3>4 DEF FirstEpoch
      <4>. QED
        BY <2>1, <3>2, <3>3, <3>4, <4>1
    <3>. QED
      BY <2>1, <2>2, <3>1, <3>5
  <2>. QED
    BY <2>4, <2>5
<1>2. IInv => RefusalExplained
  BY <1>1 DEF RefusalExplained
<1>. QED
  BY <1>2, StreamsFollowSecrets, PTL
=============================================================================
