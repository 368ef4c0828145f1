----------------------------- MODULE BraidProofs -----------------------------
(***************************************************************************)
(* Two braids, for any numbers of pieces, epochs and packets under way: no  *)
(* packet is refused, the roles meet, and epoch after epoch the two sides   *)
(* come to hold the same secret, as EpochAgreement has it.                  *)
(***************************************************************************)
EXTENDS Braid, FiniteSetTheorems, SequenceTheorems, TLAPS

-----------------------------------------------------------------------------
(* The inductive invariant. *)

IsState(b) ==
  b = [at |-> b.at, epoch |-> b.epoch, auth |-> b.auth, key |-> b.key, rand |-> b.rand,
       next |-> b.next, in |-> b.in]

\* The states of an encapsulator that has drawn the epoch's secret.
Drawn == {"first_out", "encap_in_first_out", "first_acked", "second_out"}

\* The four messages of an epoch that s samples and x encapsulates.
HeaderOf(s) == Tagged(s.key, 0, s.auth, s.epoch)
KeyOf(s) == Untagged(s.key, 0)
FirstOf(x) == Untagged(x.key, x.rand)
SecondOf(x) == Tagged(x.key, x.rand, x.auth, x.epoch)

Gathers(b, of) == \A q \in b.in : q.of = of

\* Both are in the epoch that s samples and x encapsulates: how far each is, what
\* they know of each other's keys, and what each has gathered.
Meets(s, x) ==
  /\ s.epoch = x.epoch
  /\ \/ s.at = "unsampled" /\ x.at = "waiting" /\ x.in = {}
     \/ s.at = "sampled" /\ x.at \in {"waiting", "header_in", "first_out"}
     \/ s.at = "header_out" /\ x.at \in {"first_out", "encap_in_first_out"}
     \/ s.at = "first_in" /\ x.at \in Drawn
     \/ s.at = "encap_out_first_in" /\ x.at = "second_out"
  /\ x.at \in {"waiting", "header_in"} => x.auth = s.auth
  /\ x.at \in Drawn => x.auth = Append(s.auth, Secret(x.epoch, x.key, x.rand))
  /\ x.key = IF x.at = "waiting" THEN 0 ELSE s.key
  /\ s.at \in {"first_in", "encap_out_first_in"} => s.rand = x.rand
  /\ s.at \in {"unsampled", "sampled", "first_in"} => s.in = {}
  /\ s.at = "header_out" => Gathers(s, FirstOf(x))
  /\ s.at = "encap_out_first_in" => Gathers(s, SecondOf(x))
  /\ x.at = "waiting" => Gathers(x, HeaderOf(s))
  /\ x.at \in {"first_out", "first_acked"} => Gathers(x, KeyOf(s))
  /\ x.at \in {"header_in", "encap_in_first_out", "second_out"} => x.in = {}

\* s has opened the capsule and gone on; x still sends the second half.
Turned(s, x) ==
  /\ s.epoch = x.epoch + 1 /\ s.at = "waiting" /\ x.at = "second_out"
  /\ s.auth = x.auth /\ s.key = 0 /\ s.in = {} /\ x.in = {}

\* What a side has sent in the epoch that it is in.
FromSampler(p, s) ==
  \/ p.kind = "header" /\ p.of = HeaderOf(s) /\ s.at # "unsampled"
  \/ p.kind = "encap" /\ p.of = KeyOf(s) /\ s.at \in {"header_out", "first_in", "encap_out_first_in"}
  \/ p.kind = "encap_and_ack" /\ p.of = KeyOf(s) /\ s.at \in {"first_in", "encap_out_first_in"}
  \/ p.kind = "ack" /\ s.at = "encap_out_first_in"

FromEncapsulator(p, x) ==
  \/ p.kind = "empty"
  \/ p.kind = "first" /\ p.of = FirstOf(x) /\ x.at \in Drawn
  \/ p.kind = "second" /\ p.of = SecondOf(x) /\ x.at = "second_out"

From(p, b) == IF b.at \in SamplerStates THEN FromSampler(p, b) ELSE FromEncapsulator(p, b)

\* Every secret is of its place's epoch.
Counted(auth) ==
  auth \in Seq(SecretSet) /\ \A i \in 1..Len(auth) : auth[i].epoch = i

\* Key pairs and secrets are made one of each in an epoch.
Made(s, x) ==
  /\ x.epoch \in Nat \ {0} /\ Counted(s.auth) /\ Counted(x.auth)
  /\ \/ /\ Meets(s, x) /\ Len(s.auth) = s.epoch - 1
        /\ made = 2 * (x.epoch - 1) + (IF s.at = "unsampled" THEN 0 ELSE 1)
                    + (IF x.at \in Drawn THEN 1 ELSE 0)
        /\ s.at # "unsampled" => x.epoch <= MaxEpochs /\ s.key \in MadeKeys
        /\ x.at \in Drawn => x.rand \in MadeKeys
     \/ /\ Turned(s, x) /\ Len(s.auth) = x.epoch
        /\ made = 2 * x.epoch /\ x.epoch <= MaxEpochs

Packets(side) ==
  \A p \in network[side] :
    LET b == braid[Other(side)] IN
    /\ p.epoch \in Nat /\ p.epoch <= b.epoch
    /\ p.epoch = b.epoch => From(p, b)

Frame ==
  /\ braid = [side \in Sides |-> braid[side]]
  /\ network = [side \in Sides |-> network[side]]
  /\ secrets = [side \in Sides |-> braid[side].auth]
  /\ fault = "none"
  /\ \A side \in Sides : IsState(braid[side]) /\ Packets(side)

\* The epoch that both are in, or that one has just left, has a drawer; the other
\* samples it.
Pairs(side) ==
  side # EA!Drawer(braid[Other(side)].epoch) /\ Made(braid[side], braid[Other(side)])

IInv == Frame /\ \E side \in Sides : Pairs(side)

-----------------------------------------------------------------------------
(* send. *)

\* A send that makes nothing: the same state but for its Spread's next piece.
Spreads(b, step) ==
  /\ step.braid = [b EXCEPT !.next = step.braid.next]
  /\ step.secret = NoSecret
  /\ step.packet.epoch = b.epoch /\ From(step.packet, b)

LEMMA SamplerSpreads ==
  ASSUME NEW b, NEW fresh, NEW step, IsState(b), step = Sent(b, fresh),
         b.at \in SamplerStates \ {"unsampled"}
  PROVE  Spreads(b, step)
<1>1. CASE b.at = "sampled"
  <2>1. step = SpreadHeader(b)
    BY <1>1 DEF Sent
  <2>. QED
    BY <1>1, <2>1 DEF IsState, Spreads, SpreadHeader, Spread, From, FromSampler, HeaderOf, SamplerStates
<1>2. CASE b.at = "header_out"
  <2>1. step = Spread(b, "encap", Untagged(b.key, 0))
    BY <1>2 DEF Sent
  <2>. QED
    BY <1>2, <2>1 DEF IsState, Spreads, Spread, From, FromSampler, KeyOf, SamplerStates
<1>3. CASE b.at = "first_in"
  <2>1. step = SendFirstIn(b)
    BY <1>3 DEF Sent
  <2>. QED
    BY <1>3, <2>1 DEF IsState, Spreads, SendFirstIn, Spread, From, FromSampler, KeyOf, SamplerStates
<1>4. CASE b.at = "encap_out_first_in"
  <2>1. step = Bare(b, "ack")
    BY <1>4 DEF Sent
  <2>. QED
    BY <1>4, <2>1 DEF IsState, Spreads, Bare, From, FromSampler, SamplerStates
<1>. QED
  BY <1>1, <1>2, <1>3, <1>4 DEF SamplerStates

LEMMA EncapsulatorSpreads ==
  ASSUME NEW b, NEW fresh, NEW step, IsState(b), step = Sent(b, fresh),
         b.at \in EncapsulatorStates \ {"header_in"}
  PROVE  Spreads(b, step)
<1>1. CASE b.at \in {"waiting", "first_acked"}
  <2>1. step = Bare(b, "empty")
    BY <1>1 DEF Sent
  <2>. QED
    BY <1>1, <2>1 DEF IsState, Spreads, Bare, From, FromEncapsulator, SamplerStates
<1>2. CASE b.at \in {"first_out", "encap_in_first_out"}
  <2>1. step = Spread(b, "first", Untagged(b.key, b.rand))
    BY <1>2 DEF Sent
  <2>. QED
    BY <1>2, <2>1 DEF IsState, Spreads, Spread, From, FromEncapsulator, FirstOf, Drawn, SamplerStates
<1>3. CASE b.at = "second_out"
  <2>1. step = Spread(b, "second", Tagged(b.key, b.rand, b.auth, b.epoch))
    BY <1>3 DEF Sent
  <2>. QED
    BY <1>3, <2>1 DEF IsState, Spreads, Spread, From, FromEncapsulator, SecondOf, SamplerStates
<1>. QED
  BY <1>1, <1>2, <1>3 DEF EncapsulatorStates

\* The key pair of an epoch is made by its first packet.
LEMMA SamplerMakes ==
  ASSUME NEW b, NEW fresh, NEW step, IsState(b), step = Sent(b, fresh), b.at = "unsampled"
  PROVE  /\ step.braid = [at |-> "sampled", epoch |-> b.epoch, auth |-> b.auth, key |-> fresh,
                          rand |-> b.rand, next |-> step.braid.next, in |-> b.in]
         /\ step.secret = NoSecret
         /\ step.packet.epoch = b.epoch /\ From(step.packet, step.braid)
<1>1. step = SendUnsampled(b, fresh)
  BY DEF Sent
<1>2. PICK c : c = [b EXCEPT !.at = "sampled", !.key = fresh]
  OBVIOUS
<1>3. c = [at |-> "sampled", epoch |-> b.epoch, auth |-> b.auth, key |-> fresh,
           rand |-> b.rand, next |-> b.next, in |-> b.in]
  BY <1>2 DEF IsState
<1>4. step = SpreadHeader(c)
  BY <1>1, <1>2 DEF SendUnsampled
<1>. QED
  BY <1>3, <1>4 DEF SpreadHeader, Spread, From, FromSampler, HeaderOf, SamplerStates

\* The encapsulator draws the epoch's secret.
LEMMA EncapsulatorDraws ==
  ASSUME NEW b, NEW fresh, NEW step, IsState(b), step = Sent(b, fresh), b.at = "header_in"
  PROVE  /\ step.braid = [at |-> "first_out", epoch |-> b.epoch,
                          auth |-> Append(b.auth, Secret(b.epoch, b.key, fresh)), key |-> b.key,
                          rand |-> fresh, next |-> step.braid.next, in |-> b.in]
         /\ step.secret = Secret(b.epoch, b.key, fresh)
         /\ step.packet.epoch = b.epoch /\ From(step.packet, step.braid)
<1>1. step = SendHeaderIn(b, fresh)
  BY DEF Sent
<1>2. PICK secret : secret = Secret(b.epoch, b.key, fresh)
  OBVIOUS
<1>3. PICK c : c = [b EXCEPT !.at = "first_out", !.rand = fresh, !.auth = Append(@, secret),
                             !.next = 0]
  OBVIOUS
<1>4. c = [at |-> "first_out", epoch |-> b.epoch, auth |-> Append(b.auth, secret),
           key |-> b.key, rand |-> fresh, next |-> 0, in |-> b.in]
  BY <1>3 DEF IsState
<1>5. step = [Spread(c, "first", Untagged(b.key, fresh)) EXCEPT !.secret = secret]
  BY <1>1, <1>2, <1>3 DEF SendHeaderIn
<1>6. /\ step.braid = [c EXCEPT !.next = (@ + 1) % Wrap] /\ step.secret = secret
      /\ step.packet = [epoch |-> b.epoch, kind |-> "first", index |-> 0, of |-> Untagged(b.key, fresh)]
  BY <1>4, <1>5 DEF Spread
<1>7. step.braid = [at |-> "first_out", epoch |-> b.epoch, auth |-> Append(b.auth, secret),
                    key |-> b.key, rand |-> fresh, next |-> step.braid.next, in |-> b.in]
  BY <1>4, <1>6
<1>8. From(step.packet, step.braid)
  BY <1>6, <1>7 DEF From, FromEncapsulator, FirstOf, Drawn, SamplerStates
<1>. QED
  BY <1>2, <1>6, <1>7, <1>8

-----------------------------------------------------------------------------
(* receive. *)

\* Pieces of one message rebuild it.
LEMMA WholeIs ==
  ASSUME NEW b, NEW of, NEW p, Gathers(b, of), p.of = of
  PROVE  /\ \A q \in Add(b.in, p) : q.of = of
         /\ Add(b.in, p) # {} /\ Whole(Add(b.in, p)) = of
         /\ \A q \in Add({}, p) : q.of = of
<1>1. PICK in : in = Add(b.in, p)
  OBVIOUS
<1>2. in # {} /\ \A q \in in : q.of = of
  <2>1. CASE \E q \in b.in : q.index = p.index
    <3>1. in = b.in
      BY <1>1, <2>1 DEF Add
    <3>. QED
      BY <2>1, <3>1 DEF Gathers
  <2>2. CASE ~ \E q \in b.in : q.index = p.index
    <3>1. PICK piece : piece = [index |-> p.index, of |-> p.of]
      OBVIOUS
    <3>2. in = b.in \cup {piece} /\ piece.of = of
      BY <1>1, <2>2, <3>1 DEF Add
    <3>. QED
      BY <3>2 DEF Gathers
  <2>. QED
    BY <2>1, <2>2
<1>3. Whole(in) = of
  BY <1>2 DEF Whole
<1>. QED
  BY <1>1, <1>2, <1>3 DEF Add

\* A packet of an earlier epoch is left alone.
LEMMA LateIsIgnored ==
  ASSUME NEW b, NEW p, p.epoch \in Nat, b.epoch \in Nat, p.epoch < b.epoch
  PROVE  Received(b, p) = Becomes(b)
BY DEF Received

LEMMA OfThisEpoch ==
  ASSUME NEW b, NEW p, p.epoch \in Nat, p.epoch = b.epoch
  PROVE  Received(b, p) = Fed(b, p)
<1>1. ~ (p.epoch > b.epoch) /\ ~ (p.epoch < b.epoch)
  OBVIOUS
<1>. QED
  BY <1>1 DEF Received

\* The first packet of the next epoch.
LEMMA NextIsFollowed ==
  ASSUME NEW b, NEW p, p.epoch \in Nat, b.epoch \in Nat, b.at = "second_out",
         p.epoch = b.epoch + 1
  PROVE  Received(b, p) = Becomes(State("unsampled", b.epoch + 1, b.auth))
BY DEF Received, AheadOf

\* A side that goes on within its epoch: what it sent is still what it sends.
Stays(b, c) ==
  /\ IsState(c) /\ c.epoch = b.epoch /\ c.auth = b.auth
  /\ c.at \in SamplerStates <=> b.at \in SamplerStates
  /\ c.at = "unsampled" <=> b.at = "unsampled"
  /\ c.at \in Drawn <=> b.at \in Drawn
  /\ b.at \in SamplerStates => c.key = b.key
  /\ b.at \in Drawn => c.rand = b.rand
  /\ \A p : From(p, b) => From(p, c)

LEMMA StaysItself == ASSUME NEW b, IsState(b)  PROVE Stays(b, b)
BY DEF Stays

Takes(step, s, t, x) ==
  step.fault = "none" /\ step.secret = NoSecret /\ Stays(s, t) /\ Meets(t, x)

LEMMA TakesNothing ==
  ASSUME NEW s, NEW x, NEW step, IsState(s), Meets(s, x), step = Becomes(s)
  PROVE  Takes(step, s, step.braid, x)
BY StaysItself DEF Takes, Becomes

\* The sampler, of a packet of the epoch: it takes it in, or opens the capsule.
LEMMA SamplerReceives ==
  ASSUME NEW s, NEW x, NEW p, NEW step, IsState(s), Meets(s, x), FromEncapsulator(p, x),
         step = Fed(s, p)
  PROVE  \/ Takes(step, s, step.braid, x)
         \/ /\ step.fault = "none" /\ step.secret = Secret(x.epoch, x.key, x.rand)
            /\ s.at = "encap_out_first_in"
            /\ step.braid = State("waiting", x.epoch + 1, x.auth)
<1>1. CASE s.at = "unsampled"
  <2>1. step = Becomes(s)
    BY <1>1 DEF Fed
  <2>. QED
    BY <2>1, TakesNothing
<1>2. CASE s.at = "sampled"
  <2>1. step = InSampled(s, p)
    BY <1>2 DEF Fed
  <2>2. CASE p.kind # "first"
    BY <2>1, <2>2, TakesNothing DEF InSampled
  <2>3. CASE p.kind = "first"
    <3>1. x.at = "first_out" /\ p.of = FirstOf(x)
      BY <1>2, <2>3 DEF FromEncapsulator, Meets, Drawn
    <3>2. PICK in : in = Add({}, p)
      OBVIOUS
    <3>3. \A q \in in : q.of = FirstOf(x)
      BY <3>1, <3>2 DEF Add
    <3>4. PICK t : t = [s EXCEPT !.at = "header_out", !.next = 0, !.in = in]
      OBVIOUS
    <3>5. t = [at |-> "header_out", epoch |-> s.epoch, auth |-> s.auth, key |-> s.key,
               rand |-> s.rand, next |-> 0, in |-> in]
      BY <3>4 DEF IsState
    <3>6. step = Becomes(t)
      BY <2>1, <2>3, <3>2, <3>4 DEF InSampled
    <3>7. Stays(s, t)
      BY <1>2, <3>5 DEF Stays, IsState, SamplerStates, Drawn, From, FromSampler, HeaderOf, KeyOf
    <3>8. Meets(t, x)
      BY <1>2, <3>1, <3>3, <3>5 DEF Meets, Gathers, Drawn, HeaderOf, KeyOf
    <3>. QED
      BY <3>6, <3>7, <3>8 DEF Takes, Becomes
  <2>. QED
    BY <2>2, <2>3
<1>3. CASE s.at = "header_out"
  <2>1. step = InHeaderOut(s, p)
    BY <1>3 DEF Fed
  <2>2. CASE p.kind # "first"
    BY <2>1, <2>2, TakesNothing DEF InHeaderOut
  <2>3. CASE p.kind = "first"
    <3>1. p.of = FirstOf(x) /\ Gathers(s, FirstOf(x)) /\ x.at \in {"first_out", "encap_in_first_out"}
      BY <1>3, <2>3 DEF FromEncapsulator, Meets
    <3>2. PICK in : in = Add(s.in, p)
      OBVIOUS
    <3>3. (\A q \in in : q.of = FirstOf(x)) /\ Whole(in) = FirstOf(x)
      BY <3>1, <3>2, WholeIs
    <3>4. CASE ~ Complete(in, "first")
      <4>1. PICK t : t = [s EXCEPT !.in = in]
        OBVIOUS
      <4>2. t = [at |-> "header_out", epoch |-> s.epoch, auth |-> s.auth, key |-> s.key,
                 rand |-> s.rand, next |-> s.next, in |-> in]
        BY <1>3, <4>1 DEF IsState
      <4>3. step = Becomes(t)
        BY <2>1, <2>3, <3>2, <3>4, <4>1 DEF InHeaderOut
      <4>4. Stays(s, t)
        BY <1>3, <4>2 DEF Stays, IsState, SamplerStates, Drawn, From, FromSampler, HeaderOf, KeyOf
      <4>5. Meets(t, x)
        BY <1>3, <3>1, <3>3, <4>2 DEF Meets, Gathers, Drawn, HeaderOf, KeyOf
      <4>. QED
        BY <4>3, <4>4, <4>5 DEF Takes, Becomes
    <3>5. CASE Complete(in, "first")
      <4>1. PICK t : t = [s EXCEPT !.at = "first_in", !.rand = Whole(in).rand, !.in = {}]
        OBVIOUS
      <4>2. t = [at |-> "first_in", epoch |-> s.epoch, auth |-> s.auth, key |-> s.key,
                 rand |-> x.rand, next |-> s.next, in |-> {}]
        <5>1. Whole(in).rand = x.rand
          BY <3>3 DEF FirstOf, Untagged
        <5>. QED
          BY <4>1, <5>1 DEF IsState
      <4>3. step = Becomes(t)
        BY <2>1, <2>3, <3>2, <3>5, <4>1 DEF InHeaderOut
      <4>4. Stays(s, t)
        BY <1>3, <4>2 DEF Stays, IsState, SamplerStates, Drawn, From, FromSampler, HeaderOf, KeyOf
      <4>5. Meets(t, x)
        BY <1>3, <3>1, <3>3, <4>2 DEF Meets, Gathers, Drawn, HeaderOf, KeyOf
      <4>. QED
        BY <4>3, <4>4, <4>5 DEF Takes, Becomes
    <3>. QED
      BY <3>4, <3>5
  <2>. QED
    BY <2>2, <2>3
<1>4. CASE s.at = "first_in"
  <2>1. step = InFirstIn(s, p)
    BY <1>4 DEF Fed
  <2>2. CASE p.kind # "second"
    BY <2>1, <2>2, TakesNothing DEF InFirstIn
  <2>3. CASE p.kind = "second"
    <3>1. x.at = "second_out" /\ p.of = SecondOf(x)
      BY <2>3 DEF FromEncapsulator
    <3>2. PICK in : in = Add({}, p)
      OBVIOUS
    <3>3. \A q \in in : q.of = SecondOf(x)
      BY <3>1, <3>2 DEF Add
    <3>4. PICK t : t = [s EXCEPT !.at = "encap_out_first_in", !.next = 0, !.in = in]
      OBVIOUS
    <3>5. t = [at |-> "encap_out_first_in", epoch |-> s.epoch, auth |-> s.auth, key |-> s.key,
               rand |-> s.rand, next |-> 0, in |-> in]
      BY <3>4 DEF IsState
    <3>6. step = Becomes(t)
      BY <2>1, <2>3, <3>2, <3>4 DEF InFirstIn
    <3>7. Stays(s, t)
      BY <1>4, <3>5 DEF Stays, IsState, SamplerStates, Drawn, From, FromSampler, HeaderOf, KeyOf
    <3>8. Meets(t, x)
      BY <1>4, <3>1, <3>3, <3>5 DEF Meets, Gathers, Drawn, HeaderOf, KeyOf
    <3>. QED
      BY <3>6, <3>7, <3>8 DEF Takes, Becomes
  <2>. QED
    BY <2>2, <2>3
<1>5. CASE s.at = "encap_out_first_in"
  <2>1. step = InEncapOutFirstIn(s, p)
    BY <1>5 DEF Fed
  <2>2. CASE p.kind # "second"
    BY <2>1, <2>2, TakesNothing DEF InEncapOutFirstIn
  <2>3. CASE p.kind = "second"
    <3>1. /\ p.of = SecondOf(x) /\ Gathers(s, SecondOf(x)) /\ x.at = "second_out"
          /\ s.key = x.key /\ s.rand = x.rand /\ s.epoch = x.epoch
          /\ x.auth = Append(s.auth, Secret(s.epoch, s.key, s.rand))
      BY <1>5, <2>3 DEF FromEncapsulator, Meets, Drawn
    <3>2. PICK in : in = Add(s.in, p)
      OBVIOUS
    <3>3. (\A q \in in : q.of = SecondOf(x)) /\ Whole(in) = SecondOf(x)
      BY <3>1, <3>2, WholeIs
    <3>4. CASE ~ Complete(in, "second")
      <4>1. PICK t : t = [s EXCEPT !.in = in]
        OBVIOUS
      <4>2. t = [at |-> "encap_out_first_in", epoch |-> s.epoch, auth |-> s.auth, key |-> s.key,
                 rand |-> s.rand, next |-> s.next, in |-> in]
        BY <1>5, <4>1 DEF IsState
      <4>3. step = Becomes(t)
        BY <2>1, <2>3, <3>2, <3>4, <4>1 DEF InEncapOutFirstIn
      <4>4. Stays(s, t)
        BY <1>5, <4>2 DEF Stays, IsState, SamplerStates, Drawn, From, FromSampler, HeaderOf, KeyOf
      <4>5. Meets(t, x)
        BY <1>5, <3>1, <3>3, <4>2 DEF Meets, Gathers, Drawn, HeaderOf, KeyOf
      <4>. QED
        BY <4>3, <4>4, <4>5 DEF Takes, Becomes
    <3>5. CASE Complete(in, "second")
      <4>1. Whole(in) = Tagged(s.key, s.rand, Append(s.auth, Secret(s.epoch, s.key, s.rand)), s.epoch)
        BY <3>1, <3>3 DEF SecondOf
      <4>2. PICK done : done = Becomes(State("waiting", s.epoch + 1, x.auth))
        OBVIOUS
      <4>3. step = [done EXCEPT !.secret = Secret(s.epoch, s.key, s.rand)]
        BY <2>1, <2>3, <3>1, <3>2, <3>5, <4>1, <4>2 DEF InEncapOutFirstIn
      <4>. QED
        BY <1>5, <3>1, <4>2, <4>3 DEF Becomes
    <3>. QED
      BY <3>4, <3>5
  <2>. QED
    BY <2>2, <2>3
<1>. QED
  BY <1>1, <1>2, <1>3, <1>4, <1>5 DEF Meets

Given(step, s, x, t) ==
  step.fault = "none" /\ step.secret = NoSecret /\ Stays(x, t) /\ Meets(s, t)

LEMMA GivenNothing ==
  ASSUME NEW s, NEW x, NEW step, IsState(x), Meets(s, x), step = Becomes(x)
  PROVE  Given(step, s, x, step.braid)
BY StaysItself DEF Given, Becomes

\* The capsule's second half goes out once the acknowledged key is whole.
LEMMA GoesToSecondOut ==
  ASSUME NEW s, NEW x, NEW step, IsState(x), Meets(s, x), s.at = "first_in", x.at \in Drawn,
         step = SecondOut(x)
  PROVE  Given(step, s, x, step.braid)
<1>1. PICK t : t = [x EXCEPT !.at = "second_out", !.next = 0, !.in = {}]
  OBVIOUS
<1>2. t = [at |-> "second_out", epoch |-> x.epoch, auth |-> x.auth, key |-> x.key,
           rand |-> x.rand, next |-> 0, in |-> {}]
  BY <1>1 DEF IsState
<1>3. step = Becomes(t)
  BY <1>1 DEF SecondOut
<1>4. Stays(x, t)
  BY <1>2 DEF Stays, IsState, SamplerStates, Drawn, From, FromEncapsulator, FirstOf, SecondOf
<1>5. Meets(s, t)
  BY <1>2 DEF Meets, Gathers, Drawn, FirstOf, SecondOf, HeaderOf, KeyOf
<1>. QED
  BY <1>3, <1>4, <1>5 DEF Given, Becomes

\* The encapsulator, of a packet of the epoch.
LEMMA EncapsulatorReceives ==
  ASSUME NEW s, NEW x, NEW p, NEW step, IsState(x), Meets(s, x), FromSampler(p, s),
         step = Fed(x, p)
  PROVE  Given(step, s, x, step.braid)
<1>1. CASE x.at \in {"header_in", "second_out"}
  <2>1. step = Becomes(x)
    BY <1>1 DEF Fed
  <2>. QED
    BY <2>1, GivenNothing
<1>2. CASE x.at = "waiting"
  <2>1. step = InWaiting(x, p)
    BY <1>2 DEF Fed
  <2>2. CASE p.kind # "header"
    BY <2>1, <2>2, GivenNothing DEF InWaiting
  <2>3. CASE p.kind = "header"
    <3>1. /\ p.of = HeaderOf(s) /\ Gathers(x, HeaderOf(s)) /\ s.at = "sampled"
          /\ x.auth = s.auth /\ x.epoch = s.epoch /\ x.key = 0
      BY <1>2, <2>3 DEF FromSampler, Meets, Drawn
    <3>2. PICK in : in = Add(x.in, p)
      OBVIOUS
    <3>3. (\A q \in in : q.of = HeaderOf(s)) /\ Whole(in) = HeaderOf(s)
      BY <3>1, <3>2, WholeIs
    <3>4. CASE ~ Complete(in, "header")
      <4>1. PICK t : t = [x EXCEPT !.in = in]
        OBVIOUS
      <4>2. t = [at |-> "waiting", epoch |-> x.epoch, auth |-> x.auth, key |-> x.key,
                 rand |-> x.rand, next |-> x.next, in |-> in]
        BY <1>2, <4>1 DEF IsState
      <4>3. step = Becomes(t)
        BY <2>1, <2>3, <3>2, <3>4, <4>1 DEF InWaiting
      <4>4. Stays(x, t)
        BY <1>2, <4>2 DEF Stays, IsState, SamplerStates, Drawn, From, FromEncapsulator, FirstOf, SecondOf
      <4>5. Meets(s, t)
        BY <1>2, <3>1, <3>3, <4>2 DEF Meets, Gathers, Drawn, FirstOf, SecondOf, HeaderOf, KeyOf
      <4>. QED
        BY <4>3, <4>4, <4>5 DEF Given, Becomes
    <3>5. CASE Complete(in, "header")
      <4>1. Whole(in).key = s.key /\ Whole(in) = Tagged(Whole(in).key, 0, x.auth, x.epoch)
        BY <3>1, <3>3 DEF HeaderOf, Tagged
      <4>2. PICK start : start = State("header_in", x.epoch, x.auth)
        OBVIOUS
      <4>3. PICK t : t = [start EXCEPT !.key = s.key]
        OBVIOUS
      <4>4. t = [at |-> "header_in", epoch |-> x.epoch, auth |-> x.auth, key |-> s.key,
                 rand |-> 0, next |-> 0, in |-> {}]
        BY <4>2, <4>3 DEF State
      <4>5. step = Becomes(t)
        BY <2>1, <2>3, <3>2, <3>5, <4>1, <4>2, <4>3 DEF InWaiting
      <4>6. Stays(x, t)
        BY <1>2, <4>4 DEF Stays, IsState, SamplerStates, Drawn, From, FromEncapsulator, FirstOf, SecondOf
      <4>7. Meets(s, t)
        BY <1>2, <3>1, <4>4 DEF Meets, Gathers, Drawn, FirstOf, SecondOf, HeaderOf, KeyOf
      <4>. QED
        BY <4>5, <4>6, <4>7 DEF Given, Becomes
    <3>. QED
      BY <3>4, <3>5
  <2>. QED
    BY <2>2, <2>3
<1>3. CASE x.at \in {"first_out", "first_acked"}
  <2>1. step = IF x.at = "first_out" THEN InFirstOut(x, p) ELSE InFirstAcked(x, p)
    BY <1>3 DEF Fed
  <2>2. CASE p.kind \notin Encaps
    BY <1>3, <2>1, <2>2, GivenNothing DEF InFirstOut, InFirstAcked
  <2>3. CASE p.kind \in Encaps
    <3>1. /\ p.of = KeyOf(s) /\ Gathers(x, KeyOf(s)) /\ s.key = x.key
          /\ s.at \in {"header_out", "first_in"}
          /\ (p.kind = "encap_and_ack" \/ x.at = "first_acked") => s.at = "first_in"
      BY <1>3, <2>3 DEF FromSampler, Meets, Drawn, Encaps
    <3>2. PICK in : in = Add(x.in, p)
      OBVIOUS
    <3>3. (\A q \in in : q.of = KeyOf(s)) /\ Whole(in) = KeyOf(s)
      BY <3>1, <3>2, WholeIs
    <3>4. Whole(in).key = x.key
      BY <3>1, <3>3 DEF KeyOf, Untagged
    <3>5. CASE ~ Complete(in, "encap")
      <4>1. PICK at, next : /\ at = IF p.kind = "encap_and_ack" THEN "first_acked" ELSE x.at
                            /\ next = IF x.at = "first_out" /\ p.kind = "encap_and_ack" THEN 0
                                      ELSE x.next
        OBVIOUS
      <4>2. PICK t : t = [at |-> at, epoch |-> x.epoch, auth |-> x.auth, key |-> x.key,
                          rand |-> x.rand, next |-> next, in |-> in]
        OBVIOUS
      <4>3. step = Becomes(t)
        <5>1. CASE x.at = "first_out"
          <6>1. PICK u : u = [x EXCEPT !.in = in,
                                       !.at = IF p.kind = "encap_and_ack" THEN "first_acked" ELSE @,
                                       !.next = IF p.kind = "encap_and_ack" THEN 0 ELSE @]
            OBVIOUS
          <6>2. u = [at |-> at, epoch |-> x.epoch, auth |-> x.auth, key |-> x.key,
                     rand |-> x.rand, next |-> next, in |-> in]
            BY <4>1, <5>1, <6>1 DEF IsState
          <6>3. step = Becomes(u)
            BY <2>1, <2>3, <3>2, <3>5, <5>1, <6>1 DEF InFirstOut
          <6>. QED
            BY <4>2, <6>2, <6>3
        <5>2. CASE x.at = "first_acked"
          <6>1. PICK u : u = [x EXCEPT !.in = in]
            OBVIOUS
          <6>2. u = [at |-> at, epoch |-> x.epoch, auth |-> x.auth, key |-> x.key,
                     rand |-> x.rand, next |-> next, in |-> in]
            BY <4>1, <5>2, <6>1 DEF IsState
          <6>3. step = Becomes(u)
            BY <2>1, <2>3, <3>2, <3>5, <5>2, <6>1 DEF InFirstAcked
          <6>. QED
            BY <4>2, <6>2, <6>3
        <5>. QED
          BY <1>3, <5>1, <5>2
      <4>4. at \in {"first_out", "first_acked"} /\ (at = "first_acked" => s.at = "first_in")
        BY <1>3, <3>1, <4>1
      <4>5. Stays(x, t)
        BY <1>3, <4>2, <4>4 DEF Stays, IsState, SamplerStates, Drawn, From, FromEncapsulator, FirstOf, SecondOf
      <4>6. Meets(s, t)
        BY <1>3, <3>1, <3>3, <4>2, <4>4 DEF Meets, Gathers, Drawn, FirstOf, SecondOf, HeaderOf, KeyOf
      <4>. QED
        BY <4>3, <4>5, <4>6 DEF Given, Becomes
    <3>6. CASE Complete(in, "encap") /\ (p.kind = "encap_and_ack" \/ x.at = "first_acked")
      <4>1. step = SecondOut(x)
        BY <1>3, <2>1, <2>3, <3>2, <3>4, <3>6 DEF InFirstOut, InFirstAcked
      <4>. QED
        BY <1>3, <3>1, <3>6, <4>1, GoesToSecondOut DEF Drawn
    <3>7. CASE Complete(in, "encap") /\ ~ (p.kind = "encap_and_ack" \/ x.at = "first_acked")
      <4>1. PICK t : t = [x EXCEPT !.at = "encap_in_first_out", !.in = {}]
        OBVIOUS
      <4>2. t = [at |-> "encap_in_first_out", epoch |-> x.epoch, auth |-> x.auth, key |-> x.key,
                 rand |-> x.rand, next |-> x.next, in |-> {}]
        BY <4>1 DEF IsState
      <4>3. step = Becomes(t)
        BY <1>3, <2>1, <2>3, <3>2, <3>4, <3>7, <4>1 DEF InFirstOut
      <4>4. Stays(x, t)
        BY <1>3, <4>2 DEF Stays, IsState, SamplerStates, Drawn, From, FromEncapsulator, FirstOf, SecondOf
      <4>5. Meets(s, t)
        BY <1>3, <3>1, <3>7, <4>2 DEF Meets, Gathers, Drawn, FirstOf, SecondOf, HeaderOf, KeyOf
      <4>. QED
        BY <4>3, <4>4, <4>5 DEF Given, Becomes
    <3>. QED
      BY <3>5, <3>6, <3>7
  <2>. QED
    BY <2>2, <2>3
<1>4. CASE x.at = "encap_in_first_out"
  <2>1. step = InEncapInFirstOut(x, p)
    BY <1>4 DEF Fed
  <2>2. CASE p.kind \notin {"ack", "encap_and_ack"}
    BY <2>1, <2>2, GivenNothing DEF InEncapInFirstOut
  <2>3. CASE p.kind \in {"ack", "encap_and_ack"}
    <3>1. s.at = "first_in"
      BY <1>4, <2>3 DEF FromSampler, Meets
    <3>2. step = SecondOut(x)
      BY <2>1, <2>3 DEF InEncapInFirstOut
    <3>. QED
      BY <1>4, <3>1, <3>2, GoesToSecondOut DEF Drawn
  <2>. QED
    BY <2>2, <2>3
<1>. QED
  BY <1>1, <1>2, <1>3, <1>4 DEF Meets, Drawn

-----------------------------------------------------------------------------
(* What a step of one side changes. *)

LEMMA SidesAre ==
  \A side \in Sides : /\ Other(side) \in Sides /\ Other(side) # side /\ Other(Other(side)) = side
                      /\ Sides = {side, Other(side)}
BY SystemAssumption DEF Sides, Other

\* What was sent stays what it was, or is of an epoch that is over.
OnFrom(b, t) ==
  /\ b.epoch \in Nat /\ t.epoch \in Nat /\ b.epoch <= t.epoch
  /\ b.epoch = t.epoch => \A p : From(p, b) => From(p, t)

\* side's state becomes t; of the packets to the other side some are lost and
\* one may be new.
Moves(side, t) ==
  /\ IsState(t) /\ OnFrom(braid[side], t)
  /\ braid' = [braid EXCEPT ![side] = t]
  /\ secrets' = [secrets EXCEPT ![side] = t.auth]
  /\ fault' = "none"
  /\ network' = [network EXCEPT ![Other(side)] = network'[Other(side)]]
  /\ \A q \in network'[Other(side)] :
       q \in network[Other(side)] \/ (q.epoch = t.epoch /\ From(q, t))

LEMMA FrameKeeps ==
  ASSUME Frame, NEW side \in Sides, NEW t, Moves(side, t)
  PROVE  /\ Frame'
         /\ braid'[side] = t /\ braid'[Other(side)] = braid[Other(side)]
<1>1. /\ Other(side) \in Sides /\ Other(side) # side /\ Other(Other(side)) = side
      /\ Sides = {side, Other(side)}
  BY SidesAre
<1>2. PICK y : y = Other(side)
  OBVIOUS
<1>3. /\ braid' = [z \in Sides |-> braid'[z]]
      /\ \A z \in Sides : braid'[z] = IF z = side THEN t ELSE braid[z]
  BY DEF Frame, Moves
<1>4. /\ network' = [z \in Sides |-> network'[z]]
      /\ \A z \in Sides : z # y => network'[z] = network[z]
  BY <1>1, <1>2 DEF Frame, Moves
<1>5. secrets' = [z \in Sides |-> braid'[z].auth]
  BY <1>3 DEF Frame, Moves
<1>6. ASSUME NEW q \in network'[y]
      PROVE  q.epoch \in Nat /\ q.epoch <= t.epoch /\ (q.epoch = t.epoch => From(q, t))
  <2>1. CASE q \in network[y]
    <3>1. /\ q.epoch \in Nat /\ q.epoch <= braid[side].epoch
          /\ q.epoch = braid[side].epoch => From(q, braid[side])
      BY <1>1, <1>2, <2>1 DEF Frame, Packets
    <3>. QED
      BY <3>1 DEF Moves, OnFrom
  <2>2. CASE q.epoch = t.epoch /\ From(q, t)
    BY <2>2 DEF Moves, OnFrom
  <2>. QED
    BY <1>2, <2>1, <2>2 DEF Moves
<1>7. \A q \in network'[side] :
        /\ q.epoch \in Nat /\ q.epoch <= braid'[y].epoch
        /\ q.epoch = braid'[y].epoch => From(q, braid'[y])
  BY <1>1, <1>2, <1>3, <1>4 DEF Frame, Packets
<1>8. \A z \in Sides : \A q \in network'[z] :
        /\ q.epoch \in Nat /\ q.epoch <= braid'[Other(z)].epoch
        /\ q.epoch = braid'[Other(z)].epoch => From(q, braid'[Other(z)])
  BY <1>1, <1>2, <1>3, <1>6, <1>7
<1>9. \A z \in Sides : IsState(braid'[z])
  BY <1>3 DEF Frame, Moves
<1>10. Frame'
  BY <1>3, <1>4, <1>5, <1>8, <1>9 DEF Frame, Packets, Moves, IsState
<1>. QED
  BY <1>1, <1>3, <1>10

\* What the key stream is given follows the authenticator.
LEMMA EmitsAuth ==
  ASSUME Frame, NEW side \in Sides, NEW secret, NEW t, Emit(side, secret),
         t.auth = IF secret = NoSecret THEN braid[side].auth
                  ELSE Append(braid[side].auth, secret)
  PROVE  secrets' = [secrets EXCEPT ![side] = t.auth]
BY DEF Frame, Emit

\* A send.
LEMMA SendMoves ==
  ASSUME Frame, NEW side \in Sides, NEW step, step = Sent(braid[side], made + 1), Send(side),
         IsState(step.braid), OnFrom(braid[side], step.braid),
         step.packet.epoch = step.braid.epoch, From(step.packet, step.braid),
         step.braid.auth = IF step.secret = NoSecret THEN braid[side].auth
                           ELSE Append(braid[side].auth, step.secret)
  PROVE  Moves(side, step.braid)
<1>1. /\ braid' = [braid EXCEPT ![side] = step.braid] /\ Emit(side, step.secret)
      /\ fault' = "none"
  BY DEF Send
<1>2. PICK left \in SUBSET network[Other(side)] :
        network' = [network EXCEPT ![Other(side)] = left \cup {step.packet}]
  BY DEF Send
<1>3. network'[Other(side)] = left \cup {step.packet}
  BY <1>2, SidesAre DEF Frame
<1>4. secrets' = [secrets EXCEPT ![side] = step.braid.auth]
  BY <1>1, EmitsAuth
<1>. QED
  BY <1>1, <1>2, <1>3, <1>4 DEF Moves

\* A packet that is not refused.
LEMMA ReceiveMoves ==
  ASSUME Frame, NEW side \in Sides, NEW p, NEW step, step = Received(braid[side], p),
         Receive(side, p), step.fault = "none",
         IsState(step.braid), OnFrom(braid[side], step.braid),
         step.braid.auth = IF step.secret = NoSecret THEN braid[side].auth
                           ELSE Append(braid[side].auth, step.secret)
  PROVE  Moves(side, step.braid)
<1>1. /\ braid' = [braid EXCEPT ![side] = step.braid] /\ Emit(side, step.secret)
      /\ fault' = "none" /\ network' = network
  BY DEF Receive
<1>2. secrets' = [secrets EXCEPT ![side] = step.braid.auth]
  BY <1>1, EmitsAuth
<1>3. network' = [network EXCEPT ![Other(side)] = network'[Other(side)]]
  BY <1>1 DEF Frame
<1>. QED
  BY <1>1, <1>2, <1>3 DEF Moves

-----------------------------------------------------------------------------
(* The steps of the agreement. *)

OffersIn(b) == b.at \in SamplerStates \ {"unsampled"}

\* What the agreement sees of a step.
LEMMA Seen ==
  ASSUME Frame, NEW side \in Sides, NEW t, Moves(side, t)
  PROVE  /\ [z \in Sides |-> braid'[z].epoch] =
              [[z \in Sides |-> braid[z].epoch] EXCEPT ![side] = t.epoch]
         /\ [z \in Sides |-> braid'[z].at \in SamplerStates \ {"unsampled"}] =
              [[z \in Sides |-> braid[z].at \in SamplerStates \ {"unsampled"}]
                 EXCEPT ![side] = OffersIn(t)]
         /\ secrets' = [secrets EXCEPT ![side] = t.auth]
<1>1. \A z \in Sides : braid'[z] = IF z = side THEN t ELSE braid[z]
  BY DEF Frame, Moves
<1>2. [z \in Sides |-> braid'[z].epoch] =
        [[z \in Sides |-> braid[z].epoch] EXCEPT ![side] = t.epoch]
  BY <1>1
<1>3. [z \in Sides |-> braid'[z].at \in SamplerStates \ {"unsampled"}] =
        [[z \in Sides |-> braid[z].at \in SamplerStates \ {"unsampled"}]
           EXCEPT ![side] = t.at \in SamplerStates \ {"unsampled"}]
  BY <1>1
<1>. QED
  BY <1>2, <1>3 DEF Moves, OffersIn

LEMMA SeenNothing ==
  ASSUME Frame, NEW side \in Sides, NEW t, Moves(side, t), t.epoch = braid[side].epoch,
         t.auth = braid[side].auth, OffersIn(t) <=> OffersIn(braid[side])
  PROVE  UNCHANGED EA!agreement
<1>1. \A z \in Sides : braid'[z] = IF z = side THEN t ELSE braid[z]
  BY DEF Frame, Moves
<1>2. [z \in Sides |-> braid'[z].epoch] = [z \in Sides |-> braid[z].epoch]
  BY <1>1
<1>3. [z \in Sides |-> braid'[z].at \in SamplerStates \ {"unsampled"}] =
        [z \in Sides |-> braid[z].at \in SamplerStates \ {"unsampled"}]
  BY <1>1 DEF OffersIn
<1>4. secrets' = secrets
  <2>1. secrets' = [secrets EXCEPT ![side] = t.auth]
    BY DEF Moves
  <2>2. secrets = [z \in Sides |-> secrets[z]] /\ secrets[side] = t.auth
    BY DEF Frame
  <2>. QED
    BY <2>1, <2>2
<1>. QED
  BY <1>2, <1>3, <1>4 DEF EA!agreement

\* A step within an epoch, that makes nothing: the pair is what it was.
LEMMA PairStays ==
  ASSUME Frame, NEW side \in Sides, Pairs(side), NEW actor \in Sides, NEW t, Moves(actor, t),
         Stays(braid[actor], t), made' = made,
         NEW s, NEW x, s = (IF actor = side THEN t ELSE braid[side]),
         x = (IF actor = side THEN braid[Other(side)] ELSE t),
         \/ Meets(braid[side], braid[Other(side)]) /\ Meets(s, x)
         \/ Turned(braid[side], braid[Other(side)]) /\ Turned(s, x)
  PROVE  Pairs(side)' /\ UNCHANGED EA!agreement
<1>1. braid'[side] = s /\ braid'[Other(side)] = x
  BY SidesAre, FrameKeeps
<1>2. UNCHANGED EA!agreement
  BY SeenNothing DEF Stays, OffersIn
<1>3. PICK s0, x0 : s0 = braid[side] /\ x0 = braid[Other(side)]
  OBVIOUS
<1>4. /\ s.epoch = s0.epoch /\ s.auth = s0.auth /\ x.epoch = x0.epoch /\ x.auth = x0.auth
      /\ s.at = "unsampled" <=> s0.at = "unsampled"
      /\ x.at \in Drawn <=> x0.at \in Drawn
      /\ s0.at \in SamplerStates => s.key = s0.key
      /\ x0.at \in Drawn => x.rand = x0.rand
  BY <1>3, SidesAre DEF Stays
<1>5. Made(s0, x0)
  BY <1>3 DEF Pairs
<1>6. CASE Meets(s0, x0) /\ Meets(s, x)
  <2>1. ~ Turned(s0, x0) /\ s0.at \in SamplerStates
    BY <1>6 DEF Meets, Turned, SamplerStates
  <2>2. /\ x0.epoch \in Nat \ {0} /\ Counted(s0.auth) /\ Counted(x0.auth)
        /\ Len(s0.auth) = s0.epoch - 1
        /\ made = 2 * (x0.epoch - 1) + (IF s0.at = "unsampled" THEN 0 ELSE 1)
                    + (IF x0.at \in Drawn THEN 1 ELSE 0)
        /\ s0.at # "unsampled" => x0.epoch <= MaxEpochs /\ s0.key \in MadeKeys
        /\ x0.at \in Drawn => x0.rand \in MadeKeys
    BY <1>5, <2>1 DEF Made
  <2>3. Made(s, x)'
    BY <1>4, <1>6, <2>1, <2>2 DEF Made
  <2>. QED
    BY <1>1, <1>2, <1>3, <1>4, <2>3 DEF Pairs, Made
<1>7. CASE Turned(s0, x0) /\ Turned(s, x)
  <2>1. ~ Meets(s0, x0)
    BY <1>7 DEF Meets, Turned
  <2>2. Made(s, x)'
    BY <1>4, <1>5, <1>7, <2>1 DEF Made
  <2>. QED
    BY <1>1, <1>2, <1>3, <1>4, <2>2 DEF Pairs, Made
<1>. QED
  BY <1>3, <1>6, <1>7

-----------------------------------------------------------------------------
(* Each step keeps the pair, and is a step of the agreement or none. *)

Keeps == IInv' /\ [EA!EpochNext]_(EA!agreement)

LEMMA MoveKeeps ==
  ASSUME Frame, NEW side \in Sides, NEW actor \in Sides, NEW t, Moves(actor, t), Pairs(side)',
         [EA!EpochNext]_(EA!agreement)
  PROVE  Keeps
BY FrameKeeps DEF Keeps, IInv

\* An epoch's drawer is the one that samples the next.
LEMMA DrawersTurn ==
  ASSUME NEW e \in Nat, NEW side \in Sides
  PROVE  /\ EA!Drawer(e) \in Sides
         /\ side # EA!Drawer(e) <=> Other(side) = EA!Drawer(e)
         /\ side # EA!Drawer(e) <=> side = EA!Drawer(e + 1)
<1>1. (e + 1) % 2 = 1 <=> ~ (e % 2 = 1)
  OBVIOUS
<1>. QED
  BY <1>1, SystemAssumption DEF EA!Drawer, Sides, Other

LEMMA SameSides == EA!Sides = Sides /\ \A z \in Sides : EA!Other(z) = Other(z)
BY DEF EA!Sides, EA!Other, Sides, Other

LEMMA StepOfAgreement ==
  ASSUME NEW side \in Sides,
         EA!Offer(side) \/ EA!Draw(side) \/ EA!Learn(side) \/ EA!Follow(side)
  PROVE  [EA!EpochNext]_(EA!agreement)
BY SameSides DEF EA!EpochNext

\* The sampler of the epoch, or the one that has gone on, sends.
LEMMA SamplerSendKeeps ==
  ASSUME Frame, NEW side \in Sides, Pairs(side), Send(side)
  PROVE  Keeps
<1>1. PICK s, x, step : /\ s = braid[side] /\ x = braid[Other(side)]
                        /\ step = Sent(s, made + 1)
  OBVIOUS
<1>2. IsState(s) /\ IsState(x) /\ Made(s, x)
  BY <1>1, SidesAre DEF Frame, Pairs
<1>3. s.epoch \in Nat /\ x.epoch \in Nat \ {0} /\ made' = IF MakesFresh(s) THEN made + 1 ELSE made
  BY <1>1, <1>2 DEF Made, Meets, Turned, Send
<1>4. CASE s.at \in (SamplerStates \ {"unsampled"}) \cup {"waiting"}
  <2>1. Spreads(s, step)
    BY <1>1, <1>2, <1>4, SamplerSpreads, EncapsulatorSpreads DEF EncapsulatorStates
  <2>2. PICK t : t = step.braid
    OBVIOUS
  <2>3. PICK n : t = [at |-> s.at, epoch |-> s.epoch, auth |-> s.auth, key |-> s.key,
                      rand |-> s.rand, next |-> n, in |-> s.in]
    BY <1>2, <2>1, <2>2 DEF Spreads, IsState
  <2>4. Stays(s, t) /\ From(step.packet, t)
    BY <2>1, <2>3 DEF Spreads, Stays, IsState, From, FromSampler, FromEncapsulator, HeaderOf, KeyOf,
                      FirstOf, SecondOf
  <2>5. Moves(side, t)
    BY <1>1, <1>3, <2>1, <2>2, <2>4, SendMoves DEF Spreads, Stays, OnFrom
  <2>6. made' = made
    BY <1>3, <1>4 DEF MakesFresh, SamplerStates
  <2>7. \/ Meets(s, x) /\ Meets(t, x)
        \/ Turned(s, x) /\ Turned(t, x)
    BY <1>2, <2>3 DEF Made, Meets, Turned, HeaderOf, KeyOf, Gathers
  <2>. QED
    BY <1>1, <2>4, <2>5, <2>6, <2>7, PairStays, MoveKeeps
<1>5. CASE s.at = "unsampled"
  <2>1. PICK t : t = step.braid
    OBVIOUS
  <2>2. /\ t = [at |-> "sampled", epoch |-> s.epoch, auth |-> s.auth, key |-> made + 1,
                rand |-> s.rand, next |-> t.next, in |-> s.in]
        /\ step.secret = NoSecret /\ step.packet.epoch = s.epoch /\ From(step.packet, t)
    BY <1>1, <1>2, <1>5, <2>1, SamplerMakes
  <2>3. \A p : ~ From(p, s)
    BY <1>5 DEF From, FromSampler, SamplerStates
  <2>4. Moves(side, t)
    <3>1. IsState(t) /\ OnFrom(s, t) /\ t.auth = s.auth /\ step.packet.epoch = t.epoch
      BY <1>3, <2>2, <2>3 DEF IsState, OnFrom
    <3>. QED
      BY <1>1, <2>1, <2>2, <3>1, SendMoves
  <2>5. /\ Meets(s, x) /\ x.at = "waiting" /\ Len(s.auth) = s.epoch - 1
        /\ Counted(s.auth) /\ Counted(x.auth)
        /\ made = 2 * (x.epoch - 1) /\ made' = made + 1
        /\ s.epoch <= MaxEpochs /\ s.epoch = x.epoch
    <3>1. Meets(s, x) /\ x.at = "waiting" /\ ~ Turned(s, x) /\ x.at \notin Drawn
      BY <1>2, <1>5 DEF Made, Meets, Turned, Drawn
    <3>2. s.epoch = x.epoch
      BY <3>1 DEF Meets
    <3>. QED
      BY <1>1, <1>2, <1>3, <1>5, <3>1, <3>2 DEF Made, Send, MakesFresh
  <2>6. made + 1 \in MadeKeys
    BY <1>3, <2>5, SystemAssumption, SMTT(30) DEF MadeKeys
  <2>7. Meets(t, x)
    BY <1>5, <2>2, <2>5 DEF Meets, Gathers, Drawn
  <2>8. Made(t, x)'
    <3>1. x.at \notin Drawn
      BY <2>5 DEF Drawn
    <3>. QED
      BY <1>3, <2>2, <2>5, <2>6, <2>7, <3>1 DEF Made
  <2>9. Pairs(side)'
    BY <1>1, <2>4, <2>8, FrameKeeps DEF Pairs
  <2>10. EA!Offer(side)
    <3>1. side # EA!Drawer(s.epoch)
      BY <1>1, <2>5 DEF Pairs
    <3>2. ~ OffersIn(s) /\ OffersIn(t)
      BY <1>5, <2>2 DEF OffersIn, SamplerStates
    <3>3. secrets' = secrets
      BY <1>1, <2>2, <2>4 DEF Moves, Frame
    <3>4. [z \in Sides |-> braid'[z].epoch] = [z \in Sides |-> braid[z].epoch]
      <4>1. \A z \in Sides : braid'[z] = IF z = side THEN t ELSE braid[z]
        BY <2>4 DEF Frame, Moves
      <4>. QED
        BY <1>1, <2>2, <4>1
    <3>5. [z \in Sides |-> braid'[z].at \in SamplerStates \ {"unsampled"}] =
            [[z \in Sides |-> braid[z].at \in SamplerStates \ {"unsampled"}]
               EXCEPT ![side] = TRUE]
      BY <2>4, <3>2, Seen
    <3>. QED
      BY <1>1, <3>1, <3>2, <3>3, <3>4, <3>5 DEF EA!Offer, OffersIn
  <2>. QED
    BY <2>4, <2>9, <2>10, StepOfAgreement, MoveKeeps
<1>. QED
  BY <1>2, <1>4, <1>5 DEF Made, Meets, Turned, SamplerStates

\* The secrets so far, and one more, of the epoch that follows.
LEMMA CountsOn ==
  ASSUME NEW auth, Counted(auth), NEW e \in Nat, Len(auth) = e - 1,
         NEW secret \in SecretSet, secret.epoch = e
  PROVE  /\ Counted(Append(auth, secret)) /\ Len(Append(auth, secret)) = e
         /\ secret \notin EA!ToSet(auth)
<1>1. auth \in Seq(SecretSet) /\ \A i \in 1..Len(auth) : auth[i].epoch = i
  BY DEF Counted
<1>2. PICK long : long = Append(auth, secret)
  OBVIOUS
<1>3. /\ long \in Seq(SecretSet) /\ Len(long) = Len(auth) + 1 /\ Len(auth) \in Nat
      /\ \A i \in 1..Len(auth) : long[i] = auth[i]
      /\ long[Len(auth) + 1] = secret
      /\ DOMAIN auth = 1..Len(auth)
  BY <1>1, <1>2, AppendProperties, LenProperties
<1>4. Len(long) = e
  BY <1>3
<1>5. ASSUME NEW i \in 1..Len(long)
      PROVE  long[i].epoch = i
  <2>1. i \in 1..Len(auth) \/ i = Len(auth) + 1
    BY <1>3
  <2>. QED
    BY <1>1, <1>3, <2>1
<1>6. secret \notin EA!ToSet(auth)
  BY <1>1, <1>3 DEF EA!ToSet
<1>. QED
  BY <1>2, <1>3, <1>4, <1>5, <1>6 DEF Counted

\* The encapsulator of the epoch sends.
LEMMA EncapsulatorSendKeeps ==
  ASSUME Frame, NEW side \in Sides, Pairs(side), Send(Other(side))
  PROVE  Keeps
<1>1. PICK s, x, step, actor :
        /\ s = braid[side] /\ x = braid[actor] /\ step = Sent(x, made + 1)
        /\ actor \in Sides /\ actor = Other(side) /\ actor # side /\ side = Other(actor)
  <2>1. PICK actor \in Sides : actor = Other(side) /\ actor # side /\ side = Other(actor)
    BY SidesAre
  <2>. QED
    BY <2>1
<1>2. IsState(s) /\ IsState(x) /\ Made(s, x)
  BY <1>1 DEF Frame, Pairs
<1>3. s.epoch \in Nat /\ x.epoch \in Nat \ {0} /\ made' = IF MakesFresh(x) THEN made + 1 ELSE made
  BY <1>1, <1>2 DEF Made, Meets, Turned, Send
<1>4. CASE x.at \in EncapsulatorStates \ {"header_in"}
  <2>1. Spreads(x, step)
    BY <1>1, <1>2, <1>4, EncapsulatorSpreads
  <2>2. PICK t : t = step.braid
    OBVIOUS
  <2>3. PICK n : t = [at |-> x.at, epoch |-> x.epoch, auth |-> x.auth, key |-> x.key,
                      rand |-> x.rand, next |-> n, in |-> x.in]
    BY <1>2, <2>1, <2>2 DEF Spreads, IsState
  <2>4. Stays(x, t) /\ From(step.packet, t)
    BY <2>1, <2>3 DEF Spreads, Stays, IsState, From, FromSampler, FromEncapsulator, HeaderOf, KeyOf,
                      FirstOf, SecondOf
  <2>5. Moves(actor, t)
    BY <1>1, <1>3, <2>1, <2>2, <2>4, SendMoves DEF Spreads, Stays, OnFrom
  <2>6. made' = made
    BY <1>3, <1>4 DEF MakesFresh, EncapsulatorStates
  <2>7. \/ Meets(s, x) /\ Meets(s, t)
        \/ Turned(s, x) /\ Turned(s, t)
    BY <1>2, <2>3 DEF Made, Meets, Turned, HeaderOf, KeyOf, FirstOf, SecondOf, Gathers
  <2>. QED
    BY <1>1, <2>4, <2>5, <2>6, <2>7, PairStays, MoveKeeps
<1>5. CASE x.at = "header_in"
  <2>1. PICK t : t = step.braid
    OBVIOUS
  <2>2. PICK secret : secret = Secret(x.epoch, x.key, made + 1)
    OBVIOUS
  <2>3. /\ t = [at |-> "first_out", epoch |-> x.epoch, auth |-> Append(x.auth, secret), key |-> x.key,
                rand |-> made + 1, next |-> t.next, in |-> x.in]
        /\ step.secret = secret /\ step.packet.epoch = x.epoch /\ From(step.packet, t)
    BY <1>1, <1>2, <1>5, <2>1, <2>2, EncapsulatorDraws
  <2>4. secret # NoSecret
    <3>1. secret.epoch # 0 /\ NoSecret.epoch = 0
      BY <1>3, <2>2 DEF Secret, NoSecret
    <3>. QED
      BY <3>1
  <2>5. \A p : From(p, x) => From(p, t)
    BY <1>5, <2>3 DEF From, FromEncapsulator, SamplerStates, Drawn
  <2>6. Moves(actor, t)
    <3>1. /\ IsState(t) /\ OnFrom(x, t) /\ t.auth = Append(x.auth, secret)
          /\ step.packet.epoch = t.epoch
      BY <1>3, <2>3, <2>5 DEF IsState, OnFrom
    <3>. QED
      BY <1>1, <2>1, <2>3, <2>4, <3>1, SendMoves
  <2>7. /\ Meets(s, x) /\ s.at = "sampled" /\ Len(x.auth) = x.epoch - 1
        /\ Counted(s.auth) /\ Counted(x.auth) /\ x.auth = s.auth /\ x.key = s.key
        /\ made = 2 * (x.epoch - 1) + 1 /\ made' = made + 1
        /\ x.epoch <= MaxEpochs /\ s.key \in MadeKeys /\ s.epoch = x.epoch
    <3>1. /\ Meets(s, x) /\ s.at = "sampled" /\ ~ Turned(s, x) /\ x.at \notin Drawn
          /\ x.auth = s.auth /\ x.key = s.key /\ s.epoch = x.epoch
      BY <1>2, <1>5 DEF Made, Meets, Turned, Drawn
    <3>. QED
      BY <1>1, <1>2, <1>3, <1>5, <3>1, SMTT(30) DEF Made, MakesFresh
  <2>8. made + 1 \in MadeKeys
    BY <1>3, <2>7, SystemAssumption, SMTT(30) DEF MadeKeys
  <2>9. secret \in SecretSet /\ secret.epoch = x.epoch
    BY <1>3, <2>2, <2>7, <2>8 DEF Secret, SecretSet
  <2>10. Counted(t.auth) /\ secret \notin EA!ToSet(x.auth)
    <3>1. t.auth = Append(x.auth, secret)
      BY <2>3
    <3>2. x.epoch \in Nat
      BY <1>3
    <3>. QED
      BY <2>7, <2>9, <3>1, <3>2, CountsOn
  <2>11. Meets(s, t)
    BY <1>5, <2>2, <2>3, <2>7 DEF Meets, Gathers, Drawn
  <2>12. Made(s, t)'
    <3>1. t.at \in Drawn /\ t.rand = made + 1
      BY <2>3 DEF Drawn
    <3>. QED
      BY <1>3, <2>3, <2>7, <2>8, <2>10, <2>11, <3>1 DEF Made
  <2>13. Pairs(side)'
    BY <1>1, <2>3, <2>6, <2>12, FrameKeeps DEF Pairs
  <2>14. EA!Draw(actor)
    <3>1. actor = EA!Drawer(x.epoch)
      BY <1>1, <1>3, DrawersTurn DEF Pairs
    <3>2. OffersIn(s) /\ ~ OffersIn(x) /\ ~ OffersIn(t)
      BY <1>5, <2>3, <2>7 DEF OffersIn, SamplerStates
    <3>3. secrets' = [secrets EXCEPT ![actor] = Append(@, secret)]
      <4>1. secrets[actor] = x.auth /\ t.auth = Append(x.auth, secret)
        BY <1>1, <2>3 DEF Frame
      <4>. QED
        BY <2>6, <4>1 DEF Moves
    <3>4. \A z \in Sides : braid'[z] = IF z = actor THEN t ELSE braid[z]
      BY <2>6 DEF Frame, Moves
    <3>5. [z \in Sides |-> braid'[z].epoch] = [z \in Sides |-> braid[z].epoch]
      BY <1>1, <2>3, <3>4
    <3>6. [z \in Sides |-> braid'[z].at \in SamplerStates \ {"unsampled"}] =
            [z \in Sides |-> braid[z].at \in SamplerStates \ {"unsampled"}]
      BY <1>1, <3>2, <3>4 DEF OffersIn
    <3>7. secrets[actor] = x.auth
      BY <1>1 DEF Frame
    <3>8. EA!Other(actor) = side
      BY <1>1, SameSides
    <3>. QED
      BY <1>1, <2>7, <2>9, <2>10, <3>1, <3>2, <3>3, <3>5, <3>6, <3>7, <3>8 DEF EA!Draw, OffersIn
  <2>. QED
    BY <1>1, <2>6, <2>13, <2>14, StepOfAgreement, MoveKeeps
<1>. QED
  BY <1>2, <1>4, <1>5 DEF Made, Meets, Turned, EncapsulatorStates, Drawn

\* A packet of an epoch that is over for its receiver.
LEMMA LateKeeps ==
  ASSUME Frame, NEW side \in Sides, Pairs(side), NEW actor \in Sides, NEW p,
         Receive(actor, p), Received(braid[actor], p) = Becomes(braid[actor])
  PROVE  Keeps
<1>1. PICK b, step : b = braid[actor] /\ step = Received(b, p)
  OBVIOUS
<1>2. IsState(b) /\ step = Becomes(b)
  BY <1>1 DEF Frame
<1>3. step.braid = b /\ step.secret = NoSecret /\ step.fault = "none"
  BY <1>2 DEF Becomes
<1>4. b.epoch \in Nat /\ Made(braid[side], braid[Other(side)])
  BY <1>1, SidesAre DEF Pairs, Made, Meets, Turned
<1>5. Stays(b, b) /\ OnFrom(b, b)
  BY <1>2, <1>4, StaysItself DEF OnFrom
<1>6. Moves(actor, b)
  BY <1>1, <1>2, <1>3, <1>5, ReceiveMoves
<1>7. made' = made
  BY DEF Receive
<1>8. PICK s, x : s = braid[side] /\ x = braid[Other(side)]
  OBVIOUS
<1>9. /\ s = IF actor = side THEN b ELSE braid[side]
      /\ x = IF actor = side THEN braid[Other(side)] ELSE b
  BY <1>1, <1>8, SidesAre
<1>10. \/ Meets(braid[side], braid[Other(side)]) /\ Meets(s, x)
       \/ Turned(braid[side], braid[Other(side)]) /\ Turned(s, x)
  BY <1>4, <1>8 DEF Made
<1>. QED
  BY <1>1, <1>5, <1>6, <1>7, <1>9, <1>10, PairStays, MoveKeeps

\* The sampler of the epoch, or the one that has gone on, receives.
LEMMA SamplerReceiveKeeps ==
  ASSUME Frame, NEW side \in Sides, Pairs(side), NEW p \in network[side], Receive(side, p)
  PROVE  Keeps
<1>1. PICK s, x, step : /\ s = braid[side] /\ x = braid[Other(side)]
                        /\ step = Received(s, p)
  OBVIOUS
<1>2. IsState(s) /\ IsState(x) /\ Made(s, x)
  BY <1>1, SidesAre DEF Frame, Pairs
<1>3. p.epoch \in Nat /\ p.epoch <= x.epoch /\ (p.epoch = x.epoch => From(p, x))
  BY <1>1 DEF Frame, Packets
<1>4. s.epoch \in Nat /\ x.epoch \in Nat \ {0} /\ made' = made
  BY <1>2 DEF Made, Meets, Turned, Receive
<1>5. CASE p.epoch < s.epoch
  BY <1>1, <1>3, <1>4, <1>5, LateIsIgnored, LateKeeps
<1>6. CASE ~ (p.epoch < s.epoch)
  <2>1. Meets(s, x) /\ ~ Turned(s, x) /\ p.epoch = s.epoch /\ s.epoch = x.epoch
    BY <1>2, <1>3, <1>4, <1>6 DEF Made, Meets, Turned
  <2>2. FromEncapsulator(p, x)
    <3>1. x.at \notin SamplerStates
      BY <2>1 DEF Meets, Drawn, SamplerStates
    <3>. QED
      BY <1>3, <2>1, <3>1 DEF From
  <2>3. step = Fed(s, p)
    BY <1>1, <1>3, <2>1, OfThisEpoch
  <2>4. PICK t : t = step.braid
    OBVIOUS
  <2>5. CASE Takes(step, s, step.braid, x)
    <3>1. Stays(s, t) /\ Meets(t, x) /\ step.secret = NoSecret /\ step.fault = "none"
      BY <2>4, <2>5 DEF Takes
    <3>2. OnFrom(s, t) /\ IsState(t) /\ t.auth = s.auth
      BY <1>4, <3>1 DEF Stays, OnFrom
    <3>3. Moves(side, t)
      BY <1>1, <2>4, <3>1, <3>2, ReceiveMoves
    <3>. QED
      BY <1>1, <1>4, <2>1, <3>1, <3>3, PairStays, MoveKeeps
  <2>6. CASE /\ step.fault = "none" /\ step.secret = Secret(x.epoch, x.key, x.rand)
             /\ s.at = "encap_out_first_in"
             /\ step.braid = State("waiting", x.epoch + 1, x.auth)
    <3>1. PICK secret : secret = step.secret
      OBVIOUS
    <3>2. secret # NoSecret /\ secret = Secret(x.epoch, x.key, x.rand)
      <4>1. secret.epoch # 0 /\ NoSecret.epoch = 0
        BY <1>4, <2>6, <3>1 DEF Secret, NoSecret
      <4>. QED
        BY <2>6, <3>1, <4>1
    <3>3. /\ x.at = "second_out" /\ x.auth = Append(s.auth, secret)
          /\ x.in = {}
      BY <2>1, <2>6, <3>2 DEF Meets, Drawn
    <3>4. t = [at |-> "waiting", epoch |-> x.epoch + 1, auth |-> x.auth, key |-> 0, rand |-> 0,
               next |-> 0, in |-> {}]
      BY <2>4, <2>6 DEF State
    <3>5. IsState(t) /\ OnFrom(s, t) /\ t.auth = Append(s.auth, secret)
      BY <1>4, <2>1, <3>3, <3>4 DEF IsState, OnFrom
    <3>6. Moves(side, t)
      BY <1>1, <2>4, <2>6, <3>1, <3>2, <3>5, ReceiveMoves
    <3>7. Turned(t, x)
      BY <3>3, <3>4 DEF Turned
    <3>8. /\ Len(s.auth) = x.epoch - 1 /\ Counted(s.auth) /\ Counted(x.auth)
          /\ made = 2 * x.epoch /\ x.epoch <= MaxEpochs
      BY <1>2, <1>4, <2>1, <2>6, <3>3 DEF Made, Drawn
    <3>9. Len(x.auth) = x.epoch
      <4>1. s.auth \in Seq(SecretSet) /\ x.auth \in Seq(SecretSet)
        BY <3>8 DEF Counted
      <4>2. Len(x.auth) = Len(s.auth) + 1
        BY <3>3, <4>1
      <4>. QED
        BY <1>4, <3>8, <4>2
    <3>10. Made(t, x)'
      BY <1>4, <3>4, <3>7, <3>8, <3>9 DEF Made
    <3>11. Pairs(side)'
      BY <1>1, <3>6, <3>10, FrameKeeps DEF Pairs
    <3>12. EA!Learn(side)
      <4>1. EA!Other(side) = Other(side) /\ Other(side) \in Sides
        BY SameSides, SidesAre
      <4>2. secrets[side] = s.auth /\ secrets[Other(side)] = x.auth
        BY <1>1, <4>1 DEF Frame
      <4>3. secrets' = [secrets EXCEPT ![side] = secrets[Other(side)]]
        BY <3>4, <3>6, <4>2 DEF Moves
      <4>4. Len(secrets[side]) < Len(secrets[Other(side)])
        BY <1>4, <3>8, <3>9, <4>2
      <4>5. ~ OffersIn(t)
        BY <3>4 DEF OffersIn, SamplerStates
      <4>6. [z \in Sides |-> braid'[z].epoch] =
              [[z \in Sides |-> braid[z].epoch] EXCEPT ![side] = @ + 1]
        <5>1. \A z \in Sides : braid'[z] = IF z = side THEN t ELSE braid[z]
          BY <3>6 DEF Frame, Moves
        <5>2. t.epoch = braid[side].epoch + 1
          BY <1>1, <2>1, <3>4
        <5>. QED
          BY <5>1, <5>2
      <4>7. [z \in Sides |-> braid'[z].at \in SamplerStates \ {"unsampled"}] =
              [[z \in Sides |-> braid[z].at \in SamplerStates \ {"unsampled"}]
                 EXCEPT ![side] = FALSE]
        <5>1. \A z \in Sides : braid'[z] = IF z = side THEN t ELSE braid[z]
          BY <3>6 DEF Frame, Moves
        <5>2. (t.at \in SamplerStates \ {"unsampled"}) = FALSE
          BY <4>5 DEF OffersIn
        <5>. QED
          BY <5>1, <5>2
      <4>8. [z \in Sides |-> braid[z].epoch][side] = [z \in Sides |-> braid[z].epoch][Other(side)]
        BY <1>1, <2>1, <4>1
      <4>. QED
        BY <4>1, <4>3, <4>4, <4>6, <4>7, <4>8 DEF EA!Learn
    <3>. QED
      BY <3>6, <3>11, <3>12, StepOfAgreement, MoveKeeps
  <2>. QED
    BY <1>2, <2>1, <2>2, <2>3, <2>5, <2>6, SamplerReceives
<1>. QED
  BY <1>5, <1>6

\* The encapsulator of the epoch, or the one that is still in it, receives.
LEMMA EncapsulatorReceiveKeeps ==
  ASSUME Frame, NEW side \in Sides, Pairs(side), NEW p \in network[Other(side)],
         Receive(Other(side), p)
  PROVE  Keeps
<1>1. PICK s, x, step, actor :
        /\ s = braid[side] /\ x = braid[actor] /\ step = Received(x, p)
        /\ actor \in Sides /\ actor = Other(side) /\ actor # side /\ side = Other(actor)
  <2>1. PICK actor \in Sides : actor = Other(side) /\ actor # side /\ side = Other(actor)
    BY SidesAre
  <2>. QED
    BY <2>1
<1>2. IsState(s) /\ IsState(x) /\ Made(s, x)
  BY <1>1 DEF Frame, Pairs
<1>3. p.epoch \in Nat /\ p.epoch <= s.epoch /\ (p.epoch = s.epoch => From(p, s))
  BY <1>1 DEF Frame, Packets
<1>4. s.epoch \in Nat /\ x.epoch \in Nat \ {0} /\ made' = made
  BY <1>2 DEF Made, Meets, Turned, Receive
<1>5. CASE p.epoch < x.epoch
  BY <1>1, <1>3, <1>4, <1>5, LateIsIgnored, LateKeeps
<1>6. CASE ~ (p.epoch < x.epoch) /\ Meets(s, x)
  <2>1. p.epoch = x.epoch /\ s.epoch = x.epoch
    BY <1>3, <1>4, <1>6 DEF Meets
  <2>2. FromSampler(p, s)
    <3>1. s.at \in SamplerStates
      BY <1>6 DEF Meets, SamplerStates
    <3>. QED
      BY <1>3, <2>1, <3>1 DEF From
  <2>3. step = Fed(x, p)
    BY <1>1, <1>3, <2>1, OfThisEpoch
  <2>4. PICK t : t = step.braid
    OBVIOUS
  <2>5. Stays(x, t) /\ Meets(s, t) /\ step.secret = NoSecret /\ step.fault = "none"
    BY <1>2, <1>6, <2>2, <2>3, <2>4, EncapsulatorReceives DEF Given
  <2>6. OnFrom(x, t) /\ IsState(t) /\ t.auth = x.auth
    BY <1>4, <2>5 DEF Stays, OnFrom
  <2>7. Moves(actor, t)
    BY <1>1, <2>4, <2>5, <2>6, ReceiveMoves
  <2>. QED
    BY <1>1, <1>4, <1>6, <2>5, <2>7, PairStays, MoveKeeps
<1>7. CASE p.epoch = x.epoch /\ Turned(s, x)
  <2>1. Received(x, p) = Becomes(x)
    BY <1>3, <1>7, OfThisEpoch DEF Turned, Fed
  <2>. QED
    BY <1>1, <2>1, LateKeeps
<1>8. CASE p.epoch > x.epoch /\ Turned(s, x)
  <2>1. p.epoch = x.epoch + 1 /\ s.epoch = x.epoch + 1
    BY <1>3, <1>4, <1>8 DEF Turned
  <2>2. PICK t : t = State("unsampled", x.epoch + 1, x.auth)
    OBVIOUS
  <2>3. t = [at |-> "unsampled", epoch |-> x.epoch + 1, auth |-> x.auth, key |-> 0, rand |-> 0,
             next |-> 0, in |-> {}]
    BY <2>2 DEF State
  <2>4. step = Becomes(t)
    BY <1>1, <1>3, <1>4, <1>8, <2>1, <2>2, NextIsFollowed DEF Turned
  <2>5. step.braid = t /\ step.secret = NoSecret /\ step.fault = "none"
    BY <2>4 DEF Becomes
  <2>6. IsState(t) /\ OnFrom(x, t) /\ t.auth = x.auth
    BY <1>4, <2>3 DEF IsState, OnFrom
  <2>7. Moves(actor, t)
    BY <1>1, <2>5, <2>6, ReceiveMoves
  <2>8. Meets(t, s)
    BY <1>8, <2>1, <2>3 DEF Meets, Turned, Gathers, Drawn
  <2>9. /\ Len(s.auth) = x.epoch /\ Counted(s.auth) /\ Counted(x.auth)
        /\ made = 2 * x.epoch /\ s.auth = x.auth /\ s.at = "waiting"
    <3>1. ~ Meets(s, x)
      BY <1>4, <1>8 DEF Meets, Turned
    <3>. QED
      BY <1>2, <1>8, <3>1 DEF Made, Turned
  <2>10. Made(t, s)'
    <3>1. s.at \notin Drawn /\ s.epoch \in Nat \ {0} /\ 2 * (s.epoch - 1) = made
      BY <1>4, <2>1, <2>9 DEF Drawn
    <3>. QED
      BY <1>4, <2>1, <2>3, <2>8, <2>9, <3>1 DEF Made
  <2>11. braid'[actor] = t /\ braid'[side] = s
    BY <1>1, <2>7, FrameKeeps
  <2>12. Pairs(actor)'
    <3>1. side # EA!Drawer(x.epoch)
      BY <1>1 DEF Pairs
    <3>2. side = EA!Drawer(s.epoch)
      BY <1>4, <2>1, <3>1, DrawersTurn
    <3>. QED
      BY <1>1, <2>10, <2>11, <3>2 DEF Pairs
  <2>13. EA!Follow(actor)
    <3>1. EA!Other(actor) = side
      BY <1>1, SameSides
    <3>2. \A z \in Sides : braid'[z] = IF z = actor THEN t ELSE braid[z]
      BY <2>7 DEF Frame, Moves
    <3>3. [z \in Sides |-> braid'[z].epoch] =
            [[z \in Sides |-> braid[z].epoch] EXCEPT ![actor] = @ + 1]
      <4>1. t.epoch = braid[actor].epoch + 1
        BY <1>1, <2>3
      <4>. QED
        BY <3>2, <4>1
    <3>4. [z \in Sides |-> braid'[z].at \in SamplerStates \ {"unsampled"}] =
            [z \in Sides |-> braid[z].at \in SamplerStates \ {"unsampled"}]
      <4>1. ~ OffersIn(t) /\ ~ OffersIn(x)
        BY <1>8, <2>3 DEF OffersIn, Turned, SamplerStates
      <4>. QED
        BY <1>1, <3>2, <4>1 DEF OffersIn
    <3>5. secrets' = secrets
      <4>1. secrets = [z \in Sides |-> secrets[z]] /\ secrets[actor] = t.auth
        BY <1>1, <2>3 DEF Frame
      <4>. QED
        BY <2>7, <4>1 DEF Moves
    <3>6. [z \in Sides |-> braid[z].epoch][side] = [z \in Sides |-> braid[z].epoch][actor] + 1
      BY <1>1, <2>1
    <3>. QED
      BY <3>1, <3>3, <3>4, <3>5, <3>6 DEF EA!Follow
  <2>. QED
    BY <1>1, <2>7, <2>12, <2>13, StepOfAgreement, MoveKeeps
<1>. QED
  BY <1>2, <1>3, <1>4, <1>5, <1>6, <1>7, <1>8 DEF Made

-----------------------------------------------------------------------------
LEMMA InitHolds == Init => IInv /\ EA!EpochInit
<1>. SUFFICES ASSUME Init  PROVE IInv /\ EA!EpochInit
  OBVIOUS
<1>1. PICK i, r : i = startInitiator /\ r = startResponder
  OBVIOUS
<1>2. /\ i = [at |-> "unsampled", epoch |-> 1, auth |-> <<>>, key |-> 0, rand |-> 0, next |-> 0,
              in |-> {}]
      /\ r = [at |-> "waiting", epoch |-> 1, auth |-> <<>>, key |-> 0, rand |-> 0, next |-> 0,
              in |-> {}]
  BY <1>1 DEF startInitiator, startResponder, State
<1>3. /\ braid = [side \in Sides |-> IF side = Initiator THEN i ELSE r]
      /\ braid[Initiator] = i /\ braid[Responder] = r
      /\ Initiator \in Sides /\ Responder \in Sides
      /\ Other(Initiator) = Responder
  BY <1>1, SystemAssumption DEF Init, Sides, Other
<1>4. Frame
  BY <1>2, <1>3 DEF Init, Frame, IsState, Packets
<1>5. Counted(<<>>) /\ Len(<<>>) = 0
  BY EmptySeq DEF Counted
<1>6. Made(i, r)
  <2>1. Meets(i, r)
    BY <1>2 DEF Meets, Gathers, Drawn
  <2>. QED
    BY <1>2, <1>5, <2>1 DEF Made, Init, Drawn
<1>7. Pairs(Initiator)
  <2>1. Initiator # EA!Drawer(1)
    BY SystemAssumption DEF EA!Drawer
  <2>. QED
    BY <1>2, <1>3, <1>6, <2>1 DEF Pairs
<1>8. EA!EpochInit
  <2>1. \A z \in Sides : braid[z] = i \/ braid[z] = r
    BY <1>3
  <2>2. \A z \in Sides : braid[z].epoch = 1
    BY <1>2, <2>1
  <2>3. \A z \in Sides : braid[z].at \notin SamplerStates \ {"unsampled"}
    BY <1>2, <2>1 DEF SamplerStates
  <2>4. [z \in Sides |-> braid[z].epoch] = [z \in Sides |-> 1]
    BY <2>2
  <2>5. \A z \in Sides : (braid[z].at \in SamplerStates \ {"unsampled"}) = FALSE
    BY <2>3
  <2>6. [z \in Sides |-> braid[z].at \in SamplerStates \ {"unsampled"}] = [z \in Sides |-> FALSE]
    BY <2>5, Zenon
  <2>7. secrets = [z \in Sides |-> <<>>]
    BY DEF Init
  <2>. QED
    BY <2>4, <2>6, <2>7, SameSides DEF EA!EpochInit
<1>. QED
  BY <1>3, <1>4, <1>7, <1>8 DEF IInv

LEMMA StepKeeps == IInv /\ [Next]_vars => Keeps
<1>. SUFFICES ASSUME IInv, [Next]_vars  PROVE Keeps
  OBVIOUS
<1>1. PICK side \in Sides : Pairs(side)
  BY DEF IInv
<1>2. CASE UNCHANGED vars
  <2>1. /\ braid' = braid /\ network' = network /\ made' = made /\ secrets' = secrets
        /\ fault' = fault
    BY <1>2 DEF vars
  <2>2. Frame'
    BY <2>1 DEF IInv, Frame, Packets
  <2>3. Pairs(side)'
    BY <1>1, <2>1 DEF Pairs, Made
  <2>4. UNCHANGED EA!agreement
    BY <2>1 DEF EA!agreement
  <2>. QED
    BY <2>2, <2>3, <2>4 DEF Keeps, IInv
<1>3. ASSUME NEW actor \in Sides, Send(actor)
      PROVE  Keeps
  <2>1. actor = side \/ actor = Other(side)
    BY SidesAre
  <2>. QED
    BY <1>1, <1>3, <2>1, SamplerSendKeeps, EncapsulatorSendKeeps DEF IInv
<1>4. ASSUME NEW actor \in Sides, NEW p \in network[actor], Receive(actor, p)
      PROVE  Keeps
  <2>1. actor = side \/ actor = Other(side)
    BY SidesAre
  <2>. QED
    BY <1>1, <1>4, <2>1, SamplerReceiveKeeps, EncapsulatorReceiveKeeps DEF IInv
<1>. QED
  BY <1>2, <1>3, <1>4 DEF Next

\* The eleven states of braid.zig in pairs: what each side holds of the other's
\* keys and of the pieces is what the other's state says.
THEOREM StatesPair == Spec => []IInv
<1>1. IInv /\ [Next]_vars => IInv'
  BY StepKeeps DEF Keeps
<1>. QED
  BY <1>1, InitHolds, PTL DEF Spec

-----------------------------------------------------------------------------
(* What follows. *)

\* receive never gives a fault to a packet of the other side's send: neither
\* EpochOutOfRange, nor BadTag, nor BadData.
THEOREM NoPacketRefused == Spec => []NeverRefuses
<1>1. IInv => NeverRefuses
  BY DEF IInv, Frame, NeverRefuses
<1>. QED
  BY <1>1, StatesPair, PTL

\* The two states are of opposite roles in one epoch, or the one ahead waits for a
\* header while the other sends the capsule's second half.
THEOREM RolesAlwaysMeet == Spec => []RolesMeet
<1>1. ASSUME IInv  PROVE RolesMeet
  <2>1. PICK side \in Sides : Made(braid[side], braid[Other(side)])
    BY <1>1 DEF IInv, Pairs
  <2>2. PICK s, x : s = braid[side] /\ x = braid[Other(side)]
    OBVIOUS
  <2>3. \/ /\ s.epoch = x.epoch /\ s.at \in SamplerStates /\ s.at \notin EncapsulatorStates
           /\ x.at \in EncapsulatorStates /\ x.at \notin SamplerStates
        \/ s.epoch = x.epoch + 1 /\ s.at = "waiting" /\ x.at = "second_out"
    BY <2>1, <2>2 DEF Made, Meets, Turned, Drawn, SamplerStates, EncapsulatorStates
  <2>4. \/ s = braid[Initiator] /\ x = braid[Responder]
        \/ s = braid[Responder] /\ x = braid[Initiator]
    BY <2>2, SystemAssumption DEF Sides, Other
  <2>. QED
    BY <2>3, <2>4 DEF RolesMeet
<1>. QED
  BY <1>1, StatesPair, PTL

-----------------------------------------------------------------------------
(* A Gather is never full. *)

\* What a state has gathered is less than it needs, and only a state that gathers
\* has pieces.
Lacks(b) ==
  /\ IsFiniteSet(b.in)
  /\ b.in # {} => b.at \in DOMAIN Gathered /\ Cardinality(b.in) < Need[Gathered[b.at]]

LEMMA NeedIs == \A kind \in Kinds : Need[kind] \in Nat /\ 1 < Need[kind]
<1>1. /\ Need \in [Kinds -> Nat \ {0, 1}]
  BY BraidAssumption
<1>. QED
  BY <1>1

LEMMA AddIsFinite ==
  ASSUME NEW in, NEW p, IsFiniteSet(in)
  PROVE  /\ IsFiniteSet(Add(in, p)) /\ Cardinality(Add(in, p)) \in Nat
         /\ IsFiniteSet(Add({}, p)) /\ Cardinality(Add({}, p)) = 1
<1>1. IsFiniteSet(Add(in, p))
  BY FS_AddElement DEF Add
<1>2. Add({}, p) = {[index |-> p.index, of |-> p.of]}
  BY DEF Add
<1>3. Cardinality(Add(in, p)) \in Nat
  BY <1>1, FS_CardinalityType
<1>4. \A piece : IsFiniteSet({piece}) /\ Cardinality({piece}) = 1
  BY FS_Singleton
<1>. QED
  BY <1>1, <1>2, <1>3, <1>4

\* A state with a piece more, or one with nothing yet but this piece.
LEMMA GathersOn ==
  ASSUME NEW b, NEW c, NEW p, Lacks(b), NEW kind \in Kinds,
         c.at \in DOMAIN Gathered, Gathered[c.at] = kind,
         \/ c.in = Add(b.in, p) /\ ~ Complete(Add(b.in, p), kind)
         \/ c.in = Add({}, p)
  PROVE  Lacks(c)
<1>1. /\ IsFiniteSet(Add(b.in, p)) /\ Cardinality(Add(b.in, p)) \in Nat
      /\ IsFiniteSet(Add({}, p)) /\ Cardinality(Add({}, p)) = 1
  BY AddIsFinite DEF Lacks
<1>2. Need[kind] \in Nat /\ 1 < Need[kind]
  BY NeedIs
<1>3. CASE c.in = Add(b.in, p) /\ ~ Complete(Add(b.in, p), kind)
  <2>1. Cardinality(c.in) < Need[kind]
    BY <1>1, <1>2, <1>3 DEF Complete
  <2>. QED
    BY <1>1, <1>3, <2>1 DEF Lacks
<1>4. CASE c.in = Add({}, p)
  BY <1>1, <1>2, <1>4 DEF Lacks
<1>. QED
  BY <1>3, <1>4

LEMMA EmptyLacks == ASSUME NEW b, b.in = {}  PROVE Lacks(b)
BY FS_EmptySet DEF Lacks

States == SamplerStates \cup EncapsulatorStates

LEMMA SendLacks ==
  ASSUME NEW b, NEW fresh, NEW t, IsState(b), b.at \in States, Lacks(b),
         t = Sent(b, fresh).braid
  PROVE  Lacks(t)
<1>1. CASE b.at \in {"unsampled", "header_in"}
  <2>1. b.in = {}
    BY <1>1 DEF Lacks, Gathered
  <2>2. PICK step : step = Sent(b, fresh)
    OBVIOUS
  <2>3. ASSUME b.at = "unsampled"  PROVE t.in = {}
    <3>1. step.braid = [at |-> "sampled", epoch |-> b.epoch, auth |-> b.auth, key |-> fresh,
                        rand |-> b.rand, next |-> step.braid.next, in |-> b.in]
      BY <2>2, <2>3, SamplerMakes
    <3>. QED
      BY <2>1, <2>2, <3>1
  <2>4. ASSUME b.at = "header_in"  PROVE t.in = {}
    <3>1. step.braid = [at |-> "first_out", epoch |-> b.epoch,
                        auth |-> Append(b.auth, Secret(b.epoch, b.key, fresh)), key |-> b.key,
                        rand |-> fresh, next |-> step.braid.next, in |-> b.in]
      BY <2>2, <2>4, EncapsulatorDraws
    <3>. QED
      BY <2>1, <2>2, <3>1
  <2>5. t.in = {}
    BY <1>1, <2>2, <2>3, <2>4
  <2>. QED
    BY <2>5, EmptyLacks
<1>2. CASE b.at \notin {"unsampled", "header_in"}
  <2>1. t = [b EXCEPT !.next = t.next]
    BY <1>2, SamplerSpreads, EncapsulatorSpreads DEF States, Spreads
  <2>2. t = [at |-> b.at, epoch |-> b.epoch, auth |-> b.auth, key |-> b.key,
             rand |-> b.rand, next |-> t.next, in |-> b.in]
    BY <2>1 DEF IsState
  <2>3. t.at = b.at /\ t.in = b.in
    BY <2>2
  <2>. QED
    BY <2>3 DEF Lacks
<1>. QED
  BY <1>1, <1>2

\* The states that gather.
LEMMA GathererLacks ==
  ASSUME NEW b, NEW p, NEW t, IsState(b), Lacks(b), t = Fed(b, p).braid,
         b.at \in {"waiting", "header_out", "encap_out_first_in", "first_out", "first_acked"}
  PROVE  Lacks(t)
<1>1. PICK in : in = Add(b.in, p)
  OBVIOUS
<1>2. PICK kind \in Kinds : kind = Gathered[b.at]
  BY DEF Gathered, Kinds
<1>3. \/ t = b \/ t.in = {}
      \/ /\ t.in = in /\ ~ Complete(in, kind)
         /\ t.at \in DOMAIN Gathered /\ Gathered[t.at] = kind
  <2>1. CASE b.at = "waiting"
    <3>1. Fed(b, p) = InWaiting(b, p) /\ kind = "header"
      BY <1>2, <2>1 DEF Fed, Gathered
    <3>2. \/ t = b
          \/ t = [b EXCEPT !.in = in] /\ ~ Complete(in, "header")
          \/ t = [State("header_in", b.epoch, b.auth) EXCEPT !.key = Whole(in).key]
      BY <1>1, <3>1 DEF InWaiting, Becomes, Refuses
    <3>3. \/ t = b \/ t.in = {}
          \/ t.in = in /\ t.at = b.at /\ ~ Complete(in, "header")
      BY <3>2 DEF IsState, State
    <3>. QED
      BY <2>1, <3>1, <3>3 DEF Gathered
  <2>2. CASE b.at = "header_out"
    <3>1. Fed(b, p) = InHeaderOut(b, p) /\ kind = "first"
      BY <1>2, <2>2 DEF Fed, Gathered
    <3>2. \/ t = b
          \/ t = [b EXCEPT !.in = in] /\ ~ Complete(in, "first")
          \/ t = [b EXCEPT !.at = "first_in", !.rand = Whole(in).rand, !.in = {}]
      BY <1>1, <3>1 DEF InHeaderOut, Becomes
    <3>3. \/ t = b \/ t.in = {}
          \/ t.in = in /\ t.at = b.at /\ ~ Complete(in, "first")
      BY <3>2 DEF IsState
    <3>. QED
      BY <2>2, <3>1, <3>3 DEF Gathered
  <2>3. CASE b.at = "encap_out_first_in"
    <3>1. Fed(b, p) = InEncapOutFirstIn(b, p) /\ kind = "second"
      BY <1>2, <2>3 DEF Fed, Gathered
    <3>2. PICK secret, auth : /\ secret = Secret(b.epoch, b.key, b.rand)
                              /\ auth = Append(b.auth, secret)
      OBVIOUS
    <3>3. \/ t = b
          \/ t = [b EXCEPT !.in = in] /\ ~ Complete(in, "second")
          \/ t = [Becomes(State("waiting", b.epoch + 1, auth)) EXCEPT !.secret = secret].braid
      BY <1>1, <3>1, <3>2 DEF InEncapOutFirstIn, Becomes, Refuses
    <3>4. \/ t = b \/ t.in = {}
          \/ t.in = in /\ t.at = b.at /\ ~ Complete(in, "second")
      BY <3>3 DEF IsState, State, Becomes
    <3>. QED
      BY <2>3, <3>1, <3>4 DEF Gathered
  <2>4. CASE b.at = "first_out"
    <3>1. Fed(b, p) = InFirstOut(b, p) /\ kind = "encap"
      BY <1>2, <2>4 DEF Fed, Gathered
    <3>2. PICK at, next : /\ at = IF p.kind = "encap_and_ack" THEN "first_acked" ELSE b.at
                          /\ next = IF p.kind = "encap_and_ack" THEN 0 ELSE b.next
      OBVIOUS
    <3>3. \/ t = b
          \/ t = [b EXCEPT !.in = in, !.at = at, !.next = next] /\ ~ Complete(in, "encap")
          \/ t = [b EXCEPT !.at = "second_out", !.next = 0, !.in = {}]
          \/ t = [b EXCEPT !.at = "encap_in_first_out", !.in = {}]
      BY <1>1, <3>1, <3>2 DEF InFirstOut, SecondOut, Becomes, Refuses, IsState
    <3>4. \/ t = b \/ t.in = {}
          \/ t.in = in /\ t.at = at /\ ~ Complete(in, "encap")
      BY <3>3 DEF IsState
    <3>. QED
      BY <2>4, <3>1, <3>2, <3>4 DEF Gathered
  <2>5. CASE b.at = "first_acked"
    <3>1. Fed(b, p) = InFirstAcked(b, p) /\ kind = "encap"
      BY <1>2, <2>5 DEF Fed, Gathered
    <3>2. \/ t = b
          \/ t = [b EXCEPT !.in = in] /\ ~ Complete(in, "encap")
          \/ t = [b EXCEPT !.at = "second_out", !.next = 0, !.in = {}]
      BY <1>1, <3>1 DEF InFirstAcked, SecondOut, Becomes, Refuses
    <3>3. \/ t = b \/ t.in = {}
          \/ t.in = in /\ t.at = b.at /\ ~ Complete(in, "encap")
      BY <3>2 DEF IsState
    <3>. QED
      BY <2>5, <3>1, <3>3 DEF Gathered
  <2>. QED
    BY <2>1, <2>2, <2>3, <2>4, <2>5
<1>. QED
  BY <1>1, <1>2, <1>3, EmptyLacks, GathersOn

LEMMA FedLacks ==
  ASSUME NEW b, NEW p, NEW t, IsState(b), b.at \in States, Lacks(b), t = Fed(b, p).braid
  PROVE  Lacks(t)
<1>1. CASE b.at \in {"waiting", "header_out", "encap_out_first_in", "first_out", "first_acked"}
  BY <1>1, GathererLacks
<1>2. CASE b.at \in {"sampled", "first_in"}
  <2>1. PICK at : at = IF b.at = "sampled" THEN "header_out" ELSE "encap_out_first_in"
    OBVIOUS
  <2>2. \/ t = b \/ t = [b EXCEPT !.at = at, !.next = 0, !.in = Add({}, p)]
    BY <1>2, <2>1 DEF Fed, InSampled, InFirstIn, Becomes
  <2>3. \/ t = b
        \/ t.at = at /\ t.in = Add({}, p)
    BY <2>2 DEF IsState
  <2>4. at \in DOMAIN Gathered /\ Gathered[at] \in Kinds
    BY <2>1 DEF Gathered, Kinds
  <2>. QED
    BY <2>3, <2>4, GathersOn
<1>3. CASE b.at = "encap_in_first_out"
  <2>1. \/ t = b \/ t = [b EXCEPT !.at = "second_out", !.next = 0, !.in = {}]
    BY <1>3 DEF Fed, InEncapInFirstOut, SecondOut, Becomes
  <2>2. \/ t = b \/ t.in = {}
    BY <2>1 DEF IsState
  <2>. QED
    BY <2>2, EmptyLacks
<1>4. CASE b.at \in {"unsampled", "header_in", "second_out"}
  BY <1>4 DEF Fed, Becomes
<1>. QED
  BY <1>1, <1>2, <1>3, <1>4 DEF States, SamplerStates, EncapsulatorStates

LEMMA StatesOfPair == IInv => \A side \in Sides : /\ braid[side].at \in States
                                                 /\ braid[side].epoch \in Nat
<1>. SUFFICES ASSUME IInv  PROVE \A side \in Sides : /\ braid[side].at \in States
                                                      /\ braid[side].epoch \in Nat
  OBVIOUS
<1>1. PICK side \in Sides : Made(braid[side], braid[Other(side)])
  BY DEF IInv, Pairs
<1>2. PICK s, x : s = braid[side] /\ x = braid[Other(side)]
  OBVIOUS
<1>3. x.epoch \in Nat /\ (s.epoch = x.epoch \/ s.epoch = x.epoch + 1)
  BY <1>1, <1>2 DEF Made, Meets, Turned
<1>4. s.at \in States /\ x.at \in States
  BY <1>1, <1>2 DEF Made, Meets, Turned, Drawn, States, SamplerStates, EncapsulatorStates
<1>5. \A z \in Sides : braid[z] = s \/ braid[z] = x
  BY <1>2, SidesAre
<1>. QED
  BY <1>3, <1>4, <1>5

\* No Gather holds its message, over sends, receives and the turns between epochs.
THEOREM GathersLack == Spec => [](\A side \in Sides : Lacks(braid[side]))
<1>. DEFINE LInv == \A side \in Sides : Lacks(braid[side])
<1>1. Init => LInv
  BY EmptyLacks DEF Init, startInitiator, startResponder, State
<1>2. ASSUME IInv, LInv, [Next]_vars  PROVE LInv'
  <2>1. CASE UNCHANGED vars
    BY <1>2, <2>1 DEF vars, Lacks
  <2>2. ASSUME NEW side \in Sides, NEW t, Lacks(t), braid' = [braid EXCEPT ![side] = t]
        PROVE  LInv'
    <3>1. \A z \in Sides : braid'[z] = IF z = side THEN t ELSE braid[z]
      BY <1>2, <2>2 DEF IInv, Frame
    <3>. QED
      BY <1>2, <2>2, <3>1 DEF Lacks
  <2>3. ASSUME NEW side \in Sides, Send(side)
        PROVE  LInv'
    <3>1. PICK t : t = Sent(braid[side], made + 1).braid
      OBVIOUS
    <3>2. Lacks(t)
      BY <1>2, <3>1, StatesOfPair, SendLacks DEF IInv, Frame
    <3>3. braid' = [braid EXCEPT ![side] = t]
      BY <2>3, <3>1 DEF Send
    <3>. QED
      BY <2>2, <3>2, <3>3
  <2>4. ASSUME NEW side \in Sides, NEW p \in network[side], Receive(side, p)
        PROVE  LInv'
    <3>1. PICK b, t : b = braid[side] /\ t = Received(b, p).braid
      OBVIOUS
    <3>2. /\ IsState(b) /\ Lacks(b) /\ b.at \in States
          /\ b.epoch \in Nat /\ p.epoch \in Nat
      BY <1>2, <3>1, StatesOfPair DEF IInv, Frame, Packets
    <3>3. Lacks(t)
      <4>1. CASE p.epoch = b.epoch
        BY <3>1, <3>2, <4>1, OfThisEpoch, FedLacks
      <4>2. CASE p.epoch < b.epoch
        BY <3>1, <3>2, <4>2, LateIsIgnored DEF Becomes
      <4>3. CASE p.epoch > b.epoch
        <5>1. Received(b, p) = AheadOf(b, p)
          BY <3>2, <4>3 DEF Received
        <5>2. t = b \/ t = State("unsampled", b.epoch + 1, b.auth)
          BY <3>1, <5>1 DEF AheadOf, Becomes, Refuses
        <5>3. t = b \/ t.in = {}
          BY <5>2 DEF State
        <5>. QED
          BY <3>2, <5>3, EmptyLacks
      <4>. QED
        BY <3>2, <4>1, <4>2, <4>3
    <3>4. braid' = [braid EXCEPT ![side] = t]
      BY <2>4, <3>1 DEF Receive
    <3>. QED
      BY <2>2, <3>3, <3>4
  <2>. QED
    BY <1>2, <2>1, <2>3, <2>4 DEF Next
<1>3. IInv /\ LInv /\ [Next]_vars => LInv'
  BY <1>2
<1>. QED
  BY <1>1, <1>3, StatesPair, PTL DEF Spec

\* A Gather holds pieces of one message, and fewer than rebuild it: what an earlier
\* epoch or message left is gone by the time the next one's come.
THEOREM OneMessageGathered == Spec => []GathersOneMessage
<1>1. ASSUME IInv, \A side \in Sides : Lacks(braid[side])  PROVE GathersOneMessage
  <2>1. PICK side \in Sides : Made(braid[side], braid[Other(side)])
    BY <1>1 DEF IInv, Pairs
  <2>2. PICK s, x : s = braid[side] /\ x = braid[Other(side)]
    OBVIOUS
  <2>3. Meets(s, x) \/ Turned(s, x)
    BY <2>1, <2>2 DEF Made
  <2>4. \/ s.in = {}
        \/ s.key = x.key /\ (Gathers(s, FirstOf(x)) \/ Gathers(s, SecondOf(x)))
    BY <2>3 DEF Meets, Turned, Drawn
  <2>5. \/ x.in = {}
        \/ x.key = 0 /\ Gathers(x, HeaderOf(s))
        \/ x.key = s.key /\ Gathers(x, KeyOf(s))
    BY <2>3 DEF Meets, Turned, Drawn
  <2>6. /\ \A q, r \in s.in : q.of = r.of
        /\ \A q \in s.in : s.key # 0 => q.of.key = s.key
    BY <2>4 DEF Gathers, FirstOf, SecondOf, Tagged, Untagged
  <2>7. /\ \A q, r \in x.in : q.of = r.of
        /\ \A q \in x.in : x.key # 0 => q.of.key = x.key
    BY <2>5 DEF Gathers, HeaderOf, KeyOf, Tagged, Untagged
  <2>8. \A z \in Sides : braid[z] = s \/ braid[z] = x
    BY <2>2, SidesAre
  <2>9. \A z \in Sides :
          /\ \A q, r \in braid[z].in : q.of = r.of
          /\ \A q \in braid[z].in : braid[z].key # 0 => q.of.key = braid[z].key
    BY <2>6, <2>7, <2>8
  <2>. QED
    BY <1>1, <2>9 DEF GathersOneMessage, Lacks
<1>. QED
  BY <1>1, StatesPair, GathersLack, PTL

\* Two sides that run braid.zig come, epoch after epoch, to hold the same secret,
\* in turn drawn by one and learnt by the other.
THEOREM BraidAgrees == Spec => AgreesOnEpochs
<1>1. IInv /\ [Next]_vars => [EA!EpochNext]_(EA!agreement)
  BY StepKeeps DEF Keeps
<1>. QED
  BY <1>1, InitHolds, StatesPair, PTL DEF Spec, AgreesOnEpochs, EA!EpochSpec
=============================================================================
