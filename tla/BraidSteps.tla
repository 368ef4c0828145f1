----------------------------- MODULE BraidSteps -----------------------------
(***************************************************************************)
(* The braid's eleven states and what send and receive do in each           *)
(* (core/ratchet/pq/braid.zig), as functions from a state to a step.        *)
(*                                                                         *)
(* A side that samples runs unsampled, sampled, header_out, first_in,       *)
(* encap_out_first_in; a side that encapsulates runs waiting, header_in,    *)
(* first_out, then encap_in_first_out or first_acked or neither, and        *)
(* second_out.  At the end of an epoch each side takes the other's role.    *)
(*                                                                         *)
(* Key material is symbolic: a key pair and a capsule's randomness are      *)
(* serial numbers, fresh when made.  An authenticator is the sequence of    *)
(* the secrets it was advanced by.  A message is spread over pieces whose   *)
(* 16-bit index wraps; any Need[kind] different pieces rebuild it.          *)
(***************************************************************************)
EXTENDS Integers, FiniteSets, Sequences

CONSTANTS
  Need,     \* pieces that rebuild a header, encap, first or second message
  Wrap      \* values of a piece's index, 65536 in the code

Kinds == {"header", "encap", "first", "second"}

ASSUME BraidAssumption ==
  /\ Need \in [Kinds -> Nat \ {0, 1}]
  /\ Wrap \in Nat
  /\ \A kind \in Kinds : Need[kind] <= Wrap

SamplerStates == {"unsampled", "sampled", "header_out", "first_in", "encap_out_first_in"}
EncapsulatorStates ==
  {"waiting", "header_in", "first_out", "encap_in_first_out", "first_acked", "second_out"}

NoSecret == [epoch |-> 0, key |-> 0, rand |-> 0]
Secret(epoch, key, rand) == [epoch |-> epoch, key |-> key, rand |-> rand]

\* A message under way: whose key pair and which capsule it is about, and the
\* authenticator and epoch of its tag, when it has one.
Untagged(key, rand) == [key |-> key, rand |-> rand, auth |-> <<>>, epoch |-> 0]
Tagged(key, rand, auth, epoch) == [key |-> key, rand |-> rand, auth |-> auth, epoch |-> epoch]
Garbage == Untagged(0, 0)

\* A state.  `key` and `rand` are what it knows of the key pair and the
\* capsule, `next` is its Spread's next piece and `in` its Gather.
State(at, epoch, auth) ==
  [at |-> at, epoch |-> epoch, auth |-> auth, key |-> 0, rand |-> 0,
   next |-> 0, in |-> {}]

startInitiator == State("unsampled", 1, <<>>)
startResponder == State("waiting", 1, <<>>)

-----------------------------------------------------------------------------
(* Pieces (code.zig).                                                        *)

\* Gather.add: a piece of an index that is there already changes nothing.
Add(in, p) ==
  IF \E q \in in : q.index = p.index THEN in
  ELSE in \cup {[index |-> p.index, of |-> p.of]}

\* Mutant of Complete: one piece more than are needed.
CompleteLate(in, kind) == Cardinality(in) > Need[kind]

Complete(in, kind) == Cardinality(in) >= Need[kind]

\* Gather.message: pieces of different messages rebuild neither.
Whole(in) ==
  IF \A q, r \in in : q.of = r.of THEN (CHOOSE q \in in : TRUE).of ELSE Garbage

-----------------------------------------------------------------------------
(* send.  A step is the packet, the state after it and the epoch's secret,   *)
(* when this step makes it.                                                  *)

\* A packet without a piece.
Bare(b, kind) ==
  [packet |-> [epoch |-> b.epoch, kind |-> kind, index |-> 0, of |-> Garbage],
   braid |-> b, secret |-> NoSecret]

\* Spread.nextPiece: one more piece of the message this state spreads.
Spread(b, kind, of) ==
  [packet |-> [epoch |-> b.epoch, kind |-> kind, index |-> b.next, of |-> of],
   braid |-> [b EXCEPT !.next = (@ + 1) % Wrap], secret |-> NoSecret]

SpreadHeader(b) == Spread(b, "header", Tagged(b.key, 0, b.auth, b.epoch))

SendUnsampled(b, fresh) == SpreadHeader([b EXCEPT !.at = "sampled", !.key = fresh])

\* Mutants of SendHeaderIn: the secret does not reach the authenticator; the
\* state stays, and the next send draws again.
SendHeaderInUnvouched(b, fresh) ==
  LET after == [b EXCEPT !.at = "first_out", !.rand = fresh, !.next = 0]
  IN  [Spread(after, "first", Untagged(b.key, fresh)) EXCEPT
         !.secret = Secret(b.epoch, b.key, fresh)]
SendHeaderInAgain(b, fresh) ==
  [Spread(b, "first", Untagged(b.key, fresh)) EXCEPT !.secret = Secret(b.epoch, b.key, fresh)]

\* The encapsulator draws the secret, and vouches with it from here on.
SendHeaderIn(b, fresh) ==
  LET secret == Secret(b.epoch, b.key, fresh)
      after == [b EXCEPT !.at = "first_out", !.rand = fresh,
                         !.auth = Append(@, secret), !.next = 0]
  IN  [Spread(after, "first", Untagged(b.key, fresh)) EXCEPT !.secret = secret]

\* Mutant of SendFirstIn: only the acknowledgement, the key no longer.
SendFirstInAck(b) == Bare(b, "ack")

\* The whole first half is here: what is left of the encapsulation key carries
\* the acknowledgement.
SendFirstIn(b) == Spread(b, "encap_and_ack", Untagged(b.key, 0))

Sent(b, fresh) ==
  CASE b.at = "unsampled"          -> SendUnsampled(b, fresh)
    [] b.at = "sampled"            -> SpreadHeader(b)
    [] b.at = "header_out"         -> Spread(b, "encap", Untagged(b.key, 0))
    [] b.at = "first_in"           -> SendFirstIn(b)
    [] b.at = "encap_out_first_in" -> Bare(b, "ack")
    [] b.at = "waiting"            -> Bare(b, "empty")
    [] b.at = "header_in"          -> SendHeaderIn(b, fresh)
    [] b.at = "first_out"          -> Spread(b, "first", Untagged(b.key, b.rand))
    [] b.at = "encap_in_first_out" -> Spread(b, "first", Untagged(b.key, b.rand))
    [] b.at = "first_acked"        -> Bare(b, "empty")
    [] b.at = "second_out"         -> Spread(b, "second", Tagged(b.key, b.rand, b.auth, b.epoch))

\* The states whose send makes a key pair or draws a secret.
MakesFresh(b) == b.at \in {"unsampled", "header_in"}

-----------------------------------------------------------------------------
(* receive.  A step is the state after the packet, the epoch's secret when   *)
(* the packet completes it, and the fault when it is refused.                *)

Becomes(b) == [braid |-> b, secret |-> NoSecret, fault |-> "none"]
Refuses(b, fault) == [braid |-> b, secret |-> NoSecret, fault |-> fault]

\* Ahead of this side: only the next epoch, and only once the second half of
\* the capsule is on its way, which is how its arrival is acknowledged.
AheadOf(b, p) ==
  IF b.at = "second_out" /\ p.epoch = b.epoch + 1
  THEN Becomes(State("unsampled", b.epoch + 1, b.auth))
  ELSE Refuses(b, "EpochOutOfRange")

\* The first piece of the first half acknowledges the header.
InSampled(b, p) ==
  IF p.kind # "first" THEN Becomes(b)
  ELSE Becomes([b EXCEPT !.at = "header_out", !.next = 0, !.in = Add({}, p)])

InHeaderOut(b, p) ==
  LET in == Add(b.in, p) IN
  IF p.kind # "first" THEN Becomes(b)
  ELSE IF ~ Complete(in, "first") THEN Becomes([b EXCEPT !.in = in])
  ELSE Becomes([b EXCEPT !.at = "first_in", !.rand = Whole(in).rand, !.in = {}])

\* A piece of the second half acknowledges the encapsulation key.
InFirstIn(b, p) ==
  IF p.kind # "second" THEN Becomes(b)
  ELSE Becomes([b EXCEPT !.at = "encap_out_first_in", !.next = 0, !.in = Add({}, p)])

\* Mutant of InEncapOutFirstIn: the roles stay.
InEncapOutFirstInSameRole(b, p) ==
  LET in == Add(b.in, p)
      secret == Secret(b.epoch, b.key, b.rand)
  IN
  IF p.kind # "second" THEN Becomes(b)
  ELSE IF ~ Complete(in, "second") THEN Becomes([b EXCEPT !.in = in])
  ELSE [Becomes(State("unsampled", b.epoch + 1, Append(b.auth, secret))) EXCEPT
          !.secret = secret]

\* The capsule is whole: it opens under this side's key pair, its tag is
\* checked under the secret it gives, and the roles turn.
InEncapOutFirstIn(b, p) ==
  LET in == Add(b.in, p)
      whole == Whole(in)
      secret == Secret(b.epoch, b.key, b.rand)
      auth == Append(b.auth, secret)
  IN
  IF p.kind # "second" THEN Becomes(b)
  ELSE IF ~ Complete(in, "second") THEN Becomes([b EXCEPT !.in = in])
  ELSE IF whole # Tagged(b.key, b.rand, auth, b.epoch) THEN Refuses(b, "BadTag")
  ELSE [Becomes(State("waiting", b.epoch + 1, auth)) EXCEPT !.secret = secret]

InWaiting(b, p) ==
  LET in == Add(b.in, p)
      whole == Whole(in)
  IN
  IF p.kind # "header" THEN Becomes(b)
  ELSE IF ~ Complete(in, "header") THEN Becomes([b EXCEPT !.in = in])
  ELSE IF whole # Tagged(whole.key, 0, b.auth, b.epoch) THEN Refuses(b, "BadTag")
  ELSE Becomes([State("header_in", b.epoch, b.auth) EXCEPT !.key = whole.key])

\* The capsule's second half is made from the whole encapsulation key.
SecondOut(b) == Becomes([b EXCEPT !.at = "second_out", !.next = 0, !.in = {}])

Encaps == {"encap", "encap_and_ack"}

InFirstOut(b, p) ==
  LET in == Add(b.in, p)
      acked == p.kind = "encap_and_ack"
  IN
  IF p.kind \notin Encaps THEN Becomes(b)
  ELSE IF ~ Complete(in, "encap")
       THEN Becomes([b EXCEPT !.in = in, !.at = IF acked THEN "first_acked" ELSE @,
                              !.next = IF acked THEN 0 ELSE @])
  ELSE IF Whole(in).key # b.key THEN Refuses(b, "BadData")
  ELSE IF acked THEN SecondOut(b)
  ELSE Becomes([b EXCEPT !.at = "encap_in_first_out", !.in = {}])

InEncapInFirstOut(b, p) ==
  IF p.kind \in {"ack", "encap_and_ack"} THEN SecondOut(b) ELSE Becomes(b)

InFirstAcked(b, p) ==
  LET in == Add(b.in, p) IN
  IF p.kind \notin Encaps THEN Becomes(b)
  ELSE IF ~ Complete(in, "encap") THEN Becomes([b EXCEPT !.in = in])
  ELSE IF Whole(in).key # b.key THEN Refuses(b, "BadData")
  ELSE SecondOut(b)

\* What each state makes of a packet of its own epoch.
Fed(b, p) ==
  CASE b.at = "sampled"            -> InSampled(b, p)
    [] b.at = "header_out"         -> InHeaderOut(b, p)
    [] b.at = "first_in"           -> InFirstIn(b, p)
    [] b.at = "encap_out_first_in" -> InEncapOutFirstIn(b, p)
    [] b.at = "waiting"            -> InWaiting(b, p)
    [] b.at = "first_out"          -> InFirstOut(b, p)
    [] b.at = "encap_in_first_out" -> InEncapInFirstOut(b, p)
    [] b.at = "first_acked"        -> InFirstAcked(b, p)
    [] b.at \in {"unsampled", "header_in", "second_out"} -> Becomes(b)

\* Mutant of Received: a packet of an earlier epoch is taken as one of this.
ReceivedLate(b, p) == IF p.epoch > b.epoch THEN AheadOf(b, p) ELSE Fed(b, p)

Received(b, p) ==
  CASE p.epoch > b.epoch -> AheadOf(b, p)
    [] p.epoch < b.epoch -> Becomes(b)
    [] p.epoch = b.epoch -> Fed(b, p)
=============================================================================
