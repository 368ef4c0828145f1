-------------------------------- MODULE Many --------------------------------
(***************************************************************************)
(* The many-recipient envelope (core/envelope/multiseal.zig, and the blobs  *)
(* between sdk/ts api.ts and abi/gossveil.zig): one buffer lists, one after *)
(* another, recipients with their devices and the part sealed for them, and *)
(* excluded ones with no device; a server takes it apart again.             *)
(***************************************************************************)
EXTENDS Names, Sequences, FiniteSets, SequencesExt

CONSTANT Byte   \* what a byte holds: 256

ASSUME ManyAssumption == Byte \in Nat \ {0}

\* A device whose number is no byte is refused before the blob is made.
Listable(list) ==
  \A i \in DOMAIN list : \A d \in ToSet(list[i].devices) : d.device < Byte

\* Uint8Array.from: a count in the blob is taken modulo its byte.  What follows
\* the recipients that are counted is not looked at.  The counts of a recipient's
\* devices and of the excluded ids are taken the same way; here they fit.
Counted(list) == SubSeq(list, 1, Len(list) % Byte)

-----------------------------------------------------------------------------
(* What the buffer is made of. *)

Id(service) == [is |-> "id", bytes |-> getServiceIdFixedWidthBinary(service)]
DeviceOf(d, more) == [is |-> "device", device |-> d.device, reg |-> d.reg, more |-> more]
NoDevice == [is |-> "none"]
Part(key) == [is |-> "part", key |-> key]
NoPart == 0   \* no key is 0

\* Mutant of DeviceTokens: the mark that another follows is on every device.
DeviceTokensAllMarked(devices) == [i \in DOMAIN devices |-> DeviceOf(devices[i], TRUE)]

\* A device's registration id has a bit that says another follows.
DeviceTokens(devices) ==
  [i \in DOMAIN devices |-> DeviceOf(devices[i], i < Len(devices))]

RecipientTokens(r) == <<Id(r.service)>> \o DeviceTokens(r.devices) \o <<Part(r.key)>>

ExcludedTokens(service) == <<Id(service), NoDevice>>

\* sealForMany refuses a recipient without a device, and a device numbered zero.
Sealable(list) ==
  \A i \in DOMAIN list : list[i].devices # <<>> /\ \A d \in ToSet(list[i].devices) : d.device # 0

SealForMany(list, excluded) ==
  [count |-> Len(list) + Len(excluded),
   tokens |-> FlattenSeq([i \in DOMAIN list |-> RecipientTokens(list[i])]
                \o [i \in DOMAIN excluded |-> ExcludedTokens(excluded[i])])]

-----------------------------------------------------------------------------
(* parseSent. *)

Found(at, recipients) == [at |-> at, recipients |-> recipients]
Bad == Found("bad", <<>>)

WithLast(recipients, r) == [recipients EXCEPT ![Len(recipients)] = r]

\* One token of the buffer: an id opens a recipient, its devices follow until
\* one is the last or there is none, and a recipient with devices has a part.
ParseToken(found, token) ==
  LET rs == found.recipients IN
  CASE found.at = "id" /\ token.is = "id" ->
         Found("device", Append(rs, [service |-> fromFixed(token.bytes), devices |-> <<>>, key |-> NoPart]))
    [] found.at = "device" /\ token.is = "none" /\ Last(rs).devices = <<>> -> Found("id", rs)
    [] found.at = "device" /\ token.is = "device" ->
         Found(IF token.more THEN "device" ELSE "part",
               WithLast(rs, [Last(rs) EXCEPT !.devices =
                               Append(@, [device |-> token.device, reg |-> token.reg])]))
    [] found.at = "part" /\ token.is = "part" ->
         Found("id", WithLast(rs, [Last(rs) EXCEPT !.key = token.key]))
    [] OTHER -> Bad

\* What is found when so many tokens are read.
Reading(tokens) ==
  LET read[i \in 0..Len(tokens)] ==
        IF i = 0 THEN Found("id", <<>>) ELSE ParseToken(read[i - 1], tokens[i])
  IN  read

\* The recipients of a buffer; none when it is not one.
ParseSent(sent) ==
  LET found == Reading(sent.tokens)[Len(sent.tokens)] IN
  IF found.at = "id" /\ Len(found.recipients) = sent.count THEN found.recipients ELSE <<>>

-----------------------------------------------------------------------------
\* forRecipient: the part of the first recipient with this id and device, or a fault.
\* The device is a number that fits its byte (gossveil.zig:972).
ForRecipient(sent, service, device) ==
  LET rs == ParseSent(sent)
      its == {i \in DOMAIN rs : /\ rs[i].service = service
                                /\ \E d \in ToSet(rs[i].devices) : d.device = device}
  IN  IF its = {} THEN NoPart
      ELSE rs[CHOOSE i \in its : \A j \in its : i <= j].key

\* forSingle: the part of the only recipient that has devices, or a fault.
ForSingle(sent) ==
  LET rs == ParseSent(sent)
      listed == {i \in DOMAIN rs : rs[i].devices # <<>>}
  IN  IF Cardinality(listed) = 1 THEN rs[CHOOSE i \in listed : TRUE].key ELSE NoPart
=============================================================================
