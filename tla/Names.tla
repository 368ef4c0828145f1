-------------------------------- MODULE Names --------------------------------
(***************************************************************************)
(* Names of accounts and devices (sdk/ts api.ts and uuid.ts, and what        *)
(* core/ident/service.zig makes of them).  An address is a name and a device *)
(* number, and the stores know it by that text; when the name is a service   *)
(* id, an envelope knows it by the account's bytes.  One account has many    *)
(* texts: hyphens and the case of the digits do not matter to the parser.    *)
(***************************************************************************)
EXTENDS Integers

CONSTANT Word   \* what a device number is taken modulo: 2^32

ASSUME NamesAssumption == Word \in Nat \ {0}

NoUuid == "none"
NoService == [kind |-> "none", rawUuid |-> NoUuid]

\* A text by what it begins with, the digits of a uuid that follow, if they are
\* that, and how those are written.
Text(prefix, uuid, spelling) == [prefix |-> prefix, uuid |-> uuid, spelling |-> spelling]

\* Hyphens are dropped wherever they are and a digit's case is not looked at.
uuidToBytes(text) == IF text.prefix = "" THEN text.uuid ELSE NoUuid

bytesToUuid(uuid) == Text("", uuid, "hyphens, lower case")

\* "PNI:" in this case only; whatever else is not a uuid is refused.
parseFromServiceIdString(text) ==
  LET pni == text.prefix = "PNI:"
      uuid == uuidToBytes(IF pni THEN [text EXCEPT !.prefix = ""] ELSE text)
  IN  IF uuid = NoUuid THEN NoService
      ELSE [kind |-> IF pni THEN "Pni" ELSE "Aci", rawUuid |-> uuid]

getServiceIdString(s) ==
  [bytesToUuid(s.rawUuid) EXCEPT !.prefix = IF s.kind = "Pni" THEN "PNI:" ELSE ""]

getServiceIdFixedWidthBinary(s) == <<IF s.kind = "Pni" THEN 1 ELSE 0, s.rawUuid>>

fromFixed(b) == [kind |-> IF b[1] = 1 THEN "Pni" ELSE "Aci", rawUuid |-> b[2]]

\* The constructor refuses the number zero and then takes it modulo the word.
ProtocolAddress(name, deviceId) == [name |-> name, deviceId |-> deviceId % Word]

\* The account an address is a device of, NoService when its name is none.
serviceId(address) == parseFromServiceIdString(address.name)
=============================================================================
