---------------------------- MODULE SeamNumbers ----------------------------
(***************************************************************************)
(* The numbers that cross the seam of the TypeScript package: a status, a   *)
(* kind of message, a key's scheme, a content hint, a kind of service id.   *)
(* The wrapper and the core each keep a list of them by hand, under names   *)
(* of their own.                                                            *)
(***************************************************************************)
EXTENDS Integers, TLC

(* core.ts: the statuses, and the kind of error that each becomes. *)

Status ==
  [ok |-> 0, invalidArgument |-> 1, invalidState |-> 2, invalidKey |-> 3,
   invalidSignature |-> 4, invalidMessage |-> 5, invalidKeyId |-> 6,
   untrustedIdentity |-> 7, sessionNotFound |-> 8, duplicateMessage |-> 9,
   legacyVersion |-> 10, unrecognizedVersion |-> 11, outOfMemory |-> 12,
   verificationFailed |-> 13, internal |-> 14]

kinds ==
  <<"InvalidArgument", "InvalidState", "InvalidKey", "InvalidSignature", "InvalidMessage",
    "InvalidKeyIdentifier", "UntrustedIdentity", "SessionNotFound", "DuplicatedMessage",
    "LegacyCiphertextVersion", "UnrecognizedMessageVersion", "OutOfMemory",
    "VerificationFailed", "InternalError">>

GossveilError(status) ==
  [status |-> status, kind |-> IF status \in DOMAIN kinds THEN kinds[status] ELSE "InternalError"]

\* What the wrapper throws of its own, and what it throws of a call's status.
fault(kind) == GossveilError(Status[kind])
check(status) == IF status = 0 THEN {} ELSE {GossveilError(status)}

\* abi/gossveil.zig.
GvStatus ==
  [ok |-> 0, bad_argument |-> 1, bad_state |-> 2, bad_key |-> 3, bad_signature |-> 4,
   bad_message |-> 5, unknown_key_id |-> 6, untrusted_identity |-> 7, no_session |-> 8,
   replay |-> 9, legacy_version |-> 10, unknown_version |-> 11, out_of_memory |-> 12,
   verify_failed |-> 13, internal |-> 14]

\* What is one fault, by the wrapper's two names for it and the core's.
SameFaults ==
  {<<"invalidArgument", "InvalidArgument", "bad_argument">>,
   <<"invalidState", "InvalidState", "bad_state">>,
   <<"invalidKey", "InvalidKey", "bad_key">>,
   <<"invalidSignature", "InvalidSignature", "bad_signature">>,
   <<"invalidMessage", "InvalidMessage", "bad_message">>,
   <<"invalidKeyId", "InvalidKeyIdentifier", "unknown_key_id">>,
   <<"untrustedIdentity", "UntrustedIdentity", "untrusted_identity">>,
   <<"sessionNotFound", "SessionNotFound", "no_session">>,
   <<"duplicateMessage", "DuplicatedMessage", "replay">>,
   <<"legacyVersion", "LegacyCiphertextVersion", "legacy_version">>,
   <<"unrecognizedVersion", "UnrecognizedMessageVersion", "unknown_version">>,
   <<"outOfMemory", "OutOfMemory", "out_of_memory">>,
   <<"verificationFailed", "VerificationFailed", "verify_failed">>,
   <<"internal", "InternalError", "internal">>}

-----------------------------------------------------------------------------
(* Kinds of message, schemes, hints, kinds of service id. *)

MessageType == [whisper |-> 2, preKey |-> 3, senderKey |-> 7, plaintext |-> 8]
CiphertextMessageType == [Whisper |-> 2, PreKey |-> 3, SenderKey |-> 7, Plaintext |-> 8]
PQ_ROUND_THREE == 8
PQ_STANDARD == 10
ContentHint == [Default |-> 0, Resendable |-> 1, Implicit |-> 2]
ServiceIdKind == [Aci |-> 0, Pni |-> 1]

GvKind == [whisper |-> 2, first |-> 3, circle |-> 7, plain |-> 8]
GvScheme == [round_three |-> 8, standard |-> 10]
GvHint == [default |-> 0, resendable |-> 1, implicit |-> 2]
GvServiceKind == [aci |-> 0, pni |-> 1]

\* The same number by every name it has.
SameNumbers ==
  {{MessageType.whisper, CiphertextMessageType.Whisper, GvKind.whisper},
   {MessageType.preKey, CiphertextMessageType.PreKey, GvKind.first},
   {MessageType.senderKey, CiphertextMessageType.SenderKey, GvKind.circle},
   {MessageType.plaintext, CiphertextMessageType.Plaintext, GvKind.plain},
   {PQ_ROUND_THREE, GvScheme.round_three}, {PQ_STANDARD, GvScheme.standard},
   {ContentHint.Default, GvHint.default}, {ContentHint.Resendable, GvHint.resendable},
   {ContentHint.Implicit, GvHint.implicit},
   {ServiceIdKind.Aci, GvServiceKind.aci}, {ServiceIdKind.Pni, GvServiceKind.pni}}

\* A fault of the core becomes the error of its own name, whether the wrapper
\* finds it or the core does, and each of the other numbers is one number.
NumbersMatch ==
  /\ DOMAIN Status = {same[1] : same \in SameFaults} \cup {"ok"}
  /\ DOMAIN GvStatus = {same[3] : same \in SameFaults} \cup {"ok"}
  /\ check(GvStatus.ok) = {} /\ Status.ok = GvStatus.ok
  /\ \A same \in SameFaults :
       /\ check(GvStatus[same[3]]) = {fault(same[1])}
       /\ fault(same[1]).kind = same[2]
  /\ \A same \in SameNumbers : \A m, n \in same : m = n
=============================================================================
