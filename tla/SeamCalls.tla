----------------------------- MODULE SeamCalls -----------------------------
(***************************************************************************)
(* What crosses the seam of the TypeScript package: for each export of the  *)
(* WebAssembly module, what bridge.ts hands it and what abi/gossveil.zig    *)
(* declares.  An argument left out arrives as zero and one too many is      *)
(* dropped, so nothing but agreement makes a call mean the same on both     *)
(* sides.                                                                   *)
(***************************************************************************)
EXTENDS SeamLayouts, SeamNumbers

\* What a Call gathers: bytes, a number or bigint, an output cell, a pad; and a
\* number that is an enum's value or a condition's 0 or 1, which fits a byte.
In(role) == [is |-> "bytes", role |-> role]
Num(role) == [is |-> "num", role |-> role]
Byte(role) == [is |-> "byte", role |-> role]
Big(role) == [is |-> "big", role |-> role]
Out(role) == [is |-> "out", role |-> role]
Pad(role, len) == [is |-> "pad", role |-> role, len |-> len]

\* What an export declares: a pointer with a length, a scalar by its width, a
\* buffer to fill in, a pointer by the size of what it points at.
Ref(role) == In(role)
U8(role) == Byte(role)
U32(role) == Num(role)
U64(role) == Big(role)
Buf(role) == Out(role)
At(role, len) == Pad(role, len)

-----------------------------------------------------------------------------
(* bridge.ts: a pair of addresses, and the calls by section.                 *)

\* Mutant of Bound: the devices come after the names.
BoundNamesFirst == <<In("sender"), In("recipient"), Num("sender_device"), Num("recipient_device")>>

Bound == <<In("sender"), Num("sender_device"), In("recipient"), Num("recipient_device")>>

KeysGathered ==
  [gv_curve_pair |-> <<Out("secret"), Out("public_key")>>,
   gv_curve_public |-> <<In("secret"), Out("public_key")>>,
   gv_curve_sign |-> <<In("secret"), In("message"), Out("signature")>>,
   gv_curve_verify |-> <<In("public_key"), In("message"), In("signature"), Pad("ok", 1)>>,
   gv_curve_agree |-> <<In("secret"), In("public_key"), Out("shared")>>,
   gv_curve_check |-> <<In("public_key")>>,
   gv_pq_pair |-> <<Byte("scheme"), Out("public_key"), Out("secret")>>,
   gv_pq_encapsulate |-> <<In("public_key"), Out("capsule"), Out("shared")>>,
   gv_pq_open |-> <<In("secret"), In("capsule"), Out("shared")>>,
   gv_identity_serialize |-> <<In("secret"), Out("serialized")>>,
   gv_identity_parse |-> <<In("serialized"), Out("public_key"), Out("secret")>>,
   gv_identity_vouch |-> <<In("secret"), In("other"), Out("signature")>>,
   gv_identity_vouched |-> <<In("public_key"), In("other"), In("signature"), Pad("ok", 1)>>]

PublishedGathered ==
  [gv_one_time_record |-> <<Num("id"), In("secret"), Out("record")>>,
   gv_one_time_parse |-> <<In("record"), Pad("id", 4), Out("public_key"), Out("secret")>>,
   gv_signed_record |-> <<Num("id"), Big("stamp"), In("secret"), In("signature"),
       Out("record")>>,
   gv_signed_parse |-> <<In("record"), Pad("id", 4), Pad("stamp", 8), Out("public_key"),
       Out("secret"), Out("signature")>>,
   gv_pq_record |-> <<Num("id"), Big("stamp"), In("public_key"), In("secret"), In("signature"),
       Out("record")>>,
   gv_pq_record_parse |-> <<In("record"), Pad("id", 4), Pad("stamp", 8), Out("public_key"),
       Out("secret"), Out("signature")>>]

SessionGathered ==
  [gv_session_info |-> <<In("record"), Big("now_secs"), Pad("info", 120)>>,
   gv_session_shelve |-> <<In("record"), Out("out_record")>>,
   gv_session_ratchet_is |-> <<In("record"), In("key"), Pad("ok", 1)>>,
   gv_session_start |-> <<In("identity_secret"), Num("registration_id"), In("record"),
       Pad("published", 72), Big("now_secs"), Out("out_record")>>,
   gv_session_seal |-> <<In("record"), In("plain"), Big("now_secs")>> \o Bound \o
       <<Pad("kind", 1), Out("sealed"), Out("out_record")>>,
   gv_session_open |-> <<In("record"), In("whisper")>> \o Bound \o <<Out("plain"),
       Out("out_record")>>,
   gv_session_open_first |-> <<In("identity_secret"), Num("registration_id"), In("record"),
       In("opener"), In("signed_record"), In("one_time_record"), In("pq_record")>> \o Bound \o
       <<Out("plain"), Out("out_record"), Pad("consumed", 64)>>,
   gv_opener_parse |-> <<In("opener"), Pad("info", 104), Out("inner")>>,
   gv_whisper_parse |-> <<In("whisper"), Pad("info", 48), Out("body")>>]

CircleGathered ==
  [gv_circle_announce |-> <<In("record"), In("circle_id"), Out("out_record"), Out("announce")>>,
   gv_circle_admit |-> <<In("record"), In("announce"), Out("out_record")>>,
   gv_announce_parse |-> <<In("announce"), Pad("info", 96)>>,
   gv_circle_seal |-> <<In("record"), In("circle_id"), In("plain"), Out("note"),
       Out("out_record")>>,
   gv_circle_open |-> <<In("record"), In("note"), Out("plain"), Out("out_record")>>,
   gv_note_parse |-> <<In("note"), Pad("info", 28), Out("body")>>]

EnvelopeGathered ==
  [gv_server_cert |-> <<Num("key_id"), In("key"), In("trust_secret"), Out("cert")>>,
   gv_server_cert_parse |-> <<In("cert"), Pad("info", 40), Out("body"), Out("signature")>>,
   gv_server_cert_check |-> <<In("cert"), In("trust_root"), Pad("ok", 1)>>,
   gv_sender_cert |-> <<In("sender_id"), In("phone"), Num("device"), In("key"),
       Big("expires_ms"), In("server_cert"), In("server_secret"), Out("cert")>>,
   gv_sender_cert_parse |-> <<In("cert"), Pad("info", 56), Out("sender_id"), Out("phone"),
       Out("server_cert"), Out("body"), Out("signature")>>,
   gv_sender_cert_check |-> <<In("cert"), In("trust_root"), Big("now_ms"), Pad("ok", 1)>>,
   gv_content |-> <<Byte("kind"), In("sender_cert"), In("body"), Byte("hint"), In("circle_id"),
       Byte("has_circle"), Out("content")>>,
   gv_content_parse |-> <<In("content"), Pad("info", 4), Out("body"), Out("sender_cert"),
       Out("circle_id")>>,
   gv_envelope_seal |-> <<In("identity_secret"), In("recipient_identity"), In("content"),
       Out("envelope")>>,
   gv_envelope_open |-> <<In("identity_secret"), In("envelope"), Out("content")>>,
   gv_envelope_seal_many |-> <<In("identity_secret"), In("recipients"), In("excluded"),
       In("content"), Out("sent")>>,
   gv_envelope_for_single |-> <<In("sent"), Out("received")>>,
   gv_envelope_for_recipient |-> <<In("sent"), In("service_id"), Num("device"),
       Out("received")>>]

HandleGathered ==
  [gv_safety |-> <<Num("version"), Num("iterations"), In("local_id"), In("local_key"),
       In("remote_id"), In("remote_key"), Out("display"), Out("scannable")>>,
   gv_safety_matches |-> <<In("ours"), In("theirs"), Pad("ok", 1)>>,
   gv_handle_hash |-> <<In("handle"), Out("hash")>>,
   gv_handle_proof |-> <<In("handle"), In("randomness"), Out("proof")>>,
   gv_handle_verify |-> <<In("proof"), In("hash"), Pad("ok", 1)>>,
   gv_handle_candidates |-> <<In("nickname"), Num("min_len"), Num("max_len"),
       Out("newline_separated")>>,
   gv_handle_from_parts |-> <<In("nickname"), In("discriminator"), Num("min_len"),
       Num("max_len"), Out("handle"), Out("hash")>>,
   gv_handle_link |-> <<In("handle"), In("entropy"), Out("out_entropy"), Out("sealed")>>,
   gv_handle_link_open |-> <<In("entropy"), In("sealed"), Out("handle")>>]

VaultGathered ==
  [gv_pool_random |-> <<Out("pool")>>,
   gv_pool_valid |-> <<In("pool")>>,
   gv_pool_derive |-> <<In("pool"), Out("recovery_key"), Out("backup_key")>>,
   gv_backup_key_random |-> <<Out("key")>>,
   gv_backup_key_for_account |-> <<In("key"), In("account_id"), Out("backup_id"),
       Out("signing_key")>>,
   gv_backup_key_local_metadata |-> <<In("key"), Out("metadata_key")>>,
   gv_backup_key_media |-> <<In("key"), In("media_name"), Out("media_id"), Out("media_key"),
       Out("thumbnail_key")>>,
   gv_backup_key_media_keys |-> <<In("key"), In("media_id"), Out("media_key"),
       Out("thumbnail_key")>>,
   gv_circle_master_random |-> <<Out("master")>>,
   gv_circle_secret_params |-> <<In("master"), Out("secret_params")>>,
   gv_circle_params_info |-> <<In("secret_params"), Out("master"), Out("identifier"),
       Out("public_params")>>]

StreamGathered ==
  [gv_hkdf |-> <<In("material"), In("salt"), Byte("has_salt"), In("info"), Num("out_len"),
       Out("out")>>,
   gv_siv_seal |-> <<In("key"), In("nonce"), In("plain"), In("aad"), Out("sealed")>>,
   gv_siv_open |-> <<In("key"), In("nonce"), In("sealed"), In("aad"), Out("plain")>>,
   gv_random |-> <<Num("len"), Out("out")>>,
   gv_chunk_tags |-> <<In("key"), Num("chunk"), In("data"), Out("tags")>>,
   gv_chunk_check |-> <<In("key"), Num("chunk"), In("data"), In("tags")>>,
   gv_report |-> <<In("original"), Byte("kind"), Big("stamp_ms"), Num("device"), Out("report")>>,
   gv_report_parse |-> <<In("report"), Pad("info", 48)>>,
   gv_report_in_body |-> <<In("body"), Out("report")>>,
   gv_plain_from_report |-> <<In("report"), Out("plain")>>,
   gv_plain_body |-> <<In("plain"), Out("body")>>]

Gathered ==
  KeysGathered @@ PublishedGathered @@ SessionGathered @@ CircleGathered
    @@ EnvelopeGathered @@ HandleGathered @@ VaultGathered @@ StreamGathered

\* sessionStart copies the bundle's parts in too, and in an order of its own.
StartGathered ==
  <<In("identity_secret"), In("record"), In("one_time"), In("signed_key"), In("signed_signature"),
    In("identity"), In("pq_key"), In("pq_signature"), Pad("published", 72), Out("out_record")>>

-----------------------------------------------------------------------------
(* abi/gossveil.zig, by the same sections.                                   *)

KeysDeclared ==
  [gv_curve_pair |-> <<Buf("secret"), Buf("public_key")>>,
   gv_curve_public |-> <<Ref("secret"), Buf("public_key")>>,
   gv_curve_sign |-> <<Ref("secret"), Ref("message"), Buf("signature")>>,
   gv_curve_verify |-> <<Ref("public_key"), Ref("message"), Ref("signature"), At("ok", 1)>>,
   gv_curve_agree |-> <<Ref("secret"), Ref("public_key"), Buf("shared")>>,
   gv_curve_check |-> <<Ref("public_key")>>,
   gv_pq_pair |-> <<U8("scheme"), Buf("public_key"), Buf("secret")>>,
   gv_pq_encapsulate |-> <<Ref("public_key"), Buf("capsule"), Buf("shared")>>,
   gv_pq_open |-> <<Ref("secret"), Ref("capsule"), Buf("shared")>>,
   gv_identity_serialize |-> <<Ref("secret"), Buf("serialized")>>,
   gv_identity_parse |-> <<Ref("serialized"), Buf("public_key"), Buf("secret")>>,
   gv_identity_vouch |-> <<Ref("secret"), Ref("other"), Buf("signature")>>,
   gv_identity_vouched |-> <<Ref("public_key"), Ref("other"), Ref("signature"), At("ok", 1)>>]

PublishedDeclared ==
  [gv_one_time_record |-> <<U32("id"), Ref("secret"), Buf("record")>>,
   gv_one_time_parse |-> <<Ref("record"), At("id", 4), Buf("public_key"), Buf("secret")>>,
   gv_signed_record |-> <<U32("id"), U64("stamp"), Ref("secret"), Ref("signature"),
       Buf("record")>>,
   gv_signed_parse |-> <<Ref("record"), At("id", 4), At("stamp", 8), Buf("public_key"),
       Buf("secret"), Buf("signature")>>,
   gv_pq_record |-> <<U32("id"), U64("stamp"), Ref("public_key"), Ref("secret"),
       Ref("signature"), Buf("record")>>,
   gv_pq_record_parse |-> <<Ref("record"), At("id", 4), At("stamp", 8), Buf("public_key"),
       Buf("secret"), Buf("signature")>>]

SessionDeclared ==
  [gv_session_info |-> <<Ref("record"), U64("now_secs"), At("info", SizeOf(GvSessionInfo))>>,
   gv_session_shelve |-> <<Ref("record"), Buf("out_record")>>,
   gv_session_ratchet_is |-> <<Ref("record"), Ref("key"), At("ok", 1)>>,
   gv_session_start |-> <<Ref("identity_secret"), U32("registration_id"), Ref("record"),
       At("published", SizeOf(GvPublished)), U64("now_secs"), Buf("out_record")>>,
   gv_session_seal |-> <<Ref("record"), Ref("plain"), U64("now_secs"), Ref("sender"),
       U32("sender_device"), Ref("recipient"), U32("recipient_device"), At("kind", 1),
       Buf("sealed"), Buf("out_record")>>,
   gv_session_open |-> <<Ref("record"), Ref("whisper"), Ref("sender"), U32("sender_device"),
       Ref("recipient"), U32("recipient_device"), Buf("plain"), Buf("out_record")>>,
   gv_session_open_first |-> <<Ref("identity_secret"), U32("registration_id"), Ref("record"),
       Ref("opener"), Ref("signed_record"), Ref("one_time_record"), Ref("pq_record"),
       Ref("sender"), U32("sender_device"), Ref("recipient"), U32("recipient_device"),
       Buf("plain"), Buf("out_record"), At("consumed", SizeOf(GvConsumed))>>,
   gv_opener_parse |-> <<Ref("opener"), At("info", SizeOf(GvOpenerInfo)), Buf("inner")>>,
   gv_whisper_parse |-> <<Ref("whisper"), At("info", SizeOf(GvWhisperInfo)), Buf("body")>>]

CircleDeclared ==
  [gv_circle_announce |-> <<Ref("record"), Ref("circle_id"), Buf("out_record"),
       Buf("announce")>>,
   gv_circle_admit |-> <<Ref("record"), Ref("announce"), Buf("out_record")>>,
   gv_announce_parse |-> <<Ref("announce"), At("info", SizeOf(GvAnnounceInfo))>>,
   gv_circle_seal |-> <<Ref("record"), Ref("circle_id"), Ref("plain"), Buf("note"),
       Buf("out_record")>>,
   gv_circle_open |-> <<Ref("record"), Ref("note"), Buf("plain"), Buf("out_record")>>,
   gv_note_parse |-> <<Ref("note"), At("info", SizeOf(GvNoteInfo)), Buf("body")>>]

EnvelopeDeclared ==
  [gv_server_cert |-> <<U32("key_id"), Ref("key"), Ref("trust_secret"), Buf("cert")>>,
   gv_server_cert_parse |-> <<Ref("cert"), At("info", SizeOf(GvServerCertInfo)), Buf("body"),
       Buf("signature")>>,
   gv_server_cert_check |-> <<Ref("cert"), Ref("trust_root"), At("ok", 1)>>,
   gv_sender_cert |-> <<Ref("sender_id"), Ref("phone"), U32("device"), Ref("key"),
       U64("expires_ms"), Ref("server_cert"), Ref("server_secret"), Buf("cert")>>,
   gv_sender_cert_parse |-> <<Ref("cert"), At("info", SizeOf(GvSenderCertInfo)),
       Buf("sender_id"), Buf("phone"), Buf("server_cert"), Buf("body"), Buf("signature")>>,
   gv_sender_cert_check |-> <<Ref("cert"), Ref("trust_root"), U64("now_ms"), At("ok", 1)>>,
   gv_content |-> <<U8("kind"), Ref("sender_cert"), Ref("body"), U8("hint"), Ref("circle_id"),
       U8("has_circle"), Buf("content")>>,
   gv_content_parse |-> <<Ref("content"), At("info", SizeOf(GvContentInfo)), Buf("body"),
       Buf("sender_cert"), Buf("circle_id")>>,
   gv_envelope_seal |-> <<Ref("identity_secret"), Ref("recipient_identity"), Ref("content"),
       Buf("envelope")>>,
   gv_envelope_open |-> <<Ref("identity_secret"), Ref("envelope"), Buf("content")>>,
   gv_envelope_seal_many |-> <<Ref("identity_secret"), Ref("recipients"), Ref("excluded"),
       Ref("content"), Buf("sent")>>,
   gv_envelope_for_single |-> <<Ref("sent"), Buf("received")>>,
   gv_envelope_for_recipient |-> <<Ref("sent"), Ref("service_id"), U8("device"),
       Buf("received")>>]

HandleDeclared ==
  [gv_safety |-> <<U32("version"), U32("iterations"), Ref("local_id"), Ref("local_key"),
       Ref("remote_id"), Ref("remote_key"), Buf("display"), Buf("scannable")>>,
   gv_safety_matches |-> <<Ref("ours"), Ref("theirs"), At("ok", 1)>>,
   gv_handle_hash |-> <<Ref("handle"), Buf("hash")>>,
   gv_handle_proof |-> <<Ref("handle"), Ref("randomness"), Buf("proof")>>,
   gv_handle_verify |-> <<Ref("proof"), Ref("hash"), At("ok", 1)>>,
   gv_handle_candidates |-> <<Ref("nickname"), U32("min_len"), U32("max_len"),
       Buf("newline_separated")>>,
   gv_handle_from_parts |-> <<Ref("nickname"), Ref("discriminator"), U32("min_len"),
       U32("max_len"), Buf("handle"), Buf("hash")>>,
   gv_handle_link |-> <<Ref("handle"), Ref("entropy"), Buf("out_entropy"), Buf("sealed")>>,
   gv_handle_link_open |-> <<Ref("entropy"), Ref("sealed"), Buf("handle")>>]

VaultDeclared ==
  [gv_pool_random |-> <<Buf("pool")>>,
   gv_pool_valid |-> <<Ref("pool")>>,
   gv_pool_derive |-> <<Ref("pool"), Buf("recovery_key"), Buf("backup_key")>>,
   gv_backup_key_random |-> <<Buf("key")>>,
   gv_backup_key_for_account |-> <<Ref("key"), Ref("account_id"), Buf("backup_id"),
       Buf("signing_key")>>,
   gv_backup_key_local_metadata |-> <<Ref("key"), Buf("metadata_key")>>,
   gv_backup_key_media |-> <<Ref("key"), Ref("media_name"), Buf("media_id"), Buf("media_key"),
       Buf("thumbnail_key")>>,
   gv_backup_key_media_keys |-> <<Ref("key"), Ref("media_id"), Buf("media_key"),
       Buf("thumbnail_key")>>,
   gv_circle_master_random |-> <<Buf("master")>>,
   gv_circle_secret_params |-> <<Ref("master"), Buf("secret_params")>>,
   gv_circle_params_info |-> <<Ref("secret_params"), Buf("master"), Buf("identifier"),
       Buf("public_params")>>]

StreamDeclared ==
  [gv_hkdf |-> <<Ref("material"), Ref("salt"), U8("has_salt"), Ref("info"), U32("out_len"),
       Buf("out")>>,
   gv_siv_seal |-> <<Ref("key"), Ref("nonce"), Ref("plain"), Ref("aad"), Buf("sealed")>>,
   gv_siv_open |-> <<Ref("key"), Ref("nonce"), Ref("sealed"), Ref("aad"), Buf("plain")>>,
   gv_random |-> <<U32("len"), Buf("out")>>,
   gv_chunk_tags |-> <<Ref("key"), U32("chunk"), Ref("data"), Buf("tags")>>,
   gv_chunk_check |-> <<Ref("key"), U32("chunk"), Ref("data"), Ref("tags")>>,
   gv_report |-> <<Ref("original"), U8("kind"), U64("stamp_ms"), U32("device"), Buf("report")>>,
   gv_report_parse |-> <<Ref("report"), At("info", SizeOf(GvReportInfo))>>,
   gv_report_in_body |-> <<Ref("body"), Buf("report")>>,
   gv_plain_from_report |-> <<Ref("report"), Buf("plain")>>,
   gv_plain_body |-> <<Ref("plain"), Buf("body")>>]

Declared ==
  KeysDeclared @@ PublishedDeclared @@ SessionDeclared @@ CircleDeclared
    @@ EnvelopeDeclared @@ HandleDeclared @@ VaultDeclared @@ StreamDeclared

\* A number that nobody has tested goes where a byte is declared.
Narrows(given, declared) == given.is = "num" /\ declared.is = "byte"

\* An argument is what the parameter in its place is meant to be, as wide or
\* narrowed to it, and a pad holds all that the export writes through the pointer.
Fits(given, declared) ==
  /\ given.role = declared.role
  /\ given.is = declared.is \/ Narrows(given, declared)
  /\ given.is = "pad" => given.len >= declared.len
=============================================================================
