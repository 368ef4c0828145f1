---------------------------- MODULE SeamLayouts ----------------------------
(***************************************************************************)
(* The structs that cross the seam of the TypeScript package: where         *)
(* abi/gossveil.zig puts each field on wasm32, and where bridge.ts reads or  *)
(* writes it.  Neither compiler sees the other side.                         *)
(***************************************************************************)
EXTENDS Integers, Sequences, SequencesExt

u8 == [size |-> 1, align |-> 1]
u32 == [size |-> 4, align |-> 4]
u64 == [size |-> 8, align |-> 8]
i64 == u64
ptr == u32
bytes(n) == [size |-> n, align |-> 1]

Aligned(at, n) == ((at + n - 1) \div n) * n

\* The end of the fields laid out so far, and where each begins.
Lay(fields) ==
  FoldLeft(LAMBDA laid, f :
      LET at == Aligned(laid.end, f[2].align) IN
      [end |-> at + f[2].size,
       fields |-> laid.fields \cup {<<f[1], at, f[2].size>>}],
    [end |-> 0, fields |-> {}], fields)

\* A struct's size is a multiple of its widest alignment.
SizeOf(struct) ==
  LET widest == CHOOSE n \in {f[2].align : f \in ToSet(struct)} :
                  \A f \in ToSet(struct) : f[2].align <= n
  IN Aligned(Lay(struct).end, widest)

GvSessionInfo ==
  <<<<"has_live", u8>>, <<"can_send", u8>>, <<"usable", u8>>, <<"version", u32>>,
    <<"local_registration_id", u32>>, <<"remote_registration_id", u32>>, <<"shelved", u32>>,
    <<"local_identity", bytes(33)>>, <<"remote_identity", bytes(33)>>, <<"base", bytes(33)>>>>
GvPublished ==
  <<<<"registration_id", u32>>, <<"device", u32>>, <<"one_time_id", i64>>,
    <<"one_time", ptr>>, <<"one_time_len", u32>>, <<"signed_id", u32>>,
    <<"signed_key", ptr>>, <<"signed_key_len", u32>>,
    <<"signed_signature", ptr>>, <<"signed_signature_len", u32>>,
    <<"identity", ptr>>, <<"identity_len", u32>>, <<"pq_id", u32>>,
    <<"pq_key", ptr>>, <<"pq_key_len", u32>>,
    <<"pq_signature", ptr>>, <<"pq_signature_len", u32>>>>
GvConsumed ==
  <<<<"used", u8>>, <<"one_time_id", i64>>, <<"signed_id", u32>>, <<"pq_id", u32>>,
    <<"base", bytes(33)>>>>
GvOpenerInfo ==
  <<<<"version", u8>>, <<"registration_id", u32>>, <<"one_time_id", i64>>, <<"signed_id", u32>>,
    <<"pq_id", i64>>, <<"base", bytes(33)>>, <<"identity", bytes(33)>>>>
GvWhisperInfo ==
  <<<<"version", u8>>, <<"index", u32>>, <<"previous_index", u32>>, <<"ratchet", bytes(33)>>>>
GvAnnounceInfo ==
  <<<<"version", u8>>, <<"circle_id", bytes(16)>>, <<"chain_id", u32>>, <<"step", u32>>,
    <<"seed", bytes(32)>>, <<"signing", bytes(33)>>>>
GvNoteInfo ==
  <<<<"version", u8>>, <<"circle_id", bytes(16)>>, <<"chain_id", u32>>, <<"step", u32>>>>
GvServerCertInfo == <<<<"key_id", u32>>, <<"key", bytes(33)>>>>
GvSenderCertInfo ==
  <<<<"device", u32>>, <<"expires_ms", u64>>, <<"key", bytes(33)>>, <<"has_phone", u8>>>>
GvContentInfo == <<<<"kind", u8>>, <<"hint", u8>>, <<"has_circle", u8>>>>
GvReportInfo ==
  <<<<"stamp_ms", u64>>, <<"device", u32>>, <<"has_ratchet", u8>>, <<"ratchet", bytes(33)>>>>

\* Where the wrapper reads or, for a bundle, writes a field: name, offset, width.
SessionInfoRead ==
  {<<"has_live", 0, 1>>, <<"can_send", 1, 1>>, <<"usable", 2, 1>>, <<"version", 4, 4>>,
   <<"local_registration_id", 8, 4>>, <<"remote_registration_id", 12, 4>>, <<"shelved", 16, 4>>,
   <<"local_identity", 20, 33>>, <<"remote_identity", 53, 33>>, <<"base", 86, 33>>}

\* sessionStart lays the bundle out by hand: six pointers with their lengths at
\* the slots, in the order the inputs were copied in.
Slots == <<16, 28, 36, 44, 56, 64>>
SlotNames == <<"one_time", "signed_key", "signed_signature", "identity", "pq_key", "pq_signature">>
PublishedWritten ==
  {<<"registration_id", 0, 4>>, <<"device", 4, 4>>, <<"one_time_id", 8, 8>>,
   <<"signed_id", 24, 4>>, <<"pq_id", 52, 4>>}
    \cup {<<SlotNames[i], Slots[i], 4>> : i \in 1..6}
PublishedLens == {Slots[i] + 4 : i \in 1..6}

ConsumedRead ==
  {<<"used", 0, 1>>, <<"one_time_id", 8, 8>>, <<"signed_id", 16, 4>>, <<"pq_id", 20, 4>>,
   <<"base", 24, 33>>}
OpenerRead ==
  {<<"version", 0, 1>>, <<"registration_id", 4, 4>>, <<"one_time_id", 8, 8>>,
   <<"signed_id", 16, 4>>, <<"pq_id", 24, 8>>, <<"base", 32, 33>>, <<"identity", 65, 33>>}
WhisperRead ==
  {<<"version", 0, 1>>, <<"index", 4, 4>>, <<"previous_index", 8, 4>>, <<"ratchet", 12, 33>>}
AnnounceRead ==
  {<<"version", 0, 1>>, <<"circle_id", 1, 16>>, <<"chain_id", 20, 4>>, <<"step", 24, 4>>,
   <<"seed", 28, 32>>, <<"signing", 60, 33>>}
NoteRead ==
  {<<"version", 0, 1>>, <<"circle_id", 1, 16>>, <<"chain_id", 20, 4>>, <<"step", 24, 4>>}
ServerCertRead == {<<"key_id", 0, 4>>, <<"key", 4, 33>>}
SenderCertRead ==
  {<<"device", 0, 4>>, <<"expires_ms", 8, 8>>, <<"key", 16, 33>>, <<"has_phone", 49, 1>>}
ContentRead == {<<"kind", 0, 1>>, <<"hint", 1, 1>>, <<"has_circle", 2, 1>>}
ReportRead ==
  {<<"stamp_ms", 0, 8>>, <<"device", 8, 4>>, <<"has_ratchet", 12, 1>>, <<"ratchet", 13, 33>>}

Layouts ==
  {<<GvSessionInfo, SessionInfoRead>>, <<GvPublished, PublishedWritten>>,
   <<GvConsumed, ConsumedRead>>, <<GvOpenerInfo, OpenerRead>>, <<GvWhisperInfo, WhisperRead>>,
   <<GvAnnounceInfo, AnnounceRead>>, <<GvNoteInfo, NoteRead>>,
   <<GvServerCertInfo, ServerCertRead>>, <<GvSenderCertInfo, SenderCertRead>>,
   <<GvContentInfo, ContentRead>>, <<GvReportInfo, ReportRead>>}
=============================================================================
