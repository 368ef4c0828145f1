# A verification project for Gossveil

Gossveil is an end-to-end encrypted messaging library: a Zig core (`core/`), a C interface over it
(`abi/`), and packages for Swift, Kotlin and TypeScript (`sdk/`) that load records from the
application's store, make one core call, and store what came back. This directory holds TLA+
modules of its stateful parts, the TLC configurations that check them on small instances, and
proofs, checked by TLAPS, of theorems that hold for every value of the constants.

Cryptography is symbolic throughout. A derived key is named by what it was derived from, a fresh
key is a serial number, a MAC or a signature binds the key, the chain and the step, and nobody
guesses any of them. What the modules are about is everything around it: which step of which chain
a record stands at, which keys it still holds, when it forgets, and what happens when messages are
lost, repeated, late, reordered or crossed, when limits are reached, when calls interleave, and
when the process dies between two store accesses.

## 1. The system

| Part | Where | State it keeps | Operations |
|---|---|---|---|
| Groups under sender keys | `core/circle` | a record for each sender and group: up to five chains, newest first, each a link, a signing key and up to 2000 kept keys | `announce`, `circleAdmit`, `circleSeal`, `circleOpen` |
| Session engine and record | `core/ratchet/engine.zig`, `state.zig`, `archive.zig`, `core/handshake` | a record for each peer device: the live state and up to forty shelved ones; a state is a root, a sending lane, up to five receiving lanes with kept keys, and a pending handshake | `start`, `seal`, `openWhisper`, `openFirst`, `shelve` |
| Post-quantum braid | `core/ratchet/pq/braid.zig`, `code.zig`, `auth.zig` | in each state: one of eleven protocol states, pieces being sent and gathered, the authenticator | `send`, `receive`, called for every message |
| Post-quantum key stream | `core/ratchet/pq/stream.zig`, `record.zig` | for each epoch kept, a sending and a receiving flow with held keys | `nextEpoch`, `keyToSend`, `keyToReceive` |
| Package calls | `sdk/ts`, `sdk/kotlin`, `sdk/swift` | the application's store: session records, identities, pre-keys, sender key records | `processBundle`, `sessionEncrypt`, `sessionDecrypt`, `sessionDecryptPreKey`, the group calls |
| Handle package of `sdk/ts` | `wasm-api.ts` | stores in memory, which the host exports and imports | `processPreKeyBundle`, `encryptMessage`, `decryptMessage`, the stores' import, export and archive |
| Seam of `sdk/ts` | `core.ts`, `bridge.ts` | one loaded instance of the core and the blocks in its memory | `init`, `initSync`, `Call` |
| C interface | `abi/gossveil.zig`, `jni.zig`, `wasm.zig` | the allocator's heap; nothing between calls | parse, one core call, serialize |
| Sealed sender | `core/envelope` | none | `seal`, `open`, `sealForMany`, the server's split |
| Chunked authentication | `core/stream/chunkmac.zig` | a partial chunk | `Tagger`, `Checker` |
| Bundles, messages, keys, usernames, safety numbers, account keys | `core/bundle`, `post`, `wire`, `keys`, `handle`, `trust`, `vault`, `ident` | none | formats and derivations |

How they meet. A package call reads records from the store, hands them to one core call through
the C interface, and writes the records it gets back; the core keeps nothing between calls and
calls nothing back. `engine.seal` and `engine.openWithState` ask `pq/record.zig` for one
post-quantum key for each message; `record.send` and `record.receive` first let the braid make a
step, hand a secret that the step completes to the stream (`nextEpoch`), and then take the
message's key from the flow of the epoch before the packet's. A packet of the braid travels in every session
message, so the braid moves exactly when messages do. A call that fails hands back no record,
which is the rule that makes every in-place change inside the core harmless.

What is hard in this code, and where it bites, is listed in `PROJECT.json` under `hazards`, each at
its line with the properties about it. In short:

- *order*: announcements and notes in any order; two sessions started at once; a braid packet of
  an epoch that its receiver has or has not reached;
- *loss and repetition*: kept and trimmed keys; epochs pruned while messages are on their way; a
  braid that must move on whatever is lost;
- *limits*: five chains, five lanes, forty states, 2000 kept keys, 25000 steps ahead, each of which
  forgets something and must not forget more;
- *interleaving and crashes*: the packages' load, call, store, with awaits or threads in between; two
  loads of the core at once; a group send that reads two stores at different moments;
- *two sides without a compiler between them*: structs, argument lists, statuses and counts that
  TypeScript and Zig each write by hand; memory that one side allocates and the other frees;
- *agreement without a handshake*: a root that turns twice on one side before it turns on the
  other; an authenticator advanced at different moments by the two sides.

## 2. Modules

| Module | Models | Built on |
|---|---|---|
| `Circle` | `core/circle`: one sender, any number of devices that keep a record of it | |
| `CircleProofs` | theorems about `Circle` | `Circle`, TLAPS |
| `Session` | `engine.zig`, `state.zig`, `archive.zig`, `agree.zig`: two devices | |
| `SessionProofs` | theorems about `Session` | `Session`, TLAPS |
| `EpochAgreement` | what the braid promises, without pieces | |
| `BraidSteps` | `braid.zig`'s eleven states as functions from a state to a step | |
| `Braid` | two braids over a lossy network | `BraidSteps`; implements `EpochAgreement` |
| `BraidProofs` | theorems about `Braid`, the refinement among them | `Braid`, TLAPS |
| `PqRatchet` | `stream.zig` and `record.zig` on two sides | extends `EpochAgreement` |
| `PqRatchetProofs` | theorems about `PqRatchet` | `PqRatchet`, TLAPS |
| `CoreRecord` | the core's calls on a session record as the packages see them | |
| `RecordCell` | a conversation whose calls take effect at once | extends `CoreRecord` |
| `Host` | the packages' session calls over a store that survives crashes | extends `CoreRecord`; implements `RecordCell` |
| `HostProofs` | theorems about `Host` under one queue | `Host`, TLAPS |
| `Client` | `wasm-api.ts`: session calls over stores in memory | extends `CoreRecord` |
| `ClientProofs` | theorems about `Client`, with no queue | `Client`, TLAPS |
| `SeamLayouts` | the structs that cross the wasm boundary, on both sides | |
| `SeamNumbers` | the statuses and enum values, on both sides | |
| `SeamCalls` | the argument list of every export, on both sides | the two above |
| `Seam` | `init`, the `Call` class and the memory they share with the core | extends `SeamCalls` |
| `SeamProofs` | theorems about `Seam` | `Seam`, TLAPS |
| `Names` | uuids, service ids and addresses in the TypeScript package | |
| `Many` | `multiseal.zig` and the blobs handed to it | extends `Names` |
| `GroupSend` | the sealed group send, its server and its readers | extends `Many` |
| `GroupSendProofs` | theorems about `GroupSend` | `GroupSend`, TLAPS |
| `*MC` | the model values and sets of the configurations | |

The composition of the post-quantum ratchet goes through an abstract specification.
`EpochAgreement` has four actions: a side offers a key pair, the other draws the epoch's secret, the first
learns it, and the one that drew it follows into the next epoch. `Braid` is shown to implement it
(`AgreesOnEpochs`) under the mapping: a side's epoch is its braid's, it has offered when it is in a
sampling state past `unsampled`. `PqRatchet` then puts the key stream on top of `EpochAgreement`
instead of on eleven states and their pieces, and covers more messages and losses for it.

### Circle

`record[d]` is device `d`'s list of members, and `Sender` is one of the devices: its own record is a record like the
others, whose members may have their signing secret (`signs`). A chain is its signing key, a serial number, under an id drawn
from `ChainIds`, so that ids collide as random ones may. `AnnounceNew` is `announce` on a record without a chain, which is what a
host does first, after it rotated, or after it lost its storage; `AnnounceNewest` is `announce` on a record with chains, whether the newest has its secret or
not. `Admit` is `circleAdmit` with all of `Circle.admit` (`Admitted`), on any device: the sender's own announcements come back to it, late and again,
from before it rotated or after. `Seal` is `circleSeal`, and `SealUnsigned` its `BadSession` on a chain that has no secret here. `Open` is `circleOpen`, on any
device, with its outcomes as five disjuncts, one for each return of `open` and `yieldFor`. `announces` and
`notes` only grow: each element may be delivered at any time, any number of times, or never.
`used`, `joined`, `trimmed` and `evicted` are history variables: no action reads them. `used` has what a device opened or sealed; `joined` the
step at which it took a chain in or made it.

### Session

A key pair is `<<party, n>>`, an agreement is the set of two public keys, and `derive.turn` appends
an agreement to the root's path; the path names the chain too. Two devices hold the same message
key exactly when they hold the same path and index, and the MAC is the comparison of paths in
`Verdict`. `Turn` is `laneChain`, `Verdict` and `Taken` are `slotFor` and the MAC,
`Decider` is `openWithArchive`'s search over clones, `Shelved`, `PromoteShelved` and `Revive` are
`archive.zig`. `Start` takes a bundle with a one-time pre-key that the server hands out once, or with none.
`Age` lets thirty days pass over a handshake that nobody answered. `OpenFirst` includes the
packages' removal of the one-time pre-key. `Store` is where everything that falls out of a record
is noted for the properties.

### BraidSteps, Braid

One operator for each state and direction (`SendHeaderIn`, `InFirstOut`, ...), collected in `Sent`
and `Received`. A message under way (header, encapsulation key, first and second half of the
capsule) is a record of what it is about and what its tag was made with; a piece is that record and
an index; `Whole` gives the message back when all pieces are of one message and `Garbage` otherwise,
which no check accepts. `Braid` adds the network: `Send` keeps any subset of the packets on
their way, `Receive` leaves the packet where it is, so packets are lost, late, repeated and
reordered.

### PqRatchet

`stream[side]` is the `Stream`: `KeyFault` and `FlowAfter` are `Flow.keyAt` with `Held`, `Moved` is
the pruning in `keyToSend`. `Send` and `Receive` are `record.send` and `record.receive` whole: the
agreement's step, `nextEpoch`, the key. A refused message changes nothing (`Refuse`).

### CoreRecord, RecordCell, Host

`CoreRecord` abstracts the core to what `Session` shows of it while no limit is reached: a record
holds sessions by their bases, opens a message once, seals one step on.

In `Host` each `await` or store access is an action, and `call[c]` holds what the call loaded before
it. The calls are `processBundle` (`"start"` jobs), `sessionEncrypt`, `sessionDecrypt` and
`sessionDecryptPreKey`. `commit` is `AfterCore` and the two stores after it: the identity (`Pin`), then
the record (`Store`). `OneQueue` says whether the application makes one call at a time. `Crash` ends all calls
and keeps the store; `Approve` is the user's word on a changed identity. The three packages access the
store in the same order (`Session.kt`, `Sessions.swift` and `api.ts` were compared line by line).
`RecordCell` is the abstract specification: one variable, the record, on which each call is one step.
`Host` with one queue implements it (`ActsAtOnce`), with `cell <- record`.

`IdentityOf` gives each base the identity its session is with, so that a peer that was installed
again has bases of another identity. The server is assumed to hand a one-time pre-key out once (`OneTimeAssumption`).

### Client

The stores of `wasm-api.ts` are read and written within one tick, but `decryptMessage` of a first message
loads the session (`DecryptFirst`), awaits its pre-keys (`ReadKeys`) and commits what it made of
the session it had loaded (`OpenFirst`). The host exports the stores before it lets a message or a
text out (`HandOut`) and imports them when it starts again (`Restart`). No queue is assumed.
`unseen` is a history variable: what the session held when a commit that had loaded it earlier replaced it.

### SeamLayouts, SeamNumbers, SeamCalls, Seam

`SeamLayouts` computes where wasm32 puts each field of the `extern struct`s (`Lay`, `SizeOf`) and lists where
`bridge.ts` reads or writes it. `SeamNumbers` has the two lists of statuses and of enum values, with the kind of error that
`check` and `fault` make of a status. `SeamCalls` has, for each of the 78 exports that `bridge.ts` calls, the arguments it gathers
(`Gathered`) and those that `gossveil.zig` declares (`Declared`); each list is transcribed from its own side. A scalar is of 8, 32 or 64 bits: the wrapper's is a
byte where it is an enum's value or a condition's 0 or 1, and a number where nothing limits it. `Narrows` is a number that goes where a byte is declared, which is
so of one argument, the device of `gv_envelope_for_recipient` (`api.ts:1415` hands on what its caller gave; the sealing side tests its device numbers at 1400).

`Seam` runs calls over these lists. `exports` is core.ts's module variable; `heap` is the set of blocks allocated in that
instance's memory. A call gathers its blocks one by one, and each allocation may fail (`GatherFails`) or succeed and leave no
view of the memory (`GatherPastTheView`). The export answers (`Invoke`), returns a fault after having filled some cells, which `Call.close`
empties again (`Fault`), or traps, with the outputs filled so far and the export's own `Arena` left where they are. `Take` and `Free` are `Out.take` and the `finally` of `finish`; in
`TakeFails` JavaScript has no memory for the copy of an output. `init` is two steps, as it
looks at `exports` before its awaits and sets it after them.

### Names, Many, GroupSend

A text is a prefix, a uuid and a spelling; `parseFromServiceIdString` ignores the spelling, and `getServiceIdString`
writes the canonical one. `Many` is the envelope as a sequence of tokens: `SealForMany` writes it, `ParseToken` and
`ParseSent` read it, `ForRecipient` and `ForSingle` are the server's. `Byte` and `Word` are the widths of
the counts and of a device number.

`GroupSend` follows one sender's group sends. `Begin` and `SealNote` are `groupEncrypt`; `LoadSessions` and one `LoadIdentity` for each
address are `recipientsOf`; `Seal` builds the blobs and the envelope. `Meet` and `Met` are the sender's session calls with the
same devices, in the order `Host` gives them, and `Install` puts an account on a new installation with a new
identity and new registration ids. A device takes announcements (`Admit`), opens its form of any envelope any
number of times (`Open`), and returns the text after it has stored the record (`Return`); both sides' processes may crash.

Assumed there: registration ids fit their 14 bits and differ between installations; each address is a service
id; the devices of a recipient and the excluded ids are fewer than a byte counts, and the device that the server names fits its byte; the calls on one group
run one after another, so a send is not overtaken by another and the load, core call and store of `groupDecrypt` are one step (`Open`), between which and the return of the text a process may
die. Certificates that are
invalid or expired and messages a device sent itself are refused by `sealedSenderDecryptMessage` before any state
changes, and are left out.

## 3. Runs

| Run | Question | Bounds | Distinct states |
|---|---|---|---|
| `circle` | Do the sender's and a receiver's records stay in order whatever is announced, lost, repeated, admitted again or comes back? | the sender and one receiver, 3 chains with ids from 3, 5 chains and notes together, at most 4 steps of a chain, 3 announcements, 2 members, 1 kept key, 2 steps ahead | 676,542 |
| `session_cross` | Two sessions between two devices, started at once or one after the other | 2 sessions, 4 messages, 1 shelved state, 2 lanes, 1 kept key, 1 step ahead | 293,468 |
| `session_deep` | One session over several turns of the ratchet | 1 session, 6 messages, 1 lane | 167,553 |
| `braid` | Do the two braids agree, and never refuse each other? | 3 epochs, 2 pieces to rebuild a message and 3 for the encapsulation key, 3 indices, 2 packets on their way to each side | 408,890 |
| `braid_live` | Does every epoch end? | 2 epochs, 2 indices, 2 packets | 14,889 |
| `pq_ratchet` | Does each receive give the key of the seal, or name a limit? | 3 epochs, 5 sends on one side and 4 on the other, 2 on their way, 2 held keys, 3 steps ahead | 421,158 |
| `host` | One queue and crashes: does each call take effect at once, is any key sent twice, any text returned twice, any first message stuck, any session kept with an identity that is not pinned? | 2 calls, 4 messages of 2 sessions, a bundle, 2 identities, 2 seals on a chain, 2 returns of a text, 1 approval | 1,368,571 |
| `host_first` | Does a known session ask for a one-time pre-key? | the same, no approval | stops at the violation |
| `client` | Two calls of the handle package at once and restarts: what exactly can be lost or come twice? | 2 calls, 3 messages of 2 sessions, a bundle, 1 seal on a chain, 2 returns, 1 import or archive | 1,167,981 |
| `seam` | Is every block freed once, does any stay, do callers of `init` hold one instance, do the two sides agree? | 8 exports, one of each shape, 2 callers, 2 instances; the agreement is over all exports | 7,889,493 |
| `group_send` | Does each device get its part, can the server tell a stale one, is a note read once? | an account with 2 devices and a phone-number identity with 1, 2 groups, 2 installations, 2 sends, 2 notes; a byte of 4 | 207,764 |
| `group_wrap` | Is every device served that the send was made for? | 2 recipients, a byte of 2 | stops at the violation |

Why the bounds are enough. In each module the limits of the code (`MaxMembers`, `MaxSkipped`,
`MaxForwardJump`, `MaxLanes`, `MaxPrevious`, `MaxJump`) are small so that behaviours reach and pass
them; the lengths (`MaxMade`, `MaxMessages`, `MaxEpochs`, `MaxSends`) are larger than the limits.
`circle` has more chains than members, so chains are evicted and admitted again; as many ids as
chains, so that ids both collide and differ; and one receiver beside the sender, because receivers share
nothing. `session_cross` reaches crossed starts, shelving, a full shelf and forgotten sessions;
`session_deep` gives up the second session for more turns. Three epochs of the braid let both sides play
both roles and the first role come back; with three indices and two pieces needed the index wraps
within one message. In `pq_ratchet` the third epoch prunes the first, and the side that sends five gets as far as the number of held keys
at which the other trims them.
`host` has one session that names a one-time pre-key and one that names none, two identities of one peer, and two
messages of the first session that both name the pre-key; two seals on a chain are enough for a key to be used
again, and two returns for a text to come twice. `client` lets two calls overlap, which is all that one load and one later commit
need; the bounds on seals and asides are 1 because one change between the two is what is undone. In `seam` a
call's length is what its argument list says, so one export of each shape stands for the rest. In
`group_send` one account is named in two spellings and its uuid is also a phone-number identity's; two installations
make one part or registration id stale. Symmetry is over chain ids, over the two devices, over
secrets, over calls and over the callers of `init`, none of which the modules tell apart.

Runs without deadlock checking are those whose bounds end in states where nothing is left to send.
`braid` checks deadlock: a packet can always be received, if only to no effect.

### What the properties say

- **Circle.** `RecordWellFormed`: an id is in a record once, limits hold. `SealedOnce`: a key seals one
  note, whatever the sender rotates to, opens or takes in of its own announcements. `SealsWhatItKept`: `seal` misses its
  secret only on a chain that the sender had dropped and has back from an announcement. `Ledger`: the steps behind a link are exactly those before the announcement, opened or sealed, trimmed or
  kept, and no step is two of these. `OpensOnce`: a note opens a second time only on a chain that was evicted
  in between. `ReplayExplained`: three reasons for a replay, no fourth.
- **Session.** `SealedOnce`: no key seals two messages. `OpensOnce`: a text comes out twice only for a first message without
  a one-time pre-key whose session was forgotten in between. `ReplayExplained`: a replay was opened, or its kept key trimmed.
  `RefusalExplained`: a genuine message that cannot be opened lost its session or lane to a limit, or is too far ahead.
  `RootsAgree`: of the two devices' roots for one session one is the other with one agreement more, never level with it and
  never further ahead. `WrappedUntilAnswered`: no message leaves its wrapper before the peer holds the session.
- **Braid.** `NeverRefuses`: no packet between two devices of this code is refused.
  `RolesMeet`. `GathersOneMessage`: what a side gathers is of one message, of this epoch's key pair, and never all that rebuilds it, so that
  each message ends its Gather. `AgreesOnEpochs`, and `EpochsAdvance`, the one liveness property.
- **PqRatchet.** `CanAlwaysSend`, `EpochsInOrder`, `KeysAgree`, `KeyGivenOnce`, `RefusalExplained`.
- **Host.** `ActsAtOnce`: every call is one step of `RecordCell`, whatever else it awaits. `KeysSentOnce`,
  `ReturnedOnce`: no key and no text twice. `FirstMessageRestarts`: a crash never leaves a first message whose session is not
  stored and whose pre-key is gone. `PinnedOnFirstUse`, `SessionsArePinned`: between two decisions of the user
  the calls pin one identity, and a stored session is with it. The types are part of the inductive invariant of `HostProofs`.
- **Client.** `ReuseExplained`, `OpenedTwiceExplained`, `LostSessionExplained`: a key sent twice, a text out twice or a session
  lost is always the work of a first message's commit over a session it had loaded before its
  awaits. `PinKept`: no call replaces a pinned identity, even so.
- **Seam.** `FreesWhatItAllocated`: whatever is freed was allocated, with that length, and is freed once.
  `LeaksExplained`: after a call that got its answer nothing stays; what can stay is what a failed gathering
  left, the outputs that could not be copied, and the outputs and the arena of a call that trapped. `SidesAgree`: arguments with their widths, structs, statuses and enum values; one argument is narrowed. `InitsAgree`: callers of `init`
  hold the instance in use unless two loads overlapped, which is when `README.md:52` of the package does not hold.
- **GroupSend.** `SplitsAsAddressed`: from each envelope `ForRecipient` gives a device its own account's part and an excluded
  account none, and `ForSingle` the only recipient's. `RegistrationsTell`: a part sealed under an identity that the account no longer has
  is listed with a registration id the account no longer has. `ReadOnce`: an installation returns a note once.

Each property comes with a mutant or two in `PROJECT.json`: a definition of the model changed as a
plausible bug in the code would change it (a limit passed by one, a kept key that stays, an
authenticator advanced on one side only), under which TLC finds the property violated in the same
run. The operators named as mutants in the modules are used for nothing else.

### Fairness

Only `braid_live` assumes any. `WF(Send)` for each side: both applications keep sending, since the braid
moves only with messages and makes no traffic of its own. `SF` for the receipt of *some* packet that
changes the receiver's state: a network that again and again has such a packet on its way in the
end delivers one. Nothing is assumed of any single packet, each of which may be lost, and nothing
of packets that have no effect. Weaker assumptions do not do: with a network that loses
every packet of one kind the code itself waits for ever.

## 4. Where the code and its documentation differ

- `host_first`. The packages load a first message's one-time pre-key before they ask the core. The second first
  message of a session is refused with `InvalidKeyId` once the pre-key was removed, though the session is there
  and needs none; the READMEs promise that such messages open, or are duplicates.
- `group_wrap`. The number of recipients of a sealed group message is written as one byte without a
  test of its range. For 256 recipients the call gives an envelope for nobody, for 257 one for the first,
  and reports no fault; its comment says "One envelope for every device of every recipient".

## 5. Proofs

### Circle

`CircleProofs` proves, for any devices, chain ids, limits and lengths,

| Theorem | States |
|---|---|
| `TypeCorrect` | `Spec => []TypeOK` |
| `RecordsWellFormed` | `Spec => []RecordWellFormed` |
| `SealsOnce` | `Spec => []SealedOnce` |
| `SealsItsOwn` | `Spec => []SealsWhatItKept` |
| `ReplaysExplained` | `Spec => []ReplayExplained` |
| `OpenedOnce` | `Spec => OpensOnce` |
| `LedgerBalances` | `Spec => []Ledger` |

from `CircleAssumption` alone: the sender is one of the devices, the bounds are naturals and a record may hold at least one member.
Nothing is assumed about `Devices` and `ChainIds` beyond that, not even that they are finite.

The argument has four invariants, the last three on top of the first.

`TypeInv` is `TypeOK`, `RecordWellFormed`, and three facts that make the step inductive. `notes` is finite (its cardinality numbers the next
note). `Named`: a record holds announced chains only, none of a key not yet made, and a key has one id; so a new chain's key is
new, and a member under another key with the same id is another chain. `NotesBehind`: every note is behind the link of its chain wherever the sender holds
that chain with its secret. `SealedOnce` is not inductive by itself: `Seal` could return to a used
step if notes were not known to be behind the link, and an announcement that comes back could take the link there if `Admitted` did not keep the member there is. The bound on kept keys needs an argument on finite sets
(`KeepSkippedBound`): the smallest kept step has fewer than `MaxSkipped` kept steps above it.

`Secrets` is for `SealsWhatItKept`: a chain that the sender holds without its secret was once dropped, and every chain announced is held by the sender
or was dropped. An announcement of a chain still held changes nothing of its member; one of a chain no longer held puts in a member of a dropped chain.

`Books` relates each device's record to its history. `Accounted`: each step behind the link and not kept was opened or sealed, trimmed, or
before the step taken in. `UsedBehind`: whatever was opened or sealed on a chain still held and never
evicted is behind its link, and not among the kept keys. `UsedHeld`: a chain on which a note was opened or sealed is in the record
or was evicted. `ReplayExplained` follows from `Accounted`, `OpensOnce` from
the last two: to open a note again its step would have to be ahead of the link or kept.

`LedgerInv` adds what `Ledger` needs beyond `Accounted`, that no step is booked twice. `TakenHeld`: a chain taken in, or
with a key trimmed, is in the record or was evicted. `JoinedOnce`: a chain never evicted was taken in at one step, so
"before the announcement" is one side of one step. For each member `Since` puts what was opened or sealed, trimmed or kept between
that step and the link, and `BookedOnce` keeps the three apart. Opening a note moves its step, and the
steps trimmed with it, out of those kept or ahead of the link, which none of the others can be (`LedgerMember`). Each
invariant was first checked by TLC on the bounds of `circle`.

### Session

`SessionProofs` proves, for any pre-key ids and any bounds on sessions, messages, key pairs, shelf, lanes, kept keys and forward jump,

| Theorem | States |
|---|---|
| `SealInvHolds` | `Spec => []SealInv` |
| `SealedOnceHolds` | `Spec => []SealedOnce` |
| `WrappedHolds` | `Spec => []WrappedUntilAnswered` |
| `TellInvHolds` | `Spec => [](SealInv /\ TellInv)` |
| `ReplayHolds` | `Spec => []ReplayExplained` |
| `HeldInvHolds` | `Spec => [](SealInv /\ TellInv /\ HeldInv)` |
| `OpensOnceHolds` | `Spec => OpensOnce` |
| `MeetInvHolds` | `Spec => [](SealInv /\ TellInv /\ HeldInv /\ Unspent(network) /\ MeetInv)` |
| `RootsAgreeHolds` | `Spec => []RootsAgree` |
| `RefusalHolds` | `Spec => []RefusalExplained` |

from `SessionAssumption` alone: the devices differ, the bounds are naturals, and the shelf and the lanes have room for one.

The first part reads the record's operators. A record holds each base once (`IsRecord`), and `shelve`, `promote` and `revive` keep it
so; what `openWithArchive` does to the state that decides is `OpensOn`, on a lane there is, or `TurnsTo`. `StepsAre` then says
of each action which state goes and which comes, and the invariants need no more of it than `Renews`: one state comes in the place of a
state with its root and sending key, or with a ratchet key pair that was never drawn before. There are four invariants, each on top of those before.

`SealInv` is the types, the shape of a state (its root begins with its base, its lanes' paths are beginnings of its root, each longer than the one before),
and `OwnRoots` with `Unsealed`: no two states, on either device, have one root or one sending key, and a message under a state's root is behind its
sending index. `SealedOnce` is not inductive without them, and they are not without `DrawnState`: whatever pair a record or a message names was drawn,
so a new root, which ends in a new pair, is no old one. A root would repeat if a session could end a turn without a fresh pair.

`TellInv` ties lanes to the history: the indices behind a lane's are kept, trimmed or those of opened messages. The key pair of a
lane gives its path (`Serials`), so a replay on a lane is about the very message. With this `ReplayExplained` has two reasons; an
earlier form allowed forgotten sessions as a third, which the proof showed to be no reason.

`HeldInv` follows one-time pre-keys from a first message to the session it made: messages of one base name one
pre-key (`OneId`), and it is gone when the base is known (`Consumed`). A message that was opened is behind its session's lane
(`Passed`), so only a session forgotten and made again opens it again, and a session that used a pre-key is not made again.

`Unspent` and `MeetInv` join the two devices. `Unspent`: the server hands a pre-key out once, so a pre-key named by a session not yet answered is there. `Paired`: of two states for a
base that neither device forgot, one has followed the other's sending key (`Ahead`), and a state without a partner is as
`start` made it. `AllSent`: a message is of its sender's newest chain or of a shorter path. `AllCovered`: its chain is one its reader has,
or dropped, or its sender's newest. The step that matters is the turn (`TurnMeets`): a message on a new lane has a path one agreement longer than its reader's root, which
only the newest chain of a sender half a turn ahead has; hence the reader ends half a turn ahead of the sender.
`RootsAgree` was strengthened for this from "at most one turn apart" to "exactly one agreement apart".

TLC checked each of the named parts on the bounds of `session_cross` and `session_deep` before it was proved, but for the types and for what is
quantified over all naturals.

### Host

`HostProofs` proves, for any messages, bundles, identities, pre-keys and bounds, and any set of calls,

| Theorem | States |
|---|---|
| `CallsKeepTheirWord` | `Spec => []IInv` |
| `HostTypes` | `Spec => []TypeOK` |
| `KeysAreSentOnce` | `Spec => []KeysSentOnce` |
| `TextsAreReturnedOnce` | `Spec => []ReturnedOnce` |
| `FirstMessagesRestart` | `Spec => []FirstMessageRestarts` |
| `OneIdentityIsPinned` | `Spec => []PinnedOnFirstUse` |
| `StoredSessionsArePinned` | `Spec => []SessionsArePinned` |
| `CallsActAtOnce` | `Spec => ActsAtOnce`, that `Host` implements `RecordCell` |
| `TheStoreNeverGoesBack` | `Spec => Cell!NeverGoesBack`, a corollary |

from the assumptions on the constants (`CoreAssumption`, `OneTimeAssumption`, `HostAssumption`) and from `OneQueue`, which each
theorem assumes in its statement. It is needed: with `OneQueue` FALSE TLC finds `ReturnedOnce`, `KeysSentOnce` and `ActsAtOnce`
violated with two calls, the load of one between the load and the store of the other. The Kotlin and Swift READMEs ask for a queue.

None of the properties is inductive: each speaks of the stores and the histories, and a call carries
what it read across several steps. `IInv` adds what holds of the calls in between. `Alone`: at most one call is under way.
`CallsHoldOn`: the record a call loaded is the stored one until it stores its own, what it found out (no fault, a trusted
identity, a pre-key that is there) is still so, and a text on its way was not returned before. `SentBelow`: each key sent is
behind its chain's index. `ReturnedAreOpened` and `LiveOnceUsed` tie the histories to the record, `PinsArePinned` the pins to the
pinned identity. `StepKeeps` has one lemma for each action; the lemmas `OpenedGrows`, `StartedGrows`, `SealedGrows` and `ResultGrows` say
of the core's calls that a record only gains. For the refinement `StoreIsOneStep` shows that storing a
record is the cell's step for the job of the call, since the stored record is still the one the core was given.
TLC checked `IInv` on the bounds of `host` before it was proved.

### Braid

`BraidProofs` proves, for any numbers of pieces, indices, epochs and packets under way,

| Theorem | States |
|---|---|
| `StatesPair` | `Spec => []IInv` |
| `NoPacketRefused` | `Spec => []NeverRefuses` |
| `RolesAlwaysMeet` | `Spec => []RolesMeet` |
| `OneMessageGathered` | `Spec => []GathersOneMessage` |
| `GathersLack` | no Gather holds its message, on either side, always |
| `BraidAgrees` | `Spec => AgreesOnEpochs`, that `Braid` implements `EpochAgreement` |

from `SystemAssumption` and what `BraidSteps` assumes of the numbers of pieces. Of the 121 pairs of states only a few
occur. `Meets(s, x)` lists those in one epoch, with `s` the side that samples the key pair and `x` the one that
encapsulates: how far each is decides how far the other can be, what `x` knows of the pair, what
both have of the capsule, and that their authenticators differ by the epoch's secret exactly when `x` has drawn it. `Turned(s, x)` is
the one pair over two epochs: `s` has learnt the secret and begun the next epoch as its
encapsulator, while `x` still sends the capsule's second half. `Packets` says of each packet on its way that its sender sends such
packets now or was past them in an earlier epoch, so a late packet is of the epoch's own messages or
too old to have an effect. The rest is one lemma for each state and direction. The only places where a check is made of
pieces are `Whole` and the authenticator, and there `Gathers` and the equal authenticators give the very message that the
check asks for: hence no refusal. That a Gather is never full (`Lacks`) is an invariant of its own over each side's state:
a piece that makes the message whole moves its state on with an empty Gather (`GathersOn`), and whatever is not gathering has none. The refinement falls out of the same
cases: a step from one pair to the next is `Offer`, `Draw`, `Learn`, `Follow` or changes nothing that the agreement sees.

### PqRatchet

`PqRatchetProofs` proves, for any secrets, limits and numbers of messages,

| Theorem | States |
|---|---|
| `StreamsFollowSecrets` | `Spec => []IInv` |
| `PqTypes` | `Spec => []TypeOK` |
| `EpochsStayInOrder` | `Spec => []EpochsInOrder` |
| `BothCanSeal` | `Spec => []CanAlwaysSend` |
| `GivesTheSealedKey` | `Spec => KeysAgree` |
| `NoKeyTwice` | `Spec => []KeyGivenOnce` |
| `EveryRefusalExplained` | `Spec => []RefusalExplained` |

`IInv` has three parts. `Agreed` is the invariant of `EpochAgreement` by itself: one side is the drawer of its epoch, and the
other is in that epoch with as many secrets or one fewer, or in the next, and the shorter list is a
prefix of the longer. `FollowsSecrets` ties a stream to that list: the epochs kept are the last ones, without a gap, each under the path
of its secrets, and those before the one sent in are closed for sending. `FlowsTell` ties each flow to the history: what it holds is behind its counter and was not given, and each
index up to the counter was given, is held, or is more than `MaxSkipped` behind the counter. `SendsBehind` and `Sealed` say of each packet which path its sender had, and that the sender
was in its epoch. `KeysAgree` compares a path with the sender's: both are prefixes of the same length of two lists of which one is
a prefix of the other. `KeyGivenOnce` and
`RefusalExplained` are read off `FlowsTell`: an index given is neither ahead of the counter nor held, and one that is
neither held nor given is too far behind.

### Client

`ClientProofs` proves, for any messages, bundles, identities and bounds, any set of calls, and without a queue,

| Theorem | States |
|---|---|
| `MemoryAccountsForAll` | `Spec => []IInv` |
| `ClientTypes` | `Spec => []TypeOK` |
| `KeyReuseIsExplained` | `Spec => []ReuseExplained` |
| `OpeningTwiceIsExplained` | `Spec => []OpenedTwiceExplained` |
| `SessionLossIsExplained` | `Spec => []LostSessionExplained` |
| `PinsAreKept` | `Spec => PinKept` |

`SavedIsHeld` is the centre: whatever the saved stores hold is in memory or was overwritten by a commit (`unseen`). `SendsOnce` and
`ReturnsOnce` account for each key and text: handed out, then it is in what the host saved; on its way, then it was not handed out
before, is in memory, and is on its way in one call only; or a commit went over it. `CanStart` says of memory and of the saved stores that each first
message has its session, its pre-key, or an overwriting commit. A restart goes back to the saved stores, which
is why both carry it.

### Seam

`SeamProofs` proves, for any exports, inputs, outputs and callers of `init`,

| Theorem | States |
|---|---|
| `MemoryIsTheCalls` | `Spec => []IInv` |
| `NothingElseLeaks` | `Spec => []LeaksExplained` |
| `FreesOnlyItsOwn` | `Spec => []FreesWhatItAllocated` |
| `OneInstanceInUse` | `Spec => []InitsAgree` |

`IInv` gives the heap at each point of a call: while it gathers, the blocks gathered so far (`InGather`); after the answer, these and a
buffer for each cell that is full (`InTake`); in `finally`, what is still to be freed, and after a failed copy or a trap what will stay (`InFree`). Between calls the heap
is what `LeaksExplained` allows. Nothing can then be freed twice, since every block freed is in the heap, with its length, until it is.

### GroupSend

`GroupSendProofs` proves, for any addresses, groups, readers and bounds,

| Theorem | States |
|---|---|
| `WhatIsLearntIsDated` | `Spec => []IInv` |
| `NoNoteTwice` | `Spec => []ReadOnce` |
| `RegistrationsTellHolds` | `Spec => []RegistrationsTell` |
| `SplitsAsAddressedHolds` | `Spec => []SplitsAsAddressed` |

`Learns` orders what the sender has of a device: the session is not of a later installation than the pinned identity, nor that of a later one
than the account is at, because the session calls store the identity first. A send reads the other way, sessions first,
so a listed registration id is never newer than the identity (`Dated`). If the ids are the present ones, so is the
identity between them. `ListsTo` says which devices the list is of so far: the first `n` that the message is for, each account in one entry,
because `WithDevice` compares accounts by the text that `getServiceIdString` makes of the parsed name and
two accounts never share one (`SameText`).

Both theorems speak of what the server parses, so they need that `parseSent` undoes `sealForMany` (`ParsesBack`), for
lists and excluded ones of any length. That is an induction over the buffer. The library's induction theorems take a predicate as a
parameter, which the provers cannot instantiate; `Steps` takes a set of numbers instead, and follows from the
least element of a set (`LeastOf`), which is the well-foundedness of strict inclusion on finite sets. Along it: `FlattenSeq` and the reader's
recursive function satisfy their recursions (`FlattenGrows`, `ReadingSteps`); each piece is where the pieces before it end
(`FlattenPlaces`); one recipient's tokens, and one excluded account's, move the reader from a list to that list
with one more (`RecipientIsRead`, by induction over the devices, and `ExcludedIsRead`). Of the sequences in `Groups` the assumption says only that they
are sequences, the addresses' being of addresses. `FewListed` counts: entries have distinct accounts, all among those addressed, so if those
are fewer than a byte counts, `Counted` leaves the list whole.

Each `IInv` was checked by TLC on the bounds of the component's run before it was proved (for `GroupSend` without the
quantifier over lists, which TLC cannot enumerate, and with `ListsTo` of the send under way).

### What is only model-checked

- `GroupSend`'s `EveryDeviceServed`, a claim of the documentation that the code does not keep: `group_wrap` violates it.
- `Seam`'s `SidesAgree`: a comparison of finite tables without a state, which TLC evaluates completely.
- `Braid`'s `EpochsAdvance`, the one liveness property, since it needs ENABLED.

## 6. What is not modelled

- A session with oneself (`withSelf`), which lifts the forward limit, older message and record versions, and
  messages bound to other addresses: each changes a guard of `Session` and none of its structure.
- 32-bit overflow of counters, out of reach of a session's length.
- The joint behaviour of the classic and the post-quantum kept keys, which are dropped by different
  rules. `Session` takes the post-quantum key as agreed; `PqRatchet` has no lanes.
- In the TypeScript package: sealed sender for one recipient; certificates, beyond that a refused one changes nothing; key
  minting (`generatePreKeys` and its like); `remove_session` and the group calls of `wasm-api.ts`; and the classes around
  keys, records, usernames, profiles and safety numbers, each a call into the core that keeps nothing.
- The JNI shim, Kotlin's and Swift's own wrappers beyond the order of their store accesses, and how the core
  answers arguments that are wrong in themselves.
- Two calls of the seam that overlap: JavaScript is one thread and a call has no await.
- Formats, primitives, usernames, account keys: pure functions over bytes or key material, where
  a model would restate the code. The chunked authentication (`chunkmac.zig`) is one worth a model and has none yet: it shares
  no state with the other parts, and `Tagger` and `Checker` are fed whole streams by the only calls that reach them from outside.

## 7. Plan

In this order, each step with its runs and, where marked, theorems:

1. `Circle`, its proofs; `Session`; `EpochAgreement`, `Braid`, `PqRatchet`; `Host`. Done.
2. `Host` with `processBundle`, identities and the refinement to `RecordCell`; `HostProofs`; `Client`; the seam; the
   sealed group send. Done.
3. `SessionProofs`, `BraidProofs`, `PqRatchetProofs`, `ClientProofs`, `SeamProofs`, `GroupSendProofs`. Done.
4. Chunked authentication: `Tagger` and `Checker` over every way to cut a stream against the chunks' definition.
5. The composition of `Session` and `PqRatchet` on one chain, for the two rules by which kept keys are dropped.
6. Single-recipient sealed sender with certificates: chain and expiry.
