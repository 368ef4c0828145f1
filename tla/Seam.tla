-------------------------------- MODULE Seam --------------------------------
(***************************************************************************)
(* The seam between JavaScript and the WebAssembly core (sdk/ts core.ts,    *)
(* bridge.ts): init loads an instance, and each call copies its inputs into *)
(* the instance's memory, runs one export, copies the outputs out and frees *)
(* everything.  An allocation can fail in the middle of the gathering, and  *)
(* the export can return a fault or trap.  JavaScript is one thread: a call *)
(* is not interrupted, the awaits of init are.                              *)
(***************************************************************************)
EXTENDS SeamCalls, FiniteSets

CONSTANTS
  Names,         \* the exports that are called
  Callers,       \* the callers of init
  MaxInstances   \* bound: instances of the core that are made

ASSUME SeamAssumption == Names \subseteq DOMAIN Gathered /\ MaxInstances \in Nat \ {0}

VARIABLES
  exports,   \* the instance in use, 0 before there is one
  inits,     \* [Callers -> what each has: nothing, an init under way, an instance]
  heap,      \* the blocks allocated in the instance's memory
  now,       \* the call under way
  ended,     \* how the last call ended
  misfreed,  \* history: blocks freed that were not allocated as such
  overlaps   \* history: whether an instance was adopted while another was under way

vars == <<exports, inits, heap, now, ended, misfreed, overlaps>>

NoCall == [at |-> "none"]
NotEnded == [name |-> "none", how |-> "none", blocks |-> {}]
Nothing == 0
Loading == -1

Init ==
  /\ exports = 0 /\ inits = [c \in Callers |-> Nothing]
  /\ heap = {} /\ now = NoCall /\ ended = NotEnded
  /\ misfreed = {} /\ overlaps = FALSE

-----------------------------------------------------------------------------
(* init and initSync. *)

\* The instances made so far: every one was adopted.
Adopt(c) ==
  /\ exports < MaxInstances
  /\ exports' = exports + 1
  /\ inits' = [inits EXCEPT ![c] = exports + 1]
  /\ heap' = {}
  /\ ended' = NotEnded
  /\ overlaps' = (overlaps \/ \E d \in Callers \ {c} : inits[d] = Loading)

\* Mutant of BeginInit: it loads whether or not there is an instance.
BeginInitAnyway(c) ==
  /\ now = NoCall /\ inits[c] # Loading
  /\ inits' = [inits EXCEPT ![c] = Loading]
  /\ UNCHANGED <<exports, heap, now, ended, misfreed, overlaps>>

\* init as far as its first await; when there is an instance it is the answer.
BeginInit(c) ==
  /\ now = NoCall /\ inits[c] # Loading
  /\ inits' = [inits EXCEPT ![c] = IF exports = 0 THEN Loading ELSE exports]
  /\ UNCHANGED <<exports, heap, now, ended, misfreed, overlaps>>

\* adopt: the instance that was awaited is the one in use from now on.
EndInit(c) ==
  /\ now = NoCall /\ inits[c] = Loading
  /\ Adopt(c)
  /\ UNCHANGED <<now, misfreed>>

\* The module could not be fetched or instantiated.
FailInit(c) ==
  /\ now = NoCall /\ inits[c] = Loading
  /\ inits' = [inits EXCEPT ![c] = Nothing]
  /\ UNCHANGED <<exports, heap, now, ended, misfreed, overlaps>>

InitSync(c) ==
  /\ now = NoCall /\ inits[c] # Loading /\ exports = 0
  /\ Adopt(c)
  /\ UNCHANGED <<now, misfreed>>

-----------------------------------------------------------------------------
(* A call. *)

Items(name) == IF name = "gv_session_start" THEN StartGathered ELSE Gathered[name]

\* The block an item is copied to: a cell is eight bytes, a pad as long as asked,
\* an input or an output as long as it happens to be.
InputLen == -1
OutputLen == -2
Block(i, item) ==
  [item |-> i, len |-> CASE item.is = "out" -> 8
                          [] item.is = "pad" -> item.len
                          [] OTHER -> InputLen]
Buffer(i) == [item |-> i, len |-> OutputLen]

\* What the core allocates for one call alone, and frees when the call returns.
Arena == [item |-> 0, len |-> OutputLen]

\* reserve throws when the core has no memory left.
Throw(how) ==
  /\ now' = NoCall
  /\ ended' = [name |-> now.name, how |-> how, blocks |-> now.blocks]
  /\ UNCHANGED <<exports, inits, misfreed, overlaps>>

\* loaded: there is no call without an instance.  Bound: a call is only begun
\* while the one before it has left nothing.
BeginCall(name) ==
  /\ now = NoCall /\ exports # 0 /\ heap = {}
  /\ now' = [at |-> "gather", name |-> name, next |-> 1, blocks |-> {}]
  /\ UNCHANGED <<exports, inits, heap, ended, misfreed, overlaps>>

Item == Items(now.name)[now.next]
Gathering == now.at = "gather" /\ now.next <= Len(Items(now.name))

\* A scalar takes no memory, and neither does an empty input.
GatherNone ==
  /\ Gathering /\ Item.is \in {"num", "byte", "big", "bytes"}
  /\ now' = [now EXCEPT !.next = @ + 1]
  /\ UNCHANGED <<exports, inits, heap, ended, misfreed, overlaps>>

GatherBlock ==
  LET block == Block(now.next, Item) IN
  /\ Gathering /\ Item.is \in {"bytes", "out", "pad"}
  /\ heap' = heap \cup {block}
  /\ now' = [now EXCEPT !.next = @ + 1, !.blocks = @ \cup {block}]
  /\ UNCHANGED <<exports, inits, ended, misfreed, overlaps>>

\* gv_alloc gives null.
GatherFails ==
  /\ Gathering /\ Item.is \in {"bytes", "out", "pad"}
  /\ Throw("no memory")
  /\ UNCHANGED heap

\* gv_alloc's answer is a signed number in JavaScript: past two gigabytes it is
\* negative, and the view that fills the block cannot be made.
GatherPastTheView ==
  /\ Gathering /\ Item.is \in {"bytes", "out", "pad"}
  /\ heap' = heap \cup {Block(now.next, Item)}
  /\ Throw("no view")

Blocks(is) == {b \in now.blocks : Items(now.name)[b.item].is \in is}

\* The export runs and fills the cells it is given, each with a buffer or, for an
\* empty output, with nothing.
Invoke ==
  /\ now.at = "gather" /\ now.next > Len(Items(now.name))
  /\ \E full \in SUBSET {b.item : b \in Blocks({"out"})} :
       /\ heap' = heap \cup {Buffer(i) : i \in full}
       /\ now' = [at |-> "take", name |-> now.name, how |-> "answered", cells |-> full,
                  blocks |-> now.blocks]
  /\ UNCHANGED <<exports, inits, ended, misfreed, overlaps>>

\* Mutant of Fault: the cells still point at the buffers taken back.
FaultKeepingCells ==
  /\ now.at = "gather" /\ now.next > Len(Items(now.name))
  /\ now' = [at |-> "take", name |-> now.name, how |-> "answered",
             cells |-> {b.item : b \in Blocks({"out"})}, blocks |-> now.blocks]
  /\ UNCHANGED <<exports, inits, heap, ended, misfreed, overlaps>>

\* A status other than ok: close has taken back every buffer given, and the cells
\* are empty.
Fault ==
  /\ now.at = "gather" /\ now.next > Len(Items(now.name))
  /\ now' = [at |-> "take", name |-> now.name, how |-> "answered", cells |-> {},
             blocks |-> now.blocks]
  /\ UNCHANGED <<exports, inits, heap, ended, misfreed, overlaps>>

\* The core panics and its deferred frees are skipped: no output is taken and the
\* call's arena, if it has come to allocate one, stays; the inputs are freed all
\* the same.
Trap ==
  /\ now.at = "gather" /\ now.next > Len(Items(now.name))
  /\ \E full \in SUBSET {b.item : b \in Blocks({"out"})}, arena \in SUBSET {Arena} :
       heap' = heap \cup {Buffer(i) : i \in full} \cup arena
  /\ now' = [at |-> "free", name |-> now.name, how |-> "trapped", blocks |-> now.blocks]
  /\ UNCHANGED <<exports, inits, ended, misfreed, overlaps>>

\* gv_free of these blocks.
Frees(blocks) ==
  /\ heap' = heap \ blocks
  /\ misfreed' = misfreed \cup (blocks \ heap)

\* Out.take of every output: the buffer and the cell.
Take ==
  /\ now.at = "take"
  /\ Frees({Buffer(i) : i \in now.cells} \cup Blocks({"out"}))
  /\ now' = [at |-> "free", name |-> now.name, how |-> now.how, blocks |-> now.blocks]
  /\ UNCHANGED <<exports, inits, ended, overlaps>>

\* JavaScript has no memory for the copy of an output: those before it are taken,
\* it and those after it stay, and `finally` runs.
TakeFails ==
  /\ now.at = "take"
  /\ \E fails \in now.cells :
       Frees({Buffer(i) : i \in {j \in now.cells : j < fails}}
               \cup {b \in Blocks({"out"}) : b.item < fails})
  /\ now' = [at |-> "free", name |-> now.name, how |-> "no copy", blocks |-> now.blocks]
  /\ UNCHANGED <<exports, inits, ended, overlaps>>

\* Mutant of Held: the pads are forgotten.
HeldInputs == Blocks({"bytes"})

\* What `finally` frees.
Held == Blocks({"bytes", "pad"})

Free ==
  /\ now.at = "free"
  /\ Frees(Held)
  /\ now' = NoCall
  /\ ended' = [name |-> now.name, how |-> now.how, blocks |-> now.blocks]
  /\ UNCHANGED <<exports, inits, overlaps>>

Next ==
  \/ \E c \in Callers : BeginInit(c) \/ EndInit(c) \/ FailInit(c) \/ InitSync(c)
  \/ \E name \in Names : BeginCall(name)
  \/ GatherNone \/ GatherBlock \/ GatherFails \/ GatherPastTheView
  \/ Invoke \/ Fault \/ Trap \/ Take \/ TakeFails \/ Free

Spec == Init /\ [][Next]_vars

-----------------------------------------------------------------------------
(* Properties. *)

IsOutput(name, b) == Items(name)[b.item].is = "out"

\* core.ts:1-3, "no wasm memory outlives a call": of a call that got its answer,
\* ok or a fault, nothing stays.  What stays is all that a call had gathered when
\* it could gather no more, the outputs that could not be copied, and the outputs
\* and the arena of a call that trapped.
LeaksExplained ==
  now = NoCall /\ heap # {} =>
    \/ ended.how = "no memory" /\ heap = ended.blocks
    \/ ended.how = "no view" /\ ended.blocks \subseteq heap /\ Cardinality(heap \ ended.blocks) = 1
    \/ ended.how = "no copy" /\ \A b \in heap : IsOutput(ended.name, b)
    \/ ended.how = "trapped" /\ \A b \in heap : b = Arena \/ IsOutput(ended.name, b)

\* gv_free trusts its caller: whatever is freed is a block as it was allocated,
\* once, on every path through finish, take and close.
FreesWhatItAllocated == misfreed = {}

\* Every call hands each export as many arguments as it declares, each in its
\* place and of its width, and pads that hold what is written to them.  Of one
\* alone the width is not seen to: api.ts:1415 hands on its caller's device.
ArgumentsFit ==
  /\ DOMAIN Gathered = DOMAIN Declared
  /\ \A name \in DOMAIN Gathered :
       /\ Len(Gathered[name]) = Len(Declared[name])
       /\ \A i \in 1..Len(Declared[name]) :
            /\ Fits(Gathered[name][i], Declared[name][i])
            /\ Narrows(Gathered[name][i], Declared[name][i]) => name = "gv_envelope_for_recipient"

\* Each field that the wrapper reads or writes is where wasm32 puts it and as
\* wide, and each length of a bundle's part follows its pointer.
LayoutsAgree ==
  /\ \A layout \in Layouts : layout[2] \subseteq Lay(layout[1]).fields
  /\ PublishedLens = {f[2] + 4 : f \in {f \in Lay(GvPublished).fields : f[1] \in ToSet(SlotNames)}}

\* Neither compiler sees both sides of the seam, and a call cannot notice that they
\* differ: where one is made, the wrapper and gossveil.zig agree on every argument,
\* every struct, every status and every number that stands for a kind of thing.
SidesAgree == now # NoCall => ArgumentsFit /\ LayoutsAgree /\ NumbersMatch

\* sdk/ts/README.md:52, "Calling init() twice is free": a caller of init holds
\* the instance in use, unless two were under way at once.
InitsAgree ==
  \A c \in Callers : inits[c] \in {Nothing, Loading, exports} \/ overlaps
=============================================================================
