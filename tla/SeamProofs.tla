----------------------------- MODULE SeamProofs -----------------------------
(***************************************************************************)
(* A call across the seam, for any exports, any inputs and outputs, and any *)
(* callers of init: at each of its steps the instance's memory holds the    *)
(* call's own blocks and the buffers that the export gave it, no others.    *)
(***************************************************************************)
EXTENDS Seam, FiniteSetTheorems, TLAPS

-----------------------------------------------------------------------------
(* The inductive invariant. *)

Is(name, i) == Items(name)[i].is
Allocated == {"bytes", "out", "pad"}

\* The blocks a call has gathered, all of items that it has passed.
Gathers(name, next, blocks) ==
  \A b \in blocks : b.item \in 1..(next - 1) /\ Is(name, b.item) \in Allocated

\* Of a call's blocks, those that are inputs, pads, or cells.
Of(name, blocks, what) == {b \in blocks : Is(name, b.item) \in what}

BetweenCalls == now = NoCall /\ LeaksExplained

InGather ==
  /\ now.at = "gather"
  /\ now = [at |-> "gather", name |-> now.name, next |-> now.next, blocks |-> now.blocks]
  /\ now.next \in Nat \ {0}
  /\ Gathers(now.name, now.next, now.blocks)
  /\ heap = now.blocks

\* The export answered: the memory has what it put into the cells besides.
InTake ==
  /\ now.at = "take"
  /\ now = [at |-> "take", name |-> now.name, how |-> "answered", cells |-> now.cells,
            blocks |-> now.blocks]
  /\ \A b \in now.blocks : Is(now.name, b.item) \in Allocated
  /\ \A i \in now.cells : Is(now.name, i) = "out"
  /\ heap = now.blocks \cup {Buffer(i) : i \in now.cells}

\* What `finally` will free is there; after a trap, the outputs are as well.
InFree ==
  /\ now.at = "free"
  /\ now = [at |-> "free", name |-> now.name, how |-> now.how, blocks |-> now.blocks]
  /\ now.how \in {"answered", "no copy", "trapped"}
  /\ Of(now.name, now.blocks, {"bytes", "pad"}) \subseteq heap
  /\ \A b \in heap :
       \/ b \in Of(now.name, now.blocks, {"bytes", "pad"})
       \/ now.how # "answered" /\ Is(now.name, b.item) = "out"
       \/ now.how = "trapped" /\ b = Arena

\* Without two inits at once, every caller has the instance in use; one is awaited
\* only while there is none.
OneInstance ==
  overlaps \/ \A c \in Callers :
                /\ inits[c] \in {Nothing, Loading, exports}
                /\ inits[c] = Loading => exports = 0

SeamTypes ==
  /\ exports \in 0..MaxInstances
  /\ inits \in [Callers -> {Nothing, Loading} \cup (1..MaxInstances)]
  /\ overlaps \in BOOLEAN

IInv ==
  /\ SeamTypes
  /\ BetweenCalls \/ InGather \/ InTake \/ InFree
  /\ misfreed = {}
  /\ OneInstance

-----------------------------------------------------------------------------
(* A call is in one of the states and in no other. *)

LEMMA AtOne ==
  ASSUME IInv
  PROVE  /\ now = NoCall => BetweenCalls
         /\ now.at = "gather" => InGather
         /\ now.at = "take" => InTake
         /\ now.at = "free" => InFree
<1>1. /\ BetweenCalls => now.at = "none"
      /\ now = NoCall => now.at = "none"
  BY DEF BetweenCalls, NoCall
<1>2. /\ InGather => now.at = "gather"
      /\ InTake => now.at = "take"
      /\ InFree => now.at = "free"
  BY DEF InGather, InTake, InFree
<1>3. BetweenCalls \/ InGather \/ InTake \/ InFree
  BY DEF IInv
<1>. QED
  BY <1>1, <1>2, <1>3

-----------------------------------------------------------------------------
(* The callers of init. *)

LEMMA AdoptKeeps ==
  ASSUME IInv, NEW c \in Callers, inits[c] = Loading \/ exports = 0, Adopt(c)
  PROVE  SeamTypes' /\ OneInstance'
<1>1. /\ exports \in Nat /\ exports < MaxInstances /\ MaxInstances \in Nat
      /\ inits \in [Callers -> {Nothing, Loading} \cup (1..MaxInstances)]
      /\ exports' = exports + 1 /\ inits' = [inits EXCEPT ![c] = exports + 1]
      /\ overlaps' = (overlaps \/ \E d \in Callers \ {c} : inits[d] = Loading)
  BY SeamAssumption DEF IInv, SeamTypes, Adopt
<1>2. SeamTypes'
  BY <1>1 DEF SeamTypes, IInv
<1>3. ASSUME ~ overlaps', NEW d \in Callers
      PROVE  inits'[d] \in {Nothing, Loading, exports'} /\ inits'[d] # Loading
  <2>1. ~ overlaps /\ \A x \in Callers \ {c} : inits[x] # Loading
    BY <1>1, <1>3
  <2>2. /\ inits[d] \in {Nothing, Loading, exports}
        /\ inits[d] = Loading => exports = 0
        /\ inits[c] = Loading => exports = 0
    BY <2>1 DEF IInv, OneInstance
  <2>3. exports = 0
    BY <2>2
  <2>4. CASE d = c
    BY <1>1, <2>4 DEF Nothing, Loading
  <2>5. CASE d # c
    BY <1>1, <2>1, <2>2, <2>3, <2>5 DEF Nothing, Loading
  <2>. QED
    BY <2>4, <2>5
<1>. QED
  BY <1>2, <1>3 DEF OneInstance

LEMMA InitKeeps ==
  ASSUME IInv, NEW c \in Callers, BeginInit(c) \/ EndInit(c) \/ FailInit(c) \/ InitSync(c)
  PROVE  IInv'
<1>1. BetweenCalls /\ now' = now /\ misfreed' = misfreed
  BY AtOne DEF BeginInit, EndInit, FailInit, InitSync
<1>2. CASE EndInit(c) \/ InitSync(c)
  <2>1. SeamTypes' /\ OneInstance'
    BY <1>2, AdoptKeeps DEF EndInit, InitSync
  <2>2. BetweenCalls'
    BY <1>1, <1>2 DEF BetweenCalls, LeaksExplained, EndInit, InitSync, Adopt
  <2>. QED
    BY <1>1, <2>1, <2>2 DEF IInv
<1>3. CASE BeginInit(c) \/ FailInit(c)
  <2>1. /\ UNCHANGED <<exports, heap, ended, overlaps>>
        /\ \/ inits' = [inits EXCEPT ![c] = IF exports = 0 THEN Loading ELSE exports]
           \/ inits' = [inits EXCEPT ![c] = Nothing]
    BY <1>3 DEF BeginInit, FailInit
  <2>2. SeamTypes'
    BY <2>1 DEF IInv, SeamTypes
  <2>3. OneInstance'
    <3>1. inits \in [Callers -> {Nothing, Loading} \cup (1..MaxInstances)]
      BY DEF IInv, SeamTypes
    <3>2. \A d \in Callers :
            \/ inits'[d] = inits[d] \/ inits'[d] = Nothing
            \/ inits'[d] = Loading /\ exports = 0
            \/ inits'[d] = exports /\ exports # 0
      BY <2>1, <3>1
    <3>3. exports \in Nat /\ OneInstance
      BY DEF IInv, SeamTypes
    <3>. QED
      BY <2>1, <3>2, <3>3 DEF OneInstance, Nothing, Loading
  <2>4. BetweenCalls'
    BY <1>1, <2>1 DEF BetweenCalls, LeaksExplained
  <2>. QED
    BY <1>1, <2>2, <2>3, <2>4 DEF IInv
<1>. QED
  BY <1>2, <1>3

-----------------------------------------------------------------------------
(* The steps of a call. *)

\* What the steps leave alone of the rest.
Apart == UNCHANGED <<exports, inits, overlaps>>

LEMMA ApartKeeps == IInv /\ Apart => SeamTypes' /\ OneInstance'
BY DEF Apart, IInv, SeamTypes, OneInstance

LEMMA BeginCallKeeps ==
  ASSUME IInv, NEW name \in Names, BeginCall(name)
  PROVE  IInv'
<1>1. InGather'
  BY DEF BeginCall, InGather, Gathers
<1>. QED
  BY <1>1, ApartKeeps DEF IInv, Apart, BeginCall

LEMMA GatherNoneKeeps ==
  ASSUME IInv, GatherNone
  PROVE  IInv'
<1>1. InGather
  BY AtOne DEF GatherNone, Gathering
<1>2. PICK name, next, blocks :
        now = [at |-> "gather", name |-> name, next |-> next, blocks |-> blocks]
  BY <1>1 DEF InGather
<1>3. now' = [at |-> "gather", name |-> name, next |-> next + 1, blocks |-> blocks]
      /\ heap' = heap
  BY <1>2 DEF GatherNone
<1>4. InGather'
  BY <1>1, <1>2, <1>3 DEF InGather, Gathers
<1>. QED
  BY <1>4, ApartKeeps DEF IInv, Apart, GatherNone

\* The block that is asked for is of the item that is next.
LEMMA NextBlock ==
  ASSUME IInv, Gathering, Item.is \in Allocated
  PROVE  /\ InGather
         /\ Block(now.next, Item).item = now.next /\ Block(now.next, Item) \notin now.blocks
         /\ Gathers(now.name, now.next + 1, now.blocks \cup {Block(now.next, Item)})
<1>1. InGather
  BY AtOne DEF Gathering
<1>2. PICK block : block = Block(now.next, Item)
  OBVIOUS
<1>3. block.item = now.next
  BY <1>2 DEF Block
<1>4. Is(now.name, now.next) \in Allocated
  BY DEF Item, Is
<1>5. /\ now.next \in Nat \ {0}
      /\ \A b \in now.blocks : b.item \in 1..(now.next - 1) /\ Is(now.name, b.item) \in Allocated
  BY <1>1 DEF InGather, Gathers
<1>6. block \notin now.blocks
  BY <1>3, <1>5
<1>7. Gathers(now.name, now.next + 1, now.blocks \cup {block})
  BY <1>3, <1>4, <1>5 DEF Gathers
<1>. QED
  BY <1>1, <1>2, <1>3, <1>6, <1>7

LEMMA GatherBlockKeeps ==
  ASSUME IInv, GatherBlock
  PROVE  IInv'
<1>1. PICK block : block = Block(now.next, Item)
  OBVIOUS
<1>2. /\ InGather /\ Gathers(now.name, now.next + 1, now.blocks \cup {block})
  BY <1>1, NextBlock DEF GatherBlock, Allocated
<1>3. PICK name, next, blocks :
        now = [at |-> "gather", name |-> name, next |-> next, blocks |-> blocks]
  BY <1>2 DEF InGather
<1>4. /\ now' = [at |-> "gather", name |-> name, next |-> next + 1, blocks |-> blocks \cup {block}]
      /\ heap' = heap \cup {block}
  BY <1>1, <1>3 DEF GatherBlock
<1>5. InGather'
  BY <1>2, <1>3, <1>4 DEF InGather
<1>. QED
  BY <1>5, ApartKeeps DEF IInv, Apart, GatherBlock

LEMMA GatherFailsKeeps ==
  ASSUME IInv, GatherFails
  PROVE  IInv'
<1>1. InGather
  BY AtOne DEF GatherFails, Gathering
<1>2. /\ now' = NoCall /\ ended' = [name |-> now.name, how |-> "no memory", blocks |-> now.blocks]
      /\ heap' = heap
  BY DEF GatherFails, Throw
<1>3. BetweenCalls'
  BY <1>1, <1>2 DEF InGather, BetweenCalls, LeaksExplained
<1>. QED
  BY <1>3, ApartKeeps DEF IInv, Apart, GatherFails, Throw

LEMMA GatherPastTheViewKeeps ==
  ASSUME IInv, GatherPastTheView
  PROVE  IInv'
<1>1. PICK block : block = Block(now.next, Item)
  OBVIOUS
<1>2. InGather /\ block \notin now.blocks
  BY <1>1, NextBlock DEF GatherPastTheView, Allocated
<1>3. /\ now' = NoCall /\ ended' = [name |-> now.name, how |-> "no view", blocks |-> now.blocks]
      /\ heap' = heap \cup {block}
  BY <1>1 DEF GatherPastTheView, Throw
<1>4. ended'.blocks \subseteq heap' /\ heap' \ ended'.blocks = {block}
  BY <1>2, <1>3 DEF InGather
<1>5. Cardinality(heap' \ ended'.blocks) = 1
  BY <1>4, FS_Singleton
<1>6. BetweenCalls'
  BY <1>3, <1>4, <1>5 DEF BetweenCalls, LeaksExplained
<1>. QED
  BY <1>6, ApartKeeps DEF IInv, Apart, GatherPastTheView, Throw

\* Only cells are filled.
LEMMA CellsAreOutputs ==
  ASSUME NEW full \in SUBSET {b.item : b \in Blocks({"out"})}
  PROVE  \A i \in full : Is(now.name, i) = "out"
BY DEF Blocks, Is

LEMMA InvokeKeeps ==
  ASSUME IInv, Invoke \/ Fault
  PROVE  IInv'
<1>1. InGather
  BY AtOne DEF Invoke, Fault
<1>2. PICK full \in SUBSET {b.item : b \in Blocks({"out"})} :
        /\ heap' = heap \cup {Buffer(i) : i \in full}
        /\ now' = [at |-> "take", name |-> now.name, how |-> "answered", cells |-> full,
                   blocks |-> now.blocks]
  BY DEF Invoke, Fault
<1>3. /\ now'.name = now.name /\ now'.cells = full /\ now'.blocks = now.blocks
      /\ now' = [at |-> "take", name |-> now'.name, how |-> "answered", cells |-> now'.cells,
                 blocks |-> now'.blocks]
  BY <1>2
<1>4. \A i \in full : Is(now.name, i) = "out"
  BY CellsAreOutputs
<1>5. InTake'
  BY <1>1, <1>2, <1>3, <1>4 DEF InTake, InGather, Gathers, Is, Items
<1>. QED
  BY <1>5, ApartKeeps DEF IInv, Apart, Invoke, Fault

LEMMA TrapKeeps ==
  ASSUME IInv, Trap
  PROVE  IInv'
<1>1. InGather
  BY AtOne DEF Trap
<1>2. PICK full \in SUBSET {b.item : b \in Blocks({"out"})}, arena \in SUBSET {Arena} :
        heap' = heap \cup {Buffer(i) : i \in full} \cup arena
  BY DEF Trap
<1>3. now' = [at |-> "free", name |-> now.name, how |-> "trapped", blocks |-> now.blocks]
  BY DEF Trap
<1>4. \A i \in full : Is(now.name, i) = "out" /\ Buffer(i).item = i
  BY CellsAreOutputs DEF Buffer
<1>5. \A b \in now.blocks : Is(now.name, b.item) \in Allocated
  BY <1>1 DEF InGather, Gathers
<1>6. PICK name, blocks : name = now.name /\ blocks = now.blocks
  OBVIOUS
<1>7. \A b \in heap' : \/ b \in Of(name, blocks, {"bytes", "pad"})
                       \/ Is(name, b.item) = "out" \/ b = Arena
  BY <1>1, <1>2, <1>4, <1>5, <1>6 DEF InGather, Of, Allocated
<1>8. Of(name, blocks, {"bytes", "pad"}) \subseteq heap'
  BY <1>1, <1>2, <1>6 DEF InGather, Of
<1>9. InFree'
  BY <1>3, <1>6, <1>7, <1>8 DEF InFree
<1>. QED
  BY <1>9, ApartKeeps DEF IInv, Apart, Trap

LEMMA TakeKeeps ==
  ASSUME IInv, Take
  PROVE  IInv'
<1>1. InTake
  BY AtOne DEF Take
<1>. DEFINE name == now.name
            blocks == now.blocks
            taken == {Buffer(i) : i \in now.cells} \cup Blocks({"out"})
<1>2. /\ heap = blocks \cup {Buffer(i) : i \in now.cells} /\ now.how = "answered"
      /\ \A b \in blocks : Is(name, b.item) \in Allocated
      /\ \A i \in now.cells : Is(name, i) = "out" /\ Buffer(i).item = i
  BY <1>1 DEF InTake, Buffer
<1>3. Blocks({"out"}) = Of(name, blocks, {"out"})
  BY DEF Blocks, Of, Is
<1>4. /\ heap' = heap \ taken /\ misfreed' = misfreed \cup (taken \ heap)
      /\ now' = [at |-> "free", name |-> name, how |-> "answered", blocks |-> blocks]
  BY <1>2 DEF Take, Frees
<1>5. taken \subseteq heap
  BY <1>2, <1>3 DEF Of
<1>6. heap' = Of(name, blocks, {"bytes", "pad"})
  <2>1. \A b \in heap' : b \in blocks /\ Is(name, b.item) \in {"bytes", "pad"}
    BY <1>2, <1>3, <1>4 DEF Of, Allocated
  <2>2. \A b \in blocks : Is(name, b.item) \in {"bytes", "pad"} => b \in heap /\ b \notin taken
    BY <1>2, <1>3 DEF Of
  <2>. QED
    BY <1>4, <2>1, <2>2 DEF Of
<1>7. PICK n, bs : n = name /\ bs = blocks
  OBVIOUS
<1>8. InFree'
  <2>1. heap' = Of(n, bs, {"bytes", "pad"})
    BY <1>6, <1>7
  <2>2. now' = [at |-> "free", name |-> n, how |-> "answered", blocks |-> bs]
    BY <1>4, <1>7
  <2>. QED
    BY <2>1, <2>2 DEF InFree
<1>9. misfreed' = {}
  BY <1>4, <1>5 DEF IInv
<1>. QED
  BY <1>8, <1>9, ApartKeeps DEF IInv, Apart, Take

LEMMA TakeFailsKeeps ==
  ASSUME IInv, TakeFails
  PROVE  IInv'
<1>1. InTake
  BY AtOne DEF TakeFails
<1>2. PICK n, bs : n = now.name /\ bs = now.blocks
  OBVIOUS
<1>3. PICK fails \in now.cells :
        Frees({Buffer(i) : i \in {j \in now.cells : j < fails}}
                \cup {b \in Blocks({"out"}) : b.item < fails})
  BY DEF TakeFails
<1>4. PICK taken : taken = {Buffer(i) : i \in {j \in now.cells : j < fails}}
                             \cup {b \in Blocks({"out"}) : b.item < fails}
  OBVIOUS
<1>5. /\ heap' = heap \ taken /\ misfreed' = misfreed \cup (taken \ heap)
      /\ now' = [at |-> "free", name |-> n, how |-> "no copy", blocks |-> bs]
  BY <1>2, <1>3, <1>4 DEF TakeFails, Frees
<1>6. /\ heap = bs \cup {Buffer(i) : i \in now.cells}
      /\ \A b \in bs : Is(n, b.item) \in Allocated
      /\ \A i \in now.cells : Is(n, i) = "out" /\ Buffer(i).item = i
  BY <1>1, <1>2 DEF InTake, Buffer
<1>7. Blocks({"out"}) = Of(n, bs, {"out"})
  BY <1>2 DEF Blocks, Of, Is
<1>8. /\ taken \subseteq heap
      /\ \A b \in taken : Is(n, b.item) = "out"
  BY <1>4, <1>6, <1>7 DEF Of
<1>9. \A b \in heap' : b \in Of(n, bs, {"bytes", "pad"}) \/ Is(n, b.item) = "out"
  BY <1>5, <1>6 DEF Of, Allocated
<1>10. Of(n, bs, {"bytes", "pad"}) \subseteq heap'
  BY <1>5, <1>6, <1>8 DEF Of
<1>11. InFree'
  BY <1>5, <1>9, <1>10 DEF InFree
<1>12. misfreed' = {}
  BY <1>5, <1>8 DEF IInv
<1>. QED
  BY <1>11, <1>12, ApartKeeps DEF IInv, Apart, TakeFails

LEMMA FreeKeeps ==
  ASSUME IInv, Free
  PROVE  IInv'
<1>1. InFree
  BY AtOne DEF Free
<1>2. PICK n, bs, how : n = now.name /\ bs = now.blocks /\ how = now.how
  OBVIOUS
<1>3. Held = Of(n, bs, {"bytes", "pad"})
  BY <1>2 DEF Held, Blocks, Of, Is
<1>4. Held \subseteq heap /\ how \in {"answered", "no copy", "trapped"}
  BY <1>1, <1>2, <1>3 DEF InFree
<1>5. \A b \in heap :
         \/ b \in Held
         \/ how # "answered" /\ Is(n, b.item) = "out"
         \/ how = "trapped" /\ b = Arena
  BY <1>1, <1>2, <1>3 DEF InFree
<1>6. /\ heap' = heap \ Held /\ misfreed' = misfreed \cup (Held \ heap) /\ now' = NoCall
      /\ ended' = [name |-> n, how |-> how, blocks |-> bs]
  BY <1>2 DEF Free, Frees
<1>7. heap' # {} =>
        \/ ended'.how = "no copy" /\ \A b \in heap' : IsOutput(ended'.name, b)
        \/ ended'.how = "trapped" /\ \A b \in heap' : b = Arena \/ IsOutput(ended'.name, b)
  BY <1>4, <1>5, <1>6 DEF Is, IsOutput
<1>8. BetweenCalls'
  BY <1>6, <1>7 DEF BetweenCalls, LeaksExplained
<1>9. misfreed' = {}
  BY <1>4, <1>6 DEF IInv
<1>. QED
  BY <1>8, <1>9, ApartKeeps DEF IInv, Apart, Free

LEMMA InitHolds == Init => IInv
<1>. SUFFICES ASSUME Init  PROVE IInv
  OBVIOUS
<1>1. BetweenCalls
  BY DEF Init, BetweenCalls, LeaksExplained
<1>2. SeamTypes
  <2>1. inits \in [Callers -> {Nothing, Loading} \cup (1..MaxInstances)]
    BY DEF Init
  <2>2. exports \in 0..MaxInstances
    BY SeamAssumption DEF Init
  <2>. QED
    BY <2>1, <2>2 DEF Init, SeamTypes
<1>3. OneInstance
  BY DEF Init, OneInstance, Loading, Nothing
<1>. QED
  BY <1>1, <1>2, <1>3 DEF Init, IInv

LEMMA StepKeeps == IInv /\ [Next]_vars => IInv'
<1>. SUFFICES ASSUME IInv, [Next]_vars  PROVE IInv'
  OBVIOUS
<1>1. ASSUME NEW c \in Callers, BeginInit(c) \/ EndInit(c) \/ FailInit(c) \/ InitSync(c)
      PROVE  IInv'
  BY <1>1, InitKeeps
<1>2. ASSUME NEW name \in Names, BeginCall(name)
      PROVE  IInv'
  BY <1>2, BeginCallKeeps
<1>3. CASE GatherNone
  BY <1>3, GatherNoneKeeps
<1>4. CASE GatherBlock
  BY <1>4, GatherBlockKeeps
<1>5. CASE GatherFails
  BY <1>5, GatherFailsKeeps
<1>6. CASE GatherPastTheView
  BY <1>6, GatherPastTheViewKeeps
<1>7. CASE Invoke \/ Fault
  BY <1>7, InvokeKeeps
<1>8. CASE Trap
  BY <1>8, TrapKeeps
<1>9. CASE Take
  BY <1>9, TakeKeeps
<1>10. CASE Free
  BY <1>10, FreeKeeps
<1>11. CASE TakeFails
  BY <1>11, TakeFailsKeeps
<1>12. CASE UNCHANGED vars
  <2>1. /\ exports' = exports /\ inits' = inits /\ heap' = heap /\ now' = now /\ ended' = ended
        /\ misfreed' = misfreed /\ overlaps' = overlaps
    BY <1>12 DEF vars
  <2>2. BetweenCalls' = BetweenCalls
    BY <2>1 DEF BetweenCalls, LeaksExplained
  <2>3. InGather' = InGather
    BY <2>1 DEF InGather
  <2>4. InTake' = InTake
    BY <2>1 DEF InTake
  <2>5. InFree' = InFree
    BY <2>1 DEF InFree
  <2>. QED
    BY <2>1, <2>2, <2>3, <2>4, <2>5, ApartKeeps DEF IInv, Apart
<1>. QED
  BY <1>1, <1>2, <1>3, <1>4, <1>5, <1>6, <1>7, <1>8, <1>9, <1>10, <1>11, <1>12 DEF Next

\* At each step of a call the memory holds the blocks it gathered and the buffers
\* the export gave it (bridge.ts, class Call), and no second instance is awaited
\* where one is in use, unless two inits were under way at once (core.ts).
THEOREM MemoryIsTheCalls == Spec => []IInv
BY InitHolds, StepKeeps, PTL DEF Spec

-----------------------------------------------------------------------------
(* What follows. *)

\* No export leaves memory behind when it answers, ok or with a fault; what a
\* failed allocation or a trap leaves is told exactly.
THEOREM NothingElseLeaks == Spec => []LeaksExplained
<1>1. IInv => (now = NoCall => LeaksExplained)
  BY AtOne DEF BetweenCalls
<1>2. IInv => LeaksExplained
  BY <1>1 DEF LeaksExplained
<1>. QED
  BY <1>2, MemoryIsTheCalls, PTL

\* finish, take and close free only what was allocated, each block once.
THEOREM FreesOnlyItsOwn == Spec => []FreesWhatItAllocated
<1>1. IInv => FreesWhatItAllocated
  BY DEF IInv, FreesWhatItAllocated
<1>. QED
  BY <1>1, MemoryIsTheCalls, PTL

\* Every caller of init holds the instance in use, unless two inits overlapped.
THEOREM OneInstanceInUse == Spec => []InitsAgree
<1>1. IInv => InitsAgree
  BY DEF IInv, OneInstance, InitsAgree
<1>. QED
  BY <1>1, MemoryIsTheCalls, PTL
=============================================================================
