------------------------------ MODULE MemPoolProofs ----------------------------
(***************************************************************************)
(* The fixed-block allocator is correct for any number of threads and      *)
(* blocks, as long as the pool has a fixed size or the application keeps   *)
(* calls on a growing pool from overlapping.                               *)
(***************************************************************************)
EXTENDS MemPool, FiniteSetTheorems, TLAPS

(* The use of the pool that the allocator is correct for. *)
SafeUse == Serialised \/ cell_limit = 0

(* Every name a block can have. *)
Names == Nat \X Int

(* The threads between two critical sections that account for a free block. *)
Owing == At({"take", "post"})

Free == {free_list[i] : i \in 1..Len(free_list)}
Unused == {Block(region, i) : i \in 0..(offset - 1)}
Held == UNION {held[t] : t \in Threads}

(***************************************************************************)
(* The inductive invariant.  The lamps are counted against the blocks, and *)
(* the blocks (their names, free or handed out) against lamps_limit: that  *)
(* Mb_Free's post never meets a full semaphore is what keeps the count.    *)
(***************************************************************************)
PoolTyped ==
  /\ cell_limit \in Nat /\ lamp_counter \in Nat /\ lamps_limit \in Nat
  /\ lamp_counter <= lamps_limit
  /\ cells \in Seq(Nat) /\ region \in 0..(Len(cells) - 1)
  /\ free_list \in Seq(Names)
  /\ offset \in Nat
  /\ exists => offset <= cells[region + 1]
  /\ pc \in [Threads -> {"out", "grow", "take", "post"}]
  /\ held \in [Threads -> SUBSET Names]
  /\ exists \in BOOLEAN

(* While calls are serialised at most one thread is inside, and if it found *)
(* no lamp there is none.                                                   *)
OneInside ==
  cell_limit > 0 =>
    /\ \A t, u \in Threads : pc[t] # "out" /\ pc[u] # "out" => t = u
    /\ At({"grow"}) # {} => lamp_counter = 0

(* Nobody is inside a deleted pool. *)
DeletedIsUnused == ~exists => \A t \in Threads : pc[t] = "out"

Distinct ==
  exists =>
    /\ \A i, j \in 1..Len(free_list) : free_list[i] = free_list[j] => i = j
    /\ Free \subseteq Blocks /\ Unused \subseteq Blocks /\ Held \subseteq Blocks
    /\ Free \intersect Unused = {}
    /\ Held \intersect (Free \union Unused) = {}
    /\ \A t, u \in Threads : t # u => held[t] \intersect held[u] = {}

(* There are never more blocks, free or handed out, than lamps. *)
Capacity ==
  exists => /\ IsFiniteSet(Free \union Unused \union Held)
            /\ Cardinality(Free \union Unused \union Held) <= lamps_limit

PoolInv ==
  SafeUse /\ PoolTyped /\ OneInside /\ DeletedIsUnused /\ LampHasBlock /\ Distinct /\ Capacity
--------------------------------------------------------------------------------
(* A list without repetitions has as many elements as its length. *)
LEMMA ListCardinality ==
  ASSUME NEW S, NEW q \in Seq(S),
         \A i, j \in 1..Len(q) : q[i] = q[j] => i = j
  PROVE  /\ IsFiniteSet({q[i] : i \in 1..Len(q)})
         /\ Cardinality({q[i] : i \in 1..Len(q)}) = Len(q)
<1> DEFINE T == {q[i] : i \in 1..Len(q)}
<1>1. Len(q) \in Nat /\ q \in [1..Len(q) -> T]
  OBVIOUS
<1>2. q \in Bijection(1..Len(q), T)
  BY <1>1 DEF Bijection, Injection, Surjection, IsInjective
<1>3. \A n \in Nat : IsFiniteSet(1..n) /\ Cardinality(1..n) = n
  BY FS_Interval
<1> QED
  BY <1>1, <1>2, <1>3, FS_Bijection DEF ExistsBijection

(* The first n blocks of a region are n blocks. *)
LEMMA RegionCardinality ==
  ASSUME NEW r, NEW n \in Nat
  PROVE  /\ IsFiniteSet({Block(r, i) : i \in 0..(n - 1)})
         /\ Cardinality({Block(r, i) : i \in 0..(n - 1)}) = n
<1> DEFINE T == {Block(r, i) : i \in 0..(n - 1)}
           f == [i \in 0..(n - 1) |-> Block(r, i)]
<1>1. f \in [0..(n - 1) -> T]
  OBVIOUS
<1>2. \A i, j \in 0..(n - 1) : f[i] = f[j] => i = j
  BY DEF Block
<1>3. \A b \in T : \E i \in 0..(n - 1) : f[i] = b
  OBVIOUS
<1>4. f \in Bijection(0..(n - 1), T)
  BY <1>1, <1>2, <1>3 DEF Bijection, Injection, Surjection, IsInjective
<1>5. IsFiniteSet(0..(n - 1)) /\ Cardinality(0..(n - 1)) = n
  BY FS_Interval
<1> QED
  BY <1>4, <1>5, FS_Bijection DEF ExistsBijection

(* A block of the pool is a place in one of its regions. *)
LEMMA BlocksMember ==
  /\ \A b : b \in Blocks <=> \E r \in 0..(Len(cells) - 1) :
                            \E i \in 0..(cells[r + 1] - 1) : b = Block(r, i)
  /\ \A b : b \in Blocks' <=> \E r \in 0..(Len(cells') - 1) :
                             \E i \in 0..(cells'[r + 1] - 1) : b = Block(r, i)
<1>1. \A c, b : b \in UNION {{Block(r, i) : i \in 0..(c[r + 1] - 1)} : r \in 0..(Len(c) - 1)}
                 <=> \E r \in 0..(Len(c) - 1) : \E i \in 0..(c[r + 1] - 1) : b = Block(r, i)
  BY SMTT(60)
<1> QED
  BY <1>1 DEF Blocks

(* How many threads owe a block is a natural number, and none of them is    *)
(* nobody.                                                                  *)
LEMMA OwingCount ==
  /\ IsFiniteSet(Owing) /\ Cardinality(Owing) \in Nat
  /\ Cardinality(Owing) = 0 <=> Owing = {}
<1>1. IsFiniteSet(Owing)
  BY PoolAssumption, FS_Subset DEF Owing, At, PoolAssumption
<1> QED
  BY <1>1, FS_CardinalityType, FS_EmptySet

(* A thread that begins to owe a block is one more of them, one that stops  *)
(* is one less.                                                             *)
LEMMA OwingMove ==
  ASSUME PoolTyped, NEW t \in Threads, NEW q \in {"out", "grow", "take", "post"}, Goto(t, q)
  PROVE  /\ pc[t] \notin {"take", "post"} /\ q \in {"take", "post"} =>
              Cardinality(Owing') = Cardinality(Owing) + 1
         /\ pc[t] \in {"take", "post"} /\ q \notin {"take", "post"} =>
              Cardinality(Owing') = Cardinality(Owing) - 1
         /\ pc[t] \notin {"take", "post"} /\ q \notin {"take", "post"} =>
              Owing' = Owing
<1> USE DEF PoolTyped, Goto, Owing, At
<1>1. CASE pc[t] \notin {"take", "post"} /\ q \in {"take", "post"}
  <2>1. Owing' = Owing \union {t} /\ t \notin Owing
    BY <1>1
  <2> HIDE DEF Owing
  <2> QED
    BY <1>1, <2>1, OwingCount, FS_AddElement
<1>2. CASE pc[t] \in {"take", "post"} /\ q \notin {"take", "post"}
  <2>1. Owing' = Owing \ {t} /\ t \in Owing
    BY <1>2
  <2> HIDE DEF Owing
  <2> QED
    BY <1>2, <2>1, OwingCount, FS_RemoveElement
<1>3. CASE pc[t] \notin {"take", "post"} /\ q \notin {"take", "post"}
  BY <1>3
<1> QED
  BY <1>1, <1>2, <1>3

(* The free blocks, listed and unused, are as many as their two counts say. *)
LEMMA FreeCount ==
  ASSUME PoolInv, exists
  PROVE  /\ IsFiniteSet(Free \union Unused)
         /\ Cardinality(Free \union Unused) = Len(free_list) + offset
         /\ Len(free_list) \in Nat /\ offset \in Nat
<1>1. IsFiniteSet(Free) /\ Cardinality(Free) = Len(free_list) /\ Len(free_list) \in Nat
  <2>1. free_list \in Seq(Names)
    BY DEF PoolInv, PoolTyped
  <2>2. \A i, j \in 1..Len(free_list) : free_list[i] = free_list[j] => i = j
    BY DEF PoolInv, Distinct
  <2> QED
    <3>1. /\ IsFiniteSet({free_list[i] : i \in 1..Len(free_list)})
          /\ Cardinality({free_list[i] : i \in 1..Len(free_list)}) = Len(free_list)
      BY ONLY <2>1, <2>2, ListCardinality
    <3>2. Len(free_list) \in Nat
      BY ONLY <2>1
    <3> QED
      BY ONLY ZenonT(60), <3>1, <3>2 DEF Free
<1>2. IsFiniteSet(Unused) /\ Cardinality(Unused) = offset /\ offset \in Nat
  <2>1. offset \in Nat
    BY DEF PoolInv, PoolTyped
  <2>2. Unused = {Block(region, i) : i \in 0..(offset - 1)}
    BY DEF Unused
  <2> QED
    BY ONLY Zenon, <2>1, <2>2, RegionCardinality
<1>3. Free \intersect Unused = {}
  BY DEF PoolInv, Distinct
<1>4. /\ IsFiniteSet(Free \union Unused)
      /\ Cardinality(Free \union Unused)
           = Cardinality(Free) + Cardinality(Unused) - Cardinality({})
  BY SMTT(60), <1>1, <1>2, <1>3, FS_Union
<1>5. Cardinality({}) = 0
  BY FS_EmptySet
<1> QED
  BY SMTT(60), <1>1, <1>2, <1>4, <1>5

(* The free blocks never exceed the lamps, and a block in somebody's hands   *)
(* leaves room for itself.                                                   *)
LEMMA RoomForHeld ==
  ASSUME PoolInv, exists
  PROVE  /\ Len(free_list) + offset <= lamps_limit
         /\ Held # {} => Len(free_list) + offset < lamps_limit
<1> DEFINE F == Free \union Unused
           A == Free \union Unused \union Held
<1>1. IsFiniteSet(A) /\ Cardinality(A) <= lamps_limit /\ F \in SUBSET A
  BY DEF PoolInv, Capacity
<1>2. Cardinality(F) <= Cardinality(A) /\ (Cardinality(A) = Cardinality(F) => A = F)
  BY <1>1, FS_Subset
<1>3. Cardinality(A) \in Nat /\ lamps_limit \in Nat
  BY <1>1, FS_CardinalityType DEF PoolInv, PoolTyped
<1>4. Held # {} => A # F
  BY DEF PoolInv, Distinct
<1> QED
  BY <1>1, <1>2, <1>3, <1>4, FreeCount
--------------------------------------------------------------------------------
(* Mb_CreatePool: every lamp is lit and every block unused. *)
LEMMA PoolInit == Init /\ SafeUse => PoolInv
<1> SUFFICES ASSUME Init, SafeUse PROVE PoolInv
  OBVIOUS
<1> USE PoolAssumption DEF PoolAssumption
<1>1. PoolTyped
  BY DEF Init, PoolTyped, Names
<1>2. OneInside /\ DeletedIsUnused
  BY DEF Init, OneInside, DeletedIsUnused, At
<1>3. Owing = {}
  BY DEF Init, Owing, At
<1>4. LampHasBlock
  BY <1>3, OwingCount DEF Init, LampHasBlock, Owing
<1>5. Free = {} /\ Held = {}
  BY DEF Init, Free, Held
<1>6. Unused \subseteq Blocks
  BY BlocksMember DEF Init, Unused
<1>7. Distinct
  BY <1>5, <1>6 DEF Init, Distinct
<1>8. IsFiniteSet(Unused) /\ Cardinality(Unused) = InitCells
  BY RegionCardinality DEF Init, Unused
<1>9. Capacity
  <2>1. Free \union Unused \union Held = Unused
    BY <1>5
  <2>2. lamps_limit = InitCells
    BY DEF Init
  <2> QED
    BY <1>8, <2>1, <2>2 DEF Capacity
<1> QED
  BY <1>1, <1>2, <1>4, <1>7, <1>9 DEF PoolInv

(* A step that touches neither the blocks nor the capacity. *)
LEMMA BlocksUntouched ==
  ASSUME PoolInv,
         UNCHANGED <<free_list, region, offset, cells, held, lamps_limit, exists>>
  PROVE  Distinct' /\ Capacity'
<1>1. Free' = Free /\ Unused' = Unused /\ Held' = Held /\ Blocks' = Blocks
  BY DEF Free, Unused, Held, Blocks
<1> QED
  BY <1>1 DEF PoolInv, Distinct, Capacity

(* Mb_Malloc takes a lamp, or finds none. *)
LEMMA MallocPendInv ==
  ASSUME PoolInv, NEW t \in Threads, MallocPend(t)
  PROVE  PoolInv'
<1> USE DEF PoolInv
<1>1. Distinct' /\ Capacity'
  BY BlocksUntouched DEF MallocPend
<1>2. SafeUse'
  BY DEF MallocPend, SafeUse
<1>3. PoolTyped'
  BY SMTT(60) DEF MallocPend, PoolTyped, Goto
<1>4. cell_limit > 0 => \A u \in Threads : pc[u] = "out"
  BY DEF MallocPend, MayEnter, SafeUse, PoolTyped
<1>5. OneInside'
  BY <1>4 DEF MallocPend, OneInside, Goto, At, PoolTyped
<1>6. DeletedIsUnused'
  BY DEF MallocPend, DeletedIsUnused
<1>7. LampHasBlock'
  <2>1. CASE lamp_counter > 0
    <3>1. /\ lamp_counter' = lamp_counter - 1 /\ Goto(t, "take") /\ pc[t] = "out"
          /\ free_list' = free_list /\ offset' = offset /\ exists' = exists
      BY <2>1 DEF MallocPend
    <3>2. Cardinality(Owing') = Cardinality(Owing) + 1
      BY <3>1, OwingMove
    <3> QED
      BY <3>1, <3>2, OwingCount DEF LampHasBlock, Owing, PoolTyped
  <2>2. CASE ~(lamp_counter > 0)
    <3>1. /\ lamp_counter' = lamp_counter /\ Goto(t, "grow") /\ pc[t] = "out"
          /\ free_list' = free_list /\ offset' = offset /\ exists' = exists
      BY <2>2 DEF MallocPend
    <3>2. Owing' = Owing
      BY <3>1, OwingMove
    <3> QED
      BY <3>1, <3>2 DEF LampHasBlock, Owing
  <2> QED
    BY <2>1, <2>2
<1> QED
  BY <1>1, <1>2, <1>3, <1>5, <1>6, <1>7

(* Mb_Free posts the lamp of the block it has linked: the semaphore is never *)
(* full at that moment.                                                      *)
LEMMA FreePostInv ==
  ASSUME PoolInv, NEW t \in Threads, FreePost(t)
  PROVE  PoolInv'
<1> USE DEF PoolInv
<1>1. Distinct' /\ Capacity'
  BY BlocksUntouched DEF FreePost
<1>2. SafeUse'
  BY DEF FreePost, SafeUse
<1>3. exists /\ pc[t] = "post" /\ Goto(t, "out")
  BY DEF FreePost, DeletedIsUnused
<1>4. Cardinality(Owing') = Cardinality(Owing) - 1
  BY <1>3, OwingMove
<1>5. Owing # {}
  BY <1>3 DEF Owing, At
<1>6. Len(free_list) + offset = lamp_counter + Cardinality(Owing)
  BY <1>3 DEF LampHasBlock, Owing
<1>7. lamp_counter < lamps_limit
  BY SMTT(60), <1>3, <1>5, <1>6, OwingCount, RoomForHeld, FreeCount DEF PoolTyped
<1>8. lamp_counter' = lamp_counter + 1
  BY <1>7 DEF FreePost
<1>9. PoolTyped'
  BY <1>7, <1>8 DEF FreePost, PoolTyped, Goto
<1>10. LampHasBlock'
  BY <1>4, <1>6, <1>8, OwingCount DEF FreePost, LampHasBlock, Owing, PoolTyped
<1>11. OneInside' /\ DeletedIsUnused'
  BY DEF FreePost, OneInside, DeletedIsUnused, Goto, At, PoolTyped
<1> QED
  BY <1>1, <1>2, <1>9, <1>10, <1>11
(* Mb_Malloc adds a region, or gives up.  It finds no lamp only when every   *)
(* block is in somebody's hands, so the region it replaces is used up.       *)
LEMMA MallocGrowInv ==
  ASSUME PoolInv, NEW t \in Threads, MallocGrow(t)
  PROVE  PoolInv'
<1> USE DEF PoolInv
<1>0. pc[t] = "grow" /\ exists /\ exists' = exists /\ free_list' = free_list /\ held' = held
      /\ cell_limit' = cell_limit
  BY DEF MallocGrow, DeletedIsUnused
<1>1. CASE /\ Goto(t, "out")
           /\ UNCHANGED <<lamp_counter, lamps_limit, region, offset, cells, inc_pools>>
  <2>1. Distinct' /\ Capacity'
    BY <1>0, <1>1, BlocksUntouched
  <2>2. SafeUse' /\ PoolTyped'
    BY <1>0, <1>1 DEF SafeUse, PoolTyped, Goto
  <2>3. OneInside' /\ DeletedIsUnused'
    BY <1>0, <1>1 DEF OneInside, DeletedIsUnused, Goto, At, PoolTyped
  <2>4. Owing' = Owing
    BY <1>0, <1>1, OwingMove
  <2>5. LampHasBlock'
    BY <1>0, <1>1, <2>4 DEF LampHasBlock, Owing
  <2> QED
    BY <2>1, <2>2, <2>3, <2>5
<1>2. ASSUME lamps_limit < cell_limit, NEW n \in Increment..(Increment + Rounding), GrowBy(t, n)
      PROVE  PoolInv'
  <2>1. n \in Nat /\ n >= 1
    BY PoolAssumption DEF PoolAssumption
  <2>2. cell_limit > 0
    BY <1>2 DEF PoolTyped
  <2>3. /\ lamps_limit' = lamps_limit + n /\ lamp_counter' = lamp_counter + n - 1
        /\ region' = Len(cells) /\ offset' = n
        /\ cells' = Append(cells, n) /\ Goto(t, "take")
    BY <1>2 DEF GrowBy
  <2>4. lamp_counter = 0 /\ \A u \in Threads : u # t => pc[u] = "out"
    BY <1>0, <2>2 DEF OneInside, At
  <2>5. Owing = {}
    BY <1>0, <2>4 DEF Owing, At
  <2>6. Len(free_list) + offset = 0
    BY <1>0, <2>4, <2>5, OwingCount DEF LampHasBlock, Owing
  <2>7. Len(free_list) = 0 /\ offset = 0
    BY <1>0, <2>6, FreeCount
  <2>8. Free = {} /\ Free' = {} /\ Unused = {} /\ Held' = Held
    BY <1>0, <2>7 DEF Free, Unused, Held
  <2>9. cells' \in Seq(Nat) /\ Len(cells') = Len(cells) + 1 /\ cells'[Len(cells) + 1] = n
        /\ \A i \in 1..Len(cells) : cells'[i] = cells[i]
    BY <2>1, <2>3 DEF PoolTyped
  <2>10. SafeUse'
    BY <1>0 DEF SafeUse
  <2>11. PoolTyped'
    BY SMTT(60), <1>0, <2>1, <2>3, <2>4, <2>9 DEF PoolTyped, Goto
  <2>12. OneInside' /\ DeletedIsUnused'
    BY <1>0, <2>3, <2>4 DEF OneInside, DeletedIsUnused, Goto, At, PoolTyped
  <2>13. LampHasBlock'
    <3>1. Cardinality(Owing') = Cardinality(Owing) + 1
      BY <1>0, <2>3, OwingMove
    <3> QED
      BY <1>0, <2>1, <2>3, <2>4, <2>5, <2>7, <3>1, OwingCount DEF LampHasBlock, Owing
  <2>14. Blocks \subseteq Blocks' /\ Unused' \subseteq Blocks'
    <3>0. Len(cells) \in Nat
      BY DEF PoolTyped
    <3>1. ASSUME NEW b \in Blocks PROVE b \in Blocks'
      <4>1. PICK r \in 0..(Len(cells) - 1) : \E i \in 0..(cells[r + 1] - 1) : b = Block(r, i)
        BY BlocksMember
      <4>2. r + 1 \in 1..Len(cells) /\ r \in 0..(Len(cells') - 1)
        BY <2>9, <3>0
      <4>3. \E i \in 0..(cells'[r + 1] - 1) : b = Block(r, i)
        BY <2>9, <4>1, <4>2
      <4> QED
        BY <4>2, <4>3, BlocksMember
    <3>2. ASSUME NEW b \in Unused' PROVE b \in Blocks'
      <4>1. \E i \in 0..(cells'[region' + 1] - 1) : b = Block(region', i)
        BY <2>3, <2>9, <3>0 DEF Unused
      <4>2. region' \in 0..(Len(cells') - 1)
        BY <2>3, <2>9, <3>0
      <4> QED
        BY <4>1, <4>2, BlocksMember
    <3> QED
      BY <3>1, <3>2
  <2>15. Held \subseteq Blocks
    BY <1>0 DEF Distinct
  <2>16. Held \intersect Unused' = {}
    BY <2>1, <2>3, <2>15, BlocksMember DEF Unused, Block, PoolTyped
  <2>17. Distinct'
    BY <1>0, <2>7, <2>8, <2>14, <2>15, <2>16 DEF Distinct
  <2>18. IsFiniteSet(Held) /\ Cardinality(Held) <= lamps_limit /\ Cardinality(Held) \in Nat
    <3>1. Free \union Unused \union Held = Held
      BY <2>8
    <3> QED
      BY <1>0, <3>1, FS_CardinalityType DEF Capacity
  <2>19. IsFiniteSet(Unused') /\ Cardinality(Unused') = n
    <3>1. Unused' = {Block(region', i) : i \in 0..(n - 1)} /\ n \in Nat
      BY <2>1, <2>3 DEF Unused
    <3> QED
      BY ONLY Zenon, <3>1, RegionCardinality
  <2>20. Capacity'
    <3>1. Free' \union Unused' \union Held' = Held \union Unused'
      BY <2>8
    <3>2. /\ IsFiniteSet(Held \union Unused')
          /\ Cardinality(Held \union Unused') = Cardinality(Held) + n - Cardinality({})
      BY <2>16, <2>18, <2>19, FS_Union
    <3>3. Cardinality({}) = 0
      BY FS_EmptySet
    <3>4. Cardinality(Held \union Unused') <= lamps_limit'
      BY SMTT(60), <2>1, <2>3, <2>18, <3>2, <3>3 DEF PoolTyped
    <3> QED
      BY <3>1, <3>2, <3>4 DEF Capacity
  <2> QED
    BY <2>10, <2>11, <2>12, <2>13, <2>17, <2>20
<1> QED
  BY <1>1, <1>2 DEF MallocGrow

(* Blocks that move between the free ones and the hands of threads. *)
LEMMA BlocksMoved ==
  ASSUME PoolInv, exists' = exists, lamps_limit' = lamps_limit,
         Free' \union Unused' \union Held' = Free \union Unused \union Held
  PROVE  Capacity'
  BY DEF PoolInv, Capacity
(* Mb_Malloc with a lamp finds a block and hands it out. *)
LEMMA MallocTakeInv ==
  ASSUME PoolInv, NEW t \in Threads, MallocTake(t)
  PROVE  PoolInv'
<1> USE DEF PoolInv
<1>0. /\ pc[t] = "take" /\ exists /\ exists' = exists /\ Goto(t, "out")
      /\ UNCHANGED <<cell_limit, lamp_counter, lamps_limit, region, cells>>
  BY DEF MallocTake, DeletedIsUnused
<1>1. Cardinality(Owing') = Cardinality(Owing) - 1
  BY <1>0, OwingMove
<1>2. Owing # {}
  BY <1>0 DEF Owing, At
<1>3. Len(free_list) + offset = lamp_counter + Cardinality(Owing)
  BY <1>0 DEF LampHasBlock, Owing
<1>4. SafeUse' /\ OneInside' /\ DeletedIsUnused' /\ Blocks' = Blocks
  BY <1>0 DEF SafeUse, OneInside, DeletedIsUnused, Goto, At, PoolTyped, Blocks
<1>5. \A b : [held EXCEPT ![t] = @ \union {b}][t] = held[t] \union {b}
            /\ \A u \in Threads \ {t} : [held EXCEPT ![t] = @ \union {b}][u] = held[u]
  BY DEF PoolTyped
<1>6. /\ Len(free_list) \in Nat /\ offset \in Nat /\ lamp_counter \in Nat
      /\ Cardinality(Owing) \in Nat
  BY OwingCount DEF PoolTyped
<1>7. CASE free_list # << >>
  <2> DEFINE b == Head(free_list)
  <2>1. held' = [held EXCEPT ![t] = @ \union {b}] /\ free_list' = Tail(free_list)
        /\ offset' = offset
    BY <1>7 DEF MallocTake
  <2>2. /\ Len(free_list) \in Nat /\ Len(free_list) >= 1 /\ b = free_list[1] /\ b \in Names
        /\ free_list' \in Seq(Names) /\ Len(free_list') = Len(free_list) - 1
        /\ \A i \in 1..Len(free_list') : free_list'[i] = free_list[i + 1]
    BY <1>7, <2>1 DEF PoolTyped
  <2>3. \A i, j \in 1..Len(free_list) : free_list[i] = free_list[j] => i = j
    BY <1>0 DEF Distinct
  <2> HIDE DEF b
  <2>4. Free' = Free \ {b} /\ b \in Free
    <3>1. b \in Free /\ Free' \subseteq Free \ {b}
      BY <2>2, <2>3 DEF Free
    <3>2. ASSUME NEW x \in Free, x # b PROVE x \in Free'
      <4>1. PICK i \in 1..Len(free_list) : x = free_list[i]
        BY DEF Free
      <4>2. i - 1 \in 1..Len(free_list') /\ free_list'[i - 1] = x
        BY <2>2, <3>2, <4>1
      <4> QED
        BY <4>2 DEF Free
    <3> QED
      BY <3>1, <3>2
  <2>5. Unused' = Unused /\ Held' = Held \union {b}
    BY SMTT(60), <1>0, <1>5, <2>1 DEF Unused, Held
  <2>6. Capacity'
    BY <1>0, <2>4, <2>5, BlocksMoved
  <2>7. \A u, v \in Threads : u # v => held'[u] \intersect held'[v] = {}
    BY <1>0, <1>5, <2>1, <2>4 DEF Distinct, Held
  <2>8. \A i, j \in 1..Len(free_list') : free_list'[i] = free_list'[j] => i = j
    BY SMTT(60), <2>2, <2>3
  <2>9. Distinct'
    BY <1>0, <1>4, <2>4, <2>5, <2>7, <2>8 DEF Distinct
  <2>10. PoolTyped'
    BY SMTT(60), <1>0, <2>1, <2>2 DEF PoolTyped, Goto
  <2>11. Len(free_list') + offset' = lamp_counter' + Cardinality(Owing')
    <3>1. /\ Len(free_list') = Len(free_list) - 1 /\ offset' = offset
          /\ lamp_counter' = lamp_counter
      BY <1>0, <2>1, <2>2
    <3> QED
      BY ONLY SMTT(60), <1>1, <1>3, <1>6, <3>1
  <2>12. LampHasBlock'
    BY <2>11 DEF LampHasBlock, Owing
  <2> QED
    BY <1>4, <2>6, <2>9, <2>10, <2>12
<1>8. CASE free_list = << >>
  <2> DEFINE b == Block(region, offset - 1)
  <2>1. held' = [held EXCEPT ![t] = @ \union {b}] /\ free_list' = free_list
        /\ offset' = offset - 1
    BY <1>8 DEF MallocTake
  <2>2. offset \in Nat /\ offset >= 1 /\ b \in Names
    BY SMTT(60), <1>2, <1>3, <1>8, OwingCount DEF PoolTyped, Names, Block
  <2>3. Unused' = Unused \ {b} /\ b \in Unused
    BY <1>0, <2>1, <2>2 DEF Unused, Block
  <2> HIDE DEF b
  <2>4. Free' = Free /\ Held' = Held \union {b}
    BY <1>0, <1>5, <2>1 DEF Free, Held
  <2>5. Capacity'
    BY <1>0, <2>3, <2>4, BlocksMoved
  <2>6. \A u, v \in Threads : u # v => held'[u] \intersect held'[v] = {}
    BY <1>0, <1>5, <2>1, <2>3 DEF Distinct, Held
  <2>7. Distinct'
    BY <1>0, <1>4, <2>1, <2>3, <2>4, <2>6 DEF Distinct
  <2>8. PoolTyped'
    BY <1>0, <2>1, <2>2 DEF PoolTyped, Goto
  <2>9. Len(free_list') + offset' = lamp_counter' + Cardinality(Owing')
    BY <1>0, <1>1, <1>3, <1>6, <2>1, <2>2
  <2>10. LampHasBlock'
    BY <2>9 DEF LampHasBlock, Owing
  <2> QED
    BY <1>4, <2>5, <2>7, <2>8, <2>10
<1> QED
  BY <1>7, <1>8

(* Mb_Free links a block that its thread holds. *)
LEMMA FreeLinkInv ==
  ASSUME PoolInv, NEW t \in Threads, NEW b \in held[t], FreeLink(t, b)
  PROVE  PoolInv'
<1> USE DEF PoolInv
<1>0. /\ pc[t] = "out" /\ exists /\ exists' = exists /\ Goto(t, "post")
      /\ held' = [held EXCEPT ![t] = @ \ {b}] /\ free_list' = Append(free_list, b)
      /\ UNCHANGED <<cell_limit, lamp_counter, lamps_limit, region, offset, cells>>
  BY DEF FreeLink
<1>1. Cardinality(Owing') = Cardinality(Owing) + 1
  BY <1>0, OwingMove
<1>2. SafeUse' /\ DeletedIsUnused' /\ Blocks' = Blocks /\ Unused' = Unused
  BY <1>0 DEF SafeUse, DeletedIsUnused, Blocks, Unused
<1>3. cell_limit > 0 => \A u \in Threads : pc[u] = "out"
  BY DEF FreeLink, MayEnter, SafeUse, PoolTyped
<1>4. OneInside'
  BY <1>0, <1>3 DEF OneInside, Goto, At, PoolTyped
<1>5. b \in Names /\ b \in Held
  BY DEF PoolTyped, Held
<1>6. /\ Len(free_list) \in Nat /\ free_list' \in Seq(Names) /\ Len(free_list') = Len(free_list) + 1
      /\ \A i \in 1..Len(free_list) : free_list'[i] = free_list[i]
      /\ free_list'[Len(free_list) + 1] = b
  BY <1>0, <1>5 DEF PoolTyped
<1>7. held'[t] = held[t] \ {b} /\ \A u \in Threads \ {t} : held'[u] = held[u]
  BY <1>0 DEF PoolTyped
<1>8. Free' = Free \union {b}
  BY <1>6 DEF Free
<1>9. Held' = Held \ {b}
  BY <1>0, <1>7 DEF Held, Distinct
<1>10. Capacity'
  BY <1>0, <1>2, <1>5, <1>8, <1>9, BlocksMoved
<1>11. \A i, j \in 1..Len(free_list') : free_list'[i] = free_list'[j] => i = j
  <2>1. \A i \in 1..Len(free_list) : free_list[i] # b
    BY <1>0, <1>5 DEF Distinct, Free
  <2> QED
    BY <1>0, <1>6, <2>1 DEF Distinct
<1>12. \A u, v \in Threads : u # v => held'[u] \intersect held'[v] = {}
  BY <1>0, <1>7 DEF Distinct
<1>13. Distinct'
  BY <1>0, <1>2, <1>5, <1>8, <1>9, <1>11, <1>12 DEF Distinct
<1>14. PoolTyped'
  BY <1>0, <1>6 DEF PoolTyped, Goto
<1>15. Len(free_list) + offset = lamp_counter + Cardinality(Owing)
  BY <1>0 DEF LampHasBlock, Owing
<1>16. offset \in Nat /\ lamp_counter \in Nat /\ Cardinality(Owing) \in Nat
  BY OwingCount DEF PoolTyped
<1>17. Len(free_list') + offset' = lamp_counter' + Cardinality(Owing')
  <2>1. offset' = offset /\ lamp_counter' = lamp_counter
    BY <1>0
  <2>2. Len(free_list) \in Nat /\ Len(free_list') = Len(free_list) + 1
    BY <1>6
  <2> QED
    BY ONLY SMTT(60), <1>1, <1>15, <1>16, <2>1, <2>2
<1>18. LampHasBlock'
  BY <1>17 DEF LampHasBlock, Owing
<1> QED
  BY <1>2, <1>4, <1>10, <1>13, <1>14, <1>18
--------------------------------------------------------------------------------
(* Every step of the allocator keeps the inductive invariant. *)
LEMMA PoolStep == PoolInv /\ [Next]_vars => PoolInv'
<1> SUFFICES ASSUME PoolInv, [Next]_vars PROVE PoolInv'
  OBVIOUS
<1>1. ASSUME NEW t \in Threads, MallocPend(t) PROVE PoolInv'
  BY <1>1, MallocPendInv
<1>2. ASSUME NEW t \in Threads, MallocGrow(t) PROVE PoolInv'
  BY <1>2, MallocGrowInv
<1>3. ASSUME NEW t \in Threads, MallocTake(t) PROVE PoolInv'
  BY <1>3, MallocTakeInv
<1>4. ASSUME NEW t \in Threads, NEW b \in held[t], FreeLink(t, b) PROVE PoolInv'
  BY <1>4, FreeLinkInv
<1>5. ASSUME NEW t \in Threads, FreePost(t) PROVE PoolInv'
  BY <1>5, FreePostInv
<1>6. CASE DeletePool
  <2>1. exists' = FALSE /\ Len(cells') = Len(cells) /\ cells' \in Seq(Nat)
    BY SMTT(60), <1>6 DEF DeletePool, PoolInv, PoolTyped
  <2>2. PoolTyped'
    BY <1>6, <2>1 DEF DeletePool, PoolInv, PoolTyped
  <2> QED
    BY <1>6, <2>1, <2>2 DEF DeletePool, PoolInv, SafeUse, OneInside, DeletedIsUnused, At,
                            LampHasBlock, Distinct, Capacity
<1>7. CASE UNCHANGED vars
  <2>1. Distinct' /\ Capacity'
    BY <1>7, BlocksUntouched DEF vars
  <2> QED
    BY <1>7, <2>1 DEF vars, PoolInv, SafeUse, PoolTyped, OneInside, DeletedIsUnused, At, LampHasBlock
<1> QED
  BY <1>1, <1>2, <1>3, <1>4, <1>5, <1>6, <1>7 DEF Next

(* The inductive invariant holds of every pool in safe use. *)
THEOREM PoolInvariance == Spec /\ SafeUse => []PoolInv
  BY PoolInit, PoolStep, PTL DEF Spec
(* The semaphore, the region and its offset keep their ranges: pool_offset    *)
(* never runs below continue_pool and the lamps never exceed the capacity.    *)
THEOREM PoolTypeCorrect == Spec /\ SafeUse => []TypeOK
<1>1. PoolInv => TypeOK
  <2> SUFFICES ASSUME PoolInv PROVE TypeOK
    OBVIOUS
  <2>1. exists \in BOOLEAN /\ (exists => offset \in 0..cells[region + 1])
    <3>1. region + 1 \in 1..Len(cells) /\ cells \in Seq(Nat)
      BY DEF PoolInv, PoolTyped
    <3>2. cells[region + 1] \in Nat
      BY <3>1
    <3> QED
      BY <3>2 DEF PoolInv, PoolTyped
  <2> QED
    BY <2>1 DEF PoolInv, PoolTyped, TypeOK
<1> QED
  BY <1>1, PoolInvariance, PTL

(* There are exactly as many free blocks as lamps lit or owed, whatever the  *)
(* threads do between the critical sections of Mb_Malloc and Mb_Free.        *)
THEOREM LampsCountBlocks == Spec /\ SafeUse => []LampHasBlock
<1>1. PoolInv => LampHasBlock
  BY DEF PoolInv
<1> QED
  BY <1>1, PoolInvariance, PTL

(* The claim of the comment in Mb_Malloc: a thread preempted after its pend   *)
(* still finds a block when it resumes.                                       *)
THEOREM PreemptionIsHarmless == Spec /\ SafeUse => []LampFindsBlock
<1>1. PoolInv => LampFindsBlock
  <2> SUFFICES ASSUME PoolInv, At({"take"}) # {} PROVE free_list # << >> \/ offset > 0
    BY DEF LampFindsBlock
  <2>1. exists /\ Owing # {}
    BY DEF PoolInv, DeletedIsUnused, At, Owing
  <2>2. Len(free_list) + offset = lamp_counter + Cardinality(Owing)
    BY <2>1 DEF PoolInv, LampHasBlock, Owing
  <2>3. Cardinality(Owing) \in Nat /\ Cardinality(Owing) # 0
    BY SMTT(60), <2>1, OwingCount
  <2> QED
    BY <2>2, <2>3 DEF PoolInv, PoolTyped
<1> QED
  BY <1>1, PoolInvariance, PTL

(* No block is handed out twice, or from outside the pool. *)
THEOREM BlocksAreExclusive == Spec /\ SafeUse => []NoBlockTwice
<1>1. PoolInv => NoBlockTwice
  <2> SUFFICES ASSUME PoolInv, exists PROVE NoBlockTwice
    BY ZenonT(60) DEF NoBlockTwice
  <2>1. Cardinality(Free) = Len(free_list)
    <3>1. free_list \in Seq(Names)
      BY DEF PoolInv, PoolTyped
    <3>2. \A i, j \in 1..Len(free_list) : free_list[i] = free_list[j] => i = j
      BY DEF PoolInv, Distinct
    <3> QED
      BY <3>1, <3>2, ListCardinality DEF Free
  <2>2. /\ Free \union Unused \subseteq Blocks /\ Free \intersect Unused = {}
        /\ \A t \in Threads : /\ held[t] \subseteq Blocks
                              /\ held[t] \intersect (Free \union Unused) = {}
    BY DEF PoolInv, Distinct, Held
  <2>3. \A t \in Threads : \A u \in Threads \ {t} : held[t] \intersect held[u] = {}
    BY DEF PoolInv, Distinct
  <2> QED
    BY ZenonT(60), <2>1, <2>2, <2>3 DEF NoBlockTwice, Free, Unused
<1> QED
  BY <1>1, PoolInvariance, PTL
--------------------------------------------------------------------------------
(* Every region taken from the heap is on the chain until the pool is deleted. *)
ChainComplete ==
  /\ cells \in Seq(Nat) /\ Len(cells) >= 1 /\ exists \in BOOLEAN
  /\ exists => inc_pools = 1..(Len(cells) - 1)
  /\ exists \/ At({"grow"}) = {}

(* Mb_DeletePool gives every added region back to the heap, whether or not  *)
(* calls on the pool have overlapped.                                       *)
THEOREM RegionsAreReturned == Spec => []HeapReturned
<1> DEFINE I == ChainComplete /\ HeapReturned /\ pc \in [Threads -> {"out", "grow", "take", "post"}]
<1> USE PoolAssumption DEF PoolAssumption, ChainComplete, HeapReturned
<1>1. Init => I
  BY DEF Init, At
<1>2. I /\ [Next]_vars => I'
  <2> SUFFICES ASSUME I, [Next]_vars PROVE I'
    OBVIOUS
  <2>1. ASSUME NEW t \in Threads, MallocPend(t) PROVE I'
    BY <2>1 DEF MallocPend, Goto, At
  <2>2. ASSUME NEW t \in Threads, MallocGrow(t) PROVE I'
    <3>1. exists /\ exists' = exists
      BY <2>2 DEF MallocGrow, At
    <3>2. ASSUME NEW n \in Increment..(Increment + Rounding), GrowBy(t, n) PROVE I'
      <4>1. n \in Nat /\ Len(cells) \in Nat
        OBVIOUS
      <4>2. cells' \in Seq(Nat) /\ Len(cells') = Len(cells) + 1
        BY <3>2, <4>1 DEF GrowBy
      <4>3. inc_pools' = 1..(Len(cells') - 1)
        <5>1. inc_pools' = (1..(Len(cells) - 1)) \union {Len(cells)}
          BY <3>1, <3>2 DEF GrowBy
        <5>2. Len(cells) >= 1
          OBVIOUS
        <5> QED
          BY SMTT(60), <4>1, <4>2, <5>1, <5>2
      <4> QED
        BY SMTT(60), <3>1, <3>2, <4>2, <4>3 DEF GrowBy, Goto, At
    <3>3. CASE Goto(t, "out") /\ UNCHANGED <<cells, inc_pools>>
      BY <3>1, <3>3 DEF Goto, At
    <3> QED
      BY <2>2, <3>2, <3>3 DEF MallocGrow
  <2>3. ASSUME NEW t \in Threads, MallocTake(t) PROVE I'
    BY <2>3 DEF MallocTake, Goto, At
  <2>4. ASSUME NEW t \in Threads, NEW b \in held[t], FreeLink(t, b) PROVE I'
    BY <2>4 DEF FreeLink, Goto, At
  <2>5. ASSUME NEW t \in Threads, FreePost(t) PROVE I'
    BY <2>5 DEF FreePost, Goto, At
  <2>6. CASE DeletePool
    <3>1. /\ exists' = FALSE /\ exists /\ pc' = pc /\ \A t \in Threads : pc[t] = "out"
          /\ cells' = [i \in 1..Len(cells) |-> IF i - 1 \in inc_pools THEN 0 ELSE cells[i]]
      BY <2>6 DEF DeletePool
    <3>2. Len(cells) \in Nat /\ cells' \in Seq(Nat) /\ Len(cells') = Len(cells)
      BY <3>1
    <3>3. \A i \in 2..Len(cells') : i - 1 \in inc_pools /\ cells'[i] = 0
      BY <3>1, <3>2
    <3> QED
      BY <3>1, <3>2, <3>3 DEF At
  <2>7. CASE UNCHANGED vars
    BY <2>7 DEF vars, At
  <2> QED
    BY <2>1, <2>2, <2>3, <2>4, <2>5, <2>6, <2>7 DEF Next
<1>3. I => HeapReturned
  OBVIOUS
<1> QED
  BY <1>1, <1>2, <1>3, PTL DEF Spec
================================================================================
