--------------------------------- MODULE MemPool -------------------------------
(***************************************************************************)
(* The fixed-block allocator of pool.c.  A semaphore counts the free       *)
(* blocks; the blocks themselves are in a free list and in the part of the *)
(* newest region (continue_pool .. pool_offset) that was never allocated.  *)
(* Mb_Malloc pends first and takes a block in a second critical section;   *)
(* without a lamp it may add a region from the heap in between.  Mb_Free   *)
(* links the block and then posts.  Threads interleave between these       *)
(* critical sections.                                                      *)
(***************************************************************************)
EXTENDS Integers, Sequences, FiniteSets

CONSTANTS
  Threads,
  InitCells,    \* init_capacital
  CellLimit,    \* cell_limit of a pool that may grow
  Increment,    \* cell_increment
  Rounding,     \* bound: how many cells more than asked the heap may give
  MaxRegions,   \* bound: how often the heap can satisfy M_Malloc
  Serialised    \* whether calls of Mb_Malloc and Mb_Free on a growing pool never overlap

ASSUME PoolAssumption ==
  /\ IsFiniteSet(Threads)
  /\ InitCells \in Nat /\ CellLimit \in Nat
  /\ Increment \in Nat \ {0}
  /\ Rounding \in Nat /\ MaxRegions \in Nat
  /\ Serialised \in BOOLEAN

VARIABLES
  cell_limit,
  lamp_counter, lamps_limit,   \* of memb_semp
  free_list,
  region,       \* the region continue_pool points into; 0 is pool_original
  offset,       \* pool_offset - continue_pool, in cells
  cells,        \* cells of each region so far
  inc_pools,    \* the regions chained at next_inc_pool
  pc, held,     \* the blocks each thread got and has not given back
  exists        \* FALSE once Mb_DeletePool has been called

vars == <<cell_limit, lamp_counter, lamps_limit, free_list, region, offset,
          cells, inc_pools, pc, held, exists>>

(* A block is named by its region and its place in it; place -1, -2, ... is  *)
(* memory below the region.                                                  *)
Block(r, i) == <<r, i>>

(* The blocks the pool was given. *)
Blocks == UNION {{Block(r, i) : i \in 0..(cells[r + 1] - 1)} : r \in 0..(Len(cells) - 1)}

(* Mb_CreatePool, Mb_CreatePool_s *)
Init ==
  /\ cell_limit \in {0, CellLimit}
  /\ lamp_counter = InitCells /\ lamps_limit = InitCells
  /\ free_list = << >>
  /\ region = 0 /\ offset = InitCells
  /\ cells = <<InitCells>>
  /\ inc_pools = {}
  /\ pc = [t \in Threads |-> "out"]
  /\ held = [t \in Threads |-> {}]
  /\ exists = TRUE

At(places) == {t \in Threads : pc[t] \in places}

Goto(t, place) == pc' = [pc EXCEPT ![t] = place]

(* Whether the application lets a thread call the allocator now. *)
MayEnter == Serialised /\ cell_limit > 0 => \A t \in Threads : pc[t] = "out"
--------------------------------------------------------------------------------
(* Mb_Malloc: Lock_SempPend(memb_semp, 0) *)
MallocPend(t) ==
  /\ exists /\ pc[t] = "out"
  /\ MayEnter
  /\ IF lamp_counter > 0
     THEN lamp_counter' = lamp_counter - 1 /\ Goto(t, "take")
     ELSE UNCHANGED lamp_counter /\ Goto(t, "grow")
  /\ UNCHANGED <<cell_limit, lamps_limit, free_list, region, offset, cells, inc_pools, held, exists>>

(* Mutant: the caller's own block stays in the count of lamps. *)
GrowByForgetsOwn(t, n) ==
  /\ lamps_limit' = lamps_limit + n
  /\ lamp_counter' = lamp_counter + n
  /\ region' = Len(cells) /\ offset' = n
  /\ cells' = Append(cells, n)
  /\ inc_pools' = inc_pools \union {Len(cells)}
  /\ Goto(t, "take")

(* Mutant: the new region is not chained. *)
GrowByUnchained(t, n) ==
  /\ lamps_limit' = lamps_limit + n
  /\ lamp_counter' = lamp_counter + n - 1
  /\ region' = Len(cells) /\ offset' = n
  /\ cells' = Append(cells, n)
  /\ UNCHANGED inc_pools
  /\ Goto(t, "take")

(* The heap gave room for n cells: the semaphore is created anew with the    *)
(* caller's lamp already taken, and the new region replaces continue_pool.   *)
GrowBy(t, n) ==
  /\ lamps_limit' = lamps_limit + n
  /\ lamp_counter' = lamp_counter + n - 1
  /\ region' = Len(cells) /\ offset' = n
  /\ cells' = Append(cells, n)
  /\ inc_pools' = inc_pools \union {Len(cells)}
  /\ Goto(t, "take")

(* Mb_Malloc without a lamp: grow, or return NULL (limit reached, or no heap). *)
MallocGrow(t) ==
  /\ pc[t] = "grow"
  /\ \/ /\ lamps_limit < cell_limit
        /\ Len(cells) <= MaxRegions
        /\ \E n \in Increment..(Increment + Rounding) : GrowBy(t, n)
     \/ /\ Goto(t, "out")
        /\ UNCHANGED <<lamp_counter, lamps_limit, region, offset, cells, inc_pools>>
  /\ UNCHANGED <<cell_limit, free_list, held, exists>>

(* Mutant: the head of the free list is handed out but not unlinked when it  *)
(* is the only one.                                                          *)
MallocTakeKeepsLast(t) ==
  /\ pc[t] = "take"
  /\ IF free_list # << >>
     THEN /\ held' = [held EXCEPT ![t] = @ \union {Head(free_list)}]
          /\ free_list' = IF Len(free_list) = 1 THEN free_list ELSE Tail(free_list)
          /\ UNCHANGED offset
     ELSE /\ held' = [held EXCEPT ![t] = @ \union {Block(region, offset - 1)}]
          /\ offset' = offset - 1
          /\ UNCHANGED free_list
  /\ Goto(t, "out")
  /\ UNCHANGED <<cell_limit, lamp_counter, lamps_limit, region, cells, inc_pools, exists>>

(* Mb_Malloc with a lamp: from the free list, else from the region. *)
MallocTake(t) ==
  /\ pc[t] = "take"
  /\ IF free_list # << >>
     THEN /\ held' = [held EXCEPT ![t] = @ \union {Head(free_list)}]
          /\ free_list' = Tail(free_list)
          /\ UNCHANGED offset
     ELSE /\ held' = [held EXCEPT ![t] = @ \union {Block(region, offset - 1)}]
          /\ offset' = offset - 1
          /\ UNCHANGED free_list
  /\ Goto(t, "out")
  /\ UNCHANGED <<cell_limit, lamp_counter, lamps_limit, region, cells, inc_pools, exists>>

(* Mb_Free: the block goes to the tail of the free list. *)
FreeLink(t, b) ==
  /\ exists /\ pc[t] = "out" /\ b \in held[t] /\ MayEnter
  /\ free_list' = Append(free_list, b)
  /\ held' = [held EXCEPT ![t] = @ \ {b}]
  /\ Goto(t, "post")
  /\ UNCHANGED <<cell_limit, lamp_counter, lamps_limit, region, offset, cells, inc_pools, exists>>

(* Mutant: the post saturates one below the capacity. *)
FreePostSaturates(t) ==
  /\ pc[t] = "post"
  /\ lamp_counter' = IF lamp_counter < lamps_limit - 1 THEN lamp_counter + 1 ELSE lamp_counter
  /\ Goto(t, "out")
  /\ UNCHANGED <<cell_limit, lamps_limit, free_list, region, offset, cells, inc_pools, held, exists>>

(* Mb_Free: Lock_SempPost, which saturates; nobody waits on memb_semp. *)
FreePost(t) ==
  /\ pc[t] = "post"
  /\ lamp_counter' = IF lamp_counter < lamps_limit THEN lamp_counter + 1 ELSE lamp_counter
  /\ Goto(t, "out")
  /\ UNCHANGED <<cell_limit, lamps_limit, free_list, region, offset, cells, inc_pools, held, exists>>

(* Mb_DeletePool, once nobody uses the pool: the chained regions go back to  *)
(* the heap.                                                                 *)
DeletePool ==
  /\ exists /\ \A t \in Threads : pc[t] = "out" /\ held[t] = {}
  /\ exists' = FALSE
  /\ inc_pools' = {}
  /\ cells' = [i \in 1..Len(cells) |-> IF i - 1 \in inc_pools THEN 0 ELSE cells[i]]
  /\ UNCHANGED <<cell_limit, lamp_counter, lamps_limit, free_list, region, offset, pc, held>>

Next ==
  \/ \E t \in Threads : \/ MallocPend(t) \/ MallocGrow(t) \/ MallocTake(t)
                        \/ \E b \in held[t] : FreeLink(t, b)
                        \/ FreePost(t)
  \/ DeletePool

Spec == Init /\ [][Next]_vars
--------------------------------------------------------------------------------
TypeOK ==
  /\ lamp_counter \in 0..lamps_limit
  /\ lamps_limit \in Nat
  /\ region \in 0..(Len(cells) - 1)
  /\ offset \in 0..cells[region + 1] \/ ~exists
  /\ pc \in [Threads -> {"out", "grow", "take", "post"}]

(***************************************************************************)
(* There are exactly as many free blocks as lamps lit, lamps in the hands   *)
(* of threads that have not taken their block yet, and lamps of freed       *)
(* blocks still to be posted.                                               *)
(***************************************************************************)
LampHasBlock ==
  exists => Len(free_list) + offset = lamp_counter + Cardinality(At({"take", "post"}))

(***************************************************************************)
(* Whoever has a lamp finds a block: "a preemption between semp_pend and    *)
(* int_low_atom_start is allowed, because the semaphore has been obtained   *)
(* and other events cannot allocate all the blocks" (Mb_Malloc).            *)
(***************************************************************************)
LampFindsBlock == At({"take"}) # {} => free_list # << >> \/ offset > 0

(***************************************************************************)
(* No block is handed out twice or from outside the pool: what a thread     *)
(* holds belongs to the pool, to nobody else, and is not free.              *)
(***************************************************************************)
NoBlockTwice ==
  LET free == {free_list[i] : i \in 1..Len(free_list)}
      unused == {Block(region, i) : i \in 0..(offset - 1)}
  IN  exists => /\ Cardinality(free) = Len(free_list)
                /\ free \union unused \subseteq Blocks /\ free \intersect unused = {}
                /\ \A t \in Threads :
                     /\ held[t] \subseteq Blocks
                     /\ held[t] \intersect (free \union unused) = {}
                     /\ \A u \in Threads \ {t} : held[t] \intersect held[u] = {}

(***************************************************************************)
(* A deleted pool keeps nothing of the heap: every region it ever added is  *)
(* on the chain that Mb_DeletePool follows.                                 *)
(***************************************************************************)
HeapReturned == ~exists => \A i \in 2..Len(cells) : cells[i] = 0
================================================================================
