------------------------------ MODULE MemPool ------------------------------
(***************************************************************************)
(* The huge page memory pool (wd_mempool.c).  A memory pool is cut into    *)
(* memory blocks, one bit each; a block pool takes runs of them (memzones) *)
(* and cuts them into its own blocks, which it keeps on a stack.  Both     *)
(* kinds of pool count references: an allocation refuses a pool whose      *)
(* count is zero, a destroyer gives up its own reference and waits.        *)
(*                                                                         *)
(* Sizes are in units, Unit of them to a memory block.  Bits at and past   *)
(* MapBits are not the bitmap's: the heap behind it holds anything.        *)
(***************************************************************************)
EXTENDS Integers, Sequences, FiniteSets, FiniteSetsExt

CONSTANTS Holders, Pools,
          Bits,        \* memory blocks of the pool: mp->size / mp->blk_size
          Word,        \* bits of one word of the map
          RealBlocks,  \* memory blocks that are mapped: whole huge pages
          Unit,        \* mp->blk_size
          Sizes, Nums, \* block sizes and numbers asked for
          MaxCreate,   \* bound on the block pools of one behaviour
          NoOne

\* wd_blockpool_create refuses sizes and numbers of 0.
ASSUME MemAssumption ==
  /\ Bits \in Nat /\ RealBlocks \in Nat /\ MaxCreate \in Nat
  /\ Word \in Nat \ {0} /\ Unit \in Nat \ {0}
  /\ Sizes \subseteq Nat \ {0} /\ Nums \subseteq Nat \ {0}
  /\ \E m \in Sizes : \A s \in Sizes : s <= m
  /\ IsFiniteSet(Holders) /\ IsFiniteSet(Pools) /\ NoOne \notin Holders \cup Pools

VARIABLES mp,      \* struct mempool: state, ref, free_blk_num, real_size
          taken,   \* the bits that are set
          lock,    \* mp->lock
          bp,      \* struct blkpool of every pool
          th       \* the threads: control point and locals

memVars == <<mp, taken, lock, bp, th>>

\* create_bitmap rounds up to words; what lies behind it is the heap's.
MapBits == ((Bits + Word - 1) \div Word) * Word
Longest == Max({(s + Unit - 1) \div Unit : s \in Sizes})
HeapBits == MapBits .. (MapBits + Longest - 1)

NoPool == [state |-> "none", ref |-> 0, size |-> 0, depth |-> 0, zones |-> << >>,
           stack |-> << >>]
MIdle == [pc |-> "idle", pool |-> NoOne, left |-> 0, pos |-> 0]

\* init_mempool and the assignments of alloc_mem_from_hugepage
MInit == /\ mp = [state |-> "live", ref |-> 1, free |-> Bits,
                  real |-> RealBlocks * Unit, created |-> 0]
         /\ taken \in SUBSET HeapBits
         /\ lock = NoOne
         /\ bp = [p \in Pools |-> NoPool]
         /\ th = [t \in Holders |-> MIdle]

Local(t, f) == th' = [th EXCEPT ![t] = f]
At(t, pc) == th[t].pc = pc

-----------------------------------------------------------------------------
\* wd_blockpool_create up to the call that takes the memory; a pool whose
\* count is zero is refused.
CreateRef(t, p, size, num) ==
  /\ At(t, "idle") /\ mp.state # "freed" /\ bp[p].state = "none"
  /\ mp.created < MaxCreate
  /\ IF mp.ref = 0 THEN UNCHANGED <<mp, bp, th>>
     ELSE /\ mp' = [mp EXCEPT !.ref = @ + 1, !.created = @ + 1]
          /\ bp' = [bp EXCEPT ![p] = [NoPool EXCEPT !.state = "making",
                                        !.size = size, !.depth = num]]
          /\ Local(t, [MIdle EXCEPT !.pc = "lock", !.pool = p, !.left = num])
  /\ UNCHANGED <<taken, lock>>

\* check_mempool_real_size
RealSizeOk(p) == bp[p].size * bp[p].depth <= mp.real

CreateLock(t) ==
  /\ At(t, "lock") /\ lock = NoOne
  /\ IF RealSizeOk(th[t].pool)
     THEN lock' = t /\ Local(t, [th[t] EXCEPT !.pc = "zone"])
     ELSE UNCHANGED lock /\ Local(t, [th[t] EXCEPT !.pc = "undo"])
  /\ UNCHANGED <<mp, taken, bp>>

\* Mutant of Runs: a run may end on a bit that is set.
RunsShort(pos, n) == {f \in pos .. (Bits - 1) : (f .. (f + n - 2)) \cap taken = {}}

\* The search of alloc_block_from_mempool: first bits, from pos on, of n bits
\* that are clear.  Only the first is tested against the size of the bitmap.
Runs(pos, n) == {f \in pos .. (Bits - 1) : (f .. (f + n - 1)) \cap taken = {}}

\* alloc_mem_multi_in_one: one memory block for several blocks
\* (mem_splited_num); alloc_mem_one_need_multi: several for one.
Split(p) == IF Unit >= bp[p].size THEN Unit \div bp[p].size ELSE 1
Combined(p) == IF Unit >= bp[p].size THEN 1 ELSE (bp[p].size + Unit - 1) \div Unit

\* alloc_memzone and the accounting of the loop around it; the next search
\* starts at the last bit taken.
CreateZone(t) ==
  LET p == th[t].pool  n == Combined(p)  runs == Runs(th[t].pos, n)  f == Min(runs)
  IN /\ At(t, "zone") /\ th[t].left > 0 /\ runs # {}
     /\ taken' = taken \cup (f .. (f + n - 1))
     /\ bp' = [bp EXCEPT ![p].zones = Append(@, [begin |-> f, end |-> f + n - 1])]
     /\ mp' = [mp EXCEPT !.free = @ - n, !.real = @ - n * Unit]
     /\ Local(t, [th[t] EXCEPT !.left = @ - Split(p), !.pos = f + n - 1])
     /\ UNCHANGED lock

\* Mutant of ZoneBits: the last block of a memzone stays taken.
ZoneBitsHalfOpen(p) == UNION {bp[p].zones[i].begin .. (bp[p].zones[i].end - 1) :
                                i \in DOMAIN bp[p].zones}
ZoneBits(p) == UNION {bp[p].zones[i].begin .. bp[p].zones[i].end : i \in DOMAIN bp[p].zones}

\* free_mem_to_mempool_nolock
GiveBack(p) == LET n == Cardinality(
                          UNION {bp[p].zones[i].begin .. bp[p].zones[i].end :
                                   i \in DOMAIN bp[p].zones})
               IN /\ taken' = taken \ ZoneBits(p)
                  /\ mp' = [mp EXCEPT !.free = @ + n, !.real = @ + n * Unit]

\* No run, or no memory for the memzone: what was taken so far goes back.
CreateFail(t) == LET p == th[t].pool IN
                 /\ At(t, "zone") /\ th[t].left > 0
                 /\ GiveBack(p)
                 /\ bp' = [bp EXCEPT ![p].zones = << >>]
                 /\ lock' = NoOne
                 /\ Local(t, [th[t] EXCEPT !.pc = "undo"])

CreateUnlock(t) == /\ At(t, "zone") /\ th[t].left <= 0
                   /\ lock' = NoOne
                   /\ Local(t, [th[t] EXCEPT !.pc = "elem"])
                   /\ UNCHANGED <<mp, taken, bp>>

\* The addresses of the pool's blocks: every memzone has Split(p) of them, the
\* last one may have fewer (blk_num of alloc_memzone).
Filled(p) == [k \in 1 .. bp[p].depth |->
                <<bp[p].zones[(k - 1) \div Split(p) + 1].begin, (k - 1) % Split(p)>>]

\* init_blkpool_elem; the creator's reference comes last.
CreateElem(t) == LET p == th[t].pool IN
                 /\ At(t, "elem")
                 /\ bp' = [bp EXCEPT ![p].stack = Filled(p), ![p].ref = 1,
                                     ![p].state = "live"]
                 /\ Local(t, MIdle)
                 /\ UNCHANGED <<mp, taken, lock>>

\* calloc of blk_elem failed (err_free_mem).
CreateElemFail(t) == LET p == th[t].pool IN
                     /\ At(t, "elem") /\ lock = NoOne
                     /\ GiveBack(p)
                     /\ bp' = [bp EXCEPT ![p].zones = << >>]
                     /\ Local(t, [th[t] EXCEPT !.pc = "undo"])
                     /\ UNCHANGED lock

\* err_uninit_lock, err_free_bp, err_sub_ref
CreateUndo(t) == /\ At(t, "undo")
                 /\ bp' = [bp EXCEPT ![th[t].pool] = NoPool]
                 /\ mp' = [mp EXCEPT !.ref = @ - 1]
                 /\ Local(t, MIdle)
                 /\ UNCHANGED <<taken, lock>>

-----------------------------------------------------------------------------
Usable(p) == bp[p].state \in {"live", "closing"}

\* wd_block_alloc: a reference first, unless the count is zero.
AllocRef(t, p) == /\ At(t, "idle") /\ Usable(p) /\ bp[p].ref > 0
                  /\ bp' = [bp EXCEPT ![p].ref = @ + 1]
                  /\ Local(t, [MIdle EXCEPT !.pc = "pop", !.pool = p])
                  /\ UNCHANGED <<mp, taken, lock>>

AllocPop(t) == LET p == th[t].pool  n == Len(bp[p].stack) IN
               /\ At(t, "pop") /\ n > 0
               /\ Local(t, [th[t] EXCEPT !.pc = "has", !.pos = bp[p].stack[n]])
               /\ bp' = [bp EXCEPT ![p].stack = SubSeq(@, 1, n - 1)]
               /\ UNCHANGED <<mp, taken, lock>>

\* The stack is empty: the reference goes back.
AllocEmpty(t) == LET p == th[t].pool IN
                 /\ At(t, "pop") /\ bp[p].stack = << >>
                 /\ bp' = [bp EXCEPT ![p].ref = @ - 1]
                 /\ Local(t, MIdle)
                 /\ UNCHANGED <<mp, taken, lock>>

\* wd_block_free: the block, then the reference.
FreePush(t) == LET p == th[t].pool IN
               /\ At(t, "has") /\ Len(bp[p].stack) < bp[p].depth
               /\ bp' = [bp EXCEPT ![p].stack = Append(@, th[t].pos)]
               /\ Local(t, [th[t] EXCEPT !.pc = "sub", !.pos = 0])
               /\ UNCHANGED <<mp, taken, lock>>

FreeSub(t) == /\ At(t, "sub")
              /\ bp' = [bp EXCEPT ![th[t].pool].ref = @ - 1]
              /\ Local(t, MIdle)
              /\ UNCHANGED <<mp, taken, lock>>

-----------------------------------------------------------------------------
\* wd_blockpool_destroy: the creator's reference, then the wait.
DestroySub(t, p) == /\ At(t, "idle") /\ bp[p].state = "live"
                    /\ bp' = [bp EXCEPT ![p].ref = @ - 1, ![p].state = "closing"]
                    /\ Local(t, [MIdle EXCEPT !.pc = "drain", !.pool = p])
                    /\ UNCHANGED <<mp, taken, lock>>

\* Mutant of DestroyEnd: the pool goes without the wait.
DestroyAtOnce(t) == LET p == th[t].pool IN
                    /\ At(t, "drain") /\ lock = NoOne
                    /\ GiveBack(p)
                    /\ bp' = [bp EXCEPT ![p] = NoPool]
                    /\ Local(t, [th[t] EXCEPT !.pc = "unref"])
                    /\ UNCHANGED lock

DestroyEnd(t) == LET p == th[t].pool IN
                 /\ At(t, "drain") /\ bp[p].ref = 0 /\ lock = NoOne
                 /\ GiveBack(p)
                 /\ bp' = [bp EXCEPT ![p] = NoPool]
                 /\ Local(t, [th[t] EXCEPT !.pc = "unref"])
                 /\ UNCHANGED lock

DestroyUnref(t) == /\ At(t, "unref")
                   /\ mp' = [mp EXCEPT !.ref = @ - 1]
                   /\ Local(t, MIdle)
                   /\ UNCHANGED <<taken, lock, bp>>

\* wd_mempool_destroy
MpSub(t) == /\ At(t, "idle") /\ mp.state = "live"
            /\ mp' = [mp EXCEPT !.ref = @ - 1, !.state = "closing"]
            /\ Local(t, [MIdle EXCEPT !.pc = "mpdrain"])
            /\ UNCHANGED <<taken, lock, bp>>

MpEnd(t) == /\ At(t, "mpdrain") /\ mp.ref = 0
            /\ mp' = [mp EXCEPT !.state = "freed"]
            /\ Local(t, MIdle)
            /\ UNCHANGED <<taken, lock, bp>>

-----------------------------------------------------------------------------
Calls(t) == \/ \E p \in Pools, s \in Sizes, n \in Nums : CreateRef(t, p, s, n)
            \/ \E p \in Pools : AllocRef(t, p) \/ DestroySub(t, p)
            \/ MpSub(t)

Steps(t) == \/ CreateLock(t) \/ CreateZone(t) \/ CreateFail(t) \/ CreateUnlock(t)
            \/ CreateElem(t) \/ CreateElemFail(t) \/ CreateUndo(t)
            \/ AllocPop(t) \/ AllocEmpty(t) \/ FreePush(t) \/ FreeSub(t)
            \/ DestroyEnd(t) \/ DestroyUnref(t) \/ MpEnd(t)

MNext == \E t \in Holders : Calls(t) \/ Steps(t)

MSpec == MInit /\ [][MNext]_memVars

-----------------------------------------------------------------------------
\* No memory block belongs to two block pools and every bit of a memzone is
\* set, whatever other pools took and gave back in between
\* (alloc_block_from_mempool, free_mem_to_mempool_nolock).
ZonesApart ==
  /\ \A p, q \in Pools : p # q => ZoneBits(p) \cap ZoneBits(q) = {}
  /\ \A p \in Pools : /\ ZoneBits(p) \subseteq taken
                      /\ \A i, j \in DOMAIN bp[p].zones : i < j =>
                           bp[p].zones[i].end < bp[p].zones[j].begin

\* While nobody holds the lock the counters are those of the bitmap: failed
\* creations gave everything back.
Used == Cardinality(taken \cap (0 .. (MapBits - 1))) +
        Cardinality((UNION {ZoneBits(p) : p \in Pools}) \cap HeapBits)
CountersExact == lock = NoOne => /\ mp.free = Bits - Used
                                 /\ mp.real = (RealBlocks - Used) * Unit

\* The memory pool's books are right: no block in two memzones, and the counters
\* are those of the bitmap (alloc_block_from_mempool, free_mem_to_mempool_nolock).
ZonesExact == ZonesApart /\ CountersExact

\* A thread that has a block of a pool, or stands between its two steps on
\* one, finds the pool and its memory still there, and no block is owned twice
\* (wd_blockpool_destroy waits for the references).
BlockKept ==
  /\ \A t \in Holders : th[t].pc \in {"pop", "has", "sub"} => Usable(th[t].pool)
  /\ \A p \in Pools : Usable(p) => mp.state # "freed"
  /\ \A t, u \in Holders : (t # u /\ At(t, "has") /\ At(u, "has") /\ th[t].pool = th[u].pool)
                             => th[t].pos # th[u].pos
  /\ \A t \in Holders : At(t, "has") =>
        th[t].pos \notin {bp[th[t].pool].stack[i] : i \in DOMAIN bp[th[t].pool].stack}
=============================================================================
