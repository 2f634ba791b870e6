------------------------------ MODULE BlockMem ------------------------------
(***************************************************************************)
(* The block memory of a context without SVA (wd_bmm.c).  The kernel       *)
(* reserves memory in slices that need not follow each other physically;   *)
(* the pool cuts it into blocks, sets the blocks aside that cross from one *)
(* slice to another, and hands out runs of blocks.  Addresses are offsets  *)
(* from act_start in units.  A pool may also lie in the caller's memory    *)
(* (setup->ops), which never gets a block array.                           *)
(***************************************************************************)
EXTENDS Integers, Sequences, FiniteSets, FiniteSetsExt

CONSTANTS Users,     \* the threads that allocate
          Layouts,   \* sequences of slices [pa, size] the kernel may return
          BlkSize,   \* setup->block_size, the same as act_blk_sz here
          Stride,    \* act_hd_sz + act_blk_sz
          Wanted,    \* setup->block_num
          MaxRun,    \* longest run a thread asks for
          MaxSkip,   \* MAX_SKIP_ATTEMPTS
          Width      \* values of free_blk_num: 2^32

\* The memory reserved, and its blocks are fewer than free_blk_num can count.
Size(layout) == LET F[i \in 0 .. Len(layout)] == IF i = 0 THEN 0 ELSE F[i - 1] + layout[i].size
                IN F[Len(layout)]

ASSUME BlockAssumption ==
  /\ {Wanted, MaxRun, MaxSkip} \subseteq Nat /\ {BlkSize, Stride, Width} \subseteq Nat \ {0}
  /\ BlkSize <= Stride
  /\ Layouts \subseteq Seq([pa : Nat, size : Nat \ {0}])
  /\ \A l \in Layouts : Size(l) \div Stride < Width

VARIABLES pool,      \* struct wd_blkpool
          used,      \* free_bitmap: the bits that are 1
          num,       \* blk_num of every block
          user       \* the threads: control point, start and length of the run

blockVars == <<pool, used, num, user>>

NoMem == [state |-> "none", kind |-> "wd", regions |-> << >>, total |-> 0,
           free |-> 0, wanted |-> 0]
Idle == [pc |-> "idle", start |-> 0, n |-> 0]

BInit == /\ pool = NoMem /\ used = {} /\ num = << >>
         /\ user = [u \in Users |-> Idle]

\* wd_add_slice: a slice that follows the last one physically extends it.
AddSlice(regions, s) ==
  LET l == Len(regions)
      va == IF l = 0 THEN 0 ELSE regions[l].va + regions[l].size
  IN IF l > 0 /\ regions[l].pa + regions[l].size = s.pa
     THEN [regions EXCEPT ![l].size = @ + s.size]
     ELSE Append(regions, [pa |-> s.pa, va |-> va, size |-> s.size])

\* wd_map_reserve_mem: one ioctl per slice.
Regions(layout) == LET F[i \in 0 .. Len(layout)] ==
                         IF i = 0 THEN << >> ELSE AddSlice(F[i - 1], layout[i])
                   IN F[Len(layout)]

\* wd_iova_map; NoDma for an address outside every region.
NoDma == -1
IovaMap(regions, va) ==
  LET in == {i \in DOMAIN regions : regions[i].va <= va /\ va < regions[i].va + regions[i].size}
  IN IF in = {} THEN NoDma
     ELSE LET r == regions[Min(in)] IN r.pa + (va - r.va)

Contiguous(regions, i) ==
  IovaMap(regions, i * Stride + BlkSize - 1) - IovaMap(regions, i * Stride) = BlkSize - 1

\* wd_pool_init: blocks that are not contiguous are marked used for good; too
\* few blocks and the pool is not made.
Create(layout) ==
  LET regions == Regions(layout)
      total == Size(layout) \div Stride
      good == {i \in 0 .. (total - 1) : Contiguous(regions, i)}
  IN /\ pool.state = "none" /\ total > 0
     /\ Cardinality(good) > (87 * Wanted) \div 100
     /\ pool' = [state |-> "live", kind |-> "wd", regions |-> regions, total |-> total,
                 free |-> Cardinality(good), wanted |-> Cardinality(good)]
     /\ used' = (0 .. (total - 1)) \ good
     /\ num' = [i \in 0 .. (total - 1) |-> 0]
     /\ UNCHANGED user

\* usr_pool_init writes its headers into the caller's memory and sets neither
\* blk_array, free_bitmap nor total_blocks.
CreateUser == /\ pool.state = "none"
              /\ pool' = [NoMem EXCEPT !.state = "live", !.kind = "user",
                                        !.free = Wanted, !.wanted = Wanted]
              /\ UNCHANGED <<used, num, user>>

\* wd_mempool_free: refused while a block is out.
Destroy == /\ pool.state = "live" /\ pool.free = pool.wanted
           /\ \A u \in Users : user[u].pc = "idle"
           /\ pool' = NoMem /\ used' = {} /\ num' = << >>
           /\ UNCHANGED user

-----------------------------------------------------------------------------
\* wd_mem_alloc compares with free_blk_num before it takes the lock.
AllocTest(u, n) == /\ pool.state = "live" /\ user[u].pc = "idle" /\ n <= pool.free
                   /\ user' = [user EXCEPT ![u] = [pc |-> "find", start |-> 0, n |-> n]]
                   /\ UNCHANGED <<pool, used, num>>

Dma(i) == IovaMap(pool.regions, i * Stride)

\* Where a run of n free blocks starts.
Clear(n) == {s \in 0 .. (pool.total - n) : (s .. (s + n - 1)) \cap used = {}}

\* The first and the last block of the run are as far apart physically as
\* virtually; the ones between are not looked at.
EndsAgree(s, n) == n > 1 => Dma(s + n - 1) - Dma(s) = (n - 1) * Stride

\* wd_find_contiguous_blocks: the first run whose ends agree, unless more than
\* MaxSkip were passed over.
Found(n) == {s \in Clear(n) : /\ EndsAgree(s, n)
                              /\ \A r \in Clear(n) : r < s => ~EndsAgree(r, n)
                              /\ Cardinality({r \in Clear(n) : r < s}) <= MaxSkip}

AllocTake(u) ==
  LET n == user[u].n IN
  /\ user[u].pc = "find"
  /\ \E s \in Found(n) :
       /\ used' = used \cup (s .. (s + n - 1))
       /\ num' = [num EXCEPT ![s] = n]
       /\ pool' = [pool EXCEPT !.free = (@ + Width - n) % Width]
       /\ user' = [user EXCEPT ![u] = [pc |-> "has", start |-> s, n |-> n]]

AllocNone(u) == /\ user[u].pc = "find" /\ Found(user[u].n) = {}
                /\ user' = [user EXCEPT ![u] = Idle]
                /\ UNCHANGED <<pool, used, num>>

\* wd_mem_free reads blk_num before it takes the lock.
FreeRead(u) == /\ user[u].pc = "has"
               /\ user' = [user EXCEPT ![u] = [@ EXCEPT !.pc = "clear", !.n = num[user[u].start]]]
               /\ UNCHANGED <<pool, used, num>>

\* Mutant of FreeClear: only the first block of the run is given back.
FreesFirst(u) == LET s == user[u].start  run == {s} IN
                /\ user[u].pc = "clear"
                /\ used' = used \ run
                /\ num' = [i \in DOMAIN num |-> IF i \in run THEN 0 ELSE num[i]]
                /\ pool' = [pool EXCEPT !.free = (@ + user[u].n) % Width]
                /\ user' = [user EXCEPT ![u] = Idle]

FreeClear(u) == LET s == user[u].start  run == s .. (s + user[u].n - 1) IN
                /\ user[u].pc = "clear"
                /\ used' = used \ run
                /\ num' = [i \in DOMAIN num |-> IF i \in run THEN 0 ELSE num[i]]
                /\ pool' = [pool EXCEPT !.free = (@ + user[u].n) % Width]
                /\ user' = [user EXCEPT ![u] = Idle]

BNext == \/ \E l \in Layouts : Create(l)
         \/ CreateUser \/ Destroy
         \/ \E u \in Users : \/ \E n \in 1 .. MaxRun : AllocTest(u, n)
                             \/ AllocTake(u) \/ AllocNone(u) \/ FreeRead(u) \/ FreeClear(u)

BSpec == BInit /\ [][BNext]_blockVars

-----------------------------------------------------------------------------
RunOf(u) == IF user[u].pc \in {"has", "clear"}
            THEN user[u].start .. (user[u].start + user[u].n - 1) ELSE {}

\* Mutant of MemMap: the DMA address is counted from the start of the run.
MapsFromRun(buf) == LET s == {i \in 0 .. (buf \div Stride) : num[i] # 0}
                    IN IF s = {} THEN NoDma ELSE Dma(Max(s)) + (buf - Max(s) * Stride)

\* wd_mem_map: the block the address falls into, then the offset in it.
MemMap(buf) == LET i == buf \div Stride
               IN IF i >= pool.total \/ i \notin used THEN NoDma
                  ELSE Dma(i) + (buf - i * Stride)

\* The runs of two threads share no block, no run reaches past the pool, and
\* free_blk_num counts the rest though it is compared outside the lock
\* (wd_mem_alloc, wd_mem_free).
RunsApart ==
  /\ \A u, v \in Users : u # v => RunOf(u) \cap RunOf(v) = {}
  /\ \A u \in Users : RunOf(u) \subseteq 0 .. (pool.total - 1)
  /\ pool.kind = "wd" /\ pool.state = "live" =>
        pool.free = pool.total - Cardinality(used)

\* The DMA address of every byte of every block a thread has is the one the
\* kernel gave, also in the middle of a run and behind a slice boundary.
MapTrue == \A u \in Users : \A i \in RunOf(u) : \A b \in 0 .. (BlkSize - 1) :
             MemMap(i * Stride + b) = IovaMap(pool.regions, i * Stride + b)

\* The books of the block manager are right, with the DMA address of every block
\* handed out (wd_mem_alloc, wd_mem_free, wd_mem_map).
RunsExact == RunsApart /\ MapTrue
=============================================================================
