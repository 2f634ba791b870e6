--------------------------- MODULE MemPoolProofs ---------------------------
(***************************************************************************)
(* Proofs about MemPool.  The references of a block pool are its creator's *)
(* and those of the threads between the steps of an allocation or a        *)
(* release, the references of the memory pool those of its creator, its    *)
(* block pools and the threads that destroy one; so neither is released    *)
(* while it is in use.  The memzones of all pools are disjoint runs of     *)
(* bits that are set, and the two counters count them.                     *)
(*                                                                         *)
(* At the end, the block manager of a context (BlockMem): users hold       *)
(* disjoint runs, and what a block address is mapped to, over regions built *)
(* from the slices of the memory, is one piece.                            *)
(***************************************************************************)
EXTENDS MemPool, BlockMem, RingArith, FiniteSetTheorems, SequenceTheorems, TLAPS

Blocks == Nat \X Nat
Zones == [begin : Nat, end : Nat]
MpType == [state : {"live", "closing", "freed"}, ref : Int, free : Int, real : Int,
           created : Nat]
PoolType == [state : {"none", "making", "live", "closing"}, ref : Int, size : Nat,
             depth : Nat, zones : Seq(Zones), stack : Seq(Blocks)]
Points == {"idle", "lock", "zone", "elem", "undo", "pop", "has", "sub", "drain", "unref",
           "mpdrain"}
ThreadType == [pc : Points, pool : Pools \cup {NoOne}, left : Int,
               pos : Nat \cup Blocks]

TypeInv == /\ mp \in MpType /\ bp \in [Pools -> PoolType]
           /\ th \in [Holders -> ThreadType]
           /\ taken \subseteq Nat

\* A pool being made or destroyed has one thread that does it, and a pool that
\* is used is there.
Making == {"lock", "zone", "elem", "undo"}
Using == {"pop", "has", "sub"}
OwnOf(t) ==
  /\ th[t].pc \in Making => th[t].pool \in Pools /\ bp[th[t].pool].state = "making"
  /\ th[t].pc = "drain" => th[t].pool \in Pools /\ bp[th[t].pool].state = "closing"
  /\ th[t].pc \in Using => th[t].pool \in Pools /\ Usable(th[t].pool)
OwnInv == \A t \in Holders : OwnOf(t)
AloneInv ==
  \A t, u \in Holders : t # u /\ th[t].pc \in Making \cup {"drain"}
                        /\ th[u].pc \in Making \cup {"drain"} => th[t].pool # th[u].pool

\* bp->ref
UsersOf(p) == {t \in Holders : th[t].pc \in Using /\ th[t].pool = p}
RefInv == \A p \in Pools : Usable(p) =>
            bp[p].ref = Cardinality(UsersOf(p)) + (IF bp[p].state = "live" THEN 1 ELSE 0)

\* mp->ref
There == {p \in Pools : bp[p].state # "none"}
Leaving == {t \in Holders : th[t].pc = "unref"}
MpInv == /\ mp.ref = Cardinality(There) + Cardinality(Leaving)
                     + (IF mp.state = "live" THEN 1 ELSE 0)
         /\ mp.state = "freed" => There = {}

\* The memzones
AllBits == 0 .. (MapBits + Longest - 1)
ZoneOf(p) ==
  /\ \A i \in DOMAIN bp[p].zones : /\ bp[p].zones[i].begin <= bp[p].zones[i].end
                                   /\ bp[p].zones[i].end < MapBits + Longest
  /\ \A i, j \in DOMAIN bp[p].zones : i < j => bp[p].zones[i].end < bp[p].zones[j].begin
  /\ ZoneBits(p) \subseteq taken
  /\ bp[p].state # "none" => bp[p].size \in Sizes /\ bp[p].depth \in Nums
  /\ bp[p].state = "none" => bp[p].zones = << >>
ZoneInv == \A p \in Pools : ZoneOf(p)
ApartInv == \A p, q \in Pools : p # q => ZoneBits(p) \cap ZoneBits(q) = {}

\* The search goes on at the last bit taken, and stops when all blocks have
\* their place.
LoopOf(t) ==
  /\ th[t].pc = "lock" => /\ bp[th[t].pool].zones = << >>
                          /\ th[t].left = bp[th[t].pool].depth /\ th[t].pos = 0
  /\ th[t].pc = "zone" =>
       /\ th[t].pos \in Nat
       /\ \A i \in DOMAIN bp[th[t].pool].zones : bp[th[t].pool].zones[i].end <= th[t].pos
       /\ bp[th[t].pool].zones # << >> => th[t].pos \in ZoneBits(th[t].pool)
       /\ th[t].left + Len(bp[th[t].pool].zones) * Split(th[t].pool)
            = bp[th[t].pool].depth
  /\ th[t].pc = "elem" =>
       bp[th[t].pool].depth <= Len(bp[th[t].pool].zones) * Split(th[t].pool)
  /\ th[t].pc = "undo" => bp[th[t].pool].zones = << >>
LoopInv == \A t \in Holders : LoopOf(t)

\* The counters
CountInv == mp.free = Bits - Used /\ mp.real = (RealBlocks - Used) * Unit

\* The blocks on the stack and in the threads' hands
Elems(p) == {bp[p].stack[i] : i \in DOMAIN bp[p].stack}
StackInv ==
  /\ \A p \in Pools : \A i, j \in DOMAIN bp[p].stack :
       bp[p].stack[i] = bp[p].stack[j] => i = j
  /\ \A t \in Holders : At(t, "has") => /\ th[t].pos \in Blocks
                                        /\ th[t].pos \notin Elems(th[t].pool)
  /\ \A t, u \in Holders : t # u /\ At(t, "has") /\ At(u, "has")
                           /\ th[t].pool = th[u].pool => th[t].pos # th[u].pos

-----------------------------------------------------------------------------
\* Numbers

\* A quotient by k is at least 1 from k on.
LEMMA DivPositive ==
  ASSUME NEW a \in Nat, NEW k \in Nat \ {0}, a >= k PROVE a \div k \in Nat \ {0}
  OBVIOUS

\* Rounding up to words covers all.
LEMMA RoundUp ==
  ASSUME NEW b \in Nat, NEW w \in Nat \ {0}
  PROVE  /\ ((b + w - 1) \div w) * w \in Nat
         /\ b <= ((b + w - 1) \div w) * w
<1> DEFINE q == (b + w - 1) \div w
           r == (b + w - 1) % w
<1>1. q \in Int /\ r \in 0 .. (w - 1) /\ b + w - 1 = w * q + r
  OBVIOUS
<1>2. q \in Nat
  OBVIOUS
<1> HIDE DEF q, r
<1>3. w * q = q * w /\ q * w \in Nat
  BY <1>1, <1>2
<1> QED BY <1>1, <1>3 DEF q

\* Quotients grow with the dividend.
LEMMA DivMonotone ==
  ASSUME NEW a \in Nat, NEW b \in Nat, NEW k \in Nat \ {0}, a <= b
  PROVE  a \div k <= b \div k
<1> DEFINE x == a \div k
           y == b \div k
<1>1. x \in Int /\ y \in Int /\ a >= k * x /\ a < k * x + k /\ b >= k * y /\ b < k * y + k
  OBVIOUS
<1> HIDE DEF x, y
<1>2. ASSUME x >= y + 1 PROVE FALSE
  <2>1. k * x >= k * (y + 1)
    BY <1>1, <1>2
  <2>2. k * (y + 1) = k * y + k
    BY <1>1
  <2> QED BY <1>1, <2>1, <2>2
<1> QED BY <1>1, <1>2 DEF x, y

\* Quotient and remainder name a number, and the quotient is below m for
\* numbers below m * k.
LEMMA DivPlace ==
  ASSUME NEW k \in Nat \ {0}, NEW a \in Nat
  PROVE  /\ a \div k \in Nat /\ a % k \in Nat
         /\ \A b \in Nat : a \div k = b \div k /\ a % k = b % k => a = b
         /\ \A m \in Nat : a < m * k => a \div k < m
<1>1. a \div k \in Nat /\ a % k \in Nat
  OBVIOUS
<1>2. \A b \in Nat : b = k * (b \div k) + (b % k)
  <2> SUFFICES ASSUME NEW b \in Nat PROVE b = k * (b \div k) + (b % k)
    OBVIOUS
  <2> DEFINE q == b \div k
             r == b % k
  <2>1. q \in Int /\ r \in 0 .. (k - 1) /\ b = k * q + r
    OBVIOUS
  <2> QED BY <2>1
<1>3. ASSUME NEW m \in Nat, a < m * k PROVE a \div k < m
  <2> DEFINE q == a \div k
  <2>1. q \in Nat /\ k * q <= a
    OBVIOUS
  <2> HIDE DEF q
  <2>2. ASSUME q >= m PROVE FALSE
    <3>1. k * q >= k * m /\ k * m = m * k
      BY <2>1, <2>2
    <3> QED BY <1>3, <2>1, <3>1
  <2> QED BY <2>1, <2>2 DEF q
<1> QED BY <1>1, <1>2, <1>3

\* The bits a run may have.
LEMMA Sizing ==
  /\ MapBits \in Nat /\ Bits <= MapBits /\ Longest \in Nat \ {0}
  /\ \A s \in Sizes : (s + Unit - 1) \div Unit \in 1 .. Longest
  /\ HeapBits = MapBits .. (MapBits + Longest - 1)
<1> USE MemAssumption
<1>1. MapBits \in Nat /\ Bits <= MapBits
  BY RoundUp DEF MapBits
<1> DEFINE c(s) == (s + Unit - 1) \div Unit
           S == {c(s) : s \in Sizes}
<1>2. \A s \in Sizes : c(s) \in Nat \ {0}
  <2> SUFFICES ASSUME NEW s \in Sizes PROVE c(s) \in Nat \ {0}
    OBVIOUS
  <2>1. s + Unit - 1 \in Nat /\ s + Unit - 1 >= Unit
    OBVIOUS
  <2> QED BY <2>1, DivPositive
<1>3. PICK m \in Sizes : \A s \in Sizes : s <= m
  OBVIOUS
<1>4. \A s \in Sizes : c(s) <= c(m)
  <2> SUFFICES ASSUME NEW s \in Sizes PROVE c(s) <= c(m)
    OBVIOUS
  <2>1. s + Unit - 1 \in Nat /\ m + Unit - 1 \in Nat /\ s + Unit - 1 <= m + Unit - 1
    BY <1>3
  <2> QED BY <2>1, DivMonotone
<1> HIDE DEF c
<1>5. \E x \in S : \A y \in S : x >= y
  BY <1>2, <1>3, <1>4
<1>6. Longest = Max(S)
  BY DEF Longest, c
<1>7. Longest \in S /\ \A y \in S : Longest >= y
  <2> HIDE DEF S
  <2> QED BY <1>5, <1>6 DEF Max
<1>8. Longest \in Nat \ {0} /\ \A s \in Sizes : c(s) \in 1 .. Longest
  BY <1>2, <1>7
<1> QED BY <1>1, <1>8 DEF HeapBits, c

\* How many blocks a memzone has, and how many memory blocks.
LEMMA SplitCombined ==
  ASSUME NEW p \in Pools, bp[p].size \in Sizes
  PROVE  Split(p) \in Nat \ {0} /\ Combined(p) \in 1 .. Longest
<1> DEFINE s == bp[p].size
<1>1. s \in Nat \ {0} /\ Unit \in Nat \ {0}
  BY MemAssumption
<1>2. Longest \in Nat \ {0} /\ (s + Unit - 1) \div Unit \in 1 .. Longest
  BY Sizing
<1>3. Split(p) \in Nat \ {0}
  <2>1. CASE Unit >= s
    <3>1. Unit \div s \in Nat \ {0}
      BY <1>1, <2>1, DivPositive
    <3> QED BY <2>1, <3>1 DEF Split
  <2>2. CASE ~(Unit >= s)
    BY <2>2 DEF Split
  <2> QED BY <2>1, <2>2
<1>4. Combined(p) \in 1 .. Longest
  BY <1>1, <1>2 DEF Combined
<1> QED BY <1>3, <1>4

\* The run the search takes.
LEMMA FirstRun ==
  ASSUME NEW pos \in Nat, NEW n, Runs(pos, n) # {}
  PROVE  Min(Runs(pos, n)) \in Runs(pos, n)
<1>1. Runs(pos, n) \in SUBSET Nat
  BY MemAssumption DEF Runs
<1>2. \E x \in Runs(pos, n) : \A y \in Runs(pos, n) : x <= y
  BY <1>1, LeastNat
<1> QED BY <1>2 DEF Min

-----------------------------------------------------------------------------
\* The effects of the steps, field by field

Others(t) == \A u \in Holders : u # t => th'[u] = th[u]
OtherPools(p) == \A q \in Pools : q # p => bp'[q] = bp[q]
SameBooks == taken' = taken /\ mp'.free = mp.free /\ mp'.real = mp.real
SameMp == mp'.ref = mp.ref /\ mp'.state = mp.state
SameLife(p) == bp'[p].state = bp[p].state /\ bp'[p].ref = bp[p].ref
SameZones(p) == /\ bp'[p].zones = bp[p].zones /\ bp'[p].size = bp[p].size
                /\ bp'[p].depth = bp[p].depth

\* One thread's record changes.
LEMMA ThreadStep ==
  ASSUME TypeInv, NEW t \in Holders, NEW r \in ThreadType, th' = [th EXCEPT ![t] = r]
  PROVE  th' \in [Holders -> ThreadType] /\ th'[t] = r /\ Others(t)
  BY DEF TypeInv, Others

\* One pool's record changes.
LEMMA PoolStep ==
  ASSUME TypeInv, NEW p \in Pools, NEW r \in PoolType, bp' = [bp EXCEPT ![p] = r]
  PROVE  bp' \in [Pools -> PoolType] /\ bp'[p] = r /\ OtherPools(p)
  BY DEF TypeInv, OtherPools

\* The record of a thread that is not in a call.
LEMMA IdleTyped ==
  /\ MIdle \in ThreadType /\ MIdle.pc = "idle" /\ MIdle.pool = NoOne /\ MIdle.pos = 0
  /\ NoPool \in PoolType /\ NoPool.state = "none" /\ NoPool.zones = << >>
  /\ NoPool.stack = << >>
<1>1. << >> \in Seq(Zones) /\ << >> \in Seq(Blocks)
  OBVIOUS
<1>2. 0 \in Nat \cup Blocks
  OBVIOUS
<1> QED BY <1>1, <1>2 DEF MIdle, ThreadType, Points, NoPool, PoolType

\* wd_blockpool_create takes a reference of the memory pool.
LEMMA CreateRefEff ==
  ASSUME TypeInv, NEW t \in Holders, NEW p \in Pools, NEW s \in Sizes, NEW k \in Nums,
         CreateRef(t, p, s, k), mp.ref # 0
  PROVE  /\ TypeInv' /\ Others(t) /\ OtherPools(p) /\ SameBooks
         /\ th[t].pc = "idle" /\ th'[t].pc = "lock" /\ th'[t].pool = p
         /\ th'[t].left = k /\ th'[t].pos = 0
         /\ bp[p].state = "none" /\ bp'[p].state = "making" /\ bp'[p].size = s
         /\ bp'[p].depth = k /\ bp'[p].zones = << >> /\ bp'[p].stack = << >>
         /\ mp.state # "freed" /\ mp'.state = mp.state /\ mp'.ref = mp.ref + 1
<1> DEFINE a == [MIdle EXCEPT !.pc = "lock", !.pool = p, !.left = k]
           b == [NoPool EXCEPT !.state = "making", !.size = s, !.depth = k]
<1>1. /\ th[t].pc = "idle" /\ mp.state # "freed" /\ bp[p].state = "none"
      /\ mp' = [mp EXCEPT !.ref = @ + 1, !.created = @ + 1]
      /\ bp' = [bp EXCEPT ![p] = b] /\ th' = [th EXCEPT ![t] = a] /\ taken' = taken
  BY DEF CreateRef, At, Local
<1>2. s \in Nat /\ k \in Nat
  BY MemAssumption
<1>3. /\ a \in ThreadType /\ a.pc = "lock" /\ a.pool = p /\ a.left = k /\ a.pos = 0
  <2>1. "lock" \in Points /\ p \in Pools \cup {NoOne} /\ k \in Int
    BY <1>2 DEF Points
  <2> QED BY <2>1, IdleTyped DEF ThreadType
<1>4. /\ b \in PoolType /\ b.state = "making" /\ b.size = s /\ b.depth = k
      /\ b.zones = << >> /\ b.stack = << >>
  <2>1. "making" \in {"none", "making", "live", "closing"}
    OBVIOUS
  <2> QED BY <1>2, <2>1, IdleTyped DEF PoolType
<1> HIDE DEF a, b
<1>5. /\ mp' \in MpType /\ mp'.state = mp.state /\ mp'.ref = mp.ref + 1
      /\ mp'.free = mp.free /\ mp'.real = mp.real
  <2>1. mp \in MpType
    BY DEF TypeInv
  <2> DEFINE x == mp.ref + 1
             y == mp.created + 1
  <2>2. x \in Int /\ y \in Nat
    BY <2>1 DEF MpType
  <2>3. mp' = [mp EXCEPT !.ref = x, !.created = y]
    BY <1>1, <2>1 DEF MpType
  <2> HIDE DEF x, y
  <2>4. /\ mp' \in MpType /\ mp'.state = mp.state /\ mp'.ref = x
        /\ mp'.free = mp.free /\ mp'.real = mp.real
    BY <2>1, <2>2, <2>3 DEF MpType
  <2> QED BY <2>4 DEF x
<1>6. /\ th' \in [Holders -> ThreadType] /\ th'[t] = a /\ Others(t)
      /\ bp' \in [Pools -> PoolType] /\ bp'[p] = b /\ OtherPools(p)
  BY <1>1, <1>3, <1>4, ThreadStep, PoolStep
<1>7. TypeInv'
  BY <1>1, <1>5, <1>6 DEF TypeInv
<1> QED BY <1>1, <1>3, <1>4, <1>5, <1>6, <1>7 DEF SameBooks

\* A step of a thread that leaves pools and memory alone.
LEMMA PointEff ==
  ASSUME TypeInv, NEW t \in Holders, NEW q \in Points,
         th' = [th EXCEPT ![t] = [th[t] EXCEPT !.pc = q]],
         bp' = bp, mp' = mp, taken' = taken
  PROVE  /\ TypeInv' /\ Others(t)
         /\ th'[t].pc = q /\ th'[t].pool = th[t].pool /\ th'[t].left = th[t].left
         /\ th'[t].pos = th[t].pos
<1> DEFINE a == [th[t] EXCEPT !.pc = q]
<1>1. th[t] \in ThreadType
  BY DEF TypeInv
<1>2. /\ a \in ThreadType /\ a.pc = q /\ a.pool = th[t].pool /\ a.left = th[t].left
      /\ a.pos = th[t].pos
  BY <1>1 DEF ThreadType
<1>3. th' = [th EXCEPT ![t] = a]
  OBVIOUS
<1> HIDE DEF a
<1>4. th' \in [Holders -> ThreadType] /\ th'[t] = a /\ Others(t)
  BY <1>2, <1>3, ThreadStep
<1> QED BY <1>2, <1>4 DEF TypeInv

\* mp->ref changes.
LEMMA MpRefEff ==
  ASSUME TypeInv, NEW x \in Int, NEW s \in {"live", "closing", "freed"},
         mp' = [mp EXCEPT !.ref = x, !.state = s]
  PROVE  /\ mp' \in MpType /\ mp'.ref = x /\ mp'.state = s
         /\ mp'.free = mp.free /\ mp'.real = mp.real
<1>1. mp \in MpType
  BY DEF TypeInv
<1> QED BY <1>1 DEF MpType

\* The counters of the memory pool change.
LEMMA MpCountEff ==
  ASSUME TypeInv, NEW x \in Int, NEW y \in Int, mp' = [mp EXCEPT !.free = x, !.real = y]
  PROVE  mp' \in MpType /\ SameMp /\ mp'.free = x /\ mp'.real = y
<1>1. mp \in MpType
  BY DEF TypeInv
<1> QED BY <1>1 DEF MpType, SameMp

\* bp->ref and the life of a block pool change.
LEMMA PoolRefEff ==
  ASSUME TypeInv, NEW p \in Pools, NEW x \in Int,
         NEW s \in {"none", "making", "live", "closing"},
         bp' = [bp EXCEPT ![p] = [bp[p] EXCEPT !.ref = x, !.state = s]]
  PROVE  /\ bp' \in [Pools -> PoolType] /\ OtherPools(p) /\ SameZones(p)
         /\ bp'[p].ref = x /\ bp'[p].state = s /\ bp'[p].stack = bp[p].stack
<1> DEFINE r == [bp[p] EXCEPT !.ref = x, !.state = s]
<1>1. bp[p] \in PoolType
  BY DEF TypeInv
<1>2. /\ r \in PoolType /\ r.ref = x /\ r.state = s /\ r.stack = bp[p].stack
      /\ r.zones = bp[p].zones /\ r.size = bp[p].size /\ r.depth = bp[p].depth
  BY <1>1 DEF PoolType
<1>3. bp' = [bp EXCEPT ![p] = r]
  OBVIOUS
<1> HIDE DEF r
<1>4. bp' \in [Pools -> PoolType] /\ bp'[p] = r /\ OtherPools(p)
  BY <1>2, <1>3, PoolStep
<1> QED BY <1>2, <1>4 DEF SameZones

\* Its stack changes.
LEMMA PoolStackEff ==
  ASSUME TypeInv, NEW p \in Pools, NEW s \in Seq(Blocks),
         bp' = [bp EXCEPT ![p] = [bp[p] EXCEPT !.stack = s]]
  PROVE  /\ bp' \in [Pools -> PoolType] /\ OtherPools(p) /\ SameZones(p) /\ SameLife(p)
         /\ bp'[p].stack = s
<1> DEFINE r == [bp[p] EXCEPT !.stack = s]
<1>1. bp[p] \in PoolType
  BY DEF TypeInv
<1>2. /\ r \in PoolType /\ r.ref = bp[p].ref /\ r.state = bp[p].state /\ r.stack = s
      /\ r.zones = bp[p].zones /\ r.size = bp[p].size /\ r.depth = bp[p].depth
  BY <1>1 DEF PoolType
<1>3. bp' = [bp EXCEPT ![p] = r]
  OBVIOUS
<1> HIDE DEF r
<1>4. bp' \in [Pools -> PoolType] /\ bp'[p] = r /\ OtherPools(p)
  BY <1>2, <1>3, PoolStep
<1> QED BY <1>2, <1>4 DEF SameZones, SameLife

\* Its memzones change.
LEMMA PoolZonesEff ==
  ASSUME TypeInv, NEW p \in Pools, NEW z \in Seq(Zones),
         bp' = [bp EXCEPT ![p] = [bp[p] EXCEPT !.zones = z]]
  PROVE  /\ bp' \in [Pools -> PoolType] /\ OtherPools(p) /\ SameLife(p)
         /\ bp'[p].zones = z /\ bp'[p].stack = bp[p].stack
         /\ bp'[p].size = bp[p].size /\ bp'[p].depth = bp[p].depth
<1> DEFINE r == [bp[p] EXCEPT !.zones = z]
<1>1. bp[p] \in PoolType
  BY DEF TypeInv
<1>2. /\ r \in PoolType /\ r.ref = bp[p].ref /\ r.state = bp[p].state /\ r.zones = z
      /\ r.stack = bp[p].stack /\ r.size = bp[p].size /\ r.depth = bp[p].depth
  BY <1>1 DEF PoolType
<1>3. bp' = [bp EXCEPT ![p] = r]
  OBVIOUS
<1> HIDE DEF r
<1>4. bp' \in [Pools -> PoolType] /\ bp'[p] = r /\ OtherPools(p)
  BY <1>2, <1>3, PoolStep
<1> QED BY <1>2, <1>4 DEF SameLife

\* The pool is freed.
LEMMA PoolGoneEff ==
  ASSUME TypeInv, NEW p \in Pools, bp' = [bp EXCEPT ![p] = NoPool]
  PROVE  /\ bp' \in [Pools -> PoolType] /\ OtherPools(p) /\ bp'[p].state = "none"
         /\ bp'[p].zones = << >> /\ bp'[p].stack = << >>
  BY IdleTyped, PoolStep

\* A thread is back from its call.
LEMMA IdleEff ==
  ASSUME TypeInv, NEW t \in Holders, th' = [th EXCEPT ![t] = MIdle]
  PROVE  th' \in [Holders -> ThreadType] /\ Others(t) /\ th'[t].pc = "idle"
  BY IdleTyped, ThreadStep

\* A thread is in a call for pool p.
LEMMA CallEff ==
  ASSUME TypeInv, NEW t \in Holders, NEW p \in Pools, NEW q \in Points,
         th' = [th EXCEPT ![t] = [MIdle EXCEPT !.pc = q, !.pool = p]]
  PROVE  /\ th' \in [Holders -> ThreadType] /\ Others(t) /\ th'[t].pc = q
         /\ th'[t].pool = p
<1> DEFINE a == [MIdle EXCEPT !.pc = q, !.pool = p]
<1>1. a \in ThreadType /\ a.pc = q /\ a.pool = p
  BY IdleTyped DEF ThreadType
<1>2. th' = [th EXCEPT ![t] = a]
  OBVIOUS
<1> HIDE DEF a
<1> QED BY <1>1, <1>2, ThreadStep

\* A thread goes on with another position.
LEMMA PosEff ==
  ASSUME TypeInv, NEW t \in Holders, NEW q \in Points, NEW x \in Nat \cup Blocks,
         NEW l \in Int,
         th' = [th EXCEPT ![t] = [th[t] EXCEPT !.pc = q, !.pos = x, !.left = l]]
  PROVE  /\ th' \in [Holders -> ThreadType] /\ Others(t) /\ th'[t].pc = q
         /\ th'[t].pool = th[t].pool /\ th'[t].pos = x /\ th'[t].left = l
<1> DEFINE a == [th[t] EXCEPT !.pc = q, !.pos = x, !.left = l]
<1>1. th[t] \in ThreadType
  BY DEF TypeInv
<1>2. /\ a \in ThreadType /\ a.pc = q /\ a.pool = th[t].pool /\ a.pos = x /\ a.left = l
  BY <1>1 DEF ThreadType
<1>3. th' = [th EXCEPT ![t] = a]
  OBVIOUS
<1> HIDE DEF a
<1> QED BY <1>2, <1>3, ThreadStep

\* alloc_mem_from_mempool takes the lock and gives it back.
LEMMA LockEff ==
  ASSUME TypeInv, NEW t \in Holders, CreateLock(t) \/ CreateUnlock(t)
  PROVE  /\ TypeInv' /\ Others(t) /\ bp' = bp /\ mp' = mp /\ taken' = taken
         /\ th'[t].pool = th[t].pool /\ th'[t].left = th[t].left /\ th'[t].pos = th[t].pos
         /\ \/ th[t].pc = "lock" /\ th'[t].pc \in {"zone", "undo"}
            \/ th[t].pc = "zone" /\ th'[t].pc = "elem" /\ th[t].left <= 0
<1>1. CASE CreateLock(t)
  <2>1. \E q \in {"zone", "undo"} :
          /\ th' = [th EXCEPT ![t] = [th[t] EXCEPT !.pc = q]] /\ th[t].pc = "lock"
          /\ bp' = bp /\ mp' = mp /\ taken' = taken
    BY <1>1 DEF CreateLock, Local, At
  <2>2. PICK q \in {"zone", "undo"} :
          /\ th' = [th EXCEPT ![t] = [th[t] EXCEPT !.pc = q]] /\ th[t].pc = "lock"
          /\ bp' = bp /\ mp' = mp /\ taken' = taken
    BY <2>1
  <2>3. q \in Points
    BY DEF Points
  <2> QED BY <2>2, <2>3, PointEff
<1>2. CASE CreateUnlock(t)
  <2>1. /\ th' = [th EXCEPT ![t] = [th[t] EXCEPT !.pc = "elem"]] /\ th[t].pc = "zone"
        /\ th[t].left <= 0 /\ bp' = bp /\ mp' = mp /\ taken' = taken
    BY <1>2 DEF CreateUnlock, Local, At
  <2>2. "elem" \in Points
    BY SMTT(30) DEF Points
  <2> QED BY <2>1, <2>2, PointEff
<1> QED BY <1>1, <1>2

\* A memzone of n bits is taken for p.
Zoned(t, p, n) ==
  /\ TypeInv' /\ Others(t) /\ OtherPools(p) /\ SameLife(p) /\ SameMp
  /\ bp'[p].stack = bp[p].stack /\ bp'[p].size = bp[p].size
  /\ bp'[p].depth = bp[p].depth
  /\ th[t].pc = "zone" /\ th'[t].pc = "zone" /\ th'[t].pool = p
  /\ th'[t].left = th[t].left - Split(p) /\ n \in 1 .. Longest
  /\ mp'.free = mp.free - n /\ mp'.real = mp.real - n * Unit
  /\ \E f \in Runs(th[t].pos, n) :
       /\ taken' = taken \cup (f .. (f + n - 1))
       /\ bp'[p].zones = Append(bp[p].zones, [begin |-> f, end |-> f + n - 1])
       /\ th'[t].pos = f + n - 1

\* A memzone is taken.
LEMMA ZoneEff ==
  ASSUME TypeInv, NEW t \in Holders, CreateZone(t), th[t].pool \in Pools,
         th[t].pos \in Nat, bp[th[t].pool].size \in Sizes,
         NEW p, p = th[t].pool, NEW n, n = Combined(p)
  PROVE  Zoned(t, p, n)
<1> DEFINE runs == Runs(th[t].pos, n)
           f == Min(runs)
           z == Append(bp[p].zones, [begin |-> f, end |-> f + n - 1])
           l == th[t].left - Split(p)
           x == mp.free - n
           y == mp.real - n * Unit
<1>1. /\ th[t].pc = "zone" /\ runs # {} /\ taken' = taken \cup (f .. (f + n - 1))
      /\ bp' = [bp EXCEPT ![p].zones = Append(@, [begin |-> f, end |-> f + n - 1])]
      /\ mp' = [mp EXCEPT !.free = @ - n, !.real = @ - n * Unit]
      /\ th' = [th EXCEPT ![t] = [th[t] EXCEPT !.left = @ - Split(p), !.pos = f + n - 1]]
  BY DEF CreateZone, At, Local
<1>2. Split(p) \in Nat \ {0} /\ n \in 1 .. Longest /\ Longest \in Nat
  BY SplitCombined, Sizing
<1>3. f \in runs /\ f \in Nat
  <2>1. f \in runs
    BY <1>1, FirstRun
  <2>2. runs \subseteq Nat
    BY MemAssumption DEF Runs
  <2> QED BY <2>1, <2>2
<1> HIDE DEF runs, f
<1>4. n \in Nat \ {0} /\ f + n - 1 \in Nat
  BY <1>2, <1>3
<1>5. /\ bp[p] \in PoolType /\ th[t] \in ThreadType /\ mp \in MpType
  BY DEF TypeInv
<1>6. bp[p].zones \in Seq(Zones) /\ [begin |-> f, end |-> f + n - 1] \in Zones
  BY <1>3, <1>4, <1>5 DEF PoolType, Zones
<1>7. z \in Seq(Zones)
  BY <1>6, AppendProperties
<1>8. bp' = [bp EXCEPT ![p] = [bp[p] EXCEPT !.zones = z]]
  BY <1>1, <1>5 DEF PoolType, TypeInv
<1>9. l \in Int /\ x \in Int /\ y \in Int
  <2>1. th[t].left \in Int /\ mp.free \in Int /\ mp.real \in Int
    BY <1>5 DEF ThreadType, MpType
  <2>2. n * Unit \in Int
    BY <1>4, MemAssumption
  <2> QED BY <1>2, <1>4, <2>1, <2>2
<1>10. mp' = [mp EXCEPT !.free = x, !.real = y]
  BY <1>1, <1>5 DEF MpType
<1>11. th' = [th EXCEPT ![t] = [th[t] EXCEPT !.pc = "zone", !.pos = f + n - 1, !.left = l]]
  <2> DEFINE a == [th[t] EXCEPT !.left = l, !.pos = f + n - 1]
             b == [th[t] EXCEPT !.pc = "zone", !.pos = f + n - 1, !.left = l]
  <2>1. a = b
    BY <1>1, <1>5 DEF ThreadType
  <2>2. th' = [th EXCEPT ![t] = a]
    BY <1>1
  <2> QED BY <2>1, <2>2
<1> DEFINE e == f + n - 1
<1>12. /\ e \in Nat \cup Blocks /\ "zone" \in Points
       /\ th' = [th EXCEPT ![t] = [th[t] EXCEPT !.pc = "zone", !.pos = e, !.left = l]]
       /\ \A b \in f .. e : b \in Nat
  BY <1>3, <1>4, <1>11 DEF Points
<1> HIDE DEF z, l, x, y, e
<1>13. /\ th' \in [Holders -> ThreadType] /\ Others(t) /\ th'[t].pc = "zone"
       /\ th'[t].pool = th[t].pool /\ th'[t].pos = e /\ th'[t].left = l
  BY ZenonT(60), <1>9, <1>12, PosEff
<1>14. /\ bp' \in [Pools -> PoolType] /\ OtherPools(p) /\ SameLife(p)
       /\ bp'[p].zones = z /\ bp'[p].stack = bp[p].stack
       /\ bp'[p].size = bp[p].size /\ bp'[p].depth = bp[p].depth
  BY ZenonT(60), <1>7, <1>8, PoolZonesEff
<1>15. mp' \in MpType /\ SameMp /\ mp'.free = x /\ mp'.real = y
  BY <1>9, <1>10, MpCountEff
<1>16. taken' \subseteq Nat
  <2>1. taken' = taken \cup (f .. e)
    BY <1>1 DEF e
  <2> QED BY <1>12, <2>1 DEF TypeInv
<1>17. TypeInv'
  BY <1>13, <1>14, <1>15, <1>16 DEF TypeInv
<1> QED BY <1>1, <1>2, <1>3, <1>13, <1>14, <1>15, <1>17 DEF Zoned, runs, z,
           l, x, y, e

\* What a pool has taken goes back.
Returned(p) == /\ taken' = taken \ ZoneBits(p)
               /\ mp'.free = mp.free + Cardinality(ZoneBits(p))
               /\ mp'.real = mp.real + Cardinality(ZoneBits(p)) * Unit

\* The bits of a pool are finitely many.
LEMMA ZoneFinite ==
  ASSUME TypeInv, NEW p \in Pools, ZoneOf(p)
  PROVE  /\ ZoneBits(p) \subseteq AllBits /\ IsFiniteSet(ZoneBits(p))
         /\ IsFiniteSet(AllBits) /\ Cardinality(ZoneBits(p)) \in Nat
<1>1. MapBits + Longest - 1 \in Nat
  BY Sizing
<1>2. bp[p].zones \in Seq(Zones)
  BY DEF TypeInv, PoolType
<1>3. ASSUME NEW i \in DOMAIN bp[p].zones
      PROVE  bp[p].zones[i].begin .. bp[p].zones[i].end \subseteq AllBits
  <2>1. bp[p].zones[i] \in Zones
    BY <1>2
  <2>2. bp[p].zones[i].begin \in Nat /\ bp[p].zones[i].end \in Nat
    BY <2>1 DEF Zones
  <2>3. bp[p].zones[i].end < MapBits + Longest /\ MapBits \in Nat /\ Longest \in Nat
    BY Sizing DEF ZoneOf
  <2> QED BY <2>2, <2>3 DEF AllBits
<1>4. ZoneBits(p) \subseteq AllBits
  BY <1>3 DEF ZoneBits
<1>5. IsFiniteSet(AllBits)
  BY <1>1, FS_Interval DEF AllBits
<1> QED BY <1>4, <1>5, FS_Subset, FS_CardinalityType

\* free_mem_to_mempool_nolock
LEMMA GiveBackEff ==
  ASSUME TypeInv, NEW p \in Pools, ZoneOf(p), GiveBack(p)
  PROVE  mp' \in MpType /\ SameMp /\ Returned(p) /\ taken' \subseteq Nat
<1> DEFINE n == Cardinality(ZoneBits(p))
           x == mp.free + n
           y == mp.real + n * Unit
<1>1. /\ taken' = taken \ ZoneBits(p)
      /\ mp' = [mp EXCEPT !.free = @ + n, !.real = @ + n * Unit]
  BY DEF GiveBack, ZoneBits
<1>2. n \in Nat
  BY ZoneFinite
<1> HIDE DEF n
<1>3. mp \in MpType
  BY DEF TypeInv
<1>4. x \in Int /\ y \in Int
  BY <1>2, <1>3, MemAssumption DEF MpType
<1>5. mp' = [mp EXCEPT !.free = x, !.real = y]
  BY <1>1, <1>3 DEF MpType
<1> HIDE DEF x, y
<1>6. mp' \in MpType /\ SameMp /\ mp'.free = x /\ mp'.real = y
  BY <1>4, <1>5, MpCountEff
<1> QED BY <1>1, <1>6 DEF TypeInv, Returned, n, x, y

\* A creation gives up.
LEMMA BackEff ==
  ASSUME TypeInv, NEW t \in Holders, CreateFail(t) \/ CreateElemFail(t),
         th[t].pool \in Pools, ZoneOf(th[t].pool), NEW p, p = th[t].pool
  PROVE  /\ TypeInv' /\ Others(t) /\ OtherPools(p) /\ SameLife(p) /\ SameMp /\ Returned(p)
         /\ bp'[p].stack = bp[p].stack /\ bp'[p].size = bp[p].size
         /\ bp'[p].depth = bp[p].depth /\ bp'[p].zones = << >>
         /\ th[t].pc \in {"zone", "elem"} /\ th'[t].pc = "undo" /\ th'[t].pool = p
<1>1. /\ th[t].pc \in {"zone", "elem"} /\ GiveBack(p)
      /\ bp' = [bp EXCEPT ![p].zones = << >>]
      /\ th' = [th EXCEPT ![t] = [th[t] EXCEPT !.pc = "undo"]]
  BY DEF CreateFail, CreateElemFail, At, Local
<1>2. bp[p] \in PoolType /\ th[t] \in ThreadType
  BY DEF TypeInv
<1>3. bp' = [bp EXCEPT ![p] = [bp[p] EXCEPT !.zones = << >>]] /\ << >> \in Seq(Zones)
  BY <1>1, <1>2 DEF TypeInv, PoolType
<1>4. /\ bp' \in [Pools -> PoolType] /\ OtherPools(p) /\ SameLife(p)
      /\ bp'[p].zones = << >> /\ bp'[p].stack = bp[p].stack
      /\ bp'[p].size = bp[p].size /\ bp'[p].depth = bp[p].depth
  BY ZenonT(60), <1>3, PoolZonesEff
<1>5. mp' \in MpType /\ SameMp /\ Returned(p) /\ taken' \subseteq Nat
  BY <1>1, GiveBackEff
<1> DEFINE a == [th[t] EXCEPT !.pc = "undo"]
<1>6. a \in ThreadType /\ a.pc = "undo" /\ a.pool = th[t].pool
  BY <1>2 DEF ThreadType, Points
<1>7. th' = [th EXCEPT ![t] = a]
  BY <1>1
<1> HIDE DEF a
<1>8. th' \in [Holders -> ThreadType] /\ th'[t] = a /\ Others(t)
  BY <1>6, <1>7, ThreadStep
<1>9. TypeInv'
  BY <1>4, <1>5, <1>8 DEF TypeInv
<1> QED BY <1>1, <1>4, <1>5, <1>6, <1>8, <1>9

\* The blocks of a pool have different addresses.
LEMMA FilledBlocks ==
  ASSUME TypeInv, NEW p \in Pools, ZoneOf(p), bp[p].state # "none",
         bp[p].depth <= Len(bp[p].zones) * Split(p)
  PROVE  /\ Filled(p) \in Seq(Blocks) /\ DOMAIN Filled(p) = 1 .. bp[p].depth
         /\ \A i, j \in 1 .. bp[p].depth : Filled(p)[i] = Filled(p)[j] => i = j
<1> DEFINE d == bp[p].depth
           s == Split(p)
           z == bp[p].zones
           m == Len(z)
           g(k) == (k - 1) \div s + 1
           h(k) == (k - 1) % s
<1>1. d \in Nat /\ z \in Seq(Zones) /\ m \in Nat /\ DOMAIN z = 1 .. m
  BY LenProperties DEF TypeInv, PoolType
<1>2. s \in Nat \ {0} /\ d <= m * s
  BY SplitCombined DEF ZoneOf
<1>3. Filled(p) = [k \in 1 .. d |-> <<z[g(k)].begin, h(k)>>]
  BY DEF Filled
<1>4. \A i, j \in 1 .. m : i < j => z[i].end < z[j].begin
  BY <1>1 DEF ZoneOf
<1>5. \A i \in 1 .. m : z[i].begin \in Nat /\ z[i].end \in Nat /\ z[i].begin <= z[i].end
  <2> SUFFICES ASSUME NEW i \in 1 .. m
               PROVE  z[i].begin \in Nat /\ z[i].end \in Nat /\ z[i].begin <= z[i].end
    OBVIOUS
  <2>1. z[i] \in Zones
    BY <1>1
  <2> QED BY <1>1, <2>1 DEF Zones, ZoneOf
<1>6. \A i, j \in 1 .. m : z[i].begin = z[j].begin => i = j
  <2> SUFFICES ASSUME NEW i \in 1 .. m, NEW j \in 1 .. m, i < j
               PROVE  z[i].begin < z[j].begin
    BY <1>1, <1>5
  <2>1. z[i].end < z[j].begin
    BY <1>4
  <2> QED BY SMTT(30), <1>5, <2>1
<1> HIDE DEF d, s, z, m
<1>7. ASSUME NEW k \in 1 .. d
      PROVE  g(k) \in 1 .. m /\ h(k) \in Nat
  <2>1. k - 1 \in Nat /\ k - 1 < m * s
    <3>1. m * s \in Int
      BY <1>1, <1>2
    <3> QED BY <1>1, <1>2, <3>1
  <2>2. (k - 1) \div s \in Nat /\ (k - 1) % s \in Nat /\ (k - 1) \div s < m
    BY <1>1, <1>2, <2>1, DivPlace
  <2> QED BY <1>1, <2>2
<1>8. \A k \in 1 .. d : <<z[g(k)].begin, h(k)>> \in Blocks
  BY <1>5, <1>7 DEF Blocks
<1>9. Filled(p) \in [1 .. d -> Blocks]
  BY <1>3, <1>8
<1>10. Filled(p) \in Seq(Blocks) /\ DOMAIN Filled(p) = 1 .. d
  <2>1. \A f \in [1 .. d -> Blocks] : f \in Seq(Blocks)
    BY <1>1
  <2> QED BY <1>9, <2>1
<1>11. ASSUME NEW i \in 1 .. d, NEW j \in 1 .. d, Filled(p)[i] = Filled(p)[j]
       PROVE  i = j
  <2>1. <<z[g(i)].begin, h(i)>> = <<z[g(j)].begin, h(j)>>
    BY <1>3, <1>11
  <2>2. z[g(i)].begin = z[g(j)].begin /\ h(i) = h(j)
    BY <2>1
  <2>3. g(i) = g(j)
    BY <1>6, <1>7, <2>2
  <2>4. /\ i - 1 \in Nat /\ j - 1 \in Nat
        /\ (i - 1) \div s \in Nat /\ (j - 1) \div s \in Nat
    <3>1. i - 1 \in Nat /\ j - 1 \in Nat
      BY <1>1
    <3> QED BY <1>2, <3>1, DivPlace
  <2>5. (i - 1) \div s = (j - 1) \div s
    BY <2>3, <2>4
  <2>6. i - 1 = j - 1
    BY <1>2, <2>2, <2>4, <2>5, DivPlace
  <2> QED BY <1>1, <2>6
<1> QED BY <1>10, <1>11 DEF d

\* The pool is ready.
LEMMA ElemEff ==
  ASSUME TypeInv, NEW t \in Holders, CreateElem(t), th[t].pool \in Pools,
         NEW p, p = th[t].pool, Filled(p) \in Seq(Blocks)
  PROVE  /\ TypeInv' /\ Others(t) /\ OtherPools(p) /\ SameZones(p) /\ SameBooks /\ SameMp
         /\ bp'[p].stack = Filled(p) /\ bp'[p].ref = 1 /\ bp'[p].state = "live"
         /\ th[t].pc = "elem" /\ th'[t].pc = "idle"
<1> DEFINE s == Filled(p)
           r == [bp[p] EXCEPT !.stack = s, !.ref = 1, !.state = "live"]
<1>1. /\ th[t].pc = "elem" /\ th' = [th EXCEPT ![t] = MIdle] /\ mp' = mp
      /\ taken' = taken
      /\ bp' = [bp EXCEPT ![p].stack = s, ![p].ref = 1, ![p].state = "live"]
  BY DEF CreateElem, At, Local
<1>2. bp[p] \in PoolType /\ s \in Seq(Blocks)
  BY DEF TypeInv
<1> HIDE DEF s
<1>3. bp' = [bp EXCEPT ![p] = r]
  BY <1>1, <1>2 DEF TypeInv, PoolType
<1>4. /\ r \in PoolType /\ r.stack = s /\ r.ref = 1 /\ r.state = "live"
      /\ r.zones = bp[p].zones /\ r.size = bp[p].size /\ r.depth = bp[p].depth
  <2>1. 1 \in Int /\ "live" \in {"none", "making", "live", "closing"}
    OBVIOUS
  <2> QED BY <1>2, <2>1 DEF PoolType
<1> HIDE DEF r
<1>5. bp' \in [Pools -> PoolType] /\ bp'[p] = r /\ OtherPools(p)
  BY <1>3, <1>4, PoolStep
<1>6. th' \in [Holders -> ThreadType] /\ Others(t) /\ th'[t].pc = "idle"
  BY <1>1, IdleEff
<1>7. TypeInv'
  BY <1>1, <1>5, <1>6 DEF TypeInv
<1> QED BY <1>1, <1>4, <1>5, <1>6, <1>7 DEF SameZones, SameBooks, SameMp, s

\* A creation that failed leaves nothing.
LEMMA UndoEff ==
  ASSUME TypeInv, NEW t \in Holders, CreateUndo(t), th[t].pool \in Pools,
         NEW p, p = th[t].pool
  PROVE  /\ TypeInv' /\ Others(t) /\ OtherPools(p) /\ SameBooks
         /\ bp'[p].state = "none" /\ bp'[p].zones = << >> /\ bp'[p].stack = << >>
         /\ mp'.ref = mp.ref - 1 /\ mp'.state = mp.state
         /\ th[t].pc = "undo" /\ th'[t].pc = "idle"
<1>1. /\ th[t].pc = "undo" /\ th' = [th EXCEPT ![t] = MIdle] /\ taken' = taken
      /\ bp' = [bp EXCEPT ![p] = NoPool] /\ mp' = [mp EXCEPT !.ref = @ - 1]
  BY DEF CreateUndo, At, Local
<1>2. th' \in [Holders -> ThreadType] /\ Others(t) /\ th'[t].pc = "idle"
  BY <1>1, IdleEff
<1>3. /\ bp' \in [Pools -> PoolType] /\ OtherPools(p) /\ bp'[p].state = "none"
      /\ bp'[p].zones = << >> /\ bp'[p].stack = << >>
  BY <1>1, PoolGoneEff
<1>4. /\ mp' \in MpType /\ mp'.ref = mp.ref - 1 /\ mp'.state = mp.state
      /\ mp'.free = mp.free /\ mp'.real = mp.real
  <2>1. mp \in MpType
    BY DEF TypeInv
  <2> QED BY <1>1, <2>1 DEF MpType
<1>5. TypeInv'
  BY <1>1, <1>2, <1>3, <1>4 DEF TypeInv
<1> QED BY <1>1, <1>2, <1>3, <1>4, <1>5 DEF SameBooks

\* A reference of a block pool is taken,
LEMMA AllocRefEff ==
  ASSUME TypeInv, NEW t \in Holders, NEW p \in Pools, AllocRef(t, p)
  PROVE  /\ TypeInv' /\ Others(t) /\ OtherPools(p) /\ SameBooks /\ SameMp /\ SameZones(p)
         /\ bp'[p].stack = bp[p].stack /\ bp'[p].state = bp[p].state /\ Usable(p)
         /\ bp'[p].ref = bp[p].ref + 1
         /\ th[t].pc = "idle" /\ th'[t].pc = "pop" /\ th'[t].pool = p
<1> DEFINE x == bp[p].ref + 1
<1>1. /\ th[t].pc = "idle" /\ Usable(p) /\ mp' = mp /\ taken' = taken
      /\ bp' = [bp EXCEPT ![p].ref = @ + 1]
      /\ th' = [th EXCEPT ![t] = [MIdle EXCEPT !.pc = "pop", !.pool = p]]
  BY DEF AllocRef, At, Local
<1>2. bp[p] \in PoolType
  BY DEF TypeInv
<1>3. x \in Int /\ bp[p].state \in {"none", "making", "live", "closing"}
  BY <1>2 DEF PoolType
<1>4. bp' = [bp EXCEPT ![p] = [bp[p] EXCEPT !.ref = x, !.state = bp[p].state]]
  BY <1>1, <1>2 DEF TypeInv, PoolType
<1> HIDE DEF x
<1>5. /\ bp' \in [Pools -> PoolType] /\ OtherPools(p) /\ SameZones(p)
      /\ bp'[p].ref = x /\ bp'[p].state = bp[p].state /\ bp'[p].stack = bp[p].stack
  BY <1>3, <1>4, PoolRefEff
<1>6. "pop" \in Points
  BY DEF Points
<1>7. /\ th' \in [Holders -> ThreadType] /\ Others(t) /\ th'[t].pc = "pop"
      /\ th'[t].pool = p
  BY <1>1, <1>6, CallEff
<1>8. TypeInv'
  BY <1>1, <1>5, <1>7 DEF TypeInv
<1> QED BY <1>1, <1>5, <1>7, <1>8 DEF SameBooks, SameMp, x

\* and given back.
LEMMA DropRefEff ==
  ASSUME TypeInv, NEW t \in Holders, AllocEmpty(t) \/ FreeSub(t), th[t].pool \in Pools,
         NEW p, p = th[t].pool
  PROVE  /\ TypeInv' /\ Others(t) /\ OtherPools(p) /\ SameBooks /\ SameMp /\ SameZones(p)
         /\ bp'[p].stack = bp[p].stack /\ bp'[p].state = bp[p].state
         /\ bp'[p].ref = bp[p].ref - 1
         /\ th[t].pc \in {"pop", "sub"} /\ th'[t].pc = "idle"
<1> DEFINE x == bp[p].ref - 1
<1>1. /\ th[t].pc \in {"pop", "sub"} /\ mp' = mp /\ taken' = taken
      /\ bp' = [bp EXCEPT ![p].ref = @ - 1] /\ th' = [th EXCEPT ![t] = MIdle]
  BY DEF AllocEmpty, FreeSub, At, Local
<1>2. bp[p] \in PoolType
  BY DEF TypeInv
<1>3. x \in Int /\ bp[p].state \in {"none", "making", "live", "closing"}
  BY SMTT(30), <1>2 DEF PoolType
<1>4. bp' = [bp EXCEPT ![p] = [bp[p] EXCEPT !.ref = x, !.state = bp[p].state]]
  BY <1>1, <1>2 DEF TypeInv, PoolType
<1> HIDE DEF x
<1>5. /\ bp' \in [Pools -> PoolType] /\ OtherPools(p) /\ SameZones(p)
      /\ bp'[p].ref = x /\ bp'[p].state = bp[p].state /\ bp'[p].stack = bp[p].stack
  BY ZenonT(60), <1>3, <1>4, PoolRefEff
<1>6. th' \in [Holders -> ThreadType] /\ Others(t) /\ th'[t].pc = "idle"
  BY <1>1, IdleEff
<1>7. TypeInv'
  BY <1>1, <1>5, <1>6 DEF TypeInv
<1> QED BY <1>1, <1>5, <1>6, <1>7 DEF SameBooks, SameMp, x

\* t takes the last of the n blocks on the stack of p.
Popped(t, p, n) ==
  /\ TypeInv' /\ Others(t) /\ OtherPools(p) /\ SameBooks /\ SameMp /\ SameZones(p)
  /\ SameLife(p) /\ n \in Nat /\ n > 0
  /\ bp[p].stack \in Seq(Blocks) /\ bp'[p].stack = SubSeq(bp[p].stack, 1, n - 1)
  /\ th'[t].pos = bp[p].stack[n] /\ th'[t].pos \in Blocks
  /\ th[t].pc = "pop" /\ th'[t].pc = "has" /\ th'[t].pool = p

\* wd_block_alloc takes the top of the stack.
LEMMA PopEff ==
  ASSUME TypeInv, NEW t \in Holders, AllocPop(t), th[t].pool \in Pools,
         NEW p, p = th[t].pool, NEW n, n = Len(bp[p].stack)
  PROVE  Popped(t, p, n)
<1> DEFINE s == SubSeq(bp[p].stack, 1, n - 1)
           x == bp[p].stack[n]
<1>1. /\ th[t].pc = "pop" /\ n > 0 /\ mp' = mp /\ taken' = taken
      /\ bp' = [bp EXCEPT ![p].stack = SubSeq(@, 1, n - 1)]
      /\ th' = [th EXCEPT ![t] = [th[t] EXCEPT !.pc = "has", !.pos = x]]
  BY DEF AllocPop, At, Local
<1>2. bp[p] \in PoolType /\ th[t] \in ThreadType
  BY DEF TypeInv
<1>3. bp[p].stack \in Seq(Blocks) /\ n \in Nat
  BY <1>2, LenProperties DEF PoolType
<1>4. x \in Blocks
  BY <1>1, <1>3, ElementOfSeq
<1>5. s \in Seq(Blocks)
  BY <1>1, <1>3
<1>6. bp' = [bp EXCEPT ![p] = [bp[p] EXCEPT !.stack = s]]
  BY <1>1, <1>2 DEF TypeInv, PoolType
<1>7. /\ th[t].left \in Int /\ x \in Nat \cup Blocks /\ "has" \in Points
      /\ th' = [th EXCEPT ![t] = [th[t] EXCEPT !.pc = "has", !.pos = x,
                                                !.left = th[t].left]]
  <2>1. [th[t] EXCEPT !.pc = "has", !.pos = x]
          = [th[t] EXCEPT !.pc = "has", !.pos = x, !.left = th[t].left]
    BY <1>2 DEF ThreadType
  <2> QED BY <1>1, <1>2, <1>4, <2>1 DEF ThreadType, Points
<1> HIDE DEF s, x
<1>8. /\ th' \in [Holders -> ThreadType] /\ Others(t) /\ th'[t].pc = "has"
      /\ th'[t].pool = th[t].pool /\ th'[t].pos = x
  BY ZenonT(60), <1>7, PosEff
<1>9. /\ bp' \in [Pools -> PoolType] /\ OtherPools(p) /\ SameZones(p) /\ SameLife(p)
      /\ bp'[p].stack = s
  BY <1>5, <1>6, PoolStackEff
<1>10. TypeInv'
  BY <1>1, <1>8, <1>9 DEF TypeInv
<1> QED BY <1>1, <1>3, <1>4, <1>8, <1>9, <1>10 DEF Popped, SameBooks,
           SameMp, s, x

\* wd_block_free puts the block back.
LEMMA PushEff ==
  ASSUME TypeInv, NEW t \in Holders, FreePush(t), th[t].pool \in Pools,
         NEW p, p = th[t].pool, th[t].pos \in Blocks
  PROVE  /\ TypeInv' /\ Others(t) /\ OtherPools(p) /\ SameBooks /\ SameMp /\ SameZones(p)
         /\ SameLife(p) /\ bp[p].stack \in Seq(Blocks)
         /\ bp'[p].stack = Append(bp[p].stack, th[t].pos)
         /\ th[t].pc = "has" /\ th'[t].pc = "sub" /\ th'[t].pool = p
<1> DEFINE s == Append(bp[p].stack, th[t].pos)
<1>1. /\ th[t].pc = "has" /\ mp' = mp /\ taken' = taken
      /\ bp' = [bp EXCEPT ![p].stack = Append(@, th[t].pos)]
      /\ th' = [th EXCEPT ![t] = [th[t] EXCEPT !.pc = "sub", !.pos = 0]]
  BY DEF FreePush, At, Local
<1>2. bp[p] \in PoolType /\ th[t] \in ThreadType
  BY DEF TypeInv
<1>3. bp[p].stack \in Seq(Blocks)
  BY <1>2 DEF PoolType
<1>4. s \in Seq(Blocks)
  BY <1>3, AppendProperties
<1>5. bp' = [bp EXCEPT ![p] = [bp[p] EXCEPT !.stack = s]]
  BY <1>1, <1>2 DEF TypeInv, PoolType
<1>6. /\ th[t].left \in Int /\ 0 \in Nat \cup Blocks /\ "sub" \in Points
      /\ th' = [th EXCEPT ![t] = [th[t] EXCEPT !.pc = "sub", !.pos = 0,
                                                !.left = th[t].left]]
  <2>1. [th[t] EXCEPT !.pc = "sub", !.pos = 0]
          = [th[t] EXCEPT !.pc = "sub", !.pos = 0, !.left = th[t].left]
    BY <1>2 DEF ThreadType
  <2> QED BY <1>1, <1>2, <2>1 DEF ThreadType, Points
<1> HIDE DEF s
<1>7. /\ th' \in [Holders -> ThreadType] /\ Others(t) /\ th'[t].pc = "sub"
      /\ th'[t].pool = th[t].pool
  BY <1>6, PosEff
<1>8. /\ bp' \in [Pools -> PoolType] /\ OtherPools(p) /\ SameZones(p) /\ SameLife(p)
      /\ bp'[p].stack = s
  BY <1>4, <1>5, PoolStackEff
<1>9. TypeInv'
  BY <1>1, <1>7, <1>8 DEF TypeInv
<1> QED BY <1>1, <1>3, <1>7, <1>8, <1>9 DEF SameBooks, SameMp, s

\* wd_blockpool_destroy gives up the creator's reference
LEMMA DestroySubEff ==
  ASSUME TypeInv, NEW t \in Holders, NEW p \in Pools, DestroySub(t, p)
  PROVE  /\ TypeInv' /\ Others(t) /\ OtherPools(p) /\ SameBooks /\ SameMp /\ SameZones(p)
         /\ bp'[p].stack = bp[p].stack /\ bp[p].state = "live"
         /\ bp'[p].state = "closing" /\ bp'[p].ref = bp[p].ref - 1
         /\ th[t].pc = "idle" /\ th'[t].pc = "drain" /\ th'[t].pool = p
<1> DEFINE x == bp[p].ref - 1
<1>1. /\ th[t].pc = "idle" /\ bp[p].state = "live" /\ mp' = mp /\ taken' = taken
      /\ bp' = [bp EXCEPT ![p].ref = @ - 1, ![p].state = "closing"]
      /\ th' = [th EXCEPT ![t] = [MIdle EXCEPT !.pc = "drain", !.pool = p]]
  BY DEF DestroySub, At, Local
<1>2. bp[p] \in PoolType
  BY DEF TypeInv
<1>3. x \in Int /\ "closing" \in {"none", "making", "live", "closing"}
  BY <1>2 DEF PoolType
<1>4. bp' = [bp EXCEPT ![p] = [bp[p] EXCEPT !.ref = x, !.state = "closing"]]
  BY <1>1, <1>2 DEF TypeInv, PoolType
<1> HIDE DEF x
<1>5. /\ bp' \in [Pools -> PoolType] /\ OtherPools(p) /\ SameZones(p)
      /\ bp'[p].ref = x /\ bp'[p].state = "closing" /\ bp'[p].stack = bp[p].stack
  BY <1>3, <1>4, PoolRefEff
<1>6. "drain" \in Points
  BY DEF Points
<1>7. /\ th' \in [Holders -> ThreadType] /\ Others(t) /\ th'[t].pc = "drain"
      /\ th'[t].pool = p
  BY <1>1, <1>6, CallEff
<1>8. TypeInv'
  BY <1>1, <1>5, <1>7 DEF TypeInv
<1> QED BY <1>1, <1>5, <1>7, <1>8 DEF SameBooks, SameMp, x

\* and, when the last reference is gone, the pool.
LEMMA DestroyEndEff ==
  ASSUME TypeInv, NEW t \in Holders, DestroyEnd(t), th[t].pool \in Pools,
         ZoneOf(th[t].pool), NEW p, p = th[t].pool
  PROVE  /\ TypeInv' /\ Others(t) /\ OtherPools(p) /\ SameMp /\ Returned(p)
         /\ bp'[p].state = "none" /\ bp'[p].zones = << >> /\ bp'[p].stack = << >>
         /\ bp[p].ref = 0 /\ th[t].pc = "drain" /\ th'[t].pc = "unref"
<1>1. /\ th[t].pc = "drain" /\ bp[p].ref = 0 /\ GiveBack(p)
      /\ bp' = [bp EXCEPT ![p] = NoPool]
      /\ th' = [th EXCEPT ![t] = [th[t] EXCEPT !.pc = "unref"]]
  BY DEF DestroyEnd, At, Local
<1>2. /\ bp' \in [Pools -> PoolType] /\ OtherPools(p) /\ bp'[p].state = "none"
      /\ bp'[p].zones = << >> /\ bp'[p].stack = << >>
  BY <1>1, PoolGoneEff
<1>3. mp' \in MpType /\ SameMp /\ Returned(p) /\ taken' \subseteq Nat
  BY <1>1, GiveBackEff
<1> DEFINE a == [th[t] EXCEPT !.pc = "unref"]
<1>4. a \in ThreadType /\ a.pc = "unref"
  <2>1. th[t] \in ThreadType
    BY DEF TypeInv
  <2> QED BY <2>1 DEF ThreadType, Points
<1>5. th' = [th EXCEPT ![t] = a]
  BY <1>1
<1> HIDE DEF a
<1>6. th' \in [Holders -> ThreadType] /\ th'[t] = a /\ Others(t)
  BY <1>4, <1>5, ThreadStep
<1>7. TypeInv'
  BY <1>2, <1>3, <1>6 DEF TypeInv
<1> QED BY <1>1, <1>2, <1>3, <1>4, <1>6, <1>7

\* References of the memory pool: the destroyed pool's, and the creator's.
LEMMA MpEff ==
  ASSUME TypeInv, NEW t \in Holders, DestroyUnref(t) \/ MpSub(t) \/ MpEnd(t)
  PROVE  /\ TypeInv' /\ Others(t) /\ SameBooks /\ bp' = bp
         /\ DestroyUnref(t) => /\ th[t].pc = "unref" /\ th'[t].pc = "idle"
                               /\ mp'.ref = mp.ref - 1 /\ mp'.state = mp.state
         /\ MpSub(t) => /\ th[t].pc = "idle" /\ th'[t].pc = "mpdrain"
                        /\ mp'.ref = mp.ref - 1 /\ mp.state = "live"
                        /\ mp'.state = "closing"
         /\ MpEnd(t) => /\ th[t].pc = "mpdrain" /\ th'[t].pc = "idle" /\ mp.ref = 0
                        /\ mp'.ref = mp.ref /\ mp'.state = "freed"
         /\ th'[t].pc \in {"idle", "mpdrain"} /\ th[t].pc \in {"idle", "unref", "mpdrain"}
<1>1. mp \in MpType
  BY DEF TypeInv
<1>2. CASE DestroyUnref(t)
  <2>1. /\ th[t].pc = "unref" /\ th' = [th EXCEPT ![t] = MIdle] /\ bp' = bp
        /\ taken' = taken /\ mp' = [mp EXCEPT !.ref = @ - 1]
    BY <1>2 DEF DestroyUnref, At, Local
  <2>2. /\ mp' \in MpType /\ mp'.ref = mp.ref - 1 /\ mp'.state = mp.state
        /\ mp'.free = mp.free /\ mp'.real = mp.real
    BY <1>1, <2>1 DEF MpType
  <2>3. th' \in [Holders -> ThreadType] /\ Others(t) /\ th'[t].pc = "idle"
    BY <2>1, IdleEff
  <2>4. ~MpSub(t) /\ ~MpEnd(t)
    BY <2>1 DEF MpSub, MpEnd, At
  <2> QED BY <2>1, <2>2, <2>3, <2>4 DEF TypeInv, SameBooks
<1>3. CASE MpSub(t)
  <2> DEFINE a == [MIdle EXCEPT !.pc = "mpdrain"]
             x == mp.ref - 1
  <2>1. /\ th[t].pc = "idle" /\ th' = [th EXCEPT ![t] = a] /\ bp' = bp
        /\ mp.state = "live" /\ taken' = taken
        /\ mp' = [mp EXCEPT !.ref = @ - 1, !.state = "closing"]
    BY <1>3 DEF MpSub, At, Local
  <2>2. x \in Int /\ mp' = [mp EXCEPT !.ref = x, !.state = "closing"]
    BY <1>1, <2>1 DEF MpType
  <2>3. a \in ThreadType /\ a.pc = "mpdrain"
    BY IdleTyped DEF ThreadType, Points
  <2> HIDE DEF a, x
  <2>4. /\ mp' \in MpType /\ mp'.ref = x /\ mp'.state = "closing"
        /\ mp'.free = mp.free /\ mp'.real = mp.real
    BY <2>2, MpRefEff
  <2>5. th' \in [Holders -> ThreadType] /\ th'[t] = a /\ Others(t)
    BY <2>1, <2>3, ThreadStep
  <2>6. ~DestroyUnref(t) /\ ~MpEnd(t)
    BY <2>1 DEF DestroyUnref, MpEnd, At
  <2> QED BY <2>1, <2>3, <2>4, <2>5, <2>6 DEF TypeInv, SameBooks, x
<1>4. CASE MpEnd(t)
  <2>1. /\ th[t].pc = "mpdrain" /\ th' = [th EXCEPT ![t] = MIdle] /\ bp' = bp
        /\ mp.ref = 0 /\ taken' = taken /\ mp' = [mp EXCEPT !.state = "freed"]
    BY <1>4 DEF MpEnd, At, Local
  <2>2. /\ mp' \in MpType /\ mp'.ref = mp.ref /\ mp'.state = "freed"
        /\ mp'.free = mp.free /\ mp'.real = mp.real
    BY <1>1, <2>1 DEF MpType
  <2>3. th' \in [Holders -> ThreadType] /\ Others(t) /\ th'[t].pc = "idle"
    BY <2>1, IdleEff
  <2>4. ~DestroyUnref(t) /\ ~MpSub(t)
    BY <2>1 DEF DestroyUnref, MpSub, At
  <2> QED BY <2>1, <2>2, <2>3, <2>4 DEF TypeInv, SameBooks
<1> QED BY <1>2, <1>3, <1>4

-----------------------------------------------------------------------------
\* The references

Life == OwnInv /\ AloneInv /\ RefInv /\ MpInv

\* There are finitely many references.
LEMMA FiniteLife ==
  /\ \A p : IsFiniteSet(UsersOf(p)) /\ Cardinality(UsersOf(p)) \in Nat
  /\ IsFiniteSet(There) /\ Cardinality(There) \in Nat
  /\ IsFiniteSet(Leaving) /\ Cardinality(Leaving) \in Nat
<1>1. \A S : S \subseteq Holders \/ S \subseteq Pools => IsFiniteSet(S)
  BY MemAssumption, FS_Subset
<1>2. (\A p : UsersOf(p) \subseteq Holders) /\ There \subseteq Pools /\ Leaving \subseteq Holders
  BY DEF UsersOf, There, Leaving
<1> QED BY <1>1, <1>2, FS_CardinalityType

\* Who is counted where, after a step of t.
LEMMA UsersAfter ==
  ASSUME NEW t \in Holders, Others(t)
  PROVE  /\ \A p : th[t].pc \notin Using /\ th'[t].pc \notin Using
                     => UsersOf(p)' = UsersOf(p)
         /\ \A p : th[t].pc \in Using /\ th'[t].pc \in Using /\ th'[t].pool = th[t].pool
                     => UsersOf(p)' = UsersOf(p)
         /\ \A p : th[t].pc \notin Using /\ th'[t].pc \in Using
                     => UsersOf(p)' = IF th'[t].pool = p THEN UsersOf(p) \cup {t}
                                      ELSE UsersOf(p)
         /\ \A p : th[t].pc \in Using /\ th'[t].pc \notin Using
                     => UsersOf(p)' = UsersOf(p) \ {t}
         /\ \A p : t \in UsersOf(p) <=> th[t].pc \in Using /\ th[t].pool = p
  BY DEF Others, UsersOf

\* The threads about to drop a reference of the memory pool, after a step of t.
LEMMA LeavingAfter ==
  ASSUME NEW t \in Holders, Others(t)
  PROVE  /\ th[t].pc # "unref" /\ th'[t].pc # "unref" => Leaving' = Leaving
         /\ th[t].pc # "unref" /\ th'[t].pc = "unref" => Leaving' = Leaving \cup {t}
         /\ th[t].pc = "unref" /\ th'[t].pc # "unref" => Leaving' = Leaving \ {t}
         /\ t \in Leaving <=> th[t].pc = "unref"
  BY DEF Others, Leaving

\* Steps inside a creation, an allocation or a release.
LEMMA QuietLife ==
  ASSUME Life, NEW t \in Holders, Others(t), \A q \in Pools : SameLife(q), SameMp,
         th'[t].pool = th[t].pool,
         \/ th[t].pc \in Making /\ th'[t].pc \in Making
         \/ th[t].pc \in Using /\ th'[t].pc \in Using
  PROVE  Life'
<1> USE DEF Life
<1>1. \A u \in Holders : /\ th'[u].pool = th[u].pool
                         /\ th'[u].pc \in Making <=> th[u].pc \in Making
                         /\ th'[u].pc \in Using <=> th[u].pc \in Using
                         /\ th'[u].pc = "drain" <=> th[u].pc = "drain"
                         /\ th'[u].pc = "unref" <=> th[u].pc = "unref"
  BY DEF Others, Making, Using
<1>2. \A q \in Pools : bp'[q].state = bp[q].state /\ bp'[q].ref = bp[q].ref
  BY DEF SameLife
<1>3. OwnInv'
  BY <1>1, <1>2 DEF OwnInv, OwnOf, Usable
<1>4. AloneInv'
  BY <1>1 DEF AloneInv
<1>5. \A p : UsersOf(p)' = UsersOf(p)
  BY <1>1 DEF UsersOf
<1>6. RefInv'
  BY <1>2, <1>5 DEF RefInv, Usable
<1>7. There' = There /\ Leaving' = Leaving
  BY <1>1, <1>2 DEF There, Leaving
<1>8. MpInv'
  BY <1>7 DEF MpInv, SameMp
<1> QED BY <1>3, <1>4, <1>6, <1>8

\* A pool that begins to be made holds a reference of the memory pool.
LEMMA CreateRefLife ==
  ASSUME TypeInv, Life, NEW t \in Holders, NEW p \in Pools, NEW s \in Sizes, NEW k \in Nums,
         CreateRef(t, p, s, k), mp.ref # 0
  PROVE  Life'
<1> USE DEF Life
<1>1. /\ Others(t) /\ OtherPools(p) /\ th[t].pc = "idle" /\ th'[t].pc = "lock"
      /\ th'[t].pool = p /\ bp[p].state = "none" /\ bp'[p].state = "making"
      /\ mp.state # "freed" /\ mp'.state = mp.state /\ mp'.ref = mp.ref + 1
  BY CreateRefEff
<1>2. \A u \in Holders : u # t => th'[u] = th[u]
  BY <1>1 DEF Others
<1>3. \A q \in Pools : q # p => bp'[q] = bp[q]
  BY <1>1 DEF OtherPools
<1>4. \A u \in Holders : th[u].pc \in Making \cup Using \cup {"drain"} => th[u].pool # p
  BY <1>1 DEF OwnInv, OwnOf, Usable
<1>5. OwnInv'
  <2>1. OwnOf(t)'
    BY <1>1 DEF OwnOf, Making, Using
  <2>2. ASSUME NEW u \in Holders, u # t PROVE OwnOf(u)'
    BY <1>2, <1>3, <1>4, <2>2 DEF OwnInv, OwnOf, Usable
  <2> QED BY <2>1, <2>2 DEF OwnInv
<1>6. AloneInv'
  BY <1>1, <1>2, <1>4 DEF AloneInv
<1>7. \A q : UsersOf(q)' = UsersOf(q)
  BY <1>1, UsersAfter DEF Using
<1>8. RefInv'
  BY <1>1, <1>3, <1>7 DEF RefInv, Usable
<1>9. There' = There \cup {p} /\ p \notin There /\ Leaving' = Leaving
  <2>1. There' = There \cup {p} /\ p \notin There
    BY <1>1, <1>3 DEF There
  <2> QED BY <1>1, <2>1, LeavingAfter
<1>10. Cardinality(There') = Cardinality(There) + 1
  BY <1>9, FiniteLife, FS_AddElement
<1>11. MpInv'
  <2> DEFINE c == Cardinality(There)
             l == Cardinality(Leaving)
  <2>1. /\ c \in Nat /\ l \in Nat /\ Cardinality(There') = c + 1
        /\ Cardinality(Leaving') = l
        /\ mp.ref = c + l + (IF mp.state = "live" THEN 1 ELSE 0)
    BY <1>9, <1>10, FiniteLife DEF MpInv
  <2> HIDE DEF c, l
  <2> QED BY <1>1, <2>1 DEF MpInv
<1> QED BY <1>5, <1>6, <1>8, <1>11

\* The end of a creation, with a pool or without.
LEMMA CreateEndLife ==
  ASSUME TypeInv, Life, NEW t \in Holders, CreateElem(t) \/ CreateUndo(t),
         CreateElem(t) => Filled(th[t].pool) \in Seq(Blocks)
  PROVE  Life'
<1> USE DEF Life
<1>0. th[t].pc \in {"elem", "undo"}
  BY DEF CreateElem, CreateUndo, At
<1>1. PICK p \in Pools : p = th[t].pool /\ bp[p].state = "making"
  BY <1>0 DEF OwnInv, OwnOf, Making
<1>2. /\ Others(t) /\ OtherPools(p) /\ th'[t].pc = "idle"
      /\ \/ bp'[p].state = "live" /\ bp'[p].ref = 1 /\ SameMp
         \/ bp'[p].state = "none" /\ mp'.ref = mp.ref - 1 /\ mp'.state = mp.state
  <2>1. CASE CreateElem(t)
    BY <1>1, <2>1, ElemEff
  <2>2. CASE CreateUndo(t)
    BY <1>1, <2>2, UndoEff
  <2> QED BY <2>1, <2>2
<1>3. \A u \in Holders : u # t => th'[u] = th[u]
  BY <1>2 DEF Others
<1>4. \A q \in Pools : q # p => bp'[q] = bp[q]
  BY <1>2 DEF OtherPools
<1>5. ASSUME NEW u \in Holders, u # t, th[u].pc \in Making \cup Using \cup {"drain"}
      PROVE  th[u].pool # p
  <2>1. th[u].pc \notin Making => th[u].pool # p
    BY <1>1, <1>5 DEF OwnInv, OwnOf, Usable
  <2>2. th[u].pc \in Making => th[u].pool # p
    BY <1>0, <1>1, <1>5 DEF AloneInv, Making
  <2> QED BY <2>1, <2>2
<1>6. OwnInv'
  <2>1. OwnOf(t)'
    BY <1>2 DEF OwnOf, Making, Using
  <2>2. ASSUME NEW u \in Holders, u # t PROVE OwnOf(u)'
    BY <1>3, <1>4, <1>5, <2>2 DEF OwnInv, OwnOf, Usable
  <2> QED BY <2>1, <2>2 DEF OwnInv
<1>7. AloneInv'
  BY <1>2, <1>3 DEF AloneInv, Making
<1>8. \A q : UsersOf(q)' = UsersOf(q)
  BY <1>0, <1>2, UsersAfter DEF Using
<1>9. UsersOf(p) = {}
  BY <1>0, <1>5 DEF UsersOf, Using
<1>10. RefInv'
  <2>1. Cardinality(UsersOf(p)') = 0
    BY <1>8, <1>9, FS_EmptySet
  <2>2. ASSUME NEW q \in Pools, Usable(q)'
        PROVE  bp'[q].ref = Cardinality(UsersOf(q)')
                            + (IF bp'[q].state = "live" THEN 1 ELSE 0)
    <3>1. CASE q = p
      BY <1>2, <2>1, <2>2, <3>1 DEF Usable
    <3>2. CASE q # p
      BY <1>4, <1>8, <2>2, <3>2 DEF RefInv, Usable
    <3> QED BY <3>1, <3>2
  <2> QED BY <2>2 DEF RefInv
<1>11. MpInv'
  <2> DEFINE c == Cardinality(There)
             l == Cardinality(Leaving)
  <2>1. Leaving' = Leaving
    BY <1>0, <1>2, LeavingAfter
  <2>2. /\ c \in Nat /\ l \in Nat /\ Cardinality(Leaving') = l
        /\ mp.ref = c + l + (IF mp.state = "live" THEN 1 ELSE 0)
    BY <2>1, FiniteLife DEF MpInv
  <2>3. CASE bp'[p].state = "live" /\ bp'[p].ref = 1 /\ SameMp
    <3>1. There' = There
      BY <1>1, <1>4, <2>3 DEF There
    <3> QED BY <2>1, <2>3, <3>1 DEF MpInv, SameMp
  <2>4. CASE bp'[p].state = "none" /\ mp'.ref = mp.ref - 1 /\ mp'.state = mp.state
    <3>1. There' = There \ {p} /\ p \in There
      BY <1>1, <1>4, <2>4 DEF There
    <3>2. Cardinality(There') = c - 1
      BY <3>1, FiniteLife, FS_RemoveElement
    <3>3. mp.state = "freed" => There' = {}
      BY <3>1 DEF MpInv
    <3> HIDE DEF c, l
    <3> QED BY <2>2, <2>4, <3>2, <3>3 DEF MpInv
  <2> QED BY <1>2, <2>3, <2>4
<1> QED BY <1>6, <1>7, <1>10, <1>11

\* A reference of a block pool is taken or given back.
LEMMA RefLife ==
  ASSUME TypeInv, Life, NEW t \in Holders, NEW p \in Pools,
         AllocRef(t, p) \/ ((AllocEmpty(t) \/ FreeSub(t)) /\ p = th[t].pool)
  PROVE  Life'
<1> USE DEF Life
<1>1. /\ Others(t) /\ OtherPools(p) /\ SameMp /\ bp'[p].state = bp[p].state
      /\ \/ /\ th[t].pc = "idle" /\ th'[t].pc = "pop" /\ th'[t].pool = p /\ Usable(p)
            /\ bp'[p].ref = bp[p].ref + 1
         \/ /\ th[t].pc \in {"pop", "sub"} /\ th[t].pool = p /\ th'[t].pc = "idle"
            /\ bp'[p].ref = bp[p].ref - 1
  <2>1. CASE AllocRef(t, p)
    BY <2>1, AllocRefEff
  <2>2. CASE (AllocEmpty(t) \/ FreeSub(t)) /\ p = th[t].pool
    BY <2>2, DropRefEff
  <2> QED BY <2>1, <2>2
<1>2. \A u \in Holders : u # t => th'[u] = th[u]
  BY <1>1 DEF Others
<1>3. \A q \in Pools : bp'[q].state = bp[q].state /\ (q # p => bp'[q] = bp[q])
  BY <1>1 DEF OtherPools
<1>4. OwnInv'
  <2>1. OwnOf(t)'
    BY <1>1 DEF OwnOf, Making, Using, Usable
  <2>2. ASSUME NEW u \in Holders, u # t PROVE OwnOf(u)'
    BY <1>2, <1>3, <2>2 DEF OwnInv, OwnOf, Usable
  <2> QED BY <2>1, <2>2 DEF OwnInv
<1>5. AloneInv'
  BY <1>1, <1>2 DEF AloneInv, Making
<1>6. /\ \A q : q # p => UsersOf(q)' = UsersOf(q)
      /\ Usable(p) => bp'[p].ref = Cardinality(UsersOf(p)')
                                   + (IF bp[p].state = "live" THEN 1 ELSE 0)
  <2> DEFINE c == Cardinality(UsersOf(p))
  <2>1. /\ c \in Nat /\ IsFiniteSet(UsersOf(p))
        /\ Usable(p) => bp[p].ref = c + (IF bp[p].state = "live" THEN 1 ELSE 0)
    BY FiniteLife DEF RefInv
  <2>2. CASE th[t].pc = "idle" /\ th'[t].pc = "pop" /\ th'[t].pool = p /\ Usable(p)
             /\ bp'[p].ref = bp[p].ref + 1
    <3>1. /\ \A q : q # p => UsersOf(q)' = UsersOf(q)
          /\ UsersOf(p)' = UsersOf(p) \cup {t} /\ t \notin UsersOf(p)
      BY <1>1, <2>2, UsersAfter DEF Using
    <3>2. Cardinality(UsersOf(p)') = c + 1
      BY <2>1, <3>1, FS_AddElement
    <3> HIDE DEF c
    <3> QED BY <2>1, <2>2, <3>1, <3>2
  <2>3. CASE th[t].pc \in {"pop", "sub"} /\ th[t].pool = p /\ th'[t].pc = "idle"
             /\ bp'[p].ref = bp[p].ref - 1
    <3>1. /\ \A q : UsersOf(q)' = UsersOf(q) \ {t}
          /\ t \in UsersOf(p) /\ \A q : q # p => t \notin UsersOf(q)
      BY <1>1, <2>3, UsersAfter DEF Using
    <3>2. Cardinality(UsersOf(p)') = c - 1
      BY <2>1, <3>1, FS_RemoveElement
    <3>3. \A q : q # p => UsersOf(q)' = UsersOf(q)
      BY <3>1
    <3> HIDE DEF c
    <3> QED BY <2>1, <2>3, <3>2, <3>3
  <2> QED BY <1>1, <2>2, <2>3
<1>7. RefInv'
  <2> SUFFICES ASSUME NEW q \in Pools, Usable(q)'
               PROVE  bp'[q].ref = Cardinality(UsersOf(q)')
                                   + (IF bp'[q].state = "live" THEN 1 ELSE 0)
    BY DEF RefInv
  <2>1. Usable(q)
    BY <1>3 DEF Usable
  <2> QED BY <1>3, <1>6, <2>1 DEF RefInv
<1>8. There' = There /\ Leaving' = Leaving
  <2>1. There' = There
    BY <1>3 DEF There
  <2> QED BY <1>1, <2>1, LeavingAfter
<1>9. MpInv'
  BY <1>1, <1>8 DEF MpInv, SameMp
<1> QED BY <1>4, <1>5, <1>7, <1>9

\* The creator's reference goes, the users' stay.
LEMMA DestroySubLife ==
  ASSUME TypeInv, Life, NEW t \in Holders, NEW p \in Pools, DestroySub(t, p)
  PROVE  Life'
<1> USE DEF Life
<1>1. /\ Others(t) /\ OtherPools(p) /\ SameMp /\ bp[p].state = "live"
      /\ bp'[p].state = "closing" /\ bp'[p].ref = bp[p].ref - 1
      /\ th[t].pc = "idle" /\ th'[t].pc = "drain" /\ th'[t].pool = p
  BY DestroySubEff
<1>2. \A u \in Holders : u # t => th'[u] = th[u]
  BY <1>1 DEF Others
<1>3. \A q \in Pools : q # p => bp'[q] = bp[q]
  BY <1>1 DEF OtherPools
<1>4. \A u \in Holders : th[u].pc \in Making \cup {"drain"} => th[u].pool # p
  BY <1>1 DEF OwnInv, OwnOf
<1>5. OwnInv'
  <2>1. OwnOf(t)'
    BY <1>1 DEF OwnOf, Making, Using, Usable
  <2>2. ASSUME NEW u \in Holders, u # t PROVE OwnOf(u)'
    BY <1>1, <1>2, <1>3, <1>4, <2>2 DEF OwnInv, OwnOf, Usable
  <2> QED BY <2>1, <2>2 DEF OwnInv
<1>6. AloneInv'
  BY <1>1, <1>2, <1>4 DEF AloneInv
<1>7. \A q : UsersOf(q)' = UsersOf(q)
  BY <1>1, UsersAfter DEF Using
<1>8. RefInv'
  <2>1. bp[p].ref = Cardinality(UsersOf(p)) + 1 /\ Cardinality(UsersOf(p)) \in Nat
    BY <1>1, FiniteLife DEF RefInv, Usable
  <2>2. bp'[p].ref = Cardinality(UsersOf(p)) + 0
    BY <1>1, <2>1
  <2> SUFFICES ASSUME NEW q \in Pools, Usable(q)'
               PROVE  bp'[q].ref = Cardinality(UsersOf(q)')
                                   + (IF bp'[q].state = "live" THEN 1 ELSE 0)
    BY DEF RefInv
  <2>3. CASE q = p
    BY <1>1, <1>7, <2>2, <2>3
  <2>4. CASE q # p
    BY <1>3, <1>7, <2>4 DEF RefInv, Usable
  <2> QED BY <2>3, <2>4
<1>9. There' = There /\ Leaving' = Leaving
  <2>1. There' = There
    BY <1>1, <1>3 DEF There
  <2> QED BY <1>1, <2>1, LeavingAfter
<1>10. MpInv'
  BY <1>1, <1>9 DEF MpInv, SameMp
<1> QED BY <1>5, <1>6, <1>8, <1>10

\* The last reference is gone: nobody uses the pool.
LEMMA DestroyEndLife ==
  ASSUME TypeInv, Life, NEW t \in Holders, DestroyEnd(t), ZoneOf(th[t].pool)
  PROVE  Life'
<1> USE DEF Life
<1>0. th[t].pc = "drain"
  BY DEF DestroyEnd, At
<1>1. PICK p \in Pools : p = th[t].pool /\ bp[p].state = "closing"
  BY <1>0 DEF OwnInv, OwnOf
<1>2. /\ Others(t) /\ OtherPools(p) /\ SameMp /\ bp'[p].state = "none" /\ bp[p].ref = 0
      /\ th'[t].pc = "unref"
  BY <1>1, DestroyEndEff
<1>3. \A u \in Holders : u # t => th'[u] = th[u]
  BY <1>2 DEF Others
<1>4. \A q \in Pools : q # p => bp'[q] = bp[q]
  BY <1>2 DEF OtherPools
<1>5. UsersOf(p) = {}
  <2>1. /\ bp[p].ref = Cardinality(UsersOf(p)) + 0 /\ Cardinality(UsersOf(p)) \in Nat
        /\ IsFiniteSet(UsersOf(p))
    BY <1>1, FiniteLife DEF RefInv, Usable
  <2>2. Cardinality(UsersOf(p)) = 0
    BY <1>2, <2>1
  <2> QED BY <2>1, <2>2, FS_EmptySet
<1>6. ASSUME NEW u \in Holders, u # t, th[u].pc \in Making \cup Using \cup {"drain"}
      PROVE  th[u].pool # p
  <2>1. th[u].pc \in Making => th[u].pool # p
    BY <1>1, <1>6 DEF OwnInv, OwnOf
  <2>2. th[u].pc \in Using => th[u].pool # p
    BY <1>5, <1>6 DEF UsersOf
  <2>3. th[u].pc = "drain" => th[u].pool # p
    BY <1>0, <1>1, <1>6 DEF AloneInv
  <2> QED BY <1>6, <2>1, <2>2, <2>3
<1>7. OwnInv'
  <2>1. OwnOf(t)'
    BY <1>2 DEF OwnOf, Making, Using
  <2>2. ASSUME NEW u \in Holders, u # t PROVE OwnOf(u)'
    BY <1>3, <1>4, <1>6, <2>2 DEF OwnInv, OwnOf, Usable
  <2> QED BY <2>1, <2>2 DEF OwnInv
<1>8. AloneInv'
  BY <1>2, <1>3 DEF AloneInv, Making
<1>9. \A q : UsersOf(q)' = UsersOf(q)
  BY <1>0, <1>2, UsersAfter DEF Using
<1>10. RefInv'
  BY <1>2, <1>4, <1>9 DEF RefInv, Usable
<1>11. MpInv'
  <2> DEFINE c == Cardinality(There)
             l == Cardinality(Leaving)
  <2>1. Leaving' = Leaving \cup {t} /\ t \notin Leaving
    BY <1>0, <1>2, LeavingAfter
  <2>2. There' = There \ {p} /\ p \in There
    BY <1>1, <1>2, <1>4 DEF There
  <2>3. /\ c \in Nat /\ l \in Nat
        /\ mp.ref = c + l + (IF mp.state = "live" THEN 1 ELSE 0)
    BY FiniteLife DEF MpInv
  <2>4. Cardinality(There') = c - 1
    BY <2>2, FiniteLife, FS_RemoveElement
  <2>5. Cardinality(Leaving') = l + 1
    BY <2>1, FiniteLife, FS_AddElement
  <2>6. mp.state = "freed" => There' = {}
    BY <2>2 DEF MpInv
  <2> HIDE DEF c, l
  <2> QED BY <1>2, <2>3, <2>4, <2>5, <2>6 DEF MpInv, SameMp
<1> QED BY <1>7, <1>8, <1>10, <1>11

\* The references of the memory pool.
LEMMA MpLife ==
  ASSUME TypeInv, Life, NEW t \in Holders, DestroyUnref(t) \/ MpSub(t) \/ MpEnd(t)
  PROVE  Life'
<1> USE DEF Life
<1>1. /\ Others(t) /\ bp' = bp
      /\ DestroyUnref(t) => /\ th[t].pc = "unref" /\ th'[t].pc = "idle"
                            /\ mp'.ref = mp.ref - 1 /\ mp'.state = mp.state
      /\ MpSub(t) => /\ th[t].pc = "idle" /\ th'[t].pc = "mpdrain"
                     /\ mp'.ref = mp.ref - 1 /\ mp.state = "live" /\ mp'.state = "closing"
      /\ MpEnd(t) => /\ th[t].pc = "mpdrain" /\ th'[t].pc = "idle" /\ mp.ref = 0
                     /\ mp'.ref = mp.ref /\ mp'.state = "freed"
      /\ th'[t].pc \in {"idle", "mpdrain"} /\ th[t].pc \in {"idle", "unref", "mpdrain"}
  BY MpEff
<1>2. \A u \in Holders : u # t => th'[u] = th[u]
  BY <1>1 DEF Others
<1>3. OwnInv'
  <2>1. OwnOf(t)'
    BY <1>1 DEF OwnOf, Making, Using
  <2>2. ASSUME NEW u \in Holders, u # t PROVE OwnOf(u)'
    BY <1>1, <1>2, <2>2 DEF OwnInv, OwnOf, Usable
  <2> QED BY <2>1, <2>2 DEF OwnInv
<1>4. AloneInv'
  BY <1>1, <1>2 DEF AloneInv, Making
<1>5. \A q : UsersOf(q)' = UsersOf(q)
  BY <1>1, UsersAfter DEF Using
<1>6. RefInv'
  BY <1>1, <1>5 DEF RefInv, Usable
<1>7. There' = There
  BY <1>1 DEF There
<1>8. MpInv'
  <2> DEFINE c == Cardinality(There)
             l == Cardinality(Leaving)
  <2>1. /\ c \in Nat /\ l \in Nat /\ Cardinality(There') = c
        /\ mp.ref = c + l + (IF mp.state = "live" THEN 1 ELSE 0)
        /\ mp.state = "freed" => There = {}
    BY <1>7, FiniteLife DEF MpInv
  <2>2. CASE DestroyUnref(t)
    <3>1. Leaving' = Leaving \ {t} /\ t \in Leaving
      BY <1>1, <2>2, LeavingAfter
    <3>2. Cardinality(Leaving') = l - 1
      BY <3>1, FiniteLife, FS_RemoveElement
    <3> HIDE DEF c, l
    <3> QED BY <1>1, <1>7, <2>1, <2>2, <3>2 DEF MpInv
  <2>3. CASE MpSub(t)
    <3>1. Cardinality(Leaving') = l
      BY <1>1, <2>3, LeavingAfter
    <3> HIDE DEF c, l
    <3> QED BY <1>1, <2>1, <2>3, <3>1 DEF MpInv
  <2>4. CASE MpEnd(t)
    <3>1. Cardinality(Leaving') = l
      BY <1>1, <2>4, LeavingAfter
    <3>2. c = 0 /\ l = 0
      <4> HIDE DEF c, l
      <4> QED BY <1>1, <2>1, <2>4
    <3>3. There = {}
      BY <3>2, FiniteLife, FS_EmptySet
    <3> HIDE DEF c, l
    <3> QED BY <1>1, <1>7, <2>1, <2>4, <3>1, <3>2, <3>3 DEF MpInv
  <2> QED BY <2>2, <2>3, <2>4
<1> QED BY <1>3, <1>4, <1>6, <1>8

-----------------------------------------------------------------------------
\* The memory

Books == ZoneInv /\ ApartInv /\ LoopInv /\ CountInv

AllZones == UNION {ZoneBits(q) : q \in Pools}
InMap == 0 .. (MapBits - 1)

\* The number in use grows with the bits that are taken: some in the map, some in
\* what lies behind it.
LEMMA UsedGrows ==
  ASSUME NEW Z, Z \subseteq AllBits, NEW T, NEW U, Z \cap T = {}, Z \cap U = {}
  PROVE  /\ Cardinality(T \cap InMap) \in Nat /\ Cardinality(U \cap HeapBits) \in Nat
         /\ Cardinality(Z) \in Nat
         /\ Cardinality((T \cup Z) \cap InMap) + Cardinality((U \cup Z) \cap HeapBits)
              = Cardinality(T \cap InMap) + Cardinality(U \cap HeapBits) + Cardinality(Z)
<1> DEFINE M == InMap
           H == HeapBits
<1>a. MapBits \in Nat /\ Longest \in Nat /\ H = MapBits .. (MapBits + Longest - 1)
  BY Sizing
<1>b. M \cap H = {} /\ AllBits = M \cup H
  BY <1>a DEF AllBits, InMap
<1>c. IsFiniteSet(M) /\ IsFiniteSet(H)
  BY <1>a, FS_Interval DEF InMap
<1> HIDE DEF M, H
<1>d. Z \subseteq M \cup H
  BY <1>b
<1>1. \A S : S \subseteq M \/ S \subseteq H \/ S \subseteq M \cup H
               => IsFiniteSet(S) /\ Cardinality(S) \in Nat
  BY <1>c, FS_Union, FS_Subset, FS_CardinalityType
<1>2. /\ (T \cup Z) \cap M = (T \cap M) \cup (Z \cap M)
      /\ (T \cap M) \cap (Z \cap M) = {}
      /\ (U \cup Z) \cap H = (U \cap H) \cup (Z \cap H)
      /\ (U \cap H) \cap (Z \cap H) = {}
      /\ Z = (Z \cap M) \cup (Z \cap H) /\ (Z \cap M) \cap (Z \cap H) = {}
  BY <1>b, <1>d
<1>3. ASSUME NEW S, NEW R, IsFiniteSet(S), IsFiniteSet(R), S \cap R = {}
      PROVE  Cardinality(S \cup R) = Cardinality(S) + Cardinality(R)
  <2>1. Cardinality(S \cup R) = Cardinality(S) + Cardinality(R) - Cardinality(S \cap R)
    BY <1>3, FS_Union
  <2>2. Cardinality(S \cap R) = 0
    BY <1>3, FS_EmptySet
  <2>3. Cardinality(S) \in Nat /\ Cardinality(R) \in Nat
    BY <1>3, FS_CardinalityType
  <2> QED BY <2>1, <2>2, <2>3
<1> DEFINE a == T \cap M
           b == Z \cap M
           c == U \cap H
           d == Z \cap H
<1>4. /\ IsFiniteSet(a) /\ IsFiniteSet(b) /\ IsFiniteSet(c) /\ IsFiniteSet(d)
      /\ IsFiniteSet(Z)
      /\ Cardinality(a) \in Nat /\ Cardinality(b) \in Nat /\ Cardinality(c) \in Nat
      /\ Cardinality(d) \in Nat /\ Cardinality(Z) \in Nat
  BY <1>1, <1>d
<1>5. /\ a \cap b = {} /\ c \cap d = {} /\ b \cap d = {} /\ Z = b \cup d
      /\ (T \cup Z) \cap M = a \cup b /\ (U \cup Z) \cap H = c \cup d
  BY <1>2
<1> HIDE DEF a, b, c, d
<1>6. /\ Cardinality(a \cup b) = Cardinality(a) + Cardinality(b)
      /\ Cardinality(c \cup d) = Cardinality(c) + Cardinality(d)
      /\ Cardinality(Z) = Cardinality(b) + Cardinality(d)
  BY <1>3, <1>4, <1>5
<1>7. /\ Cardinality((T \cup Z) \cap M) = Cardinality(a) + Cardinality(b)
      /\ Cardinality((U \cup Z) \cap H) = Cardinality(c) + Cardinality(d)
  BY <1>5, <1>6
<1> DEFINE x == Cardinality((T \cup Z) \cap M)
           y == Cardinality((U \cup Z) \cap H)
           na == Cardinality(a)
           nb == Cardinality(b)
           nc == Cardinality(c)
           nd == Cardinality(d)
           nz == Cardinality(Z)
<1>8. /\ x = na + nb /\ y = nc + nd /\ nz = nb + nd
      /\ na \in Nat /\ nb \in Nat /\ nc \in Nat /\ nd \in Nat /\ nz \in Nat
  BY <1>4, <1>6, <1>7
<1> HIDE DEF x, y, na, nb, nc, nd, nz
<1>9. x + y = na + nc + nz
  BY <1>8
<1> QED BY <1>8, <1>9 DEF x, y, na, nc, nz, a, c, M, H

\* The blocks in use, by the sets they are counted from.
LEMMA UsedIs ==
  /\ Used = Cardinality(taken \cap InMap) + Cardinality(AllZones \cap HeapBits)
  /\ Used' = Cardinality(taken' \cap InMap) + Cardinality(AllZones' \cap HeapBits)
<1>1. AllZones = UNION {ZoneBits(p) : p \in Pools} /\ InMap = 0 .. (MapBits - 1)
  BY DEF AllZones, InMap
<1>2. AllZones' = UNION {ZoneBits(p)' : p \in Pools}
  BY DEF AllZones
<1> QED BY <1>1, <1>2, Zenon DEF Used

\* A memzone more.
More(z, y, n, f, e) ==
  /\ n \in Nat /\ DOMAIN z = 1 .. n /\ DOMAIN y = 1 .. (n + 1) /\ Len(y) = n + 1
  /\ \A i \in 1 .. n : y[i] = z[i]
  /\ y[n + 1].begin = f /\ y[n + 1].end = e
  /\ \A i \in 1 .. n : z[i].begin \in Nat /\ z[i].end \in Nat

\* The memzones, with one appended.
LEMMA ZoneMore ==
  ASSUME NEW z \in Seq(Zones), NEW f \in Nat, NEW e \in Nat,
         NEW y, y = Append(z, [begin |-> f, end |-> e]), NEW n, n = Len(z)
  PROVE  More(z, y, n, f, e)
<1> DEFINE r == [begin |-> f, end |-> e]
<1>1. r \in Zones /\ r.begin = f /\ r.end = e
  BY DEF Zones
<1> HIDE DEF r
<1>2. y = Append(z, r)
  BY DEF r
<1>3. n \in Nat /\ DOMAIN z = 1 .. n
  BY LenProperties
<1>4. Len(y) = n + 1 /\ y \in Seq(Zones) /\ \A i \in 1 .. n : y[i] = z[i]
  BY <1>1, <1>2, AppendProperties
<1>5. y[n + 1] = r
  BY <1>1, <1>2, AppendProperties
<1>6. DOMAIN y = 1 .. (n + 1)
  BY <1>4, LenProperties
<1>7. \A i \in 1 .. n : z[i] \in Zones
  BY <1>3, ElementOfSeq
<1> QED BY <1>1, <1>3, <1>4, <1>5, <1>6, <1>7 DEF More, Zones

\* The bits of a pool's memzones, after a step.
LEMMA BitsAfter ==
  ASSUME TypeInv, NEW p \in Pools
  PROVE  /\ bp'[p].zones = bp[p].zones => ZoneBits(p)' = ZoneBits(p)
         /\ bp'[p].zones = << >> => ZoneBits(p)' = {}
         /\ bp[p].zones = << >> => ZoneBits(p) = {}
         /\ \A f, e \in Nat : bp'[p].zones = Append(bp[p].zones, [begin |-> f, end |-> e])
                                => ZoneBits(p)' = ZoneBits(p) \cup (f .. e)
<1>1. bp[p].zones \in Seq(Zones)
  BY DEF TypeInv, PoolType
<1>2. ASSUME NEW f \in Nat, NEW e \in Nat,
             bp'[p].zones = Append(bp[p].zones, [begin |-> f, end |-> e])
      PROVE  ZoneBits(p)' = ZoneBits(p) \cup (f .. e)
  <2> DEFINE z == bp[p].zones
             y == bp'[p].zones
             n == Len(z)
  <2>1. /\ n \in Nat /\ DOMAIN z = 1 .. n /\ DOMAIN y = 1 .. (n + 1)
        /\ \A i \in 1 .. n : y[i] = z[i]
        /\ y[n + 1].begin = f /\ y[n + 1].end = e
    <3>1. More(z, y, n, f, e)
      BY <1>1, <1>2, ZoneMore
    <3> QED BY <3>1 DEF More
  <2>4. ZoneBits(p)' = UNION {y[i].begin .. y[i].end : i \in DOMAIN y}
    BY DEF ZoneBits
  <2>5. ZoneBits(p) = UNION {z[i].begin .. z[i].end : i \in DOMAIN z}
    BY DEF ZoneBits
  <2>6. ASSUME NEW b PROVE b \in ZoneBits(p)' <=> b \in ZoneBits(p) \cup (f .. e)
    <3>1. b \in ZoneBits(p)' <=> \E i \in 1 .. (n + 1) : b \in y[i].begin .. y[i].end
      BY <2>1, <2>4
    <3>2. b \in ZoneBits(p) <=> \E i \in 1 .. n : b \in z[i].begin .. z[i].end
      BY <2>1, <2>5
    <3> HIDE DEF y, z, n
    <3>3. 1 .. (n + 1) = (1 .. n) \cup {n + 1}
      BY <2>1
    <3> QED BY <2>1, <3>1, <3>2, <3>3
  <2> QED BY <2>6
<1>3. DOMAIN << >> = {}
  OBVIOUS
<1> QED BY <1>2, <1>3 DEF ZoneBits

\* What a step does to the pools that it does not touch.
LEMMA OtherBits ==
  ASSUME TypeInv, NEW p \in Pools, OtherPools(p)
  PROVE  /\ \A q \in Pools : q # p => ZoneBits(q)' = ZoneBits(q)
         /\ AllZones = (UNION {ZoneBits(q) : q \in Pools \ {p}}) \cup ZoneBits(p)
         /\ AllZones' = (UNION {ZoneBits(q) : q \in Pools \ {p}}) \cup ZoneBits(p)'
<1>1. \A q \in Pools : q # p => ZoneBits(q)' = ZoneBits(q)
  BY BitsAfter DEF OtherPools
<1>2. AllZones' = UNION {ZoneBits(q)' : q \in Pools}
  BY DEF AllZones
<1>3. AllZones = UNION {ZoneBits(q) : q \in Pools}
  BY DEF AllZones
<1> HIDE DEF AllZones
<1>4. ASSUME NEW b
      PROVE  b \in AllZones' <=> b \in ZoneBits(p)' \/ \E q \in Pools \ {p} : b \in ZoneBits(q)
  BY <1>1, <1>2
<1>5. ASSUME NEW b
      PROVE  b \in AllZones <=> b \in ZoneBits(p) \/ \E q \in Pools \ {p} : b \in ZoneBits(q)
  BY <1>3
<1> QED BY <1>1, <1>4, <1>5

\* Steps that leave the memory alone: the loops of the other creations are those
\* of other pools.
LEMMA QuietBooks ==
  ASSUME TypeInv, OwnInv, Books, NEW t \in Holders, NEW p,
         Others(t), OtherPools(p), SameBooks,
         p \in Pools =>
           /\ bp'[p].zones = bp[p].zones
           /\ bp'[p].state # "none" => bp'[p].size \in Sizes /\ bp'[p].depth \in Nums
           /\ bp'[p].state = "none" => bp'[p].zones = << >>,
         \/ SameZones(p)
         \/ \A u \in Holders : u # t /\ th[u].pc \in Making => th[u].pool # p,
         LoopOf(t)'
  PROVE  Books'
<1> USE DEF Books
<1>1. \A q \in Pools : q # p => bp'[q] = bp[q]
  BY DEF OtherPools
<1>2. \A q \in Pools : bp'[q].zones = bp[q].zones
  BY <1>1
<1>3. \A q \in Pools : ZoneBits(q)' = ZoneBits(q)
  BY <1>2, BitsAfter
<1>4. ZoneInv'
  <2>1. ASSUME NEW q \in Pools PROVE ZoneOf(q)'
    <3>1. ZoneOf(q)
      BY DEF ZoneInv
    <3>2. ZoneBits(q)' \subseteq taken'
      BY <1>3, <3>1 DEF ZoneOf, SameBooks
    <3>3. bp'[q].state # "none" => bp'[q].size \in Sizes /\ bp'[q].depth \in Nums
      BY <1>1, <3>1 DEF ZoneOf
    <3>4. bp'[q].state = "none" => bp'[q].zones = << >>
      BY <1>1, <3>1 DEF ZoneOf
    <3> QED BY <1>2, <3>1, <3>2, <3>3, <3>4 DEF ZoneOf
  <2> QED BY <2>1 DEF ZoneInv
<1>5. ApartInv'
  BY <1>3 DEF ApartInv
<1>6. LoopInv'
  <2>1. ASSUME NEW u \in Holders, u # t PROVE LoopOf(u)'
    <3>1. LoopOf(u) /\ th'[u] = th[u]
      BY <2>1 DEF LoopInv, Others
    <3>2. CASE th[u].pc \in Making
      <4>1. PICK q \in Pools : q = th[u].pool
        BY <3>2 DEF OwnInv, OwnOf
      <4>2. /\ bp'[q].zones = bp[q].zones /\ bp'[q].size = bp[q].size
            /\ bp'[q].depth = bp[q].depth
        BY <1>1, <2>1, <3>2, <4>1 DEF SameZones
      <4>3. Split(q)' = Split(q)
        BY <4>2 DEF Split
      <4> QED BY <1>3, <3>1, <4>1, <4>2, <4>3 DEF LoopOf
    <3>3. CASE th[u].pc \notin Making
      BY <3>1, <3>3 DEF LoopOf, Making
    <3> QED BY <3>2, <3>3
  <2> QED BY <2>1 DEF LoopInv
<1>7. CountInv'
  <2>1. AllZones' = AllZones
    BY <1>3 DEF AllZones
  <2>2. Used' = Used
    <3>1. Used' = Cardinality(taken' \cap InMap) + Cardinality(AllZones' \cap HeapBits)
      BY UsedIs
    <3> QED BY <2>1, <3>1, UsedIs DEF SameBooks
  <2> QED BY <2>2 DEF CountInv, SameBooks
<1> QED BY <1>4, <1>5, <1>6, <1>7

\* A pool's memory, given back, is counted as free again.
LEMMA ReturnedBooks ==
  ASSUME TypeInv, OwnInv, AloneInv, Books, NEW t \in Holders, NEW p \in Pools,
         th[t].pool = p, th[t].pc \in Making \cup {"drain"},
         Others(t), OtherPools(p), Returned(p), bp'[p].zones = << >>,
         bp'[p].state # "none" => bp'[p].size \in Sizes /\ bp'[p].depth \in Nums,
         LoopOf(t)'
  PROVE  Books'
<1> USE DEF Books
<1>1. \A q \in Pools : q # p => bp'[q] = bp[q]
  BY DEF OtherPools
<1>2. /\ \A q \in Pools : q # p => ZoneBits(q)' = ZoneBits(q)
      /\ ZoneBits(p)' = {}
  BY OtherBits, BitsAfter
<1>3. taken' = taken \ ZoneBits(p)
  BY DEF Returned
<1>4. ZoneInv'
  <2>1. ASSUME NEW q \in Pools, q # p PROVE ZoneOf(q)'
    <3>1. ZoneOf(q) /\ bp'[q] = bp[q]
      BY <1>1, <2>1 DEF ZoneInv
    <3>2. ZoneBits(q)' \subseteq taken'
      BY <1>2, <1>3, <2>1, <3>1 DEF ZoneOf, ApartInv
    <3> QED BY <3>1, <3>2 DEF ZoneOf
  <2>2. ZoneOf(p)'
    BY <1>2 DEF ZoneOf
  <2> QED BY <2>1, <2>2 DEF ZoneInv
<1>5. ApartInv'
  BY <1>2 DEF ApartInv
<1>6. LoopInv'
  <2>1. ASSUME NEW u \in Holders, u # t PROVE LoopOf(u)'
    <3>1. LoopOf(u) /\ th'[u] = th[u]
      BY <2>1 DEF LoopInv, Others
    <3>2. CASE th[u].pc \in Making
      <4>1. PICK q \in Pools : q = th[u].pool
        BY <3>2 DEF OwnInv, OwnOf
      <4>2. q # p
        BY <2>1, <3>2, <4>1 DEF AloneInv
      <4>3. bp'[q] = bp[q] /\ ZoneBits(q)' = ZoneBits(q)
        BY <1>1, <1>2, <4>2
      <4>4. Split(q)' = Split(q)
        BY <4>3 DEF Split
      <4> QED BY <3>1, <4>1, <4>3, <4>4 DEF LoopOf
    <3>3. CASE th[u].pc \notin Making
      BY <3>1, <3>3 DEF LoopOf, Making
    <3> QED BY <3>2, <3>3
  <2> QED BY <2>1 DEF LoopInv
<1>7. CountInv'
  <2> DEFINE Z == ZoneBits(p)
             R == UNION {ZoneBits(q) : q \in Pools \ {p}}
             T == taken \ Z
  <2>1. Z \subseteq AllBits /\ Z \subseteq taken
    BY ZoneFinite DEF ZoneInv, ZoneOf
  <2>2. Z \cap R = {} /\ Z \cap T = {} /\ taken = T \cup Z
    BY <2>1 DEF ApartInv
  <2>3. AllZones = R \cup Z /\ AllZones' = R
    BY <1>2, OtherBits
  <2>4. taken' = T
    BY <1>3
  <2>5. Used' = Cardinality(T \cap InMap) + Cardinality(R \cap HeapBits)
    <3>1. Used' = Cardinality(taken' \cap InMap) + Cardinality(AllZones' \cap HeapBits)
      BY UsedIs
    <3> QED BY <2>3, <2>4, <3>1
  <2>6. Used = Cardinality((T \cup Z) \cap InMap) + Cardinality((R \cup Z) \cap HeapBits)
    BY <2>2, <2>3, UsedIs
  <2> DEFINE n == Cardinality(Z)
  <2> HIDE DEF Z, R, T
  <2>7. Used' \in Nat /\ n \in Nat /\ Used = Used' + n
    <3>1. /\ Cardinality(T \cap InMap) \in Nat /\ Cardinality(R \cap HeapBits) \in Nat
          /\ Cardinality(Z) \in Nat
          /\ Cardinality((T \cup Z) \cap InMap) + Cardinality((R \cup Z) \cap HeapBits)
               = Cardinality(T \cap InMap) + Cardinality(R \cap HeapBits) + Cardinality(Z)
      BY <2>1, <2>2, UsedGrows
    <3> QED BY <2>5, <2>6, <3>1
  <2>8. mp'.free = mp.free + n /\ mp'.real = mp.real + n * Unit
    BY DEF Returned, Z
  <2> QED BY <2>7, <2>8, MemAssumption DEF CountInv
<1> QED BY <1>4, <1>5, <1>6, <1>7

\* A memzone is taken: the bits were clear and lie behind those of the pool.
LEMMA ZoneBooks ==
  ASSUME TypeInv, OwnInv, AloneInv, Books, NEW t \in Holders, CreateZone(t)
  PROVE  Books'
<1> USE DEF Books
<1>1. th[t].pc = "zone"
  BY DEF CreateZone, At
<1>2. PICK p \in Pools : p = th[t].pool /\ bp[p].state = "making"
  BY <1>1 DEF OwnInv, OwnOf, Making
<1>3. ZoneOf(p) /\ LoopOf(t)
  BY DEF ZoneInv, LoopInv
<1>4. bp[p].size \in Sizes /\ bp[p].depth \in Nums
  BY <1>2, <1>3 DEF ZoneOf
<1> DEFINE z == bp[p].zones
           y == bp'[p].zones
           l == Len(z)
           s == Split(p)
<1>5. /\ th[t].pos \in Nat
      /\ \A i \in DOMAIN z : z[i].end <= th[t].pos
      /\ z # << >> => th[t].pos \in ZoneBits(p)
      /\ th[t].left + l * s = bp[p].depth
  BY <1>1, <1>2, <1>3 DEF LoopOf
<1>6. PICK n : n = Combined(p)
  OBVIOUS
<1>7. /\ Others(t) /\ OtherPools(p) /\ bp'[p].state = bp[p].state
      /\ bp'[p].size = bp[p].size /\ bp'[p].depth = bp[p].depth
      /\ th'[t].pc = "zone" /\ th'[t].pool = p
      /\ th'[t].left = th[t].left - s /\ n \in 1 .. Longest
      /\ mp'.free = mp.free - n /\ mp'.real = mp.real - n * Unit
      /\ \E f \in Runs(th[t].pos, n) :
           /\ taken' = taken \cup (f .. (f + n - 1))
           /\ y = Append(z, [begin |-> f, end |-> f + n - 1])
           /\ th'[t].pos = f + n - 1
  <2>1. th[t].pool \in Pools /\ bp[th[t].pool].size \in Sizes /\ th[t].pos \in Nat
    BY <1>2, <1>4, <1>5
  <2>2. p = th[t].pool
    BY <1>2
  <2> HIDE DEF z, y, s
  <2>3. Zoned(t, p, n)
    BY <1>6, <2>1, <2>2, ZoneEff
  <2> QED BY <2>3 DEF Zoned, SameLife, z, y, s
<1>8. PICK f \in Runs(th[t].pos, n) :
        /\ taken' = taken \cup (f .. (f + n - 1))
        /\ y = Append(z, [begin |-> f, end |-> f + n - 1])
        /\ th'[t].pos = f + n - 1
  BY <1>7
<1> DEFINE e == f + n - 1
           Z == f .. e
<1>9. /\ f \in Nat /\ e \in Nat /\ f <= e /\ th[t].pos <= f /\ f <= Bits - 1
      /\ Z \cap taken = {} /\ f \in Z /\ e \in Z
  <2>1. f \in th[t].pos .. (Bits - 1) /\ (f .. (f + n - 1)) \cap taken = {}
    BY <1>8 DEF Runs
  <2>2. n \in Nat \ {0}
    BY <1>7, Sizing
  <2> QED BY SMTT(30), <1>5, <2>1, <2>2, MemAssumption
<1>10. e < MapBits + Longest /\ Z \subseteq AllBits
  BY SMTT(30), <1>7, <1>9, Sizing, MemAssumption DEF AllBits
<1>11. z \in Seq(Zones) /\ n \in Nat /\ Cardinality(Z) = n
  <2>1. z \in Seq(Zones)
    BY DEF TypeInv, PoolType
  <2>2. n \in Nat
    BY <1>7, Sizing
  <2> QED BY <1>9, <2>1, <2>2, FS_Interval
<1>12. /\ l \in Nat /\ DOMAIN z = 1 .. l /\ DOMAIN y = 1 .. (l + 1) /\ Len(y) = l + 1
       /\ \A i \in 1 .. l : y[i] = z[i]
       /\ y[l + 1].begin = f /\ y[l + 1].end = e
       /\ \A i \in 1 .. l : z[i].begin \in Nat /\ z[i].end \in Nat
  <2> HIDE DEF e
  <2>1. y = Append(z, [begin |-> f, end |-> e])
    BY <1>8 DEF e
  <2>2. f \in Nat /\ e \in Nat /\ z \in Seq(Zones)
    BY <1>9, <1>11
  <2>3. More(z, y, l, f, e)
    BY <2>1, <2>2, ZoneMore
  <2> QED BY <2>3 DEF More
<1>13. /\ ZoneBits(p)' = ZoneBits(p) \cup Z
       /\ \A q \in Pools : q # p => ZoneBits(q)' = ZoneBits(q)
  BY <1>7, <1>8, <1>9, BitsAfter, OtherBits
<1>14. taken' = taken \cup Z
  BY <1>8
<1>15. \A i \in 1 .. l : z[i].end < f
  <2>1. SUFFICES ASSUME NEW i \in 1 .. l PROVE z[i].end < f
    OBVIOUS
  <2>2. z # << >> /\ z[i].end <= th[t].pos /\ z[i].end \in Nat
    BY <1>5, <1>12
  <2>3. th[t].pos # f
    BY <1>3, <1>5, <1>9, <2>2 DEF ZoneOf
  <2> QED BY <1>5, <1>9, <2>2, <2>3
<1>16. \A q \in Pools : q # p => bp'[q] = bp[q]
  BY <1>7 DEF OtherPools
<1>17. ZoneInv'
  <2>1. ASSUME NEW q \in Pools, q # p PROVE ZoneOf(q)'
    <3>1. ZoneOf(q) /\ bp'[q] = bp[q]
      BY <1>16, <2>1 DEF ZoneInv
    <3>2. ZoneBits(q)' \subseteq taken'
      BY <1>13, <1>14, <2>1, <3>1 DEF ZoneOf
    <3> QED BY <3>1, <3>2 DEF ZoneOf
  <2>2. ZoneOf(p)'
    <3>1. \A i \in DOMAIN y : y[i].begin <= y[i].end /\ y[i].end < MapBits + Longest
      <4>1. \A i \in 1 .. l : z[i].begin <= z[i].end /\ z[i].end < MapBits + Longest
        BY <1>3, <1>12 DEF ZoneOf
      <4> HIDE DEF z, y, l, e
      <4> QED BY <1>9, <1>10, <1>12, <4>1
    <3>2. \A i, j \in DOMAIN y : i < j => y[i].end < y[j].begin
      <4>1. \A i, j \in 1 .. l : i < j => z[i].end < z[j].begin
        BY <1>3, <1>12 DEF ZoneOf
      <4> HIDE DEF z, y, l, e
      <4> QED BY <1>12, <1>15, <4>1
    <3>3. ZoneBits(p)' \subseteq taken'
      BY <1>3, <1>13, <1>14 DEF ZoneOf
    <3>4. bp'[p].state # "none"
      BY <1>2, <1>7
    <3> HIDE DEF z, e, Z, l
    <3> QED BY <1>4, <1>7, <3>1, <3>2, <3>3, <3>4 DEF ZoneOf
  <2> QED BY <2>1, <2>2 DEF ZoneInv
<1>18. \A q \in Pools : ZoneBits(q) \cap Z = {}
  BY <1>9 DEF ZoneInv, ZoneOf
<1>19. ApartInv'
  <2> HIDE DEF Z
  <2> QED BY <1>13, <1>18 DEF ApartInv
<1>20. LoopInv'
  <2>1. LoopOf(t)'
    <3>1. Split(p)' = s
      BY <1>7 DEF Split
    <3>2. \A i \in DOMAIN y : y[i].end <= e
      <4> HIDE DEF z, y, l, e
      <4> QED BY <1>9, <1>12, <1>15
    <3>3. e \in ZoneBits(p)'
      BY <1>9, <1>13
    <3>4. th'[t].left + Len(y) * s = bp'[p].depth
      <4>1. s \in Nat /\ th[t].left \in Int
        BY <1>4, SplitCombined DEF TypeInv, ThreadType
      <4>2. (l + 1) * s = l * s + s /\ l * s \in Nat
        <5>1. l \in Nat
          BY <1>12
        <5> HIDE DEF l, s
        <5> QED BY <4>1, <5>1
      <4>3. /\ th[t].left + l * s = bp[p].depth /\ th'[t].left = th[t].left - s
            /\ Len(y) = l + 1 /\ bp'[p].depth = bp[p].depth
        BY <1>5, <1>7, <1>12
      <4> HIDE DEF l, s, y
      <4> DEFINE ls == l * s
                 lt == th[t].left
      <4>4. /\ ls \in Nat /\ lt \in Int /\ lt + ls = bp[p].depth
            /\ th'[t].left = lt - s /\ Len(y) * s = ls + s
        BY <4>1, <4>2, <4>3
      <4> HIDE DEF ls, lt
      <4> QED BY <4>1, <4>3, <4>4
    <3> HIDE DEF z, l, Z
    <3> QED BY <1>7, <1>8, <1>9, <3>1, <3>2, <3>3, <3>4 DEF LoopOf
  <2>2. ASSUME NEW u \in Holders, u # t PROVE LoopOf(u)'
    <3>1. LoopOf(u) /\ th'[u] = th[u]
      BY <1>7, <2>2 DEF LoopInv, Others
    <3>2. CASE th[u].pc \in Making
      <4>1. PICK q \in Pools : q = th[u].pool
        BY <3>2 DEF OwnInv, OwnOf
      <4>2. q # p
        BY <1>1, <1>2, <2>2, <3>2, <4>1 DEF AloneInv, Making
      <4>3. bp'[q] = bp[q] /\ ZoneBits(q)' = ZoneBits(q)
        BY <1>13, <1>16, <4>2
      <4>4. Split(q)' = Split(q)
        BY <4>3 DEF Split
      <4> QED BY <3>1, <4>1, <4>3, <4>4 DEF LoopOf
    <3>3. CASE th[u].pc \notin Making
      BY <3>1, <3>3 DEF LoopOf, Making
    <3> QED BY <3>2, <3>3
  <2> QED BY <2>1, <2>2 DEF LoopInv
<1>21. CountInv'
  <2>1. AllZones' = AllZones \cup Z
    BY <1>7, <1>13, OtherBits
  <2>2. Z \cap taken = {} /\ Z \cap AllZones = {}
    BY <1>9, <1>18 DEF AllZones
  <2>3. Used' = Cardinality((taken \cup Z) \cap InMap)
                + Cardinality((AllZones \cup Z) \cap HeapBits)
    BY <1>14, <2>1, UsedIs
  <2> HIDE DEF Z
  <2>4. /\ Cardinality(taken \cap InMap) \in Nat
        /\ Cardinality(AllZones \cap HeapBits) \in Nat
        /\ Cardinality((taken \cup Z) \cap InMap)
             + Cardinality((AllZones \cup Z) \cap HeapBits)
           = Cardinality(taken \cap InMap) + Cardinality(AllZones \cap HeapBits)
             + Cardinality(Z)
    BY <1>10, <2>2, UsedGrows
  <2>5. Used \in Nat /\ Used' = Used + n
    BY <1>11, <2>3, <2>4, UsedIs
  <2> QED BY SMTT(30), <1>7, <1>11, <2>5, MemAssumption DEF CountInv
<1> QED BY <1>17, <1>19, <1>20, <1>21

\* Steps in which t is not, or no longer, making a pool.
LEMMA UseBooks ==
  ASSUME TypeInv, OwnInv, Books, NEW t \in Holders, NEW p \in Pools,
         Others(t), OtherPools(p), SameBooks, SameZones(p), th'[t].pc \notin Making,
         bp[p].state # "none", bp'[p].state # "none"
  PROVE  Books'
<1>1. LoopOf(t)'
  BY DEF LoopOf, Making
<1>2. /\ bp'[p].zones = bp[p].zones /\ bp'[p].size \in Sizes /\ bp'[p].depth \in Nums
  BY DEF SameZones, Books, ZoneInv, ZoneOf
<1> QED BY <1>1, <1>2, QuietBooks

\* A pool begins without memory.
LEMMA CreateRefBooks ==
  ASSUME TypeInv, OwnInv, Books, NEW t \in Holders, NEW p \in Pools, NEW s \in Sizes,
         NEW k \in Nums, CreateRef(t, p, s, k), mp.ref # 0
  PROVE  Books'
<1>1. /\ Others(t) /\ OtherPools(p) /\ SameBooks
      /\ th'[t].pc = "lock" /\ th'[t].pool = p /\ th'[t].left = k /\ th'[t].pos = 0
      /\ bp[p].state = "none" /\ bp'[p].state = "making" /\ bp'[p].size = s
      /\ bp'[p].depth = k /\ bp'[p].zones = << >>
  BY CreateRefEff
<1>2. bp[p].zones = << >>
  BY <1>1 DEF Books, ZoneInv, ZoneOf
<1>3. \A u \in Holders : u # t /\ th[u].pc \in Making => th[u].pool # p
  BY <1>1 DEF OwnInv, OwnOf
<1>4. LoopOf(t)'
  BY <1>1 DEF LoopOf
<1> QED BY <1>1, <1>2, <1>3, <1>4, QuietBooks

\* The thread that makes a pool is the only one to do so.
LEMMA MakesAlone ==
  ASSUME OwnInv, AloneInv, NEW t \in Holders, th[t].pc \in Making
  PROVE  /\ th[t].pool \in Pools /\ bp[th[t].pool].state = "making"
         /\ \A u \in Holders : u # t /\ th[u].pc \in Making => th[u].pool # th[t].pool
  BY DEF OwnInv, OwnOf, AloneInv

\* The search for memory begins or ends.
LEMMA LockBooks ==
  ASSUME TypeInv, OwnInv, AloneInv, Books, NEW t \in Holders, CreateLock(t) \/ CreateUnlock(t)
  PROVE  Books'
<1>1. /\ Others(t) /\ bp' = bp /\ mp' = mp /\ taken' = taken
      /\ th'[t].pool = th[t].pool /\ th'[t].left = th[t].left /\ th'[t].pos = th[t].pos
      /\ \/ th[t].pc = "lock" /\ th'[t].pc \in {"zone", "undo"}
         \/ th[t].pc = "zone" /\ th'[t].pc = "elem" /\ th[t].left <= 0
  BY LockEff
<1>2. PICK p \in Pools : p = th[t].pool /\ bp[p].state = "making"
  BY <1>1, MakesAlone DEF Making
<1>3. ZoneOf(p) /\ LoopOf(t)
  BY DEF Books, ZoneInv, LoopInv
<1>4. bp[p].size \in Sizes /\ bp[p].depth \in Nums
  BY <1>2, <1>3 DEF ZoneOf
<1>5. OtherPools(p) /\ SameBooks /\ SameZones(p)
  BY <1>1 DEF OtherPools, SameBooks, SameZones
<1>6. Split(p)' = Split(p) /\ ZoneBits(p)' = ZoneBits(p)
  BY <1>1 DEF Split, ZoneBits
<1>7. Split(p) \in Nat /\ Len(bp[p].zones) \in Nat /\ th[t].left \in Int
  <2>1. Split(p) \in Nat
    BY <1>4, SplitCombined
  <2>2. bp[p].zones \in Seq(Zones) /\ th[t].left \in Int
    BY DEF TypeInv, PoolType, ThreadType
  <2> QED BY <2>1, <2>2, LenProperties
<1>8. LoopOf(t)'
  <2>1. CASE th[t].pc = "lock"
    <3>1. bp[p].zones = << >> /\ th[t].left = bp[p].depth /\ th[t].pos = 0
      BY <1>2, <1>3, <2>1 DEF LoopOf
    <3>2. DOMAIN bp[p].zones = {} /\ Len(bp[p].zones) = 0
      BY <3>1
    <3>3. th[t].left + Len(bp[p].zones) * Split(p) = bp[p].depth
      BY <1>7, <3>1, <3>2
    <3>4. th'[t].pc \in {"zone", "undo"}
      BY <1>1, <2>1
    <3> QED BY <1>1, <1>2, <1>6, <3>1, <3>2, <3>3, <3>4 DEF LoopOf
  <2>2. CASE th[t].pc = "zone"
    <3>1. th[t].left + Len(bp[p].zones) * Split(p) = bp[p].depth /\ th[t].left <= 0
      BY <1>1, <1>2, <1>3, <2>2 DEF LoopOf
    <3> DEFINE x == Len(bp[p].zones) * Split(p)
    <3>2. x \in Nat
      BY <1>7
    <3> HIDE DEF x
    <3>3. bp[p].depth <= x
      <4>1. th[t].left + x = bp[p].depth /\ th[t].left <= 0
        BY <3>1 DEF x
      <4> QED BY <1>7, <3>2, <4>1
    <3>4. th'[t].pc = "elem"
      BY <1>1, <2>2
    <3> QED BY <1>1, <1>2, <1>6, <3>3, <3>4 DEF LoopOf, x
  <2> QED BY <1>1, <2>1, <2>2
<1>9. /\ bp'[p].zones = bp[p].zones /\ bp'[p].size \in Sizes /\ bp'[p].depth \in Nums
      /\ bp'[p].state # "none"
  BY <1>1, <1>2, <1>4
<1> QED BY <1>1, <1>5, <1>8, <1>9, QuietBooks

\* A pool is ready with its memzones, or given up without any.
LEMMA CreateEndBooks ==
  ASSUME TypeInv, OwnInv, AloneInv, Books, NEW t \in Holders, CreateElem(t) \/ CreateUndo(t),
         CreateElem(t) => Filled(th[t].pool) \in Seq(Blocks)
  PROVE  Books'
<1>1. th[t].pc \in {"elem", "undo"}
  BY DEF CreateElem, CreateUndo, At
<1>2. PICK p \in Pools : p = th[t].pool /\ bp[p].state = "making"
  BY <1>1, MakesAlone DEF Making
<1>3. CASE CreateElem(t)
  <2>1. /\ Others(t) /\ OtherPools(p) /\ SameZones(p) /\ SameBooks
        /\ bp'[p].state = "live" /\ th'[t].pc = "idle"
    BY <1>2, <1>3, ElemEff
  <2> QED BY <1>2, <2>1, UseBooks DEF Making
<1>4. CASE CreateUndo(t)
  <2>1. /\ Others(t) /\ OtherPools(p) /\ SameBooks
        /\ bp'[p].state = "none" /\ bp'[p].zones = << >>
        /\ th[t].pc = "undo" /\ th'[t].pc = "idle"
    BY <1>2, <1>4, UndoEff
  <2>2. bp[p].zones = << >>
    BY <1>2, <2>1 DEF Books, LoopInv, LoopOf
  <2>3. LoopOf(t)'
    BY <2>1 DEF LoopOf
  <2>4. \A u \in Holders : u # t /\ th[u].pc \in Making => th[u].pool # p
    BY <1>1, <1>2, MakesAlone DEF Making
  <2> QED BY <2>1, <2>2, <2>3, <2>4, QuietBooks
<1> QED BY <1>3, <1>4

\* A creation that failed and a pool that is destroyed give all back.
LEMMA BackBooks ==
  ASSUME TypeInv, OwnInv, AloneInv, Books, NEW t \in Holders,
         CreateFail(t) \/ CreateElemFail(t) \/ DestroyEnd(t)
  PROVE  Books'
<1>1. th[t].pc \in {"zone", "elem", "drain"}
  BY DEF CreateFail, CreateElemFail, DestroyEnd, At
<1>2. PICK p \in Pools : p = th[t].pool /\ bp[p].state # "none"
  BY <1>1 DEF OwnInv, OwnOf, Making
<1>3. ZoneOf(p)
  BY DEF Books, ZoneInv
<1>4. CASE CreateFail(t) \/ CreateElemFail(t)
  <2>1. /\ Others(t) /\ OtherPools(p) /\ SameLife(p) /\ Returned(p)
        /\ bp'[p].size = bp[p].size /\ bp'[p].depth = bp[p].depth /\ bp'[p].zones = << >>
        /\ th'[t].pc = "undo" /\ th'[t].pool = p
    BY <1>2, <1>3, <1>4, BackEff
  <2>2. LoopOf(t)'
    BY <2>1 DEF LoopOf
  <2>3. bp'[p].size \in Sizes /\ bp'[p].depth \in Nums
    BY <1>2, <1>3, <2>1 DEF ZoneOf
  <2>4. th[t].pc \in Making \cup {"drain"}
    BY <1>1 DEF Making
  <2> QED BY <1>2, <2>1, <2>2, <2>3, <2>4, ReturnedBooks
<1>5. CASE DestroyEnd(t)
  <2>1. /\ Others(t) /\ OtherPools(p) /\ Returned(p) /\ bp'[p].state = "none"
        /\ bp'[p].zones = << >> /\ th'[t].pc = "unref"
    BY <1>2, <1>3, <1>5, DestroyEndEff
  <2>2. LoopOf(t)'
    BY <2>1 DEF LoopOf
  <2>3. th[t].pc \in Making \cup {"drain"}
    BY <1>1 DEF Making
  <2> QED BY <1>2, <2>1, <2>2, <2>3, ReturnedBooks
<1> QED BY <1>4, <1>5

\* The references of the memory pool are not its books.
LEMMA MpBooks ==
  ASSUME TypeInv, OwnInv, Books, NEW t \in Holders, DestroyUnref(t) \/ MpSub(t) \/ MpEnd(t)
  PROVE  Books'
<1>1. Others(t) /\ SameBooks /\ bp' = bp /\ th'[t].pc \in {"idle", "mpdrain"}
  BY MpEff
<1>2. LoopOf(t)'
  BY <1>1 DEF LoopOf
<1>3. OtherPools(NoOne) /\ SameZones(NoOne) /\ NoOne \notin Pools
  BY <1>1, MemAssumption DEF OtherPools, SameZones
<1> QED BY <1>1, <1>2, <1>3, QuietBooks

-----------------------------------------------------------------------------
\* The blocks of a pool

\* Steps that hand no block to a thread: the stack stays or goes.
LEMMA QuietStack ==
  ASSUME OwnInv, StackInv, NEW t \in Holders, NEW p, Others(t), OtherPools(p),
         th'[t].pc # "has",
         p \in Pools => bp'[p].stack = bp[p].stack \/ bp'[p].stack = << >>
  PROVE  StackInv'
<1>1. \A q \in Pools : bp'[q].stack = bp[q].stack \/ bp'[q].stack = << >>
  BY DEF OtherPools
<1>2. DOMAIN << >> = {}
  OBVIOUS
<1>3. \A q \in Pools : \A i, j \in DOMAIN bp'[q].stack :
        bp'[q].stack[i] = bp'[q].stack[j] => i = j
  BY <1>1, <1>2 DEF StackInv
<1>4. \A u \in Holders : th'[u].pc = "has" => u # t /\ th'[u] = th[u]
  BY DEF Others
<1>5. ASSUME NEW u \in Holders, th'[u].pc = "has"
      PROVE  th'[u].pos \in Blocks /\ th'[u].pos \notin Elems(th[u].pool)'
  <2>1. th'[u] = th[u] /\ th[u].pos \in Blocks /\ th[u].pos \notin Elems(th[u].pool)
    BY <1>4, <1>5 DEF StackInv, At
  <2>2. PICK q \in Pools : q = th[u].pool
    BY <1>5, <2>1 DEF OwnInv, OwnOf, Using
  <2>3. th[u].pos \notin Elems(q)'
    BY <1>1, <1>2, <2>1, <2>2 DEF Elems
  <2> QED BY <2>1, <2>2, <2>3 DEF Elems
<1> QED BY <1>3, <1>4, <1>5 DEF StackInv, At

\* wd_block_alloc: the block on top changes hands.
LEMMA PopStack ==
  ASSUME TypeInv, OwnInv, StackInv, NEW t \in Holders, AllocPop(t)
  PROVE  StackInv'
<1>1. th[t].pc = "pop"
  BY DEF AllocPop, At
<1>2. PICK p \in Pools : p = th[t].pool
  BY <1>1 DEF OwnInv, OwnOf, Using
<1> DEFINE s == bp[p].stack
           n == Len(s)
           y == bp'[p].stack
<1>3. /\ Others(t) /\ OtherPools(p) /\ n \in Nat /\ n > 0 /\ s \in Seq(Blocks)
      /\ y = SubSeq(s, 1, n - 1) /\ th'[t].pos = s[n] /\ th'[t].pos \in Blocks
      /\ th'[t].pc = "has" /\ th'[t].pool = p
  <2> HIDE DEF s, y
  <2>1. /\ Others(t) /\ OtherPools(p) /\ n \in Nat /\ n > 0 /\ bp[p].stack \in Seq(Blocks)
        /\ bp'[p].stack = SubSeq(bp[p].stack, 1, n - 1) /\ th'[t].pos = bp[p].stack[n]
        /\ th'[t].pos \in Blocks /\ th'[t].pc = "has" /\ th'[t].pool = p
    <3> PICK k : k = Len(bp[p].stack)
      OBVIOUS
    <3>1. Popped(t, p, k)
      BY <1>2, PopEff
    <3> QED BY <3>1 DEF Popped, s
  <2> QED BY <2>1 DEF s, y
<1>4. /\ DOMAIN s = 1 .. n /\ DOMAIN y = 1 .. (n - 1) /\ n \in 1 .. n
      /\ \A i \in 1 .. (n - 1) : y[i] = s[i] /\ i \in 1 .. n /\ i # n
  BY <1>3, LenProperties, SubSeqProperties
<1>5. \A i, j \in DOMAIN s : s[i] = s[j] => i = j
  BY DEF StackInv
<1>6. Elems(p) = {s[i] : i \in DOMAIN s}
  BY DEF Elems
<1>7. Elems(p)' = {y[i] : i \in DOMAIN y}
  BY DEF Elems
<1>8. Elems(p)' \subseteq Elems(p) /\ th'[t].pos \in Elems(p) /\ th'[t].pos \notin Elems(p)'
  <2>1. th'[t].pos = s[n]
    BY <1>3
  <2> HIDE DEF s, n, y
  <2> QED BY <1>4, <1>5, <1>6, <1>7, <2>1
<1>9. \A q \in Pools : q # p => bp'[q] = bp[q] /\ Elems(q)' = Elems(q)
  BY <1>3 DEF OtherPools, Elems
<1>10. \A q \in Pools : \A i, j \in DOMAIN bp'[q].stack :
         bp'[q].stack[i] = bp'[q].stack[j] => i = j
  <2>1. \A i, j \in DOMAIN y : y[i] = y[j] => i = j
    <3> HIDE DEF s, n, y
    <3> QED BY <1>4, <1>5
  <2> QED BY <1>9, <2>1 DEF StackInv
<1>11. \A u \in Holders : u # t => th'[u] = th[u]
  BY SMTT(30), <1>3 DEF Others
<1> HIDE DEF s, n, y
<1>12. ASSUME NEW u \in Holders, u # t, th'[u].pc = "has"
       PROVE  /\ th'[u].pos \in Blocks /\ th'[u].pos \notin Elems(th[u].pool)'
              /\ th'[u].pool = p => th'[u].pos # th'[t].pos
  <2>1. th'[u] = th[u] /\ th[u].pos \in Blocks /\ th[u].pos \notin Elems(th[u].pool)
    BY <1>11, <1>12 DEF StackInv, At
  <2>2. PICK q \in Pools : q = th[u].pool
    BY <1>12, <2>1 DEF OwnInv, OwnOf, Using
  <2>3. th[u].pos \notin Elems(q)'
    BY <1>8, <1>9, <2>1, <2>2
  <2> QED BY <1>8, <2>1, <2>2, <2>3 DEF Elems
<1>13. \A u \in Holders : th'[u].pc = "has" =>
         th'[u].pos \in Blocks /\ th'[u].pos \notin Elems(th[u].pool)'
  BY <1>3, <1>8, <1>12 DEF Elems
<1>14. \A u, v \in Holders : u # v /\ th'[u].pc = "has" /\ th'[v].pc = "has"
                             /\ th'[u].pool = th'[v].pool => th'[u].pos # th'[v].pos
  <2>1. \A u, v \in Holders : u # v /\ u # t /\ v # t /\ th'[u].pc = "has"
          /\ th'[v].pc = "has" /\ th'[u].pool = th'[v].pool => th'[u].pos # th'[v].pos
    BY <1>11 DEF StackInv, At
  <2> QED BY <1>3, <1>12, <2>1
<1> QED BY <1>10, <1>13, <1>14 DEF StackInv, At

\* wd_block_free: the block goes back on top.
LEMMA PushStack ==
  ASSUME TypeInv, OwnInv, StackInv, NEW t \in Holders, FreePush(t)
  PROVE  StackInv'
<1>1. th[t].pc = "has"
  BY DEF FreePush, At
<1>2. PICK p \in Pools : p = th[t].pool
  BY <1>1 DEF OwnInv, OwnOf, Using
<1>3. th[t].pos \in Blocks /\ th[t].pos \notin Elems(p)
  BY <1>1, <1>2 DEF StackInv, At
<1> DEFINE s == bp[p].stack
           n == Len(s)
           y == bp'[p].stack
           x == th[t].pos
<1>4. /\ Others(t) /\ OtherPools(p) /\ s \in Seq(Blocks) /\ y = Append(s, x)
      /\ th'[t].pc = "sub" /\ th'[t].pool = p
  BY <1>2, <1>3, PushEff
<1>5. n \in Nat /\ DOMAIN s = 1 .. n
  BY <1>4, LenProperties
<1>6. /\ DOMAIN y = 1 .. (n + 1) /\ y[n + 1] = x
      /\ \A i \in 1 .. n : y[i] = s[i]
  <2>1. x \in Blocks
    BY <1>3
  <2> HIDE DEF x, s, y
  <2>2. y \in Seq(Blocks) /\ Len(y) = n + 1 /\ \A i \in 1 .. n : y[i] = s[i]
    BY <1>4, <2>1, AppendProperties
  <2>3. y[n + 1] = x
    BY <1>4, <2>1, AppendProperties
  <2> QED BY <2>2, <2>3, LenProperties
<1>7. \A i, j \in DOMAIN s : s[i] = s[j] => i = j
  BY DEF StackInv
<1>8. Elems(p) = {s[i] : i \in DOMAIN s}
  BY DEF Elems
<1>9. Elems(p)' = {y[i] : i \in DOMAIN y}
  BY DEF Elems
<1>10. x \notin Elems(p)
  BY <1>3
<1>11. 1 .. (n + 1) = (1 .. n) \cup {n + 1} /\ n + 1 \notin 1 .. n
  <2> HIDE DEF n
  <2> QED BY <1>5
<1> HIDE DEF s, n, y, x
<1>12. Elems(p)' = Elems(p) \cup {x}
  BY <1>5, <1>6, <1>8, <1>9, <1>11
<1>13. \A i, j \in DOMAIN y : y[i] = y[j] => i = j
  BY <1>5, <1>6, <1>7, <1>8, <1>10, <1>11
<1>14. \A q \in Pools : q # p => bp'[q] = bp[q] /\ Elems(q)' = Elems(q)
  BY <1>4 DEF OtherPools, Elems
<1>15. \A q \in Pools : \A i, j \in DOMAIN bp'[q].stack :
         bp'[q].stack[i] = bp'[q].stack[j] => i = j
  BY <1>13, <1>14 DEF StackInv, y
<1>16. \A u \in Holders : th'[u].pc = "has" => u # t /\ th'[u] = th[u]
  BY <1>4 DEF Others
<1>17. ASSUME NEW u \in Holders, th'[u].pc = "has"
       PROVE  th'[u].pos \in Blocks /\ th'[u].pos \notin Elems(th[u].pool)'
  <2>1. /\ th'[u] = th[u] /\ th[u].pos \in Blocks /\ th[u].pos \notin Elems(th[u].pool)
        /\ u # t
    BY <1>16, <1>17 DEF StackInv, At
  <2>2. PICK q \in Pools : q = th[u].pool
    BY <1>17, <2>1 DEF OwnInv, OwnOf, Using
  <2>3. q = p => th[u].pos # x
    BY <1>1, <1>2, <1>17, <2>1, <2>2 DEF StackInv, At, x
  <2>4. th[u].pos \notin Elems(q)'
    BY <1>12, <1>14, <2>1, <2>2, <2>3
  <2> QED BY <2>1, <2>2, <2>4 DEF Elems
<1>18. \A u, v \in Holders : u # v /\ th'[u].pc = "has" /\ th'[v].pc = "has"
                             /\ th'[u].pool = th'[v].pool => th'[u].pos # th'[v].pos
  BY <1>16 DEF StackInv, At
<1> QED BY <1>15, <1>17, <1>18 DEF StackInv, At

\* init_blkpool_elem: the blocks are all different and nobody has one.
LEMMA ElemStack ==
  ASSUME TypeInv, OwnInv, Books, StackInv, NEW t \in Holders, CreateElem(t)
  PROVE  StackInv' /\ Filled(th[t].pool) \in Seq(Blocks)
<1>1. th[t].pc = "elem"
  BY DEF CreateElem, At
<1>2. PICK p \in Pools : p = th[t].pool /\ bp[p].state = "making"
  BY <1>1 DEF OwnInv, OwnOf, Making
<1>3. ZoneOf(p) /\ bp[p].depth <= Len(bp[p].zones) * Split(p)
  BY <1>1, <1>2 DEF Books, ZoneInv, LoopInv, LoopOf
<1>4. /\ Filled(p) \in Seq(Blocks) /\ DOMAIN Filled(p) = 1 .. bp[p].depth
      /\ \A i, j \in 1 .. bp[p].depth : Filled(p)[i] = Filled(p)[j] => i = j
  BY <1>2, <1>3, FilledBlocks
<1>5. /\ Others(t) /\ OtherPools(p) /\ bp'[p].stack = Filled(p) /\ th'[t].pc = "idle"
  BY <1>2, <1>4, ElemEff
<1>6. \A q \in Pools : q # p => bp'[q] = bp[q] /\ Elems(q)' = Elems(q)
  BY <1>5 DEF OtherPools, Elems
<1>7. \A q \in Pools : \A i, j \in DOMAIN bp'[q].stack :
        bp'[q].stack[i] = bp'[q].stack[j] => i = j
  BY <1>4, <1>5, <1>6 DEF StackInv
<1>8. \A u \in Holders : th'[u].pc = "has" => u # t /\ th'[u] = th[u]
  BY <1>5 DEF Others
<1>9. ASSUME NEW u \in Holders, th'[u].pc = "has"
      PROVE  th'[u].pos \in Blocks /\ th'[u].pos \notin Elems(th[u].pool)'
  <2>1. th'[u] = th[u] /\ th[u].pos \in Blocks /\ th[u].pos \notin Elems(th[u].pool)
    BY <1>8, <1>9 DEF StackInv, At
  <2>2. PICK q \in Pools : q = th[u].pool /\ Usable(q)
    BY <1>9, <2>1 DEF OwnInv, OwnOf, Using
  <2>3. q # p
    BY <1>2, <2>2 DEF Usable
  <2>4. th[u].pos \notin Elems(q)'
    BY <1>6, <2>1, <2>2, <2>3
  <2> QED BY <2>1, <2>2, <2>4 DEF Elems
<1> QED BY <1>2, <1>4, <1>7, <1>8, <1>9 DEF StackInv, At

-----------------------------------------------------------------------------
\* The invariant

IInv == TypeInv /\ Life /\ Books /\ StackInv

\* init_mempool establishes the invariant.
LEMMA Start == MInit => IInv
<1> SUFFICES ASSUME MInit PROVE IInv
  OBVIOUS
<1>1. /\ mp = [state |-> "live", ref |-> 1, free |-> Bits, real |-> RealBlocks * Unit,
               created |-> 0]
      /\ taken \subseteq HeapBits /\ bp = [p \in Pools |-> NoPool]
      /\ th = [t \in Holders |-> MIdle]
  BY DEF MInit
<1>2. /\ \A p \in Pools : /\ bp[p].state = "none" /\ bp[p].zones = << >>
                          /\ bp[p].stack = << >> /\ bp[p] \in PoolType
      /\ \A t \in Holders : th[t].pc = "idle" /\ th[t] \in ThreadType
  BY <1>1, IdleTyped
<1>3. /\ mp.state = "live" /\ mp.ref = 1 /\ mp.free = Bits /\ mp.real = RealBlocks * Unit
      /\ mp \in MpType
  BY <1>1, MemAssumption DEF MpType
<1>4. MapBits \in Nat /\ HeapBits = MapBits .. (MapBits + Longest - 1) /\ Longest \in Nat
  BY Sizing
<1>5. TypeInv
  BY <1>1, <1>2, <1>3, <1>4 DEF TypeInv
<1>6. \A p \in Pools : ZoneBits(p) = {}
  BY <1>2, <1>5, BitsAfter
<1>7. DOMAIN << >> = {}
  OBVIOUS
<1>8. Life
  <2>1. OwnInv /\ AloneInv
    BY <1>2 DEF OwnInv, OwnOf, AloneInv, Making, Using
  <2>2. RefInv
    BY <1>2 DEF RefInv, Usable
  <2>3. There = {} /\ Leaving = {}
    BY <1>2 DEF There, Leaving
  <2>4. MpInv
    BY <1>3, <2>3, FS_EmptySet DEF MpInv
  <2> QED BY <2>1, <2>2, <2>4 DEF Life
<1>9. ZoneInv /\ ApartInv /\ LoopInv
  <2>1. ZoneInv
    BY <1>2, <1>6, <1>7 DEF ZoneInv, ZoneOf
  <2>2. ApartInv
    BY <1>6 DEF ApartInv
  <2>3. LoopInv
    BY <1>2 DEF LoopInv, LoopOf
  <2> QED BY <2>1, <2>2, <2>3
<1>10. CountInv
  <2>1. taken \cap InMap = {} /\ AllZones \cap HeapBits = {}
    <3>1. HeapBits \cap InMap = {}
      BY <1>4 DEF InMap
    <3>2. AllZones = {}
      BY <1>6 DEF AllZones
    <3> QED BY <1>1, <3>1, <3>2
  <2>2. Used = 0
    BY <2>1, UsedIs, FS_EmptySet
  <2> QED BY <1>3, <2>2, MemAssumption DEF CountInv
<1>11. StackInv
  BY <1>2, <1>7 DEF StackInv, At
<1> QED BY <1>5, <1>8, <1>9, <1>10, <1>11 DEF IInv, Books

\* The steps of a creation that keep the pool's life as it is.
LEMMA MakeStep ==
  ASSUME IInv, NEW t \in Holders,
         \/ CreateLock(t) \/ CreateUnlock(t) \/ CreateZone(t)
         \/ CreateFail(t) \/ CreateElemFail(t)
  PROVE  IInv'
<1> USE DEF IInv
<1>1. th[t].pc \in {"lock", "zone", "elem"}
  BY DEF CreateLock, CreateUnlock, CreateZone, CreateFail, CreateElemFail, At
<1>2. OwnInv /\ AloneInv
  BY DEF Life
<1>3. PICK p \in Pools : p = th[t].pool /\ bp[p].state = "making"
  BY <1>1, <1>2, MakesAlone DEF Making
<1>4. ZoneOf(p) /\ LoopOf(t)
  BY DEF Books, ZoneInv, LoopInv
<1>5. /\ TypeInv' /\ Others(t) /\ OtherPools(p) /\ SameLife(p) /\ SameMp
      /\ bp'[p].stack = bp[p].stack /\ th'[t].pool = p
      /\ th'[t].pc \in {"zone", "undo", "elem"}
  <2>1. CASE CreateLock(t) \/ CreateUnlock(t)
    <3>1. /\ TypeInv' /\ Others(t) /\ bp' = bp /\ mp' = mp /\ th'[t].pool = th[t].pool
          /\ th'[t].pc \in {"zone", "undo", "elem"}
      BY <2>1, LockEff
    <3> QED BY <1>3, <3>1 DEF OtherPools, SameLife, SameMp
  <2>2. CASE CreateZone(t)
    <3>1. th[t].pc = "zone"
      BY <2>2 DEF CreateZone, At
    <3>2. th[t].pos \in Nat /\ bp[p].size \in Sizes
      BY <1>3, <1>4, <3>1 DEF LoopOf, ZoneOf
    <3>3. PICK n : n = Combined(p)
      OBVIOUS
    <3>4. Zoned(t, p, n)
      BY <1>3, <2>2, <3>2, <3>3, ZoneEff
    <3> QED BY <3>4 DEF Zoned
  <2>3. CASE CreateFail(t) \/ CreateElemFail(t)
    BY <1>3, <1>4, <2>3, BackEff
  <2> QED BY <2>1, <2>2, <2>3
<1>6. \A q \in Pools : SameLife(q)
  BY <1>5 DEF OtherPools, SameLife
<1>7. Life'
  BY <1>1, <1>3, <1>5, <1>6, QuietLife DEF Making
<1>8. Books'
  BY <1>2, LockBooks, ZoneBooks, BackBooks
<1>9. StackInv'
  BY <1>2, <1>5, QuietStack
<1> QED BY <1>5, <1>7, <1>8, <1>9

\* The end of a creation.
LEMMA MadeStep ==
  ASSUME IInv, NEW t \in Holders, CreateElem(t) \/ CreateUndo(t)
  PROVE  IInv'
<1> USE DEF IInv
<1>1. OwnInv /\ AloneInv
  BY DEF Life
<1>2. th[t].pc \in {"elem", "undo"}
  BY DEF CreateElem, CreateUndo, At
<1>3. PICK p \in Pools : p = th[t].pool
  BY <1>1, <1>2, MakesAlone DEF Making
<1>4. CreateElem(t) => StackInv' /\ Filled(th[t].pool) \in Seq(Blocks)
  BY <1>1, ElemStack
<1>5. Life' /\ Books'
  BY <1>1, <1>4, CreateEndLife, CreateEndBooks
<1>6. CASE CreateElem(t)
  <2>1. Filled(p) \in Seq(Blocks)
    BY <1>3, <1>4, <1>6
  <2>2. TypeInv'
    BY <1>3, <1>6, <2>1, ElemEff
  <2> QED BY <1>4, <1>5, <1>6, <2>2
<1>7. CASE CreateUndo(t)
  <2>1. /\ TypeInv' /\ Others(t) /\ OtherPools(p) /\ bp'[p].stack = << >>
        /\ th'[t].pc = "idle"
    BY <1>3, <1>7, UndoEff
  <2>2. StackInv'
    BY <1>1, <2>1, QuietStack
  <2> QED BY <1>5, <2>1, <2>2
<1> QED BY <1>6, <1>7

\* wd_blockpool_create begins or is refused.
LEMMA CreateRefStep ==
  ASSUME IInv, NEW t \in Holders, NEW p \in Pools, NEW s \in Sizes, NEW k \in Nums,
         CreateRef(t, p, s, k)
  PROVE  IInv' \/ UNCHANGED memVars
<1> USE DEF IInv
<1>1. CASE mp.ref = 0
  BY <1>1 DEF CreateRef, memVars
<1>2. CASE mp.ref # 0
  <2>1. OwnInv
    BY DEF Life
  <2>2. /\ TypeInv' /\ Others(t) /\ OtherPools(p) /\ bp'[p].stack = << >>
        /\ th'[t].pc = "lock"
    BY <1>2, CreateRefEff
  <2>3. StackInv'
    BY <2>1, <2>2, QuietStack
  <2>4. Life' /\ Books'
    BY <1>2, <2>1, CreateRefLife, CreateRefBooks
  <2> QED BY <2>2, <2>3, <2>4
<1> QED BY <1>1, <1>2

\* The references of an allocation and a release.
LEMMA RefStep ==
  ASSUME IInv, NEW t \in Holders, NEW p \in Pools,
         AllocRef(t, p) \/ ((AllocEmpty(t) \/ FreeSub(t)) /\ p = th[t].pool)
  PROVE  IInv'
<1> USE DEF IInv
<1>1. OwnInv
  BY DEF Life
<1>2. /\ TypeInv' /\ Others(t) /\ OtherPools(p) /\ SameBooks /\ SameZones(p)
      /\ bp'[p].stack = bp[p].stack /\ bp'[p].state = bp[p].state
      /\ th'[t].pc \in {"idle", "pop"} /\ Usable(p)
  <2>1. CASE AllocRef(t, p)
    BY <2>1, AllocRefEff
  <2>2. CASE (AllocEmpty(t) \/ FreeSub(t)) /\ p = th[t].pool
    <3>1. /\ TypeInv' /\ Others(t) /\ OtherPools(p) /\ SameBooks /\ SameZones(p)
          /\ bp'[p].stack = bp[p].stack /\ bp'[p].state = bp[p].state
          /\ th'[t].pc = "idle" /\ th[t].pc \in {"pop", "sub"}
      BY <2>2, DropRefEff
    <3>2. Usable(p)
      BY <1>1, <2>2, <3>1 DEF OwnInv, OwnOf, Using
    <3> QED BY <3>1, <3>2
  <2> QED BY <2>1, <2>2
<1>3. bp[p].state # "none"
  BY <1>2 DEF Usable
<1>4. Books'
  BY <1>1, <1>2, <1>3, UseBooks DEF Making
<1>5. StackInv'
  BY <1>1, <1>2, QuietStack
<1>6. Life'
  BY RefLife
<1> QED BY <1>2, <1>4, <1>5, <1>6

\* A block leaves the stack or comes back.
LEMMA BlockStep ==
  ASSUME IInv, NEW t \in Holders, AllocPop(t) \/ FreePush(t)
  PROVE  IInv'
<1> USE DEF IInv
<1>1. OwnInv
  BY DEF Life
<1>2. th[t].pc \in {"pop", "has"} /\ (FreePush(t) => th[t].pc = "has")
  BY DEF AllocPop, FreePush, At
<1>3. PICK p \in Pools : p = th[t].pool /\ Usable(p)
  BY <1>1, <1>2 DEF OwnInv, OwnOf, Using
<1>4. /\ TypeInv' /\ Others(t) /\ OtherPools(p) /\ SameBooks /\ SameMp /\ SameZones(p)
      /\ SameLife(p) /\ th'[t].pc \in {"has", "sub"} /\ th'[t].pool = p
  <2>1. CASE AllocPop(t)
    <3>1. PICK n : n = Len(bp[p].stack)
      OBVIOUS
    <3>2. Popped(t, p, n)
      BY <1>3, <2>1, <3>1, PopEff
    <3> QED BY <3>2 DEF Popped
  <2>2. CASE FreePush(t)
    <3>1. th[t].pos \in Blocks
      BY <1>2, <2>2 DEF StackInv, At
    <3> QED BY <1>3, <2>2, <3>1, PushEff
  <2> QED BY <2>1, <2>2
<1>5. \A q \in Pools : SameLife(q)
  BY <1>4 DEF OtherPools, SameLife
<1>6. Life'
  BY <1>2, <1>3, <1>4, <1>5, QuietLife DEF Using
<1>7. bp[p].state # "none" /\ bp'[p].state # "none"
  BY <1>3, <1>4 DEF Usable, SameLife
<1>8. Books'
  BY <1>1, <1>4, <1>7, UseBooks DEF Making
<1>9. StackInv'
  BY <1>1, PopStack, PushStack
<1> QED BY <1>4, <1>6, <1>8, <1>9

\* wd_blockpool_destroy begins to wait.
LEMMA DestroySubStep ==
  ASSUME IInv, NEW t \in Holders, NEW p \in Pools, DestroySub(t, p)
  PROVE  IInv'
<1> USE DEF IInv
<1>1. OwnInv
  BY DEF Life
<1>2. /\ TypeInv' /\ Others(t) /\ OtherPools(p) /\ SameBooks /\ SameZones(p)
      /\ bp'[p].stack = bp[p].stack /\ bp[p].state = "live"
      /\ bp'[p].state = "closing" /\ th'[t].pc = "drain"
  BY DestroySubEff
<1>3. Books'
  BY <1>1, <1>2, UseBooks DEF Making
<1>4. StackInv'
  BY <1>1, <1>2, QuietStack
<1>5. Life'
  BY DestroySubLife
<1> QED BY <1>2, <1>3, <1>4, <1>5

\* The pool that nobody uses goes.
LEMMA DestroyEndStep ==
  ASSUME IInv, NEW t \in Holders, DestroyEnd(t)
  PROVE  IInv'
<1> USE DEF IInv
<1>1. OwnInv /\ AloneInv
  BY DEF Life
<1>2. th[t].pc = "drain"
  BY DEF DestroyEnd, At
<1>3. PICK p \in Pools : p = th[t].pool
  BY <1>1, <1>2 DEF OwnInv, OwnOf
<1>4. ZoneOf(p)
  BY DEF Books, ZoneInv
<1>5. /\ TypeInv' /\ Others(t) /\ OtherPools(p) /\ bp'[p].stack = << >>
      /\ th'[t].pc = "unref"
  BY <1>3, <1>4, DestroyEndEff
<1>6. Books'
  BY <1>1, BackBooks
<1>7. StackInv'
  BY <1>1, <1>5, QuietStack
<1>8. Life'
  BY <1>3, <1>4, DestroyEndLife
<1> QED BY <1>5, <1>6, <1>7, <1>8

\* wd_mempool_destroy, and a destroyer's last reference.
LEMMA MpStep ==
  ASSUME IInv, NEW t \in Holders, DestroyUnref(t) \/ MpSub(t) \/ MpEnd(t)
  PROVE  IInv'
<1> USE DEF IInv
<1>1. OwnInv
  BY DEF Life
<1>2. TypeInv' /\ Others(t) /\ bp' = bp /\ th'[t].pc \in {"idle", "mpdrain"}
  BY MpEff
<1>3. OtherPools(NoOne) /\ NoOne \notin Pools
  BY <1>2, MemAssumption DEF OtherPools
<1>4. StackInv'
  BY <1>1, <1>2, <1>3, QuietStack
<1>5. Books' /\ Life'
  BY <1>1, MpBooks, MpLife
<1> QED BY <1>2, <1>4, <1>5

\* Nothing changes.
LEMMA Stutter == IInv /\ UNCHANGED memVars => IInv'
<1> SUFFICES ASSUME IInv, UNCHANGED memVars PROVE IInv'
  OBVIOUS
<1>1. mp' = mp /\ taken' = taken /\ lock' = lock /\ bp' = bp /\ th' = th
  BY DEF memVars
<1>2. TypeInv'
  BY <1>1 DEF IInv, TypeInv
<1>3. Life'
  BY <1>1 DEF IInv, Life, OwnInv, OwnOf, Usable, AloneInv, RefInv, UsersOf,
     MpInv, There, Leaving
<1>4. Books'
  <2>1. \A p : ZoneBits(p)' = ZoneBits(p) /\ Split(p)' = Split(p)
    BY <1>1 DEF ZoneBits, Split
  <2>2. ZoneInv' /\ ApartInv'
    BY SMTT(30), <1>1, <2>1 DEF IInv, Books, ZoneInv, ZoneOf, ApartInv
  <2>3. LoopInv'
    BY SMTT(30), <1>1, <2>1 DEF IInv, Books, LoopInv, LoopOf
  <2>4. AllZones' = AllZones
    BY <2>1 DEF AllZones
  <2>5. Used' = Used
    BY <1>1, <2>4, UsedIs
  <2>6. CountInv'
    BY <1>1, <2>5 DEF IInv, Books, CountInv
  <2> QED BY <2>2, <2>3, <2>6 DEF Books
<1>5. StackInv'
  BY <1>1 DEF IInv, StackInv, At, Elems
<1> QED BY <1>2, <1>3, <1>4, <1>5 DEF IInv

\* Every step keeps the invariant.
LEMMA Step == IInv /\ [MNext]_memVars => IInv'
<1> SUFFICES ASSUME IInv, [MNext]_memVars PROVE IInv'
  OBVIOUS
<1>1. CASE UNCHANGED memVars
  BY <1>1, Stutter
<1>2. ASSUME NEW t \in Holders, Calls(t) PROVE IInv'
  <2>1. ASSUME NEW p \in Pools, NEW s \in Sizes, NEW k \in Nums, CreateRef(t, p, s, k)
        PROVE  IInv'
    BY <2>1, CreateRefStep, Stutter
  <2>2. ASSUME NEW p \in Pools, AllocRef(t, p) \/ DestroySub(t, p) PROVE IInv'
    BY <2>2, RefStep, DestroySubStep
  <2>3. CASE MpSub(t)
    BY <2>3, MpStep
  <2> QED BY <1>2, <2>1, <2>2, <2>3 DEF Calls
<1>3. ASSUME NEW t \in Holders, Steps(t) PROVE IInv'
  <2>1. CASE \/ CreateLock(t) \/ CreateUnlock(t) \/ CreateZone(t)
             \/ CreateFail(t) \/ CreateElemFail(t)
    BY <2>1, MakeStep
  <2>2. CASE CreateElem(t) \/ CreateUndo(t)
    BY <2>2, MadeStep
  <2>3. CASE AllocPop(t) \/ FreePush(t)
    BY <2>3, BlockStep
  <2>4. CASE AllocEmpty(t) \/ FreeSub(t)
    <3>1. th[t].pc \in {"pop", "sub"}
      BY <2>4 DEF AllocEmpty, FreeSub, At
    <3>2. PICK p \in Pools : p = th[t].pool
      BY <3>1 DEF IInv, Life, OwnInv, OwnOf, Using
    <3> QED BY <2>4, <3>2, RefStep
  <2>5. CASE DestroyEnd(t)
    BY <2>5, DestroyEndStep
  <2>6. CASE DestroyUnref(t) \/ MpEnd(t)
    BY <2>6, MpStep
  <2> QED BY <1>3, <2>1, <2>2, <2>3, <2>4, <2>5, <2>6 DEF Steps
<1> QED BY <1>1, <1>2, <1>3 DEF MNext

-----------------------------------------------------------------------------
\* A block handed out stays its holder's alone, and the pool and its memory are
\* there until every holder is done: wd_blockpool_destroy and wd_mempool_destroy
\* wait for exactly the references that are counted (wd_block_alloc,
\* wd_block_free), for any number of threads and pools.
THEOREM BlocksKept == MSpec => []BlockKept
<1>1. IInv => BlockKept
  <2> SUFFICES ASSUME IInv PROVE BlockKept
    OBVIOUS
  <2>1. \A t \in Holders : th[t].pc \in {"pop", "has", "sub"} => Usable(th[t].pool)
    BY DEF IInv, Life, OwnInv, OwnOf, Using
  <2>2. \A p \in Pools : Usable(p) => mp.state # "freed"
    BY DEF IInv, Life, MpInv, There, Usable
  <2>3. /\ \A t, u \in Holders : (t # u /\ At(t, "has") /\ At(u, "has")
                                  /\ th[t].pool = th[u].pool) => th[t].pos # th[u].pos
        /\ \A t \in Holders : At(t, "has") =>
             th[t].pos \notin {bp[th[t].pool].stack[i] : i \in DOMAIN bp[th[t].pool].stack}
    BY DEF IInv, StackInv, Elems
  <2> QED BY <2>1, <2>2, <2>3 DEF BlockKept
<1> QED BY <1>1, Start, Step, PTL DEF MSpec

\* No memory block is in two memzones, every bit of one is set, and the counters
\* are those of the bitmap, whatever creations failed half way
\* (alloc_block_from_mempool, free_mem_to_mempool_nolock), for any sizes.
THEOREM BooksExact == MSpec => []ZonesExact
<1>1. IInv => ZonesExact
  <2> SUFFICES ASSUME IInv PROVE ZonesExact
    OBVIOUS
  <2>1. ZonesApart
    BY DEF IInv, Books, ZoneInv, ZoneOf, ApartInv, ZonesApart
  <2>2. CountersExact
    BY DEF IInv, Books, CountInv, CountersExact
  <2> QED BY <2>1, <2>2 DEF ZonesExact
<1> QED BY <1>1, Start, Step, PTL DEF MSpec

-----------------------------------------------------------------------------
\* The block manager.

\* A block that spans three slices may have ends that agree and a middle that does
\* not: blocks are no longer than a slice and a byte.
SlicesFit == \A l \in Layouts : \A i \in DOMAIN l : BlkSize <= l[i].size + 1

SliceType == [pa : Nat, size : Nat \ {0}]
RegionType == [pa : Nat, va : Nat, size : Nat \ {0}]
BlkPoolType == [state : {"none", "live"}, kind : {"wd", "user"}, regions : Seq(RegionType),
                total : Nat, free : Nat, wanted : Nat]
UserType == [pc : {"idle", "find", "has", "clear"}, start : Nat, n : Nat]

\* Regions follow each other virtually and never physically.
Chained(r) ==
  /\ r \in Seq(RegionType)
  /\ Len(r) > 0 => r[1].va = 0
  /\ \A j \in 1 .. Len(r) : \A k \in 1 .. Len(r) :
        k = j + 1 => r[k].va = r[j].va + r[j].size /\ r[j].pa + r[j].size # r[k].pa
EndOf(r) == IF Len(r) = 0 THEN 0 ELSE r[Len(r)].va + r[Len(r)].size
AllLong(r) == \A j \in 1 .. Len(r) : BlkSize <= r[j].size + 1

BlockTypes ==
  /\ pool \in BlkPoolType /\ pool.total < Width
  /\ (pool.state = "none" \/ pool.kind = "user") <=> pool.total = 0
  /\ used \subseteq 0 .. (pool.total - 1) /\ DOMAIN num = 0 .. (pool.total - 1)
  /\ user \in [Users -> UserType]

Holds(u) == user[u].pc \in {"has", "clear"}
BlockRuns ==
  /\ \A u \in Users : user[u].pc # "idle" => user[u].n >= 1 /\ pool.state = "live"
  /\ \A u \in Users : Holds(u) => RunOf(u) \subseteq used /\ num[user[u].start] = user[u].n
  /\ \A u, v \in Users : u # v => RunOf(u) \cap RunOf(v) = {}

BlockFree == pool.total > 0 => pool.free = pool.total - Cardinality(used)

BlockGeometry == pool.total > 0 => /\ Chained(pool.regions)
                                   /\ pool.total * Stride <= EndOf(pool.regions)
                                   /\ SlicesFit => AllLong(pool.regions)

\* A block that is free or handed out is not one that was set aside.
BlockGood == \A i \in 0 .. (pool.total - 1) :
               i \notin used \/ (\E u \in Users : i \in RunOf(u)) => Contiguous(pool.regions, i)

BlockInv == BlockTypes /\ BlockRuns /\ BlockFree /\ BlockGeometry /\ BlockGood

LEMMA BlockConstants ==
  /\ BlkSize \in Nat \ {0} /\ Stride \in Nat \ {0} /\ Width \in Nat \ {0}
  /\ BlkSize <= Stride /\ Wanted \in Nat /\ MaxRun \in Nat
BY BlockAssumption

LEMMA RegionFields ==
  ASSUME NEW f \in RegionType
  PROVE  f.pa \in Nat /\ f.va \in Nat /\ f.size \in Nat \ {0}
BY DEF RegionType

\* A slice that follows the last region physically only makes it longer.
LEMMA Longer ==
  ASSUME NEW f \in RegionType, NEW n \in Nat
  PROVE  /\ [f EXCEPT !.size = f.size + n] \in RegionType
         /\ [f EXCEPT !.size = f.size + n].pa = f.pa
         /\ [f EXCEPT !.size = f.size + n].va = f.va
         /\ [f EXCEPT !.size = f.size + n].size = f.size + n
BY DEF RegionType

\* What wd_add_slice does to the regions.
LEMMA AddSliceChained ==
  ASSUME NEW r, Chained(r), NEW s \in SliceType
  PROVE  /\ Chained(AddSlice(r, s))
         /\ EndOf(AddSlice(r, s)) = EndOf(r) + s.size
         /\ AllLong(r) /\ BlkSize <= s.size + 1 => AllLong(AddSlice(r, s))
<1> DEFINE l == Len(r)
<1>0. /\ r \in Seq(RegionType) /\ DOMAIN r = 1 .. l /\ l \in Nat
      /\ \A j \in 1 .. l : r[j] \in RegionType
  BY LenProperties, ElementOfSeq DEF Chained
<1>1. \A j \in 1 .. l : r[j].pa \in Nat /\ r[j].va \in Nat /\ r[j].size \in Nat \ {0}
  BY <1>0, RegionFields
<1>s. s.pa \in Nat /\ s.size \in Nat \ {0}
  BY DEF SliceType
<1>b. BlkSize \in Nat
  BY BlockConstants
<1>c. \A j \in 1 .. l : \A k \in 1 .. l :
        k = j + 1 => r[k].va = r[j].va + r[j].size /\ r[j].pa + r[j].size # r[k].pa
  BY DEF Chained
<1>2. CASE l > 0 /\ r[l].pa + r[l].size = s.pa
  <2>1. PICK f \in RegionType : f = r[l]
    BY <1>2, <1>0
  <2>2. PICK n \in Nat : n = s.size
    BY <1>s
  <2>3. PICK g \in RegionType : /\ g = [f EXCEPT !.size = f.size + n]
                                /\ g.pa = f.pa /\ g.va = f.va /\ g.size = f.size + n
    BY Longer
  <2>4. AddSlice(r, s) = [r EXCEPT ![l] = g]
    BY <1>2, <2>1, <2>2, <2>3 DEF AddSlice
  <2> DEFINE q == [r EXCEPT ![l] = g]
  <2>5. l \in 1 .. Len(r)
    BY <1>0, <1>2
  <2>6. /\ q \in Seq(RegionType) /\ Len(q) = l
        /\ \A j \in 1 .. l : q[j] = IF j = l THEN g ELSE r[j]
    BY <2>5, <1>0, ExceptSeq
  <2> HIDE DEF q
  <2>7. l > 0 => q[1].va = 0
    <3>1. r[1].va = 0 /\ 1 \in 1 .. l
      BY <1>2, <1>0 DEF Chained
    <3> QED
      BY <3>1, <2>6, <2>1, <2>3
  <2>8. ASSUME NEW j \in 1 .. l, NEW k \in 1 .. l, k = j + 1
        PROVE  q[k].va = q[j].va + q[j].size /\ q[j].pa + q[j].size # q[k].pa
    <3>1. j # l
      <4>1. l \in Nat
        BY <1>0
      <4> HIDE DEF l
      <4> QED
        BY <4>1, <2>8
    <3>2. q[j] = r[j] /\ q[k].va = r[k].va /\ q[k].pa = r[k].pa
      BY <3>1, <2>6, <2>1, <2>3
    <3> QED
      BY <3>2, <1>c, <2>8
  <2>9. Chained(q)
    BY <2>6, <2>7, <2>8 DEF Chained
  <2>10. EndOf(q) = EndOf(r) + s.size
    <3>1. EndOf(q) = q[l].va + q[l].size /\ EndOf(r) = r[l].va + r[l].size
      BY <2>6, <1>2 DEF EndOf
    <3>2. q[l] = g
      BY <2>5, <2>6
    <3>3. f.va \in Nat /\ f.size \in Nat /\ g.va = f.va /\ g.size = f.size + n
      BY <2>3, RegionFields
    <3> QED
      BY <3>1, <3>2, <3>3, <2>1, <2>2
  <2>11. ASSUME AllLong(r) PROVE AllLong(q)
    <3> SUFFICES ASSUME NEW j \in 1 .. l PROVE BlkSize <= q[j].size + 1
      BY <2>6 DEF AllLong
    <3>1. CASE j = l
      <4>1. f.size \in Nat /\ BlkSize <= f.size + 1
        BY <2>1, <2>5, <2>11, RegionFields DEF AllLong
      <4>2. q[j].size = f.size + n
        BY <3>1, <2>3, <2>6
      <4> QED
        BY <4>1, <4>2, <1>b
    <3>2. CASE j # l
      BY <3>2, <2>6, <2>11 DEF AllLong
    <3> QED
      BY <3>1, <3>2
  <2> QED
    BY <2>4, <2>9, <2>10, <2>11 DEF q
<1>3. CASE ~(l > 0 /\ r[l].pa + r[l].size = s.pa)
  <2> DEFINE va == IF l = 0 THEN 0 ELSE r[l].va + r[l].size
             g == [pa |-> s.pa, va |-> va, size |-> s.size]
             q == Append(r, g)
  <2>1. AddSlice(r, s) = q
    BY <1>3 DEF AddSlice
  <2>2. va \in Nat /\ va = EndOf(r)
    <3>1. CASE l = 0
      BY <3>1 DEF EndOf
    <3>2. CASE l # 0
      <4>1. l \in 1 .. l
        BY <3>2, <1>0
      <4>2. r[l].va \in Nat /\ r[l].size \in Nat
        BY <4>1, <1>1
      <4> QED
        BY <3>2, <4>2 DEF EndOf
    <3> QED
      BY <3>1, <3>2
  <2>3. l > 0 => va = r[l].va + r[l].size
    BY <1>0
  <2>4. l = 0 => va = 0
    OBVIOUS
  <2> HIDE DEF va
  <2>5. /\ g \in RegionType /\ g.va = va /\ g.pa = s.pa /\ g.size = s.size
    BY <2>2, <1>s DEF RegionType
  <2> HIDE DEF g
  <2>6. /\ q \in Seq(RegionType) /\ Len(q) = l + 1 /\ q[l + 1] = g
        /\ \A j \in 1 .. l : q[j] = r[j]
    BY <1>0, <2>5, AppendProperties
  <2> HIDE DEF q
  <2>7. q[1].va = 0
    <3>1. CASE l = 0
      BY <3>1, <2>4, <2>5, <2>6
    <3>2. CASE l > 0
      <4>1. 1 \in 1 .. l /\ r[1].va = 0
        BY <3>2, <1>0 DEF Chained
      <4> QED
        BY <4>1, <2>6
    <3> QED
      BY <3>1, <3>2, <1>0
  <2>8. ASSUME NEW j \in 1 .. Len(q), NEW k \in 1 .. Len(q), k = j + 1
        PROVE  q[k].va = q[j].va + q[j].size /\ q[j].pa + q[j].size # q[k].pa
    <3>1. j \in 1 .. l /\ q[j] = r[j]
      BY <2>6, <2>8, <1>0
    <3>2. CASE k \in 1 .. l
      BY <3>1, <3>2, <2>6, <2>8, <1>c
    <3>3. CASE k = l + 1
      <4>0. j = l /\ l > 0
        <5>1. l \in Nat /\ j \in 1 .. l
          BY <1>0, <3>1
        <5> HIDE DEF l
        <5> QED
          BY <5>1, <3>3, <2>8
      <4>1. j = l /\ l > 0 /\ q[k] = g
        BY <4>0, <3>3, <2>6
      <4>2. r[l].pa + r[l].size # s.pa
        BY <4>1, <1>3
      <4> QED
        BY <3>1, <4>1, <4>2, <2>3, <2>5
    <3> QED
      BY <3>2, <3>3, <2>6, <1>0
  <2>9. Chained(q)
    BY <2>6, <2>7, <2>8 DEF Chained
  <2>10. EndOf(q) = EndOf(r) + s.size
    BY <2>2, <2>5, <2>6, <1>0, <1>s DEF EndOf
  <2>11. ASSUME AllLong(r), BlkSize <= s.size + 1 PROVE AllLong(q)
    <3> SUFFICES ASSUME NEW j \in 1 .. l + 1 PROVE BlkSize <= q[j].size + 1
      BY <2>6 DEF AllLong
    <3>1. CASE j = l + 1
      BY <3>1, <2>5, <2>6, <2>11
    <3>2. CASE j \in 1 .. l
      BY <3>2, <2>6, <2>11 DEF AllLong
    <3> QED
      BY <3>1, <3>2, <1>0
  <2> QED
    BY <2>1, <2>9, <2>10, <2>11
<1> QED
  BY <1>2, <1>3

-----------------------------------------------------------------------------
\* The recursions of Regions and of Size have a value, and their values agree.

LEMMA RegionsBuilt ==
  ASSUME NEW l, Len(l) \in Nat
  PROVE  \E h : /\ h = [i \in 0 .. Len(l) |-> IF i = 0 THEN << >> ELSE AddSlice(h[i - 1], l[i])]
                /\ Regions(l) = h[Len(l)]
<1> DEFINE Built(g, m) ==
             g = [i \in 0 .. m |-> IF i = 0 THEN << >> ELSE AddSlice(g[i - 1], l[i])]
           T == {m \in 0 .. Len(l) : ~\E g : Built(g, m)}
<1>1. SUFFICES T = {}
  <2>1. Len(l) \in 0 .. Len(l)
    OBVIOUS
  <2>2. PICK g : Built(g, Len(l))
    BY <1>1, <2>1
  <2> QED
    BY <2>2 DEF Regions
<1>2. SUFFICES ASSUME T # {} PROVE FALSE
  OBVIOUS
<1>3. PICK m \in T : \A y \in T : m <= y
  <2>1. T \in SUBSET Nat
    OBVIOUS
  <2> HIDE DEF T
  <2> QED
    BY <1>2, <2>1, LeastNat
<1>4. m \in 0 .. Len(l) /\ ~\E g : Built(g, m)
  BY <1>3
<1>5. CASE m = 0
  <2> DEFINE g == [i \in 0 .. 0 |-> << >>]
  <2>1. Built(g, 0)
    OBVIOUS
  <2> QED
    BY <1>4, <1>5, <2>1
<1>6. CASE m # 0
  <2>1. m - 1 \in 0 .. Len(l) /\ m - 1 \notin T /\ m \in Nat
    <3>1. m \in Nat /\ m - 1 \in 0 .. Len(l) /\ ~(m <= m - 1)
      BY <1>4, <1>6
    <3> QED
      BY <3>1, <1>3
  <2>2. PICK g : Built(g, m - 1)
    BY <2>1
  <2> DEFINE h == [i \in 0 .. m |-> IF i = m THEN AddSlice(g[m - 1], l[m]) ELSE g[i]]
  <2>3. \A i \in 0 .. (m - 1) : g[i] = IF i = 0 THEN << >> ELSE AddSlice(g[i - 1], l[i])
    BY <2>2
  <2>4. ASSUME NEW i \in 0 .. m
        PROVE  h[i] = IF i = 0 THEN << >> ELSE AddSlice(h[i - 1], l[i])
    <3>1. CASE i = m
      <4>1. h[m - 1] = g[m - 1] /\ h[m] = AddSlice(g[m - 1], l[m])
        BY <2>1, <1>6
      <4> QED
        BY <4>1, <3>1, <1>6
    <3>2. CASE i # m /\ i # 0
      <4>1. i \in 0 .. (m - 1) /\ i - 1 \in 0 .. m /\ i - 1 # m
        BY <3>2, <2>1
      <4>2. h[i] = g[i] /\ h[i - 1] = g[i - 1]
        BY <4>1, <3>2
      <4> QED
        BY <4>1, <4>2, <2>3, <3>2
    <3>3. CASE i # m /\ i = 0
      <4>1. 0 \in 0 .. (m - 1)
        BY <2>1, <1>6
      <4> QED
        BY <4>1, <2>3, <3>3
    <3> QED
      BY <3>1, <3>2, <3>3
  <2>5. Built(h, m)
    <3>1. h = [i \in 0 .. m |-> h[i]]
      OBVIOUS
    <3> HIDE DEF h
    <3> QED
      BY <3>1, <2>4
  <2> QED
    BY <1>4, <2>5
<1> QED
  BY <1>5, <1>6

LEMMA SizeBuilt ==
  ASSUME NEW l, Len(l) \in Nat
  PROVE  \E h : /\ h = [i \in 0 .. Len(l) |-> IF i = 0 THEN 0 ELSE h[i - 1] + l[i].size]
                /\ Size(l) = h[Len(l)]
<1> DEFINE Built(g, m) == g = [i \in 0 .. m |-> IF i = 0 THEN 0 ELSE g[i - 1] + l[i].size]
           T == {m \in 0 .. Len(l) : ~\E g : Built(g, m)}
<1>1. SUFFICES T = {}
  <2>1. Len(l) \in 0 .. Len(l)
    OBVIOUS
  <2>2. PICK g : Built(g, Len(l))
    BY <1>1, <2>1
  <2> QED
    BY <2>2, Zenon DEF Size
<1>2. SUFFICES ASSUME T # {} PROVE FALSE
  OBVIOUS
<1>3. PICK m \in T : \A y \in T : m <= y
  <2>1. T \in SUBSET Nat
    OBVIOUS
  <2> HIDE DEF T
  <2> QED
    BY <1>2, <2>1, LeastNat
<1>4. m \in 0 .. Len(l) /\ ~\E g : Built(g, m)
  BY <1>3
<1>5. CASE m = 0
  <2> DEFINE g == [i \in 0 .. 0 |-> 0]
  <2>1. Built(g, 0)
    OBVIOUS
  <2> QED
    BY <1>4, <1>5, <2>1
<1>6. CASE m # 0
  <2>1. m - 1 \in 0 .. Len(l) /\ m - 1 \notin T /\ m \in Nat
    <3>1. m \in Nat /\ m - 1 \in 0 .. Len(l) /\ ~(m <= m - 1)
      BY <1>4, <1>6
    <3> QED
      BY <3>1, <1>3
  <2>2. PICK g : Built(g, m - 1)
    BY <2>1
  <2> DEFINE h == [i \in 0 .. m |-> IF i = m THEN g[m - 1] + l[m].size ELSE g[i]]
  <2>3. \A i \in 0 .. (m - 1) : g[i] = IF i = 0 THEN 0 ELSE g[i - 1] + l[i].size
    BY <2>2
  <2>4. ASSUME NEW i \in 0 .. m
        PROVE  h[i] = IF i = 0 THEN 0 ELSE h[i - 1] + l[i].size
    <3>1. CASE i = m
      <4>1. h[m - 1] = g[m - 1] /\ h[m] = g[m - 1] + l[m].size
        BY <2>1, <1>6
      <4> QED
        BY <4>1, <3>1, <1>6
    <3>2. CASE i # m /\ i # 0
      <4>1. i \in 0 .. (m - 1) /\ i - 1 \in 0 .. m /\ i - 1 # m
        BY <3>2, <2>1
      <4>2. h[i] = g[i] /\ h[i - 1] = g[i - 1]
        BY <4>1, <3>2
      <4> QED
        BY <4>1, <4>2, <2>3, <3>2
    <3>3. CASE i # m /\ i = 0
      <4>1. 0 \in 0 .. (m - 1)
        BY <2>1, <1>6
      <4> QED
        BY <4>1, <2>3, <3>3
    <3> QED
      BY <3>1, <3>2, <3>3
  <2>5. Built(h, m)
    <3>1. h = [i \in 0 .. m |-> h[i]]
      OBVIOUS
    <3> HIDE DEF h
    <3> QED
      BY <3>1, <2>4
  <2> QED
    BY <1>4, <2>5
<1> QED
  BY <1>5, <1>6

\* The regions of a layout are chained, and as long as the layout.
LEMMA RegionsChained ==
  ASSUME NEW l \in Seq(SliceType)
  PROVE  /\ Chained(Regions(l)) /\ EndOf(Regions(l)) = Size(l) /\ Size(l) \in Nat
         /\ (\A i \in DOMAIN l : BlkSize <= l[i].size + 1) => AllLong(Regions(l))
<1>0. Len(l) \in Nat /\ DOMAIN l = 1 .. Len(l) /\ \A i \in 1 .. Len(l) : l[i] \in SliceType
  BY LenProperties, ElementOfSeq
<1>1. PICK h : /\ h = [i \in 0 .. Len(l) |-> IF i = 0 THEN << >> ELSE AddSlice(h[i - 1], l[i])]
               /\ Regions(l) = h[Len(l)]
  BY <1>0, RegionsBuilt
<1>2. PICK z : /\ z = [i \in 0 .. Len(l) |-> IF i = 0 THEN 0 ELSE z[i - 1] + l[i].size]
               /\ Size(l) = z[Len(l)]
  BY <1>0, SizeBuilt
<1>3. \A i \in 0 .. Len(l) : h[i] = IF i = 0 THEN << >> ELSE AddSlice(h[i - 1], l[i])
  BY <1>1
<1>4. \A i \in 0 .. Len(l) : z[i] = IF i = 0 THEN 0 ELSE z[i - 1] + l[i].size
  BY <1>2
<1> DEFINE Long == \A i \in 1 .. Len(l) : BlkSize <= l[i].size + 1
           Fine(i) == /\ Chained(h[i]) /\ EndOf(h[i]) = z[i] /\ z[i] \in Nat
                      /\ Long => AllLong(h[i])
           T == {i \in 0 .. Len(l) : ~Fine(i)}
<1>5. SUFFICES T = {}
  <2>1. Fine(Len(l))
    BY <1>5, <1>0
  <2> QED
    BY <2>1, <1>0, <1>1, <1>2
<1>6. SUFFICES ASSUME T # {} PROVE FALSE
  OBVIOUS
<1>7. PICK m \in T : \A y \in T : m <= y
  <2>1. T \in SUBSET Nat
    OBVIOUS
  <2> HIDE DEF T
  <2> QED
    BY <1>6, <2>1, LeastNat
<1>8. m \in 0 .. Len(l) /\ ~Fine(m)
  BY <1>7
<1>9. CASE m = 0
  <2>1. h[0] = << >> /\ z[0] = 0
    BY <1>3, <1>4, <1>0
  <2>2. Len(<< >>) = 0 /\ << >> \in Seq(RegionType)
    OBVIOUS
  <2>3. Chained(<< >>) /\ EndOf(<< >>) = 0 /\ AllLong(<< >>)
    BY <2>2 DEF Chained, EndOf, AllLong
  <2> QED
    BY <1>8, <1>9, <2>1, <2>3
<1>10. CASE m # 0
  <2>1. m - 1 \in 0 .. Len(l) /\ m \in 1 .. Len(l) /\ ~(m <= m - 1)
    BY <1>8, <1>10, <1>0
  <2>2. Fine(m - 1)
    BY <2>1, <1>7
  <2>3. h[m] = AddSlice(h[m - 1], l[m]) /\ z[m] = z[m - 1] + l[m].size
    BY <2>1, <1>3, <1>4, <1>10, <1>8
  <2>4. l[m] \in SliceType /\ l[m].size \in Nat
    BY <2>1, <1>0 DEF SliceType
  <2>5. PICK r : r = h[m - 1]
    OBVIOUS
  <2>6. PICK s \in SliceType : s = l[m]
    BY <2>4
  <2>7. /\ Chained(AddSlice(r, s))
        /\ EndOf(AddSlice(r, s)) = EndOf(r) + s.size
        /\ AllLong(r) /\ BlkSize <= s.size + 1 => AllLong(AddSlice(r, s))
    BY <2>2, <2>5, AddSliceChained
  <2>8. Chained(h[m]) /\ EndOf(h[m]) = z[m] /\ z[m] \in Nat
    BY <2>2, <2>3, <2>4, <2>5, <2>6, <2>7
  <2>9. Long => AllLong(h[m])
    BY <2>1, <2>2, <2>3, <2>5, <2>6, <2>7
  <2> QED
    BY <1>8, <2>8, <2>9
<1> QED
  BY <1>9, <1>10

-----------------------------------------------------------------------------
\* Regions do not overlap.
LEMMA RegionsOrdered ==
  ASSUME NEW r, Chained(r), NEW j \in 1 .. Len(r), NEW k \in 1 .. Len(r), j < k
  PROVE  r[j].va + r[j].size <= r[k].va
<1> DEFINE T == {i \in 1 .. Len(r) : j < i /\ ~(r[j].va + r[j].size <= r[i].va)}
<1>0. Len(r) \in Nat /\ \A i \in 1 .. Len(r) : /\ r[i].va \in Nat
                                              /\ r[i].size \in Nat
  BY LenProperties, ElementOfSeq, RegionFields DEF Chained
<1>1. SUFFICES ASSUME T # {} PROVE FALSE
  OBVIOUS
<1>2. PICK m \in T : \A y \in T : m <= y
  <2>1. T \in SUBSET Nat
    BY <1>0
  <2> HIDE DEF T
  <2> QED
    BY <1>1, <2>1, LeastNat
<1>3. m \in 1 .. Len(r) /\ j < m /\ ~(r[j].va + r[j].size <= r[m].va)
  BY <1>2
<1> DEFINE n == Len(r)
<1>4. n \in Nat /\ m \in 1 .. n /\ j \in 1 .. n /\ j < m
  BY <1>0, <1>3
<1> HIDE DEF n
<1>5. m - 1 \in 1 .. n /\ m = (m - 1) + 1 /\ ~(m <= m - 1) /\ (m - 1 = j \/ j < m - 1)
  BY <1>4
<1>6. r[m].va = r[m - 1].va + r[m - 1].size
  BY <1>5, <1>4 DEF n, Chained
<1>7. CASE m - 1 = j
  BY <1>7, <1>6, <1>3, <1>0
<1>8. CASE j < m - 1
  <2>1. m - 1 \notin T
    BY <1>2, <1>5
  <2>2. r[j].va + r[j].size <= r[m - 1].va
    BY <2>1, <1>5, <1>8 DEF n
  <2>3. r[m - 1].va \in Nat /\ r[m - 1].size \in Nat /\ r[j].va \in Nat /\ r[j].size \in Nat
    BY <1>0, <1>5 DEF n
  <2> QED
    BY <2>2, <2>3, <1>6, <1>3
<1> QED
  BY <1>5, <1>7, <1>8

LEMMA EndTyped ==
  ASSUME NEW r, Chained(r) PROVE EndOf(r) \in Nat
<1>0. Len(r) \in Nat /\ \A i \in 1 .. Len(r) : r[i].va \in Nat /\ r[i].size \in Nat
  BY LenProperties, ElementOfSeq, RegionFields DEF Chained
<1>1. CASE Len(r) = 0
  BY <1>1 DEF EndOf
<1>2. CASE Len(r) # 0
  <2>1. Len(r) \in 1 .. Len(r)
    BY <1>2, <1>0
  <2>2. r[Len(r)].va \in Nat /\ r[Len(r)].size \in Nat
    BY <2>1, <1>0
  <2> QED
    BY <1>2, <2>2 DEF EndOf
<1> QED
  BY <1>1, <1>2

In(r, j, va) == r[j].va <= va /\ va < r[j].va + r[j].size

\* Every address of the memory is in a region, ...
LEMMA RegionOf ==
  ASSUME NEW r, Chained(r), NEW va \in Nat, va < EndOf(r)
  PROVE  \E j \in 1 .. Len(r) : In(r, j, va)
<1>0. Len(r) \in Nat /\ \A i \in 1 .. Len(r) : /\ r[i].va \in Nat
                                              /\ r[i].size \in Nat
  BY LenProperties, ElementOfSeq, RegionFields DEF Chained
<1> DEFINE T == {i \in 1 .. Len(r) : va < r[i].va + r[i].size}
<1>1. Len(r) \in T
  <2>1. Len(r) # 0
    BY DEF EndOf
  <2>2. Len(r) \in 1 .. Len(r)
    BY <2>1, <1>0
  <2> QED
    BY <2>1, <2>2 DEF EndOf
<1>2. PICK m \in T : \A y \in T : m <= y
  <2>1. T \in SUBSET Nat /\ T # {}
    BY <1>0, <1>1
  <2> HIDE DEF T
  <2> QED
    BY <2>1, LeastNat
<1>3. m \in 1 .. Len(r) /\ va < r[m].va + r[m].size
  BY <1>2
<1>4. r[m].va <= va
  <2>1. CASE m = 1
    <3>1. r[1].va = 0
      BY <1>3, <1>0 DEF Chained
    <3> QED
      BY <3>1, <2>1
  <2>2. CASE m # 1
    <3> DEFINE n == Len(r)
    <3>1. n \in Nat /\ m \in 1 .. n
      BY <1>0, <1>3
    <3> HIDE DEF n
    <3>2. m - 1 \in 1 .. n /\ m = (m - 1) + 1 /\ ~(m <= m - 1)
      BY <3>1, <2>2
    <3>3. r[m].va = r[m - 1].va + r[m - 1].size
      BY <3>1, <3>2 DEF n, Chained
    <3>4. ~(va < r[m - 1].va + r[m - 1].size)
      BY <3>2, <1>2 DEF n
    <3>5. r[m - 1].va \in Nat /\ r[m - 1].size \in Nat
      BY <3>2, <1>0 DEF n
    <3> QED
      BY <3>3, <3>4, <3>5
  <2> QED
    BY <2>1, <2>2
<1> QED
  BY <1>3, <1>4 DEF In

\* ... and wd_iova_map finds it.
LEMMA IovaIn ==
  ASSUME NEW r, Chained(r), NEW va \in Nat, NEW j \in 1 .. Len(r), In(r, j, va)
  PROVE  IovaMap(r, va) = r[j].pa + (va - r[j].va)
<1>0. DOMAIN r = 1 .. Len(r) /\ Len(r) \in Nat
      /\ \A i \in 1 .. Len(r) : r[i].va \in Nat /\ r[i].size \in Nat
  BY LenProperties, ElementOfSeq, RegionFields DEF Chained
<1>1. ASSUME NEW i \in 1 .. Len(r), In(r, i, va) PROVE i = j
  <2>1. r[i].va \in Nat /\ r[i].size \in Nat /\ r[j].va \in Nat /\ r[j].size \in Nat
    BY <1>0
  <2>2. CASE i < j
    <3>1. r[i].va + r[i].size <= r[j].va
      BY <2>2, RegionsOrdered
    <3> QED
      BY <3>1, <2>1, <1>1 DEF In
  <2>3. CASE j < i
    <3>1. r[j].va + r[j].size <= r[i].va
      BY <2>3, RegionsOrdered
    <3> QED
      BY <3>1, <2>1, <1>1 DEF In
  <2> QED
    BY <2>2, <2>3, <1>0
<1>2. {i \in DOMAIN r : r[i].va <= va /\ va < r[i].va + r[i].size} = {j}
  BY <1>0, <1>1 DEF In
<1>3. Min({j}) = j
  BY <1>0 DEF Min
<1> QED
  BY <1>2, <1>3 DEF IovaMap

LEMMA EndsOfTwo ==
  ASSUME NEW a \in Nat, NEW c \in Nat, NEW d \in Nat, NEW e \in Nat, NEW f \in Nat,
         NEW v \in Nat, NEW w \in Nat, NEW n \in Nat, w = v + n - 1,
         f + (w - e) - (d + (v - a)) = n - 1, e = a + c
  PROVE  d + c = f
  OBVIOUS

LEMMA EndsOfThree ==
  ASSUME NEW a \in Nat, NEW c \in Nat, NEW e \in Nat, NEW v \in Nat, NEW w \in Nat,
         NEW n \in Nat, w = v + n - 1, a + c <= e, n <= c + 1, v < a
  PROVE  ~(e <= w)
  OBVIOUS

\* A block whose ends agree is in one region: one in two would need them to be
\* one, one in three would be longer than the middle one.
LEMMA BlockInOne ==
  ASSUME NEW r, Chained(r), AllLong(r), NEW v \in Nat, v + BlkSize - 1 < EndOf(r),
         IovaMap(r, v + BlkSize - 1) - IovaMap(r, v) = BlkSize - 1,
         NEW b \in 0 .. (BlkSize - 1)
  PROVE  IovaMap(r, v + b) = IovaMap(r, v) + b
<1>0. /\ Len(r) \in Nat
      /\ \A i \in 1 .. Len(r) : r[i].va \in Nat /\ r[i].size \in Nat \ {0} /\ r[i].pa \in Nat
  BY LenProperties, ElementOfSeq, RegionFields DEF Chained
<1>b. BlkSize \in Nat \ {0}
  BY BlockConstants
<1>1. PICK w \in Nat : w = v + BlkSize - 1
  BY <1>b
<1>2. v <= w /\ w < EndOf(r) /\ v < EndOf(r)
  <2>1. v <= w /\ w < EndOf(r)
    BY <1>1, <1>b
  <2>2. EndOf(r) \in Nat
    BY EndTyped
  <2> QED
    BY <2>1, <2>2
<1>3. PICK j \in 1 .. Len(r) : In(r, j, v)
  BY <1>2, RegionOf
<1>4. PICK k \in 1 .. Len(r) : In(r, k, w)
  BY <1>2, RegionOf
<1>5. /\ r[j].va \in Nat /\ r[j].size \in Nat \ {0} /\ r[j].pa \in Nat
      /\ r[k].va \in Nat /\ r[k].size \in Nat \ {0} /\ r[k].pa \in Nat
  BY <1>0
<1>6. IovaMap(r, v) = r[j].pa + (v - r[j].va) /\ IovaMap(r, w) = r[k].pa + (w - r[k].va)
  BY <1>3, <1>4, IovaIn
<1>7. j = k
  <2>1. ~(k < j)
    <3> SUFFICES ASSUME k < j PROVE FALSE
      OBVIOUS
    <3>1. r[k].va + r[k].size <= r[j].va
      BY RegionsOrdered
    <3> QED
      BY <3>1, <1>2, <1>3, <1>4, <1>5 DEF In
  <2>2. k # j + 1
    <3> SUFFICES ASSUME k = j + 1 PROVE FALSE
      OBVIOUS
    <3>1. r[k].va = r[j].va + r[j].size /\ r[j].pa + r[j].size # r[k].pa
      BY DEF Chained
    <3>2. PICK a \in Nat, c \in Nat, d \in Nat, e \in Nat, f \in Nat :
             a = r[j].va /\ c = r[j].size /\ d = r[j].pa /\ e = r[k].va /\ f = r[k].pa
      BY <1>5
    <3>3. f + (w - e) - (d + (v - a)) = BlkSize - 1
      <4>1. IovaMap(r, w) - IovaMap(r, v) = BlkSize - 1
        BY <1>1
      <4>2. IovaMap(r, v) = d + (v - a) /\ IovaMap(r, w) = f + (w - e)
        BY <1>6, <3>2
      <4> QED
        BY <4>1, <4>2
    <3>4. e = a + c /\ d + c # f
      BY <3>1, <3>2
    <3> QED
      BY <3>3, <3>4, <1>1, <1>b, EndsOfTwo
  <2>3. ~(j + 1 < k)
    <3> SUFFICES ASSUME j + 1 < k PROVE FALSE
      OBVIOUS
    <3>1. PICK i \in 1 .. Len(r) : i = j + 1 /\ i < k
      BY <1>0
    <3>2. r[i].va = r[j].va + r[j].size
      BY <3>1 DEF Chained
    <3>3. r[i].va + r[i].size <= r[k].va
      BY <3>1, RegionsOrdered
    <3>4. r[i].va \in Nat /\ r[i].size \in Nat /\ BlkSize <= r[i].size + 1
      BY <3>1, <1>0 DEF AllLong
    <3>5. v < r[i].va /\ r[k].va <= w
      BY <3>2, <1>3, <1>4 DEF In
    <3>6. PICK a \in Nat, c \in Nat, e \in Nat :
             a = r[i].va /\ c = r[i].size /\ e = r[k].va
      BY <3>4, <1>5
    <3>7. a + c <= e /\ BlkSize <= c + 1 /\ v < a /\ e <= w
      BY <3>3, <3>4, <3>5, <3>6
    <3> QED
      BY <3>7, <1>1, <1>b, EndsOfThree
  <2>4. j \in Nat /\ k \in Nat
    BY <1>0
  <2> QED
    BY <2>1, <2>2, <2>3, <2>4
<1>8. PICK x \in Nat : x = v + b /\ v <= x /\ x <= w
  BY <1>1, <1>b
<1>9. In(r, j, x)
  BY <1>3, <1>4, <1>5, <1>7, <1>8 DEF In
<1>10. IovaMap(r, x) = r[j].pa + (x - r[j].va)
  BY <1>9, IovaIn
<1>11. PICK a \in Nat, p \in Nat : a = r[j].va /\ p = r[j].pa
  BY <1>5
<1>12. p + (x - a) = (p + (v - a)) + b /\ b \in Int
  BY <1>8
<1>13. IovaMap(r, x) = p + (x - a) /\ IovaMap(r, v) = p + (v - a)
  BY <1>6, <1>10, <1>11
<1> QED
  BY <1>8, <1>12, <1>13

-----------------------------------------------------------------------------
LEMMA UserFields ==
  ASSUME NEW f \in UserType
  PROVE  /\ f.pc \in {"idle", "find", "has", "clear"} /\ f.start \in Nat /\ f.n \in Nat
         /\ f = [pc |-> f.pc, start |-> f.start, n |-> f.n]
BY DEF UserType

LEMMA UserMade ==
  ASSUME NEW l \in {"idle", "find", "has", "clear"}, NEW s \in Nat, NEW n \in Nat
  PROVE  /\ [pc |-> l, start |-> s, n |-> n] \in UserType
         /\ [pc |-> l, start |-> s, n |-> n].pc = l
         /\ [pc |-> l, start |-> s, n |-> n].start = s
         /\ [pc |-> l, start |-> s, n |-> n].n = n
BY DEF UserType

LEMMA PoolFields ==
  ASSUME NEW p \in BlkPoolType
  PROVE  /\ p.state \in {"none", "live"} /\ p.kind \in {"wd", "user"}
         /\ p.total \in Nat /\ p.free \in Nat
BY DEF BlkPoolType

LEMMA PoolFreed ==
  ASSUME NEW p \in BlkPoolType, NEW n \in Nat
  PROVE  /\ [p EXCEPT !.free = n] \in BlkPoolType
         /\ [p EXCEPT !.free = n].free = n
         /\ [p EXCEPT !.free = n].state = p.state /\ [p EXCEPT !.free = n].kind = p.kind
         /\ [p EXCEPT !.free = n].total = p.total
         /\ [p EXCEPT !.free = n].regions = p.regions
BY DEF BlkPoolType

\* The blocks of a pool and those of them in a set.
LEMMA BlocksSplit ==
  ASSUME NEW t \in Nat, NEW S, S \subseteq 0 .. (t - 1)
  PROVE  /\ Cardinality(S) \in Nat /\ Cardinality(S) <= t
         /\ Cardinality((0 .. (t - 1)) \ S) = t - Cardinality(S)
<1> DEFINE A == 0 .. (t - 1)  B == A \ S
<1>1. IsFiniteSet(A) /\ Cardinality(A) = t
  BY FS_Interval
<1>2. IsFiniteSet(S) /\ IsFiniteSet(B) /\ Cardinality(S) <= Cardinality(A)
  BY <1>1, FS_Subset
<1>3. S \cup B = A /\ S \cap B = {}
  OBVIOUS
<1>4. Cardinality(S) \in Nat /\ Cardinality(B) \in Nat /\ Cardinality({}) = 0
  BY <1>2, FS_CardinalityType, FS_EmptySet
<1>5. Cardinality(S \cup B) = Cardinality(S) + Cardinality(B) - Cardinality(S \cap B)
  BY <1>2, FS_Union
<1> HIDE DEF A, B
<1>6. t = Cardinality(S) + Cardinality(B)
  <2>1. Cardinality(A) = Cardinality(S) + Cardinality(B) - Cardinality({})
    BY <1>3, <1>5
  <2> QED
    BY <2>1, <1>1, <1>4
<1> QED
  BY <1>1, <1>2, <1>4, <1>6 DEF A, B

\* A run has as many blocks as asked for.
LEMMA RunCount ==
  ASSUME NEW s \in Nat, NEW n \in Nat
  PROVE  IsFiniteSet(s .. (s + n - 1)) /\ Cardinality(s .. (s + n - 1)) = n
BY FS_Interval

LEMMA BlockInitInv ==
  ASSUME BInit PROVE BlockInv
<1>1. pool \in BlkPoolType /\ pool.total = 0 /\ pool.state = "none" /\ pool.kind = "wd"
  BY EmptySeq DEF BInit, NoMem, BlkPoolType
<1>2. used = {} /\ 0 .. (pool.total - 1) = {}
  BY <1>1 DEF BInit
<1>3. DOMAIN num = {}
  BY DEF BInit
<1>4. /\ user \in [Users -> UserType]
      /\ \A u \in Users : user[u].pc = "idle" /\ RunOf(u) = {}
  BY DEF BInit, Idle, UserType, RunOf
<1>5. BlockTypes
  BY <1>1, <1>2, <1>3, <1>4, BlockConstants DEF BlockTypes
<1> QED
  BY <1>1, <1>2, <1>4, <1>5 DEF BlockInv, BlockRuns, BlockFree, BlockGeometry, BlockGood,
     Holds

\* Nobody is in a pool that is not there.
LEMMA NoPoolNoUser ==
  ASSUME BlockInv, pool.state = "none", NEW u \in Users
  PROVE  user[u].pc = "idle"
<1>1. user[u] \in UserType
  BY DEF BlockInv, BlockTypes
<1> QED
  BY <1>1 DEF BlockInv, BlockRuns

LEMMA CreateInv ==
  ASSUME BlockInv, NEW l \in Layouts, Create(l)
  PROVE  BlockInv'
<1>1. l \in Seq(SliceType) /\ Size(l) \div Stride < Width
  BY BlockAssumption DEF SliceType
<1>2. /\ Chained(Regions(l)) /\ EndOf(Regions(l)) = Size(l) /\ Size(l) \in Nat
      /\ (\A i \in DOMAIN l : BlkSize <= l[i].size + 1) => AllLong(Regions(l))
  BY <1>1, RegionsChained
<1>c. Stride \in Nat \ {0}
  BY BlockConstants
<1>3. PICK t \in Nat : /\ t = Size(l) \div Stride /\ t < Width
                       /\ t * Stride <= EndOf(Regions(l))
  <2>1. PICK n \in Nat : n = Size(l)
    BY <1>2
  <2>2. n \div Stride \in Nat /\ n % Stride \in 0 .. Stride - 1
        /\ n = Stride * (n \div Stride) + (n % Stride)
    BY <1>c, DivMod
  <2>3. PICK t \in Nat : t = n \div Stride
    BY <2>2
  <2>4. PICK m \in Nat : m = n % Stride
    BY <2>2, <1>c
  <2>5. n = Stride * t + m
    BY <2>2, <2>3, <2>4
  <2>6. t * Stride <= n
    BY <2>5, <1>c
  <2> QED
    BY <2>1, <2>3, <2>6, <1>1, <1>2
<1> DEFINE good == {i \in 0 .. (t - 1) : Contiguous(Regions(l), i)}
           g == Cardinality(good)
<1>4. good \subseteq 0 .. (t - 1)
  OBVIOUS
<1>5. /\ pool.state = "none" /\ t > 0
      /\ pool' = [state |-> "live", kind |-> "wd", regions |-> Regions(l), total |-> t,
                  free |-> g, wanted |-> g]
      /\ used' = (0 .. (t - 1)) \ good
      /\ num' = [i \in 0 .. (t - 1) |-> 0]
      /\ user' = user
  BY <1>3 DEF Create
<1>6. \A i \in 0 .. (t - 1) : i \notin used' => Contiguous(Regions(l), i)
  BY <1>5
<1> HIDE DEF good
<1>7. /\ g \in Nat /\ g <= t
      /\ Cardinality(used') = t - g
  BY <1>4, <1>5, BlocksSplit
<1> HIDE DEF g
<1>8. /\ pool' \in BlkPoolType /\ pool'.total = t /\ pool'.free = g /\ pool'.state = "live"
      /\ pool'.kind = "wd" /\ pool'.regions = Regions(l)
  <2>1. Regions(l) \in Seq(RegionType)
    BY <1>2 DEF Chained
  <2> QED
    BY <2>1, <1>5, <1>7 DEF BlkPoolType
<1>9. user' \in [Users -> UserType] /\ \A u \in Users : user'[u].pc = "idle"
  BY <1>5, NoPoolNoUser DEF BlockInv, BlockTypes
<1>10. \A u \in Users : RunOf(u)' = {} /\ ~Holds(u)'
  BY <1>9 DEF RunOf, Holds
<1>11. used' \subseteq 0 .. (t - 1) /\ DOMAIN num' = 0 .. (t - 1)
  BY <1>5
<1>12. BlockTypes'
  BY <1>3, <1>5, <1>8, <1>9, <1>11 DEF BlockTypes
<1>13. BlockRuns'
  BY <1>9, <1>10 DEF BlockRuns
<1>14. BlockFree'
  BY <1>7, <1>8 DEF BlockFree
<1>15. BlockGeometry'
  <2>1. SlicesFit => AllLong(Regions(l))
    BY <1>2 DEF SlicesFit
  <2> QED
    BY <2>1, <1>2, <1>3, <1>8 DEF BlockGeometry
<1>16. BlockGood'
  BY <1>6, <1>8, <1>10 DEF BlockGood
<1> QED
  BY <1>12, <1>13, <1>14, <1>15, <1>16 DEF BlockInv

LEMMA CreateUserInv ==
  ASSUME BlockInv, CreateUser
  PROVE  BlockInv'
<1>1. /\ pool.state = "none" /\ used' = used /\ num' = num /\ user' = user
      /\ pool' = [NoMem EXCEPT !.state = "live", !.kind = "user", !.free = Wanted,
                               !.wanted = Wanted]
  BY DEF CreateUser
<1>2. /\ pool' \in BlkPoolType /\ pool'.total = 0 /\ pool'.state = "live"
      /\ pool'.kind = "user"
  <2>1. pool' = [state |-> "live", kind |-> "user", regions |-> << >>, total |-> 0,
                 free |-> Wanted, wanted |-> Wanted]
    BY <1>1 DEF NoMem
  <2>2. Wanted \in Nat /\ << >> \in Seq(RegionType)
    BY BlockConstants, EmptySeq
  <2> QED
    BY <2>1, <2>2 DEF BlkPoolType
<1>3. pool.total = 0 /\ 0 < Width
  BY <1>1, BlockConstants DEF BlockInv, BlockTypes
<1>4. \A u \in Users : user'[u].pc = "idle"
  BY <1>1, NoPoolNoUser
<1>5. \A u \in Users : RunOf(u)' = {} /\ ~Holds(u)'
  BY <1>4 DEF RunOf, Holds
<1>6. BlockTypes'
  BY <1>1, <1>2, <1>3 DEF BlockInv, BlockTypes
<1>7. BlockRuns'
  BY <1>4, <1>5 DEF BlockRuns
<1>8. BlockFree' /\ BlockGeometry' /\ BlockGood'
  BY <1>2 DEF BlockFree, BlockGeometry, BlockGood
<1> QED
  BY <1>6, <1>7, <1>8 DEF BlockInv

LEMMA DestroyInv ==
  ASSUME BlockInv, Destroy
  PROVE  BlockInv'
<1>1. /\ pool' = NoMem /\ used' = {} /\ num' = << >> /\ user' = user
      /\ \A u \in Users : user[u].pc = "idle"
  BY DEF Destroy
<1>2. pool' \in BlkPoolType /\ pool'.total = 0 /\ pool'.state = "none"
  BY <1>1, EmptySeq DEF NoMem, BlkPoolType
<1>3. used' \subseteq 0 .. (pool'.total - 1) /\ DOMAIN num' = 0 .. (pool'.total - 1)
  BY <1>1, <1>2
<1>4. \A u \in Users : RunOf(u)' = {} /\ ~Holds(u)' /\ user'[u].pc = "idle"
  BY <1>1 DEF RunOf, Holds
<1>5. user' \in [Users -> UserType]
  BY <1>1 DEF BlockInv, BlockTypes
<1>6. BlockTypes'
  BY <1>2, <1>3, <1>5, BlockConstants DEF BlockTypes
<1>7. BlockRuns'
  BY <1>4 DEF BlockRuns
<1>8. BlockFree' /\ BlockGeometry' /\ BlockGood'
  BY <1>2 DEF BlockFree, BlockGeometry, BlockGood
<1> QED
  BY <1>6, <1>7, <1>8 DEF BlockInv

\* A thread that moves while the pool stays, and has the run it had or none.
LEMMA MoveInv ==
  ASSUME BlockInv, NEW u \in Users, NEW f \in UserType, pool' = pool, used' = used,
         num' = num, user' = [user EXCEPT ![u] = f],
         f.pc # "idle" => f.n >= 1 /\ pool.state = "live",
         f.pc \in {"has", "clear"} =>
            user[u].pc \in {"has", "clear"} /\ f.start = user[u].start /\ f.n = user[u].n
  PROVE  BlockInv'
<1>1. user \in [Users -> UserType]
  BY DEF BlockInv, BlockTypes
<1>2. user' \in [Users -> UserType] /\ user'[u] = f
      /\ \A v \in Users : v # u => user'[v] = user[v]
  BY <1>1
<1>3. \A v \in Users : v # u => RunOf(v)' = RunOf(v) /\ (Holds(v)' <=> Holds(v))
  BY <1>2 DEF RunOf, Holds
<1>4. RunOf(u)' \subseteq RunOf(u) /\ (Holds(u)' => Holds(u))
      /\ (Holds(u)' => f.start = user[u].start /\ f.n = user[u].n)
  BY <1>2 DEF RunOf, Holds
<1>5. BlockTypes'
  BY <1>2 DEF BlockInv, BlockTypes
<1>6. BlockRuns'
  <2>1. ASSUME NEW v \in Users, user'[v].pc # "idle"
        PROVE  user'[v].n >= 1 /\ pool.state = "live"
    BY <2>1, <1>2 DEF BlockInv, BlockRuns
  <2>2. ASSUME NEW v \in Users, Holds(v)'
        PROVE  RunOf(v)' \subseteq used /\ num[user'[v].start] = user'[v].n
    <3>1. CASE v = u
      BY <3>1, <2>2, <1>2, <1>4 DEF BlockInv, BlockRuns
    <3>2. CASE v # u
      BY <3>2, <2>2, <1>2, <1>3 DEF BlockInv, BlockRuns
    <3> QED
      BY <3>1, <3>2
  <2>3. ASSUME NEW v \in Users, NEW w \in Users, v # w
        PROVE  RunOf(v)' \cap RunOf(w)' = {}
    <3>1. RunOf(v)' \subseteq RunOf(v) /\ RunOf(w)' \subseteq RunOf(w)
      BY <1>3, <1>4
    <3>2. RunOf(v) \cap RunOf(w) = {}
      BY <2>3 DEF BlockInv, BlockRuns
    <3> QED
      BY <3>1, <3>2
  <2> QED
    BY <2>1, <2>2, <2>3 DEF BlockRuns
<1>7. BlockFree' /\ BlockGeometry'
  BY DEF BlockInv, BlockFree, BlockGeometry
<1>8. BlockGood'
  <2>1. \A v \in Users : RunOf(v)' \subseteq RunOf(v)
    BY <1>3, <1>4
  <2> QED
    BY <2>1 DEF BlockInv, BlockGood
<1> QED
  BY <1>5, <1>6, <1>7, <1>8 DEF BlockInv

LEMMA AllocTestInv ==
  ASSUME BlockInv, NEW u \in Users, NEW n \in 1 .. MaxRun, AllocTest(u, n)
  PROVE  BlockInv'
<1> DEFINE f == [pc |-> "find", start |-> 0, n |-> n]
<1>1. n \in Nat /\ n >= 1
  BY BlockConstants
<1>2. f \in UserType /\ f.pc = "find" /\ f.n = n
  BY <1>1 DEF UserType
<1>3. pool' = pool /\ used' = used /\ num' = num /\ user' = [user EXCEPT ![u] = f]
      /\ pool.state = "live"
  BY DEF AllocTest
<1> HIDE DEF f
<1> QED
  BY <1>1, <1>2, <1>3, MoveInv

LEMMA AllocNoneInv ==
  ASSUME BlockInv, NEW u \in Users, AllocNone(u)
  PROVE  BlockInv'
<1>1. Idle \in UserType /\ Idle.pc = "idle"
  BY DEF Idle, UserType
<1>2. pool' = pool /\ used' = used /\ num' = num /\ user' = [user EXCEPT ![u] = Idle]
  BY DEF AllocNone
<1> QED
  BY <1>1, <1>2, MoveInv

LEMMA FreeReadInv ==
  ASSUME BlockInv, NEW u \in Users, FreeRead(u)
  PROVE  BlockInv'
<1>1. PICK h \in UserType : h = user[u]
  BY DEF BlockInv, BlockTypes
<1>2. h.pc = "has" /\ h.start \in Nat /\ h.n \in Nat /\ num[h.start] = h.n
      /\ h.n >= 1 /\ pool.state = "live"
  BY <1>1, UserFields DEF FreeRead, BlockInv, BlockRuns, Holds
<1> DEFINE f == [pc |-> "clear", start |-> h.start, n |-> h.n]
<1>3. [h EXCEPT !.pc = "clear", !.n = h.n] = f
  BY UserFields DEF UserType
<1>4. f \in UserType /\ f.pc = "clear" /\ f.start = h.start /\ f.n = h.n
  BY <1>2 DEF UserType
<1>5. pool' = pool /\ used' = used /\ num' = num /\ user' = [user EXCEPT ![u] = f]
  BY <1>1, <1>2, <1>3 DEF FreeRead
<1> HIDE DEF f
<1> QED
  BY <1>1, <1>2, <1>4, <1>5, MoveInv

\* The start of a run is in it.
LEMMA StartInRun ==
  ASSUME BlockInv, NEW u \in Users, Holds(u)
  PROVE  /\ user[u].start \in RunOf(u) /\ user[u].start \in Nat
         /\ user[u].n \in Nat /\ user[u].n >= 1
         /\ RunOf(u) = user[u].start .. (user[u].start + user[u].n - 1)
         /\ RunOf(u) \subseteq used
<1>1. PICK h \in UserType : h = user[u]
  BY DEF BlockInv, BlockTypes
<1>2. h.start \in Nat /\ h.n \in Nat /\ h.pc \in {"has", "clear"}
  BY <1>1, UserFields DEF Holds
<1>3. user[u].n >= 1
  BY <1>1, <1>2 DEF BlockInv, BlockRuns
<1>4. RunOf(u) = h.start .. (h.start + h.n - 1)
  BY <1>1, <1>2 DEF RunOf
<1>5. h.start \in h.start .. (h.start + h.n - 1)
  BY <1>1, <1>2, <1>3
<1> QED
  BY <1>1, <1>2, <1>3, <1>4, <1>5 DEF BlockInv, BlockRuns

\* What a set of used blocks counts, with a run more and a run less.
LEMMA RunMore ==
  ASSUME NEW t \in Nat, NEW S, S \subseteq 0 .. (t - 1), NEW s \in Nat, NEW n \in Nat,
         s .. (s + n - 1) \subseteq 0 .. (t - 1), (s .. (s + n - 1)) \cap S = {}
  PROVE  /\ Cardinality(S \cup (s .. (s + n - 1))) = Cardinality(S) + n
         /\ Cardinality(S) \in Nat /\ Cardinality(S) + n <= t
<1> DEFINE R == s .. (s + n - 1)
<1>1. IsFiniteSet(R) /\ Cardinality(R) = n
  BY RunCount
<1>2. IsFiniteSet(S) /\ Cardinality(S) \in Nat
  <2>1. IsFiniteSet(0 .. (t - 1))
    BY FS_Interval
  <2> QED
    BY <2>1, FS_Subset, FS_CardinalityType
<1>3. S \cap R = {} /\ S \cup R \subseteq 0 .. (t - 1)
  OBVIOUS
<1> HIDE DEF R
<1>4. Cardinality(S \cup R) = Cardinality(S) + Cardinality(R) - Cardinality(S \cap R)
  BY <1>1, <1>2, FS_Union
<1>5. Cardinality(S \cup R) = Cardinality(S) + Cardinality(R) - Cardinality({})
  BY <1>3, <1>4
<1>6. Cardinality(S \cup R) = Cardinality(S) + n
  BY <1>1, <1>2, <1>5, FS_EmptySet
<1>7. Cardinality(S \cup R) <= t
  BY <1>3, BlocksSplit
<1> QED
  BY <1>2, <1>6, <1>7 DEF R

LEMMA RunLess ==
  ASSUME NEW t \in Nat, NEW S, S \subseteq 0 .. (t - 1), NEW s \in Nat, NEW n \in Nat,
         s .. (s + n - 1) \subseteq S
  PROVE  /\ Cardinality(S) = Cardinality(S \ (s .. (s + n - 1))) + n
         /\ Cardinality(S \ (s .. (s + n - 1))) \in Nat
<1> DEFINE R == s .. (s + n - 1)  D == S \ R
<1>1. IsFiniteSet(R) /\ Cardinality(R) = n
  BY RunCount
<1>2. IsFiniteSet(S)
  <2>1. IsFiniteSet(0 .. (t - 1))
    BY FS_Interval
  <2> QED
    BY <2>1, FS_Subset
<1>3. IsFiniteSet(D) /\ Cardinality(D) \in Nat
  <2>1. D \in SUBSET S
    OBVIOUS
  <2> HIDE DEF D
  <2> QED
    BY <2>1, <1>2, FS_Subset, FS_CardinalityType
<1>4. D \cup R = S /\ D \cap R = {}
  OBVIOUS
<1> HIDE DEF D, R
<1>5. Cardinality(D \cup R) = Cardinality(D) + Cardinality(R) - Cardinality(D \cap R)
  BY <1>1, <1>3, FS_Union
<1>6. Cardinality(S) = Cardinality(D) + n - Cardinality({})
  BY <1>1, <1>4, <1>5
<1>7. Cardinality(S) = Cardinality(D) + n
  BY <1>3, <1>6, FS_EmptySet
<1> QED
  BY <1>3, <1>7 DEF D, R

LEMMA AllocTakeInv ==
  ASSUME BlockInv, NEW u \in Users, AllocTake(u)
  PROVE  BlockInv'
<1>1. PICK h \in UserType : h = user[u]
  BY DEF BlockInv, BlockTypes
<1>2. PICK n \in Nat : n = user[u].n /\ n >= 1
  <2>1. h.n \in Nat /\ h.pc = "find"
    BY <1>1, UserFields DEF AllocTake
  <2> QED
    BY <1>1, <2>1 DEF BlockInv, BlockRuns
<1>3. PICK t \in Nat : t = pool.total /\ t < Width
  BY PoolFields DEF BlockInv, BlockTypes
<1>4. PICK s \in Found(n) :
        /\ used' = used \cup (s .. (s + n - 1))
        /\ num' = [num EXCEPT ![s] = n]
        /\ pool' = [pool EXCEPT !.free = (pool.free + Width - n) % Width]
        /\ user' = [user EXCEPT ![u] = [pc |-> "has", start |-> s, n |-> n]]
  BY <1>2 DEF AllocTake
<1>5. s \in 0 .. (t - n) /\ (s .. (s + n - 1)) \cap used = {}
  BY <1>3, <1>4 DEF Found, Clear
<1> DEFINE run == s .. (s + n - 1)
<1>6. s \in Nat /\ run \subseteq 0 .. (t - 1) /\ s \in run /\ t > 0
  BY <1>2, <1>5
<1>7. used \subseteq 0 .. (t - 1) /\ DOMAIN num = 0 .. (t - 1)
      /\ user \in [Users -> UserType] /\ pool \in BlkPoolType
  BY <1>3 DEF BlockInv, BlockTypes
<1>8. pool.free \in Nat /\ pool.free = t - Cardinality(used)
  BY <1>3, <1>6, <1>7, PoolFields DEF BlockInv, BlockFree
<1>9. /\ Cardinality(used \cup run) = Cardinality(used) + n
      /\ Cardinality(used) \in Nat /\ Cardinality(used) + n <= t
  BY <1>5, <1>6, <1>7, RunMore
<1>10. PICK m \in Nat : m = pool.free - n /\ m = t - Cardinality(used')
                        /\ (pool.free + Width - n) % Width = m
  <2> DEFINE c == Cardinality(used)  cc == Cardinality(used')
  <2>1. c \in Nat /\ cc = c + n /\ c + n <= t /\ pool.free = t - c /\ pool.free \in Nat
    BY <1>4, <1>8, <1>9
  <2>w. Width \in Nat \ {0}
    BY BlockConstants
  <2> HIDE DEF c, cc
  <2>2. PICK m \in Nat : m = pool.free - n /\ m = t - cc /\ m < Width
    <3>1. pool.free - n \in Nat /\ pool.free - n = t - cc /\ pool.free - n < Width
      BY <2>1, <1>3, <2>w
    <3> QED
      BY <3>1
  <2>3. pool.free + Width - n = m + Width /\ (m + Width) % Width = m
    BY <2>1, <2>2, <2>w
  <2> QED
    BY <2>2, <2>3 DEF cc
<1>11. /\ pool' \in BlkPoolType /\ pool'.free = m /\ pool'.total = t
       /\ pool'.state = pool.state /\ pool'.kind = pool.kind /\ pool'.regions = pool.regions
  BY <1>3, <1>4, <1>7, <1>10, PoolFreed
<1> DEFINE f == [pc |-> "has", start |-> s, n |-> n]
<1>12. f \in UserType /\ f.pc = "has" /\ f.start = s /\ f.n = n
  BY <1>6 DEF UserType
<1>13. user' = [user EXCEPT ![u] = f]
  BY <1>4
<1> HIDE DEF f
<1>14. user' \in [Users -> UserType] /\ user'[u] = f
       /\ \A v \in Users : v # u => user'[v] = user[v]
  BY <1>7, <1>12, <1>13
<1>15. RunOf(u)' = run /\ \A v \in Users : v # u => RunOf(v)' = RunOf(v)
  BY <1>12, <1>14 DEF RunOf
<1>16. \A v \in Users : v # u => (Holds(v)' <=> Holds(v))
  BY <1>14 DEF Holds
<1>17. \A v \in Users : RunOf(v) \subseteq used
  BY DEF BlockInv, BlockRuns, RunOf, Holds
<1>18. DOMAIN num' = 0 .. (t - 1) /\ num'[s] = n
       /\ \A i \in 0 .. (t - 1) : i # s => num'[i] = num[i]
  BY <1>4, <1>6, <1>7
<1>19. BlockTypes'
  <2>1. used' \subseteq 0 .. (t - 1)
    BY <1>4, <1>6, <1>7
  <2>2. (pool'.state = "none" \/ pool'.kind = "user") <=> pool'.total = 0
    BY <1>3, <1>11 DEF BlockInv, BlockTypes
  <2> QED
    BY <2>1, <2>2, <1>3, <1>11, <1>14, <1>18 DEF BlockTypes
<1>20. BlockRuns'
  <2>1. ASSUME NEW v \in Users, user'[v].pc # "idle"
        PROVE  user'[v].n >= 1 /\ pool'.state = "live"
    <3>1. CASE v = u
      <4>1. user[u].pc # "idle"
        BY DEF AllocTake
      <4>2. pool.state = "live"
        BY <4>1 DEF BlockInv, BlockRuns
      <4> QED
        BY <3>1, <4>2, <1>2, <1>11, <1>12, <1>14
    <3>2. CASE v # u
      BY <3>2, <2>1, <1>11, <1>14 DEF BlockInv, BlockRuns
    <3> QED
      BY <3>1, <3>2
  <2>2. ASSUME NEW v \in Users, Holds(v)'
        PROVE  RunOf(v)' \subseteq used' /\ num'[user'[v].start] = user'[v].n
    <3>1. CASE v = u
      BY <3>1, <1>4, <1>12, <1>14, <1>15, <1>18
    <3>2. CASE v # u
      <4>1. Holds(v)
        BY <3>2, <2>2, <1>16
      <4>2. user[v].start \in used /\ num[user[v].start] = user[v].n
        BY <4>1, StartInRun DEF BlockInv, BlockRuns
      <4>3. user[v].start # s
        BY <4>2, <1>5, <1>6
      <4>4. num'[user[v].start] = user[v].n
        BY <4>2, <4>3, <1>7, <1>18
      <4> QED
        BY <3>2, <4>4, <1>4, <1>14, <1>15, <1>17
    <3> QED
      BY <3>1, <3>2
  <2>3. ASSUME NEW v \in Users, NEW w \in Users, v # w
        PROVE  RunOf(v)' \cap RunOf(w)' = {}
    <3>1. RunOf(v) \cap RunOf(w) = {} /\ RunOf(v) \cap run = {} /\ RunOf(w) \cap run = {}
      BY <2>3, <1>5, <1>17 DEF BlockInv, BlockRuns
    <3> HIDE DEF run
    <3> QED
      BY <3>1, <2>3, <1>15
  <2> QED
    BY <2>1, <2>2, <2>3 DEF BlockRuns
<1>21. BlockFree'
  BY <1>10, <1>11 DEF BlockFree
<1>22. BlockGeometry'
  BY <1>3, <1>11 DEF BlockInv, BlockGeometry
<1>23. BlockGood'
  <2> SUFFICES ASSUME NEW i \in 0 .. (t - 1),
                      i \notin used' \/ \E v \in Users : i \in RunOf(v)'
               PROVE  Contiguous(pool.regions, i)
    BY <1>11 DEF BlockGood
  <2>1. i \notin used \/ \E v \in Users : i \in RunOf(v)
    <3> HIDE DEF run
    <3>1. used' = used \cup run /\ run \cap used = {}
      BY <1>4, <1>5 DEF run
    <3> QED
      BY <3>1, <1>15
  <2> QED
    BY <2>1, <1>3 DEF BlockInv, BlockGood
<1> QED
  BY <1>19, <1>20, <1>21, <1>22, <1>23 DEF BlockInv

LEMMA FreeClearInv ==
  ASSUME BlockInv, NEW u \in Users, FreeClear(u)
  PROVE  BlockInv'
<1>1. PICK h \in UserType : h = user[u]
  BY DEF BlockInv, BlockTypes
<1>h. Holds(u)
  BY DEF Holds, FreeClear
<1>2. PICK n \in Nat, s \in Nat : n = user[u].n /\ n >= 1 /\ s = user[u].start
                                  /\ RunOf(u) = s .. (s + n - 1)
  BY <1>h, StartInRun
<1>3. PICK t \in Nat : t = pool.total /\ t < Width
  BY PoolFields DEF BlockInv, BlockTypes
<1> DEFINE run == s .. (s + n - 1)
<1>4. /\ used' = used \ run
      /\ num' = [i \in DOMAIN num |-> IF i \in run THEN 0 ELSE num[i]]
      /\ pool' = [pool EXCEPT !.free = (pool.free + n) % Width]
      /\ user' = [user EXCEPT ![u] = Idle]
  BY <1>2 DEF FreeClear
<1>5. RunOf(u) = run /\ run \subseteq used /\ s \in run
  BY <1>2, <1>h, StartInRun
<1>7. used \subseteq 0 .. (t - 1) /\ DOMAIN num = 0 .. (t - 1)
      /\ user \in [Users -> UserType] /\ pool \in BlkPoolType
  BY <1>3 DEF BlockInv, BlockTypes
<1>8. pool.free \in Nat /\ pool.free = t - Cardinality(used) /\ t > 0
  <2>1. t > 0
    BY <1>5, <1>7
  <2> QED
    BY <2>1, <1>3, <1>7, PoolFields DEF BlockInv, BlockFree
<1>9. Cardinality(used) = Cardinality(used \ run) + n /\ Cardinality(used \ run) \in Nat
  BY <1>5, <1>7, RunLess
<1>10. PICK m \in Nat : m = t - Cardinality(used') /\ (pool.free + n) % Width = m
  <2> DEFINE c == Cardinality(used)  cc == Cardinality(used')
  <2>1. cc \in Nat /\ c = cc + n /\ pool.free = t - c /\ pool.free \in Nat
    BY <1>4, <1>8, <1>9
  <2>w. Width \in Nat \ {0}
    BY BlockConstants
  <2> HIDE DEF c, cc
  <2>2. PICK m \in Nat : m = pool.free + n /\ m = t - cc /\ m < Width
    <3>1. pool.free + n \in Nat /\ pool.free + n = t - cc /\ pool.free + n < Width
      BY <2>1, <1>3, <2>w
    <3> QED
      BY <3>1
  <2>3. m % Width = m
    BY <2>2, <2>w
  <2> QED
    BY <2>2, <2>3 DEF cc
<1>11. /\ pool' \in BlkPoolType /\ pool'.free = m /\ pool'.total = t
       /\ pool'.state = pool.state /\ pool'.kind = pool.kind /\ pool'.regions = pool.regions
  BY <1>3, <1>4, <1>7, <1>10, PoolFreed
<1>12. Idle \in UserType /\ Idle.pc = "idle"
  BY DEF Idle, UserType
<1>14. user' \in [Users -> UserType] /\ user'[u].pc = "idle"
       /\ \A v \in Users : v # u => user'[v] = user[v]
  BY <1>7, <1>12, <1>4
<1>15. RunOf(u)' = {} /\ \A v \in Users : v # u => RunOf(v)' = RunOf(v)
  BY <1>14 DEF RunOf
<1>16. ~Holds(u)' /\ \A v \in Users : v # u => (Holds(v)' <=> Holds(v))
  BY <1>14 DEF Holds
<1>17. \A v \in Users : v # u => RunOf(v) \cap run = {}
  BY <1>5 DEF BlockInv, BlockRuns
<1> HIDE DEF run
<1>18. DOMAIN num' = 0 .. (t - 1)
       /\ \A i \in 0 .. (t - 1) : i \notin run => num'[i] = num[i]
  BY <1>4, <1>7
<1>19. BlockTypes'
  <2>1. used' \subseteq 0 .. (t - 1)
    BY <1>4, <1>7
  <2>2. (pool'.state = "none" \/ pool'.kind = "user") <=> pool'.total = 0
    BY <1>3, <1>11 DEF BlockInv, BlockTypes
  <2> QED
    BY <2>1, <2>2, <1>3, <1>11, <1>14, <1>18 DEF BlockTypes
<1>20. BlockRuns'
  <2>1. ASSUME NEW v \in Users, user'[v].pc # "idle"
        PROVE  user'[v].n >= 1 /\ pool'.state = "live"
    BY <2>1, <1>11, <1>14 DEF BlockInv, BlockRuns
  <2>2. ASSUME NEW v \in Users, Holds(v)'
        PROVE  RunOf(v)' \subseteq used' /\ num'[user'[v].start] = user'[v].n
    <3>1. v # u /\ Holds(v)
      BY <2>2, <1>16
    <3>2. user[v].start \in RunOf(v) /\ RunOf(v) \subseteq used
          /\ num[user[v].start] = user[v].n
      BY <3>1, StartInRun DEF BlockInv, BlockRuns
    <3>3. user[v].start \notin run /\ RunOf(v) \subseteq used'
      BY <3>1, <3>2, <1>4, <1>17
    <3>4. num'[user[v].start] = user[v].n
      BY <3>2, <3>3, <1>7, <1>18
    <3> QED
      BY <3>1, <3>3, <3>4, <1>14, <1>15
  <2>3. ASSUME NEW v \in Users, NEW w \in Users, v # w
        PROVE  RunOf(v)' \cap RunOf(w)' = {}
    <3>1. RunOf(v) \cap RunOf(w) = {}
      BY <2>3 DEF BlockInv, BlockRuns
    <3> QED
      BY <3>1, <1>15
  <2> QED
    BY <2>1, <2>2, <2>3 DEF BlockRuns
<1>21. BlockFree'
  BY <1>10, <1>11 DEF BlockFree
<1>22. BlockGeometry'
  BY <1>3, <1>11 DEF BlockInv, BlockGeometry
<1>23. BlockGood'
  <2> SUFFICES ASSUME NEW i \in 0 .. (t - 1),
                      i \notin used' \/ \E v \in Users : i \in RunOf(v)'
               PROVE  Contiguous(pool.regions, i)
    BY <1>11 DEF BlockGood
  <2>1. i \notin used \/ \E v \in Users : i \in RunOf(v)
    BY <1>4, <1>5, <1>15
  <2> QED
    BY <2>1, <1>3 DEF BlockInv, BlockGood
<1> QED
  BY <1>19, <1>20, <1>21, <1>22, <1>23 DEF BlockInv

LEMMA BlockInvariant == BSpec => []BlockInv
<1>1. BInit => BlockInv
  BY BlockInitInv
<1>2. BlockInv /\ [BNext]_blockVars => BlockInv'
  <2> SUFFICES ASSUME BlockInv, [BNext]_blockVars PROVE BlockInv'
    OBVIOUS
  <2>1. CASE BNext
    BY <2>1, CreateInv, CreateUserInv, DestroyInv, AllocTestInv, AllocTakeInv, AllocNoneInv,
       FreeReadInv, FreeClearInv DEF BNext
  <2>2. CASE UNCHANGED blockVars
    BY <2>2 DEF blockVars, BlockInv, BlockTypes, BlockRuns, BlockFree, BlockGeometry,
       BlockGood, Holds, RunOf
  <2> QED
    BY <2>1, <2>2
<1> QED
  BY <1>1, <1>2, PTL DEF BSpec

LEMMA RunsFollow ==
  ASSUME BlockInv PROVE RunsApart
<1>1. \A u \in Users : RunOf(u) \subseteq used
  BY DEF BlockInv, BlockRuns, RunOf, Holds
<1>2. \A u \in Users : RunOf(u) \subseteq 0 .. (pool.total - 1)
  BY <1>1 DEF BlockInv, BlockTypes
<1>3. pool.kind = "wd" /\ pool.state = "live" => pool.free = pool.total - Cardinality(used)
  BY PoolFields DEF BlockInv, BlockTypes, BlockFree
<1> QED
  BY <1>2, <1>3 DEF BlockInv, BlockRuns, RunsApart

\* The block an address falls into.
LEMMA BlockOf ==
  ASSUME NEW i \in Nat, NEW b \in 0 .. (BlkSize - 1)
  PROVE  /\ i * Stride \in Nat /\ i * Stride + b \in Nat
         /\ (i * Stride + b) \div Stride = i
<1>1. Stride \in Nat \ {0} /\ b \in 0 .. Stride - 1 /\ b \in Nat
  BY BlockConstants
<1>2. (Stride * i + b) \div Stride = i
  BY <1>1, DivModOf
<1>3. Stride * i = i * Stride /\ i * Stride \in Nat
  BY <1>1
<1> QED
  BY <1>1, <1>2, <1>3

\* The last byte of a block is in the pool's memory.
LEMMA BlockEnds ==
  ASSUME NEW t \in Nat, NEW i \in 0 .. (t - 1), NEW e \in Nat, t * Stride <= e
  PROVE  i * Stride + BlkSize - 1 < e
<1>1. Stride \in Nat /\ BlkSize \in Nat \ {0} /\ BlkSize <= Stride
  BY BlockConstants
<1>2. PICK d \in Nat : t = i + 1 + d
  <2>1. t - (i + 1) \in Nat
    OBVIOUS
  <2> QED
    BY <2>1
<1>3. t * Stride = i * Stride + Stride + d * Stride /\ d * Stride \in Nat /\ i * Stride \in Nat
  BY <1>1, <1>2
<1> QED
  BY <1>1, <1>3

LEMMA MapFollows ==
  ASSUME SlicesFit, BlockInv PROVE MapTrue
<1> SUFFICES ASSUME NEW u \in Users, NEW i \in RunOf(u), NEW b \in 0 .. (BlkSize - 1)
             PROVE  MemMap(i * Stride + b) = IovaMap(pool.regions, i * Stride + b)
  BY DEF MapTrue
<1>1. PICK t \in Nat : t = pool.total
  BY PoolFields DEF BlockInv, BlockTypes
<1>2. i \in used /\ i \in 0 .. (t - 1)
  BY <1>1 DEF BlockInv, BlockRuns, BlockTypes, RunOf, Holds
<1>3. i \in Nat /\ t > 0 /\ ~(i >= t)
  BY <1>2
<1>4. PICK v \in Nat : v = i * Stride
  BY <1>3, BlockOf
<1>5. (v + b) \div Stride = i
  BY <1>3, <1>4, BlockOf
<1>6. PICK r : r = pool.regions
  OBVIOUS
<1>7. MemMap(v + b) = IovaMap(r, v) + b
  <2>1. MemMap(v + b) = Dma(i) + ((v + b) - i * Stride)
    BY <1>1, <1>2, <1>3, <1>5 DEF MemMap
  <2>2. Dma(i) = IovaMap(r, v)
    BY <1>4, <1>6 DEF Dma
  <2>3. (v + b) - v = b
    BY BlockConstants
  <2> QED
    BY <2>1, <2>2, <2>3, <1>4
<1>8. Chained(r) /\ t * Stride <= EndOf(r) /\ AllLong(r)
  BY <1>1, <1>3, <1>6 DEF BlockInv, BlockGeometry
<1>9. EndOf(r) \in Nat
  BY <1>8, EndTyped
<1>10. v + BlkSize - 1 < EndOf(r)
  BY <1>2, <1>4, <1>8, <1>9, BlockEnds
<1>11. IovaMap(r, v + BlkSize - 1) - IovaMap(r, v) = BlkSize - 1
  <2>1. Contiguous(r, i)
    BY <1>1, <1>2, <1>6 DEF BlockInv, BlockGood
  <2> QED
    BY <2>1, <1>4 DEF Contiguous
<1>12. IovaMap(r, v + b) = IovaMap(r, v) + b
  BY <1>8, <1>10, <1>11, BlockInOne
<1> QED
  BY <1>4, <1>6, <1>7, <1>12

\* The runs handed out share no block and the free blocks are counted, for any
\* reserved memory and any interleaving of wd_mem_alloc and wd_mem_free; and the DMA
\* address of every byte of every block handed out is the kernel's, when no block is
\* longer than a slice (wd_pool_init only compares the ends of a block).
THEOREM BlockRunsExact ==
  /\ BSpec => []RunsApart
  /\ SlicesFit => (BSpec => []RunsExact)
<1>1. BlockInv => RunsApart
  BY RunsFollow
<1>2. BSpec => []RunsApart
  BY <1>1, BlockInvariant, PTL
<1>3. ASSUME SlicesFit PROVE BSpec => []RunsExact
  <2>1. BlockInv => RunsExact
    BY <1>3, RunsFollow, MapFollows DEF RunsExact
  <2> QED
    BY <2>1, BlockInvariant, PTL
<1> QED
  BY <1>2, <1>3
=============================================================================
