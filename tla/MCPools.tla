------------------------------- MODULE MCPools -------------------------------
(***************************************************************************)
(* Small instances of the models of what a session or a process keeps:     *)
(* SkeyCache, MemPool, BlockMem and CompStream.  The parts share no state, *)
(* so that a behaviour is one of a single part, its world.                 *)
(***************************************************************************)
EXTENDS SkeyCache, MemPool, BlockMem, CompStream

CONSTANTS Worlds   \* of "skey", "mempool", "bmm" and "stream"

VARIABLE world

poolVars == <<world, skeyVars, memVars, blockVars, strmVars>>

\* The contexts of a session's domain.
Three == <<4, 7, 9>>
Single == <<4>>

\* What wd_reserve_mem may give: one slice, two that touch, two that do not,
\* one that continues behind another's end, one below the other, too little.
Slice(pa, size) == [pa |-> pa, size |-> size]
Reserved == { << Slice(10, 12) >>, << Slice(10, 6), Slice(16, 9) >>,
              << Slice(10, 4), Slice(50, 11) >>,
              << Slice(10, 3), Slice(50, 3), Slice(16, 9) >>,
              << Slice(50, 6), Slice(10, 9) >>, << Slice(10, 3) >> }

\* Threads and pools are alike in every part.
Alike == Permutations(Pickers) \cup Permutations(Holders) \cup Permutations(Pools)

-----------------------------------------------------------------------------
\* The state of the other worlds is any one initial state and stays.
MCInit ==
  /\ world \in Worlds /\ KInit /\ BInit
  /\ MInit /\ (world # "mempool" => taken = {})
  /\ CInit /\ (world # "stream" => dir = "compress" /\ left = 1)

InSkey(A) == world = "skey" /\ A /\ UNCHANGED <<world, memVars, blockVars, strmVars>>
InMempool(A) == world = "mempool" /\ A /\ UNCHANGED <<world, skeyVars, blockVars, strmVars>>
InBmm(A) == world = "bmm" /\ A /\ UNCHANGED <<world, skeyVars, memVars, strmVars>>
InStream(A) == world = "stream" /\ A /\ UNCHANGED <<world, skeyVars, memVars, blockVars>>

MCNext == InSkey(KNext) \/ InMempool(MNext) \/ InBmm(BNext) \/ InStream(CNext)

MCSpec == MCInit /\ [][MCNext]_poolVars
=============================================================================
