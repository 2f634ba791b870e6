--------------------------- MODULE AlgInitProofs ---------------------------
(***************************************************************************)
(* Proofs about AlgInit for every number of threads, platforms, tries and  *)
(* contexts: the status word lets one thread in at a time and is handed on *)
(* whatever fails (wd_alg_try_init, wd_alg_set_init, wd_alg_clear_init), a *)
(* front end that is down holds nothing, and one that is up serves.        *)
(***************************************************************************)
EXTENDS AlgInit, RingArith, FiniteSetTheorems, SequenceTheorems, TLAPS

\* The thread has the status in its hands.
Busy(t) == won[t] \/ pc[t] \in Inside

PcValues == {"idle", "try", "slept"} \cup Inside

StatusType == /\ pc \in [Threads -> PcValues] /\ won \in [Threads -> BOOLEAN]
              /\ status \in {"uninit", "initing", "init"} /\ jammed \in BOOLEAN

\* A thread that won the exchange is asleep and the status is its mark.  There
\* is one busy thread at most; uninit runs under "init", so that status says
\* nothing.
StatusInv ==
  /\ StatusType
  /\ \A t \in Threads : won[t] => pc[t] = "slept" /\ status = "initing"
  /\ \A t, u \in Threads : Busy(t) /\ Busy(u) => t = u
  /\ status = "initing" /\ ~jammed => \E t \in Threads : Busy(t)
  /\ status = "uninit" => \A t \in Threads : ~Busy(t)

\* Nobody is inside at the start.
LEMMA InitStatus == Init => StatusInv
  BY DEF Init, StatusInv, StatusType, PcValues, Busy, Inside

\* The steps of wd_alg_try_init.
LEMMA TryStatus == ASSUME StatusInv, NEW t \in Threads, Call(t) \/ Try(t)
                   PROVE  StatusInv'
<1> USE DEF StatusInv, StatusType, PcValues, Busy, Inside, Goto
<1>1. CASE Call(t)
  BY <1>1 DEF Call
<1>2. CASE TryWin(t)
  BY <1>2 DEF TryWin
<1>3. CASE TryFail(t)
  BY <1>3 DEF TryFail
<1>4. CASE TryExists(t)
  BY <1>4 DEF TryExists
<1>5. CASE SleepTimeout(t)
  BY <1>5 DEF SleepTimeout
<1>6. CASE SleepAgain(t)
  BY <1>6 DEF SleepAgain
<1>7. CASE SleepDone(t)
  BY <1>7 DEF SleepDone
<1> QED BY <1>1, <1>2, <1>3, <1>4, <1>5, <1>6, <1>7 DEF Try

\* Within the phases the thread stays inside and leaves the status alone.
LEMMA InsideStatus ==
  ASSUME StatusInv, NEW t \in Threads, NEW l \in Inside,
         pc[t] \in Inside, pc' = [pc EXCEPT ![t] = l],
         UNCHANGED <<status, won, jammed>>
  PROVE  StatusInv'
  BY DEF StatusInv, StatusType, PcValues, Busy, Inside

\* Nothing the status depends on changes.
LEMMA SameStatus == StatusInv /\ UNCHANGED <<status, pc, won, jammed>> => StatusInv'
  BY DEF StatusInv, StatusType, Busy

\* Every phase of wd_cipher_init2_ goes to a phase or to an error label; the
\* last one leaves with the status "init".
LEMMA PhasesStatus == ASSUME StatusInv, NEW t \in Threads, Phases(t)
                      PROVE  StatusInv'
<1> USE DEF Goto
<1>1. CASE Check(t) \/ Refused(t) \/ Open(t) \/ Discover(t) \/ DiscoverFails(t)
  BY <1>1, InsideStatus DEF Check, Refused, Open, Discover, DiscoverFails,
     Inside
<1>2. CASE AllocCtx(t) \/ AllocBlock(t) \/ DriverSkip(t) \/ DriverInit(t)
  BY <1>2, SameStatus DEF AllocCtx, AllocBlock, DriverSkip, DriverInit,
     tryVars
<1>3. CASE AllocFails(t) \/ SchedInit(t) \/ SchedFails(t) \/ CommonInit(t)
           \/ CommonFails(t)
  BY <1>3, InsideStatus
     DEF AllocFails, SchedInit, SchedFails, CommonInit, CommonFails, Inside
<1>4. CASE Bind(t) \/ DriverFails(t)
  BY <1>4, InsideStatus DEF Bind, DriverFails, Inside
<1>5. CASE SetInit(t)
  BY <1>5 DEF SetInit, StatusInv, StatusType, PcValues, Busy, Inside
<1> QED BY <1>1, <1>2, <1>3, <1>4, <1>5 DEF Phases

\* wd_cipher_uninit2 enters under "init" and ends like a failed init.
LEMMA DownStatus == ASSUME StatusInv, NEW t \in Threads, Uninit(t) \/ Down(t)
                    PROVE  StatusInv'
<1> USE DEF Goto
<1>1. CASE Uninit(t)
  BY <1>1 DEF Uninit, StatusInv, StatusType, PcValues, Busy, Inside
<1>2. CASE Unbind(t) \/ Release(t) \/ Close(t)
  BY <1>2, InsideStatus DEF Unbind, Release, Close, Inside
<1>3. CASE Clear(t)
  BY <1>3 DEF Clear, StatusInv, StatusType, PcValues, Busy, Inside
<1> QED BY <1>1, <1>2, <1>3 DEF Down

\* StatusInv is inductive.
LEMMA NextStatus == StatusInv /\ [Next]_vars => StatusInv'
<1> SUFFICES ASSUME StatusInv, [Next]_vars PROVE StatusInv'
  OBVIOUS
<1>1. CASE UNCHANGED vars
  BY <1>1, SameStatus DEF vars, tryVars
<1>2. CASE Next
  BY <1>2, TryStatus, PhasesStatus, DownStatus DEF Next
<1> QED BY <1>1, <1>2

\* Whatever fails and however many threads call, one thread is inside at a
\* time and hands the status on (wd_alg_try_init), except the one that timed
\* out with the status in its hands.
THEOREM OneAtATime == Spec => []StatusHanded
<1>1. StatusInv => StatusHanded
  <2> SUFFICES ASSUME StatusInv PROVE StatusHanded
    OBVIOUS
  <2> DEFINE busy == {t \in Threads : won[t] \/ pc[t] \in Inside}
  <2>1. Cardinality(busy) <= 1
    <3>1. CASE busy = {}
      BY <3>1, FS_EmptySet
    <3>2. CASE busy # {}
      <4>1. PICK t \in busy : TRUE
        BY <3>2
      <4>2. busy = {t}
        BY <4>1 DEF StatusInv, Busy
      <4> QED BY <4>2, FS_Singleton
    <3> QED BY <3>1, <3>2
  <2>2. status = "initing" /\ ~jammed => busy # {}
    BY DEF StatusInv, Busy
  <2>3. status = "uninit" => busy = {}
    BY DEF StatusInv, Busy
  <2> QED BY <2>1, <2>2, <2>3 DEF StatusHanded
<1> QED BY <1>1, InitStatus, NextStatus, PTL DEF Spec

-----------------------------------------------------------------------------
\* What the front end holds.  Between the calls it holds everything or
\* nothing; a thread inside knows from its phase what there is.  A context is
\* held through the array or lost, never both.

Nobody == \A t \in Threads : pc[t] \notin Inside
Bare == ~arr /\ ~sched /\ ~common /\ internal = << >>
Complete == lib /\ arr /\ sched /\ common

HeldAt(l) ==
  /\ l \in {"check", "open", "clear"} => ~lib /\ Bare
  /\ l = "discover" => lib /\ Bare
  /\ l = "alloc" => lib /\ arr /\ ~sched /\ ~common /\ at[2] \in Nat \ {0}
  /\ l = "common" => lib /\ arr /\ sched /\ ~common
  /\ l \in {"bind", "driver", "unbind", "release"} => Complete
  /\ l = "close" => Bare

CtxInv == /\ setup \in Setups
          /\ internal \in Seq([ctx : Nat, drv : Nat]) /\ IsFiniteSet(live)
          /\ live = lost \cup Handles(internal)
          /\ lost \cap Handles(internal) = {}

HeldInv == /\ CtxInv
           /\ Nobody => IF status = "init" THEN Complete ELSE ~lib /\ Bare
           /\ \A t \in Threads : pc[t] \in Inside => HeldAt(pc[t])

\* What an initialised front end is made of, phase by phase.

SetupInv == initState \in [1 .. DrvCount -> BOOLEAN]

\* Allocation has done the blocks before at[1] and at[2] - 1 contexts of it.
Allocating ==
  /\ at \in Nat \X Nat /\ at[1] \in 1 .. 2 * OpNum + 1 /\ at[2] >= 1
  /\ IF at[1] \in Blocks THEN at[2] <= BlockSize(at[1]) + 1 ELSE at[2] = 1
  /\ \E b \in Blocks : BlockSize(b) > 0
  /\ at[2] > 1 \/ (\E b \in Blocks : b < at[1] /\ BlockSize(b) > 0) =>
       Len(internal) > 0
  /\ Even => \E k \in Nat : Len(internal) = DrvCount * k + (at[2] - 1)

Matched == Even => \A i \in 1 .. Len(internal) : internal[i].drv = BoundDriver(i)

Copied == /\ config \in Seq([ctx : Nat, drv : Nat])
          /\ Len(config) = Len(internal) /\ Len(internal) > 0
          /\ \A i \in 1 .. Len(config) : config[i].ctx = internal[i].ctx

Paired == \A i \in 1 .. Len(config) :
            LET d == BoundDriver(i)
            IN IsHw(d) /\ initState[d] => config[i].ctx \in qp \/ d \in stale

Started == /\ at \in Nat \X Nat /\ at[1] >= 1
           /\ \A i \in 1 .. Len(config) : i < at[1] => initState[BoundDriver(i)]

ServesAt(l) ==
  /\ l = "alloc" => Allocating /\ Matched
  /\ l = "common" => Matched /\ Len(internal) > 0
  /\ l = "bind" => Matched /\ Copied
  /\ l = "driver" => /\ Matched /\ Copied /\ Paired /\ Started
                     /\ \A i \in 1 .. Len(config) : config[i].drv = BoundDriver(i)

ServeInv == /\ SetupInv
            /\ InitServes
            /\ \A t \in Threads : pc[t] \in Inside => ServesAt(pc[t])

\* The handle AllocCtx draws is a new one.
LEMMA FirstFree ==
  ASSUME NEW S, IsFiniteSet(S)
  PROVE  /\ Min(1 .. Cardinality(S) + 1 \ S) \in Nat
         /\ Min(1 .. Cardinality(S) + 1 \ S) \notin S
<1> DEFINE n == Cardinality(S)
           T == (1 .. n + 1) \ S
<1>1. n \in Nat
  BY FS_CardinalityType
<1>2. T # {}
  <2> SUFFICES ASSUME 1 .. n + 1 \in SUBSET S PROVE FALSE
    OBVIOUS
  <2>1. Cardinality(1 .. n + 1) = n + 1
    BY <1>1, FS_Interval
  <2>2. Cardinality(1 .. n + 1) <= n
    BY FS_Subset
  <2> QED BY <1>1, <2>1, <2>2
<1>3. T \in SUBSET Nat /\ T \cap S = {}
  BY <1>1
<1> HIDE DEF T
<1>4. PICK x \in T : \A y \in T : x <= y
  BY <1>2, <1>3, LeastNat
<1>5. Min(T) \in T
  BY <1>4 DEF Min
<1> QED BY <1>3, <1>5 DEF T

\* The handles of an array that grows.
LEMMA HandlesAppend ==
  ASSUME NEW R, NEW s \in Seq(R), NEW x
  PROVE  Handles(Append(s, x)) = Handles(s) \cup {x.ctx}
<1>1. /\ DOMAIN s = 1 .. Len(s) /\ DOMAIN Append(s, x) = 1 .. Len(s) + 1
      /\ Len(s) \in Nat /\ Append(s, x)[Len(s) + 1] = x
      /\ \A i \in 1 .. Len(s) : Append(s, x)[i] = s[i]
  BY AppendProperties, LenProperties
<1>2. DOMAIN Append(s, x) = DOMAIN s \cup {Len(s) + 1}
  BY <1>1
<1> QED BY <1>1, <1>2 DEF Handles

\* Releasing the array keeps the lost contexts apart from the rest.
LEMMA CleanCtx == ASSUME CtxInv, CleanUp, setup' = setup PROVE CtxInv'
<1>1. live' = lost' /\ live' \in SUBSET live
  BY DEF CtxInv, CleanUp
<1>2. IsFiniteSet(live')
  BY <1>1, FS_Subset DEF CtxInv
<1>3. internal' = << >> /\ Handles(internal') = {}
  BY DEF CleanUp, Handles
<1> QED BY <1>1, <1>2, <1>3 DEF CtxInv

\* A thread inside goes to its next phase; nobody else is inside.
LEMMA HeldMove ==
  ASSUME StatusInv, NEW t \in Threads, pc[t] \in Inside, NEW l \in Inside,
         pc'[t] = l, \A u \in Threads : u # t => pc'[u] = pc[u],
         HeldAt(l)', CtxInv'
  PROVE  HeldInv'
<1>1. \A u \in Threads : u # t => pc'[u] \notin Inside
  BY DEF StatusInv, Busy
<1>2. ~Nobody'
  BY DEF Nobody
<1> QED BY <1>1, <1>2 DEF HeldInv

\* The steps of wd_alg_try_init touch none of it.
LEMMA TryHeld == ASSUME StatusInv, HeldInv, NEW t \in Threads, Call(t) \/ Try(t)
                 PROVE  HeldInv'
<1>1. /\ UNCHANGED <<lib, arr, sched, common, internal, live, lost, setup, at>>
      /\ pc[t] \notin Inside /\ \A u \in Threads : u # t => pc'[u] = pc[u]
  BY DEF StatusInv, StatusType, Call, Try, TryWin, TryFail, TryExists,
     SleepTimeout,
         SleepAgain, SleepDone, Goto, drvVars, ctxVars, frontVars, Inside
<1>2. CtxInv'
  BY <1>1 DEF HeldInv, CtxInv, Handles
<1>3. \A l : HeldAt(l) => HeldAt(l)'
  BY <1>1 DEF HeldAt, Bare, Complete
<1>4. CASE SleepDone(t)
  <2>1. pc'[t] = "check" /\ won[t] /\ status = "initing"
    BY <1>4 DEF SleepDone, Goto, StatusInv, StatusType
  <2>2. Nobody
    BY <1>1, <2>1 DEF Nobody, StatusInv, Busy
  <2>3. HeldAt("check")'
    BY <1>1, <2>1, <2>2 DEF HeldInv, HeldAt, Bare
  <2>4. \A u \in Threads : u # t => pc'[u] \notin Inside
    BY <1>1, <2>2 DEF Nobody
  <2>5. ~Nobody'
    BY <2>1 DEF Nobody, Inside
  <2> QED BY <1>2, <2>1, <2>3, <2>4, <2>5 DEF HeldInv
<1>5. CASE ~SleepDone(t)
  <2>1. pc'[t] \notin Inside /\ (status' = "init" <=> status = "init")
    BY <1>5 DEF StatusInv, StatusType, Call, Try, TryWin, TryFail, TryExists,
            SleepTimeout, SleepAgain, Goto, Inside
  <2>2. Nobody' => Nobody
    BY <1>1 DEF Nobody
  <2>3. Nobody' => IF status' = "init" THEN Complete' ELSE (~lib /\ Bare)'
    BY <1>1, <2>1, <2>2 DEF HeldInv, Complete, Bare
  <2>4. \A u \in Threads : pc'[u] \in Inside => HeldAt(pc[u])' /\ pc'[u] = pc[u]
    BY <1>1, <1>3, <2>1 DEF HeldInv
  <2> QED BY <1>2, <2>3, <2>4 DEF HeldInv
<1> QED BY <1>4, <1>5

\* The phases of wd_cipher_init2_: what each makes, and what its error label
\* gives back.
LEMMA PhasesHeld == ASSUME StatusInv, HeldInv, NEW t \in Threads, Phases(t)
                    PROVE  HeldInv'
<1>1. /\ \A l : pc' = [pc EXCEPT ![t] = l] =>
                  pc'[t] = l /\ \A u \in Threads : u # t => pc'[u] = pc[u]
      /\ HeldAt(pc[t]) \/ pc[t] \notin Inside
  BY DEF StatusInv, StatusType, HeldInv
<1>2. CtxInv
  BY DEF HeldInv
<1> USE DEF Goto
<1>3. CASE Check(t) \/ Refused(t) \/ Open(t) \/ DiscoverFails(t)
  <2>1. UNCHANGED <<arr, sched, common, internal, live, lost, setup>>
    BY <1>3 DEF Check, Refused, Open, DiscoverFails, ctxVars, frontVars
  <2>2. CtxInv'
    BY <1>2, <2>1 DEF CtxInv, Handles
  <2>3. CASE Check(t)
    BY <1>1, <2>1, <2>2, <2>3, HeldMove DEF Check, HeldAt, Bare, Inside,
       drvVars
  <2>4. CASE Refused(t)
    BY <1>1, <2>1, <2>2, <2>4, HeldMove DEF Refused, HeldAt, Bare, Inside,
       drvVars
  <2>5. CASE Open(t)
    BY <1>1, <2>1, <2>2, <2>5, HeldMove DEF Open, HeldAt, Bare, Inside
  <2>6. CASE DiscoverFails(t)
    <3>1. pc[t] = "discover" /\ pc' = [pc EXCEPT ![t] = "close"]
      BY <2>6 DEF DiscoverFails
    <3>2. HeldAt("close")'
      BY <1>1, <2>1, <3>1 DEF HeldAt, Bare, Inside
    <3> QED BY <1>1, <2>2, <3>1, <3>2, HeldMove DEF Inside
  <2> QED BY <1>3, <2>3, <2>4, <2>5, <2>6
<1>4. CASE Discover(t)
  <2>1. /\ pc[t] = "discover" /\ pc' = [pc EXCEPT ![t] = "alloc"]
        /\ arr' = TRUE /\ internal' = << >> /\ at' = <<1, 1>>
        /\ UNCHANGED <<lib, sched, common, live, lost, setup>>
    BY <1>4 DEF Discover, drvVars
  <2>2. lib /\ Bare
    BY <1>1, <2>1 DEF HeldAt, Inside
  <2>3. CtxInv'
    BY <1>2, <2>1, <2>2 DEF CtxInv, Bare, Handles
  <2>4. HeldAt("alloc")'
    BY <2>1, <2>2 DEF HeldAt, Bare
  <2> QED BY <1>1, <2>1, <2>3, <2>4, HeldMove DEF Inside
<1>5. CASE AllocCtx(t)
  <2> DEFINE h == Min(1 .. Cardinality(live) + 1 \ live)
             d == ((at[2] - 1) % DrvCount) + 1
             x == [ctx |-> h, drv |-> d]
  <2>1. /\ pc[t] = "alloc" /\ pc' = pc
        /\ live' = live \cup {h} /\ internal' = Append(internal, x)
        /\ at' = <<at[1], at[2] + 1>>
        /\ UNCHANGED <<lib, arr, sched, common, lost, setup>>
    BY <1>5 DEF AllocCtx, tryVars, drvVars
  <2>2. h \in Nat /\ h \notin live
    BY <1>2, FirstFree DEF CtxInv
  <2>3. d \in Nat
    <3>1. at[2] \in Nat \ {0} /\ DrvCount \in Nat \ {0}
      BY <1>1, <1>2, <2>1, SetupAssumption DEF HeldAt, Inside, CtxInv,
         DrvCount
    <3> QED BY <3>1
  <2> HIDE DEF h, d
  <2>4. x.ctx = h /\ x \in [ctx : Nat, drv : Nat]
    BY <2>2, <2>3
  <2> HIDE DEF x
  <2>5. Handles(internal') = Handles(internal) \cup {h}
    BY <1>2, <2>1, <2>4, HandlesAppend DEF CtxInv
  <2>6. internal' \in Seq([ctx : Nat, drv : Nat])
    BY <1>2, <2>1, <2>4, AppendProperties DEF CtxInv
  <2>7. IsFiniteSet(live')
    BY <1>2, <2>1, FS_AddElement DEF CtxInv
  <2>8. CtxInv'
    BY <1>2, <2>1, <2>2, <2>5, <2>6, <2>7 DEF CtxInv
  <2>9. HeldAt("alloc")'
    BY <1>1, <2>1 DEF HeldAt, Inside
  <2> QED BY <2>1, <2>8, <2>9, HeldMove DEF Inside
<1>6. CASE AllocBlock(t) \/ DriverSkip(t) \/ DriverInit(t)
  <2>1. /\ UNCHANGED <<pc, lib, arr, sched, common, internal, live, lost, setup>>
        /\ pc[t] \in Inside
        /\ pc[t] = "alloc" => at'[2] = 1
    BY <1>6 DEF AllocBlock, DriverSkip, DriverInit, tryVars, drvVars,
       ctxVars, Inside
  <2>2. CtxInv'
    BY <1>2, <2>1 DEF CtxInv, Handles
  <2>3. HeldAt(pc[t])'
    BY <1>1, <2>1 DEF HeldAt, Bare, Complete
  <2> QED BY <2>1, <2>2, <2>3, HeldMove
<1>7. CASE AllocFails(t)
  <2>1. /\ pc[t] = "alloc" /\ pc' = [pc EXCEPT ![t] = "close"]
        /\ lost' = lost \cup Handles(internal) /\ arr' = FALSE /\ internal' = << >>
        /\ UNCHANGED <<lib, sched, common, live, setup>>
    BY <1>7 DEF AllocFails, drvVars, frontVars
  <2>2. HeldAt("close")'
    BY <1>1, <2>1 DEF HeldAt, Bare, Inside
  <2>3. CtxInv'
    BY <1>2, <2>1 DEF CtxInv, Handles
  <2> QED BY <1>1, <2>1, <2>2, <2>3, HeldMove DEF Inside
<1>8. CASE SchedInit(t) \/ CommonInit(t) \/ Bind(t) \/ DriverFails(t)
  <2>1. UNCHANGED <<lib, arr, internal, live, lost, setup>>
    BY <1>8 DEF SchedInit, CommonInit, Bind, DriverFails, drvVars, ctxVars
  <2>2. CtxInv'
    BY <1>2, <2>1 DEF CtxInv, Handles
  <2>3. CASE SchedInit(t)
    <3>1. /\ pc[t] = "alloc" /\ pc' = [pc EXCEPT ![t] = "common"]
          /\ sched' = TRUE /\ common' = common
      BY <2>3 DEF SchedInit, frontVars
    <3>2. HeldAt("common")'
      BY <1>1, <2>1, <3>1 DEF HeldAt, Inside
    <3> QED BY <1>1, <2>2, <3>1, <3>2, HeldMove DEF Inside
  <2>4. CASE CommonInit(t)
    <3>1. /\ pc[t] = "common" /\ pc' = [pc EXCEPT ![t] = "bind"]
          /\ common' = TRUE /\ sched' = sched
      BY <2>4 DEF CommonInit, ctxVars
    <3>2. HeldAt("bind")'
      BY <1>1, <2>1, <3>1 DEF HeldAt, Complete, Inside
    <3> QED BY <1>1, <2>2, <3>1, <3>2, HeldMove DEF Inside
  <2>5. CASE Bind(t)
    BY <1>1, <2>1, <2>2, <2>5, HeldMove DEF Bind, HeldAt, Complete, Inside,
       ctxVars
  <2>6. CASE DriverFails(t)
    BY <1>1, <2>1, <2>2, <2>6, HeldMove
       DEF DriverFails, HeldAt, Complete, Inside, ctxVars, frontVars
  <2> QED BY <1>8, <2>3, <2>4, <2>5, <2>6
<1>9. CASE SchedFails(t) \/ CommonFails(t)
  <2>1. /\ pc[t] \in {"alloc", "common"} /\ pc' = [pc EXCEPT ![t] = "close"]
        /\ CleanUp /\ UNCHANGED <<lib, common, setup>>
    BY <1>9 DEF SchedFails, CommonFails, drvVars, frontVars
  <2>2. HeldAt("close")'
    BY <1>1, <2>1 DEF HeldAt, Bare, Inside, CleanUp
  <2>3. CtxInv'
    BY <1>2, <2>1, CleanCtx
  <2> QED BY <1>1, <2>1, <2>2, <2>3, HeldMove DEF Inside
<1>10. CASE SetInit(t)
  <2>1. /\ pc[t] = "driver" /\ pc' = [pc EXCEPT ![t] = "idle"] /\ status' = "init"
        /\ UNCHANGED <<lib, arr, sched, common, internal, live, lost, setup>>
    BY <1>10 DEF SetInit, drvVars, ctxVars, frontVars
  <2>2. CtxInv'
    BY <1>2, <2>1 DEF CtxInv, Handles
  <2>3. Complete'
    BY <1>1, <2>1 DEF HeldAt, Complete, Inside
  <2>4. \A u \in Threads : pc'[u] \notin Inside
    BY ZenonT(60), <1>1, <2>1 DEF StatusInv, Busy, Inside
  <2> QED BY <2>1, <2>2, <2>3, <2>4 DEF HeldInv
<1> QED BY <1>3, <1>4, <1>5, <1>6, <1>7, <1>8, <1>9, <1>10 DEF Phases

\* The way down gives back what there is.
LEMMA DownHeld == ASSUME StatusInv, HeldInv, NEW t \in Threads, Uninit(t) \/ Down(t)
                  PROVE  HeldInv'
<1>1. /\ \A l : pc' = [pc EXCEPT ![t] = l] =>
                  pc'[t] = l /\ \A u \in Threads : u # t => pc'[u] = pc[u]
      /\ HeldAt(pc[t]) \/ pc[t] \notin Inside
  BY DEF StatusInv, StatusType, HeldInv
<1>2. CtxInv
  BY DEF HeldInv
<1> USE DEF Goto
<1>3. CASE Uninit(t)
  <2>1. /\ pc' = [pc EXCEPT ![t] = "unbind"]
        /\ UNCHANGED <<lib, arr, sched, common, internal, live, lost, setup>>
        /\ Nobody /\ status = "init"
    BY <1>3 DEF Uninit, drvVars, ctxVars, frontVars, Nobody
  <2>2. CtxInv'
    BY <1>2, <2>1 DEF CtxInv, Handles
  <2>3. HeldAt("unbind")'
    BY <2>1 DEF HeldInv, HeldAt, Complete
  <2>4. /\ pc'[t] = "unbind" /\ \A u \in Threads : u # t => pc'[u] \notin Inside
    BY <1>1, <2>1 DEF Nobody
  <2>5. ~Nobody'
    BY <2>4 DEF Nobody, Inside
  <2> QED BY <2>2, <2>3, <2>4, <2>5 DEF HeldInv
<1>4. CASE Unbind(t) \/ Close(t)
  <2>1. UNCHANGED <<arr, sched, common, internal, live, lost, setup>>
    BY <1>4 DEF Unbind, Close, ctxVars, frontVars
  <2>2. CtxInv'
    BY <1>2, <2>1 DEF CtxInv, Handles
  <2>3. CASE Unbind(t)
    BY <1>1, <2>1, <2>2, <2>3, HeldMove DEF Unbind, HeldAt, Complete,
       Inside, drvVars
  <2>4. CASE Close(t)
    BY <1>1, <2>1, <2>2, <2>4, HeldMove DEF Close, HeldAt, Bare, Inside
  <2> QED BY <1>4, <2>3, <2>4
<1>5. CASE Release(t)
  <2>1. /\ pc[t] = "release" /\ pc' = [pc EXCEPT ![t] = "close"]
        /\ CleanUp /\ common' = FALSE /\ setup' = setup
    BY <1>5 DEF Release
  <2>2. HeldAt("close")'
    BY <2>1 DEF HeldAt, Bare, CleanUp
  <2>3. CtxInv'
    BY <1>2, <2>1, CleanCtx
  <2> QED BY <1>1, <2>1, <2>2, <2>3, HeldMove DEF Inside
<1>6. CASE Clear(t)
  <2>1. /\ pc[t] = "clear" /\ pc' = [pc EXCEPT ![t] = "idle"] /\ status' = "uninit"
        /\ UNCHANGED <<lib, arr, sched, common, internal, live, lost, setup>>
    BY <1>6 DEF Clear, drvVars, ctxVars, frontVars
  <2>2. CtxInv'
    BY <1>2, <2>1 DEF CtxInv, Handles
  <2>3. ~lib' /\ Bare'
    BY <1>1, <2>1 DEF HeldAt, Bare, Inside
  <2>4. \A u \in Threads : pc'[u] \notin Inside
    BY ZenonT(60), <1>1, <2>1 DEF StatusInv, Busy, Inside
  <2> QED BY <2>1, <2>2, <2>3, <2>4 DEF HeldInv
<1> QED BY <1>3, <1>4, <1>5, <1>6 DEF Down

\* HeldInv is inductive, given that one thread is inside at a time.
LEMMA NextHeld == StatusInv /\ HeldInv /\ [Next]_vars => HeldInv'
<1> SUFFICES ASSUME StatusInv, HeldInv, [Next]_vars PROVE HeldInv'
  OBVIOUS
<1>1. CASE UNCHANGED vars
  <2>1. UNCHANGED <<status, pc, lib, arr, sched, common, internal, live, lost, setup,
                    at>>
    BY <1>1 DEF vars, tryVars, drvVars, ctxVars, frontVars
  <2>2. CtxInv' /\ (Nobody' <=> Nobody) /\ \A l : HeldAt(l) => HeldAt(l)'
    BY <2>1 DEF HeldInv, CtxInv, Handles, Nobody, HeldAt, Bare, Complete
  <2> QED BY <2>1, <2>2 DEF HeldInv, Complete, Bare
<1>2. CASE Next
  BY <1>2, TryHeld, PhasesHeld, DownHeld DEF Next
<1> QED BY <1>1, <1>2

\* At the start nothing is held.
LEMMA InitHeld == Init => HeldInv
<1> SUFFICES ASSUME Init PROVE HeldInv
  OBVIOUS
<1>1. CtxInv
  BY FS_EmptySet DEF Init, CtxInv, Handles
<1> QED BY <1>1 DEF Init, HeldInv, Nobody, Bare, Inside

\* A failed initialisation, at whatever step, and an uninit give back all that
\* was taken, except contexts a failed allocation forgot (wd_alg_attrs_init,
\* wd_cipher_uninit2).
THEOREM NothingLeft == Spec => []DownHoldsNothing
<1>1. StatusInv /\ HeldInv => DownHoldsNothing
  <2> SUFFICES ASSUME StatusInv, HeldInv, status = "uninit"
               PROVE  ~lib /\ ~arr /\ ~sched /\ ~common /\ live = lost
    BY DEF DownHoldsNothing
  <2>1. Nobody
    BY DEF StatusInv, Busy, Nobody
  <2>2. ~lib /\ Bare
    BY <2>1 DEF HeldInv
  <2>3. Handles(internal) = {}
    BY <2>2 DEF Bare, Handles
  <2> QED BY <2>2, <2>3 DEF Bare, HeldInv, CtxInv
<1> QED BY <1>1, InitStatus, NextStatus, InitHeld, NextHeld, PTL DEF Spec
-----------------------------------------------------------------------------
\* A function on 1 .. n is a sequence of length n.
LEMMA FnSeq == ASSUME NEW S, NEW n \in Nat, NEW f \in [1 .. n -> S]
               PROVE  f \in Seq(S) /\ Len(f) = n
  OBVIOUS

\* A whole number of rounds changes nothing of the driver's turn.
LEMMA RoundsAway ==
  ASSUME NEW d \in Nat \ {0}, NEW k \in Nat, NEW n \in Nat
  PROVE  (d * k + n) % d = n % d
<1> DEFINE q == n \div d
           r == n % d
<1>1. q \in Nat /\ r \in 0 .. d - 1 /\ n = d * q + r
  BY DivMod
<1> HIDE DEF q, r
<1>2. k + q \in Nat /\ d * k + n = d * (k + q) + r
  BY <1>1
<1>3. (d * (k + q) + r) % d = r
  BY <1>1, <1>2, DivModOf
<1> QED BY <1>2, <1>3 DEF r

\* The numbers of the setup.
LEMMA SetupNumbers ==
  ASSUME CtxInv
  PROVE  /\ DrvCount \in Nat \ {0} /\ OpNum \in Nat \ {0}
         /\ \A b \in Blocks : BlockSize(b) \in Nat
         /\ \A i \in Nat \ {0} : BoundDriver(i) \in 1 .. DrvCount
<1>1. /\ DrvCount \in Nat \ {0} /\ OpNum \in Nat \ {0}
      /\ \A b \in 1 .. OpNum : setup.nums[b] \in Nat \X Nat
  BY SetupAssumption DEF CtxInv, DrvCount, OpNum
<1>2. ASSUME NEW b \in Blocks PROVE BlockSize(b) \in Nat
  <2>1. CASE b <= OpNum
    <3>1. b \in 1 .. OpNum
      BY <1>1, <2>1 DEF Blocks
    <3> QED BY <1>1, <2>1, <3>1 DEF BlockSize
  <2>2. CASE ~(b <= OpNum)
    <3>1. b - OpNum \in 1 .. OpNum
      BY <1>1, <2>2 DEF Blocks
    <3> QED BY <1>1, <2>2, <3>1 DEF BlockSize
  <2> QED BY <2>1, <2>2
<1>3. ASSUME NEW i \in Nat \ {0} PROVE BoundDriver(i) \in 1 .. DrvCount
  <2>1. i - 1 \in Nat
    OBVIOUS
  <2>2. (i - 1) % DrvCount \in 0 .. DrvCount - 1
    BY <1>1, <2>1, DivMod
  <2> QED BY <1>1, <2>2 DEF BoundDriver
<1> QED BY <1>1, <1>2, <1>3

\* Everything of the setup stays as it is.
LEMMA SameSetup ==
  ASSUME setup' = setup
  PROVE  /\ DrvCount' = DrvCount /\ OpNum' = OpNum /\ Blocks' = Blocks
         /\ \A b : BlockSize(b)' = BlockSize(b)
         /\ \A i : BoundDriver(i)' = BoundDriver(i)
         /\ \A d : IsHw(d)' = IsHw(d)
         /\ Even' = Even
  BY DEF DrvCount, OpNum, Blocks, BlockSize, BoundDriver, IsHw, Even

\* A thread inside goes to its next phase.
LEMMA ServeMove ==
  ASSUME StatusInv, NEW t \in Threads, pc[t] \in Inside, NEW l \in Inside,
         pc'[t] = l, \A u \in Threads : u # t => pc'[u] = pc[u],
         ServesAt(l)', SetupInv'
  PROVE  ServeInv'
<1>1. \A u \in Threads : u # t => pc'[u] \notin Inside
  BY DEF StatusInv, Busy
<1>2. InitServes'
  BY DEF InitServes
<1> QED BY <1>1, <1>2 DEF ServeInv

\* The array grows by one context of the driver whose turn it is.
LEMMA GrowServe ==
  ASSUME StatusInv, HeldInv, ServeInv, NEW t \in Threads, AllocCtx(t)
  PROVE  ServeInv'
<1> DEFINE h == Min(1 .. Cardinality(live) + 1 \ live)
           d == ((at[2] - 1) % DrvCount) + 1
           x == [ctx |-> h, drv |-> d]
           n == Len(internal)
<1>1. /\ pc[t] = "alloc" /\ pc' = pc /\ internal' = Append(internal, x)
      /\ at' = <<at[1], at[2] + 1>> /\ at[1] \in Blocks /\ at[2] <= BlockSize(at[1])
      /\ setup' = setup /\ initState' = initState
  BY DEF AllocCtx, tryVars, drvVars
<1>2. CtxInv /\ SetupInv /\ Allocating /\ Matched
  BY <1>1 DEF HeldInv, ServeInv, ServesAt, Inside
<1>3. /\ DrvCount \in Nat \ {0} /\ OpNum \in Nat \ {0}
      /\ BlockSize(at[1]) \in Nat
      /\ at[1] \in 1 .. 2 * OpNum + 1 /\ at[2] \in Nat \ {0}
  BY <1>1, <1>2, SetupNumbers DEF Allocating
<1>4. /\ n \in Nat /\ Len(internal') = n + 1 /\ internal'[n + 1] = x
      /\ \A i \in 1 .. n : internal'[i] = internal[i]
  <2>1. h \in Nat
    BY <1>2, FirstFree DEF CtxInv
  <2>2. d \in Nat
    BY <1>3
  <2> HIDE DEF h, d
  <2>3. x \in [ctx : Nat, drv : Nat]
    BY <2>1, <2>2
  <2> HIDE DEF x
  <2> QED BY <1>1, <1>2, <2>3, AppendProperties, LenProperties DEF CtxInv
<1> HIDE DEF h
<1>5. Matched'
  <2> SUFFICES ASSUME Even PROVE \A i \in 1 .. n + 1 : internal'[i].drv = BoundDriver(i)
    BY <1>1, <1>4, SameSetup DEF Matched
  <2>1. PICK k \in Nat : n = DrvCount * k + (at[2] - 1)
    BY <1>2 DEF Allocating
  <2>2. at[2] - 1 \in Nat
    BY <1>3
  <2>3. n % DrvCount = (at[2] - 1) % DrvCount
    <3>1. (DrvCount * k + (at[2] - 1)) % DrvCount = (at[2] - 1) % DrvCount
      BY <1>3, <2>2, RoundsAway
    <3> QED BY <2>1, <3>1
  <2>4. BoundDriver(n + 1) = d
    <3>1. (n + 1) - 1 = n
      BY <1>4
    <3> QED BY <2>3, <3>1 DEF BoundDriver
  <2>5. internal'[n + 1].drv = BoundDriver(n + 1)
    BY <1>4, <2>4
  <2>6. \A i \in 1 .. n : internal'[i].drv = BoundDriver(i)
    BY <1>2, <1>4 DEF Matched
  <2>7. \A i \in 1 .. n + 1 : i = n + 1 \/ i \in 1 .. n
    BY <1>4
  <2> QED BY <2>5, <2>6, <2>7
<1>6. Allocating'
  <2>1. /\ at' \in Nat \X Nat /\ at'[1] = at[1] /\ at'[2] = at[2] + 1
        /\ at'[2] >= 1 /\ at'[2] <= BlockSize(at[1]) + 1
    BY SMTT(30), <1>1, <1>3
  <2>2. Even => \E k \in Nat : n + 1 = DrvCount * k + (at'[2] - 1)
    <3> SUFFICES ASSUME Even PROVE \E k \in Nat : n + 1 = DrvCount * k + (at'[2] - 1)
      OBVIOUS
    <3>1. PICK k \in Nat : n = DrvCount * k + (at[2] - 1)
      BY <1>2 DEF Allocating
    <3> DEFINE y == DrvCount * k
    <3>2. y \in Nat /\ n = y + (at[2] - 1)
      BY <1>3, <3>1
    <3> HIDE DEF y
    <3>3. n + 1 = y + (at'[2] - 1)
      BY SMTT(30), <1>3, <2>1, <3>2
    <3> QED BY <3>3 DEF y
  <2>3. n + 1 > 0
    BY <1>4
  <2>4. \E b \in Blocks : BlockSize(b) > 0
    BY <1>2 DEF Allocating
  <2> QED BY <1>1, <1>3, <1>4, <2>1, <2>2, <2>3, <2>4, SameSetup
             DEF Allocating
<1>7. SetupInv'
  BY <1>1, <1>2, SameSetup DEF SetupInv
<1> QED BY <1>1, <1>5, <1>6, <1>7, ServeMove DEF ServesAt, Inside

\* A block is complete: a whole number of rounds if the setup is even.
LEMMA BlockServe ==
  ASSUME StatusInv, HeldInv, ServeInv, NEW t \in Threads, AllocBlock(t)
  PROVE  ServeInv'
<1> DEFINE n == Len(internal)
           m == BlockSize(at[1])
<1>1. /\ pc[t] = "alloc" /\ pc' = pc /\ internal' = internal
      /\ at' = <<at[1] + 1, 1>> /\ at[1] \in Blocks /\ at[2] > m
      /\ setup' = setup /\ initState' = initState
  BY DEF AllocBlock, tryVars, drvVars, ctxVars
<1>2. CtxInv /\ SetupInv /\ Allocating /\ Matched
  BY <1>1 DEF HeldInv, ServeInv, ServesAt, Inside
<1>3. /\ DrvCount \in Nat \ {0} /\ OpNum \in Nat \ {0} /\ m \in Nat
      /\ at[1] \in 1 .. 2 * OpNum /\ at[2] \in Nat \ {0} /\ at[2] = m + 1
  <2>1. /\ DrvCount \in Nat \ {0} /\ OpNum \in Nat \ {0} /\ m \in Nat
        /\ at[2] \in Nat \ {0} /\ at[2] <= m + 1
    BY <1>1, <1>2, SetupNumbers DEF Allocating
  <2> QED BY <1>1, <2>1 DEF Blocks
<1>4. n \in Nat
  BY <1>2, LenProperties DEF CtxInv
<1>5. Matched' /\ SetupInv'
  BY <1>1, <1>2, SameSetup DEF Matched, SetupInv
<1>6. /\ at' \in Nat \X Nat /\ at'[1] = at[1] + 1 /\ at'[2] = 1
      /\ at'[1] \in 1 .. 2 * OpNum + 1
  BY <1>1, <1>3
<1>7. Even => \E k \in Nat : n = DrvCount * k + (at'[2] - 1)
  <2> SUFFICES ASSUME Even PROVE \E k \in Nat : n = DrvCount * k
    BY <1>6
  <2>1. PICK k \in Nat : n = DrvCount * k + m
    <3>1. at[2] - 1 = m
      BY <1>3
    <3> QED BY <1>2, <3>1 DEF Allocating
  <2>2. PICK q \in Nat : m = DrvCount * q
    <3>1. m % DrvCount = 0
      BY <1>1 DEF Even
    <3> DEFINE q == m \div DrvCount
    <3>2. q \in Nat /\ m = DrvCount * q + (m % DrvCount)
      BY <1>3, DivMod
    <3> HIDE DEF q, m
    <3>3. DrvCount * q \in Nat
      BY <1>3, <3>2
    <3>4. m = DrvCount * q
      BY <3>1, <3>2, <3>3
    <3> QED BY <3>2, <3>4
  <2>3. k + q \in Nat /\ n = DrvCount * (k + q)
    BY <1>3, <2>1, <2>2
  <2> QED BY <2>3
<1>8. ASSUME NEW b \in Blocks, b < at[1] + 1, BlockSize(b) > 0 PROVE n > 0
  <2>1. CASE b < at[1]
    BY <1>2, <2>1, <1>8 DEF Allocating
  <2>2. CASE b = at[1]
    <3>1. at[2] > 1
      BY <1>3, <1>8, <2>2
    <3> QED BY <1>2, <3>1 DEF Allocating
  <2> QED BY <1>3, <1>8, <2>1, <2>2 DEF Blocks
<1>9. Allocating'
  <2>1. \E b \in Blocks : BlockSize(b) > 0
    BY <1>2 DEF Allocating
  <2>2. at'[1] \in Blocks => 1 <= BlockSize(at'[1]) + 1
    BY <1>2, SetupNumbers
  <2> QED BY <1>1, <1>4, <1>6, <1>7, <1>8, <2>1, <2>2, SameSetup
             DEF Allocating
<1> QED BY <1>1, <1>5, <1>9, ServeMove DEF ServesAt, Inside

\* wd_cipher_common_init copies the contexts.
LEMMA CopyServe ==
  ASSUME StatusInv, HeldInv, ServeInv, NEW t \in Threads, CommonInit(t)
  PROVE  ServeInv'
<1> DEFINE n == Len(internal)
<1>1. /\ pc[t] = "common" /\ pc' = [pc EXCEPT ![t] = "bind"]
      /\ config' = [i \in DOMAIN internal |-> [ctx |-> internal[i].ctx, drv |-> 0]]
      /\ setup' = setup /\ initState' = initState /\ internal' = internal
  BY DEF CommonInit, Goto, drvVars, ctxVars
<1>2. CtxInv /\ SetupInv /\ Matched /\ n > 0
  BY <1>1 DEF HeldInv, ServeInv, ServesAt, Inside
<1>3. /\ n \in Nat /\ DOMAIN internal = 1 .. n
      /\ \A i \in 1 .. n : internal[i].ctx \in Nat
  <2>1. internal \in Seq([ctx : Nat, drv : Nat])
    BY <1>2 DEF CtxInv
  <2>2. \A i \in 1 .. n : internal[i] \in [ctx : Nat, drv : Nat]
    BY <2>1, ElementOfSeq
  <2> QED BY <2>1, <2>2, LenProperties
<1>4. config' \in [1 .. n -> [ctx : Nat, drv : Nat]]
  BY <1>1, <1>3
<1>5. config' \in Seq([ctx : Nat, drv : Nat]) /\ Len(config') = n
  BY <1>3, <1>4, FnSeq
<1>6. \A i \in 1 .. n : config'[i].ctx = internal[i].ctx
  BY <1>1, <1>3
<1>7. Copied'
  BY <1>1, <1>2, <1>5, <1>6 DEF Copied
<1>8. Matched' /\ SetupInv'
  BY <1>1, <1>2, SameSetup DEF Matched, SetupInv
<1>9. pc'[t] = "bind" /\ \A u \in Threads : u # t => pc'[u] = pc[u]
  BY <1>1 DEF StatusInv, StatusType
<1> QED BY <1>1, <1>7, <1>8, <1>9, ServeMove DEF ServesAt, Inside

\* wd_ctx_bind_drivers gives every context a driver.
LEMMA BindServe ==
  ASSUME StatusInv, HeldInv, ServeInv, NEW t \in Threads, Bind(t)
  PROVE  ServeInv'
<1> DEFINE n == Len(config)
<1>1. /\ pc[t] = "bind" /\ pc' = [pc EXCEPT ![t] = "driver"]
      /\ config' = [i \in DOMAIN config |-> [config[i] EXCEPT !.drv = BoundDriver(i)]]
      /\ stale' = {d \in 1 .. DrvCount : initState[d]} /\ at' = <<1, 1>>
      /\ setup' = setup /\ initState' = initState /\ internal' = internal
  BY DEF Bind, Goto, ctxVars
<1>2. CtxInv /\ SetupInv /\ Matched /\ Copied
  BY <1>1 DEF HeldInv, ServeInv, ServesAt, Inside
<1>3. /\ n \in Nat /\ DOMAIN config = 1 .. n
      /\ \A i \in 1 .. n : config[i] \in [ctx : Nat, drv : Nat]
  BY <1>2, LenProperties, ElementOfSeq DEF Copied
<1>4. \A i \in 1 .. n : BoundDriver(i) \in 1 .. DrvCount /\ BoundDriver(i) \in Nat
  <2>1. \A i \in 1 .. n : i \in Nat \ {0}
    BY <1>3
  <2> QED BY <1>2, <2>1, SetupNumbers
<1>5. \A i \in 1 .. n : /\ config'[i] \in [ctx : Nat, drv : Nat]
                        /\ config'[i].ctx = config[i].ctx
                        /\ config'[i].drv = BoundDriver(i)
  BY <1>1, <1>3, <1>4
<1>6. config' \in [1 .. n -> [ctx : Nat, drv : Nat]]
  BY <1>1, <1>3, <1>5
<1>7. config' \in Seq([ctx : Nat, drv : Nat]) /\ Len(config') = n
  BY <1>3, <1>6, FnSeq
<1>8. Copied'
  BY <1>1, <1>2, <1>5, <1>7 DEF Copied
<1>9. Paired'
  BY <1>1, <1>4, <1>7, SameSetup DEF Paired
<1>10. Started'
  BY <1>1, <1>3, <1>7 DEF Started
<1>11. Matched' /\ SetupInv'
  BY <1>1, <1>2, SameSetup DEF Matched, SetupInv
<1>12. \A i \in 1 .. Len(config') : config'[i].drv = BoundDriver(i)'
  BY <1>1, <1>5, <1>7, SameSetup
<1>13. pc'[t] = "driver" /\ \A u \in Threads : u # t => pc'[u] = pc[u]
  BY <1>1 DEF StatusInv, StatusType
<1>14. ServesAt("driver")'
  BY <1>8, <1>9, <1>10, <1>11, <1>12 DEF ServesAt
<1> QED BY <1>1, <1>11, <1>13, <1>14, ServeMove DEF Inside

\* wd_ctx_init_driver goes on to the next context: the driver of this one is
\* initialised, now or before, and its queue pairs are made.
LEMMA StartServe ==
  ASSUME StatusInv, HeldInv, ServeInv, NEW t \in Threads, DriverSkip(t) \/ DriverInit(t)
  PROVE  ServeInv'
<1> DEFINE n == Len(config)
           d == config[at[1]].drv
<1>1. /\ pc[t] = "driver" /\ pc' = pc /\ at[1] \in DOMAIN config
      /\ at' = <<at[1] + 1, 1>>
      /\ UNCHANGED <<setup, config, internal, stale>>
  BY DEF DriverSkip, DriverInit, tryVars, drvVars, ctxVars
<1>2. \/ initState[d] /\ initState' = initState /\ qp' = qp
      \/ /\ initState' = [initState EXCEPT ![d] = TRUE]
         /\ qp' = qp \cup QueuePairs(d)
  BY DEF DriverSkip, DriverInit, drvVars
<1>3. /\ CtxInv /\ SetupInv /\ Matched /\ Copied /\ Paired /\ Started
      /\ \A i \in 1 .. n : config[i].drv = BoundDriver(i)
  BY <1>1 DEF HeldInv, ServeInv, ServesAt, Inside
<1>4. n \in Nat /\ DOMAIN config = 1 .. n /\ at[1] \in 1 .. n
  BY <1>1, <1>3, LenProperties DEF Copied
<1>5. \A i \in 1 .. n : BoundDriver(i) \in 1 .. DrvCount
  <2>1. \A i \in 1 .. n : i \in Nat \ {0}
    BY <1>4
  <2> QED BY <1>3, <2>1, SetupNumbers
<1>6. d = BoundDriver(at[1]) /\ d \in 1 .. DrvCount
  BY <1>3, <1>4, <1>5
<1> HIDE DEF d
<1>7. /\ initState' \in [1 .. DrvCount -> BOOLEAN] /\ initState'[d]
      /\ \A e \in 1 .. DrvCount : initState[e] => initState'[e]
      /\ \A e \in 1 .. DrvCount : initState'[e] => initState[e] \/ e = d
  BY <1>2, <1>3, <1>6 DEF SetupInv
<1>8. SetupInv'
  BY <1>1, <1>7, SameSetup DEF SetupInv
<1>9. Matched' /\ Copied' /\ \A i \in 1 .. Len(config') : config'[i].drv = BoundDriver(i)'
  BY <1>1, <1>3, SameSetup DEF Matched, Copied
<1>10. Started'
  <2>1. /\ at' \in Nat \X Nat /\ at'[1] >= 1 /\ at'[1] = at[1] + 1
    BY <1>1, <1>4
  <2>2. ASSUME NEW i \in 1 .. n, i < at[1] + 1 PROVE initState'[BoundDriver(i)]
    <3>1. CASE i < at[1]
      BY <1>3, <1>5, <1>7, <3>1 DEF Started
    <3>2. CASE i = at[1]
      BY <1>6, <1>7, <3>2
    <3> QED BY <1>4, <2>2, <3>1, <3>2
  <2> QED BY <1>1, <2>1, <2>2, SameSetup DEF Started
<1>11. Paired'
  <2>1. ASSUME NEW i \in 1 .. n, IsHw(BoundDriver(i)), initState'[BoundDriver(i)]
        PROVE  config[i].ctx \in qp' \/ BoundDriver(i) \in stale
    <3>1. CASE initState[BoundDriver(i)]
      <4>1. config[i].ctx \in qp \/ BoundDriver(i) \in stale
        BY <1>3, <2>1, <3>1 DEF Paired
      <4> QED BY <1>2, <4>1
    <3>2. CASE ~initState[BoundDriver(i)]
      <4>1. BoundDriver(i) = d
        BY <1>5, <1>7, <2>1, <3>2
      <4>2. qp' = qp \cup QueuePairs(d)
        BY <1>2, <3>2, <4>1
      <4>3. config[i].ctx \in QueuePairs(d)
        BY <1>3, <1>4, <2>1, <4>1 DEF QueuePairs
      <4> QED BY <4>2, <4>3
    <3> QED BY <3>1, <3>2
  <2> QED BY <1>1, <2>1, SameSetup DEF Paired
<1>12. ServesAt("driver")'
  BY <1>9, <1>10, <1>11 DEF ServesAt
<1> QED BY <1>1, <1>8, <1>12, ServeMove DEF Inside

\* The last context is done: the front end serves.
LEMMA DoneServe ==
  ASSUME StatusInv, HeldInv, ServeInv, NEW t \in Threads, SetInit(t)
  PROVE  ServeInv'
<1> DEFINE n == Len(config)
<1>1. /\ pc[t] = "driver" /\ pc' = [pc EXCEPT ![t] = "idle"]
      /\ at[1] \notin DOMAIN config
      /\ UNCHANGED <<setup, drvVars, ctxVars, frontVars>>
  BY DEF SetInit, Goto
<1>2. /\ CtxInv /\ SetupInv /\ Matched /\ Copied /\ Paired /\ Started /\ Complete
      /\ \A i \in 1 .. n : config[i].drv = BoundDriver(i)
  BY <1>1 DEF HeldInv, HeldAt, ServeInv, ServesAt, Inside
<1>3. n \in Nat /\ DOMAIN config = 1 .. n /\ n = Len(internal) /\ n > 0
  BY <1>2, LenProperties DEF Copied
<1>4. at[1] \in Nat /\ at[1] > n
  BY <1>1, <1>2, <1>3 DEF Started
<1>5. ASSUME NEW i \in 1 .. n
      PROVE  LET c == config[i].ctx  d == config[i].drv
             IN /\ c \in live /\ c = internal[i].ctx /\ d # 0 /\ initState[d]
                /\ IsHw(d) => c \in qp \/ d \in stale
                /\ Even => internal[i].drv = d
  <2> DEFINE c == config[i].ctx
             d == config[i].drv
  <2>1. d = BoundDriver(i) /\ i \in Nat \ {0}
    BY <1>2, <1>3
  <2>2. d \in 1 .. DrvCount /\ d # 0
    BY <1>2, <2>1, SetupNumbers
  <2>3. initState[d]
    BY <1>2, <1>3, <1>4, <2>1 DEF Started
  <2>4. IsHw(d) => c \in qp \/ d \in stale
    BY <1>2, <2>1, <2>3 DEF Paired
  <2>5. Even => internal[i].drv = d
    BY <1>2, <1>3, <2>1 DEF Matched
  <2>6. c = internal[i].ctx
    BY <1>2 DEF Copied
  <2>7. c \in live
    <3>1. DOMAIN internal = 1 .. n
      BY <1>2, <1>3, LenProperties DEF CtxInv
    <3> QED BY <1>2, <2>6, <3>1 DEF CtxInv, Handles
  <2> HIDE DEF c, d
  <2>8. /\ c \in live /\ c = internal[i].ctx /\ d # 0 /\ initState[d]
        /\ IsHw(d) => c \in qp \/ d \in stale
        /\ Even => internal[i].drv = d
    BY <2>2, <2>3, <2>4, <2>5, <2>6, <2>7
  <2> QED BY <2>8 DEF c, d
<1>6. UNCHANGED <<lib, arr, sched, common, config, internal, live, initState, qp, stale>>
  BY <1>1 DEF drvVars, ctxVars, frontVars
<1>7. InitServes'
  BY <1>1, <1>2, <1>3, <1>5, <1>6, SameSetup DEF InitServes, Complete
<1>8. \A u \in Threads : pc'[u] \notin Inside
  BY <1>1 DEF StatusInv, StatusType, Busy, Inside
<1>9. SetupInv'
  BY <1>1, <1>2, <1>6, SameSetup DEF SetupInv
<1> QED BY <1>7, <1>8, <1>9 DEF ServeInv

\* The other phases of wd_cipher_init2_.
LEMMA PhasesServe ==
  ASSUME StatusInv, HeldInv, ServeInv, NEW t \in Threads, Phases(t)
  PROVE  ServeInv'
<1>1. \A l : pc' = [pc EXCEPT ![t] = l] =>
               pc'[t] = l /\ \A u \in Threads : u # t => pc'[u] = pc[u]
  BY DEF StatusInv, StatusType
<1>2. CtxInv /\ SetupInv
  BY DEF HeldInv, ServeInv
<1> USE DEF Goto
<1>3. CASE Check(t) \/ Refused(t) \/ Open(t) \/ DiscoverFails(t) \/ AllocFails(t)
           \/ SchedFails(t) \/ CommonFails(t) \/ DriverFails(t)
  <2>1. SetupInv'
    <3>1. CASE Open(t) \/ DriverFails(t)
      BY <1>2, <3>1 DEF Open, DriverFails, SetupInv, DrvCount
    <3>2. CASE ~(Open(t) \/ DriverFails(t))
      BY <1>2, <1>3, <3>2
         DEF Check, Refused, DiscoverFails, AllocFails, SchedFails,
             CommonFails,
             SetupInv, DrvCount, drvVars
    <3> QED BY <3>1, <3>2
  <2>2. PICK l \in {"open", "clear", "discover", "close", "unbind"} :
          pc[t] \in Inside /\ pc' = [pc EXCEPT ![t] = l]
    BY <1>3 DEF Check, Refused, Open, DiscoverFails, AllocFails, SchedFails,
                CommonFails, DriverFails, Inside
  <2>3. l \in Inside /\ ServesAt(l)'
    BY <2>2 DEF ServesAt, Inside
  <2> QED BY <1>1, <2>1, <2>2, <2>3, ServeMove
<1>4. CASE Discover(t)
  <2>1. /\ pc[t] = "discover" /\ pc' = [pc EXCEPT ![t] = "alloc"]
        /\ internal' = << >> /\ at' = <<1, 1>> /\ setup' = setup
        /\ initState' = initState /\ \E b \in Blocks : BlockSize(b) > 0
    BY <1>4 DEF Discover, drvVars
  <2>2. SetupInv'
    BY <1>2, <2>1 DEF SetupInv, DrvCount
  <2>3. /\ DrvCount \in Nat \ {0} /\ OpNum \in Nat \ {0}
        /\ \A b \in Blocks : BlockSize(b) \in Nat
    BY <1>2, SetupNumbers
  <2>4. Len(internal') = 0
    BY <2>1
  <2>5. Matched'
    BY <2>4 DEF Matched
  <2>6. /\ at' \in Nat \X Nat /\ at'[1] = 1 /\ at'[2] = 1
        /\ 1 \in 1 .. 2 * OpNum + 1 /\ 1 \in Blocks
        /\ 1 <= BlockSize(1) + 1
    BY <2>1, <2>3 DEF Blocks
  <2>7. ~\E b \in Blocks : b < 1
    BY <2>3 DEF Blocks
  <2>8. 0 \in Nat /\ 0 = DrvCount * 0 + (1 - 1)
    BY <2>3
  <2>9. Even' => \E k \in Nat : 0 = DrvCount * k + (1 - 1)
    BY <2>8
  <2>10. Allocating'
    BY <2>1, <2>4, <2>6, <2>7, <2>9, SameSetup DEF Allocating
  <2>11. ServesAt("alloc")'
    BY <2>5, <2>10 DEF ServesAt
  <2> QED BY <1>1, <2>1, <2>2, <2>11, ServeMove DEF Inside
<1>5. CASE SchedInit(t)
  <2>1. /\ pc[t] = "alloc" /\ pc' = [pc EXCEPT ![t] = "common"]
        /\ internal' = internal /\ setup' = setup /\ initState' = initState
        /\ at[1] \notin Blocks
    BY <1>5 DEF SchedInit, drvVars
  <2>2. SetupInv' /\ Matched /\ Allocating
    BY <1>2, <2>1 DEF SetupInv, DrvCount, ServeInv, ServesAt, Inside
  <2>3. OpNum \in Nat \ {0} /\ at[1] = 2 * OpNum + 1
    <3>1. OpNum \in Nat \ {0} /\ at[1] \in 1 .. 2 * OpNum + 1
      BY <1>2, <2>2, SetupNumbers DEF Allocating
    <3> QED BY <2>1, <3>1 DEF Blocks
  <2>4. \A b \in Blocks : b < at[1]
    BY <2>3 DEF Blocks
  <2>5. Len(internal) > 0
    BY <2>2, <2>4 DEF Allocating
  <2>6. ServesAt("common")'
    BY <2>1, <2>2, <2>5, SameSetup DEF ServesAt, Matched
  <2> QED BY <1>1, <2>1, <2>2, <2>6, ServeMove DEF Inside
<1>6. CASE AllocCtx(t) \/ AllocBlock(t) \/ CommonInit(t) \/ Bind(t)
  BY <1>6, GrowServe, BlockServe, CopyServe, BindServe
<1>7. CASE DriverSkip(t) \/ DriverInit(t) \/ SetInit(t)
  BY <1>7, StartServe, DoneServe
<1> QED BY <1>3, <1>4, <1>5, <1>6, <1>7 DEF Phases

\* The way down; nobody relies on the contexts then.
LEMMA DownServe == ASSUME StatusInv, ServeInv, NEW t \in Threads, Uninit(t) \/ Down(t)
                   PROVE  ServeInv'
<1> USE DEF Goto
<1>1. SetupInv'
  BY DEF ServeInv, SetupInv, DrvCount, Uninit, Down, Unbind, Release, Close,
     Clear,
         drvVars
<1>2. CASE Unbind(t) \/ Release(t) \/ Close(t)
  <2>1. PICK l \in {"release", "close", "clear"} :
          pc[t] \in Inside /\ pc' = [pc EXCEPT ![t] = l]
    BY <1>2 DEF Unbind, Release, Close, Inside
  <2>2. l \in Inside /\ ServesAt(l)'
    BY <2>1 DEF ServesAt, Inside
  <2>3. pc'[t] = l /\ \A u \in Threads : u # t => pc'[u] = pc[u]
    BY <2>1 DEF StatusInv, StatusType
  <2> QED BY <1>1, <2>1, <2>2, <2>3, ServeMove
<1>3. CASE Uninit(t)
  <2>1. /\ pc' = [pc EXCEPT ![t] = "unbind"]
        /\ \A u \in Threads : pc[u] \notin Inside
    BY <1>3 DEF Uninit
  <2>2. pc'[t] = "unbind" /\ \A u \in Threads : u # t => pc'[u] \notin Inside
    BY <2>1 DEF StatusInv, StatusType
  <2>3. InitServes' /\ ServesAt("unbind")'
    BY <2>2 DEF InitServes, ServesAt, Inside
  <2> QED BY <1>1, <2>2, <2>3 DEF ServeInv
<1>4. CASE Clear(t)
  <2>1. status' = "uninit" /\ pc[t] = "clear" /\ pc' = [pc EXCEPT ![t] = "idle"]
    BY <1>4 DEF Clear
  <2>2. \A u \in Threads : pc'[u] \notin Inside
    BY <2>1 DEF StatusInv, StatusType, Busy, Inside
  <2>3. InitServes'
    BY <2>1 DEF InitServes
  <2> QED BY <1>1, <2>2, <2>3 DEF ServeInv
<1> QED BY <1>2, <1>3, <1>4 DEF Down

\* What nothing but the status moves in keeps serving.
LEMMA SameServe ==
  ASSUME ServeInv, UNCHANGED <<setup, drvVars, ctxVars, frontVars>>,
         status' = "init" => status = "init",
         \A u \in Threads : pc'[u] \in Inside => pc[u] = pc'[u] \/ pc'[u] = "check",
         \A u \in Threads : pc[u] \in Inside => pc'[u] \in Inside
  PROVE  ServeInv'
<1>1. UNCHANGED <<setup, lib, initState, stale, arr, internal, sched, live, lost, config,
                  common, qp, at>>
  BY DEF drvVars, ctxVars, frontVars
<1>2. SetupInv'
  BY <1>1, SameSetup DEF ServeInv, SetupInv
<1>3. \A l : ServesAt(l) => ServesAt(l)'
  BY ZenonT(60), <1>1, SameSetup DEF ServesAt, Allocating, Matched, Copied, Paired,
     Started
<1>4. InitServes'
  <2> SUFFICES ASSUME status' = "init", \A u \in Threads : pc'[u] \notin Inside
               PROVE  InitServes'
    BY DEF InitServes
  <2>1. status = "init" /\ \A u \in Threads : pc[u] \notin Inside
    OBVIOUS
  <2> QED BY <1>1, <2>1, SameSetup DEF ServeInv, InitServes
<1>5. ServesAt("check")'
  BY DEF ServesAt
<1>6. ASSUME NEW u \in Threads, pc'[u] \in Inside PROVE ServesAt(pc[u])'
  <2>1. CASE pc'[u] = "check"
    BY <1>5, <2>1
  <2>2. CASE pc[u] = pc'[u]
    BY <1>3, <1>6, <2>2 DEF ServeInv
  <2> QED BY <1>6, <2>1, <2>2
<1> QED BY <1>2, <1>4, <1>6 DEF ServeInv

\* ServeInv is inductive, given the two before.
LEMMA NextServe == StatusInv /\ HeldInv /\ ServeInv /\ [Next]_vars => ServeInv'
<1> SUFFICES ASSUME StatusInv, HeldInv, ServeInv, [Next]_vars PROVE ServeInv'
  OBVIOUS
<1>1. CASE UNCHANGED vars
  BY <1>1, SameServe DEF vars, tryVars
<1>2. ASSUME NEW t \in Threads, Call(t) \/ Try(t) PROVE ServeInv'
  <2>1. UNCHANGED <<setup, drvVars, ctxVars, frontVars>>
    BY <1>2 DEF Call, Try, TryWin, TryFail, TryExists, SleepTimeout,
       SleepAgain, SleepDone
  <2>2. status' = "init" => status = "init"
    BY <1>2 DEF Call, Try, TryWin, TryFail, TryExists, SleepTimeout,
       SleepAgain, SleepDone
  <2>3. PICK l \in {"try", "slept", "idle", "check"} :
          pc[t] \notin Inside /\ pc' = [pc EXCEPT ![t] = l]
    BY <1>2 DEF Call, Try, TryWin, TryFail, TryExists, SleepTimeout,
       SleepAgain,
                SleepDone, Goto, Inside
  <2>4. pc'[t] = l /\ \A u \in Threads : u # t => pc'[u] = pc[u]
    BY <2>3 DEF StatusInv, StatusType
  <2>5. l \in Inside => l = "check"
    BY <2>3 DEF Inside
  <2> QED BY <2>1, <2>2, <2>3, <2>4, <2>5, SameServe
<1>3. CASE Next
  BY <1>2, <1>3, PhasesServe, DownServe DEF Next
<1> QED BY <1>1, <1>3

\* Before the first init nothing is claimed.
LEMMA InitServe == Init => ServeInv
  BY DEF Init, ServeInv, SetupInv, InitServes, Inside

\* Whatever threads call and whatever failed before, a front end that says it
\* is initialised serves: library, array, scheduler and copy are there, there is
\* a context, each is live and bound to an initialised driver, and a hardware
\* context has its queue pair unless its driver had been initialised before
\* (wd_cipher_init2_, wd_alloc_ctxs_batch, wd_ctx_bind_drivers,
\* wd_ctx_init_driver).
THEOREM ReadyServes == Spec => []InitServes
<1>1. ServeInv => InitServes
  BY DEF ServeInv
<1> QED BY <1>1, InitStatus, NextStatus, InitHeld, NextHeld, InitServe,
           NextServe, PTL
        DEF Spec
=============================================================================
