------------------------------- MODULE AlgInit -------------------------------
(***************************************************************************)
(* Bringing an algorithm's front end up and down: wd_cipher_init2_ and     *)
(* wd_cipher_uninit2 with the phases of wd_util.c they run (status word,   *)
(* driver discovery, context allocation, scheduler, private copy, driver   *)
(* binding, driver initialisation).  Any thread may call init; while a     *)
(* thread is inside, only the status word is shared with the others.  The  *)
(* application calls uninit once for an initialised front end.             *)
(* The registry behind discovery and its use counts are in DrvRegistry,    *)
(* the domains the scheduler files the contexts in are in SchedDomain; the *)
(* soft driver a hardware driver falls back on is left out.                *)
(***************************************************************************)
EXTENDS Integers, Sequences, FiniteSets, FiniteSetsExt

CONSTANTS Threads,
          Setups,    \* the platforms and parameters considered, see `setup'
          Retries,   \* tries before WD_INIT_RETRY_TIMEOUT is over
          MaxLost    \* bound on the contexts failed initialisations lose

ASSUME BoundAssumption == Retries \in Nat \ {0} /\ MaxLost \in Nat
ASSUME SetupAssumption ==
  \A s \in Setups : /\ Len(s.drivers) \in Nat \ {0} /\ Len(s.nums) \in Nat \ {0}
                    /\ \A b \in 1 .. Len(s.nums) : s.nums[b] \in Nat \X Nat

VARIABLES
  setup,      \* drivers: calc_type of each discovered driver, in array order;
              \* nums: sync_ctx_num and async_ctx_num of each op_type
  status,     \* wd_cipher_setting.status
  pc, count, won,   \* control point of a thread, its tries, result of the CAS
  lib,        \* the driver libraries are held by this front end
  initState,  \* init_state of each driver
  arr,        \* attrs.ctx_config_internal and its drv_array exist
  internal,   \* ctx_config_internal->ctxs: handle and allocating driver
  sched,      \* attrs.sched exists
  config,     \* wd_cipher_setting.config.ctxs: handle and bound driver
  common,     \* the pool and the scheduler copy exist, priv is set
  at,         \* loop position of the thread inside
  live,       \* contexts the drivers have handed out
  qp,         \* contexts with a queue pair as their private data
  lost,       \* history: contexts a failed allocation forgot
  stale,      \* history: drivers found initialised when binding was done
  jammed      \* history: a thread timed out with the status in its hands

tryVars == <<status, pc, count, won, jammed>>
drvVars == <<lib, initState, stale>>
ctxVars == <<arr, internal, sched, live, lost>>
frontVars == <<config, common, qp, at>>
vars == <<setup, tryVars, drvVars, ctxVars, frontVars>>

DrvCount == Len(setup.drivers)
OpNum == Len(setup.nums)

\* wd_alloc_ctxs_batch goes through the operations for synchronous contexts,
\* then again for asynchronous ones.
Blocks == 1 .. 2 * OpNum
BlockSize(b) == IF b <= OpNum THEN setup.nums[b][1] ELSE setup.nums[b - OpNum][2]

Handles(ctxs) == {ctxs[i].ctx : i \in DOMAIN ctxs}
IsHw(d) == setup.drivers[d] = "hw"

Init == /\ setup \in Setups
        /\ status = "uninit"
        /\ pc = [t \in Threads |-> "idle"]
        /\ count = [t \in Threads |-> 0] /\ won = [t \in Threads |-> FALSE]
        /\ lib = FALSE /\ initState = [d \in 1 .. DrvCount |-> FALSE]
        /\ arr = FALSE /\ internal = <<>> /\ sched = FALSE
        /\ config = <<>> /\ common = FALSE /\ at = <<1, 1>>
        /\ live = {} /\ qp = {} /\ lost = {} /\ stale = {} /\ jammed = FALSE

Goto(t, label) == pc' = [pc EXCEPT ![t] = label]

-----------------------------------------------------------------------------
\* wd_alg_try_init

Call(t) == /\ pc[t] = "idle"
           /\ count' = [count EXCEPT ![t] = 0]
           /\ Goto(t, "try")
           /\ UNCHANGED <<setup, status, won, jammed, drvVars, ctxVars, frontVars>>

\* The compare-and-exchange takes the status.
TryWin(t) == /\ pc[t] = "try" /\ status = "uninit"
             /\ status' = "initing"
             /\ won' = [won EXCEPT ![t] = TRUE]
             /\ Goto(t, "slept")
             /\ UNCHANGED <<setup, count, jammed, drvVars, ctxVars, frontVars>>

\* It fails, for another thread is inside or because it is a weak one.
TryFail(t) == /\ pc[t] = "try" /\ status # "init"
              /\ won' = [won EXCEPT ![t] = FALSE]
              /\ Goto(t, "slept")
              /\ UNCHANGED <<setup, status, count, jammed, drvVars, ctxVars, frontVars>>

\* -WD_EEXIST
TryExists(t) == /\ pc[t] = "try" /\ status = "init"
                /\ Goto(t, "idle")
                /\ UNCHANGED <<setup, status, count, won, jammed, drvVars, ctxVars,
                               frontVars>>

\* The time is up: -WD_ETIMEDOUT, without a look at the result.
SleepTimeout(t) == /\ pc[t] = "slept" /\ count[t] + 1 >= Retries
                   /\ count' = [count EXCEPT ![t] = 0]
                   /\ won' = [won EXCEPT ![t] = FALSE]
                   /\ jammed' = (jammed \/ won[t])
                   /\ Goto(t, "idle")
                   /\ UNCHANGED <<setup, status, drvVars, ctxVars, frontVars>>

\* Mutant of SleepAgain: the tries are not counted.
SleepsForEver(t) == /\ pc[t] = "slept" /\ count[t] + 1 < Retries /\ ~won[t]
                    /\ Goto(t, "try")
                    /\ UNCHANGED <<setup, status, count, won, jammed, drvVars, ctxVars,
                                   frontVars>>

SleepAgain(t) == /\ pc[t] = "slept" /\ count[t] + 1 < Retries /\ ~won[t]
                 /\ count' = [count EXCEPT ![t] = @ + 1]
                 /\ Goto(t, "try")
                 /\ UNCHANGED <<setup, status, won, jammed, drvVars, ctxVars, frontVars>>

SleepDone(t) == /\ pc[t] = "slept" /\ count[t] + 1 < Retries /\ won[t]
                /\ count' = [count EXCEPT ![t] = 0]
                /\ won' = [won EXCEPT ![t] = FALSE]
                /\ Goto(t, "check")
                /\ UNCHANGED <<setup, status, jammed, drvVars, ctxVars, frontVars>>

-----------------------------------------------------------------------------
\* wd_cipher_init2_ up to the allocation of contexts

Check(t) == /\ pc[t] = "check"
            /\ Goto(t, "open")
            /\ UNCHANGED <<setup, status, count, won, jammed, drvVars, ctxVars, frontVars>>

\* Mutant of Refused: the error path forgets the status.
RefusedJams(t) == /\ pc[t] \in {"check", "open"}
                  /\ Goto(t, "idle")
                  /\ UNCHANGED <<setup, status, count, won, jammed, drvVars, ctxVars,
                                 frontVars>>

\* A bad parameter or no driver library: goto out_uninit.
Refused(t) == /\ pc[t] \in {"check", "open"}
              /\ Goto(t, "clear")
              /\ UNCHANGED <<setup, status, count, won, jammed, drvVars, ctxVars,
                             frontVars>>

\* wd_cipher_open_driver opens the libraries with RTLD_NODELETE: their data
\* are fresh the first time only, which is how the drivers begin.
Open(t) == /\ pc[t] = "open"
           /\ lib' = TRUE
           /\ Goto(t, "discover")
           /\ UNCHANGED <<setup, status, count, won, jammed, initState, stale, ctxVars,
                          frontVars>>

\* The private configuration is cleared; wd_ctx_param_init and
\* wd_ctx_config_init find the drivers and at least one context to allocate,
\* and wd_alg_attrs_sched_check agrees.
Discover(t) == /\ pc[t] = "discover" /\ \E b \in Blocks : BlockSize(b) > 0
               /\ arr' = TRUE /\ internal' = <<>> /\ config' = <<>>
               /\ at' = <<1, 1>>
               /\ Goto(t, "alloc")
               /\ UNCHANGED <<setup, status, count, won, jammed, drvVars, sched, live,
                              lost, common, qp>>

\* One of the three refuses: what wd_ctx_config_init made is released.
DiscoverFails(t) == /\ pc[t] = "discover"
                    /\ config' = <<>>
                    /\ Goto(t, "close")
                    /\ UNCHANGED <<setup, status, count, won, jammed, drvVars, ctxVars,
                                   common, qp, at>>

-----------------------------------------------------------------------------
\* wd_alg_ctx_init

\* wd_alloc_ctxs_by_mode: the driver goes round within a block.
AllocCtx(t) == /\ pc[t] = "alloc" /\ at[1] \in Blocks /\ at[2] <= BlockSize(at[1])
               /\ LET h == Min(1 .. Cardinality(live) + 1 \ live)
                      d == ((at[2] - 1) % DrvCount) + 1
                  IN /\ live' = live \cup {h}
                     /\ qp' = qp \ {h}
                     /\ internal' = Append(internal, [ctx |-> h, drv |-> d])
               /\ at' = <<at[1], at[2] + 1>>
               /\ UNCHANGED <<setup, tryVars, drvVars, arr, sched, lost, config, common>>

AllocBlock(t) == /\ pc[t] = "alloc" /\ at[1] \in Blocks /\ at[2] > BlockSize(at[1])
                 /\ at' = <<at[1] + 1, 1>>
                 /\ UNCHANGED <<setup, tryVars, drvVars, ctxVars, config, common, qp>>

\* A driver has no context left.  wd_ctx_config_uninit frees the array but
\* not the contexts in it.
AllocFails(t) == /\ pc[t] = "alloc" /\ at[1] \in Blocks /\ at[2] <= BlockSize(at[1])
                 /\ Cardinality(lost) + Len(internal) <= MaxLost
                 /\ lost' = lost \cup Handles(internal)
                 /\ arr' = FALSE /\ internal' = <<>>
                 /\ Goto(t, "close")
                 /\ UNCHANGED <<setup, status, count, won, jammed, drvVars, sched, live,
                                frontVars>>

\* wd_sched_rr_alloc and wd_alg_sched_instance
SchedInit(t) == /\ pc[t] = "alloc" /\ at[1] \notin Blocks
                /\ sched' = TRUE
                /\ Goto(t, "common")
                /\ UNCHANGED <<setup, status, count, won, jammed, drvVars, arr, internal,
                               live, lost, frontVars>>

\* Mutant of CleanUp: wd_free_ctxs_batch is left out.
KeepsContexts == /\ arr' = FALSE /\ internal' = <<>> /\ sched' = FALSE
                 /\ UNCHANGED <<live, lost>>

\* The clean-up labels of wd_alg_ctx_init and wd_ctx_config_uninit.
CleanUp == /\ live' = live \ Handles(internal)
           /\ arr' = FALSE /\ internal' = <<>> /\ sched' = FALSE
           /\ UNCHANGED lost

\* No scheduler, or it refuses a range.
SchedFails(t) == /\ pc[t] = "alloc" /\ at[1] \notin Blocks
                 /\ CleanUp
                 /\ Goto(t, "close")
                 /\ UNCHANGED <<setup, status, count, won, jammed, drvVars, frontVars>>

\* wd_cipher_common_init: the contexts and the scheduler are copied.
CommonInit(t) == /\ pc[t] = "common"
                 /\ config' = [i \in DOMAIN internal |->
                                 [ctx |-> internal[i].ctx, drv |-> 0]]
                 /\ common' = TRUE
                 /\ Goto(t, "bind")
                 /\ UNCHANGED <<setup, status, count, won, jammed, drvVars, ctxVars, qp, at>>

\* No memory for the copy or for a pool: what was made is released.
CommonFails(t) == /\ pc[t] = "common"
                  /\ CleanUp
                  /\ Goto(t, "close")
                  /\ UNCHANGED <<setup, status, count, won, jammed, drvVars, frontVars>>

-----------------------------------------------------------------------------
\* Binding and driver initialisation

\* wd_ctx_bind_drivers: the driver goes round over all contexts.
BoundDriver(i) == ((i - 1) % DrvCount) + 1

Bind(t) == /\ pc[t] = "bind"
           /\ config' = [i \in DOMAIN config |->
                           [config[i] EXCEPT !.drv = BoundDriver(i)]]
           /\ stale' = {d \in 1 .. DrvCount : initState[d]}
           /\ at' = <<1, 1>>
           /\ Goto(t, "driver")
           /\ UNCHANGED <<setup, status, count, won, jammed, lib, initState, ctxVars,
                          common, qp>>

\* wd_ctx_init_driver: each driver is initialised for the first of its
\* contexts only.
DriverSkip(t) == /\ pc[t] = "driver" /\ at[1] \in DOMAIN config
                 /\ initState[config[at[1]].drv]
                 /\ at' = <<at[1] + 1, 1>>
                 /\ UNCHANGED <<setup, tryVars, drvVars, ctxVars, config, common, qp>>

\* Mutant of QueuePairs: only contexts up to the one at hand get a queue pair.
PairsSoFar(d) == IF IsHw(d) THEN {config[i].ctx : i \in 1 .. at[1]} ELSE {}

\* hisi_sec_init gives every hardware context of the configuration a queue
\* pair (hisi_qm_alloc_qp); the software drivers have nothing to do.
QueuePairs(d) == IF IsHw(d)
                 THEN {config[i].ctx : i \in {j \in DOMAIN config : IsHw(config[j].drv)}}
                 ELSE {}

DriverInit(t) == /\ pc[t] = "driver" /\ at[1] \in DOMAIN config
                 /\ LET d == config[at[1]].drv
                    IN /\ ~initState[d]
                       /\ initState' = [initState EXCEPT ![d] = TRUE]
                       /\ qp' = qp \cup QueuePairs(d)
                 /\ at' = <<at[1] + 1, 1>>
                 /\ UNCHANGED <<setup, tryVars, lib, stale, ctxVars, config, common>>

\* The driver's init fails, and takes back the queue pairs it made; its
\* init_state is set already.  Or there was no memory before that.  The drivers
\* initialised before stay so, since drv_priv of a context is never set.
\* (hisi_sec_init frees priv, which is then freed again: the process may end
\* here, which is the behaviour that takes no further step.)
DriverFails(t) == /\ pc[t] = "driver" /\ at[1] \in DOMAIN config
                  /\ LET d == config[at[1]].drv
                     IN /\ ~initState[d]
                        /\ \E b \in BOOLEAN : initState' = [initState EXCEPT ![d] = b]
                  /\ Goto(t, "unbind")
                  /\ UNCHANGED <<setup, status, count, won, jammed, lib, stale, ctxVars,
                                 frontVars>>

SetInit(t) == /\ pc[t] = "driver" /\ at[1] \notin DOMAIN config
              /\ status' = "init"
              /\ Goto(t, "idle")
              /\ UNCHANGED <<setup, count, won, jammed, drvVars, ctxVars, frontVars>>

-----------------------------------------------------------------------------
\* The way down, shared by the error labels of wd_cipher_init2_ and by
\* wd_cipher_uninit2

Inside == {"check", "open", "discover", "alloc", "common", "bind", "driver",
           "unbind", "release", "close", "clear"}

\* wd_cipher_uninit2; wd_alg_uninit_driver finds no drv_priv and does nothing.
Uninit(t) == /\ pc[t] = "idle" /\ status = "init"
             /\ \A u \in Threads : pc[u] \notin Inside
             /\ Goto(t, "unbind")
             /\ UNCHANGED <<setup, status, count, won, jammed, drvVars, ctxVars, frontVars>>

\* wd_ctx_unbind_drivers
Unbind(t) == /\ pc[t] = "unbind"
             /\ config' = [i \in DOMAIN config |-> [config[i] EXCEPT !.drv = 0]]
             /\ Goto(t, "release")
             /\ UNCHANGED <<setup, status, count, won, jammed, drvVars, ctxVars, common,
                            qp, at>>

\* wd_cipher_common_uninit and wd_alg_attrs_uninit
Release(t) == /\ pc[t] = "release"
              /\ common' = FALSE
              /\ CleanUp
              /\ Goto(t, "close")
              /\ UNCHANGED <<setup, status, count, won, jammed, drvVars, config, qp, at>>

\* wd_cipher_close_driver
Close(t) == /\ pc[t] = "close"
            /\ lib' = FALSE
            /\ Goto(t, "clear")
            /\ UNCHANGED <<setup, status, count, won, jammed, initState, stale, ctxVars,
                           frontVars>>

\* wd_alg_clear_init
Clear(t) == /\ pc[t] = "clear"
            /\ status' = "uninit"
            /\ Goto(t, "idle")
            /\ UNCHANGED <<setup, count, won, jammed, drvVars, ctxVars, frontVars>>

-----------------------------------------------------------------------------
Try(t) == TryWin(t) \/ TryFail(t) \/ TryExists(t)
          \/ SleepTimeout(t) \/ SleepAgain(t) \/ SleepDone(t)
Phases(t) == Check(t) \/ Refused(t) \/ Open(t) \/ Discover(t) \/ DiscoverFails(t)
             \/ AllocCtx(t) \/ AllocBlock(t) \/ AllocFails(t)
             \/ SchedInit(t) \/ SchedFails(t) \/ CommonInit(t) \/ CommonFails(t)
             \/ Bind(t) \/ DriverSkip(t) \/ DriverInit(t) \/ DriverFails(t) \/ SetInit(t)
Down(t) == Unbind(t) \/ Release(t) \/ Close(t) \/ Clear(t)

Next == \E t \in Threads : \/ Call(t) \/ Uninit(t)
                           \/ Try(t) \/ Phases(t) \/ Down(t)

Spec == Init /\ [][Next]_vars

\* A thread inside a call goes on; whether init or uninit is called is the
\* application's business.
FairSpec == Spec /\ \A t \in Threads : WF_vars(Try(t) \/ Phases(t) \/ Down(t))

-----------------------------------------------------------------------------
\* At most one thread is inside, none while the status says "not initialised",
\* and one while it says "initialising": whatever fails, the status is handed
\* on (wd_alg_try_init: "the initing thread will return a result to notify
\* other thread go on").  The exception is a thread that timed out in the very
\* try in which it took the status: the status then stays for ever.
StatusHanded ==
  LET busy == {t \in Threads : won[t] \/ pc[t] \in Inside}
  IN /\ Cardinality(busy) <= 1
     /\ status = "initing" /\ ~jammed => busy # {}
     /\ status = "uninit" => busy = {}

\* Once a front end is down again, after a failure at any step or after
\* uninit, nothing is held: no library, driver array, scheduler, pool, and no
\* context but those that a failed allocation forgot (wd_alg_attrs_init).
DownHoldsNothing ==
  status = "uninit" => /\ ~lib /\ ~arr /\ ~sched /\ ~common
                       /\ live = lost

\* An initialised front end can serve requests: all that wd_cipher_init2_ set
\* up is there, every context is live and bound, and a context of a hardware
\* driver has a queue pair unless that driver had been initialised before
\* (nothing clears init_state again).  Context and driver belong together if
\* the number of contexts of each block is a multiple of the number of drivers
\* (allocation counts per block, binding over all contexts).
Even == \A b \in Blocks : BlockSize(b) % DrvCount = 0
InitServes ==
  (status = "init" /\ \A t \in Threads : pc[t] \notin Inside) =>
    /\ lib /\ arr /\ sched /\ common
    /\ Len(config) = Len(internal) /\ Len(config) > 0
    /\ \A i \in DOMAIN config :
         LET c == config[i].ctx  d == config[i].drv
         IN /\ c \in live /\ c = internal[i].ctx /\ d # 0 /\ initState[d]
            /\ IsHw(d) => c \in qp \/ d \in stale
            /\ Even => internal[i].drv = d

\* Every call of init returns, though other threads may keep the status or
\* bring the front end up and down all the time (wd_alg_try_init).
EveryInitReturns == \A t \in Threads : pc[t] = "try" ~> pc[t] = "idle"
=============================================================================
