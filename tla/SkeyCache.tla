------------------------------ MODULE SkeyCache ------------------------------
(***************************************************************************)
(* The context cache of one session under the HUNGRY policy (wd_sched.c):  *)
(* skey_sched_pick_next_ctx as threads of the session run it for their     *)
(* synchronous requests.  Loads, the cached index of the least loaded entry *)
(* and the mode flag are single atomic words; only adding an entry takes   *)
(* the cache's lock.  A thread holds the context it was given until its    *)
(* request is done.  (For asynchronous requests the pick is the same; no   *)
(* poll ever takes a load off again, see SchedPoll.  expanded_count is     *)
(* never read and left out.)                                               *)
(***************************************************************************)
EXTENDS Integers, FiniteSets, SequencesExt

CONSTANTS Pickers,
          Order,       \* contexts of the session's domain in pick order
          CacheMax,   \* SKEY_CTX_MAX_NUM
          Threshold,  \* HUNGRY_LOAD_THRESHOLD
          FullDepth,  \* HW_CTX_FULL_DEPTH
          Interval,   \* SKEY_LOAD_UPDATE_INTERVAL
          Wrap        \* the loads are unsigned: modulo 2^32

ASSUME RingAssumption == Order \in Seq(Nat) /\ Order # <<>> /\ CacheMax \in Nat \ {0}
ASSUME DepthAssumption == /\ {Threshold, FullDepth, Interval, Wrap} \subseteq Nat \ {0}
                          /\ Threshold < FullDepth /\ FullDepth < Wrap

VARIABLES
  idx, load,       \* idx_list and load_values, up to valid_count
  minIdx,          \* min_load_idx
  ops,             \* op_counter; only its remainder by the interval matters
  hasSub,          \* has_sub
  at,              \* round-robin position of the domain
  pc,              \* control point of a thread
  sel, seen, ctx   \* its locals: entry selected, load seen, context returned

cacheVars == <<idx, load, minIdx, ops, hasSub, at>>
threadVars == <<pc, sel, seen, ctx>>
skeyVars == <<cacheVars, threadVars>>

None == -1

\* wd_sched_skey_domain_init has put the first context in.
KInit == /\ idx = <<Order[1]>> /\ load = <<0>>
         /\ minIdx = 1 /\ ops = 0 /\ hasSub = FALSE
         /\ at = (1 % Len(Order)) + 1
         /\ pc = [t \in Pickers |-> "idle"]
         /\ sel = [t \in Pickers |-> 0]
         /\ seen = [t \in Pickers |-> 0]
         /\ ctx = [t \in Pickers |-> None]

Goto(t, label) == pc' = [pc EXCEPT ![t] = label]

-----------------------------------------------------------------------------
\* wd_sched_skey_pick_next

\* The operation counter asks for a new scan of the loads.
PickScan(t) == /\ pc[t] = "idle" /\ ops = 0
               /\ ops' = 1 % Interval
               /\ sel' = [sel EXCEPT ![t] =
                            CHOOSE k \in DOMAIN load :
                               /\ \A j \in DOMAIN load : load[k] <= load[j]
                               /\ \A j \in 1 .. k - 1 : load[k] < load[j]]
               /\ Goto(t, "store")
               /\ UNCHANGED <<idx, load, minIdx, hasSub, at, seen, ctx>>

\* The index found is stored; entries may have been added since.
PickStore(t) == /\ pc[t] = "store"
                /\ minIdx' = sel[t]
                /\ Goto(t, "select")
                /\ UNCHANGED <<idx, load, ops, hasSub, at, sel, seen, ctx>>

\* No scan this time.
PickCached(t) == /\ pc[t] = "idle" /\ ops # 0
                 /\ ops' = (ops + 1) % Interval
                 /\ Goto(t, "select")
                 /\ UNCHANGED <<idx, load, minIdx, hasSub, at, sel, seen, ctx>>

PickSelect(t) == /\ pc[t] = "select"
                 /\ sel' = [sel EXCEPT ![t] = minIdx]
                 /\ ctx' = [ctx EXCEPT ![t] = idx[minIdx]]
                 /\ Goto(t, "check")
                 /\ UNCHANGED <<cacheVars, seen>>

-----------------------------------------------------------------------------
\* skey_sched_pick_next_ctx

\* The entry has room.
CheckRoom(t) == /\ pc[t] = "check" /\ load[sel[t]] < FullDepth
                /\ seen' = [seen EXCEPT ![t] = load[sel[t]]]
                /\ Goto(t, "add")
                /\ UNCHANGED <<cacheVars, sel, ctx>>

\* It is full; the flag is read next.
CheckNoRoom(t) == /\ pc[t] = "check" /\ load[sel[t]] >= FullDepth
                  /\ Goto(t, "mode")
                  /\ UNCHANGED <<cacheVars, sel, seen, ctx>>

\* Loads were taken off before: QUEUE_FULL_POS.
ModeFull(t) == /\ pc[t] = "mode" /\ hasSub
               /\ ctx' = [ctx EXCEPT ![t] = None]
               /\ Goto(t, "full")
               /\ UNCHANGED <<cacheVars, sel, seen>>

\* No load was ever taken off.
ModeReduce(t) == /\ pc[t] = "mode" /\ ~hasSub
                 /\ Goto(t, "reduce")
                 /\ UNCHANGED <<cacheVars, sel, seen, ctx>>

\* Mutant of Reduce: the whole depth is taken off.
ReducesAll(t) == /\ pc[t] = "reduce"
                 /\ load' = [load EXCEPT ![sel[t]] = (@ + Wrap - FullDepth) % Wrap]
                 /\ Goto(t, "mark")
                 /\ UNCHANGED <<idx, minIdx, ops, hasSub, at, sel, seen, ctx>>

\* wd_sched_skey_update_load(-HUNGRY_LOAD_THRESHOLD) ...
Reduce(t) == /\ pc[t] = "reduce"
             /\ load' = [load EXCEPT ![sel[t]] = (@ + Wrap - Threshold) % Wrap]
             /\ Goto(t, "mark")
             /\ UNCHANGED <<idx, minIdx, ops, hasSub, at, sel, seen, ctx>>

\* ... marks the mode, and the context is used all the same.
Mark(t) == /\ pc[t] = "mark"
           /\ hasSub' = TRUE
           /\ Goto(t, "using")
           /\ UNCHANGED <<idx, load, minIdx, ops, at, sel, seen, ctx>>

\* The load is counted; a busy entry makes the cache grow.
CountLoad(t) == /\ pc[t] = "add"
                /\ load' = [load EXCEPT ![sel[t]] = (@ + 1) % Wrap]
                /\ Goto(t, IF seen[t] > Threshold THEN "next" ELSE "using")
                /\ UNCHANGED <<idx, minIdx, ops, hasSub, at, sel, seen, ctx>>

\* session_sched_init_ctx picks the domain's next context.
NextOfDomain(t) == /\ pc[t] = "next"
                   /\ seen' = [seen EXCEPT ![t] = Order[at]]
                   /\ at' = (at % Len(Order)) + 1
                   /\ Goto(t, "grow")
                   /\ UNCHANGED <<idx, load, minIdx, ops, hasSub, sel, ctx>>

\* Mutant of AddCtx: a context that is there already is added again.
AddsTwice(t) == /\ pc[t] = "grow" /\ Len(idx) < CacheMax
                /\ minIdx' = Len(idx) + 1
                /\ idx' = Append(idx, seen[t]) /\ load' = Append(load, 0)
                /\ ctx' = [ctx EXCEPT ![t] = seen[t]]
                /\ Goto(t, "using")
                /\ UNCHANGED <<ops, hasSub, at, sel, seen>>

\* wd_sched_skey_add_ctx, under the cache's lock; the new context is used.
AddCtx(t) == /\ pc[t] = "grow"
             /\ Len(idx) < CacheMax /\ seen[t] \notin Range(idx)
             /\ minIdx' = Len(idx) + 1
             /\ idx' = Append(idx, seen[t]) /\ load' = Append(load, 0)
             /\ ctx' = [ctx EXCEPT ![t] = seen[t]]
             /\ Goto(t, "using")
             /\ UNCHANGED <<ops, hasSub, at, sel, seen>>

\* The cache is full or has the context: the selected one is used.
AddRefused(t) == /\ pc[t] = "grow"
                 /\ Len(idx) >= CacheMax \/ seen[t] \in Range(idx)
                 /\ Goto(t, "using")
                 /\ UNCHANGED <<cacheVars, sel, seen, ctx>>

\* The request is done, or the caller got -EBUSY.  Nothing is taken off.
Finish(t) == /\ pc[t] \in {"using", "full"}
             /\ Goto(t, "idle")
             /\ sel' = [sel EXCEPT ![t] = 0]
             /\ seen' = [seen EXCEPT ![t] = 0]
             /\ ctx' = [ctx EXCEPT ![t] = None]
             /\ UNCHANGED cacheVars

-----------------------------------------------------------------------------
Step(t) == PickScan(t) \/ PickStore(t) \/ PickCached(t) \/ PickSelect(t)
           \/ CheckRoom(t) \/ CheckNoRoom(t) \/ ModeFull(t) \/ ModeReduce(t)
           \/ Reduce(t) \/ Mark(t) \/ CountLoad(t) \/ NextOfDomain(t) \/ AddCtx(t)
           \/ AddRefused(t) \/ Finish(t)

KNext == \E t \in Pickers : Step(t)

KSpec == KInit /\ [][KNext]_skeyVars

-----------------------------------------------------------------------------
UsersOf(k) == {t \in Pickers : pc[t] = "using" /\ ctx[t] = idx[k]}

\* No context is cached twice, however many threads make the cache grow at
\* once (wd_sched_skey_add_ctx).
CacheDistinct == IsInjective(idx)

\* Checking a load and counting it are two steps, and several threads may
\* take the threshold off one entry: a load still neither exceeds the depth by
\* more than the threads between the two steps nor wraps below zero.
LoadBounded == \A k \in DOMAIN load :
                  load[k] <= FullDepth - 1 + Cardinality(Pickers)

\* A submission is refused as "queue full" only if some request is under way
\* on a cached context (skey_sched_pick_next_ctx).
FullMeansBusy == (\E t \in Pickers : pc[t] = "full")
                    => \E k \in DOMAIN idx : UsersOf(k) # {}

\* A session's cache has no context twice, and the loads stay within the depth of
\* its queues (wd_sched_skey_add_ctx, skey_sched_pick_next_ctx).
CacheExact == CacheDistinct /\ LoadBounded
=============================================================================
