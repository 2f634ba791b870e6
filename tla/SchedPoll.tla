------------------------------ MODULE SchedPoll ------------------------------
(***************************************************************************)
(* Who receives the answers: the array of session keys of a scheduler and  *)
(* its poll policies (wd_sched.c).  Creating a session registers its key in *)
(* a free slot under skey_lock; a submission picks the session's context    *)
(* and, under RR, counts itself as pending; the poll threads scan the array *)
(* without a lock, skip the keys with nothing pending, poll the context of  *)
(* the others and take what they received off that key's counter.  Several  *)
(* sessions may share a context, and a poll of one key receives the answers *)
(* of all of them.                                                         *)
(*                                                                         *)
(* The asynchronous cache of a key holds one context here; its growth and   *)
(* load counters are SkeyCache's matter, the choice of the context is       *)
(* SchedDomain's (a session is given any context, or none that fits if it   *)
(* is unfit).  The HUNGRY poll is the same scan; nothing is ever counted as *)
(* pending under HUNGRY, so it receives nothing, and is left out.           *)
(* An answer is named by the session that asked for it.                    *)
(***************************************************************************)
EXTENDS Integers, FiniteSets, SequencesExt

CONSTANTS Sessions, Contexts,
          Senders,  \* threads calling wd_do_cipher_async
          Pollers,  \* threads calling wd_cipher_poll again and again
          Setups,   \* the configurations to check, of which a behaviour has one
          SkeyMax,  \* SKEY_MAX_THREAD_NUM
          Expect,   \* `expect' of the polls
          Cap,      \* requests a context's queue holds
          MaxReq    \* bound on the submissions of one behaviour

\* policy: "rr" stands for DEV and LOOP too; release: how sessions are freed,
\* by sched_session_uninit, by freeing the key only, or not at all; wanted: the
\* sessions the application creates; unfit: those of them whose asynchronous
\* entry is INVALID_POS; ctxs, pollers: the contexts and poll threads there are;
\* reqs: the submissions there are.
SetupType == [policy : {"rr", "instr"},
              release : {"uninit", "free", "never"},
              wanted : SUBSET Sessions, unfit : SUBSET Sessions,
              ctxs : SUBSET Contexts, pollers : SUBSET Pollers,
              reqs : 0 .. MaxReq]

ASSUME NumAssumption == {SkeyMax, Expect, Cap} \subseteq Nat \ {0} /\ MaxReq \in Nat
ASSUME SetupAssumption == Setups \subseteq SetupType

VARIABLES
  setup,                 \* the configuration
  skey, skey_num,        \* struct wd_sched_ctx
  state,                 \* of a session: "none", "open", "refused", "freed"
  entry,                 \* idx_cache.idx_list[0] of its asynchronous domain
  pending,               \* pending_count of that domain
  wire, done,            \* per context: sent and answered, in order
  spc, of,               \* sender: control point, session
  ppc, pos, key, got, sum, \* poller: control point, locals of the poll
  tidx, threads,         \* tls_thread_idx and g_thread_counter
  issued                 \* submissions so far

keyVars == <<skey, skey_num, state, entry>>
queueVars == <<wire, done>>
sendVars == <<spc, of, issued>>
pollVars == <<ppc, pos, key, got, sum, tidx, threads>>
polledVars == <<setup, keyVars, pending, queueVars, sendVars, pollVars>>

Slots == 0 .. SkeyMax - 1
Null == "null"
NoContext == "invalid"

ASSUME NameAssumption == Null \notin Sessions /\ NoContext \notin Contexts

PInit == /\ setup \in Setups
         /\ skey = [i \in Slots |-> Null] /\ skey_num = 0
         /\ state = [s \in Sessions |-> "none"]
         /\ entry = [s \in Sessions |-> NoContext]
         /\ pending = [s \in Sessions |-> 0]
         /\ wire = [c \in Contexts |-> <<>>] /\ done = [c \in Contexts |-> <<>>]
         /\ spc = [t \in Senders |-> "idle"] /\ of = [t \in Senders |-> Null]
         /\ ppc = [p \in Pollers |-> "idle"]
         /\ pos = [p \in Pollers |-> [start |-> 0, i |-> 0]]
         /\ key = [p \in Pollers |-> Null]
         /\ got = [p \in Pollers |-> 0] /\ sum = [p \in Pollers |-> 0]
         /\ tidx = [p \in Pollers |-> 0] /\ threads = 0
         /\ issued = 0

-----------------------------------------------------------------------------
\* Sessions

FreeSlots == {i \in Slots : skey[i] = Null}

\* sched_skey_param_init, after the key was set up privately.
Open(s) == /\ s \in setup.wanted /\ state[s] = "none" /\ FreeSlots # {}
           /\ skey' = [skey EXCEPT ![Min(FreeSlots)] = s]
           /\ skey_num' = skey_num + 1
           /\ state' = [state EXCEPT ![s] = "open"]
           /\ \E c \in IF s \in setup.unfit THEN {NoContext} ELSE setup.ctxs :
                 entry' = [entry EXCEPT ![s] = c]
           /\ UNCHANGED <<pending, queueVars, sendVars, pollVars>>

\* No slot left: -WD_ENOMEM, the session is not created.
OpenRefused(s) == /\ s \in setup.wanted /\ state[s] = "none" /\ FreeSlots = {}
                  /\ state' = [state EXCEPT ![s] = "refused"]
                  /\ UNCHANGED <<skey, skey_num, entry, pending, queueVars,
                                 sendVars, pollVars>>

Unanswered(s) == \E c \in Contexts : s \in Range(wire[c]) \cup Range(done[c])

\* The application frees a session it does not use and that waits for nothing.
Idle(s) == /\ state[s] = "open" /\ ~Unanswered(s)
           /\ \A t \in Senders : of[t] # s

\* Mutant of SessionUninit: the slot is kept.
KeepsSlot(s) == /\ setup.release = "uninit" /\ Idle(s)
                /\ state' = [state EXCEPT ![s] = "freed"]
                /\ UNCHANGED <<skey, skey_num, entry, pending, queueVars,
                               sendVars, pollVars>>

\* sched_session_uninit unregisters the key under skey_lock and frees it.
SessionUninit(s) == /\ setup.release = "uninit" /\ Idle(s)
                    /\ skey' = [i \in Slots |-> IF skey[i] = s THEN Null ELSE skey[i]]
                    /\ skey_num' = skey_num - 1
                    /\ state' = [state EXCEPT ![s] = "freed"]
                    /\ UNCHANGED <<entry, pending, queueVars, sendVars, pollVars>>

\* What the front ends do: wd_init_sched does not take sched_uninit over, so
\* that wd_cipher_free_sess only frees the key.
SessionFree(s) == /\ setup.release = "free" /\ Idle(s)
                  /\ state' = [state EXCEPT ![s] = "freed"]
                  /\ UNCHANGED <<skey, skey_num, entry, pending, queueVars,
                                 sendVars, pollVars>>

-----------------------------------------------------------------------------
\* Submissions

MaySubmit(t, s) == /\ spc[t] = "idle" /\ state[s] = "open"
                   /\ issued < setup.reqs
                   /\ issued' = issued + 1

\* Mutant of PickRR: a submission that gets no context is not counted, nor
\* is any other before it was sent.
CountsNothing(t, s) == /\ setup.policy = "rr" /\ MaySubmit(t, s)
                       /\ IF entry[s] = NoContext
                          THEN UNCHANGED <<spc, of>>
                          ELSE /\ spc' = [spc EXCEPT ![t] = "send"]
                               /\ of' = [of EXCEPT ![t] = s]
                       /\ UNCHANGED <<keyVars, pending, queueVars, pollVars>>

\* round_robin_pick_next_ctx counts first and then looks for a context; with
\* none the call returns -EINVAL.
PickRR(t, s) == /\ setup.policy = "rr" /\ MaySubmit(t, s)
                /\ pending' = [pending EXCEPT ![s] = @ + 1]
                /\ IF entry[s] = NoContext
                   THEN UNCHANGED <<spc, of>>
                   ELSE /\ spc' = [spc EXCEPT ![t] = "send"]
                        /\ of' = [of EXCEPT ![t] = s]
                /\ UNCHANGED <<keyVars, queueVars, pollVars>>

\* skey_sched_pick_next_ctx and instr_sched_pick_next_ctx count nothing.
PickUncounted(t, s) == /\ setup.policy # "rr" /\ MaySubmit(t, s) /\ entry[s] # NoContext
                       /\ spc' = [spc EXCEPT ![t] = "send"]
                       /\ of' = [of EXCEPT ![t] = s]
                       /\ UNCHANGED <<keyVars, pending, queueVars, pollVars>>

SendReturn(t) == /\ spc' = [spc EXCEPT ![t] = "idle"]
                 /\ of' = [of EXCEPT ![t] = Null]

Held(c) == Len(wire[c]) + Len(done[c])

\* drv->send takes the request.
SendOk(t) == /\ spc[t] = "send" /\ Held(entry[of[t]]) < Cap
             /\ wire' = [wire EXCEPT ![entry[of[t]]] = Append(@, of[t])]
             /\ SendReturn(t)
             /\ UNCHANGED <<keyVars, pending, done, issued, pollVars>>

\* No message or no room in the queue: -WD_EBUSY, the counters stay.
SendBusy(t) == /\ spc[t] = "send" /\ Held(entry[of[t]]) = Cap
               /\ SendReturn(t)
               /\ UNCHANGED <<keyVars, pending, queueVars, issued, pollVars>>

\* The device answers.
Answer(c) == /\ wire[c] # <<>>
             /\ wire' = [wire EXCEPT ![c] = Tail(@)]
             /\ done' = [done EXCEPT ![c] = Append(@, Head(wire[c]))]
             /\ UNCHANGED <<keyVars, pending, sendVars, pollVars>>

-----------------------------------------------------------------------------
\* Polling

PollGoto(p, label) == ppc' = [ppc EXCEPT ![p] = label]

PollReturn(p) == /\ PollGoto(p, "idle")
                 /\ pos' = [pos EXCEPT ![p] = [start |-> 0, i |-> 0]]
                 /\ key' = [key EXCEPT ![p] = Null]
                 /\ got' = [got EXCEPT ![p] = 0]
                 /\ sum' = [sum EXCEPT ![p] = 0]

\* sched_get_poll_skey_tidx: a thread's number is drawn at its first poll.
TakeNumber(p) == IF tidx[p] = 0
                 THEN /\ tidx' = [tidx EXCEPT ![p] = threads + 1]
                      /\ threads' = threads + 1
                 ELSE UNCHANGED <<tidx, threads>>

Number(p) == IF tidx[p] = 0 THEN threads + 1 ELSE tidx[p]

\* round_robin_poll_policy begins its scan.
PollStart(p) == /\ setup.policy # "instr" /\ ppc[p] = "idle" /\ skey_num > 0
                /\ TakeNumber(p)
                /\ pos' = [pos EXCEPT ![p] =
                             [start |-> Number(p) % skey_num, i |-> 0]]
                /\ PollGoto(p, "scan")
                /\ UNCHANGED <<keyVars, pending, queueVars, sendVars, key, got,
                               sum>>

Slot(p) == (pos[p].start + pos[p].i) % SkeyMax
StepOn(p) == pos' = [pos EXCEPT ![p].i = @ + 1]

\* An empty slot, or a key with nothing pending.
PollSkip(p) == /\ ppc[p] = "scan" /\ pos[p].i < SkeyMax
               /\ \/ skey[Slot(p)] = Null
                  \/ skey[Slot(p)] # Null /\ pending[skey[Slot(p)]] <= 0
               /\ StepOn(p)
               /\ UNCHANGED <<keyVars, pending, queueVars, sendVars, ppc, key,
                              got, sum, tidx, threads>>

\* The key is read from the slot and used from here on without a lock.
PollEnter(p) == /\ ppc[p] = "scan" /\ pos[p].i < SkeyMax
                /\ skey[Slot(p)] # Null /\ pending[skey[Slot(p)]] > 0
                /\ key' = [key EXCEPT ![p] = skey[Slot(p)]]
                /\ PollGoto(p, "poll")
                /\ UNCHANGED <<keyVars, pending, queueVars, sendVars, pos, got,
                               sum, tidx, threads>>

\* instr_sched_poll_policy polls the key its number selects.
PollInstr(p) ==
  /\ setup.policy = "instr" /\ ppc[p] = "idle" /\ skey_num > 0
  /\ skey[Number(p) % skey_num] # Null
  /\ TakeNumber(p)
  /\ key' = [key EXCEPT ![p] = skey[Number(p) % skey_num]]
  /\ PollGoto(p, "poll")
  /\ UNCHANGED <<keyVars, pending, queueVars, sendVars, pos, got, sum>>

\* The entry is INVALID_POS: wd_cipher_poll_ctx fails, and with it the poll.
PollInvalid(p) == /\ ppc[p] = "poll" /\ entry[key[p]] = NoContext
                  /\ PollReturn(p)
                  /\ UNCHANGED <<keyVars, pending, queueVars, sendVars, tidx,
                                 threads>>

\* wd_cipher_poll_ctx receives up to `expect' answers and calls back.
PollRecv(p) ==
  LET c == entry[key[p]]
      n == Min({Expect, Len(done[c])})
  IN /\ ppc[p] = "poll" /\ c # NoContext
     /\ done' = [done EXCEPT ![c] = SubSeq(@, n + 1, Len(@))]
     /\ got' = [got EXCEPT ![p] = n]
     /\ PollGoto(p, "credit")
     /\ UNCHANGED <<keyVars, pending, wire, sendVars, pos, key, sum, tidx,
                    threads>>

\* Mutant of PollCredit: a poll that received something clears the counter.
ClearsPending(p) ==
  /\ ppc[p] = "credit"
  /\ pending' = [pending EXCEPT ![key[p]] = IF got[p] > 0 THEN 0 ELSE @]
  /\ sum' = [sum EXCEPT ![p] = @ + got[p]]
  /\ got' = [got EXCEPT ![p] = 0]
  /\ PollGoto(p, "next")
  /\ UNCHANGED <<keyVars, queueVars, sendVars, pos, key, tidx, threads>>

\* What was received is taken off the counter of the polled key; INSTR keeps
\* no counter.
PollCredit(p) ==
  /\ ppc[p] = "credit"
  /\ pending' = [pending EXCEPT ![key[p]] = IF setup.policy = "instr" THEN @ ELSE @ - got[p]]
  /\ sum' = [sum EXCEPT ![p] = @ + got[p]]
  /\ got' = [got EXCEPT ![p] = 0]
  /\ PollGoto(p, "next")
  /\ UNCHANGED <<keyVars, queueVars, sendVars, pos, key, tidx, threads>>

\* Fewer answers than expected: the scan goes on.
PollNext(p) == /\ ppc[p] = "next" /\ setup.policy # "instr" /\ sum[p] < Expect
               /\ StepOn(p)
               /\ key' = [key EXCEPT ![p] = Null]
               /\ PollGoto(p, "scan")
               /\ UNCHANGED <<keyVars, pending, queueVars, sendVars, got, sum,
                              tidx, threads>>

\* The whole array was scanned, or enough was received.
PollEnd(p) == /\ \/ ppc[p] = "scan" /\ pos[p].i = SkeyMax
                 \/ ppc[p] = "next" /\ (setup.policy = "instr" \/ sum[p] >= Expect)
              /\ PollReturn(p)
              /\ UNCHANGED <<keyVars, pending, queueVars, sendVars, tidx,
                             threads>>

-----------------------------------------------------------------------------
SessionStep(s) == Open(s) \/ OpenRefused(s) \/ SessionUninit(s) \/ SessionFree(s)

SendStep(t) == (SendOk(t) \/ SendBusy(t)) /\ UNCHANGED setup

DeviceStep(c) == Answer(c) /\ UNCHANGED setup

PollStep(p) == /\ p \in setup.pollers
               /\ \/ PollStart(p) \/ PollSkip(p) \/ PollEnter(p) \/ PollInstr(p)
                  \/ PollInvalid(p) \/ PollRecv(p)
                  \/ PollCredit(p) \/ PollNext(p) \/ PollEnd(p)
               /\ UNCHANGED setup

PNext == \/ /\ \/ \E s \in Sessions : SessionStep(s)
               \/ \E t \in Senders, s \in Sessions :
                     PickRR(t, s) \/ PickUncounted(t, s)
            /\ UNCHANGED setup
         \/ \E t \in Senders : SendStep(t)
         \/ \E c \in Contexts : DeviceStep(c)
         \/ \E p \in Pollers : PollStep(p)

PSpec == PInit /\ [][PNext]_polledVars

\* Calls under way go on, the device answers, and the poll threads poll again
\* and again, as the asynchronous interface asks of the application.
PFairSpec == /\ PSpec
             /\ \A t \in Senders : WF_polledVars(SendStep(t))
             /\ \A c \in Contexts : WF_polledVars(DeviceStep(c))
             /\ \A p \in Pollers : WF_polledVars(PollStep(p))

-----------------------------------------------------------------------------
\* Answers waiting in a queue are never overlooked: some registered key of
\* the context has a positive counter, although every poll takes the answers
\* of all sessions off the counter of one (wd_sched_poll_skey), as long as
\* sessions are not freed under RR.
PendingCovers ==
  (setup.policy = "rr" /\ setup.release = "never") =>
     \A c \in Contexts : Held(c) > 0 =>
        \E s \in Range(skey) \ {Null} : entry[s] = c /\ pending[s] > 0

\* A session is refused only while all slots belong to sessions in use, if
\* sessions are freed by sched_session_uninit (sched_skey_param_uninit makes a
\* slot reusable).
RefusedMeansFull ==
  [][\A s \in Sessions :
       (setup.release = "uninit" /\ state[s] = "none" /\ state'[s] = "refused")
        => Cardinality({r \in Sessions : state[r] = "open"}) = SkeyMax]_polledVars

\* The poll threads never follow a key that was freed.
PolledIsAlive ==
  \A p \in Pollers :
     /\ ppc[p] \in {"poll", "credit"} => state[key[p]] # "freed"
     /\ (ppc[p] = "scan" /\ pos[p].i < SkeyMax /\ skey[Slot(p)] # Null)
           => state[skey[Slot(p)]] # "freed"

\* Under RR and INSTR with as many poll threads as sessions every answer is
\* received in the end, if every session has a context and none is freed
\* (round_robin_poll_policy, instr_sched_poll_policy).
AnswersReceived ==
  (setup.release = "never" /\ setup.unfit = {}) =>
     \A c \in Contexts : done[c] # <<>> ~> done[c] = <<>>
=============================================================================
