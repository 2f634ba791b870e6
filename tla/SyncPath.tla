------------------------------ MODULE SyncPath ------------------------------
(***************************************************************************)
(* The synchronous request path over one context: wd_do_cipher_sync holds  *)
(* the context's spinlock over wd_handle_msg_sync, which sends the request *)
(* and polls for its answer a limited number of times.  A request that is  *)
(* given up stays in the queue, and its late answer meets a later call; the *)
(* driver tells them apart by the message id (hisi_set_msg_id,             *)
(* hisi_check_bd_id).                                                      *)
(*                                                                         *)
(* The queue is the bounded FIFO QmQueue is proved to implement: `queue'   *)
(* is what was sent and not received, of which the first `ready' packets   *)
(* are answered.  `call', `abandoned' and `outcome' are history variables. *)
(***************************************************************************)
EXTENDS Integers, Sequences

CONSTANTS Threads,   \* threads calling wd_do_cipher_sync
          Cap,       \* requests the queue holds
          Timeout,   \* WD_RECV_MAX_CNT_NOSLEEP: polls before giving up
          IdNum,     \* length of the cycle of message ids
          MaxCalls,  \* bound on the calls of one behaviour
          NoOne      \* a lock that is not held

ASSUME BoundAssumption == /\ Cap \in Nat \ {0} /\ Timeout \in Nat \ {0}
                          /\ IdNum \in Nat \ {0} /\ MaxCalls \in Nat
ASSUME ThreadAssumption == NoOne \notin Threads

VARIABLES
  lock,          \* ctx->lock
  queue, ready,  \* the queue pair
  device,        \* "runs", or "stopped" once it raised its status words
  rand_seed,     \* static __thread in hisi_set_msg_id
  pc, tag, rx_cnt, call,   \* thread: control point, msg.tag, polls so far,
                           \* which call it is
  calls,         \* calls made so far
  abandoned,     \* calls that returned and left their request in the queue
  outcome        \* the last finished call, its thread and what it received

vars == <<lock, queue, ready, device, rand_seed, pc, tag, rx_cnt, call,
          calls, abandoned, outcome>>

Ids == 0 .. IdNum - 1
None == -1
NoPacket == [call |-> None, by |-> NoOne, tag |-> 0]

\* Every thread's copy of rand_seed has the same initial value.
Init == /\ lock = NoOne /\ queue = << >> /\ ready = 0 /\ device = "runs"
        /\ rand_seed = [t \in Threads |-> 0]
        /\ pc = [t \in Threads |-> "idle"]
        /\ tag = [t \in Threads |-> 0]
        /\ rx_cnt = [t \in Threads |-> 0]
        /\ call = [t \in Threads |-> None]
        /\ calls = 0 /\ abandoned = 0
        /\ outcome = [code |-> "none", call |-> None, by |-> NoOne,
                      got |-> NoPacket]

\* The pseudo-random id sequence (external, nrand48): the next id depends on
\* the seed alone, and the id becomes the seed.
nrand48(seed) == (seed + 1) % IdNum

\* The call returns and unlocks the context; its locals die with it.
Return(t, code, got) ==
  /\ lock' = NoOne
  /\ pc' = [pc EXCEPT ![t] = "idle"]
  /\ tag' = [tag EXCEPT ![t] = 0]
  /\ rx_cnt' = [rx_cnt EXCEPT ![t] = 0]
  /\ call' = [call EXCEPT ![t] = None]
  /\ outcome' = [code |-> code, call |-> call[t], by |-> t, got |-> got]

\* Mutant of SyncStart: the context is not locked.
StartUnlocked(t) == /\ pc[t] = "idle" /\ calls < MaxCalls
                    /\ lock' = t
                    /\ pc' = [pc EXCEPT ![t] = "send"]
                    /\ call' = [call EXCEPT ![t] = calls]
                    /\ calls' = calls + 1
                    /\ UNCHANGED <<queue, ready, device, rand_seed, tag, rx_cnt,
                                   abandoned, outcome>>

\* The scheduler picked the context, and wd_ctx_spin_lock was granted.
SyncStart(t) == /\ pc[t] = "idle" /\ calls < MaxCalls
                /\ lock = NoOne
                /\ lock' = t
                /\ pc' = [pc EXCEPT ![t] = "send"]
                /\ call' = [call EXCEPT ![t] = calls]
                /\ calls' = calls + 1
                /\ UNCHANGED <<queue, ready, device, rand_seed, tag, rx_cnt,
                               abandoned, outcome>>

\* Bad parameters, or the scheduler found no context (wd_check_ctx).
SyncRefused(t) == /\ pc[t] = "idle" /\ calls < MaxCalls
                  /\ calls' = calls + 1
                  /\ UNCHANGED <<lock, queue, ready, device, rand_seed, pc, tag,
                                 rx_cnt, call, abandoned, outcome>>

\* The driver draws the message id, then posts the request.
SendMsg(t) == LET id == nrand48(rand_seed[t]) IN
              /\ pc[t] = "send" /\ Len(queue) < Cap /\ device = "runs"
              /\ rand_seed' = [rand_seed EXCEPT ![t] = id]
              /\ tag' = [tag EXCEPT ![t] = id]
              /\ queue' = Append(queue, [call |-> call[t], by |-> t, tag |-> id])
              /\ pc' = [pc EXCEPT ![t] = "recv"]
              /\ UNCHANGED <<lock, ready, device, rx_cnt, call, calls,
                             abandoned, outcome>>

\* hisi_qm_send found no free SQE; the id is spent all the same.
SendBusy(t) == /\ pc[t] = "send" /\ Len(queue) = Cap
               /\ rand_seed' = [rand_seed EXCEPT ![t] = nrand48(@)]
               /\ Return(t, "EBUSY", NoPacket)
               /\ UNCHANGED <<queue, ready, device, calls, abandoned>>

\* hisi_qm_send found the device's status word raised.
SendError(t) == /\ pc[t] = "send" /\ Len(queue) < Cap /\ device = "stopped"
                /\ rand_seed' = [rand_seed EXCEPT ![t] = nrand48(@)]
                /\ Return(t, "HW_EACCESS", NoPacket)
                /\ UNCHANGED <<queue, ready, device, calls, abandoned>>

\* recv answers -WD_EAGAIN and the limit is not reached.
RecvAgain(t) == /\ pc[t] = "recv" /\ ready = 0 /\ device = "runs"
                /\ rx_cnt[t] + 1 < Timeout
                /\ rx_cnt' = [rx_cnt EXCEPT ![t] = rx_cnt[t] + 1]
                /\ UNCHANGED <<lock, queue, ready, device, rand_seed, pc, tag,
                               call, calls, abandoned, outcome>>

\* Mutant of RecvTimeout: the polls are not limited.
NeverTimesOut(t) == /\ pc[t] = "recv" /\ ready = 0 /\ device = "runs"
                    /\ UNCHANGED vars

\* The request stays in the queue.
RecvTimeout(t) == /\ pc[t] = "recv" /\ ready = 0 /\ device = "runs"
                  /\ rx_cnt[t] + 1 >= Timeout
                  /\ Return(t, "ETIMEDOUT", NoPacket)
                  /\ abandoned' = abandoned + 1
                  /\ UNCHANGED <<queue, ready, device, rand_seed, calls>>

\* hisi_qm_recv found the status word raised; nothing is taken from the queue.
RecvError(t) == /\ pc[t] = "recv" /\ device = "stopped"
                /\ Return(t, "HW_EACCESS", NoPacket)
                /\ abandoned' = abandoned + 1
                /\ UNCHANGED <<queue, ready, device, rand_seed, calls>>

PopAnswer == /\ ready > 0 /\ device = "runs"
             /\ queue' = Tail(queue)
             /\ ready' = ready - 1

\* Mutant of check_bd_id: any answer is taken for one's own.
AnyBd(mid, bid) == TRUE
check_bd_id(mid, bid) == mid = bid

RecvOwn(t) == /\ pc[t] = "recv" /\ PopAnswer
              /\ check_bd_id(tag[t], Head(queue).tag)
              /\ Return(t, "ok", Head(queue))
              /\ UNCHANGED <<device, rand_seed, calls, abandoned>>

\* Mutant of RecvOther: a foreign answer is left for the next call.
PutsBackForeign(t) == /\ pc[t] = "recv" /\ ready > 0 /\ device = "runs"
                      /\ ~check_bd_id(tag[t], Head(queue).tag)
                      /\ Return(t, "EINVAL", NoPacket)
                      /\ UNCHANGED <<queue, ready, device, rand_seed, calls,
                                     abandoned>>

\* "failed to recv self bd": the late answer of another request was consumed
\* and the call's own is still to come.
RecvOther(t) == /\ pc[t] = "recv" /\ PopAnswer
                /\ ~check_bd_id(tag[t], Head(queue).tag)
                /\ Return(t, "EINVAL", NoPacket)
                /\ UNCHANGED <<device, rand_seed, calls, abandoned>>

\* The device (external) answers in order, as slowly as it likes, or stops.
DeviceAnswer == /\ device = "runs" /\ ready < Len(queue)
                /\ ready' = ready + 1
                /\ UNCHANGED <<lock, queue, device, rand_seed, pc, tag, rx_cnt,
                               call, calls, abandoned, outcome>>

DeviceStops == /\ device = "runs" /\ device' = "stopped"
               /\ UNCHANGED <<lock, queue, ready, rand_seed, pc, tag, rx_cnt,
                              call, calls, abandoned, outcome>>

-----------------------------------------------------------------------------
SyncStep(t) == \/ SendMsg(t) \/ SendBusy(t) \/ SendError(t)
               \/ RecvAgain(t) \/ RecvTimeout(t) \/ RecvError(t)
               \/ RecvOwn(t) \/ RecvOther(t)

\* All calls of the bounded application are over.
Done == /\ calls = MaxCalls /\ \A t \in Threads : pc[t] = "idle"
        /\ UNCHANGED vars

Next == \/ \E t \in Threads : SyncStart(t) \/ SyncRefused(t) \/ SyncStep(t)
        \/ DeviceAnswer \/ DeviceStops \/ Done

Spec == Init /\ [][Next]_vars

\* A call that was started goes on; nothing is asked of the device.
FairSpec == Spec /\ \A t \in Threads : WF_vars(SyncStep(t))

-----------------------------------------------------------------------------
\* Every variable stays in its range.
TypeOK == /\ lock \in Threads \cup {NoOne}
          /\ queue \in Seq([call : Nat, by : Threads, tag : Ids]) /\ Len(queue) <= Cap
          /\ ready \in 0 .. Len(queue)
          /\ device \in {"runs", "stopped"} /\ rand_seed \in [Threads -> Ids]
          /\ pc \in [Threads -> {"idle", "send", "recv"}]
          /\ tag \in [Threads -> Ids] /\ rx_cnt \in [Threads -> 0 .. Timeout]
          /\ call \in [Threads -> Nat \cup {None}]
          /\ calls \in 0 .. MaxCalls /\ abandoned \in Nat

\* A call that succeeds got the answer to its own request or, after a call
\* was given up, one of another thread's, never an old one of its own thread
\* (hisi_check_bd_id).
Own == outcome.got.call = outcome.call
OwnAnswer == (outcome.code = "ok" /\ outcome.got.by = outcome.by) => Own

\* The lock alone ensures this, whatever the ids, as long as no call was given
\* up: no call ever sees the answer of another.
OwnAnswerUntilTimeout ==
  abandoned = 0 => /\ outcome.code = "ok" => Own
                   /\ outcome.code # "EINVAL"

\* Between calls, the queue holds one packet per call that was given up.  A
\* call that meets a late answer consumes it and leaves its own, so the
\* backlog is never worked off: Cap calls given up, however far apart, leave
\* the context refusing every further call.
BacklogIsAbandoned == lock = NoOne => Len(queue) = abandoned

\* Every call returns, though the device may have stopped answering.
EveryCallReturns == \A t \in Threads : (pc[t] # "idle") ~> (pc[t] = "idle")

\* The ids of hisi_set_msg_id "ensure that 1024 packets on a queue will not
\* have duplicate id".
NoDuplicateId ==
  \A i, j \in DOMAIN queue : queue[i].tag = queue[j].tag => i = j
=============================================================================
