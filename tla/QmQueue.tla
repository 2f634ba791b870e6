------------------------------ MODULE QmQueue ------------------------------
(***************************************************************************)
(* One HiSilicon queue pair (drv/hisi_qm_udrv.c): a submission ring, a     *)
(* completion ring with a phase bit, the lock-protected send and receive   *)
(* paths, and the device on the other side of the doorbells.               *)
(*                                                                         *)
(* A spinlock region is split where another actor can see the difference:  *)
(* sd_lock does not exclude the receiver or the device, rv_lock does not   *)
(* exclude the sender.  `submitted', `returned' and `out' are history      *)
(* variables; a request's payload is its ordinal in submission order.      *)
(***************************************************************************)
EXTENDS Integers

CONSTANTS Senders,   \* threads calling hisi_qm_send
          Receivers, \* threads calling hisi_qm_recv
          SqDepth,   \* q_info->sq_depth
          CqDepth,   \* q_info->cq_depth
          UsedMod,   \* range of the __u16 used_num: 2^16 in the code
          Batches,   \* values of `expect'
          MaxSend,   \* bound on the requests of one behaviour
          NoOne      \* a lock that is not held

ASSUME DepthAssumption == /\ SqDepth \in Nat \ {0, 1}
                          /\ CqDepth \in Nat \ {0}
                          /\ SqDepth - 1 <= CqDepth
                          /\ UsedMod \in Nat
                          /\ SqDepth <= UsedMod
ASSUME ThreadAssumption == NoOne \notin Senders \cup Receivers
ASSUME BatchAssumption == Batches \subseteq 1 .. UsedMod - 1 /\ MaxSend \in Nat

VARIABLES
  sq,             \* submission ring in the DUS region
  cq,             \* completion ring in the DUS region
  sq_tail_index, cq_head_index, cqc_phase, used_num,   \* hisi_qm_queue_info
  sd_lock, rv_lock,
  ds_tx, ds_rx,   \* status words at the end of the DUS region
  db_tail,        \* tail the SQ doorbell last told the device
  completed,      \* requests the device has completed
  device,         \* "runs" or "stopped"
  spc, expect,          \* sender: control point, batch size
  rpc, want, got, resp, \* receiver: control point, expect, recv_num and the
                        \* SQE copied out; a call's locals die with it
  ret,                  \* what the last finished call returned
  submitted,      \* requests announced by a doorbell
  returned,       \* answers counted as received
  out             \* the SQE of the last counted answer

devVars == <<sq, cq, db_tail, completed, device, ds_tx, ds_rx>>
sendVars == <<sq_tail_index, sd_lock, spc, expect, submitted>>
recvVars == <<cq_head_index, cqc_phase, rv_lock, rpc, want, got, resp,
              returned, out>>
vars == <<devVars, sendVars, recvVars, used_num, ret>>

Slots == 0 .. SqDepth - 1
CqSlots == 0 .. CqDepth - 1
Blank == [req |-> -1, st |-> "new"]
SpcValues == {"idle", "fill", "status", "doorbell", "commit"}
RpcValues == {"idle", "poll", "copy", "status", "commit"}
Rets == {"ok", "EBUSY", "EAGAIN", "EIO", "HW_EACCESS"}

\* Rings and indices of a queue pair hisi_qm_setup_info has just set up:
\* zeroed memory and an expected phase of 1.
Init == /\ sq = [i \in Slots |-> Blank]
        /\ cq = [i \in CqSlots |-> [phase |-> 0, sq_head |-> 0]]
        /\ sq_tail_index = 0 /\ cq_head_index = 0
        /\ cqc_phase = 1 /\ used_num = 0
        /\ sd_lock = NoOne /\ rv_lock = NoOne
        /\ ds_tx = 0 /\ ds_rx = 0
        /\ db_tail = 0 /\ completed = 0 /\ device = "runs"
        /\ spc = [s \in Senders |-> "idle"]
        /\ expect = [s \in Senders |-> 1]
        /\ rpc = [r \in Receivers |-> "idle"]
        /\ want = [r \in Receivers |-> 1]
        /\ got = [r \in Receivers |-> 0]
        /\ resp = [r \in Receivers |-> Blank]
        /\ submitted = 0 /\ returned = 0 /\ out = Blank /\ ret = "ok"

-----------------------------------------------------------------------------
\* hisi_qm_send

\* Mutant of get_free_num: no SQE is reserved, a full ring looks empty.
NoReservedSqe == SqDepth - used_num

\* An int: a used_num that has wrapped makes it negative.
get_free_num == (SqDepth - 1) - used_num

\* Assigning the int to the __u16 free_num.
free_num == get_free_num % UsedMod

\* The call of sender s is over.
SendReturn(s, code) == /\ spc' = [spc EXCEPT ![s] = "idle"]
                       /\ expect' = [expect EXCEPT ![s] = 1]
                       /\ sd_lock' = NoOne
                       /\ ret' = code

SendGoto(s, label) == /\ spc' = [spc EXCEPT ![s] = label]
                      /\ UNCHANGED ret

SendBusy(s, n) == /\ spc[s] = "idle" /\ sd_lock = NoOne
                  /\ free_num = 0 \/ n > free_num
                  /\ SendReturn(s, "EBUSY")
                  /\ UNCHANGED <<devVars, recvVars, used_num, sq_tail_index,
                                 submitted>>

SendLock(s, n) == /\ spc[s] = "idle" /\ sd_lock = NoOne
                  /\ submitted + n <= MaxSend
                  /\ free_num # 0 /\ n <= free_num
                  /\ sd_lock' = s
                  /\ expect' = [expect EXCEPT ![s] = n]
                  /\ SendGoto(s, "fill")
                  /\ UNCHANGED <<devVars, recvVars, used_num, sq_tail_index,
                                 submitted>>

\* Mutant of Position: the second piece of a wrapped batch starts one early.
PositionOffByOne(tail, i) == IF i >= tail THEN i - tail
                             ELSE (SqDepth - tail) + i - 1

\* Where slot i stands in a batch written from tail on: the ring is filled in
\* two pieces when the batch reaches its end.
Position(tail, i) == IF i >= tail THEN i - tail ELSE (SqDepth - tail) + i

fill_sqe(ring, tail, n) ==
  [i \in Slots |-> IF Position(tail, i) < n
                   THEN [req |-> submitted + Position(tail, i), st |-> "new"]
                   ELSE ring[i]]

SendFill(s) == /\ spc[s] = "fill"
               /\ sq' = fill_sqe(sq, sq_tail_index, expect[s])
               /\ SendGoto(s, "status")
               /\ UNCHANGED <<cq, db_tail, completed, device, ds_tx, ds_rx,
                              recvVars, used_num, sq_tail_index, sd_lock,
                              expect, submitted>>

SendStatusError(s) == /\ spc[s] = "status" /\ ds_tx = 1
                      /\ SendReturn(s, "HW_EACCESS")
                      /\ UNCHANGED <<devVars, recvVars, used_num,
                                     sq_tail_index, submitted>>

SendStatusOk(s) == /\ spc[s] = "status" /\ ds_tx # 1
                   /\ SendGoto(s, "doorbell")
                   /\ UNCHANGED <<devVars, recvVars, used_num, sq_tail_index,
                                  sd_lock, expect, submitted>>

SendDoorbell(s) == /\ spc[s] = "doorbell"
                   /\ db_tail' = (sq_tail_index + expect[s]) % SqDepth
                   /\ submitted' = submitted + expect[s]
                   /\ SendGoto(s, "commit")
                   /\ UNCHANGED <<sq, cq, completed, device, ds_tx, ds_rx,
                                  recvVars, used_num, sq_tail_index, sd_lock,
                                  expect>>

\* Mutant of SendCommit: one SQE is counted whatever the size of the batch.
CountsOneSqe(s) == /\ spc[s] = "commit"
                   /\ sq_tail_index' = (sq_tail_index + expect[s]) % SqDepth
                   /\ used_num' = (used_num + 1) % UsedMod
                   /\ SendReturn(s, "ok")
                   /\ UNCHANGED <<devVars, recvVars, submitted>>

\* sq_tail_index, used_num and the unlock: no other actor reads the first,
\* and the counter is the only one of the three a receiver can observe.
SendCommit(s) == /\ spc[s] = "commit"
                 /\ sq_tail_index' = (sq_tail_index + expect[s]) % SqDepth
                 /\ used_num' = (used_num + expect[s]) % UsedMod
                 /\ SendReturn(s, "ok")
                 /\ UNCHANGED <<devVars, recvVars, submitted>>

-----------------------------------------------------------------------------
\* hisi_qm_recv and hisi_qm_recv_single

\* The call of receiver r is over.
RecvReturn(r, code) == /\ rpc' = [rpc EXCEPT ![r] = "idle"]
                       /\ want' = [want EXCEPT ![r] = 1]
                       /\ got' = [got EXCEPT ![r] = 0]
                       /\ resp' = [resp EXCEPT ![r] = Blank]
                       /\ ret' = code

RecvGoto(r, label) == /\ rpc' = [rpc EXCEPT ![r] = label]
                      /\ UNCHANGED ret

RecvStart(r, n) == /\ rpc[r] = "idle" /\ ds_rx # 1
                   /\ want' = [want EXCEPT ![r] = n]
                   /\ RecvGoto(r, "poll")
                   /\ UNCHANGED <<devVars, sendVars, used_num, cq_head_index,
                                  cqc_phase, rv_lock, got, resp, returned, out>>

\* The status check at the entry of hisi_qm_recv.
RecvRefused(r) == /\ rpc[r] = "idle" /\ ds_rx = 1
                  /\ RecvReturn(r, "HW_EACCESS")
                  /\ UNCHANGED <<devVars, sendVars, used_num, cq_head_index,
                                 cqc_phase, rv_lock, returned, out>>

\* The head CQE carries the phase the receiver waits for.
PhaseMatches == cq[cq_head_index].phase = cqc_phase

RecvEmpty(r) == /\ rpc[r] = "poll" /\ rv_lock = NoOne /\ ~PhaseMatches
                /\ RecvReturn(r, "EAGAIN")
                /\ UNCHANGED <<devVars, sendVars, used_num, cq_head_index,
                               cqc_phase, rv_lock, returned, out>>

RecvPhase(r) == /\ rpc[r] = "poll" /\ rv_lock = NoOne /\ PhaseMatches
                /\ rv_lock' = r
                /\ RecvGoto(r, "copy")
                /\ UNCHANGED <<devVars, sendVars, used_num, cq_head_index,
                               cqc_phase, want, got, resp, returned, out>>

\* CQE_SQ_HEAD_INDEX(cqe) lies outside of the ring.
RecvBadIndex(r) == /\ rpc[r] = "copy"
                   /\ cq[cq_head_index].sq_head \notin Slots
                   /\ rv_lock' = NoOne
                   /\ RecvReturn(r, "EIO")
                   /\ UNCHANGED <<devVars, sendVars, used_num, cq_head_index,
                                  cqc_phase, returned, out>>

\* Mutants of RecvCopy: the phase is not flipped at the end of the ring; the
\* SQE is looked up with the CQ head instead of the CQE's SQ head index.
PhaseNotFlipped(r) == /\ rpc[r] = "copy"
                      /\ cq[cq_head_index].sq_head \in Slots
                      /\ resp' = [resp EXCEPT ![r] = sq[cq[cq_head_index].sq_head]]
                      /\ RecvGoto(r, "status")
                      /\ UNCHANGED <<devVars, sendVars, used_num, cq_head_index,
                                     cqc_phase, rv_lock, want, got, returned, out>>

CopyAtCqHead(r) == /\ rpc[r] = "copy"
                   /\ resp' = [resp EXCEPT ![r] = sq[cq_head_index]]
                   /\ cqc_phase' = IF cq_head_index = CqDepth - 1
                                   THEN 1 - cqc_phase ELSE cqc_phase
                   /\ RecvGoto(r, "status")
                   /\ UNCHANGED <<devVars, sendVars, used_num, cq_head_index,
                                  rv_lock, want, got, returned, out>>

\* The phase is flipped here, before the status check: an error return leaves
\* it flipped although cq_head_index has not moved.
RecvCopy(r) == /\ rpc[r] = "copy"
               /\ cq[cq_head_index].sq_head \in Slots
               /\ resp' = [resp EXCEPT ![r] = sq[cq[cq_head_index].sq_head]]
               /\ cqc_phase' = IF cq_head_index = CqDepth - 1
                               THEN 1 - cqc_phase ELSE cqc_phase
               /\ RecvGoto(r, "status")
               /\ UNCHANGED <<devVars, sendVars, used_num, cq_head_index,
                              rv_lock, want, got, returned, out>>

RecvStatusError(r) == /\ rpc[r] = "status" /\ ds_rx = 1
                      /\ rv_lock' = NoOne
                      /\ RecvReturn(r, "HW_EACCESS")
                      /\ UNCHANGED <<devVars, sendVars, used_num, cq_head_index,
                                     cqc_phase, returned, out>>

RecvStatusOk(r) == /\ rpc[r] = "status" /\ ds_rx # 1
                   /\ RecvGoto(r, "commit")
                   /\ UNCHANGED <<devVars, sendVars, used_num, cq_head_index,
                                  cqc_phase, rv_lock, want, got, resp, returned,
                                  out>>

\* Mutant of RecvAdvance: the answered SQE is not given back.
AdvanceKeepsSqe(r) == /\ rpc[r] = "commit"
                      /\ cq_head_index' = IF cq_head_index = CqDepth - 1
                                          THEN 0 ELSE cq_head_index + 1
                      /\ returned' = returned + 1
                      /\ out' = resp[r]
                      /\ rv_lock' = NoOne
                      /\ UNCHANGED <<devVars, sendVars, cqc_phase, used_num>>

\* The CQ doorbell, cq_head_index, used_num and the unlock.
RecvAdvance(r) == /\ rpc[r] = "commit"
                  /\ cq_head_index' = IF cq_head_index = CqDepth - 1
                                      THEN 0 ELSE cq_head_index + 1
                  /\ used_num' = (used_num - 1) % UsedMod
                  /\ returned' = returned + 1
                  /\ out' = resp[r]
                  /\ rv_lock' = NoOne
                  /\ UNCHANGED <<devVars, sendVars, cqc_phase>>

\* The loop of hisi_qm_recv goes on until `expect' answers were received.
RecvMore(r) == /\ got[r] + 1 < want[r]
               /\ RecvAdvance(r)
               /\ got' = [got EXCEPT ![r] = got[r] + 1]
               /\ resp' = [resp EXCEPT ![r] = Blank]
               /\ RecvGoto(r, "poll")
               /\ UNCHANGED want

RecvLast(r) == /\ got[r] + 1 >= want[r]
               /\ RecvAdvance(r)
               /\ RecvReturn(r, "ok")

-----------------------------------------------------------------------------
\* The device (external).  It takes the SQEs up to the announced tail in ring
\* order, writes each result back into its SQE and posts a CQE whose phase
\* alternates with every turn of the completion ring.  A failing device raises
\* the two status words, in either order, or posts a CQE with a broken SQ head
\* index; it completes nothing after that.

DevPhase(k) == 1 - ((k \div CqDepth) % 2)

PostCqe(sqHead) == cq' = [cq EXCEPT ![completed % CqDepth] =
                            [phase |-> DevPhase(completed), sq_head |-> sqHead]]

DeviceComplete == LET j == completed % SqDepth IN
                  /\ device = "runs" /\ j # db_tail
                  /\ sq' = [sq EXCEPT ![j].st = "done"]
                  /\ PostCqe(j)
                  /\ completed' = completed + 1
                  /\ UNCHANGED <<db_tail, device, ds_tx, ds_rx, sendVars,
                                 recvVars, used_num, ret>>

DeviceBadCqe == /\ device = "runs" /\ completed % SqDepth # db_tail
                /\ PostCqe(SqDepth)
                /\ device' = "stopped"
                /\ UNCHANGED <<sq, db_tail, completed, ds_tx, ds_rx, sendVars,
                               recvVars, used_num, ret>>

DeviceErrorTx == /\ ds_tx = 0 /\ ds_tx' = 1 /\ device' = "stopped"
                 /\ UNCHANGED <<sq, cq, db_tail, completed, ds_rx, sendVars,
                                recvVars, used_num, ret>>

DeviceErrorRx == /\ ds_rx = 0 /\ ds_rx' = 1 /\ device' = "stopped"
                 /\ UNCHANGED <<sq, cq, db_tail, completed, ds_tx, sendVars,
                                recvVars, used_num, ret>>

-----------------------------------------------------------------------------
SendStep(s) == \/ SendFill(s) \/ SendStatusError(s) \/ SendStatusOk(s)
               \/ SendDoorbell(s) \/ SendCommit(s)

SendCall(s) == \E n \in Batches : SendBusy(s, n) \/ SendLock(s, n)

RecvStep(r) == \/ RecvEmpty(r) \/ RecvPhase(r) \/ RecvBadIndex(r)
               \/ RecvCopy(r) \/ RecvStatusError(r) \/ RecvStatusOk(r)
               \/ RecvMore(r) \/ RecvLast(r)

RecvCall(r) == (\E n \in Batches : RecvStart(r, n)) \/ RecvRefused(r)

Next == \/ \E s \in Senders : SendCall(s) \/ SendStep(s)
        \/ \E r \in Receivers : RecvCall(r) \/ RecvStep(r)
        \/ DeviceComplete \/ DeviceBadCqe \/ DeviceErrorTx \/ DeviceErrorRx

Spec == Init /\ [][Next]_vars

\* A started send or receive runs on; the device completes what was announced;
\* the application keeps polling (its side of the contract).
Fairness == /\ \A s \in Senders : WF_vars(SendStep(s))
            /\ \A r \in Receivers : WF_vars(RecvStep(r) \/ RecvCall(r))
            /\ WF_vars(DeviceComplete)

FairSpec == Spec /\ Fairness

-----------------------------------------------------------------------------
InFlight == returned .. submitted - 1

\* Every variable stays in its range.
TypeOK ==
  /\ sq \in [Slots -> [req : Int, st : {"new", "done"}]]
  /\ cq \in [CqSlots -> [phase : {0, 1}, sq_head : Nat]]
  /\ sq_tail_index \in Slots /\ db_tail \in Slots /\ cq_head_index \in CqSlots
  /\ cqc_phase \in {0, 1} /\ used_num \in 0 .. UsedMod - 1
  /\ sd_lock \in Senders \cup {NoOne} /\ rv_lock \in Receivers \cup {NoOne}
  /\ ds_tx \in {0, 1} /\ ds_rx \in {0, 1} /\ device \in {"runs", "stopped"}
  /\ completed \in Nat /\ submitted \in Nat /\ returned \in Nat
  /\ spc \in [Senders -> SpcValues] /\ rpc \in [Receivers -> RpcValues]
  /\ expect \in [Senders -> 1 .. UsedMod - 1]
  /\ want \in [Receivers -> 1 .. UsedMod - 1] /\ got \in [Receivers -> Nat]
  /\ ret \in Rets
  /\ resp \in [Receivers -> [req : Int, st : {"new", "done"}]]
  /\ out \in [req : Int, st : {"new", "done"}]

\* hisi_qm_fill_sqe never touches the SQE of a request that was announced and
\* not yet received, wherever the ring wraps: each keeps its own payload, with
\* its result once the device has completed it.
InFlightIntact ==
  \A k \in InFlight : sq[k % SqDepth] = [req |-> k, st |-> IF k < completed THEN "done" ELSE "new"]

\* hisi_qm_recv_single takes the head CQE for new exactly when the device has
\* completed a request nobody received: the phase bit never mistakes a CQE of
\* an earlier turn for a new one, nor a new one for an old.
PhaseIffUnread ==
  rv_lock = NoOne /\ device = "runs" => (PhaseMatches <=> returned < completed)

\* The completion ring is never overrun: no CQE is replaced before it is read.
CqeKept ==
  \A k \in returned .. completed - 1 :
     cq[k % CqDepth] = [phase |-> DevPhase(k), sq_head |-> k % SqDepth]

\* Whenever the next sender can take sd_lock, used_num counts exactly the
\* requests in flight, although receivers decrement it without that lock and
\* may do so before the sender has added its batch.
UsedNumExact == sd_lock = NoOne => used_num = submitted - returned

\* hisi_qm_send refuses a batch only when the ring has no room for it.
BusyOnlyWhenFull ==
  [][\A s \in Senders, n \in Batches :
       SendBusy(s, n) => (submitted - returned) + n > SqDepth - 1]_vars

\* Every announced request is answered, unless the device fails.
EveryRequestAnswered ==
  \A k \in 0 .. MaxSend - 1 : submitted > k ~> (returned > k \/ device = "stopped")

\* The detailed queue implements the bounded FIFO: batches are accepted whole
\* at the doorbell, answers leave in order, once each, and completed.
Fifo == INSTANCE BoundedFifo
          WITH Cap <- SqDepth - 1, accepted <- submitted,
               delivered <- returned,
               answer <- IF out.st = "done" THEN out.req ELSE -1
ImplementsFifo == Fifo!FifoSpec

\* The strengthening that makes the invariants above inductive.  A batch is
\* pending between its doorbell and its addition to used_num.
Pending == IF sd_lock # NoOne /\ spc[sd_lock] = "commit"
           THEN expect[sd_lock] ELSE 0
Settled == submitted - Pending

LockInv == /\ \A s \in Senders : (spc[s] # "idle") <=> (sd_lock = s)
           /\ \A r \in Receivers :
                (rpc[r] \in {"copy", "status", "commit"}) <=> (rv_lock = r)
           /\ ds_tx = 1 \/ ds_rx = 1 => device = "stopped"

CountInv ==
  /\ returned <= completed /\ completed <= submitted
  /\ submitted - returned <= SqDepth - 1
  /\ Settled \in Nat
  /\ used_num = IF Settled >= returned THEN Settled - returned
                ELSE (Settled - returned) + UsedMod
  /\ \A s \in Senders : spc[s] # "idle" =>
       expect[s] \in Batches /\ expect[s] <= SqDepth - 1
  /\ \A s \in Senders : spc[s] \in {"fill", "status", "doorbell"} =>
       (submitted - returned) + expect[s] <= SqDepth - 1
  /\ sq_tail_index = Settled % SqDepth
  /\ db_tail = submitted % SqDepth
  /\ cq_head_index = returned % CqDepth

FilledInv == \A s \in Senders : spc[s] \in {"status", "doorbell"} =>
               \A m \in 0 .. expect[s] - 1 :
                 sq[(submitted + m) % SqDepth] =
                   [req |-> submitted + m, st |-> "new"]

\* A CQE beyond the completed ones is of the previous turn, or the broken one
\* a failing device left.
BrokenCqe == device = "stopped" /\ cq[completed % CqDepth].sq_head \notin Slots
StaleCqeInv == \A k \in completed .. (returned + CqDepth) - 1 :
                 \/ cq[k % CqDepth].phase # DevPhase(k)
                 \/ k = completed /\ BrokenCqe

\* cqc_phase is the head CQE's phase, except between the flip at the end of
\* the ring and the move of cq_head_index, or for ever if ds_rx came between.
HeadPhase == DevPhase(returned)
FlippedPhase == IF cq_head_index = CqDepth - 1 THEN 1 - HeadPhase ELSE HeadPhase
CopiedOut == \E r \in Receivers : rpc[r] \in {"status", "commit"}
PhaseInv == /\ CopiedOut => cqc_phase = FlippedPhase
            /\ ~CopiedOut => \/ cqc_phase = HeadPhase
                             \/ /\ ds_rx = 1 /\ returned < completed
                                /\ rv_lock = NoOne
                                /\ cqc_phase = FlippedPhase
            /\ \A r \in Receivers : rpc[r] = "copy" =>
                 cq[cq_head_index].phase = HeadPhase

RespInv == /\ \A r \in Receivers : rpc[r] \in {"status", "commit"} =>
                /\ returned < completed
                /\ resp[r] = [req |-> returned, st |-> "done"]
           /\ IF returned = 0 THEN out = Blank
              ELSE out = [req |-> returned - 1, st |-> "done"]

\* Everything hisi_qm_send and hisi_qm_recv_single rely on between two steps
\* of theirs while the other side and the device move.
IndInv == /\ TypeOK /\ LockInv /\ CountInv /\ FilledInv /\ InFlightIntact
          /\ CqeKept /\ StaleCqeInv /\ PhaseInv /\ RespInv
=============================================================================
