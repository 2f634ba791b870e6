--------------------------- MODULE QmQueueProofs ---------------------------
(***************************************************************************)
(* Proofs about QmQueue for every number of threads, every ring depth,     *)
(* every batch size and every counter width: its inductive invariant, the  *)
(* safety properties that follow from it, and the implementation of        *)
(* BoundedFifo.                                                            *)
(***************************************************************************)
EXTENDS QmQueue, RingArith, TLAPS

USE DepthAssumption

\* Where the batch position of a slot ahead of the tail comes from: the slot
\* of request S + m is at position m of a batch whose first request is S.
LEMMA PositionAhead ==
  ASSUME NEW S \in Nat, NEW m \in 0 .. SqDepth - 1
  PROVE  Position(S % SqDepth, (S + m) % SqDepth) = m
<1>1. S % SqDepth \in 0 .. SqDepth - 1
  BY DivMod
<1>2. (S + m) % SqDepth = IF (S % SqDepth) + m < SqDepth
                          THEN (S % SqDepth) + m
                          ELSE ((S % SqDepth) + m) - SqDepth
  BY ModAdd
<1> QED BY <1>1, <1>2 DEF Position

\* The slot of a request before S is as far from the end of the batch as the
\* ring allows.
LEMMA PositionBehind ==
  ASSUME NEW S \in Nat, NEW k \in Nat, k < S, S - k < SqDepth
  PROVE  Position(S % SqDepth, k % SqDepth) = SqDepth - (S - k)
<1> DEFINE t == S - k
<1>1. t \in 0 .. SqDepth - 1 /\ S = k + t /\ t # 0
  OBVIOUS
<1>2. k % SqDepth \in 0 .. SqDepth - 1
  BY DivMod
<1> HIDE DEF t
<1>3. S % SqDepth = IF (k % SqDepth) + t < SqDepth THEN (k % SqDepth) + t
                    ELSE ((k % SqDepth) + t) - SqDepth
  BY <1>1, ModAdd
<1>4. Position(S % SqDepth, k % SqDepth) = SqDepth - t
  BY <1>1, <1>2, <1>3 DEF Position
<1> QED BY <1>4 DEF t

\* The device's phase is a bit that flips when the completion ring wraps, and
\* differs from the phase of the same slot one turn before.
LEMMA PhaseFacts ==
  ASSUME NEW k \in Nat
  PROVE  /\ DevPhase(k) \in {0, 1}
         /\ DevPhase(k + 1) = IF k % CqDepth = CqDepth - 1 THEN 1 - DevPhase(k)
                              ELSE DevPhase(k)
         /\ DevPhase(k + CqDepth) = 1 - DevPhase(k)
<1>1. k \div CqDepth \in Nat
  BY DivMod
<1>2. (k \div CqDepth) % 2 \in {0, 1}
      /\ ((k \div CqDepth) + 1) % 2 = 1 - ((k \div CqDepth) % 2)
  BY <1>1, Parity
<1>3. (k + CqDepth) \div CqDepth = (k \div CqDepth) + 1
  BY NextTurn
<1>4. (k + 1) \div CqDepth = IF k % CqDepth = CqDepth - 1
                             THEN (k \div CqDepth) + 1 ELSE k \div CqDepth
  BY NextSlot
<1> QED BY <1>2, <1>3, <1>4 DEF DevPhase

-----------------------------------------------------------------------------
\* The invariant holds of a queue pair that was just set up.
LEMMA InitInv == Init => IndInv
<1> SUFFICES ASSUME Init PROVE IndInv
  OBVIOUS
<1>0. 0 % SqDepth = 0 /\ 0 % CqDepth = 0
  BY ModSmall
<1>1. TypeOK
  <2>1. /\ sq \in [Slots -> [req : Int, st : {"new", "done"}]]
        /\ resp \in [Receivers -> [req : Int, st : {"new", "done"}]]
        /\ out \in [req : Int, st : {"new", "done"}]
    BY DEF Init, Blank
  <2>2. cq \in [CqSlots -> [phase : {0, 1}, sq_head : Nat]]
    BY DEF Init
  <2>3. /\ spc \in [Senders -> SpcValues] /\ rpc \in [Receivers -> RpcValues]
        /\ expect \in [Senders -> 1 .. UsedMod - 1]
        /\ want \in [Receivers -> 1 .. UsedMod - 1]
        /\ got \in [Receivers -> Nat] /\ ret \in Rets
    BY DEF Init, SpcValues, RpcValues, Rets
  <2> QED BY <2>1, <2>2, <2>3 DEF Init, TypeOK, Slots, CqSlots
<1>2. LockInv
  BY ThreadAssumption DEF Init, LockInv
<1>3. CountInv
  BY <1>0 DEF Init, CountInv, Settled, Pending
<1>4. FilledInv /\ InFlightIntact /\ CqeKept /\ RespInv
  BY DEF Init, FilledInv, InFlightIntact, InFlight, CqeKept, RespInv
<1>5. \A k \in 0 .. CqDepth - 1 : k % CqDepth = k /\ DevPhase(k) = 1
  <2> TAKE k \in 0 .. CqDepth - 1
  <2>1. k % CqDepth = k /\ k \div CqDepth = 0
    BY ModSmall
  <2>2. 0 % 2 = 0
    BY ModSmall
  <2> QED BY <2>1, <2>2 DEF DevPhase
<1>6. StaleCqeInv
  <2> SUFFICES ASSUME NEW k \in 0 .. CqDepth - 1
               PROVE  cq[k % CqDepth].phase # DevPhase(k)
    BY DEF Init, StaleCqeInv
  <2>1. k % CqDepth = k /\ DevPhase(k) = 1
    BY <1>5
  <2>2. cq[k].phase = 0
    BY DEF Init, CqSlots
  <2> QED BY <2>1, <2>2
<1>7. PhaseInv
  BY <1>5 DEF Init, PhaseInv, HeadPhase, CopiedOut
<1> QED BY <1>1, <1>2, <1>3, <1>4, <1>6, <1>7 DEF IndInv

-----------------------------------------------------------------------------
(* hisi_qm_send                                                            *)

\* A refused send changes nothing but the return code.
LEMMA SendBusyInv == ASSUME IndInv, NEW s \in Senders, NEW n \in Batches,
                            SendBusy(s, n)
                     PROVE  IndInv'
<1>1. TypeOK' /\ LockInv'
  BY ThreadAssumption DEF IndInv, SendBusy, SendReturn, devVars, recvVars,
       TypeOK, LockInv, SpcValues, Rets
<1>2. CountInv' /\ FilledInv'
  BY ThreadAssumption DEF IndInv, SendBusy, SendReturn, devVars, recvVars,
       TypeOK, CountInv, FilledInv, Settled, Pending
<1>3. InFlightIntact' /\ CqeKept' /\ StaleCqeInv'
  BY DEF IndInv, SendBusy, SendReturn, devVars, recvVars, InFlightIntact,
       InFlight, CqeKept, StaleCqeInv, BrokenCqe
<1>4. PhaseInv' /\ RespInv'
  BY DEF IndInv, SendBusy, SendReturn, devVars, recvVars, PhaseInv, RespInv,
       HeadPhase, FlippedPhase, CopiedOut
<1> QED BY <1>1, <1>2, <1>3, <1>4 DEF IndInv

\* The batch that passes the check fits, because used_num is exact while the
\* lock is free.
LEMMA SendLockInv == ASSUME IndInv, NEW s \in Senders, NEW n \in Batches,
                            SendLock(s, n)
                     PROVE  IndInv'
<1>1. TypeOK' /\ LockInv'
  BY ThreadAssumption, BatchAssumption DEF IndInv, SendLock, SendGoto,
       devVars, recvVars, TypeOK, LockInv, SpcValues
<1>2. Pending = 0 /\ Pending' = 0 /\ used_num = submitted - returned
  BY ThreadAssumption DEF IndInv, SendLock, SendGoto, devVars, recvVars,
       TypeOK, LockInv, CountInv, Settled, Pending
<1>3. n <= (SqDepth - 1) - (submitted - returned)
  <2>1. get_free_num \in 0 .. UsedMod - 1
    BY <1>2 DEF IndInv, TypeOK, CountInv, get_free_num
  <2>3. free_num = get_free_num
    BY <2>1, ModSmall DEF free_num
  <2> QED BY <1>2, <2>3, BatchAssumption DEF SendLock, get_free_num
<1>4. CountInv' /\ FilledInv'
  BY <1>1, <1>2, <1>3, ThreadAssumption, BatchAssumption
     DEF IndInv, SendLock, SendGoto, devVars, recvVars, TypeOK, LockInv,
          CountInv, FilledInv, Settled
<1>5. InFlightIntact' /\ CqeKept' /\ StaleCqeInv'
  BY DEF IndInv, SendLock, SendGoto, devVars, recvVars, InFlightIntact,
       InFlight, CqeKept, StaleCqeInv, BrokenCqe
<1>6. PhaseInv' /\ RespInv'
  BY DEF IndInv, SendLock, SendGoto, devVars, recvVars, PhaseInv, RespInv,
       HeadPhase, FlippedPhase, CopiedOut
<1> QED BY <1>1, <1>4, <1>5, <1>6 DEF IndInv

\* A send stopped by the status word leaves the filled SQEs unannounced.
LEMMA SendStatusErrorInv == ASSUME IndInv, NEW s \in Senders, SendStatusError(s)
                            PROVE  IndInv'
<1>1. TypeOK' /\ LockInv'
  BY ThreadAssumption DEF IndInv, SendStatusError, SendReturn, devVars,
       recvVars, TypeOK, LockInv, SpcValues, Rets
<1>2. Pending = 0 /\ Pending' = 0
  BY <1>1, ThreadAssumption DEF IndInv, SendStatusError, SendReturn, devVars,
       recvVars, TypeOK, LockInv, Pending
<1>3. CountInv' /\ FilledInv'
  BY <1>2 DEF IndInv, SendStatusError, SendReturn, devVars, recvVars, TypeOK,
       LockInv, CountInv, FilledInv, Settled
<1>4. InFlightIntact' /\ CqeKept' /\ StaleCqeInv'
  BY DEF IndInv, SendStatusError, SendReturn, devVars, recvVars,
       InFlightIntact, InFlight, CqeKept, StaleCqeInv, BrokenCqe
<1>5. PhaseInv' /\ RespInv'
  BY DEF IndInv, SendStatusError, SendReturn, devVars, recvVars, PhaseInv,
       RespInv, HeadPhase, FlippedPhase, CopiedOut
<1> QED BY <1>1, <1>3, <1>4, <1>5 DEF IndInv

\* The status check only moves the sender on.
LEMMA SendStatusOkInv == ASSUME IndInv, NEW s \in Senders, SendStatusOk(s)
                         PROVE  IndInv'
<1>1. TypeOK' /\ LockInv'
  BY ThreadAssumption DEF IndInv, SendStatusOk, SendGoto, devVars, recvVars,
       TypeOK, LockInv, SpcValues
<1>2. Pending = 0 /\ Pending' = 0
  BY <1>1, ThreadAssumption DEF IndInv, SendStatusOk, SendGoto, devVars,
       recvVars, TypeOK, LockInv, Pending
<1>3. CountInv' /\ FilledInv'
  BY <1>2 DEF IndInv, SendStatusOk, SendGoto, devVars, recvVars, TypeOK,
       LockInv, CountInv, FilledInv, Settled
<1>4. InFlightIntact' /\ CqeKept' /\ StaleCqeInv'
  BY DEF IndInv, SendStatusOk, SendGoto, devVars, recvVars, InFlightIntact,
       InFlight, CqeKept, StaleCqeInv, BrokenCqe
<1>5. PhaseInv' /\ RespInv'
  BY DEF IndInv, SendStatusOk, SendGoto, devVars, recvVars, PhaseInv,
       RespInv, HeadPhase, FlippedPhase, CopiedOut
<1> QED BY <1>1, <1>3, <1>4, <1>5 DEF IndInv

\* What a sender between the check and the doorbell knows.
LEMMA BeforeDoorbell ==
  ASSUME IndInv, NEW s \in Senders, spc[s] \in {"fill", "doorbell"}
  PROVE  /\ sd_lock = s /\ Pending = 0 /\ Settled = submitted
         /\ submitted \in Nat /\ returned \in Nat
         /\ sq_tail_index = submitted % SqDepth
         /\ expect[s] \in 0 .. SqDepth - 1 /\ expect[s] # 0
         /\ expect[s] \in Batches
         /\ (submitted - returned) + expect[s] <= SqDepth - 1
BY ThreadAssumption DEF IndInv, TypeOK, LockInv, CountInv, Settled, Pending

\* Filling the ring leaves every request in flight alone: the batch and the
\* requests in flight together are shorter than the ring.
LEMMA SendFillInv == ASSUME IndInv, NEW s \in Senders, SendFill(s)
                     PROVE  IndInv'
<1> DEFINE n == expect[s]
<1>1. /\ sd_lock = s /\ Pending = 0 /\ Settled = submitted
      /\ submitted \in Nat /\ returned \in Nat
      /\ sq_tail_index = submitted % SqDepth
      /\ n \in 0 .. SqDepth - 1 /\ n # 0 /\ n \in Batches
      /\ (submitted - returned) + n <= SqDepth - 1
  BY BeforeDoorbell DEF SendFill
<1>2. Pending' = 0
  BY <1>1, ThreadAssumption DEF IndInv, SendFill, SendGoto, recvVars, TypeOK,
       LockInv, Pending
<1>3. TypeOK'
  <2>1. sq' \in [Slots -> [req : Int, st : {"new", "done"}]]
    BY SMTT(30) DEF IndInv, SendFill, SendGoto, recvVars, TypeOK, fill_sqe, Position,
         Slots
  <2> QED BY <2>1 DEF IndInv, SendFill, SendGoto, recvVars, TypeOK, SpcValues
<1>4. LockInv'
  BY <1>1, <1>3, ThreadAssumption DEF IndInv, SendFill, SendGoto, recvVars,
       TypeOK, LockInv
<1>5. CountInv'
  BY <1>1, <1>2 DEF IndInv, SendFill, SendGoto, recvVars, TypeOK, CountInv,
       Settled
<1>6. \A k \in Nat : k % SqDepth \in Slots
  BY DivMod DEF Slots
<1>7. InFlightIntact'
  <2> SUFFICES ASSUME NEW k \in InFlight PROVE sq'[k % SqDepth] = sq[k % SqDepth]
    BY DEF IndInv, SendFill, SendGoto, recvVars, InFlightIntact, InFlight
  <2>1. k \in Nat /\ returned <= k /\ k < submitted /\ submitted - k < SqDepth
    BY <1>1 DEF InFlight
  <2>2. Position(sq_tail_index, k % SqDepth) = SqDepth - (submitted - k)
    BY <1>1, <2>1, PositionBehind
  <2>3. ~(Position(sq_tail_index, k % SqDepth) < n)
    BY <1>1, <2>1, <2>2
  <2> QED BY <1>6, <2>1, <2>3 DEF SendFill, fill_sqe
<1>8. FilledInv'
  <2>1. \A m \in 0 .. n - 1 : sq'[(submitted + m) % SqDepth] =
                                [req |-> submitted + m, st |-> "new"]
    <3> SUFFICES ASSUME NEW m \in 0 .. n - 1
                 PROVE  sq'[(submitted + m) % SqDepth] =
                          [req |-> submitted + m, st |-> "new"]
      OBVIOUS
    <3>0. m \in 0 .. SqDepth - 1 /\ submitted + m \in Nat /\ m < n
      BY <1>1
    <3>1. Position(sq_tail_index, (submitted + m) % SqDepth) = m
      BY <1>1, <3>0, PositionAhead
    <3>2. (submitted + m) % SqDepth \in Slots
      BY <1>6, <3>0
    <3> QED BY <3>0, <3>1, <3>2 DEF SendFill, fill_sqe
  <2> QED BY <1>1, <2>1, <1>4 DEF IndInv, SendFill, SendGoto, recvVars,
       TypeOK, LockInv, FilledInv
<1>9. CqeKept' /\ StaleCqeInv'
  BY DEF IndInv, SendFill, SendGoto, recvVars, CqeKept, StaleCqeInv, BrokenCqe
<1>10. PhaseInv' /\ RespInv'
  BY DEF IndInv, SendFill, SendGoto, recvVars, PhaseInv, RespInv, HeadPhase,
       FlippedPhase, CopiedOut
<1> QED BY <1>3, <1>4, <1>5, <1>7, <1>8, <1>9, <1>10 DEF IndInv

\* The doorbell puts a filled batch in flight.
LEMMA SendDoorbellInv == ASSUME IndInv, NEW s \in Senders, SendDoorbell(s)
                         PROVE  IndInv'
<1> DEFINE n == expect[s]
<1>1. /\ sd_lock = s /\ Pending = 0 /\ Settled = submitted
      /\ submitted \in Nat /\ returned \in Nat
      /\ sq_tail_index = submitted % SqDepth
      /\ n \in 0 .. SqDepth - 1 /\ n # 0 /\ n \in Batches
      /\ (submitted - returned) + n <= SqDepth - 1
  BY BeforeDoorbell DEF SendDoorbell
<1>2. Pending' = n /\ Settled' = submitted
  BY <1>1, ThreadAssumption DEF IndInv, SendDoorbell, SendGoto, recvVars,
       TypeOK, LockInv, Pending, Settled
<1>3. db_tail' = (submitted + n) % SqDepth
  <2>1. ((submitted % SqDepth) + n) % SqDepth = (submitted + n) % SqDepth
    BY <1>1, ModAddMod
  <2> QED BY <1>1, <2>1 DEF SendDoorbell
<1>4. TypeOK'
  <2>1. submitted + n \in Nat
    BY <1>1
  <2>2. (submitted + n) % SqDepth \in Slots
    BY <2>1, DivMod DEF Slots
  <2> QED BY <1>3, <2>1, <2>2 DEF IndInv, SendDoorbell, SendGoto, recvVars,
       TypeOK, SpcValues
<1>5. LockInv'
  BY <1>1, <1>4, ThreadAssumption DEF IndInv, SendDoorbell, SendGoto,
       recvVars, TypeOK, LockInv
<1>6. CountInv'
  <2>1. \A t \in Senders : spc'[t] # "idle" => t = s
    BY <1>1, <1>5 DEF IndInv, SendDoorbell, SendGoto, recvVars, LockInv
  <2>2. /\ submitted' = submitted + n /\ expect' = expect /\ spc'[s] = "commit"
        /\ UNCHANGED <<returned, completed, used_num, sq_tail_index,
                       cq_head_index>>
    BY DEF IndInv, SendDoorbell, SendGoto, recvVars, TypeOK
  <2>3. CountInv
    BY DEF IndInv
  <2>4. /\ Settled' \in Nat /\ Settled' = Settled
        /\ db_tail' = submitted' % SqDepth
    BY <1>1, <1>2, <1>3, <2>2
  <2>6. completed \in Nat /\ completed <= submitted
    BY DEF IndInv, TypeOK, CountInv
  <2>7. submitted' - returned' <= SqDepth - 1 /\ completed' <= submitted'
    BY <1>1, <2>2, <2>6
  <2>5. \A t \in Senders : spc'[t] # "idle" =>
          /\ expect'[t] \in Batches /\ expect'[t] <= SqDepth - 1
          /\ spc'[t] \notin {"fill", "status", "doorbell"}
    BY <1>1, <2>1, <2>2
  <2> QED BY <2>2, <2>3, <2>4, <2>5, <2>7 DEF CountInv
<1>7. FilledInv'
  BY <1>1 DEF IndInv, SendDoorbell, SendGoto, recvVars, TypeOK, LockInv,
       FilledInv
<1>8. InFlightIntact'
  <2> SUFFICES ASSUME NEW k \in InFlight'
               PROVE  sq[k % SqDepth] =
                        [req |-> k, st |-> IF k < completed THEN "done" ELSE "new"]
    BY DEF IndInv, SendDoorbell, SendGoto, recvVars, InFlightIntact
  <2>1. CASE k < submitted
    BY <2>1 DEF IndInv, SendDoorbell, SendGoto, recvVars, TypeOK,
         InFlightIntact, InFlight
  <2>2. CASE k >= submitted
    <3> DEFINE m == k - submitted
    <3>1. m \in 0 .. n - 1 /\ k = submitted + m /\ ~(k < completed)
      BY <1>1, <2>2 DEF IndInv, SendDoorbell, SendGoto, recvVars, TypeOK,
           CountInv, InFlight
    <3> HIDE DEF m
    <3> QED BY <3>1 DEF IndInv, SendDoorbell, SendGoto, recvVars, FilledInv
  <2> QED BY <2>1, <2>2 DEF IndInv, SendDoorbell, SendGoto, recvVars, TypeOK,
       InFlight
<1>9. CqeKept' /\ StaleCqeInv'
  BY DEF IndInv, SendDoorbell, SendGoto, recvVars, CqeKept, StaleCqeInv,
       BrokenCqe
<1>10. PhaseInv' /\ RespInv'
  BY DEF IndInv, SendDoorbell, SendGoto, recvVars, PhaseInv, RespInv,
       HeadPhase, FlippedPhase, CopiedOut
<1> QED BY <1>4, <1>5, <1>6, <1>7, <1>8, <1>9, <1>10 DEF IndInv

\* Adding the batch makes used_num exact, also when receivers were faster and
\* the counter has wrapped below zero meanwhile.
LEMMA SendCommitInv == ASSUME IndInv, NEW s \in Senders, SendCommit(s)
                       PROVE  IndInv'
<1> DEFINE n == expect[s]
<1>1. sd_lock = s /\ Pending = n /\ n \in 0 .. SqDepth - 1 /\ n # 0
  BY ThreadAssumption DEF IndInv, SendCommit, SendReturn, devVars, recvVars,
       TypeOK, LockInv, CountInv, Settled, Pending
<1>2. /\ Settled + n = submitted /\ Settled \in Nat
      /\ sq_tail_index = Settled % SqDepth
  BY <1>1 DEF IndInv, SendCommit, SendReturn, devVars, recvVars, TypeOK,
       CountInv, Settled
<1>3. Pending' = 0 /\ Settled' = submitted
  BY <1>1, ThreadAssumption DEF IndInv, SendCommit, SendReturn, devVars,
       recvVars, TypeOK, LockInv, Pending, Settled
<1>4. sq_tail_index' = submitted % SqDepth
  <2>1. ((Settled % SqDepth) + n) % SqDepth = (Settled + n) % SqDepth
    BY <1>1, <1>2, ModAddMod
  <2> QED BY <1>2, <2>1 DEF SendCommit
<1>5. used_num' = submitted - returned /\ used_num' \in 0 .. UsedMod - 1
  <2> DEFINE u == submitted - returned
  <2>1. u \in 0 .. UsedMod - 1
    BY DEF IndInv, TypeOK, CountInv
  <2>2. used_num + n = UsedMod * 0 + u \/ used_num + n = UsedMod * 1 + u
    <3>1. /\ returned \in Nat
          /\ used_num = IF Settled >= returned THEN Settled - returned
                        ELSE (Settled - returned) + UsedMod
      BY DEF IndInv, TypeOK, CountInv
    <3> QED BY <1>1, <1>2, <3>1
  <2>3. used_num' = (used_num + n) % UsedMod
    BY DEF SendCommit
  <2> HIDE DEF u
  <2>4. (UsedMod * 0 + u) % UsedMod = u /\ (UsedMod * 1 + u) % UsedMod = u
    BY <2>1, DivModOf
  <2>5. used_num' = u
    BY <2>2, <2>3, <2>4
  <2> QED BY <2>1, <2>5 DEF u
<1>6. TypeOK'
  <2>1. submitted % SqDepth \in Slots
    BY DivMod DEF IndInv, TypeOK, Slots
  <2>2. /\ UNCHANGED <<devVars, recvVars, submitted>>
        /\ SendReturn(s, "ok")
    BY DEF SendCommit
  <2> QED BY <1>4, <1>5, <2>1, <2>2
          DEF IndInv, SendReturn, devVars, recvVars, TypeOK, SpcValues, Rets
<1>7. LockInv'
  BY <1>1, <1>6, ThreadAssumption DEF IndInv, SendCommit, SendReturn,
       devVars, recvVars, TypeOK, LockInv
<1>8. CountInv' /\ FilledInv'
  BY <1>1, <1>3, <1>4, <1>5 DEF IndInv, SendCommit, SendReturn, devVars,
       recvVars, TypeOK, LockInv, CountInv, FilledInv
<1>9. InFlightIntact' /\ CqeKept' /\ StaleCqeInv'
  BY DEF IndInv, SendCommit, SendReturn, devVars, recvVars, InFlightIntact,
       InFlight, CqeKept, StaleCqeInv, BrokenCqe
<1>10. PhaseInv' /\ RespInv'
  BY DEF IndInv, SendCommit, SendReturn, devVars, recvVars, PhaseInv,
       RespInv, HeadPhase, FlippedPhase, CopiedOut
<1> QED BY <1>6, <1>7, <1>8, <1>9, <1>10 DEF IndInv

-----------------------------------------------------------------------------
(* hisi_qm_recv and hisi_qm_recv_single                                    *)

\* Entering hisi_qm_recv.
LEMMA RecvStartInv == ASSUME IndInv, NEW r \in Receivers, NEW n \in Batches,
                             RecvStart(r, n)
                      PROVE  IndInv'
<1>1. TypeOK' /\ LockInv'
  BY ThreadAssumption, BatchAssumption DEF IndInv, RecvStart, RecvGoto,
       devVars, sendVars, TypeOK, LockInv, RpcValues
<1>2. CountInv' /\ FilledInv'
  BY DEF IndInv, RecvStart, RecvGoto, devVars, sendVars, CountInv, FilledInv,
       Settled, Pending
<1>3. InFlightIntact' /\ CqeKept' /\ StaleCqeInv'
  BY DEF IndInv, RecvStart, RecvGoto, devVars, sendVars, InFlightIntact,
       InFlight, CqeKept, StaleCqeInv, BrokenCqe
<1>4. PhaseInv' /\ RespInv'
  BY DEF IndInv, RecvStart, RecvGoto, devVars, sendVars, TypeOK, PhaseInv,
       RespInv, HeadPhase, FlippedPhase, CopiedOut
<1> QED BY <1>1, <1>2, <1>3, <1>4 DEF IndInv

\* hisi_qm_recv refused by the status word.
LEMMA RecvRefusedInv == ASSUME IndInv, NEW r \in Receivers, RecvRefused(r)
                        PROVE  IndInv'
<1>1. TypeOK' /\ LockInv'
  BY ThreadAssumption DEF IndInv, RecvRefused, RecvReturn, devVars, sendVars,
       TypeOK, LockInv, RpcValues, Rets, Blank
<1>2. CountInv' /\ FilledInv'
  BY DEF IndInv, RecvRefused, RecvReturn, devVars, sendVars, CountInv,
       FilledInv, Settled, Pending
<1>3. InFlightIntact' /\ CqeKept' /\ StaleCqeInv'
  BY DEF IndInv, RecvRefused, RecvReturn, devVars, sendVars, InFlightIntact,
       InFlight, CqeKept, StaleCqeInv, BrokenCqe
<1>4. PhaseInv' /\ RespInv'
  BY DEF IndInv, RecvRefused, RecvReturn, devVars, sendVars, TypeOK,
       PhaseInv, RespInv, HeadPhase, FlippedPhase, CopiedOut
<1> QED BY <1>1, <1>2, <1>3, <1>4 DEF IndInv

\* hisi_qm_recv_single finds no new CQE.
LEMMA RecvEmptyInv == ASSUME IndInv, NEW r \in Receivers, RecvEmpty(r)
                      PROVE  IndInv'
<1>1. TypeOK' /\ LockInv'
  BY ThreadAssumption DEF IndInv, RecvEmpty, RecvReturn, devVars, sendVars,
       TypeOK, LockInv, RpcValues, Rets, Blank
<1>2. CountInv' /\ FilledInv'
  BY DEF IndInv, RecvEmpty, RecvReturn, devVars, sendVars, CountInv,
       FilledInv, Settled, Pending
<1>3. InFlightIntact' /\ CqeKept' /\ StaleCqeInv'
  BY DEF IndInv, RecvEmpty, RecvReturn, devVars, sendVars, InFlightIntact,
       InFlight, CqeKept, StaleCqeInv, BrokenCqe
<1>4. PhaseInv' /\ RespInv'
  BY DEF IndInv, RecvEmpty, RecvReturn, devVars, sendVars, TypeOK, PhaseInv,
       RespInv, HeadPhase, FlippedPhase, CopiedOut
<1> QED BY <1>1, <1>2, <1>3, <1>4 DEF IndInv

\* While nobody holds rv_lock, a matching phase is the head CQE's: after a
\* flip without a move the unread head CQE does not match.
LEMMA RecvPhaseInv == ASSUME IndInv, NEW r \in Receivers, RecvPhase(r)
                      PROVE  IndInv'
<1>1. TypeOK' /\ LockInv'
  BY ThreadAssumption DEF IndInv, RecvPhase, RecvGoto, devVars, sendVars,
       TypeOK, LockInv, RpcValues
<1>2. CountInv' /\ FilledInv'
  BY DEF IndInv, RecvPhase, RecvGoto, devVars, sendVars, CountInv, FilledInv,
       Settled, Pending
<1>3. InFlightIntact' /\ CqeKept' /\ StaleCqeInv'
  BY DEF IndInv, RecvPhase, RecvGoto, devVars, sendVars, InFlightIntact,
       InFlight, CqeKept, StaleCqeInv, BrokenCqe
<1>4. ~CopiedOut /\ ~CopiedOut'
  BY <1>1, ThreadAssumption DEF IndInv, RecvPhase, RecvGoto, devVars,
       sendVars, TypeOK, LockInv, CopiedOut
<1>5. cq[cq_head_index].phase = cqc_phase
  BY DEF RecvPhase, PhaseMatches
<1>6. cqc_phase = HeadPhase
  <2>1. CASE cqc_phase = HeadPhase
    BY <2>1
  <2>2. CASE returned < completed /\ cqc_phase = FlippedPhase
    <3>1. returned \in returned .. completed - 1 /\ cq_head_index = returned % CqDepth
      BY <2>2 DEF IndInv, TypeOK, CountInv
    <3>2. cq[returned % CqDepth] =
            [phase |-> DevPhase(returned), sq_head |-> returned % SqDepth]
      BY <3>1 DEF IndInv, CqeKept
    <3>3. cq[cq_head_index].phase = DevPhase(returned)
      BY <3>1, <3>2
    <3> QED BY <1>5, <3>3 DEF HeadPhase
  <2> QED BY <1>4, <2>1, <2>2 DEF IndInv, PhaseInv
<1>7. PhaseInv'
  BY <1>4, <1>5, <1>6 DEF IndInv, RecvPhase, RecvGoto, devVars, sendVars,
       TypeOK, PhaseInv, HeadPhase
<1>8. RespInv'
  BY DEF IndInv, RecvPhase, RecvGoto, devVars, sendVars, TypeOK, RespInv
<1> QED BY <1>1, <1>2, <1>3, <1>7, <1>8 DEF IndInv

\* A broken SQ head index is reported and the CQE is left where it is.
LEMMA RecvBadIndexInv == ASSUME IndInv, NEW r \in Receivers, RecvBadIndex(r)
                         PROVE  IndInv'
<1>1. TypeOK' /\ LockInv'
  BY ThreadAssumption DEF IndInv, RecvBadIndex, RecvReturn, devVars,
       sendVars, TypeOK, LockInv, RpcValues, Rets, Blank
<1>2. CountInv' /\ FilledInv'
  BY DEF IndInv, RecvBadIndex, RecvReturn, devVars, sendVars, CountInv,
       FilledInv, Settled, Pending
<1>3. InFlightIntact' /\ CqeKept' /\ StaleCqeInv'
  BY DEF IndInv, RecvBadIndex, RecvReturn, devVars, sendVars, InFlightIntact,
       InFlight, CqeKept, StaleCqeInv, BrokenCqe
<1>4. rv_lock = r /\ ~CopiedOut /\ ~CopiedOut'
  BY <1>1, ThreadAssumption DEF IndInv, RecvBadIndex, RecvReturn, devVars,
       sendVars, TypeOK, LockInv, CopiedOut
<1>5. cqc_phase = HeadPhase
  BY <1>4, ThreadAssumption DEF IndInv, PhaseInv
<1>6. PhaseInv'
  BY <1>4, <1>5 DEF IndInv, RecvBadIndex, RecvReturn, devVars, sendVars,
       TypeOK, PhaseInv, HeadPhase
<1>7. RespInv'
  BY DEF IndInv, RecvBadIndex, RecvReturn, devVars, sendVars, TypeOK, RespInv
<1> QED BY <1>1, <1>2, <1>3, <1>6, <1>7 DEF IndInv

\* The CQE a receiver found points to the oldest request in flight, whose SQE
\* holds its own result.
LEMMA RecvCopyInv == ASSUME IndInv, NEW r \in Receivers, RecvCopy(r)
                     PROVE  IndInv'
<1> DEFINE h == returned % CqDepth
<1>1. /\ rv_lock = r /\ ~CopiedOut /\ cqc_phase = HeadPhase
      /\ cq[h].phase = HeadPhase /\ cq[h].sq_head \in Slots
      /\ cq_head_index = h
  <2>1. rv_lock = r /\ ~CopiedOut
    BY ThreadAssumption DEF IndInv, RecvCopy, RecvGoto, devVars, sendVars,
         TypeOK, LockInv, CopiedOut
  <2>2. cqc_phase = HeadPhase
    BY <2>1, ThreadAssumption DEF IndInv, PhaseInv
  <2>3. cq_head_index = h
    BY DEF IndInv, CountInv
  <2> QED BY <2>1, <2>2, <2>3 DEF IndInv, RecvCopy, RecvGoto, devVars,
       sendVars, PhaseInv
<1>2. returned < completed
  <2>1. CASE returned = completed
    <3>1. returned \in completed .. (returned + CqDepth) - 1
      BY <2>1 DEF IndInv, TypeOK
    <3>2. \/ cq[h].phase # DevPhase(returned)
          \/ cq[h].sq_head \notin Slots
      BY <2>1, <3>1 DEF IndInv, StaleCqeInv, BrokenCqe
    <3> QED BY <1>1, <3>2 DEF HeadPhase
  <2> QED BY <2>1 DEF IndInv, TypeOK, CountInv
<1>3. resp'[r] = [req |-> returned, st |-> "done"]
  <2>1. /\ returned \in returned .. completed - 1
        /\ returned \in InFlight
    BY <1>2 DEF IndInv, TypeOK, CountInv, InFlight
  <2>2. cq[h] = [phase |-> DevPhase(returned), sq_head |-> returned % SqDepth]
    BY <2>1 DEF IndInv, CqeKept
  <2>3. sq[returned % SqDepth] = [req |-> returned, st |-> "done"]
    BY <1>2, <2>1 DEF IndInv, InFlightIntact
  <2>4. resp'[r] = sq[cq[h].sq_head]
    BY <1>1 DEF IndInv, RecvCopy, RecvGoto, devVars, sendVars, TypeOK
  <2> QED BY <2>2, <2>3, <2>4
<1>4. TypeOK'
  <2>1. HeadPhase \in {0, 1}
    BY PhaseFacts DEF IndInv, TypeOK, HeadPhase
  <2>2. cqc_phase' \in {0, 1}
    BY <1>1, <2>1 DEF RecvCopy
  <2>3. resp' \in [Receivers -> [req : Int, st : {"new", "done"}]]
    BY <1>1 DEF IndInv, RecvCopy, RecvGoto, devVars, sendVars, TypeOK
  <2> QED BY <2>2, <2>3 DEF IndInv, RecvCopy, RecvGoto, devVars, sendVars,
       TypeOK, RpcValues
<1>5. LockInv'
  BY <1>1, <1>4, ThreadAssumption DEF IndInv, RecvCopy, RecvGoto, devVars,
       sendVars, TypeOK, LockInv
<1>6. CountInv' /\ FilledInv'
  BY DEF IndInv, RecvCopy, RecvGoto, devVars, sendVars, CountInv, FilledInv,
       Settled, Pending
<1>7. InFlightIntact' /\ CqeKept' /\ StaleCqeInv'
  BY DEF IndInv, RecvCopy, RecvGoto, devVars, sendVars, InFlightIntact,
       InFlight, CqeKept, StaleCqeInv, BrokenCqe
<1>8. \A t \in Receivers : rpc'[t] \in {"copy", "status", "commit"} <=> t = r
  BY <1>1, <1>5 DEF IndInv, RecvCopy, RecvGoto, devVars, sendVars, LockInv
<1>9. PhaseInv'
  <2>1. CopiedOut'
    BY DEF IndInv, RecvCopy, RecvGoto, devVars, sendVars, TypeOK, CopiedOut
  <2>2. cqc_phase' = FlippedPhase'
    BY <1>1 DEF RecvCopy, FlippedPhase, HeadPhase
  <2>3. \A t \in Receivers : rpc'[t] # "copy"
    BY <1>8 DEF IndInv, RecvCopy, RecvGoto, devVars, sendVars, TypeOK
  <2> QED BY <2>1, <2>2, <2>3 DEF PhaseInv
<1>10. RespInv'
  BY <1>2, <1>3, <1>8 DEF IndInv, RecvCopy, RecvGoto, devVars, sendVars,
       TypeOK, RespInv
<1> QED BY <1>4, <1>5, <1>6, <1>7, <1>9, <1>10 DEF IndInv

\* The status word after the copy: the phase may stay flipped.
LEMMA RecvStatusErrorInv == ASSUME IndInv, NEW r \in Receivers,
                                   RecvStatusError(r)
                            PROVE  IndInv'
<1>1. TypeOK' /\ LockInv'
  BY ThreadAssumption DEF IndInv, RecvStatusError, RecvReturn, devVars,
       sendVars, TypeOK, LockInv, RpcValues, Rets, Blank
<1>2. CountInv' /\ FilledInv'
  BY DEF IndInv, RecvStatusError, RecvReturn, devVars, sendVars, CountInv,
       FilledInv, Settled, Pending
<1>3. InFlightIntact' /\ CqeKept' /\ StaleCqeInv'
  BY DEF IndInv, RecvStatusError, RecvReturn, devVars, sendVars,
       InFlightIntact, InFlight, CqeKept, StaleCqeInv, BrokenCqe
<1>4. /\ rv_lock = r /\ CopiedOut /\ ~CopiedOut'
      /\ returned < completed /\ cqc_phase = FlippedPhase
  <2>1. rv_lock = r /\ CopiedOut
    BY ThreadAssumption DEF IndInv, RecvStatusError, RecvReturn, devVars,
         sendVars, TypeOK, LockInv, CopiedOut
  <2>2. \A t \in Receivers : rpc'[t] \notin {"copy", "status", "commit"}
    BY <1>1, ThreadAssumption DEF IndInv, RecvStatusError, RecvReturn,
         devVars, sendVars, LockInv
  <2> QED BY <2>1, <2>2 DEF IndInv, RecvStatusError, RecvReturn, devVars,
       sendVars, PhaseInv, RespInv, CopiedOut
<1>5. PhaseInv'
  <2>1. \A t \in Receivers : rpc'[t] # "copy"
    BY <1>1, ThreadAssumption DEF IndInv, RecvStatusError, RecvReturn,
         devVars, sendVars, LockInv
  <2> QED BY <1>4, <2>1 DEF IndInv, RecvStatusError, RecvReturn, devVars,
       sendVars, PhaseInv, FlippedPhase, HeadPhase
<1>6. RespInv'
  BY DEF IndInv, RecvStatusError, RecvReturn, devVars, sendVars, TypeOK,
       RespInv
<1> QED BY <1>1, <1>2, <1>3, <1>5, <1>6 DEF IndInv

\* The status check after the copy only moves the receiver on.
LEMMA RecvStatusOkInv == ASSUME IndInv, NEW r \in Receivers, RecvStatusOk(r)
                         PROVE  IndInv'
<1>1. TypeOK' /\ LockInv'
  BY ThreadAssumption DEF IndInv, RecvStatusOk, RecvGoto, devVars, sendVars,
       TypeOK, LockInv, RpcValues
<1>2. CountInv' /\ FilledInv'
  BY DEF IndInv, RecvStatusOk, RecvGoto, devVars, sendVars, CountInv,
       FilledInv, Settled, Pending
<1>3. InFlightIntact' /\ CqeKept' /\ StaleCqeInv'
  BY DEF IndInv, RecvStatusOk, RecvGoto, devVars, sendVars, InFlightIntact,
       InFlight, CqeKept, StaleCqeInv, BrokenCqe
<1>4. PhaseInv' /\ RespInv'
  BY DEF IndInv, RecvStatusOk, RecvGoto, devVars, sendVars, TypeOK, PhaseInv,
       RespInv, HeadPhase, FlippedPhase, CopiedOut
<1> QED BY <1>1, <1>2, <1>3, <1>4 DEF IndInv

-----------------------------------------------------------------------------
(* Counting an answer, and the device.                                     *)

\* What a receiver about to count an answer knows.
LEMMA BeforeAdvance ==
  ASSUME IndInv, NEW r \in Receivers, rpc[r] = "commit"
  PROVE  /\ rv_lock = r /\ returned \in Nat /\ completed \in Nat
         /\ returned < completed /\ completed <= submitted
         /\ submitted \in Nat
         /\ resp[r] = [req |-> returned, st |-> "done"]
         /\ cqc_phase = FlippedPhase /\ cq_head_index = returned % CqDepth
         /\ \A t \in Receivers : t # r => rpc[t] \notin {"copy", "status", "commit"}
<1>1. rv_lock = r /\ CopiedOut
  BY ThreadAssumption DEF IndInv, TypeOK, LockInv, CopiedOut
<1>2. cqc_phase = FlippedPhase
  BY <1>1 DEF IndInv, PhaseInv
<1>3. \A t \in Receivers : t # r => rpc[t] \notin {"copy", "status", "commit"}
  BY <1>1 DEF IndInv, LockInv
<1> QED BY <1>1, <1>2, <1>3 DEF IndInv, TypeOK, CountInv, RespInv

\* Counting an answer frees the oldest SQE and the oldest CQE; one turn later
\* the freed CQE is a stale one.
LEMMA RecvAdvanceInv ==
  ASSUME IndInv, NEW r \in Receivers, RecvAdvance(r),
         rpc' = [rpc EXCEPT ![r] = "poll"] \/ rpc' = [rpc EXCEPT ![r] = "idle"],
         resp' = [resp EXCEPT ![r] = Blank],
         ret' \in Rets, got' \in [Receivers -> Nat],
         want' \in [Receivers -> 1 .. UsedMod - 1]
  PROVE  IndInv'
<1>1. /\ rv_lock = r /\ returned \in Nat /\ completed \in Nat
      /\ returned < completed /\ completed <= submitted /\ submitted \in Nat
      /\ resp[r] = [req |-> returned, st |-> "done"]
      /\ cqc_phase = FlippedPhase /\ cq_head_index = returned % CqDepth
      /\ \A t \in Receivers : t # r => rpc[t] \notin {"copy", "status", "commit"}
  BY BeforeAdvance DEF RecvAdvance
<1>2. returned' = returned + 1 /\ returned' \in Nat
  BY <1>1 DEF RecvAdvance
<1>3. /\ cq_head_index' = returned' % CqDepth /\ cq_head_index' \in CqSlots
      /\ cqc_phase' = HeadPhase'
  <2>1. (returned + 1) % CqDepth = IF returned % CqDepth = CqDepth - 1 THEN 0
                                   ELSE (returned % CqDepth) + 1
    BY <1>1, NextSlot
  <2>2. DevPhase(returned + 1) = IF returned % CqDepth = CqDepth - 1
                                 THEN 1 - DevPhase(returned)
                                 ELSE DevPhase(returned)
    BY <1>1, PhaseFacts
  <2>3. (returned + 1) % CqDepth \in CqSlots
    BY <1>2, DivMod DEF CqSlots
  <2>4. cq_head_index' = (returned + 1) % CqDepth
    BY <1>1, <2>1 DEF RecvAdvance
  <2>5. cqc_phase' = DevPhase(returned + 1)
    BY <1>1, <2>2 DEF RecvAdvance, FlippedPhase, HeadPhase
  <2> QED BY <1>2, <2>3, <2>4, <2>5 DEF HeadPhase
<1>4. Settled' = Settled /\ Settled \in Nat
  BY DEF IndInv, RecvAdvance, devVars, sendVars, CountInv, Settled, Pending
<1>5. /\ used_num' \in 0 .. UsedMod - 1
      /\ used_num' = IF Settled >= returned' THEN Settled - returned'
                     ELSE (Settled - returned') + UsedMod
  <2> DEFINE v == IF Settled >= returned' THEN Settled - returned'
                  ELSE (Settled - returned') + UsedMod
  <2>1. v \in 0 .. UsedMod - 1
    BY <1>1, <1>2, <1>4 DEF IndInv, CountInv, Settled, Pending, TypeOK
  <2>2. /\ used_num \in Nat
        /\ used_num = IF Settled >= returned THEN Settled - returned
                      ELSE (Settled - returned) + UsedMod
    BY DEF IndInv, TypeOK, CountInv
  <2>3. \/ used_num - 1 = v
        \/ used_num - 1 = -1 /\ v = UsedMod - 1
    BY <1>1, <1>2, <1>4, <2>1, <2>2
  <2>4. used_num' = (used_num - 1) % UsedMod
    BY DEF RecvAdvance
  <2> HIDE DEF v
  <2>5. v % UsedMod = v
    <3>1. PICK w \in 0 .. UsedMod - 1 : w = v
      BY <2>1
    <3>2. UsedMod \in Nat \ {0}
      OBVIOUS
    <3>3. w % UsedMod = w
      BY ONLY <3>2, ModSmall
    <3> QED BY <3>1, <3>3
  <2>6. (-1) % UsedMod = UsedMod - 1
    OBVIOUS
  <2>7. used_num' = v
    BY <2>3, <2>4, <2>5, <2>6
  <2> QED BY <2>1, <2>7 DEF v
<1>6. TypeOK'
  <2>1. out' \in [req : Int, st : {"new", "done"}]
        /\ resp' \in [Receivers -> [req : Int, st : {"new", "done"}]]
    BY <1>1 DEF IndInv, RecvAdvance, devVars, sendVars, TypeOK, Blank
  <2>2. rv_lock' = NoOne /\ UNCHANGED <<devVars, sendVars, cqc_phase>>
    BY DEF RecvAdvance
  <2>3. rpc' \in [Receivers -> RpcValues]
    BY DEF IndInv, TypeOK, RpcValues
  <2> QED BY <1>2, <1>3, <1>5, <2>1, <2>2, <2>3
          DEF IndInv, TypeOK, devVars, sendVars
<1>7. \A t \in Receivers : rpc'[t] \notin {"copy", "status", "commit"}
  BY <1>1 DEF IndInv, TypeOK
<1>8. LockInv'
  BY <1>7, ThreadAssumption DEF IndInv, RecvAdvance, devVars, sendVars, LockInv
<1>9. CountInv' /\ FilledInv'
  <2>1. UNCHANGED <<devVars, sendVars>>
    BY DEF RecvAdvance
  <2>2. CountInv'
    BY <1>1, <1>2, <1>3, <1>4, <1>5, <2>1
       DEF IndInv, TypeOK, CountInv, devVars, sendVars
  <2> QED BY <2>1, <2>2 DEF IndInv, FilledInv, devVars, sendVars
<1>10. InFlightIntact' /\ CqeKept'
  <2>1. UNCHANGED <<devVars, sendVars>>
    BY DEF RecvAdvance
  <2> QED BY <1>1, <1>2, <2>1
          DEF IndInv, InFlightIntact, InFlight, CqeKept, devVars, sendVars
<1>11. StaleCqeInv'
  <2>1. UNCHANGED <<devVars, sendVars>>
    BY DEF RecvAdvance
  <2> SUFFICES ASSUME NEW k \in completed .. (returned + 1 + CqDepth) - 1
               PROVE  \/ cq[k % CqDepth].phase # DevPhase(k)
                      \/ k = completed /\ BrokenCqe
    BY <1>2, <2>1 DEF StaleCqeInv, BrokenCqe, devVars
  <2>2. CASE k # returned + CqDepth
    <3>1. k \in completed .. (returned + CqDepth) - 1
      BY <1>1, <2>2
    <3> QED BY <3>1 DEF IndInv, StaleCqeInv
  <2>3. CASE k = returned + CqDepth
    <3>1. returned \in returned .. completed - 1
      BY <1>1
    <3>2. cq[returned % CqDepth] =
            [phase |-> DevPhase(returned), sq_head |-> returned % SqDepth]
      BY <3>1 DEF IndInv, CqeKept
    <3>3. /\ k % CqDepth = returned % CqDepth
          /\ DevPhase(k) = 1 - DevPhase(returned)
          /\ DevPhase(returned) \in {0, 1}
      BY <1>1, <2>3, NextTurn, PhaseFacts
    <3> QED BY <3>2, <3>3
  <2> QED BY <2>2, <2>3
<1>12. PhaseInv' /\ RespInv'
  <2>1. ~CopiedOut'
    BY <1>7 DEF CopiedOut
  <2>2. PhaseInv'
    BY <1>3, <1>7, <2>1 DEF PhaseInv
  <2> QED BY <1>1, <1>2, <1>7, <2>2 DEF RecvAdvance, RespInv
<1> QED BY <1>6, <1>8, <1>9, <1>10, <1>11, <1>12 DEF IndInv

\* Counting an answer, with or without more to receive.
LEMMA RecvCommitInv == ASSUME IndInv, NEW r \in Receivers,
                              RecvMore(r) \/ RecvLast(r)
                       PROVE  IndInv'
<1>1. got \in [Receivers -> Nat] /\ want \in [Receivers -> 1 .. UsedMod - 1]
  BY DEF IndInv, TypeOK
<1>2. CASE RecvMore(r)
  <2>1. ret' \in Rets /\ got' \in [Receivers -> Nat]
        /\ want' \in [Receivers -> 1 .. UsedMod - 1]
    BY <1>1, <1>2 DEF IndInv, TypeOK, RecvMore, RecvGoto
  <2> QED BY <1>2, <2>1, RecvAdvanceInv DEF RecvMore, RecvGoto
<1>3. CASE RecvLast(r)
  <2>1. ret' \in Rets /\ got' \in [Receivers -> Nat]
        /\ want' \in [Receivers -> 1 .. UsedMod - 1]
    BY <1>1, <1>3 DEF RecvLast, RecvReturn, Rets
  <2> QED BY <1>3, <2>1, RecvAdvanceInv DEF RecvLast, RecvReturn
<1> QED BY <1>2, <1>3

-----------------------------------------------------------------------------
(* The device.                                                             *)

\* The device's head and the announced tail are equal only when nothing is
\* left to do: one SQE is always free.
LEMMA DeviceHasWork ==
  ASSUME IndInv, completed % SqDepth # db_tail
  PROVE  completed < submitted
<1>1. /\ completed \in Nat /\ submitted \in Nat /\ completed <= submitted
      /\ db_tail = submitted % SqDepth
  BY DEF IndInv, TypeOK, CountInv
<1>2. completed # submitted
  BY <1>1
<1> QED BY <1>1, <1>2

\* A slot of the completion ring is in use by one of the CqDepth CQEs from the
\* unread ones on.
LEMMA DeviceCompleteInv == ASSUME IndInv, DeviceComplete PROVE IndInv'
<1> DEFINE j == completed % SqDepth
           c == completed % CqDepth
           new == [phase |-> DevPhase(completed), sq_head |-> j]
<1>1. /\ completed \in Nat /\ submitted \in Nat /\ returned \in Nat
      /\ returned <= completed /\ completed < submitted
      /\ submitted - returned <= SqDepth - 1
  BY DeviceHasWork DEF IndInv, DeviceComplete, PostCqe, sendVars, recvVars,
       TypeOK, CountInv
<1>2. j \in Slots /\ c \in CqSlots /\ DevPhase(completed) \in {0, 1} /\ j \in Nat
  <2>1. j \in Slots /\ c \in CqSlots
    BY <1>1, DivMod DEF Slots, CqSlots
  <2> QED BY <1>1, <2>1, PhaseFacts DEF Slots
<1>3. /\ completed' = completed + 1
      /\ cq' = [cq EXCEPT ![c] = new]
      /\ sq' = [sq EXCEPT ![j].st = "done"]
      /\ UNCHANGED <<db_tail, device, ds_tx, ds_rx, sendVars, recvVars,
                     used_num, ret>>
      /\ device = "runs"
  BY DEF DeviceComplete, PostCqe
<1>4. TypeOK'
  <2>1. sq' \in [Slots -> [req : Int, st : {"new", "done"}]]
    BY <1>2, <1>3 DEF IndInv, TypeOK
  <2>2. cq' \in [CqSlots -> [phase : {0, 1}, sq_head : Nat]]
    <3>1. new \in [phase : {0, 1}, sq_head : Nat]
      BY <1>2
    <3> HIDE DEF new
    <3> QED BY <1>2, <1>3, <3>1 DEF IndInv, TypeOK
  <2> QED BY <1>1, <1>3, <2>1, <2>2 DEF IndInv, TypeOK, sendVars, recvVars
<1>5. LockInv'
  BY <1>3 DEF IndInv, LockInv, sendVars, recvVars
<1>6. CountInv'
  BY <1>1, <1>3 DEF IndInv, CountInv, Settled, Pending, sendVars, recvVars
<1>7. \A k \in Nat : k # completed /\ returned <= k /\ k < returned + SqDepth
         => k % SqDepth # j /\ k % SqDepth \in Slots
  <2> SUFFICES ASSUME NEW k \in Nat, k # completed, returned <= k,
                      k < returned + SqDepth
               PROVE  k % SqDepth # completed % SqDepth /\ k % SqDepth \in Slots
    OBVIOUS
  <2>1. completed < returned + SqDepth
    BY <1>1
  <2> QED BY <1>1, <2>1, WindowDistinct, DivMod DEF Slots
<1>8. \A k \in Nat : k # completed /\ returned <= k /\ k < returned + CqDepth
         => k % CqDepth # c /\ k % CqDepth \in CqSlots
  <2> SUFFICES ASSUME NEW k \in Nat, k # completed, returned <= k,
                      k < returned + CqDepth
               PROVE  k % CqDepth # completed % CqDepth /\ k % CqDepth \in CqSlots
    OBVIOUS
  <2>1. completed < returned + CqDepth
    BY <1>1
  <2> QED BY <1>1, <2>1, WindowDistinct, DivMod DEF CqSlots
<1>9. InFlightIntact'
  <2> SUFFICES ASSUME NEW k \in InFlight
               PROVE  sq'[k % SqDepth] =
                 [req |-> k, st |-> IF k < completed + 1 THEN "done" ELSE "new"]
    BY <1>3 DEF InFlightIntact, InFlight, sendVars, recvVars
  <2>1. k \in Nat /\ returned <= k /\ k < returned + SqDepth
    BY <1>1 DEF InFlight
  <2>2. sq[k % SqDepth] = [req |-> k, st |-> IF k < completed THEN "done" ELSE "new"]
    BY DEF IndInv, InFlightIntact
  <2>3. CASE k = completed
    <3>1. sq \in [Slots -> [req : Int, st : {"new", "done"}]]
      BY DEF IndInv, TypeOK
    <3>2. sq'[j].st = "done" /\ sq'[j] = [sq[j] EXCEPT !.st = "done"]
      BY <1>2, <1>3, <3>1
    <3>3. sq[j] = [req |-> k, st |-> "new"] /\ k < completed + 1
      BY <1>1, <2>1, <2>2, <2>3
    <3>4. sq'[j] = [req |-> k, st |-> "done"]
      BY <3>2, <3>3
    <3> QED BY <2>3, <3>3, <3>4
  <2>4. CASE k # completed
    <3>1. sq'[k % SqDepth] = sq[k % SqDepth]
      BY <1>2, <1>3, <1>7, <2>1, <2>4 DEF IndInv, TypeOK
    <3> QED BY <1>1, <2>1, <2>2, <2>4, <3>1
  <2> QED BY <2>3, <2>4
<1>10. FilledInv'
  <2> SUFFICES ASSUME NEW s \in Senders, spc[s] \in {"status", "doorbell"},
                      NEW m \in 0 .. expect[s] - 1
               PROVE  sq'[(submitted + m) % SqDepth] =
                        sq[(submitted + m) % SqDepth]
    BY <1>3 DEF IndInv, FilledInv, sendVars
  <2>1. /\ submitted + m \in Nat /\ submitted + m # completed
        /\ submitted + m < returned + SqDepth /\ returned <= submitted + m
    BY <1>1 DEF IndInv, TypeOK, CountInv
  <2>2. (submitted + m) % SqDepth # j /\ (submitted + m) % SqDepth \in Slots
    BY <1>7, <2>1
  <2> HIDE DEF j
  <2> QED BY <1>2, <1>3, <2>2 DEF IndInv, TypeOK
<1>11. CqeKept'
  <2> SUFFICES ASSUME NEW k \in returned .. completed
               PROVE  cq'[k % CqDepth] =
                        [phase |-> DevPhase(k), sq_head |-> k % SqDepth]
    BY <1>1, <1>3 DEF CqeKept, recvVars
  <2>1. CASE k = completed
    BY <1>2, <1>3, <2>1 DEF IndInv, TypeOK
  <2>2. CASE k # completed
    <3>1. /\ k \in Nat /\ k \in returned .. completed - 1
          /\ returned <= k /\ k < returned + CqDepth
      BY <1>1, <2>2
    <3>2. cq'[k % CqDepth] = cq[k % CqDepth]
      <4>1. k % CqDepth # c /\ k % CqDepth \in CqSlots
        BY <1>8, <2>2, <3>1
      <4> HIDE DEF new, c
      <4> QED BY <1>2, <1>3, <4>1 DEF IndInv, TypeOK
    <3> QED BY <3>1, <3>2 DEF IndInv, CqeKept
  <2> QED BY <2>1, <2>2
<1>12. StaleCqeInv'
  <2> SUFFICES ASSUME NEW k \in (completed + 1) .. (returned + CqDepth) - 1
               PROVE  cq'[k % CqDepth].phase # DevPhase(k)
    BY <1>1, <1>3 DEF StaleCqeInv, recvVars
  <2>1. /\ k \in Nat /\ k \in completed .. (returned + CqDepth) - 1
        /\ k # completed /\ returned <= k /\ k < returned + CqDepth
    BY <1>1
  <2>2. cq'[k % CqDepth] = cq[k % CqDepth]
    <3>1. k % CqDepth # c /\ k % CqDepth \in CqSlots
      BY <1>8, <2>1
    <3> HIDE DEF new, c
    <3> QED BY <1>2, <1>3, <3>1 DEF IndInv, TypeOK
  <2> QED BY <2>1, <2>2 DEF IndInv, StaleCqeInv
<1>13. PhaseInv'
  <2>1. UNCHANGED <<CopiedOut, HeadPhase, FlippedPhase>>
    BY <1>3 DEF recvVars, CopiedOut, HeadPhase, FlippedPhase
  <2>2. ASSUME NEW r \in Receivers, rpc[r] = "copy"
        PROVE  cq'[cq_head_index].phase = HeadPhase
    <3>1. cq[cq_head_index].phase = HeadPhase /\ cq_head_index = returned % CqDepth
      BY <2>2 DEF IndInv, PhaseInv, CountInv
    <3>2. CASE returned = completed
      BY <1>2, <1>3, <3>1, <3>2 DEF IndInv, TypeOK, HeadPhase
    <3>3. CASE returned # completed
      <4>1. cq_head_index # c /\ cq_head_index \in CqSlots
        BY <1>1, <1>8, <3>1, <3>3
      <4> HIDE DEF new, c
      <4>2. cq'[cq_head_index] = cq[cq_head_index]
        BY <1>2, <1>3, <4>1 DEF IndInv, TypeOK
      <4> QED BY <3>1, <4>2
    <3> QED BY <3>2, <3>3
  <2> QED BY <1>1, <1>3, <2>1, <2>2 DEF IndInv, PhaseInv, recvVars
<1>14. RespInv'
  BY <1>1, <1>3 DEF IndInv, RespInv, recvVars
<1> QED BY <1>4, <1>5, <1>6, <1>9, <1>10, <1>11, <1>12, <1>13, <1>14 DEF IndInv

\* A broken CQE is written where the next good one would have been.
LEMMA DeviceBadCqeInv == ASSUME IndInv, DeviceBadCqe PROVE IndInv'
<1> DEFINE c == completed % CqDepth
           new == [phase |-> DevPhase(completed), sq_head |-> SqDepth]
<1>1. /\ completed \in Nat /\ submitted \in Nat /\ returned \in Nat
      /\ returned <= completed /\ completed < submitted
      /\ submitted - returned <= SqDepth - 1
  BY DeviceHasWork DEF IndInv, DeviceBadCqe, TypeOK, CountInv
<1>2. c \in CqSlots /\ DevPhase(completed) \in {0, 1}
  BY <1>1, DivMod, PhaseFacts DEF CqSlots
<1>3. /\ cq' = [cq EXCEPT ![c] = new] /\ device' = "stopped"
      /\ UNCHANGED <<sq, db_tail, completed, ds_tx, ds_rx, sendVars, recvVars,
                     used_num, ret>>
  BY DEF DeviceBadCqe, PostCqe
<1>4. TypeOK'
  <2>1. new \in [phase : {0, 1}, sq_head : Nat]
    BY <1>2
  <2> HIDE DEF new
  <2>2. cq' \in [CqSlots -> [phase : {0, 1}, sq_head : Nat]]
    BY <1>2, <1>3, <2>1 DEF IndInv, TypeOK
  <2> QED BY <1>3, <2>2 DEF IndInv, TypeOK, sendVars, recvVars
<1>5. LockInv' /\ CountInv' /\ FilledInv'
  BY <1>3 DEF IndInv, LockInv, CountInv, FilledInv, Settled, Pending, sendVars,
     recvVars
<1>6. \A k \in Nat : k # completed /\ returned <= k /\ k < returned + CqDepth
         => k % CqDepth # c /\ k % CqDepth \in CqSlots
  <2> SUFFICES ASSUME NEW k \in Nat, k # completed, returned <= k,
                      k < returned + CqDepth
               PROVE  k % CqDepth # completed % CqDepth /\ k % CqDepth \in CqSlots
    OBVIOUS
  <2>1. completed < returned + CqDepth
    BY <1>1
  <2> QED BY <1>1, <2>1, WindowDistinct, DivMod DEF CqSlots
<1>7. InFlightIntact' /\ RespInv'
  BY <1>3 DEF IndInv, InFlightIntact, InFlight, RespInv, sendVars, recvVars
<1>8. CqeKept'
  <2> SUFFICES ASSUME NEW k \in returned .. completed - 1
               PROVE  cq'[k % CqDepth] = cq[k % CqDepth]
    BY <1>3 DEF IndInv, CqeKept, recvVars
  <2>0. k \in Nat /\ k # completed /\ returned <= k /\ k < returned + CqDepth
    BY <1>1
  <2>1. k % CqDepth # c /\ k % CqDepth \in CqSlots
    BY <1>6, <2>0
  <2> HIDE DEF new, c
  <2> QED BY <1>2, <1>3, <2>1 DEF IndInv, TypeOK
<1>9. cq'[c] = new
  <2> HIDE DEF new, c
  <2> QED BY <1>2, <1>3 DEF IndInv, TypeOK
<1>10. BrokenCqe'
  BY <1>3, <1>9 DEF BrokenCqe, Slots
<1>11. StaleCqeInv'
  <2> SUFFICES ASSUME NEW k \in completed .. (returned + CqDepth) - 1,
                      k # completed
               PROVE  cq'[k % CqDepth].phase # DevPhase(k)
    BY <1>3, <1>10 DEF StaleCqeInv, recvVars
  <2>1. k % CqDepth # c /\ k % CqDepth \in CqSlots
    BY SMTT(30), <1>1, <1>6
  <2> HIDE DEF new, c
  <2>2. cq'[k % CqDepth] = cq[k % CqDepth]
    BY <1>2, <1>3, <2>1 DEF IndInv, TypeOK
  <2> QED BY <2>2 DEF IndInv, StaleCqeInv
<1>12. PhaseInv'
  <2>1. UNCHANGED <<CopiedOut, HeadPhase, FlippedPhase>>
    BY <1>3 DEF recvVars, CopiedOut, HeadPhase, FlippedPhase
  <2>2. ASSUME NEW r \in Receivers, rpc[r] = "copy"
        PROVE  cq'[cq_head_index].phase = HeadPhase
    <3>1. cq[cq_head_index].phase = HeadPhase /\ cq_head_index = returned % CqDepth
      BY <2>2 DEF IndInv, PhaseInv, CountInv
    <3>2. CASE returned = completed
      BY <1>9, <3>1, <3>2 DEF HeadPhase
    <3>3. CASE returned # completed
      <4>1. cq_head_index # c /\ cq_head_index \in CqSlots
        BY <1>1, <1>6, <3>1, <3>3
      <4> HIDE DEF new, c
      <4>2. cq'[cq_head_index] = cq[cq_head_index]
        BY <1>2, <1>3, <4>1 DEF IndInv, TypeOK
      <4> QED BY <3>1, <4>2
    <3> QED BY <3>2, <3>3
  <2> QED BY <1>3, <2>1, <2>2 DEF IndInv, PhaseInv, recvVars
<1> QED BY <1>4, <1>5, <1>7, <1>8, <1>11, <1>12 DEF IndInv

\* The device raises a status word.
LEMMA DeviceErrorInv == ASSUME IndInv, DeviceErrorTx \/ DeviceErrorRx
                        PROVE  IndInv'
<1>1. TypeOK' /\ LockInv'
  BY DEF IndInv, DeviceErrorTx, DeviceErrorRx, sendVars, recvVars, TypeOK,
       LockInv
<1>2. CountInv' /\ FilledInv'
  BY DEF IndInv, DeviceErrorTx, DeviceErrorRx, sendVars, recvVars, CountInv,
       FilledInv, Settled, Pending
<1>3. InFlightIntact' /\ CqeKept'
  BY DEF IndInv, DeviceErrorTx, DeviceErrorRx, sendVars, recvVars,
       InFlightIntact, InFlight, CqeKept
<1>4. StaleCqeInv'
  BY DEF IndInv, DeviceErrorTx, DeviceErrorRx, sendVars, recvVars,
       StaleCqeInv, BrokenCqe
<1>5. PhaseInv' /\ RespInv'
  BY DEF IndInv, DeviceErrorTx, DeviceErrorRx, sendVars, recvVars, TypeOK,
       PhaseInv, RespInv, HeadPhase, FlippedPhase, CopiedOut
<1> QED BY <1>1, <1>2, <1>3, <1>4, <1>5 DEF IndInv

-----------------------------------------------------------------------------
(* The theorems.                                                           *)

\* Every step keeps the invariant.
LEMMA NextInv == IndInv /\ [Next]_vars => IndInv'
<1> SUFFICES ASSUME IndInv, [Next]_vars PROVE IndInv'
  OBVIOUS
<1>1. CASE UNCHANGED vars
  <2>1. UNCHANGED <<CopiedOut, HeadPhase, FlippedPhase, Settled, BrokenCqe>>
    BY <1>1 DEF vars, devVars, sendVars, recvVars, CopiedOut, HeadPhase,
       FlippedPhase, Settled, Pending, BrokenCqe
  <2> QED BY ZenonT(60), <1>1, <2>1
          DEF vars, devVars, sendVars, recvVars, IndInv, TypeOK, LockInv,
              CountInv, FilledInv, InFlightIntact, InFlight, CqeKept,
              StaleCqeInv, PhaseInv, RespInv
<1>2. ASSUME NEW s \in Senders, SendCall(s) PROVE IndInv'
  BY <1>2, SendBusyInv, SendLockInv DEF SendCall
<1>3. ASSUME NEW s \in Senders, SendStep(s) PROVE IndInv'
  BY <1>3, SendFillInv, SendStatusErrorInv, SendStatusOkInv, SendDoorbellInv,
     SendCommitInv DEF SendStep
<1>4. ASSUME NEW r \in Receivers, RecvCall(r) PROVE IndInv'
  BY <1>4, RecvStartInv, RecvRefusedInv DEF RecvCall
<1>5. ASSUME NEW r \in Receivers, RecvStep(r) PROVE IndInv'
  BY <1>5, RecvEmptyInv, RecvPhaseInv, RecvBadIndexInv, RecvCopyInv,
     RecvStatusErrorInv, RecvStatusOkInv, RecvCommitInv DEF RecvStep
<1>6. CASE DeviceComplete \/ DeviceBadCqe \/ DeviceErrorTx \/ DeviceErrorRx
  BY <1>6, DeviceCompleteInv, DeviceBadCqeInv, DeviceErrorInv
<1> QED BY <1>1, <1>2, <1>3, <1>4, <1>5, <1>6 DEF Next

\* IndInv is an invariant of the queue pair.
THEOREM Invariance == Spec => []IndInv
<1> QED BY InitInv, NextInv, PTL DEF Spec

\* Types, live SQEs and CQEs (hisi_qm_fill_sqe and the device never overwrite
\* what is not yet received) for every depth, batch and number of threads.
THEOREM RingsIntact == Spec => [](TypeOK /\ InFlightIntact /\ CqeKept)
<1>1. IndInv => TypeOK /\ InFlightIntact /\ CqeKept
  BY DEF IndInv
<1> QED BY <1>1, Invariance, PTL

\* used_num is exact whenever sd_lock is free.
THEOREM CounterExact == Spec => []UsedNumExact
<1>1. IndInv => UsedNumExact
  BY ThreadAssumption
     DEF IndInv, TypeOK, CountInv, Settled, Pending, UsedNumExact
<1> QED BY <1>1, Invariance, PTL

\* The phase bit of the head CQE tells new from old.
THEOREM PhaseCorrect == Spec => []PhaseIffUnread
<1>1. IndInv => PhaseIffUnread
  <2> SUFFICES ASSUME IndInv, rv_lock = NoOne, device = "runs"
               PROVE  PhaseMatches <=> returned < completed
    BY DEF PhaseIffUnread
  <2>1. ~CopiedOut /\ cqc_phase = HeadPhase
    BY ThreadAssumption DEF IndInv, TypeOK, LockInv, PhaseInv, CopiedOut
  <2>2. /\ returned \in Nat /\ completed \in Nat /\ returned <= completed
        /\ cq_head_index = returned % CqDepth
    BY DEF IndInv, TypeOK, CountInv
  <2>3. CASE returned < completed
    <3>1. returned \in returned .. completed - 1
      BY <2>2, <2>3
    <3>2. cq[returned % CqDepth] =
            [phase |-> DevPhase(returned), sq_head |-> returned % SqDepth]
      BY <3>1 DEF IndInv, CqeKept
    <3> QED BY <2>1, <2>2, <2>3, <3>2 DEF PhaseMatches, HeadPhase
  <2>4. CASE returned = completed
    <3>1. returned \in completed .. (returned + CqDepth) - 1
      BY <2>2, <2>4
    <3>2. cq[returned % CqDepth].phase # DevPhase(returned)
      BY <3>1 DEF IndInv, StaleCqeInv, BrokenCqe
    <3> QED BY <2>1, <2>2, <2>4, <3>2 DEF PhaseMatches, HeadPhase
  <2> QED BY <2>2, <2>3, <2>4
<1> QED BY <1>1, Invariance, PTL

\* hisi_qm_send refuses a batch only for want of room, though the counter it
\* looks at may have wrapped in between.
THEOREM NoSpuriousBusy == Spec => BusyOnlyWhenFull
<1> DEFINE Full(s, n) == (submitted - returned) + n > SqDepth - 1
<1>1. ASSUME IndInv, NEW s \in Senders, NEW n \in Batches, SendBusy(s, n)
      PROVE  Full(s, n)
  <2>1. used_num = submitted - returned /\ submitted - returned \in 0 .. SqDepth - 1
    BY <1>1, ThreadAssumption
       DEF IndInv, SendBusy, TypeOK, CountInv, Settled, Pending
  <2>2. get_free_num \in 0 .. UsedMod - 1
    BY <2>1 DEF get_free_num
  <2>3. free_num = get_free_num
    BY <2>2, ModSmall DEF free_num
  <2> QED BY <1>1, <2>1, <2>3, BatchAssumption
          DEF SendBusy, get_free_num, IndInv, TypeOK
<1>2. IndInv /\ [Next]_vars =>
        [\A s \in Senders, n \in Batches : SendBusy(s, n) => Full(s, n)]_vars
  BY <1>1
<1> QED BY <1>2, Invariance, PTL DEF Spec, BusyOnlyWhenFull

\* The queue pair implements the bounded FIFO: a doorbell accepts a batch that
\* fits, and every counted answer is the oldest outstanding request's.
THEOREM Refinement == Spec => ImplementsFifo
<1> USE DEF Fifo!FifoInit, Fifo!Accept, Fifo!Deliver, Fifo!fifoVars
<1>1. Init => Fifo!FifoInit
  BY DEF Init, Blank
<1>2. IndInv /\ [Next]_vars => [Fifo!Accept \/ Fifo!Deliver]_(Fifo!fifoVars)
  <2> SUFFICES ASSUME IndInv, [Next]_vars
               PROVE  Fifo!Accept \/ Fifo!Deliver \/ UNCHANGED Fifo!fifoVars
    OBVIOUS
  <2>1. ASSUME UNCHANGED <<submitted, returned, out>>
        PROVE  UNCHANGED Fifo!fifoVars
    BY <2>1
  <2>2. ASSUME NEW s \in Senders, SendDoorbell(s) PROVE Fifo!Accept
    <3>1. /\ expect[s] \in Batches
          /\ (submitted - returned) + expect[s] <= SqDepth - 1
      BY <2>2, BeforeDoorbell DEF SendDoorbell
    <3> QED BY <2>2, <3>1 DEF SendDoorbell, recvVars
  <2>3. ASSUME NEW r \in Receivers, RecvAdvance(r) PROVE Fifo!Deliver
    <3>1. /\ returned < submitted
          /\ resp[r] = [req |-> returned, st |-> "done"]
      BY <2>3, BeforeAdvance DEF RecvAdvance
    <3> QED BY <2>3, <3>1 DEF RecvAdvance, sendVars
  <2>4. CASE UNCHANGED vars
    BY <2>1, <2>4 DEF vars, sendVars, recvVars
  <2>5. ASSUME NEW s \in Senders, SendCall(s) \/ SendStep(s)
        PROVE  SendDoorbell(s) \/ UNCHANGED <<submitted, returned, out>>
    BY <2>5 DEF SendCall, SendStep, SendBusy, SendLock, SendFill,
       SendStatusError, SendStatusOk, SendCommit, recvVars
  <2>6. ASSUME NEW r \in Receivers, RecvCall(r) \/ RecvStep(r)
        PROVE  RecvAdvance(r) \/ UNCHANGED <<submitted, returned, out>>
    BY <2>6 DEF RecvCall, RecvStep, RecvStart, RecvRefused, RecvEmpty,
       RecvPhase, RecvBadIndex, RecvCopy, RecvStatusError, RecvStatusOk,
       RecvMore, RecvLast, sendVars
  <2>7. CASE DeviceComplete \/ DeviceBadCqe \/ DeviceErrorTx \/ DeviceErrorRx
    BY <2>1, <2>7 DEF DeviceComplete, DeviceBadCqe, DeviceErrorTx,
       DeviceErrorRx, sendVars, recvVars
  <2> QED BY <2>1, <2>2, <2>3, <2>4, <2>5, <2>6, <2>7 DEF Next
<1> QED BY <1>1, <1>2, Invariance, PTL DEF Spec, ImplementsFifo, Fifo!FifoSpec
=============================================================================
