--------------------------- MODULE SyncPathProofs ---------------------------
(***************************************************************************)
(* Proofs about SyncPath for every number of threads, depth of the queue,  *)
(* timeout and cycle of ids: what a call that is given up leaves behind    *)
(* (wd_handle_msg_sync), what the context's lock ensures without ids, and  *)
(* how many ids a thread needs after a call was given up.                  *)
(*                                                                         *)
(* At the end, two drivers such a path ends in: the queue of the instruction *)
(* drivers (SoftQueue) and the job manager of multi-buffer hash (HashJobs). *)
(***************************************************************************)
EXTENDS SyncPath, SoftQueue, HashJobs, RingArith, SequenceTheorems, FiniteSetTheorems,
        TLAPS

USE BoundAssumption, ThreadAssumption

\* The lock is held by the thread that is inside.
LockOwner == \A t \in Threads : /\ (pc[t] # "idle") <=> (lock = t)
                                /\ pc[t] # "idle" => call[t] \in Nat

\* While the lock is held the queue holds the packets of the calls given up
\* and, once it was sent, the caller's own or one in exchange for it.
Backlog == /\ BacklogIsAbandoned
           /\ \A t \in Threads : /\ pc[t] = "send" => Len(queue) = abandoned
                                 /\ pc[t] = "recv" => Len(queue) = abandoned + 1

\* Until a call is given up that packet is the caller's own.
OwnPacket == abandoned = 0 =>
               \A t \in Threads : pc[t] = "recv" =>
                  queue[1].call = call[t] /\ queue[1].tag = tag[t]

SyncInv == TypeOK /\ LockOwner /\ Backlog /\ OwnPacket /\ OwnAnswerUntilTimeout

\* An idle context with an empty queue.
LEMMA InitSync == Init => SyncInv
  BY DEF Init, SyncInv, TypeOK, LockOwner, Backlog, BacklogIsAbandoned,
     OwnPacket,
         OwnAnswerUntilTimeout, Own, Ids, None, NoPacket

\* The next id is an id (hisi_set_msg_id).
LEMMA NextId == ASSUME NEW k \in Ids PROVE nrand48(k) \in Ids
<1>1. k + 1 \in Nat
  BY DEF Ids
<1> QED BY <1>1, DivMod DEF nrand48, Ids

\* No thread is inside.
Over == /\ pc' \in [Threads -> {"idle", "send", "recv"}]
        /\ tag' \in [Threads -> Ids] /\ rx_cnt' \in [Threads -> 0 .. Timeout]
        /\ call' \in [Threads -> Nat \cup {None}]
        /\ lock' = NoOne /\ \A u \in Threads : pc'[u] = "idle"
        /\ LockOwner'

\* A call that returns frees the lock and forgets its locals.
LEMMA ReturnSync ==
  ASSUME TypeOK, LockOwner, NEW t \in Threads, NEW code, NEW got,
         pc[t] # "idle", Return(t, code, got)
  PROVE  Over
<1>1. 0 \in Ids /\ 0 \in 0 .. Timeout
  BY DEF Ids
<1>2. /\ pc' \in [Threads -> {"idle", "send", "recv"}]
      /\ tag' \in [Threads -> Ids] /\ rx_cnt' \in [Threads -> 0 .. Timeout]
      /\ call' \in [Threads -> Nat \cup {None}]
  BY <1>1 DEF Return, TypeOK
<1>3. lock' = NoOne /\ \A u \in Threads : pc'[u] = "idle"
  BY DEF Return, TypeOK, LockOwner
<1> QED BY <1>2, <1>3 DEF LockOwner, Over

\* A call begins, or is refused before it takes the lock.
LEMMA StartSync == ASSUME SyncInv, NEW t \in Threads, SyncStart(t) \/ SyncRefused(t)
                   PROVE  SyncInv'
<1> USE DEF SyncInv
<1>1. CASE SyncStart(t)
  <2>1. TypeOK' /\ LockOwner'
    BY <1>1 DEF SyncStart, TypeOK, LockOwner
  <2>2. Backlog' /\ OwnPacket'
    BY <1>1 DEF SyncStart, TypeOK, LockOwner, Backlog, BacklogIsAbandoned,
       OwnPacket
  <2>3. OwnAnswerUntilTimeout'
    BY <1>1 DEF SyncStart, OwnAnswerUntilTimeout, Own
  <2> QED BY <2>1, <2>2, <2>3
<1>2. CASE SyncRefused(t)
  <2>1. TypeOK' /\ LockOwner'
    BY <1>2 DEF SyncRefused, TypeOK, LockOwner
  <2>2. Backlog' /\ OwnPacket'
    BY <1>2 DEF SyncRefused, Backlog, BacklogIsAbandoned, OwnPacket
  <2>3. OwnAnswerUntilTimeout'
    BY <1>2 DEF SyncRefused, OwnAnswerUntilTimeout, Own
  <2> QED BY <2>1, <2>2, <2>3
<1> QED BY <1>1, <1>2

\* The request joins the queue.
LEMMA SendSync == ASSUME SyncInv, NEW t \in Threads, SendMsg(t)
                  PROVE  SyncInv'
<1> USE DEF SyncInv
<1> DEFINE id == nrand48(rand_seed[t])
           pkt == [call |-> call[t], by |-> t, tag |-> id]
<1>1. id \in Ids
  BY NextId DEF TypeOK
<1>2. pkt \in [call : Nat, by : Threads, tag : Ids]
  BY <1>1 DEF SendMsg, LockOwner
<1> HIDE DEF id
<1>3. /\ queue' = Append(queue, pkt) /\ Len(queue') = Len(queue) + 1
      /\ queue' \in Seq([call : Nat, by : Threads, tag : Ids])
      /\ Len(queue) = abandoned
  BY <1>2 DEF SendMsg, TypeOK, Backlog, id
<1>4. TypeOK' /\ LockOwner'
  BY <1>1, <1>3 DEF SendMsg, TypeOK, LockOwner, id
<1>5. Backlog'
  BY <1>3 DEF SendMsg, TypeOK, LockOwner, Backlog, BacklogIsAbandoned
<1>6. OwnPacket'
  BY <1>2, <1>3 DEF SendMsg, TypeOK, LockOwner, OwnPacket, id
<1>7. OwnAnswerUntilTimeout'
  BY DEF SendMsg, OwnAnswerUntilTimeout, Own
<1> QED BY <1>4, <1>5, <1>6, <1>7

\* Nothing is sent: the queue is as before the call.
LEMMA SendFailsSync == ASSUME SyncInv, NEW t \in Threads, SendBusy(t) \/ SendError(t)
                       PROVE  SyncInv'
<1> USE DEF SyncInv
<1>1. nrand48(rand_seed[t]) \in Ids
  BY NextId DEF TypeOK
<1>0. Over
  BY ReturnSync DEF SendBusy, SendError
<1>5. /\ UNCHANGED <<queue, ready, device, calls, abandoned>>
      /\ rand_seed' = [rand_seed EXCEPT ![t] = nrand48(rand_seed[t])]
  BY DEF SendBusy, SendError
<1>2. TypeOK' /\ LockOwner'
  BY <1>0, <1>1, <1>5 DEF TypeOK, Over
<1>3. Backlog' /\ OwnPacket'
  BY <1>0 DEF SendBusy, SendError, Backlog, BacklogIsAbandoned, OwnPacket,
     Over
<1>4. OwnAnswerUntilTimeout'
  BY DEF SendBusy, SendError, Return, OwnAnswerUntilTimeout, Own
<1> QED BY <1>2, <1>3, <1>4

\* A call is given up: its packet becomes part of the backlog.
LEMMA GiveUpSync == ASSUME SyncInv, NEW t \in Threads, RecvTimeout(t) \/ RecvError(t)
                    PROVE  SyncInv'
<1> USE DEF SyncInv
<1>0. Over
  BY ReturnSync DEF RecvTimeout, RecvError
<1>4. abandoned' = abandoned + 1 /\ UNCHANGED <<queue, ready, device, rand_seed, calls>>
  BY DEF RecvTimeout, RecvError
<1>1. TypeOK' /\ LockOwner'
  BY <1>0, <1>4 DEF TypeOK, Over
<1>2. Backlog' /\ OwnPacket'
  BY <1>0 DEF RecvTimeout, RecvError, TypeOK, Backlog, BacklogIsAbandoned,
       OwnPacket, Over
<1>3. OwnAnswerUntilTimeout'
  BY DEF RecvTimeout, RecvError, Return, OwnAnswerUntilTimeout, TypeOK
<1> QED BY <1>1, <1>2, <1>3

\* One more poll.
LEMMA AgainSync == ASSUME SyncInv, NEW t \in Threads, RecvAgain(t)
                   PROVE  SyncInv'
  BY SMTT(30) DEF SyncInv, RecvAgain, TypeOK, LockOwner, Backlog, BacklogIsAbandoned,
         OwnPacket, OwnAnswerUntilTimeout, Own

\* An answer is consumed, the caller's own or another's: the queue is one
\* shorter and the call over.
LEMMA RecvSync == ASSUME SyncInv, NEW t \in Threads, RecvOwn(t) \/ RecvOther(t)
                  PROVE  SyncInv'
<1> USE DEF SyncInv
<1>1. /\ queue' = Tail(queue) /\ Len(queue') = Len(queue) - 1
      /\ queue' \in Seq([call : Nat, by : Threads, tag : Ids])
      /\ ready' = ready - 1 /\ ready > 0 /\ Head(queue) = queue[1]
  <2> DEFINE Packet == [call : Nat, by : Threads, tag : Ids]
  <2>1. /\ queue \in Seq(Packet) /\ queue' = Tail(queue)
        /\ ready' = ready - 1 /\ ready > 0 /\ ready \in 0 .. Len(queue)
    BY DEF RecvOwn, RecvOther, PopAnswer, TypeOK
  <2> HIDE DEF Packet
  <2>2. queue # <<>>
    BY <2>1
  <2>3. Len(Tail(queue)) = Len(queue) - 1 /\ Tail(queue) \in Seq(Packet)
        /\ Head(queue) = queue[1]
    BY <2>1, <2>2, HeadTailProperties
  <2> QED BY <2>1, <2>3 DEF Packet
<1>0. Over
  BY ReturnSync DEF RecvOwn, RecvOther
<1>6. /\ UNCHANGED <<device, rand_seed, calls, abandoned>>
      /\ Len(queue) = abandoned + 1 /\ Len(queue) \in Nat
  BY DEF RecvOwn, RecvOther, Backlog, TypeOK
<1>2. TypeOK' /\ LockOwner'
  <2>1. Len(queue') <= Cap /\ ready' \in 0 .. Len(queue')
    BY SMTT(30), <1>1, <1>6 DEF TypeOK
  <2> QED BY <1>0, <1>1, <1>6, <2>1 DEF TypeOK, Over
<1>3. /\ Len(queue') = abandoned' /\ lock' = NoOne
      /\ \A u \in Threads : pc'[u] = "idle"
  BY <1>0, <1>1, <1>6 DEF TypeOK, Over
<1>5. Backlog' /\ OwnPacket'
  BY <1>3 DEF Backlog, BacklogIsAbandoned, OwnPacket
<1>4. OwnAnswerUntilTimeout'
  <2> SUFFICES ASSUME abandoned' = 0
               PROVE  (outcome'.code = "ok" => Own') /\ outcome'.code # "EINVAL"
    BY DEF OwnAnswerUntilTimeout
  <2>1. queue[1].call = call[t] /\ queue[1].tag = tag[t]
    BY DEF RecvOwn, RecvOther, OwnPacket
  <2>2. CASE RecvOwn(t)
    BY <1>1, <2>1, <2>2 DEF RecvOwn, Return, Own
  <2>3. CASE RecvOther(t)
    BY <1>1, <2>1, <2>3 DEF RecvOther, check_bd_id
  <2> QED BY <2>2, <2>3
<1> QED BY <1>2, <1>5, <1>4

\* The device answers or stops.
LEMMA DeviceSync == ASSUME SyncInv, DeviceAnswer \/ DeviceStops PROVE SyncInv'
<1> USE DEF SyncInv
<1>1. TypeOK'
  BY SMTT(30) DEF DeviceAnswer, DeviceStops, TypeOK
<1>2. LockOwner' /\ Backlog' /\ OwnPacket' /\ OwnAnswerUntilTimeout'
  BY DEF DeviceAnswer, DeviceStops, LockOwner, Backlog, BacklogIsAbandoned,
         OwnPacket, OwnAnswerUntilTimeout, Own
<1> QED BY <1>1, <1>2

\* SyncInv is inductive.
LEMMA NextSync == SyncInv /\ [Next]_vars => SyncInv'
<1> SUFFICES ASSUME SyncInv, [Next]_vars PROVE SyncInv'
  OBVIOUS
<1>1. CASE UNCHANGED vars
  BY <1>1 DEF vars, SyncInv, TypeOK, LockOwner, Backlog, BacklogIsAbandoned,
     OwnPacket, OwnAnswerUntilTimeout, Own
<1>2. ASSUME NEW t \in Threads, SyncStart(t) \/ SyncRefused(t) \/ SyncStep(t)
      PROVE  SyncInv'
  BY <1>2, StartSync, SendSync, SendFailsSync, GiveUpSync, AgainSync, RecvSync
     DEF SyncStep
<1>3. CASE DeviceAnswer \/ DeviceStops
  BY <1>3, DeviceSync
<1> QED BY <1>1, <1>2, <1>3 DEF Next, Done

\* Every variable stays in its range.
THEOREM SyncTypes == Spec => []TypeOK
<1>1. SyncInv => TypeOK
  BY DEF SyncInv
<1> QED BY <1>1, InitSync, NextSync, PTL DEF Spec

\* A call that is given up leaves one packet in the queue for ever
\* (wd_handle_msg_sync): no later call works the backlog off.
THEOREM BacklogStays == Spec => []BacklogIsAbandoned
<1>1. SyncInv => BacklogIsAbandoned
  BY DEF SyncInv, Backlog
<1> QED BY <1>1, InitSync, NextSync, PTL DEF Spec

\* As long as no call was given up the lock alone makes every call receive its
\* own answer, whatever the ids are (wd_do_cipher_sync).
THEOREM LockSuffices == Spec => []OwnAnswerUntilTimeout
<1>1. SyncInv => OwnAnswerUntilTimeout
  BY DEF SyncInv
<1> QED BY <1>1, InitSync, NextSync, PTL DEF Spec

-----------------------------------------------------------------------------
\* The ids.  A thread draws one for every packet it sends, and in a queue that
\* is first in, first out all packets sent after one that is still in the
\* queue are in it, too: those of one thread differ by less than Cap draws.
\* N counts the draws of each thread and n says which of them a packet got.
\* Draws that send nothing do not count: a queue filled with packets that were
\* given up takes no further packet, nor does a device that stopped.
Drawn(q, seed, n, N) ==
  /\ \A t \in Threads : seed[t] = N[t] % IdNum
  /\ \A i \in 1 .. Len(q) : /\ q[i].tag = n[i] % IdNum
                            /\ n[i] <= N[q[i].by]
                            /\ N[q[i].by] - n[i] <= Len(q) - i
  /\ \A i, j \in 1 .. Len(q) : i < j /\ q[i].by = q[j].by => n[i] < n[j]

DrawInv == abandoned < Cap /\ device = "runs" =>
             \E n \in [1 .. Len(queue) -> Nat], N \in [Threads -> Nat] :
               Drawn(queue, rand_seed, n, N)

\* The packet of a call that waits for its answer is the last in the queue.
LastPacket == \A t \in Threads : pc[t] = "recv" =>
                queue[Len(queue)] = [call |-> call[t], by |-> t, tag |-> tag[t]]

IdInv == SyncInv /\ DrawInv /\ LastPacket /\ OwnAnswer

\* What the queue holds are packets.
LEMMA QueuePackets ==
  ASSUME TypeOK
  PROVE  /\ Len(queue) \in Nat /\ DOMAIN queue = 1 .. Len(queue)
         /\ \A i \in 1 .. Len(queue) :
              queue[i] \in [call : Nat, by : Threads, tag : Ids]
<1> DEFINE Packet == [call : Nat, by : Threads, tag : Ids]
<1>1. queue \in Seq(Packet)
  BY DEF TypeOK
<1> HIDE DEF Packet
<1>2. /\ Len(queue) \in Nat /\ DOMAIN queue = 1 .. Len(queue)
      /\ \A i \in 1 .. Len(queue) : queue[i] \in Packet
  BY <1>1
<1> QED BY <1>2 DEF Packet

\* The packets of one thread in the queue have different ids.
LEMMA IdsDiffer ==
  ASSUME TypeOK, Cap <= IdNum,
         NEW n \in [1 .. Len(queue) -> Nat], NEW N \in [Threads -> Nat],
         Drawn(queue, rand_seed, n, N),
         NEW i \in 1 .. Len(queue), NEW j \in 1 .. Len(queue), i < j,
         queue[i].by = queue[j].by
  PROVE  queue[i].tag # queue[j].tag
<1>1. Len(queue) \in Nat /\ Len(queue) <= Cap /\ queue[i].by \in Threads
  BY QueuePackets DEF TypeOK
<1>2. /\ n[i] \in Nat /\ n[j] \in Nat /\ N[queue[i].by] \in Nat /\ n[i] < n[j]
      /\ n[j] <= N[queue[i].by] /\ N[queue[i].by] - n[i] <= Len(queue) - i
      /\ queue[i].tag = n[i] % IdNum /\ queue[j].tag = n[j] % IdNum
  BY <1>1 DEF Drawn
<1>3. n[j] - n[i] < IdNum
  BY SMTT(30), <1>1, <1>2
<1> QED BY <1>2, <1>3, ModDistinct

\* The successor of an id on the cycle (hisi_set_msg_id).
LEMMA DrawNext == ASSUME NEW k \in Nat
                  PROVE  nrand48(k % IdNum) = (k + 1) % IdNum
<1> DEFINE r == k % IdNum
<1>1. r \in 0 .. IdNum - 1
  BY DivMod
<1>2. (k + 1) % IdNum = IF r = IdNum - 1 THEN 0 ELSE r + 1
  BY NextSlot
<1> HIDE DEF r
<1>3. CASE r = IdNum - 1
  <2>1. r + 1 = 0 + IdNum /\ 0 % IdNum = 0
    BY <1>3, ModSmall
  <2>2. (0 + IdNum) % IdNum = 0 % IdNum
    BY NextTurn
  <2> QED BY <1>2, <1>3, <2>1, <2>2 DEF nrand48, r
<1>4. CASE r # IdNum - 1
  <2>1. r + 1 \in 0 .. IdNum - 1
    BY <1>1, <1>4
  <2>2. (r + 1) % IdNum = r + 1
    BY <2>1, ModSmall
  <2> QED BY <1>2, <1>4, <2>2 DEF nrand48, r
<1> QED BY <1>3, <1>4

\* A new packet gets the thread's next draw.
LEMMA SendDraws == ASSUME IdInv, NEW t \in Threads, SendMsg(t)
                   PROVE  DrawInv' /\ LastPacket' /\ OwnAnswer'
<1> DEFINE id == nrand48(rand_seed[t])
           pkt == [call |-> call[t], by |-> t, tag |-> id]
           m == Len(queue)
<1>1. /\ TypeOK /\ LockOwner /\ DrawInv /\ LastPacket /\ OwnAnswer
      /\ m = abandoned /\ pc[t] = "send" /\ lock = t
  BY DEF IdInv, SyncInv, Backlog, SendMsg, LockOwner
<1>2. /\ queue' = Append(queue, pkt) /\ m < Cap /\ device = "runs"
      /\ rand_seed' = [rand_seed EXCEPT ![t] = id]
      /\ tag' = [tag EXCEPT ![t] = id]
      /\ pc' = [pc EXCEPT ![t] = "recv"]
      /\ UNCHANGED <<lock, ready, device, rx_cnt, call, calls, abandoned,
                     outcome>>
  BY DEF SendMsg
<1> HIDE DEF id
<1>3. /\ m \in Nat /\ \A i \in 1 .. m : queue[i].by \in Threads
      /\ Len(queue') = m + 1 /\ queue'[m + 1] = pkt
      /\ \A i \in 1 .. m : queue'[i] = queue[i]
  <2>1. queue \in Seq([call : Nat, by : Threads, tag : Ids])
    BY <1>1 DEF TypeOK
  <2>2. m \in Nat /\ \A i \in 1 .. m : queue[i].by \in Threads
    BY <1>1, QueuePackets
  <2> HIDE DEF pkt
  <2> QED BY SMTT(30), <1>2, <2>1, <2>2
<1>4. DrawInv'
  <2>1. PICK n \in [1 .. m -> Nat], N \in [Threads -> Nat] :
               Drawn(queue, rand_seed, n, N)
    BY <1>1, <1>2, <1>3 DEF DrawInv
  <2> DEFINE nn == [i \in 1 .. m + 1 |-> IF i <= m THEN n[i] ELSE N[t] + 1]
             NN == [N EXCEPT ![t] = N[t] + 1]
  <2> HIDE DEF m, pkt
  <2>2. nn \in [1 .. m + 1 -> Nat] /\ NN \in [Threads -> Nat]
    BY <1>3
  <2>3. /\ \A i \in 1 .. m : nn[i] = n[i] /\ n[i] \in Nat
        /\ nn[m + 1] = N[t] + 1 /\ NN[t] = N[t] + 1
        /\ \A u \in Threads : u # t => NN[u] = N[u]
        /\ \A u \in Threads : N[u] \in Nat
    BY <1>3
  <2> HIDE DEF nn, NN
  <2>4. rand_seed[t] = N[t] % IdNum /\ id = (N[t] + 1) % IdNum
    BY <2>1, <2>3, DrawNext DEF Drawn, id
  <2>5. \A u \in Threads : rand_seed'[u] = NN[u] % IdNum
    BY <1>1, <1>2, <2>1, <2>3, <2>4 DEF Drawn, TypeOK
  <2>6. /\ pkt.by = t /\ pkt.tag = id
    BY DEF pkt
  <2>7. ASSUME NEW i \in 1 .. m
        PROVE  /\ queue[i].tag = n[i] % IdNum
               /\ n[i] <= N[queue[i].by]
               /\ N[queue[i].by] - n[i] <= m - i
    BY <1>3, <2>1 DEF Drawn, m
  <2>8. ASSUME NEW i \in 1 .. m + 1
        PROVE  /\ queue'[i].tag = nn[i] % IdNum
               /\ nn[i] <= NN[queue'[i].by]
               /\ NN[queue'[i].by] - nn[i] <= (m + 1) - i
    <3>1. CASE i = m + 1
      BY <1>3, <2>3, <2>4, <2>6, <3>1
    <3>2. CASE i # m + 1
      <4>1. i \in 1 .. m /\ queue'[i] = queue[i] /\ nn[i] = n[i] /\ n[i] \in Nat
            /\ queue[i].by \in Threads
        BY <1>3, <2>3, <3>2
      <4> DEFINE b == N[queue[i].by]
      <4>2. b \in Nat /\ NN[queue[i].by] \in {b, b + 1}
        BY <2>3, <4>1
      <4>3. queue[i].tag = n[i] % IdNum /\ n[i] <= b /\ b - n[i] <= m - i
        BY <2>7, <4>1
      <4> DEFINE x == NN[queue[i].by]
      <4> HIDE DEF b, x
      <4>4. x \in {b, b + 1}
        BY <4>2 DEF x
      <4>5. n[i] <= x /\ x - n[i] <= (m + 1) - i
        BY SMTT(30), <1>3, <4>1, <4>2, <4>3, <4>4
      <4> QED BY <4>1, <4>3, <4>5 DEF x
    <3> QED BY <3>1, <3>2
  <2>9. ASSUME NEW i \in 1 .. m + 1, NEW j \in 1 .. m + 1, i < j,
               queue'[i].by = queue'[j].by
        PROVE  nn[i] < nn[j]
    <3>1. i \in 1 .. m /\ queue'[i] = queue[i] /\ nn[i] = n[i] /\ n[i] \in Nat
      BY <1>3, <2>3, <2>9
    <3>2. CASE j = m + 1
      <4>1. queue[i].by = t /\ n[i] <= N[t]
        BY <1>3, <2>6, <2>7, <2>9, <3>1, <3>2
      <4> QED BY <2>3, <3>1, <3>2, <4>1
    <3>3. CASE j # m + 1
      <4>1. j \in 1 .. m /\ queue'[j] = queue[j] /\ nn[j] = n[j]
        BY <1>3, <2>3, <3>3
      <4> QED BY <1>3, <2>1, <2>9, <3>1, <4>1 DEF Drawn, m
    <3> QED BY <3>2, <3>3
  <2>10. Drawn(queue', rand_seed', nn, NN)
    BY <1>3, <2>5, <2>8, <2>9 DEF Drawn
  <2> QED BY <1>3, <2>2, <2>10 DEF DrawInv
<1>5. LastPacket'
  BY <1>1, <1>2, <1>3 DEF LastPacket, LockOwner, TypeOK
<1>6. OwnAnswer'
  BY <1>1, <1>2 DEF OwnAnswer, Own
<1> QED BY <1>4, <1>5, <1>6

\* An answer is taken from the head of the queue; if it bears the caller's own
\* id and was the caller's thread's, it is the only packet of that thread.
LEMMA RecvDraws ==
  ASSUME IdInv, Cap <= IdNum, NEW t \in Threads, RecvOwn(t) \/ RecvOther(t)
  PROVE  DrawInv' /\ LastPacket' /\ OwnAnswer'
<1> DEFINE m == Len(queue)
<1>1. /\ TypeOK /\ LockOwner /\ DrawInv /\ LastPacket /\ OwnAnswer
      /\ m = abandoned + 1 /\ m <= Cap /\ pc[t] = "recv" /\ device = "runs"
      /\ abandoned \in Nat
  BY DEF IdInv, SyncInv, Backlog, RecvOwn, RecvOther, PopAnswer, TypeOK
<1>2. Over
  BY ReturnSync DEF RecvOwn, RecvOther, IdInv, SyncInv
<1>3. /\ queue' = Tail(queue)
      /\ UNCHANGED <<device, rand_seed, calls, abandoned>>
  BY DEF RecvOwn, RecvOther, PopAnswer
<1>4. /\ m \in Nat \ {0} /\ Len(queue') = m - 1 /\ Head(queue) = queue[1]
      /\ \A i \in 1 .. m : queue[i].by \in Threads
      /\ \A i \in 1 .. m - 1 : queue'[i] = queue[i + 1]
  <2> DEFINE Packet == [call : Nat, by : Threads, tag : Ids]
  <2>1. queue \in Seq(Packet)
    BY <1>1 DEF TypeOK
  <2>2. m \in Nat /\ \A i \in 1 .. m : queue[i].by \in Threads
    BY <1>1, QueuePackets
  <2>3. m # 0
    BY <1>1
  <2> HIDE DEF Packet
  <2>4. queue # << >>
    BY <2>1, <2>3
  <2>5. /\ Len(Tail(queue)) = m - 1 /\ Head(queue) = queue[1]
        /\ \A i \in 1 .. m - 1 : Tail(queue)[i] = queue[i + 1]
    BY <2>1, <2>4
  <2> QED BY <1>3, <2>2, <2>3, <2>5
<1>5. PICK n \in [1 .. m -> Nat], N \in [Threads -> Nat] :
             Drawn(queue, rand_seed, n, N)
  BY <1>1 DEF DrawInv
<1>6. DrawInv'
  <2> DEFINE nn == [i \in 1 .. m - 1 |-> n[i + 1]]
  <2>1. \A i \in 1 .. m - 1 : i + 1 \in 1 .. m /\ m - (i + 1) = (m - 1) - i
    BY <1>4
  <2>2. nn \in [1 .. m - 1 -> Nat] /\ \A i \in 1 .. m - 1 : nn[i] = n[i + 1]
    BY <2>1
  <2> HIDE DEF nn
  <2>3. \A i \in 1 .. m - 1 : /\ queue'[i].tag = nn[i] % IdNum
                              /\ nn[i] <= N[queue'[i].by]
                              /\ N[queue'[i].by] - nn[i] <= (m - 1) - i
    <3> SUFFICES ASSUME NEW i \in 1 .. m - 1
                 PROVE  /\ queue'[i].tag = nn[i] % IdNum
                        /\ nn[i] <= N[queue'[i].by]
                        /\ N[queue'[i].by] - nn[i] <= (m - 1) - i
      OBVIOUS
    <3> DEFINE k == i + 1
    <3>1. /\ k \in 1 .. m /\ m - k = (m - 1) - i
          /\ queue'[i] = queue[k] /\ nn[i] = n[k]
      BY <1>4, <2>1, <2>2
    <3> HIDE DEF k
    <3>2. /\ queue[k].tag = n[k] % IdNum /\ n[k] <= N[queue[k].by]
          /\ N[queue[k].by] - n[k] <= m - k
      BY <1>5, <3>1 DEF Drawn
    <3> QED BY <3>1, <3>2
  <2>4. \A i, j \in 1 .. m - 1 :
          i < j /\ queue'[i].by = queue'[j].by => nn[i] < nn[j]
    <3> SUFFICES ASSUME NEW i \in 1 .. m - 1, NEW j \in 1 .. m - 1, i < j,
                        queue'[i].by = queue'[j].by
                 PROVE  nn[i] < nn[j]
      OBVIOUS
    <3> DEFINE k == i + 1
               l == j + 1
    <3>1. /\ k \in 1 .. m /\ l \in 1 .. m /\ k < l
          /\ queue'[i] = queue[k] /\ queue'[j] = queue[l]
          /\ nn[i] = n[k] /\ nn[j] = n[l]
      BY <1>4, <2>1, <2>2
    <3> HIDE DEF k, l
    <3> QED BY <1>5, <3>1 DEF Drawn
  <2>5. Drawn(queue', rand_seed', nn, N)
    BY <1>3, <1>4, <1>5, <2>3, <2>4 DEF Drawn
  <2> QED BY <1>4, <2>2, <2>5 DEF DrawInv
<1>7. LastPacket'
  BY <1>2 DEF LastPacket, Over
<1>8. OwnAnswer'
  <2>1. CASE RecvOther(t)
    BY <2>1 DEF RecvOther, Return, OwnAnswer
  <2>2. CASE RecvOwn(t)
    <3> SUFFICES ASSUME queue[1].by = t PROVE queue[1].call = call[t]
      BY <1>4, <2>2 DEF RecvOwn, Return, OwnAnswer, Own
    <3>1. queue[1].tag = tag[t]
      BY <1>4, <2>2 DEF RecvOwn, check_bd_id
    <3>2. queue[m].tag = tag[t] /\ queue[m].by = t /\ queue[m].call = call[t]
      <4>1. queue[m] = [call |-> call[t], by |-> t, tag |-> tag[t]]
        BY <1>1 DEF LastPacket
      <4> QED BY <4>1
    <3>3. 1 \in 1 .. m /\ m \in 1 .. m /\ (m = 1 \/ 1 < m)
      BY <1>4
    <3>4. ~(1 < m)
      BY <1>1, <1>5, <3>1, <3>2, <3>3, IdsDiffer
    <3> QED BY <3>2, <3>3, <3>4
  <2> QED BY <2>1, <2>2
<1> QED BY <1>6, <1>7, <1>8

\* A send that fails spends an id, but never while the context can still serve.
LEMMA SendFailsDraws ==
  ASSUME IdInv, NEW t \in Threads, SendBusy(t) \/ SendError(t)
  PROVE  DrawInv' /\ LastPacket' /\ OwnAnswer'
<1>1. Over
  BY ReturnSync DEF SendBusy, SendError, IdInv, SyncInv
<1>2. DrawInv'
  <2>1. ~(abandoned' < Cap /\ device' = "runs")
    BY DEF SendBusy, SendError, IdInv, SyncInv, Backlog, TypeOK
  <2> QED BY <2>1 DEF DrawInv
<1>3. LastPacket'
  BY <1>1 DEF LastPacket, Over
<1>4. OwnAnswer'
  BY DEF SendBusy, SendError, Return, OwnAnswer
<1> QED BY <1>2, <1>3, <1>4

\* Nothing else changes the queue or the ids.
LEMMA OthersDraw ==
  ASSUME IdInv,
         \/ \E t \in Threads : \/ SyncStart(t) \/ SyncRefused(t) \/ RecvAgain(t)
                               \/ RecvTimeout(t) \/ RecvError(t)
         \/ DeviceAnswer \/ DeviceStops \/ UNCHANGED vars
  PROVE  DrawInv' /\ LastPacket' /\ OwnAnswer'
<1> USE DEF IdInv
<1>1. /\ UNCHANGED <<queue, rand_seed>>
      /\ abandoned' < Cap /\ device' = "runs" => abandoned < Cap /\ device = "runs"
  BY DEF SyncStart, SyncRefused, RecvAgain, RecvTimeout, RecvError,
     DeviceAnswer,
         DeviceStops, vars, SyncInv, TypeOK
<1>2. DrawInv'
  BY <1>1 DEF DrawInv
<1>3. ASSUME NEW t \in Threads, RecvTimeout(t) \/ RecvError(t)
      PROVE  LastPacket' /\ OwnAnswer'
  <2>1. Over
    BY <1>3, ReturnSync DEF RecvTimeout, RecvError, SyncInv
  <2>2. LastPacket'
    BY <2>1 DEF LastPacket, Over
  <2>3. OwnAnswer'
    BY <1>3 DEF RecvTimeout, RecvError, Return, OwnAnswer
  <2> QED BY <2>2, <2>3
<1>4. ASSUME NEW t \in Threads, SyncStart(t) PROVE LastPacket' /\ OwnAnswer'
  BY <1>4 DEF SyncStart, LastPacket, OwnAnswer, Own, SyncInv, TypeOK
<1>5. CASE \/ \E t \in Threads : SyncRefused(t) \/ RecvAgain(t)
           \/ DeviceAnswer \/ DeviceStops \/ UNCHANGED vars
  <2>1. UNCHANGED <<queue, pc, call, tag, outcome>>
    BY <1>5 DEF SyncRefused, RecvAgain, DeviceAnswer, DeviceStops, vars
  <2>2. LastPacket'
    BY <2>1 DEF LastPacket
  <2>3. OwnAnswer'
    BY <2>1 DEF OwnAnswer, Own
  <2> QED BY <1>2, <2>2, <2>3
<1> QED BY <1>2, <1>3, <1>4, <1>5

\* A call that succeeds never takes an old answer of its own thread, provided
\* the ids repeat after no fewer draws than the queue has places
\* (hisi_set_msg_id, hisi_check_bd_id): one more timeout does not matter.
THEOREM IdsSuffice == ASSUME Cap <= IdNum PROVE Spec => []OwnAnswer
<1>1. Init => IdInv
  <2> SUFFICES ASSUME Init PROVE DrawInv /\ LastPacket /\ OwnAnswer
    BY InitSync DEF IdInv
  <2>1. LastPacket /\ OwnAnswer
    BY DEF Init, LastPacket, OwnAnswer
  <2>2. DrawInv
    <3> DEFINE n == [i \in 1 .. 0 |-> 0]
               N == [t \in Threads |-> 0]
    <3>1. n \in [1 .. 0 -> Nat] /\ N \in [Threads -> Nat] /\ Len(queue) = 0
      BY DEF Init
    <3>2. \A t \in Threads : rand_seed[t] = N[t] % IdNum
      <4>1. 0 % IdNum = 0
        BY ModSmall
      <4> QED BY <4>1 DEF Init
    <3> HIDE DEF n, N
    <3>3. Drawn(queue, rand_seed, n, N)
      BY <3>1, <3>2 DEF Drawn
    <3> QED BY <3>1, <3>3 DEF DrawInv
  <2> QED BY <2>1, <2>2
<1>2. IdInv /\ [Next]_vars => IdInv'
  <2> SUFFICES ASSUME IdInv, [Next]_vars PROVE IdInv'
    OBVIOUS
  <2>1. SyncInv'
    BY NextSync DEF IdInv
  <2>2. DrawInv' /\ LastPacket' /\ OwnAnswer'
    BY SendDraws, RecvDraws, SendFailsDraws, OthersDraw DEF Next, SyncStep,
       Done
  <2> QED BY <2>1, <2>2 DEF IdInv
<1>3. IdInv => OwnAnswer
  BY DEF IdInv
<1> QED BY <1>1, <1>2, <1>3, PTL DEF Spec

-----------------------------------------------------------------------------

(***************************************************************************)
(* SoftQueue: the k-th entry is slot (k - 1) % Depth.  The entries between *)
(* the answers and the posts are used, the next ones are free, and every   *)
(* used entry has its tag but the last one while its sender stores it; and *)
(* run_num lags behind by the sender and the receiver inside the locks.    *)
(***************************************************************************)
Slots == 0 .. Depth - 1
Entries == [used : BOOLEAN, complete : BOOLEAN, id : Nat]
Slot(k) == (k - 1) % Depth
Sent == Len(posted)
Read == Len(answers)

SoftTypes ==
  /\ qfifo \in [Slots -> Entries] /\ head \in Slots /\ tail \in Slots
  /\ run_num \in 0 .. Width - 1
  /\ ctl \in [Ends -> {"idle", "refused", "lock", "find", "store", "count", "try", "take",
                       "done"}]
  /\ sends \in [Ends -> Nat]
  /\ posted \in Seq(Nat) /\ answers \in Seq(Nat)

SoftLocks ==
  /\ \A s \in Posters : ctl[s] \in {"find", "store", "count"} <=> slock = s
  /\ \A r \in Receivers : ctl[r] \in {"take", "done"} <=> rlock = r

\* The threads whose step to or from run_num is still to come.
Storing == \E s \in Posters : ctl[s] = "store"
Uncounted == IF \E s \in Posters : ctl[s] \in {"store", "count"} THEN 1 ELSE 0
Undone == IF \E r \in Receivers : ctl[r] = "done" THEN 1 ELSE 0

SoftRing ==
  /\ Read <= Sent /\ Sent <= Read + Depth
  /\ head = Sent % Depth /\ tail = Read % Depth
  /\ Uncounted = 1 => Sent > 0
SoftEntries ==
  /\ \A i \in Slots : qfifo[i].used = qfifo[i].complete
  /\ \A k \in Nat : Read < k /\ k <= Sent => qfifo[Slot(k)].used
  /\ \A k \in Nat : Sent < k /\ k <= Read + Depth => ~qfifo[Slot(k)].used
  /\ \A k \in Nat : Read < k /\ k <= Sent =>
        (k = Sent /\ Storing) \/ qfifo[Slot(k)].id = posted[k]
SoftCount ==
  LET n == Sent - Read - Uncounted + Undone
  IN run_num = IF n >= 0 THEN n ELSE Width + n

\* The tag a sender is about to store belongs to the newest entry.
SoftTag == \A s \in Posters : ctl[s] = "store" => Sent > 0 /\ posted[Sent] = sends[s]

SoftInv ==
  SoftTypes /\ SoftLocks /\ SoftRing /\ SoftEntries /\ SoftCount /\ SoftTag /\ TagIntact

\* The slot of the next entry (wd_get_sqe_from_queue, wd_put_sqe_to_queue).
LEMMA SlotStep ==
  ASSUME NEW k \in Nat
  PROVE  /\ k % Depth \in Slots
         /\ Step(k % Depth) = (k + 1) % Depth
         /\ Slot(k + 1) = k % Depth
<1>1. k % Depth \in 0 .. Depth - 1
  BY DivMod, SoftAssumption
<1>2. (k + 1) % Depth = IF k % Depth = Depth - 1 THEN 0 ELSE (k % Depth) + 1
  BY NextSlot, SoftAssumption
<1>3. (k + 1) - 1 = k
  OBVIOUS
<1> QED BY <1>1, <1>2, <1>3, SoftAssumption DEF Step, Slot, Slots

\* Entries less than a turn apart have slots of their own.
LEMMA SlotsApart ==
  ASSUME NEW k \in Nat \ {0}, NEW n \in Nat \ {0}, k # n, k < n + Depth, n < k + Depth
  PROVE  Slot(k) # Slot(n) /\ Slot(k) \in Slots
<1>1. k - 1 \in Nat /\ n - 1 \in Nat
  OBVIOUS
<1>2. (k - 1) % Depth # (n - 1) % Depth
  <2> DEFINE a == k - 1
             b == n - 1
  <2>1. a \in Nat /\ b \in Nat /\ a # b /\ a - b < Depth /\ b - a < Depth
    BY <1>1, SoftAssumption
  <2> HIDE DEF a, b
  <2>4. a % Depth # b % Depth
    <3>1. CASE a < b
      BY <2>1, <3>1, ModDistinct, SoftAssumption
    <3>2. CASE b < a
      BY <2>1, <3>2, ModDistinct, SoftAssumption
    <3> QED BY <2>1, <3>1, <3>2
  <2> QED BY <2>4 DEF a, b
<1>3. (k - 1) % Depth \in 0 .. Depth - 1
  BY <1>1, DivMod, SoftAssumption
<1> QED BY <1>2, <1>3 DEF Slot, Slots

LEMMA EntrySet ==
  ASSUME NEW e \in Entries, NEW b \in BOOLEAN
  PROVE  [e EXCEPT !.used = b, !.complete = b] = [used |-> b, complete |-> b, id |-> e.id]
<1> DEFINE f == [e EXCEPT !.used = b]
           g == [f EXCEPT !.complete = b]
<1>1. f = [used |-> b, complete |-> e.complete, id |-> e.id]
  BY DEF Entries
<1>2. f \in Entries /\ f.id = e.id /\ f.used = b
  BY <1>1 DEF Entries
<1> HIDE DEF f
<1>3. g = [used |-> f.used, complete |-> b, id |-> f.id]
  BY <1>2 DEF Entries
<1>4. g = [used |-> b, complete |-> b, id |-> e.id]
  BY <1>2, <1>3
<1> QED BY <1>4 DEF f

\* Behind the lock of the senders there is one, and so behind the receivers'.
LEMMA OneInside ==
  ASSUME SoftLocks
  PROVE  /\ \A s, u \in Posters :
              ctl[s] \in {"find", "store", "count"} /\ ctl[u] \in {"find", "store", "count"}
                => s = u
         /\ \A r, u \in Receivers :
              ctl[r] \in {"take", "done"} /\ ctl[u] \in {"take", "done"} => r = u
BY DEF SoftLocks

LEMMA SoftLens ==
  ASSUME SoftTypes
  PROVE  Sent \in Nat /\ Read \in Nat /\ Uncounted \in {0, 1} /\ Undone \in {0, 1}
<1>1. Sent \in Nat /\ Read \in Nat
  BY DEF SoftTypes, Sent, Read
<1>2. Uncounted \in {0, 1}
  BY DEF Uncounted
<1>3. Undone \in {0, 1}
  BY DEF Undone
<1> QED BY <1>1, <1>2, <1>3

\* An empty queue.
LEMMA SoftStart == SInit => SoftInv
<1> SUFFICES ASSUME SInit PROVE SoftInv
  OBVIOUS
<1> USE SoftAssumption
<1>1. Sent = 0 /\ Read = 0 /\ Uncounted = 0 /\ Undone = 0
  BY DEF SInit, Sent, Read, Uncounted, Undone, Ends
<1>2. 0 % Depth = 0
  BY ModSmall
<1>3. SoftTypes
  BY DEF SInit, SoftTypes, Slots, Entries, NoTag, Ends
<1>4. SoftLocks
  BY DEF SInit, SoftLocks, Ends
<1>5. SoftRing
  BY <1>1, <1>2 DEF SInit, SoftRing
<1>6. SoftEntries
  <2>1. \A k \in Nat : 0 < k => Slot(k) \in Slots
    <3> SUFFICES ASSUME NEW k \in Nat, 0 < k PROVE Slot(k) \in Slots
      OBVIOUS
    <3>1. k - 1 \in Nat
      OBVIOUS
    <3> QED BY <3>1, DivMod DEF Slot, Slots
  <2>2. \A i \in Slots : ~qfifo[i].used /\ ~qfifo[i].complete
    BY DEF SInit, Slots
  <2>3. \A k \in Nat : Sent < k /\ k <= Read + Depth => ~qfifo[Slot(k)].used
    BY <1>1, <2>1, <2>2
  <2>4. \A k \in Nat : ~(Read < k /\ k <= Sent)
    BY <1>1
  <2>5. \A i \in Slots : qfifo[i].used = qfifo[i].complete
    BY DEF SInit, Slots
  <2> QED BY <2>3, <2>4, <2>5 DEF SoftEntries
<1>7. SoftCount
  BY <1>1 DEF SInit, SoftCount
<1>8. TagIntact
  BY DEF SInit, TagIntact
<1>9. SoftTag
  BY DEF SInit, SoftTag, Ends
<1> QED BY <1>3, <1>4, <1>5, <1>6, <1>7, <1>8, <1>9 DEF SoftInv

\* Steps that leave the ring and the counter alone.
Quiet == /\ UNCHANGED <<qfifo, head, tail, run_num, posted, answers, early>>
         /\ Storing' = Storing /\ Uncounted' = Uncounted /\ Undone' = Undone
         /\ \A s \in Posters : ctl'[s] = "store" => ctl[s] = "store" /\ sends'[s] = sends[s]

LEMMA QuietKeeps ==
  ASSUME SoftInv, Quiet, SoftTypes', SoftLocks'
  PROVE  SoftInv'
<1>1. Sent' = Sent /\ Read' = Read
  BY DEF Quiet, Sent, Read
<1>2. SoftRing'
  BY <1>1 DEF SoftInv, SoftRing, Quiet
<1>3. SoftEntries'
  BY <1>1 DEF SoftInv, SoftEntries, Quiet, Slot
<1>4. SoftCount'
  BY <1>1 DEF SoftInv, SoftCount, Quiet
<1>5. TagIntact'
  BY DEF SoftInv, TagIntact, Quiet
<1>6. SoftTag'
  BY <1>1 DEF SoftInv, SoftTag, Quiet
<1> QED BY <1>2, <1>3, <1>4, <1>5, <1>6 DEF SoftInv

\* A sender outside of the lock, on its way in, or out again.
LEMMA SenderQuiet ==
  ASSUME SoftInv, NEW s \in Posters,
         SendRefused(s) \/ Retry(s) \/ SendCompute(s) \/ SendLock(s) \/ SendFull(s)
  PROVE  SoftInv'
<1> USE SoftAssumption
<1>1. /\ s \in Ends /\ s \notin Receivers /\ s # Unheld
      /\ UNCHANGED <<qfifo, head, tail, run_num, rlock, posted, answers, early>>
  BY DEF Ends, SendRefused, Retry, SendCompute, SendLock, SendFull
<1>2. \E l \in {"idle", "refused", "lock", "find"} : ctl' = [ctl EXCEPT ![s] = l]
  BY DEF SendRefused, Retry, SendCompute, SendLock, SendFull, Goto
<1>3. ctl[s] \in {"idle", "refused", "lock", "find"}
  BY DEF SendRefused, Retry, SendCompute, SendLock, SendFull
<1>4. sends' \in [Ends -> Nat]
  <2>1. CASE SendCompute(s)
    <3>1. (CHOOSE k \in Fresh : TRUE) \in Nat
      BY <2>1 DEF SendCompute, Fresh
    <3> QED BY <2>1, <3>1 DEF SendCompute, SoftInv, SoftTypes
  <2>2. CASE SendFull(s)
    BY <2>2 DEF SendFull, SoftInv, SoftTypes, NoTag
  <2>3. CASE SendRefused(s) \/ Retry(s) \/ SendLock(s)
    BY <2>3 DEF SendRefused, Retry, SendLock, SoftInv, SoftTypes
  <2> QED BY <2>1, <2>2, <2>3
<1>5. SoftTypes'
  BY <1>1, <1>2, <1>4 DEF SoftInv, SoftTypes
<1>6. SoftLocks'
  <2>1. CASE SendLock(s)
    BY <1>1, <2>1 DEF SendLock, Goto, SoftInv, SoftLocks, SoftTypes, Ends
  <2>2. CASE SendFull(s)
    BY <1>1, <2>2 DEF SendFull, Goto, SoftInv, SoftLocks, SoftTypes, Ends
  <2>3. CASE SendRefused(s) \/ Retry(s) \/ SendCompute(s)
    BY ZenonT(60), <1>1, <2>3 DEF SendRefused, Retry, SendCompute, Goto, SoftInv, SoftLocks, SoftTypes,
                      Ends
  <2> QED BY <2>1, <2>2, <2>3
<1>7. \A u \in Posters : /\ ctl'[u] = "store" <=> ctl[u] = "store"
                         /\ ctl'[u] = "count" <=> ctl[u] = "count"
  BY <1>1, <1>2, <1>3 DEF SoftInv, SoftTypes, Ends
<1>8. \A u \in Receivers : ctl'[u] = ctl[u]
  BY <1>1, <1>2 DEF SoftInv, SoftTypes, Ends
<1>10. \A u \in Posters : ctl'[u] = "store" => ctl[u] = "store" /\ sends'[u] = sends[u]
  <2> SUFFICES ASSUME NEW u \in Posters, ctl'[u] = "store"
               PROVE  ctl[u] = "store" /\ sends'[u] = sends[u]
    OBVIOUS
  <2>1. ctl[u] = "store" /\ u # s /\ u \in Ends
    BY <1>3, <1>7 DEF Ends
  <2>2. sends' = sends \/ \E x : sends' = [sends EXCEPT ![s] = x]
    BY DEF SendRefused, Retry, SendCompute, SendLock, SendFull
  <2> QED BY <2>1, <2>2 DEF SoftInv, SoftTypes
<1>9. Quiet
  BY <1>1, <1>7, <1>8, <1>10 DEF Quiet, Storing, Uncounted, Undone
<1> QED BY <1>5, <1>6, <1>9, QuietKeeps

\* A receiver that finds the queue empty or somebody else there, or comes in.
LEMMA ReceiverQuiet ==
  ASSUME SoftInv, NEW r \in Receivers,
         RecvTest(r) \/ RecvLock(r) \/ RecvBusy(r) \/ RecvNone(r)
  PROVE  SoftInv'
<1> USE SoftAssumption
<1>1. /\ r \in Ends /\ r \notin Posters /\ r # Unheld
      /\ UNCHANGED <<qfifo, head, tail, run_num, slock, sends, posted, answers, early>>
  BY DEF Ends, RecvTest, RecvLock, RecvBusy, RecvNone
<1>2. \E l \in {"idle", "try", "take"} : ctl' = [ctl EXCEPT ![r] = l]
  BY DEF RecvTest, RecvLock, RecvBusy, RecvNone, Goto
<1>3. ctl[r] \in {"idle", "try", "take"}
  BY DEF RecvTest, RecvLock, RecvBusy, RecvNone
<1>4. SoftTypes'
  BY <1>1, <1>2 DEF SoftInv, SoftTypes
<1>5. SoftLocks'
  <2>1. CASE RecvLock(r)
    BY <1>1, <2>1 DEF RecvLock, Goto, SoftInv, SoftLocks, SoftTypes, Ends
  <2>2. CASE RecvNone(r)
    BY <1>1, <2>2 DEF RecvNone, Goto, SoftInv, SoftLocks, SoftTypes, Ends
  <2>3. CASE RecvTest(r) \/ RecvBusy(r)
    BY <1>1, <2>3 DEF RecvTest, RecvBusy, Goto, SoftInv, SoftLocks, SoftTypes, Ends
  <2> QED BY <2>1, <2>2, <2>3
<1>6. \A u \in Receivers : ctl'[u] = "done" <=> ctl[u] = "done"
  BY <1>1, <1>2, <1>3 DEF SoftInv, SoftTypes, Ends
<1>7. \A u \in Posters : ctl'[u] = ctl[u]
  BY <1>1, <1>2 DEF SoftInv, SoftTypes, Ends
<1>8. Quiet
  BY <1>1, <1>6, <1>7 DEF Quiet, Storing, Uncounted, Undone
<1> QED BY <1>4, <1>5, <1>8, QuietKeeps

\* The sender marks the entry at head: one more is used, and waits for its tag.
LEMMA SendMarks ==
  ASSUME SoftInv, NEW s \in Posters, SendMark(s)
  PROVE  SoftInv'
<1> USE SoftAssumption
<1>0. Sent \in Nat /\ Read \in Nat /\ Uncounted \in {0, 1} /\ Undone \in {0, 1}
  BY SoftLens DEF SoftInv
<1>1. /\ s \in Ends /\ s \notin Receivers /\ s # Unheld /\ ctl[s] = "find"
      /\ ctl' = [ctl EXCEPT ![s] = "store"]
      /\ UNCHANGED <<tail, run_num, slock, rlock, sends, answers, early>>
      /\ posted' = Append(posted, sends[s]) /\ head' = Step(head)
  BY DEF Ends, SendMark, Goto
<1>2. /\ ~qfifo[head].used
      /\ qfifo' = [qfifo EXCEPT ![head] = [used |-> TRUE, complete |-> TRUE, id |-> @.id]]
  <2>1. head \in Slots /\ qfifo \in [Slots -> Entries] /\ qfifo[head] \in Entries
    BY DEF SoftInv, SoftTypes
  <2>3. [qfifo[head] EXCEPT !.used = TRUE, !.complete = TRUE]
          = [used |-> TRUE, complete |-> TRUE, id |-> qfifo[head].id]
    BY <2>1, EntrySet
  <2>4. ~qfifo[head].used
    BY DEF SendMark, EntryFree
  <2> QED BY <2>1, <2>3, <2>4 DEF SendMark
<1>3. \A u \in Posters : ctl[u] \notin {"store", "count"}
  BY <1>1, OneInside DEF SoftInv
<1>4. Uncounted = 0 /\ Uncounted' = 1 /\ Storing' /\ Undone' = Undone
  <2>1. \A u \in Receivers : ctl'[u] = ctl[u]
    BY <1>1 DEF SoftInv, SoftTypes, Ends
  <2>2. ctl'[s] = "store"
    BY <1>1 DEF SoftInv, SoftTypes
  <2> QED BY <1>3, <2>1, <2>2 DEF Uncounted, Storing, Undone
<1>5. Sent' = Sent + 1 /\ Read' = Read /\ sends[s] \in Nat
  BY <1>1 DEF SoftInv, SoftTypes, Sent, Read
<1>6. Slot(Sent + 1) = head /\ head' = (Sent + 1) % Depth /\ head' \in Slots
  <2>1. head = Sent % Depth
    BY DEF SoftInv, SoftRing
  <2>2. Step(Sent % Depth) = (Sent + 1) % Depth /\ Slot(Sent + 1) = Sent % Depth
    BY <1>0, SlotStep
  <2>3. Sent + 1 \in Nat
    BY <1>0
  <2>4. (Sent + 1) % Depth \in Slots
    BY <2>3, SlotStep
  <2> QED BY <1>1, <2>1, <2>2, <2>4
<1>7. SoftTypes'
  <2>1. qfifo' \in [Slots -> Entries]
    BY <1>2 DEF SoftInv, SoftTypes, Entries
  <2> QED BY <1>1, <1>5, <1>6, <2>1 DEF SoftInv, SoftTypes
<1>8. SoftLocks'
  BY <1>1 DEF SoftInv, SoftLocks, SoftTypes, Ends
<1>9. Sent < Read + Depth
  <2>1. SUFFICES ASSUME Sent = Read + Depth PROVE FALSE
    BY <1>0 DEF SoftInv, SoftRing
  <2>2. head = Read % Depth
    BY <1>0, <2>1, NextTurn DEF SoftInv, SoftRing
  <2>3. Slot(Read + 1) = Read % Depth
    BY <1>0, SlotStep
  <2>4. Read + 1 \in Nat /\ Read < Read + 1 /\ Read + 1 <= Sent
    BY <1>0, <2>1
  <2> QED BY <1>2, <2>2, <2>3, <2>4 DEF SoftInv, SoftEntries
<1>10. SoftRing'
  BY <1>0, <1>1, <1>5, <1>6, <1>9 DEF SoftInv, SoftRing
<1>11. \A k \in Nat : Read < k /\ k <= Read + Depth /\ k # Sent + 1 =>
                        Slot(k) # head /\ Slot(k) \in Slots
  <2> SUFFICES ASSUME NEW k \in Nat, Read < k, k <= Read + Depth, k # Sent + 1
               PROVE  Slot(k) # Slot(Sent + 1) /\ Slot(k) \in Slots
    BY <1>6
  <2>1. k \in Nat \ {0} /\ Sent + 1 \in Nat \ {0} /\ k < (Sent + 1) + Depth
        /\ Sent + 1 < k + Depth
    BY <1>0, <1>9 DEF SoftInv, SoftRing
  <2> QED BY <2>1, SlotsApart
<1>12. \A i \in Slots : i # head => qfifo'[i] = qfifo[i]
  BY <1>2 DEF SoftInv, SoftTypes
<1>13. qfifo'[head].used /\ qfifo'[head].complete /\ head \in Slots
  BY <1>2 DEF SoftInv, SoftTypes
<1>14. SoftEntries'
  <2>1. \A i \in Slots : qfifo'[i].used = qfifo'[i].complete
    <3> SUFFICES ASSUME NEW i \in Slots PROVE qfifo'[i].used = qfifo'[i].complete
      OBVIOUS
    <3>1. CASE i = head
      BY <1>2, <3>1 DEF SoftInv, SoftTypes
    <3>2. CASE i # head
      BY <1>12, <3>2 DEF SoftInv, SoftEntries
    <3> QED BY <3>1, <3>2
  <2>2. \A k \in Nat : Read < k /\ k <= Sent + 1 => qfifo'[Slot(k)].used
    <3> SUFFICES ASSUME NEW k \in Nat, Read < k, k <= Sent + 1
                 PROVE  qfifo'[Slot(k)].used
      OBVIOUS
    <3>1. CASE k = Sent + 1
      BY <1>6, <1>13, <3>1
    <3>2. CASE k <= Sent
      <4>1. qfifo[Slot(k)].used
        BY <3>2 DEF SoftInv, SoftEntries
      <4>2. qfifo'[Slot(k)] = qfifo[Slot(k)]
        BY <1>0, <1>9, <1>11, <1>12, <3>2
      <4> QED BY <4>1, <4>2
    <3> QED BY <1>0, <3>1, <3>2
  <2>3. \A k \in Nat : Sent + 1 < k /\ k <= Read + Depth => ~qfifo'[Slot(k)].used
    BY <1>0, <1>11, <1>12 DEF SoftInv, SoftEntries, SoftRing
  <2>4. \A k \in Nat : Read < k /\ k <= Sent + 1 =>
           (k = Sent + 1 /\ Storing') \/ qfifo'[Slot(k)].id = posted'[k]
    <3> SUFFICES ASSUME NEW k \in Nat, Read < k, k <= Sent
                 PROVE  qfifo'[Slot(k)].id = posted'[k]
      BY <1>0, <1>4
    <3>1. qfifo[Slot(k)].id = posted[k]
      BY <1>3 DEF SoftInv, SoftEntries, Storing
    <3>2. qfifo'[Slot(k)] = qfifo[Slot(k)]
      BY <1>0, <1>9, <1>11, <1>12
    <3>3. posted'[k] = posted[k]
      BY <1>0, <1>1, <1>5 DEF SoftInv, SoftTypes, Sent
    <3> QED BY <3>1, <3>2, <3>3
  <2> QED BY <1>5, <2>1, <2>2, <2>3, <2>4 DEF SoftEntries, Slot
<1>15. SoftCount'
  BY <1>0, <1>1, <1>4, <1>5 DEF SoftInv, SoftCount
<1>16. TagIntact'
  <2>1. \A i \in DOMAIN answers : posted'[i] = posted[i]
    BY SMTT(60), <1>0, <1>1, <1>5 DEF SoftInv, SoftTypes, SoftRing, Sent, Read
  <2> QED BY <1>1, <2>1 DEF SoftInv, TagIntact
<1>17. SoftTag'
  <2> SUFFICES ASSUME NEW u \in Posters, ctl'[u] = "store"
               PROVE  Sent + 1 > 0 /\ posted'[Sent + 1] = sends[u]
    BY <1>1, <1>5 DEF SoftTag
  <2>1. u = s
    BY <1>1, <1>3 DEF SoftInv, SoftTypes, Ends
  <2>2. posted'[Sent + 1] = sends[s]
    BY <1>0, <1>1, <1>5 DEF SoftInv, SoftTypes, Sent
  <2> QED BY <1>0, <2>1, <2>2
<1> QED BY <1>7, <1>8, <1>10, <1>14, <1>15, <1>16, <1>17 DEF SoftInv
\* The newest entry is the one before head.
LEMMA BeforeHead ==
  ASSUME NEW n \in Nat \ {0}
  PROVE  ((n % Depth) + Depth - 1) % Depth = Slot(n) /\ Slot(n) \in Slots
<1> USE SoftAssumption
<1> DEFINE m == n - 1
           r == m % Depth
<1>1. m \in Nat /\ m + 1 = n
  OBVIOUS
<1> HIDE DEF m
<1>2. r \in 0 .. Depth - 1
  BY <1>1, DivMod
<1>3. n % Depth = IF r = Depth - 1 THEN 0 ELSE r + 1
  BY <1>1, NextSlot
<1> HIDE DEF r
<1>4. ((n % Depth) + Depth - 1) % Depth = r
  <2>1. CASE r = Depth - 1
    <3>1. (n % Depth) + Depth - 1 = r
      BY <1>2, <1>3, <2>1
    <3>2. r % Depth = r
      BY <1>2, ModSmall
    <3> QED BY <3>1, <3>2
  <2>2. CASE r # Depth - 1
    <3>1. (n % Depth) + Depth - 1 = r + Depth
      BY <1>2, <1>3, <2>2
    <3>2. r % Depth = r
      BY <1>2, ModSmall
    <3>3. r \in Nat
      BY <1>2
    <3>4. (r + Depth) % Depth = r % Depth
      BY <3>3, NextTurn
    <3> QED BY <3>1, <3>2, <3>4
  <2> QED BY <2>1, <2>2
<1>5. Slot(n) = r
  BY DEF r, m, Slot
<1> QED BY <1>2, <1>4, <1>5 DEF Slots

\* The sender stores the tag of the newest entry, which may be gone by now.
LEMMA SendStores ==
  ASSUME SoftInv, NEW s \in Posters, SendStore(s)
  PROVE  SoftInv'
<1> USE SoftAssumption
<1>0. Sent \in Nat /\ Read \in Nat /\ Uncounted \in {0, 1} /\ Undone \in {0, 1}
  BY SoftLens DEF SoftInv
<1>1. /\ s \in Ends /\ s \notin Receivers /\ s # Unheld /\ ctl[s] = "store"
      /\ ctl' = [ctl EXCEPT ![s] = "count"]
      /\ UNCHANGED <<head, tail, run_num, slock, rlock, sends, posted, answers, early>>
  BY DEF Ends, SendStore, Goto
<1>2. Sent > 0 /\ posted[Sent] = sends[s] /\ sends[s] \in Nat
  BY <1>1 DEF SoftInv, SoftTag, SoftTypes
<1>3. (head + Depth - 1) % Depth = Slot(Sent) /\ Slot(Sent) \in Slots
  <2>1. head = Sent % Depth
    BY DEF SoftInv, SoftRing
  <2>2. Sent \in Nat \ {0}
    BY <1>0, <1>2
  <2>3. ((Sent % Depth) + Depth - 1) % Depth = Slot(Sent) /\ Slot(Sent) \in Slots
    BY <2>2, BeforeHead
  <2> QED BY <2>1, <2>3
<1>4. qfifo' = [qfifo EXCEPT ![Slot(Sent)].id = sends[s]]
  BY <1>3 DEF SendStore
<1>5. /\ \A i \in Slots : /\ qfifo'[i].used = qfifo[i].used
                          /\ qfifo'[i].complete = qfifo[i].complete
                          /\ i # Slot(Sent) => qfifo'[i].id = qfifo[i].id
      /\ qfifo'[Slot(Sent)].id = sends[s]
      /\ qfifo' \in [Slots -> Entries]
  BY ZenonT(60), <1>2, <1>3, <1>4 DEF SoftInv, SoftTypes, Entries
<1>6. Sent' = Sent /\ Read' = Read
  BY <1>1 DEF Sent, Read
<1>7. \A u \in Posters : u # s => ctl[u] \notin {"store", "count"}
  BY <1>1, OneInside DEF SoftInv
<1>8. ctl'[s] = "count" /\ \A u \in Ends : u # s => ctl'[u] = ctl[u]
  BY <1>1 DEF SoftInv, SoftTypes
<1>9. ~Storing' /\ Uncounted = 1 /\ Uncounted' = 1 /\ Undone' = Undone
  <2>1. \A u \in Receivers : ctl'[u] = ctl[u]
    BY <1>1, <1>8 DEF Ends
  <2>2. \A u \in Posters : ctl'[u] # "store"
    BY <1>7, <1>8 DEF Ends
  <2> QED BY <1>1, <1>8, <2>1, <2>2 DEF Storing, Uncounted, Undone
<1>10. SoftTypes'
  BY <1>1, <1>5 DEF SoftInv, SoftTypes
<1>11. SoftLocks'
  BY <1>1, <1>8 DEF SoftInv, SoftLocks, Ends
<1>12. SoftRing'
  BY <1>1, <1>6, <1>9 DEF SoftInv, SoftRing
<1>13. \A k \in Nat : Read < k /\ k <= Read + Depth => Slot(k) \in Slots
  <2> SUFFICES ASSUME NEW k \in Nat, Read < k PROVE Slot(k) \in Slots
    OBVIOUS
  <2>1. k \in Nat \ {0}
    BY <1>0
  <2> QED BY <2>1, BeforeHead
<1>14. SoftEntries'
  <2>1. \A i \in Slots : qfifo'[i].used = qfifo'[i].complete
    BY <1>5 DEF SoftInv, SoftEntries
  <2>2. \A k \in Nat : Read < k /\ k <= Sent => qfifo'[Slot(k)].used
    BY <1>0, <1>5, <1>13 DEF SoftInv, SoftEntries, SoftRing
  <2>3. \A k \in Nat : Sent < k /\ k <= Read + Depth => ~qfifo'[Slot(k)].used
    BY <1>0, <1>5, <1>13 DEF SoftInv, SoftEntries, SoftRing
  <2>4. \A k \in Nat : Read < k /\ k <= Sent => qfifo'[Slot(k)].id = posted[k]
    <3> SUFFICES ASSUME NEW k \in Nat, Read < k, k <= Sent
                 PROVE  qfifo'[Slot(k)].id = posted[k]
      OBVIOUS
    <3>1. CASE k = Sent
      BY <1>2, <1>5, <3>1
    <3>2. CASE k # Sent
      <4>1. k \in Nat \ {0} /\ Sent \in Nat \ {0} /\ k < Sent + Depth /\ Sent < k + Depth
        BY <1>0, <1>2 DEF SoftInv, SoftRing
      <4>2. Slot(k) # Slot(Sent) /\ Slot(k) \in Slots
        BY <3>2, <4>1, SlotsApart
      <4>3. qfifo[Slot(k)].id = posted[k]
        BY <3>2 DEF SoftInv, SoftEntries
      <4> QED BY <1>5, <4>2, <4>3
    <3> QED BY <3>1, <3>2
  <2> QED BY <1>1, <1>6, <2>1, <2>2, <2>3, <2>4 DEF SoftEntries, Slot
<1>15. SoftCount'
  BY <1>1, <1>6, <1>9 DEF SoftInv, SoftCount
<1>16. SoftTag'
  BY <1>9 DEF SoftTag, Storing
<1>17. TagIntact'
  BY <1>1 DEF SoftInv, TagIntact
<1> QED BY <1>10, <1>11, <1>12, <1>14, <1>15, <1>16, <1>17 DEF SoftInv

\* run_num up and down by one, in the width of the counter.
LEMMA CountUp ==
  ASSUME NEW n \in -1 .. Depth
  PROVE  LET c(k) == IF k >= 0 THEN k ELSE Width + k
         IN (c(n) + 1) % Width = c(n + 1)
<1> USE SoftAssumption
<1> DEFINE c(k) == IF k >= 0 THEN k ELSE Width + k
<1>1. CASE n = -1
  <2>1. c(n) + 1 = 0 + Width /\ c(n + 1) = 0
    BY <1>1
  <2>2. (0 + Width) % Width = 0 % Width
    <3>1. Width \in Nat \ {0} /\ 0 \in Nat
      OBVIOUS
    <3> QED BY <3>1, NextTurn
  <2>3. 0 % Width = 0
    BY ModSmall
  <2> QED BY <2>1, <2>2, <2>3
<1>2. CASE n >= 0
  <2>1. c(n) + 1 = n + 1 /\ c(n + 1) = n + 1 /\ n + 1 \in 0 .. Width - 1
    BY <1>2
  <2> QED BY <2>1, ModSmall
<1> QED BY <1>1, <1>2

LEMMA CountDown ==
  ASSUME NEW n \in 0 .. Depth + 1
  PROVE  LET c(k) == IF k >= 0 THEN k ELSE Width + k
         IN (c(n) + Width - 1) % Width = c(n - 1)
<1> USE SoftAssumption
<1> DEFINE c(k) == IF k >= 0 THEN k ELSE Width + k
<1>1. CASE n = 0
  <2>1. c(n) + Width - 1 = Width - 1 /\ c(n - 1) = Width - 1 /\ Width - 1 \in 0 .. Width - 1
    BY <1>1
  <2> QED BY <2>1, ModSmall
<1>2. CASE n > 0
  <2> DEFINE m == n - 1
  <2>1. c(n) + Width - 1 = m + Width /\ c(n - 1) = m /\ m \in 0 .. Width - 1 /\ m \in Nat
    BY <1>2
  <2> HIDE DEF m
  <2>2. (m + Width) % Width = m % Width
    <3>1. Width \in Nat \ {0}
      OBVIOUS
    <3> QED BY <2>1, <3>1, NextTurn
  <2>3. m % Width = m
    BY <2>1, ModSmall
  <2> QED BY <2>1, <2>2, <2>3
<1> QED BY <1>1, <1>2

\* The entry is counted, the lock released.
LEMMA SendCounts ==
  ASSUME SoftInv, NEW s \in Posters, SendCount(s)
  PROVE  SoftInv'
<1> USE SoftAssumption
<1>0. Sent \in Nat /\ Read \in Nat /\ Uncounted \in {0, 1} /\ Undone \in {0, 1}
  BY SoftLens DEF SoftInv
<1>1. /\ s \in Ends /\ s \notin Receivers /\ s # Unheld /\ ctl[s] = "count"
      /\ ctl' = [ctl EXCEPT ![s] = "idle"] /\ slock' = Unheld
      /\ run_num' = (run_num + 1) % Width /\ sends' = [sends EXCEPT ![s] = NoTag]
      /\ UNCHANGED <<qfifo, head, tail, rlock, posted, answers, early>>
  BY DEF Ends, SendCount, Goto
<1>2. ctl'[s] = "idle" /\ \A u \in Ends : u # s => ctl'[u] = ctl[u]
  BY <1>1 DEF SoftInv, SoftTypes
<1>3. slock = s /\ \A u \in Posters : u # s => ctl[u] \notin {"find", "store", "count"}
  BY <1>1, OneInside DEF SoftInv, SoftLocks
<1>4. \A u \in Posters : ctl'[u] \notin {"find", "store", "count"}
  BY <1>2, <1>3 DEF Ends
<1>5. ~Storing /\ ~Storing' /\ Uncounted = 1 /\ Uncounted' = 0 /\ Undone' = Undone
  <2>1. \A u \in Receivers : ctl'[u] = ctl[u]
    BY <1>1, <1>2 DEF Ends
  <2> QED BY <1>1, <1>3, <1>4, <2>1 DEF Storing, Uncounted, Undone
<1>6. Sent' = Sent /\ Read' = Read
  BY <1>1 DEF Sent, Read
<1>7. SoftCount' /\ run_num' \in 0 .. Width - 1
  <2> DEFINE n == Sent - Read - 1 + Undone
             c(k) == IF k >= 0 THEN k ELSE Width + k
  <2>1. n \in -1 .. Depth
    BY <1>0 DEF SoftInv, SoftRing
  <2>2. run_num = c(n)
    BY <1>0, <1>5 DEF SoftInv, SoftCount
  <2>3. Sent' - Read' - Uncounted' + Undone' = n + 1
    BY <1>0, <1>5, <1>6
  <2> HIDE DEF n
  <2>4. (c(n) + 1) % Width = c(n + 1)
    BY <2>1, CountUp
  <2>5. run_num' = c(n + 1)
    BY <1>1, <2>2, <2>4
  <2>6. c(n + 1) \in 0 .. Width - 1
    BY <2>1
  <2>7. run_num' = c(Sent' - Read' - Uncounted' + Undone')
    BY <2>3, <2>5
  <2>8. SoftCount'
    BY <2>7 DEF SoftCount
  <2> QED BY <2>5, <2>6, <2>8
<1>8. SoftTypes'
  BY <1>1, <1>7 DEF SoftInv, SoftTypes, NoTag
<1>9. SoftLocks'
  <2>1. \A u \in Posters : u # slock'
    BY <1>1
  <2>2. \A u \in Receivers : ctl'[u] = ctl[u]
    BY <1>1, <1>2 DEF Ends
  <2> QED BY <1>1, <1>4, <2>1, <2>2 DEF SoftInv, SoftLocks
<1>10. SoftRing'
  BY <1>1, <1>5, <1>6 DEF SoftInv, SoftRing
<1>11. SoftEntries'
  BY <1>1, <1>5, <1>6 DEF SoftInv, SoftEntries, Slot
<1>12. SoftTag'
  BY <1>5 DEF SoftTag, Storing
<1>13. TagIntact'
  BY <1>1 DEF SoftInv, TagIntact
<1> QED BY <1>7, <1>8, <1>9, <1>10, <1>11, <1>12, <1>13 DEF SoftInv

\* A receiver counts its entry off and leaves.
LEMMA RecvCounts ==
  ASSUME SoftInv, NEW r \in Receivers, RecvCount(r)
  PROVE  SoftInv'
<1> USE SoftAssumption
<1>0. Sent \in Nat /\ Read \in Nat /\ Uncounted \in {0, 1} /\ Undone \in {0, 1}
  BY SoftLens DEF SoftInv
<1>1. /\ r \in Ends /\ r \notin Posters /\ r # Unheld /\ ctl[r] = "done"
      /\ ctl' = [ctl EXCEPT ![r] = "idle"] /\ rlock' = Unheld
      /\ run_num' = (run_num + Width - 1) % Width
      /\ UNCHANGED <<qfifo, head, tail, slock, sends, posted, answers, early>>
  BY DEF Ends, RecvCount, Goto
<1>2. ctl'[r] = "idle" /\ \A u \in Ends : u # r => ctl'[u] = ctl[u]
  BY <1>1 DEF SoftInv, SoftTypes
<1>3. rlock = r /\ \A u \in Receivers : u # r => ctl[u] \notin {"take", "done"}
  BY <1>1, OneInside DEF SoftInv, SoftLocks
<1>4. \A u \in Receivers : ctl'[u] \notin {"take", "done"}
  BY <1>2, <1>3 DEF Ends
<1>5. /\ \A u \in Posters : ctl'[u] = ctl[u]
      /\ Storing' = Storing /\ Uncounted' = Uncounted /\ Undone = 1 /\ Undone' = 0
  <2>1. \A u \in Posters : ctl'[u] = ctl[u]
    BY <1>1, <1>2 DEF Ends
  <2> QED BY <1>1, <1>4, <2>1 DEF Storing, Uncounted, Undone
<1>6. Sent' = Sent /\ Read' = Read
  BY <1>1 DEF Sent, Read
<1>7. SoftCount' /\ run_num' \in 0 .. Width - 1
  <2> DEFINE n == Sent - Read - Uncounted + 1
             c(k) == IF k >= 0 THEN k ELSE Width + k
  <2>1. n \in 0 .. Depth + 1
    BY <1>0 DEF SoftInv, SoftRing
  <2>2. run_num = c(n)
    BY <1>0, <1>5 DEF SoftInv, SoftCount
  <2>3. Sent' - Read' - Uncounted' + Undone' = n - 1
    BY <1>0, <1>5, <1>6
  <2> HIDE DEF n
  <2>4. (c(n) + Width - 1) % Width = c(n - 1)
    BY <2>1, CountDown
  <2>5. run_num' = c(n - 1)
    BY <1>1, <2>2, <2>4
  <2>6. c(n - 1) \in 0 .. Width - 1
    BY <2>1
  <2>7. run_num' = c(Sent' - Read' - Uncounted' + Undone')
    BY <2>3, <2>5
  <2>8. SoftCount'
    BY <2>7 DEF SoftCount
  <2> QED BY <2>5, <2>6, <2>8
<1>8. SoftTypes'
  BY <1>1, <1>7 DEF SoftInv, SoftTypes
<1>9. SoftLocks'
  <2>1. \A u \in Receivers : u # rlock'
    BY <1>1
  <2> QED BY <1>1, <1>4, <1>5, <2>1 DEF SoftInv, SoftLocks
<1>10. SoftRing'
  BY <1>1, <1>5, <1>6 DEF SoftInv, SoftRing
<1>11. SoftEntries'
  BY <1>1, <1>5, <1>6 DEF SoftInv, SoftEntries, Slot
<1>12. SoftTag'
  BY <1>1, <1>5, <1>6 DEF SoftInv, SoftTag
<1>13. TagIntact'
  BY <1>1 DEF SoftInv, TagIntact
<1> QED BY <1>7, <1>8, <1>9, <1>10, <1>11, <1>12, <1>13 DEF SoftInv

\* The receiver takes the oldest entry.  When its tag is not stored yet the
\* entry is not counted either, and the answer counts as an early one.
LEMMA RecvTakes ==
  ASSUME SoftInv, NEW r \in Receivers, RecvTake(r)
  PROVE  SoftInv'
<1> USE SoftAssumption
<1>0. Sent \in Nat /\ Read \in Nat /\ Uncounted \in {0, 1} /\ Undone \in {0, 1}
  BY SoftLens DEF SoftInv
<1>1. /\ r \in Ends /\ r \notin Posters /\ r # Unheld /\ ctl[r] = "take"
      /\ ctl' = [ctl EXCEPT ![r] = "done"]
      /\ UNCHANGED <<head, run_num, slock, rlock, sends, posted>>
      /\ answers' = Append(answers, qfifo[tail].id) /\ tail' = Step(tail)
      /\ early' = IF run_num \in 1 .. Depth THEN early ELSE early \cup {Read + 1}
  BY DEF Ends, RecvTake, Goto, Read
<1>2. /\ qfifo[tail].used /\ tail \in Slots
      /\ qfifo' = [qfifo EXCEPT ![tail] = [used |-> FALSE, complete |-> FALSE, id |-> @.id]]
  <2>1. tail \in Slots /\ qfifo \in [Slots -> Entries] /\ qfifo[tail] \in Entries
    BY DEF SoftInv, SoftTypes
  <2>3. [qfifo[tail] EXCEPT !.used = FALSE, !.complete = FALSE]
          = [used |-> FALSE, complete |-> FALSE, id |-> qfifo[tail].id]
    BY <2>1, EntrySet
  <2>4. qfifo[tail].used
    BY DEF RecvTake, EntryDone
  <2> QED BY <2>1, <2>3, <2>4 DEF RecvTake
<1>3. rlock = r /\ \A u \in Receivers : ctl[u] # "done"
  BY <1>1, OneInside DEF SoftInv, SoftLocks
<1>4. /\ \A u \in Posters : ctl'[u] = ctl[u]
      /\ Storing' = Storing /\ Uncounted' = Uncounted /\ Undone = 0 /\ Undone' = 1
  <2>1. \A u \in Posters : ctl'[u] = ctl[u]
    BY <1>1 DEF SoftInv, SoftTypes, Ends
  <2>2. ctl'[r] = "done"
    BY <1>1 DEF SoftInv, SoftTypes
  <2> QED BY <1>3, <2>1, <2>2 DEF Storing, Uncounted, Undone
<1>5. Sent' = Sent /\ Read' = Read + 1 /\ qfifo[tail].id \in Nat
  BY <1>1, <1>2 DEF SoftInv, SoftTypes, Sent, Read, Entries
<1>6. Slot(Read + 1) = tail /\ tail' = (Read + 1) % Depth /\ tail' \in Slots
  <2>1. tail = Read % Depth
    BY DEF SoftInv, SoftRing
  <2>2. Step(Read % Depth) = (Read + 1) % Depth /\ Slot(Read + 1) = Read % Depth
    BY <1>0, SlotStep
  <2>3. Read + 1 \in Nat
    BY <1>0
  <2>4. (Read + 1) % Depth \in Slots
    BY <2>3, SlotStep
  <2> QED BY <1>1, <2>1, <2>2, <2>4
<1>7. Read < Sent
  <2>1. SUFFICES ASSUME Sent = Read PROVE FALSE
    BY <1>0 DEF SoftInv, SoftRing
  <2>2. Read + 1 \in Nat /\ Sent < Read + 1 /\ Read + 1 <= Read + Depth
    BY <1>0, <2>1
  <2> QED BY <1>2, <1>6, <2>2 DEF SoftInv, SoftEntries
<1>8. SoftTypes'
  <2>1. qfifo' \in [Slots -> Entries]
    BY <1>2 DEF SoftInv, SoftTypes, Entries
  <2> QED BY <1>1, <1>5, <1>6, <2>1 DEF SoftInv, SoftTypes
<1>9. SoftLocks'
  <2>1. \A u \in Receivers : ctl'[u] \in {"take", "done"} <=> ctl[u] \in {"take", "done"}
    BY <1>1 DEF SoftInv, SoftTypes, Ends
  <2> QED BY <1>1, <1>4, <2>1 DEF SoftInv, SoftLocks
<1>10. SoftRing'
  BY <1>0, <1>1, <1>4, <1>5, <1>6, <1>7 DEF SoftInv, SoftRing
<1>11. \A k \in Nat : Read + 1 < k /\ k <= Read + Depth =>
                        Slot(k) # tail /\ Slot(k) \in Slots
  <2> SUFFICES ASSUME NEW k \in Nat, Read + 1 < k, k <= Read + Depth
               PROVE  Slot(k) # Slot(Read + 1) /\ Slot(k) \in Slots
    BY <1>6
  <2>1. k \in Nat \ {0} /\ Read + 1 \in Nat \ {0} /\ k < (Read + 1) + Depth
        /\ Read + 1 < k + Depth
    BY <1>0
  <2> QED BY <2>1, SlotsApart
<1>12. \A i \in Slots : i # tail => qfifo'[i] = qfifo[i]
  BY <1>2 DEF SoftInv, SoftTypes
<1>13. ~qfifo'[tail].used /\ ~qfifo'[tail].complete
  BY <1>2 DEF SoftInv, SoftTypes
<1>14. SoftEntries'
  <2>1. \A i \in Slots : qfifo'[i].used = qfifo'[i].complete
    <3> SUFFICES ASSUME NEW i \in Slots PROVE qfifo'[i].used = qfifo'[i].complete
      OBVIOUS
    <3>1. CASE i = tail
      BY <1>2, <3>1 DEF SoftInv, SoftTypes
    <3>2. CASE i # tail
      BY <1>12, <3>2 DEF SoftInv, SoftEntries
    <3> QED BY <3>1, <3>2
  <2>2. \A k \in Nat : Read + 1 < k /\ k <= Sent => qfifo'[Slot(k)].used
    BY <1>0, <1>11, <1>12 DEF SoftInv, SoftEntries, SoftRing
  <2>3. \A k \in Nat : Sent < k /\ k <= Read + 1 + Depth => ~qfifo'[Slot(k)].used
    <3> SUFFICES ASSUME NEW k \in Nat, Sent < k, k <= Read + 1 + Depth
                 PROVE  ~qfifo'[Slot(k)].used
      OBVIOUS
    <3>1. CASE k = Read + 1 + Depth
      <4>1. Slot(k) = (Read + Depth) % Depth
        BY <1>0, <3>1 DEF Slot
      <4>2. (Read + Depth) % Depth = Read % Depth
        BY <1>0, NextTurn
      <4>3. Read % Depth = tail
        BY DEF SoftInv, SoftRing
      <4> QED BY <1>13, <4>1, <4>2, <4>3
    <3>2. CASE k <= Read + Depth
      <4>1. Slot(k) # tail /\ Slot(k) \in Slots
        BY <1>0, <1>7, <1>11, <3>2
      <4>2. ~qfifo[Slot(k)].used
        BY <3>2 DEF SoftInv, SoftEntries
      <4> QED BY <1>12, <4>1, <4>2
    <3> QED BY <1>0, <3>1, <3>2
  <2>4. \A k \in Nat : Read + 1 < k /\ k <= Sent =>
           (k = Sent /\ Storing) \/ qfifo'[Slot(k)].id = posted[k]
    BY <1>0, <1>11, <1>12 DEF SoftInv, SoftEntries, SoftRing
  <2> QED BY <1>1, <1>4, <1>5, <2>1, <2>2, <2>3, <2>4 DEF SoftEntries, Slot
<1>15. SoftCount'
  <2>1. Sent' - Read' - Uncounted' + Undone' = Sent - Read - Uncounted + Undone
    BY <1>0, <1>4, <1>5
  <2> QED BY <1>1, <2>1 DEF SoftInv, SoftCount
<1>16. SoftTag'
  BY <1>1, <1>4, <1>5 DEF SoftInv, SoftTag
<1>17. TagIntact'
  <2>1. DOMAIN answers' = 1 .. Read + 1 /\ DOMAIN answers = 1 .. Read
    BY <1>0, <1>1, <1>5 DEF SoftInv, SoftTypes, Read
  <2>2. /\ \A i \in 1 .. Read : answers'[i] = answers[i]
        /\ answers'[Read + 1] = qfifo[tail].id
    BY <1>0, <1>1 DEF SoftInv, SoftTypes, Read
  <2>3. Read + 1 \notin early' => qfifo[tail].id = posted[Read + 1]
    <3>1. CASE Storing /\ Sent = Read + 1
      <4>1. Uncounted = 1
        BY <3>1 DEF Storing, Uncounted
      <4>2. run_num = 0
        BY <1>0, <1>4, <3>1, <4>1 DEF SoftInv, SoftCount
      <4> QED BY <1>1, <4>2
    <3>2. CASE ~(Storing /\ Sent = Read + 1)
      BY <1>0, <1>6, <1>7, <3>2 DEF SoftInv, SoftEntries
    <3> QED BY <3>1, <3>2
  <2>4. \A i \in 1 .. Read : i \notin early' => answers[i] = posted[i]
    BY <1>1, <2>1 DEF SoftInv, TagIntact
  <2>5. \A i \in 1 .. Read + 1 : i \notin early' => answers'[i] = posted[i]
    BY <1>0, <2>2, <2>3, <2>4
  <2> QED BY <1>1, <2>1, <2>5 DEF TagIntact
<1> QED BY <1>8, <1>9, <1>10, <1>14, <1>15, <1>16, <1>17 DEF SoftInv

\* One step of a soft queue.
LEMMA SoftStep == SoftInv /\ [SNext]_softVars => SoftInv'
<1> SUFFICES ASSUME SoftInv, [SNext]_softVars PROVE SoftInv'
  OBVIOUS
<1>1. CASE UNCHANGED softVars
  BY ZenonT(60), <1>1 DEF softVars, SoftInv, SoftTypes, SoftLocks, SoftRing, SoftEntries, SoftCount,
              SoftTag, TagIntact, Sent, Read, Slot, Storing, Uncounted, Undone
<1>2. CASE AllRead
  BY <1>1, <1>2 DEF AllRead
<1>3. ASSUME NEW s \in Posters, SendCompute(s) \/ SendRefused(s) \/ SendNext(s)
      PROVE  SoftInv'
  BY <1>3, SenderQuiet, SendMarks, SendStores, SendCounts DEF SendNext
<1>4. ASSUME NEW r \in Receivers, RecvNext(r)
      PROVE  SoftInv'
  BY <1>4, ReceiverQuiet, RecvTakes, RecvCounts DEF RecvNext
<1> QED BY <1>1, <1>2, <1>3, <1>4 DEF SNext

\* However senders and receivers of a soft queue interleave, and wherever the
\* counter stands, a counted entry is read with its own tag, in the order of
\* the posts, and run_num is the number of entries when nobody is inside
\* (wd_get_sqe_from_queue, wd_put_sqe_to_queue).
THEOREM SoftQueueExact == SSpec => []SoftExact
<1>1. SoftInv => SoftExact
  <2> SUFFICES ASSUME SoftInv, slock = Unheld, rlock = Unheld
               PROVE  run_num = Len(posted) - Len(answers)
    BY DEF SoftInv, SoftExact, CounterSettles
  <2>1. Sent \in Nat /\ Read \in Nat
    BY SoftLens DEF SoftInv
  <2>2. Uncounted = 0 /\ Undone = 0
    BY SoftAssumption DEF SoftInv, SoftLocks, Uncounted, Undone
  <2>3. run_num = Sent - Read
    BY <2>1, <2>2 DEF SoftInv, SoftCount, SoftRing
  <2> QED BY <2>3 DEF Sent, Read
<1> QED BY <1>1, SoftStart, SoftStep, PTL DEF SSpec

-----------------------------------------------------------------------------
(***************************************************************************)
(* HashJobs: rows of jobs, the lists and the pollers' hands.  No job is in *)
(* two places, exactly the live ones are in one, and what a job still owes *)
(* is told by the row it is in.                                            *)
(***************************************************************************)
Items(s) == {s[i] : i \in DOMAIN s}
NoDup(s) == \A i, k \in DOMAIN s : s[i] = s[k] => i = k

JobRecords == [state : {"none", "live", "freed"}, alg : Algs, len : Nat, pad : Nat,
               opad : BOOLEAN, hashed : Nat, need : Nat]
Hands == [pc : {"idle", "find", "requeue", "pick", "get", "give"}, n : Nat, q : Algs,
          vec : Seq(Jobs), min : Nat]

ListTypes ==
  /\ list \in [Lists -> [head : Jobs \cup {Nil}, tail : Jobs \cup {Nil}, num : Nat]]
  /\ next \in [Jobs -> Jobs \cup {Nil}]
HashTypes ==
  /\ ListTypes
  /\ job \in [Jobs -> JobRecords]
  /\ at \in [Readers -> Hands]

\* Every list leads from its head to its tail.
HashLists == \A l \in Lists :
  /\ OnList(l) \in Trails(list[l].head, list[l].num, next)
  /\ list[l].num > 0 => OnList(l)[list[l].num] = list[l].tail

HashHands == \A p \in Readers :
  /\ at[p].pc \in {"idle", "find", "pick"} => at[p].vec = << >>
  /\ at[p].pc = "requeue" => \E j \in Jobs : at[p].vec = <<j>>
  /\ at[p].pc = "give" => at[p].vec # << >>

HashRows ==
  /\ \A h \in Holders : NoDup(Row(h))
  /\ \A h, g \in Holders : h # g => Items(Row(h)) \cap Items(Row(g)) = {}
HashLive == \A j \in Jobs :
  job[j].state = "live" <=> \E h \in Holders : j \in Items(Row(h))

\* The blocks of job r that are not hashed, and of those the ones that are
\* still to be hashed once `min' of them were.
Outer(r) == IF r.opad THEN 1 ELSE 0
Whole(r) == r.hashed + r.len + r.pad + Outer(r) = r.need
Given(r, min) == min <= r.len /\ r.hashed + (r.len - min) + r.pad + Outer(r) = r.need
Inner(r) == r.hashed + Outer(r) = r.need

HashOwes ==
  /\ \A a \in Algs : \A j \in Items(Row(a)) : Whole(job[j])
  /\ \A j \in Items(Row("recv")) : Inner(job[j])
  /\ \A p \in Readers : \A j \in Items(Row(p)) :
        IF at[p].pc = "give" THEN Given(job[j], at[p].min) ELSE Whole(job[j])
  /\ \A j \in Jobs : job[j].state \in {"none", "freed"} => job[j].hashed = job[j].need

HashInv == HashTypes /\ HashLists /\ HashHands /\ HashRows /\ HashLive /\ HashOwes

\* The first, the last and the rest of a row without repetitions.
LEMMA RowTail ==
  ASSUME NEW s \in Seq(Jobs), s # << >>, NoDup(s)
  PROVE  /\ Tail(s) \in Seq(Jobs) /\ NoDup(Tail(s)) /\ Head(s) \in Jobs
         /\ Head(s) \in Items(s)
         /\ Items(Tail(s)) = Items(s) \ {Head(s)}
<1>1. /\ Len(s) \in Nat /\ Len(s) > 0 /\ Head(s) = s[1] /\ DOMAIN s = 1 .. Len(s)
      /\ Tail(s) \in Seq(Jobs) /\ Len(Tail(s)) = Len(s) - 1
      /\ DOMAIN Tail(s) = 1 .. Len(s) - 1
      /\ \A i \in 1 .. Len(s) - 1 : Tail(s)[i] = s[i + 1]
      /\ s[1] \in Jobs
  OBVIOUS
<1> DEFINE n == Len(s)
           r == Tail(s)
<1>2. n \in Nat /\ n > 0 /\ DOMAIN s = 1 .. n /\ DOMAIN r = 1 .. n - 1
      /\ \A i \in 1 .. n - 1 : r[i] = s[i + 1]
  BY <1>1
<1> HIDE DEF n, r
<1>3. NoDup(r)
  BY <1>2 DEF NoDup
<1>4. s[1] \in Items(s)
  BY <1>2 DEF Items
<1>5. Items(r) \subseteq Items(s) \ {s[1]}
  <2> SUFFICES ASSUME NEW i \in 1 .. n - 1 PROVE s[i + 1] \in Items(s) /\ s[i + 1] # s[1]
    BY <1>2 DEF Items
  <2>1. i + 1 \in 1 .. n /\ 1 \in 1 .. n /\ i + 1 # 1
    BY <1>2
  <2> QED BY <1>2, <2>1 DEF Items, NoDup
<1>6. Items(s) \ {s[1]} \subseteq Items(r)
  <2> SUFFICES ASSUME NEW x \in Items(s), x # s[1] PROVE x \in Items(r)
    OBVIOUS
  <2>1. PICK k \in 1 .. n : x = s[k]
    BY <1>2 DEF Items
  <2>2. k - 1 \in 1 .. n - 1 /\ (k - 1) + 1 = k
    BY <1>2, <2>1
  <2>3. r[k - 1] = x /\ k - 1 \in DOMAIN r
    BY <1>2, <2>1, <2>2
  <2> QED BY <2>3 DEF Items
<1> QED BY <1>1, <1>3, <1>4, <1>5, <1>6 DEF r

LEMMA RowAppend ==
  ASSUME NEW s \in Seq(Jobs), NoDup(s), NEW j \in Jobs, j \notin Items(s)
  PROVE  /\ Append(s, j) \in Seq(Jobs) /\ NoDup(Append(s, j))
         /\ Items(Append(s, j)) = Items(s) \cup {j}
<1> DEFINE n == Len(s)
           r == Append(s, j)
<1>1. /\ n \in Nat /\ DOMAIN s = 1 .. n /\ r \in Seq(Jobs) /\ DOMAIN r = 1 .. n + 1
      /\ (\A i \in 1 .. n : r[i] = s[i]) /\ r[n + 1] = j
  OBVIOUS
<1> HIDE DEF n, r
<1>2. \A i \in 1 .. n + 1 : i \in 1 .. n \/ i = n + 1
  BY <1>1
<1>3. \A i \in 1 .. n : s[i] # j /\ i # n + 1
  BY <1>1 DEF Items
<1>4. n + 1 \in 1 .. n + 1 /\ \A i \in 1 .. n : i \in 1 .. n + 1
  BY <1>1
<1>5. NoDup(r)
  BY <1>1, <1>2, <1>3, <1>4 DEF NoDup
<1>6. Items(r) \subseteq Items(s) \cup {j}
  BY <1>1, <1>2 DEF Items
<1>7. Items(s) \cup {j} \subseteq Items(r)
  BY <1>1, <1>4 DEF Items
<1> QED BY <1>1, <1>5, <1>6, <1>7 DEF r

LEMMA RowPush ==
  ASSUME NEW s \in Seq(Jobs), NoDup(s), NEW j \in Jobs, j \notin Items(s)
  PROVE  /\ <<j>> \o s \in Seq(Jobs) /\ NoDup(<<j>> \o s)
         /\ Items(<<j>> \o s) = Items(s) \cup {j}
<1> DEFINE n == Len(s)
           r == <<j>> \o s
<1>1. /\ n \in Nat /\ DOMAIN s = 1 .. n /\ r \in Seq(Jobs) /\ DOMAIN r = 1 .. n + 1
      /\ (\A i \in 2 .. n + 1 : r[i] = s[i - 1]) /\ r[1] = j
  OBVIOUS
<1> HIDE DEF n, r
<1>2. \A i \in 1 .. n + 1 : i = 1 \/ (i \in 2 .. n + 1 /\ i - 1 \in 1 .. n)
  BY <1>1
<1>3. \A i \in 1 .. n : s[i] # j
  BY <1>1 DEF Items
<1>4. 1 \in 1 .. n + 1 /\ \A i \in 1 .. n : i + 1 \in 2 .. n + 1 /\ (i + 1) - 1 = i
  BY <1>1
<1>5. NoDup(r)
  <2> SUFFICES ASSUME NEW i \in 1 .. n + 1, NEW k \in 1 .. n + 1, r[i] = r[k] PROVE i = k
    BY <1>1 DEF NoDup
  <2>1. CASE i = 1 /\ k # 1
    <3>1. r[k] = s[k - 1] /\ k - 1 \in 1 .. n
      BY <1>1, <1>2, <2>1
    <3> QED BY <1>1, <1>3, <2>1, <3>1
  <2>2. CASE i # 1 /\ k = 1
    <3>1. r[i] = s[i - 1] /\ i - 1 \in 1 .. n
      BY <1>1, <1>2, <2>2
    <3> QED BY <1>1, <1>3, <2>2, <3>1
  <2>3. CASE i # 1 /\ k # 1
    <3>1. /\ r[i] = s[i - 1] /\ i - 1 \in 1 .. n
          /\ r[k] = s[k - 1] /\ k - 1 \in 1 .. n
      BY <1>1, <1>2, <2>3
    <3>2. i - 1 = k - 1
      BY <1>1, <3>1 DEF NoDup
    <3> QED BY <3>2
  <2> QED BY <2>1, <2>2, <2>3
<1>6. Items(r) \subseteq Items(s) \cup {j}
  <2> SUFFICES ASSUME NEW x \in Items(r), x # j PROVE x \in Items(s)
    OBVIOUS
  <2>1. PICK i \in 1 .. n + 1 : x = r[i]
    BY <1>1 DEF Items
  <2>2. i - 1 \in DOMAIN s /\ x = s[i - 1]
    BY <1>1, <1>2, <2>1
  <2> QED BY <2>2 DEF Items
<1>7. Items(s) \cup {j} \subseteq Items(r)
  <2>1. j \in Items(r)
    BY <1>1, <1>4 DEF Items
  <2>2. \A i \in 1 .. n : i + 1 \in DOMAIN r /\ r[i + 1] = s[i]
    BY <1>1, <1>4
  <2>3. Items(s) \subseteq Items(r)
    <3> SUFFICES ASSUME NEW x \in Items(s) PROVE x \in Items(r)
      OBVIOUS
    <3>1. PICK i \in 1 .. n : x = s[i]
      BY <1>1 DEF Items
    <3>2. i + 1 \in DOMAIN r /\ x = r[i + 1]
      BY <2>2, <3>1
    <3> QED BY <3>2 DEF Items
  <2> QED BY <2>1, <2>3
<1> QED BY <1>1, <1>5, <1>6, <1>7 DEF r

\* A list leads one way.
LEMMA OneTrail ==
  ASSUME NEW n \in Nat, NEW a, NEW f, NEW c \in Trails(a, n, f)
  PROVE  (CHOOSE d \in Trails(a, n, f) : TRUE) = c
<1> DEFINE d == CHOOSE x \in Trails(a, n, f) : TRUE
<1>1. d \in Trails(a, n, f)
  OBVIOUS
<1> HIDE DEF d
<1>2. /\ c \in [1 .. n -> Jobs] /\ (n > 0 => c[1] = a)
      /\ \A i \in 1 .. n - 1 : c[i + 1] = f[c[i]]
  BY DEF Trails
<1>3. /\ d \in [1 .. n -> Jobs] /\ (n > 0 => d[1] = a)
      /\ \A i \in 1 .. n - 1 : d[i + 1] = f[d[i]]
  BY <1>1 DEF Trails
<1> DEFINE T == {i \in 1 .. n : c[i] # d[i]}
<1>4. T = {}
  <2> SUFFICES ASSUME T # {} PROVE FALSE
    OBVIOUS
  <2>1. T \in SUBSET Nat
    OBVIOUS
  <2>2. PICK x \in T : \A y \in T : x <= y
    <3> HIDE DEF T
    <3> QED BY <2>1, LeastNat
  <2>3. x \in 1 .. n /\ c[x] # d[x]
    BY <2>2
  <2>4. x # 1
    BY <1>2, <1>3, <2>3
  <2>5. x - 1 \in 1 .. n - 1 /\ x - 1 \in 1 .. n /\ (x - 1) + 1 = x /\ ~(x <= x - 1)
    BY <2>3, <2>4
  <2>6. x - 1 \notin T
    BY <2>2, <2>5
  <2>7. c[x - 1] = d[x - 1]
    BY <2>5, <2>6
  <2>8. c[x] = f[c[x - 1]] /\ d[x] = f[d[x - 1]]
    BY <1>2, <1>3, <2>5
  <2> QED BY <2>3, <2>7, <2>8
<1>5. \A i \in 1 .. n : c[i] = d[i]
  BY <1>4
<1>6. c = d
  BY <1>2, <1>3, <1>5
<1> QED BY <1>6 DEF d

\* A trail is a sequence of jobs.
LEMMA TrailSeq ==
  ASSUME NEW n \in Nat, NEW a, NEW f, NEW c \in Trails(a, n, f)
  PROVE  c \in Seq(Jobs) /\ Len(c) = n /\ DOMAIN c = 1 .. n /\ (n > 0 => c[1] = a)
         /\ (n > 0 => c # << >>)
<1>1. c \in [1 .. n -> Jobs] /\ (n > 0 => c[1] = a)
  BY DEF Trails
<1>2. c \in Seq(Jobs) /\ Len(c) = n
  BY <1>1, SeqDef
<1> QED BY <1>1, <1>2

\* Links of other jobs.
LEMMA TrailOther ==
  ASSUME NEW n \in Nat, NEW a, NEW f, NEW g, NEW c \in Trails(a, n, f),
         \A i \in 1 .. n : g[c[i]] = f[c[i]]
  PROVE  c \in Trails(a, n, g)
<1>1. \A i \in 1 .. n - 1 : i \in 1 .. n
  OBVIOUS
<1> QED BY <1>1 DEF Trails

LEMMA TrailAppend ==
  ASSUME NEW n \in Nat, n > 0, NEW a, NEW f \in [Jobs -> Jobs \cup {Nil}],
         NEW c \in Trails(a, n, f), NoDup(c), NEW j \in Jobs, j \notin Items(c)
  PROVE  Append(c, j) \in Trails(a, n + 1, [f EXCEPT ![c[n]] = j])
<1> DEFINE r == Append(c, j)
           g == [f EXCEPT ![c[n]] = j]
<1>1. c \in Seq(Jobs) /\ Len(c) = n /\ DOMAIN c = 1 .. n /\ c[1] = a
  BY TrailSeq
<1>2. r \in [1 .. n + 1 -> Jobs] /\ (\A i \in 1 .. n : r[i] = c[i]) /\ r[n + 1] = j
  <2>1. r \in Seq(Jobs) /\ Len(r) = n + 1 /\ (\A i \in 1 .. n : r[i] = c[i]) /\ r[n + 1] = j
    BY <1>1
  <2> HIDE DEF r
  <2> QED BY <2>1, LenProperties
<1>3. c[n] \in Jobs /\ g[c[n]] = j
  BY <1>1
<1>4. \A i \in 1 .. n - 1 : c[i] \in Jobs /\ c[i] # c[n] /\ i \in 1 .. n /\ i + 1 \in 1 .. n
  BY <1>1 DEF NoDup
<1>5. \A i \in 1 .. n - 1 : g[c[i]] = f[c[i]]
  BY <1>4
<1>6. \A i \in 1 .. n - 1 : c[i + 1] = f[c[i]]
  BY DEF Trails
<1> HIDE DEF r, g
<1>7. \A i \in 1 .. n : r[i + 1] = g[r[i]]
  <2> SUFFICES ASSUME NEW i \in 1 .. n PROVE r[i + 1] = g[r[i]]
    OBVIOUS
  <2>1. CASE i = n
    BY <1>2, <1>3, <2>1
  <2>2. CASE i # n
    <3>1. i \in 1 .. n - 1
      BY <2>2
    <3> QED BY <1>2, <1>4, <1>5, <1>6, <3>1
  <2> QED BY <2>1, <2>2
<1>8. (n + 1) - 1 = n /\ 1 \in 1 .. n
  OBVIOUS
<1>9. r[1] = a
  BY <1>1, <1>2, <1>8
<1>10. r \in Trails(a, n + 1, g)
  BY <1>2, <1>7, <1>8, <1>9 DEF Trails
<1> QED BY <1>10 DEF r, g

LEMMA TrailPush ==
  ASSUME NEW n \in Nat, n > 0, NEW a, NEW f \in [Jobs -> Jobs \cup {Nil}],
         NEW c \in Trails(a, n, f), NEW j \in Jobs, j \notin Items(c)
  PROVE  <<j>> \o c \in Trails(j, n + 1, [f EXCEPT ![j] = a])
<1> DEFINE r == <<j>> \o c
           g == [f EXCEPT ![j] = a]
<1>1. c \in Seq(Jobs) /\ Len(c) = n /\ DOMAIN c = 1 .. n /\ c[1] = a
  BY TrailSeq
<1>2. r \in [1 .. n + 1 -> Jobs] /\ (\A i \in 1 .. n : r[i + 1] = c[i]) /\ r[1] = j
  <2>1. r \in Seq(Jobs) /\ Len(r) = n + 1 /\ r[1] = j
    BY <1>1
  <2>2. \A i \in 1 .. n : r[i + 1] = c[i]
    BY <1>1
  <2> HIDE DEF r
  <2> QED BY <2>1, <2>2, LenProperties
<1>3. g[j] = a /\ \A i \in 1 .. n : c[i] \in Jobs /\ c[i] # j /\ g[c[i]] = f[c[i]]
  BY <1>1 DEF Items
<1>6. \A i \in 1 .. n - 1 : c[i + 1] = f[c[i]]
  BY DEF Trails
<1> HIDE DEF r, g
<1>7. \A i \in 1 .. n : r[i + 1] = g[r[i]]
  <2> SUFFICES ASSUME NEW i \in 1 .. n PROVE r[i + 1] = g[r[i]]
    OBVIOUS
  <2>1. CASE i = 1
    BY <1>1, <1>2, <1>3, <2>1
  <2>2. CASE i # 1
    <3> DEFINE k == i - 1
    <3>1. k \in 1 .. n - 1 /\ k \in 1 .. n /\ k + 1 = i
      BY <2>2
    <3> HIDE DEF k
    <3>2. r[i + 1] = c[i] /\ r[i] = c[k]
      BY <1>2, <3>1
    <3>3. c[i] = f[c[k]] /\ g[c[k]] = f[c[k]]
      BY <1>3, <1>6, <3>1
    <3> QED BY <3>2, <3>3
  <2> QED BY <2>1, <2>2
<1>8. (n + 1) - 1 = n
  OBVIOUS
<1>10. r \in Trails(j, n + 1, g)
  BY <1>2, <1>7, <1>8 DEF Trails
<1> QED BY <1>10 DEF r, g

LEMMA TrailTail ==
  ASSUME NEW n \in Nat, n > 0, NEW a, NEW f, NEW c \in Trails(a, n, f)
  PROVE  Tail(c) \in Trails(f[a], n - 1, f) /\ (n > 1 => Tail(c)[n - 1] = c[n])
<1> DEFINE r == Tail(c)
<1>1. c \in Seq(Jobs) /\ Len(c) = n /\ DOMAIN c = 1 .. n /\ c[1] = a
  BY TrailSeq
<1>2. r \in [1 .. n - 1 -> Jobs] /\ (\A i \in 1 .. n - 1 : r[i] = c[i + 1])
  <2>1. r \in Seq(Jobs) /\ Len(r) = n - 1 /\ (\A i \in 1 .. n - 1 : r[i] = c[i + 1])
    BY <1>1
  <2> HIDE DEF r
  <2> QED BY <2>1, LenProperties
<1>6. \A i \in 1 .. n - 1 : c[i + 1] = f[c[i]]
  BY DEF Trails
<1> HIDE DEF r
<1>7. \A i \in 1 .. n - 2 : r[i + 1] = f[r[i]]
  <2> SUFFICES ASSUME NEW i \in 1 .. n - 2 PROVE r[i + 1] = f[r[i]]
    OBVIOUS
  <2>1. i \in 1 .. n - 1 /\ i + 1 \in 1 .. n - 1
    OBVIOUS
  <2> QED BY <1>2, <1>6, <2>1
<1>8. (n - 1) - 1 = n - 2 /\ n - 1 \in Nat /\ (n - 1 > 0 => 1 \in 1 .. n - 1)
  OBVIOUS
<1>9. n - 1 > 0 => r[1] = f[a]
  BY <1>1, <1>2, <1>6, <1>8
<1>10. r \in Trails(f[a], n - 1, f)
  BY <1>2, <1>7, <1>8, <1>9 DEF Trails
<1>11. n > 1 => n - 1 \in 1 .. n - 1 /\ (n - 1) + 1 = n
  OBVIOUS
<1>12. n > 1 => r[n - 1] = c[n]
  BY <1>2, <1>11
<1> QED BY <1>10, <1>12 DEF r

LEMMA TrailOne ==
  ASSUME NEW j \in Jobs, NEW f
  PROVE  <<j>> \in Trails(j, 1, f)
<1>1. <<j>> \in [1 .. 1 -> Jobs] /\ <<j>>[1] = j
  OBVIOUS
<1>2. \A i \in 1 .. 1 - 1 : FALSE
  OBVIOUS
<1>3. <<j>> \in Trails(j, 1, f)
  BY <1>1, <1>2 DEF Trails
<1> QED BY <1>3

LEMMA TrailNone ==
  ASSUME NEW a, NEW f
  PROVE  Trails(a, 0, f) = {<< >>}
<1>1. << >> \in [1 .. 0 -> Jobs] /\ \A c \in [1 .. 0 -> Jobs] : c = << >>
  OBVIOUS
<1>2. \A i \in 1 .. 0 - 1 : FALSE
  OBVIOUS
<1>3. Trails(a, 0, f) = {<< >>}
  <2>1. << >> \in Trails(a, 0, f)
    BY <1>1, <1>2 DEF Trails
  <2>2. \A c \in Trails(a, 0, f) : c = << >>
    BY <1>1 DEF Trails
  <2> QED BY <2>1, <2>2
<1> QED BY <1>3

\* The row of a list, and what an operation on list l does to the rows.
LEMMA ListRow ==
  ASSUME ListTypes, HashLists, NEW l \in Lists
  PROVE  /\ Row(l) = OnList(l) /\ Row(l) \in Seq(Jobs) /\ list[l].num \in Nat
         /\ Row(l) \in Trails(list[l].head, list[l].num, next)
         /\ Len(Row(l)) = list[l].num /\ DOMAIN Row(l) = 1 .. list[l].num
         /\ list[l].num > 0 => /\ Row(l) # << >> /\ Row(l)[1] = list[l].head
                               /\ Row(l)[list[l].num] = list[l].tail
<1>1. Row(l) = OnList(l)
  BY DEF Row
<1>2. list[l].num \in Nat
  BY DEF ListTypes
<1>3. OnList(l) \in Trails(list[l].head, list[l].num, next)
  BY DEF HashLists
<1> DEFINE c == OnList(l)
           n == list[l].num
           a == list[l].head
<1>4. n \in Nat /\ c \in Trails(a, n, next)
  BY <1>2, <1>3
<1> HIDE DEF c, n, a
<1>5. c \in Seq(Jobs) /\ Len(c) = n /\ DOMAIN c = 1 .. n /\ (n > 0 => c[1] = a)
      /\ (n > 0 => c # << >>)
  BY <1>4, TrailSeq
<1>6. n > 0 => c[n] = list[l].tail
  BY DEF HashLists, c, n
<1> QED BY <1>1, <1>4, <1>5, <1>6 DEF c, n, a

LEMMA NewRow ==
  ASSUME NEW m \in Lists, NEW c, list'[m].num \in Nat,
         c \in Trails(list'[m].head, list'[m].num, next')
  PROVE  Row(m)' = c /\ OnList(m)' = c
<1> DEFINE n == list'[m].num
           a == list'[m].head
<1>1. (CHOOSE d \in Trails(a, n, next') : TRUE) = c
  <2>1. n \in Nat /\ c \in Trails(a, n, next')
    OBVIOUS
  <2> HIDE DEF n, a
  <2> QED BY <2>1, OneTrail
<1>2. OnList(m)' = c
  BY <1>1 DEF OnList
<1> QED BY <1>2 DEF Row

LEMMA OtherRow ==
  ASSUME ListTypes, HashLists, NEW m \in Lists, list'[m] = list[m],
         \A x \in Items(Row(m)) : next'[x] = next[x]
  PROVE  /\ Row(m)' = Row(m) /\ OnList(m)' = Row(m)
         /\ Row(m) \in Trails(list'[m].head, list'[m].num, next')
<1> DEFINE c == Row(m)
           n == list[m].num
           a == list[m].head
<1>1. n \in Nat /\ c \in Trails(a, n, next) /\ DOMAIN c = 1 .. n
  BY ListRow
<1>2. \A i \in 1 .. n : next'[c[i]] = next[c[i]]
  BY <1>1 DEF Items
<1> HIDE DEF c, n, a
<1>3. c \in Trails(a, n, next')
  BY <1>1, <1>2, TrailOther
<1>4. list'[m].head = a /\ list'[m].num = n
  BY DEF a, n
<1>5. Row(m)' = c /\ OnList(m)' = c
  BY <1>1, <1>3, <1>4, NewRow
<1> QED BY <1>3, <1>4, <1>5 DEF c

\* Job j comes to list l, or leaves it; the other lists stay.
Gains(l, j) == /\ ListTypes' /\ HashLists' /\ NoDup(Row(l)')
               /\ Items(Row(l)') = Items(Row(l)) \cup {j}
               /\ \A m \in Lists : m # l => Row(m)' = Row(m)
Loses(l, j) == /\ ListTypes' /\ HashLists' /\ NoDup(Row(l)')
               /\ j \in Jobs /\ j \in Items(Row(l))
               /\ Items(Row(l)') = Items(Row(l)) \ {j}
               /\ \A m \in Lists : m # l => Row(m)' = Row(m)

LEMMA ListsAfter ==
  ASSUME ListTypes, HashLists, NEW l \in Lists, NEW c,
         c \in Trails(list'[l].head, list'[l].num, next'),
         list'[l].num \in Nat,
         list'[l].num > 0 => c[list'[l].num] = list'[l].tail,
         \A m \in Lists : m # l => list'[m] = list[m],
         \A m \in Lists : m # l => \A x \in Items(Row(m)) : next'[x] = next[x]
  PROVE  /\ HashLists' /\ Row(l)' = c
         /\ \A m \in Lists : m # l => Row(m)' = Row(m)
<1>1. Row(l)' = c /\ OnList(l)' = c
  BY NewRow
<1>2. \A m \in Lists : m # l =>
        /\ Row(m)' = Row(m) /\ OnList(m)' = Row(m)
        /\ Row(m) \in Trails(list'[m].head, list'[m].num, next')
  BY OtherRow
<1>3. \A m \in Lists : m # l =>
        (list'[m].num > 0 => OnList(m)'[list'[m].num] = list'[m].tail)
  BY <1>2, ListRow
<1>4. \A m \in Lists :
        /\ OnList(m)' \in Trails(list'[m].head, list'[m].num, next')
        /\ list'[m].num > 0 => OnList(m)'[list'[m].num] = list'[m].tail
  <2> SUFFICES ASSUME NEW m \in Lists
               PROVE  /\ OnList(m)' \in Trails(list'[m].head, list'[m].num, next')
                      /\ list'[m].num > 0 => OnList(m)'[list'[m].num] = list'[m].tail
    OBVIOUS
  <2>1. CASE m = l
    BY <1>1, <2>1
  <2>2. CASE m # l
    BY <1>2, <1>3, <2>2
  <2> QED BY <2>1, <2>2
<1> QED BY <1>1, <1>2, <1>4 DEF HashLists

\* An empty list takes its first job.
LEMMA PutFirst ==
  ASSUME ListTypes, HashLists, NEW l \in Lists, NEW j \in Jobs, list[l].num = 0,
         list' = [list EXCEPT ![l] = [head |-> j, tail |-> j, num |-> 1]],
         next' = next
  PROVE  Gains(l, j)
<1>1. ListTypes'
  BY DEF ListTypes
<1>2. /\ list'[l].head = j /\ list'[l].tail = j /\ list'[l].num = 1
      /\ \A m \in Lists : m # l => list'[m] = list[m]
  BY DEF ListTypes
<1>3. <<j>> \in Trails(j, 1, next') /\ <<j>>[1] = j
  BY TrailOne
<1>4. HashLists' /\ Row(l)' = <<j>> /\ \A m \in Lists : m # l => Row(m)' = Row(m)
  BY <1>2, <1>3, ListsAfter
<1>5. Row(l) = << >>
  BY ListRow
<1>6. Items(<<j>>) = {j} /\ Items(<< >>) = {} /\ NoDup(<<j>>)
  BY DEF Items, NoDup
<1> QED BY <1>1, <1>4, <1>5, <1>6 DEF Gains

LEMMA PutTailGains ==
  ASSUME ListTypes, HashLists, HashRows, NEW l \in Lists, NEW j \in Jobs,
         \A m \in Lists : j \notin Items(Row(m)), PutTail(l, j)
  PROVE  Gains(l, j)
<1>1. CASE list[l].num > 0
  <2> DEFINE n == list[l].num
             c == Row(l)
             a == list[l].head
             t == list[l].tail
  <2>1. /\ n \in Nat /\ n > 0 /\ c \in Trails(a, n, next) /\ c \in Seq(Jobs)
        /\ Len(c) = n /\ DOMAIN c = 1 .. n /\ c[n] = t
    BY <1>1, ListRow
  <2>2. NoDup(c) /\ j \notin Items(c)
    BY DEF HashRows, Holders
  <2>3. next' = [next EXCEPT ![t] = j] /\ next \in [Jobs -> Jobs \cup {Nil}]
        /\ list' = [list EXCEPT ![l] = [head |-> a, tail |-> j, num |-> n + 1]]
    BY <1>1 DEF PutTail, ListTypes
  <2>4. a \in Jobs \cup {Nil}
    BY DEF ListTypes
  <2>5. \A m \in Lists : m # l => t \notin Items(Row(m))
    <3>1. t \in Items(c)
      BY <2>1 DEF Items
    <3> QED BY <3>1 DEF HashRows, Holders
  <2> HIDE DEF n, c, a, t
  <2>6. Append(c, j) \in Trails(a, n + 1, next')
    BY <2>1, <2>2, <2>3, TrailAppend
  <2>7. ListTypes'
    BY <2>1, <2>3, <2>4 DEF ListTypes
  <2>8. /\ list'[l].head = a /\ list'[l].tail = j /\ list'[l].num = n + 1
        /\ \A m \in Lists : m # l => list'[m] = list[m]
    BY <2>3 DEF ListTypes
  <2>9. \A m \in Lists : m # l => \A x \in Items(Row(m)) : next'[x] = next[x]
    <3> SUFFICES ASSUME NEW m \in Lists, m # l, NEW x \in Items(Row(m)) PROVE next'[x] = next[x]
      OBVIOUS
    <3>1. x # t
      BY <2>5
    <3>2. x \in Jobs
      <4>1. Row(m) \in Seq(Jobs)
        BY ListRow
      <4> QED BY <4>1 DEF Items
    <3> QED BY <2>3, <3>1, <3>2
  <2>10. n + 1 \in Nat /\ Append(c, j)[n + 1] = j
    BY <2>1
  <2>11. HashLists' /\ Row(l)' = Append(c, j) /\ \A m \in Lists : m # l => Row(m)' = Row(m)
    BY <2>6, <2>8, <2>9, <2>10, ListsAfter
  <2>12. NoDup(Append(c, j)) /\ Items(Append(c, j)) = Items(c) \cup {j}
    BY <2>1, <2>2, RowAppend
  <2> QED BY <2>7, <2>11, <2>12 DEF Gains, c
<1>2. CASE ~(list[l].num > 0)
  <2>1. list[l].num = 0
    BY <1>2 DEF ListTypes
  <2> QED BY <1>2, <2>1, PutFirst DEF PutTail
<1> QED BY <1>1, <1>2

LEMMA PutHeadGains ==
  ASSUME ListTypes, HashLists, HashRows, NEW l \in Lists, NEW j \in Jobs,
         \A m \in Lists : j \notin Items(Row(m)), PutHead(l, j)
  PROVE  Gains(l, j)
<1>1. CASE list[l].num > 0
  <2> DEFINE n == list[l].num
             c == Row(l)
             a == list[l].head
             t == list[l].tail
  <2>1. /\ n \in Nat /\ n > 0 /\ c \in Trails(a, n, next) /\ c \in Seq(Jobs)
        /\ Len(c) = n /\ DOMAIN c = 1 .. n /\ c[n] = t
    BY <1>1, ListRow
  <2>2. NoDup(c) /\ j \notin Items(c)
    BY DEF HashRows, Holders
  <2>3. next' = [next EXCEPT ![j] = a] /\ next \in [Jobs -> Jobs \cup {Nil}]
        /\ list' = [list EXCEPT ![l] = [head |-> j, tail |-> t, num |-> n + 1]]
    BY <1>1 DEF PutHead, ListTypes
  <2>4. a \in Jobs \cup {Nil} /\ t \in Jobs \cup {Nil}
    BY DEF ListTypes
  <2> HIDE DEF n, c, a, t
  <2>6. <<j>> \o c \in Trails(j, n + 1, next')
    BY <2>1, <2>2, <2>3, TrailPush
  <2>7. ListTypes'
    BY <2>1, <2>3, <2>4 DEF ListTypes
  <2>8. /\ list'[l].head = j /\ list'[l].tail = t /\ list'[l].num = n + 1
        /\ \A m \in Lists : m # l => list'[m] = list[m]
    BY <2>3 DEF ListTypes
  <2>9. \A m \in Lists : m # l => \A x \in Items(Row(m)) : next'[x] = next[x]
    <3> SUFFICES ASSUME NEW m \in Lists, m # l, NEW x \in Items(Row(m)) PROVE next'[x] = next[x]
      OBVIOUS
    <3>1. x # j
      OBVIOUS
    <3>2. x \in Jobs
      <4>1. Row(m) \in Seq(Jobs)
        BY ListRow
      <4> QED BY <4>1 DEF Items
    <3> QED BY <2>3, <3>1, <3>2
  <2>10. n + 1 \in Nat /\ (<<j>> \o c)[n + 1] = t
    BY <2>1
  <2>11. HashLists' /\ Row(l)' = <<j>> \o c /\ \A m \in Lists : m # l => Row(m)' = Row(m)
    BY <2>6, <2>8, <2>9, <2>10, ListsAfter
  <2>12. NoDup(<<j>> \o c) /\ Items(<<j>> \o c) = Items(c) \cup {j}
    BY <2>1, <2>2, RowPush
  <2> QED BY <2>7, <2>11, <2>12 DEF Gains, c
<1>2. CASE ~(list[l].num > 0)
  <2>1. list[l].num = 0
    BY <1>2 DEF ListTypes
  <2> QED BY <1>2, <2>1, PutFirst DEF PutHead
<1> QED BY <1>1, <1>2

LEMMA PopHeadLoses ==
  ASSUME ListTypes, HashLists, HashRows, NEW l \in Lists, list[l].num > 0, PopHead(l),
         next' = next
  PROVE  Loses(l, list[l].head)
<1> DEFINE n == list[l].num
           c == Row(l)
           a == list[l].head
           t == list[l].tail
<1>1. /\ n \in Nat /\ n > 0 /\ c \in Trails(a, n, next) /\ c \in Seq(Jobs) /\ c # << >>
      /\ Len(c) = n /\ DOMAIN c = 1 .. n /\ c[n] = t /\ c[1] = a
  BY ListRow
<1>2. NoDup(c)
  BY DEF HashRows, Holders
<1>3. next \in [Jobs -> Jobs \cup {Nil}] /\ t \in Jobs \cup {Nil}
      /\ list' = [list EXCEPT ![l] = [head |-> next[a], tail |-> t, num |-> n - 1]]
  BY DEF PopHead, ListTypes
<1> HIDE DEF n, c, a, t
<1>4. /\ Head(c) = a /\ a \in Jobs /\ a \in Items(c) /\ NoDup(Tail(c))
      /\ Items(Tail(c)) = Items(c) \ {a}
  <2>1. Head(c) = a
    BY <1>1
  <2> QED BY <1>1, <1>2, <2>1, RowTail
<1>5. Tail(c) \in Trails(next[a], n - 1, next) /\ (n > 1 => Tail(c)[n - 1] = c[n])
  BY <1>1, TrailTail
<1>6. ListTypes'
  BY <1>1, <1>3, <1>4 DEF ListTypes
<1>7. /\ list'[l].head = next[a] /\ list'[l].tail = t /\ list'[l].num = n - 1
      /\ \A m \in Lists : m # l => list'[m] = list[m]
  BY <1>3 DEF ListTypes
<1>8. n - 1 \in Nat /\ (n - 1 > 0 => n > 1)
  BY <1>1
<1>9. HashLists' /\ Row(l)' = Tail(c) /\ \A m \in Lists : m # l => Row(m)' = Row(m)
  BY <1>1, <1>5, <1>7, <1>8, ListsAfter
<1> QED BY <1>4, <1>6, <1>9 DEF Loses, c, a

\* A poller's row is what it holds.
LEMMA HandRow ==
  ASSUME NEW p \in Readers
  PROVE  Row(p) = at[p].vec /\ Row(p)' = at'[p].vec /\ p \in Holders /\ p \notin Lists
BY HashAssumption DEF Row, Holders

\* Job j moves to the rows `to', at most one; the others stay where they are.
LEMMA RowsAfter ==
  ASSUME HashRows, HashLive, NEW j \in Jobs, NEW to \in SUBSET Holders,
         to = {} \/ (\E g \in Holders : to = {g}),
         \A h \in Holders : NoDup(Row(h)'),
         \A h \in Holders : h \notin to => Items(Row(h)') = Items(Row(h)) \ {j},
         \A h \in to : Items(Row(h)') = (Items(Row(h)) \ {j}) \cup {j},
         \A k \in Jobs : k # j => job'[k].state = job[k].state,
         job'[j].state = "live" <=> to # {}
  PROVE  HashRows' /\ HashLive'
<1>1. \A h, g \in Holders : h # g => Items(Row(h)') \cap Items(Row(g)') = {}
  <2> SUFFICES ASSUME NEW h \in Holders, NEW g \in Holders, h # g,
                      NEW x \in Items(Row(h)'), x \in Items(Row(g)')
               PROVE  FALSE
    OBVIOUS
  <2>1. CASE x = j
    <3>1. h \in to /\ g \in to
      BY <2>1
    <3> QED BY <3>1
  <2>2. CASE x # j
    <3>1. x \in Items(Row(h)) /\ x \in Items(Row(g))
      BY <2>2
    <3> QED BY <3>1 DEF HashRows
  <2> QED BY <2>1, <2>2
<1>2. \A k \in Jobs : job'[k].state = "live" <=> \E h \in Holders : k \in Items(Row(h)')
  <2> SUFFICES ASSUME NEW k \in Jobs
               PROVE  job'[k].state = "live" <=> \E h \in Holders : k \in Items(Row(h)')
    OBVIOUS
  <2>1. CASE k = j
    BY <2>1
  <2>2. CASE k # j
    <3>1. \A h \in Holders : k \in Items(Row(h)') <=> k \in Items(Row(h))
      BY <2>2
    <3> QED BY <2>2, <3>1 DEF HashLive
  <2> QED BY <2>1, <2>2
<1>3. Holders' = Holders
  BY DEF Holders, Lists, Algs
<1>4. HashRows'
  BY <1>1 DEF HashRows
<1>5. HashLive'
  BY <1>2 DEF HashLive
<1> QED BY <1>4, <1>5

LEMMA RowsStay ==
  ASSUME HashRows, HashLive, \A h \in Holders : Row(h)' = Row(h),
         \A k \in Jobs : job'[k].state = job[k].state
  PROVE  HashRows' /\ HashLive'
BY DEF HashRows, HashLive

\* With the lists as they are their rows are the same.
LEMMA ListsStay ==
  ASSUME ListTypes, HashLists, UNCHANGED <<list, next>>
  PROVE  ListTypes' /\ HashLists' /\ \A l \in Lists : Row(l)' = Row(l)
<1>1. \A l \in Lists : OnList(l)' = OnList(l)
  BY DEF OnList
<1>2. \A l \in Lists : Row(l)' = Row(l)
  BY <1>1 DEF Row
<1>3. HashLists'
  BY <1>1 DEF HashLists
<1>4. ListTypes'
  BY DEF ListTypes
<1> QED BY <1>2, <1>3, <1>4

\* The pollers' records, two fields at a time.
LEMMA HandN ==
  ASSUME NEW e \in Hands, NEW x, NEW n \in Nat
  PROVE  [e EXCEPT !.pc = x, !.n = n] = [pc |-> x, n |-> n, q |-> e.q, vec |-> e.vec, min |-> e.min]
<1> DEFINE f == [e EXCEPT !.pc = x]
<1>1. f = [pc |-> x, n |-> e.n, q |-> e.q, vec |-> e.vec, min |-> e.min]
  BY DEF Hands
<1> HIDE DEF f
<1>2. [f EXCEPT !.n = n] = [pc |-> x, n |-> n, q |-> e.q, vec |-> e.vec, min |-> e.min]
  BY <1>1
<1> QED BY <1>2 DEF f

LEMMA HandVec ==
  ASSUME NEW e \in Hands, NEW x, NEW v \in Seq(Jobs)
  PROVE  [e EXCEPT !.pc = x, !.vec = v] = [pc |-> x, n |-> e.n, q |-> e.q, vec |-> v, min |-> e.min]
<1> DEFINE f == [e EXCEPT !.pc = x]
<1>1. f = [pc |-> x, n |-> e.n, q |-> e.q, vec |-> e.vec, min |-> e.min]
  BY DEF Hands
<1> HIDE DEF f
<1>2. [f EXCEPT !.vec = v] = [pc |-> x, n |-> e.n, q |-> e.q, vec |-> v, min |-> e.min]
  BY <1>1
<1> QED BY <1>2 DEF f

LEMMA HandQ ==
  ASSUME NEW e \in Hands, NEW x, NEW q \in Algs
  PROVE  [e EXCEPT !.pc = x, !.q = q] = [pc |-> x, n |-> e.n, q |-> q, vec |-> e.vec, min |-> e.min]
<1> DEFINE f == [e EXCEPT !.pc = x]
<1>1. f = [pc |-> x, n |-> e.n, q |-> e.q, vec |-> e.vec, min |-> e.min]
  BY DEF Hands
<1> HIDE DEF f
<1>2. [f EXCEPT !.q = q] = [pc |-> x, n |-> e.n, q |-> q, vec |-> e.vec, min |-> e.min]
  BY <1>1
<1> QED BY <1>2 DEF f

LEMMA HandMin ==
  ASSUME NEW e \in Hands, NEW x, NEW m \in Nat
  PROVE  [e EXCEPT !.pc = x, !.min = m] = [pc |-> x, n |-> e.n, q |-> e.q, vec |-> e.vec, min |-> m]
<1> DEFINE f == [e EXCEPT !.pc = x]
<1>1. f = [pc |-> x, n |-> e.n, q |-> e.q, vec |-> e.vec, min |-> e.min]
  BY DEF Hands
<1> HIDE DEF f
<1>2. [f EXCEPT !.min = m] = [pc |-> x, n |-> e.n, q |-> e.q, vec |-> e.vec, min |-> m]
  BY <1>1
<1> QED BY <1>2 DEF f

\* The inner hash done, or the data.
LEMMA JobSet ==
  ASSUME NEW r \in JobRecords, NEW x \in Nat, NEW y \in Nat
  PROVE  [r EXCEPT !.len = x, !.pad = y]
           = [state |-> r.state, alg |-> r.alg, len |-> x, pad |-> y, opad |-> r.opad,
              hashed |-> r.hashed, need |-> r.need]
<1> DEFINE f == [r EXCEPT !.len = x]
<1>1. f = [state |-> r.state, alg |-> r.alg, len |-> x, pad |-> r.pad, opad |-> r.opad,
           hashed |-> r.hashed, need |-> r.need]
  BY DEF JobRecords
<1> HIDE DEF f
<1>2. [f EXCEPT !.pad = y]
         = [state |-> r.state, alg |-> r.alg, len |-> x, pad |-> y, opad |-> r.opad,
            hashed |-> r.hashed, need |-> r.need]
  BY <1>1
<1> QED BY <1>2 DEF f

\* Nothing was sent.
LEMMA HashStart == HInit => HashInv
<1> SUFFICES ASSUME HInit PROVE HashInv
  OBVIOUS
<1>1. ListTypes
  BY DEF HInit, ListTypes
<1>2. NoJob \in JobRecords /\ NoJob.state = "none" /\ NoJob.hashed = NoJob.need
  BY DEF NoJob, JobRecords, Algs
<1>3. HIdle \in Hands /\ HIdle.pc = "idle" /\ HIdle.vec = << >>
  BY DEF HIdle, Hands, Algs
<1>4. HashTypes
  BY <1>1, <1>2, <1>3 DEF HInit, HashTypes
<1>5. \A l \in Lists : list[l].num = 0 /\ OnList(l) = << >>
                       /\ OnList(l) \in Trails(list[l].head, list[l].num, next)
  <2> SUFFICES ASSUME NEW l \in Lists
               PROVE  /\ list[l].num = 0 /\ OnList(l) = << >>
                      /\ OnList(l) \in Trails(list[l].head, list[l].num, next)
    OBVIOUS
  <2>1. list[l].num = 0
    BY DEF HInit
  <2>2. Trails(list[l].head, list[l].num, next) = {<< >>}
    BY <2>1, TrailNone
  <2> QED BY <2>1, <2>2 DEF OnList
<1>6. HashLists
  BY <1>5 DEF HashLists
<1>7. \A p \in Readers : at[p] = HIdle
  BY DEF HInit
<1>8. HashHands
  BY <1>3, <1>7 DEF HashHands
<1>9. \A h \in Holders : Row(h) = << >>
  BY <1>3, <1>5, <1>7 DEF Holders, Row
<1>10. Items(<< >>) = {} /\ NoDup(<< >>)
  BY DEF Items, NoDup
<1>11. HashRows
  BY <1>9, <1>10 DEF HashRows
<1>12. \A j \in Jobs : job[j] = NoJob
  BY DEF HInit
<1>13. HashLive
  BY <1>2, <1>9, <1>10, <1>12 DEF HashLive
<1>14. HashOwes
  BY <1>2, <1>9, <1>10, <1>12 DEF HashOwes, Holders, Lists
<1> QED BY <1>4, <1>6, <1>8, <1>11, <1>13, <1>14 DEF HashInv

\* Steps of a poller between the lists: what it holds stays in its hands.
LEMMA PollerQuiet ==
  ASSUME HashInv, NEW p \in Readers, UNCHANGED <<list, next, job>>,
         NEW e \in Hands, at' = [at EXCEPT ![p] = e], e.vec = at[p].vec,
         at[p].pc # "give", e.pc # "give",
         e.pc \in {"idle", "find", "pick"} => e.vec = << >>,
         e.pc # "requeue"
  PROVE  HashInv'
<1>1. ListTypes' /\ HashLists' /\ \A l \in Lists : Row(l)' = Row(l)
  BY ListsStay DEF HashInv, HashTypes
<1>2. \A u \in Readers : at'[u] = IF u = p THEN e ELSE at[u]
  BY DEF HashInv, HashTypes
<1>3. \A u \in Readers : Row(u)' = Row(u)
  BY <1>2, HandRow
<1>4. \A h \in Holders : Row(h)' = Row(h)
  BY <1>1, <1>3 DEF Holders
<1>5. HashRows' /\ HashLive'
  BY <1>4, RowsStay DEF HashInv
<1>6. HashTypes'
  BY <1>1 DEF HashInv, HashTypes
<1>7. HashHands'
  BY <1>2 DEF HashInv, HashHands
<1>8. HashOwes'
  BY <1>1, <1>2, <1>3 DEF HashInv, HashOwes, Lists
<1> QED BY <1>1, <1>5, <1>6, <1>7, <1>8 DEF HashInv

\* A poller that starts, finds no finished job, chooses a queue or gives up.
LEMMA PollerSteps ==
  ASSUME HashInv, NEW p \in Readers,
         Recv(p) \/ FindNone(p) \/ PickNone(p) \/ Pick(p) \/ GotNone(p)
  PROVE  HashInv'
<1>1. at[p] \in Hands /\ UNCHANGED <<list, next, job>>
  BY DEF HashInv, HashTypes, Recv, FindNone, PickNone, Pick, GotNone
<1>2. HIdle \in Hands /\ HIdle.pc = "idle" /\ HIdle.vec = << >>
  BY DEF HIdle, Hands, Algs
<1>3. at[p].pc \in {"idle", "find", "pick"} => at[p].vec = << >>
  BY DEF HashInv, HashHands
<1>4. CASE Recv(p)
  <2> DEFINE e == [pc |-> "find", n |-> 1, q |-> at[p].q, vec |-> at[p].vec, min |-> at[p].min]
  <2>1. [at[p] EXCEPT !.pc = "find", !.n = 1] = e
    <3>1. PICK k \in Nat : k = 1
      OBVIOUS
    <3>2. PICK f \in Hands : f = at[p]
      BY <1>1
    <3>3. [f EXCEPT !.pc = "find", !.n = k]
            = [pc |-> "find", n |-> k, q |-> f.q, vec |-> f.vec, min |-> f.min]
      BY Zenon, HandN
    <3> QED BY Zenon, <3>1, <3>2, <3>3
  <2>2. at' = [at EXCEPT ![p] = e] /\ at[p].pc = "idle"
    BY <1>4, <2>1 DEF Recv
  <2>3. e \in Hands /\ e.pc = "find" /\ e.vec = at[p].vec
    BY <1>1 DEF Hands
  <2> HIDE DEF e
  <2> QED BY <1>1, <1>3, <2>2, <2>3, PollerQuiet
<1>5. CASE FindNone(p)
  <2> DEFINE e == [at[p] EXCEPT !.pc = "pick"]
  <2>1. at' = [at EXCEPT ![p] = e] /\ at[p].pc = "find"
    BY <1>5 DEF FindNone
  <2>2. e \in Hands /\ e.pc = "pick" /\ e.vec = at[p].vec
    BY <1>1 DEF Hands
  <2> HIDE DEF e
  <2> QED BY <1>1, <1>3, <2>1, <2>2, PollerQuiet
<1>6. CASE PickNone(p)
  <2>1. at' = [at EXCEPT ![p] = HIdle] /\ at[p].pc = "pick"
    BY <1>6 DEF PickNone
  <2> QED BY <1>1, <1>2, <1>3, <2>1, PollerQuiet
<1>7. CASE Pick(p)
  <2> DEFINE q == IF list["md5"].num >= list["sm3"].num THEN "md5" ELSE "sm3"
             e == [pc |-> "get", n |-> at[p].n, q |-> q, vec |-> at[p].vec, min |-> at[p].min]
  <2>1. q \in Algs
    BY DEF Algs
  <2>2. at[p].pc = "pick" /\ at' = [at EXCEPT ![p] = [at[p] EXCEPT !.pc = "get", !.q = q]]
    BY <1>7 DEF Pick
  <2> HIDE DEF q
  <2>3. [at[p] EXCEPT !.pc = "get", !.q = q] = e
    <3>1. PICK f \in Hands : f = at[p]
      BY <1>1
    <3>2. [f EXCEPT !.pc = "get", !.q = q]
            = [pc |-> "get", n |-> f.n, q |-> q, vec |-> f.vec, min |-> f.min]
      BY Zenon, <2>1, HandQ
    <3> QED BY Zenon, <3>1, <3>2
  <2>4. at' = [at EXCEPT ![p] = e]
    BY <2>2, <2>3
  <2>5. e \in Hands /\ e.pc = "get" /\ e.vec = at[p].vec
    BY <1>1, <2>1 DEF Hands
  <2> HIDE DEF e
  <2> QED BY <1>1, <2>2, <2>4, <2>5, PollerQuiet
<1>8. CASE GotNone(p)
  <2>1. at' = [at EXCEPT ![p] = HIdle] /\ at[p].pc = "get" /\ at[p].vec = << >>
    BY <1>8 DEF GotNone
  <2> QED BY <1>1, <1>2, <2>1, PollerQuiet
<1> QED BY <1>4, <1>5, <1>6, <1>7, <1>8

\* Only job j moves or changes: what the others owe is what they owed.
LEMMA OwesAfter ==
  ASSUME HashInv, NEW j \in Jobs,
         \A k \in Jobs : k # j => job'[k] = job[k],
         \A h \in Holders : Items(Row(h)') \ {j} \subseteq Items(Row(h)),
         \A h \in Holders : Items(Row(h)') \subseteq Jobs,
         \A u \in Readers : Items(Row(u)') # {} =>
            /\ (at'[u].pc = "give") <=> (at[u].pc = "give")
            /\ at'[u].pc = "give" => at'[u].min = at[u].min,
         \A a \in Algs : j \in Items(Row(a)') => Whole(job'[j]),
         j \in Items(Row("recv")') => Inner(job'[j]),
         \A u \in Readers : j \in Items(Row(u)') =>
            IF at'[u].pc = "give" THEN Given(job'[j], at'[u].min) ELSE Whole(job'[j]),
         job'[j].state \in {"none", "freed"} => job'[j].hashed = job'[j].need
  PROVE  HashOwes'
<1>1. Algs \subseteq Holders /\ "recv" \in Holders /\ Readers \subseteq Holders
  BY DEF Holders, Lists
<1>2. \A a \in Algs : \A k \in Items(Row(a)') : Whole(job'[k])
  <2> SUFFICES ASSUME NEW a \in Algs, NEW k \in Items(Row(a)'), k # j PROVE Whole(job'[k])
    OBVIOUS
  <2>1. k \in Items(Row(a)) /\ job'[k] = job[k]
    BY <1>1
  <2> QED BY <2>1 DEF HashInv, HashOwes
<1>3. \A k \in Items(Row("recv")') : Inner(job'[k])
  <2> SUFFICES ASSUME NEW k \in Items(Row("recv")'), k # j PROVE Inner(job'[k])
    OBVIOUS
  <2>1. k \in Items(Row("recv")) /\ job'[k] = job[k]
    BY <1>1
  <2> QED BY <2>1 DEF HashInv, HashOwes
<1>4. \A u \in Readers : \A k \in Items(Row(u)') :
        IF at'[u].pc = "give" THEN Given(job'[k], at'[u].min) ELSE Whole(job'[k])
  <2> SUFFICES ASSUME NEW u \in Readers, NEW k \in Items(Row(u)'), k # j
               PROVE  IF at'[u].pc = "give" THEN Given(job'[k], at'[u].min)
                      ELSE Whole(job'[k])
    OBVIOUS
  <2>1. k \in Items(Row(u)) /\ job'[k] = job[k]
    BY <1>1
  <2>2. IF at[u].pc = "give" THEN Given(job[k], at[u].min) ELSE Whole(job[k])
    BY <2>1 DEF HashInv, HashOwes
  <2>3. /\ (at'[u].pc = "give") <=> (at[u].pc = "give")
        /\ at'[u].pc = "give" => at'[u].min = at[u].min
    OBVIOUS
  <2> QED BY <2>1, <2>2, <2>3
<1>5. \A k \in Jobs : job'[k].state \in {"none", "freed"} => job'[k].hashed = job'[k].need
  BY DEF HashInv, HashOwes
<1> QED BY <1>2, <1>3, <1>4, <1>5 DEF HashOwes

\* Whatever is in a row is a job.
LEMMA RowJobs ==
  ASSUME HashInv, NEW h \in Holders
  PROVE  Row(h) \in Seq(Jobs) /\ Items(Row(h)) \subseteq Jobs /\ NoDup(Row(h))
<1>1. Row(h) \in Seq(Jobs)
  <2>1. CASE h \in Lists
    BY <2>1, ListRow DEF HashInv, HashTypes
  <2>2. CASE h \in Readers
    <3>1. at[h].vec \in Seq(Jobs)
      BY <2>2 DEF HashInv, HashTypes, Hands
    <3> QED BY <2>2, <3>1, HandRow
  <2> QED BY <2>1, <2>2 DEF Holders
<1>2. NoDup(Row(h))
  BY DEF HashInv, HashRows
<1> QED BY <1>1, <1>2 DEF Items

\* A job comes in (hash_mb_send).
LEMMA SendKeeps ==
  ASSUME HashInv, NEW j \in Jobs, Send(j)
  PROVE  HashInv'
<1> DEFINE l == Kind[j].alg
           r == [state |-> "live", alg |-> Kind[j].alg, len |-> Kind[j].len,
                 pad |-> Kind[j].pad, opad |-> Kind[j].opad, hashed |-> 0,
                 need |-> Kind[j].len + Kind[j].pad + (IF Kind[j].opad THEN 1 ELSE 0)]
<1>1. /\ job[j].state = "none" /\ job' = [job EXCEPT ![j] = r]
      /\ PutTail(l, j) /\ UNCHANGED at
  BY DEF Send
<1>2. l \in Algs /\ r \in JobRecords /\ Whole(r) /\ r.state = "live"
  <2>1. Kind[j] \in [alg : Algs, len : Nat, pad : Nat, opad : BOOLEAN]
    BY HashAssumption
  <2> QED BY <2>1 DEF JobRecords, Whole, Outer
<1> HIDE DEF l, r
<1>3. l \in Lists /\ l \in Holders
  BY <1>2 DEF Lists, Holders
<1>4. \A h \in Holders : j \notin Items(Row(h))
  BY <1>1 DEF HashInv, HashLive
<1>5. Gains(l, j)
  BY <1>1, <1>3, <1>4, PutTailGains DEF HashInv, HashTypes, Holders
<1>6. /\ ListTypes' /\ HashLists'
      /\ NoDup(Row(l)') /\ Items(Row(l)') = Items(Row(l)) \cup {j}
      /\ \A m \in Lists : m # l => Row(m)' = Row(m)
  BY <1>5 DEF Gains
<1>7. \A u \in Readers : Row(u)' = Row(u) /\ u # l
  BY <1>1, <1>3, HandRow
<1>8. \A h \in Holders : h # l => Row(h)' = Row(h)
  BY <1>6, <1>7 DEF Holders
<1>9. job'[j] = r /\ \A k \in Jobs : k # j => job'[k] = job[k]
  BY <1>1 DEF HashInv, HashTypes
<1>10. \A h \in Holders : NoDup(Row(h)')
  BY <1>6, <1>8 DEF HashInv, HashRows
<1>11. HashRows' /\ HashLive'
  <2> DEFINE to == {l}
  <2>1. to \in SUBSET Holders /\ to # {} /\ \E g \in Holders : to = {g}
    BY <1>3
  <2>2. \A h \in Holders : h \notin to => Items(Row(h)') = Items(Row(h)) \ {j}
    BY <1>4, <1>8
  <2>3. \A h \in to : Items(Row(h)') = (Items(Row(h)) \ {j}) \cup {j}
    BY <1>6
  <2>4. \A k \in Jobs : k # j => job'[k].state = job[k].state
    BY <1>9
  <2>5. job'[j].state = "live" <=> to # {}
    BY <1>2, <1>9
  <2> HIDE DEF to
  <2> QED BY <1>10, <2>1, <2>2, <2>3, <2>4, <2>5, RowsAfter DEF HashInv
<1>12. HashTypes'
  BY <1>1, <1>2, <1>6 DEF HashInv, HashTypes
<1>13. HashHands'
  BY <1>1 DEF HashInv, HashHands
<1>14. HashOwes'
  <2>1. \A h \in Holders : /\ Items(Row(h)') \ {j} \subseteq Items(Row(h))
                           /\ Items(Row(h)') \subseteq Jobs
    <3>1. \A h \in Holders : Items(Row(h)) \subseteq Jobs
      BY RowJobs
    <3> QED BY <1>6, <1>8, <3>1
  <2>2. \A h \in Holders : h # l => j \notin Items(Row(h)')
    BY <1>4, <1>8
  <2>3. "recv" \in Holders /\ "recv" # l /\ Readers \subseteq Holders
    BY <1>2 DEF Holders, Lists, Algs
  <2>4. \A u \in Readers : j \notin Items(Row(u)')
    BY <1>7, <2>2, <2>3
  <2>5. \A u \in Readers : at'[u] = at[u]
    BY <1>1
  <2> QED BY <1>2, <1>9, <2>1, <2>2, <2>3, <2>4, <2>5, OwesAfter
<1> QED BY <1>6, <1>11, <1>12, <1>13, <1>14 DEF HashInv

\* The head of the finished jobs is handed out and freed.
LEMMA FindDoneKeeps ==
  ASSUME HashInv, NEW p \in Readers, FindDone(p)
  PROVE  HashInv'
<1> DEFINE j == list["recv"].head
<1>1. /\ at[p].pc = "find" /\ list["recv"].num > 0 /\ ~job[j].opad
      /\ PopHead("recv") /\ job' = [job EXCEPT ![j].state = "freed"]
      /\ at' = [at EXCEPT ![p] = HIdle] /\ next' = next
  BY DEF FindDone
<1>2. "recv" \in Lists /\ "recv" \in Holders
  BY DEF Lists, Holders
<1>3. Loses("recv", j)
  BY <1>1, <1>2, PopHeadLoses DEF HashInv, HashTypes
<1>4. /\ ListTypes' /\ HashLists' /\ NoDup(Row("recv")') /\ j \in Jobs
      /\ j \in Items(Row("recv"))
      /\ Items(Row("recv")') = Items(Row("recv")) \ {j}
      /\ \A m \in Lists : m # "recv" => Row(m)' = Row(m)
  BY <1>3 DEF Loses
<1> HIDE DEF j
<1>5. HIdle \in Hands /\ HIdle.pc = "idle" /\ HIdle.vec = << >>
  BY DEF HIdle, Hands, Algs
<1>6. at[p].vec = << >>
  BY <1>1 DEF HashInv, HashHands
<1>7. \A u \in Readers : at'[u] = IF u = p THEN HIdle ELSE at[u]
  BY <1>1 DEF HashInv, HashTypes
<1>8. \A u \in Readers : Row(u)' = Row(u) /\ u # "recv"
  BY <1>2, <1>5, <1>6, <1>7, HandRow
<1>9. \A h \in Holders : h # "recv" => Row(h)' = Row(h)
  BY <1>4, <1>8 DEF Holders
<1>10. /\ job[j] \in JobRecords /\ Inner(job[j])
       /\ job'[j] = [job[j] EXCEPT !.state = "freed"]
       /\ \A k \in Jobs : k # j => job'[k] = job[k]
  BY <1>1, <1>4 DEF HashInv, HashTypes, HashOwes
<1>11. job'[j] \in JobRecords /\ job'[j].state = "freed" /\ job'[j].hashed = job'[j].need
  BY <1>1, <1>10 DEF JobRecords, Inner, Outer
<1>12. \A h \in Holders : h # "recv" => j \notin Items(Row(h))
  BY <1>2, <1>4 DEF HashInv, HashRows
<1>13. \A h \in Holders : Items(Row(h)') = Items(Row(h)) \ {j}
  BY <1>4, <1>9, <1>12
<1>14. HashRows' /\ HashLive'
  <2>1. \A h \in Holders : NoDup(Row(h)')
    BY <1>4, <1>9 DEF HashInv, HashRows
  <2> DEFINE to == {}
  <2>2. to \in SUBSET Holders /\ to = {} /\ \A h \in to : FALSE
    OBVIOUS
  <2>3. \A k \in Jobs : k # j => job'[k].state = job[k].state
    BY <1>10
  <2>4. job'[j].state = "live" <=> to # {}
    BY <1>11
  <2> HIDE DEF to
  <2> QED BY <1>4, <1>13, <2>1, <2>2, <2>3, <2>4, RowsAfter DEF HashInv
<1>15. HashTypes'
  <2>1. job' \in [Jobs -> JobRecords]
    BY <1>1, <1>10, <1>11 DEF HashInv, HashTypes
  <2> QED BY <1>1, <1>4, <1>5, <2>1 DEF HashInv, HashTypes
<1>16. HashHands'
  BY <1>5, <1>7 DEF HashInv, HashHands
<1>17. HashOwes'
  <2>1. \A h \in Holders : /\ Items(Row(h)') \ {j} \subseteq Items(Row(h))
                           /\ Items(Row(h)') \subseteq Jobs /\ j \notin Items(Row(h)')
    BY <1>13, RowJobs
  <2>2. Algs \subseteq Holders /\ Readers \subseteq Holders
    BY DEF Holders, Lists
  <2>3. Items(<< >>) = {}
    BY DEF Items
  <2>4. \A u \in Readers : Items(Row(u)') # {} => at'[u] = at[u]
    BY <1>6, <1>7, <1>8, <2>3, HandRow
  <2> QED BY <1>2, <1>4, <1>10, <1>11, <2>1, <2>2, <2>4, OwesAfter
<1> QED BY <1>4, <1>14, <1>15, <1>16, <1>17 DEF HashInv

\* A poller takes the head j of list l and holds it besides what it held.
LEMMA TakenKeeps ==
  ASSUME HashInv, NEW p \in Readers, NEW l \in Lists, NEW j \in Jobs, Loses(l, j),
         NEW e \in Hands, at' = [at EXCEPT ![p] = e], e.vec = Append(at[p].vec, j),
         e.pc \in {"requeue", "get"}, at[p].pc # "give",
         e.pc = "requeue" => at[p].vec = << >>,
         NEW r \in JobRecords, r.state = job[j].state, job' = [job EXCEPT ![j] = r],
         Whole(r)
  PROVE  HashInv'
<1>1. /\ ListTypes' /\ HashLists' /\ NoDup(Row(l)') /\ j \in Items(Row(l))
      /\ Items(Row(l)') = Items(Row(l)) \ {j}
      /\ \A m \in Lists : m # l => Row(m)' = Row(m)
  BY DEF Loses
<1>2. p \in Holders /\ l \in Holders /\ p # l
  BY HandRow DEF Holders
<1>3. \A h \in Holders : h # l => j \notin Items(Row(h))
  BY <1>1, <1>2 DEF HashInv, HashRows
<1>4. \A u \in Readers : at'[u] = IF u = p THEN e ELSE at[u]
  BY DEF HashInv, HashTypes
<1>5. \A u \in Readers : u # p => Row(u)' = Row(u)
  BY <1>4, HandRow
<1>6. Row(p)' = Append(Row(p), j)
  BY <1>4, HandRow
<1>7. NoDup(Row(p)') /\ Items(Row(p)') = Items(Row(p)) \cup {j}
  BY <1>2, <1>3, <1>6, RowJobs, RowAppend
<1>8. \A h \in Holders : h # l /\ h # p => Row(h)' = Row(h)
  BY <1>1, <1>5 DEF Holders
<1>9. \A h \in Holders : h # p => Items(Row(h)') = Items(Row(h)) \ {j}
  BY <1>1, <1>3, <1>8
<1>10. job'[j] = r /\ \A k \in Jobs : k # j => job'[k] = job[k]
  BY DEF HashInv, HashTypes
<1>11. job[j].state = "live"
  BY <1>1, <1>2 DEF HashInv, HashLive
<1>12. HashRows' /\ HashLive'
  <2> DEFINE to == {p}
  <2>1. to \in SUBSET Holders /\ to # {} /\ \E g \in Holders : to = {g}
    BY <1>2
  <2>2. \A h \in Holders : h \notin to => Items(Row(h)') = Items(Row(h)) \ {j}
    BY <1>9
  <2>3. \A h \in to : Items(Row(h)') = (Items(Row(h)) \ {j}) \cup {j}
    BY <1>7
  <2>4. \A k \in Jobs : k # j => job'[k].state = job[k].state
    BY <1>10
  <2>5. job'[j].state = "live" <=> to # {}
    BY <1>10, <1>11
  <2>6. \A h \in Holders : NoDup(Row(h)')
    BY <1>1, <1>7, <1>8 DEF HashInv, HashRows
  <2> HIDE DEF to
  <2> QED BY <2>1, <2>2, <2>3, <2>4, <2>5, <2>6, RowsAfter DEF HashInv
<1>13. HashTypes'
  BY <1>1 DEF HashInv, HashTypes
<1>14. HashHands'
  <2>1. Append(<< >>, j) = <<j>>
    OBVIOUS
  <2>2. e.pc = "requeue" => e.vec = <<j>>
    BY Zenon, <2>1
  <2> QED BY <1>4, <2>2 DEF HashInv, HashHands
<1>15. HashOwes'
  <2>1. \A h \in Holders : /\ Items(Row(h)') \ {j} \subseteq Items(Row(h))
                           /\ Items(Row(h)') \subseteq Jobs
    BY <1>7, <1>9, RowJobs
  <2>2. \A h \in Holders : h # p => j \notin Items(Row(h)')
    BY <1>9
  <2>3. /\ Algs \subseteq Holders /\ Readers \subseteq Holders /\ "recv" \in Holders
        /\ p \notin Algs /\ p # "recv"
    BY HandRow DEF Holders, Lists
  <2>4. \A u \in Readers : /\ (at'[u].pc = "give") <=> (at[u].pc = "give")
                           /\ at'[u].pc = "give" => at'[u].min = at[u].min
    BY <1>4
  <2>5. at'[p].pc # "give"
    BY <1>4
  <2>6. \A a \in Algs : j \notin Items(Row(a)')
    BY <2>2, <2>3
  <2>7. j \notin Items(Row("recv")')
    BY <2>2, <2>3
  <2>8. \A u \in Readers : j \in Items(Row(u)') => at'[u].pc # "give"
    BY <2>2, <2>3, <2>5
  <2>9. job'[j].state \notin {"none", "freed"}
    BY <1>10, <1>11
  <2> QED BY <1>10, <2>1, <2>4, <2>6, <2>7, <2>8, <2>9, OwesAfter
<1> QED BY <1>1, <1>12, <1>13, <1>14, <1>15 DEF HashInv

LEMMA FindHmacKeeps ==
  ASSUME HashInv, NEW p \in Readers, FindHmac(p)
  PROVE  HashInv'
<1> DEFINE j == list["recv"].head
           r == [state |-> job[j].state, alg |-> job[j].alg, len |-> 1, pad |-> 0,
                 opad |-> FALSE, hashed |-> job[j].hashed, need |-> job[j].need]
           e == [pc |-> "requeue", n |-> at[p].n, q |-> at[p].q, vec |-> <<j>>,
                 min |-> at[p].min]
<1>1. /\ at[p].pc = "find" /\ list["recv"].num > 0 /\ job[j].opad
      /\ PopHead("recv") /\ next' = next
      /\ job' = [job EXCEPT ![j] = [job[j] EXCEPT !.opad = FALSE, !.len = 1, !.pad = 0]]
      /\ at' = [at EXCEPT ![p] = [at[p] EXCEPT !.pc = "requeue", !.vec = <<j>>]]
  BY DEF FindHmac
<1>2. "recv" \in Lists
  BY DEF Lists
<1>3. Loses("recv", j)
  BY <1>1, <1>2, PopHeadLoses DEF HashInv, HashTypes
<1>4. j \in Jobs /\ j \in Items(Row("recv"))
  BY <1>3 DEF Loses
<1>5. job[j] \in JobRecords /\ at[p] \in Hands /\ at[p].vec = << >> /\ Inner(job[j])
  BY <1>1, <1>4 DEF HashInv, HashTypes, HashHands, HashOwes
<1>6. r \in JobRecords /\ Whole(r) /\ r.state = job[j].state
  BY SMTT(30), <1>1, <1>5 DEF JobRecords, Inner, Whole, Outer
<1>7. job' = [job EXCEPT ![j] = r]
  <2>1. PICK x \in Nat, y \in Nat, b \in BOOLEAN : x = 1 /\ y = 0 /\ b = FALSE
    OBVIOUS
  <2>2. PICK f \in JobRecords : f = job[j]
    BY <1>5
  <2> DEFINE g == [f EXCEPT !.opad = b]
  <2>5. /\ g \in JobRecords /\ g.state = f.state /\ g.alg = f.alg /\ g.opad = b
        /\ g.hashed = f.hashed /\ g.need = f.need
    BY DEF JobRecords
  <2> HIDE DEF g
  <2>6. [g EXCEPT !.len = x, !.pad = y]
          = [state |-> g.state, alg |-> g.alg, len |-> x, pad |-> y, opad |-> g.opad,
             hashed |-> g.hashed, need |-> g.need]
    BY Zenon, <2>5, JobSet
  <2>3. [f EXCEPT !.opad = b, !.len = x, !.pad = y]
          = [state |-> f.state, alg |-> f.alg, len |-> x, pad |-> y, opad |-> b,
             hashed |-> f.hashed, need |-> f.need]
    BY Zenon, <2>5, <2>6 DEF g
  <2>4. [job[j] EXCEPT !.opad = FALSE, !.len = 1, !.pad = 0] = r
    BY Zenon, <2>1, <2>2, <2>3
  <2> HIDE DEF r
  <2> QED BY <1>1, <2>4
<1>8. at' = [at EXCEPT ![p] = e]
  <2>1. <<j>> \in Seq(Jobs)
    BY <1>4
  <2> HIDE DEF j
  <2>2. PICK f \in Hands, v \in Seq(Jobs) : f = at[p] /\ v = <<j>>
    BY <1>5, <2>1
  <2>3. [f EXCEPT !.pc = "requeue", !.vec = v]
          = [pc |-> "requeue", n |-> f.n, q |-> f.q, vec |-> v, min |-> f.min]
    BY Zenon, HandVec
  <2>4. [at[p] EXCEPT !.pc = "requeue", !.vec = <<j>>] = e
    BY Zenon, <2>2, <2>3
  <2> HIDE DEF e
  <2> QED BY <1>1, <2>4
<1>9. e \in Hands /\ e.pc = "requeue" /\ e.vec = Append(at[p].vec, j)
  BY <1>4, <1>5 DEF Hands
<1>10. at[p].pc # "give" /\ at[p].vec = << >> /\ e.pc \in {"requeue", "get"}
  BY <1>1, <1>5, <1>9
<1> HIDE DEF j, r, e
<1> QED BY <1>2, <1>3, <1>4, <1>6, <1>7, <1>8, <1>9, <1>10, TakenKeeps

LEMMA GetKeeps ==
  ASSUME HashInv, NEW p \in Readers, Get(p)
  PROVE  HashInv'
<1> DEFINE l == at[p].q
           j == list[l].head
           e == [at[p] EXCEPT !.vec = Append(at[p].vec, j)]
<1>1. /\ at[p].pc = "get" /\ list[l].num > 0 /\ PopHead(l) /\ next' = next /\ job' = job
      /\ at' = [at EXCEPT ![p] = e]
  BY DEF Get
<1>2. l \in Algs /\ l \in Lists /\ at[p] \in Hands
  BY DEF HashInv, HashTypes, Hands, Lists
<1>3. Loses(l, j)
  BY <1>1, <1>2, PopHeadLoses DEF HashInv, HashTypes
<1>4. j \in Jobs /\ j \in Items(Row(l))
  BY <1>3 DEF Loses
<1>5. job[j] \in JobRecords /\ Whole(job[j])
  BY <1>2, <1>4 DEF HashInv, HashTypes, HashOwes
<1>6. e \in Hands /\ e.pc = "get" /\ e.vec = Append(at[p].vec, j)
  <2> DEFINE v == Append(at[p].vec, j)
  <2>1. v \in Seq(Jobs)
    BY <1>2, <1>4 DEF Hands
  <2> HIDE DEF v
  <2>2. [at[p] EXCEPT !.vec = v] \in Hands /\ [at[p] EXCEPT !.vec = v].pc = "get"
        /\ [at[p] EXCEPT !.vec = v].vec = v
    BY <1>1, <1>2, <2>1 DEF Hands
  <2> QED BY <2>2 DEF v
<1>7. job' = [job EXCEPT ![j] = job[j]]
  BY <1>1, <1>4 DEF HashInv, HashTypes
<1>8. at[p].pc # "give" /\ e.pc \in {"requeue", "get"} /\ e.pc # "requeue"
      /\ at' = [at EXCEPT ![p] = e]
  BY <1>1, <1>6
<1> HIDE DEF l, j, e
<1> QED BY <1>2, <1>3, <1>4, <1>5, <1>6, <1>7, <1>8, TakenKeeps

\* A poller puts job j, in its hands, on list l; what else it holds stays.
LEMMA GivenKeeps ==
  ASSUME HashInv, NEW p \in Readers, NEW l \in Lists, NEW j \in Items(Row(p)), Gains(l, j),
         NEW e \in Hands, at' = [at EXCEPT ![p] = e],
         NoDup(e.vec), Items(e.vec) = Items(at[p].vec) \ {j},
         e.pc = "give" => at[p].pc = "give" /\ e.min = at[p].min /\ e.vec # << >>,
         e.pc # "give" => e.vec = << >> /\ e.pc # "requeue",
         NEW r \in JobRecords, r.state = job[j].state, job' = [job EXCEPT ![j] = r],
         IF l \in Algs THEN Whole(r) ELSE Inner(r)
  PROVE  HashInv'
<1>1. /\ ListTypes' /\ HashLists' /\ NoDup(Row(l)')
      /\ Items(Row(l)') = Items(Row(l)) \cup {j}
      /\ \A m \in Lists : m # l => Row(m)' = Row(m)
  BY DEF Gains
<1>2. p \in Holders /\ l \in Holders /\ p # l /\ j \in Jobs
  BY HandRow, RowJobs DEF Holders
<1>3. \A h \in Holders : h # p => j \notin Items(Row(h))
  BY <1>2 DEF HashInv, HashRows
<1>4. \A u \in Readers : at'[u] = IF u = p THEN e ELSE at[u]
  BY DEF HashInv, HashTypes
<1>5. \A u \in Readers : u # p => Row(u)' = Row(u)
  BY <1>4, HandRow
<1>6. NoDup(Row(p)') /\ Items(Row(p)') = Items(Row(p)) \ {j}
  <2>1. Row(p)' = e.vec /\ Row(p) = at[p].vec
    BY <1>4, HandRow
  <2> QED BY <2>1
<1>8. \A h \in Holders : h # l /\ h # p => Row(h)' = Row(h)
  BY <1>1, <1>5 DEF Holders
<1>9. \A h \in Holders : h # l => Items(Row(h)') = Items(Row(h)) \ {j}
  BY <1>3, <1>6, <1>8
<1>10. job'[j] = r /\ \A k \in Jobs : k # j => job'[k] = job[k]
  BY <1>2 DEF HashInv, HashTypes
<1>11. job[j].state = "live"
  BY <1>2 DEF HashInv, HashLive
<1>12. HashRows' /\ HashLive'
  <2> DEFINE to == {l}
  <2>1. to \in SUBSET Holders /\ to # {} /\ \E g \in Holders : to = {g}
    BY <1>2
  <2>2. \A h \in Holders : h \notin to => Items(Row(h)') = Items(Row(h)) \ {j}
    BY <1>9
  <2>3. \A h \in to : Items(Row(h)') = (Items(Row(h)) \ {j}) \cup {j}
    BY <1>1
  <2>4. \A k \in Jobs : k # j => job'[k].state = job[k].state
    BY <1>10
  <2>5. job'[j].state = "live" <=> to # {}
    BY <1>10, <1>11
  <2>6. \A h \in Holders : NoDup(Row(h)')
    BY <1>1, <1>6, <1>8 DEF HashInv, HashRows
  <2> HIDE DEF to
  <2> QED BY <1>2, <2>1, <2>2, <2>3, <2>4, <2>5, <2>6, RowsAfter DEF HashInv
<1>13. HashTypes'
  BY <1>1, <1>2 DEF HashInv, HashTypes
<1>14. HashHands'
  BY <1>4 DEF HashInv, HashHands
<1>15. HashOwes'
  <2>1. \A h \in Holders : /\ Items(Row(h)') \ {j} \subseteq Items(Row(h))
                           /\ Items(Row(h)') \subseteq Jobs
    BY <1>1, <1>2, <1>9, RowJobs
  <2>2. \A h \in Holders : h # l => j \notin Items(Row(h)')
    BY <1>9
  <2>3. /\ Algs \subseteq Holders /\ Readers \subseteq Holders /\ "recv" \in Holders
        /\ "recv" \notin Algs
    BY DEF Holders, Lists, Algs
  <2>4. Items(<< >>) = {}
    BY DEF Items
  <2>5. \A u \in Readers : Items(Row(u)') # {} =>
           /\ (at'[u].pc = "give") <=> (at[u].pc = "give")
           /\ at'[u].pc = "give" => at'[u].min = at[u].min
    <3> SUFFICES ASSUME NEW u \in Readers, Items(Row(u)') # {}
                 PROVE  /\ (at'[u].pc = "give") <=> (at[u].pc = "give")
                        /\ at'[u].pc = "give" => at'[u].min = at[u].min
      OBVIOUS
    <3>1. CASE u # p
      BY <1>4, <3>1
    <3>2. CASE u = p
      <4>1. Row(p)' = e.vec /\ at'[p] = e
        BY <1>4, HandRow
      <4>2. e.vec # << >>
        BY <2>4, <3>2, <4>1
      <4> QED BY <3>2, <4>1, <4>2
    <3> QED BY <3>1, <3>2
  <2>6. \A a \in Algs : j \in Items(Row(a)') => Whole(job'[j])
    <3> SUFFICES ASSUME NEW a \in Algs, j \in Items(Row(a)') PROVE Whole(job'[j])
      OBVIOUS
    <3>1. a = l
      BY <2>2, <2>3
    <3> QED BY <1>10, <3>1
  <2>7. j \in Items(Row("recv")') => Inner(job'[j])
    <3> SUFFICES ASSUME j \in Items(Row("recv")') PROVE Inner(job'[j])
      OBVIOUS
    <3>1. l = "recv"
      BY <2>2, <2>3
    <3> QED BY <1>10, <2>3, <3>1
  <2>8. \A u \in Readers : j \notin Items(Row(u)')
    BY <2>2, <2>3, HandRow
  <2>9. job'[j].state \notin {"none", "freed"}
    BY <1>10, <1>11
  <2> QED BY <1>2, <1>10, <2>1, <2>5, <2>6, <2>7, <2>8, <2>9, OwesAfter
<1> QED BY <1>1, <1>12, <1>13, <1>14, <1>15 DEF HashInv

\* A job in somebody's hands is on no list.
LEMMA HeldOffLists ==
  ASSUME HashInv, NEW p \in Readers, NEW j \in Items(Row(p))
  PROVE  \A m \in Lists : j \notin Items(Row(m))
<1>1. p \in Holders /\ Lists \subseteq Holders /\ \A m \in Lists : m # p
  BY HandRow DEF Holders
<1> QED BY <1>1 DEF HashInv, HashRows

LEMMA RequeueKeeps ==
  ASSUME HashInv, NEW p \in Readers, Requeue(p)
  PROVE  HashInv'
<1>1. PICK j \in Jobs : at[p].vec = <<j>>
  BY DEF Requeue, HashInv, HashHands
<1>2. Head(<<j>>) = j /\ Items(<<j>>) = {j} /\ Items(<< >>) = {} /\ NoDup(<< >>)
      /\ << >> \in Seq(Jobs)
  BY DEF Items, NoDup
<1> DEFINE l == job[j].alg
           e == [pc |-> "pick", n |-> at[p].n, q |-> at[p].q, vec |-> << >>, min |-> at[p].min]
<1>3. /\ at[p].pc = "requeue" /\ PutHead(l, j) /\ job' = job
      /\ at' = [at EXCEPT ![p] = [at[p] EXCEPT !.pc = "pick", !.vec = << >>]]
  BY <1>1, <1>2 DEF Requeue
<1>4. at[p] \in Hands /\ job[j] \in JobRecords
  BY DEF HashInv, HashTypes
<1>5. l \in Algs /\ l \in Lists
  BY <1>4 DEF JobRecords, Lists
<1>6. j \in Items(Row(p))
  BY <1>1, <1>2, HandRow
<1>7. \A m \in Lists : j \notin Items(Row(m))
  BY <1>6, HeldOffLists
<1>8. Gains(l, j)
  BY <1>3, <1>5, <1>7, PutHeadGains DEF HashInv, HashTypes
<1>9. at' = [at EXCEPT ![p] = e]
  <2>2. PICK f \in Hands, v \in Seq(Jobs) : f = at[p] /\ v = << >>
    BY <1>2, <1>4
  <2>3. [f EXCEPT !.pc = "pick", !.vec = v]
          = [pc |-> "pick", n |-> f.n, q |-> f.q, vec |-> v, min |-> f.min]
    BY Zenon, HandVec
  <2>4. [at[p] EXCEPT !.pc = "pick", !.vec = << >>] = e
    BY Zenon, <2>2, <2>3
  <2> HIDE DEF e
  <2> QED BY <1>3, <2>4
<1>10. e \in Hands /\ e.pc = "pick" /\ e.vec = << >>
  BY <1>4 DEF Hands
<1>11. Whole(job[j])
  BY <1>3, <1>6 DEF HashInv, HashOwes
<1>12. job' = [job EXCEPT ![j] = job[j]]
  BY <1>3 DEF HashInv, HashTypes
<1>13. NoDup(e.vec) /\ Items(e.vec) = Items(at[p].vec) \ {j}
  BY <1>1, <1>2, <1>10
<1> HIDE DEF l, e
<1> QED BY <1>4, <1>5, <1>6, <1>8, <1>9, <1>10, <1>11, <1>12, <1>13, GivenKeeps

\* The hands after a job was given back: the rest, the next try or nothing.
LEMMA GaveHand ==
  ASSUME HashInv, NEW p \in Readers, at[p].pc = "give", GaveOne(p)
  PROVE  \E e \in Hands :
           /\ at' = [at EXCEPT ![p] = e]
           /\ NoDup(e.vec) /\ Items(e.vec) = Items(at[p].vec) \ {Head(at[p].vec)}
           /\ e.pc = "give" => e.min = at[p].min /\ e.vec # << >>
           /\ e.pc # "give" => e.vec = << >> /\ e.pc # "requeue"
<1> DEFINE v == at[p].vec
<1>1. at[p] \in Hands /\ v \in Seq(Jobs) /\ v # << >> /\ at[p].n \in Nat
  BY DEF HashInv, HashTypes, HashHands, Hands
<1>2. NoDup(v)
  BY HandRow, RowJobs
<1>3. Tail(v) \in Seq(Jobs) /\ NoDup(Tail(v)) /\ Items(Tail(v)) = Items(v) \ {Head(v)}
      /\ Head(v) \in Items(v)
  <2> HIDE DEF v
  <2> QED BY <1>1, <1>2, RowTail
<1>4. HIdle \in Hands /\ HIdle.pc = "idle" /\ HIdle.vec = << >>
  BY DEF HIdle, Hands, Algs
<1>5. Items(<< >>) = {} /\ NoDup(<< >>)
  BY DEF Items, NoDup
<1>6. CASE Len(v) > 1
  <2> DEFINE e == [at[p] EXCEPT !.vec = Tail(v)]
  <2>1. at' = [at EXCEPT ![p] = e]
    BY <1>6 DEF GaveOne
  <2>2. e \in Hands /\ e.pc = "give" /\ e.vec = Tail(v) /\ e.min = at[p].min
    <3> DEFINE w == Tail(v)
    <3>1. w \in Seq(Jobs)
      BY <1>3
    <3> HIDE DEF w
    <3>2. [at[p] EXCEPT !.vec = w] \in Hands /\ [at[p] EXCEPT !.vec = w].pc = "give"
          /\ [at[p] EXCEPT !.vec = w].vec = w /\ [at[p] EXCEPT !.vec = w].min = at[p].min
      BY <1>1, <3>1 DEF Hands
    <3> QED BY <3>2 DEF w
  <2>3. Tail(v) # << >>
    <3> HIDE DEF v
    <3>1. Len(Tail(v)) = Len(v) - 1 /\ Len(v) \in Nat
      BY <1>1
    <3>2. Len(Tail(v)) # 0
      <4> DEFINE n == Len(v)
                 k == Len(Tail(v))
      <4>1. n \in Nat /\ n > 1 /\ k = n - 1
        BY <1>6, <3>1
      <4> HIDE DEF n, k
      <4>2. k # 0
        BY <4>1
      <4> QED BY <4>2 DEF k
    <3>3. Len(<< >>) = 0
      OBVIOUS
    <3> QED BY Zenon, <3>2, <3>3
  <2> HIDE DEF e
  <2> QED BY <1>3, <2>1, <2>2, <2>3
<1>7. CASE ~(Len(v) > 1)
  <2>1. Items(v) \ {Head(v)} = {}
    <3> HIDE DEF v
    <3>1. Len(v) = 1 /\ DOMAIN v = 1 .. 1 /\ Head(v) = v[1]
      <4>1. Len(v) \in Nat /\ Len(v) > 0 /\ DOMAIN v = 1 .. Len(v) /\ Head(v) = v[1]
        BY <1>1
      <4>2. Len(v) = 1
        BY <1>7, <4>1
      <4> QED BY <4>1, <4>2
    <3> QED BY <3>1 DEF Items
  <2>2. CASE at[p].n < Tries
    <3> DEFINE e == [HIdle EXCEPT !.pc = "find", !.n = at[p].n + 1]
    <3>1. at' = [at EXCEPT ![p] = e]
      BY <1>7, <2>2 DEF GaveOne
    <3>2. e \in Hands /\ e.pc = "find" /\ e.vec = << >>
      <4>1. PICK k \in Nat, f \in Hands : k = at[p].n + 1 /\ f = HIdle
        BY <1>1, <1>4
      <4>2. [f EXCEPT !.pc = "find", !.n = k]
              = [pc |-> "find", n |-> k, q |-> f.q, vec |-> f.vec, min |-> f.min]
        BY Zenon, HandN
      <4>3. e = [pc |-> "find", n |-> k, q |-> f.q, vec |-> f.vec, min |-> f.min]
        BY ZenonT(60), <4>1, <4>2
      <4> HIDE DEF e
      <4> QED BY <1>4, <4>1, <4>3 DEF Hands
    <3> HIDE DEF e
    <3> QED BY <1>5, <2>1, <3>1, <3>2
  <2>3. CASE ~(at[p].n < Tries)
    <3>1. at' = [at EXCEPT ![p] = HIdle]
      BY <1>7, <2>3 DEF GaveOne
    <3> QED BY ZenonT(60), <1>4, <1>5, <2>1, <3>1
  <2> QED BY <2>2, <2>3
<1> QED BY <1>6, <1>7

\* A job goes on the list of the finished ones or back to its queue.
LEMMA GiveKeeps ==
  ASSUME HashInv, NEW p \in Readers,
         GiveFinished(p) \/ GivePad(p) \/ GiveBack(p)
  PROVE  HashInv'
<1>1. at[p].pc = "give" /\ GaveOne(p)
  BY DEF GiveFinished, GivePad, GiveBack
<1>2. PICK e \in Hands :
           /\ at' = [at EXCEPT ![p] = e]
           /\ NoDup(e.vec) /\ Items(e.vec) = Items(at[p].vec) \ {Head(at[p].vec)}
           /\ e.pc = "give" => e.min = at[p].min /\ e.vec # << >>
           /\ e.pc # "give" => e.vec = << >> /\ e.pc # "requeue"
  BY <1>1, GaveHand
<1>3. at[p] \in Hands /\ at[p].vec \in Seq(Jobs) /\ at[p].vec # << >> /\ at[p].q \in Algs
      /\ at[p].min \in Nat
  BY <1>1 DEF HashInv, HashTypes, HashHands, Hands
<1> DEFINE j == Head(at[p].vec)
<1>4. j \in Items(Row(p)) /\ j \in Jobs
  <2> DEFINE v == at[p].vec
  <2>1. NoDup(v) /\ v \in Seq(Jobs) /\ v # << >> /\ Row(p) = v
    BY <1>3, HandRow, RowJobs
  <2> HIDE DEF v
  <2>2. Head(v) \in Items(v) /\ Head(v) \in Jobs
    BY <2>1, RowTail
  <2> QED BY <2>1, <2>2 DEF v
<1>5. \A m \in Lists : j \notin Items(Row(m))
  BY <1>4, HeldOffLists
<1>6. job[j] \in JobRecords /\ Given(job[j], at[p].min)
  BY <1>1, <1>4 DEF HashInv, HashTypes, HashOwes
<1>7. at[p].q \in Lists /\ "recv" \in Lists /\ "recv" \notin Algs
  BY <1>3 DEF Lists, Algs
<1>8. CASE GiveFinished(p)
  <2>1. job[j].len = at[p].min /\ job[j].pad = 0 /\ PutTail("recv", j) /\ job' = job
    BY <1>8 DEF GiveFinished
  <2> HIDE DEF j
  <2>2. Gains("recv", j)
    BY <1>4, <1>5, <1>7, <2>1, PutTailGains DEF HashInv, HashTypes
  <2>3. Inner(job[j])
    BY <1>3, <1>6, <2>1 DEF Given, Inner, JobRecords, Outer
  <2>4. job' = [job EXCEPT ![j] = job[j]]
    BY <1>4, <2>1 DEF HashInv, HashTypes
  <2>5. Items(e.vec) = Items(at[p].vec) \ {j}
    BY <1>2 DEF j
  <2> QED BY <1>1, <1>2, <1>4, <1>6, <1>7, <2>2, <2>3, <2>4, <2>5, GivenKeeps
<1>9. CASE GivePad(p)
  <2> DEFINE r == [state |-> job[j].state, alg |-> job[j].alg, len |-> job[j].pad, pad |-> 0,
                   opad |-> job[j].opad, hashed |-> job[j].hashed, need |-> job[j].need]
  <2>1. /\ job[j].len = at[p].min /\ PutHead(at[p].q, j)
        /\ job' = [job EXCEPT ![j] = [job[j] EXCEPT !.len = job[j].pad, !.pad = 0]]
    BY <1>9 DEF GivePad
  <2>5. Items(e.vec) = Items(at[p].vec) \ {j}
    BY <1>2
  <2> HIDE DEF j
  <2>2. Gains(at[p].q, j)
    BY <1>4, <1>5, <1>7, <2>1, PutHeadGains DEF HashInv, HashTypes
  <2>3. r \in JobRecords /\ Whole(r) /\ r.state = job[j].state
    BY SMTT(30), <1>3, <1>6, <2>1 DEF Given, Whole, JobRecords, Outer
  <2>4. job' = [job EXCEPT ![j] = r]
    <3>1. job[j].pad \in Nat
      BY <1>6 DEF JobRecords
    <3>2. PICK x \in Nat, y \in Nat, f \in JobRecords : x = job[j].pad /\ y = 0 /\ f = job[j]
      BY <1>6, <3>1
    <3>3. [f EXCEPT !.len = x, !.pad = y]
            = [state |-> f.state, alg |-> f.alg, len |-> x, pad |-> y, opad |-> f.opad,
               hashed |-> f.hashed, need |-> f.need]
      BY Zenon, JobSet
    <3>4. [job[j] EXCEPT !.len = job[j].pad, !.pad = 0] = r
      BY Zenon, <3>2, <3>3
    <3> HIDE DEF r
    <3> QED BY <2>1, <3>4
  <2> HIDE DEF r
  <2> QED BY <1>1, <1>2, <1>3, <1>4, <1>7, <2>2, <2>3, <2>4, <2>5, GivenKeeps
<1>10. CASE GiveBack(p)
  <2> DEFINE r == [job[j] EXCEPT !.len = job[j].len - at[p].min]
  <2>1. PutHead(at[p].q, j) /\ job' = [job EXCEPT ![j] = r]
    BY <1>10 DEF GiveBack
  <2>5. Items(e.vec) = Items(at[p].vec) \ {j}
    BY <1>2
  <2> HIDE DEF j
  <2>2. Gains(at[p].q, j)
    BY <1>4, <1>5, <1>7, <2>1, PutHeadGains DEF HashInv, HashTypes
  <2>3. r \in JobRecords /\ Whole(r) /\ r.state = job[j].state
    <3>1. at[p].min \in Nat /\ job[j].len - at[p].min \in Nat
      BY <1>3, <1>6 DEF Given, JobRecords
    <3> QED BY <1>6, <3>1 DEF Given, Whole, JobRecords, Outer
  <2> HIDE DEF r
  <2> QED BY <1>1, <1>2, <1>3, <1>4, <1>7, <2>1, <2>2, <2>3, <2>5, GivenKeeps
<1> QED BY <1>8, <1>9, <1>10 DEF GiveFinished, GivePad, GiveBack

\* The shortest job's length is a length of one of them and exceeds none.
LEMMA ShortestIs ==
  ASSUME HashTypes, NEW v \in Seq(Jobs), v # << >>
  PROVE  Shortest(v) \in Nat /\ \A j \in Items(v) : Shortest(v) <= job[j].len
<1> DEFINE T == {job[v[i]].len : i \in DOMAIN v}
<1>1. \A i \in DOMAIN v : v[i] \in Jobs /\ job[v[i]] \in JobRecords /\ job[v[i]].len \in Nat
  BY DEF HashTypes, JobRecords
<1>2. T \in SUBSET Nat
  BY <1>1
<1>3. T # {}
  <2>1. 1 \in DOMAIN v
    OBVIOUS
  <2> QED BY <2>1
<1>4. \E x \in T : \A y \in T : x <= y
  <2> HIDE DEF T
  <2> QED BY <1>2, <1>3, LeastNat
<1>5. \E x \in T : \A i \in DOMAIN v : x <= job[v[i]].len
  BY <1>4
<1>6. Shortest(v) \in T /\ \A i \in DOMAIN v : Shortest(v) <= job[v[i]].len
  BY <1>5 DEF Shortest
<1>7. Shortest(v) \in Nat
  BY <1>2, <1>6
<1> QED BY <1>6, <1>7 DEF Items

\* The vector unit hashes the same number of blocks of every job it is given.
LEMMA WorkKeeps ==
  ASSUME HashInv, NEW p \in Readers, Work(p)
  PROVE  HashInv'
<1> DEFINE v == at[p].vec
           m == Shortest(v)
           e == [pc |-> "give", n |-> at[p].n, q |-> at[p].q, vec |-> v, min |-> m]
<1>1. /\ at[p].pc = "get" /\ v # << >> /\ UNCHANGED <<list, next>>
      /\ job' = [j \in Jobs |-> IF \E i \in DOMAIN v : v[i] = j
                                THEN [job[j] EXCEPT !.hashed = job[j].hashed + m]
                                ELSE job[j]]
      /\ at' = [at EXCEPT ![p] = [at[p] EXCEPT !.pc = "give", !.min = m]]
  BY DEF Work
<1>2. at[p] \in Hands /\ v \in Seq(Jobs)
  BY DEF HashInv, HashTypes, Hands
<1>3. m \in Nat /\ \A j \in Items(v) : m <= job[j].len
  <2> HIDE DEF v
  <2> QED BY <1>1, <1>2, ShortestIs DEF HashInv
<1> HIDE DEF m
<1>4. at' = [at EXCEPT ![p] = e] /\ e \in Hands /\ e.pc = "give" /\ e.vec = v /\ e.min = m
  <2>1. PICK f \in Hands : f = at[p]
    BY <1>2
  <2>2. [f EXCEPT !.pc = "give", !.min = m]
          = [pc |-> "give", n |-> f.n, q |-> f.q, vec |-> f.vec, min |-> m]
    BY Zenon, <1>3, HandMin
  <2>3. [at[p] EXCEPT !.pc = "give", !.min = m] = e
    BY Zenon, <2>1, <2>2
  <2>4. e \in Hands /\ e.pc = "give" /\ e.vec = v /\ e.min = m
    BY <1>2, <1>3 DEF Hands
  <2> HIDE DEF e
  <2> QED BY <1>1, <2>3, <2>4
<1>5. Row(p) = v /\ p \in Holders
  BY HandRow
<1> HIDE DEF v, e
<1>6. \A j \in Jobs : /\ j \in Items(v) => job'[j] = [job[j] EXCEPT !.hashed = job[j].hashed + m]
                      /\ j \notin Items(v) => job'[j] = job[j]
  BY <1>1 DEF Items
<1>7. \A j \in Jobs : job[j] \in JobRecords
  BY DEF HashInv, HashTypes
<1>8. \A j \in Jobs : /\ job'[j] \in JobRecords /\ job'[j].state = job[j].state
                      /\ j \in Items(v) => /\ job'[j].hashed = job[j].hashed + m
                                           /\ job'[j].len = job[j].len
                                           /\ job'[j].pad = job[j].pad
                                           /\ job'[j].opad = job[j].opad
                                           /\ job'[j].need = job[j].need
  <2> SUFFICES ASSUME NEW j \in Jobs
               PROVE  /\ job'[j] \in JobRecords /\ job'[j].state = job[j].state
                      /\ j \in Items(v) => /\ job'[j].hashed = job[j].hashed + m
                                           /\ job'[j].len = job[j].len
                                           /\ job'[j].pad = job[j].pad
                                           /\ job'[j].opad = job[j].opad
                                           /\ job'[j].need = job[j].need
    OBVIOUS
  <2>1. CASE j \in Items(v)
    <3>1. job'[j] = [job[j] EXCEPT !.hashed = job[j].hashed + m] /\ job[j] \in JobRecords
      BY <1>6, <1>7, <2>1
    <3>2. job[j].hashed + m \in Nat
      BY <1>3, <3>1 DEF JobRecords
    <3> QED BY <3>1, <3>2 DEF JobRecords
  <2>2. CASE j \notin Items(v)
    BY <1>6, <1>7, <2>2
  <2> QED BY <2>1, <2>2
<1>9. job' \in [Jobs -> JobRecords]
  <2>1. job' = [j \in Jobs |-> job'[j]]
    BY <1>1
  <2> QED BY <1>8, <2>1
<1>10. ListTypes' /\ HashLists' /\ \A l \in Lists : Row(l)' = Row(l)
  BY <1>1, ListsStay DEF HashInv, HashTypes
<1>11. \A u \in Readers : at'[u] = IF u = p THEN e ELSE at[u]
  BY <1>4 DEF HashInv, HashTypes
<1>12. \A u \in Readers : Row(u)' = Row(u)
  BY <1>4, <1>5, <1>11, HandRow
<1>13. \A h \in Holders : Row(h)' = Row(h)
  BY <1>10, <1>12 DEF Holders
<1>14. HashRows' /\ HashLive'
  BY <1>8, <1>13, RowsStay DEF HashInv
<1>15. HashTypes'
  BY <1>4, <1>9, <1>10 DEF HashInv, HashTypes
<1>16. HashHands'
  <2>1. e.pc = "give" /\ e.vec # << >>
    BY <1>1, <1>4
  <2> QED BY <1>11, <2>1 DEF HashInv, HashHands
<1>17. \A h \in Holders : h # p => \A j \in Items(Row(h)) : j \in Jobs /\ job'[j] = job[j]
  <2> SUFFICES ASSUME NEW h \in Holders, h # p, NEW j \in Items(Row(h))
               PROVE  j \in Jobs /\ job'[j] = job[j]
    OBVIOUS
  <2>1. j \in Jobs
    BY RowJobs
  <2>2. j \notin Items(v)
    BY <1>5 DEF HashInv, HashRows
  <2> QED BY <1>6, <2>1, <2>2
<1>18. HashOwes'
  <2>1. /\ Algs \subseteq Holders /\ "recv" \in Holders /\ Readers \subseteq Holders
        /\ p \notin Algs /\ p # "recv"
    BY HandRow DEF Holders, Lists
  <2>2. \A a \in Algs : \A j \in Items(Row(a)') : Whole(job'[j])
    <3> SUFFICES ASSUME NEW a \in Algs, NEW j \in Items(Row(a)') PROVE Whole(job'[j])
      OBVIOUS
    <3>1. j \in Items(Row(a)) /\ job'[j] = job[j]
      BY <1>13, <1>17, <2>1
    <3> QED BY <3>1 DEF HashInv, HashOwes
  <2>3. \A j \in Items(Row("recv")') : Inner(job'[j])
    <3> SUFFICES ASSUME NEW j \in Items(Row("recv")') PROVE Inner(job'[j])
      OBVIOUS
    <3>1. j \in Items(Row("recv")) /\ job'[j] = job[j]
      BY <1>13, <1>17, <2>1
    <3> QED BY <3>1 DEF HashInv, HashOwes
  <2>4. \A u \in Readers : \A j \in Items(Row(u)') :
          IF at'[u].pc = "give" THEN Given(job'[j], at'[u].min) ELSE Whole(job'[j])
    <3> SUFFICES ASSUME NEW u \in Readers, NEW j \in Items(Row(u)')
                 PROVE  IF at'[u].pc = "give" THEN Given(job'[j], at'[u].min)
                        ELSE Whole(job'[j])
      OBVIOUS
    <3>1. CASE u # p
      <4>1. j \in Items(Row(u)) /\ job'[j] = job[j] /\ at'[u] = at[u]
        BY <1>11, <1>13, <1>17, <2>1, <3>1
      <4> QED BY <4>1 DEF HashInv, HashOwes
    <3>2. CASE u = p
      <4>1. j \in Items(v) /\ at'[p].pc = "give" /\ at'[p].min = m
        BY <1>4, <1>5, <1>11, <1>12, <3>2
      <4>2. j \in Jobs
        BY <1>5, <4>1, RowJobs
      <4>3. Whole(job[j])
        BY <1>1, <1>5, <4>1 DEF HashInv, HashOwes
      <4>4. m <= job[j].len /\ job[j] \in JobRecords
        BY <1>3, <1>7, <4>1, <4>2
      <4>5. /\ job'[j].hashed = job[j].hashed + m /\ job'[j].len = job[j].len
            /\ job'[j].pad = job[j].pad /\ job'[j].opad = job[j].opad
            /\ job'[j].need = job[j].need
        BY <1>8, <4>1, <4>2
      <4>6. Given(job'[j], m)
        BY <1>3, <4>3, <4>4, <4>5 DEF Whole, Given, Outer, JobRecords
      <4> QED BY <3>2, <4>1, <4>6
    <3> QED BY <3>1, <3>2
  <2>5. \A j \in Jobs : job'[j].state \in {"none", "freed"} => job'[j].hashed = job'[j].need
    <3> SUFFICES ASSUME NEW j \in Jobs, job'[j].state \in {"none", "freed"}
                 PROVE  job'[j].hashed = job'[j].need
      OBVIOUS
    <3>1. job[j].state \in {"none", "freed"}
      BY <1>8
    <3>2. j \notin Items(v)
      BY <1>5, <3>1 DEF HashInv, HashLive
    <3> QED BY <1>6, <3>1, <3>2 DEF HashInv, HashOwes
  <2> QED BY <2>2, <2>3, <2>4, <2>5 DEF HashOwes
<1> QED BY <1>10, <1>14, <1>15, <1>16, <1>18 DEF HashInv

\* One step of the multi-buffer driver.
LEMMA HashStep == HashInv /\ [HNext]_hashVars => HashInv'
<1> SUFFICES ASSUME HashInv, [HNext]_hashVars PROVE HashInv'
  OBVIOUS
<1>1. CASE UNCHANGED hashVars
  <2>1. UNCHANGED <<list, next>> /\ job' = job /\ at' = at
    BY <1>1 DEF hashVars
  <2>2. ListTypes' /\ HashLists' /\ \A l \in Lists : Row(l)' = Row(l)
    BY <2>1, ListsStay DEF HashInv, HashTypes
  <2>3. \A u \in Readers : Row(u)' = Row(u)
    BY <2>1, HandRow
  <2>4. \A h \in Holders : Row(h)' = Row(h)
    BY <2>2, <2>3 DEF Holders
  <2>5. HashRows' /\ HashLive'
    BY <2>1, <2>4, RowsStay DEF HashInv
  <2>6. HashTypes' /\ HashHands'
    BY <2>1, <2>2 DEF HashInv, HashTypes, HashHands
  <2>7. HashOwes'
    BY <2>1, <2>2, <2>3 DEF HashInv, HashOwes, Lists
  <2> QED BY <2>2, <2>5, <2>6, <2>7 DEF HashInv
<1>2. CASE AllDone
  BY <1>1, <1>2 DEF AllDone
<1>3. ASSUME NEW j \in Jobs, Send(j)
      PROVE  HashInv'
  BY <1>3, SendKeeps
<1>4. ASSUME NEW p \in Readers, Poll(p)
      PROVE  HashInv'
  BY <1>4, PollerSteps, FindDoneKeeps, FindHmacKeeps, RequeueKeeps, GetKeeps, WorkKeeps,
     GiveKeeps DEF Poll
<1> QED BY <1>1, <1>2, <1>3, <1>4 DEF HNext

\* A job in a row is in one place there, and in no other row.
LEMMA PlacesOf ==
  ASSUME HashInv, NEW j \in Jobs
  PROVE  IF job[j].state = "live" THEN \E x : Places(j) = {x} ELSE Places(j) = {}
<1>1. \A h \in Holders : Row(h) \in Seq(Jobs) /\ NoDup(Row(h))
  BY RowJobs
<1>2. CASE job[j].state = "live"
  <2>1. PICK h \in Holders : j \in Items(Row(h))
    BY <1>2 DEF HashInv, HashLive
  <2>2. PICK i \in DOMAIN Row(h) : Row(h)[i] = j
    BY <2>1 DEF Items
  <2>3. \A g \in Holders : \A k \in DOMAIN Row(g) : Row(g)[k] = j => g = h /\ k = i
    <3> SUFFICES ASSUME NEW g \in Holders, NEW k \in DOMAIN Row(g), Row(g)[k] = j
                 PROVE  g = h /\ k = i
      OBVIOUS
    <3>1. j \in Items(Row(g))
      BY DEF Items
    <3>2. g = h
      BY <2>1, <3>1 DEF HashInv, HashRows
    <3> QED BY <1>1, <2>2, <3>2 DEF NoDup
  <2>4. Places(j) = {<<h, i>>}
    <3>1. <<h, i>> \in Places(j)
      BY <2>2 DEF Places
    <3>2. \A x \in Places(j) : x = <<h, i>>
      <4> SUFFICES ASSUME NEW x \in Places(j) PROVE x = <<h, i>>
        OBVIOUS
      <4>1. PICK g \in Holders : x \in {<<g, k>> : k \in {n \in DOMAIN Row(g) : Row(g)[n] = j}}
        BY DEF Places
      <4>2. PICK k \in DOMAIN Row(g) : Row(g)[k] = j /\ x = <<g, k>>
        BY <4>1
      <4> QED BY <2>3, <4>2
    <3> QED BY <3>1, <3>2
  <2> QED BY <1>2, <2>4
<1>3. CASE job[j].state # "live"
  <2>1. \A h \in Holders : \A k \in DOMAIN Row(h) : Row(h)[k] # j
    BY <1>3 DEF HashInv, HashLive, Items
  <2>2. Places(j) = {}
    BY <2>1 DEF Places
  <2> QED BY <1>3, <2>2
<1> QED BY <1>2, <1>3

\* Whatever jobs are sent and however the pollers interleave, the counters and
\* the stale next pointers lead to every queued job once, and a job is handed
\* out when exactly its blocks were hashed (hash_mb_add_job_head,
\* hash_mb_do_jobs).
THEOREM HashJobsExact == HSpec => []JobsExact
<1>1. HashInv => JobsExact
  <2> SUFFICES ASSUME HashInv PROVE OnePlace /\ WholeJob
    BY DEF JobsExact
  <2>1. \A l \in Lists : Trails(list[l].head, list[l].num, next) # {}
    BY DEF HashInv, HashLists
  <2>2. \A j \in Jobs : Cardinality(Places(j)) = IF job[j].state = "live" THEN 1 ELSE 0
    BY PlacesOf, FS_EmptySet, FS_Singleton
  <2>3. \A j \in Jobs : /\ job[j].hashed <= job[j].need
                        /\ job[j].state = "freed" => job[j].hashed = job[j].need
    <3> SUFFICES ASSUME NEW j \in Jobs
                 PROVE  /\ job[j].hashed <= job[j].need
                        /\ job[j].state = "freed" => job[j].hashed = job[j].need
      OBVIOUS
    <3>1. job[j] \in JobRecords
      BY DEF HashInv, HashTypes
    <3>2. CASE job[j].state \in {"none", "freed"}
      BY <3>1, <3>2 DEF HashInv, HashOwes, JobRecords
    <3>3. CASE job[j].state = "live"
      <4>1. PICK h \in Holders : j \in Items(Row(h))
        BY <3>3 DEF HashInv, HashLive
      <4>2. CASE h \in Algs
        BY <3>1, <3>3, <4>1, <4>2 DEF HashInv, HashOwes, Whole, Outer, JobRecords
      <4>3. CASE h = "recv"
        BY <3>1, <3>3, <4>1, <4>3 DEF HashInv, HashOwes, Inner, Outer, JobRecords
      <4>4. CASE h \in Readers
        <5>1. at[h].min \in Nat
          BY <4>4 DEF HashInv, HashTypes, Hands
        <5>2. Whole(job[j]) \/ Given(job[j], at[h].min)
          BY <4>1, <4>4 DEF HashInv, HashOwes
        <5> QED BY <3>1, <3>3, <5>1, <5>2 DEF Whole, Given, Outer, JobRecords
      <4> QED BY <4>2, <4>3, <4>4 DEF Holders, Lists
    <3> QED BY <3>1, <3>2, <3>3 DEF JobRecords
  <2> QED BY <2>1, <2>2, <2>3 DEF OnePlace, WholeJob
<1> QED BY <1>1, HashStart, HashStep, PTL DEF HSpec
=============================================================================
