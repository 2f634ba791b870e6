-------------------------- MODULE AsyncPathProofs --------------------------
(***************************************************************************)
(* The asynchronous path for any number of threads, messages and requests: *)
(* the pool, which has no lock, never hands a message to two of them, loses*)
(* none, and every callback is called at most once, with its own request.  *)
(*                                                                         *)
(* A message that is taken has exactly one owner: the sender that took it, *)
(* the packet or answer that carries its tag, the poller that received the *)
(* answer, or a request whose answer was spoilt, which keeps it for ever.  *)
(* What each owner may do to the message is safe because it is the only    *)
(* one; that it stays the only one needs the requests to be told apart: a  *)
(* request is in one place at a time, and no two messages ever store the   *)
(* same one, not even a stale one.                                         *)
(*                                                                         *)
(* At the end, the streams of a session (CompStream): the outputs of all   *)
(* calls hold what the device made, a count of bytes being the size of the *)
(* set of their places.                                                    *)
(***************************************************************************)
EXTENDS AsyncPath, CompStream, RingArith, FiniteSetTheorems, SequenceTheorems, TLAPS

Holding == {"tail", "fill", "send", "fail"}
Received == {"find", "put"}
Flying == wire \cup answers
RealPackets == [req : Reqs, tag : 0 .. MsgNum]

TypeInv ==
  /\ used \in [Slots -> {0, 1}]
  /\ msgs \in [Slots -> Reqs \cup {None}]
  /\ tail \in Slots
  /\ wire \in SUBSET RealPackets
  /\ answers \in SUBSET RealPackets
  /\ spc \in [Senders -> {"idle", "scan"} \cup Holding]
  /\ idx \in [Senders -> Slots]
  /\ cnt \in [Senders -> Nat]
  /\ req \in [Senders -> Reqs \cup {None}]
  /\ ppc \in [Pollers -> {"idle", "recv"} \cup Received]
  /\ tmp \in [Pollers -> Nat]
  /\ resp \in [Pollers -> RealPackets \cup {Nothing}]
  /\ issued \in 0 .. MaxReq
  /\ accepted \in SUBSET Reqs
  /\ refused \in SUBSET Reqs
  /\ calls \in [Reqs -> {0, 1}]
  /\ lost \in SUBSET Reqs

\* Every request is below issued, accepted and refused are disjoint outcomes.
OutcomeInv ==
  /\ \A r \in accepted \cup refused : r < issued
  /\ accepted \cap refused = {}
  /\ lost \subseteq accepted
  /\ \A r \in Reqs : calls[r] = 1 => r \in accepted

\* A call in progress has a request of its own, without an outcome yet.
CallerInv ==
  /\ \A s \in Senders : spc[s] # "idle" =>
       /\ req[s] \in Reqs /\ req[s] < issued
       /\ req[s] \notin accepted \cup refused
  /\ \A s, t \in Senders : s # t /\ spc[s] # "idle" /\ spc[t] # "idle" =>
       req[s] # req[t]

\* A request in flight was accepted, not called back, and flies once.
FlyInv ==
  /\ \A e \in Flying : e.req \in accepted /\ calls[e.req] = 0
  /\ \A e, f \in Flying : e.req = f.req => e = f
  /\ wire \cap answers = {}
  /\ \A e \in wire : e.tag # 0

\* So is a request with a poller, and it is nowhere else.
RespInv ==
  /\ \A p \in Pollers : ppc[p] \in Received =>
       /\ resp[p] \in RealPackets
       /\ resp[p].req \in accepted
       /\ \A e \in Flying : e.req # resp[p].req
       /\ ppc[p] = "find" => calls[resp[p].req] = 0
       /\ ppc[p] = "put" => resp[p].tag # 0
  /\ \A p, q \in Pollers :
       p # q /\ ppc[p] \in Received /\ ppc[q] \in Received =>
         resp[p].req # resp[q].req

\* No two messages store the same request.
StoredInv ==
  /\ \A i \in Slots : msgs[i] # None => msgs[i] < issued
  /\ \A i, j \in Slots : msgs[i] = msgs[j] /\ msgs[i] # None => i = j

\* A call's request is in no message before fill_request_msg, then in its own.
FilledInv ==
  /\ \A s \in Senders : spc[s] \in {"scan", "tail", "fill"} =>
       \A i \in Slots : msgs[i] # req[s]
  /\ \A s \in Senders : spc[s] \in {"send", "fail"} => msgs[idx[s]] = req[s]

\* A message has one owner: a sender ...
SenderOwns ==
  /\ \A s \in Senders : spc[s] \in Holding => used[idx[s]] = 1
  /\ \A s, t \in Senders : s # t /\ spc[s] \in Holding /\ spc[t] \in Holding =>
       idx[s] # idx[t]

\* ... a packet or answer ...
PacketOwns ==
  /\ \A e \in Flying : e.tag # 0 => used[e.tag - 1] = 1
  /\ \A e \in Flying, s \in Senders : spc[s] \in Holding => e.tag # idx[s] + 1

\* ... a poller ...
PollerOwns ==
  /\ \A p \in Pollers : ppc[p] \in Received /\ resp[p].tag # 0 =>
       used[resp[p].tag - 1] = 1
  /\ \A p \in Pollers, s \in Senders :
       ppc[p] \in Received /\ spc[s] \in Holding => resp[p].tag # idx[s] + 1

\* ... or a lost request.
LostOwns ==
  \A i \in Slots : msgs[i] \in lost =>
    /\ used[i] = 1
    /\ \A s \in Senders : ~SenderHolds(s, i)
    /\ \A e \in Flying : e.tag # i + 1
    /\ \A p \in Pollers : ~PollerHolds(p, i)

\* Every message that is taken has one of these owners.
Owned(i) == \/ \E s \in Senders : SenderHolds(s, i)
            \/ \E e \in Flying : e.tag = i + 1
            \/ \E p \in Pollers : PollerHolds(p, i)
            \/ msgs[i] \in lost
TakenOwned == \A i \in Slots : used[i] = 1 => Owned(i)

RequestInv == OutcomeInv /\ CallerInv
FlightInv == FlyInv /\ RespInv
StoreInv == StoredInv /\ FilledInv /\ TagNamesRequest
OwnerInv == SenderOwns /\ PacketOwns /\ PollerOwns /\ LostOwns /\ TakenOwned

IInv == TypeInv /\ RequestInv /\ FlightInv /\ StoreInv /\ OwnerInv

\* The scan of wd_get_msg_from_pool stays within the pool.
LEMMA NextInSlots == \A i \in Slots : (i + 1) % MsgNum \in Slots
  BY PoolAssumption, DivMod DEF Slots

\* The tag of a packet in flight is one of the pool's, or broken.
LEMMA PacketTag == IInv => \A e \in Flying : e.tag \in 0 .. MsgNum
  BY DEF IInv, TypeInv, Flying, RealPackets

\* So is the tag a poller received.
LEMMA RespTag ==
  IInv => \A p \in Pollers : ppc[p] \in Received => resp[p].tag \in 0 .. MsgNum
  BY DEF IInv, FlightInv, RespInv, RealPackets

\* A tag that is not broken names a message.
LEMMA PacketSlot == IInv => \A e \in Flying : e.tag # 0 => e.tag - 1 \in Slots
  BY PacketTag, PoolAssumption DEF Slots

\* The same for the answer a poller holds.
LEMMA RespSlot == IInv => \A p \in Pollers :
  ppc[p] \in Received /\ resp[p].tag # 0 => resp[p].tag - 1 \in Slots
  BY RespTag, PoolAssumption DEF Slots

\* The invariant holds in a fresh pool over an idle queue.
LEMMA InitIInv == Init => IInv
  BY PoolAssumption
  DEF Init, IInv, TypeInv, RequestInv, OutcomeInv, CallerInv, FlightInv,
      FlyInv, RespInv, StoreInv, StoredInv, FilledInv, TagNamesRequest, OwnerInv,
      SenderOwns, PacketOwns, PollerOwns, LostOwns, TakenOwned, CalledBack,
      Slots, Flying, Holding, Received, Nothing, None

\* A refused call only counts its request.
LEMMA AsyncRefusedKeeps ==
  ASSUME IInv, NEW s \in Senders, AsyncRefused(s) PROVE IInv'
<1>1. /\ issued < MaxReq
      /\ issued' = issued + 1
      /\ refused' = refused \cup {issued}
      /\ UNCHANGED <<used, msgs, tail, wire, answers, spc, idx, cnt, req,
                    ppc, tmp, resp, accepted, calls, lost>>
  BY DEF AsyncRefused, poolVars, wireVars, sendVars, pollVars, histVars
<1>2. FlyInv' /\ RespInv' /\ FilledInv' /\ TagNamesRequest' /\ SenderOwns'
      /\ PacketOwns' /\ PollerOwns' /\ LostOwns' /\ TakenOwned'
  BY <1>1 DEF IInv, FlightInv, StoreInv, OwnerInv, FlyInv, Flying, RespInv,
      FilledInv, TagNamesRequest, CalledBack, SenderOwns, PacketOwns,
      PollerOwns, LostOwns, SenderHolds, PollerHolds, TakenOwned, Owned
<1>3. TypeInv'
  BY <1>1, PoolAssumption DEF IInv, TypeInv, Reqs
<1>4. OutcomeInv'
  BY <1>1, PoolAssumption DEF IInv, RequestInv, OutcomeInv, TypeInv, Reqs
<1>5. CallerInv'
  BY <1>1, PoolAssumption DEF IInv, RequestInv, CallerInv, TypeInv, Reqs
<1>6. StoredInv'
  BY <1>1, PoolAssumption DEF IInv, StoreInv, StoredInv, TypeInv, Reqs, None
<1> QED BY <1>2, <1>3, <1>4, <1>5, <1>6 DEF IInv, RequestInv, FlightInv,
      StoreInv, OwnerInv

\* The new request is issued, so it differs from every request so far.
LEMMA AsyncStartKeeps ==
  ASSUME IInv, NEW s \in Senders, AsyncStart(s) PROVE IInv'
<1>1. /\ spc[s] = "idle" /\ issued < MaxReq
      /\ issued' = issued + 1
      /\ req' = [req EXCEPT ![s] = issued]
      /\ idx' = [idx EXCEPT ![s] = tail]
      /\ cnt' = [cnt EXCEPT ![s] = 0]
      /\ spc' = [spc EXCEPT ![s] = "scan"]
      /\ UNCHANGED <<used, msgs, tail, wire, answers, ppc, tmp, resp,
                    accepted, refused, calls, lost>>
  BY DEF AsyncStart, SendGoto, poolVars, wireVars, sendVars, pollVars,
      histVars
<1>2. issued \in Reqs /\ issued' \in 0 .. MaxReq
  BY <1>1, PoolAssumption DEF IInv, TypeInv, Reqs
<1>3. /\ spc'[s] = "scan" /\ req'[s] = issued
      /\ \A t \in Senders \ {s} :
           spc'[t] = spc[t] /\ req'[t] = req[t] /\ idx'[t] = idx[t]
  BY <1>1 DEF IInv, TypeInv
<1>4. FlyInv' /\ RespInv' /\ TagNamesRequest'
  BY <1>1 DEF IInv, FlightInv, StoreInv, FlyInv, Flying, RespInv,
      TagNamesRequest, CalledBack
<1>5. TypeInv'
  BY <1>1, <1>2 DEF IInv, TypeInv
<1>6. OutcomeInv'
  BY <1>1, <1>2 DEF IInv, RequestInv, OutcomeInv, TypeInv, Reqs
<1>7. CallerInv'
  BY <1>1, <1>2, <1>3 DEF IInv, RequestInv, CallerInv, TypeInv, OutcomeInv,
      Reqs
<1>8. StoredInv'
  BY <1>1, <1>2 DEF IInv, StoreInv, StoredInv, TypeInv, Reqs, None
<1>9. FilledInv'
  BY <1>1, <1>2, <1>3 DEF IInv, StoreInv, FilledInv, TypeInv, StoredInv,
      Reqs, None
<1>10. SenderOwns'
  BY <1>1, <1>3 DEF IInv, OwnerInv, SenderOwns, Holding
<1>11. PacketOwns'
  BY <1>1, <1>3 DEF IInv, OwnerInv, PacketOwns, Flying, Holding
<1>12. PollerOwns'
  BY <1>1, <1>3 DEF IInv, OwnerInv, PollerOwns, Holding
<1>13. LostOwns'
  BY <1>1, <1>3 DEF IInv, OwnerInv, LostOwns, SenderHolds, PollerHolds,
      Flying
<1>14. TakenOwned'
  BY <1>1, <1>3 DEF IInv, OwnerInv, TakenOwned, Owned, SenderHolds,
      PollerHolds, Flying
<1> QED BY <1>4, <1>5, <1>6, <1>7, <1>8, <1>9, <1>10, <1>11, <1>12, <1>13,
      <1>14 DEF IInv, RequestInv, FlightInv, StoreInv, OwnerInv

\* Test-and-set: the message had no owner, and the sender becomes it.
LEMMA GetMsgTakeKeeps ==
  ASSUME IInv, NEW s \in Senders, GetMsgTake(s) PROVE IInv'
<1>1. /\ spc[s] = "scan" /\ used[idx[s]] = 0
      /\ used' = [used EXCEPT ![idx[s]] = 1]
      /\ spc' = [spc EXCEPT ![s] = "tail"]
      /\ UNCHANGED <<msgs, tail, wire, answers, idx, cnt, req, ppc, tmp,
                    resp, issued, accepted, refused, calls, lost>>
  BY DEF GetMsgTake, SendGoto, poolVars, wireVars, sendVars, pollVars,
      histVars
<1>2. /\ idx[s] \in Slots
      /\ spc'[s] = "tail" /\ \A t \in Senders \ {s} : spc'[t] = spc[t]
      /\ used'[idx[s]] = 1 /\ \A i \in Slots \ {idx[s]} : used'[i] = used[i]
  BY <1>1 DEF IInv, TypeInv
<1>3. \A e \in Flying : e.tag # idx[s] + 1
  <2> SUFFICES ASSUME NEW e \in Flying, e.tag = idx[s] + 1 PROVE FALSE
    OBVIOUS
  <2>1. e.tag - 1 = idx[s] /\ e.tag # 0
    BY <1>2, PoolAssumption DEF Slots
  <2> QED BY <1>1, <2>1 DEF IInv, OwnerInv, PacketOwns
<1>4. \A p \in Pollers : ppc[p] \in Received => resp[p].tag # idx[s] + 1
  <2> SUFFICES ASSUME NEW p \in Pollers, ppc[p] \in Received,
                      resp[p].tag = idx[s] + 1
               PROVE  FALSE
    OBVIOUS
  <2>1. resp[p].tag - 1 = idx[s] /\ resp[p].tag # 0
    BY <1>2, PoolAssumption DEF Slots
  <2> QED BY <1>1, <2>1 DEF IInv, OwnerInv, PollerOwns
<1>5. \A i \in Slots : used[i] = 1 => used'[i] = 1
  BY <1>2
<1>6. OutcomeInv' /\ FlyInv' /\ RespInv' /\ StoredInv' /\ TagNamesRequest'
  BY <1>1 DEF IInv, RequestInv, FlightInv, StoreInv, OutcomeInv, FlyInv,
      Flying, RespInv, StoredInv, TagNamesRequest, CalledBack
<1>7. TypeInv'
  BY <1>1 DEF IInv, TypeInv, Holding
<1>8. CallerInv'
  BY <1>1, <1>2 DEF IInv, RequestInv, CallerInv
<1>9. FilledInv'
  BY <1>1, <1>2 DEF IInv, StoreInv, FilledInv
<1>10. SenderOwns'
  BY <1>1, <1>2 DEF IInv, OwnerInv, SenderOwns, TypeInv, Holding
<1>11. PacketOwns'
  BY <1>1, <1>2, <1>3, <1>5, PacketSlot DEF IInv, OwnerInv, PacketOwns,
      Flying, Holding
<1>12. PollerOwns'
  BY <1>1, <1>2, <1>4, <1>5, RespSlot DEF IInv, OwnerInv, PollerOwns, Holding
<1>13. LostOwns'
  BY <1>1, <1>2, <1>3, <1>4 DEF IInv, OwnerInv, LostOwns, SenderHolds,
      PollerHolds, Flying, Received
<1>14. TakenOwned'
  BY <1>1, <1>2, <1>5 DEF IInv, OwnerInv, TakenOwned, Owned, SenderHolds,
      PollerHolds, Flying, Holding
<1> QED BY <1>6, <1>7, <1>8, <1>9, <1>10, <1>11, <1>12, <1>13, <1>14 DEF
      IInv, RequestInv, FlightInv, StoreInv, OwnerInv

\* The scan moves on.
LEMMA GetMsgNextKeeps ==
  ASSUME IInv, NEW s \in Senders, GetMsgNext(s) PROVE IInv'
<1>1. /\ spc[s] = "scan"
      /\ idx' = [idx EXCEPT ![s] = (idx[s] + 1) % MsgNum]
      /\ cnt' = [cnt EXCEPT ![s] = cnt[s] + 1]
      /\ UNCHANGED <<used, msgs, tail, wire, answers, spc, req, ppc, tmp,
                    resp, issued, accepted, refused, calls, lost>>
  BY DEF GetMsgNext, poolVars, wireVars, sendVars, pollVars, histVars
<1>2. /\ idx[s] \in Slots /\ (idx[s] + 1) % MsgNum \in Slots
      /\ \A t \in Senders \ {s} : idx'[t] = idx[t]
  BY <1>1, NextInSlots DEF IInv, TypeInv
<1>3. OutcomeInv' /\ CallerInv' /\ FlyInv' /\ RespInv' /\ StoredInv' /\
      TagNamesRequest'
  BY <1>1 DEF IInv, RequestInv, FlightInv, StoreInv, OutcomeInv, CallerInv,
      FlyInv, Flying, RespInv, StoredInv, TagNamesRequest, CalledBack
<1>4. TypeInv'
  <2>1. idx' \in [Senders -> Slots]
    BY <1>1, <1>2 DEF IInv, TypeInv
  <2>2. cnt' \in [Senders -> Nat]
    BY <1>1 DEF IInv, TypeInv
  <2> QED BY <1>1, <2>1, <2>2 DEF IInv, TypeInv
<1>5. FilledInv'
  BY <1>1, <1>2 DEF IInv, StoreInv, FilledInv
<1>6. SenderOwns'
  BY <1>1, <1>2 DEF IInv, OwnerInv, SenderOwns, Holding
<1>7. PacketOwns'
  BY <1>1, <1>2 DEF IInv, OwnerInv, PacketOwns, Flying, Holding
<1>8. PollerOwns'
  BY <1>1, <1>2 DEF IInv, OwnerInv, PollerOwns, Holding
<1>9. LostOwns'
  BY <1>1, <1>2 DEF IInv, OwnerInv, LostOwns, SenderHolds, PollerHolds,
      Flying, Holding
<1>10. TakenOwned'
  BY <1>1, <1>2 DEF IInv, OwnerInv, TakenOwned, Owned, SenderHolds,
      PollerHolds, Flying, Holding
<1> QED BY <1>3, <1>4, <1>5, <1>6, <1>7, <1>8, <1>9, <1>10 DEF IInv,
      RequestInv, FlightInv, StoreInv, OwnerInv

\* The pool is full; the request gets its outcome.
LEMMA GetMsgBusyKeeps ==
  ASSUME IInv, NEW s \in Senders, GetMsgBusy(s) PROVE IInv'
<1>1. /\ spc[s] = "scan"
      /\ refused' = refused \cup {req[s]}
      /\ req' = [req EXCEPT ![s] = None]
      /\ idx' = [idx EXCEPT ![s] = 0]
      /\ cnt' = [cnt EXCEPT ![s] = 0]
      /\ spc' = [spc EXCEPT ![s] = "idle"]
      /\ UNCHANGED <<used, msgs, tail, wire, answers, ppc, tmp, resp,
                    issued, accepted, calls, lost>>
  BY DEF GetMsgBusy, SendReturn, SendGoto, poolVars, wireVars, sendVars,
      pollVars, histVars
<1>2. req[s] \in Reqs /\ req[s] < issued /\ req[s] \notin accepted \cup refused
  BY <1>1 DEF IInv, RequestInv, CallerInv
<1>3. /\ spc'[s] = "idle"
      /\ \A t \in Senders \ {s} :
           spc'[t] = spc[t] /\ req'[t] = req[t] /\ idx'[t] = idx[t]
  BY <1>1 DEF IInv, TypeInv
<1>4. FlyInv' /\ RespInv' /\ StoredInv' /\ TagNamesRequest'
  BY <1>1 DEF IInv, FlightInv, StoreInv, FlyInv, Flying, RespInv, StoredInv,
      TagNamesRequest, CalledBack
<1>5. TypeInv'
  BY <1>1, <1>2, PoolAssumption DEF IInv, TypeInv, Slots, None
<1>6. OutcomeInv'
  BY <1>1, <1>2 DEF IInv, RequestInv, OutcomeInv
<1>7. CallerInv'
  BY <1>1, <1>2, <1>3 DEF IInv, RequestInv, CallerInv
<1>8. FilledInv'
  BY <1>1, <1>3 DEF IInv, StoreInv, FilledInv
<1>9. SenderOwns'
  BY <1>1, <1>3 DEF IInv, OwnerInv, SenderOwns, Holding
<1>10. PacketOwns'
  BY <1>1, <1>3 DEF IInv, OwnerInv, PacketOwns, Flying, Holding
<1>11. PollerOwns'
  BY <1>1, <1>3 DEF IInv, OwnerInv, PollerOwns, Holding
<1>12. LostOwns'
  BY <1>1, <1>3 DEF IInv, OwnerInv, LostOwns, SenderHolds, PollerHolds,
      Flying, Holding
<1>13. TakenOwned'
  BY <1>1, <1>3 DEF IInv, OwnerInv, TakenOwned, Owned, SenderHolds,
      PollerHolds, Flying, Holding
<1> QED BY <1>4, <1>5, <1>6, <1>7, <1>8, <1>9, <1>10, <1>11, <1>12, <1>13
      DEF IInv, RequestInv, FlightInv, StoreInv, OwnerInv

\* The racing write of the tail leaves it a slot.
LEMMA GetMsgTailKeeps ==
  ASSUME IInv, NEW s \in Senders, GetMsgTail(s) PROVE IInv'
<1>1. /\ spc[s] = "tail"
      /\ tail' = (idx[s] + 1) % MsgNum
      /\ spc' = [spc EXCEPT ![s] = "fill"]
      /\ UNCHANGED <<used, msgs, wire, answers, idx, cnt, req, ppc, tmp,
                    resp, issued, accepted, refused, calls, lost>>
  BY DEF GetMsgTail, SendGoto, poolVars, wireVars, sendVars, pollVars,
      histVars
<1>2. /\ tail' \in Slots
      /\ spc'[s] = "fill" /\ \A t \in Senders \ {s} : spc'[t] = spc[t]
  BY <1>1, NextInSlots DEF IInv, TypeInv
<1>3. OutcomeInv' /\ FlyInv' /\ RespInv' /\ StoredInv' /\ TagNamesRequest'
  BY <1>1 DEF IInv, RequestInv, FlightInv, StoreInv, OutcomeInv, FlyInv,
      Flying, RespInv, StoredInv, TagNamesRequest, CalledBack
<1>4. TypeInv'
  BY <1>1, <1>2 DEF IInv, TypeInv, Holding
<1>5. CallerInv'
  BY <1>1, <1>2 DEF IInv, RequestInv, CallerInv
<1>6. FilledInv'
  BY <1>1, <1>2 DEF IInv, StoreInv, FilledInv
<1>7. SenderOwns'
  BY <1>1, <1>2 DEF IInv, OwnerInv, SenderOwns, Holding
<1>8. PacketOwns'
  BY <1>1, <1>2 DEF IInv, OwnerInv, PacketOwns, Flying, Holding
<1>9. PollerOwns'
  BY <1>1, <1>2 DEF IInv, OwnerInv, PollerOwns, Holding
<1>10. LostOwns'
  BY <1>1, <1>2 DEF IInv, OwnerInv, LostOwns, SenderHolds, PollerHolds,
      Flying, Holding
<1>11. TakenOwned'
  BY <1>1, <1>2 DEF IInv, OwnerInv, TakenOwned, Owned, SenderHolds,
      PollerHolds, Flying, Holding
<1> QED BY <1>3, <1>4, <1>5, <1>6, <1>7, <1>8, <1>9, <1>10, <1>11 DEF IInv,
      RequestInv, FlightInv, StoreInv, OwnerInv

\* The sender writes the message it owns: no tag in use names it.
LEMMA AsyncFillKeeps ==
  ASSUME IInv, NEW s \in Senders, AsyncFill(s) PROVE IInv'
<1>1. /\ spc[s] = "fill"
      /\ msgs' = [msgs EXCEPT ![idx[s]] = req[s]]
      /\ spc' = [spc EXCEPT ![s] = "send"]
      /\ UNCHANGED <<used, tail, wire, answers, idx, cnt, req, ppc, tmp,
                    resp, issued, accepted, refused, calls, lost>>
  BY DEF AsyncFill, SendGoto, poolVars, wireVars, sendVars, pollVars,
      histVars
<1>2. /\ req[s] \in Reqs /\ req[s] < issued /\ req[s] \notin accepted \cup lost
      /\ \A i \in Slots : msgs[i] # req[s]
      /\ \A t \in Senders \ {s} : spc[t] # "idle" => req[t] # req[s]
  BY <1>1 DEF IInv, RequestInv, OutcomeInv, CallerInv, StoreInv, FilledInv
<1>3. /\ spc'[s] = "send" /\ \A t \in Senders \ {s} : spc'[t] = spc[t]
      /\ idx[s] \in Slots /\ msgs'[idx[s]] = req[s]
      /\ \A i \in Slots \ {idx[s]} : msgs'[i] = msgs[i]
  BY <1>1 DEF IInv, TypeInv
<1>4. /\ \A e \in Flying : e.tag # 0 => msgs'[e.tag - 1] = msgs[e.tag - 1]
      /\ \A p \in Pollers : ppc[p] \in Received /\ resp[p].tag # 0 =>
           msgs'[resp[p].tag - 1] = msgs[resp[p].tag - 1]
  <2>1. \A n \in 0 .. MsgNum : n # 0 /\ n # idx[s] + 1 =>
          n - 1 \in Slots \ {idx[s]}
    BY <1>3, PoolAssumption DEF Slots
  <2>2. \A e \in Flying : e.tag # idx[s] + 1 /\ e.tag \in 0 .. MsgNum
    BY <1>1, PacketTag DEF IInv, OwnerInv, PacketOwns, Holding
  <2>3. \A p \in Pollers : ppc[p] \in Received =>
          resp[p].tag # idx[s] + 1 /\ resp[p].tag \in 0 .. MsgNum
    BY <1>1, RespTag DEF IInv, OwnerInv, PollerOwns, Holding
  <2> QED BY <1>3, <2>1, <2>2, <2>3
<1>5. OutcomeInv' /\ FlyInv' /\ RespInv'
  BY <1>1 DEF IInv, RequestInv, FlightInv, OutcomeInv, FlyInv, Flying,
      RespInv
<1>6. TypeInv'
  BY <1>1, <1>2 DEF IInv, TypeInv, Holding
<1>7. CallerInv'
  BY <1>1, <1>3 DEF IInv, RequestInv, CallerInv
<1>8. StoredInv'
  BY <1>1, <1>2, <1>3 DEF IInv, StoreInv, StoredInv, None, Reqs
<1>9. FilledInv'
  <2>1. \A t \in Senders \ {s} : spc[t] \in Holding => idx[t] # idx[s]
    BY <1>1 DEF IInv, OwnerInv, SenderOwns, Holding
  <2>2. \A t \in Senders \ {s} : idx[t] \in Slots
    BY DEF IInv, TypeInv
  <2> QED BY <1>1, <1>2, <1>3, <2>1, <2>2 DEF IInv, StoreInv, FilledInv,
             Holding
<1>10. TagNamesRequest'
  BY <1>1, <1>4 DEF IInv, StoreInv, TagNamesRequest, CalledBack, Flying,
      Received
<1>11. SenderOwns'
  BY <1>1, <1>3 DEF IInv, OwnerInv, SenderOwns, Holding
<1>12. PacketOwns'
  BY <1>1, <1>3 DEF IInv, OwnerInv, PacketOwns, Flying, Holding
<1>13. PollerOwns'
  BY <1>1, <1>3 DEF IInv, OwnerInv, PollerOwns, Holding
<1>14. LostOwns'
  BY <1>1, <1>2, <1>3 DEF IInv, OwnerInv, LostOwns, SenderHolds, PollerHolds,
      Flying, Holding
<1>15. TakenOwned'
  <2> SUFFICES ASSUME NEW i \in Slots, used[i] = 1 PROVE Owned(i)'
    BY <1>1 DEF TakenOwned
  <2>1. CASE i = idx[s]
    BY <1>1, <1>3, <2>1 DEF Owned, SenderHolds
  <2>2. CASE i # idx[s]
    BY <1>1, <1>3, <2>2 DEF IInv, OwnerInv, TakenOwned, Owned, SenderHolds,
       PollerHolds, Flying
  <2> QED BY <2>1, <2>2
<1> QED BY <1>5, <1>6, <1>7, <1>8, <1>9, <1>10, <1>11, <1>12, <1>13, <1>14,
      <1>15 DEF IInv, RequestInv, FlightInv, StoreInv, OwnerInv

\* The message passes from the sender to the packet.
LEMMA AsyncSendKeeps ==
  ASSUME IInv, NEW s \in Senders, AsyncSend(s) PROVE IInv'
<1>1. /\ spc[s] = "send"
      /\ wire' = wire \cup {[req |-> req[s], tag |-> idx[s] + 1]}
      /\ accepted' = accepted \cup {req[s]}
      /\ req' = [req EXCEPT ![s] = None]
      /\ idx' = [idx EXCEPT ![s] = 0]
      /\ cnt' = [cnt EXCEPT ![s] = 0]
      /\ spc' = [spc EXCEPT ![s] = "idle"]
      /\ UNCHANGED <<used, msgs, tail, answers, ppc, tmp, resp, issued,
                    refused, calls, lost>>
  BY DEF AsyncSend, SendReturn, SendGoto, poolVars, wireVars, sendVars,
      pollVars, histVars
<1> DEFINE d == [req |-> req[s], tag |-> idx[s] + 1]
<1>2. req[s] \in Reqs /\ req[s] < issued /\ req[s] \notin accepted \cup refused
  BY <1>1 DEF IInv, RequestInv, CallerInv
<1>3. /\ spc'[s] = "idle"
      /\ \A t \in Senders \ {s} :
           spc'[t] = spc[t] /\ req'[t] = req[t] /\ idx'[t] = idx[t]
  BY <1>1 DEF IInv, TypeInv
<1>4. /\ idx[s] \in Slots /\ d.tag - 1 = idx[s] /\ d.tag # 0
      /\ d.req = req[s] /\ d.tag = idx[s] + 1 /\ d \in RealPackets
  <2>1. idx[s] \in Slots
    BY DEF IInv, TypeInv
  <2>2. /\ idx[s] + 1 \in 0 .. MsgNum /\ idx[s] + 1 # 0
        /\ idx[s] + 1 - 1 = idx[s]
    BY <2>1, PoolAssumption DEF Slots
  <2>3. d.req = req[s] /\ d.tag = idx[s] + 1
    OBVIOUS
  <2>4. d \in RealPackets
    BY <1>2, <2>2 DEF RealPackets
  <2>5. d.tag - 1 = idx[s] /\ d.tag # 0
    BY <2>1, <2>3, PoolAssumption DEF Slots
  <2> QED BY <2>1, <2>3, <2>4, <2>5
<1>5. Flying' = Flying \cup {d}
  BY <1>1 DEF Flying
<1>6. \A e \in Flying : e.req \in accepted /\ e.req # d.req
  BY <1>2, <1>4 DEF IInv, FlightInv, FlyInv
<1>7. calls[d.req] = 0
  BY <1>2, <1>4 DEF IInv, TypeInv, RequestInv, OutcomeInv
<1> HIDE DEF d
<1>8. StoredInv'
  BY <1>1 DEF IInv, StoreInv, StoredInv
<1>9. TypeInv'
  <2>1. wire' \in SUBSET RealPackets
    BY <1>1, <1>4 DEF IInv, TypeInv, d
  <2>2. req' \in [Senders -> Reqs \cup {None}] /\ accepted' \in SUBSET Reqs
    BY <1>1, <1>2 DEF IInv, TypeInv
  <2>3. idx' \in [Senders -> Slots] /\ cnt' \in [Senders -> Nat]
    BY <1>1, PoolAssumption DEF IInv, TypeInv, Slots
  <2> QED BY <1>1, <2>1, <2>2, <2>3 DEF IInv, TypeInv
<1>10. OutcomeInv'
  BY <1>1, <1>2 DEF IInv, RequestInv, OutcomeInv
<1>11. CallerInv'
  BY <1>1, <1>2, <1>3 DEF IInv, RequestInv, CallerInv
<1>12. FlyInv'
  <2>1. d \notin answers /\ wire' = wire \cup {d} /\ d.req \in accepted'
    BY <1>1, <1>4, <1>6 DEF Flying, d
  <2> QED BY <1>1, <1>4, <1>5, <1>6, <1>7, <2>1 DEF IInv, FlightInv, FlyInv
<1>13. RespInv'
  <2>1. \A p \in Pollers : ppc[p] \in Received => resp[p].req # d.req
    BY <1>2, <1>4 DEF IInv, FlightInv, RespInv
  <2> QED BY <1>1, <1>5, <2>1 DEF IInv, FlightInv, RespInv
<1>14. FilledInv'
  BY <1>1, <1>3 DEF IInv, StoreInv, FilledInv
<1>15. TagNamesRequest'
  <2>1. msgs[d.tag - 1] = d.req
    BY <1>1, <1>4 DEF IInv, StoreInv, FilledInv
  <2> QED BY <1>1, <1>5, <2>1 DEF IInv, StoreInv, TagNamesRequest, Flying,
             CalledBack
<1>16. SenderOwns'
  BY <1>1, <1>3 DEF IInv, OwnerInv, SenderOwns, Holding
<1>17. PacketOwns'
  <2>1. used[d.tag - 1] = 1
    BY <1>1, <1>4 DEF IInv, OwnerInv, SenderOwns, Holding
  <2>2. \A t \in Senders \ {s} :
          spc[t] \in Holding => idx[t] # idx[s] /\ idx[t] \in Slots
    BY <1>1 DEF IInv, TypeInv, OwnerInv, SenderOwns, Holding
  <2>3. \A t \in Senders : spc'[t] \in Holding => t # s
    BY <1>3 DEF Holding
  <2>4. \A t \in Senders \ {s} : spc[t] \in Holding => d.tag # idx[t] + 1
    BY <1>4, <2>2, PoolAssumption DEF Slots
  <2> QED BY <1>1, <1>3, <1>5, <2>1, <2>3, <2>4 DEF IInv, OwnerInv, PacketOwns
<1>18. PollerOwns'
  BY <1>1, <1>3 DEF IInv, OwnerInv, PollerOwns, Holding
<1>19. LostOwns'
  <2> SUFFICES ASSUME NEW i \in Slots, msgs[i] \in lost
               PROVE  /\ used[i] = 1
                      /\ \A t \in Senders : ~SenderHolds(t, i)'
                      /\ \A e \in Flying' : e.tag # i + 1
                      /\ \A p \in Pollers : ~PollerHolds(p, i)
    BY <1>1 DEF LostOwns, PollerHolds
  <2>1. i # idx[s]
    BY <1>1, SMT DEF IInv, OwnerInv, LostOwns, SenderHolds
  <2>2. d.tag # i + 1
    BY <1>4, <2>1, PoolAssumption DEF Slots
  <2> QED BY <1>1, <1>3, <1>5, <2>2 DEF IInv, OwnerInv, LostOwns, SenderHolds
<1>20. TakenOwned'
  <2> SUFFICES ASSUME NEW i \in Slots, used[i] = 1 PROVE Owned(i)'
    BY <1>1 DEF TakenOwned
  <2>1. CASE SenderHolds(s, i)
    BY <1>4, <1>5, <2>1 DEF Owned, SenderHolds
  <2>2. CASE ~SenderHolds(s, i)
    BY <1>1, <1>3, <1>5, <2>2 DEF IInv, OwnerInv, TakenOwned, Owned,
       SenderHolds, PollerHolds
  <2> QED BY <2>1, <2>2
<1> QED BY <1>8, <1>9, <1>10, <1>11, <1>12, <1>13, <1>14, <1>15, <1>16,
      <1>17, <1>18, <1>19, <1>20 DEF IInv, RequestInv, FlightInv, StoreInv,
      OwnerInv

\* The sender keeps the message on the way to fail_with_msg.
LEMMA AsyncSendFailsKeeps ==
  ASSUME IInv, NEW s \in Senders, AsyncSendFails(s) PROVE IInv'
<1>1. /\ spc[s] = "send"
      /\ spc' = [spc EXCEPT ![s] = "fail"]
      /\ UNCHANGED <<used, msgs, tail, wire, answers, idx, cnt, req, ppc,
                    tmp, resp, issued, accepted, refused, calls,
                    lost>>
  BY DEF AsyncSendFails, SendGoto, poolVars, wireVars, sendVars, pollVars,
      histVars
<1>2. spc'[s] = "fail" /\ \A t \in Senders \ {s} : spc'[t] = spc[t]
  BY <1>1 DEF IInv, TypeInv
<1>3. OutcomeInv' /\ FlyInv' /\ RespInv' /\ StoredInv' /\ TagNamesRequest'
  BY <1>1 DEF IInv, RequestInv, FlightInv, StoreInv, OutcomeInv, FlyInv,
      Flying, RespInv, StoredInv, TagNamesRequest, CalledBack
<1>4. TypeInv'
  BY <1>1 DEF IInv, TypeInv, Holding
<1>5. CallerInv'
  BY <1>1, <1>2 DEF IInv, RequestInv, CallerInv
<1>6. FilledInv'
  BY <1>1, <1>2 DEF IInv, StoreInv, FilledInv
<1>7. SenderOwns'
  BY <1>1, <1>2 DEF IInv, OwnerInv, SenderOwns, Holding
<1>8. PacketOwns'
  BY <1>1, <1>2 DEF IInv, OwnerInv, PacketOwns, Flying, Holding
<1>9. PollerOwns'
  BY <1>1, <1>2 DEF IInv, OwnerInv, PollerOwns, Holding
<1>10. LostOwns'
  BY <1>1, <1>2 DEF IInv, OwnerInv, LostOwns, SenderHolds, PollerHolds,
      Flying, Holding
<1>11. TakenOwned'
  BY <1>1, <1>2 DEF IInv, OwnerInv, TakenOwned, Owned, SenderHolds,
      PollerHolds, Flying, Holding
<1> QED BY <1>3, <1>4, <1>5, <1>6, <1>7, <1>8, <1>9, <1>10, <1>11 DEF IInv,
      RequestInv, FlightInv, StoreInv, OwnerInv

\* The sender frees the message it owns, and only that.
LEMMA AsyncFailKeeps ==
  ASSUME IInv, NEW s \in Senders, AsyncFail(s) PROVE IInv'
<1>1. /\ spc[s] = "fail"
      /\ used' = [used EXCEPT ![idx[s]] = 0]
      /\ refused' = refused \cup {req[s]}
      /\ req' = [req EXCEPT ![s] = None]
      /\ idx' = [idx EXCEPT ![s] = 0]
      /\ cnt' = [cnt EXCEPT ![s] = 0]
      /\ spc' = [spc EXCEPT ![s] = "idle"]
      /\ UNCHANGED <<msgs, tail, wire, answers, ppc, tmp, resp, issued,
                    accepted, calls, lost>>
  BY DEF AsyncFail, SendReturn, SendGoto, poolVars, wireVars, sendVars,
      pollVars, histVars
<1>2. req[s] \in Reqs /\ req[s] < issued /\ req[s] \notin accepted \cup refused
  BY <1>1 DEF IInv, RequestInv, CallerInv
<1>3. /\ spc'[s] = "idle"
      /\ \A t \in Senders \ {s} :
           spc'[t] = spc[t] /\ req'[t] = req[t] /\ idx'[t] = idx[t]
      /\ \A t \in Senders : idx[t] \in Slots
      /\ \A i \in Slots \ {idx[s]} : used'[i] = used[i]
      /\ used'[idx[s]] = 0
  BY <1>1 DEF IInv, TypeInv
<1>4. \A n \in 0 .. MsgNum :
        n # 0 /\ n # idx[s] + 1 => n - 1 \in Slots \ {idx[s]}
  BY <1>3, PoolAssumption DEF Slots
<1>5. FlyInv' /\ RespInv' /\ StoredInv' /\ TagNamesRequest'
  BY <1>1 DEF IInv, FlightInv, StoreInv, FlyInv, Flying, RespInv, StoredInv,
      TagNamesRequest, CalledBack
<1>6. TypeInv'
  <2>1. req' \in [Senders -> Reqs \cup {None}] /\ refused' \in SUBSET Reqs
    BY <1>1, <1>2 DEF IInv, TypeInv
  <2>2. idx' \in [Senders -> Slots] /\ cnt' \in [Senders -> Nat]
    BY <1>1, PoolAssumption DEF IInv, TypeInv, Slots
  <2>3. used' \in [Slots -> {0, 1}]
    BY <1>1 DEF IInv, TypeInv
  <2> QED BY <1>1, <2>1, <2>2, <2>3 DEF IInv, TypeInv
<1>7. OutcomeInv'
  BY <1>1, <1>2 DEF IInv, RequestInv, OutcomeInv
<1>8. CallerInv'
  BY <1>1, <1>2, <1>3 DEF IInv, RequestInv, CallerInv
<1>9. FilledInv'
  BY <1>1, <1>3 DEF IInv, StoreInv, FilledInv
<1>10. SenderOwns'
  BY <1>1, <1>3 DEF IInv, OwnerInv, SenderOwns, Holding
<1>11. PacketOwns'
  <2>1. \A e \in Flying : e.tag \in 0 .. MsgNum /\ e.tag # idx[s] + 1
    BY <1>1, PacketTag DEF IInv, OwnerInv, PacketOwns, Holding
  <2> QED BY <1>1, <1>3, <1>4, <2>1 DEF IInv, OwnerInv, PacketOwns, Flying,
             Holding
<1>12. PollerOwns'
  <2>1. \A p \in Pollers : ppc[p] \in Received =>
          resp[p].tag \in 0 .. MsgNum /\ resp[p].tag # idx[s] + 1
    BY <1>1, RespTag DEF IInv, OwnerInv, PollerOwns, Holding
  <2> QED BY <1>1, <1>3, <1>4, <2>1 DEF IInv, OwnerInv, PollerOwns, Holding
<1>13. LostOwns'
  BY <1>1, <1>3 DEF IInv, OwnerInv, LostOwns, SenderHolds, PollerHolds,
      Flying, Holding
<1>14. TakenOwned'
  BY <1>1, <1>3 DEF IInv, OwnerInv, TakenOwned, Owned, SenderHolds,
      PollerHolds, Flying
<1> QED BY <1>5, <1>6, <1>7, <1>8, <1>9, <1>10, <1>11, <1>12, <1>13, <1>14
      DEF IInv, RequestInv, FlightInv, StoreInv, OwnerInv

\* The packet becomes the answer.
LEMMA DeviceAnswerKeeps == ASSUME IInv, DeviceAnswer PROVE IInv'
<1>1. /\ \E e \in wire : wire' = wire \ {e} /\ answers' = answers \cup {e}
      /\ UNCHANGED <<used, msgs, tail, spc, idx, cnt, req, ppc, tmp, resp,
                    issued, accepted, refused, calls, lost>>
  BY DEF DeviceAnswer, poolVars, wireVars, sendVars, pollVars, histVars
<1>2. Flying' = Flying
  BY <1>1 DEF Flying
<1>3. OutcomeInv' /\ CallerInv' /\ StoredInv' /\ FilledInv' /\ SenderOwns'
      /\ PollerOwns'
  BY <1>1 DEF IInv, RequestInv, StoreInv, OwnerInv, OutcomeInv, CallerInv,
      StoredInv, FilledInv, SenderOwns, PollerOwns
<1>4. TypeInv'
  BY <1>1 DEF IInv, TypeInv
<1>5. FlyInv'
  BY <1>1, <1>2 DEF IInv, FlightInv, FlyInv, Flying
<1>6. RespInv'
  BY <1>1, <1>2 DEF IInv, FlightInv, RespInv, Flying
<1>7. TagNamesRequest'
  BY <1>1, <1>2 DEF IInv, StoreInv, TagNamesRequest, CalledBack
<1>8. PacketOwns'
  BY <1>1, <1>2 DEF IInv, OwnerInv, PacketOwns, Flying
<1>9. LostOwns'
  BY <1>1, <1>2 DEF IInv, OwnerInv, LostOwns, SenderHolds, PollerHolds,
      Flying
<1>10. TakenOwned'
  BY <1>1, <1>2 DEF IInv, OwnerInv, TakenOwned, Owned, SenderHolds,
      PollerHolds, Flying
<1> QED BY <1>3, <1>4, <1>5, <1>6, <1>7, <1>8, <1>9, <1>10 DEF IInv,
      RequestInv, FlightInv, StoreInv, OwnerInv

\* The spoilt answer leaves the message to its lost request.
LEMMA DeviceBreaksTagKeeps == ASSUME IInv, DeviceBreaksTag PROVE IInv'
<1>1. /\ \E e \in wire : /\ wire' = wire \ {e}
                          /\ answers' = answers \cup {[e EXCEPT !.tag = 0]}
                          /\ lost' = lost \cup {e.req}
      /\ UNCHANGED <<used, msgs, tail, spc, idx, cnt, req, ppc, tmp, resp,
                    issued, accepted, refused, calls>>
  BY DEF DeviceBreaksTag, poolVars, wireVars, sendVars, pollVars, histVars
<1>2. PICK e \in wire : /\ wire' = wire \ {e}
                        /\ answers' = answers \cup {[e EXCEPT !.tag = 0]}
                        /\ lost' = lost \cup {e.req}
  BY <1>1
<1> DEFINE d == [e EXCEPT !.tag = 0]
<1>3. e \in Flying /\ e \in RealPackets /\ e.tag # 0 /\ e.req \in accepted
  BY DEF IInv, TypeInv, FlightInv, FlyInv, Flying
<1>4. d \in RealPackets /\ d.tag = 0 /\ d.req = e.req
  BY <1>3, PoolAssumption DEF RealPackets
<1>5. e.tag - 1 \in Slots /\ msgs[e.tag - 1] = e.req
  BY <1>3, PoolAssumption DEF IInv, StoreInv, TagNamesRequest, Flying,
     RealPackets, Slots
<1>6. Flying' = (Flying \ {e}) \cup {d} /\ e \notin answers
  BY <1>2, <1>4 DEF IInv, FlightInv, FlyInv, Flying
<1>7. \A f \in Flying : f # e => f.req # e.req
  BY <1>3 DEF IInv, FlightInv, FlyInv
<1>8. /\ wire' = wire \ {e} /\ answers' = answers \cup {d}
      /\ lost' = lost \cup {e.req}
  BY <1>2
<1> HIDE DEF d
<1>9. CallerInv' /\ StoredInv' /\ FilledInv' /\ SenderOwns' /\ PollerOwns'
  BY <1>1 DEF IInv, RequestInv, StoreInv, OwnerInv, CallerInv, StoredInv,
      FilledInv, SenderOwns, PollerOwns
<1>10. TypeInv'
  <2>1. /\ answers' \in SUBSET RealPackets /\ wire' \in SUBSET RealPackets
        /\ lost' \in SUBSET Reqs
    BY <1>3, <1>4, <1>8 DEF IInv, TypeInv
  <2> QED BY <1>1, <2>1 DEF IInv, TypeInv
<1>11. OutcomeInv'
  BY <1>1, <1>3, <1>8 DEF IInv, RequestInv, OutcomeInv
<1>12. FlyInv'
  BY <1>1, <1>3, <1>4, <1>6, <1>7, <1>8 DEF IInv, FlightInv, FlyInv, Flying
<1>13. RespInv'
  BY <1>1, <1>3, <1>4, <1>6 DEF IInv, FlightInv, RespInv, Flying
<1>14. TagNamesRequest'
  BY <1>1, <1>4, <1>6 DEF IInv, StoreInv, TagNamesRequest, CalledBack, Flying
<1>15. PacketOwns'
  <2>1. \A s \in Senders : d.tag # idx[s] + 1
    BY <1>4, PoolAssumption DEF IInv, TypeInv, Slots
  <2> QED BY <1>1, <1>4, <1>6, <2>1 DEF IInv, OwnerInv, PacketOwns
<1>16. LostOwns'
  <2> SUFFICES ASSUME NEW i \in Slots, msgs[i] \in lost'
               PROVE  /\ used[i] = 1
                      /\ \A s \in Senders : ~SenderHolds(s, i)
                      /\ \A f \in Flying' : f.tag # i + 1
                      /\ \A p \in Pollers : ~PollerHolds(p, i)
    BY <1>1 DEF LostOwns, SenderHolds, PollerHolds
  <2>1. d.tag # i + 1
    BY <1>4, PoolAssumption DEF Slots
  <2>2. CASE msgs[i] \in lost
    BY <1>6, <2>1, <2>2 DEF IInv, OwnerInv, LostOwns
  <2>3. CASE msgs[i] = e.req
    <3>1. i = e.tag - 1 /\ e.tag = i + 1
      <4>1. msgs[i] # None
        BY <1>3, <2>3, PoolAssumption DEF RealPackets, Reqs, None
      <4>2. i = e.tag - 1
        BY <1>5, <2>3, <4>1 DEF IInv, StoreInv, StoredInv
      <4> QED BY <4>2, <1>3, PoolAssumption DEF RealPackets
    <3>2. used[i] = 1 /\ \A s \in Senders : ~SenderHolds(s, i)
      BY <1>3, <3>1 DEF IInv, OwnerInv, PacketOwns, SenderHolds, Holding
    <3>3. \A f \in Flying \ {e} : f.tag # i + 1
      <4> SUFFICES ASSUME NEW f \in Flying \ {e}, f.tag = i + 1 PROVE FALSE
        OBVIOUS
      <4>1. f.tag - 1 = i /\ f.tag # 0
        BY PoolAssumption DEF Slots
      <4>2. f.req = msgs[i]
        BY <4>1 DEF IInv, StoreInv, TagNamesRequest, Flying
      <4> QED BY <1>7, <2>3, <4>2
    <3>4. \A p \in Pollers : ~PollerHolds(p, i)
      <4> SUFFICES ASSUME NEW p \in Pollers, PollerHolds(p, i) PROVE FALSE
        OBVIOUS
      <4>1. ppc[p] \in Received /\ resp[p].tag - 1 = i /\ resp[p].tag # 0
        BY PoolAssumption DEF Slots, PollerHolds, Received
      <4>2. resp[p].req = msgs[i]
        BY <4>1 DEF IInv, StoreInv, TagNamesRequest, CalledBack, Received
      <4> QED BY <1>3, <2>3, <4>1, <4>2 DEF IInv, FlightInv, RespInv
    <3> QED BY <1>6, <2>1, <3>2, <3>3, <3>4
  <2> QED BY <1>8, <2>2, <2>3
<1>17. TakenOwned'
  <2> SUFFICES ASSUME NEW i \in Slots, used[i] = 1 PROVE Owned(i)'
    BY <1>1 DEF TakenOwned
  <2>1. CASE e.tag = i + 1
    <3>1. i = e.tag - 1
      BY <2>1, PoolAssumption DEF Slots
    <3> QED BY <1>1, <1>5, <1>8, <3>1 DEF Owned
  <2>2. CASE e.tag # i + 1
    BY <1>1, <1>6, <1>8, <2>2 DEF IInv, OwnerInv, TakenOwned, Owned,
       SenderHolds, PollerHolds
  <2> QED BY <2>1, <2>2
<1> QED BY <1>9, <1>10, <1>11, <1>12, <1>13, <1>14, <1>15, <1>16, <1>17 DEF
      IInv, RequestInv, FlightInv, StoreInv, OwnerInv

\* A poll starts.
LEMMA PollCallKeeps == ASSUME IInv, NEW p \in Pollers, PollCall(p) PROVE IInv'
<1>1. /\ ppc[p] = "idle"
      /\ \E n \in Expects : tmp' = [tmp EXCEPT ![p] = n]
      /\ ppc' = [ppc EXCEPT ![p] = "recv"]
      /\ UNCHANGED <<used, msgs, tail, wire, answers, spc, idx, cnt, req,
                    resp, issued, accepted, refused, calls, lost>>
  BY DEF PollCall, PollStart, PollGoto, poolVars, wireVars, sendVars,
      pollVars, histVars
<1>2. /\ ppc'[p] = "recv"
      /\ \A q \in Pollers \ {p} : ppc'[q] = ppc[q] /\ resp'[q] = resp[q]
  BY <1>1 DEF IInv, TypeInv
<1>3. OutcomeInv' /\ CallerInv' /\ FlyInv' /\ StoredInv' /\ FilledInv' /\
      SenderOwns' /\ PacketOwns'
  BY <1>1 DEF IInv, RequestInv, FlightInv, StoreInv, OwnerInv, OutcomeInv,
      CallerInv, FlyInv, Flying, StoredInv, FilledInv, SenderOwns,
      PacketOwns
<1>4. TypeInv'
  BY <1>1, ExpectAssumption DEF IInv, TypeInv, Received
<1>5. RespInv'
  BY <1>1, <1>2 DEF IInv, FlightInv, RespInv, Flying, Received
<1>6. TagNamesRequest'
  BY <1>1, <1>2 DEF IInv, StoreInv, TagNamesRequest, CalledBack
<1>7. PollerOwns'
  BY <1>1, <1>2 DEF IInv, OwnerInv, PollerOwns, Received
<1>8. LostOwns'
  BY <1>1, <1>2 DEF IInv, OwnerInv, LostOwns, SenderHolds, PollerHolds,
      Flying, Received
<1>9. TakenOwned'
  BY <1>1, <1>2 DEF IInv, OwnerInv, TakenOwned, Owned, SenderHolds,
      PollerHolds, Flying, Received
<1> QED BY <1>3, <1>4, <1>5, <1>6, <1>7, <1>8, <1>9 DEF IInv, RequestInv,
      FlightInv, StoreInv, OwnerInv

\* Nothing to receive.
LEMMA PollAgainKeeps ==
  ASSUME IInv, NEW p \in Pollers, PollAgain(p) PROVE IInv'
<1>1. /\ ppc[p] = "recv"
      /\ ppc' = [ppc EXCEPT ![p] = "idle"]
      /\ tmp' = [tmp EXCEPT ![p] = 0]
      /\ resp' = [resp EXCEPT ![p] = Nothing]
      /\ UNCHANGED <<used, msgs, tail, wire, answers, spc, idx, cnt, req,
                    issued, accepted, refused, calls, lost>>
  BY DEF PollAgain, PollReturn, PollGoto, poolVars, wireVars, sendVars,
      pollVars, histVars
<1>2. /\ ppc'[p] = "idle"
      /\ \A q \in Pollers \ {p} : ppc'[q] = ppc[q] /\ resp'[q] = resp[q]
  BY <1>1 DEF IInv, TypeInv
<1>3. OutcomeInv' /\ CallerInv' /\ FlyInv' /\ StoredInv' /\ FilledInv' /\
      SenderOwns' /\ PacketOwns'
  BY <1>1 DEF IInv, RequestInv, FlightInv, StoreInv, OwnerInv, OutcomeInv,
      CallerInv, FlyInv, Flying, StoredInv, FilledInv, SenderOwns,
      PacketOwns
<1>4. TypeInv'
  BY <1>1 DEF IInv, TypeInv, Received
<1>5. RespInv'
  BY <1>1, <1>2 DEF IInv, FlightInv, RespInv, Flying, Received
<1>6. TagNamesRequest'
  BY <1>1, <1>2 DEF IInv, StoreInv, TagNamesRequest, CalledBack
<1>7. PollerOwns'
  BY <1>1, <1>2 DEF IInv, OwnerInv, PollerOwns, Received
<1>8. LostOwns'
  BY <1>1, <1>2 DEF IInv, OwnerInv, LostOwns, SenderHolds, PollerHolds,
      Flying, Received
<1>9. TakenOwned'
  BY <1>1, <1>2 DEF IInv, OwnerInv, TakenOwned, Owned, SenderHolds,
      PollerHolds, Flying, Received
<1> QED BY <1>3, <1>4, <1>5, <1>6, <1>7, <1>8, <1>9 DEF IInv, RequestInv,
      FlightInv, StoreInv, OwnerInv

\* recv fails.
LEMMA PollErrorKeeps ==
  ASSUME IInv, NEW p \in Pollers, PollError(p) PROVE IInv'
<1>1. /\ ppc[p] = "recv"
      /\ ppc' = [ppc EXCEPT ![p] = "idle"]
      /\ tmp' = [tmp EXCEPT ![p] = 0]
      /\ resp' = [resp EXCEPT ![p] = Nothing]
      /\ UNCHANGED <<used, msgs, tail, wire, answers, spc, idx, cnt, req,
                    issued, accepted, refused, calls, lost>>
  BY DEF PollError, PollReturn, PollGoto, poolVars, wireVars, sendVars,
      pollVars, histVars
<1>2. /\ ppc'[p] = "idle"
      /\ \A q \in Pollers \ {p} : ppc'[q] = ppc[q] /\ resp'[q] = resp[q]
  BY <1>1 DEF IInv, TypeInv
<1>3. OutcomeInv' /\ CallerInv' /\ FlyInv' /\ StoredInv' /\ FilledInv' /\
      SenderOwns' /\ PacketOwns'
  BY <1>1 DEF IInv, RequestInv, FlightInv, StoreInv, OwnerInv, OutcomeInv,
      CallerInv, FlyInv, Flying, StoredInv, FilledInv, SenderOwns,
      PacketOwns
<1>4. TypeInv'
  BY <1>1 DEF IInv, TypeInv, Received
<1>5. RespInv'
  BY <1>1, <1>2 DEF IInv, FlightInv, RespInv, Flying, Received
<1>6. TagNamesRequest'
  BY <1>1, <1>2 DEF IInv, StoreInv, TagNamesRequest, CalledBack
<1>7. PollerOwns'
  BY <1>1, <1>2 DEF IInv, OwnerInv, PollerOwns, Received
<1>8. LostOwns'
  BY <1>1, <1>2 DEF IInv, OwnerInv, LostOwns, SenderHolds, PollerHolds,
      Flying, Received
<1>9. TakenOwned'
  BY <1>1, <1>2 DEF IInv, OwnerInv, TakenOwned, Owned, SenderHolds,
      PollerHolds, Flying, Received
<1> QED BY <1>3, <1>4, <1>5, <1>6, <1>7, <1>8, <1>9 DEF IInv, RequestInv,
      FlightInv, StoreInv, OwnerInv

\* The message passes from the answer to the poller.
LEMMA PollRecvKeeps == ASSUME IInv, NEW p \in Pollers, PollRecv(p) PROVE IInv'
<1>1. /\ ppc[p] = "recv"
      /\ \E e \in answers : /\ answers' = answers \ {e}
                             /\ resp' = [resp EXCEPT ![p] = e]
      /\ ppc' = [ppc EXCEPT ![p] = "find"]
      /\ UNCHANGED <<used, msgs, tail, wire, spc, idx, cnt, req, tmp,
                    issued, accepted, refused, calls, lost>>
  BY DEF PollRecv, PollGoto, poolVars, wireVars, sendVars, pollVars, histVars
<1>2. PICK e \in answers : /\ answers' = answers \ {e}
                           /\ resp' = [resp EXCEPT ![p] = e]
  BY <1>1
<1>3. e \in RealPackets /\ e \in Flying
  BY DEF IInv, TypeInv, Flying
<1>4. /\ ppc'[p] = "find" /\ resp'[p] = e
      /\ \A q \in Pollers \ {p} : ppc'[q] = ppc[q] /\ resp'[q] = resp[q]
  BY <1>1, <1>2 DEF IInv, TypeInv
<1>5. Flying' = Flying \ {e} /\ \A f \in Flying' : f.req # e.req
  BY <1>1, <1>2 DEF IInv, FlightInv, FlyInv, Flying
<1>6. OutcomeInv' /\ CallerInv' /\ StoredInv' /\ FilledInv' /\ SenderOwns'
  BY <1>1 DEF IInv, RequestInv, StoreInv, OwnerInv, OutcomeInv, CallerInv,
      StoredInv, FilledInv, SenderOwns
<1>7. TypeInv'
  <2>1. /\ resp' \in [Pollers -> RealPackets \cup {Nothing}]
        /\ answers' \in SUBSET RealPackets
    BY <1>2, <1>3 DEF IInv, TypeInv
  <2> QED BY <1>1, <2>1 DEF IInv, TypeInv, Received
<1>8. FlyInv'
  BY <1>1, <1>2, <1>5 DEF IInv, FlightInv, FlyInv, Flying
<1>9. RespInv'
  BY <1>1, <1>3, <1>4, <1>5 DEF IInv, FlightInv, RespInv, Flying, FlyInv,
      Received
<1>10. TagNamesRequest'
  BY <1>1, <1>2, <1>3, <1>4 DEF IInv, StoreInv, TagNamesRequest, CalledBack,
      Flying, Received
<1>11. PacketOwns'
  BY <1>1, <1>5 DEF IInv, OwnerInv, PacketOwns, Flying
<1>12. PollerOwns'
  BY <1>1, <1>3, <1>4 DEF IInv, OwnerInv, PollerOwns, PacketOwns
<1>13. LostOwns'
  BY <1>1, <1>3, <1>4, <1>5 DEF IInv, OwnerInv, LostOwns, SenderHolds,
      PollerHolds, Flying
<1>14. TakenOwned'
  <2> SUFFICES ASSUME NEW i \in Slots, used[i] = 1 PROVE Owned(i)'
    BY <1>1 DEF TakenOwned
  <2>1. CASE e.tag = i + 1
    BY <1>4, <2>1 DEF Owned, PollerHolds
  <2>2. CASE \E f \in Flying : f # e /\ f.tag = i + 1
    BY <1>5, <2>2 DEF Owned
  <2>3. CASE \E q \in Pollers : PollerHolds(q, i)
    <3>1. PICK q \in Pollers : PollerHolds(q, i)
      BY <2>3
    <3>2. q # p
      BY <1>1, <3>1 DEF PollerHolds
    <3>3. PollerHolds(q, i)'
      BY <1>4, <3>1, <3>2 DEF PollerHolds
    <3> QED BY <3>3 DEF Owned
  <2>4. CASE (\E s \in Senders : SenderHolds(s, i)) \/ msgs[i] \in lost
    BY <1>1, <2>4 DEF Owned, SenderHolds
  <2> QED BY <2>1, <2>2, <2>3, <2>4 DEF IInv, OwnerInv, TakenOwned, Owned
<1> QED BY <1>6, <1>7, <1>8, <1>9, <1>10, <1>11, <1>12, <1>13, <1>14 DEF
      IInv, RequestInv, FlightInv, StoreInv, OwnerInv

\* An answer without a known tag owns no message.
LEMMA PollUnknownKeeps ==
  ASSUME IInv, NEW p \in Pollers, PollUnknown(p) PROVE IInv'
<1>1. /\ ppc[p] = "find" /\ resp[p].tag \notin Tags
      /\ ppc' = [ppc EXCEPT ![p] = "idle"]
      /\ tmp' = [tmp EXCEPT ![p] = 0]
      /\ resp' = [resp EXCEPT ![p] = Nothing]
      /\ UNCHANGED <<used, msgs, tail, wire, answers, spc, idx, cnt, req,
                    issued, accepted, refused, calls, lost>>
  BY DEF PollUnknown, PollReturn, PollGoto, poolVars, wireVars, sendVars,
      pollVars, histVars
<1>2. /\ ppc'[p] = "idle"
      /\ \A q \in Pollers \ {p} : ppc'[q] = ppc[q] /\ resp'[q] = resp[q]
  BY <1>1 DEF IInv, TypeInv
<1>3. \A i \in Slots : ~PollerHolds(p, i)
  BY <1>1, PoolAssumption DEF PollerHolds, Slots, Tags
<1>4. OutcomeInv' /\ CallerInv' /\ FlyInv' /\ StoredInv' /\ FilledInv' /\
      SenderOwns' /\ PacketOwns'
  BY <1>1 DEF IInv, RequestInv, FlightInv, StoreInv, OwnerInv, OutcomeInv,
      CallerInv, FlyInv, Flying, StoredInv, FilledInv, SenderOwns,
      PacketOwns
<1>5. TypeInv'
  BY <1>1 DEF IInv, TypeInv, Received
<1>6. RespInv'
  BY <1>1, <1>2 DEF IInv, FlightInv, RespInv, Flying, Received
<1>7. TagNamesRequest'
  BY <1>1, <1>2 DEF IInv, StoreInv, TagNamesRequest, CalledBack
<1>8. PollerOwns'
  BY <1>1, <1>2 DEF IInv, OwnerInv, PollerOwns, Received
<1>9. LostOwns'
  BY <1>1, <1>2 DEF IInv, OwnerInv, LostOwns, SenderHolds, PollerHolds,
      Flying, Received
<1>10. TakenOwned'
  BY <1>1, <1>2, <1>3 DEF IInv, OwnerInv, TakenOwned, Owned, SenderHolds,
      PollerHolds, Flying
<1> QED BY <1>4, <1>5, <1>6, <1>7, <1>8, <1>9, <1>10 DEF IInv, RequestInv,
      FlightInv, StoreInv, OwnerInv

\* The stored request is the answered one, and its first callback.
LEMMA PollCallbackKeeps ==
  ASSUME IInv, NEW p \in Pollers, PollCallback(p) PROVE IInv'
<1>1. /\ ppc[p] = "find" /\ resp[p].tag \in Tags
      /\ calls' = [calls EXCEPT ![CalledBack(p)] = @ + 1]
      /\ ppc' = [ppc EXCEPT ![p] = "put"]
      /\ UNCHANGED <<used, msgs, tail, wire, answers, spc, idx, cnt, req,
                    tmp, resp, issued, accepted, refused, lost>>
  BY DEF PollCallback, PollGoto, poolVars, wireVars, sendVars, pollVars,
      histVars
<1>2. /\ ppc[p] \in Received /\ resp[p].tag \in Tags /\ resp[p].tag # 0
      /\ resp[p].req \in accepted /\ resp[p].req \in Reqs
  BY <1>1, RespTag, PoolAssumption DEF IInv, TypeInv, FlightInv, RespInv,
     Received, Tags
<1>3. CalledBack(p) = resp[p].req
  BY <1>1, <1>2 DEF IInv, StoreInv, TagNamesRequest, Received
<1>4. /\ calls[resp[p].req] = 0
      /\ \A q \in Pollers \ {p} :
           ppc[q] \in Received => resp[q].req # resp[p].req
      /\ \A e \in Flying : e.req # resp[p].req
  BY <1>1, <1>2 DEF IInv, FlightInv, RespInv
<1>5. calls' = [calls EXCEPT ![resp[p].req] = 1]
  BY <1>1, <1>3, <1>4
<1>6. /\ calls' \in [Reqs -> {0, 1}]
      /\ \A r \in Reqs : r # resp[p].req => calls'[r] = calls[r]
      /\ ppc'[p] = "put"
      /\ \A q \in Pollers \ {p} : ppc'[q] = ppc[q]
  BY <1>1, <1>2, <1>5 DEF IInv, TypeInv
<1>7. \A r \in accepted : r \in Reqs
  BY DEF IInv, TypeInv
<1>8. CallerInv' /\ StoredInv' /\ FilledInv' /\ SenderOwns' /\ PacketOwns'
  BY <1>1 DEF IInv, RequestInv, StoreInv, OwnerInv, CallerInv, StoredInv,
      FilledInv, SenderOwns, PacketOwns, Flying
<1>9. TypeInv'
  BY <1>1, <1>6 DEF IInv, TypeInv, Received
<1>10. OutcomeInv'
  BY <1>1, <1>2, <1>6 DEF IInv, RequestInv, OutcomeInv
<1>11. FlyInv'
  BY <1>1, <1>4, <1>6, <1>7 DEF IInv, FlightInv, FlyInv, Flying
<1>12. RespInv'
  BY <1>1, <1>2, <1>4, <1>6, <1>7 DEF IInv, FlightInv, RespInv, Flying,
      Received
<1>13. TagNamesRequest'
  BY <1>1, <1>6 DEF IInv, StoreInv, TagNamesRequest, CalledBack
<1>14. PollerOwns'
  BY <1>1, <1>6 DEF IInv, OwnerInv, PollerOwns, Received
<1>15. LostOwns'
  BY <1>1, <1>1, <1>6 DEF IInv, OwnerInv, LostOwns, SenderHolds, PollerHolds,
      Flying
<1>16. TakenOwned'
  BY <1>1, <1>6 DEF IInv, OwnerInv, TakenOwned, Owned, SenderHolds,
      PollerHolds, Flying
<1> QED BY <1>8, <1>9, <1>10, <1>11, <1>12, <1>13, <1>14, <1>15, <1>16 DEF
      IInv, RequestInv, FlightInv, StoreInv, OwnerInv

\* The poller frees the message it owns, and only that.
LEMMA PollPutKeeps == ASSUME IInv, NEW p \in Pollers, PollPut(p) PROVE IInv'
<1>1. /\ ppc[p] = "put"
      /\ used' = [used EXCEPT ![resp[p].tag - 1] = 0]
      /\ PollLoop(p)
      /\ UNCHANGED <<msgs, tail, wire, answers, spc, idx, cnt, req, issued,
                    accepted, refused, calls, lost>>
  BY DEF PollPut, poolVars, wireVars, sendVars, pollVars, histVars
<1>2. /\ ppc[p] \in Received /\ resp[p].tag \in Tags /\ resp[p].tag # 0
  BY <1>1, RespTag, PoolAssumption DEF IInv, FlightInv, RespInv, Received,
     Tags
<1>3. /\ ppc' \in [Pollers -> {"idle", "recv"} \cup Received]
      /\ resp' \in [Pollers -> RealPackets \cup {Nothing}]
      /\ ppc'[p] \notin Received
      /\ \A q \in Pollers \ {p} : ppc'[q] = ppc[q] /\ resp'[q] = resp[q]
  BY <1>1 DEF PollLoop, PollReturn, PollGoto, IInv, TypeInv, Received
<1>4. tmp' \in [Pollers -> Nat]
  BY <1>1 DEF PollLoop, PollReturn, IInv, TypeInv
<1> DEFINE k == resp[p].tag - 1
<1>5. k \in Slots /\ resp[p].tag = k + 1
  BY <1>2, PoolAssumption DEF Tags, Slots
<1>6. msgs[k] = resp[p].req
  BY <1>2 DEF IInv, StoreInv, TagNamesRequest, CalledBack, Received
<1> HIDE DEF k
<1>7. used'[k] = 0 /\ \A i \in Slots \ {k} : used'[i] = used[i]
  BY <1>1, <1>5 DEF IInv, TypeInv, k
<1>8. \A e \in Flying : e.tag # k + 1
  <2> SUFFICES ASSUME NEW e \in Flying, e.tag = k + 1 PROVE FALSE
    OBVIOUS
  <2>1. e.tag - 1 = k /\ e.tag # 0
    BY <1>5, PoolAssumption DEF Slots
  <2>2. e.req = msgs[k]
    BY <2>1 DEF IInv, StoreInv, TagNamesRequest, Flying
  <2> QED BY <1>2, <1>6, <2>2 DEF IInv, FlightInv, RespInv
<1>9. \A q \in Pollers \ {p} : ppc[q] \in Received => resp[q].tag # k + 1
  <2> SUFFICES ASSUME NEW q \in Pollers \ {p}, ppc[q] \in Received,
                      resp[q].tag = k + 1
               PROVE  FALSE
    OBVIOUS
  <2>1. resp[q].tag - 1 = k /\ resp[q].tag # 0
    BY <1>5, PoolAssumption DEF Slots
  <2>2. resp[q].req = msgs[k]
    BY <2>1 DEF IInv, StoreInv, TagNamesRequest, CalledBack, Received
  <2> QED BY <1>2, <1>6, <2>2 DEF IInv, FlightInv, RespInv
<1>10. \A s \in Senders : spc[s] \in Holding => idx[s] # k /\ idx[s] \in Slots
  BY <1>2, <1>5 DEF IInv, TypeInv, OwnerInv, PollerOwns
<1>11. \A n \in 0 .. MsgNum : n # 0 /\ n # k + 1 => n - 1 \in Slots \ {k}
  BY <1>5, PoolAssumption DEF Slots
<1>12. OutcomeInv' /\ CallerInv' /\ FlyInv' /\ StoredInv' /\ FilledInv'
  BY <1>1 DEF IInv, RequestInv, FlightInv, StoreInv, OutcomeInv, CallerInv,
      FlyInv, Flying, StoredInv, FilledInv
<1>13. TypeInv'
  <2>1. used' \in [Slots -> {0, 1}]
    BY <1>1 DEF IInv, TypeInv
  <2> QED BY <1>1, <1>3, <1>4, <2>1 DEF IInv, TypeInv
<1>14. RespInv'
  BY <1>1, <1>3 DEF IInv, FlightInv, RespInv, Flying, Received
<1>15. TagNamesRequest'
  BY <1>1, <1>3 DEF IInv, StoreInv, TagNamesRequest, CalledBack, Received
<1>16. SenderOwns'
  BY <1>1, <1>7, <1>10 DEF IInv, OwnerInv, SenderOwns
<1>17. PacketOwns'
  BY <1>1, <1>7, <1>8, <1>11, PacketTag DEF IInv, OwnerInv, PacketOwns,
      Flying
<1>18. PollerOwns'
  BY <1>1, <1>3, <1>7, <1>9, <1>11, RespTag DEF IInv, OwnerInv, PollerOwns
<1>19. LostOwns'
  <2>1. msgs[k] \notin lost
    BY <1>2, <1>5 DEF IInv, OwnerInv, LostOwns, PollerHolds, Received
  <2> QED BY <1>1, <1>3, <1>7, <2>1 DEF IInv, OwnerInv, LostOwns,
             SenderHolds, PollerHolds, Flying, Received
<1>20. TakenOwned'
  <2> SUFFICES ASSUME NEW i \in Slots, used'[i] = 1 PROVE Owned(i)'
    BY DEF TakenOwned
  <2>1. i # k /\ Owned(i)
    BY <1>7 DEF IInv, OwnerInv, TakenOwned
  <2>2. ~PollerHolds(p, i)
    BY <1>5, <2>1, PoolAssumption DEF PollerHolds, Slots
  <2> QED BY <1>1, <1>3, <2>1, <2>2 DEF Owned, SenderHolds, PollerHolds,
             Flying
<1> QED BY <1>12, <1>13, <1>14, <1>15, <1>16, <1>17, <1>18, <1>19, <1>20
      DEF IInv, RequestInv, FlightInv, StoreInv, OwnerInv

\* The conjuncts of IInv about owners give both directions of NoMsgLeak.
LEMMA OwnersExact == IInv => NoMsgLeak
<1> SUFFICES ASSUME IInv, NEW i \in Slots
             PROVE  (used[i] = 1) <=> \/ \E s \in Senders : SenderHolds(s, i)
                                      \/ Carried(i) # {}
                                      \/ \E p \in Pollers : PollerHolds(p, i)
                                      \/ LostIn(i) # {}
  BY DEF NoMsgLeak
<1>1. Carried(i) # {} <=> \E e \in Flying : e.tag = i + 1
  BY DEF Carried, Flying
<1>2. LostIn(i) # {} <=> msgs[i] \in lost /\ used[i] = 1
  BY DEF LostIn
<1>3. ASSUME NEW s \in Senders, SenderHolds(s, i) PROVE used[i] = 1
  BY <1>3 DEF IInv, OwnerInv, SenderOwns, SenderHolds, Holding
<1>4. ASSUME NEW e \in Flying, e.tag = i + 1 PROVE used[i] = 1
  <2>1. e.tag # 0 /\ e.tag - 1 = i
    BY <1>4, PoolAssumption DEF Slots
  <2> QED BY <2>1 DEF IInv, OwnerInv, PacketOwns
<1>5. ASSUME NEW p \in Pollers, PollerHolds(p, i) PROVE used[i] = 1
  <2>1. ppc[p] \in Received /\ resp[p].tag # 0 /\ resp[p].tag - 1 = i
    BY <1>5, PoolAssumption DEF PollerHolds, Received, Slots
  <2> QED BY <2>1 DEF IInv, OwnerInv, PollerOwns
<1>6. used[i] = 1 => Owned(i)
  BY DEF IInv, OwnerInv, TakenOwned
<1> QED BY <1>1, <1>2, <1>3, <1>4, <1>5, <1>6 DEF Owned

\* Every step of Next keeps the inductive invariant, and so does a stutter.
LEMMA NextIInv == IInv /\ [Next]_vars => IInv'
<1> SUFFICES ASSUME IInv, [Next]_vars PROVE IInv'
  OBVIOUS
<1>1. ASSUME NEW s \in Senders, AsyncRefused(s) \/ AsyncStart(s) \/ SendStep(s)
      PROVE  IInv'
  BY <1>1, AsyncRefusedKeeps, AsyncStartKeeps, GetMsgTakeKeeps,
     GetMsgNextKeeps, GetMsgBusyKeeps, GetMsgTailKeeps, AsyncFillKeeps,
     AsyncSendKeeps, AsyncSendFailsKeeps, AsyncFailKeeps
  DEF SendStep
<1>2. ASSUME NEW p \in Pollers, PollCall(p) \/ PollStep(p) \/ PollError(p)
      PROVE  IInv'
  BY <1>2, PollCallKeeps, PollAgainKeeps, PollErrorKeeps, PollRecvKeeps,
     PollUnknownKeeps, PollCallbackKeeps, PollPutKeeps
  DEF PollStep
<1>3. CASE UNCHANGED vars
  BY <1>3 DEF vars, poolVars, wireVars, sendVars, pollVars, histVars, IInv,
     TypeInv, RequestInv, OutcomeInv, CallerInv, FlightInv, FlyInv, RespInv,
     StoreInv, StoredInv, FilledInv, TagNamesRequest, CalledBack, OwnerInv,
     SenderOwns, PacketOwns, PollerOwns, LostOwns, TakenOwned, Owned,
     SenderHolds, PollerHolds, Flying
<1> QED BY <1>1, <1>2, <1>3, DeviceAnswerKeeps, DeviceBreaksTagKeeps DEF Next

\* The inductive invariant holds in every state of every behaviour.
THEOREM Invariance == Spec => []IInv
  BY InitIInv, NextIInv, PTL DEF Spec

\* No path of wd_do_cipher_async or wd_cipher_poll_ctx leaks a message of the
\* pool or frees one that somebody still holds, for any number of threads,
\* messages and requests.
THEOREM MessagesAccounted == Spec => []NoMsgLeak
  BY Invariance, OwnersExact, PTL

\* The tag of an answer names the message of the answered request until
\* wd_put_msg_to_pool, however submissions and polls interleave.
THEOREM TagsNameRequests == Spec => []TagNamesRequest
<1>1. IInv => TagNamesRequest
  BY DEF IInv, StoreInv
<1> QED BY <1>1, Invariance, PTL

\* No request is called back twice, and none that was refused.
THEOREM CallbacksOnce == Spec => []CallbackAtMostOnce
<1>1. IInv => CallbackAtMostOnce
  BY DEF IInv, TypeInv, RequestInv, OutcomeInv, CallbackAtMostOnce
<1> QED BY <1>1, Invariance, PTL

-----------------------------------------------------------------------------
\* The streams of a session.

BufType == [dst : Seq(Int), pending : Nat, offset : Nat, status : {"ok", "end"}]
StreamTypes == /\ buf \in BufType /\ out \in Seq(Int) /\ made \in Nat
               /\ dir \in {"compress", "decompress"}

\* What waits is the end of the buffer; an empty buffer is copied from its start.
StreamBuffer ==
  /\ buf.pending > 0 => Len(buf.dst) = buf.offset + buf.pending
  /\ buf.pending = 0 => buf.offset = 0

InOrder(o) == \A k \in 1 .. Len(o) : IsByte(o[k]) => o[k] = ByteCount(o, k)

\* What waits is what was made last.
StreamBytes ==
  ~failed => /\ InOrder(out) /\ made = ByteCount(out, Len(out)) + buf.pending
             /\ \A i \in 1 .. buf.pending : buf.dst[buf.offset + i] = made - buf.pending + i

\* The flag in the buffer is one the device gave.
StreamEnd == buf.status = "end" => done \/ again \/ failed

StreamInv == StreamTypes /\ StreamBuffer /\ StreamBytes /\ StreamEnd /\ DecompEndIsEnd

Begins(q, o, n) == \A j \in 1 .. n : q[j] = o[j]
NextAre(c, m) == \A i \in 1 .. Len(c) : c[i] = m + i
AllBytes(q, n, m) == \A j \in 1 .. m : IsByte(q[n + j])

\* An output that a part is added to: what was there is counted as before.
LEMMA CountKept ==
  ASSUME NEW o, NEW q, NEW n \in Nat, NEW k \in 1 .. n,
         Begins(q, o, n)
  PROVE  ByteCount(q, k) = ByteCount(o, k)
<1> USE DEF Begins
<1>1. {j \in 1 .. k : IsByte(q[j])} = {j \in 1 .. k : IsByte(o[j])}
  <2>1. \A j \in 1 .. k : j \in 1 .. n
    OBVIOUS
  <2> QED
    BY <2>1
<1> QED
  BY <1>1 DEF ByteCount

LEMMA CountTyped ==
  ASSUME NEW o, NEW n \in Nat
  PROVE  ByteCount(o, n) \in Nat /\ IsFiniteSet({j \in 1 .. n : IsByte(o[j])})
<1>1. IsFiniteSet(1 .. n)
  BY FS_Interval
<1>2. {j \in 1 .. n : IsByte(o[j])} \in SUBSET (1 .. n)
  OBVIOUS
<1>3. IsFiniteSet({j \in 1 .. n : IsByte(o[j])})
  BY <1>1, <1>2, FS_Subset
<1> QED
  BY <1>3, FS_CardinalityType DEF ByteCount

\* Bytes at the end count one by one.
LEMMA CountMore ==
  ASSUME NEW o, NEW q, NEW n \in Nat, NEW m \in Nat, Begins(q, o, n), AllBytes(q, n, m)
  PROVE  ByteCount(q, n + m) = ByteCount(o, n) + m
<1> USE DEF Begins, AllBytes
<1> DEFINE A == {j \in 1 .. n : IsByte(o[j])}  B == (n + 1) .. (n + m)
           C == {j \in 1 .. (n + m) : IsByte(q[j])}
<1>1. IsFiniteSet(A) /\ Cardinality(A) \in Nat
  BY CountTyped DEF ByteCount
<1>2. IsFiniteSet(B) /\ Cardinality(B) = m
  <2>1. PICK x \in Int, y \in Int : x = n + 1 /\ y = n + m
    OBVIOUS
  <2>2. IsFiniteSet(x .. y) /\ Cardinality(x .. y) = IF x > y THEN 0 ELSE y - x + 1
    BY FS_Interval
  <2> QED
    BY <2>1, <2>2
<1>3. A \cap B = {}
  OBVIOUS
<1>4. C = A \cup B
  <2>1. ASSUME NEW j \in 1 .. n PROVE j \in C <=> j \in A
    BY <2>1
  <2>2. ASSUME NEW j \in B PROVE j \in C
    <3>1. PICK i \in 1 .. m : j = n + i
      <4>1. j - n \in 1 .. m /\ j = n + (j - n)
        OBVIOUS
      <4> QED
        BY <4>1
    <3>2. j \in 1 .. (n + m)
      OBVIOUS
    <3> QED
      BY <3>1, <3>2
  <2>3. \A j \in 1 .. (n + m) : j \in 1 .. n \/ j \in B
    OBVIOUS
  <2>4. \A j \in A : j \in 1 .. n
    OBVIOUS
  <2>5. \A j \in C : j \in 1 .. (n + m)
    OBVIOUS
  <2> HIDE DEF A, B, C
  <2> QED
    BY <2>1, <2>2, <2>3, <2>4, <2>5
<1>5. Cardinality(C) = Cardinality(A) + m
  <2> HIDE DEF A, B, C
  <2>1. Cardinality(A \cup B) = Cardinality(A) + Cardinality(B) - Cardinality(A \cap B)
    BY <1>1, <1>2, FS_Union
  <2>2. Cardinality(C) = Cardinality(A) + m - Cardinality({})
    BY <2>1, <1>2, <1>3, <1>4
  <2> QED
    BY <2>2, <1>1, FS_EmptySet
<1> QED
  BY <1>5 DEF ByteCount

\* The next bytes in order keep the order.
LEMMA NextBytes ==
  ASSUME NEW o \in Seq(Int), InOrder(o), NEW c \in Seq(Int),
         NextAre(c, ByteCount(o, Len(o)))
  PROVE  /\ o \o c \in Seq(Int) /\ InOrder(o \o c)
         /\ ByteCount(o \o c, Len(o \o c)) = ByteCount(o, Len(o)) + Len(c)
<1>1. PICK n \in Nat, m \in Nat : n = Len(o) /\ m = Len(c)
  BY LenProperties
<1>2. PICK q \in Seq(Int) : q = o \o c
  BY ConcatProperties
<1>3. /\ Len(q) = n + m
      /\ \A j \in 1 .. (n + m) : q[j] = IF j <= n THEN o[j] ELSE c[j - n]
  BY <1>1, <1>2, ConcatProperties
<1>4. \A j \in 1 .. n : q[j] = o[j]
  BY <1>3
<1>5. PICK b \in Nat : b = ByteCount(o, n)
  BY CountTyped
<1>6. ASSUME NEW j \in 1 .. m PROVE q[n + j] = b + j /\ IsByte(q[n + j])
  <2>1. n + j \in 1 .. (n + m) /\ ~(n + j <= n) /\ (n + j) - n = j
    OBVIOUS
  <2>2. q[n + j] = c[j]
    BY <2>1, <1>3
  <2>3. c[j] = b + j
    BY <1>1, <1>5 DEF NextAre
  <2> QED
    BY <2>2, <2>3 DEF IsByte, StoredBlock
<1>9. Begins(q, o, n) /\ AllBytes(q, n, m)
  BY <1>4, <1>6 DEF Begins, AllBytes
<1>7. ByteCount(q, n + m) = b + m
  BY <1>5, <1>9, CountMore
<1>8. InOrder(q)
  <2> SUFFICES ASSUME NEW k \in 1 .. (n + m), IsByte(q[k]) PROVE q[k] = ByteCount(q, k)
    BY <1>3 DEF InOrder
  <2>1. CASE k \in 1 .. n
    <3>1. ByteCount(q, k) = ByteCount(o, k) /\ q[k] = o[k]
      BY <2>1, <1>4, <1>9, CountKept
    <3> QED
      BY <3>1, <2>1, <1>1 DEF InOrder
  <2>2. CASE k \notin 1 .. n
    <3>1. PICK j \in 1 .. m : k = n + j
      <4>1. k - n \in 1 .. m /\ k = n + (k - n)
        BY <2>2
      <4> QED
        BY <4>1
    <3>2. AllBytes(q, n, j)
      <4>1. \A i \in 1 .. j : i \in 1 .. m
        OBVIOUS
      <4> QED
        BY <4>1, <1>6 DEF AllBytes
    <3>3. j \in Nat
      OBVIOUS
    <3>4. ByteCount(q, n + j) = ByteCount(o, n) + j
      BY <3>2, <3>3, <1>9, CountMore
    <3> QED
      BY <3>1, <3>4, <1>5, <1>6
  <2> QED
    BY <2>1, <2>2
<1> QED
  BY <1>1, <1>2, <1>3, <1>5, <1>7, <1>8

\* A stored block is no byte of the device.
LEMMA NextBlock ==
  ASSUME NEW o \in Seq(Int), InOrder(o)
  PROVE  /\ Append(o, StoredBlock) \in Seq(Int) /\ InOrder(Append(o, StoredBlock))
         /\ ByteCount(Append(o, StoredBlock), Len(Append(o, StoredBlock)))
              = ByteCount(o, Len(o))
<1>1. PICK n \in Nat : n = Len(o)
  BY LenProperties
<1>2. StoredBlock \in Int /\ ~IsByte(StoredBlock)
  BY DEF StoredBlock, IsByte
<1>3. PICK q \in Seq(Int) : q = Append(o, StoredBlock)
  BY <1>2, AppendProperties
<1>4. /\ Len(q) = n + 1 /\ q[n + 1] = StoredBlock
      /\ \A j \in 1 .. n : q[j] = o[j]
  BY <1>1, <1>2, <1>3, AppendProperties
<1>5. ByteCount(q, n + 1) = ByteCount(o, n)
  <2>1. {j \in 1 .. (n + 1) : IsByte(q[j])} = {j \in 1 .. n : IsByte(o[j])}
    <3>1. \A j \in 1 .. (n + 1) : j \in 1 .. n \/ j = n + 1
      OBVIOUS
    <3>2. \A j \in 1 .. n : j \in 1 .. (n + 1)
      OBVIOUS
    <3> QED
      BY <3>1, <3>2, <1>2, <1>4
  <2> QED
    BY <2>1 DEF ByteCount
<1>6. InOrder(q)
  <2> SUFFICES ASSUME NEW k \in 1 .. (n + 1), IsByte(q[k]) PROVE q[k] = ByteCount(q, k)
    BY <1>4 DEF InOrder
  <2>1. k \in 1 .. n
    BY <1>2, <1>4
  <2>2. ByteCount(q, k) = ByteCount(o, k) /\ q[k] = o[k]
    BY <2>1, <1>4, CountKept DEF Begins
  <2> QED
    BY <2>1, <2>2, <1>1 DEF InOrder
<1> QED
  BY <1>1, <1>3, <1>4, <1>5, <1>6

-----------------------------------------------------------------------------
LEMMA BufFields ==
  ASSUME NEW f \in BufType
  PROVE  /\ f.dst \in Seq(Int) /\ f.pending \in Nat /\ f.offset \in Nat
         /\ f.status \in {"ok", "end"}
BY DEF BufType

LEMMA BufMade ==
  ASSUME NEW x \in Seq(Int), NEW p \in Nat, NEW o \in Nat, NEW s \in {"ok", "end"}
  PROVE  /\ [dst |-> x, pending |-> p, offset |-> o, status |-> s] \in BufType
         /\ [dst |-> x, pending |-> p, offset |-> o, status |-> s].dst = x
         /\ [dst |-> x, pending |-> p, offset |-> o, status |-> s].pending = p
         /\ [dst |-> x, pending |-> p, offset |-> o, status |-> s].offset = o
         /\ [dst |-> x, pending |-> p, offset |-> o, status |-> s].status = s
BY DEF BufType

\* The emptied buffer keeps its flag.
Emptied(s) == [dst |-> << >>, pending |-> 0, offset |-> 0, status |-> s]

LEMMA FreshExcept ==
  ASSUME NEW s \in {"ok", "end"}
  PROVE  /\ [Fresh EXCEPT !.status = s] = Emptied(s) /\ Fresh = Emptied("ok")
         /\ Emptied(s) \in BufType /\ Emptied(s).pending = 0 /\ Emptied(s).offset = 0
         /\ Emptied(s).status = s
BY EmptySeq DEF Fresh, Emptied, BufType

LEMMA SmallerOf ==
  ASSUME NEW a \in Nat, NEW b \in Nat
  PROVE  Smaller(a, b) \in Nat /\ Smaller(a, b) <= a /\ Smaller(a, b) <= b
BY DEF Smaller

LEMMA RestMoved ==
  ASSUME NEW m \in Nat, NEW p \in Nat, NEW n \in Nat, NEW r \in Nat, NEW q \in Nat,
         NEW o \in Nat, r = p - n, q = o + n, NEW i \in 1 .. r
  PROVE  n + i \in 1 .. p /\ q + i = o + (n + i) /\ m - p + (n + i) = m - r + i
  OBVIOUS

\* A part of a sequence.
LEMMA PartOf ==
  ASSUME NEW x \in Seq(Int), NEW o \in Nat, NEW n \in Nat, o + n <= Len(x)
  PROVE  /\ SubSeq(x, o + 1, o + n) \in Seq(Int) /\ Len(SubSeq(x, o + 1, o + n)) = n
         /\ \A i \in 1 .. n : SubSeq(x, o + 1, o + n)[i] = x[o + i]
<1>1. Len(x) \in Nat /\ \A i \in 1 .. Len(x) : x[i] \in Int
  BY LenProperties, ElementOfSeq
<1>2. PICK a \in Int, b \in Int : a = o + 1 /\ b = o + n
  OBVIOUS
<1>3. \A i \in a .. b : x[i] \in Int
  <2>1. \A i \in a .. b : i \in 1 .. Len(x)
    BY <1>1, <1>2
  <2> QED
    BY <2>1, <1>1
<1>4. /\ SubSeq(x, a, b) \in Seq(Int)
      /\ Len(SubSeq(x, a, b)) = IF a <= b THEN b - a + 1 ELSE 0
      /\ \A i \in 1 .. b - a + 1 : SubSeq(x, a, b)[i] = x[a + i - 1]
  BY <1>3, SubSeqProperties
<1>5. (IF a <= b THEN b - a + 1 ELSE 0) = n /\ b - a + 1 = n
  BY <1>2
<1>6. \A i \in 1 .. n : a + i - 1 = o + i
  BY <1>2
<1> QED
  BY <1>2, <1>4, <1>5, <1>6

-----------------------------------------------------------------------------
LEMMA StreamInitInv ==
  ASSUME CInit PROVE StreamInv
<1>1. buf = Emptied("ok") /\ buf \in BufType /\ buf.pending = 0 /\ buf.offset = 0
      /\ buf.status = "ok"
  BY FreshExcept DEF CInit
<1>2. out = << >> /\ out \in Seq(Int) /\ Len(out) = 0 /\ made = 0
  BY EmptySeq DEF CInit
<1>3. ByteCount(out, 0) = 0
  <2>1. {j \in 1 .. 0 : IsByte(out[j])} = {}
    OBVIOUS
  <2> QED
    BY <2>1, FS_EmptySet DEF ByteCount
<1>4. /\ dir \in {"compress", "decompress"} /\ done = FALSE /\ told = FALSE
      /\ again = FALSE /\ failed = FALSE
  BY DEF CInit
<1>5. StreamTypes
  BY <1>1, <1>2, <1>4 DEF StreamTypes
<1>6. StreamBuffer
  BY <1>1 DEF StreamBuffer
<1>7. InOrder(out) /\ made = ByteCount(out, Len(out)) + buf.pending
  BY <1>1, <1>2, <1>3 DEF InOrder
<1>8. StreamBytes
  BY <1>1, <1>7 DEF StreamBytes
<1> QED
  BY <1>1, <1>4, <1>5, <1>6, <1>8 DEF StreamInv, StreamEnd, DecompEndIsEnd

\* A copy of the bytes that wait, and how the buffer is left.
LEMMA CopyInv ==
  ASSUME StreamInv, buf.pending > 0, NEW src, NEW last, NEW d \in Nat,
         check_store_buf(src, last, d)
  PROVE  StreamInv'
<1>1. PICK f \in BufType : f = buf
  BY DEF StreamInv, StreamTypes
<1>2. f.dst \in Seq(Int) /\ f.pending \in Nat /\ f.offset \in Nat /\ f.status \in {"ok", "end"}
  BY BufFields
<1>3. PICK x \in Seq(Int), p \in Nat, o \in Nat, s \in {"ok", "end"} :
         x = f.dst /\ p = f.pending /\ o = f.offset /\ s = f.status
  BY <1>2
<1>4. PICK n \in Nat : n = Smaller(p, d) /\ n <= p
  BY SmallerOf
<1>5. Len(x) = o + p /\ p > 0
  BY <1>1, <1>3 DEF StreamInv, StreamBuffer
<1>6. PICK c : c = SubSeq(x, o + 1, o + n)
  OBVIOUS
<1>7. c \in Seq(Int) /\ Len(c) = n /\ \A i \in 1 .. n : c[i] = x[o + i]
  <2>1. o + n <= Len(x)
    BY <1>4, <1>5
  <2> QED
    BY <2>1, <1>6, PartOf
<1>8. c = copy_to_out(buf, buf.pending, d)
  BY <1>1, <1>3, <1>4, <1>6 DEF copy_to_out
<1>9. PICK r \in Nat, q \in Nat : r = p - n /\ q = o + n
  BY <1>4
<1> DEFINE b == [dst |-> x, pending |-> r, offset |-> q, status |-> s]
<1>10. [dst |-> buf.dst, pending |-> buf.pending - Len(c),
        offset |-> buf.offset + Len(c), status |-> buf.status] = b
  <2>1. buf.pending - Len(c) = r /\ buf.offset + Len(c) = q
    BY <1>1, <1>3, <1>7, <1>9
  <2> QED
    BY <2>1, <1>1, <1>3
<1>11. b \in BufType /\ b.dst = x /\ b.pending = r /\ b.offset = q /\ b.status = s
  BY BufMade
<1> HIDE DEF b
<1>12. /\ buf' = IF r = 0 THEN Emptied(s) ELSE b
       /\ out' = out \o c
       /\ AtEnd(end_check(last, src, 0, IF r = 0 /\ s = "end" THEN "end" ELSE "ok"))
       /\ dir' = dir /\ made' = made /\ done' = done /\ again' = again /\ failed' = failed
  BY <1>8, <1>10, <1>11, FreshExcept DEF check_store_buf
<1>13. /\ buf' \in BufType /\ buf'.pending = r /\ buf'.status = s
       /\ r = 0 => buf'.offset = 0
       /\ r # 0 => buf'.offset = q /\ buf'.dst = x
  BY <1>11, <1>12, FreshExcept
<1>m. made \in Nat
  BY DEF StreamInv, StreamTypes
<1>14. out \in Seq(Int) /\ made \in Nat /\ dir \in {"compress", "decompress"}
  BY DEF StreamInv, StreamTypes
<1>15. out' \in Seq(Int)
  BY <1>7, <1>12, <1>14, ConcatProperties
<1>16. told' /\ dir = "decompress" => r = 0 /\ s = "end"
  BY <1>12 DEF AtEnd, end_check
<1>17. StreamTypes'
  BY <1>12, <1>13, <1>14, <1>15, <1>16 DEF StreamTypes
<1>18. StreamBuffer'
  <2>1. r # 0 => Len(x) = q + r
    BY <1>4, <1>5, <1>9
  <2> QED
    BY <2>1, <1>13 DEF StreamBuffer
<1>19. StreamEnd' /\ DecompEndIsEnd'
  BY <1>1, <1>3, <1>12, <1>13, <1>16 DEF StreamInv, StreamEnd, DecompEndIsEnd
<1>20. ASSUME ~failed
       PROVE  /\ InOrder(out') /\ made = ByteCount(out', Len(out')) + r
              /\ r # 0 => \A i \in 1 .. r : x[q + i] = made - r + i
  <2>1. /\ InOrder(out) /\ made = ByteCount(out, Len(out)) + p
        /\ \A i \in 1 .. p : x[o + i] = made - p + i
    BY <1>20, <1>1, <1>3 DEF StreamInv, StreamBytes
  <2>2. PICK m \in Nat : m = ByteCount(out, Len(out))
    BY <1>14, LenProperties, CountTyped
  <2>3. ASSUME NEW i \in 1 .. Len(c) PROVE c[i] = m + i
    <3>1. i \in 1 .. n /\ i \in 1 .. p
      BY <1>4, <1>7
    <3>2. c[i] = made - p + i
      BY <3>1, <1>7, <2>1
    <3> QED
      BY <3>2, <2>1, <2>2
  <2>7. NextAre(c, m)
    BY <2>3 DEF NextAre
  <2>4. InOrder(out \o c) /\ ByteCount(out \o c, Len(out \o c)) = m + n
    BY <2>1, <2>2, <2>7, <1>7, <1>14, NextBytes
  <2>5. ASSUME NEW i \in 1 .. r PROVE x[q + i] = made - r + i
    <3>1. n + i \in 1 .. p /\ q + i = o + (n + i) /\ made - p + (n + i) = made - r + i
      BY <1>9, <1>m, RestMoved
    <3>2. x[o + (n + i)] = made - p + (n + i)
      BY <3>1, <2>1
    <3> QED
      BY <3>1, <3>2
  <2>6. made = (m + n) + r
    BY <2>1, <2>2, <1>9
  <2> QED
    BY <2>4, <2>5, <2>6, <1>12
<1>21. StreamBytes'
  <2> SUFFICES ASSUME ~failed'
               PROVE  /\ InOrder(out') /\ made' = ByteCount(out', Len(out')) + buf'.pending
                      /\ \A i \in 1 .. buf'.pending :
                            buf'.dst[buf'.offset + i] = made' - buf'.pending + i
    BY DEF StreamBytes
  <2>1. /\ InOrder(out') /\ made = ByteCount(out', Len(out')) + r
        /\ r # 0 => \A i \in 1 .. r : x[q + i] = made - r + i
    BY <1>12, <1>20
  <2>4. made' = made /\ buf'.pending = r /\ (r # 0 => buf'.offset = q /\ buf'.dst = x)
    BY <1>12, <1>13
  <2>2. CASE r = 0
    BY <2>1, <2>2, <2>4
  <2>3. CASE r # 0
    BY <2>1, <2>3, <2>4
  <2> QED
    BY <2>2, <2>3
<1> QED
  BY <1>17, <1>18, <1>19, <1>21 DEF StreamInv

LEMMA BytesTyped ==
  ASSUME made \in Nat, NEW p \in Nat
  PROVE  Bytes(p) \in Seq(Int) /\ Len(Bytes(p)) = p /\ \A i \in 1 .. p : Bytes(p)[i] = made + i
BY DEF Bytes

LEMMA DeviceBytes ==
  ASSUME NEW o \in Seq(Int), InOrder(o), NEW m \in Nat, m = ByteCount(o, Len(o)) + 0,
         NEW p \in Nat, NEW n \in Nat, NEW r \in Nat, r = p - n,
         NEW c \in Seq(Int), Len(c) = n, NextAre(c, m)
  PROVE  InOrder(o \o c) /\ m + p = ByteCount(o \o c, Len(o \o c)) + r
<1>1. PICK k \in Nat : k = ByteCount(o, Len(o))
  <2>1. PICK l \in Nat : l = Len(o)
    BY LenProperties
  <2> QED
    BY <2>1, CountTyped
<1>2. k = m
  BY <1>1
<1>4. NextAre(c, ByteCount(o, Len(o)))
  BY <1>1, <1>2
<1>5. InOrder(o \o c) /\ ByteCount(o \o c, Len(o \o c)) = ByteCount(o, Len(o)) + Len(c)
  BY <1>4, NextBytes, Zenon
<1>3. InOrder(o \o c) /\ ByteCount(o \o c, Len(o \o c)) = m + n
  BY <1>1, <1>2, <1>5
<1> QED
  BY <1>3

LEMMA DeviceRest ==
  ASSUME NEW m \in Nat, NEW p \in Nat, NEW n \in Nat, NEW r \in Nat, r = p - n,
         NEW x, \A i \in 1 .. p : x[i] = m + i
  PROVE  \A i \in 1 .. r : x[n + i] = m + p - r + i
<1>1. \A i \in 1 .. r : n + i \in 1 .. p /\ m + (n + i) = m + p - r + i
  OBVIOUS
<1> QED
  BY <1>1

\* The parts of a step of the device: the output takes the first n of the p bytes
\* made, the buffer keeps the rest.
Taken(c, p, n) == c \in Seq(Int) /\ Len(c) = n /\ NextAre(c, made)
Kept(p, n) == /\ buf' \in BufType /\ buf'.pending = p - n
              /\ p - n = 0 => buf'.offset = 0
              /\ p - n # 0 => buf'.offset = n /\ buf'.dst = Bytes(p)

LEMMA DeviceBytesInv ==
  ASSUME made \in Nat, out \in Seq(Int), buf.pending = 0, StreamBytes,
         NEW p \in Nat, NEW n \in Nat, n <= p, NEW c, Taken(c, p, n), Kept(p, n),
         out' = out \o c, made' = made + p, failed' = failed
  PROVE  StreamBytes' /\ StreamBuffer'
<1>1. PICK r \in Nat : r = p - n
  OBVIOUS
<1>2. Bytes(p) \in Seq(Int) /\ Len(Bytes(p)) = p /\ \A i \in 1 .. p : Bytes(p)[i] = made + i
  BY BytesTyped
<1>3. buf'.pending = r /\ (r = 0 => buf'.offset = 0)
      /\ (r # 0 => buf'.offset = n /\ buf'.dst = Bytes(p))
  BY <1>1 DEF Kept
<1>4. StreamBuffer'
  <2>1. n + r = p
    BY <1>1
  <2>2. CASE r = 0
    BY <2>2, <1>3 DEF StreamBuffer
  <2>3. CASE r # 0
    <3>1. Len(buf'.dst) = buf'.offset + buf'.pending /\ buf'.pending # 0
      BY <2>1, <2>3, <1>2, <1>3
    <3> QED
      BY <3>1 DEF StreamBuffer
  <2> QED
    BY <2>2, <2>3
<1>5. ASSUME ~failed
      PROVE  /\ InOrder(out') /\ made' = ByteCount(out', Len(out')) + r
             /\ \A i \in 1 .. r : Bytes(p)[n + i] = made' - r + i
  <2>1. InOrder(out) /\ made = ByteCount(out, Len(out)) + 0
    BY <1>5 DEF StreamBytes
  <2>2. c \in Seq(Int) /\ Len(c) = n /\ NextAre(c, made)
    BY DEF Taken
  <2>3. InOrder(out \o c) /\ made + p = ByteCount(out \o c, Len(out \o c)) + r
    BY <2>1, <2>2, <1>1, DeviceBytes
  <2>4. \A i \in 1 .. r : Bytes(p)[n + i] = made + p - r + i
    BY <1>2, <1>1, DeviceRest
  <2> QED
    BY <2>3, <2>4
<1>6. StreamBytes'
  <2> SUFFICES ASSUME ~failed'
               PROVE  /\ InOrder(out') /\ made' = ByteCount(out', Len(out')) + buf'.pending
                      /\ \A i \in 1 .. buf'.pending :
                            buf'.dst[buf'.offset + i] = made' - buf'.pending + i
    BY DEF StreamBytes
  <2>1. /\ InOrder(out') /\ made' = ByteCount(out', Len(out')) + r
        /\ \A i \in 1 .. r : Bytes(p)[n + i] = made' - r + i
    BY <1>5
  <2>2. CASE r = 0
    <3>1. buf'.pending = 0 /\ \A i \in 1 .. 0 : FALSE
      BY <2>2, <1>3
    <3>2. \A i \in 1 .. buf'.pending : FALSE
      BY <3>1
    <3> QED
      BY <2>1, <3>2, <1>3
  <2>3. CASE r # 0
    BY <2>1, <2>3, <1>3
  <2> QED
    BY <2>2, <2>3
<1> QED
  BY <1>4, <1>6

\* What the parts of the invariant say of an empty buffer.
LEMMA EmptyBuffer ==
  ASSUME StreamInv, buf.pending = 0
  PROVE  /\ buf \in BufType /\ buf.offset = 0 /\ buf.status \in {"ok", "end"}
         /\ made \in Nat /\ out \in Seq(Int) /\ StreamBytes
         /\ dir \in {"compress", "decompress"}
BY BufFields DEF StreamInv, StreamTypes, StreamBuffer

\* The answer of a request made in the buffer.
LEMMA StoreParts ==
  ASSUME StreamInv, buf.pending = 0, NEW p \in Nat, NEW d \in Nat, NEW fin,
         buf' = copy_from_hw(Bytes(p), d, fin).buf
  PROVE  \E n \in Nat :
           /\ n <= p /\ Taken(copy_from_hw(Bytes(p), d, fin).copy, p, n) /\ Kept(p, n)
           /\ copy_from_hw(Bytes(p), d, fin).status = "end" => fin /\ p - n = 0
           /\ buf'.status = "end" => fin \/ buf.status = "end"
<1>1. /\ buf \in BufType /\ buf.offset = 0 /\ buf.status \in {"ok", "end"} /\ made \in Nat
  BY EmptyBuffer
<1>2. PICK x \in Seq(Int) : x = Bytes(p) /\ Len(x) = p /\ \A i \in 1 .. p : x[i] = made + i
  BY <1>1, BytesTyped
<1>3. PICK n \in Nat : n = Smaller(p, d) /\ n <= p
  BY SmallerOf
<1>4. PICK c : c = SubSeq(x, 0 + 1, 0 + n)
  OBVIOUS
<1>5. c \in Seq(Int) /\ Len(c) = n /\ \A i \in 1 .. n : c[i] = x[0 + i]
  <2>1. 0 \in Nat /\ 0 + n <= Len(x)
    BY <1>2, <1>3
  <2> QED
    BY <2>1, <1>4, PartOf
<1>6. copy_to_out([buf EXCEPT !.dst = x], Len(x), d) = c
  <2>1. [buf EXCEPT !.dst = x].dst = x /\ [buf EXCEPT !.dst = x].offset = 0
    BY <1>1 DEF BufType
  <2> QED
    BY <2>1, <1>2, <1>3, <1>4 DEF copy_to_out
<1>7. PICK r \in Nat : r = p - n
  BY <1>3
<1>8. PICK s \in {"ok", "end"} : s = IF fin THEN "end" ELSE buf.status
  BY <1>1
<1>9. PICK t \in {"ok", "end"} : t = buf.status
  BY <1>1
<1> DEFINE b == [dst |-> x, pending |-> r, offset |-> n, status |-> s]
           ans == copy_from_hw(x, d, fin)
<1>10. b \in BufType /\ b.dst = x /\ b.pending = r /\ b.offset = n /\ b.status = s
  BY BufMade
<1>11. Len(x) - Len(c) = r /\ buf.offset + Len(c) = n
  BY <1>1, <1>2, <1>5, <1>7
<1>12. /\ ans.buf = IF r = 0 THEN Emptied(t) ELSE b
       /\ ans.copy = c /\ ans.status = IF fin /\ r = 0 THEN "end" ELSE "ok"
  BY <1>6, <1>8, <1>9, <1>11, FreshExcept DEF copy_from_hw
<1>13. /\ buf' = (IF r = 0 THEN Emptied(t) ELSE b) /\ Taken(c, p, n)
  <2>1. NextAre(c, made)
    <3>1. \A i \in 1 .. n : 0 + i = i /\ i \in 1 .. p
      BY <1>3
    <3> QED
      BY SMTT(30), <3>1, <1>2, <1>5 DEF NextAre
  <2> QED
    BY <2>1, <1>2, <1>5, <1>12 DEF Taken
<1> HIDE DEF b
<1>14. Kept(p, n)
  BY <1>2, <1>7, <1>10, <1>13, FreshExcept DEF Kept
<1>15. buf'.status = (IF r = 0 THEN t ELSE s)
  BY <1>10, <1>13, FreshExcept
<1> QED
  BY <1>2, <1>3, <1>7, <1>8, <1>9, <1>12, <1>13, <1>14, <1>15

\* A step of the device.
LEMMA DeviceInv ==
  ASSUME StreamInv, NEW src \in Nat, NEW last \in BOOLEAN, NEW d \in Nat, Device(src, last, d)
  PROVE  StreamInv'
<1>1. buf.pending = 0 /\ dir' = dir /\ again' = again /\ failed' = failed
  BY DEF Device
<1>2. /\ buf \in BufType /\ buf.offset = 0 /\ buf.status \in {"ok", "end"} /\ made \in Nat
      /\ out \in Seq(Int) /\ StreamBytes /\ dir \in {"compress", "decompress"}
  BY <1>1, EmptyBuffer
<1>3. StreamEnd
  BY DEF StreamInv
<1>4. PICK c \in 0 .. src, p \in 0 .. Room(d), fin \in BOOLEAN :
         /\ buf' = Answer(p, fin, d).buf /\ out' = out \o Answer(p, fin, d).copy
         /\ made' = made + p /\ done' = (done \/ fin)
         /\ AtEnd(end_check(last, src, c, Answer(p, fin, d).status))
  BY SMTT(30) DEF Device
<1>5. p \in Nat
  BY <1>4
<1>6. \E n \in Nat :
        /\ n <= p /\ Taken(Answer(p, fin, d).copy, p, n) /\ Kept(p, n)
        /\ Answer(p, fin, d).status = "end" => fin /\ p - n = 0
        /\ buf'.status = "end" => fin \/ buf.status = "end"
  <2>1. CASE InStore(d)
    <3>1. Answer(p, fin, d) = copy_from_hw(Bytes(p), d, fin /\ dir = "decompress")
      BY <2>1 DEF Answer
    <3>2. PICK f : f = (fin /\ dir = "decompress")
      OBVIOUS
    <3>3. buf' = copy_from_hw(Bytes(p), d, f).buf
      BY <3>1, <3>2, <1>4
    <3>4. PICK n \in Nat :
            /\ n <= p /\ Taken(copy_from_hw(Bytes(p), d, f).copy, p, n) /\ Kept(p, n)
            /\ copy_from_hw(Bytes(p), d, f).status = "end" => f /\ p - n = 0
            /\ buf'.status = "end" => f \/ buf.status = "end"
      BY <3>3, <1>1, <1>5, StoreParts
    <3> QED
      BY <3>1, <3>2, <3>4
  <2>2. CASE ~InStore(d)
    <3>1. /\ Answer(p, fin, d).copy = Bytes(p) /\ buf' = buf
          /\ Answer(p, fin, d).status = IF fin THEN "end" ELSE "ok"
      BY <2>2, <1>4 DEF Answer
    <3>2. p <= p /\ p - p = 0
      BY <1>5
    <3>3. Taken(Bytes(p), p, p)
      BY <1>2, <1>5, BytesTyped DEF Taken, NextAre
    <3>4. Kept(p, p)
      BY <3>1, <3>2, <1>1, <1>2 DEF Kept
    <3>5. Answer(p, fin, d).status = "end" => fin
      BY <3>1
    <3> QED
      BY <3>1, <3>2, <3>3, <3>4, <3>5, <1>5
  <2> QED
    BY <2>1, <2>2
<1>7. PICK n \in Nat :
        /\ n <= p /\ Taken(Answer(p, fin, d).copy, p, n) /\ Kept(p, n)
        /\ Answer(p, fin, d).status = "end" => fin /\ p - n = 0
        /\ buf'.status = "end" => fin \/ buf.status = "end"
  BY <1>6
<1>8. StreamBytes' /\ StreamBuffer'
  BY <1>1, <1>2, <1>4, <1>5, <1>7, DeviceBytesInv
<1>9. StreamTypes'
  <2>1. out' \in Seq(Int)
    BY <1>2, <1>4, <1>7, ConcatProperties DEF Taken
  <2>2. buf' \in BufType
    BY <1>7 DEF Kept
  <2>3. made' \in Nat
    BY <1>2, <1>4, <1>5
  <2> QED
    BY <2>1, <2>2, <2>3, <1>1, <1>2 DEF StreamTypes
<1>10. StreamEnd'
  BY <1>1, <1>3, <1>4, <1>7 DEF StreamEnd
<1>11. DecompEndIsEnd'
  <2>1. told' = end_check(last, src, c, Answer(p, fin, d).status)
    BY <1>4 DEF AtEnd
  <2>2. dir = "decompress" => (end_check(last, src, c, Answer(p, fin, d).status)
                                <=> Answer(p, fin, d).status = "end")
    BY DEF end_check
  <2>3. buf'.pending = p - n
    BY <1>7 DEF Kept
  <2> QED
    BY <2>1, <2>2, <2>3, <1>1, <1>4, <1>7 DEF DecompEndIsEnd
<1> QED
  BY <1>8, <1>9, <1>10, <1>11 DEF StreamInv

\* A request that failed: nothing is said of the bytes until a reset.
LEMMA BrokenInv ==
  ASSUME StreamInv, NEW d, Broken(d)
  PROVE  StreamInv'
<1> DEFINE z == [i \in 1 .. StoreBuf |-> 0]
<1>1. /\ buf.pending = 0 /\ buf' = [buf EXCEPT !.pending = StoreBuf, !.dst = z]
      /\ failed' = TRUE /\ told' = FALSE
      /\ dir' = dir /\ made' = made /\ out' = out
  BY DEF Broken
<1>2. /\ buf \in BufType /\ buf.offset = 0 /\ made \in Nat /\ out \in Seq(Int)
      /\ dir \in {"compress", "decompress"}
  BY <1>1, EmptyBuffer
<1>3. StoreBuf \in Nat
  BY StreamAssumption
<1>4. z \in Seq(Int) /\ Len(z) = StoreBuf
  BY <1>3
<1> HIDE DEF z
<1>5. buf' \in BufType /\ buf'.pending = StoreBuf /\ buf'.offset = 0 /\ buf'.dst = z
  BY <1>1, <1>2, <1>3, <1>4 DEF BufType
<1>6. StreamTypes'
  BY <1>1, <1>2, <1>5 DEF StreamTypes
<1>7. StreamBuffer'
  BY <1>3, <1>4, <1>5 DEF StreamBuffer
<1> QED
  BY <1>1, <1>6, <1>7 DEF StreamInv, StreamBytes, StreamEnd, DecompEndIsEnd

\* The block the front end writes itself.
LEMMA BlockInvStream ==
  ASSUME StreamInv, append_store_block
  PROVE  StreamInv'
<1>1. /\ dir = "compress" /\ out' = Append(out, StoredBlock)
      /\ dir' = dir /\ buf' = buf /\ made' = made /\ done' = done /\ again' = again
      /\ failed' = failed
  BY DEF append_store_block
<1>2. out \in Seq(Int)
  BY DEF StreamInv, StreamTypes
<1>3. out' \in Seq(Int)
  BY <1>1, <1>2, AppendProperties DEF StoredBlock
<1>4. StreamTypes'
  BY <1>1, <1>3 DEF StreamInv, StreamTypes
<1>5. StreamBuffer' /\ StreamEnd' /\ DecompEndIsEnd'
  BY <1>1 DEF StreamInv, StreamBuffer, StreamEnd, DecompEndIsEnd
<1>6. StreamBytes'
  <2>1. ASSUME ~failed PROVE InOrder(out') /\ ByteCount(out', Len(out')) = ByteCount(out, Len(out))
    <3>1. InOrder(out)
      BY <2>1 DEF StreamInv, StreamBytes
    <3> QED
      BY <3>1, <1>1, <1>2, NextBlock
  <2> QED
    BY <2>1, <1>1 DEF StreamInv, StreamBytes
<1> QED
  BY <1>4, <1>5, <1>6 DEF StreamInv

LEMMA ResetInv ==
  ASSUME StreamInv, wd_comp_reset_sess
  PROVE  StreamInv'
<1>1. /\ buf' = Fresh /\ made' = 0 /\ out' = << >> /\ told' = FALSE /\ dir' = dir
      /\ done' = FALSE /\ again' = FALSE /\ failed' = FALSE
  BY DEF wd_comp_reset_sess
<1>2. buf' \in BufType /\ buf'.pending = 0 /\ buf'.offset = 0 /\ buf'.status = "ok"
  BY <1>1, FreshExcept
<1>3. out' \in Seq(Int) /\ Len(out') = 0
  BY <1>1, EmptySeq
<1>4. ByteCount(out', 0) = 0
  <2>1. {j \in 1 .. 0 : IsByte(out'[j])} = {}
    OBVIOUS
  <2> QED
    BY <2>1, FS_EmptySet DEF ByteCount
<1>5. StreamTypes'
  BY <1>1, <1>2, <1>3 DEF StreamInv, StreamTypes
<1>6. StreamBuffer'
  BY <1>2 DEF StreamBuffer
<1>7. InOrder(out') /\ made' = ByteCount(out', Len(out')) + buf'.pending
  BY <1>1, <1>2, <1>3, <1>4 DEF InOrder
<1>8. StreamBytes'
  BY <1>2, <1>7 DEF StreamBytes
<1> QED
  BY <1>1, <1>2, <1>5, <1>6, <1>8 DEF StreamInv, StreamEnd, DecompEndIsEnd

LEMMA StreamStep ==
  ASSUME StreamInv, [CNext]_strmVars
  PROVE  StreamInv'
<1>1. ASSUME NEW src \in 0 .. left, NEW d \in 1 .. MaxDst, NEW last \in BOOLEAN,
             check_store_buf(src, last, d) \/ Device(src, last, d) \/ Broken(d)
      PROVE  StreamInv'
  <2>1. src \in Nat
    BY <1>1
  <2>2. d \in Nat
    BY <1>1
  <2>3. CASE check_store_buf(src, last, d)
    <3>1. buf.pending > 0
      BY <2>3 DEF check_store_buf
    <3> QED
      BY <3>1, <2>2, <2>3, CopyInv
  <2>4. CASE Device(src, last, d)
    BY <2>1, <2>2, <2>4, DeviceInv
  <2>5. CASE Broken(d)
    BY <2>5, BrokenInv
  <2> QED
    BY <1>1, <2>3, <2>4, <2>5
<1>2. CASE append_store_block
  BY <1>2, BlockInvStream
<1>3. CASE wd_comp_reset_sess
  BY <1>3, ResetInv
<1>4. CASE NextStream
  BY <1>4 DEF NextStream, StreamInv, StreamTypes, StreamBuffer, StreamBytes, StreamEnd,
     DecompEndIsEnd
<1>5. CASE UNCHANGED strmVars
  BY <1>5 DEF strmVars, StreamInv, StreamTypes, StreamBuffer, StreamBytes, StreamEnd,
     DecompEndIsEnd
<1> QED
  BY <1>1, <1>2, <1>3, <1>4, <1>5 DEF CNext, wd_do_comp_strm

\* The outputs of a stream of any length, made with outputs of any sizes, are what
\* the device made, each byte once and in order, and a decompression that reports
\* its end is at it (check_store_buf, copy_from_hw, append_store_block and the
\* resets of wd_comp_reset_sess in any order, until a request fails).
THEOREM CompStreamExact == CSpec => []StreamExact
<1>1. CInit => StreamInv
  BY StreamInitInv
<1>2. StreamInv /\ [CNext]_strmVars => StreamInv'
  BY StreamStep
<1>3. StreamInv => StreamExact
  <2>1. out \in Seq(Int) => DOMAIN out = 1 .. Len(out)
    BY LenProperties
  <2> QED
    BY <2>1 DEF StreamInv, StreamTypes, StreamBytes, InOrder, StreamExact, BytesInOrder
<1> QED
  BY <1>1, <1>2, <1>3, PTL DEF CSpec
=============================================================================
