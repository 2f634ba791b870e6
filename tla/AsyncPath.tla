------------------------------ MODULE AsyncPath ------------------------------
(***************************************************************************)
(* The asynchronous request path over one context: wd_do_cipher_async takes *)
(* a message from the context's pool (wd_util.c), stores the request in it *)
(* and sends its tag to the device; wd_cipher_poll_ctx receives an answer, *)
(* finds the message by the tag, calls the request's callback and puts the *)
(* message back.  Any number of threads submit and poll; the pool has no   *)
(* lock, only one test-and-set flag per message.                           *)
(*                                                                         *)
(* The transport holds a bounded number of packets, as QmQueue is proved   *)
(* to do, and answers each once.  A request is its number in the order of  *)
(* the calls.  issued, accepted, refused, calls and lost are history.      *)
(***************************************************************************)
EXTENDS Integers, FiniteSets

CONSTANTS Senders,  \* threads calling wd_do_cipher_async
          Pollers,  \* threads calling wd_cipher_poll_ctx
          MsgNum,   \* pool->msg_num of an async context
          Cap,      \* requests the queue holds
          Expects,  \* values of `expt'
          Faults,   \* "tag": the device may answer with a broken tag
          MaxReq    \* bound on the requests of one behaviour

ASSUME PoolAssumption == MsgNum \in Nat \ {0} /\ Cap \in Nat /\ MaxReq \in Nat
ASSUME ExpectAssumption == Expects \subseteq Nat \ {0}
ASSUME ThreadAssumption == Senders \cap Pollers = {}

VARIABLES
  used, msgs, tail,   \* struct msg_pool: flags, stored request, scan start
  wire,               \* sent, not yet answered: [req, tag]
  answers,            \* answered, not yet received: [req, tag]
  spc, idx, cnt, req, \* sender: control point, locals of wd_get_msg_from_pool,
                      \* its request
  ppc, tmp, resp,     \* poller: control point, answers left, resp_msg
  issued,             \* requests the application made so far
  accepted,           \* requests whose call returned 0 or will
  refused,            \* requests whose call returned an error
  calls,              \* how often each request was called back
  lost                \* requests whose answer carried a broken tag

poolVars == <<used, msgs, tail>>
wireVars == <<wire, answers>>
sendVars == <<spc, idx, cnt, req>>
pollVars == <<ppc, tmp, resp>>
histVars == <<issued, accepted, refused, calls, lost>>
vars == <<poolVars, wireVars, sendVars, pollVars, histVars>>

Tags == 1 .. MsgNum
Slots == 0 .. MsgNum - 1
Reqs == 0 .. MaxReq - 1
None == -1
Nothing == [req |-> None, tag |-> 0]
Packets == [req : Reqs \cup {None}, tag : 0 .. MsgNum]

\* A pool wd_init_async_request_pool has just set up, an idle queue.
Init == /\ used = [i \in Slots |-> 0]
        /\ msgs = [i \in Slots |-> None]
        /\ tail = 0
        /\ wire = {} /\ answers = {}
        /\ spc = [s \in Senders |-> "idle"]
        /\ idx = [s \in Senders |-> 0]
        /\ cnt = [s \in Senders |-> 0]
        /\ req = [s \in Senders |-> None]
        /\ ppc = [p \in Pollers |-> "idle"]
        /\ tmp = [p \in Pollers |-> 0]
        /\ resp = [p \in Pollers |-> Nothing]
        /\ issued = 0 /\ accepted = {} /\ refused = {}
        /\ calls = [r \in Reqs |-> 0] /\ lost = {}

-----------------------------------------------------------------------------
\* wd_do_cipher_async

SendGoto(s, label) == spc' = [spc EXCEPT ![s] = label]

\* The call returns; its locals die with it.
SendReturn(s) == /\ SendGoto(s, "idle")
                 /\ req' = [req EXCEPT ![s] = None]
                 /\ idx' = [idx EXCEPT ![s] = 0]
                 /\ cnt' = [cnt EXCEPT ![s] = 0]

\* Bad parameters, or the scheduler found no context (wd_check_ctx).
AsyncRefused(s) == /\ spc[s] = "idle" /\ issued < MaxReq
                   /\ issued' = issued + 1
                   /\ refused' = refused \cup {issued}
                   /\ UNCHANGED <<poolVars, wireVars, sendVars, pollVars,
                                  accepted, calls, lost>>

\* A context was picked; wd_get_msg_from_pool reads the tail.
AsyncStart(s) == /\ spc[s] = "idle" /\ issued < MaxReq
                 /\ issued' = issued + 1
                 /\ req' = [req EXCEPT ![s] = issued]
                 /\ idx' = [idx EXCEPT ![s] = tail]
                 /\ cnt' = [cnt EXCEPT ![s] = 0]
                 /\ SendGoto(s, "scan")
                 /\ UNCHANGED <<poolVars, wireVars, pollVars, accepted,
                                refused, calls, lost>>

\* __atomic_test_and_set found the message free and took it.
GetMsgTake(s) == /\ spc[s] = "scan" /\ used[idx[s]] = 0
                 /\ used' = [used EXCEPT ![idx[s]] = 1]
                 /\ SendGoto(s, "tail")
                 /\ UNCHANGED <<msgs, tail, wireVars, idx, cnt, req,
                                pollVars, histVars>>

GetMsgNext(s) == /\ spc[s] = "scan" /\ used[idx[s]] = 1
                 /\ cnt[s] + 1 < MsgNum
                 /\ idx' = [idx EXCEPT ![s] = (idx[s] + 1) % MsgNum]
                 /\ cnt' = [cnt EXCEPT ![s] = cnt[s] + 1]
                 /\ UNCHANGED <<poolVars, wireVars, spc, req, pollVars,
                                histVars>>

\* A whole turn found no free message.
GetMsgBusy(s) == /\ spc[s] = "scan" /\ used[idx[s]] = 1
                 /\ cnt[s] + 1 = MsgNum
                 /\ SendReturn(s)
                 /\ refused' = refused \cup {req[s]}
                 /\ UNCHANGED <<poolVars, wireVars, pollVars, issued,
                                accepted, calls, lost>>

\* The unsynchronised write of the tail.
GetMsgTail(s) == /\ spc[s] = "tail"
                 /\ tail' = (idx[s] + 1) % MsgNum
                 /\ SendGoto(s, "fill")
                 /\ UNCHANGED <<used, msgs, wireVars, idx, cnt, req,
                                pollVars, histVars>>

\* fill_request_msg copies the request into the message; the tag is idx + 1.
AsyncFill(s) == /\ spc[s] = "fill"
                /\ msgs' = [msgs EXCEPT ![idx[s]] = req[s]]
                /\ SendGoto(s, "send")
                /\ UNCHANGED <<used, tail, wireVars, idx, cnt, req, pollVars,
                               histVars>>

\* Mutant of AsyncSend: the tag sent is the index, not index + 1.
SendsIndex(s) == /\ spc[s] = "send"
                 /\ Cardinality(wire) + Cardinality(answers) < Cap
                 /\ wire' = wire \cup {[req |-> req[s], tag |-> idx[s]]}
                 /\ accepted' = accepted \cup {req[s]}
                 /\ SendReturn(s)
                 /\ UNCHANGED <<poolVars, answers, pollVars, issued, refused,
                                calls, lost>>

\* drv->send succeeded; the call will return 0.
AsyncSend(s) == /\ spc[s] = "send"
                /\ Cardinality(wire) + Cardinality(answers) < Cap
                /\ wire' = wire \cup {[req |-> req[s], tag |-> idx[s] + 1]}
                /\ accepted' = accepted \cup {req[s]}
                /\ SendReturn(s)
                /\ UNCHANGED <<poolVars, answers, pollVars, issued, refused,
                               calls, lost>>

\* drv->send failed: the queue is full, or any other error.
AsyncSendFails(s) == /\ spc[s] = "send"
                     /\ SendGoto(s, "fail")
                     /\ UNCHANGED <<poolVars, wireVars, idx, cnt, req,
                                    pollVars, histVars>>

\* Mutant of AsyncFail: the message of a failed send stays taken.
FailKeepsMsg(s) == /\ spc[s] = "fail"
                   /\ refused' = refused \cup {req[s]}
                   /\ SendReturn(s)
                   /\ UNCHANGED <<poolVars, wireVars, pollVars, issued,
                                  accepted, calls, lost>>

\* fail_with_msg: wd_put_msg_to_pool, and the error is returned.
AsyncFail(s) == /\ spc[s] = "fail"
                /\ used' = [used EXCEPT ![idx[s]] = 0]
                /\ refused' = refused \cup {req[s]}
                /\ SendReturn(s)
                /\ UNCHANGED <<msgs, tail, wireVars, pollVars, issued,
                               accepted, calls, lost>>

-----------------------------------------------------------------------------
\* The queue and the device (external).  Answers may come in any order, which
\* includes the order of a FIFO queue.

DeviceAnswer == \E e \in wire :
                  /\ wire' = wire \ {e}
                  /\ answers' = answers \cup {e}
                  /\ UNCHANGED <<poolVars, sendVars, pollVars, histVars>>

DeviceBreaksTag == /\ "tag" \in Faults
                   /\ \E e \in wire :
                        /\ wire' = wire \ {e}
                        /\ answers' = answers \cup {[e EXCEPT !.tag = 0]}
                        /\ lost' = lost \cup {e.req}
                   /\ UNCHANGED <<poolVars, sendVars, pollVars, issued,
                                  accepted, refused, calls>>

-----------------------------------------------------------------------------
\* wd_cipher_poll_ctx

PollGoto(p, label) == ppc' = [ppc EXCEPT ![p] = label]

PollReturn(p) == /\ PollGoto(p, "idle")
                 /\ tmp' = [tmp EXCEPT ![p] = 0]
                 /\ resp' = [resp EXCEPT ![p] = Nothing]

PollStart(p, n) == /\ ppc[p] = "idle"
                   /\ tmp' = [tmp EXCEPT ![p] = n]
                   /\ PollGoto(p, "recv")
                   /\ UNCHANGED <<poolVars, wireVars, sendVars, resp,
                                  histVars>>

\* recv answered -WD_EAGAIN.
PollAgain(p) == /\ ppc[p] = "recv" /\ answers = {}
                /\ PollReturn(p)
                /\ UNCHANGED <<poolVars, wireVars, sendVars, histVars>>

\* recv failed otherwise; nothing was taken from the queue.
PollError(p) == /\ ppc[p] = "recv"
                /\ PollReturn(p)
                /\ UNCHANGED <<poolVars, wireVars, sendVars, histVars>>

PollRecv(p) == /\ ppc[p] = "recv"
               /\ \E e \in answers :
                    /\ answers' = answers \ {e}
                    /\ resp' = [resp EXCEPT ![p] = e]
               /\ PollGoto(p, "find")
               /\ UNCHANGED <<poolVars, wire, sendVars, tmp, histVars>>

\* wd_find_msg_in_pool knows no such tag.
PollUnknown(p) == /\ ppc[p] = "find" /\ resp[p].tag \notin Tags
                  /\ PollReturn(p)
                  /\ UNCHANGED <<poolVars, wireVars, sendVars, histVars>>

CalledBack(p) == msgs[resp[p].tag - 1]

\* The callback runs with the request stored in the message the tag names.
PollCallback(p) == /\ ppc[p] = "find" /\ resp[p].tag \in Tags
                   /\ calls' = [calls EXCEPT ![CalledBack(p)] = @ + 1]
                   /\ PollGoto(p, "put")
                   /\ UNCHANGED <<poolVars, wireVars, sendVars, tmp, resp,
                                  issued, accepted, refused, lost>>

\* Where `do ... while (--tmp)' goes after an answer was handled.
PollLoop(p) == IF tmp[p] > 1
               THEN /\ tmp' = [tmp EXCEPT ![p] = tmp[p] - 1]
                    /\ resp' = [resp EXCEPT ![p] = Nothing]
                    /\ PollGoto(p, "recv")
               ELSE PollReturn(p)

\* Mutant of PollPut: another message than the answered one is put back.
PutsNeighbour(p) == /\ ppc[p] = "put"
                    /\ used' = [used EXCEPT ![resp[p].tag % MsgNum] = 0]
                    /\ PollLoop(p)
                    /\ UNCHANGED <<msgs, tail, wireVars, sendVars, histVars>>

\* wd_put_msg_to_pool.
PollPut(p) == /\ ppc[p] = "put"
              /\ used' = [used EXCEPT ![resp[p].tag - 1] = 0]
              /\ PollLoop(p)
              /\ UNCHANGED <<msgs, tail, wireVars, sendVars, histVars>>

-----------------------------------------------------------------------------
SendStep(s) == \/ GetMsgTake(s) \/ GetMsgNext(s) \/ GetMsgBusy(s)
               \/ GetMsgTail(s) \/ AsyncFill(s)
               \/ AsyncSend(s) \/ AsyncSendFails(s) \/ AsyncFail(s)

PollStep(p) == \/ PollAgain(p) \/ PollRecv(p) \/ PollUnknown(p)
               \/ PollCallback(p) \/ PollPut(p)

PollCall(p) == \E n \in Expects : PollStart(p, n)

Next == \/ \E s \in Senders : AsyncRefused(s) \/ AsyncStart(s) \/ SendStep(s)
        \/ \E p \in Pollers : PollCall(p) \/ PollStep(p) \/ PollError(p)
        \/ DeviceAnswer \/ DeviceBreaksTag

Spec == Init /\ [][Next]_vars

\* A call that was started goes on, the device answers, the application polls,
\* and recv does not fail every time there is an answer to receive.
Fairness == /\ \A s \in Senders : WF_vars(SendStep(s))
            /\ \A p \in Pollers : /\ WF_vars(PollStep(p) \/ PollCall(p))
                                  /\ SF_vars(PollRecv(p))
            /\ WF_vars(DeviceAnswer)

FairSpec == Spec /\ Fairness

-----------------------------------------------------------------------------
\* Who holds message i: the sender that took it, the packet or answer that
\* carries its tag, or the poller that received the answer.
SenderHolds(s, i) == spc[s] \in {"tail", "fill", "send", "fail"} /\ idx[s] = i
PollerHolds(p, i) == ppc[p] \in {"find", "put"} /\ resp[p].tag = i + 1
Carried(i) == {e \in wire \cup answers : e.tag = i + 1}
LostIn(i) == {r \in lost : msgs[i] = r /\ used[i] = 1}

\* A message is taken exactly as long as somebody holds it: no error path of
\* wd_do_cipher_async and no return of wd_cipher_poll_ctx leaks one, except
\* for the requests whose answer the device spoilt.
NoMsgLeak ==
  \A i \in Slots : (used[i] = 1) <=>
    \/ \E s \in Senders : SenderHolds(s, i)
    \/ Carried(i) # {}
    \/ \E p \in Pollers : PollerHolds(p, i)
    \/ LostIn(i) # {}

\* The tag of an answer names the message of the request that was answered,
\* from the moment it is sent to the end of the callback: no concurrent
\* submission reuses the message before wd_put_msg_to_pool.
TagNamesRequest ==
  /\ \A e \in wire \cup answers : e.tag # 0 => msgs[e.tag - 1] = e.req
  /\ \A p \in Pollers : ppc[p] \in {"find", "put"} /\ resp[p].tag # 0 =>
       CalledBack(p) = resp[p].req

\* No callback is called twice, and none of a request whose submission failed
\* or was never made.
CallbackAtMostOnce ==
  \A r \in Reqs : /\ calls[r] <= 1
                  /\ calls[r] = 1 => r \in accepted
                  /\ r \in refused => r \notin accepted

\* Every request wd_do_cipher_async accepted is called back.
EveryRequestCalledBack ==
  \A r \in Reqs : (r \in accepted) ~> (calls[r] = 1 \/ r \in lost)
=============================================================================
