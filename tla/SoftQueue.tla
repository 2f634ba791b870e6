----------------------------- MODULE SoftQueue -----------------------------
(***************************************************************************)
(* The soft queue under the CPU instruction drivers (drv/wd_drv.c): a ring *)
(* of entries between senders, who hold slock, and receivers, who hold     *)
(* rlock.  Both sides touch `used' and `complete' of an entry, and         *)
(* run_num, the number of entries, is read without a lock.                 *)
(*                                                                         *)
(* A request is computed by the sender itself (isa_ce_cipher_send,         *)
(* sm3_ce_drv_send) before it is queued; its answer is read by whoever     *)
(* polls.  Tags are the order of the sends.                                *)
(***************************************************************************)
EXTENDS Integers, Sequences

CONSTANTS Posters, Receivers,
          Depth,     \* MAX_SOFT_QUEUE_LENGTH
          Width,     \* values of run_num: 2^32
          MaxSend,   \* bound on the requests of one behaviour
          Unheld

ASSUME SoftAssumption == /\ Depth \in Nat \ {0} /\ Width \in Nat /\ Width > 2 * Depth
                         /\ MaxSend \in Nat
                         /\ Unheld \notin Posters \cup Receivers
                         /\ Posters \cap Receivers = {}

VARIABLES
  qfifo, head, tail, run_num, slock, rlock,   \* struct wd_soft_ctx
  ctl, sends,     \* thread: control point, the tag it sends
  posted,         \* tags in the order their entries were taken (history)
  answers,        \* tags in the order the receivers returned them (history)
  early           \* positions in answers taken before run_num covered them

softVars == <<qfifo, head, tail, run_num, slock, rlock, ctl, sends, posted,
              answers, early>>

Ends == Posters \cup Receivers
NoTag == 0

\* wd_soft_alloc_ctx: calloc and two locks.
SInit == /\ qfifo = [i \in 0 .. Depth - 1 |->
                       [used |-> FALSE, complete |-> FALSE, id |-> NoTag]]
         /\ head = 0 /\ tail = 0 /\ run_num = 0
         /\ slock = Unheld /\ rlock = Unheld
         /\ ctl = [t \in Ends |-> "idle"]
         /\ sends = [t \in Ends |-> NoTag]
         /\ posted = << >> /\ answers = << >> /\ early = {}

Step(i) == IF i + 1 = Depth THEN 0 ELSE i + 1
Goto(t, l) == ctl' = [ctl EXCEPT ![t] = l]

\* Tags not used yet.
Fresh == 1 .. MaxSend \ ({sends[t] : t \in Posters} \cup {posted[i] : i \in DOMAIN posted})

-----------------------------------------------------------------------------
\* wd_queue_is_busy reads run_num without a lock.
QueueIsBusy == run_num >= Depth - 1

\* -WD_EBUSY before the work is done.
SendRefused(s) == /\ ctl[s] = "idle" /\ QueueIsBusy
                  /\ Goto(s, "refused")
                  /\ UNCHANGED <<qfifo, head, tail, run_num, slock, rlock, sends,
                                 posted, answers, early>>

\* The caller tries again later (wd_do_cipher_async returned -WD_EBUSY).
Retry(s) == /\ ctl[s] = "refused" /\ Goto(s, "idle")
            /\ UNCHANGED <<qfifo, head, tail, run_num, slock, rlock, sends,
                           posted, answers, early>>

\* The data are computed in the caller's thread, then queued.
SendCompute(s) == /\ ctl[s] = "idle" /\ ~QueueIsBusy /\ Fresh # {}
                  /\ sends' = [sends EXCEPT ![s] = CHOOSE k \in Fresh : TRUE]
                  /\ Goto(s, "lock")
                  /\ UNCHANGED <<qfifo, head, tail, run_num, slock, rlock,
                                 posted, answers, early>>

SendLock(s) == /\ ctl[s] = "lock" /\ slock = Unheld /\ slock' = s
               /\ Goto(s, "find")
               /\ UNCHANGED <<qfifo, head, tail, run_num, rlock, sends, posted, answers, early>>

EntryFree(e) == ~e.used /\ ~e.complete

\* The entry is marked used and complete; the receivers may see it from here.
SendMark(s) == /\ ctl[s] = "find" /\ EntryFree(qfifo[head])
               /\ qfifo' = [qfifo EXCEPT ![head] = [@ EXCEPT !.used = TRUE,
                                                             !.complete = TRUE]]
               /\ head' = Step(head)
               /\ posted' = Append(posted, sends[s])
               /\ Goto(s, "store")
               /\ UNCHANGED <<tail, run_num, slock, rlock, sends, answers, early>>

\* Mutant of SendStore: the tag goes to the entry head points at by now.
StoresAtHead(s) == /\ ctl[s] = "store"
                   /\ qfifo' = [qfifo EXCEPT ![head].id = sends[s]]
                   /\ Goto(s, "count")
                   /\ UNCHANGED <<head, tail, run_num, slock, rlock, sends, posted,
                                  answers, early>>

\* sqe->id = tag_id, sqe->result = 0
SendStore(s) == LET i == (head + Depth - 1) % Depth IN
                /\ ctl[s] = "store"
                /\ qfifo' = [qfifo EXCEPT ![i].id = sends[s]]
                /\ Goto(s, "count")
                /\ UNCHANGED <<head, tail, run_num, slock, rlock, sends, posted, answers, early>>

SendCount(s) == /\ ctl[s] = "count"
                /\ run_num' = (run_num + 1) % Width
                /\ slock' = Unheld /\ sends' = [sends EXCEPT ![s] = NoTag]
                /\ Goto(s, "idle")
                /\ UNCHANGED <<qfifo, head, tail, rlock, posted,
                               answers, early>>

\* The entry at head is still in use: -WD_EBUSY, the work is done again later.
SendFull(s) == /\ ctl[s] = "find" /\ ~EntryFree(qfifo[head])
               /\ slock' = Unheld /\ sends' = [sends EXCEPT ![s] = NoTag]
               /\ Goto(s, "idle")
               /\ UNCHANGED <<qfifo, head, tail, run_num, rlock, posted, answers,
                              early>>

-----------------------------------------------------------------------------
\* The first test of wd_put_sqe_to_queue, without a lock.
NotInUse == run_num < 1

RecvTest(r) == /\ ctl[r] = "idle" /\ ~NotInUse /\ Goto(r, "try")
               /\ UNCHANGED <<qfifo, head, tail, run_num, slock, rlock, sends,
                              posted, answers, early>>

\* pthread_spin_trylock
RecvLock(r) == /\ ctl[r] = "try" /\ rlock = Unheld /\ rlock' = r
               /\ Goto(r, "take")
               /\ UNCHANGED <<qfifo, head, tail, run_num, slock, sends, posted, answers, early>>

RecvBusy(r) == /\ ctl[r] = "try" /\ rlock # Unheld /\ Goto(r, "idle")
               /\ UNCHANGED <<qfifo, head, tail, run_num, slock, rlock, sends,
                              posted, answers, early>>

EntryDone(e) == e.used /\ e.complete

\* The tag is read and the entry handed back.
RecvTake(r) == /\ ctl[r] = "take" /\ EntryDone(qfifo[tail])
               /\ answers' = Append(answers, qfifo[tail].id)
               /\ early' = IF run_num \in 1 .. Depth THEN early
                           ELSE early \cup {Len(answers) + 1}
               /\ qfifo' = [qfifo EXCEPT ![tail] = [@ EXCEPT !.used = FALSE,
                                                             !.complete = FALSE]]
               /\ tail' = Step(tail)
               /\ Goto(r, "done")
               /\ UNCHANGED <<head, run_num, slock, rlock, sends, posted>>

\* Mutant of RecvCount: the entry is not counted off.
ForgetsCount(r) == /\ ctl[r] = "done" /\ rlock' = Unheld /\ Goto(r, "idle")
                   /\ UNCHANGED <<qfifo, head, tail, run_num, slock, sends, posted,
                                  answers, early>>

RecvCount(r) == /\ ctl[r] = "done"
                /\ run_num' = (run_num + Width - 1) % Width
                /\ rlock' = Unheld /\ Goto(r, "idle")
                /\ UNCHANGED <<qfifo, head, tail, slock, sends, posted,
                               answers, early>>

\* Mutant of RecvNone: the lock is kept.
NoneKeepsLock(r) == /\ ctl[r] = "take" /\ ~EntryDone(qfifo[tail]) /\ Goto(r, "idle")
                    /\ UNCHANGED <<qfifo, head, tail, run_num, slock, rlock, sends,
                                   posted, answers, early>>

RecvNone(r) == /\ ctl[r] = "take" /\ ~EntryDone(qfifo[tail])
               /\ rlock' = Unheld /\ Goto(r, "idle")
               /\ UNCHANGED <<qfifo, head, tail, run_num, slock, sends, posted, answers, early>>

-----------------------------------------------------------------------------
SendNext(s) == \/ SendLock(s) \/ SendMark(s) \/ SendStore(s) \/ SendCount(s)
               \/ SendFull(s) \/ Retry(s)
RecvNext(r) == \/ RecvTest(r) \/ RecvLock(r) \/ RecvBusy(r) \/ RecvTake(r)
               \/ RecvCount(r) \/ RecvNone(r)

\* Everything was sent and read.
AllRead == /\ Len(answers) = MaxSend /\ \A t \in Ends : ctl[t] = "idle"
        /\ UNCHANGED softVars

SNext == \/ \E s \in Posters : SendCompute(s) \/ SendRefused(s) \/ SendNext(s)
         \/ \E r \in Receivers : RecvNext(r)
         \/ AllRead

\* A started send goes on and the receivers keep polling; nobody has to send.
SFair == /\ \A s \in Posters : WF_softVars(SendNext(s))
         /\ \A r \in Receivers : WF_softVars(RecvNext(r))

SSpec == SInit /\ [][SNext]_softVars /\ SFair

-----------------------------------------------------------------------------
\* The answers are the requests in the order they were queued, each with its
\* own tag, although the entry becomes visible before its tag is stored: a
\* receiver that takes an entry run_num already counts reads the right tag.
\* Only one that was overtaken between its test of run_num and its lock can
\* read an entry too early, and then the tag of an older request
\* (wd_put_sqe_to_queue).
TagIntact == \A i \in DOMAIN answers : i \notin early => answers[i] = posted[i]

\* Without locks run_num counts the entries, also after it wrapped below zero
\* because an entry was taken before it was counted.
CounterSettles == (slock = Unheld /\ rlock = Unheld) =>
                    run_num = Len(posted) - Len(answers)

\* A soft queue returns the tags it was given and counts its entries
\* (wd_get_sqe_from_queue, wd_put_sqe_to_queue).
SoftExact == TagIntact /\ CounterSettles

\* Every queued request is read, however the receivers get into each other's way.
EveryAnswerRead == \A k \in 1 .. MaxSend : Len(posted) >= k ~> Len(answers) >= k
=============================================================================
