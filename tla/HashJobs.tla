------------------------------ MODULE HashJobs ------------------------------
(***************************************************************************)
(* The multi-buffer hash driver in asynchronous mode                       *)
(* (drv/hash_mb/hash_mb.c).  A sender queues a job; whoever polls gathers  *)
(* jobs of one algorithm, hashes as many blocks of each as the shortest    *)
(* has, and puts each back in front of its queue or on the list of         *)
(* finished jobs.  The lists are linked through hash_job.next, which is    *)
(* never cleared: only the counters say where a list ends.                 *)
(***************************************************************************)
EXTENDS Integers, Sequences, FiniteSets

CONSTANTS Jobs, Readers,
          Lanes,    \* jobs hashed at a time
          Tries,    \* HASH_TRY_PROCESS_COUNT
          Kind,     \* what job j is: algorithm, blocks of data and of padding, HMAC
          Nil

Algs == {"sm3", "md5"}
Lists == Algs \cup {"recv"}

ASSUME HashAssumption ==
  /\ Kind \in [Jobs -> [alg : Algs, len : Nat, pad : Nat, opad : BOOLEAN]]
  /\ Nil \notin Jobs /\ Lanes \in Nat \ {0} /\ Tries \in Nat
  /\ Readers \cap Lists = {}

VARIABLES list,    \* sm3_poll_queue, md5_poll_queue, recv_head/recv_tail
          next,    \* hash_job.next
          job,     \* the jobs: blocks left, padding blocks, outer hash of HMAC
          at       \* the pollers' locals

hashVars == <<list, next, job, at>>

HIdle == [pc |-> "idle", n |-> 0, q |-> "sm3", vec |-> << >>, min |-> 0]
NoJob == [state |-> "none", alg |-> "sm3", len |-> 0, pad |-> 0, opad |-> FALSE,
          hashed |-> 0, need |-> 0]

\* hash_mb_queue_init
HInit == /\ list = [l \in Lists |-> [head |-> Nil, tail |-> Nil, num |-> 0]]
         /\ next = [j \in Jobs |-> Nil]
         /\ job = [j \in Jobs |-> NoJob]
         /\ at = [p \in Readers |-> HIdle]

\* Mutant of PutTail: the tail pointer tells whether the list is empty.
ByPointer(l, j) ==
  IF list[l].tail # Nil
  THEN /\ next' = [next EXCEPT ![list[l].tail] = j]
       /\ list' = [list EXCEPT ![l] = [head |-> @.head, tail |-> j, num |-> @.num + 1]]
  ELSE /\ list' = [list EXCEPT ![l] = [head |-> j, tail |-> j, num |-> 1]]
       /\ UNCHANGED next

\* hash_mb_add_job_tail and hash_mb_add_finish_job; an empty list is one whose
\* counter is zero, whatever its pointers say.
PutTail(l, j) ==
  IF list[l].num > 0
  THEN /\ next' = [next EXCEPT ![list[l].tail] = j]
       /\ list' = [list EXCEPT ![l] = [head |-> @.head, tail |-> j, num |-> @.num + 1]]
  ELSE /\ list' = [list EXCEPT ![l] = [head |-> j, tail |-> j, num |-> 1]]
       /\ UNCHANGED next

\* hash_mb_add_job_head
PutHead(l, j) ==
  IF list[l].num > 0
  THEN /\ next' = [next EXCEPT ![j] = list[l].head]
       /\ list' = [list EXCEPT ![l] = [head |-> j, tail |-> @.tail, num |-> @.num + 1]]
  ELSE /\ list' = [list EXCEPT ![l] = [head |-> j, tail |-> j, num |-> 1]]
       /\ UNCHANGED next

\* hash_mb_get_job and hash_mb_find_complete_job
PopHead(l) ==
  list' = [list EXCEPT ![l] = [head |-> next[@.head], tail |-> @.tail, num |-> @.num - 1]]

-----------------------------------------------------------------------------
\* hash_mb_send of a single block: len blocks of data, then the padding, which
\* is the data if there is no whole block; opad for HMAC.
Send(j) ==
  LET k == Kind[j]
  IN /\ job[j].state = "none"
     /\ job' = [job EXCEPT ![j] =
          [state |-> "live", alg |-> k.alg, len |-> k.len, pad |-> k.pad,
           opad |-> k.opad, hashed |-> 0,
           need |-> k.len + k.pad + (IF k.opad THEN 1 ELSE 0)]]
     /\ PutTail(k.alg, j)
     /\ UNCHANGED at

Recv(p) == /\ at[p].pc = "idle"
           /\ at' = [at EXCEPT ![p] = [@ EXCEPT !.pc = "find", !.n = 1]]
           /\ UNCHANGED <<list, next, job>>

FindNone(p) == /\ at[p].pc = "find" /\ list["recv"].num = 0
               /\ at' = [at EXCEPT ![p].pc = "pick"]
               /\ UNCHANGED <<list, next, job>>

\* A finished job: its result is copied out and the job freed.
FindDone(p) == LET j == list["recv"].head IN
               /\ at[p].pc = "find" /\ list["recv"].num > 0 /\ ~job[j].opad
               /\ PopHead("recv")
               /\ job' = [job EXCEPT ![j].state = "freed"]
               /\ at' = [at EXCEPT ![p] = HIdle]
               /\ UNCHANGED next

\* The inner hash of an HMAC is finished: one more block, the outer hash.
FindHmac(p) == LET j == list["recv"].head IN
               /\ at[p].pc = "find" /\ list["recv"].num > 0 /\ job[j].opad
               /\ PopHead("recv")
               /\ job' = [job EXCEPT ![j] = [@ EXCEPT !.opad = FALSE, !.len = 1, !.pad = 0]]
               /\ at' = [at EXCEPT ![p] = [@ EXCEPT !.pc = "requeue", !.vec = <<j>>]]
               /\ UNCHANGED next

Requeue(p) == LET j == Head(at[p].vec) IN
              /\ at[p].pc = "requeue"
              /\ PutHead(job[j].alg, j)
              /\ at' = [at EXCEPT ![p] = [@ EXCEPT !.pc = "pick", !.vec = << >>]]
              /\ UNCHANGED job

\* hash_get_poll_queue reads both counters without a lock.
PickNone(p) == /\ at[p].pc = "pick" /\ \A a \in Algs : list[a].num = 0
               /\ at' = [at EXCEPT ![p] = HIdle]
               /\ UNCHANGED <<list, next, job>>

\* Mutant of Pick: md5 goes first even when it has no job.
PicksMd5(p) == /\ at[p].pc = "pick" /\ \E a \in Algs : list[a].num > 0
               /\ at' = [at EXCEPT ![p] = [@ EXCEPT !.pc = "get", !.q = "md5"]]
               /\ UNCHANGED <<list, next, job>>

Pick(p) == /\ at[p].pc = "pick" /\ \E a \in Algs : list[a].num > 0
           /\ at' = [at EXCEPT ![p] = [@ EXCEPT !.pc = "get",
                !.q = IF list["md5"].num >= list["sm3"].num THEN "md5" ELSE "sm3"]]
           /\ UNCHANGED <<list, next, job>>

Get(p) == LET q == at[p].q IN
          /\ at[p].pc = "get" /\ list[q].num > 0 /\ Len(at[p].vec) < Lanes
          /\ PopHead(q)
          /\ at' = [at EXCEPT ![p].vec = Append(@, list[q].head)]
          /\ UNCHANGED <<next, job>>

\* Another poller was faster: -WD_EAGAIN.
GotNone(p) == /\ at[p].pc = "get" /\ list[at[p].q].num = 0 /\ at[p].vec = << >>
              /\ at' = [at EXCEPT ![p] = HIdle]
              /\ UNCHANGED <<list, next, job>>

\* Mutant of Shortest: as many blocks as the first job has.
FirstLen(vec) == job[vec[1]].len
Shortest(vec) ==
  CHOOSE m \in {job[vec[i]].len : i \in DOMAIN vec} :
    \A i \in DOMAIN vec : m <= job[vec[i]].len

\* The vector unit hashes `min' blocks of every job.
Work(p) == LET vec == at[p].vec  m == Shortest(vec)
           IN /\ at[p].pc = "get" /\ vec # << >>
              /\ Len(vec) = Lanes \/ list[at[p].q].num = 0
              /\ job' = [j \in Jobs |->
                   IF \E i \in DOMAIN vec : vec[i] = j
                   THEN [job[j] EXCEPT !.hashed = @ + m]
                   ELSE job[j]]
              /\ at' = [at EXCEPT ![p] = [@ EXCEPT !.pc = "give", !.min = m]]
              /\ UNCHANGED <<list, next>>

\* After the last job: the next try, or -WD_EAGAIN.
GaveOne(p) == at' = [at EXCEPT ![p] =
                 IF Len(@.vec) > 1 THEN [@ EXCEPT !.vec = Tail(at[p].vec)]
                 ELSE IF @.n < Tries THEN [HIdle EXCEPT !.pc = "find", !.n = at[p].n + 1]
                 ELSE HIdle]

GiveFinished(p) == LET j == Head(at[p].vec) IN
                   /\ at[p].pc = "give" /\ job[j].len = at[p].min /\ job[j].pad = 0
                   /\ PutTail("recv", j) /\ GaveOne(p) /\ UNCHANGED job

\* The data are hashed, the padding comes next.
GivePad(p) == LET j == Head(at[p].vec) IN
              /\ at[p].pc = "give" /\ job[j].len = at[p].min /\ job[j].pad > 0
              /\ job' = [job EXCEPT ![j] = [@ EXCEPT !.len = job[j].pad, !.pad = 0]]
              /\ PutHead(at[p].q, j) /\ GaveOne(p)

GiveBack(p) == LET j == Head(at[p].vec) IN
               /\ at[p].pc = "give" /\ job[j].len # at[p].min
               /\ job' = [job EXCEPT ![j].len = @ - at[p].min]
               /\ PutHead(at[p].q, j) /\ GaveOne(p)

-----------------------------------------------------------------------------
Poll(p) == \/ Recv(p) \/ FindNone(p) \/ FindDone(p) \/ FindHmac(p) \/ Requeue(p)
           \/ PickNone(p) \/ Pick(p) \/ Get(p) \/ GotNone(p) \/ Work(p)
           \/ GiveFinished(p) \/ GivePad(p) \/ GiveBack(p)

\* Every job was handed out.
AllDone == (\A j \in Jobs : job[j].state = "freed") /\ UNCHANGED hashVars

HNext == \/ \E j \in Jobs : Send(j)
         \/ \E p \in Readers : Poll(p)
         \/ AllDone

\* The application keeps polling.
HFair == \A p \in Readers : WF_hashVars(Poll(p))

HSpec == HInit /\ [][HNext]_hashVars /\ HFair

-----------------------------------------------------------------------------
\* The walks of num jobs along the links from first; there is one, or none if
\* it leads out of the jobs.
Trails(first, num, link) ==
  {c \in [1 .. num -> Jobs] : /\ num > 0 => c[1] = first
                              /\ \A i \in 1 .. num - 1 : c[i + 1] = link[c[i]]}

\* The jobs of list l: as many steps along next as the counter says.
OnList(l) == CHOOSE c \in Trails(list[l].head, list[l].num, next) : TRUE

\* Where jobs are: on the lists and in the pollers' hands.
Holders == Lists \cup Readers
Row(h) == IF h \in Lists THEN OnList(h) ELSE at[h].vec
Places(j) ==
  UNION {{<<h, i>> : i \in {k \in DOMAIN Row(h) : Row(h)[k] = j}} : h \in Holders}

\* A queued job is in one place, a list or a poller's hands, until it is
\* freed and then in none: the counters and the stale next pointers never
\* lead to a job twice or past the end (hash_mb_add_job_head and the others).
OnePlace ==
  /\ \A l \in Lists : Trails(list[l].head, list[l].num, next) # {}
  /\ \A j \in Jobs : Cardinality(Places(j)) = IF job[j].state = "live" THEN 1 ELSE 0

\* A job is handed out when all its blocks, its padding and for HMAC its outer
\* hash were done, and no block is hashed that is not the job's, though jobs of
\* different lengths share the vector unit (hash_mb_do_jobs).
WholeJob == \A j \in Jobs : /\ job[j].hashed <= job[j].need
                            /\ job[j].state = "freed" => job[j].hashed = job[j].need

\* The jobs of the multi-buffer drivers are each in one place and whole
\* (hash_mb_add_job_head, hash_mb_do_jobs).
JobsExact == OnePlace /\ WholeJob

\* Every job is handed out, though unfinished ones go back to the front of the
\* queue and md5 goes before sm3.
EveryJobDone == \A j \in Jobs : (job[j].state = "live") ~> (job[j].state = "freed")
=============================================================================
