----------------------------- MODULE SchedDomain -----------------------------
(***************************************************************************)
(* The scheduler's table of domains (wd_sched.c).  wd_sched_rr_instance    *)
(* files a range of contexts under a key; creating a session prefetches one *)
(* context per mode from the domain of its property, round robin, and      *)
(* wd_sched_set_param then replaces the prefetched contexts whose driver   *)
(* does not know the session's algorithm.  Threads do this concurrently;   *)
(* the table and each domain have a mutex, held for one lookup, one insert, *)
(* one append or one pick at a time.                                       *)
(*                                                                         *)
(* A key is [mode, prop]: region and operation type only take part in the  *)
(* comparison of keys.  All keys share one bucket, the longest chain.      *)
(***************************************************************************)
EXTENDS Integers, FiniteSets, SequencesExt

CONSTANTS Callers,   \* threads calling wd_sched_rr_instance
          Calls,     \* Calls[t]: their calls, [key, begin, end], in order
          Openers,   \* threads creating sessions
          Ctxs,      \* context positions of the configuration
          Props,     \* driver types, in the order of enum alg_dev_type
          DefProp,   \* DefProp[t]: sched_params.ctx_prop of the session
          Policies,  \* of "rr", and "loop" (also HUNGRY), whose sched_init goes
                     \* through every property in turn
          Compat     \* Compat[t]: contexts whose driver has the algorithm

Modes == <<"sync", "async">>
Invalid == -1   \* INVALID_POS
Keys == [mode : Range(Modes), prop : Range(Props)]

ASSUME CtxAssumption == Ctxs \subseteq Nat
ASSUME CallAssumption ==
         \A t \in Callers :
            /\ Calls[t] \in Seq([key : Keys, begin : Nat, end : Nat])
            /\ \A i \in DOMAIN Calls[t] : Calls[t][i].begin .. Calls[t][i].end \subseteq Ctxs
ASSUME PropAssumption == Len(Props) \in Nat \ {0} /\ DOMAIN Props = 1 .. Len(Props)
ASSUME PolicyAssumption == Policies \subseteq {"rr", "loop"}
ASSUME CompatAssumption == \A t \in Openers : Compat[t] \subseteq Ctxs

VARIABLES
  policy, \* of the scheduler
  dom,    \* domains in the order of their creation
  last,   \* history: the last pick of each domain
  ipc, call, target,  \* instance thread: control point, call, its domain
  opc,    \* session thread: control point
  loc,    \* its locals: property, mode and index of the loop, domain found
  cache,  \* cache[t][mode]: idx_cache.idx_list of the session's domain
  owed    \* history: the modes for which a fitting context was filed when the
          \* session was asked for, none if others are set up meanwhile

domVars == <<dom, last>>
instVars == <<ipc, call, target>>
openVars == <<opc, loc, cache, owed>>
vars == <<policy, domVars, instVars, openVars>>

Empty == [m \in Range(Modes) |-> <<>>]
Locals(p, m, d, i) == [p |-> p, m |-> m, d |-> d, i |-> i]
NoLocals == Locals(1, 1, 0, 0)

Init == /\ policy \in Policies
        /\ dom = <<>> /\ last = <<>>
        /\ ipc = [t \in Callers |-> "lookup"]
        /\ call = [t \in Callers |-> 1]
        /\ target = [t \in Callers |-> 0]
        /\ opc = [t \in Openers |-> "idle"]
        /\ loc = [t \in Openers |-> NoLocals]
        /\ cache = [t \in Openers |-> Empty]
        /\ owed = [t \in Openers |-> {}]

-----------------------------------------------------------------------------
\* The chain of a bucket starts with the newest node: a lookup finds the
\* youngest domain of the key, 0 if there is none.
Lookup(k) == LET found == {n \in 1 .. Len(dom) : dom[n].key = k}
             IN IF found = {} THEN 0 ELSE Max(found)

Size(seg) == seg.end - seg.begin + 1

\* How many contexts the first n segments have, and all of them.
Before(segs, n) == LET F[i \in 0 .. Len(segs)] ==
                         IF i = 0 THEN 0 ELSE F[i - 1] + Size(segs[i])
                   IN F[n]
Total(d) == Before(d.segs, Len(d.segs))
Filed(d) == UNION {seg.begin .. seg.end : seg \in Range(d.segs)}

\* The contexts of a domain in segment order, and the next one's position.
Ring(d) == [k \in 1 .. Total(d) |->
              LET n == CHOOSE i \in 1 .. Len(d.segs) :
                         Before(d.segs, i - 1) < k /\ k <= Before(d.segs, i)
              IN d.segs[n].begin + (k - Before(d.segs, n - 1)) - 1]
At(d) == 1 + d.pos + Before(d.segs, d.cur - 1)

NewDomain(k) == [key |-> k, segs |-> <<>>, cur |-> 1, pos |-> 0, valid |-> FALSE]
MoveTo(d, cur, pos) == [key |-> d.key, segs |-> d.segs, cur |-> cur, pos |-> pos,
                        valid |-> d.valid]

\* Mutant of Advanced: the last context of a segment is skipped.
LeavesEarly(d) ==
  IF d.pos + 1 < Size(d.segs[d.cur]) - 1
  THEN MoveTo(d, d.cur, d.pos + 1)
  ELSE MoveTo(d, IF d.cur < Len(d.segs) THEN d.cur + 1 ELSE 1, 0)

\* wd_sched_domain_get_next_rr: to the next position of the segment, to the
\* next segment, or back to the first.
Advanced(d) ==
  IF d.pos + 1 < Size(d.segs[d.cur])
  THEN MoveTo(d, d.cur, d.pos + 1)
  ELSE MoveTo(d, IF d.cur < Len(d.segs) THEN d.cur + 1 ELSE 1, 0)

Chosen(d) == d.segs[d.cur].begin + d.pos

TakeNext(n) == /\ dom' = [dom EXCEPT ![n] = Advanced(dom[n])]
               /\ last' = [last EXCEPT ![n] = Chosen(dom[n])]

Usable(n) == n > 0 /\ dom[n].valid

-----------------------------------------------------------------------------
\* wd_sched_rr_instance

Current(t) == Calls[t][call[t]]
InstGoto(t, label) == ipc' = [ipc EXCEPT ![t] = label]

\* The parameters are refused.
InstanceRefused(t) == /\ ipc[t] = "lookup" /\ call[t] <= Len(Calls[t])
                      /\ Current(t).begin > Current(t).end
                      /\ call' = [call EXCEPT ![t] = @ + 1]
                      /\ UNCHANGED <<domVars, ipc, target, openVars>>

\* wd_sched_hash_table_insert looks the key up and lets the mutex go.
InstanceLookup(t) ==
  /\ ipc[t] = "lookup" /\ call[t] <= Len(Calls[t])
  /\ Current(t).begin <= Current(t).end
  /\ target' = [target EXCEPT ![t] = Lookup(Current(t).key)]
  /\ InstGoto(t, IF Lookup(Current(t).key) = 0 THEN "insert" ELSE "append")
  /\ UNCHANGED <<domVars, call, openVars>>

\* It takes the mutex again and links a new node.
InstanceInsert(t) ==
  /\ ipc[t] = "insert"
  /\ dom' = Append(dom, NewDomain(Current(t).key))
  /\ last' = Append(last, Invalid)
  /\ target' = [target EXCEPT ![t] = Len(dom) + 1]
  /\ InstGoto(t, "append")
  /\ UNCHANGED <<call, openVars>>

\* Mutant of InstanceAppend: a segment that is not the first replaces them.
Overwrites(t) ==
  /\ ipc[t] = "append"
  /\ dom' = [dom EXCEPT ![target[t]].segs =
                <<[begin |-> Current(t).begin, end |-> Current(t).end]>>]
  /\ InstGoto(t, "valid")
  /\ UNCHANGED <<last, call, target, openVars>>

\* wd_sched_domain_add_segment, at the tail of the list.
InstanceAppend(t) ==
  /\ ipc[t] = "append"
  /\ dom' = [dom EXCEPT ![target[t]].segs =
                Append(dom[target[t]].segs,
                       [begin |-> Current(t).begin, end |-> Current(t).end])]
  /\ InstGoto(t, "valid")
  /\ UNCHANGED <<last, call, target, openVars>>

\* The domain becomes usable, outside of any lock.
InstanceValid(t) == /\ ipc[t] = "valid"
                    /\ dom' = [dom EXCEPT ![target[t]].valid = TRUE]
                    /\ call' = [call EXCEPT ![t] = @ + 1]
                    /\ InstGoto(t, "lookup")
                    /\ UNCHANGED <<last, target, openVars>>

-----------------------------------------------------------------------------
\* Creating a session: sched_init

OpenGoto(t, label) == opc' = [opc EXCEPT ![t] = label]
SetLocals(t, l) == loc' = [loc EXCEPT ![t] = l]
Mode(t) == Modes[loc[t].m]
LoopProp(t) == IF policy = "loop" THEN Props[loc[t].p] ELSE DefProp[t]

\* The modes in which the session could be given a context that fits.
Possible(t) == {m \in Range(Modes) :
                  \E d \in Range(dom) : /\ d.valid /\ d.key.mode = m
                                         /\ Filed(d) \cap Compat[t] # {}}

Settled(t) == opc[t] \in {"idle", "open"}

OpenStart(t) == /\ Settled(t)
                /\ OpenGoto(t, "lookup")
                /\ SetLocals(t, NoLocals)
                /\ cache' = [cache EXCEPT ![t] = Empty]
                /\ owed' = [r \in Openers |->
                     IF r # t THEN {m \in owed[r] : Settled(r)}
                     ELSE {m \in Possible(t) : \A q \in Openers \ {t} : Settled(q)}]
                /\ UNCHANGED <<domVars, instVars>>

\* The control point after one mode of session_sched_domain_init.
AfterMode(t) ==
  IF loc[t].m < Len(Modes)
  THEN OpenGoto(t, "lookup") /\ SetLocals(t, Locals(loc[t].p, loc[t].m + 1, 0, 0))
  ELSE IF policy = "loop" /\ loc[t].p < Len(Props)
  THEN OpenGoto(t, "lookup") /\ SetLocals(t, Locals(loc[t].p + 1, 1, 0, 0))
  ELSE OpenGoto(t, "opened") /\ SetLocals(t, NoLocals)

\* session_sched_init_ctx finds no usable domain: the mode gets no context.
PrefetchNone(t) == /\ opc[t] = "lookup"
                   /\ ~Usable(Lookup([mode |-> Mode(t), prop |-> LoopProp(t)]))
                   /\ AfterMode(t)
                   /\ UNCHANGED <<domVars, instVars, cache, owed>>

PrefetchLookup(t) ==
  LET n == Lookup([mode |-> Mode(t), prop |-> LoopProp(t)])
  IN /\ opc[t] = "lookup" /\ Usable(n)
     /\ SetLocals(t, Locals(loc[t].p, loc[t].m, n, 0))
     /\ OpenGoto(t, "pick")
     /\ UNCHANGED <<domVars, instVars, cache, owed>>

\* The context is the only entry of the mode's cache: wd_sched_skey_domain_init
\* starts a new one, whatever a former property had put there.
PrefetchPick(t) == /\ opc[t] = "pick"
                   /\ TakeNext(loc[t].d)
                   /\ cache' = [cache EXCEPT ![t][Mode(t)] = <<Chosen(dom[loc[t].d])>>]
                   /\ AfterMode(t)
                   /\ UNCHANGED <<instVars, owed>>

\* No context in either mode: sched_init fails.
OpenFail(t) == /\ opc[t] = "opened" /\ cache[t] = Empty
               /\ OpenGoto(t, "idle")
               /\ UNCHANGED <<domVars, instVars, loc, cache, owed>>

-----------------------------------------------------------------------------
\* wd_sched_set_param and wd_sched_skey_compat_filter, one mode after the other

SetParam(t) == /\ opc[t] = "opened" /\ cache[t] # Empty
               /\ OpenGoto(t, "filter")
               /\ UNCHANGED <<domVars, instVars, loc, cache, owed>>

AfterFilter(t) ==
  IF loc[t].m < Len(Modes)
  THEN OpenGoto(t, "filter") /\ SetLocals(t, Locals(1, 2, 0, 0))
  ELSE OpenGoto(t, "open") /\ SetLocals(t, NoLocals)

Fits(t) == Range(cache[t][Mode(t)]) \subseteq Compat[t]

\* Nothing cached, or the cached context's driver has the algorithm.
FilterKeep(t) == /\ opc[t] = "filter" /\ Fits(t)
                 /\ AfterFilter(t)
                 /\ UNCHANGED <<domVars, instVars, cache, owed>>

\* wd_sched_find_compat_ctx goes through the properties.
FilterSearch(t) == /\ opc[t] = "filter" /\ ~Fits(t)
                   /\ OpenGoto(t, "search")
                   /\ UNCHANGED <<domVars, instVars, loc, cache, owed>>

SearchKey(t) == [mode |-> Mode(t), prop |-> Props[loc[t].p]]

\* No usable domain of this property, or all of it was gone through.
SearchNext(t) ==
  /\ \/ opc[t] = "search" /\ ~Usable(Lookup(SearchKey(t)))
     \/ opc[t] = "round" /\ loc[t].i >= Total(dom[loc[t].d])
  /\ loc[t].p < Len(Props)
  /\ SetLocals(t, Locals(loc[t].p + 1, loc[t].m, 0, 0))
  /\ OpenGoto(t, "search")
  /\ UNCHANGED <<domVars, instVars, cache, owed>>

SearchLookup(t) == /\ opc[t] = "search" /\ Usable(Lookup(SearchKey(t)))
                   /\ SetLocals(t, Locals(loc[t].p, loc[t].m, Lookup(SearchKey(t)), 0))
                   /\ OpenGoto(t, "round")
                   /\ UNCHANGED <<domVars, instVars, cache, owed>>

\* Mutant of SearchTry: the first context offered is taken.
TakesAny(t) == /\ opc[t] = "round" /\ loc[t].i < Total(dom[loc[t].d])
               /\ TakeNext(loc[t].d)
               /\ cache' = [cache EXCEPT ![t][Mode(t)] = <<Chosen(dom[loc[t].d])>>]
               /\ AfterFilter(t)
               /\ UNCHANGED <<instVars, owed>>

\* Mutant of SearchTry: one context of the domain is not tried.
TriesOneLess(t) ==
  /\ opc[t] = "round" /\ loc[t].i < Total(dom[loc[t].d])
  /\ TakeNext(loc[t].d)
  /\ IF Chosen(dom[loc[t].d]) \in Compat[t] /\ loc[t].i > 0
     THEN /\ cache' = [cache EXCEPT ![t][Mode(t)] = <<Chosen(dom[loc[t].d])>>]
          /\ AfterFilter(t)
     ELSE /\ SetLocals(t, Locals(loc[t].p, loc[t].m, loc[t].d, loc[t].i + 1))
          /\ UNCHANGED <<cache, opc>>
  /\ UNCHANGED <<instVars, owed>>

\* Mutant of SearchTry: the contexts tried are not counted.
NeverCounts(t) ==
  /\ opc[t] = "round" /\ loc[t].i < Total(dom[loc[t].d])
  /\ TakeNext(loc[t].d)
  /\ IF Chosen(dom[loc[t].d]) \in Compat[t]
     THEN /\ cache' = [cache EXCEPT ![t][Mode(t)] = <<Chosen(dom[loc[t].d])>>]
          /\ AfterFilter(t)
     ELSE UNCHANGED <<cache, opc, loc>>
  /\ UNCHANGED <<instVars, owed>>

\* The next context of the domain replaces the cached one if it fits.
SearchTry(t) ==
  /\ opc[t] = "round" /\ loc[t].i < Total(dom[loc[t].d])
  /\ TakeNext(loc[t].d)
  /\ IF Chosen(dom[loc[t].d]) \in Compat[t]
     THEN /\ cache' = [cache EXCEPT ![t][Mode(t)] = <<Chosen(dom[loc[t].d])>>]
          /\ AfterFilter(t)
     ELSE /\ SetLocals(t, Locals(loc[t].p, loc[t].m, loc[t].d, loc[t].i + 1))
          /\ UNCHANGED <<cache, opc>>
  /\ UNCHANGED <<instVars, owed>>

\* The last property had none: the entry is marked invalid.
SearchFail(t) ==
  /\ \/ opc[t] = "search" /\ ~Usable(Lookup(SearchKey(t)))
     \/ opc[t] = "round" /\ loc[t].i >= Total(dom[loc[t].d])
  /\ loc[t].p = Len(Props)
  /\ cache' = [cache EXCEPT ![t][Mode(t)] = <<Invalid>>]
  /\ AfterFilter(t)
  /\ UNCHANGED <<domVars, instVars, owed>>

-----------------------------------------------------------------------------
InstanceStep(t) == /\ \/ InstanceRefused(t) \/ InstanceLookup(t)
                      \/ InstanceInsert(t) \/ InstanceAppend(t)
                      \/ InstanceValid(t)
                   /\ UNCHANGED policy

OpenStep(t) == /\ \/ PrefetchNone(t) \/ PrefetchLookup(t) \/ PrefetchPick(t)
                  \/ OpenFail(t) \/ SetParam(t) \/ FilterKeep(t)
                  \/ FilterSearch(t) \/ SearchNext(t) \/ SearchLookup(t)
                  \/ SearchTry(t) \/ SearchFail(t)
               /\ UNCHANGED policy

Next == \/ \E t \in Callers : InstanceStep(t)
        \/ \E t \in Openers : OpenStep(t)
        \/ \E t \in Openers : OpenStart(t) /\ UNCHANGED policy

Spec == Init /\ [][Next]_vars

\* A thread inside a call goes on; no call waits for another thread.
FairSpec == /\ Spec
            /\ \A t \in Callers : WF_vars(InstanceStep(t))
            /\ \A t \in Openers : WF_vars(OpenStep(t))

-----------------------------------------------------------------------------
\* A domain goes round all its contexts one by one, whoever picks and
\* whenever segments are appended (wd_sched_domain_get_next_rr): the first
\* domain implements RoundRobin.
Rotation == INSTANCE RoundRobin
              WITH ring <- IF dom = <<>> THEN <<>> ELSE Ring(dom[1]),
                   at   <- IF dom = <<>> THEN 1 ELSE At(dom[1]),
                   out  <- IF dom = <<>> THEN Invalid ELSE last[1]

FirstRotates == Rotation!Spec

\* A context range whose instance call has returned is found under its key
\* (wd_sched_hash_table_lookup), so that sessions can be given the contexts.
InstancedIsFound ==
  \A t \in Callers : \A i \in 1 .. call[t] - 1 :
     LET c == Calls[t][i] IN
     c.begin <= c.end =>
        /\ Lookup(c.key) > 0
        /\ c.begin .. c.end \subseteq Filed(dom[Lookup(c.key)])

\* A session that was set up only holds contexts whose driver has its algorithm,
\* or an entry marked invalid (wd_sched_skey_compat_filter); and an entry is
\* marked invalid only if no context fits that was filed under its mode when the
\* session was asked for (wd_sched_find_compat_ctx), unless another session was
\* set up meanwhile and moved the round-robin pointer.
OpenFits ==
  \A t \in Openers : opc[t] = "open" =>
     /\ \A m \in Range(Modes) : Range(cache[t][m]) \subseteq Compat[t] \cup {Invalid}
     /\ \A m \in owed[t] : cache[t][m] # <<Invalid>>

\* Setting a session up ends, whatever other threads do to the domains.
EveryOpenEnds ==
  \A t \in Openers : (opc[t] = "lookup") ~> (opc[t] \in {"idle", "open"})
=============================================================================
