----------------------------- MODULE SchedPaths -----------------------------
(***************************************************************************)
(* Paths through the making and taking down of a scheduler and its         *)
(* sessions: wd_sched.c.  "m p" is the domain of mode m and property p in  *)
(* the table, "m skey" the domain of mode m in the session's key.          *)
(***************************************************************************)
EXTENDS Paths

Modes == {"sync", "async"}
Props == {"hw", "soft"}

-----------------------------------------------------------------------------
\* The table of domains

wd_sched_hash_table_create ==
  <<Get("table", << >>), Get("buckets", <<Put("table")>>),
    Get("table lock", <<Put("buckets"), Put("table")>>)>>

TearDown(d) == <<PutIf(d \o " seg"), With(d, <<Put(d \o " lock"), Put(d)>>, << >>)>>
wd_sched_hash_table_destroy ==
  TearDown("sync hw") \o TearDown("sync soft") \o TearDown("async hw") \o TearDown("async soft")
  \o <<Put("table lock"), Put("buckets"), Put("table")>>

\* Schedulers without a table ("simple") refuse.
wd_sched_hash_table_insert(d) ==
  <<Require("table", << >>),
    Unless(d, <<Get(d, << >>), Get(d \o " lock", <<Put(d)>>)>>, << >>)>>

\* A second range of the same domain is one more segment of the same list.
wd_sched_domain_add_segment(d) ==
  <<Need(d), Cond(d \o " seg", <<Check(<< >>)>>, <<Get(d \o " seg", << >>)>>, << >>)>>

\* No parameters, no range, or a region, type or mode out of range.  A domain whose
\* segment cannot be made stays in the table, not valid: "m p seg" is a valid domain.
wd_sched_rr_instance(d) ==
  <<Check(<< >>), Check(<< >>), Check(<< >>), Check(<< >>), Check(<< >>),
    Call(wd_sched_hash_table_insert(d), << >>), Call(wd_sched_domain_add_segment(d), << >>)>>

-----------------------------------------------------------------------------
\* The domains of a session's key.  LOOP and HUNGRY make them again for every
\* property, over what is there: a mutex that is initialised again is lost.

MutexInit(r, u) == <<Check(u), Lose(r), Own(r)>>
wd_sched_skey_cache_init(k) == MutexInit(k \o " cache_lock", << >>)
wd_sched_skey_cache_uninit(k) == <<PutIf(k \o " cache_lock")>>

\* The context goes into the cache before the mutex of the domain is made.
wd_sched_skey_domain_init(k) ==
  LET init_err == wd_sched_skey_cache_uninit(k) IN
  <<Call(wd_sched_skey_cache_init(k), << >>), Check(init_err)>> \o MutexInit(k \o " lock", init_err)

\* A mode the session has no context for was never initialised: its mutexes are
\* zero, which destroys like an initialised one.
wd_sched_skey_domain_destroy(k) ==
  <<PutIf(k \o " lock")>> \o wd_sched_skey_cache_uninit(k)
session_sched_domain_destroy ==
  wd_sched_skey_domain_destroy("sync skey") \o wd_sched_skey_domain_destroy("async skey")

\* A valid domain of the mode and property, if the session's region and type are
\* in range and are that domain's.
session_sched_init_ctx(m, p) == <<Check(<< >>), Require(m \o " " \o p \o " seg", << >>), Check(<< >>)>>

\* The ways the two modes have a context: only the synchronous one, only the
\* other, or both; without either it fails, as each of the three may.  drop is what
\* the failure of the asynchronous domain undoes.
session_domains(p, drop) ==
  LET sync_ctx == Call(session_sched_init_ctx("sync", p), << >>)
      async_ctx == Call(session_sched_init_ctx("async", p), << >>)
      sync_domain == Call(wd_sched_skey_domain_init("sync skey"), << >>)
      async_domain(u) == Call(wd_sched_skey_domain_init("async skey"), u)
  IN <<Either(<<sync_ctx, sync_domain>>,
              <<Either(<<async_ctx, async_domain(<< >>)>>,
                       <<sync_ctx, async_ctx, sync_domain, async_domain(drop)>>, << >>)>>,
              << >>)>>

\* Mutant of session_sched_domain_init: the domain of the first mode stays.
keeps_sync_domain(p) == session_domains(p, << >>)

session_sched_domain_init(p) == session_domains(p, wd_sched_skey_domain_destroy("sync skey"))

sched_session_common_init == <<Check(<< >>), Need("sched_ctx"), Get("skey", << >>)>>
sched_skey_param_init == <<Need("skey_lock"), Get("slot", << >>)>>
sched_skey_param_uninit == <<Need("skey_lock"), Put("slot")>>

\* The sched_init of NONE and SINGLE makes no key.  That of RR, INSTR and DEV:
\* contexts of the session's own property.
sched_none_init == << >>
sched_single_init == << >>
one_prop_init ==
  <<Call(sched_session_common_init, << >>),
    Either(session_sched_domain_init("hw"), session_sched_domain_init("soft"), <<Put("skey")>>),
    Call(sched_skey_param_init, session_sched_domain_destroy \o <<Put("skey")>>)>>
round_robin_sched_init == one_prop_init
instr_sched_init == one_prop_init
session_dev_sched_init == one_prop_init

\* Of LOOP and HUNGRY: of every property, of which one must do ("requested").
every_prop_init ==
  LET Round(p) == Try(session_sched_domain_init(p) \o <<PutIf("requested"), Own("requested")>>)
  IN <<Call(sched_session_common_init, << >>), Round("hw"), Round("soft"),
       Require("requested", <<Put("skey")>>), Put("requested"),
       Call(sched_skey_param_init, session_sched_domain_destroy \o <<Put("skey")>>)>>
loop_sched_init == every_prop_init
skey_sched_init == every_prop_init

sched_session_uninit ==
  session_sched_domain_destroy \o sched_skey_param_uninit \o <<Put("skey")>>

\* The way the front ends free a session, whose schedulers have no sched_uninit
\* (wd_init_sched): the key goes, its slot and its mutexes stay ("dangling").
free_key == <<Put("skey"), Put("slot"), PutIf("dangling"), Own("dangling"),
              Lose("sync skey lock"), Lose("sync skey cache_lock"),
              Lose("async skey lock"), Lose("async skey cache_lock")>>

-----------------------------------------------------------------------------
\* The scheduler.  A region number refused leaves the context behind.

numa_num_check == <<Check(<< >>), Check(<< >>)>>

wd_sched_rr_alloc ==
  LET err_out == <<Put("sched")>>
      ctx_out == <<Put("sched_ctx")>> \o err_out
  IN <<Check(<< >>), Get("sched", << >>), Get("sched_ctx", err_out),
       Unless("simple", <<Unless("dev", numa_num_check, <<Lose("sched_ctx")>> \o err_out),
                          Call(wd_sched_hash_table_create, ctx_out)>>, << >>),
       Own("skey_lock")>>

\* Keys still in the array are freed, those the front ends freed once more; the
\* mutex of the array goes with its memory.
wd_sched_rr_release ==
  <<With("slot", session_sched_domain_destroy \o <<Put("skey"), Put("slot")>>, << >>),
    With("dangling", <<Need("freed key"), Put("dangling")>>, << >>),
    With("table", wd_sched_hash_table_destroy, << >>),
    PutIf("skey_lock"), Put("sched_ctx"), Put("sched")>>

-----------------------------------------------------------------------------
\* The session functions are reached through the table of the policy.
sched_table ==
  <<Cond("simple", <<Either(sched_none_init, sched_single_init, << >>)>>,
         <<Cond("dev", session_dev_sched_init,
                <<Either(round_robin_sched_init, instr_sched_init, << >>)>>, << >>)>>, << >>)>>

sched ==
  {Entry("rr_alloc", {}, {"sched"}, wd_sched_rr_alloc),
   Entry("sched_init", {"sched"}, {"skey", "every prop"}, sched_table),
   Entry("sched_init every", {"sched", "every prop"}, {"skey"},
         <<Either(loop_sched_init, skey_sched_init, << >>)>>),
   Entry("sched_uninit", {"sched", "skey"}, {}, sched_session_uninit),
   Entry("free key", {"sched", "skey"}, {}, free_key),
   Entry("rr_release", {"sched"}, {}, wd_sched_rr_release)}
  \cup {Entry("rr_instance", {"sched"}, {}, wd_sched_rr_instance(m \o " " \o p)) :
          m \in Modes, p \in Props}
=============================================================================
