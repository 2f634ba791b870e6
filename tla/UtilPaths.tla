------------------------------ MODULE UtilPaths ------------------------------
(***************************************************************************)
(* Paths through the functions of wd_util.c and wd_bmm.c that set up and   *)
(* tear down what all front ends share.  Arrays are one resource, the      *)
(* contexts of a configuration are two.                                    *)
(***************************************************************************)
EXTENDS Paths

\* Facts of the environment: context i is a queue of a device ("hw1", "hw2") and
\* asynchronous ("async1", "async2"); the log level asks for counters ("info").

\* The segment stays when it cannot be attached.
wd_shm_create ==
  <<With("info", <<Get("shmid", << >>), Get("shmat", <<Lose("shmid")>>)>>, << >>)>>
wd_shm_delete == <<PutIf("shmat"), PutIf("shmid")>>

\* The list of contexts for wd_find_ctx is one for all front ends.
wd_insert_ctx_list(hw, node) == <<Check(<< >>), With(hw, <<Get(node, << >>)>>, << >>)>>
wd_remove_ctx_list == <<PutIf("node1"), PutIf("node2")>>

\* A missing context ends the loop with success; the label destroys the locks
\* before the failing context, and no list entry.
wd_init_ctx_config ==
  LET free_ctxs == <<Put("ctxs")>> \o wd_shm_delete IN
  <<Check(<< >>), Call(wd_shm_create, << >>),
    Get("ctxs", wd_shm_delete), Leave,
    Get("lock1", free_ctxs),
    Call(wd_insert_ctx_list("hw1", "node1"), <<Lose("lock1")>> \o free_ctxs), Leave,
    Get("lock2", <<Put("lock1"), Lose("node1")>> \o free_ctxs),
    Call(wd_insert_ctx_list("hw2", "node2"),
         <<Put("lock1"), Lose("lock2"), Lose("node1")>> \o free_ctxs)>>

wd_clear_ctx_config ==
  <<PutIf("lock1"), PutIf("lock2"), PutIf("ctxs")>> \o wd_remove_ctx_list \o wd_shm_delete

wd_init_sched == <<Check(<< >>), Own("sched name")>>
wd_clear_sched == <<PutIf("sched name")>>

init_msg_pool(msgs, used) == <<Get(msgs, << >>), Get(used, <<Put(msgs)>>)>>
uninit_msg_pool(msgs, used) == <<PutIf(msgs), PutIf(used)>>

\* A pool for every asynchronous context.
wd_init_async_request_pool ==
  <<Get("pools", << >>),
    With("async1", init_msg_pool("msgs1", "used1"), <<Put("pools")>>),
    With("async2", init_msg_pool("msgs2", "used2"), uninit_msg_pool("msgs1", "used1") \o <<Put("pools")>>)>>
wd_uninit_async_request_pool ==
  uninit_msg_pool("msgs1", "used1") \o uninit_msg_pool("msgs2", "used2") \o <<Put("pools")>>

\* wd_mem_ops_init checks the context and the operations.
wd_mem_ops_init == <<Check(<< >>)>>

\* No front end but cipher binds drivers: wd_ctx_drv_config does nothing.  With
\* "bound" from the start a family is run as if its caller had bound them.
wd_ctx_drv_config == <<With("bound", <<Own("drv")>>, << >>)>>
wd_ctx_drv_deconfig == <<PutIf("drv")>>

wd_alg_init_fallback == <<Check(<< >>), Get("fallback up", << >>)>>
wd_alg_uninit_fallback == <<PutIf("fallback up")>>

\* init_state is set before the driver's init and stays set when that fails;
\* drv_data keeps the memory, the context's drv_priv is never set.
wd_ctx_init_driver ==
  <<With("drv", <<Unless("init_state",
      <<Check(<< >>), Get("drv_data", << >>), Check(<<Put("drv_data")>>),
        Own("init_state"), Get("driver up", <<Put("drv_data")>>),
        Try(wd_alg_init_fallback)>>, << >>)>>, << >>)>>

\* As drv_priv is never set this returns at once.
wd_ctx_uninit_driver ==
  <<With("drv_priv", <<Put("driver up"), Put("init_state")>> \o wd_clear_ctx_config
                     \o wd_alg_uninit_fallback \o <<Put("drv_data")>>, << >>)>>

wd_alg_init_driver == <<Call(wd_ctx_init_driver, << >>),
                        Call(wd_ctx_init_driver, wd_ctx_uninit_driver)>>
wd_alg_uninit_driver == wd_ctx_uninit_driver \o wd_ctx_uninit_driver

-----------------------------------------------------------------------------
\* Loading the driver libraries

\* A library that cannot be loaded is skipped.
create_lib_to_list == <<Get("lib node", << >>), Get("dlh", <<Put("lib node")>>),
                        Check(<<Put("dlh"), Put("lib node")>>)>>

load_libraries_from_config ==
  <<Get("lib_path", << >>), Get("line", <<Put("lib_path")>>),
    Get("config_file", <<Put("line"), Put("lib_path")>>), Try(create_lib_to_list),
    Put("config_file"), Put("line"), Put("lib_path")>>

load_all_libraries == <<Get("lib_path", << >>), Try(create_lib_to_list), Put("lib_path")>>

\* Without a file every library is welcome.
check_uadk_config_file ==
  <<Get("cnf buf", << >>),
    May(<<Get("fp", << >>), Check(<<Put("fp")>>), Put("fp")>>, <<Put("cnf buf")>>),
    Put("cnf buf")>>

wd_get_lib_file_path ==
  <<Check(<< >>), Get("file buf", << >>), May(check_uadk_config_file, <<Put("file buf")>>),
    Check(<<Put("file buf")>>), Put("file buf")>>

\* An empty list is a failure of the caller.
wd_dlopen_drv ==
  LET free_path == <<Put("path_buf"), Put("config_path")>>
      close_dir == <<Put("dir")>> \o free_path
  IN <<Get("path_buf", << >>), Get("config_path", <<Put("path_buf")>>),
       Either(wd_get_lib_file_path, <<Check(<< >>)>>, free_path),
       Get("dir", free_path), Check(close_dir),
       Either(load_libraries_from_config, load_all_libraries, close_dir)>>
     \o close_dir \o <<Require("dlh", << >>)>>

wd_dlclose_drv == <<PutIf("dlh"), PutIf("lib node")>>

-----------------------------------------------------------------------------
\* The number of contexts

parse_num_on_numa == <<Check(<< >>), Get("number text", << >>), Check(<<Put("number text")>>),
                       Put("number text")>>

wd_set_ctx_nums == <<Check(<< >>), Call(parse_num_on_numa, << >>), Leave, Check(<< >>)>>

\* The copy of the text stays when the algorithm has no type.
wd_env_set_ctx_nums ==
  <<Check(<< >>), Get("env text", << >>), Check(<<Lose("env text")>>),
    Get("accel list", <<Put("env text")>>),
    Call(wd_set_ctx_nums, <<Put("accel list"), Put("env text")>>),
    Put("accel list"), Put("env text")>>

wd_ctx_param_init ==
  <<Get("bmp", << >>),
    Either(wd_env_set_ctx_nums, <<Check(<< >>)>>, <<Put("bmp")>>)>>
wd_ctx_param_uninit == <<Put("bmp")>>

-----------------------------------------------------------------------------
\* wd_alg_attrs_init: driver array, contexts, scheduler, then the front end's
\* own initialisation `alg_init'.  (AlgInit has the contexts one by one.)

wd_ctx_config_init ==
  <<Check(<< >>), Get("drv array", << >>), Get("internal config", <<Put("drv array")>>),
    Get("internal ctxs", <<Put("internal config"), Put("drv array")>>)>>
wd_ctx_config_uninit == <<PutIf("drv array"), PutIf("internal ctxs"), PutIf("internal config")>>

\* The contexts allocated before the one that failed stay.
wd_alloc_ctxs_batch == <<Get("context 1", << >>), Get("context 2", <<Lose("context 1")>>)>>
wd_free_ctxs_batch == <<PutIf("context 1"), PutIf("context 2")>>

wd_alg_ctx_init(alg_init) ==
  LET cleanup_sched == <<Put("rr sched")>> \o wd_free_ctxs_batch IN
  <<Check(<< >>), Call(wd_alloc_ctxs_batch, << >>),
    Get("rr sched", wd_free_ctxs_batch), Check(cleanup_sched),
    Get("ctx_config", cleanup_sched), Get("ctx_config ctxs", <<Put("ctx_config")>> \o cleanup_sched),
    Call(alg_init, <<Put("ctx_config ctxs"), Put("ctx_config")>> \o cleanup_sched)>>

wd_alg_ctx_uninit == <<PutIf("ctx_config ctxs"), PutIf("ctx_config")>> \o wd_free_ctxs_batch
                     \o <<PutIf("internal ctxs"), PutIf("rr sched")>>

wd_alg_attrs_init(alg_init) ==
  <<Check(<< >>), Call(wd_ctx_config_init, << >>), Check(wd_ctx_config_uninit),
    Call(wd_alg_ctx_init(alg_init), wd_ctx_config_uninit)>>
wd_alg_attrs_uninit == wd_alg_ctx_uninit \o wd_ctx_config_uninit

\* A front end that is up refuses another init.
wd_alg_try_init == <<With("status", <<Fail>>, << >>), Own("status")>>
wd_alg_clear_init == <<Put("status")>>

-----------------------------------------------------------------------------
\* The way up by environment variables (wd_alg_env_init)

wd_free_numa == <<PutIf("numa devs"), PutIf("config_per_numa")>>
wd_set_config_numa == <<Get("config_per_numa", << >>), Get("numa devs", wd_free_numa)>>

wd_alloc_numa ==
  <<Check(<< >>), Get("numa_dev_num", << >>),
    Get("accel list", <<Put("numa_dev_num")>>),
    Check(<<Put("accel list"), Put("numa_dev_num")>>),
    Call(wd_set_config_numa, <<Put("accel list"), Put("numa_dev_num")>>),
    Put("accel list"), Put("numa_dev_num")>>

\* The table of a node is made by the first section that names the node.
wd_alloc_ctx_table_per_numa ==
  <<Unless("ctx_table", <<Get("ctx_table", << >>), Get("ctx_table rows", <<Put("ctx_table")>>)>>,
           << >>)>>
wd_free_ctx_table_per_numa == <<PutIf("ctx_table rows"), PutIf("ctx_table")>>
wd_free_ctx_table == wd_free_ctx_table_per_numa

wd_parse_section ==
  <<Check(<< >>), Call(parse_num_on_numa, << >>), Check(<< >>),
    Call(wd_alloc_ctx_table_per_numa, << >>), Check(wd_free_ctx_table_per_numa)>>
parse_ctx_num ==
  LET err_free_ctx_table == wd_free_ctx_table \o <<Put("env text")>>
  IN <<Get("env text", << >>), Call(wd_parse_section, err_free_ctx_table),
       May(wd_parse_section, err_free_ctx_table), Put("env text")>>
wd_parse_env == <<Call(parse_ctx_num, << >>)>>
wd_parse_ctx_attr == <<Check(<< >>), Call(wd_alloc_ctx_table_per_numa, << >>)>>
wd_init_env_config == <<Either(wd_parse_ctx_attr, wd_parse_env, << >>)>>
wd_uninit_env_config == wd_free_ctx_table

\* The first device with a free context serves it.  A context that turns out to
\* have no type is released.
request_ctx_on_numa(h_ctx) == <<Check(<< >>), Get(h_ctx, << >>)>>
wd_get_wd_ctx(h_ctx) == <<Leave, Call(request_ctx_on_numa(h_ctx), << >>), Check(<<Put(h_ctx)>>)>>
wd_put_wd_ctx == <<PutIf("wd ctx 1"), PutIf("wd ctx 2")>>
wd_alloc_ctx ==
  LET err_free_ctxs == wd_put_wd_ctx \o <<Put("env ctxs"), Put("env ctx_config")>>
  IN <<Get("env ctx_config", << >>), Get("env ctxs", <<Put("env ctx_config")>>),
       Call(wd_get_wd_ctx("wd ctx 1"), err_free_ctxs),
       Call(wd_get_wd_ctx("wd ctx 2"), err_free_ctxs)>>
wd_free_ctx == wd_put_wd_ctx \o <<Put("env ctxs"), Put("env ctx_config")>>

wd_uninit_sched_config == <<PutIf("env sched")>>
wd_init_sched_config == <<Check(<< >>), May(<<Get("env sched", << >>)>>, << >>),
                          Check(wd_uninit_sched_config)>>

wd_init_resource(alg_init) ==
  <<Call(wd_alloc_ctx, << >>), Call(wd_init_sched_config, wd_free_ctx),
    Call(alg_init, wd_uninit_sched_config \o wd_free_ctx)>>
wd_uninit_resource(alg_uninit) == alg_uninit \o wd_uninit_sched_config \o wd_free_ctx

wd_alg_env_init(alg_init) ==
  <<Call(wd_alloc_numa, << >>),
    Call(wd_init_env_config, wd_free_numa),
    Call(wd_init_resource(alg_init), wd_uninit_env_config \o wd_free_numa), Own("env")>>
wd_alg_env_uninit(alg_uninit) ==
  wd_uninit_resource(alg_uninit) \o wd_uninit_env_config \o wd_free_numa \o <<Put("env")>>
-----------------------------------------------------------------------------
\* The shapes the front ends share.  "priv" says that the front end's own part
\* is up; "v1" and "v2" say which way up was taken.

open_driver(init_type) ==
  IF init_type = "v2" THEN wd_dlopen_drv
  ELSE <<Call(wd_get_lib_file_path, << >>), Get("dlhandle", << >>)>>
close_driver(init_type) == IF init_type = "v2" THEN wd_dlclose_drv ELSE <<PutIf("dlhandle")>>

common_init ==
  <<Check(<< >>), Call(wd_init_ctx_config, << >>),
    Call(wd_init_sched, wd_clear_ctx_config),
    Call(wd_init_async_request_pool, wd_clear_sched \o wd_clear_ctx_config),
    Own("priv")>>

\* The configuration stays: wd_clear_ctx_config is called on the way up only.
config_left == <<Lose("ctxs"), Lose("lock1"), Lose("lock2"), Lose("node1"), Lose("node2"),
                 Lose("shmat"), Lose("shmid")>>
common_uninit ==
  wd_uninit_async_request_pool \o wd_clear_sched \o <<Put("priv")>> \o config_left

init_v1(open, close, alg_init, alg_uninit) ==
  LET clear_init == wd_alg_clear_init
      out_close_driver == close \o clear_init
      uninit_nolock == alg_uninit \o out_close_driver
      drv_deconfig == wd_ctx_drv_deconfig \o uninit_nolock
  IN <<Call(wd_alg_try_init, << >>), Check(clear_init), Call(open, clear_init),
       Call(alg_init, out_close_driver), Call(wd_ctx_drv_config, uninit_nolock),
       Call(wd_alg_init_driver, drv_deconfig), Own("v1")>>

\* No device yet: another round, with the parameters anew.
init_v2(open, close, alg_init, alg_uninit) ==
  LET clear_init == wd_alg_clear_init
      dlclose == close \o clear_init
      uninit_nolock == alg_uninit \o wd_alg_attrs_uninit \o wd_ctx_param_uninit \o dlclose
      drv_deconfig == wd_ctx_drv_deconfig \o uninit_nolock
  IN <<Call(wd_alg_try_init, << >>), Check(clear_init), Call(open, clear_init),
       Again(<<Call(wd_ctx_param_init, << >>),
               Call(wd_alg_attrs_init(alg_init), wd_ctx_param_uninit)>>, dlclose),
       Call(wd_ctx_drv_config, uninit_nolock), Call(wd_alg_init_driver, drv_deconfig)>>
     \o wd_ctx_param_uninit \o <<Own("v2")>>

uninit_v1(close, alg_uninit) ==
  <<With("priv", wd_alg_uninit_driver \o wd_ctx_drv_deconfig \o alg_uninit \o close
                 \o wd_alg_clear_init \o <<Put("v1")>>, << >>)>>
uninit_v2(close, alg_uninit) ==
  <<With("priv", wd_ctx_drv_deconfig \o alg_uninit \o wd_alg_attrs_uninit \o close
                 \o wd_alg_clear_init \o <<Put("v2")>>, << >>)>>

\* A session is for an algorithm that a bound driver has.
wd_drv_alg_support == <<Require("drv", << >>), Check(<< >>)>>

\* A request: the parameters, the context, the driver's send; one that waits for
\* its answer holds the context's lock, one that does not keeps a message.
do_sync == <<Check(<< >>), Need("drv"), Own("ctx lock"), Check(<<Put("ctx lock")>>),
             Put("ctx lock")>>
do_async == <<Check(<< >>), Get("msg", << >>), Need("drv"), Check(<<Put("msg")>>)>>

\* A poll: no answer yet, or one that recv reports as an error or whose tag names
\* no message, which leaves the message, or the message goes back.
poll_ctx == <<Check(<< >>), Need("drv"), Check(<< >>), Check(<<Lose("msg")>>),
              With("msg", <<Put("msg")>>, << >>)>>

\* The entry points every front end has.
up_v1(init, uninit) ==
  {Entry("init", {}, {"env"}, init), Entry("uninit", {}, {"v2", "env", "sess", "msg"}, uninit)}
up_v2(init2, uninit2) ==
  {Entry("init2", {}, {"env"}, init2),
   Entry("uninit2", {}, {"v1", "env", "sess", "msg"}, uninit2)}

\* wd_X_env_init, wd_X_env_uninit, wd_X_ctx_num_init and wd_X_ctx_num_uninit.
by_env(alg_init, alg_uninit) ==
  {Entry("env_init", {}, {"env"}, wd_alg_env_init(alg_init)),
   Entry("env_uninit", {"env"}, {"sess", "msg"}, wd_alg_env_uninit(alg_uninit)),
   Entry("ctx_num_init", {}, {"env"}, <<Check(<< >>), Call(wd_alg_env_init(alg_init), << >>)>>),
   Entry("ctx_num_uninit", {"env"}, {"sess", "msg"}, wd_alg_env_uninit(alg_uninit))}

sessions(alloc_sess, free_sess) ==
  {Entry("alloc_sess", {"status"}, {"sess"}, alloc_sess),
   Entry("free_sess", {"sess"}, {"msg"}, free_sess)}
requests(sync, async, poll) ==
  {Entry("do_sync", {"sess"}, {}, sync), Entry("do_async", {"sess"}, {"msg"}, async),
   Entry("poll_ctx", {"status"}, {}, poll)}
=============================================================================
