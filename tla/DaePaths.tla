------------------------------ MODULE DaePaths ------------------------------
(***************************************************************************)
(* Paths through the aggregation and UDMA front ends (wd_agg.c, wd_udma.c) *)
(* and the drivers behind them (hisi_dae.c, hisi_dae_common.c,             *)
(* hisi_udma.c).                                                           *)
(***************************************************************************)
EXTENDS QmPaths

\* A context's record for the driver's own operations ("eops1", "eops2") is a
\* fact: get_extend_ops fills it where there is one, and nothing in the library
\* allocates it.

\* Taking down: the pool and the scheduler go first, or nothing does.
dae_uninit(alg_uninit, close) ==
  <<With("status", alg_uninit \o wd_alg_uninit_driver \o wd_ctx_drv_deconfig
                   \o wd_alg_attrs_uninit \o close \o wd_alg_clear_init \o <<Put("v2")>>,
         << >>)>>
pool_and_sched_down ==
  wd_uninit_async_request_pool \o wd_clear_sched \o <<Put("priv")>> \o config_left

\* The state word of a session with a hash table: it has one value, a resource
\* here, at a time.  "table": the session knows a table.
move(from, to) == <<Require(from, << >>), Put(from), Own(to)>>
\* The first request of a kind moves the word, and moves it back if it fails.
first_moves(from, to, job) ==
  <<Cond(from, <<Put(from), Own(to), Call(job, <<Put(to), Own(from)>>)>>,
         <<Require(to, << >>), Call(job, << >>)>>, << >>)>>
\* The first table, or a larger one for the rows of the first.
takes_table(filled, reset, checks) ==
  <<Cond("table", move(filled, reset) \o <<Call(checks, <<Put(reset), Own(filled)>>)>>,
         move("UNINIT", "INIT") \o <<Call(checks, <<Put("INIT"), Own("UNINIT")>>), Own("table")>>,
         << >>)>>
free_word(values) == <<PutIf("UNINIT"), PutIf("INIT"), PutIf("table")>> \o values

-----------------------------------------------------------------------------
\* wd_agg.c

wd_agg_open_driver == wd_dlopen_drv
wd_agg_close_driver == wd_dlclose_drv
wd_agg_alg_init == common_init
wd_agg_alg_uninit == pool_and_sched_down
wd_agg_init ==
  init_v2(wd_agg_open_driver, wd_agg_close_driver, wd_agg_alg_init, wd_agg_alg_uninit)
wd_agg_uninit == dae_uninit(wd_agg_alg_uninit, wd_agg_close_driver)

check_count_out_data_type == <<Check(<< >>)>>
check_col_data_info == <<Check(<< >>)>>
check_key_cols_info == <<Call(check_col_data_info, << >>)>>
check_agg_cols_info ==
  <<Leave, Call(check_col_data_info, << >>), Check(<< >>), Check(<< >>), Check(<< >>)>>
wd_agg_check_sess_params ==
  <<Check(<< >>), Check(<< >>),
    Either(<<Check(<< >>)>>, <<Check(<< >>), Call(check_count_out_data_type, << >>)>>, << >>),
    Call(check_key_cols_info, << >>), Call(check_agg_cols_info, << >>)>>

fill_agg_session ==
  LET out_key == <<Put("key cols_info")>>
      out_agg == <<Put("agg cols_info")>> \o out_key
  IN <<Get("key cols_info", << >>), Get("agg cols_info", out_key), Get("data_size", out_agg),
       Own("UNINIT")>>

\* The driver's part of the session, once for every context: the second takes
\* the place of the first, and is released once for every context.
wd_agg_uninit_sess_priv == <<With("eops1", <<Put("sess priv")>>, << >>),
                             With("eops2", <<Put("sess priv")>>, << >>)>>
agg_sess_priv == <<Lose("sess priv"), Get("sess priv", << >>), Check(<<Put("sess priv")>>)>>
wd_agg_init_sess_priv ==
  <<Need("drv"), With("eops1", agg_sess_priv, << >>), With("eops2", agg_sess_priv, << >>),
    Require("sess priv", << >>)>>

wd_agg_alloc_sess ==
  LET free_sess == <<Put("sess")>>
      free_key == <<Put("sched_key")>> \o free_sess
      uninit_priv == wd_agg_uninit_sess_priv \o free_key
  IN <<Call(wd_agg_check_sess_params, << >>), Get("sess", << >>),
       Call(wd_drv_alg_support, free_sess), Get("sched_key", free_sess),
       Call(wd_agg_init_sess_priv, free_key), Call(fill_agg_session, uninit_priv)>>
wd_agg_free_sess ==
  <<Put("key cols_info"), Put("agg cols_info"), Put("data_size")>> \o wd_agg_uninit_sess_priv
  \o <<PutIf("sched_key"), Put("sess")>>
  \o free_word(<<PutIf("INPUT"), PutIf("OUTPUT"), PutIf("RESET"), PutIf("REHASH")>>)
wd_agg_get_table_rowsize == <<Check(<< >>), Check(<< >>)>>

\* The row size, the table, its rows, and the driver's word on it.
wd_agg_set_hash_table ==
  <<Check(<< >>)>>
  \o takes_table("INPUT", "RESET", <<Check(<< >>), Check(<< >>), Check(<< >>), Check(<< >>)>>)

\* What a request must give: every column with its addresses and sizes.
check_out_col_addr ==
  <<Check(<< >>), Check(<< >>), Either(<<Check(<< >>)>>, <<Check(<< >>)>>, << >>)>>
check_in_col_addr ==
  <<Check(<< >>), Check(<< >>), Either(<<Check(<< >>), Check(<< >>)>>, <<Check(<< >>)>>, << >>)>>
check_key_col_addr(col) == <<Check(<< >>), Call(col, << >>)>>
check_agg_col_addr == <<Leave, Check(<< >>), Call(check_in_col_addr, << >>)>>
check_out_agg_col_addr ==
  <<Check(<< >>), Call(check_out_col_addr, << >>), May(check_out_col_addr, << >>)>>
wd_agg_check_common_params(async) ==
  <<Check(<< >>), Check(<< >>), Check(<< >>)>> \o (IF async THEN <<Check(<< >>)>> ELSE << >>)
wd_agg_check_input_req ==
  <<Check(<< >>), Check(<< >>), Check(<< >>), Check(<< >>), Check(<< >>),
    Call(check_key_col_addr(check_in_col_addr), << >>), Call(check_agg_col_addr, << >>)>>
wd_agg_check_output_req ==
  <<Check(<< >>), Check(<< >>), Check(<< >>), Check(<< >>), Check(<< >>),
    Call(check_key_col_addr(check_out_col_addr), << >>), Call(check_out_agg_col_addr, << >>)>>
wd_agg_check_input_params(async) == <<Call(wd_agg_check_common_params(async), << >>),
                                      Call(wd_agg_check_input_req, << >>)>>
wd_agg_check_output_params(async) == <<Call(wd_agg_check_common_params(async), << >>),
                                       Call(wd_agg_check_output_req, << >>)>>
wd_agg_check_rehash_params == <<Call(wd_agg_check_common_params(FALSE), << >>),
                                Call(wd_agg_check_output_req, << >>)>>

wd_agg_sync_job == do_sync
wd_agg_async_job == do_async
wd_agg_check_msg_result == <<Check(<< >>)>>
wd_agg_input_try_init(job) == first_moves("INIT", "INPUT", job)
wd_agg_output_try_init(job) == first_moves("INPUT", "OUTPUT", job)
wd_agg_add_input_sync ==
  <<Call(wd_agg_check_input_params(FALSE), << >>)>> \o wd_agg_input_try_init(wd_agg_sync_job)
wd_agg_add_input_async ==
  <<Call(wd_agg_check_input_params(TRUE), << >>)>> \o wd_agg_input_try_init(wd_agg_async_job)
wd_agg_get_output_sync ==
  <<Call(wd_agg_check_output_params(FALSE), << >>)>> \o wd_agg_output_try_init(wd_agg_sync_job)
wd_agg_get_output_async ==
  <<Call(wd_agg_check_output_params(TRUE), << >>)>> \o wd_agg_output_try_init(wd_agg_async_job)

\* A column of text needs its offsets: the rows that go in are not checked for it.
wd_agg_set_keycol_size == <<Check(<< >>)>>
wd_agg_set_aggcol_size == <<Check(<< >>), May(<<Check(<< >>)>>, << >>)>>
wd_agg_set_col_size == <<Call(wd_agg_set_keycol_size, << >>), Call(wd_agg_set_aggcol_size, << >>)>>
wd_agg_rehash_sync_inner ==
  <<Call(wd_agg_sync_job, << >>), Call(wd_agg_check_msg_result, << >>), Leave,
    Try(wd_agg_set_col_size), Call(wd_agg_sync_job, << >>), Call(wd_agg_check_msg_result, << >>)>>
wd_agg_rehash_try_init == move("RESET", "REHASH")
\* Without memory for the columns the word stays at REHASH.
wd_agg_rehash_sync ==
  LET failed == <<Put("REHASH"), Own("RESET"), Put("out columns")>> IN
  <<Call(wd_agg_check_rehash_params, << >>), Call(wd_agg_rehash_try_init, << >>),
    Get("out columns", << >>),
    May(<<Call(wd_agg_rehash_sync_inner, << >>), May(wd_agg_rehash_sync_inner, << >>)>>, failed),
    Put("REHASH"), Own("INPUT"), Put("out columns")>>
wd_agg_poll_ctx == poll_ctx
wd_agg_poll == <<Check(<< >>), Call(wd_agg_poll_ctx, << >>)>>

agg == up_v2(wd_agg_init, wd_agg_uninit) \cup sessions(wd_agg_alloc_sess, wd_agg_free_sess)
       \cup requests(wd_agg_add_input_sync, wd_agg_add_input_async, wd_agg_poll)
       \cup {Entry("set_hash_table", {"sess"}, {}, wd_agg_set_hash_table),
             Entry("get_table_rowsize", {"sess"}, {}, wd_agg_get_table_rowsize),
             Entry("get_output_sync", {"sess"}, {}, wd_agg_get_output_sync),
             Entry("get_output_async", {"sess"}, {"msg"}, wd_agg_get_output_async),
             Entry("rehash_sync", {"sess"}, {}, wd_agg_rehash_sync)}

-----------------------------------------------------------------------------
\* wd_udma.c

wd_udma_open_driver == wd_dlopen_drv
wd_udma_close_driver == wd_dlclose_drv
wd_udma_alg_init == common_init
wd_udma_alg_uninit == pool_and_sched_down
wd_udma_init ==
  init_v2(wd_udma_open_driver, wd_udma_close_driver, wd_udma_alg_init, wd_udma_alg_uninit)
wd_udma_uninit ==
  <<With("status", wd_alg_uninit_driver \o wd_ctx_drv_deconfig \o wd_udma_alg_uninit
                   \o wd_alg_attrs_uninit \o wd_udma_close_driver \o wd_alg_clear_init
                   \o <<Put("v2")>>, << >>)>>

wd_udma_alloc_sess == <<Check(<< >>), Get("sess", << >>), Get("sched_key", <<Put("sess")>>)>>
wd_udma_free_sess == <<PutIf("sched_key"), Put("sess")>>

wd_udma_addr_check == <<Check(<< >>), Check(<< >>)>>
wd_udma_param_check ==
  <<Check(<< >>), Check(<< >>), Call(wd_udma_addr_check, << >>),
    May(<<Call(wd_udma_addr_check, << >>), Check(<< >>)>>, << >>)>>
wd_do_udma_sync == <<Call(wd_udma_param_check, << >>)>> \o do_sync
wd_do_udma_async == <<Call(wd_udma_param_check, << >>), Check(<< >>)>> \o do_async
\* Here an answer that could not be received gives the message back.
wd_udma_poll_ctx == <<Check(<< >>), Need("drv"), Check(<< >>), Check(<<PutIf("msg")>>),
                      Check(<<Lose("msg")>>), With("msg", <<Put("msg")>>, << >>)>>
wd_udma_poll == <<Check(<< >>), Call(wd_udma_poll_ctx, << >>)>>

udma == up_v2(wd_udma_init, wd_udma_uninit) \cup sessions(wd_udma_alloc_sess, wd_udma_free_sess)
        \cup requests(wd_do_udma_sync, wd_do_udma_async, wd_udma_poll)

-----------------------------------------------------------------------------
\* Queues with a record per entry (hisi_dae_common.c, hisi_udma.c)

\* One record of the queue's own; none free is EBUSY.
get_free_ext_addr == <<Get("ext addr", << >>)>>
put_ext_addr == <<Put("ext addr")>>

dae_init_qp_priv(q) ==
  LET free_ext_addr == <<Put(q \o " ext_addr")>>
      free_ext_sqe == <<Put(q \o " ext_sqe")>> \o free_ext_addr
      free_addr_status == <<Put(q \o " addr_status")>> \o free_ext_sqe
  IN <<Get(q \o " ext_addr", << >>), Get(q \o " ext_sqe", free_ext_addr),
       Get(q \o " addr_status", free_ext_sqe), Get(q \o " addr_list", free_addr_status)>>
dae_uninit_qp_priv(q) ==
  <<Put(q \o " addr_list"), Put(q \o " addr_status"), Put(q \o " ext_sqe"), Put(q \o " ext_addr")>>

udma_init_qp_priv(q) ==
  LET free_inter_addr == <<Put(q \o " inter_addr")>>
      free_addr_status == <<Put(q \o " addr_status")>> \o free_inter_addr
  IN <<Get(q \o " inter_addr", << >>), Get(q \o " addr_status", free_inter_addr),
       Get(q \o " addr_array", free_addr_status)>>
udma_uninit_qp_priv(q) ==
  <<With(q \o " inter_addr", <<Put(q \o " addr_array"), Put(q \o " addr_status"),
                              Put(q \o " inter_addr")>>, << >>)>>

\* A queue pair and its records for every context that is a queue of a device.
qp_with_priv(q, init_priv) == hisi_qm_alloc_qp(q) \o <<Call(init_priv, hisi_qm_free_qp(q))>>
qp_down(q, uninit_priv) == <<With(q, uninit_priv \o hisi_qm_free_qp(q), << >>)>>
dae_init ==
  <<Check(<< >>), With("hw1", qp_with_priv("q1", dae_init_qp_priv("q1")), << >>),
    With("hw2", qp_with_priv("q2", dae_init_qp_priv("q2")),
         qp_down("q1", dae_uninit_qp_priv("q1")))>>
dae_exit == qp_down("q1", dae_uninit_qp_priv("q1")) \o qp_down("q2", dae_uninit_qp_priv("q2"))
dae_get_usage == qp_usage
udma_init ==
  <<Check(<< >>), With("hw1", qp_with_priv("q1", udma_init_qp_priv("q1")), << >>),
    With("hw2", qp_with_priv("q2", udma_init_qp_priv("q2")),
         qp_down("q1", udma_uninit_qp_priv("q1")))>>
udma_exit == qp_down("q1", udma_uninit_qp_priv("q1")) \o qp_down("q2", udma_uninit_qp_priv("q2"))
udma_get_usage == qp_usage

\* The record goes back with the answer, be it dropped or not.
dae_send(params) == <<Call(params, << >>), Call(get_free_ext_addr, << >>), Check(put_ext_addr),
                      Own("sent")>>
dae_recv == <<Check(<< >>), Require("sent", << >>), Put("sent"), Check(put_ext_addr),
              Check(put_ext_addr)>> \o put_ext_addr

-----------------------------------------------------------------------------
\* hisi_dae.c

check_hashagg_param == <<Check(<< >>)>>
\* A new queue does the two halves of a synchronous rehash at once: nothing is
\* sent for the second.
hashagg_send == <<Call(check_hashagg_param, << >>), Leave>> \o dae_send(<< >>)
hashagg_recv == <<Leave>> \o dae_recv

key_vchar_num_size_check == <<Check(<< >>), Check(<< >>)>>
agg_get_output_num == <<Check(<< >>)>>
agg_output_num_check == <<Call(agg_get_output_num, << >>), Check(<< >>), Check(<< >>)>>
hashagg_init_param_check == <<Check(<< >>), Call(key_vchar_num_size_check, << >>),
                              Call(agg_output_num_check, << >>)>>
hashagg_fill_agg_ctx == <<Check(<< >>), Check(<< >>), Check(<< >>)>>
hashagg_sess_priv_init ==
  <<Check(<< >>), Call(hashagg_init_param_check, << >>), Get("agg_ctx", << >>),
    Call(hashagg_fill_agg_ctx, <<Put("agg_ctx")>>), Get("agg_ctx lock", <<Put("agg_ctx")>>)>>
hashagg_sess_priv_uninit == <<Put("agg_ctx lock"), Put("agg_ctx")>>
agg_get_row_size == <<Require("agg_ctx", << >>)>>
\* The sizes of the tables, and where the device wants them.
dae_ext_table_init == <<Check(<< >>), Check(<< >>)>>
dae_std_table_init == <<Check(<< >>), Check(<< >>), Check(<< >>)>>
dae_hash_table_init == <<Check(<< >>), Check(<< >>), Call(dae_ext_table_init, << >>),
                         Call(dae_std_table_init, << >>)>>
agg_hash_table_init ==
  <<Require("agg_ctx", << >>), Check(<< >>), Call(dae_hash_table_init, << >>)>>
dae_get_extend_ops == <<Check(<< >>)>>

hisi_dae_probe == <<Try(wd_alg_driver_register("driver 1"))>>
hisi_dae_remove == wd_alg_driver_unregister("driver 1")

hashagg == driver(dae_init, dae_exit, hashagg_send, hashagg_recv, dae_get_usage,
                  hisi_dae_probe, hisi_dae_remove)
           \cup {Entry("sess_init", {"up"}, {"agg_ctx"}, hashagg_sess_priv_init),
                 Entry("sess_uninit", {"agg_ctx"}, {}, hashagg_sess_priv_uninit),
                 Entry("get_row_size", {"up"}, {}, agg_get_row_size),
                 Entry("hash_table_init", {"up"}, {}, agg_hash_table_init),
                 Entry("get_extend_ops", {"up"}, {}, dae_get_extend_ops)}

-----------------------------------------------------------------------------
\* hisi_udma.c: one address that fits an entry ("single") needs no record.

get_free_inter_addr == <<Check(<< >>), Get("inter addr", << >>)>>
put_inter_addr == <<Put("inter addr")>>
check_udma_param == <<Check(<< >>), Check(<< >>)>>
udma_send ==
  <<Call(check_udma_param, << >>), Unless("single", get_free_inter_addr, << >>),
    Check(<<Unless("single", put_inter_addr, << >>)>>), Own("sent")>>
udma_recv ==
  LET out == <<Unless("single", put_inter_addr, << >>)>> IN
  <<Check(<< >>), Require("sent", << >>), Put("sent"), Check(out), Check(out)>> \o out
hisi_udma_probe == <<Try(wd_alg_driver_register("driver 1"))>>
hisi_udma_remove == wd_alg_driver_unregister("driver 1")

udmaDriver == driver(udma_init, udma_exit, udma_send, udma_recv, udma_get_usage,
                     hisi_udma_probe, hisi_udma_remove)
=============================================================================
