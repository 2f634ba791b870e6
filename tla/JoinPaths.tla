------------------------------ MODULE JoinPaths ------------------------------
(***************************************************************************)
(* Paths through the join and gather front end (wd_join_gather.c) and its  *)
(* driver (hisi_dae_join_gather.c).                                        *)
(*                                                                         *)
(* Facts: the session joins ("join") and gathers ("gather").               *)
(***************************************************************************)
EXTENDS QmPaths

Dae == INSTANCE DaePaths

wd_join_gather_open_driver == wd_dlopen_drv
wd_join_gather_close_driver == wd_dlclose_drv

\* A combined algorithm needs devices for both halves: their lists are only looked
\* at.
wd_join_gather_check_inner ==
  <<Get("accel list", << >>), Put("accel list"), Get("accel list", << >>), Put("accel list")>>
wd_join_gather_alg_check == <<Either(wd_join_gather_check_inner, <<Check(<< >>)>>, << >>)>>

wd_join_gather_alg_init == common_init
wd_join_gather_alg_uninit == Dae!pool_and_sched_down
wd_join_gather_init ==
  LET checked == <<Call(wd_join_gather_alg_check, wd_alg_clear_init)>>
      up == init_v2(wd_join_gather_open_driver, wd_join_gather_close_driver,
                    wd_join_gather_alg_init, wd_join_gather_alg_uninit)
  IN SubSeq(up, 1, 2) \o checked \o SubSeq(up, 3, Len(up))
wd_join_gather_uninit == Dae!dae_uninit(wd_join_gather_alg_uninit, wd_join_gather_close_driver)

-----------------------------------------------------------------------------
\* Sessions

\* Of each column, here one: its type, and what it says of its size.
check_col_data_info == <<Check(<< >>)>>
check_key_cols_info ==
  <<Check(<< >>), Check(<< >>), Check(<< >>), Call(check_col_data_info, << >>)>>
wd_join_check_params ==
  <<Check(<< >>), Check(<< >>), Check(<< >>), Call(check_key_cols_info, << >>)>>
wd_gather_check_params ==
  <<Check(<< >>), Check(<< >>), Check(<< >>), Call(check_col_data_info, << >>)>>
wd_join_gather_check_params ==
  <<Check(<< >>), Unless("join", <<Require("gather", << >>)>>, << >>),
    With("join", wd_join_check_params, << >>), With("gather", wd_gather_check_params, << >>)>>

\* Two tables to gather from.
sess_data_size_init ==
  LET free_join == <<With("join", <<Put("join cols")>>, << >>), Put("UNINIT")>>
      free_gather == <<PutIf("data_size 1"), Put("gather tables")>> \o free_join
  IN <<Own("UNINIT"), With("join", <<Get("join cols", <<Put("UNINIT")>>)>>, << >>),
       With("gather", <<Get("gather tables", << >>)>>, free_join),
       With("gather", <<Get("data_size 1", << >>)>>, free_gather),
       With("gather", <<Get("data_size 2", << >>)>>, free_gather)>>
sess_data_size_uninit ==
  <<PutIf("join cols"), With("gather tables", <<Put("data_size 1"), Put("data_size 2"),
                                               Put("gather tables")>>, << >>)>>

\* The driver's part is made by the first context with its operations and
\* released once for every such context.
wd_join_gather_uninit_sess ==
  <<PutIf("batch_row_size"), With("eops1", <<Put("sess priv")>>, << >>),
    With("eops2", <<Put("sess priv")>>, << >>)>>
wd_join_gather_init_sess ==
  LET uninit == <<Put("sess priv")>> IN
  <<Need("drv"), Unless("eops1", <<Require("eops2", << >>)>>, << >>), Get("sess priv", << >>),
    With("join", <<Check(<< >>)>>, uninit),
    With("gather", <<Get("batch_row_size", << >>), Check(<<Put("batch_row_size")>>)>>, uninit)>>

wd_join_gather_alloc_sess ==
  LET free_sess == <<Put("sess")>>
      free_key == <<Put("sched_key")>> \o free_sess
      uninit_sess == wd_join_gather_uninit_sess \o free_key
  IN <<Call(wd_join_gather_check_params, << >>), Get("sess", << >>),
       Call(wd_drv_alg_support, free_sess), Get("sched_key", free_sess),
       Call(wd_join_gather_init_sess, free_key), Call(sess_data_size_init, uninit_sess)>>
wd_join_gather_free_sess ==
  sess_data_size_uninit \o wd_join_gather_uninit_sess \o <<PutIf("sched_key"), Put("sess")>>
  \o Dae!free_word(<<PutIf("BUILD_HASH"), PutIf("PREPARE_REHASH"), PutIf("REHASH"),
                     PutIf("PROBE")>>)

wd_gather_get_batch_rowsize == <<Require("batch_row_size", << >>), Check(<< >>)>>
wd_join_get_table_rowsize == <<Check(<< >>), Require("join", << >>), Check(<< >>)>>

\* The row size, the table, its rows, and the driver's word on it.
wd_join_set_hash_table ==
  <<Check(<< >>), Require("join", << >>)>>
  \o Dae!takes_table("BUILD_HASH", "PREPARE_REHASH",
                     <<Check(<< >>), Check(<< >>), Check(<< >>), Check(<< >>)>>)

-----------------------------------------------------------------------------
\* Requests

check_in_col_addr == <<Check(<< >>), Check(<< >>)>>
check_out_col_addr == <<Check(<< >>), Check(<< >>)>>
check_key_col_addr(col) == <<Call(col, << >>)>>
check_data_col_addr(col) == <<Check(<< >>), Check(<< >>), Call(col, << >>)>>
check_probe_out_addr == <<Check(<< >>), Check(<< >>), Check(<< >>)>>
\* The session must be for this half; one for both takes no request that does
\* not wait.
wd_join_gather_check_common(half, other, async) ==
  <<Check(<< >>), Check(<< >>)>> \o (IF async THEN <<Check(<< >>)>> ELSE << >>)
  \o <<Require(half, << >>)>> \o (IF async THEN <<With(other, <<Fail>>, << >>)>> ELSE << >>)
  \o <<Check(<< >>)>>
wd_join_common_check_req ==
  <<Check(<< >>), Check(<< >>), Check(<< >>), Call(check_key_col_addr(check_in_col_addr), << >>)>>
wd_build_hash_check_params(async) ==
  <<Call(wd_join_gather_check_common("join", "gather", async), << >>), Check(<< >>),
    Call(wd_join_common_check_req, << >>)>>
wd_join_probe_check_req ==
  <<Check(<< >>), Call(wd_join_common_check_req, << >>), Check(<< >>),
    May(<<Check(<< >>), Call(check_key_col_addr(check_out_col_addr), << >>)>>, << >>),
    Call(check_probe_out_addr, << >>)>>
wd_join_probe_check_params(async) ==
  <<Call(wd_join_gather_check_common("join", "gather", async), << >>),
    Call(wd_join_probe_check_req, << >>)>>
wd_join_rehash_check_params ==
  <<Call(wd_join_gather_check_common("join", "gather", FALSE), << >>), Check(<< >>),
    Check(<< >>)>>
wd_gather_common_check_req ==
  <<Require("gather tables", << >>), Check(<< >>), Check(<< >>), Check(<< >>)>>
wd_gather_convert_check_req ==
  <<Check(<< >>), Call(wd_gather_common_check_req, << >>),
    Call(check_data_col_addr(check_in_col_addr), << >>), Check(<< >>), Check(<< >>),
    Need("batch_row_size"), Check(<< >>)>>
\* Batches named by address, and several of them, are in the index and not looked at.
wd_gather_complete_check_req ==
  <<Check(<< >>), Call(wd_gather_common_check_req, << >>),
    Call(check_data_col_addr(check_out_col_addr), << >>), Check(<< >>), Leave, Check(<< >>),
    Check(<< >>), May(<<Check(<< >>)>>, << >>), Check(<< >>), Need("batch_row_size"),
    Check(<< >>)>>
wd_gather_convert_check_params(async) ==
  <<Call(wd_join_gather_check_common("gather", "join", async), << >>),
    Call(wd_gather_convert_check_req, << >>)>>
wd_gather_complete_check_params(async) ==
  <<Call(wd_join_gather_check_common("gather", "join", async), << >>),
    Call(wd_gather_complete_check_req, << >>)>>

wd_join_gather_sync_job == do_sync
wd_join_gather_async_job == do_async
wd_join_gather_check_result == <<Check(<< >>)>>
wd_build_hash_try_init(job) == Dae!first_moves("INIT", "BUILD_HASH", job)
wd_join_probe_try_init(job) == Dae!first_moves("BUILD_HASH", "PROBE", job)
wd_join_build_hash_sync == <<Call(wd_build_hash_check_params(FALSE), << >>)>>
                           \o wd_build_hash_try_init(wd_join_gather_sync_job)
wd_join_build_hash_async == <<Call(wd_build_hash_check_params(TRUE), << >>)>>
                            \o wd_build_hash_try_init(wd_join_gather_async_job)
wd_join_probe_sync == <<Call(wd_join_probe_check_params(FALSE), << >>)>>
                      \o wd_join_probe_try_init(wd_join_gather_sync_job)
wd_join_probe_async == <<Call(wd_join_probe_check_params(TRUE), << >>)>>
                       \o wd_join_probe_try_init(wd_join_gather_async_job)
wd_join_rehash_sync_inner == <<Call(wd_join_gather_sync_job, << >>),
                               Call(wd_join_gather_check_result, << >>)>>
wd_join_rehash_try_init == Dae!move("PREPARE_REHASH", "REHASH")
\* No round when the request asks for more rows than a table may have.
wd_join_rehash_sync ==
  LET failed == <<Put("REHASH"), Own("PREPARE_REHASH")>> IN
  <<Call(wd_join_rehash_check_params, << >>), Call(wd_join_rehash_try_init, << >>),
    May(<<Call(wd_join_rehash_sync_inner, << >>), May(wd_join_rehash_sync_inner, << >>)>>, failed),
    Put("REHASH"), Own("BUILD_HASH")>>
request(params, job) == <<Call(params, << >>), Call(job, << >>)>>
wd_gather_convert_sync == request(wd_gather_convert_check_params(FALSE), wd_join_gather_sync_job)
wd_gather_convert_async == request(wd_gather_convert_check_params(TRUE), wd_join_gather_async_job)
wd_gather_complete_sync ==
  request(wd_gather_complete_check_params(FALSE), wd_join_gather_sync_job)
wd_gather_complete_async ==
  request(wd_gather_complete_check_params(TRUE), wd_join_gather_async_job)
wd_join_gather_poll_ctx == poll_ctx
wd_join_gather_poll == <<Check(<< >>), Call(wd_join_gather_poll_ctx, << >>)>>

joinGather ==
  up_v2(wd_join_gather_init, wd_join_gather_uninit)
  \cup sessions(wd_join_gather_alloc_sess, wd_join_gather_free_sess)
  \cup requests(wd_join_build_hash_sync, wd_join_build_hash_async, wd_join_gather_poll)
  \cup {Entry("set_hash_table", {"sess"}, {}, wd_join_set_hash_table),
        Entry("probe_sync", {"sess"}, {}, wd_join_probe_sync),
        Entry("probe_async", {"sess"}, {"msg"}, wd_join_probe_async),
        Entry("rehash_sync", {"sess"}, {}, wd_join_rehash_sync),
        Entry("convert_sync", {"sess"}, {}, wd_gather_convert_sync),
        Entry("convert_async", {"sess"}, {"msg"}, wd_gather_convert_async),
        Entry("complete_sync", {"sess"}, {}, wd_gather_complete_sync),
        Entry("complete_async", {"sess"}, {"msg"}, wd_gather_complete_async),
        Entry("get_batch_rowsize", {"sess"}, {}, wd_gather_get_batch_rowsize),
        Entry("get_table_rowsize", {"sess"}, {}, wd_join_get_table_rowsize)}

-----------------------------------------------------------------------------
\* hisi_dae_join_gather.c

\* What the device asks of a table to build, of one to probe and of rows to put
\* together; a rehash and a conversion are not looked at.
build_check == <<Check(<< >>), May(<<Check(<< >>)>>, << >>)>>
probe_check == <<Check(<< >>), May(<<Check(<< >>)>>, << >>), Check(<< >>)>>
complete_check == <<Check(<< >>), May(<<Check(<< >>)>>, << >>)>>
check_join_gather_param ==
  <<Check(<< >>), Leave, Either(build_check, <<Either(probe_check, complete_check, << >>)>>, << >>)>>
join_gather_send == Dae!dae_send(check_join_gather_param)
join_gather_recv == Dae!dae_recv

\* Too many columns, a decimal out of range, a text.
dae_decimal_precision_check == <<Check(<< >>)>>
join_check_params ==
  <<Check(<< >>), May(dae_decimal_precision_check, << >>), Check(<< >>)>>
gather_check_params ==
  <<Check(<< >>), Check(<< >>), May(dae_decimal_precision_check, << >>), Check(<< >>)>>
join_gather_param_check ==
  <<Unless("join", <<Require("gather", << >>)>>, << >>),
    With("join", join_check_params, << >>), With("gather", gather_check_params, << >>)>>
transfer_col_info == <<Check(<< >>)>>
transfer_cols_to_hw_type == <<Call(transfer_col_info, << >>)>>
transfer_data_to_hw_type == <<Call(transfer_cols_to_hw_type, << >>)>>
transfer_key_to_hw_type == <<Call(transfer_cols_to_hw_type, << >>)>>
join_get_table_rowsize == <<Check(<< >>), Check(<< >>)>>
join_gather_fill_ctx ==
  <<With("join", <<Call(transfer_key_to_hw_type, << >>), Call(join_get_table_rowsize, << >>)>>,
         << >>),
    With("gather", transfer_data_to_hw_type, << >>)>>
join_gather_sess_priv_init ==
  <<Check(<< >>), Call(join_gather_param_check, << >>), Get("join ctx", << >>),
    Call(join_gather_fill_ctx, <<Put("join ctx")>>)>>
join_gather_sess_priv_uninit == <<Put("join ctx")>>
join_get_table_row_size == <<Require("join ctx", << >>)>>
gather_get_batch_row_size == <<Require("join ctx", << >>), Check(<< >>)>>
join_hash_table_init == <<Require("join ctx", << >>), Check(<< >>), Call(Dae!dae_hash_table_init, << >>)>>
join_gather_get_extend_ops == <<Check(<< >>)>>
hisi_dae_join_gather_probe == probe_all
hisi_dae_join_gather_remove == remove_all

joinDriver ==
  driver(Dae!dae_init, Dae!dae_exit, join_gather_send, join_gather_recv, Dae!dae_get_usage,
         hisi_dae_join_gather_probe, hisi_dae_join_gather_remove)
  \cup {Entry("sess_init", {"up"}, {"join ctx"}, join_gather_sess_priv_init),
        Entry("sess_uninit", {"join ctx"}, {}, join_gather_sess_priv_uninit),
        Entry("get_table_row_size", {"up"}, {}, join_get_table_row_size),
        Entry("get_batch_row_size", {"up"}, {}, gather_get_batch_row_size),
        Entry("hash_table_init", {"up"}, {}, join_hash_table_init),
        Entry("get_extend_ops", {"up"}, {}, join_gather_get_extend_ops)}
=============================================================================
