------------------------------ MODULE CompPaths ------------------------------
(***************************************************************************)
(* Paths through compression: the front end wd_comp.c, the zlib interface  *)
(* wd_zlibwrapper.c and the driver hisi_comp.c.                            *)
(***************************************************************************)
EXTENDS QmPaths

-----------------------------------------------------------------------------
\* wd_comp.c

wd_comp_open_driver(init_type) == open_driver(init_type)
wd_comp_close_driver(init_type) == close_driver(init_type)
wd_comp_init_nolock == common_init
wd_comp_uninit_nolock == <<Require("priv", << >>)>> \o common_uninit
wd_comp_init ==
  init_v1(wd_comp_open_driver("v1"), wd_comp_close_driver("v1"), wd_comp_init_nolock, wd_comp_uninit_nolock)
wd_comp_init2_ ==
  init_v2(wd_comp_open_driver("v2"), wd_comp_close_driver("v2"), wd_comp_init_nolock, wd_comp_uninit_nolock)

\* The driver is let go before the front end is known to be up.
wd_comp_uninit ==
  wd_alg_uninit_driver \o wd_ctx_drv_deconfig
  \o <<Call(wd_comp_uninit_nolock, << >>)>> \o wd_comp_close_driver("v1") \o wd_alg_clear_init
  \o <<Put("v1")>>
wd_comp_uninit2 ==
  wd_ctx_drv_deconfig \o <<Call(wd_comp_uninit_nolock, << >>)>>
  \o wd_alg_attrs_uninit \o wd_comp_close_driver("v2") \o wd_alg_clear_init
  \o <<Put("v2")>>

wd_comp_check_sess_params == <<Check(<< >>)>>
wd_alloc_ctx_buf == <<Get("ctx_buf", << >>)>>
wd_free_ctx_buf == <<Put("ctx_buf")>>
wd_comp_alloc_sess ==
  LET sess_err == <<Put("sess")>>
      sched_err == wd_free_ctx_buf \o sess_err
  IN <<Call(wd_comp_check_sess_params, << >>), Get("sess", << >>),
       Call(wd_mem_ops_init, sess_err), Call(wd_alloc_ctx_buf, sess_err),
       Get("sched_key", sched_err)>>
wd_comp_free_sess == wd_free_ctx_buf \o <<Put("sched_key"), Put("sess")>>

\* The session is reset in place; an open stream is forgotten.
wd_comp_reset_sess == <<Check(<< >>), PutIf("open stream")>>

wd_check_alg_buff_size == <<Check(<< >>), Unless("open stream", <<Check(<< >>)>>, << >>)>>
wd_comp_check_buffer == <<Check(<< >>), Call(wd_check_alg_buff_size, << >>)>>
wd_comp_check_params == <<Check(<< >>), Call(wd_comp_check_buffer, << >>), Check(<< >>)>>

\* One request at a time on a synchronous context.
wd_comp_sync_job == <<Check(<< >>), Need("drv"), Own("ctx lock"), Check(<<Put("ctx lock")>>),
                      Put("ctx lock")>>
wd_do_comp_sync == <<Call(wd_comp_check_params, << >>), Check(<< >>),
                     Call(wd_comp_sync_job, << >>)>>

\* An empty last request is answered here and closes the stream; others go to
\* the driver and open it, the last one closes it.
append_store_block == <<Check(<< >>), PutIf("open stream")>>
wd_do_comp_strm_end_check == <<May(<<Put("open stream")>>, << >>)>>
wd_do_comp_strm ==
  <<Call(wd_comp_check_params, << >>), Check(<< >>),
    Either(append_store_block,
           <<Call(wd_comp_sync_job, << >>), Unless("open stream", <<Own("open stream")>>, << >>)>>
           \o wd_do_comp_strm_end_check, << >>)>>

\* Requests until the stream is closed.  A failure leaves it open.
wd_do_comp_sync2 ==
  <<Call(wd_comp_check_params, << >>), Check(<< >>),
    Call(wd_do_comp_strm, << >>), With("open stream", wd_do_comp_strm, << >>),
    PutIf("open stream")>>

wd_do_comp_async == <<Call(wd_comp_check_params, << >>)>> \o do_async
wd_comp_poll_ctx == poll_ctx

compUp == up_v1(wd_comp_init, wd_comp_uninit) \cup up_v2(wd_comp_init2_, wd_comp_uninit2)
compEnv == by_env(wd_comp_init, wd_comp_uninit)
compUse ==
  {Entry("alloc_sess", {"status"}, {"sess"}, wd_comp_alloc_sess),
   Entry("free_sess", {"sess"}, {"msg"}, wd_comp_free_sess \o <<PutIf("open stream")>>),
   Entry("reset_sess", {"sess"}, {}, wd_comp_reset_sess),
   Entry("do_sync", {"sess"}, {}, wd_do_comp_sync),
   Entry("do_sync2", {"sess"}, {}, wd_do_comp_sync2),
   Entry("do_strm", {"sess"}, {}, wd_do_comp_strm),
   Entry("do_async", {"sess"}, {"msg"}, wd_do_comp_async),
   Entry("poll_ctx", {"status"}, {}, wd_comp_poll_ctx)}

-----------------------------------------------------------------------------
\* wd_zlibwrapper.c: the first stream brings compression up, the end of the
\* program takes it down.

\* A front end that is up already is used as it is.
wd_zlib_uadk_init ==
  LET out_freectx == <<Put("ctx_set_num")>>
      out_freebmp == <<Put("zlib bmp")>> \o out_freectx
  IN <<Unless("zlib_status",
         <<Get("ctx_set_num", << >>), Get("zlib bmp", out_freectx),
           Unless("status", wd_comp_init2_, out_freebmp), Own("zlib_status")>>
         \o out_freebmp, << >>)>>
wd_zlib_uadk_uninit == wd_comp_uninit2 \o <<Put("zlib_status")>>

wd_zlib_analy_alg == <<Check(<< >>)>>
wd_zlib_alloc_sess == <<Call(wd_zlib_analy_alg, << >>), Call(wd_comp_alloc_sess, << >>)>>
wd_zlib_init ==
  <<Check(<< >>), Own("wd_zlib_mutex"),
    Call(wd_zlib_uadk_init, <<Put("wd_zlib_mutex")>>),
    Call(wd_zlib_alloc_sess, <<Put("wd_zlib_mutex")>>), Put("wd_zlib_mutex")>>
wd_zlib_uninit == <<Check(<< >>)>> \o wd_comp_free_sess
wd_zlib_do_request == <<Check(<< >>), Call(wd_do_comp_strm, << >>), Check(<< >>)>>

\* wd_deflate_init .. wd_inflate_end and the destructor wd_zlibwrapper_destory.
zlib ==
  LET request == <<Check(<< >>), Call(wd_zlib_do_request, << >>)>>
      reset == <<Check(<< >>), Try(wd_comp_reset_sess)>>
  IN {Entry("deflate_init", {}, {"sess"}, wd_zlib_init),
      Entry("deflate", {"sess"}, {}, request),
      Entry("deflate_reset", {"sess"}, {}, reset),
      Entry("deflate_end", {"sess"}, {"open stream"}, wd_zlib_uninit),
      Entry("inflate_init", {}, {"sess"}, wd_zlib_init),
      Entry("inflate", {"sess"}, {}, request),
      Entry("inflate_reset", {"sess"}, {}, reset),
      Entry("inflate_end", {"sess"}, {"open stream"}, wd_zlib_uninit),
      Entry("destory", {}, {"sess"}, <<With("zlib_status", wd_zlib_uadk_uninit, << >>)>>)}

-----------------------------------------------------------------------------
\* drv/hisi_comp.c.  Facts of a request: its data is a list ("sgl"), its
\* algorithm is an LZ77 one ("lz77"), it belongs to a stream ("stream"), its
\* memory is not shared with the device ("no sva").

\* Bytes that did not fit wait in the store buffer (CompStream has them): the
\* next request takes them and skips the hardware.
check_store_buf == <<With("pending", <<Own("skip_hw"), May(<<Put("pending")>>, << >>)>>, << >>)>>
copy_from_hw == <<May(<<Put("pending")>>, << >>)>>

\* Room for the answer to a small buffer is taken before the request is sent.
check_enable_store_buf == <<With("stream", <<May(<<Own("pending")>>, << >>)>>, << >>)>>

get_sgl_from_pool ==
  LET err_free_sgl_in == hisi_qm_put_hw_sgl("in sgl")
      err_free_sgl_out == hisi_qm_put_hw_sgl("out sgl") \o err_free_sgl_in
  IN <<Call(hisi_qm_get_sglpool("q1"), << >>), Call(hisi_qm_get_hw_sgl("in sgl"), << >>),
       Call(hisi_qm_get_hw_sgl("out sgl"), err_free_sgl_in),
       With("lz77", hisi_qm_get_hw_sgl("seq sgl"), err_free_sgl_out)>>
free_hw_sgl == hisi_qm_put_hw_sgl("in sgl") \o hisi_qm_put_hw_sgl("out sgl")
               \o <<With("lz77", hisi_qm_put_hw_sgl("seq sgl"), << >>)>>

\* A request without input maps no source.
zip_mem_map ==
  LET unmap_src == <<PutIf("src map")>>
      unmap_lit == <<PutIf("lit map")>> \o unmap_src
      unmap_dst == <<Put("dst map")>> \o unmap_lit
  IN <<May(<<Get("src map", << >>)>>, << >>),
       With("lz77", <<Get("lit map", << >>)>>, unmap_src),
       Get("dst map", unmap_lit),
       With("stream", <<Get("ctx map", << >>)>>, unmap_dst)>>
zip_mem_unmap == <<PutIf("src map"), With("lz77", <<Put("lit map")>>, << >>), Put("dst map"),
                   With("stream", <<Put("ctx map")>>, << >>)>>

fill_buf_addr == <<With("no sva", zip_mem_map, << >>)>>
fill_buf_addr_sgl == <<Call(get_sgl_from_pool, << >>), Call(fill_buf_addr, free_hw_sgl)>>

buf_size_check_deflate == <<Check(<< >>)>>
fill_buf_deflate_generic ==
  check_enable_store_buf \o <<Call(buf_size_check_deflate, << >>), Call(fill_buf_addr, << >>)>>
fill_buf_deflate_sgl_generic == check_enable_store_buf \o <<Call(fill_buf_addr_sgl, << >>)>>

\* Blocks only, and compression only.
check_lz4_msg == <<With("stream", <<Fail>>, << >>), Check(<< >>)>>
fill_buf_lz4 == <<Call(check_lz4_msg, << >>), Call(fill_buf_addr, << >>)>>
fill_buf_lz4_sgl == <<Call(check_lz4_msg, << >>), Call(fill_buf_addr_sgl, << >>)>>

lz77_zstd_buf_check == <<Check(<< >>), With("stream", <<Check(<< >>)>>, << >>), Check(<< >>)>>
lz77_only_buf_check == <<Check(<< >>), With("stream", <<Check(<< >>)>>, << >>), Check(<< >>)>>
lz77_buf_check == <<Either(lz77_zstd_buf_check, lz77_only_buf_check, << >>)>>
fill_buf_lz77_zstd == <<Check(<< >>), Call(lz77_buf_check, << >>), Call(fill_buf_addr, << >>)>>

get_seq_start_list == <<Check(<< >>)>>
lz77_zstd_buf_check_sgl == <<Check(<< >>), With("stream", <<Check(<< >>)>>, << >>)>>
lz77_only_buf_check_sgl == <<Check(<< >>), With("stream", <<Check(<< >>)>>, << >>)>>
lz77_buf_check_sgl == <<Either(lz77_zstd_buf_check_sgl, lz77_only_buf_check_sgl, << >>)>>
fill_buf_lz77_zstd_sgl ==
  <<Check(<< >>), Call(get_seq_start_list, << >>), Call(lz77_buf_check_sgl, << >>),
    Call(fill_buf_addr_sgl, << >>)>>

fill_comp_level_lz77_zstd == <<Check(<< >>)>>

zip_maps_left == <<Lose("src map"), Lose("lit map"), Lose("dst map"), Lose("ctx map")>>
zip_sgls_left == <<Lose("in sgl"), Lose("out sgl"), Lose("seq sgl")>>

\* A level the LZ77 algorithms do not have is found after the buffers were
\* taken, and they stay.
fill_zip_comp_sqe ==
  <<Check(<< >>),
    Cond("lz77", <<Cond("sgl", fill_buf_lz77_zstd_sgl, fill_buf_lz77_zstd, << >>),
                   Call(fill_comp_level_lz77_zstd, zip_sgls_left \o zip_maps_left)>>,
         <<Cond("sgl", <<Either(fill_buf_deflate_sgl_generic, fill_buf_lz4_sgl, << >>)>>,
                <<Either(fill_buf_deflate_generic, fill_buf_lz4, << >>)>>, << >>)>>, << >>)>>

\* A full queue gives the lists back and leaves the maps.
hisi_zip_comp_send ==
  check_store_buf
  \o <<Unless("skip_hw",
         <<Call(fill_zip_comp_sqe, << >>),
           Check(<<With("sgl", free_hw_sgl, << >>)>> \o zip_maps_left)>>, << >>),
       Own("sent")>>

\* An answer that cannot be told is dropped, with what its request took.
get_alg_type == <<Check(<< >>)>>
parse_zip_sqe ==
  LET dropped == <<Put("sent")>> \o zip_sgls_left \o zip_maps_left IN
  <<Call(get_alg_type, dropped), Check(dropped), With("no sva", zip_mem_unmap, << >>),
    With("sgl", free_hw_sgl, << >>), Put("sent")>>

\* Nothing to receive: no answer yet.
hisi_zip_comp_recv ==
  <<Cond("skip_hw", <<Put("skip_hw"), Put("sent")>>,
         <<Check(<< >>), Require("sent", << >>), Call(parse_zip_sqe, << >>),
           With("pending", copy_from_hw, << >>)>>, << >>)>>

hisi_zip_init == <<Check(<< >>)>> \o qps_up
hisi_zip_exit == qps_down
hisi_zip_get_usage == qp_usage
hisi_zip_probe == probe_all
hisi_zip_remove == remove_all

zip == driver(hisi_zip_init, hisi_zip_exit, hisi_zip_comp_send, hisi_zip_comp_recv,
              hisi_zip_get_usage, hisi_zip_probe, hisi_zip_remove)
=============================================================================
