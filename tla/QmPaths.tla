------------------------------ MODULE QmPaths ------------------------------
(***************************************************************************)
(* Paths through the queue pairs of the HiSilicon devices and their pools  *)
(* of scatter lists: hisi_qm_udrv.c.  The queue pair of context i is "q1"  *)
(* or "q2"; its parts are named after it.                                  *)
(***************************************************************************)
EXTENDS UtilPaths

hisi_qm_setup_region(q) == <<Get(q \o " dus", << >>), Get(q \o " mmio", <<Put(q \o " dus")>>)>>
hisi_qm_unset_region(q) == <<Put(q \o " dus"), Put(q \o " mmio")>>

\* The version of the interface says how the doorbell is rung.
get_version_id == <<Check(<< >>)>>
hisi_qm_setup_db(q) == <<Need(q \o " mmio"), Call(get_version_id, << >>)>>
hisi_qm_get_qfrs_offs == <<Check(<< >>), Check(<< >>)>>
\* Without the second command the defaults hold.
his_qm_set_qp_ctx == <<Check(<< >>), Try(<<Check(<< >>)>>)>>

\* Mutant of hisi_qm_setup_info: the label of the second lock is left out.
keeps_rv_lock(q) ==
  LET err_out == hisi_qm_unset_region(q) IN
  <<Call(hisi_qm_setup_region(q), << >>), Call(hisi_qm_get_qfrs_offs, err_out),
    Call(hisi_qm_setup_db(q), err_out), Call(his_qm_set_qp_ctx, err_out),
    Get(q \o " rv_lock", err_out), Get(q \o " sd_lock", err_out),
    Get(q \o " sgl_lock", <<Put(q \o " sd_lock")>> \o err_out)>>

hisi_qm_setup_info(q) ==
  LET err_out == hisi_qm_unset_region(q)
      err_destroy_lock == <<Put(q \o " rv_lock")>> \o err_out
      err_destroy_sd_lock == <<Put(q \o " sd_lock")>> \o err_destroy_lock
  IN <<Call(hisi_qm_setup_region(q), << >>), Call(hisi_qm_get_qfrs_offs, err_out),
       Call(hisi_qm_setup_db(q), err_out), Call(his_qm_set_qp_ctx, err_out),
       Get(q \o " rv_lock", err_out), Get(q \o " sd_lock", err_destroy_lock),
       Get(q \o " sgl_lock", err_destroy_sd_lock)>>
hisi_qm_clear_info(q) ==
  <<Put(q \o " sgl_lock"), Put(q \o " sd_lock"), Put(q \o " rv_lock")>> \o hisi_qm_unset_region(q)

-----------------------------------------------------------------------------
\* A pool p of scatter lists, here of two; without SVA ("no sva") the lists are
\* of the session's memory and the pool keeps the operations for it.

hisi_qm_create_sgl(p, i) == <<Get(p \o i, << >>)>>

\* A list that cannot be mapped has no aligned address; the pool keeps it.
hisi_qm_align_sgl == <<Check(<< >>)>>

hisi_qm_free_sglpool(p) ==
  <<PutIf(p \o " 1"), PutIf(p \o " 2"), PutIf(p \o " sgl"), PutIf(p \o " sgl_align"),
    PutIf(p \o " mm_ops"), Put(p)>>

hisi_qm_create_sglpool(p, mm_ops) ==
  LET err_out == hisi_qm_free_sglpool(p) IN
  <<Check(<< >>), Get(p, << >>)>>
  \o (IF mm_ops THEN <<Get(p \o " mm_ops", err_out)>> ELSE << >>)
  \o <<Get(p \o " sgl", err_out), Get(p \o " sgl_align", err_out),
       Call(hisi_qm_create_sgl(p, " 1"), err_out), Try(hisi_qm_align_sgl),
       Call(hisi_qm_create_sgl(p, " 2"), err_out), Try(hisi_qm_align_sgl),
       Get(p \o " lock", err_out)>>
hisi_qm_destroy_sglpool(p) == <<Put(p \o " lock")>> \o hisi_qm_free_sglpool(p)

\* The pool without SVA is made by the first request that needs it.
hisi_qm_get_sglpool(q) ==
  <<Cond("no sva", <<Unless(q \o " nosva pool",
                            hisi_qm_create_sglpool(q \o " nosva pool", TRUE), << >>)>>,
         <<Need(q \o " pool")>>, << >>)>>

\* A chain for a list of the caller: an error gives back what was popped.
hisi_qm_get_hw_sgl(sgl) == <<Check(<< >>), Get(sgl, << >>), Check(<<Put(sgl)>>)>>
hisi_qm_put_hw_sgl(sgl) == <<Put(sgl)>>

-----------------------------------------------------------------------------
\* A queue pair

hisi_qm_alloc_qp(q) ==
  LET out_qp == <<Put(q)>>
      free_info == hisi_qm_clear_info(q) \o out_qp
      free_pool == hisi_qm_destroy_sglpool(q \o " pool") \o free_info
  IN <<Check(<< >>), Get(q, << >>), Call(hisi_qm_setup_info(q), out_qp),
       Call(hisi_qm_create_sglpool(q \o " pool", FALSE), free_info),
       Get(q \o " started", free_pool),
       Check(<<Put(q \o " started")>> \o free_pool)>>

\* Mutant of hisi_qm_free_qp: the second pool is destroyed without a look.
frees_pool_unseen(q) ==
  <<With(q, <<Put(q \o " started")>> \o hisi_qm_destroy_sglpool(q \o " pool")
            \o hisi_qm_destroy_sglpool(q \o " nosva pool")
            \o hisi_qm_clear_info(q) \o <<Put(q)>>, << >>)>>

\* Mutant of hisi_qm_free_qp: the second pool is forgotten.
keeps_nosva_pool(q) ==
  <<With(q, <<Put(q \o " started")>> \o hisi_qm_destroy_sglpool(q \o " pool")
            \o hisi_qm_clear_info(q) \o <<Put(q)>>, << >>)>>

\* Nothing happens to a context without a queue pair.
hisi_qm_free_qp(q) ==
  <<With(q, <<Put(q \o " started")>> \o hisi_qm_destroy_sglpool(q \o " pool")
            \o <<With(q \o " nosva pool", hisi_qm_destroy_sglpool(q \o " nosva pool"), << >>)>>
            \o hisi_qm_clear_info(q) \o <<Put(q)>>, << >>)>>

hisi_qm_get_usage == <<Check(<< >>), Check(<< >>), Check(<< >>)>>

\* What the drivers of the devices share: a queue pair for every context that is
\* a queue of a device, and back if one fails.
qps_up ==
  <<With("hw1", hisi_qm_alloc_qp("q1"), << >>),
    With("hw2", hisi_qm_alloc_qp("q2"), hisi_qm_free_qp("q1"))>>
qps_down == hisi_qm_free_qp("q1") \o hisi_qm_free_qp("q2")

\* The context of the device whose name is asked for.
qp_usage == <<Check(<< >>), Require("up", << >>), Check(<< >>), Require("q1", << >>),
              Call(hisi_qm_get_usage, << >>)>>

\* Registering goes on when one algorithm is refused.
wd_alg_driver_register(d) == <<Get(d, << >>)>>
wd_alg_driver_unregister(d) == <<PutIf(d)>>
probe_all == <<Try(wd_alg_driver_register("driver 1")), Try(wd_alg_driver_register("driver 2"))>>
remove_all == wd_alg_driver_unregister("driver 1") \o wd_alg_driver_unregister("driver 2")

\* The entry points every driver has.  What a driver keeps for itself is made and
\* freed around its init and exit (wd_ctx_init_driver, wd_ctx_uninit_driver).
driver(init, exit, send, recv, get_usage, probe, remove) ==
  {Entry("init", {"probed"}, {"up"},
         <<Get("driver priv", << >>), Call(init, <<Put("driver priv")>>), Own("up")>>),
   Entry("exit", {"up"}, {"sent", "agg_ctx", "join ctx", "aiv_addr"},
         exit \o <<Put("driver priv"), Put("up")>>),
   Entry("send", {"up", "q1"}, {"sent"}, send),
   Entry("recv", {"up", "q1"}, {}, recv),
   Entry("get_usage", {"probed"}, {}, get_usage),
   Entry("probe", {}, {"probed"}, probe \o <<Own("probed")>>),
   Entry("remove", {"probed"}, {"up"}, remove \o <<Put("probed")>>)}
=============================================================================
