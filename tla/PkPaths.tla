------------------------------ MODULE PkPaths ------------------------------
(***************************************************************************)
(* Paths through the front ends of the HPRE engine: wd_rsa.c, wd_dh.c and  *)
(* wd_ecc.c.                                                               *)
(***************************************************************************)
EXTENDS QmPaths

\* Taking down: the driver is let go before the front end is known to be up.
pk_uninit(close, alg_uninit) ==
  wd_alg_uninit_driver \o wd_ctx_drv_deconfig \o <<Call(alg_uninit, << >>)>>
  \o close \o wd_alg_clear_init \o <<Put("v1")>>
pk_uninit2(close, alg_uninit) ==
  wd_ctx_drv_deconfig \o <<Call(alg_uninit, << >>)>>
  \o wd_alg_attrs_uninit \o close \o wd_alg_clear_init \o <<Put("v2")>>

\* A request is filled in before the driver sees it; one that does not wait
\* gives its message back when that fails.  An answer that could not be received
\* gives the message back too, and its callback is never called.
pk_sync(fill) == <<Check(<< >>), Call(fill, << >>), Need("drv"), Own("ctx lock"),
                   Check(<<Put("ctx lock")>>), Put("ctx lock")>>
pk_async(fill) == <<Check(<< >>), Get("msg", << >>), Call(fill, <<Put("msg")>>), Need("drv"),
                    Check(<<Put("msg")>>)>>
pk_poll_ctx == <<Check(<< >>), Need("drv"), Check(<< >>), Check(<<PutIf("msg")>>),
                 Check(<<Lose("msg")>>), With("msg", <<Put("msg")>>, << >>)>>

-----------------------------------------------------------------------------
\* wd_rsa.c.  Fact "crt": the session's private key is in the CRT form.

wd_rsa_open_driver(init_type) == open_driver(init_type)
wd_rsa_close_driver(init_type) == close_driver(init_type)
wd_rsa_common_init == common_init
wd_rsa_common_uninit == <<Require("priv", << >>)>> \o common_uninit
wd_rsa_init ==
  init_v1(wd_rsa_open_driver("v1"), wd_rsa_close_driver("v1"), wd_rsa_common_init, wd_rsa_common_uninit)
wd_rsa_uninit == pk_uninit(wd_rsa_close_driver("v1"), wd_rsa_common_uninit)
wd_rsa_init2_ ==
  init_v2(wd_rsa_open_driver("v2"), wd_rsa_close_driver("v2"), wd_rsa_common_init, wd_rsa_common_uninit)
wd_rsa_uninit2 == pk_uninit2(wd_rsa_close_driver("v2"), wd_rsa_common_uninit)

\* When the public key has no memory the private one is given to free, whatever
\* it was allocated with.
rsa_create_sess_key ==
  <<Get("prikey", << >>),
    Get("pubkey", <<Cond("no sva", <<Lose("prikey")>>, <<Put("prikey")>>, << >>)>>)>>
rsa_del_sess_key == <<Require("prikey", << >>), Require("pubkey", << >>),
                      Put("prikey"), Put("pubkey")>>
del_sess == <<Put("sess")>>

wd_rsa_alloc_sess ==
  <<Check(<< >>), Check(<< >>), Get("sess", << >>), Call(wd_mem_ops_init, <<Put("sess")>>),
    Call(rsa_create_sess_key, <<Put("sess")>>),
    Get("sched_key", rsa_del_sess_key \o <<Put("sess")>>)>>
wd_rsa_free_sess == <<Put("sched_key")>> \o rsa_del_sess_key \o del_sess

wd_rsa_new_kg_in == <<Check(<< >>), Check(<< >>), Get("kg_in", << >>)>>
wd_rsa_del_kg_in == <<Check(<< >>), Put("kg_in")>>
wd_rsa_new_kg_out == <<Check(<< >>), Get("kg_out", << >>)>>
wd_rsa_del_kg_out == <<Check(<< >>), Put("kg_out")>>

\* A key is set part by part: a part that is refused leaves the parts before it.
rsa_set_param == <<Check(<< >>)>>
wd_rsa_set_pubkey_params == <<Need("pubkey"), Check(<< >>), Check(<< >>)>>
wd_rsa_set_prikey_params ==
  <<Need("prikey"), With("crt", <<Fail>>, << >>), Check(<< >>), Check(<< >>)>>
rsa_prikey2_param_set ==
  <<Call(rsa_set_param, << >>), Call(rsa_set_param, << >>), Call(rsa_set_param, << >>),
    Call(rsa_set_param, << >>), Call(rsa_set_param, << >>)>>
wd_rsa_set_crt_prikey_params ==
  <<Need("prikey"), Require("crt", << >>), Check(<< >>), Call(rsa_prikey2_param_set, << >>)>>

fill_rsa_msg == <<Check(<< >>), Need("prikey"), Need("pubkey"), Check(<< >>)>>
wd_do_rsa_sync == pk_sync(fill_rsa_msg)
wd_do_rsa_async == pk_async(fill_rsa_msg)
wd_rsa_poll_ctx == pk_poll_ctx

rsaEnv == by_env(wd_rsa_init, wd_rsa_uninit)
rsa ==
  up_v1(wd_rsa_init, wd_rsa_uninit) \cup up_v2(wd_rsa_init2_, wd_rsa_uninit2)
  \cup {Entry("alloc_sess", {"status"}, {"sess"}, wd_rsa_alloc_sess),
        Entry("free_sess", {"sess"}, {"msg", "kg_in", "kg_out"}, wd_rsa_free_sess),
        Entry("new_kg_in", {"sess"}, {"kg_in"}, wd_rsa_new_kg_in),
        Entry("del_kg_in", {"sess", "kg_in"}, {}, wd_rsa_del_kg_in),
        Entry("new_kg_out", {"sess"}, {"kg_out"}, wd_rsa_new_kg_out),
        Entry("del_kg_out", {"sess", "kg_out"}, {}, wd_rsa_del_kg_out),
        Entry("set_pubkey_params", {"sess"}, {}, wd_rsa_set_pubkey_params),
        Entry("set_prikey_params", {"sess"}, {}, wd_rsa_set_prikey_params),
        Entry("set_crt_prikey_params", {"sess"}, {}, wd_rsa_set_crt_prikey_params),
        Entry("do_sync", {"sess"}, {}, wd_do_rsa_sync),
        Entry("do_async", {"sess"}, {"msg"}, wd_do_rsa_async),
        Entry("poll_ctx", {"status"}, {}, wd_rsa_poll_ctx)}

-----------------------------------------------------------------------------
\* wd_dh.c

wd_dh_open_driver(init_type) == open_driver(init_type)
wd_dh_close_driver(init_type) == close_driver(init_type)
wd_dh_common_init == common_init
wd_dh_common_uninit == <<Require("priv", << >>)>> \o common_uninit
wd_dh_init ==
  init_v1(wd_dh_open_driver("v1"), wd_dh_close_driver("v1"), wd_dh_common_init, wd_dh_common_uninit)
\* Here the front end goes first.
wd_dh_uninit ==
  <<Call(wd_dh_common_uninit, << >>)>> \o wd_alg_uninit_driver \o wd_ctx_drv_deconfig
  \o wd_dh_close_driver("v1") \o wd_alg_clear_init \o <<Put("v1")>>
wd_dh_init2_ ==
  init_v2(wd_dh_open_driver("v2"), wd_dh_close_driver("v2"), wd_dh_common_init, wd_dh_common_uninit)
wd_dh_uninit2 == pk_uninit2(wd_dh_close_driver("v2"), wd_dh_common_uninit)

wd_dh_alloc_sess ==
  <<Check(<< >>), Check(<< >>), Get("sess", << >>), Call(wd_mem_ops_init, <<Put("sess")>>),
    Get("g", <<Put("sess")>>), Get("sched_key", <<Put("g"), Put("sess")>>)>>
wd_dh_free_sess == <<Put("g"), Put("sched_key"), Put("sess")>>

\* A generator other than 2 is refused after it was copied.
wd_dh_set_g == <<Check(<< >>), Need("g"), Check(<< >>)>>

fill_dh_msg == <<Check(<< >>), Need("g"), Check(<< >>)>>
wd_do_dh_sync == pk_sync(fill_dh_msg)
wd_do_dh_async == pk_async(fill_dh_msg)
wd_dh_poll_ctx == pk_poll_ctx

dhEnv == by_env(wd_dh_init, wd_dh_uninit)
dh ==
  up_v1(wd_dh_init, wd_dh_uninit) \cup up_v2(wd_dh_init2_, wd_dh_uninit2)
  \cup {Entry("alloc_sess", {"status"}, {"sess"}, wd_dh_alloc_sess),
        Entry("free_sess", {"sess"}, {"msg"}, wd_dh_free_sess),
        Entry("set_g", {"sess"}, {}, wd_dh_set_g),
        Entry("do_sync", {"sess"}, {}, wd_do_dh_sync),
        Entry("do_async", {"sess"}, {"msg"}, wd_do_dh_async),
        Entry("poll_ctx", {"status"}, {}, wd_dh_poll_ctx)}

-----------------------------------------------------------------------------
\* wd_ecc.c

wd_ecc_open_driver(init_type) == open_driver(init_type)
wd_ecc_close_driver(init_type) == close_driver(init_type)
wd_ecc_common_init == common_init
wd_ecc_common_uninit == <<Require("priv", << >>)>> \o common_uninit
wd_ecc_init ==
  init_v1(wd_ecc_open_driver("v1"), wd_ecc_close_driver("v1"), wd_ecc_common_init, wd_ecc_common_uninit)
wd_ecc_uninit == pk_uninit(wd_ecc_close_driver("v1"), wd_ecc_common_uninit)
wd_ecc_init2_ ==
  init_v2(wd_ecc_open_driver("v2"), wd_ecc_close_driver("v2"), wd_ecc_common_init, wd_ecc_common_uninit)
wd_ecc_uninit2 == pk_uninit2(wd_ecc_close_driver("v2"), wd_ecc_common_uninit)

\* A key is a structure and its data.
create_ecc_prikey == <<Get("prikey", << >>), Get("prikey data", <<Put("prikey")>>)>>
create_ecc_pubkey == <<Get("pubkey", << >>), Get("pubkey data", <<Put("pubkey")>>)>>
release_ecc_prikey == <<Put("prikey data"), Put("prikey")>>
release_ecc_pubkey == <<Put("pubkey data"), Put("pubkey")>>
create_ecc_curve == <<Get("cv", << >>)>>
create_ecc_pub == <<Get("pub", << >>)>>
create_ecc_d == <<Get("d", << >>)>>
release_ecc_curve == <<Put("cv")>>
release_ecc_pub == <<Put("pub")>>
release_ecc_d == <<Put("d")>>

\* A parameter must fit the size of the last one set.
set_param_single == <<Check(<< >>)>>
set_curve_param_single == <<Call(set_param_single, << >>), Call(set_param_single, << >>)>>
set_curve_param ==
  <<Call(set_curve_param_single, << >>), Call(set_curve_param_single, << >>),
    Call(set_curve_param_single, << >>), Call(set_curve_param_single, << >>),
    Call(set_curve_param_single, << >>), Call(set_curve_param_single, << >>)>>
find_curve_list == <<Check(<< >>)>>
fill_param_by_id == <<Call(find_curve_list, << >>), Check(<< >>)>>
set_key_cv == <<Check(<< >>), Check(<< >>)>>
\* What fill_param_by_id returns comes back after the size was looked at.
fill_user_curve_cfg == <<Either(fill_param_by_id, set_key_cv, << >>), Check(<< >>)>>

create_sess_key ==
  LET free_prikey == release_ecc_prikey
      free_pubkey == release_ecc_pubkey \o free_prikey
      free_curve == release_ecc_curve \o free_pubkey
      free_pub == release_ecc_pub \o free_curve
      free_d == release_ecc_d \o free_pub
  IN <<Call(create_ecc_prikey, << >>), Call(create_ecc_pubkey, free_prikey),
       Call(create_ecc_curve, free_pubkey), Call(create_ecc_pub, free_curve),
       Call(create_ecc_d, free_pub), Call(fill_user_curve_cfg, free_d),
       Call(set_curve_param, free_d)>>
del_sess_key ==
  <<With("prikey", <<Put("prikey data"), Put("prikey")>>, << >>),
    With("pubkey", <<Put("pubkey data"), Put("pubkey")>>, << >>),
    PutIf("cv"), PutIf("pub"), PutIf("d")>>

is_alg_support == <<Check(<< >>)>>
is_key_width_support == <<Check(<< >>)>>
setup_param_check == <<Check(<< >>), Call(is_alg_support, << >>), Call(is_key_width_support, << >>)>>

\* Every context's driver is asked for its own operations; none is no failure.
wd_ecc_sess_eops_cfg == <<Need("drv"), Try(<<Check(<< >>)>>)>>

wd_ecc_alloc_sess ==
  LET sess_err == <<Put("sess")>>
      sched_err == del_sess_key \o sess_err
  IN <<Call(setup_param_check, << >>), Call(wd_drv_alg_support, << >>), Get("sess", << >>),
       Call(wd_mem_ops_init, sess_err), Call(create_sess_key, sess_err)>>
     \o wd_ecc_sess_eops_cfg \o <<Get("sched_key", sched_err)>>
wd_ecc_free_sess == <<PutIf("sched_key")>> \o del_sess_key \o <<Put("sess")>>

wd_ecc_set_prikey == <<Check(<< >>), Need("prikey"), Need("d"), Call(set_param_single, << >>),
                       Call(set_param_single, << >>)>>
wd_ecc_set_pubkey ==
  <<Check(<< >>), Need("pubkey"), Need("pub"), Call(set_param_single, << >>),
    Call(set_param_single, << >>), Call(set_param_single, << >>), Call(set_param_single, << >>)>>

\* What a request reads and writes: one object each, made of the session's memory.
create_ecc_in == <<Check(<< >>), Get("in", << >>)>>
create_ecc_out == <<Check(<< >>), Get("out", << >>)>>
release_ecc_in == <<Put("in")>>
create_sm2_sign_in == <<Check(<< >>), Get("in", << >>)>>
create_sm2_verf_in == <<Check(<< >>), Get("in", << >>)>>
create_sm2_enc_in == <<Check(<< >>), Get("in", << >>)>>
create_sm2_ciphertext(object) == <<Check(<< >>), Get(object, << >>)>>
create_ecc_sign_in == <<Either(create_ecc_in, create_sm2_sign_in, << >>)>>
create_ecc_verf_in == <<Either(create_ecc_in, create_sm2_verf_in, << >>)>>

wd_ecxdh_new_in ==
  <<Check(<< >>), Call(create_ecc_in, << >>), Call(set_param_single, release_ecc_in),
    Call(set_param_single, release_ecc_in)>>
wd_ecxdh_new_out == <<Check(<< >>), Call(create_ecc_out, << >>)>>

generate_random == <<Check(<< >>)>>
sm2_compute_za_hash == <<Check(<< >>), Get("za in", << >>), Check(<<Put("za in")>>), Put("za in")>>
sm2_compute_digest ==
  <<Check(<< >>), Call(sm2_compute_za_hash, << >>), Get("e in", << >>), Check(<<Put("e in")>>),
    Put("e in")>>
set_sign_in_param ==
  <<May(set_param_single, << >>), May(set_param_single, << >>), May(set_param_single, << >>)>>
set_verf_in_param ==
  <<May(set_param_single, << >>), May(set_param_single, << >>), Call(set_param_single, << >>),
    Call(set_param_single, << >>)>>
new_sign_in ==
  <<Check(<< >>), Call(create_ecc_sign_in, << >>), May(generate_random, release_ecc_in),
    May(sm2_compute_digest, release_ecc_in), Call(set_sign_in_param, release_ecc_in)>>
new_verf_in ==
  <<Check(<< >>), Call(create_ecc_verf_in, << >>), May(sm2_compute_digest, release_ecc_in),
    Call(set_verf_in_param, release_ecc_in)>>
wd_sm2_new_sign_in == new_sign_in
wd_ecdsa_new_sign_in == new_sign_in
wd_sm2_new_verf_in == new_verf_in
wd_ecdsa_new_verf_in == new_verf_in
wd_ecc_new_sign_out == <<Check(<< >>), Call(create_ecc_out, << >>)>>
wd_sm2_new_sign_out == wd_ecc_new_sign_out
wd_ecdsa_new_sign_out == wd_ecc_new_sign_out
wd_sm2_new_kg_out == <<Check(<< >>), Call(create_ecc_out, << >>)>>
wd_sm2_new_enc_in ==
  <<Check(<< >>), Call(create_sm2_enc_in, << >>), May(generate_random, release_ecc_in),
    May(set_param_single, release_ecc_in), Call(set_param_single, release_ecc_in)>>
wd_sm2_new_dec_in ==
  <<Check(<< >>), Call(create_sm2_ciphertext("in"), << >>), Call(set_param_single, release_ecc_in),
    Call(set_param_single, release_ecc_in), Call(set_param_single, release_ecc_in),
    Call(set_param_single, release_ecc_in)>>
wd_sm2_new_enc_out == <<Check(<< >>), Call(create_sm2_ciphertext("out"), << >>)>>
wd_sm2_new_dec_out == <<Check(<< >>), Get("out", << >>)>>
wd_ecc_del_in == <<Check(<< >>), Put("in")>>
wd_ecc_del_out == <<Check(<< >>), Put("out")>>

fill_ecc_msg == <<Check(<< >>), Need("prikey"), Check(<< >>)>>
wd_do_ecc_sync == pk_sync(fill_ecc_msg)
wd_do_ecc_async == pk_async(fill_ecc_msg)
wd_ecc_poll_ctx == pk_poll_ctx

eccEnv == by_env(wd_ecc_init, wd_ecc_uninit)
ecc ==
  LET new_in == {wd_ecxdh_new_in, wd_sm2_new_sign_in, wd_sm2_new_verf_in, wd_sm2_new_enc_in,
                 wd_sm2_new_dec_in, wd_ecdsa_new_sign_in, wd_ecdsa_new_verf_in}
      new_out == {wd_ecxdh_new_out, wd_sm2_new_sign_out, wd_sm2_new_kg_out, wd_sm2_new_enc_out,
                  wd_sm2_new_dec_out, wd_ecdsa_new_sign_out}
  IN up_v1(wd_ecc_init, wd_ecc_uninit) \cup up_v2(wd_ecc_init2_, wd_ecc_uninit2)
     \cup {Entry("alloc_sess", {"status"}, {"sess"}, wd_ecc_alloc_sess),
           Entry("free_sess", {"sess"}, {"msg", "in", "out"}, wd_ecc_free_sess)}
     \cup {Entry("new_in", {"sess"}, {"in"}, c) : c \in new_in}
     \cup {Entry("new_out", {"sess"}, {"out"}, c) : c \in new_out}
     \cup {Entry("del_in", {"sess", "in"}, {}, wd_ecc_del_in),
           Entry("del_out", {"sess", "out"}, {}, wd_ecc_del_out),
           Entry("set_prikey", {"sess"}, {}, wd_ecc_set_prikey),
           Entry("set_pubkey", {"sess"}, {}, wd_ecc_set_pubkey)}
     \cup requests(wd_do_ecc_sync, wd_do_ecc_async, wd_ecc_poll_ctx)
=============================================================================
