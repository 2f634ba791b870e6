------------------------------ MODULE SecPaths ------------------------------
(***************************************************************************)
(* Paths through the front ends of the SEC engine: wd_cipher.c,            *)
(* wd_digest.c and wd_aead.c.                                              *)
(***************************************************************************)
EXTENDS UtilPaths

-----------------------------------------------------------------------------
\* wd_cipher.c: the one front end that binds its drivers itself.

wd_cipher_open_driver(init_type) == open_driver(init_type)
wd_cipher_close_driver(init_type) == close_driver(init_type)
wd_cipher_common_init == common_init
wd_cipher_common_uninit == common_uninit

wd_ctx_bind_drivers == <<Check(<< >>), Own("drv")>>
wd_ctx_unbind_drivers == <<PutIf("drv")>>

\* When no driver is found the label after the common part's is taken.
wd_cipher_init ==
  LET out_close_driver == wd_cipher_close_driver("v1") \o wd_alg_clear_init
      free_drv_array == <<PutIf("drv array v1")>> \o out_close_driver
      common_down == wd_cipher_common_uninit \o free_drv_array
  IN <<Call(wd_alg_try_init, << >>), Check(wd_alg_clear_init),
       Call(wd_cipher_open_driver("v1"), wd_alg_clear_init),
       Call(wd_cipher_common_init, out_close_driver),
       Get("drv array v1", free_drv_array),
       Call(wd_ctx_bind_drivers, common_down),
       Call(wd_alg_init_driver, wd_ctx_unbind_drivers \o common_down), Own("v1")>>

wd_cipher_uninit ==
  wd_alg_uninit_driver \o wd_ctx_unbind_drivers
  \o <<With("priv", wd_cipher_common_uninit \o <<PutIf("drv array v1")>>
                    \o wd_cipher_close_driver("v1") \o wd_alg_clear_init
                    \o <<PutIf("v1")>>, << >>)>>

wd_cipher_init2_ ==
  LET dlclose == wd_cipher_close_driver("v2") \o wd_alg_clear_init
      common_down == wd_cipher_common_uninit \o wd_alg_attrs_uninit \o wd_ctx_param_uninit
                     \o dlclose
  IN <<Call(wd_alg_try_init, << >>), Check(wd_alg_clear_init),
       Call(wd_cipher_open_driver("v2"), wd_alg_clear_init),
       Again(<<Call(wd_ctx_param_init, << >>),
               Call(wd_alg_attrs_init(wd_cipher_common_init), wd_ctx_param_uninit)>>, dlclose),
       Call(wd_ctx_bind_drivers, common_down),
       Call(wd_alg_init_driver, wd_ctx_unbind_drivers \o common_down)>>
     \o wd_ctx_param_uninit \o <<Own("v2")>>

wd_cipher_uninit2 ==
  wd_alg_uninit_driver \o wd_ctx_unbind_drivers
  \o <<With("priv", wd_cipher_common_uninit \o wd_alg_attrs_uninit
                    \o wd_cipher_close_driver("v2") \o wd_alg_clear_init \o <<PutIf("v2")>>, << >>)>>

cipher_setup_memory_and_buffers == <<Call(wd_mem_ops_init, << >>), Get("key", << >>)>>

wd_cipher_alloc_sess ==
  <<Check(<< >>), Get("sess", << >>), Check(<<Put("sess")>>),
    Call(wd_drv_alg_support, <<Put("sess")>>),
    Call(cipher_setup_memory_and_buffers, <<Put("sess")>>),
    Get("sched_key", <<Put("key"), Put("sess")>>)>>
wd_cipher_free_sess == <<Put("key"), PutIf("sched_key"), Put("sess")>>

wd_do_cipher_sync == do_sync
wd_do_cipher_async == do_async
wd_cipher_poll_ctx == poll_ctx

cipherV1 == up_v1(wd_cipher_init, wd_cipher_uninit)
cipherEnv == by_env(wd_cipher_init, wd_cipher_uninit)
cipherV2 == up_v2(wd_cipher_init2_, wd_cipher_uninit2)
cipherUse == sessions(wd_cipher_alloc_sess, wd_cipher_free_sess)
             \cup requests(wd_do_cipher_sync, wd_do_cipher_async, wd_cipher_poll_ctx)

-----------------------------------------------------------------------------
\* wd_digest.c

wd_digest_init ==
  init_v1(open_driver("v1"), close_driver("v1"), common_init, common_uninit)
wd_digest_uninit == uninit_v1(close_driver("v1"), common_uninit)
wd_digest_init2_ ==
  init_v2(open_driver("v2"), close_driver("v2"), common_init, common_uninit)
wd_digest_uninit2 == uninit_v2(close_driver("v2"), common_uninit)

digest_setup_memory_and_buffers == <<Call(wd_mem_ops_init, << >>), Get("key", << >>)>>
wd_digest_alloc_sess ==
  <<Check(<< >>), Get("sess", << >>), Check(<<Put("sess")>>),
    Call(wd_drv_alg_support, <<Put("sess")>>), Call(digest_setup_memory_and_buffers, <<Put("sess")>>),
    Get("sched_key", <<Put("key"), Put("sess")>>)>>
wd_digest_free_sess == <<Put("key"), PutIf("sched_key"), Put("sess")>>

digestV1 == up_v1(wd_digest_init, wd_digest_uninit)
digestV2 == up_v2(wd_digest_init2_, wd_digest_uninit2)
digestEnv == by_env(wd_digest_init, wd_digest_uninit)
digestUse == sessions(wd_digest_alloc_sess, wd_digest_free_sess)
             \cup requests(do_sync, do_async, poll_ctx)
-----------------------------------------------------------------------------
\* wd_aead.c

wd_aead_open_driver(init_type) == open_driver(init_type)
wd_aead_close_driver(init_type) == close_driver(init_type)
wd_aead_init_nolock == common_init
wd_aead_init ==
  init_v1(wd_aead_open_driver("v1"), wd_aead_close_driver("v1"), wd_aead_init_nolock, common_uninit)
wd_aead_uninit == uninit_v1(wd_aead_close_driver("v1"), common_uninit)
wd_aead_init2_ ==
  init_v2(wd_aead_open_driver("v2"), wd_aead_close_driver("v2"), wd_aead_init_nolock, common_uninit)
wd_aead_uninit2 == uninit_v2(wd_aead_close_driver("v2"), common_uninit)

check_and_init_sess == <<Check(<< >>), Get("sess", << >>),
                         Call(wd_drv_alg_support, <<Put("sess")>>)>>
aead_setup_memory_and_buffers ==
  <<Call(wd_mem_ops_init, << >>), Get("mac_bak", << >>), Get("iv", <<Put("mac_bak")>>),
    Get("ckey", <<Put("iv"), Put("mac_bak")>>),
    Get("akey", <<Put("ckey"), Put("iv"), Put("mac_bak")>>)>>
cleanup_session == <<Put("mac_bak"), Put("iv"), Put("ckey"), Put("akey"), Put("sess")>>

\* The session's own operations are asked for before they are copied, so a
\* driver that has them is refused.
wd_aead_sess_eops_init == <<Need("drv"), Check(<< >>)>>
wd_aead_sess_eops_uninit == <<PutIf("aiv")>>

wd_aead_alloc_sess ==
  <<Call(check_and_init_sess, << >>), Call(aead_setup_memory_and_buffers, <<Put("sess")>>),
    Call(wd_aead_sess_eops_init, cleanup_session),
    Get("sched_key", wd_aead_sess_eops_uninit \o cleanup_session)>>
wd_aead_free_sess == <<PutIf("sched_key")>> \o wd_aead_sess_eops_uninit \o cleanup_session

wd_do_aead_sync == do_sync
wd_do_aead_async == do_async
wd_aead_poll_ctx == poll_ctx

aeadV1 == up_v1(wd_aead_init, wd_aead_uninit)
aeadV2 == up_v2(wd_aead_init2_, wd_aead_uninit2)
aeadEnv == by_env(wd_aead_init, wd_aead_uninit)
aeadUse == sessions(wd_aead_alloc_sess, wd_aead_free_sess)
           \cup requests(wd_do_aead_sync, wd_do_aead_async, wd_aead_poll_ctx)
=============================================================================
