---------------------------- MODULE SecDrvPaths ----------------------------
(***************************************************************************)
(* Paths through the driver of the SEC engine, hisi_sec.c, for one request *)
(* at a time, in the two formats of its descriptors ("v2": the device is   *)
(* of the first version).  Without SVA ("no sva") what a request names is  *)
(* mapped for it; a scattered request ("sgl") has its lists copied to lists *)
(* of the device.  "stream" is a part of a GCM stream, "async1" a queue in *)
(* the asynchronous mode.                                                  *)
(***************************************************************************)
EXTENDS QmPaths

Map(m, u) == With("no sva", <<Get(m, u)>>, << >>)
MayMap(m, u) == May(<<Map(m, << >>)>>, u)
Unmap(maps) == <<With("no sva", [i \in DOMAIN maps |-> PutIf(maps[i])], << >>)>>
Left(s) == [i \in DOMAIN s |-> Lose(s[i])]

\* Lists of the device.  A digest has only its input in one.
\* Without their pool they are not given back.
hisi_sec_put_sgl(type) ==
  LET lists == IF type = "digest" THEN <<"sgl in">> ELSE <<"sgl in", "sgl out">>
  IN <<Try(<<Call(hisi_qm_get_sglpool("q1"), Left(lists))>>
           \o [i \in DOMAIN lists |-> Put(lists[i])])>>
hisi_sec_fill_sgl(type) ==
  <<Call(hisi_qm_get_hw_sgl("sgl in"), << >>)>>
  \o (IF type = "digest" THEN << >>
      ELSE <<Call(hisi_qm_get_hw_sgl("sgl out"), hisi_qm_put_hw_sgl("sgl in"))>>)
hisi_sec_fill_sgl_v3(type) == hisi_sec_fill_sgl(type)
scattered(code) == With("sgl", <<Call(hisi_qm_get_sglpool("q1"), << >>)>> \o code, << >>)
put_scattered(type) == <<With("sgl", hisi_sec_put_sgl(type), << >>)>>

\* No answer; or another request's, which the synchronous mode (hisi_check_bd_id)
\* drops with what its request holds.
all == <<"in", "out", "iv", "key", "akey", "ckey", "mac", "aiv slot", "sgl in", "sgl out">>
next_answer == <<Check(<< >>), Require("sent", << >>),
                 Unless("async1", <<Check(Left(all) \o <<Put("sent")>>)>>, << >>)>>

-----------------------------------------------------------------------------
\* Ciphers

get_3des_c_key_len == <<Check(<< >>)>>
get_aes_c_key_len == <<Check(<< >>)>>
aes_len_check == <<Check(<< >>)>>
\* Too long; too short for XTS; not of whole DES blocks; or of no two AES blocks.
cipher_len_check == <<Check(<< >>), Leave, Check(<< >>), Leave, May(aes_len_check, << >>)>>
fill_cipher_bd2_alg ==
  <<Check(<< >>), May(<<Either(get_aes_c_key_len, get_3des_c_key_len, << >>)>>, << >>)>>
fill_cipher_bd2_mode == <<Check(<< >>)>>
fill_cipher_bd2 ==
  <<Call(cipher_len_check, << >>), Call(fill_cipher_bd2_alg, << >>),
    Call(fill_cipher_bd2_mode, << >>)>>
fill_cipher_bd3_alg == fill_cipher_bd2_alg
fill_cipher_bd3_mode == <<Check(<< >>)>>
fill_cipher_bd3 ==
  <<Call(cipher_len_check, << >>), Call(fill_cipher_bd3_alg, << >>),
    Call(fill_cipher_bd3_mode, << >>)>>

destroy_cipher_bd2_addr == Unmap(<<"in", "out", "key", "iv">>)
destroy_cipher_bd3_addr == destroy_cipher_bd2_addr
cipher_maps(destroy) ==
  <<With("no sva", <<Check(<< >>)>>, << >>), Map("in", << >>), Map("out", destroy),
    MayMap("iv", destroy), MayMap("key", destroy)>>
fill_cipher_bd2_addr == cipher_maps(destroy_cipher_bd2_addr)
fill_cipher_bd3_addr == cipher_maps(destroy_cipher_bd3_addr)

\* A request that cannot be mapped leaves its lists with the message.
unmapped == <<Lose("sgl in"), Lose("sgl out")>>
hisi_sec_cipher_send ==
  <<Check(<< >>), Call(fill_cipher_bd2, << >>), scattered(hisi_sec_fill_sgl("cipher")),
    Call(fill_cipher_bd2_addr, unmapped),
    Check(put_scattered("cipher") \o destroy_cipher_bd2_addr), Own("sent")>>
hisi_sec_cipher_send_v3 ==
  <<Check(<< >>), Call(fill_cipher_bd3, << >>), scattered(hisi_sec_fill_sgl_v3("cipher")),
    Call(fill_cipher_bd3_addr, unmapped),
    Check(put_scattered("cipher") \o destroy_cipher_bd3_addr), Own("sent")>>

\* The asynchronous mode finds the request by the answer's tag; one that is not
\* found keeps its maps, and its lists are not the ones given back.
parse_cipher_bd2 ==
  <<With("async1", <<Either(<< >>, Left(all), << >>)>>, << >>)>> \o destroy_cipher_bd2_addr
parse_cipher_bd3 ==
  <<With("async1", <<Either(<< >>, Left(all), << >>)>>, << >>)>> \o destroy_cipher_bd3_addr
hisi_sec_cipher_recv ==
  next_answer \o parse_cipher_bd2 \o <<With("sgl in", put_scattered("cipher"), << >>), Put("sent")>>
hisi_sec_cipher_recv_v3 ==
  next_answer \o parse_cipher_bd3 \o <<With("sgl in", put_scattered("cipher"), << >>), Put("sent")>>

cipher_send == <<Cond("v2", hisi_sec_cipher_send, hisi_sec_cipher_send_v3, << >>)>>
cipher_recv == <<Cond("v2", hisi_sec_cipher_recv, hisi_sec_cipher_recv_v3, << >>)>>

-----------------------------------------------------------------------------
\* Digests

digest_long_bd_align_check == <<Check(<< >>)>>
digest_bd2_type_check == <<Check(<< >>), Check(<< >>)>>
digest_bd3_type_check == <<Check(<< >>), Check(<< >>)>>
digest_len_check(type_check) ==
  <<Either(type_check, <<Check(<< >>)>>, << >>), Check(<< >>),
    May(digest_long_bd_align_check, << >>)>>
fill_digest_bd2_alg == <<Check(<< >>), May(<<Check(<< >>)>>, << >>), Check(<< >>)>>
hmac_key_len_check == <<Check(<< >>)>>
fill_digest_bd3_alg == <<Check(<< >>), May(hmac_key_len_check, << >>), Check(<< >>)>>
long_hash_param_check == <<With("async1", <<Check(<< >>)>>, << >>),
                           With("sgl", <<Check(<< >>)>>, << >>)>>
aes_auth_long_hash_check == <<Check(<< >>)>>
fill_digest_long_hash == <<Call(long_hash_param_check, << >>)>>
fill_digest_long_hash3 ==
  <<Call(long_hash_param_check, << >>), Call(aes_auth_long_hash_check, << >>)>>

destroy_digest_bd2_addr == Unmap(<<"in", "out", "key">>)
fill_digest_bd2_addr ==
  <<With("no sva", <<Check(<< >>)>>, << >>), MayMap("in", << >>), Map("out", destroy_digest_bd2_addr),
    MayMap("key", destroy_digest_bd2_addr)>>
destroy_digest_bd3_addr == Unmap(<<"in", "out", "key", "iv">>)
fill_digest_bd3_addr ==
  <<With("no sva", <<Check(<< >>)>>, << >>), MayMap("in", << >>), Map("out", destroy_digest_bd3_addr),
    MayMap("iv", destroy_digest_bd3_addr), MayMap("key", destroy_digest_bd3_addr)>>

hisi_sec_digest_send ==
  LET put_sgl == put_scattered("digest")
      destroy_addr == destroy_digest_bd2_addr \o put_sgl
  IN <<Check(<< >>), Call(digest_len_check(digest_bd2_type_check), << >>),
       scattered(hisi_sec_fill_sgl("digest")), Call(fill_digest_bd2_addr, put_sgl),
       Call(fill_digest_bd2_alg, destroy_addr), Call(fill_digest_long_hash, destroy_addr),
       Check(destroy_addr), Own("sent")>>
hisi_sec_digest_send_v3 ==
  LET put_sgl == put_scattered("digest")
      destroy_addr == destroy_digest_bd3_addr \o put_sgl
  IN <<Check(<< >>), Call(digest_len_check(digest_bd3_type_check), << >>),
       scattered(hisi_sec_fill_sgl_v3("digest")), Call(fill_digest_bd3_addr, put_sgl),
       Call(fill_digest_bd3_alg, destroy_addr), Call(fill_digest_long_hash3, destroy_addr),
       Check(destroy_addr), Own("sent")>>

\* In the asynchronous mode the request is a pointer that was never set: it is
\* this request or anything else.
some_request == With("async1", <<Either(<< >>, Left(all), << >>)>>, << >>)
parse_digest_bd2 == <<some_request>> \o destroy_digest_bd2_addr
parse_digest_bd3 == <<some_request>> \o destroy_digest_bd3_addr
hisi_sec_digest_recv ==
  next_answer \o parse_digest_bd2 \o <<With("sgl in", put_scattered("digest"), << >>), Put("sent")>>
hisi_sec_digest_recv_v3 ==
  next_answer \o parse_digest_bd3 \o <<With("sgl in", put_scattered("digest"), << >>), Put("sent")>>

digest_send == <<Cond("v2", hisi_sec_digest_send, hisi_sec_digest_send_v3, << >>)>>
digest_recv == <<Cond("v2", hisi_sec_digest_recv, hisi_sec_digest_recv_v3, << >>)>>

-----------------------------------------------------------------------------
\* AEAD.  A session has room for the vectors of a queue's depth of requests and
\* a status for each; a request takes the first that is free (here: one).

eops_param_check == <<Check(<< >>), Check(<< >>)>>
aead_sess_eops_init ==
  LET aiv_err == <<Put("aiv_addr")>>
      aiv_nosva_err == <<Put("aiv")>> \o aiv_err
      aiv_status_err == Unmap(<<"aiv map">>) \o aiv_nosva_err
  IN <<Call(eops_param_check, << >>), Check(<< >>), Check(<< >>), Get("aiv_addr", << >>),
       Need("q1"), Get("aiv", aiv_err), Map("aiv map", aiv_nosva_err),
       Get("aiv_status", aiv_status_err)>>
\* Nothing is released for a session without a driver or its memory's functions,
\* which the caller that was given the vectors has.
aead_sess_eops_uninit ==
  <<Need("aiv_addr"), Need("q1")>> \o Unmap(<<"aiv map">>) \o <<Put("aiv"), Put("aiv_status"), Put("aiv_addr")>>
sec_aead_get_extend_ops == <<Check(<< >>)>>

aead_get_aiv_addr == <<Need("aiv_status"), Get("aiv slot", << >>)>>
aead_free_aiv_addr == <<Put("aiv slot")>>

aead_get_aes_key_len == <<Check(<< >>)>>
aead_auth_spec_check == <<Check(<< >>), Check(<< >>)>>
fill_aead_bd2_alg ==
  <<Check(<< >>), Call(aead_get_aes_key_len, << >>), Leave, Call(aead_auth_spec_check, << >>),
    Check(<< >>)>>
fill_aead_bd2_mode == <<Check(<< >>), With("stream", <<Check(<< >>)>>, << >>)>>
fill_aead_bd2 ==
  <<Check(<< >>), Call(fill_aead_bd2_alg, << >>), Call(fill_aead_bd2_mode, << >>)>>
fill_aead_bd3_alg ==
  <<Check(<< >>), May(aead_get_aes_key_len, << >>), Leave, Call(aead_auth_spec_check, << >>),
    Check(<< >>)>>
fill_aead_bd3_mode == <<Check(<< >>), With("stream", <<Check(<< >>)>>, << >>)>>
fill_aead_bd3 ==
  <<Check(<< >>), Call(fill_aead_bd3_alg, << >>), Call(fill_aead_bd3_mode, << >>)>>
\* A part of a stream that is no whole block; nothing to encrypt, on the older
\* device; too long; nothing at all; too much to authenticate.
aead_len_check ==
  <<With("stream", <<Check(<< >>)>>, << >>),
    Unless("stream", <<With("v2", <<Check(<< >>)>>, << >>)>>, << >>),
    Check(<< >>), Check(<< >>), Check(<< >>)>>
\* No stream in lists, and only GCM has streams.
aead_msg_state_check == <<Check(<< >>), With("stream", <<With("sgl", <<Fail>>, << >>)>>, << >>)>>
\* The last part of a stream is computed here, and its tag may be wrong.
gcm_do_soft_mac == <<Check(<< >>)>>
fill_stream_bd2 == <<With("stream", <<May(gcm_do_soft_mac, << >>)>>, << >>)>>
fill_stream_bd3 == <<With("stream", <<May(gcm_do_soft_mac, << >>)>>, << >>)>>

aead_maps == <<"in", "out", "iv", "akey", "ckey", "mac">>
destroy_aead_bd2_addr == aead_free_aiv_addr \o Unmap(aead_maps)
destroy_aead_bd3_addr == aead_free_aiv_addr \o Unmap(aead_maps)
\* If the input cannot be mapped the vector is left behind.  In a stream the map of
\* the cipher's key takes the place of the other key's, which is left behind: the
\* older format does so for all parts but the last.
nosva_maps(ckey, destroy) ==
  <<Map("in", <<Lose("aiv slot")>>), Map("out", destroy), MayMap("iv", destroy),
    MayMap("akey", destroy), May(<<Map("ckey", << >>)>> \o ckey, destroy),
    MayMap("mac", destroy)>>
aead_mem_nosva_map ==
  nosva_maps(<<With("stream", <<Either(<<Lose("akey")>>, << >>, << >>)>>, << >>)>>,
             destroy_aead_bd2_addr)
aead_mem_nosva_map_v3 ==
  nosva_maps(<<With("stream", <<Lose("akey")>>, << >>)>>, destroy_aead_bd3_addr)
fill_aead_bd2_addr ==
  <<Call(aead_get_aiv_addr, << >>), With("no sva", <<Check(aead_free_aiv_addr)>>, << >>),
    Call(aead_mem_nosva_map, << >>)>>
fill_aead_bd3_addr ==
  <<Call(aead_get_aiv_addr, << >>), With("no sva", <<Check(aead_free_aiv_addr)>>, << >>),
    Call(aead_mem_nosva_map_v3, << >>)>>

hisi_sec_aead_send ==
  LET put_sgl == put_scattered("aead")
      destroy_addr == destroy_aead_bd2_addr \o put_sgl
  IN <<Check(<< >>), Call(aead_msg_state_check, << >>), Call(aead_len_check, << >>),
       Call(fill_aead_bd2, << >>), scattered(hisi_sec_fill_sgl("aead")),
       Call(fill_aead_bd2_addr, put_sgl), Call(fill_stream_bd2, destroy_addr),
       Check(destroy_addr), Own("sent")>>
hisi_sec_aead_send_v3 ==
  LET put_sgl == put_scattered("aead")
      destroy_addr == destroy_aead_bd3_addr \o put_sgl
  IN <<Check(<< >>), Call(aead_msg_state_check, << >>), Call(aead_len_check, << >>),
       Call(fill_aead_bd3, << >>), scattered(hisi_sec_fill_sgl_v3("aead")),
       Call(fill_aead_bd3_addr, put_sgl), Call(fill_stream_bd3, destroy_addr),
       Check(destroy_addr), Own("sent")>>

parse_aead_bd2 == <<some_request, With("aiv slot", destroy_aead_bd2_addr, << >>)>>
parse_aead_bd3 == <<some_request, With("aiv slot", destroy_aead_bd3_addr, << >>)>>
hisi_sec_aead_recv ==
  next_answer \o parse_aead_bd2 \o <<With("sgl in", put_scattered("aead"), << >>), Put("sent")>>
hisi_sec_aead_recv_v3 ==
  next_answer \o parse_aead_bd3 \o <<With("sgl in", put_scattered("aead"), << >>), Put("sent")>>

aead_send == <<Cond("v2", hisi_sec_aead_send, hisi_sec_aead_send_v3, << >>)>>
aead_recv == <<Cond("v2", hisi_sec_aead_recv, hisi_sec_aead_recv_v3, << >>)>>

-----------------------------------------------------------------------------
\* The driver

\* A queue pair that cannot be made takes the driver's part with it, which the
\* caller frees once more.
hisi_sec_init ==
  LET out == <<Put("driver priv")>>
  IN <<Check(<< >>), With("hw1", hisi_qm_alloc_qp("q1"), out),
       With("hw2", hisi_qm_alloc_qp("q2"), hisi_qm_free_qp("q1") \o out)>>
hisi_sec_exit == <<With("driver priv", qps_down, << >>)>>
hisi_sec_get_usage == qp_usage
hisi_sec2_probe == probe_all
hisi_sec2_remove == remove_all

sec(send, recv) == driver(hisi_sec_init, hisi_sec_exit, send, recv, hisi_sec_get_usage,
                          hisi_sec2_probe, hisi_sec2_remove)
secCipher == sec(cipher_send, cipher_recv)
secDigest == sec(digest_send, digest_recv)
secAead ==
  {e \in sec(aead_send, aead_recv) : e.name # "send"}
  \cup {Entry("send", {"up", "q1", "aiv_addr"}, {"sent"}, aead_send),
        Entry("eops_aiv_init", {"up", "q1"}, {"aiv_addr"},
              <<Call(sec_aead_get_extend_ops, << >>), Call(aead_sess_eops_init, << >>)>>),
        Entry("eops_aiv_uninit", {"up", "q1", "aiv_addr"}, {"sent"}, aead_sess_eops_uninit)}
=============================================================================
