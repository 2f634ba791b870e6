----------------------------- MODULE HprePaths -----------------------------
(***************************************************************************)
(* Paths through the driver of the HPRE engine, hisi_hpre.c, for one       *)
(* request at a time.  Without SVA ("no sva") what a request names is      *)
(* mapped for the device, key, input and output; the maps made so far are  *)
(* in a cache on the stack while the request is sent.  Facts of an ECC     *)
(* request: it is an SM2 encryption or decryption ("sm2 enc", "sm2 dec")   *)
(* that the device does not do alone ("split").                            *)
(***************************************************************************)
EXTENDS QmPaths

check_hpre_mem_params == <<Check(<< >>)>>
crypto_bin_to_hpre_bin == <<Check(<< >>)>>
hpre_bin_to_crypto_bin == <<Check(<< >>)>>
select_addr_by_sva_mode(map) == <<With("no sva", <<Get(map, << >>)>>, << >>)>>
unsetup_hw_msg_addr(map) == <<With("no sva", <<PutIf(map)>>, << >>)>>

\* The two halves of an SM2 encryption have maps of their own.
unmap_addr_in_cache ==
  <<PutIf("key"), PutIf("in"), PutIf("out"), PutIf("1key"), PutIf("1in"), PutIf("1out"),
    PutIf("2key"), PutIf("2in"), PutIf("2out")>>
maps_left(q) == <<Lose(q \o "key"), Lose(q \o "in"), Lose(q \o "out")>>

hpre_init_qm_priv == qps_up
hpre_rsa_dh_init == <<Check(<< >>), Call(hpre_init_qm_priv, << >>)>>
hpre_ecc_init == <<Check(<< >>), Call(hpre_init_qm_priv, << >>)>>
hpre_exit == qps_down

\* A result of the device that is an error goes into the message.
hpre_tri_bin_transfer ==
  <<Call(hpre_bin_to_crypto_bin, << >>), May(hpre_bin_to_crypto_bin, << >>),
    May(hpre_bin_to_crypto_bin, << >>)>>
hpre_result_check == <<Check(<< >>)>>

\* An answer that cannot be told, or is another request's, is dropped with what
\* its request mapped.
answer(q) == <<Check(<< >>), Require("sent", << >>), Check(<<Put("sent")>> \o maps_left(q)),
               Check(<<Put("sent")>> \o maps_left(q))>>

-----------------------------------------------------------------------------
\* RSA

fill_rsa_crt_prikey2 ==
  <<Call(crypto_bin_to_hpre_bin, << >>), Call(crypto_bin_to_hpre_bin, << >>),
    Call(crypto_bin_to_hpre_bin, << >>), Call(crypto_bin_to_hpre_bin, << >>),
    Call(crypto_bin_to_hpre_bin, << >>)>>
fill_rsa_prikey1 == <<Call(crypto_bin_to_hpre_bin, << >>), Call(crypto_bin_to_hpre_bin, << >>)>>
fill_rsa_pubkey == <<Call(crypto_bin_to_hpre_bin, << >>), Call(crypto_bin_to_hpre_bin, << >>)>>
fill_rsa_genkey_in ==
  <<Call(crypto_bin_to_hpre_bin, << >>), Call(crypto_bin_to_hpre_bin, << >>),
    Call(crypto_bin_to_hpre_bin, << >>)>>

\* For a signature or its verification the value returned was never set: the
\* key may be mapped and the call fail all the same.
rsa_prepare_key ==
  LET sign == <<Either(fill_rsa_crt_prikey2, fill_rsa_prikey1, << >>)>>
      known == <<Either(sign, fill_rsa_pubkey, << >>),
                 Call(select_addr_by_sva_mode("key"), << >>), Check(<< >>)>>
      genkey == <<Call(fill_rsa_genkey_in, << >>), Check(<< >>),
                  Call(select_addr_by_sva_mode("key"), << >>)>>
  IN <<Either(known, genkey, << >>)>>

rsa_prepare_iot ==
  <<Either(<<Call(select_addr_by_sva_mode("in"), << >>),
             Call(select_addr_by_sva_mode("out"), << >>)>>,
           <<Check(<< >>), Call(select_addr_by_sva_mode("out"), << >>)>>, << >>)>>

rsa_send ==
  LET rsa_fail == unmap_addr_in_cache IN
  <<Call(check_hpre_mem_params, << >>), Check(<< >>), Call(rsa_prepare_key, rsa_fail),
    Call(rsa_prepare_iot, rsa_fail), Check(rsa_fail), Own("sent")>>

rsa_out_transfer == <<Check(<< >>), May(hpre_tri_bin_transfer, << >>)>>
rsa_recv ==
  answer("") \o <<Try(hpre_result_check \o rsa_out_transfer)>>
  \o unsetup_hw_msg_addr("in") \o unsetup_hw_msg_addr("out") \o unsetup_hw_msg_addr("key")
  \o <<Put("sent")>>

-----------------------------------------------------------------------------
\* DH

fill_dh_xp_params ==
  <<Call(crypto_bin_to_hpre_bin, << >>), Call(crypto_bin_to_hpre_bin, << >>),
    Call(select_addr_by_sva_mode("key"), << >>)>>
\* The first phase with generator 2 has no input.
dh_send ==
  LET dh_fail == unmap_addr_in_cache IN
  <<Call(check_hpre_mem_params, << >>),
    May(<<Call(crypto_bin_to_hpre_bin, << >>), Call(select_addr_by_sva_mode("in"), << >>)>>, << >>),
    Call(fill_dh_xp_params, dh_fail), Call(select_addr_by_sva_mode("out"), dh_fail),
    Check(dh_fail), Own("sent")>>

dh_out_transfer == <<Check(<< >>), Call(hpre_bin_to_crypto_bin, << >>)>>
dh_recv ==
  answer("") \o <<Try(hpre_result_check \o dh_out_transfer)>>
  \o unsetup_hw_msg_addr("out") \o unsetup_hw_msg_addr("key") \o unsetup_hw_msg_addr("in")
  \o <<Put("sent")>>

-----------------------------------------------------------------------------
\* ECC.  A request r is the caller's ("") or a half of an encryption ("1", "2").

ecc_prepare_alg == <<Check(<< >>)>>
trans_cv_param_to_hpre_bin ==
  <<Call(crypto_bin_to_hpre_bin, << >>), Call(crypto_bin_to_hpre_bin, << >>),
    Call(crypto_bin_to_hpre_bin, << >>), Call(crypto_bin_to_hpre_bin, << >>),
    Call(crypto_bin_to_hpre_bin, << >>), Call(crypto_bin_to_hpre_bin, << >>)>>
trans_d_to_hpre_bin == crypto_bin_to_hpre_bin
trans_pub_to_hpre_bin == <<Call(crypto_bin_to_hpre_bin, << >>), Call(crypto_bin_to_hpre_bin, << >>)>>
big_than_one == <<Check(<< >>)>>
ecc_prepare_prikey ==
  <<Call(trans_cv_param_to_hpre_bin, << >>), Call(trans_d_to_hpre_bin, << >>),
    Call(big_than_one, << >>)>>
ecc_prepare_pubkey ==
  <<Call(trans_cv_param_to_hpre_bin, << >>), Call(trans_pub_to_hpre_bin, << >>)>>
ecc_prepare_key(r) ==
  <<Either(ecc_prepare_prikey, ecc_prepare_pubkey, << >>),
    Call(select_addr_by_sva_mode(r \o "key"), << >>)>>

is_all_zero == <<Check(<< >>)>>
ecc_prepare_sign_in ==
  <<Check(<< >>), Call(is_all_zero, << >>), Call(is_all_zero, << >>),
    Call(crypto_bin_to_hpre_bin, << >>), Call(crypto_bin_to_hpre_bin, << >>)>>
ecc_prepare_verf_in ==
  <<Check(<< >>), Call(is_all_zero, << >>), Call(crypto_bin_to_hpre_bin, << >>),
    Call(crypto_bin_to_hpre_bin, << >>), Call(crypto_bin_to_hpre_bin, << >>)>>
sm2_prepare_enc_in == <<May(crypto_bin_to_hpre_bin, << >>)>>
sm2_prepare_dec_in == <<Call(crypto_bin_to_hpre_bin, << >>), Call(crypto_bin_to_hpre_bin, << >>)>>
ecc_prepare_dh_gen_in == <<Call(crypto_bin_to_hpre_bin, << >>), Call(crypto_bin_to_hpre_bin, << >>)>>
ecc_prepare_dh_compute_in ==
  <<Call(crypto_bin_to_hpre_bin, << >>), Call(crypto_bin_to_hpre_bin, << >>)>>
u_is_in_p == <<Check(<< >>), Check(<< >>), Call(is_all_zero, << >>)>>

\* Which input is prepared goes by the operation; one that is not known fails.
ecc_prepare_in ==
  LET compute == <<Call(ecc_prepare_dh_compute_in, << >>), May(u_is_in_p, << >>)>>
      exchange == <<Either(ecc_prepare_dh_gen_in, compute, << >>)>>
      signature == <<Either(ecc_prepare_sign_in, ecc_prepare_verf_in, << >>)>>
      sm2 == <<Either(sm2_prepare_enc_in, sm2_prepare_dec_in, << >>)>>
  IN <<Check(<< >>), Either(exchange, <<Either(signature, sm2, << >>)>>, << >>)>>

ecc_prepare_dh_out == <<Check(<< >>)>>
ecc_prepare_out == <<May(ecc_prepare_dh_out, << >>)>>

\* A verification has no output.
ecc_prepare_iot(r) ==
  <<Call(ecc_prepare_in, << >>), Call(select_addr_by_sva_mode(r \o "in"), << >>),
    Call(ecc_prepare_out, << >>), May(select_addr_by_sva_mode(r \o "out"), << >>)>>

get_hw_keysz == <<Check(<< >>)>>
ecc_fill(r) ==
  <<Check(<< >>), Call(get_hw_keysz, << >>), Call(ecc_prepare_alg, << >>),
    Call(ecc_prepare_key(r), << >>), Call(ecc_prepare_iot(r), << >>)>>
ecc_general_send(r) == <<Call(ecc_fill(r), << >>), Check(<< >>)>>

set_param == <<Check(<< >>), Check(<< >>)>>
set_prikey ==
  <<Call(set_param, << >>), Call(set_param, << >>), Call(set_param, << >>),
    Call(set_param, << >>), Call(set_param, << >>), Call(set_param, << >>),
    Call(set_param, << >>)>>
create_ecdh_out(r) == <<Call(get_hw_keysz, << >>), Get(r \o "dst", << >>)>>
init_req(r) == <<Call(create_ecdh_out(r), << >>)>>
create_req(r) ==
  LET fail_alloc_key == <<Put(r \o "req")>>
      fail_alloc_key_data == <<Put(r \o "ecc_key")>> \o fail_alloc_key
      fail_set_prikey == <<Put(r \o "prikey")>> \o fail_alloc_key_data
  IN <<Get(r \o "req", << >>), Get(r \o "ecc_key", fail_alloc_key),
       Get(r \o "prikey", fail_alloc_key_data), Call(set_prikey, fail_set_prikey),
       Call(init_req(r), fail_set_prikey)>>
free_req(r) == <<Put(r \o "prikey"), Put(r \o "ecc_key"), Put(r \o "dst"), Put(r \o "req")>>
req_left(r) == <<Lose(r \o "prikey"), Lose(r \o "ecc_key"), Lose(r \o "dst"), Lose(r \o "req")>>
split_req == <<Call(create_req("1"), << >>), Call(create_req("2"), free_req("1"))>>

\* Both halves go to the queue together or not at all.
sm2_enc_send ==
  LET fail_fill_sqe == free_req("1") \o free_req("2") IN
  <<Cond("split",
      <<Check(<< >>), Call(split_req, << >>), Call(ecc_fill("1"), fail_fill_sqe),
        Call(ecc_fill("2"), fail_fill_sqe), Check(fail_fill_sqe), Check(fail_fill_sqe)>>,
      ecc_general_send(""), << >>)>>

sm2_dec_send ==
  LET free_dst == <<Put("1req")>>
      free_req_dst == <<Put("1dst")>> \o free_dst
  IN <<Cond("split",
         <<Check(<< >>), Get("1req", << >>), Call(create_ecdh_out("1"), free_dst),
           Call(ecc_general_send("1"), free_req_dst)>>,
         ecc_general_send(""), << >>)>>

ecc_send ==
  LET ecc_fail == unmap_addr_in_cache IN
  <<Call(check_hpre_mem_params, << >>),
    Cond("sm2 enc", sm2_enc_send,
         <<Cond("sm2 dec", sm2_dec_send, ecc_general_send(""), << >>)>>, ecc_fail),
    Own("sent")>>

ecdh_out_transfer == <<May(hpre_tri_bin_transfer, << >>)>>
ecc_sign_out_transfer == <<Check(<< >>), Call(hpre_tri_bin_transfer, << >>)>>
sm2_kg_out_transfer == <<Check(<< >>), Call(hpre_tri_bin_transfer, << >>)>>
sm2_enc_out_transfer == <<Check(<< >>), Call(hpre_tri_bin_transfer, << >>)>>
\* An answer of an algorithm that is not known fails.
ecc_out_transfer ==
  <<Check(<< >>),
    Either(<<Either(ecdh_out_transfer, ecc_sign_out_transfer, << >>)>>,
           <<Either(sm2_kg_out_transfer, sm2_enc_out_transfer, << >>)>>, << >>)>>

\* Only a failure unmaps: after a success the maps stay.
ecc_sqe_parse(r) ==
  LET dump_err_msg == unsetup_hw_msg_addr(r \o "out") \o unsetup_hw_msg_addr(r \o "key")
                      \o unsetup_hw_msg_addr(r \o "in")
  IN <<Call(hpre_result_check, dump_err_msg), Call(ecc_out_transfer, dump_err_msg)>>
     \o maps_left(r)

get_hash_bytes == <<Check(<< >>)>>
sm2_kdf == <<Call(get_hash_bytes, << >>), Get("kdf in", << >>), Check(<<Put("kdf in")>>),
             Put("kdf in")>>
sm2_hash == <<Call(get_hash_bytes, << >>), Get("hash in", << >>), Check(<<Put("hash in")>>),
              Put("hash in")>>
is_equal == <<Check(<< >>)>>
sm2_convert_enc_out == <<Call(sm2_hash, << >>), Call(sm2_kdf, << >>)>>
sm2_convert_dec_out == <<Call(sm2_kdf, << >>), Call(sm2_hash, << >>), Call(is_equal, << >>)>>

\* The answer to the second half is waited for, up to a bound.  What the second
\* half holds stays when it does not come or is an error.
parse_second_sqe ==
  LET second_left == maps_left("2") \o req_left("2") IN
  <<Check(second_left), Check(second_left), Call(ecc_sqe_parse("2"), req_left("2"))>>

\* When the first half is an error the second is still to come.
sm2_enc_parse ==
  LET second_left == maps_left("2") \o req_left("2")
      free_first == free_req("1")
      free_second == free_req("2") \o free_first
  IN <<Call(ecc_sqe_parse("1"), free_first \o second_left), Call(parse_second_sqe, free_first),
       Call(sm2_convert_enc_out, free_second)>> \o free_second
sm2_dec_parse ==
  LET fail == <<Put("1dst"), Put("1req")>> IN
  <<Call(ecc_sqe_parse("1"), fail), Call(sm2_convert_dec_out, fail)>> \o fail

\* A dropped answer of a request in halves keeps the halves.
ecc_recv ==
  LET dropped == <<Put("sent")>> \o maps_left("") \o maps_left("1") \o maps_left("2")
                 \o req_left("1") \o req_left("2")
      plain == ecc_sqe_parse("")
  IN <<Check(<< >>), Require("sent", << >>), Check(dropped), Check(dropped), Put("sent"),
       Cond("split", <<Cond("sm2 enc", sm2_enc_parse,
                            <<Cond("sm2 dec", sm2_dec_parse, plain, << >>)>>, << >>)>>,
            plain, << >>)>>

hpre_find_dev_qp == <<Require("up", << >>), Check(<< >>), Require("q1", << >>)>>
hpre_ecc_get_usage == <<Check(<< >>), Call(hpre_find_dev_qp, << >>), Call(hisi_qm_get_usage, << >>)>>
hpre_rsa_get_usage == <<Check(<< >>), Call(hpre_find_dev_qp, << >>), Call(hisi_qm_get_usage, << >>)>>
hisi_hpre_probe == probe_all
hisi_hpre_remove == remove_all

hpreRsa == driver(hpre_rsa_dh_init, hpre_exit, rsa_send, rsa_recv, hpre_rsa_get_usage,
                  hisi_hpre_probe, hisi_hpre_remove)
hpreDh == driver(hpre_rsa_dh_init, hpre_exit, dh_send, dh_recv, hpre_rsa_get_usage,
                 hisi_hpre_probe, hisi_hpre_remove)
hpreEcc == driver(hpre_ecc_init, hpre_exit, ecc_send, ecc_recv, hpre_ecc_get_usage,
                  hisi_hpre_probe, hisi_hpre_remove)
=============================================================================
