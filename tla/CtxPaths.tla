------------------------------ MODULE CtxPaths ------------------------------
(***************************************************************************)
(* Paths through wd.c: the devices the kernel shows, and the contexts, the *)
(* queues of a device, that are opened on them.                            *)
(*                                                                         *)
(* Facts: a handle that is not one of a device's queue ("foreign").  What  *)
(* the caller holds: "handle", "list", "dev", "mask", "caps".              *)
(***************************************************************************)
EXTENDS Paths

\* The attributes of a device, each a file: no path, no such file, nothing in it.
get_raw_attr == <<Check(<< >>), Check(<< >>), Get("attr fd", << >>), Check(<<Put("attr fd")>>),
                  Put("attr fd")>>
get_int_attr == <<Call(get_raw_attr, << >>), Check(<< >>)>>
get_str_attr == <<Call(get_raw_attr, << >>)>>
access_attr == <<Check(<< >>), Check(<< >>), Check(<< >>)>>
wd_is_isolate == <<Check(<< >>), May(<<Call(get_int_attr, << >>)>>, << >>)>>
get_dev_info ==
  <<May(<<Call(get_int_attr, << >>), Check(<< >>)>>, << >>), Call(get_int_attr, << >>),
    Call(get_int_attr, << >>), Call(get_int_attr, << >>), Call(get_int_attr, << >>),
    Call(get_str_attr, << >>), Call(get_str_attr, << >>)>>
read_uacce_sysfs(dev) ==
  LET out == <<Put(dev)>>
  IN <<Check(<< >>), Get(dev, << >>), Check(out), Check(out), Call(get_dev_info, out)>>

wd_get_avail_ctx == <<Check(<< >>), Call(get_int_attr, << >>)>>
wd_clone_dev(dev) == <<Get(dev, << >>)>>

-----------------------------------------------------------------------------
\* The devices with an algorithm, here one or two, as list l

get_dev_alg_name == <<Check(<< >>), Check(<< >>), Call(get_raw_attr, << >>)>>
dev_has_alg == <<Check(<< >>), Check(<< >>)>>
check_alg_name == <<Check(<< >>), Check(<< >>)>>
wd_free_list_accels(l) ==
  <<With(l \o " node 1", <<Put(l \o " dev 1"), Put(l \o " node 1")>>, << >>),
    With(l \o " node 2", <<Put(l \o " dev 2"), Put(l \o " node 2")>>, << >>)>>
\* A device that is not as it should be is passed over.
wd_get_accel_list(l) ==
  LET passed == <<Try(<<Call(access_attr, << >>), Call(get_dev_alg_name, << >>),
                        Call(dev_has_alg, << >>)>>)>>
      listed(i) == <<Get(l \o " node " \o i, << >>),
                     Try(<<Call(read_uacce_sysfs(l \o " dev " \o i), <<Put(l \o " node " \o i)>>)>>)>>
      free_list == <<Put("class dir")>> \o wd_free_list_accels(l)
  IN <<Call(check_alg_name, << >>), Get("class dir", << >>)>>
     \o passed \o <<May(listed("1"), free_list)>> \o passed \o <<May(listed("2"), free_list)>>
     \o <<Put("class dir")>>

wd_find_dev_by_numa == <<Check(<< >>), Try(wd_get_avail_ctx), Check(<< >>)>>
\* The nearest device with a free queue, in a copy of its own.
wd_get_accel_dev ==
  <<Check(<< >>), Call(wd_get_accel_list("own"), << >>), Try(wd_get_avail_ctx),
    May(wd_clone_dev("dev"), wd_free_list_accels("own"))>> \o wd_free_list_accels("own")

wd_create_device_nodemask == <<Check(<< >>), Get("mask", << >>)>>
wd_free_device_nodemask == <<PutIf("mask")>>

-----------------------------------------------------------------------------
\* Contexts

wd_get_accel_name(name) == <<Check(<< >>), Check(<< >>), Check(<< >>), Get(name, << >>)>>
wd_request_ctx ==
  LET close_fd == <<Put("ctx fd")>>
      free_ctx == <<Put("ctx")>> \o close_fd
      free_dev_name == <<Put("dev_name")>> \o free_ctx
      free_drv_name == <<Put("drv_name")>> \o free_dev_name
  IN <<Check(<< >>), Check(<< >>), Get("ctx fd", << >>), Get("ctx", close_fd),
       Call(wd_get_accel_name("dev_name"), free_ctx),
       Call(wd_get_accel_name("drv_name"), free_dev_name),
       Call(wd_clone_dev("ctx dev"), free_drv_name), Own("handle")>>
wd_check_ctx_type == <<With("foreign", <<Fail>>, << >>)>>
wd_release_ctx ==
  <<Call(wd_check_ctx_type, << >>), Put("ctx fd"), Put("ctx dev"), Put("drv_name"),
    Put("dev_name"), Put("ctx"), Put("handle")>>

wd_ctx_set_io_cmd == <<Check(<< >>), Need("ctx fd"), Check(<< >>)>>
wd_ctx_start == <<Check(<< >>), Call(wd_check_ctx_type, << >>), Call(wd_ctx_set_io_cmd, << >>)>>
wd_release_ctx_force == <<Check(<< >>), Call(wd_ctx_set_io_cmd, << >>)>>
\* A region the device does not have is neither mapped nor unmapped.
wd_ctx_mmap_qfr == <<Check(<< >>), Need("ctx fd"), Get("qfr", << >>)>>
wd_ctx_unmap_qfr == <<Put("qfr")>>
wd_ctx_wait == <<Check(<< >>), Need("ctx fd"), Check(<< >>)>>
wd_is_sva == <<Check(<< >>), Call(wd_check_ctx_type, << >>), Require("ctx dev", << >>)>>
wd_get_numa_id == <<Check(<< >>), Require("ctx dev", << >>)>>
wd_ctx_get_api == <<Check(<< >>), Require("ctx dev", << >>)>>

-----------------------------------------------------------------------------
\* What the drivers can do, and how busy a device is

wd_release_alg_cap == <<PutIf("cap 1"), PutIf("cap 2"), PutIf("caps")>>
wd_get_alg_cap == <<Get("cap 1", wd_release_alg_cap), Get("cap 2", wd_release_alg_cap),
                    Own("caps")>>

wd_parse_usage_value == <<Check(<< >>), Check(<< >>)>>
wd_zip_usage_parse_fn == <<Check(<< >>), Call(wd_parse_usage_value, << >>)>>
wd_parse_dev_usage == <<Check(<< >>), Check(<< >>), Call(wd_zip_usage_parse_fn, << >>)>>
wd_read_dev_usage == <<Call(access_attr, << >>), Call(get_str_attr, << >>),
                       Call(wd_parse_dev_usage, << >>)>>
\* A driver that keeps no count leaves it to the kernel's.
wd_get_dev_usage == <<Check(<< >>), Call(dev_has_alg, << >>), Check(<< >>),
                      Either(<<Check(<< >>)>>, <<Call(wd_read_dev_usage, << >>)>>, << >>)>>

wd_parse_log_level ==
  LET close_file == <<Put("syslog file")>>
  IN <<Get("syslog file", << >>), Check(close_file), Check(close_file),
       Get("file_contents", close_file), Put("file_contents"), Put("syslog file")>>
wd_need_debug == <<May(<<Try(wd_parse_log_level)>>, << >>)>>
wd_need_info == <<May(<<Try(wd_parse_log_level)>>, << >>)>>

devices ==
  {Entry("get_accel_list", {}, {"list"}, wd_get_accel_list("user") \o <<Own("list")>>),
   Entry("free_list_accels", {"list"}, {}, wd_free_list_accels("user") \o <<Put("list")>>),
   Entry("find_dev_by_numa", {"list"}, {}, wd_find_dev_by_numa),
   Entry("create_nodemask", {"list"}, {"mask"}, wd_create_device_nodemask),
   Entry("free_nodemask", {}, {}, wd_free_device_nodemask),
   Entry("get_accel_dev", {}, {"dev"}, wd_get_accel_dev),
   Entry("free dev", {"dev"}, {}, <<Put("dev")>>),
   Entry("is_isolate", {"dev"}, {}, wd_is_isolate),
   Entry("get_alg_cap", {}, {"caps"}, wd_get_alg_cap),
   Entry("release_alg_cap", {"caps"}, {}, wd_release_alg_cap),
   Entry("get_dev_usage", {"dev"}, {}, wd_get_dev_usage),
   Entry("need_debug", {}, {}, wd_need_debug), Entry("need_info", {}, {}, wd_need_info)}
contexts ==
  {Entry("request_ctx", {}, {"handle"}, wd_request_ctx),
   Entry("release_ctx", {"handle"}, {"qfr"}, wd_release_ctx),
   Entry("start", {"handle"}, {}, wd_ctx_start),
   Entry("release_force", {"handle"}, {}, wd_release_ctx_force),
   Entry("mmap_qfr", {"handle"}, {"qfr"}, wd_ctx_mmap_qfr),
   Entry("unmap_qfr", {"handle", "qfr"}, {}, wd_ctx_unmap_qfr),
   Entry("wait", {"handle"}, {}, wd_ctx_wait), Entry("is_sva", {"handle"}, {}, wd_is_sva),
   Entry("get_numa_id", {"handle"}, {}, wd_get_numa_id),
   Entry("get_api", {"handle"}, {}, wd_ctx_get_api)}
=============================================================================
