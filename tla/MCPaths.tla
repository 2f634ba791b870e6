------------------------------ MODULE MCPaths ------------------------------
(***************************************************************************)
(* The families of functions whose paths are explored, each with what it   *)
(* may find: the shape of the configuration, the build of the device, the  *)
(* kind of request.                                                        *)
(***************************************************************************)
EXTENDS SecPaths, CompPaths, PkPaths, HprePaths, DaePaths, SecDrvPaths,
        SchedPaths, CtxPaths, PathRuns, TLC

J == INSTANCE JoinPaths

\* "hw1", "hw2": context 1, 2 is a queue of a device; "async1": it is asynchronous;
\* "bound": the driver is in the registry; "info": WD_<ALG>_CTX_NUM is set; "v2": an
\* older device; "no sva": the device does not share the address space; "eops1":
\* the context has its driver's extended operations, which no code here sets;
\* "simple", "dev", "every prop": the scheduler's policy is NONE or SINGLE, DEV, or
\* LOOP or HUNGRY.
Facts == {"bound", "hw1", "hw2", "async1", "async2", "info", "no sva", "sgl", "lz77",
          "stream", "v2", "crt", "split", "sm2 enc", "sm2 dec", "eops1", "single",
          "join", "gather", "simple", "dev", "every prop"}

Fronts == "cipher" :> (cipherV2 \cup cipherUse)
          @@ "digest" :> (digestV1 \cup digestV2 \cup digestUse)
          @@ "aead" :> (aeadV1 \cup aeadV2 \cup aeadUse)
          @@ "comp" :> (compUp \cup compUse) @@ "zlib" :> zlib
          @@ "rsa" :> rsa @@ "dh" :> dh @@ "ecc" :> ecc @@ "udma" :> udma
FrontStarts == {{"bound", "hw1", "hw2", "async1", "async2", "info"},
                {"bound", "hw1", "async2"}, {"bound", "hw2", "async1", "info"}}

\* By environment variables, and cipher with contexts of the caller.
Envs == "digest env" :> digestEnv @@ "aead env" :> aeadEnv @@ "comp env" :> compEnv
        @@ "rsa env" :> rsaEnv @@ "dh env" :> dhEnv @@ "ecc env" :> eccEnv
        @@ "cipher v1" :> cipherV1 @@ "cipher env" :> cipherEnv
EnvStarts == {{"bound", "hw1", "async2"}}

Tables == "agg" :> agg @@ "join gather" :> J!joinGather
TableStarts == {{"bound", "hw1", "hw2", "async1", "async2"} \cup s :
                  s \in {{}, {"eops1", "join"}, {"eops1", "gather"},
                         {"eops1", "join", "gather"}}}

Drivers == "zip" :> zip @@ "hpre rsa" :> hpreRsa @@ "hpre dh" :> hpreDh
           @@ "hpre ecc" :> hpreEcc
DriverStarts == {{"hw1"} \cup s : s \in SUBSET {"hw2", "no sva", "sgl", "lz77"}}
                \cup {{"hw1", "stream"} \cup s : s \in SUBSET {"no sva", "lz77"}}
                \cup {{"hw1", "split"} \cup s : s \in SUBSET {"no sva", "sm2 enc"}}
                \cup {{"hw1", "split", "sm2 dec"}, {"hw1", "no sva", "split", "sm2 dec"}}

SecDrivers == "sec cipher" :> secCipher @@ "sec digest" :> secDigest
              @@ "sec aead" :> secAead
SecStarts == {{"hw1"} \cup s : s \in SUBSET {"v2", "no sva", "sgl", "stream", "async1"}}

TableDrivers == "hashagg" :> hashagg @@ "udma driver" :> udmaDriver
                @@ "join driver" :> J!joinDriver
TableDriverStarts == {{"hw1"} \cup s : s \in SUBSET {"hw2", "single"}}
                     \cup {{"hw1", "join"}, {"hw1", "hw2", "gather"},
                           {"hw1", "join", "gather"}}

Scheds == "sched" :> sched
SchedStarts == {{}, {"simple"}, {"dev"}, {"every prop"}}

Kernel == "devices" :> devices @@ "contexts" :> contexts
KernelStarts == {{}}

MCLibrary == Fronts @@ Envs @@ Tables @@ Drivers @@ SecDrivers @@ TableDrivers @@ Scheds
             @@ Kernel
MCStart == [f \in DOMAIN Fronts |-> FrontStarts] @@ [f \in DOMAIN Envs |-> EnvStarts]
           @@ [f \in DOMAIN Tables |-> TableStarts]
           @@ [f \in DOMAIN Drivers |-> DriverStarts]
           @@ [f \in DOMAIN SecDrivers |-> SecStarts]
           @@ [f \in DOMAIN TableDrivers |-> TableDriverStarts]
           @@ [f \in DOMAIN Scheds |-> SchedStarts] @@ [f \in DOMAIN Kernel |-> KernelStarts]

Spec == PInit /\ [][PNext]_pathVars

-----------------------------------------------------------------------------
\* What survives on purpose: wd_ctx_init_driver marks a driver before it is asked,
\* nothing takes the marks away, and a closed stream leaves its counter.
Kept == {"init_state", "drv_data", "driver up", "fallback up"}

\* wd_agg_rehash_sync moves the state word before it asks for memory: without it
\* the word stays where no request goes on from.
Stuck == IF family = "agg" THEN {"REHASH"} ELSE {}

\* wd_cipher_init leaves its common part up when no driver is discovered (its label
\* out_free_drv_array is past the one of the common part): the next init makes it
\* again, an uninit takes it down and clears a status that is clear.
Forgotten == IF family \notin {"cipher v1", "cipher env"} THEN {}
             ELSE {"status", "priv", "sched name", "pools", "msgs1", "used1", "msgs2", "used2",
                   "ctxs", "lock1", "lock2", "node1", "node2", "shmid", "shmat"}

\* Made by the first request that needs it, whether that one fails or not.
Lazy == {"pending", "open stream"}
        \cup {m \o " " \o p \o x : m \in Modes, p \in Props, x \in {"", " lock"}}
        \cup {"q1 nosva pool" \o x :
                x \in {"", " lock", " 1", " 2", " sgl", " sgl_align", " mm_ops"}}

\* The calls on whose paths something is left behind: bringing a front end up and
\* down, the messages of the drivers, a scheduler whose region number is refused,
\* and the mutexes of a session initialised again or freed by a front end.
Lossy == {"init", "init2", "uninit", "uninit2", "env_init", "env_uninit", "ctx_num_init",
          "ctx_num_uninit", "deflate_init", "inflate_init", "destory", "poll_ctx",
          "send", "recv", "rr_alloc", "sched_init every", "free key"}

\* A call that fails has given back what it acquired, whichever of its steps
\* failed and whatever earlier calls left; only the calls named above lose track
\* of anything, sessions and requests of the front ends never (the error labels
\* of wd_X_init2_, wd_X_alloc_sess, wd_do_X, hisi_qm_alloc_qp, hisi_X_send).
CleanFail == /\ "zlib_status" \notin held =>
                     call.kept \subseteq Kept \cup Lazy \cup Forgotten \cup Stuck
             /\ call.lost # "none" => call.name \in Lossy

\* Releasing a scheduler frees the keys in its array, those of sessions the front
\* ends freed before among them; an init of the SEC driver that fails frees what
\* its caller frees again.
Dangling == {"freed key"} \cup (IF family \in DOMAIN SecDrivers THEN {"driver priv"} ELSE {})

\* In no order of calls, failed ones included, is anything released that is not
\* there, used before it is there, or acquired over a first one (the same labels,
\* and wd_X_free_sess, wd_X_uninit2, hisi_qm_free_qp).
NeverWrong == wrong \subseteq Kept \cup Forgotten \cup Dangling

\* A front end that is down without sessions and messages, and a driver that is
\* removed, hold nothing, whatever happened before (wd_X_uninit, hisi_X_exit), and
\* neither do a scheduler that was released and a context, a list of devices that was
\* given back (wd_sched_rr_release, wd_release_ctx, wd_free_list_accels).
DownEmpty == {"status", "sess", "msg", "env", "probed", "sched", "handle", "list", "dev",
              "mask", "caps"} \cap held = {}
                => held \subseteq Facts \cup Kept \cup Forgotten \cup {"pending"}
=============================================================================
