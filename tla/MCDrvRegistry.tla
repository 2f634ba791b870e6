--------------------------- MODULE MCDrvRegistry ---------------------------
(* Instances of DrvRegistry: the SEC library registers cipher and digest   *)
(* drivers, a second library drivers of the cipher and the AEAD class.     *)
EXTENDS DrvRegistry

CONSTANTS aes, sm4, sm3, xts, gcm, cipher, digest, aead

Other == {xts, gcm}
NameOf == [d \in Drivers |-> IF d \in Other THEN "other_sec" ELSE "hisi_sec2"]
LibOf == [d \in Drivers |-> IF d \in Other THEN "libother" ELSE "libhisi_sec"]
ClassOf == [d \in Drivers |-> CASE d = sm3 -> "digest" [] d = gcm -> "aead"
                                [] OTHER -> "cipher"]
ClassWanted == [u \in Users |-> CASE u = cipher -> "cipher" [] u = digest -> "digest"
                                  [] OTHER -> "aead"]
SecLib == [u \in Users |-> "libhisi_sec"]

\* wd_cipher_init asks for hisi_sec2, the init of the others discovers no driver.
AskSec == [u \in Users |-> IF u = cipher THEN "hisi_sec2" ELSE Null]

Dynamic(types) == [build : {"dynamic"}, init_type : types]
Both == [Users -> {"init", "init2"}]

\* wd_cipher_init while a front end that was brought up by init2 keeps another
\* cipher driver in memory, and every other combination; a static build has two
\* front ends.
Mixed == {t \in Both : t[cipher] = "init" /\ \E u \in Users : t[u] = "init2"}
MixedPrograms == Dynamic(Mixed)
OtherPrograms ==
  Dynamic(Both \ Mixed)
  \cup [build : {"static"},
        init_type : {[u \in Users |-> IF u = aead THEN "unused" ELSE "init2"]}]
=============================================================================
