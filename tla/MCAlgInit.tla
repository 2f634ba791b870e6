------------------------------ MODULE MCAlgInit ------------------------------
(* Small instances of AlgInit. *)
EXTENDS AlgInit

CONSTANTS t1, t2

\* One accelerator driver alone, and one with a CPU driver; two operations
\* with an equal or unequal number of contexts, or none at all.
Platforms == { [drivers |-> d, nums |-> n] :
                 d \in { <<"hw">>, <<"hw", "ce">> },
                 n \in { << <<1, 0>>, <<0, 1>> >>, << <<2, 0>>, <<0, 2>> >>,
                         << <<0, 0>> >> } }
=============================================================================
