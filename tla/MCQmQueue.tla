----------------------------- MODULE MCQmQueue -----------------------------
(* A small instance of QmQueue: two senders and two pollers of one queue    *)
(* pair.                                                                    *)
EXTENDS QmQueue

CONSTANTS s1, s2, r1, r2
=============================================================================
