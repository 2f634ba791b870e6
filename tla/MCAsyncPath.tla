---------------------------- MODULE MCAsyncPath ----------------------------
(* A small instance of AsyncPath: two submitting threads and two pollers.   *)
EXTENDS AsyncPath

CONSTANTS s1, s2, p1, p2
=============================================================================
