---------------------------- MODULE BoundedFifo ----------------------------
(***************************************************************************)
(* What a hardware queue promises to the algorithm layer: a bounded FIFO   *)
(* that answers every accepted request exactly once and in order.          *)
(* Requests are named by the order in which they were accepted: the k-th   *)
(* accepted request is request k (counting from 0).                        *)
(***************************************************************************)
EXTENDS Integers

CONSTANTS Cap,      \* how many requests may be outstanding
          Batches   \* sizes of one accepted batch

VARIABLES accepted,   \* how many requests were accepted so far
          delivered,  \* how many answers were handed out so far
          answer      \* the request the last answer belongs to, -1 before any

fifoVars == <<accepted, delivered, answer>>

FifoInit == accepted = 0 /\ delivered = 0 /\ answer = -1

\* A batch is accepted as a whole, and only when all of it fits.
Accept == \E n \in Batches :
            /\ (accepted - delivered) + n <= Cap
            /\ accepted' = accepted + n
            /\ UNCHANGED <<delivered, answer>>

\* The answer handed out is the oldest outstanding request's.
Deliver == /\ delivered < accepted
           /\ answer' = delivered
           /\ delivered' = delivered + 1
           /\ UNCHANGED accepted

FifoSpec == FifoInit /\ [][Accept \/ Deliver]_fifoVars
=============================================================================
