----------------------------- MODULE MCSyncPath -----------------------------
(***************************************************************************)
(* Small instances of SyncPath and, for requests that do not go to an      *)
(* accelerator, of SoftQueue and HashJobs.  The parts share no state, so   *)
(* that a behaviour is one of a single part, its world.                    *)
(***************************************************************************)
EXTENDS SyncPath, SoftQueue, HashJobs

CONSTANTS Worlds   \* of "sync", "soft" and "hash"

VARIABLE world

pathVars == <<world, vars, softVars, hashVars>>

\* A long HMAC, a short job of the same algorithm and one of the other.
Job(alg, len, pad, opad) == [alg |-> alg, len |-> len, pad |-> pad, opad |-> opad]
ThreeJobs == 1 .. 3
Mixed == << Job("sm3", 2, 1, TRUE), Job("sm3", 1, 0, FALSE), Job("md5", 1, 1, FALSE) >>

-----------------------------------------------------------------------------
\* The state of the other worlds stays the initial one.
MCInit == world \in Worlds /\ Init /\ SInit /\ HInit

InSync(A) == world = "sync" /\ A /\ UNCHANGED <<world, softVars, hashVars>>
InSoft(A) == world = "soft" /\ A /\ UNCHANGED <<world, vars, hashVars>>
InHash(A) == world = "hash" /\ A /\ UNCHANGED <<world, vars, softVars>>

MCNext == InSync(Next) \/ InSoft(SNext) \/ InHash(HNext)

MCSafe == MCInit /\ [][MCNext]_pathVars

\* The fairness of each part, in its world.
MCSpec == /\ MCSafe
          /\ \A t \in Threads : WF_pathVars(InSync(SyncStep(t)))
          /\ \A t \in Posters : WF_pathVars(InSoft(SendNext(t)))
          /\ \A t \in Receivers : WF_pathVars(InSoft(RecvNext(t)))
          /\ \A p \in Readers : WF_pathVars(InHash(Poll(p)))

-----------------------------------------------------------------------------
\* What was queued for a CPU driver is answered: every entry of a soft queue is
\* read (wd_put_sqe_to_queue) and every job of the multi-buffer drivers handed
\* out (hash_mb_recv), however the pollers get into each other's way.
QueuesDrain == EveryAnswerRead /\ EveryJobDone
=============================================================================
