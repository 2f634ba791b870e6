------------------------------- MODULE MCSched -------------------------------
(***************************************************************************)
(* Small instances of SchedDomain and SchedPoll.  The two share no state,  *)
(* so that a behaviour is one of a single part, its world.                 *)
(***************************************************************************)
EXTENDS SchedDomain, SchedPoll

CONSTANTS Worlds,   \* of "domain" and "poll"
          a, s, u, s1, s2, s3, c1, c2, p1, p2

VARIABLE world

schedVars == <<world, vars, polledVars>>

-----------------------------------------------------------------------------
Key(m, p) == [mode |-> m, prop |-> p]
Ranges(m, p, lo, hi) == [key |-> Key(m, p), begin |-> lo, end |-> hi]

TwoProps == <<"hw", "ce">>
Four == 0 .. 3

\* One thread files two segments of asynchronous hardware contexts, with a
\* refused call in between, then a synchronous instruction context.
SetupCalls ==
  (a :> << Ranges("async", "hw", 0, 1), Ranges("async", "hw", 3, 2),
           Ranges("async", "hw", 2, 2), Ranges("sync", "ce", 3, 3) >>)

\* One algorithm is known to the driver of the last hardware context only,
\* the other to the instructions.
PairCompat == (s :> {2}) @@ (u :> {3})
PairProp == (s :> "hw") @@ (u :> "hw")

Setup(p, r, w, f, c, l, n) == [policy |-> p, release |-> r, wanted |-> w,
                               unfit |-> f, ctxs |-> c, pollers |-> l, reqs |-> n]

\* Two sessions that stay, under RR and INSTR, and three sessions for two
\* slots, one of which has no fitting context, freed in either way.
Working == { Setup("rr", "never", {s1, s2}, {}, {c1}, {p1, p2}, 2),
             Setup("instr", "never", {s1, s2}, {}, {c1, c2}, {p1, p2}, 2),
             Setup("rr", "uninit", {s1, s2, s3}, {s3}, {c1}, {p1}, 3),
             Setup("rr", "free", {s1, s2, s3}, {s3}, {c1}, {p1}, 3) }

Freeing == { Setup("rr", "free", {s1, s2}, {}, {c1}, {p1}, 3) }

-----------------------------------------------------------------------------
\* The state of the other worlds is any one initial state and stays.
MCInit ==
  /\ world \in Worlds
  /\ Init /\ (world # "domain" => policy = CHOOSE p \in Policies : TRUE)
  /\ PInit /\ (world # "poll" => setup = CHOOSE x \in Setups : TRUE)

InDomain(A) == world = "domain" /\ A /\ UNCHANGED <<world, polledVars>>
InPoll(A) == world = "poll" /\ A /\ UNCHANGED <<world, vars>>

MCNext == InDomain(Next) \/ InPoll(PNext)

MCSafe == MCInit /\ [][MCNext]_schedVars

\* The fairness of each part, in its world.
MCSpec ==
  /\ MCSafe
  /\ \A t \in Callers : WF_schedVars(InDomain(InstanceStep(t)))
  /\ \A t \in Openers : WF_schedVars(InDomain(OpenStep(t)))
  /\ \A t \in Senders : WF_schedVars(InPoll(SendStep(t)))
  /\ \A c \in Contexts : WF_schedVars(InPoll(DeviceStep(c)))
  /\ \A p \in Pollers : WF_schedVars(InPoll(PollStep(p)))
=============================================================================
