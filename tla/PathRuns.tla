------------------------------ MODULE PathRuns ------------------------------
(***************************************************************************)
(* What running the functions written in the notation of Paths does.       *)
(*                                                                         *)
(* One thread calls the entry points of one family of functions in any     *)
(* order their handles allow; every step that may fail does so in some     *)
(* behaviour.  As one thread runs, a call is one step of the machine: any  *)
(* of the outcomes its paths have.                                         *)
(***************************************************************************)
EXTENDS Naturals, Sequences

CONSTANTS Library,  \* the entry points of every family of functions
          Start     \* what each family may find: facts of its environment

VARIABLES family,  \* the family whose entry points are called
          held,    \* resources acquired and not released
          call,    \* the last call: the entry point, how it ended, what it left
                   \* behind, and what a failed call acquired and kept
          wrong    \* resources released or needed when they were not there, or
                   \* acquired again

pathVars == <<family, held, call, wrong>>

-----------------------------------------------------------------------------
\* A place on a path is [held, lost, wrong], lost the last resource left behind.  A step ends a place in one of
\* these ways.
Goes(s) == [how |-> "on", at |-> s]
Fails(s) == [how |-> "fail", at |-> s]
Returns(s) == [how |-> "return", at |-> s]

Acquired(s, r) == [s EXCEPT !.held = @ \cup {r}, !.wrong = @ \cup ({r} \cap s.held)]
Released(s, r) == [s EXCEPT !.held = @ \ {r}]
Missed(s, r) == [s EXCEPT !.wrong = @ \cup ({r} \ s.held)]

RECURSIVE Run(_, _), Rounds(_, _, _)

\* The ways one step ends from place s.
Do(step, s) ==
  LET r == step.r
      Into(c) == {IF o.how = "fail" THEN Fails(o.at) ELSE Goes(o.at) : o \in Run(c, {s})}
  IN CASE step.op = "check" -> {Goes(s), Fails(s)}
       [] step.op = "get" -> {Goes(Acquired(s, r)), Fails(s)}
       [] step.op = "own" -> {Goes(Acquired(s, r))}
       [] step.op = "put" -> {Goes(Released(Missed(s, r), r))}
       [] step.op = "putif" -> {Goes(Released(s, r))}
       [] step.op = "lose" -> {Goes([Released(s, r) EXCEPT
                                          !.lost = IF r \in s.held THEN r ELSE @])}
       [] step.op = "need" -> {Goes(Missed(s, r))}
       [] step.op = "call" -> Into(step.c[1])
       [] step.op = "try" -> {Goes(o.at) : o \in Into(step.c[1])}
       [] step.op = "again" -> Rounds(step.c[1], {s}, {s})
       [] step.op = "may" -> {Goes(s)} \cup Into(step.c[1])
       [] step.op = "cond" -> Into(IF r \in s.held THEN step.c[1] ELSE step.c[2])
       [] step.op = "require" -> {IF r \in s.held THEN Goes(s) ELSE Fails(s)}
       [] step.op = "either" -> Into(step.c[1]) \cup Into(step.c[2])
       [] step.op = "leave" -> {Goes(s), Returns(s)}
       [] step.op = "fail" -> {Fails(s)}

\* The ways a function ends from any of the places S: its steps in order, the
\* label of the step that fails, and then the error.
Run(code, S) ==
  IF code = << >> \/ S = {} THEN {Returns(s) : s \in S}
  ELSE LET ends == UNION {Do(Head(code), s) : s \in S}
           At(how) == {o.at : o \in {x \in ends : x.how = how}}
       IN {Returns(s) : s \in At("return")}
          \cup {Fails(o.at) : o \in Run(Head(code).u, At("fail"))}
          \cup Run(Tail(code), At("on"))

\* A failed round of a loop may be followed by another.
Rounds(c, S, seen) ==
  LET ends == Run(c, S)
      failed == {o.at : o \in {x \in ends : x.how = "fail"}} \ seen
  IN {IF o.how = "fail" THEN o ELSE Goes(o.at) : o \in ends}
     \cup (IF failed = {} THEN {} ELSE Rounds(c, failed, seen \cup failed))

-----------------------------------------------------------------------------
NoCall == [name |-> "none", result |-> "none", lost |-> "none", kept |-> {}]

PInit == /\ family \in DOMAIN Library /\ held \in Start[family]
         /\ call = NoCall /\ wrong = {}

Enter(e) ==
  /\ e.needs \subseteq held /\ e.lacks \cap held = {}
  /\ \E o \in Run(e.code, {[held |-> held, lost |-> "none", wrong |-> {}]}) :
       /\ held' = o.at.held /\ wrong' = wrong \cup o.at.wrong
       /\ call' = [name |-> e.name, lost |-> o.at.lost,
                   result |-> IF o.how = "fail" THEN "err" ELSE "ok",
                   kept |-> IF o.how = "fail" THEN o.at.held \ held ELSE {}]
  /\ UNCHANGED family

PNext == \E e \in Library[family] : Enter(e)
=============================================================================
