------------------------------- MODULE Paths -------------------------------
(***************************************************************************)
(* Who holds what on every path through a call: the notation.  A C         *)
(* function is a sequence of steps; a step checks something, acquires or   *)
(* releases a resource, needs one, or calls another function.  A step that *)
(* may fail carries what its error label undoes.  The modules that extend  *)
(* this one give the functions of the library in this form, under their    *)
(* own names; PathRuns says what running them does.                        *)
(***************************************************************************)
EXTENDS Naturals, Sequences

Step(op, r, c, u) == [op |-> op, r |-> r, c |-> c, u |-> u]

Check(u) == Step("check", "", << >>, u)        \* may fail
Get(r, u) == Step("get", r, << >>, u)          \* acquires r or fails
Own(r) == Step("own", r, << >>, << >>)         \* acquires r
Put(r) == Step("put", r, << >>, << >>)         \* releases r
PutIf(r) == Step("putif", r, << >>, << >>)     \* releases r if it is there
Lose(r) == Step("lose", r, << >>, << >>)       \* leaves r behind if it is there
Need(r) == Step("need", r, << >>, << >>)       \* r must be there
Call(c, u) == Step("call", "", <<c>>, u)           \* fails if c fails
Try(c) == Step("try", "", <<c>>, << >>)            \* goes on if c fails
Again(c, u) == Step("again", "", <<c>>, u)         \* tries c again or fails if c fails
May(c, u) == Step("may", "", <<c>>, u)             \* c or nothing
Cond(r, c, d, u) == Step("cond", r, <<c, d>>, u)  \* c if r is there, or else d
With(r, c, u) == Cond(r, c, << >>, u)
Unless(r, c, u) == Cond(r, << >>, c, u)
Require(r, u) == Step("require", r, << >>, u)  \* fails if r is not there
Either(c, d, u) == Step("either", "", <<c, d>>, u)
Leave == Step("leave", "", << >>, << >>)       \* may return success here
Fail == Step("fail", "", << >>, << >>)         \* returns an error

\* An entry point: what must be there and must not be there to call it.
Entry(name, needs, lacks, code) ==
  [name |-> name, needs |-> needs, lacks |-> lacks, code |-> code]
=============================================================================
