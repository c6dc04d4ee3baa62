------------------------------- MODULE Verdict -------------------------------
(***************************************************************************)
(* What compiling promises: a verdict on the program it was given, once,   *)
(* and in the end.                                                         *)
(***************************************************************************)
CONSTANTS
  Program,
  Accepts(_)      \* whether a program obeys the rules of the language

VARIABLES
  program,
  verdict         \* "none", "done" or "failed"

VerdictInit == program \in Program /\ verdict = "none"

Decide ==
  /\ verdict = "none"
  /\ verdict' = IF Accepts(program) THEN "done" ELSE "failed"
  /\ UNCHANGED program

VerdictSpec == VerdictInit /\ [][Decide]_<<program, verdict>>
                 /\ WF_<<program, verdict>>(Decide)
=============================================================================
