------------------------------- MODULE Pipeline -------------------------------
(***************************************************************************)
(* What the three programs promise of their files.  A tool takes what its  *)
(* input holds, and then makes its output hold what that becomes.  It may  *)
(* die at any time, and leaves either its old output, or the new one, or   *)
(* a file no tool accepts: never anything else.                            *)
(***************************************************************************)
CONSTANTS
  Tool,
  NULL,               \* nothing that could be used
  Source,             \* the programs
  Meaning(_),         \* the tree of a program, or NULL
  Inputs(_),          \* the tools whose outputs a tool may be given; none reads the program
  Result(_, _),       \* what a tree becomes in a tool, or NULL if it is refused
  Stored(_, _),       \* what the output of a tool is good for if it holds a tree
  Late(_, _)          \* whether a tool finds out too late that it must refuse a tree

VARIABLES
  source,             \* the program
  made,               \* what the output of a tool holds
  held,               \* what a tool has in memory
  phase,              \* "idle", "holding", "replacing" or "delivered"
  status              \* how the last run ended

pipelineVars == <<source, made, held, phase, status>>

Init ==
  /\ source \in Source
  /\ made = [t \in Tool |-> NULL]
  /\ held = [t \in Tool |-> NULL]
  /\ phase = [t \in Tool |-> "idle"]
  /\ status = "none"

End(t, how) ==
  /\ phase' = [phase EXCEPT ![t] = "idle"]
  /\ held' = [held EXCEPT ![t] = NULL]
  /\ status' = how
  /\ UNCHANGED source

\* The user changes the program.
Edit == source' \in Source /\ UNCHANGED <<made, held, phase, status>>

\* A run begins: the tool has taken its input, or refuses it.
Offers(t) ==
  IF Inputs(t) = {} THEN {Meaning(source)} ELSE {Result(t, made[u]) : u \in Inputs(t)}

Take(t) ==
  /\ phase[t] = "idle"
  /\ \E found \in Offers(t) :
       \/ /\ found # NULL
          /\ held' = [held EXCEPT ![t] = found]
          /\ phase' = [phase EXCEPT ![t] = "holding"]
          /\ UNCHANGED <<source, made, status>>
       \/ found = NULL /\ End(t, "failed") /\ UNCHANGED made

\* The old output is gone.
Replace(t) ==
  /\ phase[t] = "holding"
  /\ phase' = [phase EXCEPT ![t] = "replacing"]
  /\ made' = [made EXCEPT ![t] = NULL]
  /\ UNCHANGED <<source, held, status>>

Refuse(t) ==
  /\ phase[t] = "replacing"
  /\ Late(t, held[t])
  /\ End(t, "failed")
  /\ UNCHANGED made

Deliver(t) ==
  /\ phase[t] = "replacing"
  /\ ~ Late(t, held[t])
  /\ made' = [made EXCEPT ![t] = Stored(t, held[t])]
  /\ phase' = [phase EXCEPT ![t] = "delivered"]
  /\ UNCHANGED <<source, held, status>>

\* Nobody asks whether the output could be written.
Lose(t) ==
  /\ phase[t] = "replacing"
  /\ ~ Late(t, held[t])
  /\ phase' = [phase EXCEPT ![t] = "delivered"]
  /\ UNCHANGED <<source, made, held, status>>

Succeed(t) == phase[t] = "delivered" /\ End(t, "done") /\ UNCHANGED made

Die(t) == End(t, "crashed") /\ UNCHANGED made

Next ==
  \/ Edit
  \/ \E t \in Tool :
       \/ Take(t) \/ Replace(t) \/ Refuse(t) \/ Deliver(t) \/ Lose(t) \/ Succeed(t) \/ Die(t)

PipelineSpec == Init /\ [][Next]_pipelineVars
===============================================================================
