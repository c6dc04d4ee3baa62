------------------------------ MODULE CallStack ------------------------------
(***************************************************************************)
(* What the generated code promises about control: activations are a       *)
(* stack.  A call remembers the place behind it, deeper than all that are  *)
(* remembered, a return goes to the place remembered deepest and forgets   *)
(* it, and no other step touches the places remembered.                    *)
(***************************************************************************)
EXTENDS Integers

VARIABLES
  pc,       \* where control is
  next,     \* where it goes on behind the instruction there
  calls     \* the places to come back to, by their depths

CallStackInit == DOMAIN calls = {}

Enter ==
  \E d \in DOMAIN calls' :
    /\ \A e \in DOMAIN calls : e < d
    /\ calls' = [e \in DOMAIN calls \cup {d} |-> IF e = d THEN next ELSE calls[e]]

Leave ==
  \E d \in DOMAIN calls :
    /\ \A e \in DOMAIN calls : e <= d
    /\ pc' = calls[d]
    /\ calls' = [e \in DOMAIN calls \ {d} |-> calls[e]]

Elsewhere == calls' = calls

CallStackSpec == CallStackInit /\ [][Enter \/ Leave \/ Elsewhere]_<<pc, next, calls>>
=============================================================================
