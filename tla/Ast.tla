--------------------------------- MODULE Ast ---------------------------------
(***************************************************************************)
(* The syntax tree the three programs exchange: an ast_node has a type, a  *)
(* value (of the C union: a name or an operator, or a number) and two      *)
(* children.                                                               *)
(***************************************************************************)
EXTENDS Integers, AstShape

CONSTANTS
  Name,     \* identifiers of the source program
  Node,     \* the AST nodes, records [type, value, num, left, right]
  NULL      \* the null pointer

TypeOf(node) == IF node = NULL THEN "none" ELSE node.type

\* A literal is the decimal the source wrote, in thousandths; `inexact` says
\* that the double nearest to it, times 1000, lies closer to zero than it.
Number == [milli : Int, inexact : BOOLEAN]

ASSUME NodeAssumption ==
  /\ NULL \notin Node
  /\ \A n \in Node :
       /\ n.type \in NodeType
       /\ n.left \in Node \cup {NULL}
       /\ n.right \in Node \cup {NULL}
       /\ TypeOf(n.left) \in LeftChild(n.type)
       /\ TypeOf(n.right) \in RightChild(n.type)
       /\ n.type \in Named => n.value \in Name
       /\ n.type = "CONST" => n.num \in Number
       /\ n.type = "OP" =>
            /\ n.value \in op_type
            /\ n.left = NULL <=> n.value \in {"NOT", "NEG"}

\* How deep a tree is: trees are finite, a child is lower than its parent.
Height[n \in Node \cup {NULL}] ==
  IF n = NULL THEN 0
  ELSE LET left  == Height[n.left]
           right == Height[n.right]
       IN  1 + (IF left > right THEN left ELSE right)

ASSUME HeightAssumption ==
  /\ \A n \in Node \cup {NULL} : Height[n] \in Nat
  /\ \A n \in Node : Height[n.left] < Height[n] /\ Height[n.right] < Height[n]

\* The length of a chain of nodes linked by `right` (PAR or ARG nodes).
ChainOf(node) ==
  LET length[n \in Node \cup {NULL}] ==
        IF n = NULL THEN 0 ELSE 1 + length[n.right]
  IN  length[node]

\* Trees are finite: every chain ends, one node after that of its first link.
ASSUME ChainAssumption ==
  /\ \A n \in Node \cup {NULL} : ChainOf(n) \in Nat
  /\ ChainOf(NULL) = 0
  /\ \A n \in Node : ChainOf(n) = 1 + ChainOf(n.right)
=============================================================================
