---------------------------- MODULE MC_Simplifier ----------------------------
(***************************************************************************)
(* Expressions of two operators on each path, and sums of negated ones,    *)
(* over the literals the rules look for, a variable and two calls.         *)
(***************************************************************************)
EXTENDS Simplifier

Leaf(type, name) == [type |-> type, value |-> name, left |-> NULL, right |-> NULL]

Zero == NUM(<<0, 1>>)
One  == NUM(<<1, 1>>)
Half == NUM(<<-1, 2>>)
X    == Leaf("VAR", "x")
F    == Leaf("CALL", "f")
G    == Leaf("CALL", "g")
Leaves == {Zero, One, Half, X, F}

Binary(ops, ls, rs) == {make_binary_node(op, l, r) : op \in ops, l \in ls, r \in rs}

Arithmetic == {"ADD", "SUB", "MUL", "DIV"}

\* Operands: leaves, one operator on leaves, and negations of both.
Operands ==
  LET flat == Binary(Arithmetic, {Zero, Half, X, F}, {Zero, One, X, G})
      quotients == Binary({"DIV", "ADD"}, {NEG(X), NEG(F)}, {Zero, G, NEG(G)})
      positive == Leaves \cup flat \cup quotients \cup {NEG(G)}
  IN  positive \cup {NEG(e) : e \in positive}

Sources == [type : {"OP"}, value : Arithmetic \cup {"LT"}, left : Operands, right : Operands]

Environments ==
  {[x |-> <<0, 1>>, f |-> <<5, 1>>, g |-> <<-3, 2>>],
   [x |-> <<-3, 2>>, f |-> <<0, 1>>, g |-> <<5, 1>>],
   [x |-> <<5, 1>>, f |-> <<-3, 2>>, g |-> <<7, 3>>]}

MCSource      == Sources
MCEnvironment == Environments
=============================================================================
