----------------------------- MODULE AstBuilder -----------------------------
(***************************************************************************)
(* Syntax trees written down as terms, for the model-checking modules: one *)
(* operator per node type, in the shape make_node gives them.              *)
(***************************************************************************)
EXTENDS Ast
LOCAL INSTANCE SequencesExt

Mk(type, value, left, right) ==
  [type |-> type, value |-> value, num |-> NULL, left |-> left, right |-> right]

\* Items hung one below the other on the right links of nodes of one type.
Chain(type, items) ==
  FoldRight(LAMBDA item, rest : Mk(type, NULL, item, rest), items, NULL)

Literal(milli, inexact) ==
  [Mk("CONST", NULL, NULL, NULL) EXCEPT !.num = [milli |-> milli, inexact |-> inexact]]

Const(milli)        == Literal(milli, FALSE)
InexactConst(milli) == Literal(milli, TRUE)
Var(x)              == Mk("VAR", x, NULL, NULL)
Op(op, l, r)        == Mk("OP", op, l, r)
Unary(op, e)        == Mk("OP", op, NULL, e)
Call(f, args)       == Mk("CALL", f, NULL, Chain("PAR", args))
Decl(x, e)          == Mk("NVAR", x, NULL, e)
Assign(x, e)        == Mk("ASS", x, NULL, e)
Ret(e)              == Mk("RET", NULL, NULL, e)
Block(stmts)        == Mk("BLOCK", NULL, NULL, Chain("SEQ", stmts))
While(c, s)         == Mk("WHILE", NULL, c, s)
If(c, s)            == Mk("IF", NULL, c, Mk("BRANCH", NULL, s, NULL))
IfElse(c, s, t)     == Mk("IF", NULL, c, Mk("BRANCH", NULL, s, t))
Func(f, params, stmts) ==
  Mk("NFUN", f, FoldRight(LAMBDA x, rest : Mk("ARG", x, NULL, rest), params, NULL),
     Block(stmts))
Defs(definitions)   == Chain("DEFS", definitions)

\* The trees of a set and all their subtrees.
AllSubtrees(trees) ==
  LET RECURSIVE from(_)
      from(nodes) ==
        IF nodes = {} THEN {}
        ELSE nodes \cup from(UNION {{n.left, n.right} : n \in nodes} \ {NULL})
  IN  {n : n \in from(trees)}

\* Sequences of length one or two over a set.
UpToTwo(S) == {<<s>> : s \in S} \cup {<<s, t>> : s, t \in S}
=============================================================================
