------------------------------ MODULE Simplifier ------------------------------
(***************************************************************************)
(* The simplifier of the midend (simplifier.cpp): expressions are          *)
(* rewritten bottom up, at each operator by nine rules in a fixed order,   *)
(* each of which sees what the rules before it have made of the node.      *)
(***************************************************************************)
EXTENDS AstDsl

CONSTANTS
  Source,       \* the trees given to the midend
  Environment   \* values of variables and results of calls: fractions by name

VARIABLES
  source,       \* history: the tree that was read
  tree,
  verdict       \* "none", "done" or "failed"

simplifierVars == <<source, tree, verdict>>

-----------------------------------------------------------------------------
(* Nodes.                                                                  *)

NUM(num)   == make_number_node(num)
NEG(right) == make_unary_node("NEG", right)

is_zero(node) == num_cmp(node, 0)
is_one(node)  == num_cmp(node, 1)
is_neg(node)  == is_op(node) /\ node.value = "NEG"

is_same_var(a, b) == is_var(a) /\ var_cmp(b, a.value)

-----------------------------------------------------------------------------
(* The rules.  A rule that does not know the operator leaves the node.     *)

\* A negative literal becomes a negated one.
negative_literal(n) == IF n.value[1] < 0 THEN NEG(NUM(minus(n.value))) ELSE n

RECURSIVE simplify_node(_)

\* -f + -g and -f - -g; the sum made here is simplified once more, which may
\* fail without anyone noticing.
extract_negative(n) ==
  LET inner == make_binary_node(n.value, n.left.right, n.right.right)
  IN  CASE n.value \in {"ADD", "SUB"} -> NEG(simplify_node(inner).tree)
        [] n.value \in {"MUL", "DIV"} -> inner
        [] OTHER -> n

\* Mutant: the wrong operand is subtracted.
extract_left_negative_twice(n) ==
  LET f == n.left.right
  IN  CASE n.value = "ADD" -> make_binary_node("SUB", n.right, n.right)
        [] n.value = "SUB" -> NEG(make_binary_node("ADD", f, n.right))
        [] n.value \in {"MUL", "DIV"} -> NEG(make_binary_node(n.value, f, n.right))
        [] OTHER -> n

extract_left_negative(n) ==
  LET f == n.left.right
  IN  CASE n.value = "ADD" -> make_binary_node("SUB", n.right, f)
        [] n.value = "SUB" -> NEG(make_binary_node("ADD", f, n.right))
        [] n.value \in {"MUL", "DIV"} -> NEG(make_binary_node(n.value, f, n.right))
        [] OTHER -> n

\* Mutant: f - -g stays a difference.
extract_right_negative_unswapped(n) ==
  LET g == n.right.right
  IN  CASE n.value \in {"ADD", "SUB"} -> make_binary_node("SUB", n.left, g)
        [] n.value \in {"MUL", "DIV"} -> NEG(make_binary_node(n.value, n.left, g))
        [] n.value = "NEG" -> g
        [] OTHER -> n

extract_right_negative(n) ==
  LET g == n.right.right
  IN  CASE n.value = "ADD" -> make_binary_node("SUB", n.left, g)
        [] n.value = "SUB" -> make_binary_node("ADD", n.left, g)
        [] n.value \in {"MUL", "DIV"} -> NEG(make_binary_node(n.value, n.left, g))
        [] n.value = "NEG" -> g
        [] OTHER -> n

extract_left_zero(n) ==
  CASE n.value = "ADD" -> n.right
    [] n.value = "SUB" -> NEG(n.right)
    [] n.value \in {"MUL", "DIV"} -> NUM(<<0, 1>>)
    [] OTHER -> n

\* A division is rejected before this rule.
extract_right_zero(n) ==
  CASE n.value \in {"ADD", "SUB"} -> n.left
    [] n.value \in {"MUL", "NEG"} -> NUM(<<0, 1>>)
    [] OTHER -> n

extract_left_one(n) == IF n.value = "MUL" THEN n.right ELSE n

extract_right_one(n) == IF n.value \in {"MUL", "DIV"} THEN n.left ELSE n

collapse_const(n) ==
  LET a == n.left.value
      b == n.right.value
  IN  CASE n.value = "ADD" -> NUM(plus(a, b))
        [] n.value = "SUB" -> NUM(plus(a, minus(b)))
        [] n.value = "MUL" -> NUM(times(a, b))
        [] n.value = "DIV" -> NUM(over(a, b))
        [] OTHER -> n

collapse_var(n) ==
  CASE n.value = "ADD" -> make_binary_node("MUL", NUM(<<2, 1>>), n.right)
    [] n.value = "SUB" -> NUM(<<0, 1>>)
    [] n.value = "DIV" -> NUM(<<1, 1>>)
    [] OTHER -> n

\* Mutant: the operator is not looked at.
DividesByZero_any(n) == is_op(n) /\ is_zero(n.right)

\* "Division by zero"
DividesByZero(n) == is_op(n) /\ n.value = "DIV" /\ is_zero(n.right)

\* collapse_const reports the same error when the dividend is zero.
DividesZero(n) == is_op(n) /\ n.value = "DIV" /\ is_zero(n.left) /\ is_num(n.right)

\* `ok` is what simplify_node returns; the tree is rewritten up to there.
result(ok, node) == [ok |-> ok, tree |-> node]

\* The rules in their order, and the two that may fail.
negatives(n) ==
  LET n1 == IF is_neg(n.left) /\ is_neg(n.right) THEN extract_negative(n) ELSE n
      n2 == IF is_neg(n1.left) THEN extract_left_negative(n1) ELSE n1
  IN  IF is_neg(n2.right) THEN extract_right_negative(n2) ELSE n2

zero_left(n)  == IF is_zero(n.left)  THEN extract_left_zero(n)  ELSE n
zero_right(n) == IF is_zero(n.right) THEN extract_right_zero(n) ELSE n

ones(n) ==
  LET n6 == IF is_one(n.left) THEN extract_left_one(n) ELSE n
  IN  IF is_one(n6.right) THEN extract_right_one(n6) ELSE n6

equals(n) ==
  LET n8 == IF is_num(n.left) /\ is_num(n.right) THEN collapse_const(n) ELSE n
  IN  IF is_same_var(n8.left, n8.right) THEN collapse_var(n8) ELSE n8

reduce(n) == IF DividesZero(n) THEN result(FALSE, n) ELSE result(TRUE, equals(n))

cancel(n) == IF DividesByZero(n) THEN result(FALSE, n) ELSE reduce(ones(zero_right(n)))

rewrite(n) == cancel(zero_left(negatives(n)))

simplify_node(node) ==
  IF node = NULL THEN result(TRUE, node)
  ELSE IF is_num(node) THEN result(TRUE, negative_literal(node))
  ELSE LET left  == simplify_node(node.left)
           right == simplify_node(node.right)
           both  == [node EXCEPT !.left = left.tree, !.right = right.tree]
       IN  IF ~ left.ok THEN result(FALSE, [node EXCEPT !.left = left.tree])
           ELSE IF ~ right.ok THEN result(FALSE, both)
           ELSE IF is_op(node) THEN rewrite(both) ELSE result(TRUE, both)

-----------------------------------------------------------------------------

SimplifierInit ==
  /\ source \in Source
  /\ tree = source
  /\ verdict = "none"

\* try_simplify_tree: a tree that could not be simplified is not written.
simplify_tree ==
  /\ verdict = "none"
  /\ LET simplified == simplify_node(tree)
     IN  /\ tree' = simplified.tree
         /\ verdict' = IF simplified.ok THEN "done" ELSE "failed"
  /\ UNCHANGED source

SimplifierSpec == SimplifierInit /\ [][simplify_tree]_simplifierVars

-----------------------------------------------------------------------------
(* What the simplifier may do to the value of an expression and its calls. *)

DefinedSomewhere(n) == \E env \in Environment : ValueOf(n, env) # Undefined

\* Whatever combination of rules applies, in whatever order they expose one
\* another, an expression that has a value keeps it.
ValuesKept ==
  verdict = "done" =>
    \A env \in Environment :
      ValueOf(source, env) # Undefined =>
        /\ ValueOf(tree, env) # Undefined
        /\ Same(ValueOf(source, env), ValueOf(tree, env))

\* A tree is rejected only if it divides by zero whatever its variables are.
RejectsOnlyHopeless == verdict = "failed" => ~ DefinedSomewhere(source)

\* The calls of an expression in the order the compiled code makes them.
RECURSIVE CallsOf(_)
CallsOf(n) ==
  IF n = NULL THEN <<>>
  ELSE CallsOf(n.left) \o CallsOf(n.right) \o (IF n.type = "CALL" THEN <<n.value>> ELSE <<>>)

\* -f + g becomes g - f: the one rule that turns operands round.
TurnsRound(n) ==
  /\ n.type = "OP" /\ n.value = "ADD"
  /\ is_neg(simplify_node(n.left).tree)
  /\ ~ is_neg(simplify_node(n.right).tree)

RECURSIVE TurnedCallsOf(_)
TurnedCallsOf(n) ==
  IF n = NULL \/ n.type # "OP" THEN CallsOf(n)
  ELSE LET left  == TurnedCallsOf(n.left)
           right == TurnedCallsOf(n.right)
       IN  IF left # <<>> /\ right # <<>> /\ TurnsRound(n) THEN right \o left ELSE left \o right

RECURSIVE IsSubsequence(_, _)
IsSubsequence(s, t) ==
  IF s = <<>> \/ t = <<>> THEN s = <<>>
  ELSE IsSubsequence(IF Head(s) = Head(t) THEN Tail(s) ELSE s, Tail(t))

\* The value is zero whenever there is one.
AlwaysZero(n) ==
  \A env \in Environment : ValueOf(n, env) = Undefined \/ ValueOf(n, env)[1] = 0

RECURSIVE HasZeroFactor(_)
HasZeroFactor(n) ==
  /\ n # NULL /\ n.type = "OP"
  /\ \/ n.value \in {"MUL", "DIV"} /\ (AlwaysZero(n.left) \/ AlwaysZero(n.right))
     \/ HasZeroFactor(n.left) \/ HasZeroFactor(n.right)

\* README.md:211: calls have side effects, and only a multiplication by zero
\* (the code adds: a division of zero) may be dropped.  Otherwise each call is
\* made as often as the program says, and never more often; and the order of
\* calls is that of the program, but for the sums with a negated left operand.
CallsKept ==
  verdict = "done" =>
    IF HasZeroFactor(source)
      THEN IsSubsequence(CallsOf(tree), TurnedCallsOf(source))
      ELSE CallsOf(tree) = TurnedCallsOf(source)
=============================================================================
