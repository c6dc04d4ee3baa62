------------------------------- MODULE AstDsl -------------------------------
(***************************************************************************)
(* The nodes the frontend and the midend build (ast.h, ast_dsl.h).  Of a   *)
(* number node the value is a fraction <<n, d>> with d > 0: doubles are    *)
(* taken as exact.                                                         *)
(***************************************************************************)
EXTENDS Integers, Sequences

CONSTANT NULL     \* the null pointer, also the value of a node that needs none

make_node(type, value, left, right) ==
  [type |-> type, value |-> value, left |-> left, right |-> right]

make_number_node(num) == make_node("CONST", num, NULL, NULL)
make_var_node(name)   == make_node("VAR", name, NULL, NULL)

make_binary_node(op, left, right) == make_node("OP", op, left, right)
make_unary_node(op, right)        == make_node("OP", op, NULL, right)

is_num(node) == node # NULL /\ node.type = "CONST"
is_op(node)  == node # NULL /\ node.type = "OP"
is_var(node) == node # NULL /\ node.type = "VAR"

num_cmp(node, n)  == is_num(node) /\ node.value[1] = n * node.value[2]
var_cmp(node, name) == is_var(node) /\ node.value = name

RECURSIVE Subtrees(_)
Subtrees(n) == IF n = NULL THEN {} ELSE {n} \cup Subtrees(n.left) \cup Subtrees(n.right)

-----------------------------------------------------------------------------
(* Fractions.                                                              *)

plus(a, b)  == <<a[1] * b[2] + b[1] * a[2], a[2] * b[2]>>
minus(a)    == <<-a[1], a[2]>>
times(a, b) == <<a[1] * b[1], a[2] * b[2]>>
over(a, b)  == IF b[1] > 0 THEN <<a[1] * b[2], a[2] * b[1]>>
                           ELSE <<-(a[1] * b[2]), -(a[2] * b[1])>>

Same(a, b) == a[1] * b[2] = b[1] * a[2]

-----------------------------------------------------------------------------
(* The values of expressions.  An environment gives each variable a value  *)
(* and each function a result: fractions by name.                          *)

Undefined == <<0, 0>>

\* The value of an expression, and its derivative with respect to a variable,
\* which a call has none of.  A derivative stands in no tree: it is written
\* here as a node DIFF with the variable and, on the left, the expression.  An
\* undefined operand makes the value undefined, also in a product with zero:
\* the program stops there.
RECURSIVE ValueOf(_, _), Tangent(_, _, _)
ValueOf(n, env) ==
  CASE n.type = "CONST" -> n.value
    [] n.type \in {"VAR", "CALL"} -> env[n.value]
    [] n.type = "DIFF" -> Tangent(n.left, n.value, env)
    [] n.type = "OP" ->
         LET a == IF n.left = NULL THEN <<0, 1>> ELSE ValueOf(n.left, env)
             b == ValueOf(n.right, env)
         IN  IF a = Undefined \/ b = Undefined THEN Undefined
             ELSE CASE n.value = "ADD" -> plus(a, b)
                    [] n.value \in {"SUB", "NEG"} -> plus(a, minus(b))
                    [] n.value = "MUL" -> times(a, b)
                    [] n.value = "DIV" -> IF b[1] = 0 THEN Undefined ELSE over(a, b)
                    [] n.value = "LT"  ->
                         IF a[1] * b[2] < b[1] * a[2] THEN <<1, 1000>> ELSE <<0, 1>>

Tangent(n, x, env) ==
  CASE n.type \in {"CONST", "CALL"} -> <<0, 1>>
    [] n.type = "VAR" -> IF n.value = x THEN <<1, 1>> ELSE <<0, 1>>
    [] n.type = "OP"  ->
         LET a == IF n.left = NULL THEN <<0, 1>> ELSE ValueOf(n.left, env)
             b == ValueOf(n.right, env)
             da == IF n.left = NULL THEN <<0, 1>> ELSE Tangent(n.left, x, env)
             db == Tangent(n.right, x, env)
         IN  IF Undefined \in {a, b, da, db} THEN Undefined
             ELSE CASE n.value = "ADD" -> plus(da, db)
                    [] n.value \in {"SUB", "NEG"} -> plus(da, minus(db))
                    [] n.value = "MUL" -> plus(times(da, b), times(a, db))
                    [] n.value = "DIV" ->      \* of a = q * b: da = dq * b + q * db
                         IF b[1] = 0 THEN Undefined
                         ELSE over(plus(da, minus(times(over(a, b), db))), b)
                    [] n.value = "LT" -> <<0, 1>>
=============================================================================
