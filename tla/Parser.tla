-------------------------------- MODULE Parser --------------------------------
(***************************************************************************)
(* The recursive descent parser of the frontend (parser.cpp), a function   *)
(* of parser.cpp an operator.  The argument is the position the function   *)
(* starts at, 1 being the first token; the answer is a record of the tree  *)
(* (NULL after an error), the position it stops at, and whether an error   *)
(* was reported.  An error is not an exception: who calls decides whether  *)
(* to look at the tree that was returned.  The functions call one another  *)
(* through `parse`, by name.  The derivative of an expression, which the   *)
(* parser takes when it meets d(...)/d x, is that of derivative.cpp.       *)
(***************************************************************************)
EXTENDS AstDsl

-----------------------------------------------------------------------------
(* get_derivative.  NULL is the answer for a node that has no derivative;  *)
(* below the top of the expression nobody looks for it.                    *)

NUM(num)          == make_number_node(num)
ADD(left, right)  == make_binary_node("ADD", left, right)
SUB(left, right)  == make_binary_node("SUB", left, right)
MUL(left, right)  == make_binary_node("MUL", left, right)
FRAC(left, right) == make_binary_node("DIV", left, right)
NEG(right)        == make_unary_node("NEG", right)

RECURSIVE is_const(_, _)
is_const(node, var) ==
  \/ node = NULL
  \/ is_num(node)
  \/ is_var(node) /\ ~ var_cmp(node, var)
  \/ is_op(node) /\ is_const(node.left, var) /\ is_const(node.right, var)

\* Mutant: the numerator of a quotient is that of a product.
quotient_rule_summed(node, d_left, d_right) ==
  FRAC(ADD(MUL(d_left, node.right), MUL(node.left, d_right)), MUL(node.right, node.right))

quotient_rule(node, d_left, d_right) ==
  FRAC(SUB(MUL(d_left, node.right), MUL(node.left, d_right)), MUL(node.right, node.right))

RECURSIVE get_derivative(_, _)
get_derivative(node, var) ==
  IF var_cmp(node, var) THEN NUM(<<1, 1>>)
  ELSE IF is_const(node, var) THEN NUM(<<0, 1>>)
  ELSE IF ~ is_op(node) THEN NULL
  ELSE LET left  == get_derivative(node.left, var)
           right == get_derivative(node.right, var)
       IN  CASE node.value = "ADD" -> ADD(left, right)
             [] node.value = "SUB" -> SUB(left, right)
             [] node.value = "MUL" -> ADD(MUL(left, node.right), MUL(node.left, right))
             [] node.value = "DIV" -> quotient_rule(node, left, right)
             [] node.value = "NEG" -> NEG(right)
             [] OTHER -> NULL

-----------------------------------------------------------------------------
(* The parser.                                                             *)

VARIABLE tokens       \* records with a type, a str (names) and a num (numbers)

answer(tree, pos, err) == [tree |-> tree, pos |-> pos, err |-> err]
failed(pos) == answer(NULL, pos, TRUE)
nothing(pos) == answer(NULL, pos, FALSE)

peek(p) == tokens[p].type
name_at(p) == tokens[p].str

\* What is left of a list of token types when the tokens at p are taken off,
\* and the position behind those.
RECURSIVE match(_, _)
match(p, types) ==
  IF types # <<>> /\ peek(p) = Head(types) THEN match(p + 1, Tail(types)) ELSE p

Starts(p, types) == match(p, types) = p + Len(types)

\* An answer followed by a token.
consume(a, type) ==
  IF a.tree # NULL /\ peek(a.pos) = type THEN [a EXCEPT !.pos = @ + 1] ELSE failed(a.pos)

\* Mutant: an error in the second part is not reported.
join_silent(type, value, left, right) ==
  answer(make_node(type, value, left.tree, right.tree), right.pos, left.err)

\* A node of two answers, the second of which began where the first ended.
join(type, value, left, right) ==
  answer(make_node(type, value, left.tree, right.tree), right.pos, left.err \/ right.err)

\* A node whose right child must be there.
wrap(type, value, right) ==
  IF right.tree = NULL THEN right ELSE join(type, value, nothing(right.pos), right)

\* Mutant: the right child is not looked at.
pair_unchecked(type, left, right) ==
  IF left.tree = NULL THEN left ELSE join(type, NULL, left, right)

\* A node both of whose children must be there.
pair(type, left, right) ==
  IF left.tree = NULL THEN left
  ELSE IF right.tree = NULL THEN failed(right.pos) ELSE join(type, NULL, left, right)

-----------------------------------------------------------------------------
(* Expressions.  The binary operators by level, loosest first.             *)

\* Mutant: a quotient is read as a product.
OperatorOf_confused(level) ==
  CASE level = "logic" -> [OR |-> "OR"]
    [] level = "and"   -> [AND |-> "AND"]
    [] level = "cmp"   -> [GREATER |-> "GT", LESS |-> "LT", GEQ |-> "GEQ", LEQ |-> "LEQ",
                           EQ |-> "EQ", NEQ |-> "NEQ"]
    [] level = "op"    -> [PLUS |-> "ADD", MINUS |-> "SUB"]
    [] level = "term"  -> [STAR |-> "MUL", SLASH |-> "MUL"]

OperatorOf(level) ==
  CASE level = "logic" -> [OR |-> "OR"]
    [] level = "and"   -> [AND |-> "AND"]
    [] level = "cmp"   -> [GREATER |-> "GT", LESS |-> "LT", GEQ |-> "GEQ", LEQ |-> "LEQ",
                           EQ |-> "EQ", NEQ |-> "NEQ"]
    [] level = "op"    -> [PLUS |-> "ADD", MINUS |-> "SUB"]
    [] level = "term"  -> [STAR |-> "MUL", SLASH |-> "DIV"]

RECURSIVE parse(_, _), more_operands(_, _)

\* parse_logic, parse_and, parse_cmp, parse_op and parse_term: operands of the
\* next level with operators between them, grouped to the left.
NextLevel == [logic |-> "and", and |-> "not", cmp |-> "op", op |-> "deriv", term |-> "unary"]

parse_level(level, p) == more_operands(level, parse(NextLevel[level], p))

more_operands(level, left) ==
  IF left.tree = NULL \/ peek(left.pos) \notin DOMAIN OperatorOf(level) THEN left
  ELSE LET right == parse(NextLevel[level], left.pos + 1)
       IN  IF right.tree = NULL THEN right
           ELSE more_operands(level, join("OP", OperatorOf(level)[peek(left.pos)], left, right))

parse_not(p) ==
  IF peek(p) = "NOT" THEN wrap("OP", "NOT", parse("cmp", p + 1))
                     ELSE parse("cmp", p)

RECURSIVE HasHole(_)
HasHole(e) ==
  \/ e = NULL
  \/ /\ e.type = "OP"
     /\ HasHole(e.right) \/ (e.value \notin {"NEG", "NOT"} /\ HasHole(e.left))

\* The derivative is looked at as a whole: an error below it, which leaves a
\* hole, is reported and goes on into the tree.
differentiated(expr, var_pos) ==
  LET derivative == get_derivative(expr.tree, name_at(var_pos))
  IN  answer(derivative, var_pos + 1, expr.err \/ HasHole(derivative))

parse_deriv(p) ==
  IF peek(p) # "DIFFERENTIAL" THEN parse("term", p)
  ELSE LET expr   == parse("group", p + 1)
           suffix == <<"SLASH", "DIFFERENTIAL", "NAME">>
       IN  IF expr.tree = NULL THEN expr
           ELSE IF ~ Starts(expr.pos, suffix) THEN failed(match(expr.pos, suffix))
           ELSE differentiated(expr, expr.pos + 2)

parse_unary(p) ==
  IF peek(p) = "MINUS" THEN wrap("OP", "NEG", parse("unary", p + 1)) ELSE parse("group", p)

parse_atom(p) ==
  CASE Starts(p, <<"NAME", "GROUP_LEFT">>) -> parse("call", p)
    [] peek(p) = "NUM"  -> answer(make_number_node(tokens[p].num), p + 1, FALSE)
    [] peek(p) = "NAME" /\ peek(p + 1) # "GROUP_LEFT" ->
         answer(make_var_node(name_at(p)), p + 1, FALSE)
    [] OTHER -> failed(p)

parse_group(p) ==
  IF peek(p) = "GROUP_LEFT" THEN consume(parse("logic", p + 1), "GROUP_RIGHT") ELSE parse_atom(p)

\* A list of parameters that failed counts as none, if it is closed there.
Closed(list) == peek(list.pos) = "GROUP_RIGHT"

parse_call(p) ==
  LET params == IF peek(p + 2) = "GROUP_RIGHT" THEN nothing(p + 2) ELSE parse("par", p + 2)
  IN  IF Closed(params)
        THEN answer(make_node("CALL", name_at(p), NULL, params.tree), params.pos + 1, params.err)
        ELSE failed(params.pos)

\* After a comma nobody looks whether the rest has failed.
parse_par(p) ==
  LET expr == parse("logic", p)
  IN  IF expr.tree = NULL THEN expr
      ELSE join("PAR", NULL, expr,
                IF peek(expr.pos) = "COMMA" THEN parse("par", expr.pos + 1) ELSE nothing(expr.pos))

-----------------------------------------------------------------------------
(* Statements and definitions.                                             *)

parse_nvar(p) ==
  LET head == <<"VAR", "NAME", "INIT">>
  IN  IF ~ Starts(p, head) THEN failed(match(p, head))
      ELSE wrap("NVAR", name_at(p + 1), consume(parse("logic", p + 3), "STMT_END"))

parse_ass(p) ==
  LET head == <<"NAME", "ASSIGN">>
  IN  IF ~ Starts(p, head) THEN failed(match(p, head))
      ELSE wrap("ASS", name_at(p), consume(parse("logic", p + 2), "STMT_END"))

parse_ret(p) == wrap("RET", NULL, consume(parse("logic", p + 1), "STMT_END"))

\* What IF and WHILE begin with: a keyword and a condition in parentheses.
condition(p) ==
  IF peek(p + 1) = "GROUP_LEFT"
    THEN consume(parse("logic", p + 2), "GROUP_RIGHT")
    ELSE failed(p + 1)

parse_if(p) ==
  LET cond == condition(p)
  IN  pair("IF", cond, parse("branch", cond.pos))

parse_while(p) ==
  LET cond == condition(p)
  IN  pair("WHILE", cond, parse("stmt", cond.pos))

parse_branch(p) ==
  LET stmt_pos == parse("stmt", p)
  IN  IF stmt_pos.tree = NULL THEN failed(stmt_pos.pos)
      ELSE IF peek(stmt_pos.pos) # "ELSE"
        THEN join("BRANCH", NULL, stmt_pos, nothing(stmt_pos.pos))
        ELSE pair("BRANCH", stmt_pos, parse("stmt", stmt_pos.pos + 1))

parse_stmt(p) ==
  CASE Starts(p, <<"NAME", "GROUP_LEFT">>) -> consume(parse("call", p), "STMT_END")
    [] peek(p) = "NAME" /\ peek(p + 1) # "GROUP_LEFT" -> parse_ass(p)
    [] peek(p) = "VAR"         -> parse_nvar(p)
    [] peek(p) = "BLOCK_START" -> parse("block", p)
    [] peek(p) = "IF"          -> parse_if(p)
    [] peek(p) = "WHILE"       -> parse_while(p)
    [] peek(p) = "RETURN"      -> parse_ret(p)
    [] OTHER                   -> nothing(p)

\* A sequence ends where no statement begins, or where one has failed.
parse_seq(p) ==
  LET stmt == parse("stmt", p)
  IN  IF stmt.tree = NULL THEN stmt ELSE join("SEQ", NULL, stmt, parse("seq", stmt.pos))

parse_block(p) ==
  IF peek(p) = "BLOCK_START"
    THEN wrap("BLOCK", NULL, consume(parse("seq", p + 1), "BLOCK_END"))
    ELSE failed(p)

parse_arg(p) ==
  LET head == <<"VAR", "NAME">>
  IN  IF ~ Starts(p, head) THEN failed(match(p, head))
      ELSE IF peek(p + 2) = "COMMA" THEN wrap("ARG", name_at(p + 1), parse("arg", p + 3))
      ELSE answer(make_node("ARG", name_at(p + 1), NULL, NULL), p + 2, FALSE)

parse_nfun(p) ==
  LET head  == <<"FUNC", "NAME", "GROUP_LEFT">>
      args  == IF peek(p + 3) = "VAR" THEN parse("arg", p + 3) ELSE nothing(p + 3)
      block == parse("block", args.pos + 1)
  IN  IF ~ Starts(p, head) THEN failed(match(p, head))
      ELSE IF ~ Closed(args) THEN failed(args.pos)
      ELSE IF block.tree = NULL THEN block ELSE join("NFUN", name_at(p + 1), args, block)

\* Mutant: a definition is dropped when one behind it failed.
definition_linked_checked(def, rest) ==
  IF rest.err THEN rest ELSE join("DEFS", NULL, def, rest)

definition_linked(def, rest) == join("DEFS", NULL, def, rest)

\* After a definition that failed parsing goes on where it stopped; it ends,
\* wherever that is, in front of a token that begins no definition.
parse_defs(p) ==
  LET def == IF peek(p) = "VAR" THEN parse_nvar(p) ELSE parse_nfun(p)
  IN  IF peek(p) \notin {"VAR", "FUNC"} THEN nothing(p)
      ELSE definition_linked(def, parse("defs", def.pos))

parse(rule, p) ==
  CASE rule \in DOMAIN NextLevel -> parse_level(rule, p)
    [] rule = "not"    -> parse_not(p)
    [] rule = "deriv"  -> parse_deriv(p)
    [] rule = "unary"  -> parse_unary(p)
    [] rule = "group"  -> parse_group(p)
    [] rule = "call"   -> parse_call(p)
    [] rule = "par"    -> parse_par(p)
    [] rule = "arg"    -> parse_arg(p)
    [] rule = "block"  -> parse_block(p)
    [] rule = "seq"    -> parse_seq(p)
    [] rule = "stmt"   -> parse_stmt(p)
    [] rule = "branch" -> parse_branch(p)
    [] rule = "defs"   -> parse_defs(p)

\* The return value of parser_build_tree is 0 if there is a root.
parser_build_tree == parse("defs", 1)
=============================================================================
