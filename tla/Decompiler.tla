------------------------------ MODULE Decompiler ------------------------------
(***************************************************************************)
(* The decompiler (decompiler.cpp): a walk over the tree in which every    *)
(* node may produce tokens before and after each of its children.          *)
(***************************************************************************)
EXTENDS TokenList

Tokens(types) == [i \in 1..Len(types) |-> make_token(types[i])]

is_logic(op) == op \in {"AND", "OR", "NOT"}
is_cmp(op)   == op \in {"LT", "GT", "LEQ", "GEQ", "EQ", "NEQ"}

get_op_token(op) ==
  CASE op = "ADD" -> "PLUS"   [] op \in {"SUB", "NEG"} -> "MINUS"
    [] op = "MUL" -> "STAR"   [] op = "DIV" -> "SLASH"
    [] op = "GT"  -> "GREATER" [] op = "LT" -> "LESS"
    [] OTHER      -> op

require_left_group(node) ==
  /\ is_op(node.left)
  /\ LET op    == node.value
         inner == node.left.value
     IN  CASE op \in {"OR", "NEG"} -> FALSE
           [] op = "AND" -> inner = "OR"
           [] op = "NOT" -> inner \in {"OR", "AND"}
           [] is_cmp(op) -> is_logic(inner)
           [] op \in {"ADD", "SUB"} -> is_logic(inner) \/ is_cmp(inner)
           [] op \in {"MUL", "DIV"} ->
                is_logic(inner) \/ is_cmp(inner) \/ inner \in {"ADD", "SUB"}

\* Mutant: the right operand of a difference is taken for that of a sum.
require_right_group_as_left(node) ==
  /\ is_op(node.right)
  /\ LET op    == node.value
         inner == node.right.value
     IN  CASE op = "OR"  -> FALSE
           [] op = "AND" -> inner = "OR"
           [] op = "NOT" -> inner \in {"OR", "AND"}
           [] is_cmp(op) -> is_logic(inner)
           [] op \in {"ADD", "SUB"} -> is_logic(inner) \/ is_cmp(inner)
           [] op = "MUL" -> is_logic(inner) \/ is_cmp(inner) \/ inner \in {"ADD", "SUB"}
           [] op \in {"NEG", "DIV"} -> inner # "NEG"

require_right_group(node) ==
  /\ is_op(node.right)
  /\ LET op    == node.value
         inner == node.right.value
     IN  CASE op = "OR"  -> FALSE
           [] op = "AND" -> inner = "OR"
           [] op = "NOT" -> inner \in {"OR", "AND"}
           [] is_cmp(op) -> is_logic(inner)
           [] op = "ADD" -> is_logic(inner) \/ is_cmp(inner)
           [] op \in {"MUL", "SUB"} ->
                is_logic(inner) \/ is_cmp(inner) \/ inner \in {"ADD", "SUB"}
           [] op \in {"NEG", "DIV"} -> inner # "NEG"

Parenthesis(needed, type) == IF needed THEN <<make_token(type)>> ELSE <<>>
Comma(node) == IF node.right # NULL THEN <<make_token("COMMA")>> ELSE <<>>

on_decompiling_left(node) ==
  CASE node.type \in {"NVAR", "ARG"} -> <<make_token("VAR"), make_name_token(node.value)>>
    [] node.type = "NFUN" ->
         <<make_token("FUNC"), make_name_token(node.value), make_token("GROUP_LEFT")>>
    [] node.type \in {"ASS", "CALL", "VAR"} -> <<make_name_token(node.value)>>
    [] node.type \in {"IF", "WHILE"} -> Tokens(<<node.type, "GROUP_LEFT">>)
    [] node.type = "OP"    -> Parenthesis(require_left_group(node), "GROUP_LEFT")
    [] node.type = "CONST" -> <<make_num_token(node.value)>>
    [] OTHER -> <<>>

\* The token of an operator stands in the place of the closing parenthesis.
on_decompiled_left(node) ==
  CASE node.type = "NVAR" -> Tokens(<<"INIT">>)
    [] node.type = "ASS"  -> Tokens(<<"ASSIGN">>)
    [] node.type \in {"NFUN", "IF", "WHILE"} -> Tokens(<<"GROUP_RIGHT">>)
    [] node.type \in {"ARG", "PAR"} -> Comma(node)
    [] node.type = "SEQ" /\ node.left.type = "CALL" -> Tokens(<<"STMT_END">>)
    [] node.type = "BRANCH" /\ node.right # NULL -> Tokens(<<"ELSE">>)
    [] node.type = "OP" ->
         IF require_left_group(node) THEN Tokens(<<"GROUP_RIGHT">>)
                                     ELSE Tokens(<<get_op_token(node.value)>>)
    [] OTHER -> <<>>

on_decompiling_right(node) ==
  CASE node.type = "BLOCK" -> Tokens(<<"BLOCK_START">>)
    [] node.type = "RET"   -> Tokens(<<"RETURN">>)
    [] node.type = "CALL"  -> Tokens(<<"GROUP_LEFT">>)
    [] node.type = "OP"    -> Parenthesis(require_right_group(node), "GROUP_LEFT")
    [] OTHER -> <<>>

on_decompiled_right(node) ==
  CASE node.type \in {"NVAR", "ASS", "RET"} -> Tokens(<<"STMT_END">>)
    [] node.type = "BLOCK" -> Tokens(<<"BLOCK_END">>)
    [] node.type = "CALL"  -> Tokens(<<"GROUP_RIGHT">>)
    [] node.type = "OP"    -> Parenthesis(require_right_group(node), "GROUP_RIGHT")
    [] OTHER -> <<>>

RECURSIVE decompile_node(_)
decompile_node(node) ==
  IF node = NULL THEN <<>>
  ELSE on_decompiling_left(node) \o decompile_node(node.left) \o on_decompiled_left(node)
         \o on_decompiling_right(node) \o decompile_node(node.right)
         \o on_decompiled_right(node)
=============================================================================
