------------------------------ MODULE AstShape ------------------------------
(***************************************************************************)
(* The shape of the syntax trees: which node types may stand left and      *)
(* right of a node of each type.  "none" is an absent child.               *)
(***************************************************************************)

op_type == {"ADD", "SUB", "MUL", "DIV", "NEG", "AND", "OR", "NOT",
            "EQ", "NEQ", "LT", "GT", "LEQ", "GEQ"}

Expression == {"OP", "CALL", "VAR", "CONST"}
Statement  == {"NVAR", "ASS", "BLOCK", "IF", "WHILE", "RET", "CALL"}
Named      == {"NVAR", "NFUN", "ARG", "ASS", "CALL", "VAR"}

NodeType == Expression \cup Statement
              \cup {"DEFS", "NFUN", "ARG", "SEQ", "BRANCH", "PAR"}

LeftChild(type) ==
  CASE type = "DEFS"                   -> {"NVAR", "NFUN"}
    [] type = "NFUN"                   -> {"ARG", "none"}
    [] type \in {"SEQ", "BRANCH"}      -> Statement
    [] type \in {"IF", "WHILE", "PAR"} -> Expression
    [] type = "OP"                     -> Expression \cup {"none"}
    [] OTHER                           -> {"none"}

RightChild(type) ==
  CASE type \in {"NVAR", "ASS", "RET", "OP"} -> Expression
    [] type = "NFUN"                         -> {"BLOCK"}
    [] type = "BLOCK"                        -> {"SEQ"}
    [] type = "IF"                           -> {"BRANCH"}
    [] type = "BRANCH"                       -> Statement \cup {"none"}
    [] type = "WHILE"                        -> Statement
    [] type \in {"DEFS", "ARG", "SEQ", "PAR"} -> {type, "none"}
    [] type = "CALL"                         -> {"PAR", "none"}
    [] OTHER                                 -> {"none"}
=============================================================================
