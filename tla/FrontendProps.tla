---------------------------- MODULE FrontendProps ----------------------------
(***************************************************************************)
(* The grammar of TypoLang as a printer (README.md, table 1): the tokens   *)
(* of a tree, with parentheses where the precedence of operators asks for  *)
(* them and nowhere else.  The parser is the inverse of it.                *)
(***************************************************************************)
EXTENDS Frontend, AstShape
LOCAL INSTANCE SequencesExt
LOCAL INSTANCE FiniteSetsExt

CONSTANT Environment    \* values of variables and results of calls: fractions by name

\* A derivative cannot be an operand of 8 or / or of a unary minus without
\* parentheses, though the table gives it a higher precedence.
Prec(n) ==
  CASE n.type = "DIFF" -> 6
    [] n.type # "OP"   -> 9
    [] OTHER -> CASE n.value = "OR"  -> 1
                  [] n.value = "AND" -> 2
                  [] n.value = "NOT" -> 3
                  [] n.value \in {"ADD", "SUB"} -> 5
                  [] n.value \in {"MUL", "DIV"} -> 7
                  [] n.value = "NEG" -> 8
                  [] OTHER           -> 4

IsBinary(n) == n.type = "OP" /\ n.value \notin {"NEG", "NOT"}

RECURSIVE Source(_), Operand(_, _), Stmt(_)
Source(n) ==
  IF n = NULL THEN <<>>
  ELSE LET own == make_name_token(n.value)
       IN
       CASE n.type \in {"DEFS", "SEQ"} -> Stmt(n.left) \o Source(n.right)
         [] n.type = "NVAR"  -> Tokens(<<"VAR">>) \o <<own>> \o Tokens(<<"INIT">>)
                                  \o Source(n.right) \o Tokens(<<"STMT_END">>)
         [] n.type = "NFUN"  -> Tokens(<<"FUNC">>) \o <<own>> \o Tokens(<<"GROUP_LEFT">>)
                                  \o Source(n.left) \o Tokens(<<"GROUP_RIGHT">>) \o Source(n.right)
         [] n.type = "ARG"   -> Tokens(<<"VAR">>) \o <<own>> \o Comma(n) \o Source(n.right)
         [] n.type = "BLOCK" -> Tokens(<<"BLOCK_START">>) \o Source(n.right) \o Tokens(<<"BLOCK_END">>)
         [] n.type = "ASS"   -> <<own>> \o Tokens(<<"ASSIGN">>) \o Source(n.right)
                                  \o Tokens(<<"STMT_END">>)
         [] n.type \in {"IF", "WHILE"} -> Tokens(<<n.type, "GROUP_LEFT">>) \o Source(n.left)
                                            \o Tokens(<<"GROUP_RIGHT">>) \o Stmt(n.right)
         [] n.type = "BRANCH" ->
              Stmt(n.left) \o (IF n.right = NULL THEN <<>> ELSE Tokens(<<"ELSE">>) \o Stmt(n.right))
         [] n.type = "RET"   -> Tokens(<<"RETURN">>) \o Source(n.right) \o Tokens(<<"STMT_END">>)
         [] n.type = "CALL"  -> <<own>> \o Tokens(<<"GROUP_LEFT">>) \o Source(n.right)
                                  \o Tokens(<<"GROUP_RIGHT">>)
         [] n.type = "PAR"   -> Source(n.left) \o Comma(n) \o Source(n.right)
         [] n.type = "DIFF"  -> Tokens(<<"DIFFERENTIAL", "GROUP_LEFT">>) \o Source(n.left)
                                  \o Tokens(<<"GROUP_RIGHT", "SLASH", "DIFFERENTIAL">>) \o <<own>>
         [] n.type = "VAR"   -> <<own>>
         [] n.type = "CONST" -> <<make_num_token(n.value)>>
         [] n.value = "NOT"  -> Tokens(<<"NOT">>) \o Operand(n.right, 4)
         [] n.value = "NEG"  -> Tokens(<<"MINUS">>) \o Operand(n.right, 8)
         [] OTHER -> Operand(n.left, Prec(n)) \o Tokens(<<get_op_token(n.value)>>)
                       \o Operand(n.right, Prec(n) + 1)

Operand(n, least) ==
  IF n = NULL \/ Prec(n) >= least THEN Source(n)
  ELSE Tokens(<<"GROUP_LEFT">>) \o Source(n) \o Tokens(<<"GROUP_RIGHT">>)

\* A call is a statement when a terminator follows it.
Stmt(n) ==
  Source(n) \o (IF n # NULL /\ n.type = "CALL" THEN Tokens(<<"STMT_END">>) ELSE <<>>)

-----------------------------------------------------------------------------
(* Reading.                                                                *)

Parsed   == flow \in {"parsed", "refused"} /\ source = <<>>
Unchanged == input.change = 0
HasDerivative == \E i \in 1..Len(input.tokens) : input.tokens[i].type = "DIFFERENTIAL"

\* The precedences and the grouping to the left are those of the table: what
\* the grammar writes for a tree is read as that tree, up to the end.
WrittenTreesAreRead ==
  Parsed /\ Unchanged /\ ~ HasDerivative =>
    read = answer(input.written, Len(input.tokens), FALSE)

IsParenthesis(t)  == t.type \in {"GROUP_LEFT", "GROUP_RIGHT"}
NoParens(list)    == SelectSeq(list, LAMBDA t : ~ IsParenthesis(t))
CountOf(list, type) == Quantify(DOMAIN list, LAMBDA i : list[i].type = type)

\* What is left of `list` when its tokens are found one after the other.
NotFoundIn(list, among) ==
  FoldLeft(LAMBDA rest, t : IF rest # <<>> /\ Head(rest) = t THEN Tail(rest) ELSE rest, list, among)

\* The parser reports an error exactly if it took tokens that are not in the
\* tree, though many of its functions go on with what is left of a part that
\* failed; and nothing is in the tree that was not read, in that order.
\* Parentheses are in no tree, but they come in pairs.
NothingLostUnreported ==
  Parsed /\ read.tree # NULL /\ ~ HasDerivative =>
    LET taken == SubSeq(input.tokens, 1, read.pos - 1)
        kept  == NoParens(Source(read.tree))
    IN  /\ NotFoundIn(kept, NoParens(taken)) = <<>>
        /\ ~ read.err <=>
             /\ kept = NoParens(taken)
             /\ CountOf(taken, "GROUP_LEFT") = CountOf(taken, "GROUP_RIGHT")

RECURSIVE Definitions(_)
Definitions(n) == IF n = NULL THEN <<>> ELSE <<n.left>> \o Definitions(n.right)

\* Whatever is wrong behind it, and however far the parser is carried away by
\* it, a definition that is complete before the first change to a program is
\* read as it was written.
EarlierDefinitionsKept ==
  Parsed /\ ~ Unchanged =>
    \A k \in 1..Len(Definitions(input.written)) :
      LET written == Definitions(input.written)
          length  == Len(FlattenSeq([i \in 1..k |-> Source(written[i])]))
      IN  length < input.change =>
            /\ Len(Definitions(read.tree)) >= k
            /\ Definitions(read.tree)[k] = written[k]

TypeOf(n) == IF n = NULL THEN "none" ELSE n.type

WellShaped(n) ==
  /\ TypeOf(n.left) \in LeftChild(n.type)
  /\ TypeOf(n.right) \in RightChild(n.type)
  /\ n.type = "OP" => (n.left = NULL <=> ~ IsBinary(n))

\* The midend and the backend look at a child where the type of a node says
\* there is one.  A tree that was read without an error has all of them; what
\* may be missing else is a whole definition, or a part of a derivative.
HolesAreReported ==
  Parsed /\ read.tree # NULL =>
    /\ \A n \in Subtrees(read.tree) :
         WellShaped(n) \/ n.type = "DEFS" \/ (n.type = "OP" /\ HasDerivative)
    /\ (\E n \in Subtrees(read.tree) : ~ WellShaped(n)) => read.err

-----------------------------------------------------------------------------
(* Derivatives.                                                            *)

Depends(n, x) == \E m \in Subtrees(n) : m.type = "CALL" \/ (m.type = "VAR" /\ m.value = x)

\* Calls and conditions have no derivative where the variable may be in them.
Differentiable(n, x) ==
  \A m \in Subtrees(n) :
    Depends(m, x) => m.type = "VAR" \/ (m.type = "OP" /\ m.value \in {"ADD", "SUB", "MUL", "DIV", "NEG"})

\* An expression with derivatives in it has the value the calculus gives it
\* wherever that has one; and an error is reported exactly for an expression
\* that cannot be differentiated, though get_derivative returns NULL far below
\* the node the parser looks at.
DerivativesCorrect ==
  Parsed /\ Unchanged /\ HasDerivative =>
    LET written == input.written.left.right
        tree    == read.tree.left.right
    IN  /\ (read.tree # NULL /\ ~ read.err) <=>
             \A n \in Subtrees(written) : n.type = "DIFF" => Differentiable(n.left, n.value)
        /\ read.tree # NULL /\ ~ read.err =>
             \A env \in Environment :
               ValueOf(written, env) # Undefined =>
                 /\ ValueOf(tree, env) # Undefined
                 /\ Same(ValueOf(tree, env), ValueOf(written, env))

-----------------------------------------------------------------------------
(* Decompiling.                                                            *)

\* The text made of tokens has spaces enough: it is read as the same tokens.
TextKeepsTokens ==
  flow = "lexed again" =>
    LET made == decompile_node(read.tree)
    IN  /\ Len(tokens) = Len(made) + 1
        /\ \A i \in DOMAIN made :
             tokens[i].type = made[i].type /\ tokens[i].str = made[i].str

\* Where the decompiled text is not that of the tree.  The operator behind a
\* left operand in parentheses is not written; an operand on the right that
\* needs parentheses to stay there does not get them; a negation of a negation
\* needs them as well; a call that is no statement of a sequence gets no
\* terminator; and a definition that is not there is not written.
Altered(n) ==
  \/ IsBinary(n) /\ Prec(n.left) < Prec(n)
  \/ IsBinary(n) /\ Prec(n.right) = Prec(n) /\ n.value \notin {"SUB", "DIV"}
  \/ n.value = "NOT" /\ n.right.type = "OP" /\ n.right.value = "NOT"
  \/ n.type = "BRANCH" /\ "CALL" \in {TypeOf(n.left), TypeOf(n.right)}
  \/ n.type = "WHILE" /\ n.right.type = "CALL"
  \/ n.type = "DEFS" /\ n.left = NULL

\* A tree is decompiled into a program that is read as that tree again, up to
\* thousandths, except for exactly those that have one of these places.
DecompiledTreesReadBack ==
  flow = "parsed again" /\ ~ (read.err /\ HasDerivative) =>
    (~ again.err /\ Rounded(again.tree) = Rounded(read.tree))
      <=> \A n \in Subtrees(read.tree) : ~ Altered(n)

-----------------------------------------------------------------------------
(* What the documentation says and the code does not do.                   *)

\* parser.h:11: the parser returns 0 upon successful compilation, -1
\* otherwise.  The tree it answers with 0 is that of the whole text, and no
\* error was reported on the way.
OnlyWholeProgramsAccepted ==
  Parsed => ~ read.err /\ read.pos = Len(input.tokens)

\* front_flags.h:81: the frontend converts a tree back to code.  The code
\* made of a tree is read as that tree again, up to thousandths.
CodeMadeOfTreesReadsBack ==
  flow = "parsed again" /\ ~ read.err =>
    ~ again.err /\ Rounded(again.tree) = Rounded(read.tree)
=============================================================================
