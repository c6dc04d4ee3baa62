----------------------------- MODULE MC_Frontend -----------------------------
(***************************************************************************)
(* Expressions of every pair of operators one below the other, programs of *)
(* every kind of statement, the programs that differ from some of these in *)
(* one token or end too early, and derivatives.                            *)
(***************************************************************************)
EXTENDS FrontendProps
LOCAL INSTANCE SequencesExt

x == <<"x">>
y == <<"y">>
f == <<"f">>

List(type, items) == FoldRight(LAMBDA item, rest : make_node(type, NULL, item, rest), items, NULL)

Num(n)             == make_number_node(<<n, 1>>)
Var(name)          == make_var_node(name)
Op(op, l, r)       == make_binary_node(op, l, r)
Call(name, pars)   == make_node("CALL", name, NULL, List("PAR", pars))
Decl(name, e)      == make_node("NVAR", name, NULL, e)
Assign(name, e)    == make_node("ASS", name, NULL, e)
Ret(e)             == make_node("RET", NULL, NULL, e)
Block(stmts)       == make_node("BLOCK", NULL, NULL, List("SEQ", stmts))
While(c, s)        == make_node("WHILE", NULL, c, s)
If(c, s)           == make_node("IF", NULL, c, make_node("BRANCH", NULL, s, NULL))
IfElse(c, s, t)    == make_node("IF", NULL, c, make_node("BRANCH", NULL, s, t))
Func(name, params, stmts) ==
  make_node("NFUN", name,
            FoldRight(LAMBDA p, rest : make_node("ARG", p, NULL, rest), params, NULL),
            Block(stmts))
Defs(definitions)  == List("DEFS", definitions)
Diff(e)            == make_node("DIFF", x, e, NULL)

-----------------------------------------------------------------------------
(* Expressions.                                                            *)

Operators == {"ADD", "SUB", "MUL", "DIV", "GT", "EQ", "AND", "OR"}

Binary(ops, ls, rs) == {Op(op, l, r) : op \in ops, l \in ls, r \in rs}
Unary(ops, es)      == {make_unary_node(op, e) : op \in ops, e \in es}

Leaves == {Var(x), make_number_node(<<3, 2>>), Call(f, <<Var(x)>>)}
Simple == Binary(Operators, {Var(x)}, {Num(8)}) \cup Unary({"NEG", "NOT"}, {Var(y)})
Double == Binary(Operators, Leaves \cup Simple, Leaves \cup Simple)
            \cup Unary({"NEG", "NOT"}, Leaves \cup Simple)
Nested ==
  LET inner == Binary({"SUB", "MUL", "OR", "EQ"}, {Var(y)}, Simple)
                 \cup Unary({"NEG", "NOT"}, Simple)
  IN  Binary(Operators, {Var(x)}, inner) \cup Binary(Operators, inner, {Var(x)})
        \cup Unary({"NEG", "NOT"}, inner)

Calls == {Call(f, <<>>), Call(f, <<Op("OR", Var(x), Var(y))>>), Call(f, <<Var(x), Num(0), Var(y)>>)}

Global(e) == Defs(<<Decl(x, e)>>)

-----------------------------------------------------------------------------
(* Programs.                                                               *)

Cond == Op("GT", Var(x), Num(1))
Step == Assign(x, Op("ADD", Var(x), Num(1)))

Statements ==
  {Step, Decl(y, Var(x)), Ret(Var(x)), Call(f, <<>>), Call(f, <<Var(x), Var(y)>>),
   Block(<<Step>>), Block(<<Ret(Var(y)), Call(f, <<Var(x)>>)>>)}

Compound ==
  {While(Cond, s) : s \in Statements} \cup {If(Cond, s) : s \in Statements}
    \cup {IfElse(Cond, s, t) : s, t \in Statements}
    \cup {If(Cond, IfElse(Cond, Step, s)) : s \in Statements}
    \cup {IfElse(Cond, Step, If(Cond, s)) : s \in Statements}

Programs ==
  {Defs(<<Func(f, <<>>, <<s>>)>>) : s \in Statements \cup Compound}
    \cup {Defs(<<Func(f, <<x, y>>, <<s, t>>)>>) : s, t \in Statements}
    \cup {Defs(<<Decl(x, Num(1)), Func(f, <<x>>, <<Ret(Var(x))>>), Decl(y, Var(x))>>)}

\* Programs whose tokens are changed.
Sketches ==
  {Defs(<<Decl(x, Num(1)), Func(f, <<x, y>>, <<Call(f, <<Var(x), Var(y)>>)>>), Decl(y, Var(x))>>),
   Defs(<<Func(f, <<x>>, <<If(Cond, Step), Ret(Var(x))>>), Decl(y, Var(x))>>),
   Defs(<<Func(f, <<>>, <<IfElse(Var(x), Step, Call(f, <<>>)), Decl(y, Var(x))>>)>>),
   Defs(<<Func(f, <<>>, <<While(Var(x), Block(<<Step>>)), Step>>), Func(x, <<>>, <<Step>>)>>),
   Global(Op("MUL", Op("SUB", Var(x), Var(y)), Call(f, <<make_unary_node("NEG", Var(x))>>)))}

SomeTokens ==
  Range(Tokens(<<"VAR", "FUNC", "BLOCK_START", "BLOCK_END", "INIT", "STMT_END", "GROUP_LEFT",
                 "GROUP_RIGHT", "COMMA", "MINUS", "NOT", "GREATER", "ELSE">>))
    \cup {make_name_token(x)}

Changes(list) ==
  LET before(i) == SubSeq(list, 1, i - 1)
      from(i)   == SubSeq(list, i, Len(list))
  IN  UNION {{[change |-> i, tokens |-> before(i) \o part] :
                part \in {<<>>, from(i + 1)} \cup {<<t>> \o from(i) : t \in SomeTokens}
                           \cup {<<t>> \o from(i + 1) : t \in SomeTokens}} : i \in DOMAIN list}

-----------------------------------------------------------------------------
(* Derivatives.                                                            *)

Terms ==
  LET leaves == {Var(x), Var(y), Num(3), Call(f, <<Var(y)>>)}
      sums   == Binary({"ADD", "SUB", "MUL", "DIV", "LT"}, leaves, leaves)
  IN  leaves \cup sums \cup Unary({"NEG", "NOT"}, {Var(x), Op("MUL", Var(x), Var(x))})
        \cup Binary({"SUB", "MUL", "DIV"}, sums, {Var(x), Op("ADD", Var(x), Var(y))})
        \cup Binary({"SUB", "MUL", "DIV"}, {Var(x), Op("ADD", Var(x), Var(y))}, sums)

Derivatives ==
  {Diff(e) : e \in Terms}
    \cup {Op("SUB", Diff(Op("MUL", Var(x), Var(x))), Var(x)), make_unary_node("NEG", Diff(Var(x))),
          Op("MUL", Var(y), Diff(Op("DIV", Var(y), Var(x)))),
          Op("ADD", Diff(Op("DIV", Var(x), Var(y))), Diff(Var(x)))}

-----------------------------------------------------------------------------

MCInput ==
  {[change |-> 0, written |-> t, tokens |-> Append(Source(t), EOF)] :
     t \in {Global(e) : e \in Double \cup Nested \cup Calls \cup Derivatives} \cup Programs}
  \cup UNION {{[change |-> c.change, written |-> t, tokens |-> Append(c.tokens, EOF)] :
                 c \in Changes(Source(t))} : t \in Sketches}

\* Two inputs by themselves: a definition without an initializer in front of a
\* program, and a difference in parentheses as the left operand of a product.
FailedDefinition ==
  LET list == Tokens(<<"VAR">>) \o <<make_name_token(y)>> \o Tokens(<<"INIT", "STMT_END">>)
      rest == Source(Defs(<<Func(f, <<>>, <<Step>>)>>))
  IN  {[change |-> 4, written |-> NULL, tokens |-> Append(list \o rest, EOF)],
       [change |-> 4, written |-> NULL, tokens |-> Append(rest \o list, EOF)]}

LostOperator ==
  LET tree == Global(Op("MUL", Op("SUB", Var(x), Var(y)), Var(x)))
  IN  {[change |-> 0, written |-> tree, tokens |-> Append(Source(tree), EOF)]}

MCEnvironment ==
  {(x :> <<2, 1>>) @@ (y :> <<-3, 1>>) @@ (f :> <<5, 1>>),
   (x :> <<-1, 1>>) @@ (y :> <<0, 1>>) @@ (f :> <<0, 1>>),
   (x :> <<3, 2>>) @@ (y :> <<5, 1>>) @@ (f :> <<-2, 1>>)}
=============================================================================
