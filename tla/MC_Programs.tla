------------------------------ MODULE MC_Programs ------------------------------
(***************************************************************************)
(* Programs compiled, encoded and run: loops, branches, returns and calls  *)
(* nested in each other, with loops whose condition or body is a bare      *)
(* call; and every operator, calls within calls and within operators,      *)
(* arguments, returns from inside blocks, locals in both functions, and    *)
(* recursion up to the end of the stack.                                   *)
(***************************************************************************)
EXTENDS Backend, AstBuilder

One  == Const(1000)
G    == Var("g")
Less == Op("LT", G, One)

-----------------------------------------------------------------------------
(* Control.                                                                *)

Hit    == Call("f", <<>>)
Simple == {Assign("g", One), Hit, Ret(One)}
Inner  == Simple \cup {If(Less, s) : s \in Simple} \cup {While(c, s) : c \in {Less, Hit}, s \in Simple}
          \cup {IfElse(Less, s, t) : s, t \in Simple}
Outer  == {While(Less, Block(<<s>>)) : s \in Inner}
          \cup {IfElse(Hit, s, Block(<<Decl("x", One), t>>)) : s \in Inner, t \in Simple}
          \cup {If(Less, s) : s \in Inner}

ControlPrograms ==
  {Defs(<<Decl("g", One), Func("f", <<>>, <<Ret(G)>>),
          Func("main", <<>>, <<s, Ret(One)>>)>>) : s \in Outer}

-----------------------------------------------------------------------------
(* Operands and frames.                                                    *)

F(e) == Call("f", <<e, One>>)

Values == {One, F(One), Unary("NEG", G), Unary("NOT", F(G)),
           Op("DIV", F(One), G), Op("MUL", G, F(F(One))), Op("LEQ", F(G), Call("read", <<>>)),
           Op("ADD", One, Op("SUB", F(One), Call("sqrt", <<Op("EQ", G, F(G))>>)))}

Stores(e) == {Assign("g", e), Decl("x", e), Ret(e), Call("print", <<e>>)}

Nested(e) ==
  {If(e, s) : s \in Stores(One)}
  \cup {While(Op("GT", e, One), Block(<<Decl("y", e), s>>)) : s \in Stores(G)}
  \cup {IfElse(G, s, Block(<<Decl("y", One), Decl("x", e)>>)) : s \in {Ret(One), F(e)}}

InMain == UNION {Stores(e) \cup Nested(e) : e \in Values}

\* f has no locals and returns at once; or it has some and may call itself.
InF == {<<Ret(One)>>,
        <<Decl("x", One), If(G, Block(<<Decl("y", Call("f", <<Var("x"), G>>)), Ret(Var("y"))>>)),
          Decl("y", G), Ret(Var("x"))>>}

FramePrograms ==
  {Defs(<<Decl("g", One), Decl("h", G), Func("f", <<"a", "b">>, body),
          Func("main", <<>>, <<s, Ret(One)>>)>>) : body \in InF, s \in InMain}

-----------------------------------------------------------------------------
(* An expression of 64 operands, with less code than a page, and one of    *)
(* 128, with more.                                                         *)

Product[n \in 0..7] == IF n = 0 THEN G ELSE Op("MUL", Product[n - 1], Product[n - 1])

LargePrograms ==
  {Defs(<<Decl("g", One), Func("main", <<>>, <<Ret(Product[n])>>)>>) : n \in {6, 7}}

-----------------------------------------------------------------------------
(* Programs where the compiled program is not what the documentation says, *)
(* each for a run of its own: a function that uses its parameter, and a    *)
(* loop whose body or whose condition is a bare call.                      *)

Parameters == {Defs(<<Func("f", <<"a">>, <<Ret(Var("a"))>>), Func("main", <<>>, <<Ret(One)>>)>>)}

LooseLoops ==
  {Defs(<<Decl("g", One), Func("f", <<>>, <<Ret(One)>>), Func("main", <<>>, <<s, Ret(One)>>)>>) :
     s \in {While(G, Hit), While(Hit, Assign("g", One))}}

ParameterNodes == AllSubtrees(Parameters)
LoopNodes      == AllSubtrees(LooseLoops)

-----------------------------------------------------------------------------

Programs == ControlPrograms \cup FramePrograms \cup LargePrograms
Nodes == AllSubtrees(Programs)
Names == {"g", "h", "x", "y", "a", "b", "f", "main", "print", "read", "sqrt"}

\* TLC evaluates a definition without parameters once, but not one that is
\* given to a constant: these names keep the sets above from being rebuilt.
MCProgram == Programs
MCNode    == Nodes
MCName    == Names
=============================================================================
