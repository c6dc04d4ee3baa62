------------------------------ MODULE MC_CodeGen ------------------------------
(***************************************************************************)
(* Programs of up to three definitions in every order, right and wrong:    *)
(* globals used before, after and without their declaration, functions     *)
(* missing, defined twice, called with a wrong number of arguments or      *)
(* without a return.  And, in a program with one global, every order of    *)
(* declarations, assignments and nested blocks over two names to declare,  *)
(* shadow and redeclare.  And loops, branches, returns and calls nested in *)
(* each other.                                                             *)
(***************************************************************************)
EXTENDS CodeGenInv, StaticRules, AstBuilder

One == Const(1000)

-----------------------------------------------------------------------------
(* Definitions.                                                            *)

Mains ==
  {<<Ret(Call("f", <<One>>))>>,
   <<If(Call("f", <<>>), Block(<<Ret(One)>>))>>,
   <<If(One, Decl("z", Var("x"))), IfElse(Var("z"), Ret(One), Ret(One))>>,
   <<Block(<<Decl("z", One), Assign("z", Var("y"))>>), Ret(Var("z"))>>,
   <<While(One, Block(<<Call("print", <<One>>), Decl("x", Var("x"))>>)), Ret(Var("x"))>>}

Others ==
  {Decl("x", One), Decl("y", Var("x")), Decl("x", Var("x")),
   Decl("x", Call("f", <<One>>)), Decl("y", Call("read", <<>>)),
   Func("f", <<"p">>, <<Ret(Op("ADD", Var("y"), Call("f", <<One>>)))>>),
   Func("f", <<>>, <<Assign("x", One), While(Var("x"), Ret(One))>>),
   Func("print", <<>>, <<Ret(One)>>)}

Main == {Func("main", <<>>, body) : body \in Mains}

\* Any two definitions, and any three of which one is main.
Orders == UpToTwo(Others \cup Main)
          \cup UNION {{<<m, d, e>>, <<d, m, e>>, <<d, e, m>>} : m \in Main, d, e \in Others}

-----------------------------------------------------------------------------
(* Blocks.                                                                 *)

Simple == {Decl("x", One), Decl("y", Var("x")), Assign("x", One)}
Flat   == {Block(ss) : ss \in UpToTwo(Simple)}
Deep   == {Block(<<s, Block(<<t, Decl("y", One)>>), u>>) : s, t, u \in Simple}

\* A declaration may also be the whole of a branch or of a loop's body.
Guarded == {If(One, s) : s \in Simple} \cup {While(One, s) : s \in Simple}

Bodies == {<<s, t, Ret(One)>> : s \in Simple \cup Flat, t \in Simple \cup Flat \cup Guarded}
          \cup {<<s, t, Ret(Var("x"))>> : s \in Deep, t \in Simple}

\* Expressions, and bodies that end with an error.
Ends == {<<Ret(Op("DIV", One, Call("print", <<Var("x")>>)))>>, <<Call("print", <<>>)>>,
         <<Call("y", <<>>)>>, <<Ret(Var("y"))>>, <<Decl("y", One)>>}

Nestings == {<<Decl("x", One), Func("main", <<>>, ss)>> : ss \in Bodies \cup Ends}

-----------------------------------------------------------------------------
(* Control.                                                                *)

Hit   == Call("f", <<>>)
Plain == {Assign("x", One), Hit, Ret(One)}
Inner == Plain \cup {If(Var("x"), s) : s \in Plain}
         \cup {While(c, s) : c \in {Var("x"), Hit}, s \in Plain}
         \cup {IfElse(Var("x"), s, t) : s, t \in Plain}
Outer == {While(Var("x"), Block(<<s>>)) : s \in Inner}
         \cup {IfElse(Hit, s, Block(<<Decl("z", One), t>>)) : s \in Inner, t \in Plain}
         \cup {If(Var("x"), s) : s \in Inner}

Controls ==
  {<<Decl("x", One), Func("f", <<>>, <<Ret(One)>>), Func("main", <<>>, <<s, Ret(One)>>)>> :
     s \in Outer}

-----------------------------------------------------------------------------

Programs == {Defs(ds) : ds \in Orders \cup Nestings \cup Controls}
Nodes    == AllSubtrees(Programs)
Names    == {"x", "y", "z", "f", "p", "main", "print", "read", "sqrt"}

\* TLC evaluates a definition without parameters once, but not one that is
\* given to a constant: these names keep the sets above from being rebuilt.
MCProgram == Programs
MCNode    == Nodes
MCName    == Names
=============================================================================
