------------------------------ MODULE MC_Meaning ------------------------------
(***************************************************************************)
(* Programs whose result tells apart the order of operands, the scale of   *)
(* numbers, conditions, variables and the order of effects.                *)
(***************************************************************************)
EXTENDS Processor, AstBuilder

G == Var("g")
I == Var("i")
Zero == Const(0)
Half == Const(500)
Two  == Const(2000)
Minus(e) == Unary("NEG", e)

\* next() counts g up and returns the old value; read() gives 2500, -1500, 500
\* and 2500 again, line by line.
Lines == << <<50, 53, 48, 48, NEWLINE>>, <<MINUS, 49, 53, 48, 48, NEWLINE>>,
            <<53, 48, 48, NEWLINE>> >>
MCInput == [i \in 1..24 |-> Lines[(i % 3) + 1]]
Next1 == Call("next", <<>>)
CountUp == Func("next", <<>>, <<Decl("old", G), Assign("g", Op("ADD", G, Const(1000))), Ret(Var("old"))>>)

Programs(stmts) == Defs(<<Decl("g", Const(3000)), Decl("h", Op("SUB", G, Two)), CountUp,
                          Func("main", <<>>, stmts)>>)

Show(e) == Call("print", <<e>>)

-----------------------------------------------------------------------------
(* Expressions: a program prints the values of one after the other.        *)

Prints(es) ==
  Programs([i \in 1..Len(es) |-> Show(es[i])] \o <<Ret(Op("ADD", G, Var("h")))>>)

arithmetic == <<"ADD", "SUB", "MUL", "DIV">>
comparison == <<"LT", "GT", "LEQ", "GEQ", "EQ", "NEQ">>

Simple == {Two, Minus(Half), G, Next1, Call("read", <<>>)}

Sqrt(e) == Call("sqrt", <<e>>)
Roots == << Sqrt(Zero), Sqrt(Half), Op("SUB", Sqrt(Next1), Sqrt(Next1)), Op("DIV", G, Sqrt(Sqrt(G))) >>

Sums(a, b)  == [i \in 1..4 |-> Op(arithmetic[i], a, b)]
Tests(a, b) == [i \in 1..6 |-> Op(comparison[i], a, b)]
Denied(es)  == [i \in 1..Len(es) |-> Unary("NOT", es[i])]

Nested(op, p) ==
  [i \in 1..4 |-> Op(op, Op(p, G, Next1), Op(arithmetic[i], Next1, Minus(Half)))]

Less == Op("LT", Next1, G)
More == Op("GT", G, Two)
Truths(op, a) ==
  << Op(op, a, Less), Op(op, Less, a), Op(op, a, Unary("NOT", More)), Op(op, Unary("NOT", Less), a) >>

Expressions ==
  {Sums(a, b) : a, b \in Simple}
  \cup {Tests(a, b) \o Denied(Tests(a, b)) : a, b \in Simple}
  \cup {Roots}
  \cup {Nested(arithmetic[i], arithmetic[j]) : i, j \in 1..4}
  \cup {Truths(op, a) : op \in {"AND", "OR"}, a \in {Less, More}}
  \cup {<<G, Op("DIV", a, b), G>> : a \in {G, Minus(Next1)}, b \in {Zero, Op("SUB", G, G), Const(3000)}}

-----------------------------------------------------------------------------
(* Statements.                                                             *)

Increase(x, e) == Assign(x, Op("ADD", Var(x), e))
Loop(s) == While(Op("LT", I, Two), Block(<<Increase("i", Const(1000)), s>>))

Inner == {Show(Next1), If(Op("EQ", I, Two), Ret(I)), Increase("h", Next1),
          Block(<<Decl("g", I), Increase("g", Half), Show(G)>>),
          IfElse(Op("LT", Var("h"), G), Show(I), Block(<<Show(G), Ret(Half)>>)),
          Block(<<Decl("i", Half), Loop(Show(I)), Show(I)>>)}

Statements ==
  {<<Decl("i", Zero), Loop(s), t, Show(G), Ret(Op("SUB", I, Var("h")))>> : s, t \in Inner}
  \cup {<<Decl("x", Two), Block(<<Decl("x", Op("ADD", Var("x"), Next1)), Decl("y", Var("x")), Show(Var("y"))>>),
          Decl("y", Half), Decl("y", Op("DIV", Var("x"), Var("y"))), Show(Var("y")), Ret(Var("x"))>>}

\* Functions that call themselves, with a local that each call has of its own.
Recursive(result) ==
  Defs(<<Decl("g", Two),
         Func("f", <<"a">>, <<Decl("n", G), Increase("g", Minus(Const(1000))),
                         If(Op("LEQ", G, Zero), Ret(Var("n"))), Ret(result)>>),
         Func("main", <<>>, <<Show(Call("f", <<G>>)), Ret(G)>>)>>)
F == Call("f", <<G>>)

-----------------------------------------------------------------------------

Everything ==
  {Prints(es) : es \in Expressions}
  \cup {Programs(s) : s \in Statements}
  \cup {Recursive(e) : e \in {Op("SUB", F, Var("n")), Op("SUB", Var("n"), F), Op("DIV", Var("n"), F)}}
Nodes == AllSubtrees(Everything)
Names == {"g", "h", "i", "x", "y", "n", "a", "old", "f", "next", "main", "print", "read", "sqrt"}

MCProgram == Everything
MCNode    == Nodes
MCName    == Names

\* Every program means something.
ASSUME ProgramsMeanSomething == \A p \in MCProgram : MeaningOf(p).outcome # "undefined"
=============================================================================
