-------------------------- MODULE MC_FileExchange --------------------------
(***************************************************************************)
(* Trees with every type of node and with numbers of every form.           *)
(***************************************************************************)
EXTENDS FileExchange

x == <<"x">>
f == <<"f">>

Num(n, d)  == make_number_node(<<n, d>>)
Add(l, r)  == make_binary_node("ADD", l, r)
Only(type, left) == make_node(type, NULL, left, NULL)
Global(e)  == Only("DEFS", make_node("NVAR", x, NULL, e))

Numbers == {Num(0, 1), Num(3, 2), Num(-1, 4), Num(1, 3), Num(-123, 1), Num(1, 4000), Num(5, 2001)}

MCTree ==
  {Global(n) : n \in Numbers}
    \cup {Global(Add(make_var_node(x), make_unary_node("NEG", make_var_node(f)))),
          Global(Add(Add(Num(1, 1), Num(2, 1)), make_binary_node("LEQ", Num(2, 1), make_var_node(x)))),
          Global(make_node("CALL", f, NULL, make_node("PAR", NULL, make_var_node(x), Only("PAR", Num(1, 1))))),
          Global(make_var_node(<<"1", "x">>)), Global(Add(make_var_node(<<"x", "1">>), NULL)),
          make_node("DEFS", NULL, NULL, Global(Num(1, 1))),
          Only("DEFS", make_node("NFUN", f, make_node("ARG", x, NULL, NULL),
            make_node("BLOCK", NULL, NULL, make_node("SEQ", NULL,
              make_node("IF", NULL, make_var_node(x),
                make_node("BRANCH", NULL, make_node("ASS", x, NULL, Num(1, 1)),
                  make_node("WHILE", NULL, make_var_node(x), make_node("CALL", f, NULL, NULL)))),
              Only("SEQ", make_node("RET", NULL, NULL, make_var_node(x)))))))}

MCWord ==
  {Chars(w) : w \in {"{", "}", ",", "DEFS", "NVAR", "OP", "CONST", "VAR", "CALL", "LOGIC", "ADD",
                     "NEG", "NULL"}} \cup {x, f, <<"1">>, <<"-", "1", ".", "5">>}
=============================================================================
