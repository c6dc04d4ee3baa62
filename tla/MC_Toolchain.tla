---------------------------- MODULE MC_Toolchain ----------------------------
(***************************************************************************)
(* One source file for each way through the programs.  Trees are simplified *)
(* as module Simplifier does it, written and read as TreeFile does it.     *)
(***************************************************************************)
EXTENDS Toolchain
LOCAL INSTANCE TreeFile

Midend == INSTANCE Simplifier
  WITH Source <- {}, Environment <- {}, source <- NULL, tree <- NULL, verdict <- "none"

x == <<"x">>
Num(n, d)  == make_number_node(<<n, d>>)
Op(op, l, r) == make_binary_node(op, l, r)
Global(name, e) == make_node("DEFS", NULL, make_node("NVAR", name, NULL, e), NULL)
Returns(e) ==
  make_node("DEFS", NULL, make_node("NFUN", x, NULL, make_node("BLOCK", NULL, NULL,
    make_node("SEQ", NULL, make_node("RET", NULL, NULL, e), NULL))), NULL)

\* A program; one without a function; one whose definition did not parse; one
\* with a name the reader refuses; a division by what is written as zero; one
\* that is no program.
Good    == Returns(Op("ADD", Num(1, 1), Num(1, 3)))
NoMain  == Global(x, Op("SUB", Num(2, 1), Num(1, 2)))
Hole    == make_node("DEFS", NULL, NULL, NULL)
Digits  == Global(<<"1", "x">>, Num(1, 1))
ByZero  == Global(x, Op("DIV", make_node("CALL", x, NULL, NULL), Num(1, 4000)))

Parsed == {Good, NoMain, Hole, Digits, ByZero}

MCSources == {[size |-> 10, tree |-> t] : t \in Parsed \cup {NULL}} \cup {[size |-> 16, tree |-> Good]}

MCCompilable == {Rounded(Good), Returns(Num(1333, 1000))}

MCWordsOf(t) == node_print(t)
MCKept(t) == ReadBack(t)
MCSimplified(t) == LET simplified == Midend!simplify_node(t) IN IF simplified.ok THEN simplified.tree ELSE NULL

\* With what the midend makes of these, and what the files of them all keep:
\* ToolsAssumption is that nothing else comes up.
Unwritten == Parsed \cup {Returns(Num(4, 3)), Returns(Num(1333000, 1000000)),
                          Global(x, Num(3, 2)), Global(x, Num(1500000, 1000000))}
MCTree == Unwritten \cup ({MCKept(t) : t \in Unwritten} \ {NULL})

\* Each file is read once.
Files == UNION {{SubSeq(node_print(t), 1, n) : n \in 0..Len(node_print(t))} : t \in MCTree}
ReadFile == [words \in Files |-> tree_read(words).node]
MCTreeOf(words) == ReadFile[words]

MCWord == UNION {{words[i] : i \in DOMAIN words} : words \in {node_print(t) : t \in MCTree}}

MCCrashing == {t \in MCTree : \E n \in Subtrees(t) : n.type = "DEFS" /\ n.left = NULL}
=============================================================================
