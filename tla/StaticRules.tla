----------------------------- MODULE StaticRules -----------------------------
(***************************************************************************)
(* The rules that decide whether a program is compiled, stated over the    *)
(* tree alone: no stack of scopes, no order of handlers.  The code         *)
(* generator, which finds out while it emits code, is checked against them.*)
(***************************************************************************)
EXTENDS CodeGenProps

\* The names a tree declares for what follows it in the same block, and the
\* names it needs from outside.
Binds[n \in Node \cup {NULL}] ==
  IF TypeOf(n) = "NVAR" THEN {n.value}
  ELSE (IF TypeOf(n) \in {"SEQ", "BRANCH"} THEN Binds[n.left] ELSE {})
       \cup (IF TypeOf(n) \in {"SEQ", "BRANCH", "IF", "WHILE"} THEN Binds[n.right] ELSE {})

Free[n \in Node \cup {NULL}] ==
  IF n = NULL THEN {}
  ELSE (IF n.type \in {"VAR", "ASS"} THEN {n.value} ELSE {})
       \cup (IF n.type = "NFUN" THEN {} ELSE Free[n.left])
       \cup (Free[n.right] \ Binds[n.left])

\* The calls of a tree: the function and how many arguments it is given.
CallsOf[n \in Node \cup {NULL}] ==
  IF n = NULL THEN {}
  ELSE (IF n.type = "CALL" THEN {<<n.value, ChainOf(n.right)>>} ELSE {})
       \cup CallsOf[n.left] \cup CallsOf[n.right]

\* A return that does not stand in a block inside the function's own.
ReturnsItself[n \in Node \cup {NULL}] ==
  \/ TypeOf(n) = "RET"
  \/ /\ TypeOf(n) \in {"SEQ", "IF", "WHILE", "BRANCH"}
     /\ ReturnsItself[n.left] \/ ReturnsItself[n.right]

\* The definitions of a program in order.
Definitions[n \in Node \cup {NULL}] ==
  IF n = NULL THEN <<>> ELSE << n.left >> \o Definitions[n.right]

stdlib == {<<"print", 1>>, <<"read", 0>>, <<"sqrt", 1>>}

\* Of the first i definitions: the functions, what can be called, the names of
\* the global variables.
FunctionsOf(defs, i)  == {j \in 1..i : defs[j].type = "NFUN"}
SignaturesOf(defs, i) ==
  stdlib \cup {<<defs[j].value, ChainOf(defs[j].left)>> : j \in FunctionsOf(defs, i)}
GlobalsOf(defs, i)    == UNION {Binds[defs[j]] : j \in 1..i}

\* The first i definitions have what definition j needs.
Supplied(defs, j, i) ==
  /\ Free[defs[j]] \subseteq GlobalsOf(defs, i)
  /\ CallsOf[defs[j]] \subseteq SignaturesOf(defs, i)

WellFormed(tree) ==
  LET defs  == Definitions[tree]
      n     == Len(defs)
      Funcs == FunctionsOf(defs, n)
  IN  /\ \E j \in Funcs : defs[j].value = "main"
      /\ \A j \in Funcs :
           /\ defs[j].value \notin {"print", "read", "sqrt"}
           /\ \A k \in Funcs : defs[j].value = defs[k].value => j = k
           /\ Supplied(defs, j, n)
           /\ ReturnsItself[defs[j].right.right]
      /\ \A i \in 1..n \ Funcs : Supplied(defs, i, i - 1)

-----------------------------------------------------------------------------

VARIABLE program        \* history: the tree the generator was given

RulesInit == Init /\ program = cursor
RulesNext == Next /\ UNCHANGED program
RulesSpec == RulesInit /\ [][RulesNext]_<<vars, program>>
               /\ WF_<<vars, program>>(CodeGenStep /\ UNCHANGED program)

Promise == INSTANCE Verdict WITH
  Accepts <- WellFormed,
  verdict  <- IF phase \in {"done", "failed"} THEN phase ELSE "none"

\* Whatever the order and nesting of declarations, code generation ends, and
\* it succeeds exactly on the programs that obey the static rules: initializers
\* see what was declared before them, functions see every function and global
\* and the locals of the open blocks, every call passes as many arguments as
\* its function has, names of functions are unique, and main exists.
ImplementsVerdict == Promise!VerdictSpec

-----------------------------------------------------------------------------
(* Why it does.                                                            *)

Given        == Definitions[program]
Extracted    == Len(Given) - Len(Definitions[cursor])
Subject      == walk[1].node                              \* what is being compiled
Initializing == phase = "declarations" /\ walk # <<>>     \* ... is a global variable

Known       == SignaturesOf(Given, Extracted)
GlobalNames == GlobalsOf(Given, IF Initializing THEN Extracted - 1 ELSE Extracted)

\* The definitions before the cursor have been extracted, with the functions
\* among them in the table under names of their own.
Extraction ==
  /\ Extracted \in 0..Len(Given)
  /\ Definitions[cursor] = SubSeq(Given, Extracted + 1, Len(Given))
  /\ phase = "functions" => cursor = NULL /\ Defined("main")
  /\ walk # <<>> => (Initializing <=> Subject.type = "NVAR")
  /\ Initializing => Extracted > 0 /\ Subject = Given[Extracted]
  /\ Known = {<<functions[i].name, functions[i].arg_cnt>> : i \in 1..Len(functions)}
  /\ {NULL} \cup {Given[j] : j \in FunctionsOf(Given, Extracted)} =
       {functions[i].node : i \in 1..Len(functions)}
  /\ \A j \in FunctionsOf(Given, Extracted) :
       /\ Given[j].value \notin {"print", "read", "sqrt"}
       /\ \A k \in FunctionsOf(Given, Extracted) : Given[j].value = Given[k].value => j = k

\* What has been compiled obeys the rules.
Checked ==
  /\ \A i \in 1..Extracted \ FunctionsOf(Given, Extracted) :
       Supplied(Given, i, i - 1) \/ (Initializing /\ i = Extracted)
  /\ \A k \in Compiled : \A j \in FunctionsOf(Given, Extracted) :
       functions[k].node = Given[j] =>
         Supplied(Given, j, Len(Given)) /\ ReturnsItself[Given[j].right.right]

\* The names that the subtrees activation k has compiled declare.
Added(k) ==
  LET top == k = Len(walk)
  IN  (IF walk[k].stage = COMPILED_RIGHT \/ (top /\ walk[k].stage > COMPILING_LEFT)
         THEN Binds[walk[k].node.left] ELSE {})
      \cup (IF top /\ walk[k].stage = COMPILED_RIGHT THEN Binds[walk[k].node.right] ELSE {})

\* The names that are visible where activation k begins.
SeenBy(k) == GlobalNames \cup UNION {Added(j) : j \in 1..(k - 1)}

SeenNow == SeenBy(Len(walk) + 1)

NamesIn(t) == {x \in Name : \E u \in 1..t : Declares(name_scope[u], x)}

\* The tables hold the names declared so far; those below the table of an open
\* block, the names that were visible where it begins.
ScopesHold ==
  /\ NamesIn(Len(name_scope)) = SeenNow
  /\ \A k \in OpenBlocks : NamesIn(2 + Cardinality({i \in OpenBlocks : i <= k})) = SeenBy(k)
  /\ walk # <<>> /\ Subject.type = "NFUN" => NamesIn(1) = GlobalNames

\* What the handlers of activation k, and of the subtrees it still has to enter,
\* will look for.
NamesToCome(k) ==
  LET node == walk[k].node
  IN  (IF node.type \in {"VAR", "ASS"} THEN {node.value} ELSE {})
      \cup (IF walk[k].stage = COMPILING_LEFT /\ node.type # "NFUN" THEN Free[node.left] ELSE {})
      \cup (IF walk[k].stage < COMPILED_RIGHT THEN Free[node.right] \ Binds[node.left] ELSE {})

CallsToCome(k) ==
  LET node == walk[k].node
  IN  (IF node.type = "CALL" THEN {<<node.value, ChainOf(node.right)>>} ELSE {})
      \cup (IF walk[k].stage = COMPILING_LEFT THEN CallsOf[node.left] ELSE {})
      \cup (IF walk[k].stage < COMPILED_RIGHT THEN CallsOf[node.right] ELSE {})

ReturnToCome(k) ==
  LET node == walk[k].node
  IN  \/ node.type = "RET"
      \/ /\ node.type \in {"SEQ", "IF", "WHILE", "BRANCH", "BLOCK"}
         /\ \/ walk[k].stage = COMPILING_LEFT /\ ReturnsItself[node.left]
            \/ walk[k].stage < COMPILED_RIGHT /\ ReturnsItself[node.right]

\* What the definition needs and has not got is what is still to be looked for
\* and will not be found.
NeedsToCome ==
  walk # <<>> =>
    /\ Free[Subject] \ GlobalNames =
         UNION {NamesToCome(k) \ SeenBy(k) : k \in {j \in 1..Len(walk) : walk[j].node.type # "ARG"}}
    /\ CallsOf[Subject] \ Known = UNION {CallsToCome(k) \ Known : k \in 1..Len(walk)}

\* A function has its return, or it is still to come, in no block but the body.
ReturnsFound ==
  walk # <<>> /\ Subject.type = "NFUN" /\ walk[1].stage > COMPILING_LEFT =>
    IF walk[1].stage < COMPILED_RIGHT THEN ~ has_return
    ELSE ReturnsItself[Subject.right.right] <=>
           \/ has_return
           \/ \E k \in 2..Len(walk) :
                ReturnToCome(k) /\ \A j \in 3..k : walk[j].node.type # "BLOCK"

\* The inductive invariant.
RulesInv ==
  /\ program \in Program
  /\ phase = "done" => WellFormed(program)
  /\ phase = "failed" => ~ WellFormed(program)
  /\ phase \in {"declarations", "functions"} =>
       Extraction /\ Checked /\ ScopesHold /\ NeedsToCome /\ ReturnsFound
=============================================================================
