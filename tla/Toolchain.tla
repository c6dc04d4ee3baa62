------------------------------ MODULE Toolchain ------------------------------
(***************************************************************************)
(* The three programs and the files between them (front_utils.cpp,         *)
(* mid_utils.cpp, back_utils.cpp and the functions main), run by a user    *)
(* one after the other in any order.  Each run reads its input, works,     *)
(* opens its output, which empties it, and writes it piece by piece; it    *)
(* may be stopped at any point.                                            *)
(***************************************************************************)
EXTENDS Integers, Sequences

CONSTANTS
  NULL,
  Tree,             \* the trees that may be in memory
  Word,             \* the words of files
  WordsOf(_),       \* the words of the file of a tree (node_print, module TreeFile)
  TreeOf(_),        \* the tree that is read from words, or NULL (tree_read)
  Kept(_),          \* what the file of a tree is good for: the tree as it is written, or NULL
  Simplified(_),    \* what simplify_node makes of a tree (module Simplifier), or NULL
  Sources,          \* source files: their size in bytes, and the tree the frontend makes
  Compilable,       \* the trees compiler_tree_to_asm accepts (module CodeGen)
  Crashing,         \* the trees with a DEFS node whose definition is missing
  PAGE,             \* the bytes of a page of memory
  Piece             \* how many words of a file are written at a time

ASSUME ToolsAssumption ==
  /\ NULL \notin Tree
  /\ Piece \in Nat \ {0}
  /\ \A s \in Sources : s.tree \in Tree \cup {NULL}
  /\ \A t \in Tree : {Simplified(t), Kept(t)} \subseteq Tree \cup {NULL}

\* What the properties of module FileExchange say of files that nobody edits.
ASSUME FilesAssumption ==
  /\ TreeOf(<<>>) = NULL
  /\ \A t \in Tree :
       /\ WordsOf(t) \in Seq(Word) \ {<<>>}
       /\ TreeOf(WordsOf(t)) = Kept(t)
       /\ \A n \in 1..(Len(WordsOf(t)) - 1) : TreeOf(SubSeq(WordsOf(t), 1, n)) = NULL

VARIABLES
  source,       \* the source file
  file,         \* the words of each program's output; an absent file has none
  good,         \* history: the tree each file is good for, or NULL
  running,      \* the program that runs, or "none"
  step,         \* what it does next
  tree,         \* the tree it holds in memory
  left,         \* what it still has to write
  status        \* how the last run ended: "none", "done", "failed" or "crashed"

toolVars == <<source, file, good, running, step, tree, left, status>>

Tools == {"front", "mid", "back"}

ToolchainInit ==
  /\ source \in Sources
  /\ file = [t \in Tools |-> <<>>]
  /\ good = [t \in Tools |-> NULL]
  /\ running = "none"
  /\ step = "none"
  /\ tree = NULL
  /\ left = <<>>
  /\ status = "none"

\* An executable stands for the tree it was made of; it is longer than a piece.
Image(t) == [i \in 1..(Piece + 1) |-> <<t, i>>]

\* What a file is good for: an executable has to be there up to its end.
Holds(t, words) ==
  IF t # "back" THEN TreeOf(words)
  ELSE IF words # <<>> /\ words = Image(words[1][1]) THEN words[1][1] ELSE NULL

\* A file changes.
Save(words) ==
  /\ file' = [file EXCEPT ![running] = words]
  /\ good' = [good EXCEPT ![running] = Holds(running, words)]

\* A program ends; its memory is gone, its files are as they are.
Exit(how) ==
  /\ status' = how
  /\ running' = "none"
  /\ step' = "none"
  /\ tree' = NULL
  /\ left' = <<>>
  /\ UNCHANGED source

\* A step of the functions main: 1 is returned if it fails.
STEP(result, next) ==
  \/ result = NULL /\ Exit("failed") /\ UNCHANGED <<file, good>>
  \/ /\ result # NULL
     /\ tree' = result
     /\ step' = next
     /\ UNCHANGED <<source, file, good, running, left, status>>

Doing(t, s) == running = t /\ step = s

-----------------------------------------------------------------------------

edit ==
  /\ running = "none"
  /\ source' \in Sources
  /\ UNCHANGED <<file, good, running, step, tree, left, status>>

start ==
  /\ running = "none"
  /\ running' \in Tools
  /\ step' = "read"
  /\ UNCHANGED <<source, file, good, tree, left, status>>

\* map_file maps one byte more than the file has, for the terminating zero.
\* If the file fills its last page, that byte is in no page of it.
Unmapped(f) == f.size % PAGE = 0

\* get_lexemes_from_file and get_tree_from_lexemes.
get_tree_from_source ==
  /\ Doing("front", "read")
  /\ IF Unmapped(source) THEN Exit("crashed") /\ UNCHANGED <<file, good>>
     ELSE STEP(source.tree, "open")

input_tree_from_file ==
  /\ Doing("mid", "read")
  /\ STEP(TreeOf(file["front"]), "simplify")

\* A tree that cannot be simplified is not written.
try_simplify_tree ==
  /\ Doing("mid", "simplify")
  /\ STEP(Simplified(tree), "open")

\* The midend may be left out.
get_tree_from_file ==
  /\ Doing("back", "read")
  /\ \E input \in {"front", "mid"} : STEP(TreeOf(file[input]), "open")

\* Mutant: the output is opened in place.
opened_in_place(old) == old

\* fopen(filename, "w+").
opened(old) == <<>>

open_output ==
  /\ step = "open"
  /\ Save(opened(file[running]))
  /\ IF running = "back" THEN step' = "compile" /\ left' = left
     ELSE step' = "write" /\ left' = WordsOf(tree)
  /\ UNCHANGED <<source, running, tree, status>>

\* compile_tree_to_file, which opened its output first.  compile_node dereferences
\* the definition of every DEFS node.
compile_tree_to_file ==
  /\ Doing("back", "compile")
  /\ \/ tree \in Crashing /\ Exit("crashed") /\ UNCHANGED <<file, good>>
     \/ /\ tree \notin Crashing
        /\ tree \notin Compilable
        /\ Exit("failed")
        /\ UNCHANGED <<file, good>>
     \/ /\ tree \in Compilable
        /\ left' = Image(tree)
        /\ step' = "write"
        /\ UNCHANGED <<source, file, good, running, tree, status>>

write_piece ==
  /\ step = "write"
  /\ left # <<>>
  /\ LET n == IF Len(left) < Piece THEN Len(left) ELSE Piece
     IN  /\ Save(file[running] \o SubSeq(left, 1, n))
         /\ left' = SubSeq(left, n + 1, Len(left))
  /\ UNCHANGED <<source, running, step, tree, status>>

\* The disk is full: what fputs and fclose return is not looked at.
lose_rest ==
  /\ step = "write"
  /\ left # <<>>
  /\ left' = <<>>
  /\ UNCHANGED <<source, file, good, running, step, tree, status>>

close_output ==
  /\ step = "write"
  /\ left = <<>>
  /\ Exit("done")
  /\ UNCHANGED <<file, good>>

die == running # "none" /\ Exit("crashed") /\ UNCHANGED <<file, good>>

ToolchainNext ==
  \/ edit \/ start \/ get_tree_from_source \/ input_tree_from_file \/ try_simplify_tree
  \/ get_tree_from_file \/ open_output \/ compile_tree_to_file \/ write_piece \/ lose_rest
  \/ close_output \/ die

ToolchainSpec == ToolchainInit /\ [][ToolchainNext]_toolVars

-----------------------------------------------------------------------------
(* The three programs keep the promises of Pipeline.                       *)

\* What the tools of Pipeline do, said without files.
Meaning(s)   == s.tree
Inputs(t)    == CASE t = "front" -> {} [] t = "mid" -> {"front"} [] t = "back" -> {"front", "mid"}

Result(t, given) == IF given # NULL /\ t = "mid" THEN Simplified(given) ELSE given

Stored(t, given) == IF t = "back" THEN given ELSE Kept(given)

Late(t, given) == t = "back" /\ given \notin Compilable

\* The state of a tool that runs: its input counts as taken when it has
\* become what will be written, its output as delivered with the last piece.
PhaseOf(t) ==
  IF running # t \/ step \in {"read", "simplify"} THEN "idle"
  ELSE IF step = "open" THEN "holding"
  ELSE IF step = "compile" \/ left # <<>> THEN "replacing" ELSE "delivered"

Promise == INSTANCE Pipeline WITH
  Tool   <- Tools,
  Source <- Sources,
  made   <- good,
  held   <- [t \in Tools |-> IF PhaseOf(t) = "idle" THEN NULL ELSE tree],
  phase  <- [t \in Tools |-> PhaseOf(t)]

\* However the programs are run, stopped and run again, and whatever happens
\* to what they write: a file is good for exactly the tree its program made of
\* a program or of a good file, rounded to thousandths, or for nothing.  The
\* frontend and the midend leave their old output alone if they refuse their
\* input; only the backend has lost it when it finds an error.
ImplementsPipeline == Promise!PipelineSpec

-----------------------------------------------------------------------------
(* Why they are kept.                                                      *)

\* What the words of a program's output are, and all of them.
Stuff(t) == IF t = "back" THEN Tree \X Nat ELSE Word

Output(t, given) == IF t = "back" THEN Image(given) ELSE WordsOf(given)

\* What a program has at each step.  While it writes, the file and what is
\* left are the whole output, until the disk is full.
Working ==
  \/ running = "none" /\ step = "none" /\ tree = NULL /\ left = <<>>
  \/ running \in Tools /\ step = "read" /\ tree = NULL /\ left = <<>>
  \/ running = "mid" /\ step = "simplify" /\ tree = good["front"] /\ tree \in Tree /\ left = <<>>
  \/ running \in Tools /\ step = "open" /\ tree \in Tree /\ left = <<>>
  \/ running = "back" /\ step = "compile" /\ tree \in Tree /\ left = <<>> /\ file["back"] = <<>>
  \/ /\ running \in Tools /\ step = "write" /\ tree \in Tree
     /\ running = "back" => tree \in Compilable
     /\ {file[running], left} \subseteq Seq(Stuff(running))
     /\ left # <<>> => file[running] \o left = Output(running, tree)

\* The inductive invariant.
ToolInv ==
  /\ source \in Sources
  /\ DOMAIN file = Tools
  /\ good \in [Tools -> Tree \cup {NULL}]
  /\ \A t \in Tools : good[t] = Holds(t, file[t])
  /\ Working
=============================================================================
