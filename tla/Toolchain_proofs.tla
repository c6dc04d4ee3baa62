--------------------------- MODULE Toolchain_proofs ---------------------------
(***************************************************************************)
(* The three programs keep the promises of Pipeline, for any trees, files  *)
(* and sources, as long as files are read as they were written and cut     *)
(* ones are refused (FilesAssumption).                                     *)
(***************************************************************************)
EXTENDS Toolchain, SequenceTheorems, TLAPS

(* Files.                                                                  *)

\* An output has words, and is good for what it should be good for.
LEMMA WholeOutput ==
  ASSUME NEW t \in Tools, NEW d \in Tree
  PROVE  /\ Output(t, d) \in Seq(Stuff(t)) \ {<<>>}
         /\ Holds(t, Output(t, d)) = Stored(t, d)
<1>1. CASE t = "back"
  <2>1. /\ Image(d) \in Seq(Tree \X Nat)
        /\ Len(Image(d)) = Piece + 1
        /\ Image(d)[1] = <<d, 1>>
    BY ToolsAssumption DEF ToolsAssumption, Image
  <2>2. Image(d) # <<>> /\ Image(d)[1][1] = d
    BY <2>1, ToolsAssumption DEF ToolsAssumption
  <2> QED BY <1>1, <2>1, <2>2 DEF Output, Holds, Stored, Stuff
<1>2. CASE t # "back"
  BY <1>2, FilesAssumption DEF FilesAssumption, Output, Holds, Stored, Stuff
<1> QED BY <1>1, <1>2

\* An empty file is good for nothing.
LEMMA EmptyFile == \A t \in Tools : Holds(t, <<>>) = NULL
BY FilesAssumption DEF FilesAssumption, Holds

\* A part of an output is good for nothing.
LEMMA PartOfOutput ==
  ASSUME NEW t \in Tools, NEW d \in Tree,
         NEW head \in Seq(Stuff(t)), NEW tail \in Seq(Stuff(t)), tail # <<>>,
         head \o tail = Output(t, d)
  PROVE  Holds(t, head) = NULL
<1> SUFFICES ASSUME head # <<>> PROVE Holds(t, head) = NULL
  BY EmptyFile
<1> DEFINE n == Len(head)
<1>1. /\ n \in Nat /\ Len(tail) \in Nat /\ n > 0 /\ Len(tail) > 0
      /\ Len(Output(t, d)) = n + Len(tail)
  BY EmptySeq
<1>2. head = SubSeq(Output(t, d), 1, n)
  OBVIOUS
<1>3. CASE t = "back"
  <2>1. Len(Image(head[1][1])) = Piece + 1
    BY ToolsAssumption DEF ToolsAssumption, Image
  <2>2. n < Piece + 1
    BY <1>1, <1>3, ToolsAssumption DEF ToolsAssumption, Output, Image
  <2>3. head # Image(head[1][1])
    BY <2>1, <2>2, <1>1
  <2> QED BY <1>3, <2>3 DEF Holds
<1>4. CASE t # "back"
  <2>1. n \in 1..(Len(WordsOf(d)) - 1)
    BY <1>1, <1>4 DEF Output
  <2>2. TreeOf(SubSeq(WordsOf(d), 1, n)) = NULL
    BY <2>1, FilesAssumption DEF FilesAssumption
  <2> QED BY <1>2, <1>4, <2>2 DEF Holds, Output
<1> QED BY <1>3, <1>4

-----------------------------------------------------------------------------
(* The inductive invariant.                                                *)

\* The invariant holds before any program is run.
LEMMA ToolInit == ToolchainInit => ToolInv
<1> SUFFICES ASSUME ToolchainInit PROVE ToolInv
  OBVIOUS
<1>1. \A t \in Tools : good[t] = Holds(t, file[t])
  BY EmptyFile DEF ToolchainInit
<1> QED BY <1>1 DEF ToolchainInit, ToolInv, Working

\* Files that do not change are good for what they were good for.
LEMMA FilesKept ==
  ASSUME ToolInv, source' \in Sources, UNCHANGED <<file, good>>, Working'
  PROVE  ToolInv'
BY DEF ToolInv

\* The file a program writes is good for what it now holds, the others for
\* what they were good for.
LEMMA FileSaved ==
  ASSUME ToolInv, UNCHANGED source, running \in Tools,
         NEW words, Save(words), Holds(running, words) \in Tree \cup {NULL}, Working'
  PROVE  ToolInv'
<1>1. \A t \in Tools : good'[t] = Holds(t, file'[t])
  BY DEF ToolInv, Save
<1> QED BY <1>1 DEF ToolInv, Save

\* A program that ends has nothing in memory.
LEMMA ExitKeeps ==
  ASSUME ToolInv, NEW how, Exit(how), UNCHANGED <<file, good>>
  PROVE  ToolInv'
<1>1. Working' /\ source' \in Sources
  BY DEF Exit, Working, ToolInv
<1> QED BY <1>1, FilesKept

\* A tree that is read is one a file is good for.
LEMMA ReadTree ==
  ASSUME ToolInv, NEW t \in {"front", "mid"}
  PROVE  TreeOf(file[t]) = good[t] /\ good[t] \in Tree \cup {NULL}
BY DEF ToolInv, Holds, Tools

\* A program goes on with a tree, or ends without one.
LEMMA StepKeeps ==
  ASSUME ToolInv, running \in Tools, left = <<>>, NEW found \in Tree \cup {NULL},
         NEW next, STEP(found, next),
         next = "open" \/ (next = "simplify" /\ running = "mid" /\ found = good["front"])
  PROVE  ToolInv'
<1>1. CASE found = NULL /\ Exit("failed") /\ UNCHANGED <<file, good>>
  BY <1>1, ExitKeeps
<1>2. CASE found # NULL /\ ~ (found = NULL /\ Exit("failed") /\ UNCHANGED <<file, good>>)
  <2>1. /\ tree' = found /\ step' = next
        /\ UNCHANGED <<source, file, good, running, left, status>>
    BY <1>2 DEF STEP
  <2>2. Working' /\ source' \in Sources
    BY <1>2, <2>1 DEF Working, ToolInv
  <2> QED BY <2>1, <2>2, FilesKept
<1> QED BY <1>1, <1>2 DEF STEP

\* What a program that runs has at each step.
LEMMA AtStep ==
  ASSUME ToolInv, running # "none"
  PROVE  /\ running \in Tools
         /\ step \in {"read", "simplify", "open", "compile"} => left = <<>>
         /\ step = "read" <=> tree \notin Tree
         /\ step # "read" => tree \in Tree /\ tree # NULL
         /\ step = "simplify" => running = "mid" /\ tree = good["front"]
         /\ step = "compile" => running = "back" /\ file["back"] = <<>>
         /\ step = "write" =>
              /\ file[running] \in Seq(Stuff(running)) /\ left \in Seq(Stuff(running))
              /\ running = "back" => tree \in Compilable
              /\ left # <<>> => file[running] \o left = Output(running, tree)
<1>1. Working /\ NULL \notin Tree
  BY ToolsAssumption DEF ToolsAssumption, ToolInv
<1>2. CASE /\ running \in Tools /\ step = "write" /\ tree \in Tree
           /\ running = "back" => tree \in Compilable
           /\ {file[running], left} \subseteq Seq(Stuff(running))
           /\ left # <<>> => file[running] \o left = Output(running, tree)
  BY ONLY <1>1, <1>2
<1>3. CASE running = "mid" /\ step = "simplify" /\ tree = good["front"] /\ tree \in Tree /\ left = <<>>
  BY ONLY <1>1, <1>3 DEF Tools
<1>4. CASE running = "back" /\ step = "compile" /\ tree \in Tree /\ left = <<>> /\ file["back"] = <<>>
  BY ONLY <1>1, <1>4 DEF Tools
<1>5. CASE running \in Tools /\ step = "open" /\ tree \in Tree /\ left = <<>>
  BY ONLY <1>1, <1>5
<1>6. CASE running \in Tools /\ step = "read" /\ tree = NULL /\ left = <<>>
  BY ONLY <1>1, <1>6
<1> QED BY <1>1, <1>2, <1>3, <1>4, <1>5, <1>6 DEF Working

\* The frontend makes a tree of its source, or refuses it.
LEMMA SourceRead == ASSUME ToolInv, get_tree_from_source PROVE ToolInv'
<1>1. running = "front" /\ step = "read"
  BY DEF get_tree_from_source, Doing
<1>2. source.tree \in Tree \cup {NULL} /\ left = <<>>
  BY <1>1, AtStep, ToolsAssumption DEF ToolInv, ToolsAssumption
<1>3. CASE Unmapped(source)
  BY <1>3, ExitKeeps DEF get_tree_from_source
<1>4. CASE ~ Unmapped(source)
  BY <1>1, <1>2, <1>4, AtStep, StepKeeps DEF get_tree_from_source
<1> QED BY <1>3, <1>4

\* The midend reads a tree, or refuses the file.
LEMMA TreeRead == ASSUME ToolInv, input_tree_from_file PROVE ToolInv'
<1>1. running = "mid" /\ step = "read" /\ STEP(TreeOf(file["front"]), "simplify")
  BY DEF input_tree_from_file, Doing
<1> QED BY <1>1, AtStep, ReadTree, StepKeeps

\* The midend simplifies its tree, or refuses it.
LEMMA TreeSimplified == ASSUME ToolInv, try_simplify_tree PROVE ToolInv'
<1>1. running = "mid" /\ step = "simplify" /\ STEP(Simplified(tree), "open")
  BY DEF try_simplify_tree, Doing
<1>2. tree \in Tree /\ Simplified(tree) \in Tree \cup {NULL}
  BY <1>1, AtStep, ToolsAssumption DEF ToolsAssumption
<1> QED BY <1>1, <1>2, AtStep, StepKeeps

\* The backend reads a tree, or refuses the file.
LEMMA TreeTaken == ASSUME ToolInv, get_tree_from_file PROVE ToolInv'
<1>1. running = "back" /\ step = "read"
  BY DEF get_tree_from_file, Doing
<1>2. PICK input \in {"front", "mid"} : STEP(TreeOf(file[input]), "open")
  BY DEF get_tree_from_file
<1> QED BY <1>1, <1>2, AtStep, ReadTree, StepKeeps

\* Opening the output empties it: it is good for nothing.
LEMMA OutputOpened ==
  ASSUME ToolInv, open_output
  PROVE  ToolInv' /\ running \in Tools /\ good' = [good EXCEPT ![running] = NULL]
<1>1. step = "open" /\ Save(<<>>) /\ UNCHANGED <<source, running, tree, status>>
  BY DEF open_output, opened
<1>2. running \in Tools /\ tree \in Tree /\ left = <<>>
  BY <1>1 DEF ToolInv, Working
<1>3. Holds(running, <<>>) = NULL
  BY <1>2, EmptyFile
<1>4. file'[running] = <<>>
  BY <1>1, <1>2 DEF Save, ToolInv
<1>5. Working'
  <2>1. CASE running = "back"
    BY <1>1, <1>2, <1>4, <2>1 DEF Working, open_output
  <2>2. CASE running # "back"
    <3>1. step' = "write" /\ left' = WordsOf(tree)
      BY <2>2 DEF open_output
    <3>2. WordsOf(tree) \in Seq(Word)
      BY <1>2, FilesAssumption DEF FilesAssumption
    <3>3. <<>> \o WordsOf(tree) = WordsOf(tree)
      BY <3>2, ConcatEmptySeq
    <3> QED BY <1>1, <1>2, <1>4, <2>2, <3>1, <3>2, <3>3 DEF Working, Output, Stuff
  <2> QED BY <2>1, <2>2
<1> QED BY <1>1, <1>2, <1>3, <1>5, FileSaved DEF Save

\* The backend compiles its tree, or refuses it when its output is empty already.
LEMMA TreeCompiled ==
  ASSUME ToolInv, compile_tree_to_file
  PROVE  ToolInv'
<1>1. running = "back" /\ step = "compile"
  BY DEF compile_tree_to_file, Doing
<1>2. CASE \E how : Exit(how) /\ UNCHANGED <<file, good>>
  BY <1>2, ExitKeeps
<1>3. CASE /\ tree \in Compilable
           /\ left' = Image(tree)
           /\ step' = "write"
           /\ UNCHANGED <<source, file, good, running, tree, status>>
  <2>1. tree \in Tree /\ file["back"] = <<>>
    BY <1>1, AtStep
  <2>2. Image(tree) \in Seq(Tree \X Nat) /\ Image(tree) = Output("back", tree)
    BY <2>1, WholeOutput DEF Stuff, Output, Tools
  <2>3. <<>> \o Image(tree) = Image(tree)
    BY <2>2, ConcatEmptySeq
  <2>4. Working' /\ source' \in Sources
    BY <1>1, <1>3, <2>1, <2>2, <2>3 DEF Working, Tools, ToolInv, Stuff
  <2> QED BY <1>3, <2>4, FilesKept
<1> QED BY <1>2, <1>3 DEF compile_tree_to_file

\* A piece is written: the file is good for nothing until the last one.
LEMMA PieceWritten ==
  ASSUME ToolInv, write_piece
  PROVE  /\ ToolInv' /\ running \in Tools /\ step = "write" /\ tree \in Tree /\ left # <<>>
         /\ running = "back" => tree \in Compilable
         /\ UNCHANGED <<source, running, step, tree, status>>
         /\ good[running] = NULL
         /\ good' = [good EXCEPT ![running] = IF left' = <<>> THEN Stored(running, tree) ELSE NULL]
<1> DEFINE n == IF Len(left) < Piece THEN Len(left) ELSE Piece
           old == file[running]
           piece == SubSeq(left, 1, n)
           rest == SubSeq(left, n + 1, Len(left))
<1>1. /\ step = "write" /\ left # <<>> /\ Save(old \o piece) /\ left' = rest
      /\ UNCHANGED <<source, running, step, tree, status>>
  BY DEF write_piece
<1>2. running \in Tools /\ running # "none"
  BY <1>1 DEF ToolInv, Working, Tools
<1>3. /\ tree \in Tree /\ old \in Seq(Stuff(running)) /\ left \in Seq(Stuff(running))
      /\ running = "back" => tree \in Compilable
      /\ old \o left = Output(running, tree)
  BY <1>1, <1>2, AtStep
<1>4. n \in 1..Len(left)
  <2>1. Len(left) \in Nat \ {0} /\ Piece \in Nat \ {0}
    BY <1>1, <1>3, EmptySeq, ToolsAssumption DEF ToolsAssumption
  <2> QED BY <2>1
<1> HIDE DEF n
<1>5. /\ piece \in Seq(Stuff(running)) /\ rest \in Seq(Stuff(running))
      /\ piece \o rest = left
  BY <1>3, <1>4
<1>6. /\ old \o piece \in Seq(Stuff(running))
      /\ (old \o piece) \o rest = Output(running, tree)
  <2> DEFINE S == Stuff(running)
  <2>1. old \in Seq(S) /\ piece \in Seq(S) /\ rest \in Seq(S)
    BY <1>3, <1>5
  <2> HIDE DEF S, old, piece, rest
  <2>2. old \o piece \in Seq(S)
    BY ONLY <2>1, ConcatProperties
  <2>3. (old \o piece) \o rest = old \o (piece \o rest)
    BY ONLY <2>1, ConcatAssociative
  <2>4. old \o left = Output(running, tree) /\ piece \o rest = left
    BY <1>3, <1>5 DEF old
  <2> QED BY <2>2, <2>3, <2>4 DEF S
<1>7. good[running] = NULL
  <2>1. Holds(running, old) = NULL
    BY <1>1, <1>2, <1>3, PartOfOutput
  <2> QED BY <1>2, <2>1 DEF ToolInv
<1>8. Holds(running, old \o piece) = IF rest = <<>> THEN Stored(running, tree) ELSE NULL
  <2>1. CASE rest = <<>>
    <3>1. old \o piece = Output(running, tree)
      BY <1>6, <2>1, ConcatEmptySeq
    <3> QED BY <1>2, <1>3, <2>1, <3>1, WholeOutput
  <2>2. CASE rest # <<>>
    BY <1>2, <1>3, <1>5, <1>6, <2>2, PartOfOutput
  <2> QED BY <2>1, <2>2
<1>9. Stored(running, tree) \in Tree \cup {NULL}
  BY <1>3, ToolsAssumption DEF ToolsAssumption, Stored
<1>10. file'[running] = old \o piece
  BY <1>1, <1>2 DEF Save, ToolInv
<1>11. Working'
  BY <1>1, <1>2, <1>3, <1>5, <1>6, <1>10 DEF Working
<1>12. Holds(running, old \o piece) \in Tree \cup {NULL}
  BY <1>8, <1>9
<1>13. ToolInv'
  BY <1>1, <1>2, <1>11, <1>12, FileSaved
<1> QED BY <1>1, <1>2, <1>3, <1>7, <1>8, <1>13 DEF Save

\* Every step keeps the invariant.
LEMMA ToolStep == ASSUME ToolInv, [ToolchainNext]_toolVars PROVE ToolInv'
<1>1. CASE edit \/ start
  <2>1. Working' /\ source' \in Sources /\ UNCHANGED <<file, good>>
    <3>1. running = "none" /\ UNCHANGED <<file, good, tree, left>>
      BY <1>1 DEF edit, start
    <3>2. tree = NULL /\ left = <<>> /\ source \in Sources
      BY <3>1 DEF ToolInv, Working, Tools
    <3>3. CASE edit
      BY <3>1, <3>2, <3>3 DEF edit, Working, ToolInv
    <3>4. CASE start
      BY <3>1, <3>2, <3>4 DEF start, Working
    <3> QED BY <1>1, <3>3, <3>4
  <2> QED BY <2>1, FilesKept
<1>2. CASE \/ get_tree_from_source \/ input_tree_from_file \/ try_simplify_tree
           \/ get_tree_from_file \/ open_output \/ compile_tree_to_file \/ write_piece
  BY <1>2, SourceRead, TreeRead, TreeSimplified, TreeTaken, OutputOpened, TreeCompiled,
     PieceWritten
<1>3. CASE lose_rest
  <2>1. <<>> \in Seq(Stuff(running))
    BY EmptySeq
  <2>2. /\ step = "write" /\ left' = <<>> /\ UNCHANGED <<source, file, good, running, step, tree>>
    BY <1>3 DEF lose_rest
  <2>3. Working' /\ source' \in Sources
    BY <2>1, <2>2 DEF ToolInv, Working
  <2> QED BY <2>2, <2>3, FilesKept
<1>4. CASE close_output \/ die
  <2>1. PICK how : Exit(how) /\ UNCHANGED <<file, good>>
    BY <1>4 DEF close_output, die
  <2> QED BY <2>1, ExitKeeps
<1>5. CASE UNCHANGED toolVars
  <2>1. Working' /\ source' \in Sources /\ UNCHANGED <<file, good>>
    BY <1>5 DEF toolVars, ToolInv, Working
  <2> QED BY <2>1, FilesKept
<1> QED BY <1>1, <1>2, <1>3, <1>4, <1>5 DEF ToolchainNext

\* What a program has in memory, and what its file is good for, fit the step it
\* is at, however it came there and whatever stopped it before.
THEOREM ToolInvariance == ToolchainSpec => []ToolInv
<1> QED BY ToolInit, ToolStep, PTL DEF ToolchainSpec

-----------------------------------------------------------------------------
(* Each step is a step of Pipeline, or none.                               *)

\* Only a program that runs is at work.
LEMMA OthersIdle == \A t \in Tools : running # t => PhaseOf(t) = "idle"
BY DEF PhaseOf

\* The phase of a program at each of its steps.
LEMMA PhaseAt ==
  /\ step \in {"read", "simplify"} => PhaseOf(running) = "idle"
  /\ step = "open" => PhaseOf(running) = "holding"
  /\ step = "compile" => PhaseOf(running) = "replacing"
  /\ step = "write" /\ left # <<>> => PhaseOf(running) = "replacing"
  /\ step = "write" /\ left = <<>> => PhaseOf(running) = "delivered"
BY DEF PhaseOf

\* A program that goes from one step to the next changes its own phase only.
LEMMA PhaseMoves ==
  ASSUME running \in Tools, running' = running, NEW from, NEW to,
         PhaseOf(running) = from, PhaseOf(running)' = to
  PROVE  /\ [t \in Tools |-> PhaseOf(t)]' = [[t \in Tools |-> PhaseOf(t)] EXCEPT ![running] = to]
         /\ [t \in Tools |-> IF PhaseOf(t) = "idle" THEN NULL ELSE tree]' =
              [[t \in Tools |-> IF PhaseOf(t) = "idle" THEN NULL ELSE tree]
                 EXCEPT ![running] = IF to = "idle" THEN NULL ELSE tree']
<1>1. ASSUME NEW t \in Tools, t # running
      PROVE  PhaseOf(t) = "idle" /\ PhaseOf(t)' = "idle"
  BY <1>1 DEF PhaseOf
<1> QED BY <1>1

\* A program that ends is idle.
LEMMA ExitEnds ==
  ASSUME running \in Tools, NEW how, Exit(how)
  PROVE  Promise!End(running, how)
<1>1. running' = "none" /\ status' = how /\ UNCHANGED source
  BY DEF Exit
<1>2. ASSUME NEW t \in Tools PROVE PhaseOf(t)' = "idle"
  <2>1. t # "none"
    BY DEF Tools
  <2> QED BY <1>1, <2>1 DEF PhaseOf
<1>3. ASSUME NEW t \in Tools, t # running PROVE PhaseOf(t) = "idle"
  BY <1>3, OthersIdle
<1> QED BY <1>1, <1>2, <1>3 DEF Promise!End

\* A program that has its input takes it, or ends.
LEMMA TakesInput ==
  ASSUME running \in Tools, step \in {"read", "simplify"}, NEW found \in Promise!Offers(running),
         STEP(found, "open")
  PROVE  Promise!Take(running)
<1>1. PhaseOf(running) = "idle"
  BY PhaseAt
<1>2. CASE found = NULL /\ Exit("failed") /\ UNCHANGED <<file, good>>
  <2>1. Promise!End(running, "failed") /\ UNCHANGED good
    BY <1>2, ExitEnds
  <2> QED BY <1>1, <1>2, <2>1 DEF Promise!Take
<1>3. CASE /\ found # NULL /\ tree' = found /\ step' = "open"
           /\ UNCHANGED <<source, file, good, running, left, status>>
  <2>1. PhaseOf(running)' = "holding"
    BY <1>3 DEF PhaseOf
  <2> QED BY <1>1, <1>3, <2>1, PhaseMoves DEF Promise!Take
<1> QED BY <1>2, <1>3 DEF STEP

\* Reading an input that holds no tree is refusing it.
LEMMA SourceTaken ==
  ASSUME ToolInv, get_tree_from_source
  PROVE  Promise!Take("front") \/ Promise!Die("front")
<1>1. running = "front" /\ step = "read" /\ running \in Tools
  BY DEF get_tree_from_source, Doing, Tools
<1>2. CASE Unmapped(source)
  BY <1>1, <1>2, ExitEnds DEF get_tree_from_source, Promise!Die
<1>3. CASE ~ Unmapped(source)
  <2>1. source.tree \in Promise!Offers("front")
    BY DEF Promise!Offers, Inputs, Meaning
  <2>2. STEP(source.tree, "open")
    BY <1>3 DEF get_tree_from_source
  <2> QED BY <1>1, <2>1, <2>2, TakesInput
<1> QED BY <1>2, <1>3

\* The midend has taken its input when it has simplified it.
LEMMA MidendTakes ==
  ASSUME ToolInv, input_tree_from_file \/ try_simplify_tree
  PROVE  Promise!Take("mid") \/ UNCHANGED Promise!pipelineVars
<1>1. running = "mid" /\ step \in {"read", "simplify"} /\ running \in Tools
  BY DEF input_tree_from_file, try_simplify_tree, Doing, Tools
<1>2. Result("mid", good["front"]) \in Promise!Offers("mid")
  BY DEF Promise!Offers, Inputs
<1>3. PhaseOf(running) = "idle"
  BY <1>1, PhaseAt
<1>4. CASE try_simplify_tree
  <2>1. tree = good["front"] /\ tree # NULL /\ STEP(Simplified(tree), "open")
    BY <1>1, <1>4, AtStep DEF try_simplify_tree, Doing
  <2> QED BY <1>1, <1>2, <2>1, TakesInput DEF Result
<1>5. CASE input_tree_from_file /\ good["front"] = NULL
  <2>1. Exit("failed") /\ UNCHANGED good
    BY <1>5, ReadTree DEF input_tree_from_file, STEP
  <2>2. NULL \in Promise!Offers("mid")
    BY <1>2, <1>5 DEF Result
  <2>3. Promise!End("mid", "failed")
    BY <1>1, <2>1, ExitEnds
  <2> QED BY <1>1, <1>3, <2>1, <2>2, <2>3 DEF Promise!Take
<1>6. CASE input_tree_from_file /\ good["front"] # NULL
  <2>1. step' = "simplify" /\ UNCHANGED <<source, good, running, status>>
    BY <1>6, ReadTree DEF input_tree_from_file, STEP
  <2>2. PhaseOf(running)' = "idle"
    BY <2>1 DEF PhaseOf
  <2> QED BY <1>1, <1>3, <2>1, <2>2, PhaseMoves DEF Promise!pipelineVars
<1> QED BY <1>4, <1>5, <1>6

\* Reading its input, the backend takes what its file is good for.
LEMMA BackendTakes ==
  ASSUME ToolInv, get_tree_from_file
  PROVE  Promise!Take("back")
<1>1. running = "back" /\ step = "read" /\ running \in Tools
  BY DEF get_tree_from_file, Doing, Tools
<1>2. PICK input \in {"front", "mid"} : STEP(TreeOf(file[input]), "open")
  BY DEF get_tree_from_file
<1>3. TreeOf(file[input]) = Result("back", good[input])
  BY ReadTree DEF Result
<1>4. Result("back", good[input]) \in Promise!Offers("back")
  BY DEF Promise!Offers, Inputs
<1> QED BY <1>1, <1>2, <1>3, <1>4, TakesInput

\* Opening the output replaces it.
LEMMA OpeningReplaces ==
  ASSUME ToolInv, open_output
  PROVE  Promise!Replace(running)
<1>1. /\ step = "open" /\ UNCHANGED <<source, running, tree, status>>
      /\ IF running = "back" THEN step' = "compile"
         ELSE step' = "write" /\ left' = WordsOf(tree)
  BY DEF open_output
<1>2. running \in Tools /\ running # "none" /\ tree \in Tree
  BY <1>1, OutputOpened, AtStep DEF Tools
<1>3. WordsOf(tree) # <<>>
  BY <1>2, FilesAssumption DEF FilesAssumption
<1>4. PhaseOf(running) = "holding" /\ PhaseOf(running)' = "replacing"
  BY <1>1, <1>3 DEF PhaseOf
<1>5. /\ good' = [good EXCEPT ![running] = NULL]
  BY OutputOpened
<1> QED BY <1>1, <1>2, <1>4, <1>5, PhaseMoves DEF Promise!Replace

\* Only a tree the compiler does not accept is refused behind that.
LEMMA CompilingRefuses ==
  ASSUME ToolInv, compile_tree_to_file
  PROVE  Promise!Refuse("back") \/ Promise!Die("back") \/ UNCHANGED Promise!pipelineVars
<1>1. running = "back" /\ step = "compile" /\ running \in Tools
  BY DEF compile_tree_to_file, Doing, Tools
<1>2. PhaseOf(running) = "replacing"
  BY <1>1, PhaseAt
<1>3. CASE Exit("crashed") /\ UNCHANGED good
  BY <1>1, <1>3, ExitEnds DEF Promise!Die
<1>4. CASE tree \notin Compilable /\ Exit("failed") /\ UNCHANGED good
  <2>1. Promise!End("back", "failed")
    BY <1>1, <1>4, ExitEnds
  <2> QED BY <1>1, <1>2, <1>4, <2>1 DEF Promise!Refuse, Late
<1>5. CASE /\ left' = Image(tree) /\ step' = "write"
           /\ UNCHANGED <<source, file, good, running, tree, status>>
  <2>1. Image(tree) # <<>>
    BY <1>1, AtStep, WholeOutput DEF Output
  <2>2. PhaseOf(running)' = "replacing"
    BY <1>1, <1>5, <2>1 DEF PhaseOf
  <2> QED BY <1>1, <1>2, <1>5, <2>2, PhaseMoves DEF Promise!pipelineVars
<1> QED BY <1>3, <1>4, <1>5 DEF compile_tree_to_file

\* The last piece delivers the output; with the pieces before it nothing is
\* delivered.
LEMMA WritingDelivers ==
  ASSUME ToolInv, write_piece
  PROVE  Promise!Deliver(running) \/ UNCHANGED Promise!pipelineVars
<1>1. /\ running \in Tools /\ step = "write" /\ tree \in Tree /\ left # <<>>
      /\ running = "back" => tree \in Compilable
      /\ UNCHANGED <<source, running, step, tree, status>>
      /\ good[running] = NULL
      /\ good' = [good EXCEPT ![running] = IF left' = <<>> THEN Stored(running, tree) ELSE NULL]
  BY PieceWritten
<1>2. PhaseOf(running) = "replacing" /\ ~ Late(running, tree)
  BY <1>1, PhaseAt DEF Late
<1>3. CASE left' = <<>>
  <2>1. PhaseOf(running)' = "delivered"
    BY <1>1, <1>3 DEF PhaseOf
  <2>2. /\ [t \in Tools |-> PhaseOf(t)]' = [[t \in Tools |-> PhaseOf(t)] EXCEPT ![running] = "delivered"]
        /\ [t \in Tools |-> IF PhaseOf(t) = "idle" THEN NULL ELSE tree]' =
             [[t \in Tools |-> IF PhaseOf(t) = "idle" THEN NULL ELSE tree] EXCEPT ![running] = tree]
    BY <1>1, <1>2, <2>1, PhaseMoves
  <2>3. [t \in Tools |-> IF PhaseOf(t) = "idle" THEN NULL ELSE tree][running] = tree
    BY <1>1, <1>2
  <2>4. good' = [good EXCEPT ![running] = Stored(running, tree)]
    BY <1>1, <1>3
  <2>5. UNCHANGED [t \in Tools |-> IF PhaseOf(t) = "idle" THEN NULL ELSE tree]
    BY ONLY <2>2, <2>3
  <2>6. [t \in Tools |-> PhaseOf(t)][running] = "replacing"
    BY <1>1, <1>2
  <2>7. Promise!Deliver(running)
    BY <1>1, <1>2, <2>2, <2>3, <2>4, <2>5, <2>6, Zenon DEF Promise!Deliver
  <2> QED BY <2>7
<1>4. CASE left' # <<>>
  <2>1. PhaseOf(running)' = "replacing"
    BY <1>1, <1>4 DEF PhaseOf
  <2>2. good' = good
    BY <1>1, <1>4 DEF ToolInv
  <2> QED BY <1>1, <1>2, <2>1, <2>2, PhaseMoves DEF Promise!pipelineVars
<1> QED BY <1>3, <1>4

\* On a full disk the rest of an output is lost.
LEMMA LosingDelivers ==
  ASSUME ToolInv, lose_rest
  PROVE  Promise!Lose(running)
<1>1. /\ step = "write" /\ left # <<>> /\ left' = <<>>
      /\ UNCHANGED <<source, good, running, step, tree, status>>
  BY DEF lose_rest
<1>2. running \in Tools /\ running # "none"
  BY <1>1 DEF ToolInv, Working, Tools
<1>3. ~ Late(running, tree)
  BY <1>1, <1>2, AtStep DEF Late
<1>4. PhaseOf(running) = "replacing" /\ PhaseOf(running)' = "delivered"
  BY <1>1, <1>2 DEF PhaseOf
<1> QED BY <1>1, <1>2, <1>3, <1>4, PhaseMoves DEF Promise!Lose

\* Every step of the programs is one that Pipeline allows.
LEMMA ToolchainRefines ==
  ASSUME ToolInv, [ToolchainNext]_toolVars
  PROVE  [Promise!Next]_(Promise!pipelineVars)
<1>1. CASE edit
  BY <1>1 DEF edit, Promise!Next, Promise!Edit, PhaseOf
<1>2. CASE start
  <2>1. running = "none" /\ step' = "read" /\ UNCHANGED <<source, good, status>>
    BY <1>2 DEF start
  <2>2. ASSUME NEW t \in Tools PROVE PhaseOf(t) = "idle" /\ PhaseOf(t)' = "idle"
    BY <2>1 DEF PhaseOf, Tools
  <2> QED BY <2>1, <2>2 DEF Promise!pipelineVars
<1>3. CASE get_tree_from_source \/ input_tree_from_file \/ try_simplify_tree \/ get_tree_from_file
  BY <1>3, SourceTaken, MidendTakes, BackendTakes DEF Promise!Next, Tools
<1>4. CASE open_output
  BY <1>4, OutputOpened, OpeningReplaces DEF Promise!Next
<1>5. CASE compile_tree_to_file
  BY <1>5, CompilingRefuses DEF Promise!Next, Tools
<1>6. CASE write_piece
  BY <1>6, PieceWritten, WritingDelivers DEF Promise!Next
<1>7. CASE lose_rest
  <2>1. running \in Tools
    BY <1>7 DEF lose_rest, ToolInv, Working, Tools
  <2> QED BY <1>7, <2>1, LosingDelivers DEF Promise!Next
<1>8. CASE close_output
  <2>1. step = "write" /\ left = <<>> /\ Exit("done") /\ UNCHANGED good
    BY <1>8 DEF close_output
  <2>2. running \in Tools
    BY <2>1 DEF ToolInv, Working, Tools
  <2>3. Promise!Succeed(running)
    BY <2>1, <2>2, PhaseAt, ExitEnds DEF Promise!Succeed
  <2> QED BY <2>2, <2>3 DEF Promise!Next
<1>9. CASE die
  <2>1. running \in Tools /\ Exit("crashed") /\ UNCHANGED good
    BY <1>9 DEF die, ToolInv, Working, Tools
  <2>2. Promise!Die(running)
    BY <2>1, ExitEnds DEF Promise!Die
  <2> QED BY <2>1, <2>2 DEF Promise!Next
<1>10. CASE UNCHANGED toolVars
  <2>1. UNCHANGED <<source, good, running, step, tree, left, status>>
    BY <1>10 DEF toolVars
  <2>2. \A t \in Tools : PhaseOf(t)' = PhaseOf(t)
    BY <2>1 DEF PhaseOf
  <2> QED BY <2>1, <2>2 DEF Promise!pipelineVars
<1> QED BY <1>1, <1>2, <1>3, <1>4, <1>5, <1>6, <1>7, <1>8, <1>9, <1>10 DEF ToolchainNext

\* The programs start with nothing done.
LEMMA PipelineStarts == ToolchainInit => Promise!Init
<1> SUFFICES ASSUME ToolchainInit PROVE Promise!Init
  OBVIOUS
<1>1. \A t \in Tools : PhaseOf(t) = "idle"
  BY DEF ToolchainInit, PhaseOf, Tools
<1> QED BY <1>1 DEF ToolchainInit, Promise!Init

\* However the three programs are run, stopped, run again and edited around, a
\* file is good for exactly what its program made of its input, or for nothing.
THEOREM PromisesKept == ToolchainSpec => ImplementsPipeline
<1> QED BY PipelineStarts, ToolchainRefines, ToolInvariance, PTL
        DEF ToolchainSpec, ImplementsPipeline, Promise!PipelineSpec
=============================================================================
