---------------------------- MODULE FileExchange ----------------------------
(***************************************************************************)
(* A tree on its way from one program to the next (save_tree_to_file,      *)
(* write_tree_to_file, read_tree_from_file, input_tree_from_file and       *)
(* get_tree_from_file): it is printed, the writer may die before all of it *)
(* is in the file, somebody may edit the file, and it is read.             *)
(***************************************************************************)
EXTENDS TreeFile
LOCAL INSTANCE SequencesExt

CONSTANTS
  Tree,         \* the trees that are written
  Word          \* what an editor may put into a file

VARIABLES
  tree,         \* history: the tree that was written
  file,
  state,        \* "empty", "whole", "cut" or "edited"
  done,         \* whether the file has been read
  got,          \* the tree that was read, NULL before
  err           \* whether an error was logged

exchangeVars == <<tree, file, state, done, got, err>>

ExchangeInit ==
  /\ tree \in Tree
  /\ file = <<>>
  /\ state = "empty"
  /\ done = FALSE
  /\ got = NULL
  /\ err = FALSE

write_tree_to_file ==
  /\ state = "empty"
  /\ file' = node_print(tree)
  /\ state' = "whole"
  /\ UNCHANGED <<tree, done, got, err>>

\* The first characters of a file: n words and k characters of the next.
Beginning(words, n, k) ==
  SubSeq(words, 1, n) \o (IF k = 0 THEN <<>> ELSE <<SubSeq(words[n + 1], 1, k)>>)

die_while_writing ==
  /\ state = "empty"
  /\ LET words == node_print(tree)
     IN  \E n \in 0..(Len(words) - 1) : \E k \in 0..(Len(words[n + 1]) - 1) :
           file' = Beginning(words, n, k)
  /\ state' = "cut"
  /\ UNCHANGED <<tree, done, got, err>>

edit ==
  /\ state = "whole"
  /\ ~ done
  /\ \E i \in DOMAIN file :
       \/ file' = RemoveAt(file, i)
       \/ \E w \in Word : w # file[i] /\ (file' = ReplaceAt(file, i, w) \/ file' = InsertAt(file, i, w))
  /\ state' = "edited"
  /\ UNCHANGED <<tree, done, got, err>>

read_tree_from_file ==
  /\ state # "empty"
  /\ ~ done
  /\ done' = TRUE
  /\ LET answer == tree_read(file) IN got' = answer.node /\ err' = answer.err
  /\ UNCHANGED <<tree, file, state>>

ExchangeNext == write_tree_to_file \/ die_while_writing \/ edit \/ read_tree_from_file

ExchangeSpec == ExchangeInit /\ [][ExchangeNext]_exchangeVars

-----------------------------------------------------------------------------

HasBeenRead(s) == state = s /\ done

\* A tree is read as it was written, up to thousandths, unless one of its
\* names begins with a digit: the lexer and the writer let those pass, the
\* reader does not (tree_read does not say so: its root is NULL).
PrintedTreesAreRead ==
  HasBeenRead("whole") => got = ReadBack(tree)

\* Wherever the writer died, what is in the file is taken for no tree.
CutFilesAreRefused == HasBeenRead("cut") => got = NULL

\* The words of a printed tree that the buffers of the reader still hold when
\* it comes to them: the last word of the same kind was the same.
Kind(words, i) ==
  CASE i > 1 /\ words[i - 1] = <<"{">> /\ words[i] # <<"}">> -> "type"
    [] i > 3 /\ words[i - 3] = <<"{">> /\ words[i - 2] = Chars("OP") -> "operator"
    [] OTHER -> "other"

StillHeld(words, i) ==
  /\ Kind(words, i) # "other"
  /\ \E j \in 1..(i - 1) :
       /\ words[j] = words[i]
       /\ Kind(words, j) = Kind(words, i)
       /\ \A k \in (j + 1)..(i - 1) : Kind(words, k) # Kind(words, i)

IsNumeral(word) == \A i \in DOMAIN word : word[i] \in Digit \cup {".", "-"}

InThousandths(words) ==
  [i \in DOMAIN words |-> IF IsNumeral(words[i]) THEN printed(NumberOf(words[i])) ELSE words[i]]

\* The reader goes on behind a part that is wrong; but if it logs no error,
\* the file holds the tree it returns, as the writer would have written it.
\* Only the type or the operator of a node may be missing, if the node before
\* it had the same: then it is taken from a static buffer.
EditedFilesAreChecked ==
  HasBeenRead("edited") =>
    LET Says(words) == IsPrefix(words, InThousandths(file))
        Without(words) == {RemoveAt(words, i) : i \in {k \in DOMAIN words : StillHeld(words, k)}}
        print(t) == node_print(Rounded(t))
    IN  /\ ~ err => \E words \in {print(got)} \cup Without(print(got)) : Says(words)
        /\ (\E words \in Without(print(tree)) : file = words) => ~ err /\ got = Rounded(tree)
=============================================================================
