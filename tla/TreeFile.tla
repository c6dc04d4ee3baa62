------------------------------- MODULE TreeFile -------------------------------
(***************************************************************************)
(* The files the three programs exchange (tree_print, tree_read).  A file  *)
(* is the sequence of its words, a word a sequence of characters: every    *)
(* conversion of the reader skips white space first.  The reader is a      *)
(* record of what is left of the file, of the two static buffers, of       *)
(* whether the last conversion succeeded (after one that did not, those of *)
(* the same node are not tried), and of whether an error was logged.       *)
(***************************************************************************)
EXTENDS AstShape, TokenList
LOCAL INSTANCE FiniteSetsExt

Chars(s) == [i \in 1..Len(s) |-> SubSeq(s, i, i)]

\* Types the reader knows and then refuses.
NonStandard == {"CMP", "LOGIC"}

TypeWords == {Chars(t) : t \in NodeType \cup NonStandard}
OpWords   == {Chars(op) : op \in op_type}

Lookup(names, word) == CHOOSE n \in names : Chars(n) = word

-----------------------------------------------------------------------------
(* Writing.                                                                *)

print_value(node) ==
  CASE node.type = "OP"    -> Chars(node.value)
    [] node.type = "CONST" -> printed(node.value)
    [] node.type \in Named -> node.value
    [] OTHER               -> Chars("NULL")

RECURSIVE node_print(_)
node_print(node) ==
  IF node = NULL THEN <<<<"{">>, <<"}">>>>
  ELSE <<<<"{">>, Chars(node.type), <<",">>, print_value(node), <<",">>>>
         \o node_print(node.left) \o <<<<",">>>> \o node_print(node.right) \o <<<<"}">>>>

-----------------------------------------------------------------------------
(* Reading.                                                                *)

reader(file) ==
  [rest |-> file, type |-> <<>>, op |-> <<>>, got |-> <<>>, ok |-> TRUE, err |-> FALSE,
   node |-> NULL]

first(r) == Head(Head(r.rest))

skip(r, n) ==
  LET word == SubSeq(Head(r.rest), n + 1, Len(Head(r.rest)))
  IN  [r EXCEPT !.rest = (IF word = <<>> THEN <<>> ELSE <<word>>) \o Tail(r.rest)]

\* fscanf(" %c"), and whether it was the one that should be there.  A wrong
\* character is taken all the same.
expect(r, c) ==
  IF ~ r.ok THEN r
  ELSE IF r.rest = <<>> THEN [r EXCEPT !.ok = FALSE]
  ELSE [skip(r, 1) EXCEPT !.ok = first(r) = c]

\* fscanf(" %<width>[<class>]"): at least one character of the class.
scan(r, class, width) ==
  IF ~ r.ok \/ r.rest = <<>> THEN [r EXCEPT !.ok = FALSE]
  ELSE LET word == Head(r.rest)
           n == Max({k \in 0..Len(word) : k <= width /\ \A i \in 1..k : word[i] \in class})
       IN  IF n = 0 THEN [r EXCEPT !.ok = FALSE]
           ELSE [skip(r, n) EXCEPT !.got = SubSeq(word, 1, n)]

Capital == {"A", "B", "C", "D", "E", "F", "G", "H", "I", "J", "K", "L", "M", "N", "O", "P",
            "Q", "R", "S", "T", "U", "V", "W", "X", "Y", "Z"}
NotSpace == Capital \cup Letter \cup Digit \cup {"{", "}", ",", ".", "-"}

\* Mutant: the buffer is no longer static.
buffered_fresh(r, s, buffer) == IF s.ok THEN s.got ELSE <<>>

\* What is in a static buffer after a scan: if nothing fits, what was there.
buffered(r, s, buffer) == IF s.ok THEN s.got ELSE buffer

read_type(r) ==
  LET s    == scan(r, Capital, 15)
      word == buffered(r, s, r.type)
  IN  IF ~ r.ok THEN r ELSE [s EXCEPT !.type = word, !.ok = word \in TypeWords]

read_op(r) ==
  LET s    == scan(r, Capital, 15)
      word == buffered(r, s, r.op)
  IN  [s EXCEPT !.op = word, !.got = word, !.ok = word \in OpWords]

\* fscanf(" %lf") of the numbers that print_value writes.
read_number(r) == scan(r, Digit \cup {".", "-"}, 99)

NumberOf(word) ==
  IF word[1] = "-" THEN LET v == strtod(Tail(word)) IN <<-v[1], v[2]>> ELSE strtod(word)

\* Mutant: names may begin with digits, as those of the frontend do.
read_name_any(r) == scan(r, Capital \cup Letter \cup Digit, 99)

read_name(r) ==
  LET s == scan(r, Capital \cup Letter \cup Digit, 99)
  IN  [s EXCEPT !.ok = s.ok /\ s.got[1] \notin Digit]

read_null(r) ==
  LET s == scan(r, NotSpace, 4) IN [s EXCEPT !.ok = s.ok /\ s.got = Chars("NULL")]

read_value(r) ==
  IF ~ r.ok THEN r
  ELSE LET type == Lookup(NodeType \cup NonStandard, r.type)
       IN  CASE type = "OP"             -> read_op(r)
             [] type \in NonStandard    -> [r EXCEPT !.ok = FALSE]
             [] type = "CONST"          -> read_number(r)
             [] type \in Named          -> read_name(r)
             [] OTHER                   -> read_null(r)

value_of(type, got) ==
  CASE type = "OP"    -> Lookup(op_type, got)
    [] type = "CONST" -> NumberOf(got)
    [] type \in Named -> got
    [] OTHER          -> NULL

returned(r, node) == [r EXCEPT !.node = node]

\* After an error the node is NULL, and the caller does not ask why.
abandoned(r) == [r EXCEPT !.node = NULL, !.ok = TRUE, !.err = TRUE]

\* Mutant: what is behind the right child is not looked at.
closed_unseen(right) == right

closed(right) == expect(right, "}")

RECURSIVE node_read(_)

\* The children of a node whose type and value have been read.
read_children(head) ==
  LET left  == node_read(head)
      comma == expect(left, ",")
      right == node_read(comma)
      close == closed(right)
      type  == Lookup(NodeType, head.type)
      node  == make_node(type, value_of(type, head.got), left.node, right.node)
  IN  IF ~ comma.ok THEN abandoned(comma)
      ELSE IF ~ close.ok THEN abandoned(close) ELSE returned(close, node)

node_read(r) ==
  LET open == expect(r, "{")
      head == expect(read_value(expect(read_type(open), ",")), ",")
  IN  IF ~ open.ok \/ open.rest = <<>> THEN abandoned(open)
      ELSE IF first(open) = "}" THEN returned(skip(open, 1), NULL)
      ELSE IF ~ head.ok THEN abandoned(head) ELSE read_children(head)

\* Nobody looks at what follows the root.
tree_read(file) == node_read(reader(file))

-----------------------------------------------------------------------------
(* What is left of a tree that is written and read, for the properties.    *)

NumberedName(n) == n.type \in Named /\ n.value[1] \in Digit

\* Numbers are rounded; a name with a digit in front makes a file that is
\* refused.
ReadBack(tree) == IF \E n \in Subtrees(tree) : NumberedName(n) THEN NULL ELSE Rounded(tree)
===============================================================================
