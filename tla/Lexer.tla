-------------------------------- MODULE Lexer --------------------------------
(***************************************************************************)
(* The lexer of the frontend (lexer.cpp, lexer_tree.cpp).  The words of    *)
(* the language form a tree of characters; two more nodes, `name` and      *)
(* `num`, loop on the characters of names and of numbers, and take over    *)
(* where a word is left.  The loop walks the tree as long as it can, takes *)
(* the word it stands on, or else goes back to the last node that was one. *)
(* A tree node is the prefix of the words below it.                        *)
(***************************************************************************)
EXTENDS Lexemes

CONSTANTS
  Text,         \* the source texts: sequences of characters
  MaxTokens     \* bounds the tokens of a text

END    == "NUL"

\* Texts are C strings: they end at the first NUL.
Char == UNION {{t[i] : i \in 1..Len(t)} : t \in Text}

TextAssumption == Text \subseteq Seq(Char) /\ END \notin Char
ASSUME TextAssumption

-----------------------------------------------------------------------------
(* The tree.                                                               *)

root == <<>>
name == <<"NAME">>
num  == <<"NUM">>
eof  == <<"EOF">>
NIL  == <<"NIL">>

\* The node of a word has the word's type.  A node on the way there is itself
\* a number or a name if its characters are those of one.
node_type(node) ==
  IF node \in {name, num, eof} THEN node[1]
  ELSE IF node = root           THEN "ERROR"
  ELSE IF node \in Words        THEN TypeOfWord(node)
  ELSE IF IsDigitPrefix(node)   THEN "NUM"
  ELSE IF IsNamePrefix(node)    THEN "NAME"
  ELSE "ERROR"

\* The nodes `name` and `num` loop; `eof` leads nowhere.
loop(node, c) ==
  IF (node = name /\ is_name_char(c)) \/ (node = num /\ is_num_char(c)) THEN node ELSE NIL

\* Mutant: a place both could fill goes to names.
next_names_first(node, c) ==
  IF node \in {name, num, eof} THEN loop(node, c)
  ELSE IF node = root /\ c \in Space       THEN root
  ELSE IF node = root /\ c = END           THEN eof
  ELSE IF Append(node, c) \in WordPrefixes THEN Append(node, c)
  ELSE IF IsNamePrefix(Append(node, c))     THEN name
  ELSE IF IsDigitPrefix(Append(node, c))    THEN num
  ELSE NIL

\* Words first, then numbers, then names: subtree_add_numbers fills the places
\* lexer_tree_add_word has left, subtree_add_names those left by both.
next(node, c) ==
  IF node \in {name, num, eof} THEN loop(node, c)
  ELSE IF node = root /\ c \in Space       THEN root
  ELSE IF node = root /\ c = END           THEN eof
  ELSE IF Append(node, c) \in WordPrefixes THEN Append(node, c)
  ELSE IF IsDigitPrefix(Append(node, c))    THEN num
  ELSE IF IsNamePrefix(Append(node, c))     THEN name
  ELSE NIL

-----------------------------------------------------------------------------

VARIABLES
  text, tokens,
  result,                   \* "none", "done" or "failed"
  cur_node,
  complete,                 \* the last node that was a token, or NIL
  current_pos, token_pos, complete_pos

position == <<current_pos, token_pos, complete_pos>>
lexerVars == <<text, tokens, result, cur_node, complete, position>>

file_pos(line, column, offset) == [line |-> line, column |-> column, offset |-> offset]

char_at(offset) == IF offset < Len(text) THEN text[offset + 1] ELSE END
cur_c == char_at(current_pos.offset)

\* What an iteration of the loop computes before it decides: the position of
\* the character, where the token starts, and whether a token ends here.
here ==
  IF cur_c = "\n" \/ current_pos.offset = 0
    THEN file_pos(current_pos.line + 1, 1, current_pos.offset)
    ELSE [current_pos EXCEPT !.column = @ + 1]

OnToken   == node_type(cur_node) # "ERROR"
start     == IF cur_node = root THEN here ELSE token_pos
last      == IF OnToken THEN cur_node ELSE complete
last_pos  == IF OnToken THEN here ELSE complete_pos

\* strndup: a length below zero, as a size_t, is that of the rest of the text.
Substring(from, length) ==
  SubSeq(text, from + 1, IF length < 0 THEN Len(text) ELSE from + length)

\* `from` is the offset of the text in the source; it is not part of the token.
token_ctor(s, type, pos) ==
  IF type = "NUM" /\ ~ IsDecimal(s)
    THEN [str |-> <<>>, type |-> "ERROR", line_num |-> 0, char_num |-> 0, from |-> pos.offset]
    ELSE [str |-> s, type |-> type, line_num |-> pos.line, char_num |-> pos.column,
          from |-> pos.offset]

LexerInit ==
  /\ text \in Text
  /\ tokens = <<>>
  /\ result = "none"
  /\ cur_node = root
  /\ complete = NIL
  /\ current_pos = file_pos(0, 0, 0)
  /\ token_pos = file_pos(0, 0, 0)
  /\ complete_pos = file_pos(0, 0, 0)

Iterating == result = "none" /\ current_pos.offset <= Len(text)

Push(type, length) ==
  /\ Len(tokens) < MaxTokens
  /\ tokens' = Append(tokens, token_ctor(Substring(start.offset, length), type, start))

advance ==
  /\ Iterating
  /\ next(cur_node, cur_c) # NIL
  /\ cur_node' = next(cur_node, cur_c)
  /\ current_pos' = [here EXCEPT !.offset = @ + 1]
  /\ token_pos' = start
  /\ complete' = last
  /\ complete_pos' = last_pos
  /\ UNCHANGED <<text, tokens, result>>

\* Mutant: the character behind the token has been counted.
lst_pos_counted == here

lst_pos == current_pos

\* The character here is not part of the token: it is looked at once more.
take_token ==
  /\ Iterating
  /\ next(cur_node, cur_c) = NIL
  /\ OnToken
  /\ Push(node_type(cur_node), here.offset - start.offset)
  /\ cur_node' = root
  /\ current_pos' = lst_pos
  /\ token_pos' = start
  /\ complete' = last
  /\ complete_pos' = last_pos
  /\ UNCHANGED <<text, result>>

\* Mutant: the node taken stays remembered.
complete_reset_forgotten == [node |-> complete, pos |-> complete_pos]

complete_reset == [node |-> NIL, pos |-> file_pos(0, 0, 0)]

\* `complete` may be older than the token: it is not reset by take_token.
take_complete ==
  /\ Iterating
  /\ next(cur_node, cur_c) = NIL
  /\ ~ OnToken
  /\ complete # NIL
  /\ Push(node_type(complete), complete_pos.offset - start.offset)
  /\ cur_node' = root
  /\ current_pos' = complete_pos
  /\ complete' = complete_reset.node
  /\ complete_pos' = complete_reset.pos
  /\ token_pos' = start
  /\ UNCHANGED <<text, result>>

invalid_token ==
  /\ Iterating
  /\ next(cur_node, cur_c) = NIL
  /\ ~ OnToken
  /\ complete = NIL
  /\ result' = "failed"
  /\ UNCHANGED <<text, tokens, cur_node, complete, position>>

end_of_text ==
  /\ result = "none"
  /\ current_pos.offset > Len(text)
  /\ tokens' = Append(tokens, token_ctor(<<>>, "EOF", current_pos))
  /\ result' = "done"
  /\ UNCHANGED <<text, cur_node, complete, position>>

Lex == advance \/ take_token \/ take_complete \/ invalid_token \/ end_of_text

LexerSpec == LexerInit /\ [][Lex]_lexerVars /\ WF_lexerVars(Lex)

-----------------------------------------------------------------------------
(* What the lexer promises about the tokens of a text (Lexemes).           *)

IsLongest(token) ==
  LET s == TextOf(text, token.from)
  IN  token.type = KindOf(s) /\ (token.type # "ERROR" => token.str = s)

\* The lexer's answer is the sequence of longest tokens, though it commits to
\* paths it has to leave again and remembers nodes of earlier tokens.
LongestTokens ==
  result = "done" =>
    /\ {tokens[k].from : k \in 1..(Len(tokens) - 1)} = Beginnings(text)
    /\ \A k \in 1..(Len(tokens) - 1) :
         /\ IsLongest(tokens[k])
         /\ k > 1 => tokens[k - 1].from < tokens[k].from

Newlines(offset) == Cardinality({i \in 2..offset : text[i] = "\n"})

LineIsRight(token) == token.type # "ERROR" => token.line_num = 1 + Newlines(token.from)

\* Every token carries the number of its line, though the newline behind a
\* token is read twice and the position moves back and forth.  Only a newline
\* that is the first character of the text is not counted.
LinesCorrect ==
  result = "done" => \A k \in 1..(Len(tokens) - 1) : LineIsRight(tokens[k])

(* Why the lines are right.                                                *)

\* The nodes the lexer meets.
Node == Seq(Char \cup {"NAME", "NUM", "EOF"})

FilePos == [line : Nat, column : Nat, offset : Nat]

LexerTyped ==
  /\ text \in Text
  /\ tokens \in Seq({tokens[k] : k \in 1..Len(tokens)})
  /\ cur_node \in Node
  /\ {current_pos, token_pos, complete_pos} \subseteq FilePos
  /\ {current_pos.offset, complete_pos.offset} \subseteq 0..(Len(text) + 1)

\* From offset `from` the lexer walks to offset `to` and meets no token; it
\* leaves the root at offset s.
Walks(s, from, to) ==
  \A i \in from..(to - 1) :
    LET node == SubSeq(text, s + 1, i)
    IN  /\ node_type(node) = "ERROR"
        /\ next(node, char_at(i)) = SubSeq(text, s + 1, i + 1)

\* The node remembered is one of this token, and was passed on a character
\* that is no newline: it is safe to go back there.
Remembered ==
  /\ cur_node # root
  /\ complete_pos.offset \in 1..(Len(text) - 1)
  /\ text[complete_pos.offset + 1] # "\n"
  /\ complete_pos.line = 1 + Newlines(complete_pos.offset)

\* The node remembered is the token before: there has been none since.
Outdated ==
  \E s \in complete_pos.offset..current_pos.offset :
    /\ cur_node = SubSeq(text, s + 1, current_pos.offset)
    /\ Walks(s, complete_pos.offset, current_pos.offset)

\* The lexer went back to an outdated node, and walks where it was stuck.
Lost ==
  /\ complete = NIL
  /\ \E stuck \in current_pos.offset..Len(text) : \E s \in 0..stuck :
       LET node == SubSeq(text, s + 1, stuck)
       IN  /\ cur_node = SubSeq(text, s + 1, current_pos.offset)
           /\ Walks(s, current_pos.offset, stuck)
           /\ node_type(node) = "ERROR" /\ next(node, char_at(stuck)) = NIL

Counting ==
  /\ current_pos.line = IF current_pos.offset = 0 THEN 0 ELSE 1 + Newlines(current_pos.offset)
  /\ cur_node # root => /\ token_pos.offset < current_pos.offset
                        /\ token_pos.line = 1 + Newlines(token_pos.offset)
  /\ complete # NIL /\ ~ OnToken => Remembered \/ Outdated

\* The inductive invariant: a line is wrong only when the lexer has gone back
\* to an outdated node, and then it will not get to the end of the text.
LinesInv ==
  /\ LexerTyped
  /\ result \in {"none", "done", "failed"}
  /\ result = "none" =>
       \/ Lost
       \/ /\ \A k \in 1..Len(tokens) : LineIsRight(tokens[k])
          /\ current_pos.offset <= Len(text) => Counting
  /\ LinesCorrect

(* Why the tokens are the longest.                                         *)

\* The node that the characters of a token lead to.
Reached(s) ==
  IF s \in WordPrefixes THEN s
  ELSE IF IsDigitPrefix(s) THEN num
  ELSE IF IsName(s) THEN name ELSE NIL

\* The tokens pushed are the longest where they begin, and the first of the
\* text: the others begin where the lexer stands, or behind it.
FirstTokens ==
  /\ start.offset \in 0..Len(text)
  /\ Beginnings(text) = {tokens[k].from : k \in 1..Len(tokens)}
                           \cup BeginningsFrom(text)[start.offset]
  /\ \A k \in 1..Len(tokens) :
       /\ tokens[k].from \in Nat /\ Ends(text, tokens[k].from) # {} /\ IsLongest(tokens[k])
       /\ tokens[k].from < IF k < Len(tokens) THEN tokens[k + 1].from ELSE start.offset

\* The node is the one the characters of this token lead to.
OnPath ==
  \/ cur_node = root /\ current_pos.offset <= Len(text)
  \/ cur_node = eof /\ start.offset = Len(text) /\ current_pos.offset > Len(text)
  \/ /\ cur_node \notin {root, eof, NIL}
     /\ start.offset < current_pos.offset /\ current_pos.offset <= Len(text)
     /\ cur_node = Reached(SubSeq(text, start.offset + 1, current_pos.offset))

\* The longest token passed is the one remembered.  If none was passed, what is
\* remembered is outdated.
LongestPassed ==
  LET passed == {to \in Ends(text, start.offset) : to < current_pos.offset}
  IN  \/ /\ complete # NIL
         /\ complete_pos.offset \in passed
         /\ \A to \in passed : to <= complete_pos.offset
         /\ complete = Reached(SubSeq(text, start.offset + 1, complete_pos.offset))
      \/ /\ passed = {}
         /\ complete # NIL /\ ~ OnToken => Outdated

\* The inductive invariant: while the lexer is not lost, it looks for the
\* longest token at the right place; when it is lost, the text is not made of
\* tokens.
TokensInv ==
  /\ result = "none" => \/ Lost /\ ~ Tokenizable(text)
                        \/ FirstTokens /\ OnPath /\ LongestPassed
  /\ result = "done" => Tokenizable(text)
  /\ result = "failed" => ~ Tokenizable(text)
  /\ LongestTokens

Promise == INSTANCE Verdict WITH
  Program  <- Text,
  program  <- text,
  Accepts  <- Tokenizable,
  verdict  <- result

\* Lexing ends, though it may go back, and it succeeds exactly on the texts
\* that consist of tokens: what is remembered from an earlier token never
\* keeps it going and never hides an error.
LexerImplementsVerdict == Promise!VerdictSpec
=============================================================================
