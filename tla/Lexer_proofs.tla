----------------------------- MODULE Lexer_proofs -----------------------------
(***************************************************************************)
(* Proofs that the lexer counts lines right (LinesInv is inductive), that  *)
(* its tokens are the longest, and that it accepts the texts made of       *)
(* tokens (TokensInv is inductive).                                        *)
(***************************************************************************)
EXTENDS Lexer, FiniteSetTheorems, SequenceTheorems, WellFoundedInduction, TLAPS

(* The tree.                                                               *)

\* The characters of the words.
WordChar ==
  Letter \cup Digit \cup {"[", "}", ":", "=", "<", "'", "(", ",", "+", "-", "/", ".", ">", " "}

\* Tuples of up to six members.
LEMMA Tuples ==
  ASSUME NEW S
  PROVE  /\ \A a \in S : << a >> \in Seq(S)
         /\ \A a, b \in S : << a, b >> \in Seq(S)
         /\ \A a, b, c \in S : << a, b, c >> \in Seq(S)
         /\ \A a, b, c, d \in S : << a, b, c, d >> \in Seq(S)
         /\ \A a, b, c, d, e, f \in S : << a, b, c, d, e, f >> \in Seq(S)
         /\ \A a, b : << a, b >>[2] = b
OBVIOUS

\* Words consist of them.
LEMMA WordCharacters ==
  ASSUME NEW l \in lexemes
  PROVE  l[2] \in Seq(WordChar)
<1>1. /\ " " \in WordChar /\ "'" \in WordChar /\ "(" \in WordChar /\ "+" \in WordChar
      /\ "," \in WordChar /\ "-" \in WordChar /\ "." \in WordChar /\ "/" \in WordChar
      /\ "0" \in WordChar /\ "1" \in WordChar /\ "8" \in WordChar /\ ":" \in WordChar
      /\ "<" \in WordChar /\ "=" \in WordChar /\ ">" \in WordChar /\ "[" \in WordChar
      /\ "_" \in WordChar /\ "a" \in WordChar /\ "d" \in WordChar /\ "e" \in WordChar
      /\ "f" \in WordChar /\ "i" \in WordChar /\ "l" \in WordChar /\ "n" \in WordChar
      /\ "o" \in WordChar /\ "r" \in WordChar /\ "s" \in WordChar /\ "t" \in WordChar
      /\ "u" \in WordChar /\ "v" \in WordChar /\ "}" \in WordChar
  BY Zenon DEF WordChar, Letter, Digit
<1>2. /\ <<"v", "a", "r">> \in Seq(WordChar) /\ <<"f", "u", " ", "n">> \in Seq(WordChar)
      /\ <<"[">> \in Seq(WordChar) /\ <<"}">> \in Seq(WordChar)
      /\ <<":", "=">> \in Seq(WordChar) /\ <<"<", "_">> \in Seq(WordChar)
      /\ <<"'">> \in Seq(WordChar) /\ <<"e", "e", "f">> \in Seq(WordChar)
      /\ <<"e", "l", "s">> \in Seq(WordChar) /\ <<"v", "i", "l", "e">> \in Seq(WordChar)
      /\ <<"r", "i", "t", "u", "r", "n">> \in Seq(WordChar) /\ <<"(">> \in Seq(WordChar)
      /\ <<"0">> \in Seq(WordChar) /\ <<",">> \in Seq(WordChar)
      /\ <<"+">> \in Seq(WordChar) /\ <<"-">> \in Seq(WordChar)
      /\ <<"8">> \in Seq(WordChar) /\ <<"/">> \in Seq(WordChar)
      /\ <<"o", "r">> \in Seq(WordChar) /\ <<"a", "a", "n", "d">> \in Seq(WordChar)
      /\ <<"n", "o", "t">> \in Seq(WordChar) /\ <<"<">> \in Seq(WordChar)
      /\ <<".">> \in Seq(WordChar) /\ <<"<", "=">> \in Seq(WordChar)
      /\ <<">", "=">> \in Seq(WordChar) /\ <<"=", "=", "=", "=">> \in Seq(WordChar)
      /\ <<"1", "=">> \in Seq(WordChar) /\ <<"d">> \in Seq(WordChar)
  BY <1>1, Tuples, Zenon
<1> HIDE DEF WordChar
<1>3. PICK type, word : l = << type, word >> /\ word \in Seq(WordChar)
  BY <1>2, ZenonT(60) DEF lexemes
<1> QED BY <1>3, Tuples, Zenon

\* A newline and the end of a text are in no word, name or number.
LEMMA InLine ==
  /\ \A c \in WordChar : c \notin {"\n", END}
  /\ \A c : is_name_char(c) \/ is_num_char(c) => c \notin {"\n", END}
BY Zenon DEF WordChar, is_name_char, is_num_char, Letter, Digit, END

\* The nodes that are no words.
LEMMA OtherNodes ==
  /\ name # root /\ num # root /\ eof # root /\ NIL # root
  /\ name # NIL /\ num # NIL /\ eof # NIL
  /\ node_type(root) = "ERROR"
  /\ \A node \in {name, num, eof} : node_type(node) # "ERROR"
<1>1. /\ name # root /\ num # root /\ eof # root /\ NIL # root
      /\ name # NIL /\ num # NIL /\ eof # NIL
  BY DEF name, num, eof, NIL, root
<1>2. node_type(root) = "ERROR"
  BY <1>1 DEF node_type
<1>3. \A node \in {name, num, eof} : node_type(node) # "ERROR"
  <2>1. name[1] = "NAME" /\ num[1] = "NUM" /\ eof[1] = "EOF"
    BY DEF name, num, eof
  <2> QED BY <2>1 DEF node_type
<1> QED BY <1>1, <1>2, <1>3

\* What leads to a node of a word is a character of the words.
LEMMA PrefixCharacter ==
  ASSUME NEW S, NEW node \in Seq(S), NEW c, Append(node, c) \in WordPrefixes
  PROVE  c \in WordChar
<1>1. PICK w \in Words : \E n \in 0..Len(w) : Append(node, c) = SubSeq(w, 1, n)
  BY DEF WordPrefixes
<1>2. w \in Seq(WordChar)
  BY WordCharacters DEF Words
<1> HIDE DEF WordChar
<1>3. PICK n \in 0..Len(w) : Append(node, c) = SubSeq(w, 1, n)
  BY <1>1
<1>4. n \in Int /\ \A i \in 1..n : w[i] \in WordChar
  BY <1>2
<1>5. Append(node, c) \in Seq(WordChar)
  BY <1>3, <1>4, SubSeqProperties
<1>6. /\ Len(Append(node, c)) = Len(node) + 1 /\ Len(node) \in Nat
      /\ Append(node, c)[Len(node) + 1] = c
  <2>1. node \in Seq(S \cup {c}) /\ c \in S \cup {c}
    OBVIOUS
  <2> QED BY <2>1, AppendProperties
<1> QED BY <1>5, <1>6

\* The last of the characters of a number, or of a name, is one of them.
LEMMA PrefixLast ==
  ASSUME NEW S, NEW node \in Seq(S), NEW c,
         IsDigitPrefix(Append(node, c)) \/ IsNamePrefix(Append(node, c))
  PROVE  is_name_char(c) \/ is_num_char(c)
<1>1. /\ Len(node) \in Nat /\ Len(Append(node, c)) = Len(node) + 1
      /\ Append(node, c)[Len(node) + 1] = c
  <2>1. node \in Seq(S \cup {c}) /\ c \in S \cup {c}
    OBVIOUS
  <2> QED BY <2>1, AppendProperties
<1>2. Len(node) + 1 \in 1..Len(Append(node, c))
  BY <1>1
<1> QED BY <1>1, <1>2 DEF IsDigitPrefix, IsNamePrefix

\* No node but the root is left on a newline, or at the end of the text; none
\* leads to the root.
LEMMA NextInLine ==
  ASSUME NEW S, NEW node \in Seq(S), NEW c, node # root, next(node, c) # NIL
  PROVE  c \notin {"\n", END} /\ next(node, c) # root
<1>1. CASE node \in {name, num, eof}
  <2>1. next(node, c) = node /\ (is_name_char(c) \/ is_num_char(c))
    BY <1>1 DEF next, loop
  <2> QED BY <2>1, InLine, Zenon
<1>2. CASE node \notin {name, num, eof} /\ Append(node, c) \in WordPrefixes
  <2>1. next(node, c) = Append(node, c)
    BY <1>2 DEF next
  <2>2. c \in WordChar
    BY <1>2, PrefixCharacter
  <2>3. Append(node, c) # root
    BY DEF root
  <2> QED BY <2>1, <2>2, <2>3, InLine, Zenon
<1>3. CASE node \notin {name, num, eof} /\ Append(node, c) \notin WordPrefixes
  <2>1. /\ IsDigitPrefix(Append(node, c)) \/ IsNamePrefix(Append(node, c))
        /\ next(node, c) \in {name, num}
    BY <1>3 DEF next
  <2>2. is_name_char(c) \/ is_num_char(c)
    BY <2>1, PrefixLast
  <2> QED BY <2>1, <2>2, InLine, OtherNodes, Zenon
<1> QED BY <1>1, <1>2, <1>3

\* Spaces stay at the root; the end of the text is only found there.
LEMMA NextOfRoot ==
  ASSUME NEW c, next(root, c) # NIL
  PROVE  \/ c \in Space /\ next(root, c) = root
         \/ c \notin Space /\ c = END /\ next(root, c) = eof
         \/ c \notin Space /\ c \notin {"\n", END} /\ next(root, c) # root
<1>1. "\n" \in Space
  BY Zenon DEF Space
<1>2. root \notin {name, num, eof}
  BY OtherNodes
<1>3. root \in Seq({}) /\ Append(root, c) # root
  BY DEF root
<1>4. CASE c \notin Space /\ c # END
  <2>1. next(root, c) \in {Append(root, c), name, num}
    BY <1>2, <1>4 DEF next
  <2> QED BY <1>1, <1>3, <1>4, <2>1, OtherNodes, Zenon
<1> QED BY <1>2, <1>4 DEF next

\* Among nodes that are no tokens the lexer walks along the text.
LEMMA NextSilent ==
  ASSUME NEW node, NEW c, node_type(node) = "ERROR",
         next(node, c) # NIL, node_type(next(node, c)) = "ERROR"
  PROVE  \/ node = root /\ c \in Space /\ next(node, c) = root
         \/ (node = root => c \notin Space) /\ next(node, c) = Append(node, c)
<1>1. node \notin {name, num, eof} /\ next(node, c) \notin {name, num, eof}
  BY OtherNodes
<1> QED BY <1>1 DEF next

\* It leads to such nodes only.
LEMMA NextTyped ==
  ASSUME NEW node \in Node, NEW c \in Char \cup {END}, next(node, c) # NIL
  PROVE  next(node, c) \in Node
<1>1. name \in Node /\ num \in Node /\ eof \in Node /\ root \in Node
  BY DEF Node, name, num, eof, root
<1>2. CASE Append(node, c) \in WordPrefixes
  <2>1. c # END
    BY <1>2, PrefixCharacter, InLine, Zenon DEF Node
  <2>2. Append(node, c) \in Node
    BY <2>1 DEF Node
  <2> QED BY <1>1, <2>2 DEF next, loop
<1>3. CASE Append(node, c) \notin WordPrefixes
  BY <1>1, <1>3 DEF next, loop
<1> QED BY <1>2, <1>3

(* Texts and positions.                                                    *)

\* Newlines are counted one by one; the first character is not looked at.
LEMMA NewlinesStep ==
  ASSUME NEW offset \in Nat
  PROVE  /\ Newlines(offset) \in Nat
         /\ offset <= 1 => Newlines(offset) = 0
         /\ Newlines(offset + 1) = IF offset >= 1 /\ text[offset + 1] = "\n"
                                     THEN Newlines(offset) + 1 ELSE Newlines(offset)
<1> DEFINE S == {i \in 2..offset : text[i] = "\n"}
           T == {i \in 2..(offset + 1) : text[i] = "\n"}
<1>1. IsFiniteSet(S)
  <2>1. IsFiniteSet(2..offset) /\ S \subseteq 2..offset
    BY FS_Interval
  <2> QED BY <2>1, FS_Subset
<1>2. Newlines(offset) = Cardinality(S) /\ Newlines(offset + 1) = Cardinality(T)
  BY DEF Newlines
<1>3. Cardinality(S) \in Nat
  BY <1>1, FS_CardinalityType
<1>4. offset <= 1 => Cardinality(S) = 0
  <2>1. offset <= 1 => S = {}
    OBVIOUS
  <2> QED BY <2>1, FS_EmptySet
<1>5. CASE offset >= 1 /\ text[offset + 1] = "\n"
  <2>1. T = S \cup {offset + 1} /\ offset + 1 \notin S
    BY <1>5
  <2> HIDE DEF S, T
  <2>2. Cardinality(T) = Cardinality(S) + 1
    BY <1>1, <2>1, FS_AddElement
  <2> QED BY <1>2, <1>3, <1>4, <1>5, <2>2
<1>6. CASE ~ (offset >= 1 /\ text[offset + 1] = "\n")
  <2>1. ASSUME NEW i PROVE i \in T <=> i \in S
    <3>1. i \in 2..(offset + 1) <=> i \in 2..offset \/ (i = offset + 1 /\ offset >= 1)
      OBVIOUS
    <3> QED BY <1>6, <3>1
  <2>2. T = S
    BY <2>1
  <2> HIDE DEF S, T
  <2> QED BY <1>2, <1>3, <1>4, <1>6, <2>2
<1> QED BY <1>5, <1>6

\* A piece of the text grows by the next character; before it begins it is
\* empty.
LEMMA Pieces ==
  ASSUME NEW t \in Seq(Char), NEW s \in Nat, NEW i \in 0..Len(t)
  PROVE  /\ i <= s => SubSeq(t, s + 1, i) = root
         /\ SubSeq(t, s + 1, i) = root => i <= s
         /\ s <= i /\ i < Len(t) => SubSeq(t, s + 1, i + 1) = Append(SubSeq(t, s + 1, i), t[i + 1])
<1>1. ASSUME i <= s PROVE SubSeq(t, s + 1, i) = root
  <2>1. i < s + 1 /\ s + 1 \in Int /\ i \in Int
    BY <1>1
  <2> QED BY <2>1, SubSeqEmpty DEF root
<1>2. ASSUME SubSeq(t, s + 1, i) = root PROVE i <= s
  <2>1. Len(SubSeq(t, s + 1, i)) = 0
    BY <1>2 DEF root
  <2>2. s + 1 \in Int /\ i \in Int /\ \A k \in (s + 1)..i : t[k] \in Char
    OBVIOUS
  <2>3. Len(SubSeq(t, s + 1, i)) = IF s + 1 <= i THEN i - (s + 1) + 1 ELSE 0
    BY <2>2, SubSeqProperties
  <2> QED BY <2>1, <2>3
<1>3. ASSUME s <= i, i < Len(t)
      PROVE  SubSeq(t, s + 1, i + 1) = Append(SubSeq(t, s + 1, i), t[i + 1])
  <2>1. s + 1 \in 1..Len(t) /\ i + 1 \in (s + 1)..Len(t) /\ (i + 1) - 1 = i
    BY <1>3
  <2>2. SubSeq(t, s + 1, i + 1) = SubSeq(t, s + 1, i) \o << t[i + 1] >>
    BY <2>1, SubSeqRecursiveSecond
  <2>3. SubSeq(t, s + 1, i) \in Seq(Char) /\ t[i + 1] \in Char
    <3>1. s + 1 \in Int /\ i \in Int /\ \A k \in (s + 1)..i : t[k] \in Char
      OBVIOUS
    <3> QED BY <2>1, <3>1, SubSeqProperties
  <2> QED BY <2>2, <2>3, AppendIsConcat
<1> QED BY <1>1, <1>2, <1>3

\* The text is there to be read.
LEMMA TextTyped ==
  ASSUME LexerTyped
  PROVE  /\ text \in Seq(Char) /\ Len(text) \in Nat
         /\ \A offset \in 0..(Len(text) - 1) :
              char_at(offset) = text[offset + 1] /\ char_at(offset) \in Char /\ char_at(offset) # END
         /\ \A offset \in Nat : char_at(offset) \in Char \cup {END}
<1>1. text \in Seq(Char) /\ Len(text) \in Nat
  BY TextAssumption DEF LexerTyped, TextAssumption
<1>2. \A offset \in 0..(Len(text) - 1) :
        char_at(offset) = text[offset + 1] /\ char_at(offset) \in Char /\ char_at(offset) # END
  <2>1. ASSUME NEW offset \in 0..(Len(text) - 1)
        PROVE  char_at(offset) = text[offset + 1] /\ text[offset + 1] \in Char
    <3>1. offset + 1 \in 1..Len(text) /\ offset < Len(text)
      BY <1>1
    <3> QED BY <1>1, <3>1, ElementOfSeq DEF char_at
  <2> QED BY <2>1, TextAssumption DEF TextAssumption
<1>3. ASSUME NEW offset \in Nat PROVE char_at(offset) \in Char \cup {END}
  <2>1. CASE offset < Len(text)
    BY <1>1, <1>2, <2>1
  <2>2. CASE ~ (offset < Len(text))
    BY <2>2 DEF char_at
  <2> QED BY <2>1, <2>2
<1> QED BY <1>1, <1>2, <1>3

\* What an iteration computes of the positions.
LEMMA HereTyped ==
  ASSUME LexerTyped, Iterating
  PROVE  /\ current_pos \in FilePos /\ token_pos \in FilePos /\ complete_pos \in FilePos
         /\ current_pos.offset \in 0..Len(text) /\ last_pos.offset \in 0..(Len(text) + 1)
         /\ here \in FilePos /\ here.offset = current_pos.offset
         /\ here.line = IF cur_c = "\n" \/ current_pos.offset = 0
                          THEN current_pos.line + 1 ELSE current_pos.line
         /\ start \in FilePos /\ last_pos \in FilePos
         /\ [here EXCEPT !.offset = @ + 1] \in FilePos
         /\ [here EXCEPT !.offset = @ + 1].offset = current_pos.offset + 1
         /\ [here EXCEPT !.offset = @ + 1].line = here.line
<1>1. current_pos \in FilePos /\ token_pos \in FilePos /\ complete_pos \in FilePos
  BY DEF LexerTyped
<1>2. current_pos.offset \in 0..Len(text) /\ complete_pos.offset \in 0..(Len(text) + 1)
  BY TextTyped DEF LexerTyped, Iterating
<1>3. PICK newline \in BOOLEAN : newline <=> (cur_c = "\n" \/ current_pos.offset = 0)
  OBVIOUS
<1>4. here = IF newline THEN file_pos(current_pos.line + 1, 1, current_pos.offset)
                        ELSE [current_pos EXCEPT !.column = @ + 1]
  BY <1>3, Zenon DEF here
<1>5. /\ here \in FilePos /\ here.offset = current_pos.offset
      /\ here.line = IF newline THEN current_pos.line + 1 ELSE current_pos.line
  BY <1>1, <1>4 DEF FilePos, file_pos
<1>6. start \in FilePos /\ last_pos \in FilePos /\ last_pos \in {here, complete_pos}
  BY <1>1, <1>5, Zenon DEF start, last_pos
<1> HIDE DEF here
<1>7. /\ [here EXCEPT !.offset = @ + 1] \in FilePos
      /\ [here EXCEPT !.offset = @ + 1].offset = current_pos.offset + 1
      /\ [here EXCEPT !.offset = @ + 1].line = here.line
  BY <1>5 DEF FilePos
<1>8. last_pos.offset \in 0..(Len(text) + 1)
  BY <1>2, <1>5, <1>6
<1> QED BY <1>1, <1>2, <1>3, <1>5, <1>6, <1>7, <1>8, Zenon

\* The line of a character, given that of the position.
LEMMA HereLine ==
  ASSUME LexerTyped, Iterating, Counting
  PROVE  /\ cur_c # "\n" => here.line = 1 + Newlines(current_pos.offset)
         /\ current_pos.offset < Len(text) => here.line = 1 + Newlines(current_pos.offset + 1)
<1> DEFINE o == current_pos.offset
<1>1. /\ o \in Nat /\ current_pos.line = IF o = 0 THEN 0 ELSE 1 + Newlines(o)
      /\ here.line = IF cur_c = "\n" \/ o = 0 THEN current_pos.line + 1 ELSE current_pos.line
  BY HereTyped, Zenon DEF Counting, FilePos
<1>2. o < Len(text) => cur_c = text[o + 1]
  BY DEF cur_c, char_at
<1>3. /\ Newlines(o) \in Nat /\ (o <= 1 => Newlines(o) = 0)
      /\ Newlines(o + 1) = IF o >= 1 /\ text[o + 1] = "\n" THEN Newlines(o) + 1 ELSE Newlines(o)
  BY <1>1, NewlinesStep
<1> HIDE DEF o
<1>4. cur_c # "\n" => here.line = 1 + Newlines(o)
  BY <1>1, <1>3
<1>5. o < Len(text) => here.line = 1 + Newlines(o + 1)
  BY <1>1, <1>2, <1>3
<1> QED BY <1>4, <1>5 DEF o

\* A token is pushed behind the others.
LEMMA Pushed ==
  ASSUME NEW s, s \in Seq({s[k] : k \in 1..Len(s)}), NEW e, NEW t, t = Append(s, e)
  PROVE  /\ t \in Seq({t[k] : k \in 1..Len(t)})
         /\ Len(s) \in Nat /\ Len(t) = Len(s) + 1 /\ t[Len(s) + 1] = e
         /\ \A k \in 1..Len(s) : t[k] = s[k]
<1> DEFINE A == {s[k] : k \in 1..Len(s)} \cup {e}
           B == {t[k] : k \in 1..Len(t)}
<1>1. s \in Seq(A) /\ e \in A
  OBVIOUS
<1> HIDE DEF A
<1>2. /\ t \in Seq(A) /\ Len(s) \in Nat /\ Len(t) = Len(s) + 1 /\ t[Len(s) + 1] = e
      /\ \A k \in 1..Len(s) : t[k] = s[k]
  BY <1>1, AppendProperties
<1>3. \A k \in 1..Len(t) : t[k] \in B
  OBVIOUS
<1> HIDE DEF B
<1>4. t \in Seq(B)
  BY <1>2, <1>3
<1> QED BY <1>2, <1>4 DEF B

\* Steps leave the text alone, and with it what is said of it.
LEMMA TextKept ==
  ASSUME text' = text
  PROVE  /\ \A offset : Newlines(offset)' = Newlines(offset)
         /\ \A offset : char_at(offset)' = char_at(offset)
         /\ \A s, from, to : Walks(s, from, to)' <=> Walks(s, from, to)
         /\ \A token : LineIsRight(token)' <=> LineIsRight(token)
<1>1. \A offset : Newlines(offset)' = Newlines(offset)
  BY DEF Newlines
<1>2. \A offset : char_at(offset)' = char_at(offset)
  BY DEF char_at
<1>3. \A s, from, to : Walks(s, from, to)' <=> Walks(s, from, to)
  BY <1>2 DEF Walks
<1>4. \A token : LineIsRight(token)' <=> LineIsRight(token)
  BY <1>1 DEF LineIsRight
<1> QED BY <1>1, <1>2, <1>3, <1>4

\* Every step keeps the types.
LEMMA LexerTypes ==
  ASSUME LexerTyped, [Lex]_lexerVars
  PROVE  LexerTyped'
<1>1. text' = text
  BY DEF Lex, lexerVars, advance, take_token, take_complete, invalid_token, end_of_text
<1>2. /\ text \in Text /\ cur_node \in Node /\ tokens \in Seq({tokens[k] : k \in 1..Len(tokens)})
      /\ current_pos \in FilePos /\ token_pos \in FilePos /\ complete_pos \in FilePos
      /\ current_pos.offset \in 0..(Len(text) + 1) /\ Len(text) \in Nat
      /\ complete_pos.offset \in 0..(Len(text) + 1)
  BY TextTyped DEF LexerTyped
<1>3. ASSUME \/ UNCHANGED tokens
             \/ \E e : tokens' = Append(tokens, e)
      PROVE  tokens' \in Seq({tokens'[k] : k \in 1..Len(tokens')})
  <2>1. CASE UNCHANGED tokens
    BY <1>2, <2>1
  <2>2. ASSUME NEW e, tokens' = Append(tokens, e)
        PROVE  tokens' \in Seq({tokens'[k] : k \in 1..Len(tokens')})
    BY <1>2, <2>2, Pushed, SMTT(30)
  <2> QED BY <1>3, <2>1, <2>2
<1>4. root \in Node
  BY DEF root, Node
<1>5. CASE advance
  <2>1. /\ Iterating /\ cur_node' = next(cur_node, cur_c) /\ next(cur_node, cur_c) # NIL
        /\ current_pos' = [here EXCEPT !.offset = @ + 1]
        /\ token_pos' = start /\ complete_pos' = last_pos /\ tokens' = tokens
    BY <1>5 DEF advance
  <2>2. cur_c \in Char \cup {END}
    BY <1>2, TextTyped DEF cur_c, FilePos
  <2>3. cur_node' \in Node
    BY <1>2, <2>1, <2>2, NextTyped
  <2>4. /\ current_pos' \in FilePos /\ token_pos' \in FilePos /\ complete_pos' \in FilePos
        /\ current_pos'.offset \in 0..(Len(text) + 1)
        /\ complete_pos'.offset \in 0..(Len(text) + 1)
    BY <1>2, <2>1, HereTyped
  <2> QED BY <1>1, <1>2, <1>3, <2>1, <2>3, <2>4 DEF LexerTyped
<1>6. CASE take_token
  <2>1. /\ Iterating /\ cur_node' = root /\ current_pos' = current_pos
        /\ token_pos' = start /\ complete_pos' = last_pos /\ \E e : tokens' = Append(tokens, e)
    BY <1>6 DEF take_token, Push, lst_pos
  <2> QED BY <1>1, <1>2, <1>3, <1>4, <2>1, HereTyped DEF LexerTyped
<1>7. CASE take_complete
  <2>1. /\ Iterating /\ cur_node' = root /\ current_pos' = complete_pos
        /\ token_pos' = start /\ complete_pos' = file_pos(0, 0, 0)
        /\ \E e : tokens' = Append(tokens, e)
    BY <1>7 DEF take_complete, Push, complete_reset
  <2>2. /\ file_pos(0, 0, 0) \in FilePos
        /\ file_pos(0, 0, 0).offset \in 0..(Len(text) + 1)
    BY <1>2 DEF file_pos, FilePos
  <2> QED BY <1>1, <1>2, <1>3, <1>4, <2>1, <2>2, HereTyped DEF LexerTyped
<1>8. CASE invalid_token
  BY <1>1, <1>2, <1>3, <1>8 DEF invalid_token, position, LexerTyped
<1>9. CASE end_of_text
  <2>1. /\ UNCHANGED <<cur_node, position>> /\ \E e : tokens' = Append(tokens, e)
    BY <1>9 DEF end_of_text
  <2> QED BY <1>1, <1>2, <1>3, <2>1 DEF position, LexerTyped
<1>10. CASE UNCHANGED lexerVars
  BY <1>1, <1>2, <1>3, <1>10 DEF lexerVars, position, LexerTyped
<1> QED BY <1>5, <1>6, <1>7, <1>8, <1>9, <1>10 DEF Lex

(* Steps.                                                                  *)

\* A lost lexer is on no token and remembers none; if it can go on, it is
\* lost there too.
LEMMA LostHere ==
  ASSUME LexerTyped, Lost
  PROVE  /\ complete = NIL /\ ~ OnToken /\ current_pos.offset <= Len(text)
         /\ next(cur_node, cur_c) # NIL =>
              \E stuck \in (current_pos.offset + 1)..Len(text) : \E s \in 0..stuck :
                /\ next(cur_node, cur_c) = SubSeq(text, s + 1, current_pos.offset + 1)
                /\ Walks(s, current_pos.offset + 1, stuck)
                /\ node_type(SubSeq(text, s + 1, stuck)) = "ERROR"
                /\ next(SubSeq(text, s + 1, stuck), char_at(stuck)) = NIL
<1>1. PICK o : o = current_pos.offset
  OBVIOUS
<1>2. o \in Nat /\ Len(text) \in Nat /\ cur_c = char_at(o)
  BY <1>1, TextTyped DEF LexerTyped, FilePos, cur_c
<1>3. PICK stuck \in o..Len(text) : \E s \in 0..stuck :
        /\ cur_node = SubSeq(text, s + 1, o)
        /\ Walks(s, o, stuck)
        /\ node_type(SubSeq(text, s + 1, stuck)) = "ERROR"
        /\ next(SubSeq(text, s + 1, stuck), char_at(stuck)) = NIL
  BY <1>1, Zenon DEF Lost
<1>4. PICK s \in 0..stuck :
        /\ cur_node = SubSeq(text, s + 1, o)
        /\ Walks(s, o, stuck)
        /\ node_type(SubSeq(text, s + 1, stuck)) = "ERROR"
        /\ next(SubSeq(text, s + 1, stuck), char_at(stuck)) = NIL
  BY <1>3
<1>5. complete = NIL
  BY DEF Lost
<1>6. CASE o = stuck
  <2>1. node_type(cur_node) = "ERROR" /\ next(cur_node, cur_c) = NIL
    BY <1>2, <1>4, <1>6
  <2> QED BY <1>1, <1>2, <1>3, <1>5, <2>1 DEF OnToken
<1>7. CASE o < stuck
  <2>1. \A i \in o..(stuck - 1) :
          /\ node_type(SubSeq(text, s + 1, i)) = "ERROR"
          /\ next(SubSeq(text, s + 1, i), char_at(i)) = SubSeq(text, s + 1, i + 1)
    BY <1>4, Zenon DEF Walks
  <2>2. o \in o..(stuck - 1) /\ (o + 1)..(stuck - 1) \subseteq o..(stuck - 1)
        /\ stuck \in (o + 1)..Len(text)
    BY <1>2, <1>3, <1>7
  <2>3. node_type(cur_node) = "ERROR" /\ next(cur_node, cur_c) = SubSeq(text, s + 1, o + 1)
    BY <1>2, <1>4, <2>1, <2>2, Zenon
  <2>4. Walks(s, o + 1, stuck)
    BY <2>1, <2>2, Zenon DEF Walks
  <2>5. o <= Len(text)
    BY <1>2, <1>3
  <2> QED BY <1>1, <1>4, <1>5, <2>2, <2>3, <2>4, <2>5, Zenon DEF OnToken
<1> QED BY <1>2, <1>3, <1>6, <1>7

\* So it stays lost.
LEMMA AdvanceLost ==
  ASSUME LexerTyped, Lost, advance
  PROVE  Lost'
<1>1. /\ Iterating /\ next(cur_node, cur_c) # NIL /\ cur_node' = next(cur_node, cur_c)
      /\ current_pos'.offset = current_pos.offset + 1 /\ complete' = last /\ text' = text
  BY HereTyped DEF advance
<1>2. complete' = NIL
  BY <1>1, LostHere DEF last
<1>3. \E stuck \in (current_pos.offset + 1)..Len(text) : \E s \in 0..stuck :
        /\ cur_node' = SubSeq(text, s + 1, current_pos.offset + 1)
        /\ Walks(s, current_pos.offset + 1, stuck)
        /\ node_type(SubSeq(text, s + 1, stuck)) = "ERROR"
        /\ next(SubSeq(text, s + 1, stuck), char_at(stuck)) = NIL
  BY <1>1, LostHere, Zenon
<1>4. \E stuck \in current_pos'.offset..Len(text) : \E s \in 0..stuck :
        /\ cur_node' = SubSeq(text, s + 1, current_pos'.offset)
        /\ Walks(s, current_pos'.offset, stuck)
        /\ node_type(SubSeq(text, s + 1, stuck)) = "ERROR"
        /\ next(SubSeq(text, s + 1, stuck), char_at(stuck)) = NIL
  BY <1>1, <1>3, Zenon
<1> QED BY <1>1, <1>2, <1>4, Zenon DEF Lost, Walks, char_at

\* The line at which a token starts: it does not start at a newline.
LEMMA StartLine ==
  ASSUME LexerTyped, Iterating, Counting,
         \/ cur_node # root
         \/ next(cur_node, cur_c) # root
  PROVE  /\ start.line = 1 + Newlines(start.offset)
         /\ start.offset <= current_pos.offset
<1>1. CASE cur_node # root
  <2>1. start = token_pos
    BY <1>1 DEF start
  <2>2. token_pos.offset < current_pos.offset /\ token_pos.line = 1 + Newlines(token_pos.offset)
    BY <1>1 DEF Counting
  <2>3. token_pos.offset \in Nat /\ current_pos.offset \in Nat
    BY DEF LexerTyped, FilePos
  <2> QED BY <2>1, <2>2, <2>3
<1>2. CASE cur_node = root
  <2>1. cur_c # "\n"
    <3>1. "\n" \in Space
      BY Zenon DEF Space
    <3>2. root \notin {name, num, eof}
      BY OtherNodes
    <3> QED BY <1>2, <3>1, <3>2 DEF next
  <2>2. start = here
    BY <1>2 DEF start
  <2> QED BY <2>1, <2>2, HereLine, HereTyped DEF FilePos
<1> QED BY <1>1, <1>2

\* A token pushed has the number of that line.
LEMMA PushedLine ==
  ASSUME NEW type, NEW length, LexerTyped, Push(type, length),
         start.line = 1 + Newlines(start.offset), text' = text,
         \A k \in 1..Len(tokens) : LineIsRight(tokens[k])
  PROVE  (\A k \in 1..Len(tokens) : LineIsRight(tokens[k]))'
<1>1. PICK e : e = token_ctor(Substring(start.offset, length), type, start)
  OBVIOUS
<1>2. tokens' = Append(tokens, e)
  BY <1>1 DEF Push
<1>3. e.type # "ERROR" => e.line_num = start.line /\ e.from = start.offset
  BY <1>1 DEF token_ctor
<1>4. LineIsRight(e)
  BY <1>3 DEF LineIsRight
<1>5. /\ Len(tokens) \in Nat /\ Len(tokens') = Len(tokens) + 1 /\ tokens'[Len(tokens) + 1] = e
      /\ \A k \in 1..Len(tokens) : tokens'[k] = tokens[k]
  BY <1>2, Pushed DEF LexerTyped
<1>6. \A k \in 1..Len(tokens') : LineIsRight(tokens'[k])
  <2>1. ASSUME NEW k \in 1..Len(tokens') PROVE LineIsRight(tokens'[k])
    <3>1. k \in 1..Len(tokens) \/ k = Len(tokens) + 1
      BY <1>5
    <3> QED BY <1>4, <1>5, <3>1
  <2> QED BY <2>1
<1> QED BY <1>6, Zenon DEF LineIsRight, Newlines

\* An outdated node stays outdated while the lexer meets no token.
LEMMA OutdatedStays ==
  ASSUME LexerTyped, Outdated, ~ OnToken, advance, current_pos.offset < Len(text),
         node_type(cur_node') = "ERROR"
  PROVE  Outdated'
<1>1. PICK o : o = current_pos.offset
  OBVIOUS
<1>2. /\ Iterating /\ next(cur_node, cur_c) # NIL /\ cur_node' = next(cur_node, cur_c)
      /\ current_pos'.offset = o + 1 /\ text' = text
      /\ complete' = last /\ complete_pos' = last_pos
  BY <1>1, HereTyped DEF advance
<1>3. /\ o \in Nat /\ o < Len(text) /\ text \in Seq(Char) /\ Len(text) \in Nat
      /\ cur_c = text[o + 1] /\ cur_c = char_at(o)
      /\ here.offset = o /\ cur_node \in Node
  <2>1. o \in 0..Len(text) /\ here.offset = o
    BY <1>1, <1>2, HereTyped
  <2>2. /\ text \in Seq(Char) /\ Len(text) \in Nat
        /\ \A offset \in 0..(Len(text) - 1) : char_at(offset) = text[offset + 1]
    BY TextTyped
  <2>3. cur_c = char_at(o) /\ o < Len(text) /\ cur_node \in Node
    BY <1>1 DEF cur_c, LexerTyped
  <2>4. o \in Nat /\ o \in 0..(Len(text) - 1)
    BY <2>1, <2>2, <2>3
  <2> QED BY <2>1, <2>2, <2>3, <2>4
<1>4. complete_pos' = complete_pos /\ node_type(cur_node) = "ERROR"
  BY <1>2 DEF last_pos, OnToken
<1>5. PICK co : co = complete_pos.offset
  OBVIOUS
<1>6. co \in Nat
  BY <1>2, <1>5, HereTyped DEF FilePos
<1>7. PICK s \in co..o : cur_node = SubSeq(text, s + 1, o) /\ Walks(s, co, o)
  BY <1>1, <1>5, Zenon DEF Outdated
<1>8. \A i \in co..(o - 1) :
        /\ node_type(SubSeq(text, s + 1, i)) = "ERROR"
        /\ next(SubSeq(text, s + 1, i), char_at(i)) = SubSeq(text, s + 1, i + 1)
  BY <1>7, Zenon DEF Walks
<1>9. \A i \in co..((o + 1) - 1) : i \in co..(o - 1) \/ i = o
  BY <1>3, <1>6
<1>10. SUFFICES \E r \in co..(o + 1) :
                 /\ cur_node' = SubSeq(text, r + 1, o + 1)
                 /\ \A i \in co..((o + 1) - 1) :
                      /\ node_type(SubSeq(text, r + 1, i)) = "ERROR"
                      /\ next(SubSeq(text, r + 1, i), char_at(i)) = SubSeq(text, r + 1, i + 1)
  BY <1>2, <1>4, <1>5, Zenon DEF Outdated, Walks, char_at
<1>11. CASE cur_node = root /\ cur_c \in Space /\ next(cur_node, cur_c) = root
  <2>1. s = o
    BY <1>3, <1>6, <1>7, <1>11, Pieces
  <2>2. \A r \in {o, o + 1} : \A i \in co..o : SubSeq(text, r + 1, i) = root
    <3>1. ASSUME NEW r \in {o, o + 1}, NEW i \in co..o PROVE SubSeq(text, r + 1, i) = root
      <4>1. r \in Nat /\ i \in 0..Len(text) /\ i <= r
        BY ONLY <1>3, <1>6, <3>1
      <4> QED BY ONLY <1>3, <4>1, Pieces
    <3> QED BY ONLY <3>1
  <2>3. SubSeq(text, (o + 1) + 1, o + 1) = root /\ o + 1 \in co..(o + 1)
    BY <1>3, <1>6, <1>7, Pieces
  <2>4. ASSUME NEW i \in co..((o + 1) - 1)
        PROVE  /\ node_type(SubSeq(text, (o + 1) + 1, i)) = "ERROR"
               /\ next(SubSeq(text, (o + 1) + 1, i), char_at(i))
                    = SubSeq(text, (o + 1) + 1, i + 1)
    <3>1. i \in co..o /\ (i # o => i + 1 \in co..o /\ i \in co..(o - 1))
      BY <1>3, <1>6
    <3>2. node_type(root) = "ERROR"
      BY OtherNodes
    <3>3. CASE i = o
      BY <1>3, <1>11, <2>2, <2>3, <3>1, <3>2, <3>3, Zenon
    <3>4. CASE i # o
      BY <1>8, <2>1, <2>2, <3>1, <3>2, <3>4, Zenon
    <3> QED BY <3>3, <3>4
  <2> QED BY <1>2, <1>11, <2>3, <2>4
<1>12. CASE next(cur_node, cur_c) = Append(cur_node, cur_c)
  <2>1. SubSeq(text, s + 1, o + 1) = Append(cur_node, cur_c) /\ s \in co..(o + 1)
    <3>1. s \in Nat /\ o \in 0..Len(text) /\ s <= o /\ s \in co..(o + 1)
      BY <1>3, <1>6, <1>7
    <3> QED BY <1>3, <1>7, <3>1, Pieces
  <2> QED BY <1>2, <1>3, <1>4, <1>7, <1>8, <1>9, <1>12, <2>1, Zenon
<1> QED BY <1>2, <1>4, <1>11, <1>12, NextSilent, Zenon

\* A node remembered while the lexer goes on is one of this token, or the
\* outdated one of before.
LEMMA AdvanceRemembers ==
  ASSUME LexerTyped, Counting, advance, current_pos.offset < Len(text),
         complete' # NIL, node_type(cur_node') = "ERROR"
  PROVE  Remembered' \/ Outdated'
<1>1. PICK o : o = current_pos.offset
  OBVIOUS
<1>2. /\ Iterating /\ next(cur_node, cur_c) # NIL /\ cur_node' = next(cur_node, cur_c)
      /\ current_pos'.offset = o + 1 /\ text' = text
      /\ complete' = last /\ complete_pos' = last_pos
  BY <1>1, HereTyped DEF advance
<1>3. /\ o \in Nat /\ o < Len(text) /\ text \in Seq(Char) /\ Len(text) \in Nat
      /\ cur_c = text[o + 1] /\ cur_c = char_at(o)
      /\ here.offset = o /\ cur_node \in Node
  <2>1. o \in 0..Len(text) /\ here.offset = o
    BY <1>1, <1>2, HereTyped
  <2>2. /\ text \in Seq(Char) /\ Len(text) \in Nat
        /\ \A offset \in 0..(Len(text) - 1) : char_at(offset) = text[offset + 1]
    BY TextTyped
  <2>3. cur_c = char_at(o) /\ o < Len(text) /\ cur_node \in Node
    BY <1>1 DEF cur_c, LexerTyped
  <2>4. o \in Nat /\ o \in 0..(Len(text) - 1)
    BY <2>1, <2>2, <2>3
  <2> QED BY <2>1, <2>2, <2>3, <2>4
<1>4. cur_node # root => cur_node' # root /\ cur_c # "\n"
  BY <1>2, <1>3, NextInLine, Zenon DEF Node
<1>5. CASE OnToken
  <2>1. complete_pos' = here
    BY <1>2, <1>5 DEF last_pos
  <2>2. cur_node # root
    BY <1>5, OtherNodes DEF OnToken
  <2>3. here.line = 1 + Newlines(o)
    BY <1>1, <1>2, <1>4, <2>2, HereLine
  <2>4. o \in 1..(Len(text) - 1)
    <3>1. token_pos.offset < o /\ token_pos.offset \in Nat
      BY <1>1, <1>2, <2>2, HereTyped DEF Counting, FilePos
    <3> QED BY <1>3, <3>1
  <2>5. cur_node' # root /\ text[o + 1] # "\n"
    BY <1>3, <1>4, <2>2
  <2> HIDE DEF here
  <2> QED BY <1>2, <1>3, <2>1, <2>3, <2>4, <2>5, Zenon DEF Remembered, Newlines
<1>6. CASE ~ OnToken
  <2>1. complete # NIL /\ complete_pos' = complete_pos /\ node_type(cur_node) = "ERROR"
    BY <1>2, <1>6 DEF last, last_pos, OnToken
  <2>2. CASE Remembered
    <3>1. cur_node' # root
      BY <1>4, <2>2 DEF Remembered
    <3> QED BY <1>2, <2>1, <2>2, <3>1 DEF Remembered, Newlines
  <2>3. CASE Outdated
    BY <1>2, <1>3, <1>6, <2>1, <2>3, OutdatedStays DEF OnToken
  <2> QED BY <1>6, <2>1, <2>2, <2>3 DEF Counting
<1> QED BY <1>5, <1>6

\* Going on, the lexer keeps count.
LEMMA AdvanceCounting ==
  ASSUME LexerTyped, Counting, advance, current_pos'.offset <= Len(text)
  PROVE  Counting'
<1>1. /\ Iterating /\ next(cur_node, cur_c) # NIL /\ cur_node' = next(cur_node, cur_c)
      /\ current_pos'.offset = current_pos.offset + 1 /\ current_pos'.line = here.line
      /\ text' = text /\ token_pos' = start
  BY HereTyped DEF advance
<1>2. current_pos.offset \in Nat /\ current_pos.offset < Len(text)
  <2>1. Len(text) \in Nat /\ current_pos.offset \in 0..Len(text)
    BY <1>1, TextTyped, HereTyped
  <2>2. current_pos.offset + 1 <= Len(text)
    BY <1>1
  <2> QED BY <2>1, <2>2
<1>3. current_pos'.line = 1 + Newlines(current_pos.offset + 1)
  BY <1>1, <1>2, HereLine
<1>4. cur_node' # root => /\ start.offset < current_pos'.offset
                          /\ start.line = 1 + Newlines(start.offset)
  <2>1. start.offset \in Nat
    BY <1>1, HereTyped DEF FilePos
  <2>2. cur_node' # root => /\ start.offset <= current_pos.offset
                            /\ start.line = 1 + Newlines(start.offset)
    BY <1>1, StartLine
  <2> HIDE DEF start
  <2> QED BY <1>1, <1>2, <2>1, <2>2
<1>5. complete' # NIL /\ node_type(cur_node') = "ERROR" => Remembered' \/ Outdated'
  BY <1>2, AdvanceRemembers
<1> HIDE DEF here, start
<1> QED BY <1>1, <1>2, <1>3, <1>4, <1>5 DEF Counting, OnToken, Newlines

\* The node of a token taken is outdated from now on.
LEMMA TakenOutdated ==
  ASSUME LexerTyped, take_token
  PROVE  Outdated'
<1>1. PICK o : o = current_pos.offset
  OBVIOUS
<1>2. /\ Iterating /\ cur_node' = root /\ current_pos' = current_pos /\ text' = text
      /\ complete_pos'.offset = o
  BY <1>1, HereTyped DEF take_token, lst_pos, last_pos
<1>3. o \in 0..Len(text) /\ text \in Seq(Char) /\ Len(text) \in Nat
  BY <1>1, <1>2, HereTyped, TextTyped
<1>4. o \in o..o /\ SubSeq(text, o + 1, o) = root /\ \A i \in o..(o - 1) : FALSE
  BY <1>3, Pieces
<1> QED BY <1>1, <1>2, <1>4, Zenon DEF Outdated, Walks

\* So the lexer keeps count behind a token.
LEMMA TakeTokenCounting ==
  ASSUME LexerTyped, Counting, take_token
  PROVE  Counting'
<1>1. cur_node' = root /\ current_pos' = current_pos /\ text' = text
  BY DEF take_token, lst_pos
<1> QED BY <1>1, TakenOutdated DEF Counting, Newlines

\* Going back to an outdated node, the lexer is lost.
LEMMA OutdatedLost ==
  ASSUME LexerTyped, Outdated, take_complete
  PROVE  Lost'
<1>1. PICK o : o = current_pos.offset
  OBVIOUS
<1>2. PICK co : co = complete_pos.offset
  OBVIOUS
<1>3. /\ Iterating /\ cur_node' = root /\ current_pos' = complete_pos /\ text' = text
      /\ complete' = NIL /\ complete # NIL /\ ~ OnToken /\ next(cur_node, cur_c) = NIL
  BY DEF take_complete, complete_reset
<1>4. /\ o \in 0..Len(text) /\ co \in Nat /\ text \in Seq(Char) /\ Len(text) \in Nat
      /\ cur_c = char_at(o)
  BY <1>1, <1>2, <1>3, HereTyped, TextTyped DEF FilePos, cur_c
<1>5. PICK s \in co..o : cur_node = SubSeq(text, s + 1, o) /\ Walks(s, co, o)
  BY <1>1, <1>2, Zenon DEF Outdated
<1>6. SubSeq(text, s + 1, co) = root /\ s \in 0..o /\ o \in co..Len(text)
  BY <1>4, <1>5, Pieces
<1>7. node_type(cur_node) = "ERROR"
  BY <1>3 DEF OnToken
<1> QED BY <1>2, <1>3, <1>4, <1>5, <1>6, <1>7, Zenon DEF Lost, Walks, char_at

\* The lexer goes back to a node of this token, or it is lost from now on.
LEMMA TakeCompleteCounting ==
  ASSUME LexerTyped, Counting, take_complete
  PROVE  Counting' \/ Lost'
<1>1. /\ cur_node' = root /\ current_pos' = complete_pos /\ text' = text
      /\ complete' = NIL /\ complete # NIL /\ ~ OnToken
  BY DEF take_complete, complete_reset
<1>2. CASE Remembered
  <2>1. complete_pos.offset # 0 /\ complete_pos.line = 1 + Newlines(complete_pos.offset)
    BY <1>2 DEF Remembered
  <2> QED BY <1>1, <2>1 DEF Counting, Newlines
<1>3. CASE Outdated
  BY <1>3, OutdatedLost
<1> QED BY <1>1, <1>2, <1>3 DEF Counting

-----------------------------------------------------------------------------
(* LinesInv is inductive.                                                  *)

\* A lexer that starts has counted nothing.
LEMMA LinesInit == LexerInit => LinesInv
<1> SUFFICES ASSUME LexerInit PROVE LinesInv
  OBVIOUS
<1>1. /\ text \in Text /\ tokens = <<>> /\ result = "none" /\ cur_node = root /\ complete = NIL
      /\ current_pos = file_pos(0, 0, 0) /\ token_pos = file_pos(0, 0, 0)
      /\ complete_pos = file_pos(0, 0, 0)
  BY DEF LexerInit
<1>2. file_pos(0, 0, 0) \in FilePos /\ file_pos(0, 0, 0).offset = 0 /\ file_pos(0, 0, 0).line = 0
  BY DEF file_pos, FilePos
<1>3. root \in Node /\ Len(text) \in Nat
  BY <1>1, TextAssumption DEF root, Node, TextAssumption
<1>4. LexerTyped
  BY <1>1, <1>2, <1>3 DEF LexerTyped
<1>5. Counting
  BY <1>1, <1>2 DEF Counting
<1>6. LinesCorrect
  BY <1>1 DEF LinesCorrect
<1>7. \A k \in 1..Len(tokens) : LineIsRight(tokens[k])
  BY <1>1
<1> QED BY <1>1, <1>4, <1>5, <1>6, <1>7 DEF LinesInv

\* Every step keeps the invariant: a token is only pushed by a lexer that is
\* not lost, and a lost one never reaches the end of the text.
LEMMA LinesStep ==
  ASSUME LinesInv, [Lex]_lexerVars
  PROVE  LinesInv'
<1> DEFINE Right == \A k \in 1..Len(tokens) : LineIsRight(tokens[k])
<1>1. LexerTyped /\ LexerTyped' /\ text' = text
  BY LexerTypes
  DEF LinesInv, Lex, lexerVars, advance, take_token, take_complete, invalid_token, end_of_text
<1>2. /\ result \in {"none", "done", "failed"} /\ LinesCorrect
      /\ result = "none" => Lost \/ (Right /\ (current_pos.offset <= Len(text) => Counting))
  BY DEF LinesInv
<1> HIDE DEF Right
<1>3. ASSUME result' = "none", Lost' \/ (Right' /\ (current_pos.offset <= Len(text) => Counting)')
      PROVE  LinesInv'
  BY <1>1, <1>3 DEF LinesInv, LinesCorrect, Right
<1>4. ASSUME Iterating, ~ Lost
      PROVE  Counting /\ Right
  BY <1>2, <1>4 DEF Iterating
<1>5. ASSUME tokens' = tokens, Right PROVE Right'
  BY <1>1, <1>5 DEF Right, LineIsRight, Newlines
<1>6. CASE advance
  <2>1. Iterating /\ result' = "none" /\ tokens' = tokens
    BY <1>6 DEF advance, Iterating
  <2>2. CASE Lost
    BY <1>1, <1>3, <1>6, <2>1, <2>2, AdvanceLost
  <2>3. CASE ~ Lost
    <3>1. Counting /\ Right'
      BY <1>4, <1>5, <2>1, <2>3
    <3>2. (current_pos.offset <= Len(text) => Counting)'
      BY <1>1, <1>6, <3>1, AdvanceCounting
    <3> QED BY <1>3, <2>1, <3>1, <3>2
  <2> QED BY <2>2, <2>3
<1>7. CASE take_token
  <2>1. /\ Iterating /\ result' = "none" /\ OnToken
        /\ Push(node_type(cur_node), here.offset - start.offset)
    BY <1>7 DEF take_token, Iterating
  <2>2. Counting /\ Right
    BY <1>1, <1>4, <2>1, LostHere
  <2>3. cur_node # root
    BY <2>1, OtherNodes DEF OnToken
  <2>4. Right'
    BY <1>1, <2>1, <2>2, <2>3, StartLine, PushedLine DEF Right
  <2>5. Counting'
    BY <1>1, <1>7, <2>2, TakeTokenCounting
  <2> QED BY <1>3, <2>1, <2>4, <2>5
<1>8. CASE take_complete
  <2>1. /\ Iterating /\ result' = "none" /\ complete # NIL /\ next(cur_node, cur_c) = NIL
        /\ Push(node_type(complete), complete_pos.offset - start.offset)
    BY <1>8 DEF take_complete, Iterating
  <2>2. Counting /\ Right
    BY <1>1, <1>4, <2>1, LostHere
  <2>3. next(cur_node, cur_c) # root
    BY <2>1, OtherNodes
  <2>4. Right'
    BY <1>1, <2>1, <2>2, <2>3, StartLine, PushedLine DEF Right
  <2>5. Counting' \/ Lost'
    BY <1>1, <1>8, <2>2, TakeCompleteCounting
  <2> QED BY <1>3, <2>1, <2>4, <2>5
<1>9. CASE invalid_token
  <2>1. result' = "failed"
    BY <1>9 DEF invalid_token
  <2> QED BY <1>1, <2>1 DEF LinesInv, LinesCorrect
<1>10. CASE end_of_text
  <2>1. PICK e : tokens' = Append(tokens, e)
    BY <1>10 DEF end_of_text
  <2>2. result = "none" /\ result' = "done" /\ current_pos.offset > Len(text)
    BY <1>10 DEF end_of_text
  <2>3. ~ Lost
    <3>1. current_pos.offset \in Nat /\ Len(text) \in Nat
      BY <1>1, TextTyped DEF LexerTyped, FilePos
    <3> QED BY <1>1, <2>2, <3>1, LostHere
  <2>4. /\ Len(tokens) \in Nat /\ Len(tokens') = Len(tokens) + 1
        /\ \A k \in 1..Len(tokens) : tokens'[k] = tokens[k]
    BY <1>1, <2>1, Pushed DEF LexerTyped
  <2>5. Right
    BY <1>2, <2>2, <2>3
  <2>6. \A k \in 1..(Len(tokens') - 1) : LineIsRight(tokens'[k])
    BY <2>4, <2>5 DEF Right
  <2>7. LinesCorrect'
    BY <1>1, <2>6 DEF LinesCorrect, LineIsRight, Newlines
  <2> QED BY <1>1, <2>2, <2>7 DEF LinesInv
<1>11. CASE UNCHANGED lexerVars
  <2>1. /\ text' = text /\ tokens' = tokens /\ result' = result /\ cur_node' = cur_node
        /\ complete' = complete /\ current_pos' = current_pos /\ token_pos' = token_pos
        /\ complete_pos' = complete_pos
    BY <1>11 DEF lexerVars, position
  <2>2. LinesCorrect'
    BY <1>2, <2>1 DEF LinesCorrect, LineIsRight, Newlines
  <2>3. Right => Right'
    BY <1>5, <2>1
  <2>4. Lost => Lost'
    BY <2>1 DEF Lost, Walks, char_at
  <2>5. Counting => Counting'
    BY <2>1 DEF Counting, Remembered, Outdated, OnToken, Walks, char_at, Newlines
  <2> QED BY <1>1, <1>2, <2>1, <2>2, <2>3, <2>4, <2>5 DEF LinesInv, Right
<1> QED BY <1>6, <1>7, <1>8, <1>9, <1>10, <1>11 DEF Lex

\* In every state of the lexer, either all tokens so far carry the right line
\* and so will what it goes back to, or it is on its way to an error.
THEOREM LinesInvariance == LexerSpec => []LinesInv
<1>1. LexerInit => LinesInv
  BY LinesInit
<1>2. LinesInv /\ [Lex]_lexerVars => LinesInv'
  BY LinesStep
<1> QED BY <1>1, <1>2, PTL DEF LexerSpec

\* The tokens of every text the lexer accepts carry the numbers of their
\* lines, however often it went back.
THEOREM LinesCounted == LexerSpec => []LinesCorrect
<1>1. LinesInv => LinesCorrect
  BY DEF LinesInv
<1> QED BY <1>1, LinesInvariance, PTL

-----------------------------------------------------------------------------
(* The tokens of a text: the recursive definition has a solution.          *)

\* A set of numbers that is not empty has a least.
LEMMA Least ==
  ASSUME NEW T \in SUBSET Nat, T # {}
  PROVE  \E x \in T : \A y \in T : x <= y
<1>1. PICK x \in T : \A y \in T : ~ (<< y, x >> \in OpToRel(<, Nat))
  BY NatLessThanWellFounded, WFMin
<1>2. \A y \in T : ~ (y < x)
  BY <1>1 DEF OpToRel
<1> QED BY <1>2

\* The longest token that begins at an offset is one that does.
LEMMA LongestEnds ==
  ASSUME NEW S, NEW source \in Seq(S), NEW from \in Nat, Ends(source, from) # {}
  PROVE  /\ Longest(source, from) \in Ends(source, from)
         /\ \A to \in Ends(source, from) : to <= Longest(source, from)
<1>0. PICK n \in Nat : n = Len(source)
  OBVIOUS
<1>1. PICK ends \in {Ends(source, from)} : n = Len(source) /\ ends = Ends(source, from)
  BY <1>0
<1>2. ends \subseteq (from + 1)..n /\ ends # {}
  BY <1>1 DEF Ends
<1> DEFINE T == {d \in Nat : n - d \in ends}
<1>3. T # {} 
  <2>1. PICK e \in ends : TRUE
    BY <1>2
  <2>2. n - e \in Nat /\ n - (n - e) = e
    BY <1>2
  <2> QED BY <2>1, <2>2
<1>4. PICK d \in T : \A y \in T : d <= y
  BY <1>3, Least
<1>5. n - d \in ends /\ \A e \in ends : e <= n - d
  <2>1. ASSUME NEW e \in ends PROVE e <= n - d
    <3>1. n - e \in Nat /\ n - (n - e) = e /\ e \in Int
      BY <1>2
    <3>2. n - e \in T
      BY <3>1
    <3>3. d \in Nat /\ d <= n - e
      BY <1>4, <3>2
    <3> QED BY ONLY <3>1, <3>3, n \in Nat
  <2> QED BY <2>1
<1>6. Longest(source, from) = CHOOSE x \in ends : \A y \in ends : y <= x
  BY <1>1 DEF Longest
<1> QED BY <1>1, <1>5, <1>6

\* Where tokens begin behind an offset, given where they begin further on.
Begin(source, f, i) ==
  IF i = Len(source) THEN {}
  ELSE IF source[i + 1] \in Space THEN f[i + 1]
  ELSE {i} \cup (IF Ends(source, i) = {} THEN {} ELSE f[Longest(source, i)])

\* The recursive definition of where the tokens of a text begin has a solution.
LEMMA BeginningsObey ==
  ASSUME NEW S, NEW source \in Seq(S)
  PROVE  \A i \in 0..Len(source) :
           BeginningsFrom(source)[i] = Begin(source, BeginningsFrom(source), i)
<1> DEFINE Obeys(f) == f = [i \in 0..Len(source) |-> Begin(source, f, i)]
<1>1. PICK n \in Nat : n = Len(source)
  OBVIOUS
<1>2. ASSUME NEW f, NEW g, NEW i \in 0..n, \A j \in (i + 1)..n : f[j] = g[j]
      PROVE  Begin(source, f, i) = Begin(source, g, i)
  <2>1. i # n => i + 1 \in (i + 1)..n
    BY <1>1
  <2>2. Ends(source, i) # {} => Longest(source, i) \in (i + 1)..n
    <3>1. i \in Nat
      OBVIOUS
    <3>2. Ends(source, i) \subseteq (i + 1)..n
      BY <1>1 DEF Ends
    <3> QED BY <3>1, <3>2, LongestEnds
  <2> QED BY <1>1, <1>2, <2>1, <2>2, Zenon DEF Begin
<1> DEFINE Good(k) == \E f : /\ f = [i \in (n - k)..n |-> f[i]]
                             /\ \A i \in (n - k)..n : f[i] = Begin(source, f, i)
           T == {k \in 0..n : ~ Good(k)}
<1>3. T = {}
  <2>1. SUFFICES ASSUME T # {} PROVE FALSE
    OBVIOUS
  <2>2. T \in SUBSET Nat
    OBVIOUS
  <2>3. PICK k \in T : \A y \in T : k <= y
    BY <2>1, <2>2, Least
  <2>4. k \in 0..n /\ ~ Good(k) /\ \A y \in 0..n : y < k => Good(y)
    BY <2>3
  <2> HIDE DEF T, Good
  <2>5. PICK f : \A i \in (n - k + 1)..n : f[i] = Begin(source, f, i)
    <3>1. CASE k = 0
      BY <3>1
    <3>2. CASE k # 0
      <4>1. k - 1 \in 0..n /\ k - 1 < k /\ n - (k - 1) = n - k + 1
        BY <2>4, <3>2
      <4>2. Good(k - 1)
        BY <2>4, <4>1
      <4> QED BY <4>1, <4>2 DEF Good
    <3> QED BY <3>1, <3>2
  <2>6. PICK m \in 0..n : m = n - k
    BY <2>4
  <2>7. PICK g : g = [i \in m..n |-> IF i = m THEN Begin(source, f, m) ELSE f[i]]
    OBVIOUS
  <2>8. /\ g = [i \in m..n |-> g[i]]
        /\ \A i \in (m + 1)..n : g[i] = f[i]
        /\ g[m] = Begin(source, f, m)
    <3>1. \A i \in (m + 1)..n : i \in m..n /\ i # m
      OBVIOUS
    <3>2. m \in m..n
      OBVIOUS
    <3> QED BY ONLY <2>7, <3>1, <3>2, Zenon
  <2>9. ASSUME NEW i \in m..n PROVE g[i] = Begin(source, g, i)
    <3>1. i \in 0..n /\ \A j \in (i + 1)..n : j \in (m + 1)..n
      OBVIOUS
    <3>2. Begin(source, g, i) = Begin(source, f, i)
      <4>1. i \in 0..n /\ \A j \in (i + 1)..n : g[j] = f[j]
        BY <2>8, <3>1
      <4> QED BY ONLY <1>2, <4>1, Zenon
    <3>3. i = m \/ i \in (m + 1)..n
      OBVIOUS
    <3> QED BY <2>5, <2>6, <2>8, <3>2, <3>3
  <2>10. Good(k)
    BY <2>6, <2>8, <2>9 DEF Good
  <2> QED BY <2>4, <2>10
<1>4. Good(n)
  <2>1. n \in 0..n
    OBVIOUS
  <2> QED BY <1>3, <2>1
<1>5. \E f : Obeys(f)
  <2>1. n - n = 0
    OBVIOUS
  <2>2. PICK f : /\ f = [i \in 0..n |-> f[i]]
                 /\ \A i \in 0..n : f[i] = Begin(source, f, i)
    BY <1>4, <2>1
  <2>3. f = [i \in 0..n |-> Begin(source, f, i)]
    BY ONLY <2>2, Zenon
  <2> QED BY <1>1, <2>3
<1>6. BeginningsFrom(source) = CHOOSE f : Obeys(f)
  BY DEF BeginningsFrom, Begin
<1>7. Obeys(BeginningsFrom(source))
  BY <1>5, <1>6
<1>8. PICK f : f = BeginningsFrom(source)
  OBVIOUS
<1> QED BY <1>7

-----------------------------------------------------------------------------
(* The tree of words, once more: where the characters of a token lead.     *)

\* Spaces, digits and the rest among the first characters of a word.
FirstChars(w) ==
  /\ w # <<>> => w[1] \notin Space
  /\ Len(w) > 1 /\ w[1] \in Digit => w[2] \notin Digit

\* No word begins with a space or with two digits.
LEMMA WordsBegin ==
  ASSUME NEW l \in lexemes
  PROVE  FirstChars(l[2]) /\ l[1] \notin {"ERROR", "NUM"}
<1>1. /\ \A a, b, c, d, e, f : a \notin Space /\ b \notin Digit =>
           /\ FirstChars(<< a, b >>) /\ FirstChars(<< a, b, c >>)
           /\ FirstChars(<< a, b, c, d >>) /\ FirstChars(<< a, b, c, d, e, f >>)
      /\ \A a : a \notin Space => FirstChars(<< a >>)
  BY DEF FirstChars
<1>2. /\ "'" \notin Space /\ "(" \notin Space /\ "+" \notin Space /\ "," \notin Space
      /\ "-" \notin Space /\ "." \notin Space /\ "/" \notin Space /\ "0" \notin Space
      /\ "1" \notin Space /\ "8" \notin Space /\ ":" \notin Space /\ "<" \notin Space
      /\ "=" \notin Space /\ ">" \notin Space /\ "[" \notin Space /\ "}" \notin Space
      /\ "a" \notin Space /\ "d" \notin Space /\ "e" \notin Space /\ "f" \notin Space
      /\ "n" \notin Space /\ "o" \notin Space /\ "r" \notin Space /\ "v" \notin Space
  BY Zenon DEF Space
<1>3. /\ "=" \notin Digit /\ "_" \notin Digit /\ "a" \notin Digit /\ "e" \notin Digit
      /\ "i" \notin Digit /\ "l" \notin Digit /\ "o" \notin Digit /\ "r" \notin Digit
      /\ "u" \notin Digit
  BY Zenon DEF Digit
<1>4. /\ FirstChars(<<"v", "a", "r">>) /\ FirstChars(<<"f", "u", " ", "n">>)
      /\ FirstChars(<<"[">>) /\ FirstChars(<<"}">>)
      /\ FirstChars(<<":", "=">>) /\ FirstChars(<<"<", "_">>)
      /\ FirstChars(<<"'">>) /\ FirstChars(<<"e", "e", "f">>)
      /\ FirstChars(<<"e", "l", "s">>) /\ FirstChars(<<"v", "i", "l", "e">>)
      /\ FirstChars(<<"r", "i", "t", "u", "r", "n">>) /\ FirstChars(<<"(">>)
      /\ FirstChars(<<"0">>) /\ FirstChars(<<",">>)
      /\ FirstChars(<<"+">>) /\ FirstChars(<<"-">>)
      /\ FirstChars(<<"8">>) /\ FirstChars(<<"/">>)
      /\ FirstChars(<<"o", "r">>) /\ FirstChars(<<"a", "a", "n", "d">>)
      /\ FirstChars(<<"n", "o", "t">>) /\ FirstChars(<<"<">>)
      /\ FirstChars(<<".">>) /\ FirstChars(<<"<", "=">>)
      /\ FirstChars(<<">", "=">>) /\ FirstChars(<<"=", "=", "=", "=">>)
      /\ FirstChars(<<"1", "=">>) /\ FirstChars(<<"d">>)
  BY ONLY <1>1, <1>2, <1>3, Zenon
<1>5. PICK type, word : l = << type, word >> /\ FirstChars(word)
                        /\ type # "ERROR" /\ type # "NUM"
  BY ONLY <1>4, l \in lexemes, ZenonT(60) DEF lexemes
<1>6. \A a, b : << a, b >>[1] = a /\ << a, b >>[2] = b
  OBVIOUS
<1> QED BY <1>5, <1>6, Zenon

\* The prefixes of words are prefixes of each other.
LEMMA WordPrefix ==
  ASSUME NEW s \in WordPrefixes
  PROVE  /\ s \in Seq(WordChar) /\ FirstChars(s)
         /\ \A k \in 1..Len(s) : SubSeq(s, 1, k) \in WordPrefixes
<1>0. PICK w \in Words : \E n \in 0..Len(w) : s = SubSeq(w, 1, n)
  BY DEF WordPrefixes
<1>1. PICK n \in 0..Len(w) : s = SubSeq(w, 1, n)
  BY <1>0
<1>2. w \in Seq(WordChar) /\ FirstChars(w)
  BY WordCharacters, WordsBegin DEF Words
<1> HIDE DEF WordChar
<1>3. n \in Nat /\ n <= Len(w) /\ \A i \in 1..n : w[i] \in WordChar
  BY <1>2
<1>4. /\ s \in Seq(WordChar) /\ Len(s) = n
      /\ \A i \in 1..n : s[i] = w[i]
  BY <1>1, <1>2, <1>3
<1>5. FirstChars(s)
  <2>1. s # <<>> => n > 0
    BY <1>4
  <2>2. Len(w) \in Nat /\ (n > 0 => w # <<>> /\ s[1] = w[1])
    BY <1>2, <1>3, <1>4
  <2>3. n > 1 => Len(w) > 1 /\ s[2] = w[2]
    BY <1>3, <1>4, <2>2
  <2> QED BY <1>2, <1>4, <2>1, <2>2, <2>3, <1>3 DEF FirstChars
<1>6. ASSUME NEW k \in 1..Len(s) PROVE SubSeq(s, 1, k) \in WordPrefixes
  <2>1. SubSeq(s, 1, k) = SubSeq(w, 1, k) /\ k \in 0..Len(w)
    BY <1>1, <1>2, <1>3, <1>4
  <2> QED BY <2>1 DEF WordPrefixes
<1> QED BY <1>4, <1>5, <1>6

\* Other nodes are not on the tree of words.
LEMMA OffTree ==
  /\ name \notin WordPrefixes /\ num \notin WordPrefixes /\ eof \notin WordPrefixes
  /\ NIL \notin WordPrefixes
  /\ name # num /\ eof # num /\ name # eof
<1>1. /\ "NAME" \notin WordChar /\ "NUM" \notin WordChar /\ "EOF" \notin WordChar
      /\ "NIL" \notin WordChar
  BY Zenon DEF WordChar, Letter, Digit
<1>2. \A a : << a >> \in WordPrefixes => a \in WordChar
  <2>1. ASSUME NEW a, << a >> \in WordPrefixes PROVE a \in WordChar
    <3>1. << a >> \in Seq(WordChar)
      BY <2>1, WordPrefix
    <3> HIDE DEF WordChar
    <3>2. << a >>[1] \in WordChar
      BY <3>1
    <3> QED BY <3>2
  <2> QED BY <2>1
<1>3. name # num /\ eof # num /\ name # eof
  BY DEF name, num, eof
<1> QED BY <1>1, <1>2, <1>3, Zenon DEF name, num, eof, NIL

\* The first piece of a text is its first character.
LEMMA FirstPiece ==
  ASSUME NEW S, NEW s \in Seq(S), s # <<>>
  PROVE  /\ 1 \in 1..Len(s) /\ SubSeq(s, 1, 1) = << s[1] >>
         /\ Len(s) = 1 => s = << s[1] >>
<1>1. Len(s) \in Nat /\ Len(s) # 0 /\ 1 \in 1..Len(s)
  BY EmptySeq
<1>2. PICK c \in S : c = s[1]
  BY <1>1
<1>3. << c >> \in Seq(S) /\ Len(<< c >>) = 1 /\ << c >>[1] = c
  OBVIOUS
<1>4. /\ SubSeq(s, 1, 1) \in Seq(S) /\ Len(SubSeq(s, 1, 1)) = 1
      /\ SubSeq(s, 1, 1)[1] = c
  BY <1>1, <1>2
<1>5. \A t \in Seq(S) : Len(t) = 1 /\ t[1] = c => t = << c >>
  <2>1. ASSUME NEW t \in Seq(S), Len(t) = 1, t[1] = c PROVE t = << c >>
    <3>1. \A i \in 1..Len(t) : i = 1
      BY <2>1
    <3>2. \A i \in 1..Len(t) : t[i] = << c >>[i]
      BY <1>3, <2>1, <3>1
    <3> QED BY <1>3, <2>1, <3>2, SeqEqual
  <2> QED BY <2>1
<1> QED BY <1>1, <1>2, <1>4, <1>5

\* What appending a character does to a piece of text.
LEMMA Appended ==
  ASSUME NEW S, NEW s \in Seq(S), NEW c
  PROVE  /\ Len(s) \in Nat /\ Len(Append(s, c)) = Len(s) + 1
         /\ Append(s, c) # <<>> /\ Append(s, c)[Len(s) + 1] = c
         /\ \A i \in 1..Len(s) : Append(s, c)[i] = s[i]
         /\ SubSeq(Append(s, c), 1, Len(s)) = s
<1>1. PICK T : s \in Seq(T) /\ c \in T
  <2>1. s \in Seq(S \cup {c}) /\ c \in S \cup {c}
    OBVIOUS
  <2> QED BY <2>1
<1>2. PICK t \in Seq(T), n \in Nat : t = Append(s, c) /\ n = Len(s)
  <2>1. Append(s, c) \in Seq(T) /\ Len(s) \in Nat
    BY <1>1
  <2> QED BY <2>1
<1>3. /\ Len(t) = n + 1 /\ t # <<>> /\ t[n + 1] = c
      /\ \A i \in 1..n : t[i] = s[i]
  BY <1>1, <1>2, AppendProperties
<1>4. SubSeq(t, 1, n) = s
  <2>1. \A i \in 1..n : t[i] \in T
    BY <1>2, <1>3
  <2>2. SubSeq(t, 1, n) \in Seq(T) /\ Len(SubSeq(t, 1, n)) = n
        /\ \A i \in 1..n : SubSeq(t, 1, n)[i] = t[i]
    BY <1>2, <1>3, <2>1
  <2> QED BY <1>1, <1>2, <1>3, <2>2, SeqEqual
<1> QED BY <1>2, <1>3, <1>4

\* Numbers and names are recognised character by character.
LEMMA PrefixesGrow ==
  ASSUME NEW S, NEW s \in Seq(S), NEW c
  PROVE  /\ IsDigitPrefix(Append(s, c)) <=> IsDigitPrefix(s) /\ is_num_char(c)
         /\ IsNamePrefix(Append(s, c)) <=> IsNamePrefix(s) /\ is_name_char(c)
         /\ Append(s, c) \in WordPrefixes => s \in WordPrefixes
<1>0. PICK n \in Nat : n = Len(s)
  OBVIOUS
<1>1. PICK t : n = Len(s) /\ t = Append(s, c)
  BY <1>0
<1>2. /\ Len(t) = n + 1 /\ t[n + 1] = c
      /\ \A i \in 1..n : t[i] = s[i]
  BY <1>1, Appended
<1>3. \A i : i \in 1..(n + 1) <=> i \in 1..n \/ i = n + 1
  OBVIOUS
<1>4. IsDigitPrefix(t) <=> IsDigitPrefix(s) /\ is_num_char(c)
  BY <1>1, <1>2, <1>3, Zenon DEF IsDigitPrefix
<1>5. IsNamePrefix(t) <=> IsNamePrefix(s) /\ is_name_char(c)
  BY <1>1, <1>2, <1>3, Zenon DEF IsNamePrefix
<1>6. ASSUME t \in WordPrefixes PROVE s \in WordPrefixes
  <2>1. CASE n = 0
    <3>1. s = <<>>
      BY <1>1, <2>1, EmptySeq
    <3>2. PICK w \in Words : \E k \in 0..Len(w) : t = SubSeq(w, 1, k)
      BY <1>6 DEF WordPrefixes
    <3>3. w \in Seq(WordChar)
      BY <3>2, WordCharacters DEF Words
    <3> HIDE DEF WordChar
    <3>4. 0 \in 0..Len(w) /\ SubSeq(w, 1, 0) = <<>>
      BY <3>3
    <3> QED BY <3>1, <3>2, <3>4 DEF WordPrefixes
  <2>2. CASE n # 0
    <3>1. n \in 1..Len(t) /\ SubSeq(t, 1, n) = s
      BY <1>1, <1>2, <2>2, Appended
    <3> QED BY <1>6, <3>1, WordPrefix
  <2> QED BY <2>1, <2>2
<1> QED BY <1>1, <1>4, <1>5, <1>6

\* Characters of names and numbers.
LEMMA CharacterKinds ==
  /\ \A c \in Digit : is_num_char(c) /\ is_name_char(c) /\ c # "."
  /\ \A c : is_num_char(c) /\ is_name_char(c) => c \in Digit
  /\ \A c : is_name_char(c) /\ c \notin Digit => ~ is_num_char(c)
  /\ \A c \in Space : ~ is_num_char(c) /\ ~ is_name_char(c)
<1>1. "." \notin Digit /\ "." \notin Letter
  BY Zenon DEF Digit, Letter
<1>2. \A c \in Space : c \notin Digit /\ c \notin Letter /\ c # "."
  BY Zenon DEF Digit, Letter, Space
<1> QED BY <1>1, <1>2, Zenon DEF is_num_char, is_name_char

\* A piece of names or numbers that are on the tree of words.
LEMMA NamesOnTree ==
  ASSUME NEW s \in WordPrefixes, s # <<>>, IsNamePrefix(s), ~ IsDigitPrefix(s)
  PROVE  IsName(s)
<1>1. s \in Seq(WordChar) /\ FirstChars(s)
  BY WordPrefix
<1> HIDE DEF WordChar
<1>2. ASSUME s[1] \in Digit PROVE << s[1] >> \in WordPrefixes /\ Len(s) > 1 /\ s[2] \notin Digit
  <2>1. 1 \in 1..Len(s) /\ SubSeq(s, 1, 1) = << s[1] >>
    BY <1>1, FirstPiece
  <2>2. << s[1] >> \in WordPrefixes
    BY <2>1, WordPrefix
  <2>3. CASE Len(s) = 1
    <3>1. \A i \in 1..Len(s) : i = 1
      BY <2>3
    <3> QED BY <1>2, <3>1, CharacterKinds, Zenon DEF IsDigitPrefix
  <2>4. Len(s) \in Nat /\ Len(s) # 0
    BY <1>1
  <2> QED BY <1>1, <1>2, <2>2, <2>3, <2>4 DEF FirstChars
<1> QED BY <1>2 DEF IsName

\* The node a piece leads to.
LEMMA ReachedNodes ==
  ASSUME NEW s
  PROVE  /\ Reached(s) \in {s, num, name, NIL}
         /\ s # <<>> => Reached(s) # root
         /\ Reached(s) # eof
         /\ Reached(s) = num <=> s \notin WordPrefixes /\ IsDigitPrefix(s)
         /\ Reached(s) = name <=> s \notin WordPrefixes /\ ~ IsDigitPrefix(s) /\ IsName(s)
         /\ Reached(s) = NIL <=> s \notin WordPrefixes /\ ~ IsDigitPrefix(s) /\ ~ IsName(s)
  BY OffTree, OtherNodes DEF Reached, root

\* The tree leads along the pieces of the text.
LEMMA ReachedNext ==
  ASSUME NEW S, NEW s \in Seq(S), s # <<>>, NEW c, Reached(s) # NIL
  PROVE  next(Reached(s), c) = Reached(Append(s, c))
<1>0. PICK n \in Nat : n = Len(s)
  OBVIOUS
<1>1. PICK t : t = Append(s, c) /\ n = Len(s)
  BY <1>0
<1>2. /\ n > 0 /\ Len(t) = n + 1 /\ t # <<>> /\ t[n + 1] = c
      /\ \A i \in 1..n : t[i] = s[i]
  BY <1>1, Appended
<1>3. /\ IsDigitPrefix(t) <=> IsDigitPrefix(s) /\ is_num_char(c)
      /\ IsNamePrefix(t) <=> IsNamePrefix(s) /\ is_name_char(c)
      /\ t \in WordPrefixes => s \in WordPrefixes
  BY <1>1, PrefixesGrow
<1>4. /\ t[1] = s[1] /\ Len(t) > 1 /\ t[2] = (IF n = 1 THEN c ELSE s[2])
  BY <1>2
<1>5. /\ IsName(s) <=> /\ IsNamePrefix(s)
                       /\ s[1] \in Digit => << s[1] >> \in WordPrefixes /\ n > 1 /\ s[2] \notin Digit
      /\ IsName(t) <=> /\ IsNamePrefix(t)
                       /\ s[1] \in Digit => << s[1] >> \in WordPrefixes /\ t[2] \notin Digit
  BY <1>1, <1>2, <1>4 DEF IsName
<1>6. CASE s \in WordPrefixes
  <2>1. Reached(s) = s /\ s \notin {name, num, eof} /\ s # root
    BY <1>6, OffTree DEF Reached, root
  <2>2. next(s, c) = IF t \in WordPrefixes THEN t
                     ELSE IF IsDigitPrefix(t) THEN num ELSE IF IsNamePrefix(t) THEN name ELSE NIL
    BY <1>1, <2>1 DEF next
  <2>3. ASSUME IsNamePrefix(t), ~ IsDigitPrefix(t), s[1] \in Digit
        PROVE  << s[1] >> \in WordPrefixes /\ t[2] \notin Digit
    <3>1. s \in Seq(WordChar) /\ FirstChars(s)
      BY <1>6, WordPrefix
    <3> HIDE DEF WordChar
    <3>2. << s[1] >> \in WordPrefixes
      <4>1. 1 \in 1..Len(s) /\ SubSeq(s, 1, 1) = << s[1] >>
        BY <3>1, FirstPiece
      <4> QED BY <1>6, <4>1, WordPrefix
    <3>3. CASE n = 1
      <4>1. IsDigitPrefix(s)
        <5>1. \A i \in 1..Len(s) : i = 1
          BY <1>1, <3>3
        <5> QED BY <2>3, <5>1, CharacterKinds, Zenon DEF IsDigitPrefix
      <4>2. c \notin Digit
        BY <1>3, <2>3, <4>1, CharacterKinds, Zenon
      <4> QED BY <1>4, <3>2, <3>3, <4>2
    <3>4. CASE n > 1
      BY <1>1, <1>4, <2>3, <3>1, <3>2, <3>4 DEF FirstChars
    <3> QED BY <1>2, <3>3, <3>4
  <2> QED BY <1>1, <1>5, <2>1, <2>2, <2>3, Zenon DEF Reached
<1>7. CASE s \notin WordPrefixes /\ IsDigitPrefix(s)
  <2>1. Reached(s) = num /\ t \notin WordPrefixes
    BY <1>3, <1>7 DEF Reached
  <2>2. next(num, c) = IF is_num_char(c) THEN num ELSE NIL
    BY OffTree DEF next, loop
  <2>3. ~ IsDigitPrefix(t) => ~ IsName(t)
    <3>1. SUFFICES ASSUME ~ IsDigitPrefix(t), IsName(t) PROVE FALSE
      OBVIOUS
    <3>2. IsNamePrefix(s) /\ 1 \in 1..Len(s)
      BY <1>1, <1>2, <1>3, <1>5, <3>1
    <3>3. s[1] \in Digit
      BY <1>7, <3>2, CharacterKinds DEF IsNamePrefix, IsDigitPrefix
    <3>4. << s[1] >> \in WordPrefixes /\ t[2] \notin Digit
      BY <1>5, <3>1, <3>3
    <3>5. CASE n = 1
      <4>1. s = << s[1] >>
        BY <1>1, <3>5, FirstPiece
      <4> QED BY <1>7, <3>4, <4>1
    <3>6. CASE n > 1
      <4>1. 2 \in 1..Len(s) /\ t[2] = s[2]
        BY <1>1, <1>4, <3>6
      <4>2. s[2] \in Digit
        BY <1>7, <3>2, <4>1, CharacterKinds DEF IsNamePrefix, IsDigitPrefix
      <4> QED BY <3>4, <4>1, <4>2
    <3> QED BY <1>2, <3>5, <3>6
  <2> QED BY <1>1, <1>3, <1>7, <2>1, <2>2, <2>3, Zenon DEF Reached
<1>8. CASE s \notin WordPrefixes /\ ~ IsDigitPrefix(s) /\ IsName(s)
  <2>1. Reached(s) = name /\ t \notin WordPrefixes /\ ~ IsDigitPrefix(t)
    BY <1>3, <1>8 DEF Reached
  <2>2. next(name, c) = IF is_name_char(c) THEN name ELSE NIL
    BY OffTree DEF next, loop
  <2>3. IsName(t) <=> is_name_char(c)
    <3>1. s[1] \in Digit => t[2] = s[2]
      BY <1>4, <1>5, <1>8
    <3> QED BY <1>3, <1>5, <1>8, <3>1, Zenon
  <2> QED BY <1>1, <2>1, <2>2, <2>3, Zenon DEF Reached
<1> QED BY <1>6, <1>7, <1>8 DEF Reached

\* A piece that is a token.
IsToken(s) == IsWord(s) \/ IsNumber(s) \/ IsName(s)

\* From the root the tree leads to the first character of a token.
LEMMA RootNext ==
  ASSUME NEW c
  PROVE  /\ Reached(<< c >>) # NIL => c \notin Space /\ c # END
         /\ c \notin Space /\ c # END => next(root, c) = Reached(<< c >>)
<1>1. root \in Seq({c}) /\ Append(root, c) = << c >> /\ << c >> # <<>>
      /\ Len(<< c >>) = 1 /\ << c >>[1] = c
  BY DEF root
<1>2. PICK s : s = << c >>
  OBVIOUS
<1>3. s # <<>> /\ Len(s) = 1 /\ s[1] = c
  BY <1>1, <1>2
<1>4. /\ IsDigitPrefix(s) <=> is_num_char(c)
      /\ IsNamePrefix(s) <=> is_name_char(c)
  <2>1. \A i \in 1..Len(s) : i = 1
    BY <1>3
  <2>2. 1 \in 1..Len(s)
    BY <1>3
  <2> QED BY <1>3, <2>1, <2>2, Zenon DEF IsDigitPrefix, IsNamePrefix
<1>5. IsName(s) <=> is_name_char(c) /\ c \notin Digit
  BY <1>3, <1>4 DEF IsName
<1>6. s \in WordPrefixes => c \in WordChar /\ c \notin Space
  <2>1. ASSUME s \in WordPrefixes PROVE c \in WordChar /\ c \notin Space
    <3>1. s \in Seq(WordChar) /\ FirstChars(s)
      BY <2>1, WordPrefix
    <3> HIDE DEF WordChar
    <3>2. 1 \in 1..Len(s)
      BY <1>3
    <3>3. s[1] \in WordChar
      BY <3>1, <3>2
    <3> QED BY <1>3, <3>1, <3>3 DEF FirstChars
  <2> QED BY <2>1
<1>7. ASSUME Reached(s) # NIL PROVE c \notin Space /\ c # END
  <2>1. s \in WordPrefixes \/ is_num_char(c) \/ is_name_char(c)
    BY <1>4, <1>5, <1>7, ReachedNodes, Zenon
  <2>2. c \in Space => ~ is_num_char(c) /\ ~ is_name_char(c)
    BY CharacterKinds
  <2>3. is_num_char(c) \/ is_name_char(c) => c # END
    BY InLine, Zenon
  <2>4. c \in WordChar => c # END
    BY InLine, Zenon
  <2> HIDE DEF WordChar
  <2> QED BY <1>6, <2>1, <2>2, <2>3, <2>4
<1>8. ASSUME c \notin Space, c # END PROVE next(root, c) = Reached(s)
  <2>1. next(root, c) = IF s \in WordPrefixes THEN s
                        ELSE IF IsDigitPrefix(s) THEN num
                        ELSE IF IsNamePrefix(s) THEN name ELSE NIL
    BY <1>1, <1>2, <1>8, OtherNodes DEF next
  <2>2. ~ IsDigitPrefix(s) => (IsNamePrefix(s) <=> IsName(s))
    BY <1>4, <1>5, CharacterKinds, Zenon
  <2> QED BY <2>1, <2>2, Zenon DEF Reached
<1> QED BY <1>2, <1>7, <1>8

\* Where the tree leads along a piece, it leads along what the piece begins with.
LEMMA ReachedPrefix ==
  ASSUME NEW S, NEW t \in Seq(S), NEW k \in 1..Len(t), Reached(t) # NIL
  PROVE  Reached(SubSeq(t, 1, k)) # NIL
<1>1. PICK s : s = SubSeq(t, 1, k)
  OBVIOUS
<1>2. /\ s \in Seq(S) /\ s # <<>> /\ Len(s) = k /\ k \in Nat /\ Len(t) \in Nat /\ k <= Len(t)
      /\ \A i \in 1..k : i \in 1..Len(t) /\ s[i] = t[i]
  <2>1. Len(t) \in Nat /\ k \in Nat /\ k <= Len(t) /\ k > 0
    OBVIOUS
  <2>2. \A i \in 1..k : i \in 1..Len(t) /\ t[i] \in S
    OBVIOUS
  <2>3. s \in Seq(S) /\ Len(s) = k /\ \A i \in 1..k : s[i] = t[i]
    BY <1>1, <2>1, <2>2
  <2>4. s # <<>>
    BY <2>1, <2>3, EmptySeq
  <2> QED BY <2>1, <2>2, <2>3, <2>4
<1>3. t \in WordPrefixes => s \in WordPrefixes
  BY <1>1, WordPrefix
<1>4. IsDigitPrefix(t) => IsDigitPrefix(s)
  BY <1>2, Zenon DEF IsDigitPrefix
<1>5. ASSUME IsName(t), s \notin WordPrefixes PROVE IsName(s)
  <2>1. IsNamePrefix(s)
    BY <1>2, <1>5, Zenon DEF IsName, IsNamePrefix
  <2>2. ASSUME s[1] \in Digit
        PROVE  << s[1] >> \in WordPrefixes /\ Len(s) > 1 /\ s[2] \notin Digit
    <3>1. 1 \in 1..k /\ s[1] = t[1]
      BY <1>2
    <3>2. << s[1] >> \in WordPrefixes /\ t[2] \notin Digit
      BY <1>5, <2>2, <3>1 DEF IsName
    <3>3. k # 1
      BY <1>2, <1>5, <3>2, FirstPiece
    <3>4. k > 1 /\ 2 \in 1..k
      BY <1>2, <3>3
    <3> QED BY <1>2, <3>2, <3>4
  <2> QED BY <1>2, <2>1, <2>2 DEF IsName
<1> QED BY <1>1, <1>3, <1>4, <1>5, ReachedNodes, Zenon

\* A node the tree leads to is a token if the piece is one, of the same type.
LEMMA ReachedType ==
  ASSUME NEW s, s # <<>>
  PROVE  /\ IsToken(s) => Reached(s) # NIL
         /\ Reached(s) # NIL => (node_type(Reached(s)) # "ERROR" <=> IsToken(s))
         /\ IsToken(s) => node_type(Reached(s)) =
              IF IsWord(s) THEN TypeOfWord(s) ELSE IF IsNumber(s) THEN "NUM" ELSE "NAME"
         /\ IsWord(s) => TypeOfWord(s) \notin {"ERROR", "NUM"}
<1>1. ASSUME IsWord(s) PROVE s \in WordPrefixes /\ TypeOfWord(s) \notin {"ERROR", "NUM"}
  <2>1. s \in Words
    BY <1>1 DEF IsWord
  <2>2. s \in Seq(WordChar)
    BY <2>1, WordCharacters DEF Words
  <2> HIDE DEF WordChar
  <2>3. Len(s) \in 0..Len(s) /\ SubSeq(s, 1, Len(s)) = s
    BY <2>2
  <2>4. s \in WordPrefixes
    <3>1. s \in {SubSeq(s, 1, n) : n \in 0..Len(s)}
      BY ONLY <2>3, Zenon
    <3> QED BY ONLY <2>1, <3>1, Zenon DEF WordPrefixes
  <2>5. \E l \in lexemes : l[2] = s
    BY <2>1 DEF Words
  <2>6. PICK w : w = CHOOSE l \in lexemes : l[2] = s
    OBVIOUS
  <2>7. w \in lexemes /\ TypeOfWord(s) = w[1]
    BY <2>5, <2>6 DEF TypeOfWord
  <2> QED BY <2>4, <2>7, WordsBegin
<1>2. name[1] = "NAME" /\ num[1] = "NUM"
  BY DEF name, num
<1>3. CASE s \in WordPrefixes
  <2>1. Reached(s) = s /\ s \notin {name, num, eof} /\ s # root /\ s # NIL
    BY <1>3, OffTree DEF Reached, root
  <2>2. node_type(s) = IF s \in Words THEN TypeOfWord(s) ELSE IF IsDigitPrefix(s) THEN "NUM"
                       ELSE IF IsNamePrefix(s) THEN "NAME" ELSE "ERROR"
    BY <2>1 DEF node_type
  <2>3. ~ IsDigitPrefix(s) => (IsNamePrefix(s) <=> IsName(s))
    BY <1>3, NamesOnTree DEF IsName
  <2>4. IsWord(s) <=> s \in Words
    BY DEF IsWord
  <2>5. IsNumber(s) <=> IsDigitPrefix(s)
    BY DEF IsNumber
  <2>6. IsName(s) => IsNamePrefix(s)
    BY DEF IsName
  <2> QED BY <1>1, <2>1, <2>2, <2>3, <2>4, <2>5, <2>6 DEF IsToken
<1>4. CASE s \notin WordPrefixes /\ IsDigitPrefix(s)
  <2>1. Reached(s) = num /\ num # NIL /\ node_type(num) = "NUM"
    BY <1>2, <1>4, OtherNodes DEF Reached, node_type
  <2>2. ~ IsWord(s) /\ IsNumber(s)
    BY <1>1, <1>4 DEF IsNumber
  <2> QED BY <2>1, <2>2 DEF IsToken
<1>5. CASE s \notin WordPrefixes /\ ~ IsDigitPrefix(s)
  <2>1. ~ IsWord(s) /\ ~ IsNumber(s)
    BY <1>1, <1>5 DEF IsNumber
  <2>2. name # NIL /\ node_type(name) = "NAME"
    BY <1>2, OtherNodes DEF node_type
  <2>3. Reached(s) = IF IsName(s) THEN name ELSE NIL
    BY <1>5 DEF Reached
  <2> QED BY <2>1, <2>2, <2>3 DEF IsToken
<1> QED BY <1>3, <1>4, <1>5

\* The token made of a piece.
LEMMA TokenMade ==
  ASSUME NEW s, s # <<>>, IsToken(s), NEW pos,
         NEW token, token = token_ctor(s, node_type(Reached(s)), pos)
  PROVE  token.type = KindOf(s) /\ token.from = pos.offset /\ (token.type # "ERROR" => token.str = s)
<1>1. PICK type : type = node_type(Reached(s))
  OBVIOUS
<1>2. /\ type = IF IsWord(s) THEN TypeOfWord(s) ELSE IF IsNumber(s) THEN "NUM" ELSE "NAME"
      /\ IsWord(s) => TypeOfWord(s) \notin {"ERROR", "NUM"}
  BY <1>1, ReachedType
<1>3. CASE type = "NUM" /\ ~ IsDecimal(s)
  <2>1. ~ IsWord(s) /\ IsNumber(s)
    BY <1>2, <1>3
  <2> QED BY <1>1, <1>3, <2>1 DEF token_ctor, KindOf
<1>4. CASE ~ (type = "NUM" /\ ~ IsDecimal(s))
  <2>1. token.type = type /\ token.str = s /\ token.from = pos.offset
    BY <1>1, <1>4 DEF token_ctor
  <2> QED BY <1>2, <1>4, <2>1 DEF KindOf
<1> QED BY <1>3, <1>4

-----------------------------------------------------------------------------
(* Tokens in a text.                                                       *)

\* The characters between two offsets.
LEMMA PieceOf ==
  ASSUME NEW t \in Seq(Char), NEW p \in Nat, NEW o \in (p + 1)..Len(t)
  PROVE  /\ SubSeq(t, p + 1, o) \in Seq(Char) /\ SubSeq(t, p + 1, o) # <<>>
         /\ Len(SubSeq(t, p + 1, o)) = o - p
         /\ \A k \in 1..(o - p) :
              SubSeq(SubSeq(t, p + 1, o), 1, k) = SubSeq(t, p + 1, p + k)
         /\ SubSeq(t, p + 1, p + 1) = << t[p + 1] >>
<1>1. PICK n \in Nat : n = Len(t)
  OBVIOUS
<1>2. o \in Nat /\ p < o /\ o <= n /\ o - p \in Nat /\ o - p > 0
  BY <1>1
<1>3. \A i \in (p + 1)..n : t[i] \in Char
  BY <1>1
<1>4. ASSUME NEW e \in (p + 1)..n
      PROVE  /\ SubSeq(t, p + 1, e) \in Seq(Char) /\ Len(SubSeq(t, p + 1, e)) = e - p
             /\ \A i \in 1..(e - p) : SubSeq(t, p + 1, e)[i] = t[p + i]
  <2>1. \A i \in (p + 1)..e : t[i] \in Char
    BY <1>3
  <2>2. SubSeq(t, p + 1, e) \in Seq(Char)
    BY <2>1
  <2>3. e - (p + 1) + 1 = e - p /\ p + 1 <= e + 1
    OBVIOUS
  <2>4. Len(SubSeq(t, p + 1, e)) = e - p
    BY <2>3
  <2>5. \A i \in 1..(e - p) : SubSeq(t, p + 1, e)[i] = t[(p + 1) + i - 1]
    BY <2>3
  <2>6. \A i \in 1..(e - p) : (p + 1) + i - 1 = p + i
    OBVIOUS
  <2> QED BY <2>2, <2>4, <2>5, <2>6
<1>5. PICK s \in Seq(Char) : s = SubSeq(t, p + 1, o)
  BY <1>1, <1>4
<1>6. Len(s) = o - p /\ s # <<>> /\ \A i \in 1..(o - p) : s[i] = t[p + i]
  BY <1>1, <1>2, <1>4, <1>5, EmptySeq
<1>7. ASSUME NEW k \in 1..(o - p) PROVE SubSeq(s, 1, k) = SubSeq(t, p + 1, p + k)
  <2>1. p + k \in (p + 1)..n /\ (p + k) - p = k /\ k \in Nat /\ k <= Len(s)
    BY <1>1, <1>2, <1>6
  <2>2. /\ SubSeq(t, p + 1, p + k) \in Seq(Char) /\ Len(SubSeq(t, p + 1, p + k)) = k
        /\ \A i \in 1..k : SubSeq(t, p + 1, p + k)[i] = t[p + i]
    BY <1>4, <2>1
  <2>3. \A i \in 1..k : i \in 1..(o - p) /\ s[i] \in Char /\ s[i] = t[p + i]
    BY <1>2, <1>6, <2>1
  <2>4. /\ SubSeq(s, 1, k) \in Seq(Char) /\ Len(SubSeq(s, 1, k)) = k
        /\ \A i \in 1..k : SubSeq(s, 1, k)[i] = s[i]
    BY <2>1, <2>3
  <2>5. \A i \in 1..k : SubSeq(s, 1, k)[i] = SubSeq(t, p + 1, p + k)[i]
    BY <2>2, <2>3, <2>4
  <2> QED BY <2>2, <2>4, <2>5, SeqEqual
<1>8. SubSeq(t, p + 1, p + 1) = << t[p + 1] >>
  <2>1. 1 \in 1..(o - p) /\ s[1] = t[p + 1]
    BY <1>2, <1>6
  <2>2. SubSeq(s, 1, 1) = SubSeq(t, p + 1, p + 1)
    BY <1>7, <2>1
  <2> QED BY <1>6, <2>1, <2>2, FirstPiece
<1> QED BY <1>5, <1>6, <1>7, <1>8

\* An offset where a token ends.
LEMMA EndsAt ==
  ASSUME NEW t \in Seq(Char), NEW p \in Nat
  PROVE  /\ \A o : o \in Ends(t, p) <=> o \in (p + 1)..Len(t) /\ IsToken(SubSeq(t, p + 1, o))
         /\ \A o \in Ends(t, p) : o \in Nat /\ p < o /\ o <= Len(t)
         /\ \A o \in (p + 1)..Len(t) :
              o \in Ends(t, p) => Reached(SubSeq(t, p + 1, o)) # NIL
<1>1. \A o : o \in Ends(t, p) <=> o \in (p + 1)..Len(t) /\ IsToken(SubSeq(t, p + 1, o))
  BY Zenon DEF Ends, IsToken
<1>2. ASSUME NEW o \in (p + 1)..Len(t), IsToken(SubSeq(t, p + 1, o))
      PROVE  Reached(SubSeq(t, p + 1, o)) # NIL
  BY <1>2, PieceOf, ReachedType
<1> QED BY <1>1, <1>2

\* Where the tree leads to an offset, it leads to the offsets before it.
LEMMA ReachedBefore ==
  ASSUME NEW t \in Seq(Char), NEW p \in Nat, NEW o \in (p + 1)..Len(t),
         Reached(SubSeq(t, p + 1, o)) # NIL, NEW i \in (p + 1)..o
  PROVE  Reached(SubSeq(t, p + 1, i)) # NIL
<1>1. i - p \in 1..(o - p) /\ p + (i - p) = i
  OBVIOUS
<1>2. PICK s, k : s = SubSeq(t, p + 1, o) /\ k = i - p
  OBVIOUS
<1>3. s \in Seq(Char) /\ k \in 1..Len(s) /\ SubSeq(s, 1, k) = SubSeq(t, p + 1, i)
  BY <1>1, <1>2, PieceOf
<1> QED BY <1>2, <1>3, ReachedPrefix

\* Behind the place where the tree leads nowhere no token ends.
LEMMA NoneBehind ==
  ASSUME NEW t \in Seq(Char), NEW p \in Nat, NEW o \in p..Len(t),
         o < Len(t) => Reached(SubSeq(t, p + 1, o + 1)) = NIL
  PROVE  \A e \in Ends(t, p) : e <= o
<1> SUFFICES ASSUME NEW e \in Ends(t, p), ~ (e <= o) PROVE FALSE
  OBVIOUS
<1>1. PICK n \in Nat : n = Len(t)
  OBVIOUS
<1>2. e \in (p + 1)..n /\ e > o /\ Reached(SubSeq(t, p + 1, e)) # NIL
  BY <1>1, EndsAt
<1>3. o + 1 \in (p + 1)..e /\ o < n
  BY <1>1, <1>2
<1> QED BY <1>1, <1>2, <1>3, ReachedBefore

\* The end of a token behind which no other ends is that of the longest.
LEMMA LongestIs ==
  ASSUME NEW t \in Seq(Char), NEW p \in Nat, NEW m \in Ends(t, p),
         \A e \in Ends(t, p) : e <= m
  PROVE  Longest(t, p) = m /\ TextOf(t, p) = SubSeq(t, p + 1, m)
<1>1. Longest(t, p) \in Ends(t, p) /\ m <= Longest(t, p)
  BY LongestEnds
<1>2. Longest(t, p) \in Nat /\ m \in Nat /\ Longest(t, p) <= m
  BY <1>1, EndsAt
<1> QED BY <1>1, <1>2 DEF TextOf

\* Where tokens begin from this offset on, with what a token here adds to it.
LEMMA BeginsHere ==
  ASSUME NEW t \in Seq(Char), NEW p \in 0..Len(t)
  PROVE  /\ p = Len(t) => BeginningsFrom(t)[p] = {}
         /\ p # Len(t) /\ t[p + 1] \in Space => BeginningsFrom(t)[p] = BeginningsFrom(t)[p + 1]
         /\ p # Len(t) /\ t[p + 1] \notin Space => p \in BeginningsFrom(t)[p]
         /\ p # Len(t) /\ t[p + 1] \notin Space /\ Ends(t, p) # {} =>
              BeginningsFrom(t)[p] = {p} \cup BeginningsFrom(t)[Longest(t, p)]
<1>1. BeginningsFrom(t)[p] = Begin(t, BeginningsFrom(t), p)
  BY BeginningsObey
<1> QED BY <1>1 DEF Begin

\* A token begins with no space.
LEMMA NoSpaceFirst ==
  ASSUME NEW t \in Seq(Char), NEW p \in Nat, NEW o \in (p + 1)..Len(t),
         Reached(SubSeq(t, p + 1, o)) # NIL
  PROVE  t[p + 1] \notin Space
<1>1. p + 1 \in (p + 1)..o
  OBVIOUS
<1>2. Reached(SubSeq(t, p + 1, p + 1)) # NIL
  BY <1>1, ReachedBefore
<1>3. SubSeq(t, p + 1, p + 1) = << t[p + 1] >>
  BY PieceOf
<1> QED BY <1>2, <1>3, RootNext

\* Where the lexer stands, and where the token it reads begins.
LEMMA Standing ==
  ASSUME LexerTyped, OnPath, Iterating, start.offset \in 0..Len(text)
  PROVE  /\ text \in Seq(Char) /\ Len(text) \in Nat
         /\ current_pos.offset \in 0..Len(text) /\ here.offset = current_pos.offset
         /\ current_pos.offset < Len(text) =>
              cur_c = text[current_pos.offset + 1] /\ cur_c # END
         /\ current_pos.offset = Len(text) => cur_c = END
         /\ start.offset <= current_pos.offset
         /\ \/ cur_node = root /\ ~ OnToken /\ start.offset = current_pos.offset
            \/ /\ cur_node \notin {root, eof, NIL}
               /\ current_pos.offset \in (start.offset + 1)..Len(text)
               /\ cur_node = Reached(SubSeq(text, start.offset + 1, current_pos.offset))
               /\ OnToken <=> current_pos.offset \in Ends(text, start.offset)
<1>1. PICK o, p : o = current_pos.offset /\ p = start.offset
  OBVIOUS
<1>2. /\ text \in Seq(Char) /\ Len(text) \in Nat /\ o \in 0..Len(text) /\ here.offset = o
      /\ p \in 0..Len(text)
  BY <1>1, HereTyped, TextTyped
<1>3. PICK n \in Nat : n = Len(text)
  BY <1>2
<1>4. o < n => o \in 0..(n - 1)
  BY <1>2, <1>3
<1>5. (o < n => cur_c = text[o + 1] /\ cur_c # END) /\ (o = n => cur_c = END)
  <2>1. o < n => cur_c = text[o + 1] /\ cur_c # END
    BY <1>1, <1>3, <1>4, TextTyped DEF cur_c
  <2>2. o = n => cur_c = END
    BY <1>1, <1>2, <1>3 DEF cur_c, char_at
  <2> QED BY <2>1, <2>2
<1>6. CASE cur_node = root
  <2>1. ~ OnToken
    BY <1>6, OtherNodes DEF OnToken
  <2>2. p = o
    BY <1>1, <1>2, <1>6 DEF start
  <2> QED BY <1>1, <1>2, <1>3, <1>5, <1>6, <2>1, <2>2
<1>7. CASE cur_node # root
  <2>1. /\ cur_node \notin {root, eof, NIL} /\ p < o
        /\ cur_node = Reached(SubSeq(text, p + 1, o))
    <3>1. ~ (o > n)
      BY <1>2, <1>3
    <3> QED BY <1>1, <1>3, <1>7, <3>1 DEF OnPath
  <2>2. p \in Nat /\ o \in (p + 1)..n /\ p <= o
    BY <1>2, <1>3, <2>1
  <2>3. PICK s : s = SubSeq(text, p + 1, o)
    OBVIOUS
  <2>4. s # <<>> /\ (o \in Ends(text, p) <=> IsToken(s))
    BY <1>2, <1>3, <2>2, <2>3, PieceOf, EndsAt
  <2>5. OnToken <=> IsToken(s)
    BY <2>1, <2>3, <2>4, ReachedType DEF OnToken
  <2> QED BY <1>1, <1>2, <1>3, <1>5, <2>1, <2>2, <2>4, <2>5
<1> QED BY <1>6, <1>7

\* Where the lexer is stuck a token begins, and none of its ends is further on.
LEMMA StuckHere ==
  ASSUME LexerTyped, OnPath, Iterating, start.offset \in 0..Len(text),
         next(cur_node, cur_c) = NIL
  PROVE  /\ start.offset # Len(text) /\ text[start.offset + 1] \notin Space
         /\ \A e \in Ends(text, start.offset) : e <= current_pos.offset
<1>1. PICK o, p : o = current_pos.offset /\ p = start.offset
  OBVIOUS
<1>2. /\ text \in Seq(Char) /\ Len(text) \in Nat /\ o \in 0..Len(text) /\ p \in 0..Len(text)
      /\ (o < Len(text) => cur_c = text[o + 1]) /\ (o = Len(text) => cur_c = END)
      /\ \/ cur_node = root /\ p = o
         \/ /\ cur_node # NIL /\ o \in (p + 1)..Len(text)
            /\ cur_node = Reached(SubSeq(text, p + 1, o))
  BY <1>1, Standing
<1>3. PICK n \in Nat : n = Len(text)
  BY <1>2
<1>4. CASE cur_node = root /\ p = o
  <2>1. root \notin {name, num, eof} /\ root # NIL /\ eof # NIL
    BY OtherNodes
  <2>2. next(root, cur_c) = NIL
    BY <1>4
  <2>3. cur_c \notin Space /\ cur_c # END
    BY <2>1, <2>2 DEF next
  <2>4. Reached(<< cur_c >>) = NIL
    BY <2>2, <2>3, RootNext
  <2>5. o < n /\ cur_c = text[o + 1] /\ p \in Nat /\ p + 1 \in (p + 1)..n /\ p # n
    BY <1>2, <1>3, <1>4, <2>3
  <2>6. SubSeq(text, p + 1, p + 1) = << cur_c >>
    BY <1>2, <1>3, <1>4, <2>5, PieceOf
  <2>7. \A e \in Ends(text, p) : e <= p
    <3>1. p \in p..n
      BY <2>5, <1>2, <1>3
    <3> QED BY <1>2, <1>3, <2>4, <2>5, <2>6, <3>1, NoneBehind
  <2> QED BY <1>1, <1>3, <1>4, <2>3, <2>5, <2>7
<1>5. CASE /\ cur_node # NIL /\ o \in (p + 1)..n
           /\ cur_node = Reached(SubSeq(text, p + 1, o))
  <2>1. PICK s : s = SubSeq(text, p + 1, o)
    OBVIOUS
  <2>2. p \in Nat /\ p # n /\ o \in p..n /\ o \in 0..n /\ p <= o
    BY <1>2, <1>3, <1>5
  <2>3. s \in Seq(Char) /\ s # <<>>
    BY <1>2, <1>3, <1>5, <2>1, <2>2, PieceOf
  <2>4. Reached(Append(s, cur_c)) = NIL
    BY <1>5, <2>1, <2>3, ReachedNext
  <2>5. o < n => Reached(SubSeq(text, p + 1, o + 1)) = NIL
    BY <1>2, <1>3, <2>1, <2>2, <2>4, Pieces
  <2>6. \A e \in Ends(text, p) : e <= o
    BY <1>2, <1>3, <2>2, <2>5, NoneBehind
  <2>7. text[p + 1] \notin Space
    BY <1>2, <1>3, <1>5, <2>2, NoSpaceFirst
  <2> QED BY <1>1, <1>3, <2>2, <2>6, <2>7
<1> QED BY <1>2, <1>3, <1>4, <1>5

\* A lexer that is stuck where no token begins has shown that there is none.
LEMMA StuckAtError ==
  ASSUME LexerTyped, FirstTokens, OnPath, Iterating, next(cur_node, cur_c) = NIL,
         ~ OnToken, \A e \in Ends(text, start.offset) : ~ (e < current_pos.offset)
  PROVE  ~ Tokenizable(text)
<1>1. PICK o, p : o = current_pos.offset /\ p = start.offset
  OBVIOUS
<1>2. p \in 0..Len(text)
  BY <1>1 DEF FirstTokens
<1>3. /\ text \in Seq(Char) /\ o \in 0..Len(text) /\ p # Len(text) /\ text[p + 1] \notin Space
      /\ \A e \in Ends(text, p) : e <= o
  BY <1>1, <1>2, Standing, StuckHere
<1>4. o \notin Ends(text, p)
  <2>1. CASE cur_node = root
    <3>1. o = p /\ p \in Nat
      BY <1>1, <1>2, <2>1, Standing
    <3> QED BY <1>3, <3>1, EndsAt
  <2>2. CASE cur_node # root
    BY <1>1, <1>2, <2>2, Standing
  <2> QED BY <2>1, <2>2
<1>5. Ends(text, p) = {}
  <2>1. ASSUME NEW e \in Ends(text, p) PROVE FALSE
    <3>1. e \in Nat /\ o \in Nat /\ e <= o /\ ~ (e < o) /\ p \in Nat
      BY <1>1, <1>2, <1>3, <2>1, EndsAt
    <3>2. e = o
      BY <3>1
    <3> QED BY <1>4, <2>1, <3>2
  <2> QED BY <2>1
<1>6. p \in BeginningsFrom(text)[p]
  BY <1>2, <1>3, BeginsHere
<1>7. p \in Beginnings(text)
  BY <1>1, <1>6 DEF FirstTokens
<1> QED BY <1>5, <1>7 DEF Tokenizable

\* The longest token of the text is pushed, and the next one is looked for
\* where it ends.
LEMMA LongestPushed ==
  ASSUME LexerTyped, FirstTokens, OnPath, Iterating, next(cur_node, cur_c) = NIL,
         NEW m \in Ends(text, start.offset), \A e \in Ends(text, start.offset) : e <= m,
         NEW node, node = Reached(SubSeq(text, start.offset + 1, m)),
         Push(node_type(node), m - start.offset), text' = text, start'.offset = m
  PROVE  FirstTokens'
<1>1. PICK p : p = start.offset
  OBVIOUS
<1>2. /\ text \in Seq(Char) /\ Len(text) \in Nat /\ p \in 0..Len(text)
      /\ p # Len(text) /\ text[p + 1] \notin Space
  BY <1>1, Standing, StuckHere DEF FirstTokens
<1>3. /\ m \in (p + 1)..Len(text) /\ IsToken(SubSeq(text, p + 1, m)) /\ p \in Nat /\ m \in Nat
      /\ p < m
  BY <1>1, <1>2, EndsAt
<1>4. PICK s : s = SubSeq(text, p + 1, m)
  OBVIOUS
<1>5. s # <<>> /\ Longest(text, p) = m /\ TextOf(text, p) = s
  <2>1. s # <<>>
    BY <1>2, <1>3, <1>4, PieceOf
  <2>2. m \in Ends(text, p) /\ \A e \in Ends(text, p) : e <= m
    BY <1>1
  <2>3. Longest(text, p) = m /\ TextOf(text, p) = SubSeq(text, p + 1, m)
    BY ONLY <1>2, <1>3, <2>2, LongestIs
  <2> QED BY <1>4, <2>1, <2>3
<1>6. Substring(p, m - p) = s
  <2>1. ~ (m - p < 0) /\ p + (m - p) = m
    BY <1>3
  <2> QED BY <1>4, <2>1 DEF Substring
<1>7. PICK token : token = token_ctor(s, node_type(Reached(s)), start)
  OBVIOUS
<1>8. /\ token.type = KindOf(s) /\ token.from = p /\ (token.type # "ERROR" => token.str = s)
      /\ tokens' = Append(tokens, token)
  <2>1. tokens' = Append(tokens, token)
    BY <1>1, <1>4, <1>6, <1>7 DEF Push
  <2>2. s # <<>> /\ IsToken(s)
    BY <1>3, <1>4, <1>5
  <2>3. /\ token.type = KindOf(s) /\ token.from = start.offset
        /\ (token.type # "ERROR" => token.str = s)
    BY ONLY <1>7, <2>2, TokenMade
  <2> QED BY <1>1, <2>1, <2>3
<1>9. PICK l \in Nat : l = Len(tokens)
  BY <1>8, Pushed DEF LexerTyped
<1>10. /\ Len(tokens') = l + 1 /\ tokens'[l + 1] = token
       /\ \A k \in 1..l : tokens'[k] = tokens[k]
  BY <1>8, <1>9, Pushed DEF LexerTyped
<1>11. PICK b, c : b = BeginningsFrom(text)[p] /\ c = BeginningsFrom(text)[m]
  OBVIOUS
<1>12. b = {p} \cup c
  BY <1>1, <1>2, <1>3, <1>5, <1>11, BeginsHere
<1>13. \A k : k \in 1..(l + 1) <=> k \in 1..l \/ k = l + 1
  OBVIOUS
<1>14. Beginnings(text) = {tokens'[k].from : k \in 1..(l + 1)} \cup c
  <2>1. Beginnings(text) = {tokens[k].from : k \in 1..l} \cup b
    BY <1>1, <1>9, <1>11 DEF FirstTokens
  <2>2. {tokens'[k].from : k \in 1..(l + 1)} = {tokens[k].from : k \in 1..l} \cup {p}
    BY <1>8, <1>10, <1>13
  <2> QED BY <1>12, <2>1, <2>2
<1>15. IsLongest(token)
  BY <1>5, <1>8 DEF IsLongest
<1>16. ASSUME NEW k \in 1..(l + 1)
       PROVE  /\ tokens'[k].from \in Nat /\ Ends(text, tokens'[k].from) # {}
              /\ IsLongest(tokens'[k])
              /\ tokens'[k].from < IF k < l + 1 THEN tokens'[k + 1].from ELSE m
  <2>1. CASE k = l + 1
    BY <1>1, <1>3, <1>8, <1>10, <1>15, <2>1
  <2>2. CASE k # l + 1
    <3>1. k \in 1..l /\ k < l + 1 /\ (k < l \/ k = l) /\ (k < l => k + 1 \in 1..l)
      BY <2>2
    <3>2. /\ tokens[k].from \in Nat /\ Ends(text, tokens[k].from) # {} /\ IsLongest(tokens[k])
          /\ tokens[k].from < IF k < l THEN tokens[k + 1].from ELSE p
      BY <1>1, <1>9, <3>1 DEF FirstTokens
    <3>3. tokens'[k] = tokens[k] /\ (k < l => tokens'[k + 1] = tokens[k + 1])
      BY <1>10, <3>1
    <3>4. ~ (k < l) => tokens'[k + 1].from = p
      BY <1>8, <1>10, <3>1
    <3>5. tokens[k].from < tokens'[k + 1].from
      BY <3>2, <3>3, <3>4
    <3> QED BY <3>1, <3>2, <3>3, <3>5
  <2> QED BY <2>1, <2>2
<1>17. m \in 0..Len(text)
  BY <1>2, <1>3
<1>18. \A k \in 1..Len(tokens') :
         /\ tokens'[k].from \in Nat /\ Ends(text', tokens'[k].from) # {} /\ IsLongest(tokens[k])'
         /\ tokens'[k].from < IF k < Len(tokens') THEN tokens'[k + 1].from ELSE start'.offset
  BY <1>10, <1>16 DEF IsLongest
<1> QED BY <1>10, <1>11, <1>14, <1>17, <1>18 DEF FirstTokens

-----------------------------------------------------------------------------
(* TokensInv is inductive.                                                 *)

\* The lexer looks for the longest token at the right place.
Looking == FirstTokens /\ OnPath /\ LongestPassed

\* Where the next token begins when a token has been pushed.
LEMMA StartAtRoot ==
  ASSUME cur_node' = root, current_pos' \in FilePos
  PROVE  start'.offset = current_pos'.offset
<1>1. PICK pos : pos = current_pos'
  OBVIOUS
<1>2. pos \in FilePos
  BY <1>1
<1>3. /\ file_pos(pos.line + 1, 1, pos.offset).offset = pos.offset
      /\ [pos EXCEPT !.column = @ + 1].offset = pos.offset
  BY <1>2 DEF file_pos, FilePos
<1> QED BY <1>1, <1>3 DEF start, here

\* Nothing has been passed where the lexer starts to look.
LEMMA NothingPassed ==
  ASSUME NEW t \in Seq(Char), NEW p \in Nat
  PROVE  /\ {to \in Ends(t, p) : to < p} = {}
         /\ {to \in Ends(t, p) : to < p + 1} = {}
<1>1. \A to \in Ends(t, p) : to \in Nat /\ p < to
  BY EndsAt
<1> QED BY <1>1

\* Going on, the lexer keeps looking for it.
LEMMA AdvanceLooking ==
  ASSUME LexerTyped, LexerTyped', Looking, advance
  PROVE  Looking'
<1>1. PICK o, p : o = current_pos.offset /\ p = start.offset
  OBVIOUS
<1>2. /\ Iterating /\ next(cur_node, cur_c) # NIL /\ cur_node' = next(cur_node, cur_c)
      /\ current_pos'.offset = o + 1 /\ current_pos' \in FilePos /\ text' = text
      /\ complete' = last /\ complete_pos' = last_pos /\ token_pos' = start /\ tokens' = tokens
  BY <1>1, HereTyped DEF advance
<1>3. /\ text \in Seq(Char) /\ Len(text) \in Nat /\ o \in 0..Len(text) /\ p \in 0..Len(text)
      /\ here.offset = o /\ p <= o
      /\ (o < Len(text) => cur_c = text[o + 1] /\ cur_c # END) /\ (o = Len(text) => cur_c = END)
      /\ \/ cur_node = root /\ ~ OnToken /\ p = o
         \/ /\ cur_node \notin {root, eof, NIL}
            /\ o \in (p + 1)..Len(text)
            /\ cur_node = Reached(SubSeq(text, p + 1, o))
            /\ OnToken <=> o \in Ends(text, p)
  BY <1>1, <1>2, Standing DEF Looking, FirstTokens
<1>4. PICK n \in Nat : n = Len(text)
  BY <1>3
<1>5. PICK before, after : /\ before = {to \in Ends(text, p) : to < o}
                           /\ after = {to \in Ends(text, start'.offset) : to < o + 1}
  OBVIOUS
<1>6. \/ /\ complete # NIL
         /\ complete_pos.offset \in before
         /\ \A to \in before : to <= complete_pos.offset
         /\ complete = Reached(SubSeq(text, p + 1, complete_pos.offset))
      \/ /\ before = {}
         /\ complete # NIL /\ ~ OnToken => Outdated
  BY <1>1, <1>5 DEF Looking, LongestPassed
<1>7. ASSUME \/ /\ complete' # NIL
                /\ complete_pos'.offset \in after
                /\ \A to \in after : to <= complete_pos'.offset
                /\ complete' = Reached(SubSeq(text, start'.offset + 1, complete_pos'.offset))
             \/ /\ after = {}
                /\ complete' # NIL /\ ~ OnToken' => Outdated'
      PROVE  LongestPassed'
  BY <1>2, <1>5, <1>7 DEF LongestPassed
<1>8. ASSUME ~ OnToken, complete # NIL => Outdated, o < n
      PROVE  complete' # NIL /\ ~ OnToken' => Outdated'
  <2>1. complete' = complete
    BY <1>2, <1>8 DEF last
  <2> QED BY <1>1, <1>2, <1>4, <1>8, <2>1, OutdatedStays DEF OnToken
<1>9. ASSUME start'.offset = p PROVE FirstTokens'
  <2>1. FirstTokens /\ start'.offset = start.offset
    BY <1>1, <1>9 DEF Looking
  <2> QED BY <1>2, <2>1 DEF FirstTokens, IsLongest
<1>10. cur_node' # root => start'.offset = p
  BY <1>1, <1>2 DEF start
<1>11. CASE cur_node = root /\ cur_c \in Space
  <2>1. cur_node' = root
    BY <1>2, <1>11, OtherNodes DEF next
  <2>2. start'.offset = o + 1
    BY <1>2, <2>1, StartAtRoot
  <2>3. o < n /\ p = o /\ ~ OnToken
    <3>1. END \notin Space
      BY Zenon DEF Space, END
    <3> QED BY <1>3, <1>4, <1>11, <3>1
  <2>4. o + 1 \in Nat /\ o + 1 \in 0..n
    BY <1>3, <1>4, <2>3
  <2>5. FirstTokens'
    <3>1. BeginningsFrom(text)[o] = BeginningsFrom(text)[o + 1]
      <4>1. text[o + 1] \in Space /\ o # n
        BY <1>3, <1>4, <1>11, <2>3
      <4> QED BY <1>3, <1>4, <4>1, BeginsHere
    <3>2. Beginnings(text) = {tokens[k].from : k \in 1..Len(tokens)}
                               \cup BeginningsFrom(text)[o + 1]
      BY <1>1, <2>3, <3>1 DEF Looking, FirstTokens
    <3>3. ASSUME NEW k \in 1..Len(tokens)
          PROVE  /\ tokens[k].from \in Nat /\ Ends(text, tokens[k].from) # {}
                 /\ IsLongest(tokens[k])
                 /\ tokens[k].from < IF k < Len(tokens) THEN tokens[k + 1].from ELSE o + 1
      <4>1. /\ tokens[k].from \in Nat /\ Ends(text, tokens[k].from) # {}
            /\ IsLongest(tokens[k])
            /\ tokens[k].from < IF k < Len(tokens) THEN tokens[k + 1].from ELSE o
        BY <1>1, <2>3 DEF Looking, FirstTokens
      <4>2. o \in Nat
        BY <1>3
      <4> QED BY <4>1, <4>2
    <3> QED BY <1>2, <1>4, <2>2, <2>4, <3>2, <3>3 DEF FirstTokens, IsLongest
  <2>6. OnPath'
    BY <1>2, <1>4, <2>1, <2>4 DEF OnPath
  <2>7. after = {} /\ before = {}
    <3>1. o \in Nat
      BY <1>3
    <3> QED BY <1>3, <1>5, <2>2, <2>3, <2>4, <3>1, NothingPassed
  <2>8. complete' # NIL /\ ~ OnToken' => Outdated'
    BY <1>6, <1>8, <2>3, <2>7
  <2> QED BY <1>7, <2>5, <2>6, <2>7, <2>8 DEF Looking
<1>12. CASE cur_node = root /\ cur_c = END
  <2>1. END \notin Space
    BY Zenon DEF Space, END
  <2>2. cur_node' = eof
    BY <1>2, <1>12, <2>1, OtherNodes DEF next
  <2>3. o = n /\ p = o /\ start'.offset = p
    BY <1>3, <1>4, <1>10, <1>12, <2>2, OtherNodes
  <2>4. OnPath'
    BY <1>2, <1>4, <2>2, <2>3 DEF OnPath
  <2>5. after = {}
    <3>1. o \in Nat
      BY <1>3
    <3> QED BY <1>3, <1>5, <2>3, <3>1, NothingPassed
  <2>6. OnToken'
    BY <2>2, OtherNodes DEF OnToken
  <2> QED BY <1>7, <1>9, <2>3, <2>4, <2>5, <2>6 DEF Looking
<1>13. CASE cur_node = root /\ cur_c \notin Space /\ cur_c # END
  <2>1. o < n /\ p = o /\ p \in Nat /\ o \in Nat /\ ~ OnToken
    BY <1>3, <1>4, <1>13
  <2>2. cur_node' = Reached(<< cur_c >>) /\ << cur_c >> # <<>>
    BY <1>2, <1>13, RootNext
  <2>3. cur_node' \notin {root, eof, NIL} /\ start'.offset = p
    BY <1>2, <1>10, <2>2, ReachedNodes
  <2>4. SubSeq(text, p + 1, p + 1) = << cur_c >>
    <3>1. p + 1 \in (p + 1)..n
      BY <2>1, <1>4
    <3> QED BY <1>3, <1>4, <2>1, <3>1, PieceOf
  <2>5. OnPath'
    <3>1. p < o + 1 /\ o + 1 <= n
      BY <1>4, <2>1
    <3> QED BY <1>2, <1>4, <2>1, <2>2, <2>3, <2>4, <3>1 DEF OnPath
  <2>6. after = {} /\ before = {}
    BY <1>3, <1>5, <2>1, <2>3, NothingPassed
  <2>7. complete' # NIL /\ ~ OnToken' => Outdated'
    BY <1>6, <1>8, <2>1, <2>6
  <2> QED BY <1>7, <1>9, <2>3, <2>5, <2>6, <2>7 DEF Looking
<1>14. CASE /\ cur_node \notin {root, eof, NIL}
            /\ o \in (p + 1)..n
            /\ cur_node = Reached(SubSeq(text, p + 1, o))
            /\ OnToken <=> o \in Ends(text, p)
  <2>1. cur_c # END /\ cur_node' # root
    <3>1. cur_node \in Seq(Char \cup {"NAME", "NUM", "EOF"})
      BY DEF LexerTyped, Node
    <3> QED BY <1>2, <1>14, <3>1, NextInLine
  <2>2. o < n /\ start'.offset = p /\ p \in Nat /\ o \in Nat /\ p <= o /\ o \in 0..n /\ p < o
    BY <1>3, <1>4, <1>10, <1>14, <2>1
  <2>3. PICK s : s = SubSeq(text, p + 1, o)
    OBVIOUS
  <2>4. s \in Seq(Char) /\ s # <<>>
    BY <1>3, <1>4, <1>14, <2>2, <2>3, PieceOf
  <2>5. SubSeq(text, p + 1, o + 1) = Append(s, cur_c)
    BY <1>3, <1>4, <2>2, <2>3, Pieces
  <2>6. cur_node' = Reached(SubSeq(text, p + 1, o + 1))
    BY <1>2, <1>14, <2>3, <2>4, <2>5, ReachedNext
  <2>7. cur_node' # eof
    BY <2>6, ReachedNodes
  <2>8. OnPath'
    <3>1. p < o + 1 /\ o + 1 <= n
      BY <1>4, <2>2
    <3> QED BY <1>2, <1>4, <2>1, <2>2, <2>6, <2>7, <3>1 DEF OnPath
  <2>9. \A to : to \in after <=> to \in before \/ (to = o /\ o \in Ends(text, p))
    <3>1. \A to \in Ends(text, p) : to \in Nat
      BY <1>3, <2>2, EndsAt
    <3>2. \A to \in Nat : to < o + 1 <=> to < o \/ to = o
      BY <2>2
    <3>3. ~ (o < o) /\ o < o + 1
      BY <2>2
    <3> QED BY <1>5, <2>2, <3>1, <3>2, <3>3
  <2>10. CASE OnToken
    <3>1. complete' = cur_node /\ complete_pos'.offset = o
      BY <1>2, <1>3, <2>10 DEF last, last_pos
    <3>2. \A to \in after : to <= o
      <4>1. \A to \in Ends(text, p) : to \in Nat
        BY <1>3, <2>2, EndsAt
      <4>2. \A to \in before : to \in Nat /\ to < o
        BY <1>5, <4>1
      <4> QED BY <2>2, <2>9, <4>2
    <3> QED BY <1>7, <1>9, <1>14, <2>2, <2>8, <2>9, <2>10, <3>1, <3>2 DEF Looking
  <2>11. CASE ~ OnToken
    <3>1. complete' = complete /\ complete_pos' = complete_pos /\ after = before
      BY <1>2, <1>14, <2>9, <2>11 DEF last, last_pos
    <3>2. CASE before = {} /\ (complete # NIL => Outdated)
      <4>1. complete' # NIL /\ ~ OnToken' => Outdated'
        BY <1>8, <2>2, <2>11, <3>2
      <4> QED BY <1>7, <1>9, <2>2, <2>8, <3>1, <3>2, <4>1 DEF Looking
    <3>3. CASE /\ complete # NIL
               /\ complete_pos.offset \in before
               /\ \A to \in before : to <= complete_pos.offset
               /\ complete = Reached(SubSeq(text, p + 1, complete_pos.offset))
      BY <1>7, <1>9, <2>2, <2>8, <3>1, <3>3 DEF Looking
    <3> QED BY <1>6, <2>11, <3>2, <3>3
  <2> QED BY <2>10, <2>11
<1> QED BY <1>3, <1>4, <1>11, <1>12, <1>13, <1>14

\* Behind the token it is on, the lexer looks for the next one.
LEMMA TakeTokenLooking ==
  ASSUME LexerTyped, LexerTyped', Looking, take_token
  PROVE  Looking'
<1>1. PICK o, p : o = current_pos.offset /\ p = start.offset
  OBVIOUS
<1>2. /\ Iterating /\ next(cur_node, cur_c) = NIL /\ OnToken /\ cur_node' = root
      /\ current_pos' = current_pos /\ current_pos' \in FilePos /\ text' = text
      /\ Push(node_type(cur_node), here.offset - start.offset)
  BY HereTyped DEF take_token, lst_pos
<1>3. /\ text \in Seq(Char) /\ Len(text) \in Nat /\ o \in 0..Len(text) /\ p \in 0..Len(text)
      /\ here.offset = o
      /\ o \in Ends(text, p) /\ cur_node = Reached(SubSeq(text, p + 1, o))
      /\ \A e \in Ends(text, p) : e <= o
  BY <1>1, <1>2, Standing, StuckHere DEF Looking, FirstTokens
<1>4. start'.offset = o
  BY <1>1, <1>2, StartAtRoot
<1>5. FirstTokens'
  <2>1. FirstTokens /\ OnPath
    BY DEF Looking
  <2> QED BY <1>1, <1>2, <1>3, <1>4, <2>1, LongestPushed
<1>6. OnPath'
  BY <1>1, <1>2, <1>3 DEF OnPath
<1>7. Outdated'
  BY TakenOutdated
<1>8. LongestPassed'
  <2>1. {to \in Ends(text, o) : to < o} = {}
    <3>1. o \in Nat
      BY <1>3
    <3> QED BY <1>3, <3>1, NothingPassed
  <2> QED BY <1>1, <1>2, <1>4, <1>7, <2>1 DEF LongestPassed
<1> QED BY <1>5, <1>6, <1>8 DEF Looking

\* So it does behind the token it goes back to.  A lexer that goes back to an
\* outdated node is lost, and no token begins where it was.
LEMMA TakeCompleteLooking ==
  ASSUME LexerTyped, LexerTyped', Looking, take_complete
  PROVE  Looking' \/ (Lost' /\ ~ Tokenizable(text))
<1>1. PICK o, p, co : o = current_pos.offset /\ p = start.offset /\ co = complete_pos.offset
  OBVIOUS
<1>2. /\ Iterating /\ next(cur_node, cur_c) = NIL /\ ~ OnToken /\ complete # NIL
      /\ cur_node' = root /\ complete' = NIL
      /\ current_pos' = complete_pos /\ current_pos' \in FilePos /\ text' = text
      /\ Push(node_type(complete), complete_pos.offset - start.offset)
  BY HereTyped DEF take_complete, complete_reset
<1>3. /\ text \in Seq(Char) /\ Len(text) \in Nat /\ o \in 0..Len(text) /\ p \in 0..Len(text)
      /\ \A e \in Ends(text, p) : e <= o
      /\ FirstTokens /\ OnPath
  BY <1>1, <1>2, Standing, StuckHere DEF Looking, FirstTokens
<1>4. \/ /\ co \in Ends(text, p) /\ co < o
         /\ \A to \in Ends(text, p) : to < o => to <= co
         /\ complete = Reached(SubSeq(text, p + 1, co))
      \/ /\ \A to \in Ends(text, p) : ~ (to < o)
         /\ Outdated
  BY <1>1, <1>2 DEF Looking, LongestPassed
<1>5. CASE /\ \A to \in Ends(text, p) : ~ (to < o)
           /\ Outdated
  BY <1>1, <1>2, <1>3, <1>5, StuckAtError, OutdatedLost
<1>6. CASE /\ co \in Ends(text, p) /\ co < o
           /\ \A to \in Ends(text, p) : to < o => to <= co
           /\ complete = Reached(SubSeq(text, p + 1, co))
  <2>1. p \in Nat /\ o \in Nat /\ co \in Nat /\ p < co
    BY <1>3, <1>6, EndsAt
  <2>2. o \notin Ends(text, p)
    <3>1. cur_node # root
      <4>1. ~ (p = o)
        BY <1>6, <2>1
      <4> QED BY <1>1, <1>2, <1>3, <4>1, Standing
    <3> QED BY <1>1, <1>2, <1>3, <3>1, Standing
  <2>3. \A e \in Ends(text, p) : e <= co
    <3>1. ASSUME NEW e \in Ends(text, p) PROVE e <= co
      <4>1. e \in Nat /\ e <= o /\ e # o
        BY <1>3, <2>1, <2>2, EndsAt
      <4> QED BY <1>6, <2>1, <4>1
    <3> QED BY <3>1
  <2>4. start'.offset = co
    BY <1>1, <1>2, StartAtRoot
  <2>5. FirstTokens'
    BY <1>1, <1>2, <1>3, <1>6, <2>3, <2>4, LongestPushed
  <2>6. OnPath'
    <3>1. co <= Len(text)
      BY <1>3, <1>6, <2>1
    <3> QED BY <1>1, <1>2, <3>1 DEF OnPath
  <2>7. LongestPassed'
    <3>1. {to \in Ends(text, co) : to < co} = {}
      BY <1>3, <2>1, NothingPassed
    <3> QED BY <1>1, <1>2, <2>4, <3>1 DEF LongestPassed
  <2> QED BY <2>5, <2>6, <2>7 DEF Looking
<1> QED BY <1>4, <1>5, <1>6

\* A lexer that fails has shown that the text is not made of tokens.
LEMMA InvalidLooking ==
  ASSUME LexerTyped, Looking, invalid_token
  PROVE  ~ Tokenizable(text)
<1>1. /\ Iterating /\ next(cur_node, cur_c) = NIL /\ ~ OnToken /\ complete = NIL
  BY DEF invalid_token
<1>2. FirstTokens /\ OnPath /\ \A to \in Ends(text, start.offset) : ~ (to < current_pos.offset)
  BY <1>1 DEF Looking, LongestPassed
<1> QED BY <1>1, <1>2, StuckAtError

\* At the end of the text all tokens have been found.
LEMMA EndLooking ==
  ASSUME LexerTyped, Looking, end_of_text
  PROVE  Tokenizable(text) /\ LongestTokens'
<1>1. PICK e : tokens' = Append(tokens, e)
  BY DEF end_of_text
<1>2. PICK l \in Nat : l = Len(tokens)
  BY <1>1, Pushed DEF LexerTyped
<1>3. /\ Len(tokens') = l + 1 /\ Len(tokens') - 1 = l
      /\ \A k \in 1..l : tokens'[k] = tokens[k]
  <2>1. Len(tokens') = l + 1 /\ \A k \in 1..l : tokens'[k] = tokens[k]
    BY <1>1, <1>2, Pushed DEF LexerTyped
  <2> QED BY <1>2, <2>1
<1>4. text' = text /\ current_pos.offset > Len(text) /\ text \in Seq(Char) /\ Len(text) \in Nat
  BY TextTyped DEF end_of_text
<1>5. start.offset = Len(text)
  <2>1. ~ (current_pos.offset <= Len(text))
    BY <1>4 DEF LexerTyped, FilePos
  <2> QED BY <2>1 DEF Looking, OnPath
<1>6. BeginningsFrom(text)[start.offset] = {}
  <2>1. Len(text) \in 0..Len(text)
    BY <1>4
  <2> QED BY <1>4, <1>5, <2>1, BeginsHere
<1>7. Beginnings(text) = {tokens[k].from : k \in 1..l}
  BY <1>2, <1>6 DEF Looking, FirstTokens
<1>8. \A k \in 1..l :
        /\ Ends(text, tokens[k].from) # {} /\ IsLongest(tokens[k])
        /\ k < l => tokens[k].from < tokens[k + 1].from
  BY <1>2 DEF Looking, FirstTokens
<1>9. Tokenizable(text)
  BY <1>7, <1>8 DEF Tokenizable
<1>10. {tokens'[k].from : k \in 1..l} = Beginnings(text)
  BY <1>3, <1>7
<1>11. ASSUME NEW k \in 1..l
       PROVE  IsLongest(tokens[k])' /\ (k > 1 => tokens'[k - 1].from < tokens'[k].from)
  <2>1. IsLongest(tokens[k])'
    BY <1>3, <1>4, <1>8 DEF IsLongest
  <2>2. ASSUME k > 1 PROVE tokens'[k - 1].from < tokens'[k].from
    <3>1. k - 1 \in 1..l /\ k - 1 < l /\ (k - 1) + 1 = k
      BY <2>2
    <3> QED BY <1>3, <1>8, <3>1
  <2> QED BY <2>1, <2>2
<1> QED BY <1>3, <1>4, <1>9, <1>10, <1>11 DEF LongestTokens

\* A lexer that starts looks for the first token.
LEMMA TokensInit == LexerInit => TokensInv
<1> SUFFICES ASSUME LexerInit PROVE TokensInv
  OBVIOUS
<1>1. /\ tokens = <<>> /\ result = "none" /\ cur_node = root /\ complete = NIL
      /\ current_pos = file_pos(0, 0, 0) /\ text \in Text
  BY DEF LexerInit
<1>2. text \in Seq(Char) /\ Len(text) \in Nat /\ current_pos.offset = 0
  BY <1>1, TextAssumption DEF TextAssumption, file_pos
<1>3. start.offset = 0
  <2>1. PICK pos \in FilePos : pos = current_pos /\ pos.offset = 0
    <3>1. current_pos \in FilePos
      BY <1>1 DEF file_pos, FilePos
    <3> QED BY <1>2, <3>1
  <2>2. /\ file_pos(pos.line + 1, 1, pos.offset).offset = pos.offset
        /\ [pos EXCEPT !.column = @ + 1].offset = pos.offset
    BY DEF file_pos, FilePos
  <2> QED BY <1>1, <2>1, <2>2 DEF start, here
<1>4. FirstTokens
  <2>1. \A k \in 1..Len(tokens) : FALSE
    BY <1>1
  <2>2. 0 \in 0..Len(text)
    BY <1>2
  <2>3. {tokens[k].from : k \in 1..Len(tokens)} = {}
    BY <2>1
  <2> QED BY <1>3, <2>1, <2>2, <2>3 DEF FirstTokens, Beginnings
<1>5. OnPath
  BY <1>1, <1>2 DEF OnPath
<1>6. LongestPassed
  <2>1. {to \in Ends(text, 0) : to < 0} = {}
    BY <1>2, NothingPassed
  <2> QED BY <1>1, <1>2, <1>3, <2>1 DEF LongestPassed
<1> QED BY <1>1, <1>4, <1>5, <1>6 DEF TokensInv, LongestTokens

\* Every step keeps looking for it, or fails for a reason.
LEMMA TokensStep ==
  ASSUME LexerTyped, LexerTyped', TokensInv, [Lex]_lexerVars
  PROVE  TokensInv'
<1>1. /\ result = "none" => (Lost /\ ~ Tokenizable(text)) \/ Looking
      /\ result = "done" => Tokenizable(text)
      /\ result = "failed" => ~ Tokenizable(text)
      /\ LongestTokens
  BY DEF TokensInv, Looking
<1>2. text' = text
  BY DEF Lex, lexerVars, advance, take_token, take_complete, invalid_token, end_of_text
<1>3. ASSUME result' = "none", (Lost' /\ ~ Tokenizable(text)) \/ Looking'
      PROVE  TokensInv'
  BY <1>2, <1>3 DEF TokensInv, LongestTokens, Looking
<1>4. CASE advance
  <2>1. result = "none" /\ result' = "none"
    BY <1>4 DEF advance, Iterating
  <2> QED BY <1>1, <1>3, <1>4, <2>1, AdvanceLost, AdvanceLooking
<1>5. CASE take_token
  <2>1. result = "none" /\ result' = "none" /\ OnToken
    BY <1>5 DEF take_token, Iterating
  <2> QED BY <1>1, <1>3, <1>5, <2>1, LostHere, TakeTokenLooking
<1>6. CASE take_complete
  <2>1. result = "none" /\ result' = "none" /\ complete # NIL
    BY <1>6 DEF take_complete, Iterating
  <2> QED BY <1>1, <1>3, <1>6, <2>1, LostHere, TakeCompleteLooking
<1>7. CASE invalid_token
  <2>1. result = "none" /\ result' = "failed"
    BY <1>7 DEF invalid_token, Iterating
  <2>2. ~ Tokenizable(text)
    BY <1>1, <1>7, <2>1, InvalidLooking
  <2> QED BY <1>2, <2>1, <2>2 DEF TokensInv, LongestTokens
<1>8. CASE end_of_text
  <2>1. result = "none" /\ result' = "done" /\ current_pos.offset > Len(text)
    BY <1>8 DEF end_of_text
  <2>2. ~ Lost
    <3>1. current_pos.offset \in Nat /\ Len(text) \in Nat
      BY TextTyped DEF LexerTyped, FilePos
    <3> QED BY <2>1, <3>1, LostHere
  <2>3. Tokenizable(text) /\ LongestTokens'
    BY <1>1, <1>8, <2>1, <2>2, EndLooking
  <2> QED BY <1>2, <2>1, <2>3 DEF TokensInv
<1>9. CASE UNCHANGED lexerVars
  <2>1. /\ text' = text /\ tokens' = tokens /\ result' = result /\ cur_node' = cur_node
        /\ complete' = complete /\ current_pos' = current_pos /\ token_pos' = token_pos
        /\ complete_pos' = complete_pos
    BY <1>9 DEF lexerVars, position
  <2>2. Lost => Lost'
    BY <2>1 DEF Lost, Walks, char_at
  <2>3. LongestTokens'
    BY <1>1, <2>1 DEF LongestTokens, IsLongest
  <2>4. start' = start
    BY <2>1 DEF start, here, cur_c, char_at
  <2>5. FirstTokens => FirstTokens'
    BY <2>1, <2>4 DEF FirstTokens, IsLongest
  <2>6. OnPath => OnPath'
    BY <2>1, <2>4 DEF OnPath
  <2>7. Outdated => Outdated'
    BY <2>1 DEF Outdated, Walks, char_at
  <2>8. LongestPassed => LongestPassed'
    BY <2>1, <2>4, <2>7 DEF LongestPassed, OnToken
  <2> QED BY <1>1, <2>1, <2>2, <2>3, <2>5, <2>6, <2>8 DEF TokensInv, Looking
<1> QED BY <1>4, <1>5, <1>6, <1>7, <1>8, <1>9 DEF Lex

\* In every state of the lexer, either the tokens so far are the first longest
\* tokens of the text and it is about to find the next one, or the text is not
\* made of tokens.
THEOREM TokensInvariance == LexerSpec => []TokensInv
<1>1. LexerInit => TokensInv
  BY TokensInit
<1>2. LinesInv /\ TokensInv /\ [Lex]_lexerVars => TokensInv'
  BY LexerTypes, TokensStep DEF LinesInv
<1> QED BY <1>1, <1>2, LinesInvariance, PTL DEF LexerSpec

\* What the lexer answers is the sequence of the longest tokens of the text,
\* whatever the text and however often it went back.
THEOREM TokensAreLongest == LexerSpec => []LongestTokens
<1>1. TokensInv => LongestTokens
  BY DEF TokensInv
<1> QED BY <1>1, TokensInvariance, PTL

\* The lexer accepts a text exactly if it is made of tokens; it decides once.
THEOREM LexerDecides == LexerSpec => Promise!VerdictInit /\ [][Promise!Decide]_<<text, result>>
<1>1. LexerInit => Promise!VerdictInit
  BY DEF LexerInit, Promise!VerdictInit
<1>2. TokensInv' /\ [Lex]_lexerVars => [Promise!Decide]_<<text, result>>
  <2> SUFFICES ASSUME TokensInv', [Lex]_lexerVars, ~ UNCHANGED <<text, result>>
               PROVE  Promise!Decide
    OBVIOUS
  <2>1. text' = text
    BY DEF Lex, lexerVars, advance, take_token, take_complete, invalid_token, end_of_text
  <2>2. result = "none" /\ result' \in {"done", "failed"}
    BY DEF Lex, lexerVars, advance, take_token, take_complete, invalid_token, end_of_text,
       Iterating
  <2>3. result' = IF Tokenizable(text) THEN "done" ELSE "failed"
    BY <2>1, <2>2 DEF TokensInv
  <2> QED BY <2>1, <2>2, <2>3 DEF Promise!Decide
<1> QED BY <1>1, <1>2, TokensInvariance, PTL DEF LexerSpec
=============================================================================
