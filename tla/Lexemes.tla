------------------------------- MODULE Lexemes -------------------------------
(***************************************************************************)
(* The words of TypoLang and the characters of its names and numbers       *)
(* (lexemes.h, lexer_tree.cpp).  A text is a sequence of characters.  And  *)
(* the tokens of a text, defined without a tree or a position that moves   *)
(* back: the specification the lexer is checked against, and what the      *)
(* modules use that need tokens of a text but not the steps of the lexer.  *)
(***************************************************************************)
EXTENDS Integers, Sequences, FiniteSets

\* lexemes.h: a type of token and its characters.
lexemes ==
  {<<"VAR", <<"v", "a", "r">>>>, <<"FUNC", <<"f", "u", " ", "n">>>>,
   <<"BLOCK_START", <<"[">>>>, <<"BLOCK_END", <<"}">>>>,
   <<"INIT", <<":", "=">>>>, <<"ASSIGN", <<"<", "_">>>>, <<"STMT_END", <<"'">>>>,
   <<"IF", <<"e", "e", "f">>>>, <<"ELSE", <<"e", "l", "s">>>>,
   <<"WHILE", <<"v", "i", "l", "e">>>>, <<"RETURN", <<"r", "i", "t", "u", "r", "n">>>>,
   <<"GROUP_LEFT", <<"(">>>>, <<"GROUP_RIGHT", <<"0">>>>, <<"COMMA", <<",">>>>,
   <<"PLUS", <<"+">>>>, <<"MINUS", <<"-">>>>, <<"STAR", <<"8">>>>, <<"SLASH", <<"/">>>>,
   <<"OR", <<"o", "r">>>>, <<"AND", <<"a", "a", "n", "d">>>>, <<"NOT", <<"n", "o", "t">>>>,
   <<"LESS", <<"<">>>>, <<"GREATER", <<".">>>>, <<"LEQ", <<"<", "=">>>>,
   <<"GEQ", <<">", "=">>>>, <<"EQ", <<"=", "=", "=", "=">>>>, <<"NEQ", <<"1", "=">>>>,
   <<"DIFFERENTIAL", <<"d">>>>}

Words == {l[2] : l \in lexemes}
TypeOfWord(s) == (CHOOSE l \in lexemes : l[2] = s)[1]

WordOfType(type) == (CHOOSE l \in lexemes : l[1] = type)[2]

Digit  == {"0", "1", "2", "3", "4", "5", "6", "7", "8", "9"}
Letter == {"a", "b", "c", "d", "e", "f", "g", "h", "i", "j", "k", "l", "m", "n", "o",
           "p", "q", "r", "s", "t", "u", "v", "w", "x", "y", "z", "_"}
Space  == {" ", "\t", "\n"}

is_name_char(c) == c \in Letter \cup Digit
is_num_char(c)  == c \in Digit \cup {"."}

IsNamePrefix(s)  == \A i \in 1..Len(s) : is_name_char(s[i])
IsDigitPrefix(s) == \A i \in 1..Len(s) : is_num_char(s[i])

\* The nodes of the tree of words: a node is the prefix of the words below it.
WordPrefixes == UNION {{SubSeq(w, 1, n) : n \in 0..Len(w)} : w \in Words}

\* strtod must consume all of a number.
IsDecimal(s) ==
  /\ IsDigitPrefix(s)
  /\ \A i, j \in 1..Len(s) : s[i] = "." /\ s[j] = "." => i = j
  /\ \E i \in 1..Len(s) : s[i] # "."

-----------------------------------------------------------------------------
(* The tokens of a text.                                                   *)

\* A token is a word, a number or a name.  A name may begin with a digit that
\* begins a word, if no digit or point follows it.
IsWord(s)   == s \in Words
IsNumber(s) == s # <<>> /\ IsDigitPrefix(s)
IsName(s) ==
  /\ s # <<>> /\ IsNamePrefix(s)
  /\ s[1] \in Digit => /\ <<s[1]>> \in WordPrefixes
                       /\ Len(s) > 1
                       /\ s[2] \notin Digit

KindOf(s) ==
  IF IsWord(s) THEN TypeOfWord(s)
  ELSE IF IsNumber(s) THEN (IF IsDecimal(s) THEN "NUM" ELSE "ERROR") ELSE "NAME"

\* The ends of the tokens that begin behind an offset.
Ends(source, from) ==
  {to \in (from + 1)..Len(source) :
     LET s == SubSeq(source, from + 1, to) IN IsWord(s) \/ IsNumber(s) \/ IsName(s)}

Longest(source, from) == CHOOSE to \in Ends(source, from) : \A e \in Ends(source, from) : e <= to

\* Where tokens begin, from each offset on: behind spaces, and each at the end
\* of the longest before it.
BeginningsFrom(source) ==
  LET from[i \in 0..Len(source)] ==
        IF i = Len(source) THEN {}
        ELSE IF source[i + 1] \in Space THEN from[i + 1]
        ELSE {i} \cup (IF Ends(source, i) = {} THEN {} ELSE from[Longest(source, i)])
  IN  from

Beginnings(source) == BeginningsFrom(source)[0]

Tokenizable(source) == \A i \in Beginnings(source) : Ends(source, i) # {}

TextOf(source, i) == SubSeq(source, i + 1, Longest(source, i))
=============================================================================
