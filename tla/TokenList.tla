------------------------------ MODULE TokenList ------------------------------
(***************************************************************************)
(* Tokens that are not read but made (token_list.cpp): from a type, a      *)
(* number or a name, and the source text written for a list of them.       *)
(***************************************************************************)
EXTENDS AstDsl, Lexemes, FiniteSets
LOCAL INSTANCE SequencesExt

token(type, str, num) == [type |-> type, str |-> str, num |-> num]

make_token(type)       == token(type, WordOfType(type), <<0, 1>>)
make_name_token(chars) == token("NAME", chars, <<0, 1>>)

digit_chars == <<"0", "1", "2", "3", "4", "5", "6", "7", "8", "9">>

\* The last `width` decimal digits of a number.
RECURSIVE digits(_, _)
digits(n, width) ==
  IF width = 0 THEN <<>> ELSE Append(digits(n \div 10, width - 1), digit_chars[(n % 10) + 1])

WidthOf(n) == CHOOSE w \in 1..10 : n < 10^w /\ (w = 1 \/ n >= 10^(w - 1))

Abs(n) == IF n < 0 THEN -n ELSE n

\* A fraction in thousandths, rounded to the nearest.  (Which way a double
\* halfway between two goes depends on its last bit: no input has one.)
thousandths(num) ==
  1000 * (Abs(num[1]) \div num[2]) + (2000 * (Abs(num[1]) % num[2]) + num[2]) \div (2 * num[2])

\* What is left of a tree's numbers when it has been written.
RECURSIVE Rounded(_)
Rounded(n) ==
  IF n = NULL THEN NULL
  ELSE [n EXCEPT !.left  = Rounded(n.left),
                 !.right = Rounded(n.right),
                 !.value = IF n.type # "CONST" THEN n.value
                           ELSE <<IF n.value[1] < 0 THEN -thousandths(n.value)
                                  ELSE thousandths(n.value), 1000>>]

\* "%.3lf".
printed(num) ==
  LET t == thousandths(num)
  IN  (IF num[1] < 0 THEN <<"-">> ELSE <<>>)
        \o digits(t \div 1000, WidthOf(t \div 1000)) \o <<".">> \o digits(t % 1000, 3)

\* strtod, of digits with at most one point.
DigitValue(c) == (CHOOSE i \in 1..10 : digit_chars[i] = c) - 1

strtod(chars) ==
  LET ds    == SelectSeq(chars, LAMBDA c : c # ".")
      point == CHOOSE i \in 1..(Len(chars) + 1) : i = Len(chars) + 1 \/ chars[i] = "."
      after == IF point > Len(chars) THEN 0 ELSE Len(chars) - point
  IN  <<FoldLeft(LAMBDA n, c : 10 * n + DigitValue(c), 0, ds), 10^after>>

make_num_token(num) == token("NUM", printed(num), num)

-----------------------------------------------------------------------------
(* token_array_generate_source.                                            *)

Depth(list, i) ==
  Cardinality({j \in 1..i : list[j].type = "BLOCK_START"})
    - Cardinality({j \in 1..i : list[j].type = "BLOCK_END"})

EndsLine(t) == t.type \in {"BLOCK_START", "BLOCK_END", "STMT_END"}

\* Mutant: no space in front of a parenthesis.
separated_tight(list, i) ==
  i < Len(list) /\ list[i + 1].type \notin {"COMMA", "STMT_END", "GROUP_RIGHT"}

separated(list, i) == i < Len(list) /\ list[i + 1].type \notin {"COMMA", "STMT_END"}

\* A token with its indentation in front of it and what separates it from the
\* next one behind it.
source_of(list, i) ==
  (IF i > 1 /\ EndsLine(list[i - 1]) THEN [k \in 1..Depth(list, i) |-> "\t"] ELSE <<>>)
    \o list[i].str
    \o (IF EndsLine(list[i]) THEN <<"\n">> ELSE IF separated(list, i) THEN <<" ">> ELSE <<>>)

generate_source(list) ==
  FoldLeft(LAMBDA text, i : text \o source_of(list, i), <<>>, [i \in 1..Len(list) |-> i])
    \o <<"\n">>
=============================================================================
