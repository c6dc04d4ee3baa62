------------------------------ MODULE Frontend ------------------------------
(***************************************************************************)
(* The two flows of the frontend one after the other (front_utils.cpp):    *)
(* tokens are parsed into a tree; the tree is decompiled into tokens and   *)
(* these into a text; and the text is given to the frontend once more.     *)
(* The lexer's steps are those of Lexer; here the text becomes, in one     *)
(* step, the tokens Lexer is shown to deliver for it.                      *)
(***************************************************************************)
EXTENDS Parser, Decompiler

CONSTANT Input    \* records: the tokens, and what is known of them

VARIABLES
  input,        \* history: the tokens of the first reading, and where they come from
  flow,         \* the step the frontend has come to
  read,         \* what the parser answered the first time
  source,       \* the text made of the tree, as a sequence of characters
  again         \* what the parser answers when it is given that text

frontendVars == <<input, flow, read, source, again, tokens>>

EOF == token("EOF", <<>>, <<0, 1>>)

\* token_ctor gives a number its value.
lexed(chars, type) == token(type, chars, IF type = "NUM" THEN strtod(chars) ELSE <<0, 1>>)

lexer_parse_tokens(text) ==
  LET offsets == Beginnings(text)
      begin   == SelectSeq([i \in DOMAIN text |-> i - 1], LAMBDA i : i \in offsets)
  IN  Append([k \in 1..Len(begin) |->
                LET s == TextOf(text, begin[k]) IN lexed(s, KindOf(s))], EOF)

FrontendInit ==
  /\ input \in Input
  /\ tokens = input.tokens
  /\ flow = "lexed"
  /\ read = nothing(1)
  /\ source = <<>>
  /\ again = nothing(1)

\* Without a root there is nothing to save: the program returns 1.
get_tree_from_lexemes ==
  /\ flow = "lexed"
  /\ read' = parser_build_tree
  /\ flow' = IF read'.tree = NULL THEN "refused" ELSE "parsed"
  /\ UNCHANGED <<input, tokens, source, again>>

get_lexemes_from_tree ==
  /\ flow = "parsed"
  /\ tokens' = decompile_node(read.tree)
  /\ flow' = "decompiled"
  /\ UNCHANGED <<input, read, source, again>>

make_source_file ==
  /\ flow = "decompiled"
  /\ source' = generate_source(tokens)
  /\ flow' = "written"
  /\ UNCHANGED <<input, tokens, read, again>>

get_lexemes_from_file ==
  /\ flow = "written"
  /\ IF Tokenizable(source)
       THEN tokens' = lexer_parse_tokens(source) /\ flow' = "lexed again"
       ELSE tokens' = tokens /\ flow' = "refused"
  /\ UNCHANGED <<input, read, source, again>>

get_tree_from_lexemes_again ==
  /\ flow = "lexed again"
  /\ again' = parser_build_tree
  /\ flow' = "parsed again"
  /\ UNCHANGED <<input, tokens, read, source>>

FrontendNext ==
  \/ get_tree_from_lexemes \/ get_lexemes_from_tree \/ make_source_file
  \/ get_lexemes_from_file \/ get_tree_from_lexemes_again

FrontendSpec == FrontendInit /\ [][FrontendNext]_frontendVars
=============================================================================
