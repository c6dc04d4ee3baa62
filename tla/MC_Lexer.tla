------------------------------- MODULE MC_Lexer -------------------------------
(***************************************************************************)
(* Texts of up to three pieces.  Pieces are beginnings of words, words     *)
(* that begin other words, characters of numbers and of names, spaces, and *)
(* a character no token begins with.                                       *)
(***************************************************************************)
EXTENDS Lexer

Pieces ==
  {<<"f", "u">>, <<"f", "u", " ">>, <<"f", "u", " ", "n">>, <<"v", "a", "r">>, <<"x">>,
   <<"=">>, <<"=", "=", "=", "=">>, <<":">>, <<"<">>, <<"<", "_">>, <<";">>,
   <<"0">>, <<"1">>, <<"1", "=">>, <<"2">>, <<".">>, <<" ">>, <<"\n">>}

Texts == {<<>>} \cup Pieces \cup {p \o q : p, q \in Pieces} \cup {p \o q \o r : p, q, r \in Pieces}

MCText == Texts
=============================================================================
