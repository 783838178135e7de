----------------------------- MODULE MCDisplay -----------------------------
(* Texts for the display: lines that end, shorter than a row and longer; a *)
(* character that does not end its line; and none.                         *)
EXTENDS Display

LineTexts  == {<<"c", "n">>, <<"c", "c", "c", "n">>}
OpenTexts  == {<<"c">>}
NoTexts    == {}
=============================================================================
