----------------------------- MODULE MCIOBuffer -----------------------------
(***************************************************************************)
(* Integers of every width, a string, and messages of up to three offsets.*)
(***************************************************************************)
EXTENDS IOBufferProps

SomeInts == {<<200>>, <<1, 200>>, <<1, 2, 3, 200>>, <<1, 2, 3, 4, 5, 6, 7, 8>>}
SomeStrings == {<<8, 9>>}
=============================================================================
