----------------------------- MODULE MCConnRead -----------------------------
(***************************************************************************)
(* Instances of ConnRead for TLC.                                          *)
(***************************************************************************)
EXTENDS ConnRead

\* What a recv() delivers: the end of a line, a full buffer without a line, and one with
\* a line, an empty line and the start of a third.
SomeData == {<<"e">>, <<"x", "x", "x", "x">>, <<"x", "e", "e", "x">>}
=============================================================================
