--------------------------- MODULE MCVectorMemory ---------------------------
(***************************************************************************)
(* Two places a vector access may start from, two or three lanes each.     *)
(***************************************************************************)
EXTENDS VectorMemory

MCBase == {0, 4}
MCAddress == 0 .. 7
=============================================================================
