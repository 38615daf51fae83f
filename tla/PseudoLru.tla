----------------------------- MODULE PseudoLru -----------------------------
(***************************************************************************)
(* The replacement tree both caches keep for each set of four ways: bit 0  *)
(* picks a half, bits 1 and 2 the way within it.  icache.v and lsu.v write *)
(* it out separately, line for line alike.                                 *)
(***************************************************************************)
EXTENDS Naturals

Ways == 0 .. 3

Tree == [0 .. 2 -> BOOLEAN]
NoUse == [b \in 0 .. 2 |-> FALSE]

\* The way to replace.
victim_way(p) == IF p[0] THEN (IF p[2] THEN 3 ELSE 2) ELSE (IF p[1] THEN 1 ELSE 0)

\* An access turns the bits on its path away from its way.
Touch(p, w) == CASE w = 0 -> [p EXCEPT ![0] = TRUE, ![1] = TRUE]
                 [] w = 1 -> [p EXCEPT ![0] = TRUE, ![1] = FALSE]
                 [] w = 2 -> [p EXCEPT ![0] = FALSE, ![2] = TRUE]
                 [] w = 3 -> [p EXCEPT ![0] = FALSE, ![2] = FALSE]
=============================================================================
