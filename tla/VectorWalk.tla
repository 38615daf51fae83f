----------------------------- MODULE VectorWalk -----------------------------
(***************************************************************************)
(* What a vector load or store promises of memory: its byte lanes are      *)
(* accessed one by one, in order and once each, and it is over when the    *)
(* last of them has been, unless a kill puts an early end to it.           *)
(***************************************************************************)
EXTENDS Naturals, Sequences

CONSTANTS Base,    \* where an access may start
          LAST,    \* the last lane
          Idle     \* no access

VARIABLES access,    \* [store, base], or Idle
          touched    \* the addresses memory has performed for it

walkVars == <<access, touched>>

WalkInit == access = Idle /\ touched = << >>

Start == /\ access = Idle
         /\ access' \in [store : BOOLEAN, base : Base]
         /\ touched' = << >>

Touch == /\ access # Idle
         /\ Len(touched) <= LAST
         /\ touched' = Append(touched, access.base + Len(touched))
         /\ UNCHANGED access

Finish == /\ access # Idle
          /\ Len(touched) = LAST + 1
          /\ access' = Idle
          /\ UNCHANGED touched

\* A kill ends an access wherever it stands.
Abandon == /\ access # Idle
           /\ access' = Idle
           /\ UNCHANGED touched

WalkSpec == WalkInit /\ [][Start \/ Touch \/ Finish \/ Abandon]_walkVars
=============================================================================
