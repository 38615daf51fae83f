---------------------------- MODULE InOrderCore ----------------------------
(***************************************************************************)
(* What the pipeline promises to software: one instruction at a time, each *)
(* executed at the address the previous one left in the program counter,   *)
(* with its own result and its own effect on memory.                       *)
(*                                                                         *)
(* Data are abstracted to their origin.  reg says which instruction wrote  *)
(* a result last and whose result that was; mem says which store reached   *)
(* memory last, with one bit that tells two stores of one address apart.   *)
(***************************************************************************)
EXTENDS Naturals

CONSTANTS LAST_PC, RESET_PC, Programs, NoStore

PC == 0 .. LAST_PC

VARIABLES prog, pc, reg, mem

isaVars == <<prog, pc, reg, mem>>

Following(p) == IF p = LAST_PC THEN 0 ELSE p + 1

\* Where the instruction at p may go: conditional branches either way.
Successors(p) ==
    CASE prog[p].op = "branch"                 -> {prog[p].to, Following(p)}
      [] prog[p].op \in {"jal", "jalr", "trap"} -> {prog[p].to}
      [] OTHER                                  -> {Following(p)}

StoreTo(m, p) == [pc |-> p, bit |-> ~m.bit]

Execute == /\ pc' \in Successors(pc)
           /\ reg' = [pc |-> pc, from |-> pc]
           /\ mem' = IF prog[pc].op = "store" THEN StoreTo(mem, pc) ELSE mem
           /\ UNCHANGED prog

IsaInit == /\ prog \in Programs
           /\ pc = RESET_PC
           /\ reg = [pc |-> RESET_PC, from |-> RESET_PC]
           /\ mem = [pc |-> NoStore, bit |-> FALSE]

IsaSpec == IsaInit /\ [][Execute]_isaVars
=============================================================================
