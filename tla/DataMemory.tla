----------------------------- MODULE DataMemory -----------------------------
(***************************************************************************)
(* What the load/store unit promises to the instruction in the execute     *)
(* stage: a memory without a cache.  Instructions arrive one at a time; a  *)
(* load is over when it is shown the value of its word, a store when its   *)
(* word holds its value, and nothing else changes memory.                  *)
(***************************************************************************)
CONSTANTS Accesses,   \* the loads and stores considered: [store, addr, value]
          None,       \* nothing to do, nothing shown
          Contents    \* what memory may hold to begin with

VARIABLES op,      \* the load or store under way, or None
          words,   \* the value of every word
          answer   \* the value shown to the load that ends, for one cycle

dataVars == <<op, words, answer>>

DataInit == /\ op = None
            /\ words \in Contents
            /\ answer = None

NextOp == op' \in Accesses \cup {None}

Arrive == /\ op = None
          /\ NextOp
          /\ answer' = None
          /\ UNCHANGED words

Wait == /\ answer' = None
        /\ UNCHANGED <<op, words>>

Load == /\ op # None /\ ~op.store
        /\ answer' = words[op.addr]
        /\ NextOp
        /\ UNCHANGED words

\* A store may reach memory before it is over.
Store == /\ op # None /\ op.store
         /\ words' = [words EXCEPT ![op.addr] = op.value]
         /\ answer' = None
         /\ op' = op \/ NextOp

DataSpec == DataInit /\ [][Wait \/ Arrive \/ Load \/ Store]_dataVars
=============================================================================
