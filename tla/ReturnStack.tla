---------------------------- MODULE ReturnStack ----------------------------
(***************************************************************************)
(* The return address stack of cpu/ifu/ras.v, driven by the calls and      *)
(* returns that reach the execute stage (cpu/exu/exu.v).                   *)
(*                                                                         *)
(* calls is what execute has seen: the return addresses of the calls not   *)
(* returned from.  It sees no instruction of a wrong path but one behind a *)
(* trap, whose call or return counts too.  A stack has DEPTH places, eight *)
(* in the code, and a program may nest deeper.  A call links x1 and a      *)
(* return links nothing, so none is both: the arm of ras.v that exchanges  *)
(* the top is never driven.                                                *)
(***************************************************************************)
EXTENDS Naturals, Sequences

CONSTANTS RAS_DEPTH,   \* places of the stack
          MAX_CALLS,   \* bound: how deep the program nests
          Address      \* return addresses

ASSUME ReturnStackAssumption == /\ RAS_DEPTH \in Nat \ {0}
                                /\ MAX_CALLS \in Nat

VARIABLES stack, wr_ptr,   \* the registers of ras.v
          calls,
          overflowed       \* a call was dropped since the program nested at all

returnVars == <<stack, wr_ptr, calls, overflowed>>

Places == 0 .. RAS_DEPTH - 1

ReturnInit == /\ stack \in [Places -> Address]
              /\ \A i, j \in Places : stack[i] = stack[j]
              /\ wr_ptr = 0
              /\ calls = << >>
              /\ overflowed = FALSE

\* Mutant of top_idx: the place the next call goes to.
top_idx_Pointer == wr_ptr % RAS_DEPTH

\* The index is the pointer less one, modulo the depth: on an empty stack, and
\* on a full one, it is the last place.
top_idx == (wr_ptr + RAS_DEPTH - 1) % RAS_DEPTH
predict_valid == wr_ptr # 0
predict_target == stack[top_idx]

\* Mutant of Push: a full stack wraps around and forgets its oldest entry.
Push_Wraps(a) == /\ stack' = [stack EXCEPT ![wr_ptr % RAS_DEPTH] = a]
                 /\ wr_ptr' = IF wr_ptr < RAS_DEPTH THEN wr_ptr + 1 ELSE wr_ptr

\* A full stack drops the address.
Push(a) == IF wr_ptr < RAS_DEPTH
           THEN /\ stack' = [stack EXCEPT ![wr_ptr] = a]
                /\ wr_ptr' = wr_ptr + 1
           ELSE UNCHANGED <<stack, wr_ptr>>

\* An empty stack stays empty.
Pop == /\ wr_ptr' = IF wr_ptr > 0 THEN wr_ptr - 1 ELSE wr_ptr
       /\ UNCHANGED stack

\* jal or jalr that links x1.
Call(a) == /\ Len(calls) < MAX_CALLS
           /\ Push(a)
           /\ calls' = Append(calls, a)
           /\ overflowed' = (overflowed \/ wr_ptr = RAS_DEPTH)

\* jalr through x1 that links nothing.  The program may also return from where
\* it was not called.
Return == /\ Pop
          /\ calls' = IF calls = << >> THEN << >> ELSE SubSeq(calls, 1, Len(calls) - 1)
          /\ overflowed' = (overflowed /\ Len(calls) > 1)

ReturnNext == (\E a \in Address : Call(a)) \/ Return

ReturnSpec == ReturnInit /\ [][ReturnNext]_returnVars

----------------------------------------------------------------------------
(* Correctness *)

\* The registers hold what fits them.
ReturnTypeOK == /\ stack \in [Places -> Address]
                /\ wr_ptr \in 0 .. RAS_DEPTH
                /\ calls \in Seq(Address)
                /\ overflowed \in BOOLEAN

\* A return fetched after every call before it has executed is predicted where
\* it goes, unless the program nested deeper than the stack since it last had no
\* call open.
ReturnIsPredicted == ~overflowed /\ calls # << >> =>
                        predict_valid /\ predict_target = calls[Len(calls)]

\* However deep it nested, what the stack holds are returns of calls still
\* open, in the order in which they will be made.
EntriesAreOpenCalls ==
    \E f \in [1 .. wr_ptr -> 1 .. Len(calls)] :
        /\ \A i, j \in 1 .. wr_ptr : i < j => f[i] < f[j]
        /\ \A i \in 1 .. wr_ptr : stack[i - 1] = calls[f[i]]
=============================================================================
