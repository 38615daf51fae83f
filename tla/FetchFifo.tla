----------------------------- MODULE FetchFifo -----------------------------
(***************************************************************************)
(* What the fetch side promises to decode: a bounded first-in first-out    *)
(* line of fetched instructions.  Decode takes the oldest one, the fetch   *)
(* unit appends a younger one, and a flush discards them all at once.      *)
(* Full occupancy does not stop the fetch unit when decode takes an        *)
(* instruction on the same clock edge.                                     *)
(***************************************************************************)
EXTENDS Naturals, Sequences

CONSTANTS Entry,    \* what is queued: a fetched instruction with its sidecar
          DEPTH     \* the capacity, positive

VARIABLE line       \* oldest first

FifoInit == line = << >>

\* The two reasons to discard everything, a reset and a flush, look the same.
Discard == line' = << >>

Accept(e) == /\ Len(line) < DEPTH
             /\ line' = Append(line, e)

Take == /\ line # << >>
        /\ line' = Tail(line)

TakeAndAccept(e) == /\ line # << >>
                    /\ line' = Append(Tail(line), e)

FifoNext == \/ Discard
            \/ Take
            \/ \E e \in Entry : Accept(e) \/ TakeAndAccept(e)

FifoSpec == FifoInit /\ [][FifoNext]_line
=============================================================================
