-------------------------------- MODULE Xbar --------------------------------
(***************************************************************************)
(* The interconnect, vsrc/cpu/include/Xbar.v: memory is granted to the     *)
(* fetch port or to the data port until a transaction ends, and reads of   *)
(* the timer go to a slave that always answers (Clint.v).  The data port   *)
(* comes first.                                                            *)
(***************************************************************************)
VARIABLE grant    \* IDLE, LSU_CLINT, IFU_RAM, LSU_RAM, in lower case

XbarInit == grant = "idle"

\* Mutant: a grant ends with the first beat of a burst.
ifu_ram_finish_AnyBeat(rvalid, rlast, ifu_rready) == rvalid /\ ifu_rready
ifu_ram_finish(rvalid, rlast, ifu_rready) == rvalid /\ rlast /\ ifu_rready

\* Mutant: the end of a write is not noticed.
lsu_ram_finish_ReadOnly(rvalid, rlast, bvalid, lsu_rready, lsu_bready) ==
    rvalid /\ rlast /\ lsu_rready
lsu_ram_finish(rvalid, rlast, bvalid, lsu_rready, lsu_bready) ==
    \/ bvalid /\ lsu_bready
    \/ rvalid /\ rlast /\ lsu_rready

XbarEdge(ifu_req, lsu_req, to_clint, rvalid, rlast, bvalid, ifu_rready, lsu_rready, lsu_bready) ==
    grant' = CASE grant = "idle" ->
                    IF lsu_req THEN (IF to_clint THEN "lsu_clint" ELSE "lsu_ram")
                    ELSE IF ifu_req THEN "ifu_ram" ELSE "idle"
               [] grant = "lsu_clint" -> IF lsu_rready THEN "idle" ELSE grant
               [] grant = "ifu_ram" ->
                    IF ifu_ram_finish(rvalid, rlast, ifu_rready) THEN "idle" ELSE grant
               [] grant = "lsu_ram" ->
                    IF lsu_ram_finish(rvalid, rlast, bvalid, lsu_rready, lsu_bready)
                    THEN "idle" ELSE grant

\* What a port or memory sees of the other side is gated by the grant.
ToIfu(signal) == grant = "ifu_ram" /\ signal
\* Mutant: the timer is left out of the way back to the data port.
ToLsu_RamOnly(from_ram, from_clint) == grant = "lsu_ram" /\ from_ram
ToLsu(from_ram, from_clint) == \/ grant = "lsu_ram" /\ from_ram
                               \/ grant = "lsu_clint" /\ from_clint
ToRam(from_lsu, from_ifu) == \/ grant = "lsu_ram" /\ from_lsu
                             \/ grant = "ifu_ram" /\ from_ifu
=============================================================================
