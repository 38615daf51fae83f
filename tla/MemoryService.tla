--------------------------- MODULE MemoryService ---------------------------
(***************************************************************************)
(* The memory service, vsrc/cpu/top/hcpu_memory_service.v, with its        *)
(* request slot and the multiplexer of the AXI port: the coprocessor's     *)
(* byte requests share the load/store unit's port.  The service holds one  *)
(* coprocessor request in the slot, launches it, waits for its response    *)
(* and shows the response for one cycle.                                   *)
(*                                                                         *)
(* An AXI handshake is abstracted to the set of channels on which one side *)
(* is ready; a channel fires when it is in the sets of both sides.  Data   *)
(* are abstracted to the address they belong to.                           *)
(***************************************************************************)
EXTENDS Naturals

CONSTANTS Address,   \* byte addresses the coprocessor may ask for
          None       \* no address, no request

VARIABLES cop_mem_state,     \* "idle", "launch", "wait" or "done"
          slot,              \* the request slot
          cop_mem_killed_r,  \* the request in the slot was killed
          cop_mem_done_r,    \* the response is shown this cycle
          cop_mem_rdata_r    \* what the response was read from

serviceVars == <<cop_mem_state, slot, cop_mem_killed_r, cop_mem_done_r, cop_mem_rdata_r>>

EmptySlot == [valid |-> FALSE, resp_pending |-> FALSE, store |-> FALSE,
              aw_done |-> FALSE, w_done |-> FALSE, addr |-> None]

----------------------------------------------------------------------------
(* The multiplexed port *)

\* Mutant: the response channels stay with the load/store unit.
Drives_ResponsesStay(scalar) ==
    CASE cop_mem_state = "launch" ->
           (scalar \cap {"r", "b"}) \cup
           (IF slot.store THEN {c \in {"aw", "w"} : IF c = "aw" THEN ~slot.aw_done ELSE ~slot.w_done}
                          ELSE {"ar"})
      [] OTHER -> scalar

\* Channels driven towards memory: the request channels are the coprocessor's
\* while it launches, the response channels while it waits, and otherwise they
\* follow the load/store unit.
Drives(scalar) ==
    CASE cop_mem_state = "launch" ->
           (scalar \cap {"r", "b"}) \cup
           (IF slot.store THEN {c \in {"aw", "w"} : IF c = "aw" THEN ~slot.aw_done ELSE ~slot.w_done}
                          ELSE {"ar"})
      [] cop_mem_state \in {"wait", "done"} ->
           (scalar \cap {"ar", "aw", "w"}) \cup (IF slot.store THEN {"b"} ELSE {"r"})
      [] OTHER -> scalar

\* The address follows the slot, whatever the state.
AddressOut(scalarAddr) == IF slot.valid THEN slot.addr ELSE scalarAddr

----------------------------------------------------------------------------
(* Wires *)

cop_mem_resp_valid == cop_mem_done_r /\ ~cop_mem_killed_r

mem_owner_scalar_active(scalarReq) == ~slot.valid /\ scalarReq

\* Mutant of the next: a request is taken again while its response is shown.
cop_mem_new_req_WhileDone(req, scalarReq) ==
    req # None /\ ~slot.valid /\ ~mem_owner_scalar_active(scalarReq)

cop_mem_new_req(req, scalarReq) ==
    req # None /\ ~slot.valid /\ ~cop_mem_done_r /\ ~mem_owner_scalar_active(scalarReq)

store_accepted(fires) ==
    slot.store /\ (slot.aw_done \/ slot.w_done \/ fires \cap {"aw", "w"} # {})
store_launch_done(fires) ==
    slot.store /\ (slot.aw_done \/ "aw" \in fires) /\ (slot.w_done \/ "w" \in fires)

\* The request in the slot has left for memory on this edge.
Launched(fires) == IF slot.store THEN store_launch_done(fires) ELSE "ar" \in fires

\* Mutant of the next: a store is dropped though half of it was accepted.
pre_accept_kill_HalfStore(fires) ==
    cop_mem_state = "launch" /\ IF slot.store THEN ~store_launch_done(fires)
                                              ELSE "ar" \notin fires

\* Nothing of the request in the slot has been accepted by memory yet.
pre_accept_kill(fires) ==
    cop_mem_state = "launch" /\ IF slot.store THEN ~store_accepted(fires)
                                              ELSE "ar" \notin fires

resp_wait_fire(fires) ==
    /\ cop_mem_state = "wait" /\ slot.resp_pending
    /\ IF slot.store THEN "b" \in fires ELSE "r" \in fires

slot_clear(kill, fires) == \/ cop_mem_state = "done"
                           \/ kill /\ pre_accept_kill(fires)
                           \/ cop_mem_killed_r /\ resp_wait_fire(fires)

----------------------------------------------------------------------------
(* Clock edge *)

ServiceInit == /\ cop_mem_state = "idle"
               /\ slot = EmptySlot
               /\ cop_mem_killed_r = FALSE
               /\ cop_mem_done_r = FALSE
               /\ cop_mem_rdata_r = None

\* hcpu_memory_service_request_slot.v: the done bits follow the channels of the
\* port even when nothing is in the slot; a load clears them.
SlotEdge(kill, req, scalarReq, fires) ==
    slot' = IF slot_clear(kill, fires) THEN [EmptySlot EXCEPT !.addr = slot.addr]
            ELSE IF cop_mem_new_req(req, scalarReq)
                 THEN [EmptySlot EXCEPT !.valid = TRUE, !.store = req.store, !.addr = req.addr]
            ELSE [slot EXCEPT !.resp_pending = @ \/ (cop_mem_state = "launch" /\ Launched(fires)),
                              !.aw_done = @ \/ "aw" \in fires,
                              !.w_done = @ \/ "w" \in fires]

\* A kill drops a request memory has not seen; it marks one memory has, which
\* goes on until its response is absorbed.
KillEdge(fires) ==
    /\ LET over == pre_accept_kill(fires) \/ resp_wait_fire(fires)
       IN /\ cop_mem_state' = IF over THEN "idle"
                              ELSE IF cop_mem_state = "launch" /\ Launched(fires) THEN "wait"
                              ELSE cop_mem_state
          /\ cop_mem_killed_r' = (~over /\ (cop_mem_state = "idle" => cop_mem_killed_r))
    /\ cop_mem_done_r' = FALSE
    /\ UNCHANGED cop_mem_rdata_r

Begin(req, scalarReq) ==
    /\ cop_mem_state = "idle"
    /\ cop_mem_state' = IF cop_mem_new_req(req, scalarReq) THEN "launch" ELSE "idle"
    /\ cop_mem_killed_r' = (cop_mem_killed_r /\ ~cop_mem_new_req(req, scalarReq))
    /\ cop_mem_done_r' = FALSE
    /\ UNCHANGED cop_mem_rdata_r

Launch(fires) ==
    /\ cop_mem_state = "launch"
    /\ cop_mem_state' = IF Launched(fires) THEN "wait" ELSE "launch"
    /\ cop_mem_done_r' = FALSE
    /\ UNCHANGED <<cop_mem_killed_r, cop_mem_rdata_r>>

\* Mutant of the next: a killed response is shown like any other.
Wait_KilledIsShown(fires, rdata) ==
    /\ cop_mem_state = "wait"
    /\ cop_mem_state' = IF resp_wait_fire(fires) THEN "done" ELSE "wait"
    /\ cop_mem_rdata_r' = IF resp_wait_fire(fires) THEN rdata ELSE cop_mem_rdata_r
    /\ cop_mem_done_r' = FALSE
    /\ UNCHANGED cop_mem_killed_r

Wait(fires, rdata) ==
    /\ cop_mem_state = "wait"
    /\ cop_mem_state' = IF ~resp_wait_fire(fires) THEN "wait"
                        ELSE IF cop_mem_killed_r THEN "idle" ELSE "done"
    /\ cop_mem_rdata_r' = IF resp_wait_fire(fires) THEN rdata ELSE cop_mem_rdata_r
    /\ cop_mem_done_r' = FALSE
    /\ UNCHANGED cop_mem_killed_r

Done == /\ cop_mem_state = "done"
        /\ cop_mem_state' = "idle"
        /\ cop_mem_done_r' = TRUE
        /\ cop_mem_killed_r' = FALSE
        /\ UNCHANGED cop_mem_rdata_r

ServiceEdge(kill, req, scalarReq, fires, rdata) ==
    /\ SlotEdge(kill, req, scalarReq, fires)
    /\ IF kill THEN KillEdge(fires)
       ELSE Begin(req, scalarReq) \/ Launch(fires) \/ Wait(fires, rdata) \/ Done

=============================================================================
