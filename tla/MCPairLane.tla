----------------------------- MODULE MCPairLane -----------------------------
(***************************************************************************)
(* The code's two slots, and an entry of each sort that the screens tell   *)
(* apart: what writes the register the other reads, and what does not; and *)
(* small instances of the machines beside the front end.                   *)
(***************************************************************************)
EXTENDS Machines

MCProgram == {Fetched(0, "alu", TRUE, 1, 0, 0), Fetched(4, "alu", TRUE, 0, 1, 0),
              Fetched(8, "branch", FALSE, 1, 0, 1),
              Fetched(12, "unit", TRUE, 1, 0, 1), Fetched(16, "jump", TRUE, 0, 0, 0)}

MCEntry == MCProgram \cup BenchEntries

\* An instruction of each sort, with a register to read and one to write.
Op(kind, rs, rd) == [kind |-> kind, rs |-> rs, rd |-> rd, wen |-> TRUE]

MCCode == {Op("alu", 1, 1), Op("alu", 2, 0), Op("unit", 1, 2), Op("control", 0, 1),
           Op("cop", 1, 1), Op("trap", 0, 0), Op("csrw", 1, 0), Op("csrr", 0, 1)}

\* The payload of what is not valid is not looked at, nor are the divider's
\* registers at rest, the pipe of the multiplier when it is empty, and the
\* places of a stack that nobody uses.
Shown(p) == IF p.valid THEN p ELSE NoEntry
Live == <<[i \in Slots |-> IF valid[i] THEN slot[i] ELSE NoEntry], valid, head, tail, count,
          Shown(slot1_shadow), Shown(slot1_endpoint), Shown(frontend_pair_bundle),
          Shown(pair_handoff), Shown(pair_dispatch), lane1_issue_valid, since, fail, flush_fail,
          bench, at, waited, dut, missed,
          stage, state, IF state = "IDLE" THEN << >> ELSE dividerVars,
          pipe_valid, IF pipe_valid THEN pipeVars ELSE << >>,
          registerVars, IF bench = Returns THEN returnVars ELSE << >>>>
=============================================================================
