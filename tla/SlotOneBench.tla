---------------------------- MODULE SlotOneBench ----------------------------
(***************************************************************************)
(* Two testbenches of the repository as observers of the front end:        *)
(* sim/top_slot1_observability_tb.cpp, which compares every register on    *)
(* the way to lane 1 before and after each edge, and                       *)
(* sim/top_fetch_queue_flush_tb.cpp, which looks at the queue after a      *)
(* flush.  The benches run one program each; here they watch every         *)
(* behaviour of the front end.  Each collects what it complains about.     *)
(***************************************************************************)
EXTENDS PairLane

CONSTANT Program         \* the instructions of the programs the benches run

ASSUME ProgramAssumption == Program \subseteq Entry

VARIABLES fail,          \* surfaces the slot-1 bench has complained about
          flush_fail     \* what the flush bench has complained about

benchVars == <<fail, flush_fail>>

\* A complaint names the surface; the bench goes on and returns 1 at its end.
expect(condition, surface) == IF condition THEN {} ELSE {surface}

----------------------------------------------------------------------------
(* What the bench reads before the edge *)

pre_decode(flush, free) ==
    [frontend_flush |-> flush,
     slot1_valid |-> slot1_visible,
     allow_second |-> ~flush /\ decode_pair_allow_second(free),
     pair_capture |-> pair_visible /\ ~flush,
     endpoint_accept |-> slot1_visible /\ ~flush,
     slot0 |-> slot[head],
     younger |-> pair_younger,
     screen |-> IF pair_visible THEN Screen ELSE NoEntry]

pre_lanes == [shadow |-> slot1_shadow, endpoint |-> slot1_endpoint]
pre_pairs == [bundle |-> frontend_pair_bundle, handoff |-> pair_handoff]

\* Whether a registered pair may go on in this cycle.
pre_dispatch(flush, free) ==
    [handoff_fireable |-> ~flush /\ scoreboard_allow_second(pair_handoff, free),
     dispatch |-> pair_dispatch,
     fireable |-> ~flush /\ scoreboard_allow_second(pair_dispatch, free)]

pre_lane1(go) == [valid |-> lane1_issue_valid,
                  accept |-> go.fireable /\ ~lane1_issue_valid,
                  kill |-> lane1_issue_valid /\ ~go.fireable]

----------------------------------------------------------------------------
(* What it expects after the edge.  The younger instruction of a visible     *)
(* slot 1 is the queue's younger entry, and comes from another pc.           *)

expect_visible ==
    slot1_visible =>
        /\ deq_valid /\ pair_valid
        /\ simple_branch(pair_younger)
        /\ pair_younger.pc # slot[head].pc

\* One lane register: cleared by a flush, else loaded, else held.
LaneExpected(after, before, load, loaded, flush) ==
    /\ flush => ~after.valid
    /\ ~flush /\ load => after = loaded
    /\ ~flush /\ ~load /\ before.valid => after = before

expect_shadow(pre) ==
    LaneExpected(slot1_shadow', pre_lanes.shadow, pre.slot1_valid,
                 [valid |-> TRUE, ins |-> pre.younger, fireable |-> pre.allow_second],
                 pre.frontend_flush)

expect_endpoint(pre) ==
    LaneExpected(slot1_endpoint', pre_lanes.endpoint, pre.endpoint_accept,
                 [valid |-> TRUE, ins |-> pre.younger, fireable |-> pre.allow_second],
                 pre.frontend_flush)

\* A pair that is shown is captured as it is shown, with both its halves.
expect_bundle_capture(pre) ==
    ~pre.frontend_flush /\ pre.pair_capture =>
        /\ frontend_pair_bundle' = [valid |-> TRUE, older |-> pre.slot0, younger |-> pre.younger,
                                    screen |-> pre.screen, allow |-> pre.allow_second]
        /\ frontend_pair_bundle'.older.pc # frontend_pair_bundle'.younger.pc
        /\ pre.allow_second => frontend_pair_bundle'.screen.candidate

expect_bundle_hold(pre) ==
    /\ pre.frontend_flush => ~frontend_pair_bundle'.valid
    /\ ~pre.frontend_flush /\ ~pre.pair_capture /\ pre_pairs.bundle.valid
         => frontend_pair_bundle' = pre_pairs.bundle

expect_handoff_capture(pre) ==
    ~pre.frontend_flush /\ pre_pairs.bundle.valid => pair_handoff' = pre_pairs.bundle

expect_handoff_hold(pre) ==
    /\ pre.frontend_flush => ~pair_handoff'.valid
    /\ ~pre.frontend_flush /\ ~pre_pairs.bundle.valid /\ pre_pairs.handoff.valid
         => pair_handoff' = pre_pairs.handoff

expect_dispatch_capture(pre, go) ==
    ~pre.frontend_flush /\ go.handoff_fireable =>
        pair_dispatch' = [valid |-> TRUE, older |-> pre_pairs.handoff.older,
                          younger |-> pre_pairs.handoff.younger]

expect_dispatch_hold(pre, go) ==
    /\ pre.frontend_flush => ~pair_dispatch'.valid
    /\ ~pre.frontend_flush /\ ~go.handoff_fireable /\ go.dispatch.valid
         => pair_dispatch' = go.dispatch

\* The live bit falls on a flush or a kill, rises on an accept, stays otherwise,
\* and is never up without a dispatched ALU-then-branch pair.
expect_lane1(pre, lane1) ==
    /\ pre.frontend_flush \/ lane1.kill => ~lane1_issue_valid'
    /\ ~pre.frontend_flush /\ lane1.accept => lane1_issue_valid'
    /\ ~pre.frontend_flush /\ ~lane1.kill /\ lane1.valid => lane1_issue_valid'
    /\ lane1_issue_valid' => /\ pair_dispatch'.valid
                             /\ Scoreboard(pair_dispatch').candidate
                             /\ Scoreboard(pair_dispatch').alu_then_branch

----------------------------------------------------------------------------
(* The benches' loops, one round per clock cycle *)

SlotOneRound(pre, go) ==
    fail' = fail
        \cup expect(expect_visible', "visible")
        \cup expect(pre.frontend_flush => ~pre.allow_second, "flush")
        \cup expect(expect_shadow(pre), "shadow")
        \cup expect(expect_endpoint(pre), "endpoint")
        \cup expect(expect_bundle_capture(pre) /\ expect_bundle_hold(pre), "bundle")
        \cup expect(expect_handoff_capture(pre) /\ expect_handoff_hold(pre), "handoff")
        \cup expect(expect_dispatch_capture(pre, go) /\ expect_dispatch_hold(pre, go), "dispatch")
        \cup expect(expect_lane1(pre, pre_lane1(go)), "lane1")

\* After a flush the queue is empty in each of the ways it says so.
FlushRound(flush) ==
    flush_fail' = flush_fail
        \cup expect(flush => /\ count' = 0
                             /\ \A i \in Slots : ~valid'[i]
                             /\ head' = 0 /\ tail' = 0, "flush")

\* Edge is what the clock edge does between the two readings of a round.
Round(flush, free, Edge) ==
    LET pre == pre_decode(flush, free)
        go == pre_dispatch(flush, free)
    IN Edge /\ SlotOneRound(pre, go) /\ FlushRound(flush)

\* The benches start after a reset and do not look while it lasts.
BenchInit == PairInit /\ fail = {} /\ flush_fail = {}

BenchReset == Reset /\ LaneReset /\ UNCHANGED benchVars

BenchNext == \/ BenchReset
             \/ Round(TRUE, FALSE, Flush /\ LaneFlush)
             \/ \E free \in BOOLEAN :
                   Round(FALSE, free, /\ LaneEdge(free)
                                      /\ QueueEdge
                                      /\ slot' \in [Slots -> Program \cup {NoEntry}])

----------------------------------------------------------------------------
(* Correctness *)

\* top_slot1_observability_tb.cpp 633-1902: whatever the program, whenever it is
\* flushed and whenever the back end is busy, every register on the way to
\* lane 1 takes, keeps and drops exactly what the bench expects of it.
SlotOneBenchPasses == fail = {}

\* top_fetch_queue_flush_tb.cpp 248-277: no flush leaves a trace of an entry, in
\* the occupancy, in a valid bit or in a pointer.
FlushBenchPasses == flush_fail = {}
=============================================================================
