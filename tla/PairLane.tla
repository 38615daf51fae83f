------------------------------ MODULE PairLane ------------------------------
(***************************************************************************)
(* The second lane behind the fetch queue.  When both slots are full, the  *)
(* two instructions are screened as a pair (ifu_fetch_queue.v 306-341,     *)
(* decode_pair_policy.v) and travel through three registers of hcpu.v,     *)
(* bundle, handoff and dispatch, to the live bit of lane 1.  Nothing of it *)
(* executes yet: it is the boundary a wider core is to be built on.        *)
(* Handoff and dispatch screen the pair again (lane1_issue_scoreboard.v).  *)
(***************************************************************************)
EXTENDS FetchQueue, PairRules

CONSTANT BARRIER                   \* bound of the count of cycles since a flush

ASSUME PairLaneAssumption ==
    /\ Entry \subseteq Instruction
    /\ \A i \in Entry : i.kind = "branch" => ~i.wen
    /\ BARRIER \in Nat /\ BARRIER >= 6   \* the longest way from a flush to lane 1

VARIABLES
    slot1_shadow, slot1_endpoint,      \* [valid, ins, fireable]
    frontend_pair_bundle,              \* [valid, older, younger, screen, allow]
    pair_handoff,                      \* the same
    pair_dispatch,                     \* [valid, older, younger]
    lane1_issue_valid,
    since                              \* history: cycles since the last flush

laneVars == <<slot1_shadow, slot1_endpoint, frontend_pair_bundle, pair_handoff,
              pair_dispatch, lane1_issue_valid, since>>

----------------------------------------------------------------------------
(* The policy of decode, over the pair in the queue *)

\* decode_pair_distinct_pc: a jump to itself fills both slots from one address.
pair_visible == pair_valid /\ slot[head].pc # pair_younger.pc
Screen == PairScreen(slot[head], pair_younger)

slot1_visible == policy_slot1_visible(pair_visible, Screen)

\* free: execute is ready and the coprocessor port is idle, in a cycle without a
\* flush; a flush overrules in every register what these would have decided.
decode_pair_allow_second(free) == slot1_visible /\ free

----------------------------------------------------------------------------
(* Clock edges *)

NoLane == [valid |-> FALSE, ins |-> NoEntry, fireable |-> FALSE]
NoPair == [valid |-> FALSE, older |-> NoEntry, younger |-> NoEntry, screen |-> NoEntry,
           allow |-> FALSE]
NoDispatch == [valid |-> FALSE, older |-> NoEntry, younger |-> NoEntry]

LaneInit == /\ slot1_shadow = NoLane
            /\ slot1_endpoint = NoLane
            /\ frontend_pair_bundle = NoPair
            /\ pair_handoff = NoPair
            /\ pair_dispatch = NoDispatch
            /\ lane1_issue_valid = FALSE
            /\ since = 0

LaneReset == /\ slot1_shadow' = NoLane
             /\ slot1_endpoint' = NoLane
             /\ frontend_pair_bundle' = NoPair
             /\ pair_handoff' = NoPair
             /\ pair_dispatch' = NoDispatch
             /\ lane1_issue_valid' = FALSE
             /\ since' = 0

Dropped(r) == [r EXCEPT !.valid = FALSE]

\* The valid bits and the marks are cleared, the payload stays.
FlushTo(handoff, dispatch) ==
    /\ slot1_shadow' = [Dropped(slot1_shadow) EXCEPT !.fireable = FALSE]
    /\ slot1_endpoint' = [Dropped(slot1_endpoint) EXCEPT !.fireable = FALSE]
    /\ frontend_pair_bundle' = [Dropped(frontend_pair_bundle) EXCEPT !.allow = FALSE]
    /\ pair_handoff' = handoff
    /\ pair_dispatch' = dispatch
    /\ lane1_issue_valid' = FALSE
    /\ since' = 0

\* Mutant: what was handed off is not flushed.
LaneFlush_KeepsHandoff == FlushTo(pair_handoff, Dropped(pair_dispatch))

\* Mutant: the payload of the dispatched pair is cleared and its valid bit stays.
LaneFlush_ClearsPayload == FlushTo([Dropped(pair_handoff) EXCEPT !.allow = FALSE],
                                   [NoDispatch EXCEPT !.valid = pair_dispatch.valid])

LaneFlush == FlushTo([Dropped(pair_handoff) EXCEPT !.allow = FALSE], Dropped(pair_dispatch))

\* The younger half alone, held until the next one; source and sink are alike.
Lane(lane, free) ==
    IF slot1_visible
    THEN [valid |-> TRUE, ins |-> pair_younger, fireable |-> decode_pair_allow_second(free)]
    ELSE lane

ShadowEdge(free) == slot1_shadow' = Lane(slot1_shadow, free)
EndpointEdge(free) == slot1_endpoint' = Lane(slot1_endpoint, free)

\* Mutant: the pair is captured only if it may go together; the mark stays set.
BundleEdge_MarkStays(free) ==
    frontend_pair_bundle' =
        IF pair_visible
        THEN [valid |-> TRUE, older |-> slot[head], younger |-> pair_younger, screen |-> Screen,
              allow |-> decode_pair_allow_second(free) \/ frontend_pair_bundle.allow]
        ELSE frontend_pair_bundle

\* Every visible pair is captured, whether or not it may go together, and
\* whether or not its elder leaves the queue on this edge.
BundleEdge(free) ==
    frontend_pair_bundle' =
        IF pair_visible
        THEN [valid |-> TRUE, older |-> slot[head], younger |-> pair_younger,
              screen |-> Screen, allow |-> decode_pair_allow_second(free)]
        ELSE frontend_pair_bundle

HandoffEdge ==
    pair_handoff' = IF frontend_pair_bundle.valid THEN frontend_pair_bundle ELSE pair_handoff

\* Only a pair the scoreboard lets through now is dispatched.
DispatchEdge(free) ==
    pair_dispatch' =
        IF scoreboard_allow_second(pair_handoff, free)
        THEN [valid |-> TRUE, older |-> pair_handoff.older, younger |-> pair_handoff.younger]
        ELSE pair_dispatch

\* Mutant: nothing but a flush takes the live bit back.
LaneOneEdge_NoKill(free) ==
    lane1_issue_valid' = (lane1_issue_valid \/ scoreboard_allow_second(pair_dispatch, free))

\* lane1_issue_accept and lane1_issue_kill: live from the cycle the dispatched pair
\* may issue to the cycle it may not.
LaneOneEdge(free) == lane1_issue_valid' = scoreboard_allow_second(pair_dispatch, free)

LaneEdge(free) ==
    /\ ShadowEdge(free)
    /\ EndpointEdge(free)
    /\ BundleEdge(free)
    /\ HandoffEdge
    /\ DispatchEdge(free)
    /\ LaneOneEdge(free)
    /\ since' = IF since < BARRIER THEN since + 1 ELSE since

\* The queue on an edge without a flush; UNCHANGED: decode and fetch both wait.
QueueEdge == \/ DequeueOnly
             \/ \E e \in Entry : EnqueueOnly(e) \/ DequeueEnqueue(e)
             \/ UNCHANGED vars

PairInit == Init /\ LaneInit

PairNext == \/ Reset /\ LaneReset
            \/ Flush /\ LaneFlush
            \/ \E free \in BOOLEAN : LaneEdge(free) /\ QueueEdge

PairSpec == PairInit /\ [][PairNext]_<<vars, laneVars>>

----------------------------------------------------------------------------
(* Correctness *)

\* Every register has a value it can hold.
PairTypeOK ==
    /\ TypeOK
    /\ \A lane \in {slot1_shadow, slot1_endpoint} : lane.valid => lane.ins \in Entry
    /\ \A p \in {frontend_pair_bundle, pair_handoff, pair_dispatch} :
          p.valid => p.older \in Entry /\ p.younger \in Entry
    /\ lane1_issue_valid \in BOOLEAN
    /\ since \in 0 .. BARRIER

\* Executing b beside a is executing it behind a: a leaves behind a register at
\* most, b goes one way or another at most, and does not read what a writes.
Independent(a, b) == /\ a.kind = "alu" /\ b.kind = "branch"
                     /\ a.wen /\ a.rd # 0 => b.rs1 # a.rd /\ b.rs2 # a.rd

\* single-owner-handoff.md:192: lane 1 is live only with a dispatched pair behind it
\* that may execute side by side.  The pair may be replaced under the live bit by
\* the next one, so that this is about every pair dispatch ever takes.
LaneOneIsSafe ==
    lane1_issue_valid => /\ pair_dispatch.valid
                         /\ Independent(pair_dispatch.older, pair_dispatch.younger)

\* hcpu.v 2270-2289: the screen taken at the queue and the scoreboard, which are
\* written apart and over different decoders' fields, judge a pair alike.
ScreensAgree ==
    pair_handoff.valid => pair_handoff.screen = Scoreboard(pair_handoff)

\* A pair marked as allowed may go together, and is shown on the branch-only
\* surface too, as long as no other pair was captured after it.
AllowedMeansIndependent ==
    /\ \A p \in {frontend_pair_bundle, pair_handoff} :
          p.allow => p.valid /\ Independent(p.older, p.younger)
    /\ frontend_pair_bundle.allow =>
          slot1_shadow = [valid |-> TRUE, ins |-> frontend_pair_bundle.younger, fireable |-> TRUE]
    /\ slot1_endpoint = slot1_shadow

\* cpu-evolution-roadmap.md:306: a flush kills every stage at once.  Refilling the queue
\* takes two cycles and each stage one more, so a stage that is valid earlier
\* would hold a pair from before the flush.
FlushIsABarrier == /\ frontend_pair_bundle.valid => since >= 3
                   /\ pair_handoff.valid => since >= 4
                   /\ pair_dispatch.valid => since >= 5
                   /\ lane1_issue_valid => since >= 6
=============================================================================
