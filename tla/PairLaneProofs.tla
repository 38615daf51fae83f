--------------------------- MODULE PairLaneProofs ---------------------------
(***************************************************************************)
(* Proofs about the second lane, for every set of entries, every number of *)
(* registers and every depth of the fetch queue.                           *)
(***************************************************************************)
EXTENDS PairLane, FetchQueueProofs

\* The payload a register can hold, valid or not.
Held == Entry \cup {NoEntry}
Screens == {PairScreen(a, b) : a \in Entry, b \in Entry} \cup {NoEntry}
LaneRegister == [valid : BOOLEAN, ins : Held, fireable : BOOLEAN]
PairRegister == [valid : BOOLEAN, older : Held, younger : Held, screen : Screens,
                 allow : BOOLEAN]
DispatchRegister == [valid : BOOLEAN, older : Held, younger : Held]

LaneShape == /\ slot1_shadow \in LaneRegister
             /\ slot1_endpoint \in LaneRegister
             /\ frontend_pair_bundle \in PairRegister
             /\ pair_handoff \in PairRegister
             /\ pair_dispatch \in DispatchRegister
             /\ lane1_issue_valid \in BOOLEAN
             /\ since \in 0 .. BARRIER

\* What is valid was fetched.
LanesHoldEntries ==
    /\ slot1_shadow.valid => slot1_shadow.ins \in Entry
    /\ slot1_endpoint.valid => slot1_endpoint.ins \in Entry
    /\ frontend_pair_bundle.valid =>
          frontend_pair_bundle.older \in Entry /\ frontend_pair_bundle.younger \in Entry
    /\ pair_handoff.valid => pair_handoff.older \in Entry /\ pair_handoff.younger \in Entry
    /\ pair_dispatch.valid => pair_dispatch.older \in Entry /\ pair_dispatch.younger \in Entry

\* A captured pair keeps the screen that was taken of it.
ScreenOf(p) == p.valid => p.screen = PairScreen(p.older, p.younger)
ScreensAreTaken == ScreenOf(frontend_pair_bundle) /\ ScreenOf(pair_handoff)

\* What the live bit needs from the cycle before: only independent pairs are
\* dispatched.
DispatchIsIndependent ==
    pair_dispatch.valid => Independent(pair_dispatch.older, pair_dispatch.younger)

\* The queue gains one entry in a cycle at most, so it cannot be full before its
\* depth has passed since a flush.
QueueRefills == since < BARRIER => count <= since

LaneInv == /\ IInv
           /\ LaneShape
           /\ LanesHoldEntries
           /\ ScreensAreTaken
           /\ DispatchIsIndependent
           /\ LaneOneIsSafe
           /\ AllowedMeansIndependent
           /\ QueueRefills
           /\ FlushIsABarrier

------------------------------------------------------------------------------
(* The two screens *)

\* Queue and scoreboard judge every pair of entries alike: the reasons are put
\* together differently, the register 0 is left out in different places, and a
\* branch is known by different bits.
LEMMA ScreensAlike ==
    ASSUME NEW p, p.older \in Entry, p.younger \in Entry
    PROVE  PairScreen(p.older, p.younger) = Scoreboard(p)
<1> DEFINE a == p.older
           b == p.younger
           raw == a.wen /\ a.rd # 0 /\ a.rd \in {b.rs1, b.rs2}
           units == {a.kind, b.kind}
           reasons == (IF raw THEN {"raw"} ELSE {})
                      \cup (IF a.wen /\ b.wen THEN {"dual_writeback"} ELSE {})
                      \cup (IF a.wen /\ b.wen /\ a.rd # 0 /\ b.rd = a.rd THEN {"waw"} ELSE {})
                      \cup (IF "unit" \in units THEN {"exclusive_backend"} ELSE {})
                      \cup (IF "jump" \in units THEN {"redirect_control"} ELSE {})
<1>1. /\ a.wen \in BOOLEAN /\ b.wen \in BOOLEAN
      /\ a.kind = "branch" => ~a.wen
      /\ b.kind = "branch" => ~b.wen
  BY PairLaneAssumption DEF Instruction
<1>2. PairReasons(a, b) = reasons
  <2>1. pair_has_raw(a, b) <=> raw
    BY <1>1 DEF pair_has_raw
  <2>2. /\ pair_has_waw(a, b) <=> (a.wen /\ b.wen /\ a.rd # 0 /\ b.rd = a.rd)
        /\ (exclusive_backend(a) \/ exclusive_backend(b)) <=> "unit" \in units
        /\ (redirect_control(a) \/ redirect_control(b)) <=> "jump" \in units
    BY <1>1 DEF pair_has_waw, exclusive_backend, redirect_control
  <2> HIDE DEF raw, units
  <2> QED BY <2>1, <2>2 DEF PairReasons
<1>3. /\ pair_order_alu_then_branch(a, b) <=> simple_alu(a) /\ simple_branch(b)
      /\ pair_order_branch_then_alu(a, b) <=> simple_branch(a) /\ simple_alu(b)
  BY <1>1 DEF pair_order_alu_then_branch, pair_order_branch_then_alu, simple_alu, simple_branch
<1>4. Scoreboard(p) =
         [reasons |-> reasons,
          alu_then_branch |-> simple_alu(a) /\ simple_branch(b),
          branch_then_alu |-> simple_branch(a) /\ simple_alu(b),
          candidate |-> /\ \/ simple_alu(a) /\ simple_branch(b)
                           \/ simple_branch(a) /\ simple_alu(b)
                        /\ reasons = {}]
  BY DEF Scoreboard
<1>5. PairScreen(a, b) =
         [reasons |-> PairReasons(a, b),
          alu_then_branch |-> pair_order_alu_then_branch(a, b),
          branch_then_alu |-> pair_order_branch_then_alu(a, b),
          candidate |-> /\ pair_order_alu_then_branch(a, b) \/ pair_order_branch_then_alu(a, b)
                        /\ PairReasons(a, b) = {}]
  BY DEF PairScreen
<1> HIDE DEF reasons
<1>6. /\ pair_order_alu_then_branch(a, b) \in BOOLEAN
      /\ pair_order_branch_then_alu(a, b) \in BOOLEAN
      /\ (simple_alu(a) /\ simple_branch(b)) \in BOOLEAN
      /\ (simple_branch(a) /\ simple_alu(b)) \in BOOLEAN
  BY DEF pair_order_alu_then_branch, pair_order_branch_then_alu, simple_alu, simple_branch
<1> QED BY <1>2, <1>3, <1>4, <1>5, <1>6

\* A pair the scoreboard lets through may execute side by side.
LEMMA LetThroughIsIndependent ==
    ASSUME NEW p, p.valid \in BOOLEAN, p.valid => p.older \in Entry /\ p.younger \in Entry,
           NEW free \in BOOLEAN, scoreboard_allow_second(p, free)
    PROVE  p.valid /\ Independent(p.older, p.younger)
<1> DEFINE a == p.older
           b == p.younger
<1>1. p.valid /\ Scoreboard(p).candidate /\ ~Scoreboard(p).branch_then_alu
  BY DEF scoreboard_allow_second
<1>2. simple_alu(a) /\ simple_branch(b) /\ ~(a.wen /\ a.rd # 0 /\ a.rd \in {b.rs1, b.rs2})
  BY <1>1 DEF Scoreboard
<1> QED BY <1>1, <1>2 DEF Independent, simple_alu, simple_branch

\* A pair shown as slot 1 may, too.
LEMMA VisibleIsIndependent ==
    ASSUME NEW a \in Entry, NEW b \in Entry, NEW shown,
           policy_slot1_visible(shown, PairScreen(a, b))
    PROVE  Independent(a, b)
<1>1. PairReasons(a, b) = {} /\ pair_order_alu_then_branch(a, b)
  BY DEF policy_slot1_visible, PairScreen
<1>2. ~pair_has_raw(a, b)
  BY <1>1 DEF PairReasons
<1>3. a.wen \in BOOLEAN
  BY PairLaneAssumption DEF Instruction
<1> QED BY <1>1, <1>2, <1>3
        DEF Independent, pair_order_alu_then_branch, simple_alu, pair_has_raw

\* Of a queue that shows a pair both halves were fetched, and it has room for two.
LEMMA ShownIsFetched ==
    ASSUME IInv, pair_visible
    PROVE  slot[head] \in Entry /\ pair_younger \in Entry /\ count = DEPTH /\ DEPTH >= 2
<1>1. head \in Slots /\ Succ(head) \in Slots /\ count = DEPTH
  BY DepthAssumption DEF IInv, TypeOK, Slots, Succ, pair_visible, pair_valid
<1>2. valid[head] /\ valid[Succ(head)]
  BY <1>1, AgeType, DepthAssumption DEF IInv, WindowIsValid
<1>3. Succ(head) # head
  BY DEF pair_visible, pair_younger
<1> QED BY <1>1, <1>2, <1>3, DepthAssumption
        DEF IInv, WindowIsValid, pair_younger, Succ, Slots

------------------------------------------------------------------------------
(* Steps *)

\* Every step of the lane is a step of the queue or leaves it alone.
LEMMA QueueStep == ASSUME IInv, [PairNext]_<<vars, laneVars>> PROVE IInv'
<1>1. [Next]_vars
  BY DEF PairNext, Next, QueueEdge, vars
<1>2. TypeOK'
  BY <1>1, TypeStep DEF IInv
<1> QED BY <1>1, <1>2, PointersStep, WindowStep DEF IInv

\* What a flush makes of the registers: it clears bits and keeps the payload.
LEMMA FlushedRegisters ==
    ASSUME LaneShape, LaneFlush
    PROVE  /\ slot1_shadow' \in LaneRegister /\ ~slot1_shadow'.valid
           /\ slot1_endpoint' \in LaneRegister
           /\ slot1_endpoint = slot1_shadow => slot1_endpoint' = slot1_shadow'
           /\ frontend_pair_bundle' \in PairRegister
           /\ ~frontend_pair_bundle'.valid /\ ~frontend_pair_bundle'.allow
           /\ pair_handoff' \in PairRegister
           /\ ~pair_handoff'.valid /\ ~pair_handoff'.allow
           /\ pair_dispatch' \in DispatchRegister /\ ~pair_dispatch'.valid
           /\ lane1_issue_valid' = FALSE /\ since' = 0
<1>1. ASSUME NEW l \in LaneRegister
      PROVE  LET m == [Dropped(l) EXCEPT !.fireable = FALSE]
             IN m \in LaneRegister /\ m.valid = FALSE
  <2>1. Dropped(l) \in LaneRegister /\ Dropped(l).valid = FALSE
    BY DEF LaneRegister, Dropped
  <2> QED BY <2>1 DEF LaneRegister
<1>2. ASSUME NEW p \in PairRegister
      PROVE  LET q == [Dropped(p) EXCEPT !.allow = FALSE]
             IN q \in PairRegister /\ q.valid = FALSE /\ q.allow = FALSE
  <2>1. Dropped(p) \in PairRegister /\ Dropped(p).valid = FALSE
    BY DEF PairRegister, Dropped
  <2> QED BY <2>1 DEF PairRegister
<1>3. ASSUME NEW p \in DispatchRegister
      PROVE  Dropped(p) \in DispatchRegister /\ Dropped(p).valid = FALSE
  BY DEF DispatchRegister, Dropped
<1> QED BY <1>1, <1>2, <1>3 DEF LaneFlush, FlushTo, LaneShape

\* With every register empty, and the count of cycles at 0, all of it holds.
LEMMA EmptyLaneHolds ==
    ASSUME LaneShape, IInv, count = 0,
           ~slot1_shadow.valid, slot1_endpoint = slot1_shadow,
           ~frontend_pair_bundle.valid, ~frontend_pair_bundle.allow,
           ~pair_handoff.valid, ~pair_handoff.allow,
           ~pair_dispatch.valid, ~lane1_issue_valid, since = 0
    PROVE  LaneInv
BY DEF LaneInv, LanesHoldEntries, ScreensAreTaken, ScreenOf, DispatchIsIndependent,
       LaneOneIsSafe, AllowedMeansIndependent, QueueRefills, FlushIsABarrier

\* The registers after reset fit their types.
LEMMA EmptyRegisters ==
    NoLane \in LaneRegister /\ NoPair \in PairRegister /\ NoDispatch \in DispatchRegister
<1>1. NoEntry \in Held /\ NoEntry \in Screens
  BY DEF Held, Screens
<1> QED BY <1>1 DEF NoLane, NoPair, NoDispatch, LaneRegister, PairRegister, DispatchRegister

\* So after a reset.
LEMMA ResetHolds ==
    ASSUME IInv', Reset, LaneReset
    PROVE  LaneInv'
<1>1. LaneShape'
  <2>1. /\ slot1_shadow' \in LaneRegister /\ slot1_endpoint' \in LaneRegister
        /\ frontend_pair_bundle' \in PairRegister /\ pair_handoff' \in PairRegister
        /\ pair_dispatch' \in DispatchRegister
    BY EmptyRegisters DEF LaneReset
  <2>2. lane1_issue_valid' \in BOOLEAN
    BY DEF LaneReset
  <2>3. since' = 0 /\ BARRIER \in Nat
    BY PairLaneAssumption DEF LaneReset
  <2>4. since' \in 0 .. BARRIER
    BY <2>3
  <2> QED BY <2>1, <2>2, <2>4 DEF LaneShape
<1>2. /\ count' = 0 /\ ~slot1_shadow.valid' /\ (slot1_endpoint = slot1_shadow)'
      /\ ~frontend_pair_bundle.valid' /\ ~frontend_pair_bundle.allow'
      /\ ~pair_handoff.valid' /\ ~pair_handoff.allow'
      /\ ~pair_dispatch.valid' /\ ~lane1_issue_valid' /\ since' = 0
  BY DEF Reset, LaneReset, NoLane, NoPair, NoDispatch
<1> QED BY <1>1, <1>2
        DEF LaneInv, LanesHoldEntries, ScreensAreTaken, ScreenOf, DispatchIsIndependent,
            LaneOneIsSafe, AllowedMeansIndependent, QueueRefills, FlushIsABarrier

\* And after a flush, whatever payload it leaves behind.
LEMMA FlushHolds ==
    ASSUME LaneInv, IInv', Flush, LaneFlush
    PROVE  LaneInv'
<1>1. LaneShape
  BY DEF LaneInv
<1>2. LaneShape'
  BY <1>1, FlushedRegisters, PairLaneAssumption DEF LaneShape
<1>3. /\ count' = 0 /\ ~slot1_shadow.valid' /\ (slot1_endpoint = slot1_shadow)'
      /\ ~frontend_pair_bundle.valid' /\ ~frontend_pair_bundle.allow'
      /\ ~pair_handoff.valid' /\ ~pair_handoff.allow'
      /\ ~pair_dispatch.valid' /\ ~lane1_issue_valid' /\ since' = 0
  BY <1>1, FlushedRegisters DEF Flush, LaneInv, AllowedMeansIndependent
<1> QED BY <1>2, <1>3
        DEF LaneInv, LanesHoldEntries, ScreensAreTaken, ScreenOf, DispatchIsIndependent,
            LaneOneIsSafe, AllowedMeansIndependent, QueueRefills, FlushIsABarrier

------------------------------------------------------------------------------
(* An edge without a flush *)

\* What the queue shows is screened and captured; nothing that is not a fetched
\* pair gets in.
LEMMA EdgeKeepsShape ==
    ASSUME LaneInv, NEW free \in BOOLEAN, LaneEdge(free)
    PROVE  LaneShape' /\ LanesHoldEntries' /\ ScreensAreTaken'
<1> USE DEF LaneInv
<1>0. /\ slot1_visible => pair_visible
      /\ pair_visible => slot[head] \in Entry /\ pair_younger \in Entry
      /\ slot1_visible \in BOOLEAN /\ decode_pair_allow_second(free) \in BOOLEAN
  BY ShownIsFetched DEF slot1_visible, policy_slot1_visible, decode_pair_allow_second
<1>1. ASSUME NEW l \in LaneRegister, l.valid => l.ins \in Entry
      PROVE  Lane(l, free) \in LaneRegister
             /\ (Lane(l, free).valid => Lane(l, free).ins \in Entry)
  BY <1>0, <1>1 DEF Lane, LaneRegister, Held
<1>2. /\ slot1_shadow' \in LaneRegister /\ slot1_endpoint' \in LaneRegister
      /\ slot1_shadow'.valid => slot1_shadow'.ins \in Entry
      /\ slot1_endpoint'.valid => slot1_endpoint'.ins \in Entry
  BY <1>1 DEF LaneEdge, ShadowEdge, EndpointEdge, LaneShape, LanesHoldEntries
<1>3. /\ frontend_pair_bundle' \in PairRegister
      /\ frontend_pair_bundle'.valid => /\ frontend_pair_bundle'.older \in Entry
                                        /\ frontend_pair_bundle'.younger \in Entry
      /\ ScreenOf(frontend_pair_bundle')
  <2>1. CASE pair_visible
    <3>1. Screen \in Screens
      BY <1>0, <2>1 DEF Screen, Screens
    <3>2. frontend_pair_bundle' =
            [valid |-> TRUE, older |-> slot[head], younger |-> pair_younger,
             screen |-> Screen, allow |-> decode_pair_allow_second(free)]
      BY <2>1 DEF LaneEdge, BundleEdge
    <3> QED BY <1>0, <2>1, <3>1, <3>2 DEF PairRegister, Held, ScreenOf, Screen
  <2>2. CASE ~pair_visible
    BY <2>2 DEF LaneEdge, BundleEdge, LaneShape, LanesHoldEntries, ScreensAreTaken
  <2> QED BY <2>1, <2>2
<1>4. /\ pair_handoff' \in PairRegister
      /\ pair_handoff'.valid => pair_handoff'.older \in Entry /\ pair_handoff'.younger \in Entry
      /\ ScreenOf(pair_handoff')
  BY DEF LaneEdge, HandoffEdge, LaneShape, LanesHoldEntries, ScreensAreTaken
<1>5. /\ pair_dispatch' \in DispatchRegister
      /\ pair_dispatch'.valid => pair_dispatch'.older \in Entry /\ pair_dispatch'.younger \in Entry
  <2>1. CASE scoreboard_allow_second(pair_handoff, free)
    <3>1. pair_handoff.valid
      BY <2>1 DEF scoreboard_allow_second
    <3> QED BY <2>1, <3>1
            DEF LaneEdge, DispatchEdge, LanesHoldEntries, DispatchRegister, Held
  <2>2. CASE ~scoreboard_allow_second(pair_handoff, free)
    BY <2>2 DEF LaneEdge, DispatchEdge, LaneShape, LanesHoldEntries
  <2> QED BY <2>1, <2>2
<1>6. lane1_issue_valid' \in BOOLEAN
  BY DEF LaneEdge, LaneOneEdge, scoreboard_allow_second, Scoreboard
<1>7. since' \in 0 .. BARRIER
  BY PairLaneAssumption DEF LaneEdge, LaneShape
<1>8. LaneShape'
  BY <1>2, <1>3, <1>4, <1>5, <1>6, <1>7 DEF LaneShape
<1>9. LanesHoldEntries'
  BY <1>2, <1>3, <1>4, <1>5 DEF LanesHoldEntries
<1> QED BY <1>3, <1>4, <1>8, <1>9 DEF ScreensAreTaken, ScreenOf

\* What becomes live was let through a cycle ago, and what is let through is
\* independent.
LEMMA EdgeKeepsLaneSafe ==
    ASSUME LaneInv, NEW free \in BOOLEAN, LaneEdge(free)
    PROVE  DispatchIsIndependent' /\ LaneOneIsSafe'
<1> USE DEF LaneInv
<1>1. ASSUME scoreboard_allow_second(pair_handoff, free)
      PROVE  Independent(pair_handoff.older, pair_handoff.younger)
  BY <1>1, LetThroughIsIndependent DEF LaneShape, PairRegister, LanesHoldEntries
<1>2. DispatchIsIndependent'
  <2>1. CASE scoreboard_allow_second(pair_handoff, free)
    BY <1>1, <2>1 DEF LaneEdge, DispatchEdge, DispatchIsIndependent
  <2>2. CASE ~scoreboard_allow_second(pair_handoff, free)
    BY <2>2 DEF LaneEdge, DispatchEdge, DispatchIsIndependent
  <2> QED BY <2>1, <2>2
<1>3. lane1_issue_valid' => pair_dispatch'.valid
  <2>1. lane1_issue_valid' => pair_dispatch.valid
    BY DEF LaneEdge, LaneOneEdge, scoreboard_allow_second
  <2> QED BY <2>1 DEF LaneEdge, DispatchEdge
<1> QED BY <1>2, <1>3 DEF LaneOneIsSafe, DispatchIsIndependent

\* A mark is set only with a pair that is shown as slot 1 on the same edge.
LEMMA EdgeKeepsMarks ==
    ASSUME LaneInv, NEW free \in BOOLEAN, LaneEdge(free)
    PROVE  AllowedMeansIndependent'
<1> USE DEF LaneInv
<1>1. slot1_endpoint' = slot1_shadow'
  BY DEF LaneEdge, ShadowEdge, EndpointEdge, AllowedMeansIndependent
<1>2. pair_handoff'.allow =>
        pair_handoff'.valid /\ Independent(pair_handoff'.older, pair_handoff'.younger)
  BY DEF LaneEdge, HandoffEdge, AllowedMeansIndependent
<1>3. frontend_pair_bundle'.allow =>
        /\ frontend_pair_bundle'.valid
        /\ Independent(frontend_pair_bundle'.older, frontend_pair_bundle'.younger)
        /\ slot1_shadow' = [valid |-> TRUE, ins |-> frontend_pair_bundle'.younger,
                            fireable |-> TRUE]
  <2>1. CASE pair_visible
    <3>1. frontend_pair_bundle' =
            [valid |-> TRUE, older |-> slot[head], younger |-> pair_younger,
             screen |-> Screen, allow |-> decode_pair_allow_second(free)]
      BY <2>1 DEF LaneEdge, BundleEdge
    <3> SUFFICES ASSUME decode_pair_allow_second(free)
                 PROVE  /\ Independent(slot[head], pair_younger)
                        /\ slot1_shadow' = [valid |-> TRUE, ins |-> pair_younger,
                                            fireable |-> TRUE]
      BY <3>1
    <3>2. slot1_visible
      BY DEF decode_pair_allow_second
    <3>3. Independent(slot[head], pair_younger)
      BY <2>1, <3>2, ShownIsFetched, VisibleIsIndependent DEF slot1_visible, Screen
    <3>4. decode_pair_allow_second(free) = TRUE
      BY DEF decode_pair_allow_second, slot1_visible, policy_slot1_visible
    <3> QED BY <3>2, <3>3, <3>4 DEF LaneEdge, ShadowEdge, Lane
  <2>2. CASE ~pair_visible
    <3>1. frontend_pair_bundle' = frontend_pair_bundle
      BY <2>2 DEF LaneEdge, BundleEdge
    <3>2. slot1_shadow' = slot1_shadow
      BY <2>2 DEF LaneEdge, ShadowEdge, Lane, slot1_visible, policy_slot1_visible
    <3> QED BY <3>1, <3>2 DEF AllowedMeansIndependent
  <2> QED BY <2>1, <2>2
<1> QED BY <1>1, <1>2, <1>3 DEF AllowedMeansIndependent

\* Each stage is a cycle later than the one before it.
LEMMA EdgeKeepsBarrier ==
    ASSUME LaneInv, NEW free \in BOOLEAN, LaneEdge(free), QueueEdge
    PROVE  QueueRefills' /\ FlushIsABarrier'
<1> USE DEF LaneInv
<1>1. /\ since \in 0 .. BARRIER /\ BARRIER \in Nat /\ BARRIER >= 6
      /\ count \in Nat /\ DEPTH \in Nat
      /\ since' = IF since < BARRIER THEN since + 1 ELSE since
  BY PairLaneAssumption, DepthAssumption DEF LaneShape, IInv, TypeOK, LaneEdge
<1>2. count' \in Int /\ count' <= count + 1
  <2>1. \/ count' = count - 1
        \/ count' = count + 1
        \/ count' = count
    BY DEF QueueEdge, DequeueOnly, EnqueueOnly, DequeueEnqueue, vars
  <2> QED BY <1>1, <2>1
<1>3. QueueRefills'
  BY <1>1, <1>2 DEF QueueRefills
<1>4. frontend_pair_bundle'.valid => since' >= 3
  <2>1. CASE pair_visible
    <3>1. count >= 2
      BY <1>1, <2>1, ShownIsFetched
    <3> QED BY <1>1, <3>1 DEF QueueRefills
  <2>2. CASE ~pair_visible
    <3>1. frontend_pair_bundle' = frontend_pair_bundle
      BY <2>2 DEF LaneEdge, BundleEdge
    <3> QED BY <1>1, <3>1 DEF FlushIsABarrier
  <2> QED BY <2>1, <2>2
<1>5. pair_handoff'.valid => since' >= 4
  <2>1. pair_handoff'.valid => frontend_pair_bundle.valid \/ pair_handoff.valid
    BY DEF LaneEdge, HandoffEdge
  <2> QED BY <1>1, <2>1 DEF FlushIsABarrier
<1>6. pair_dispatch'.valid => since' >= 5
  <2>1. pair_dispatch'.valid => pair_handoff.valid \/ pair_dispatch.valid
    BY DEF LaneEdge, DispatchEdge, scoreboard_allow_second
  <2> QED BY <1>1, <2>1 DEF FlushIsABarrier
<1>7. lane1_issue_valid' => since' >= 6
  <2>1. lane1_issue_valid' => pair_dispatch.valid
    BY DEF LaneEdge, LaneOneEdge, scoreboard_allow_second
  <2> QED BY <1>1, <2>1 DEF FlushIsABarrier
<1> QED BY <1>3, <1>4, <1>5, <1>6, <1>7 DEF FlushIsABarrier

------------------------------------------------------------------------------
(* The invariant *)

\* Every step keeps the invariant: reset and flush by emptying the lane, an edge
\* by its three parts.
LEMMA LaneStep == ASSUME LaneInv, [PairNext]_<<vars, laneVars>> PROVE LaneInv'
<1>0. IInv'
  BY QueueStep DEF LaneInv
<1>1. CASE Reset /\ LaneReset
  BY <1>0, <1>1, ResetHolds
<1>2. CASE Flush /\ LaneFlush
  BY <1>0, <1>2, FlushHolds
<1>3. ASSUME NEW free \in BOOLEAN, LaneEdge(free), QueueEdge PROVE LaneInv'
  <2>1. LaneShape' /\ LanesHoldEntries' /\ ScreensAreTaken'
    BY <1>3, EdgeKeepsShape
  <2>2. DispatchIsIndependent' /\ LaneOneIsSafe'
    BY <1>3, EdgeKeepsLaneSafe
  <2>3. AllowedMeansIndependent'
    BY <1>3, EdgeKeepsMarks
  <2>4. QueueRefills' /\ FlushIsABarrier'
    BY <1>3, EdgeKeepsBarrier
  <2> QED BY <1>0, <2>1, <2>2, <2>3, <2>4 DEF LaneInv
<1>4. CASE UNCHANGED <<vars, laneVars>>
  BY <1>0, <1>4
     DEF vars, laneVars, LaneInv, LaneShape, LanesHoldEntries, ScreensAreTaken, ScreenOf,
         DispatchIsIndependent, LaneOneIsSafe, AllowedMeansIndependent, QueueRefills,
         FlushIsABarrier
<1> QED BY <1>1, <1>2, <1>3, <1>4 DEF PairNext

\* The lane starts in the invariant.
LEMMA LaneInitHolds == PairInit => LaneInv
<1> SUFFICES ASSUME PairInit PROVE LaneInv
  OBVIOUS
<1>1. IInv
  BY DepthAssumption
     DEF PairInit, Init, IInv, TypeOK, PointersAgree, WindowIsValid, Nth, Age, Slots
<1>2. LaneShape
  <2>1. /\ slot1_shadow \in LaneRegister /\ slot1_endpoint \in LaneRegister
        /\ frontend_pair_bundle \in PairRegister /\ pair_handoff \in PairRegister
        /\ pair_dispatch \in DispatchRegister
    BY EmptyRegisters DEF PairInit, LaneInit
  <2>2. lane1_issue_valid \in BOOLEAN
    BY DEF PairInit, LaneInit
  <2>3. since = 0 /\ BARRIER \in Nat
    BY PairLaneAssumption DEF PairInit, LaneInit
  <2>4. since \in 0 .. BARRIER
    BY <2>3
  <2> QED BY <2>1, <2>2, <2>4 DEF LaneShape
<1> QED BY <1>1, <1>2, EmptyLaneHolds
        DEF PairInit, Init, LaneInit, NoLane, NoPair, NoDispatch

\* Every behaviour of the lane, on any program.
THEOREM LaneInvariant == PairSpec => []LaneInv
BY LaneInitHolds, LaneStep, PTL DEF PairSpec

\* Every register of queue and lane has a value it can hold, and what is valid
\* was fetched.
THEOREM PairTypeCorrect == PairSpec => []PairTypeOK
<1>1. LaneInv => PairTypeOK
  BY DEF LaneInv, IInv, LaneShape, LanesHoldEntries, PairTypeOK
<1> QED BY <1>1, LaneInvariant, PTL

\* Lane 1 is live only with an independent pair behind it.
THEOREM LaneOneIsAlwaysSafe == PairSpec => []LaneOneIsSafe
BY LaneInvariant, PTL DEF LaneInv

\* The screen of the queue and the scoreboard never disagree on a pair handed on.
THEOREM ScreensAlwaysAgree == PairSpec => []ScreensAgree
<1>1. LaneInv => ScreensAgree
  BY ScreensAlike DEF LaneInv, LanesHoldEntries, ScreensAreTaken, ScreenOf, ScreensAgree
<1> QED BY <1>1, LaneInvariant, PTL

\* A mark never outlives what it was set for.
THEOREM AllowedAlwaysMeansIndependent == PairSpec => []AllowedMeansIndependent
BY LaneInvariant, PTL DEF LaneInv

\* No stage holds a pair sooner after a flush than the pair can have got there.
THEOREM FlushIsAlwaysABarrier == PairSpec => []FlushIsABarrier
BY LaneInvariant, PTL DEF LaneInv
=============================================================================
