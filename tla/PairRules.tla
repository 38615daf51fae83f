----------------------------- MODULE PairRules -----------------------------
(***************************************************************************)
(* Which two neighbouring instructions may go side by side, as the fetch   *)
(* queue judges them (ifu_fetch_queue.v 306-341), as decode does            *)
(* (decode_pair_policy.v), and once more when they are registered          *)
(* (lane1_issue_scoreboard.v).                                             *)
(***************************************************************************)
EXTENDS Integers

CONSTANT Reg                       \* registers; 0 reads as zero

Kind == {"alu", "csr", "branch", "jump", "unit"}
Instruction == [pc : Nat, kind : Kind, wen : BOOLEAN, rd : Reg, rs1 : Reg, rs2 : Reg]

----------------------------------------------------------------------------
(* The screen of the fetch queue, over the predecoded pair a, b *)

exclusive_backend(i) == i.kind = "unit"
redirect_control(i) == i.kind = "jump"
simple_alu(i) == i.kind = "alu"

\* Mutant of the next: the second source of the younger is not compared.
pair_has_raw_OneSource(a, b) == a.wen /\ a.rd # 0 /\ b.rs1 # 0 /\ b.rs1 = a.rd

pair_has_raw(a, b) == a.wen /\ a.rd # 0 /\ \/ b.rs1 # 0 /\ b.rs1 = a.rd
                                           \/ b.rs2 # 0 /\ b.rs2 = a.rd
pair_has_waw(a, b) == a.wen /\ b.wen /\ a.rd # 0 /\ a.rd = b.rd

\* What stands against a pair: data, a unit there is one of, a redirect.
PairReasons(a, b) ==
    (IF pair_has_raw(a, b) THEN {"raw"} ELSE {})
    \cup (IF pair_has_waw(a, b) THEN {"waw"} ELSE {})
    \cup (IF a.wen /\ b.wen THEN {"dual_writeback"} ELSE {})
    \cup (IF exclusive_backend(a) \/ exclusive_backend(b) THEN {"exclusive_backend"} ELSE {})
    \cup (IF redirect_control(a) \/ redirect_control(b) THEN {"redirect_control"} ELSE {})

pair_order_alu_then_branch(a, b) == simple_alu(a) /\ b.kind = "branch"
pair_order_branch_then_alu(a, b) == a.kind = "branch" /\ simple_alu(b)

PairScreen(a, b) ==
    LET reasons == PairReasons(a, b)
    IN [reasons |-> reasons,
        alu_then_branch |-> pair_order_alu_then_branch(a, b),
        branch_then_alu |-> pair_order_branch_then_alu(a, b),
        candidate |-> /\ pair_order_alu_then_branch(a, b) \/ pair_order_branch_then_alu(a, b)
                      /\ reasons = {}]

----------------------------------------------------------------------------
(* The policy of decode, over the screen *)

\* s: the screen of a pair.  What stands against a pair counts whatever the screen
\* concludes from it; the younger is shown as a branch whether or not it may go.
policy_slot1_visible(valid, s) == /\ valid
                                  /\ s.candidate /\ s.reasons = {}
                                  /\ s.alu_then_branch /\ ~s.branch_then_alu

\* What keeps a pair back for now: o_block_downstream_busy, _cop_pipeline, _frontend_flush.
PassingBlocks(valid, ready, cop, flush) ==
    (IF valid /\ ~ready THEN {"downstream_busy"} ELSE {})
    \cup (IF valid /\ cop THEN {"cop_pipeline"} ELSE {})
    \cup (IF valid /\ flush THEN {"frontend_flush"} ELSE {})

----------------------------------------------------------------------------
(* The scoreboard, over a registered pair *)

simple_branch(i) == i.kind = "branch" /\ ~i.wen

\* Mutant: the older branch is let through.
Scoreboard_EitherOrder(p) ==
    LET a == p.older
        b == p.younger
        reasons == PairReasons(a, b)
    IN [reasons |-> reasons,
        alu_then_branch |-> (simple_alu(a) \/ simple_branch(a)) /\ b.kind \in {"alu", "branch"},
        branch_then_alu |-> FALSE,
        candidate |-> reasons = {}]

\* block_raw compares register numbers without asking whether the younger's is 0.
Scoreboard(p) ==
    LET a == p.older
        b == p.younger
        raw == a.wen /\ a.rd # 0 /\ a.rd \in {b.rs1, b.rs2}
        units == {a.kind, b.kind}
        reasons == (IF raw THEN {"raw"} ELSE {})
                   \cup (IF a.wen /\ b.wen THEN {"dual_writeback"} ELSE {})
                   \cup (IF a.wen /\ b.wen /\ a.rd # 0 /\ b.rd = a.rd THEN {"waw"} ELSE {})
                   \cup (IF "unit" \in units THEN {"exclusive_backend"} ELSE {})
                   \cup (IF "jump" \in units THEN {"redirect_control"} ELSE {})
        shape == \/ simple_alu(a) /\ simple_branch(b)
                 \/ simple_branch(a) /\ simple_alu(b)
    IN [reasons |-> reasons,
        alu_then_branch |-> simple_alu(a) /\ simple_branch(b),
        branch_then_alu |-> simple_branch(a) /\ simple_alu(b),
        candidate |-> shape /\ reasons = {}]

scoreboard_allow_second(p, free) ==
    p.valid /\ Scoreboard(p).candidate /\ ~Scoreboard(p).branch_then_alu /\ free
=============================================================================
