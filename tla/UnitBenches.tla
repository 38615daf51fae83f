---------------------------- MODULE UnitBenches ----------------------------
(***************************************************************************)
(* The directed testbenches of single units under sim/: a bench is a       *)
(* script of input vectors with the outputs it expects after each.  The    *)
(* benches power a unit up in whatever state Verilator left it; here that  *)
(* is any state of its registers, so that a bench also shows its unit      *)
(* coming out of reset the same from everywhere.                           *)
(*                                                                         *)
(* The queue and the pair rules are those of FetchQueue and PairRules; the *)
(* other units, one register with its handshake each, are stated here.     *)
(***************************************************************************)
EXTENDS FetchQueue, PairRules

VARIABLES
    bench,     \* the testbench that runs
    at,        \* how many of its steps it has done
    waited,    \* ticks spent waiting in the step under way
    dut,       \* the registers of a unit stated here
    missed     \* steps whose outputs were not the expected ones

benchRunVars == <<bench, at, waited, dut, missed>>

\* A step drives the inputs, ticks the clock or only evaluates, and looks; or it
\* ticks until the unit shows a result, so often at most, and looks then.
Tick(in, want) == [in |-> in, tick |-> TRUE, limit |-> 1, want |-> want]
Eval(in, want) == [in |-> in, tick |-> FALSE, limit |-> 1, want |-> want]
Await(in, limit, want) == [in |-> in, tick |-> TRUE, limit |-> limit, want |-> want]

\* Outputs are compared where the bench names them.
Matches(out, want) == \A o \in DOMAIN want : out[o] = want[o]

----------------------------------------------------------------------------
(* idu_cop_regs.v: the request register of the coprocessor *)

CopRegsIdle == [reset |-> FALSE, issue |-> FALSE, kill |-> FALSE, dequeue |-> FALSE,
                busy |-> FALSE, req |-> "none"]

CopRegsReady(entry, in) == (entry = "none" \/ in.dequeue) /\ ~in.busy

CopRegsEdge(entry, in) ==
    LET fire == in.issue /\ CopRegsReady(entry, in)
    IN CASE in.reset \/ in.kill -> "none"
         [] ~in.reset /\ ~in.kill /\ fire -> in.req
         [] ~in.reset /\ ~in.kill /\ ~fire -> IF in.dequeue THEN "none" ELSE entry

CopRegsOut(entry, in) == [inflight |-> entry # "none", entry |-> entry,
                          ready |-> CopRegsReady(entry, in),
                          fire |-> in.issue /\ CopRegsReady(entry, in)]

\* A kill empties the register, an entry that leaves makes room in the same cycle.
CopRegsScript ==
    LET Offer(r) == [CopRegsIdle EXCEPT !.issue = TRUE, !.req = r]
        Leave(in) == [in EXCEPT !.dequeue = TRUE]
    IN << Tick([CopRegsIdle EXCEPT !.reset = TRUE], [inflight |-> FALSE, ready |-> TRUE]),
          Eval(Offer("first"), [fire |-> TRUE]),
          Tick(Offer("first"), [inflight |-> TRUE, entry |-> "first"]),
          Tick([CopRegsIdle EXCEPT !.kill = TRUE], [inflight |-> FALSE, entry |-> "none"]),
          Tick(Offer("second"), <<>>),
          Eval(Leave(Offer("third")), [fire |-> TRUE]),
          Tick(Leave(Offer("third")), [inflight |-> TRUE, entry |-> "third"]),
          Tick(Leave(CopRegsIdle), [inflight |-> FALSE]) >>

----------------------------------------------------------------------------
(* exu_wbu_regs.v and ifu_idu_regs.v: a boundary with a payload *)

Payload == {"none", "old", "new"}
Empty == [valid |-> FALSE, payload |-> "none"]
BoundaryIdle == [reset |-> FALSE, flush |-> FALSE, offer |-> FALSE, ready |-> TRUE, payload |-> "none"]

\* What is not offered when the reader is ready leaves the zero payload behind.
WbuRegsEdge(d, in) ==
    CASE in.reset \/ in.flush -> Empty
      [] ~in.reset /\ ~in.flush /\ in.ready ->
           IF in.offer THEN [valid |-> TRUE, payload |-> in.payload] ELSE Empty
      [] OTHER -> d

\* A consumed instruction leaves its payload visible.
IfuIduEdge(d, in) ==
    CASE in.reset \/ in.flush -> Empty
      [] ~in.reset /\ ~in.flush /\ in.ready ->
           IF in.offer THEN [valid |-> TRUE, payload |-> in.payload] ELSE [d EXCEPT !.valid = FALSE]
      [] OTHER -> d

WbuRegsScript ==
    LET Result == [BoundaryIdle EXCEPT !.offer = TRUE, !.payload = "old"]
    IN << Tick([BoundaryIdle EXCEPT !.reset = TRUE], <<>>),
          Tick(Result, [valid |-> TRUE, payload |-> "old"]),
          Tick([Result EXCEPT !.ready = FALSE, !.flush = TRUE], Empty) >>

\* Accepted stays until it is consumed, whatever fetch offers to a decode that waits.
IfuIduScript ==
    LET Held == [valid |-> TRUE, payload |-> "old"]
        Fetched == [BoundaryIdle EXCEPT !.offer = TRUE, !.payload = "old"]
        Miss == [BoundaryIdle EXCEPT !.payload = "new"]
        Stalled == [Miss EXCEPT !.ready = FALSE]
        StalledHit == [Stalled EXCEPT !.offer = TRUE]
    IN << Tick([BoundaryIdle EXCEPT !.reset = TRUE], <<>>),
          Tick(Fetched, Held),
          Eval(Miss, Held),
          Tick(Miss, [valid |-> FALSE]),
          Tick(Fetched, <<>>),
          Tick(Stalled, Held),
          Tick(StalledHit, Held),
          Tick([StalledHit EXCEPT !.flush = TRUE], Empty) >>

----------------------------------------------------------------------------
(* commit_visible_ctrl.v: which redirect the front end recovers from, and    *)
(* for how long.  The counter has 32 bits; the bench counts to 1.            *)

GAP == 4
Cause == {"none", "brch", "jal", "jalr"}

CommitIdle == [reset |-> FALSE, mispredict |-> FALSE, cause |-> "none", visible |-> FALSE,
               system |-> FALSE, pc_update |-> FALSE, flush_r |-> FALSE]

wbu_pc_update_fire(in) == in.visible /\ in.system
redirect_fire(in) == in.flush_r \/ in.pc_update
redirect_complete(d, in) == d.recovery /\ in.visible /\ ~redirect_fire(in)

CommitEdge(d, in) ==
    IF in.reset THEN [recovery |-> FALSE, gap |-> 0, cause |-> "none"]
    ELSE [cause |-> IF in.mispredict THEN in.cause
                    ELSE IF wbu_pc_update_fire(in) THEN "none" ELSE d.cause,
          recovery |-> redirect_fire(in) \/ (d.recovery /\ ~redirect_complete(d, in)),
          gap |-> IF redirect_fire(in) THEN 0
                  ELSE IF d.recovery /\ ~redirect_complete(d, in) THEN (d.gap + 1) % GAP ELSE d.gap]

CommitOut(d, in) == [fire |-> wbu_pc_update_fire(in), complete |-> redirect_complete(d, in),
                     recovery |-> d.recovery, gap |-> d.gap, cause |-> d.cause]

\* ecall and mret count only when they commit; the recovery ends with a commit.
CommitScript ==
    LET System == [CommitIdle EXCEPT !.system = TRUE]
        Visible(in) == [in EXCEPT !.visible = TRUE]
    IN << Tick([CommitIdle EXCEPT !.reset = TRUE], [fire |-> FALSE, recovery |-> FALSE]),
          Eval(System, [fire |-> FALSE]),
          Eval(Visible(System), [fire |-> TRUE]),
          Tick([CommitIdle EXCEPT !.mispredict = TRUE, !.cause = "brch", !.flush_r = TRUE],
               [recovery |-> TRUE, cause |-> "brch", gap |-> 0]),
          Tick(CommitIdle, [recovery |-> TRUE, gap |-> 1]),
          Eval(Visible(CommitIdle), [complete |-> TRUE]),
          Tick(Visible(CommitIdle), [recovery |-> FALSE]),
          Eval(System, [fire |-> FALSE]),
          Eval(Visible(System), [fire |-> TRUE]) >>

----------------------------------------------------------------------------
(* exu.v 160-193: what execute has done, and whether it is seen.  Execute   *)
(* holds no register that an arithmetic instruction waits for.              *)

ExuIdle == [valid |-> FALSE, unit |-> "alu", unit_done |-> FALSE, flush |-> FALSE,
            kill_pending |-> FALSE, src1 |-> 0, src2 |-> 0]

backend_done(in) == IF in.unit \in {"alu", "mul_low"} THEN in.valid ELSE in.unit_done

\* A load or store is hidden by a flush, now or while it was on its way.
backend_commit_visible(in) ==
    /\ backend_done(in)
    /\ ~in.flush
    /\ ~(in.unit = "lsu" /\ in.kill_pending)

ExuOut(in) == [post_valid |-> backend_commit_visible(in),
               pre_ready |-> in.unit = "alu" \/ backend_done(in),
               res |-> in.src1 * in.src2]

\* A flush hides the result; that the unit is done, and free, is another matter.
ExuScript ==
    LET Product == [ExuIdle EXCEPT !.valid = TRUE, !.unit = "mul_low", !.src1 = 6, !.src2 = 7]
    IN << Eval(Product, [post_valid |-> TRUE, pre_ready |-> TRUE, res |-> 42]),
          Eval([Product EXCEPT !.flush = TRUE],
               [post_valid |-> FALSE, pre_ready |-> TRUE, res |-> 42]) >>

----------------------------------------------------------------------------
(* cop_backend.v with the countdown of dummy_coprocessor.v.  Words are     *)
(* small; the illegal vtype is a bit of its own.                           *)

Vill == 128
vtype_next_value(src) == IF src \in {0, 2} THEN src ELSE Vill

CopIdle == [reset |-> FALSE, flush |-> FALSE, valid |-> FALSE, ready |-> FALSE,
            ins |-> "add", src1 |-> 0, src2 |-> 0]
CopClear == [cop_busy |-> FALSE, resp_valid |-> FALSE, resp_res |-> 0,
             busy |-> FALSE, countdown |-> 0, done |-> FALSE, latched_res |-> 0,
             pending_vtype |-> {}, vtype |-> Vill]

cop_result(d, in) == IF in.ins = "add" THEN in.src1 + in.src2 ELSE d.vtype

ToWrite(pending, old) == IF pending = {} THEN old ELSE CHOOSE v \in pending : TRUE

\* A flush forgets the request, its answer and what it would write, not vtype.
CopFlushed(d) == [CopClear EXCEPT !.vtype = d.vtype]

\* The later assignment wins: accept, then done, then the answer's leaving.
CopEdge(d, in) ==
    LET accept == in.valid /\ ~d.cop_busy /\ ~d.resp_valid
        take == in.valid /\ ~d.busy
        lands == d.busy /\ d.countdown = 1
    IN CASE in.reset -> CopClear
         [] ~in.reset /\ in.flush -> CopFlushed(d)
         [] OTHER ->
              [cop_busy |-> ~d.done /\ (accept \/ d.cop_busy),
               resp_valid |-> ~(d.resp_valid /\ in.ready) /\ (d.done \/ d.resp_valid),
               resp_res |-> IF d.done THEN d.latched_res ELSE d.resp_res,
               busy |-> take \/ (d.busy /\ ~lands),
               countdown |-> IF take THEN 2
                             ELSE IF d.busy THEN (d.countdown + 3) % 4 ELSE d.countdown,
               done |-> lands,
               latched_res |-> IF take THEN cop_result(d, in) ELSE d.latched_res,
               pending_vtype |->
                   CASE take -> IF in.ins = "vtype_write" THEN {vtype_next_value(in.src1)} ELSE {}
                     [] ~take /\ lands -> {}
                     [] OTHER -> d.pending_vtype,
               vtype |-> IF lands THEN ToWrite(d.pending_vtype, d.vtype) ELSE d.vtype]

CopOut(d) == [busy |-> d.cop_busy \/ d.resp_valid, post_valid |-> d.resp_valid,
              pre_ready |-> ~d.cop_busy /\ ~d.resp_valid, res |-> d.resp_res]

Issue(ins, src1, src2) == [CopIdle EXCEPT !.valid = TRUE, !.ins = ins, !.src1 = src1, !.src2 = src2]

\* A request is dropped before its answer, an answer before it is taken.
CopFlushScript ==
    LET Pause == Tick(CopIdle, <<>>)
        Flushed == [CopIdle EXCEPT !.flush = TRUE]
    IN << Tick([CopIdle EXCEPT !.reset = TRUE], <<>>),
          Tick(Issue("add", 3, 4), [busy |-> TRUE, post_valid |-> FALSE]),
          Tick(Flushed, [busy |-> FALSE, post_valid |-> FALSE, pre_ready |-> TRUE]),
          Tick(Issue("add", 3, 4), <<>>),
          Pause, Pause, Pause,
          Tick(CopIdle, [post_valid |-> TRUE, res |-> 7]),
          Tick(Flushed, [busy |-> FALSE, post_valid |-> FALSE]) >>

\* wait_response: at most 8 ticks to the answer, which is then taken.
WaitResponse(res) == Await(CopIdle, 8, [post_valid |-> TRUE, res |-> res])
TakeResponse == Tick([CopIdle EXCEPT !.ready = TRUE], <<>>)

\* A write to vtype that was flushed leaves no trace in the next ones' answers.
CopVtypeScript ==
    << Tick([CopIdle EXCEPT !.reset = TRUE], <<>>),
       Tick(Issue("vtype_write", 0, 0), [busy |-> TRUE]),
       Tick([CopIdle EXCEPT !.flush = TRUE], [busy |-> FALSE, post_valid |-> FALSE]),
       Tick(Issue("vtype_write", 2, 0), <<>>),
       WaitResponse(Vill), TakeResponse,
       Tick(Issue("vtype_read", 0, 0), <<>>),
       WaitResponse(2), TakeResponse >>

----------------------------------------------------------------------------
(* decode_pair_policy.v and lane1_issue_scoreboard.v: a pair and its blocks *)

Ins(k, w, d, s1, s2) == [kind |-> k, wen |-> w, rd |-> d, rs1 |-> s1, rs2 |-> s2]

Free == [ready |-> TRUE, cop |-> FALSE, flush |-> FALSE]
NothingScreened == [reasons |-> {}, alu_then_branch |-> FALSE, branch_then_alu |-> FALSE,
                    candidate |-> FALSE]

\* in: the pair's screen, whether there is one, and what keeps it back for now.
PolicyOut(in) ==
    LET passing == PassingBlocks(in.valid, in.back.ready, in.back.cop, in.back.flush)
        visible == policy_slot1_visible(in.valid, in.screen)
    IN [visible |-> in.valid,
        select |-> visible,
        allow |-> visible /\ passing = {},
        blocks |-> IF in.valid
                   THEN in.screen.reasons \cup passing
                        \cup (IF in.screen.branch_then_alu THEN {"older_branch_first"} ELSE {})
                   ELSE {}]

\* Each reason alone takes the permission away; what passes leaves the pair visible.
PolicyScript ==
    LET Clean == [NothingScreened EXCEPT !.candidate = TRUE, !.alu_then_branch = TRUE]
        Pair(screen, back) == [valid |-> TRUE, screen |-> screen, back |-> back]
        Held(back, block) == Eval(Pair(Clean, back), [allow |-> FALSE, select |-> TRUE, blocks |-> {block}])
        Against(reason) == Eval(Pair([Clean EXCEPT !.reasons = {reason}], Free),
                                [allow |-> FALSE, blocks |-> {reason}])
    IN << Eval([valid |-> FALSE, screen |-> NothingScreened, back |-> Free],
               [visible |-> FALSE, allow |-> FALSE]),
          Eval(Pair(Clean, Free), [visible |-> TRUE, allow |-> TRUE, select |-> TRUE]),
          Held([Free EXCEPT !.ready = FALSE], "downstream_busy"),
          Against("raw"), Against("waw"), Against("dual_writeback"),
          Against("exclusive_backend"), Against("redirect_control"),
          Eval(Pair([Clean EXCEPT !.alu_then_branch = FALSE, !.branch_then_alu = TRUE], Free),
               [allow |-> FALSE, blocks |-> {"older_branch_first"}]),
          Held([Free EXCEPT !.cop = TRUE], "cop_pipeline"),
          Held([Free EXCEPT !.flush = TRUE], "frontend_flush") >>

\* in: a registered pair, and what keeps it back for now.
ScoreboardOut(in) ==
    LET pair == [valid |-> TRUE, older |-> in.older, younger |-> in.younger]
        judged == Scoreboard(pair)
        passing == PassingBlocks(TRUE, in.back.ready, in.back.cop, in.back.flush)
    IN [candidate |-> judged.candidate,
        alu_then_branch |-> judged.alu_then_branch,
        branch_then_alu |-> judged.branch_then_alu,
        allow |-> scoreboard_allow_second(pair, passing = {}),
        blocks |-> judged.reasons \cup passing
                   \cup (IF judged.branch_then_alu THEN {"older_branch_first"} ELSE {})]

\* set_clean_alu_branch_pair, and one thing changed at a time.
ScoreboardScript ==
    LET Alu == Ins("alu", TRUE, 5, 0, 0)
        Branch == Ins("branch", FALSE, 0, 1, 2)
        Pair(a, b, back) == [older |-> a, younger |-> b, back |-> back]
        Refused(in, blocks) == Eval(in, [allow |-> FALSE, blocks |-> blocks])
        Blocked(in, block) == Refused(in, {block})
    IN << Eval(Pair(Alu, Branch, Free), [candidate |-> TRUE, alu_then_branch |-> TRUE, allow |-> TRUE]),
          Blocked(Pair(Alu, Ins("branch", FALSE, 0, 5, 2), Free), "raw"),
          Refused(Pair(Alu, Ins("alu", TRUE, 5, 1, 2), Free), {"waw", "dual_writeback"}),
          Blocked(Pair(Ins("unit", TRUE, 5, 0, 0), Branch, Free), "exclusive_backend"),
          Blocked(Pair(Alu, Ins("jump", FALSE, 0, 1, 2), Free), "redirect_control"),
          Blocked(Pair(Alu, Branch, [Free EXCEPT !.ready = FALSE]), "downstream_busy"),
          Blocked(Pair(Alu, Branch, [Free EXCEPT !.cop = TRUE]), "cop_pipeline"),
          Blocked(Pair(Alu, Branch, [Free EXCEPT !.flush = TRUE]), "frontend_flush"),
          Eval(Pair(Ins("branch", FALSE, 5, 0, 0), Ins("alu", TRUE, 0, 1, 2), Free),
               [branch_then_alu |-> TRUE, allow |-> FALSE, blocks |-> {"older_branch_first"}]) >>

----------------------------------------------------------------------------
(* ifu_fetch_queue.v, on the registers of FetchQueue *)

\* An entry of the queue has an address as well, here its lowest byte.
Fetched(p, k, w, d, s1, s2) == [pc |-> p, kind |-> k, wen |-> w, rd |-> d, rs1 |-> s1, rs2 |-> s2]

ins_a == Fetched(16, "alu", TRUE, 5, 6, 0)            \* addi x5, x6, 1
ins_b == Fetched(20, "branch", FALSE, 8, 1, 2)        \* beq x1, x2, 8
ins_c == Fetched(24, "unit", TRUE, 7, 4, 0)           \* lw x7, 12(x4)
ins_d == Fetched(28, "jump", FALSE, 0, 0, 0)          \* fence.i
ins_e == Fetched(32, "alu", TRUE, 1, 0, 0)            \* addi x1, x0, 1
ins_f == Fetched(36, "alu", TRUE, 2, 1, 0)            \* addi x2, x1, 1
ins_g == Fetched(40, "alu", TRUE, 2, 0, 0)            \* addi x2, x0, 2
BenchEntries == {ins_a, ins_b, ins_c, ins_d, ins_e, ins_f, ins_g}

ASSUME BenchAssumption == BenchEntries \subseteq Entry

QueueIdle == [reset |-> FALSE, flush |-> FALSE, enq |-> {}, deq |-> FALSE]
Enq(e) == [QueueIdle EXCEPT !.enq = {e}]
Deq(in) == [in EXCEPT !.deq = TRUE]
Flushing(in) == [in EXCEPT !.flush = TRUE]

\* always: reset, then flush, then what fires.
QueueBenchEdge(in) ==
    LET enq_fire == in.enq # {} /\ enq_ready(in.deq)
        deq_fire == deq_valid /\ in.deq
    IN CASE in.reset -> Reset
         [] ~in.reset /\ in.flush -> Flush
         [] ~in.reset /\ ~in.flush /\ enq_fire /\ deq_fire -> \E e \in in.enq : DequeueEnqueue(e)
         [] ~in.reset /\ ~in.flush /\ enq_fire /\ ~deq_fire -> \E e \in in.enq : EnqueueOnly(e)
         [] ~in.reset /\ ~in.flush /\ ~enq_fire /\ deq_fire -> DequeueOnly
         [] OTHER -> UNCHANGED vars

QueueOut(in) ==
    [deq_valid |-> deq_valid,
     enq_ready |-> enq_ready(in.deq),
     head |-> IF deq_valid THEN {slot[head]} ELSE {},
     pair |-> IF pair_valid THEN {PairScreen(slot[head], pair_younger)} ELSE {},
     younger |-> IF pair_valid THEN {pair_younger} ELSE {}]

\* expect_predecode, expect_pair_screen, expect_pair_younger: what is looked at at once.
Shows(e) == [deq_valid |-> TRUE, head |-> {e}]
Nothing == [deq_valid |-> FALSE, enq_ready |-> TRUE]
WantedScreen(reasons, candidate) == {[reasons |-> reasons, alu_then_branch |-> candidate,
                                      branch_then_alu |-> FALSE, candidate |-> candidate]}
Screened(reasons, candidate) == [pair |-> WantedScreen(reasons, candidate)]
ShowsPair(a, reasons, candidate, b) ==
    [deq_valid |-> TRUE, head |-> {a}, pair |-> WantedScreen(reasons, candidate), younger |-> {b}]

\* Order, back-pressure and the exchange on a full queue.
FillAndDrain ==
    << Tick([QueueIdle EXCEPT !.reset = TRUE], Nothing),
       Tick(Enq(ins_a), Shows(ins_a)),
       Tick(Enq(ins_b), [deq_valid |-> TRUE, enq_ready |-> FALSE, head |-> {ins_a},
                         pair |-> WantedScreen({}, TRUE), younger |-> {ins_b}]),
       Tick(Enq(ins_c), ShowsPair(ins_a, {}, TRUE, ins_b)),
       Tick(Deq(Enq(ins_c)), ShowsPair(ins_b, {"exclusive_backend"}, FALSE, ins_c)),
       Tick(Deq(QueueIdle), Shows(ins_c)),
       Tick(Deq(QueueIdle), [deq_valid |-> FALSE, enq_ready |-> TRUE, pair |-> {}, younger |-> {}]) >>

\* A flush of a full queue, and one on an edge that would exchange.
FlushQueue ==
    << Tick(Enq(ins_a), <<>>),
       Tick(Enq(ins_b), <<>>),
       Tick(Flushing(QueueIdle), Nothing),
       Tick(Deq(Enq(ins_a)), <<>>),
       Tick(Deq(Enq(ins_b)), <<>>),
       Tick(Flushing(Deq(Enq(ins_c))), Nothing) >>

\* Pairs that may not go together, each for its reason.
HostilePairs ==
    << Tick(Enq(ins_d), Shows(ins_d)),
       Tick(Enq(ins_e), Screened({"redirect_control"}, FALSE)),
       Tick(Deq(Enq(ins_f)), Screened({"raw", "dual_writeback"}, FALSE)),
       Tick(Deq(Enq(ins_g)), Screened({"waw", "dual_writeback"}, FALSE)) >>

----------------------------------------------------------------------------
(* Running a bench *)

Scripts == [cop_regs |-> CopRegsScript, wbu_regs |-> WbuRegsScript, ifu_idu |-> IfuIduScript,
            commit |-> CommitScript, exu |-> ExuScript, cop_flush |-> CopFlushScript,
            cop_vtype |-> CopVtypeScript, policy |-> PolicyScript,
            scoreboard |-> ScoreboardScript, queue |-> FillAndDrain \o FlushQueue \o HostilePairs]
Benches == DOMAIN Scripts

Boundary == [valid : BOOLEAN, payload : Payload]

\* The control bits a unit may power up with; benches look at data only once written.
PowerUp(b) ==
    CASE b = "cop_regs" -> {"none", "first", "second", "third"}
      [] b \in {"wbu_regs", "ifu_idu"} -> Boundary
      [] b = "commit" -> [recovery : BOOLEAN, gap : 0 .. GAP - 1, cause : Cause]
      [] b \in {"cop_flush", "cop_vtype"} ->
           {[CopClear EXCEPT !.cop_busy = c, !.resp_valid = r, !.busy = u, !.countdown = k,
                             !.done = d, !.vtype = v] :
               c \in BOOLEAN, r \in BOOLEAN, u \in BOOLEAN, d \in BOOLEAN,
               k \in 0 .. 3, v \in {0, 2, Vill}}
      [] OTHER -> {"none"}

\* The edge of the unit under bench b, and what the bench sees of it.
DutEdge(b, d, in) ==
    CASE b = "cop_regs" -> CopRegsEdge(d, in)
      [] b = "wbu_regs" -> WbuRegsEdge(d, in)
      [] b = "ifu_idu" -> IfuIduEdge(d, in)
      [] b = "commit" -> CommitEdge(d, in)
      [] b \in {"cop_flush", "cop_vtype"} -> CopEdge(d, in)
      [] OTHER -> d

DutOut(b, d, in) ==
    CASE b = "cop_regs" -> CopRegsOut(d, in)
      [] b \in {"wbu_regs", "ifu_idu"} -> d
      [] b = "commit" -> CommitOut(d, in)
      [] b = "exu" -> ExuOut(in)
      [] b \in {"cop_flush", "cop_vtype"} -> CopOut(d)
      [] b = "policy" -> PolicyOut(in)
      [] b = "scoreboard" -> ScoreboardOut(in)

UnitInit == /\ at = 0 /\ waited = 0 /\ missed = {}
            /\ bench \in Benches
            /\ dut \in PowerUp(bench)

\* The clock edge of a step, and what the bench sees after it.  A step that waits
\* looks when the answer is there or its ticks are used up.
UnitStep ==
    /\ bench \in Benches
    /\ UNCHANGED bench
    /\ at < Len(Scripts[bench])
    /\ \E step \in {Scripts[bench][at + 1]} :
          /\ dut' = IF step.tick THEN DutEdge(bench, dut, step.in) ELSE dut
          /\ IF step.tick /\ bench = "queue" THEN QueueBenchEdge(step.in) ELSE UNCHANGED vars
          /\ LET seen == IF bench = "queue" THEN QueueOut(step.in)' ELSE DutOut(bench, dut', step.in)
                 stays == step.limit > waited + 1 /\ ~seen.post_valid
             IN IF stays
                THEN waited' = waited + 1 /\ UNCHANGED <<at, missed>>
                ELSE /\ at' = at + 1
                     /\ waited' = 0
                     /\ missed' = missed \cup (IF Matches(seen, step.want) THEN {} ELSE {at + 1})

UnitBenchesEnd == /\ bench \in Benches /\ at = Len(Scripts[bench])
                  /\ UNCHANGED <<vars, benchRunVars>>

----------------------------------------------------------------------------
(* Correctness *)

\* sim/*_tb.cpp of single units: whatever a unit powers up with, reset brings it to
\* where every output the bench names is as expected, at every step of the script.
UnitBenchesPass == missed = {}
=============================================================================
