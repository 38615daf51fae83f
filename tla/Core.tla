-------------------------------- MODULE Core --------------------------------
(***************************************************************************)
(* The scalar pipeline of HelloCPU with its coprocessor port, as wired in  *)
(* vsrc/cpu/top/hcpu.v: fetch, the fetch queue, the decode register, the   *)
(* execute stage with its multi-cycle units, the write-back register and   *)
(* the write-back stage, and the two redirects that can move the fetch     *)
(* program counter.                                                        *)
(*                                                                         *)
(* A step is one clock edge: every register takes its next value from the  *)
(* wires of the cycle that ends.  The wires that other parts of the system *)
(* decide (instruction cache hit, prediction, branch outcome, completion   *)
(* of a multi-cycle unit) are the parameters of Cycle.                     *)
(*                                                                         *)
(* Instructions are abstracted to what the control distinguishes: an op    *)
(* and an address it may go to.  Results are abstracted to the instruction *)
(* they were computed for.                                                 *)
(***************************************************************************)
EXTENDS Naturals, Sequences

CONSTANTS LAST_PC,    \* the highest instruction address, in units of four bytes
          RESET_PC,   \* where fetch starts
          Programs,   \* the instruction memories considered
          DEPTH,      \* slots of the fetch queue
          NotTaken,   \* the prediction of a fall-through
          None        \* an empty register

Ops == {"alu", "load", "store", "div", "branch", "jal", "jalr",
        "trap", "cop", "fence_i"}

PC == 0 .. LAST_PC

Instruction == [op : Ops, to : PC]

ASSUME CoreAssumption ==
    /\ LAST_PC \in Nat
    /\ RESET_PC \in PC
    /\ Programs \subseteq [PC -> Instruction]
    /\ DEPTH \in Nat \ {0}
    /\ None \notin PC
    /\ NotTaken \notin PC

VARIABLES
    prog,           \* instruction memory, never written
    pc_next,        \* fetch program counter
    line,           \* fetch queue, oldest first (module FetchQueue)
    ex,             \* decode/execute register: an entry, or None
    lsu, div,       \* the instruction a multi-cycle unit works for, or None
    lsu_kill_pending,
    cop,            \* the coprocessor request in flight: [pc, resp], or None
    wb,             \* execute/write-back register: [pc, op, next], or None
    pc_update,      \* target of the redirect write-back is raising, or None
    flush_r,        \* exu_mispredict_flush_r
    mispredict_latched,
    apc, reg, mem   \* what software sees (see InOrderCore)

frontVars == <<pc_next, line, ex>>
unitVars == <<lsu, div, lsu_kill_pending, cop>>
backVars == <<wb, pc_update, flush_r, mispredict_latched>>
softVars == <<apc, reg, mem>>
vars == <<prog, frontVars, unitVars, backVars, softVars>>

\* pc + 4; the address space wraps.
Seq4(p) == IF p = LAST_PC THEN 0 ELSE p + 1
Op(p) == prog[p].op

Entry == [pc : PC, pred : PC \cup {NotTaken}]

\* What the other registers hold when they are not empty.
Request == [pc : PC, resp : BOOLEAN]
Retired == [pc : PC, op : Ops, next : PC]

ASSUME NoneAssumption == None \notin Entry \cup Request \cup Retired

----------------------------------------------------------------------------
(* Fetch *)

\* Conditional branches and returns are predicted from tables (BTB, return
\* stack) that may hold anything; a direct jump from its own bits; every other
\* instruction, whatever the tables say of its address, falls through.
Predictions(p) == CASE Op(p) \in {"branch", "jalr"} -> PC \cup {NotTaken}
                    [] Op(p) = "jal"                -> {prog[p].to}
                    [] OTHER                        -> {NotTaken}

PredictedNext(e) == IF e.pred = NotTaken THEN Seq4(e.pc) ELSE e.pred

----------------------------------------------------------------------------
(* Execute: wires of the current cycle *)

ExOp == IF ex = None THEN "none" ELSE Op(ex.pc)
InLsu == ExOp \in {"load", "store"}

cop_pipeline_active == cop # None \/ ExOp = "cop"
cop_issue == ExOp = "cop" /\ cop = None
cop_commit_fire == cop # None /\ cop.resp
scalar_issue == ex # None /\ ~cop_pipeline_active

\* Mutant: the stage does not wait for the divider.
scalar_ready_DivIgnored(lsuDone, divDone) == CASE InLsu        -> lsuDone
                                               [] ExOp = "cop" -> FALSE
                                               [] OTHER        -> TRUE

\* Readiness of the scalar execute stage, then of the stage as decode sees it.
scalar_ready(lsuDone, divDone) == CASE InLsu        -> lsuDone
                                    [] ExOp = "div" -> divDone
                                    [] ExOp = "cop" -> FALSE
                                    [] OTHER        -> TRUE
\* Mutant of exu2idu_ready: a coprocessor instruction leaves as it is issued.
exu2idu_ready_CopLeaves(lsuDone, divDone) ==
    scalar_ready(lsuDone, divDone) \/ ExOp = "cop"

exu2idu_ready(lsuDone, divDone) ==
    ~cop_pipeline_active /\ scalar_ready(lsuDone, divDone)

\* commit-visible: the instruction in the stage leaves for write-back.
scalar_commit_visible(lsuDone, divDone) ==
    /\ ~flush_r
    /\ CASE InLsu        -> lsuDone /\ ~lsu_kill_pending
         [] ExOp = "div" -> divDone
         [] ExOp = "cop" -> FALSE
         [] OTHER        -> scalar_issue
exu2wbu_valid(lsuDone, divDone) ==
    IF cop # None THEN cop.resp ELSE scalar_commit_visible(lsuDone, divDone)

\* Where the instruction in the stage goes, given the outcome of a branch.
ActualTaken(taken) == ExOp \in {"jal", "jalr"} \/ (ExOp = "branch" /\ taken)
scalar_redirect_pc(taken) ==
    IF ActualTaken(taken) THEN prog[ex.pc].to ELSE Seq4(ex.pc)

scalar_mispredict_flush(taken) ==
    /\ scalar_issue
    /\ ExOp \in {"branch", "jal", "jalr"}
    /\ \/ (ex.pred # NotTaken) # ActualTaken(taken)
       \/ ex.pred # NotTaken /\ ex.pred # scalar_redirect_pc(taken)

\* A committing coprocessor instruction refetches what follows it.
exu_mispredict_flush(taken) == scalar_mispredict_flush(taken) \/ cop_commit_fire
exu_redirect_pc(taken) ==
    IF cop_commit_fire THEN Seq4(cop.pc) ELSE scalar_redirect_pc(taken)

\* Mutant: a trap redirect does not flush.
frontend_flush_NoTrap(taken) == ExOp = "fence_i" \/ exu_mispredict_flush(taken)

frontend_flush(taken) == \/ pc_update # None
                         \/ ExOp = "fence_i"
                         \/ exu_mispredict_flush(taken)

cop_kill == ExOp = "fence_i" \/ flush_r

\* What is captured for write-back: address, op and the address that follows.
Retiring(taken) ==
    IF cop # None THEN [pc |-> cop.pc, op |-> "cop", next |-> Seq4(cop.pc)]
    ELSE [pc |-> ex.pc, op |-> ExOp,
          next |-> IF ExOp = "trap" THEN prog[ex.pc].to
                                    ELSE scalar_redirect_pc(taken)]

\* The instruction a multi-cycle unit completes: the one it started with.
LsuServes == IF lsu # None THEN lsu ELSE ex.pc
ResultOf == IF cop # None THEN cop.pc
            ELSE CASE InLsu        -> LsuServes
                   [] ExOp = "div" -> div
                   [] OTHER        -> ex.pc

----------------------------------------------------------------------------
(* Next values of the registers *)

\* ifu.v: an execute redirect goes before one from write-back, and both before
\* an accepted fetch.
FetchEdge(fetchFire, pred, taken) ==
    pc_next' = CASE exu_mispredict_flush(taken) -> exu_redirect_pc(taken)
                 [] ~exu_mispredict_flush(taken) /\ pc_update # None -> pc_update
                 [] OTHER -> IF fetchFire
                             THEN PredictedNext([pc |-> pc_next, pred |-> pred])
                             ELSE pc_next

\* Mutant: a fetch accepted on the edge of a flush survives it.
QueueEdge_FetchSurvivesFlush(fetchFire, pred, ready, flush) ==
    LET left == IF ready /\ line # << >> THEN Tail(line) ELSE line
        kept == IF flush THEN << >> ELSE left
    IN line' = IF fetchFire THEN Append(kept, [pc |-> pc_next, pred |-> pred])
               ELSE kept

\* ifu_fetch_queue.v, through the line its buffer implements.
QueueEdge(fetchFire, pred, ready, flush) ==
    LET left == IF ready /\ line # << >> THEN Tail(line) ELSE line
    IN line' = IF flush THEN << >>
               ELSE IF fetchFire THEN Append(left, [pc |-> pc_next, pred |-> pred])
               ELSE left

\* Mutant: the decode register captures on the edge of a flush.
DecodeEdge_CapturesOnFlush(ready, flush) ==
    ex' = IF ready THEN (IF line # << >> THEN Head(line) ELSE None)
          ELSE IF flush THEN None ELSE ex

\* idu_exu_regs.v: valid bit and payload, which empties with the valid bit.
DecodeEdge(ready, flush) ==
    ex' = IF flush THEN None
          ELSE IF ~ready THEN ex
          ELSE IF line # << >> THEN Head(line) ELSE None

\* lsu.v, divider.v: a unit that is busy goes on, whatever the stage holds now.
UnitEdge(lsuDone, divDone) ==
    /\ lsu' = IF lsuDone THEN None
              ELSE IF lsu # None THEN lsu
              ELSE IF InLsu THEN ex.pc ELSE None
    /\ div' = IF divDone THEN None
              ELSE IF div # None THEN div
              ELSE IF ExOp = "div" THEN ex.pc ELSE None
    /\ lsu_kill_pending' = IF InLsu /\ lsuDone THEN FALSE
                           ELSE lsu_kill_pending \/ (InLsu /\ scalar_issue /\ flush_r)

\* Mutant: the response is not latched when it meets no ready write-back.
CopEdge_ResponseDropped(copDone) ==
    cop' = IF cop_kill \/ cop_commit_fire THEN None
           ELSE IF cop_issue THEN [pc |-> ex.pc, resp |-> FALSE]
           ELSE cop

\* idu_cop_regs.v and cop_backend.v: one request, from issue to its response.
CopEdge(copDone) ==
    cop' = IF cop_kill \/ cop_commit_fire THEN None
           ELSE IF cop_issue THEN [pc |-> ex.pc, resp |-> FALSE]
           ELSE IF cop # None THEN [cop EXCEPT !.resp = copDone]
           ELSE None

\* wbu.v raises the redirect of an ecall or mret one cycle after it commits;
\* exu_wbu_regs.v is held in reset for as long as the redirect is raised.
TrapRedirect == IF wb # None /\ wb.op = "trap" THEN wb.next ELSE None

\* Mutant: the redirect does not reset the write-back register.
Retires_BehindTrap(lsuDone, divDone) ==
    exu2wbu_valid(lsuDone, divDone) /\ ~flush_r

Retires(lsuDone, divDone) == /\ exu2wbu_valid(lsuDone, divDone)
                             /\ ~flush_r
                             /\ pc_update = None
                             /\ TrapRedirect = None

WriteBackEdge(lsuDone, divDone, taken) ==
    /\ wb' = IF Retires(lsuDone, divDone) THEN Retiring(taken) ELSE None
    /\ pc_update' = TrapRedirect

\* hcpu.v: the registered copy of the flush lasts one cycle.
FlushEdge(taken) ==
    /\ flush_r' = (exu_mispredict_flush(taken) /\ ~mispredict_latched)
    /\ mispredict_latched' = exu_mispredict_flush(taken)

\* What software sees: an instruction that reaches write-back has executed; a
\* store reaches memory when the load/store unit completes it.
SoftwareEdge(lsuDone, divDone, taken) ==
    /\ IF Retires(lsuDone, divDone)
       THEN /\ apc' = Retiring(taken).next
            /\ reg' = [pc |-> Retiring(taken).pc, from |-> ResultOf]
       ELSE UNCHANGED <<apc, reg>>
    /\ mem' = IF lsuDone /\ Op(LsuServes) = "store"
              THEN [pc |-> LsuServes, bit |-> ~mem.bit] ELSE mem

----------------------------------------------------------------------------
(* The machine *)

Init == /\ prog \in Programs
        /\ pc_next = RESET_PC
        /\ line = << >>
        /\ ex = None
        /\ lsu = None
        /\ div = None
        /\ lsu_kill_pending = FALSE
        /\ cop = None
        /\ wb = None
        /\ pc_update = None
        /\ flush_r = FALSE
        /\ mispredict_latched = FALSE
        /\ apc = RESET_PC
        /\ reg = [pc |-> RESET_PC, from |-> RESET_PC]
        /\ mem = [pc |-> None, bit |-> FALSE]

\* A completion belongs to a unit at work, or to a load or store that hits the
\* data cache in the cycle it is presented; the divider always takes a cycle.
MayComplete(lsuDone, divDone, copDone) ==
    /\ lsuDone => lsu # None \/ InLsu
    /\ divDone => div # None
    /\ copDone => cop # None

\* o_enq_ready of the queue, and its mutant.
enq_ready_Always(ready) == TRUE
enq_ready(ready) == Len(line) < DEPTH \/ ready

Cycle(hit, pred, taken, lsuDone, divDone, copDone) ==
    LET ready == exu2idu_ready(lsuDone, divDone)
        flush == frontend_flush(taken)
        fetchFire == hit /\ enq_ready(ready)
    IN /\ MayComplete(lsuDone, divDone, copDone)
       /\ FetchEdge(fetchFire, pred, taken)
       /\ QueueEdge(fetchFire, pred, ready, flush)
       /\ DecodeEdge(ready, flush)
       /\ UnitEdge(lsuDone, divDone)
       /\ CopEdge(copDone)
       /\ WriteBackEdge(lsuDone, divDone, taken)
       /\ FlushEdge(taken)
       /\ SoftwareEdge(lsuDone, divDone, taken)
       /\ UNCHANGED prog

Next == \E hit, taken, lsuDone, divDone, copDone \in BOOLEAN :
           \E pred \in Predictions(pc_next) :
              Cycle(hit, pred, taken, lsuDone, divDone, copDone)

Spec == Init /\ [][Next]_vars

----------------------------------------------------------------------------
(* Fairness: what the memory system and the units owe the pipeline *)

\* A fetch the queue has room for is answered in the end; so is a request of a
\* multi-cycle unit or of the coprocessor.
FetchAnswered == \E taken, lsuDone, divDone, copDone \in BOOLEAN :
                   \E pred \in Predictions(pc_next) :
                     /\ Len(line) < DEPTH
                     /\ Cycle(TRUE, pred, taken, lsuDone, divDone, copDone)
LsuAnswered == \E hit, taken, divDone, copDone \in BOOLEAN :
                 \E pred \in Predictions(pc_next) :
                   Cycle(hit, pred, taken, TRUE, divDone, copDone)
DivAnswered == \E hit, taken, lsuDone, copDone \in BOOLEAN :
                 \E pred \in Predictions(pc_next) :
                   Cycle(hit, pred, taken, lsuDone, TRUE, copDone)
CopAnswered == \E hit, taken, lsuDone, divDone \in BOOLEAN :
                 \E pred \in Predictions(pc_next) :
                   /\ cop # None /\ ~cop.resp
                   /\ Cycle(hit, pred, taken, lsuDone, divDone, TRUE)

Fairness == /\ WF_vars(Next)
            /\ WF_vars(FetchAnswered)
            /\ WF_vars(LsuAnswered)
            /\ WF_vars(DivAnswered)
            /\ WF_vars(CopAnswered)

FairSpec == Spec /\ Fairness

----------------------------------------------------------------------------
(* Correctness *)

\* Every register has a value it can hold.
TypeOK == /\ prog \in [PC -> Instruction]
          /\ pc_next \in PC
          /\ line \in Seq(Entry) /\ Len(line) <= DEPTH
          /\ ex \in Entry \cup {None}
          /\ lsu \in PC \cup {None}
          /\ div \in PC \cup {None}
          /\ lsu_kill_pending \in BOOLEAN
          /\ cop \in Request \cup {None}
          /\ wb \in Retired \cup {None}
          /\ pc_update \in PC \cup {None}
          /\ flush_r \in BOOLEAN
          /\ mispredict_latched \in BOOLEAN
          /\ apc \in PC
          /\ reg \in [pc : PC, from : PC]
          /\ mem \in [pc : PC \cup {None}, bit : BOOLEAN]

\* The front end always holds one unbroken stretch of the predicted path: each
\* instruction is the one its predecessor was predicted to go to, from the
\* execute stage through the queue to the fetch program counter.  A flush that
\* left one stage standing, or a prediction that lost its instruction, would
\* break the chain and execute would verify the wrong prediction.
FrontEndIsOnePath ==
    LET path == IF ex = None THEN line ELSE <<ex>> \o line
    IN \A i \in 1 .. Len(path) :
          PredictedNext(path[i]) = IF i < Len(path) THEN path[i + 1].pc ELSE pc_next

\* The registered flush always meets an empty execute stage.  This is why the
\* core never leaves a load unfinished behind a flush (lsu_kill_pending), and
\* why suppressing a second flush in a row never loses one.
FlushMeetsEmptyExecute == /\ flush_r => ex = None
                          /\ ~lsu_kill_pending
                          /\ mispredict_latched => ex = None /\ cop = None

\* A multi-cycle unit works for the instruction the execute stage holds.
UnitsServeTheirOwner ==
    /\ lsu # None => ex # None /\ ex.pc = lsu /\ InLsu
    /\ div # None => ex # None /\ ex.pc = div /\ ExOp = "div"

\* A coprocessor request is alone: its instruction waits in the execute stage,
\* and no scalar load, store or division is under way beside it.  The shared
\* memory service has one owner at a time for this reason.
CopIsAlone == cop # None => /\ ex # None /\ ex.pc = cop.pc /\ ExOp = "cop"
                            /\ lsu = None /\ div = None

\* A kill never meets a coprocessor request in flight, whatever follows a trap
\* or a fence: the memory service never has to give up a request that memory has
\* accepted, except in a test build with its own kill input.
KillMeetsNoRequest == cop_kill => cop = None

\* The oldest instruction in flight is the one software expects next, unless a
\* trap is on its way to redirect the front end.
TrapPending == TrapRedirect # None \/ pc_update # None
OldestIsNext ==
    ~TrapPending => apc = IF ex # None THEN ex.pc
                          ELSE IF line # << >> THEN line[1].pc ELSE pc_next

\* The pipeline executes programs one instruction at a time: wrong predictions,
\* stalls and refetches are invisible to software.
InOrder == INSTANCE InOrderCore WITH pc <- apc, NoStore <- None
ImplementsInOrderCore == InOrder!IsaSpec

\* Programs the core runs as promised: no fence.i, which drops the instructions
\* fetched behind it, and behind a trap two instructions that neither redirect,
\* nor start a unit, nor store.  The other programs are the subject of the
\* properties at the end of this module.
QuietBehindTraps(g) ==
    \A p \in PC : /\ g[p].op # "fence_i"
                  /\ g[p].op = "trap" =>
                       /\ g[Seq4(p)].op \in {"alu", "trap"}
                       /\ g[Seq4(Seq4(p))].op \in {"alu", "trap"}

\* Instructions go on being executed.
KeepsRetiring == []<>(wb # None)

----------------------------------------------------------------------------
(* What the documents say, and the core does not do *)

\* docs/cpu/ifu-idu-handshake-analysis.md:170: the architectural redirect is
\* owned by write-back: the front end goes where it says.
TrapRedirectIsTaken == [][pc_update # None => pc_next' = pc_update]_vars

\* docs/interface/vector-coprocessor-interface.md:50: pc_update_en is one of the
\* terms of cop_kill: a request in flight does not survive the redirect.
TrapKillsCop == [][pc_update # None /\ cop # None => cop' = None]_vars

\* docs/cpu/microarchitecture.md:7: the core is in-order: what retires is what
\* follows the instruction retired before it.
NothingIsSkipped == [][wb' # None => wb'.pc = apc]_vars
=============================================================================
