---------------------------- MODULE RegisterFlow ----------------------------
(***************************************************************************)
(* Register values on their way through the core: the register file and    *)
(* its forwarding multiplexers (Registers/RegisterFile.v), the control and *)
(* status registers (Registers/Csrs.v), and the stages the values cross.   *)
(*                                                                         *)
(* The flow of instructions is the one of module Core without fence.i, the *)
(* queue cut to the instruction decode sees.  A result is any value,       *)
(* except that a CSR instruction passes on what it read.  One plain CSR    *)
(* stands for those that only write-back writes (mtvec).                   *)
(***************************************************************************)
EXTENDS Naturals

CONSTANTS Register,  \* register numbers; 0 is the constant register
          Value,     \* what a register can hold
          Code,      \* the instructions considered
          Bubble     \* an empty register

Kinds == {"alu", "unit", "control", "cop", "trap", "csrw", "csrr"}

\* "unit" takes several cycles (load, store, multiply, divide), "control" may
\* have been predicted wrongly; wen says whether it writes rd.
Operation == [kind : Kinds, rs : Register, rd : Register, wen : BOOLEAN]

\* What the stages behind decode hold.
InExecute == [ins : Operation, src : Value, csr : Value, res : Value]
InCoprocessor == [ins : Operation, resp : BOOLEAN, res : Value]
InWriteBack == [ins : Operation, res : Value]

ASSUME RegisterAssumption ==
    /\ 0 \in Register
    /\ 0 \in Value
    /\ Code \subseteq Operation
    /\ Bubble \notin Operation \cup InExecute \cup InCoprocessor \cup InWriteBack

VARIABLES
    id,        \* the instruction decode sees, or Bubble
    ex,        \* execute register: [ins, src, csr, res], or Bubble
    cop,       \* coprocessor request in flight: [ins, resp, res], or Bubble
    wb,        \* write-back register: [ins, res], or Bubble
    pc_update, \* write-back raises a redirect
    flush_r,   \* exu_mispredict_flush_r
    mispredict_latched,
    regfile, csr,
    soft,      \* what software expects the registers to hold, and
    softCsr,   \* the CSR, after every instruction that reached write-back
    spaced     \* software has kept CSR accesses apart so far

flowVars == <<id, ex, cop, wb, pc_update, flush_r, mispredict_latched>>
valueVars == <<regfile, csr, soft, softCsr, spaced>>
registerVars == <<flowVars, valueVars>>

RegisterInit == /\ id = Bubble
                /\ ex = Bubble
                /\ cop = Bubble
                /\ wb = Bubble
                /\ pc_update = FALSE
                /\ flush_r = FALSE
                /\ mispredict_latched = FALSE
                /\ regfile = [r \in Register |-> 0]
                /\ csr = 0
                /\ soft = [r \in Register |-> 0]
                /\ softCsr = 0
                /\ spaced = TRUE

----------------------------------------------------------------------------
(* Wires of the current cycle *)

ExIs(kind) == ex # Bubble /\ ex.ins.kind = kind

\* done: the unit completes; only looked at for a unit.
scalar_ready(done) == ExIs("unit") => done
CopResponds == cop # Bubble /\ cop.resp

exu2idu_ready(done) == cop = Bubble /\ ~ExIs("cop") /\ scalar_ready(done)

exu2wbu_valid(done) ==
    IF cop # Bubble THEN cop.resp
    ELSE ex # Bubble /\ ~ExIs("cop") /\ scalar_ready(done) /\ ~flush_r

\* What the stage hands on: a request in flight goes first.
exu_ins == IF cop # Bubble THEN cop.ins ELSE ex.ins
exu_res == IF cop # Bubble THEN cop.res ELSE ex.res

\* wrong: the control transfer was predicted wrongly.
exu_mispredict_flush(wrong) == (ExIs("control") /\ cop = Bubble /\ wrong) \/ CopResponds

TrapInWriteBack == wb # Bubble /\ wb.ins.kind = "trap"

frontend_flush(wrong) == pc_update \/ exu_mispredict_flush(wrong)

\* The edge moves an instruction from execute to write-back.
Retires(done) == exu2wbu_valid(done) /\ ~flush_r /\ ~pc_update /\ ~TrapInWriteBack

WritesRd(ins, r) == ins.wen /\ ins.rd = r /\ r # 0
IsCsrWriter(ins) == ins.kind \in {"csrw", "csrr"}
ReadsCsr(ins) == ins.kind \in {"csrr", "trap"}

\* Mutant of rdata: a result still in execute is not forwarded.
rdata_NoExecute(r, done) ==
    IF wb # Bubble /\ WritesRd(wb.ins, r) THEN wb.res ELSE regfile[r]

\* What decode reads of register r: execute goes before write-back, and both
\* before the file.
rdata(r, done) ==
    IF exu2wbu_valid(done) /\ WritesRd(exu_ins, r) THEN exu_res
    ELSE IF wb # Bubble /\ WritesRd(wb.ins, r) THEN wb.res
    ELSE regfile[r]

\* What an instruction computes: any value, except for a CSR access, which
\* moves one.  csrrs of the constant register reads, and writes back what it
\* read; csrrw passes its source on to the CSR and to rd alike.
Results(ins, src, old) == IF ins.kind = "csrw" THEN {src}
                          ELSE IF ins.kind = "csrr" THEN {old}
                          ELSE Value

----------------------------------------------------------------------------
(* One clock edge *)

\* The execute register takes operands as decode reads them.
Capture(done, wrong) ==
    IF frontend_flush(wrong) THEN ex' = Bubble
    ELSE IF ~exu2idu_ready(done) THEN ex' = ex
    ELSE IF id = Bubble THEN ex' = Bubble
    ELSE \E res \in Results(id, rdata(id.rs, done), csr) :
            ex' = [ins |-> id, src |-> rdata(id.rs, done), csr |-> csr, res |-> res]

\* The queue offers its next instruction, if it has one.
Offer(done, wrong) ==
    IF frontend_flush(wrong) THEN id' = Bubble
    ELSE IF id # Bubble /\ ~exu2idu_ready(done) THEN id' = id
    ELSE id' \in Code \cup {Bubble}

\* idu_cop_regs.v and cop_backend.v: one request, from issue to its response.
Coprocess(copDone) ==
    IF flush_r \/ CopResponds THEN cop' = Bubble
    ELSE IF cop # Bubble THEN cop' = [ins |-> cop.ins, resp |-> copDone, res |-> cop.res]
    ELSE IF ExIs("cop") THEN cop' = [ins |-> ex.ins, resp |-> FALSE, res |-> ex.res]
    ELSE cop' = Bubble

\* exu_wbu_regs.v and wbu.v.
Retire(done, wrong) ==
    /\ wb' = IF Retires(done) THEN [ins |-> exu_ins, res |-> exu_res] ELSE Bubble
    /\ pc_update' = TrapInWriteBack
    /\ flush_r' = (exu_mispredict_flush(wrong) /\ ~mispredict_latched)
    /\ mispredict_latched' = exu_mispredict_flush(wrong)

WriteFile == regfile' = [r \in Register |-> IF wb # Bubble /\ WritesRd(wb.ins, r)
                                       THEN wb.res ELSE regfile[r]]

\* A trap instruction acts on the CSRs while decode sees it, and its bits stay
\* in the queue's slot after it has left: with the queue empty, decode may see
\* one (stale) that nobody executes.  A write in that cycle is dropped.
TrapShown(stale) == IF id = Bubble THEN stale ELSE id.kind = "trap"

\* Mutant of WriteCsr: a CSR write does not wait for write-back.
WriteCsr_FromExecute(stale) ==
    csr' = IF ex # Bubble /\ IsCsrWriter(ex.ins) /\ ~TrapShown(stale) THEN ex.res
           ELSE csr

\* So does a coprocessor instruction as it commits.
WriteCsr(stale) == csr' = IF /\ ~TrapShown(stale)
                             /\ ~CopResponds
                             /\ wb # Bubble
                             /\ IsCsrWriter(wb.ins)
                          THEN wb.res ELSE csr

\* What software expects: each instruction that reaches write-back takes effect
\* at once.
Expect(done) ==
    IF Retires(done)
    THEN /\ soft' = [r \in Register |-> IF WritesRd(exu_ins, r) THEN exu_res ELSE soft[r]]
         /\ softCsr' = IF IsCsrWriter(exu_ins) THEN exu_res ELSE softCsr
    ELSE UNCHANGED <<soft, softCsr>>

\* Decode looks at the CSRs for an instruction while a CSR write is still on
\* its way, or a trap shows in decode on the cycle a CSR is written.
TooClose(stale) ==
    LET inEx == ex # Bubble /\ IsCsrWriter(ex.ins)
        inWb == wb # Bubble /\ IsCsrWriter(wb.ins)
    IN \/ id # Bubble /\ ReadsCsr(id) /\ (inEx \/ inWb)
       \/ TrapShown(stale) /\ inWb

RegisterEdge(done, copDone, wrong, stale) ==
    /\ Capture(done, wrong)
    /\ Offer(done, wrong)
    /\ Coprocess(copDone)
    /\ Retire(done, wrong)
    /\ WriteFile
    /\ WriteCsr(stale)
    /\ Expect(done)
    /\ spaced' = (spaced /\ ~TooClose(stale))

\* A completion belongs to a unit at work, a response to a request in flight, a
\* wrong prediction to a control transfer, a stale trap to an empty queue.
RegisterNext == \E done \in {~ExIs("unit"), TRUE},
                   copDone \in {FALSE, cop # Bubble},
                   wrong \in {FALSE, ExIs("control")},
                   stale \in {FALSE, id = Bubble} :
                   RegisterEdge(done, copDone, wrong, stale)

RegisterSpec == RegisterInit /\ [][RegisterNext]_registerVars

----------------------------------------------------------------------------
(* Correctness *)

\* Every stage holds a value of its sort; the constant register holds zero.
RegisterTypeOK == /\ id \in Operation \cup {Bubble}
                  /\ ex \in InExecute \cup {Bubble}
                  /\ cop \in InCoprocessor \cup {Bubble}
                  /\ wb \in InWriteBack \cup {Bubble}
                  /\ pc_update \in BOOLEAN
                  /\ flush_r \in BOOLEAN
                  /\ mispredict_latched \in BOOLEAN
                  /\ regfile \in [Register -> Value] /\ regfile[0] = 0
                  /\ csr \in Value
                  /\ soft \in [Register -> Value]
                  /\ softCsr \in Value
                  /\ spaced \in BOOLEAN

\* Instructions in the shadow of a trap are dropped, whatever they hold.
InShadow == TrapInWriteBack \/ pc_update

\* An instruction that will take effect works on the latest value of its source
\* register, wherever the result of the instruction that wrote it was when it
\* was decoded: in execute after any number of cycles, in write-back, or in the
\* file, and whatever was flushed in between.
OperandsAreLatest == ex # Bubble /\ ~InShadow => ex.src = soft[ex.ins.rs]

\* CSRs are not forwarded: what an instruction reads of one is the latest value
\* as long as software keeps two cycles between a write and whatever reads it,
\* and no trap instruction shows in decode as the write is made.
CsrReadsAreLatest ==
    spaced /\ ex # Bubble /\ ReadsCsr(ex.ins) /\ ~InShadow => ex.csr = softCsr
=============================================================================
