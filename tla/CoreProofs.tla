----------------------------- MODULE CoreProofs -----------------------------
(***************************************************************************)
(* What the registers of the pipeline agree on, for every program, every   *)
(* address space, every depth of the fetch queue, and with whatever stands *)
(* behind a trap or a fence; and that the pipeline executes every program  *)
(* that keeps quiet behind its traps one instruction at a time: module     *)
(* Core implements InOrderCore, for every prediction and every duration of *)
(* a load, a division or a coprocessor request.                            *)
(***************************************************************************)
EXTENDS Core, TLAPS

----------------------------------------------------------------------------
(* The registered flush, kills and requests *)

\* The registered flush is the first cycle of the latch, and a request in flight leaves
\* the execute stage to its own instruction, or empty after a trap redirect: with it in
\* flight decode hands on nothing.
FlushInv == /\ FlushMeetsEmptyExecute
            /\ flush_r => mispredict_latched
            /\ cop # None => ExOp \in {"none", "cop"}

\* FlushInv is inductive and needs no types.
LEMMA FlushInvHolds == Spec => []FlushInv
<1>1. Init => FlushInv
  BY DEF Init, FlushInv, FlushMeetsEmptyExecute, ExOp
<1>2. FlushInv /\ [Next]_vars => FlushInv'
  <2> SUFFICES ASSUME FlushInv, [Next]_vars PROVE FlushInv'
    OBVIOUS
  <2>1. CASE UNCHANGED vars
    BY <2>1 DEF vars, frontVars, unitVars, backVars, FlushInv, FlushMeetsEmptyExecute, ExOp, Op
  <2>2. CASE Next
    <3>1. PICK hit, taken, lsuDone, divDone, copDone \in BOOLEAN, pred \in Predictions(pc_next) :
             Cycle(hit, pred, taken, lsuDone, divDone, copDone)
      BY <2>2 DEF Next
    <3> DEFINE ready == exu2idu_ready(lsuDone, divDone)
               flush == frontend_flush(taken)
               wrong == exu_mispredict_flush(taken)
    <3>2. /\ ex' = IF flush THEN None ELSE IF ~ready THEN ex
                   ELSE IF line # << >> THEN Head(line) ELSE None
          /\ cop' = IF cop_kill \/ cop_commit_fire THEN None
                    ELSE IF cop_issue THEN [pc |-> ex.pc, resp |-> FALSE]
                    ELSE IF cop # None THEN [cop EXCEPT !.resp = copDone] ELSE None
          /\ flush_r' = (wrong /\ ~mispredict_latched)
          /\ mispredict_latched' = wrong
          /\ prog' = prog
      BY <3>1 DEF Cycle, DecodeEdge, CopEdge, FlushEdge
    <3>3. lsu_kill_pending' = FALSE
      <4>1. flush_r => ~InLsu
        BY DEF FlushInv, FlushMeetsEmptyExecute, InLsu, ExOp
      <4>2. /\ lsu_kill_pending = FALSE
            /\ lsu_kill_pending' = IF InLsu /\ lsuDone THEN FALSE
                                   ELSE lsu_kill_pending \/ (InLsu /\ scalar_issue /\ flush_r)
        BY <3>1 DEF Cycle, UnitEdge, FlushInv, FlushMeetsEmptyExecute
      <4> QED BY <4>1, <4>2
    <3>4. wrong => ex' = None /\ cop' = None
      \* A mispredicted jump finds no request and is none; a committing request leaves.
      <4>1. wrong => flush
        BY DEF frontend_flush
      <4>2. scalar_mispredict_flush(taken) => cop = None /\ ~cop_issue
        BY DEF scalar_mispredict_flush, scalar_issue, cop_pipeline_active, cop_issue
      <4> QED BY <3>2, <4>1, <4>2 DEF exu_mispredict_flush
    <3>5. cop' # None => ExOp' \in {"none", "cop"}
      <4> SUFFICES ASSUME cop' # None PROVE ExOp' \in {"none", "cop"}
        OBVIOUS
      <4>1. cop_issue \/ cop # None
        BY <3>2
      <4>2. ~ready /\ ExOp \in {"none", "cop"}
        BY <4>1 DEF exu2idu_ready, cop_pipeline_active, cop_issue, FlushInv
      <4>3. ex' = ex \/ ex' = None
        BY <3>2, <4>2
      <4> QED BY <3>2, <4>2, <4>3 DEF ExOp, Op
    <3> HIDE DEF wrong
    <3> QED BY <3>2, <3>3, <3>4, <3>5 DEF FlushInv, FlushMeetsEmptyExecute
  <2> QED BY <2>1, <2>2
<1> QED BY <1>1, <1>2, PTL DEF Spec

\* exu.v 207-215, hcpu.v 2572-2588: whatever is flushed, the registered flush finds the
\* execute stage empty: no load is ever left unfinished behind it, and a
\* second flush in a row has nothing to kill.
THEOREM FlushAlwaysMeetsEmptyExecute == Spec => []FlushMeetsEmptyExecute
<1>1. FlushInv => FlushMeetsEmptyExecute
  BY DEF FlushInv
<1> QED BY <1>1, FlushInvHolds, PTL

\* hcpu.v 2371: no kill meets a request in flight, with traps and fences anywhere.
THEOREM KillNeverMeetsRequest == Spec => []KillMeetsNoRequest
<1>1. FlushInv => KillMeetsNoRequest
  BY DEF FlushInv, FlushMeetsEmptyExecute, KillMeetsNoRequest, cop_kill
<1> QED BY <1>1, FlushInvHolds, PTL
----------------------------------------------------------------------------
(* Types *)

\* What fetch may predict for an instruction is an address or a fall-through (ifu.v 37-64).
LEMMA PredictionsAreTargets ==
    ASSUME prog \in [PC -> Instruction], NEW p \in PC, NEW q \in Predictions(p)
    PROVE  q \in PC \cup {NotTaken}
<1>1. CASE Op(p) \in {"branch", "jalr"}
  BY <1>1 DEF Predictions, Op
<1>2. CASE Op(p) = "jal"
  BY <1>2 DEF Predictions, Instruction, Op
<1>3. CASE Op(p) \notin {"branch", "jalr", "jal"}
  BY <1>3 DEF Predictions, Op
<1> QED BY <1>1, <1>2, <1>3

\* The address space wraps (ifu.v 66).
LEMMA NextAddresses ==
    ASSUME NEW p \in PC PROVE Seq4(p) \in PC
BY CoreAssumption DEF Seq4, PC

\* Where fetch goes after an entry.
LEMMA PredictedNextIsAddress ==
    ASSUME NEW e \in Entry PROVE PredictedNext(e) \in PC
BY NextAddresses DEF PredictedNext, Entry

\* A redirect from execute has an instruction or a request to come from.
LEMMA RedirectIsAddress ==
    ASSUME TypeOK, NEW taken \in BOOLEAN, exu_mispredict_flush(taken)
    PROVE  exu_redirect_pc(taken) \in PC
<1>1. CASE cop_commit_fire
  BY <1>1, NextAddresses DEF exu_redirect_pc, cop_commit_fire, TypeOK, Request
<1>2. CASE ~cop_commit_fire
  <2>1. ex # None
    BY <1>2 DEF exu_mispredict_flush, scalar_mispredict_flush, scalar_issue
  <2>2. ex.pc \in PC /\ prog[ex.pc].to \in PC /\ Seq4(ex.pc) \in PC
    BY <2>1, NextAddresses DEF TypeOK, Entry, Instruction
  <2> QED BY <1>2, <2>2 DEF exu_redirect_pc, scalar_redirect_pc
<1> QED BY <1>1, <1>2

\* What leaves for write-back is an instruction of the stage or a request, and has a result.
LEMMA RetiringHasType ==
    ASSUME TypeOK, NEW lsuDone \in BOOLEAN, NEW divDone \in BOOLEAN, NEW copDone \in BOOLEAN,
           NEW taken \in BOOLEAN, MayComplete(lsuDone, divDone, copDone),
           exu2wbu_valid(lsuDone, divDone)
    PROVE  /\ Retiring(taken) \in Retired
           /\ ResultOf \in PC
<1>1. CASE cop # None
  <2>1. cop.pc \in PC /\ Seq4(cop.pc) \in PC
    BY <1>1, NextAddresses DEF TypeOK, Request
  <2> QED BY <1>1, <2>1 DEF Retiring, ResultOf, Ops, Retired
<1>2. CASE cop = None
  <2>1. ex # None
    BY <1>2 DEF exu2wbu_valid, scalar_commit_visible, InLsu, ExOp, scalar_issue
  <2>2. /\ ex.pc \in PC /\ prog[ex.pc].to \in PC /\ Seq4(ex.pc) \in PC
        /\ ExOp \in Ops
    BY <2>1, NextAddresses DEF TypeOK, Entry, Instruction, ExOp, Op
  <2>3. ExOp = "div" => div # None
    BY <1>2 DEF exu2wbu_valid, scalar_commit_visible, InLsu, MayComplete
  <2>4. LsuServes \in PC /\ (ExOp = "div" => div \in PC)
    BY <2>2, <2>3 DEF LsuServes, TypeOK
  <2>5. ResultOf \in PC
    BY <1>2, <2>2, <2>4 DEF ResultOf, InLsu
  <2>6. scalar_redirect_pc(taken) \in PC
    BY <2>2 DEF scalar_redirect_pc
  <2> QED BY <1>2, <2>2, <2>5, <2>6 DEF Retiring, Retired
<1> QED BY <1>1, <1>2

\* The fetch queue keeps to its depth: the only accept of a full queue is the one on the
\* edge on which decode takes the head.
LEMMA LineHasType ==
    ASSUME TypeOK, NEW fire \in BOOLEAN, NEW pred \in PC \cup {NotTaken},
           NEW ready, NEW flush,
           fire => enq_ready(ready),
           QueueEdge(fire, pred, ready, flush)
    PROVE  line' \in Seq(Entry) /\ Len(line') <= DEPTH
<1> DEFINE left == IF ready /\ line # << >> THEN Tail(line) ELSE line
           e == [pc |-> pc_next, pred |-> pred]
<1>1. e \in Entry
  BY DEF TypeOK, Entry
<1>2. line \in Seq(Entry) /\ Len(line) <= DEPTH /\ DEPTH \in Nat \ {0}
  BY CoreAssumption DEF TypeOK
<1>3. /\ left \in Seq(Entry)
      /\ Len(left) <= DEPTH
      /\ fire => Len(left) < DEPTH
  BY <1>2 DEF enq_ready
<1>4. line' = IF flush THEN << >> ELSE IF fire THEN Append(left, e) ELSE left
  BY DEF QueueEdge
<1> HIDE DEF left, e
<1> QED BY <1>1, <1>2, <1>3, <1>4

\* Every register keeps a value it can hold (the registers of hcpu.v, ifu.v,
\* idu_exu_regs.v, exu_wbu_regs.v and idu_cop_regs.v); the fetch queue never
\* overflows.
THEOREM TypeCorrect == Spec => []TypeOK
<1>1. Init => TypeOK
  <2>1. << >> \in Seq(Entry) /\ Len(<< >>) <= DEPTH
    BY CoreAssumption
  <2>2. [pc |-> None, bit |-> FALSE] \in [pc : PC \cup {None}, bit : BOOLEAN]
    OBVIOUS
  <2> SUFFICES ASSUME Init PROVE TypeOK
    OBVIOUS
  <2>3. prog \in [PC -> Instruction]
    BY CoreAssumption DEF Init
  <2>4. [pc |-> RESET_PC, from |-> RESET_PC] \in [pc : PC, from : PC]
    BY CoreAssumption
  <2>5. line \in Seq(Entry) /\ Len(line) <= DEPTH
    BY <2>1 DEF Init
  <2>6. mem \in [pc : PC \cup {None}, bit : BOOLEAN] /\ reg \in [pc : PC, from : PC]
    BY <2>2, <2>4, Zenon DEF Init
  <2> QED BY <2>3, <2>5, <2>6, CoreAssumption DEF Init, TypeOK
<1>2. TypeOK /\ [Next]_vars => TypeOK'
  <2> SUFFICES ASSUME TypeOK, [Next]_vars PROVE TypeOK'
    OBVIOUS
  <2>1. CASE UNCHANGED vars
    BY <2>1 DEF vars, frontVars, unitVars, backVars, softVars, TypeOK
  <2>2. CASE Next
    <3>1. PICK hit, taken, lsuDone, divDone, copDone \in BOOLEAN, pred \in Predictions(pc_next) :
             Cycle(hit, pred, taken, lsuDone, divDone, copDone)
      BY <2>2 DEF Next
    <3> DEFINE ready == exu2idu_ready(lsuDone, divDone)
               flush == frontend_flush(taken)
               fire == hit /\ enq_ready(ready)
    <3>2. pred \in PC \cup {NotTaken} /\ [pc |-> pc_next, pred |-> pred] \in Entry
      BY PredictionsAreTargets DEF TypeOK, Entry
    <3>3. prog' \in [PC -> Instruction]
      BY <3>1 DEF Cycle, TypeOK
    <3>4. pc_next' \in PC
      <4>1. FetchEdge(fire, pred, taken)
        BY <3>1 DEF Cycle
      <4> HIDE DEF fire
      <4>2. CASE exu_mispredict_flush(taken)
        BY <4>1, <4>2, RedirectIsAddress DEF FetchEdge
      <4>3. CASE ~exu_mispredict_flush(taken) /\ pc_update # None
        BY <4>1, <4>3 DEF FetchEdge, TypeOK
      <4>4. CASE ~exu_mispredict_flush(taken) /\ pc_update = None
        <5>1. pc_next' = IF fire THEN PredictedNext([pc |-> pc_next, pred |-> pred]) ELSE pc_next
          BY <4>1, <4>4 DEF FetchEdge
        <5> QED BY <5>1, <3>2, PredictedNextIsAddress DEF TypeOK
      <4> QED BY <4>2, <4>3, <4>4
    <3>5. line' \in Seq(Entry) /\ Len(line') <= DEPTH
      <4>1. fire \in BOOLEAN /\ (fire => enq_ready(ready)) /\ QueueEdge(fire, pred, ready, flush)
        BY <3>1 DEF Cycle, enq_ready
      <4> HIDE DEF fire, ready, flush
      <4> QED BY <4>1, <3>2, LineHasType
    <3>6. ex' \in Entry \cup {None}
      <4>1. ex' \in {None, ex} \/ (line # << >> /\ ex' = Head(line))
        BY <3>1 DEF Cycle, DecodeEdge
      <4> QED BY <4>1 DEF TypeOK
    <3>7. lsu' \in PC \cup {None} /\ div' \in PC \cup {None} /\ lsu_kill_pending' \in BOOLEAN
      <4>1. InLsu \/ ExOp = "div" => ex.pc \in PC
        BY DEF InLsu, ExOp, TypeOK, Entry
      <4>2. UnitEdge(lsuDone, divDone)
        BY <3>1 DEF Cycle
      <4>3. lsu' \in {None, lsu} \/ (InLsu /\ lsu' = ex.pc)
        BY <4>2 DEF UnitEdge
      <4>4. div' \in {None, div} \/ (ExOp = "div" /\ div' = ex.pc)
        BY <4>2 DEF UnitEdge
      <4>5. lsu_kill_pending' \in BOOLEAN
        BY <4>2, Zenon DEF UnitEdge, TypeOK
      <4> QED BY <4>1, <4>3, <4>4, <4>5 DEF TypeOK
    <3>8. cop' \in Request \cup {None}
      <4>1. cop_issue => ex.pc \in PC
        BY DEF cop_issue, ExOp, TypeOK, Entry
      <4>2. \/ cop' = None
            \/ cop_issue /\ cop' = [pc |-> ex.pc, resp |-> FALSE]
            \/ cop # None /\ cop' = [cop EXCEPT !.resp = copDone]
        BY <3>1 DEF Cycle, CopEdge
      <4>3. cop # None => [cop EXCEPT !.resp = copDone] \in Request
        BY DEF TypeOK, Request
      <4>4. cop_issue => [pc |-> ex.pc, resp |-> FALSE] \in Request
        BY <4>1 DEF Request
      <4> QED BY <4>2, <4>3, <4>4, Zenon
    <3>9. /\ wb' \in Retired \cup {None}
          /\ apc' \in PC /\ reg' \in [pc : PC, from : PC]
      <4>1. CASE Retires(lsuDone, divDone)
        <5>1. /\ Retiring(taken) \in Retired
              /\ ResultOf \in PC
          BY <3>1, <4>1, RetiringHasType DEF Cycle, Retires
        <5>2. /\ wb' = Retiring(taken) /\ apc' = Retiring(taken).next
              /\ reg' = [pc |-> Retiring(taken).pc, from |-> ResultOf]
          BY <3>1, <4>1 DEF Cycle, WriteBackEdge, SoftwareEdge
        <5> QED BY <5>1, <5>2 DEF Retired
      <4>2. CASE ~Retires(lsuDone, divDone)
        BY <3>1, <4>2 DEF Cycle, WriteBackEdge, SoftwareEdge, TypeOK
      <4> QED BY <4>1, <4>2
    <3>10. pc_update' \in PC \cup {None}
      BY <3>1 DEF Cycle, WriteBackEdge, TrapRedirect, TypeOK, Retired
    <3>11. flush_r' \in BOOLEAN /\ mispredict_latched' \in BOOLEAN
      <4>1. FlushEdge(taken)
        BY <3>1 DEF Cycle
      <4>2. exu_mispredict_flush(taken) \in BOOLEAN
        BY Zenon DEF exu_mispredict_flush
      <4> QED BY <4>1, <4>2, Zenon DEF FlushEdge
    <3>12. mem' \in [pc : PC \cup {None}, bit : BOOLEAN]
      <4>1. lsuDone => LsuServes \in PC
        BY <3>1 DEF Cycle, MayComplete, LsuServes, InLsu, ExOp, TypeOK, Entry
      <4>2. mem' \in {mem, [pc |-> LsuServes, bit |-> ~mem.bit]} /\ (mem' # mem => lsuDone)
        BY <3>1 DEF Cycle, SoftwareEdge
      <4>3. mem \in [pc : PC \cup {None}, bit : BOOLEAN]
        BY DEF TypeOK
      <4>4. (~mem.bit) \in BOOLEAN
        BY Zenon
      <4>5. lsuDone => [pc |-> LsuServes, bit |-> ~mem.bit] \in [pc : PC \cup {None}, bit : BOOLEAN]
        <5> DEFINE b == ~mem.bit
        <5>1. b \in BOOLEAN
          BY <4>4
        <5> HIDE DEF b
        <5> QED BY <4>1, <5>1
      <4> QED BY <4>2, <4>3, <4>5, Zenon
    <3> QED BY <3>3, <3>4, <3>5, <3>6, <3>7, <3>8, <3>9, <3>10, <3>11, <3>12 DEF TypeOK
  <2> QED BY <2>1, <2>2
<1> QED BY <1>1, <1>2, PTL DEF Spec
----------------------------------------------------------------------------
(* The predicted path *)

\* The entries of l follow each other as predicted, and the last leads to p; x leads to
\* the first of them.
LinePath(l, p) ==
    \A i \in 1 .. Len(l) : PredictedNext(l[i]) = IF i < Len(l) THEN l[i + 1].pc ELSE p
LeadsTo(x, l, p) == PredictedNext(x) = IF l # << >> THEN l[1].pc ELSE p

\* The head of a path leads to the rest of it.
LEMMA PathWithoutHead ==
    ASSUME NEW S, NEW l \in Seq(S), NEW p, l # << >>, LinePath(l, p)
    PROVE  LinePath(Tail(l), p) /\ LeadsTo(Head(l), Tail(l), p)
<1> DEFINE r == Tail(l)
<1>1. /\ r \in Seq(S) /\ Len(r) = Len(l) - 1 /\ Len(l) \in Nat \ {0}
      /\ \A i \in 1 .. Len(r) : r[i] = l[i + 1]
      /\ Head(l) = l[1]
  OBVIOUS
<1>2. r # << >> => Len(r) >= 1
  BY <1>1
<1>3. Len(<< >>) = 0
  OBVIOUS
<1> HIDE DEF r
<1>4. LinePath(r, p)
  BY <1>1 DEF LinePath
<1>5. LeadsTo(Head(l), r, p)
  BY <1>1, <1>2, <1>3 DEF LinePath, LeadsTo
<1> QED BY <1>4, <1>5 DEF r

\* A path can be continued with an entry at the address it leads to.
LEMMA PathWithNew ==
    ASSUME NEW S, NEW l \in Seq(S), NEW e \in S, LinePath(l, e.pc)
    PROVE  /\ LinePath(Append(l, e), PredictedNext(e))
           /\ \A x : LeadsTo(x, l, e.pc) => LeadsTo(x, Append(l, e), PredictedNext(e))
<1> DEFINE a == Append(l, e)
<1>1. /\ a \in Seq(S) /\ Len(a) = Len(l) + 1 /\ Len(l) \in Nat
      /\ \A i \in 1 .. Len(l) : a[i] = l[i]
      /\ a[Len(l) + 1] = e
      /\ a # << >>
  OBVIOUS
<1>2. l = << >> => Len(l) = 0
  OBVIOUS
<1>3. l # << >> => Len(l) >= 1
  OBVIOUS
<1> HIDE DEF a
<1>4. LinePath(a, PredictedNext(e))
  <2> SUFFICES ASSUME NEW i \in 1 .. Len(a)
               PROVE  PredictedNext(a[i]) = IF i < Len(a) THEN a[i + 1].pc ELSE PredictedNext(e)
    BY DEF LinePath
  <2>1. CASE i = Len(l) + 1
    BY <2>1, <1>1
  <2>2. CASE i = Len(l) /\ i >= 1
    BY <2>2, <1>1 DEF LinePath
  <2>3. CASE i < Len(l)
    BY <2>3, <1>1 DEF LinePath
  <2> QED BY <1>1, <2>1, <2>2, <2>3
<1>5. ASSUME NEW x, LeadsTo(x, l, e.pc)
      PROVE  LeadsTo(x, a, PredictedNext(e))
  BY <1>1, <1>2, <1>3, <1>5 DEF LeadsTo
<1> QED BY <1>4, <1>5 DEF a

\* FrontEndIsOnePath, with execute and the queue taken apart.
PathInv == /\ TypeOK
           /\ LinePath(line, pc_next)
           /\ ex # None => LeadsTo(ex, line, pc_next)

\* One edge without a flush: the head moves to execute, or stays, and a fetch is added.
LEMMA EdgeKeepsPath ==
    ASSUME PathInv, NEW ready, NEW fire \in BOOLEAN, NEW pred \in PC \cup {NotTaken},
           DecodeEdge(ready, FALSE), QueueEdge(fire, pred, ready, FALSE),
           pc_next' = IF fire THEN PredictedNext([pc |-> pc_next, pred |-> pred]) ELSE pc_next
    PROVE  LinePath(line', pc_next') /\ (ex' # None => LeadsTo(ex', line', pc_next'))
<1> DEFINE left == IF ready /\ line # << >> THEN Tail(line) ELSE line
           e == [pc |-> pc_next, pred |-> pred]
<1>1. line \in Seq(Entry) /\ e \in Entry /\ e.pc = pc_next
  BY DEF PathInv, TypeOK, Entry
<1>2. left \in Seq(Entry)
  BY <1>1
<1>3. LinePath(left, pc_next) /\ (ex' # None => LeadsTo(ex', left, pc_next))
  <2>1. CASE ready /\ line # << >>
    BY <1>1, <2>1, PathWithoutHead DEF DecodeEdge, PathInv
  <2>2. CASE ~ready
    BY <2>2 DEF DecodeEdge, PathInv
  <2>3. CASE ready /\ line = << >>
    BY <2>3 DEF DecodeEdge, PathInv
  <2> QED BY <2>1, <2>2, <2>3
<1>4. line' = (IF fire THEN Append(left, e) ELSE left) /\ pc_next' = IF fire THEN PredictedNext(e) ELSE pc_next
  BY DEF QueueEdge
<1> HIDE DEF left, e
<1>5. CASE fire
  <2>1. line' = Append(left, e) /\ pc_next' = PredictedNext(e) /\ LinePath(left, e.pc)
    BY <1>1, <1>3, <1>4, <1>5
  <2> QED BY <1>1, <1>2, <1>3, <2>1, PathWithNew
<1>6. CASE ~fire
  BY <1>3, <1>4, <1>6
<1> QED BY <1>5, <1>6

\* Every edge keeps the path: without a flush by EdgeKeepsPath, with one by leaving
\* nothing standing.
LEMMA PathInvariant == Spec => []PathInv
<1>1. Init => LinePath(line, pc_next) /\ (ex # None => LeadsTo(ex, line, pc_next))
  BY DEF Init, LinePath
<1>2. PathInv /\ [Next]_vars =>
         LinePath(line, pc_next)' /\ (ex # None => LeadsTo(ex, line, pc_next))'
  <2> SUFFICES ASSUME PathInv, [Next]_vars
               PROVE  LinePath(line', pc_next') /\ (ex' # None => LeadsTo(ex', line', pc_next'))
    OBVIOUS
  <2>1. CASE UNCHANGED vars
    BY <2>1 DEF vars, frontVars, PathInv
  <2>2. CASE Next
    <3>1. PICK hit, taken, lsuDone, divDone, copDone \in BOOLEAN, pred \in Predictions(pc_next) :
             Cycle(hit, pred, taken, lsuDone, divDone, copDone)
      BY <2>2 DEF Next
    <3> DEFINE ready == exu2idu_ready(lsuDone, divDone)
               flush == frontend_flush(taken)
               fire == hit /\ enq_ready(ready)
    <3>2. pred \in PC \cup {NotTaken} /\ fire \in BOOLEAN
      BY PredictionsAreTargets DEF PathInv, TypeOK
    <3>3. /\ DecodeEdge(ready, flush) /\ QueueEdge(fire, pred, ready, flush)
          /\ FetchEdge(fire, pred, taken)
      BY <3>1 DEF Cycle
    <3> HIDE DEF ready, fire
    <3>4. CASE flush
      \* Nothing is left standing before the fetch counter.
      <4>1. line' = << >> /\ ex' = None
        BY <3>3, <3>4 DEF DecodeEdge, QueueEdge
      <4> QED BY <4>1 DEF LinePath
    <3>5. CASE ~flush
      <4>1. pc_next' = IF fire THEN PredictedNext([pc |-> pc_next, pred |-> pred]) ELSE pc_next
        BY <3>3, <3>5 DEF FetchEdge, frontend_flush
      <4>2. DecodeEdge(ready, FALSE) /\ QueueEdge(fire, pred, ready, FALSE)
        BY <3>3, <3>5 DEF DecodeEdge, QueueEdge
      <4> QED BY <3>2, <4>1, <4>2, EdgeKeepsPath
    <3> QED BY <3>4, <3>5
  <2> QED BY <2>1, <2>2
<1> QED BY <1>1, <1>2, TypeCorrect, PTL DEF Spec, PathInv

\* hcpu.v 2572, ifu.v 68-81, ifu_fetch_queue.v 388-411, idu_exu_regs.v 86-234: fetch
\* counter, queue and decode register choose the winner of an edge separately, and the
\* front end holds one predicted path all the same, whatever stands behind a trap.
THEOREM FrontEndIsAlwaysOnePath == Spec => []FrontEndIsOnePath
<1>1. PathInv => FrontEndIsOnePath
  <2> SUFFICES ASSUME PathInv PROVE FrontEndIsOnePath
    OBVIOUS
  <2>1. CASE ex = None
    BY <2>1 DEF FrontEndIsOnePath, PathInv, LinePath
  <2>2. CASE ex # None
    <3> DEFINE path == <<ex>> \o line
    <3>1. /\ line \in Seq(Entry) /\ ex \in Entry
          /\ LinePath(line, pc_next) /\ LeadsTo(ex, line, pc_next)
      BY <2>2 DEF PathInv, TypeOK
    <3>2. /\ Len(path) = Len(line) + 1 /\ Len(line) \in Nat
          /\ path[1] = ex
          /\ \A i \in 1 .. Len(line) : path[i + 1] = line[i]
          /\ line # << >> <=> Len(line) >= 1
      BY <3>1
    <3> HIDE DEF path
    <3>3. ASSUME NEW i \in 1 .. Len(path)
          PROVE  PredictedNext(path[i]) = IF i < Len(path) THEN path[i + 1].pc ELSE pc_next
      <4>1. CASE i = 1
        BY <3>1, <3>2, <4>1 DEF LeadsTo
      <4>2. CASE i > 1
        <5>1. /\ i - 1 \in 1 .. Len(line) /\ path[i] = line[i - 1]
              /\ i < Len(path) => path[i + 1] = line[i]
              /\ i < Len(path) <=> i - 1 < Len(line)
          BY <3>2, <4>2
        <5> QED BY <3>1, <5>1 DEF LinePath
      <4> QED BY <3>2, <4>1, <4>2
    <3> QED BY <2>2, <3>3 DEF FrontEndIsOnePath, path
  <2> QED BY <2>1, <2>2
<1> QED BY <1>1, PathInvariant, PTL

----------------------------------------------------------------------------
(* Programs that keep quiet behind their traps run one instruction at a time *)

\* The address the front end will execute next, and the one after what execute
\* holds.
NextFront == IF line # << >> THEN line[1].pc ELSE pc_next
Front == IF ex # None THEN ex.pc ELSE NextFront

\* Only what can go elsewhere is predicted to go elsewhere.
Straight(e) == Op(e.pc) \notin {"branch", "jal", "jalr"} => e.pred = NotTaken
StraightEntries == /\ \A i \in 1 .. Len(line) : Straight(line[i])
                   /\ ex # None => Straight(ex)

\* No unit and no request is under way.
Calm == cop = None /\ lsu = None /\ div = None
Harmless == {"none", "alu", "trap"}

\* The two cycles of a trap's shadow.  In the first, execute holds the instruction
\* behind it or will, in the second that or the one after: none starts anything.
BehindTrap ==
    TrapRedirect # None => /\ Calm
                           /\ Op(wb.pc) = "trap"
                           /\ Front = Seq4(wb.pc)
                           /\ apc = wb.next
BehindRedirect ==
    pc_update # None => Calm /\ ExOp \in Harmless /\ apc = pc_update

QuietInv == /\ PathInv
            /\ FlushInv
            /\ QuietBehindTraps(prog)
            /\ StraightEntries
            /\ UnitsServeTheirOwner
            /\ CopIsAlone
            /\ BehindTrap
            /\ BehindRedirect
            /\ OldestIsNext

----------------------------------------------------------------------------
(* Wires *)

\* What the invariant says of the instruction in execute.
LEMMA ExecuteHoldsInstruction ==
    ASSUME QuietInv, ex # None
    PROVE  /\ ex \in Entry /\ ex.pc \in PC /\ Seq4(ex.pc) \in PC
           /\ ExOp = Op(ex.pc) /\ ExOp \in Ops /\ ExOp # "none" /\ ExOp # "fence_i"
           /\ prog[ex.pc].to \in PC
           /\ PredictedNext(ex) = NextFront
           /\ ~flush_r /\ ~mispredict_latched /\ ~lsu_kill_pending
<1>1. ex \in Entry /\ ex.pc \in PC /\ prog[ex.pc] \in Instruction
  BY DEF QuietInv, PathInv, TypeOK, Entry
<1>2. ExOp = Op(ex.pc) /\ ExOp \in Ops /\ ExOp # "none" /\ prog[ex.pc].to \in PC
  BY <1>1 DEF ExOp, Op, Instruction, Ops
<1>3. ExOp # "fence_i"
  BY <1>1, <1>2 DEF QuietInv, QuietBehindTraps, Op
<1>4. PredictedNext(ex) = NextFront
  BY DEF QuietInv, PathInv, LeadsTo, NextFront
<1>5. ~flush_r /\ ~mispredict_latched /\ ~lsu_kill_pending
  BY DEF QuietInv, FlushInv, FlushMeetsEmptyExecute
<1> QED BY <1>1, <1>2, <1>3, <1>4, <1>5, NextAddresses

\* In both cycles of a trap's shadow execute holds nothing that could show.
LEMMA ShadowIsHarmless ==
    ASSUME QuietInv, TrapPending
    PROVE  Calm /\ ExOp \in Harmless
<1>1. CASE pc_update # None
  BY <1>1 DEF QuietInv, BehindRedirect
<1>2. CASE TrapRedirect # None
  <2>1. wb.pc \in PC /\ prog[wb.pc].op = "trap" /\ Front = Seq4(wb.pc) /\ Calm
    BY <1>2 DEF TrapRedirect, QuietInv, PathInv, TypeOK, Retired, BehindTrap, Op
  <2>2. prog[Seq4(wb.pc)].op \in {"alu", "trap"}
    BY <2>1 DEF QuietInv, QuietBehindTraps
  <2> QED BY <2>1, <2>2 DEF Front, ExOp, Op, Harmless
<1> QED BY <1>1, <1>2 DEF TrapPending

\* An instruction that waits for a unit or the coprocessor is not flushed.
LEMMA WorkIsNotFlushed ==
    ASSUME QuietInv, NEW taken \in BOOLEAN, ~cop_commit_fire,
           InLsu \/ ExOp \in {"div", "cop"} \/ ~Calm
    PROVE  ex # None /\ ~TrapPending /\ ~frontend_flush(taken)
<1>1. InLsu \/ ExOp \in {"div", "cop"}
  BY DEF Calm, QuietInv, UnitsServeTheirOwner, CopIsAlone
<1>2. ~TrapPending
  BY <1>1, ShadowIsHarmless DEF InLsu, Harmless
<1>3. ex # None
  BY <1>1 DEF InLsu, ExOp
<1>4. ExOp \notin {"branch", "jal", "jalr", "fence_i"}
  BY <1>1 DEF InLsu
<1> QED BY <1>2, <1>3, <1>4
        DEF TrapPending, frontend_flush, exu_mispredict_flush, scalar_mispredict_flush

\* An instruction that leaves without a flush was predicted as it went.
LEMMA VerifiedPrediction ==
    ASSUME QuietInv, NEW taken \in BOOLEAN, ex # None, cop = None, ExOp # "cop",
           ~scalar_mispredict_flush(taken)
    PROVE  PredictedNext(ex) = scalar_redirect_pc(taken)
<1>1. scalar_issue
  BY DEF scalar_issue, cop_pipeline_active
<1>2. Straight(ex) /\ ExOp = Op(ex.pc)
  BY ExecuteHoldsInstruction DEF QuietInv, StraightEntries
<1>3. CASE ExOp \in {"branch", "jal", "jalr"}
  <2>1. /\ (ex.pred # NotTaken) = ActualTaken(taken)
        /\ ~(ex.pred # NotTaken /\ ex.pred # scalar_redirect_pc(taken))
    BY <1>1, <1>3 DEF scalar_mispredict_flush
  <2>2. CASE ex.pred = NotTaken
    BY <2>1, <2>2 DEF PredictedNext, scalar_redirect_pc
  <2>3. CASE ex.pred # NotTaken
    BY <2>1, <2>3 DEF PredictedNext
  <2> QED BY <2>2, <2>3
<1>4. CASE ExOp \notin {"branch", "jal", "jalr"}
  <2>1. ex.pred = NotTaken /\ ~ActualTaken(taken)
    BY <1>2, <1>4 DEF Straight, ActualTaken
  <2> QED BY <2>1 DEF PredictedNext, scalar_redirect_pc
<1> QED BY <1>3, <1>4

\* What leaves execute for write-back is what software expects next, with its own
\* result; and whatever is done in execute, outside a trap's shadow, leaves.
LEMMA WhatRetires ==
    ASSUME QuietInv, NEW taken \in BOOLEAN, NEW lsuDone \in BOOLEAN, NEW divDone \in BOOLEAN,
           NEW copDone \in BOOLEAN, MayComplete(lsuDone, divDone, copDone),
           Retires(lsuDone, divDone)
    PROVE  /\ ex # None /\ ~TrapPending /\ apc = ex.pc
           /\ Retiring(taken).pc = ex.pc /\ ResultOf = ex.pc
           /\ cop_commit_fire \/ (cop = None /\ ExOp # "cop" /\ exu2idu_ready(lsuDone, divDone))
           /\ cop # None => Retiring(taken) = [pc |-> ex.pc, op |-> "cop", next |-> Seq4(ex.pc)]
           /\ cop = None =>
                Retiring(taken) = [pc |-> ex.pc, op |-> ExOp,
                                   next |-> IF ExOp = "trap" THEN prog[ex.pc].to
                                                             ELSE scalar_redirect_pc(taken)]
<1>1. ~TrapPending /\ exu2wbu_valid(lsuDone, divDone)
  BY DEF Retires, TrapPending
<1>2. CASE cop # None
  <2>1. ex # None /\ cop.pc = ex.pc /\ cop.resp
    BY <1>1, <1>2 DEF QuietInv, CopIsAlone, exu2wbu_valid
  <2>2. apc = ex.pc
    BY <1>1, <2>1 DEF QuietInv, OldestIsNext
  <2>3. Retiring(taken) = [pc |-> ex.pc, op |-> "cop", next |-> Seq4(ex.pc)] /\ ResultOf = ex.pc
    BY <1>2, <2>1 DEF Retiring, ResultOf
  <2> QED BY <1>1, <1>2, <2>1, <2>2, <2>3 DEF cop_commit_fire
<1>3. CASE cop = None
  <2>1. scalar_commit_visible(lsuDone, divDone)
    BY <1>1, <1>3 DEF exu2wbu_valid
  <2>2. ex # None /\ ExOp # "cop"
    BY <2>1 DEF scalar_commit_visible, InLsu, ExOp, scalar_issue
  <2>3. apc = ex.pc
    BY <1>1, <2>2 DEF QuietInv, OldestIsNext
  <2>4. exu2idu_ready(lsuDone, divDone)
    BY <1>3, <2>1, <2>2
       DEF scalar_commit_visible, exu2idu_ready, scalar_ready, cop_pipeline_active, InLsu
  <2>5. ResultOf = ex.pc
    <3>1. CASE InLsu
      BY <1>3, <3>1 DEF ResultOf, LsuServes, InLsu, QuietInv, UnitsServeTheirOwner
    <3>2. CASE ExOp = "div"
      <4>1. div # None
        BY <2>1, <3>2 DEF scalar_commit_visible, InLsu, MayComplete
      <4> QED BY <1>3, <3>2, <4>1 DEF ResultOf, InLsu, QuietInv, UnitsServeTheirOwner
    <3>3. CASE ~InLsu /\ ExOp # "div"
      BY <1>3, <3>3 DEF ResultOf
    <3> QED BY <3>1, <3>2, <3>3
  <2> QED BY <1>1, <1>3, <2>2, <2>3, <2>4, <2>5 DEF Retiring
<1> QED BY <1>2, <1>3

\* Outside a trap's shadow, what is ready to leave does leave.
LEMMA ReadyRetires ==
    ASSUME QuietInv, NEW lsuDone \in BOOLEAN, NEW divDone \in BOOLEAN,
           ex # None, ~TrapPending, exu2idu_ready(lsuDone, divDone)
    PROVE  Retires(lsuDone, divDone) /\ cop = None /\ ExOp # "cop"
<1>1. cop = None /\ ExOp # "cop" /\ scalar_ready(lsuDone, divDone)
  BY DEF exu2idu_ready, cop_pipeline_active
<1>2. ~flush_r /\ ~lsu_kill_pending
  BY ExecuteHoldsInstruction
<1>3. scalar_commit_visible(lsuDone, divDone)
  BY <1>1, <1>2 DEF scalar_commit_visible, scalar_ready, scalar_issue, cop_pipeline_active
<1> QED BY <1>1, <1>2, <1>3 DEF Retires, exu2wbu_valid, TrapPending

----------------------------------------------------------------------------
(* Edges of the front end *)

\* The next address of the front end after an edge without a flush: what execute
\* holds if it stays, what follows it if it leaves.
LEMMA FrontAfterEdge ==
    ASSUME QuietInv, NEW ready \in BOOLEAN, NEW fire \in BOOLEAN, NEW pred \in PC \cup {NotTaken},
           DecodeEdge(ready, FALSE), QueueEdge(fire, pred, ready, FALSE),
           pc_next' = IF fire THEN PredictedNext([pc |-> pc_next, pred |-> pred]) ELSE pc_next,
           ex = None => ready
    PROVE  /\ Front' = IF ready THEN NextFront ELSE ex.pc
           /\ ready => ex' = None \/ (ex' \in Entry /\ ex'.pc = NextFront)
           /\ ~ready => ex' = ex
<1> DEFINE e == [pc |-> pc_next, pred |-> pred]
<1>1. line \in Seq(Entry) /\ e \in Entry /\ e.pc = pc_next
  BY DEF QuietInv, PathInv, TypeOK, Entry
<1>2. CASE ~ready
  BY <1>2 DEF DecodeEdge, Front
<1>3. CASE ready /\ line # << >>
  <2>1. ex' = line[1] /\ line[1] \in Entry
    BY <1>1, <1>3 DEF DecodeEdge
  <2>2. ex' # None
    BY <2>1, NoneAssumption
  <2> QED BY <1>3, <2>1, <2>2 DEF Front, NextFront
<1>4. CASE ready /\ line = << >>
  <2>1. ex' = None
    BY <1>4 DEF DecodeEdge
  <2>2. line' = (IF fire THEN Append(<< >>, e) ELSE << >>)
    BY <1>4 DEF QueueEdge
  <2>3. Append(<< >>, e) # << >> /\ Append(<< >>, e)[1] = e
    OBVIOUS
  <2> HIDE DEF e
  <2>4. CASE fire
    BY <1>1, <1>4, <2>1, <2>2, <2>3, <2>4 DEF Front, NextFront
  <2>5. CASE ~fire
    BY <1>4, <2>1, <2>2, <2>5 DEF Front, NextFront
  <2> QED BY <1>4, <2>1, <2>4, <2>5
<1> QED BY <1>2, <1>3, <1>4

\* After a flush nothing is left before the fetch counter.
LEMMA FrontAfterFlush ==
    ASSUME NEW ready, NEW fire, NEW pred,
           DecodeEdge(ready, TRUE), QueueEdge(fire, pred, ready, TRUE)
    PROVE  ex' = None /\ Front' = pc_next'
<1>1. ex' = None /\ line' = << >>
  BY DEF DecodeEdge, QueueEdge
<1> QED BY <1>1 DEF Front, NextFront

\* Both, from the wires of a cycle.
LEMMA FrontAfterCycle ==
    ASSUME QuietInv, NEW hit \in BOOLEAN, NEW taken \in BOOLEAN, NEW lsuDone \in BOOLEAN,
           NEW divDone \in BOOLEAN, NEW copDone \in BOOLEAN, NEW pred \in Predictions(pc_next),
           Cycle(hit, pred, taken, lsuDone, divDone, copDone)
    PROVE  /\ frontend_flush(taken) => ex' = None /\ Front' = pc_next'
           /\ ~frontend_flush(taken) =>
                /\ Front' = IF exu2idu_ready(lsuDone, divDone) THEN NextFront ELSE ex.pc
                /\ exu2idu_ready(lsuDone, divDone) =>
                      ex' = None \/ (ex' \in Entry /\ ex'.pc = NextFront)
                /\ ~exu2idu_ready(lsuDone, divDone) => ex' = ex
<1> DEFINE ready == exu2idu_ready(lsuDone, divDone)
           flush == frontend_flush(taken)
           fire == hit /\ enq_ready(ready)
<1>1. /\ pred \in PC \cup {NotTaken} /\ fire \in BOOLEAN
  BY PredictionsAreTargets DEF QuietInv, PathInv, TypeOK
<1>2. ready \in BOOLEAN
  BY DEF exu2idu_ready, scalar_ready, InLsu
<1>3. DecodeEdge(ready, flush) /\ QueueEdge(fire, pred, ready, flush) /\ FetchEdge(fire, pred, taken)
  BY DEF Cycle
<1>4. ex = None => ready
  <2> SUFFICES ASSUME ex = None PROVE ready
    OBVIOUS
  <2>1. cop = None /\ ExOp = "none"
    BY DEF QuietInv, CopIsAlone, ExOp
  <2> QED BY <2>1 DEF exu2idu_ready, cop_pipeline_active, scalar_ready, InLsu
<1> HIDE DEF ready, fire
<1>5. CASE flush
  BY <1>3, <1>5, FrontAfterFlush DEF DecodeEdge, QueueEdge
<1>6. CASE ~flush
  <2>1. pc_next' = IF fire THEN PredictedNext([pc |-> pc_next, pred |-> pred]) ELSE pc_next
    BY <1>3, <1>6 DEF FetchEdge, frontend_flush
  <2>2. DecodeEdge(ready, FALSE) /\ QueueEdge(fire, pred, ready, FALSE)
    BY <1>3, <1>6 DEF DecodeEdge, QueueEdge
  <2> QED BY <1>1, <1>2, <1>4, <1>6, <2>1, <2>2, FrontAfterEdge DEF ready
<1> QED BY <1>5, <1>6 DEF ready

----------------------------------------------------------------------------
(* Steps *)

\* A unit or a request that is under way after an edge belongs to what execute
\* holds, because execute waited and nothing flushed it.
LEMMA WorkKeepsOwner ==
    ASSUME QuietInv, NEW hit \in BOOLEAN, NEW taken \in BOOLEAN, NEW lsuDone \in BOOLEAN,
           NEW divDone \in BOOLEAN, NEW copDone \in BOOLEAN, NEW pred \in Predictions(pc_next),
           Cycle(hit, pred, taken, lsuDone, divDone, copDone)
    PROVE  UnitsServeTheirOwner' /\ CopIsAlone'
<1>1. prog' = prog /\ UnitEdge(lsuDone, divDone) /\ CopEdge(copDone)
  BY DEF Cycle
<1>2. ASSUME ex # None, ~frontend_flush(taken), ~exu2idu_ready(lsuDone, divDone)
      PROVE  ex' = ex /\ ExOp' = ExOp /\ InLsu' = InLsu
  BY <1>1, <1>2, FrontAfterCycle DEF ExOp, Op, InLsu
<1>3. lsu' # None => ex' # None /\ ex'.pc = lsu' /\ InLsu'
  <2> SUFFICES ASSUME lsu' # None PROVE ex' # None /\ ex'.pc = lsu' /\ InLsu'
    OBVIOUS
  <2>1. InLsu /\ ~lsuDone /\ lsu' = ex.pc
    BY <1>1 DEF UnitEdge, QuietInv, UnitsServeTheirOwner
  <2>2. ~cop_commit_fire /\ ~exu2idu_ready(lsuDone, divDone)
    BY <2>1 DEF cop_commit_fire, QuietInv, CopIsAlone, InLsu, exu2idu_ready, scalar_ready
  <2>3. ex # None /\ ~frontend_flush(taken)
    BY <2>1, <2>2, WorkIsNotFlushed
  <2> QED BY <1>2, <2>1, <2>2, <2>3
<1>4. div' # None => ex' # None /\ ex'.pc = div' /\ ExOp' = "div"
  <2> SUFFICES ASSUME div' # None PROVE ex' # None /\ ex'.pc = div' /\ ExOp' = "div"
    OBVIOUS
  <2>1. ExOp = "div" /\ ~divDone /\ div' = ex.pc
    BY <1>1 DEF UnitEdge, QuietInv, UnitsServeTheirOwner
  <2>2. ~cop_commit_fire /\ ~exu2idu_ready(lsuDone, divDone)
    BY <2>1 DEF cop_commit_fire, QuietInv, CopIsAlone, InLsu, exu2idu_ready, scalar_ready
  <2>3. ex # None /\ ~frontend_flush(taken)
    BY <2>1, <2>2, WorkIsNotFlushed
  <2> QED BY <1>2, <2>1, <2>2, <2>3
<1>5. CopIsAlone'
  <2> SUFFICES ASSUME cop' # None
               PROVE  /\ ex' # None /\ ex'.pc = cop'.pc /\ ExOp' = "cop"
                      /\ lsu' = None /\ div' = None
    BY DEF CopIsAlone
  <2>1. /\ ExOp = "cop" /\ ~cop_commit_fire /\ lsu = None /\ div = None
        /\ cop'.pc = ex.pc
    <3>1. CASE cop = None
      <4>1. cop_issue /\ cop' = [pc |-> ex.pc, resp |-> FALSE]
        BY <1>1, <3>1 DEF CopEdge
      <4> QED BY <3>1, <4>1
              DEF cop_issue, cop_commit_fire, QuietInv, UnitsServeTheirOwner, InLsu
    <3>2. CASE cop # None
      <4>1. ~cop_commit_fire /\ ~cop_issue /\ cop' = [cop EXCEPT !.resp = copDone]
        BY <1>1, <3>2 DEF CopEdge, cop_issue
      <4>2. cop \in Request
        BY <3>2 DEF QuietInv, PathInv, TypeOK
      <4>3. cop'.pc = cop.pc
        BY <4>1, <4>2 DEF Request
      <4> QED BY <3>2, <4>1, <4>3 DEF QuietInv, CopIsAlone
    <3> QED BY <3>1, <3>2
  <2>2. ex # None /\ ~frontend_flush(taken)
    BY <2>1, WorkIsNotFlushed
  <2>3. ~exu2idu_ready(lsuDone, divDone)
    BY <2>1 DEF exu2idu_ready, cop_pipeline_active
  <2>4. lsu' = None /\ div' = None
    BY <1>1, <2>1 DEF UnitEdge, InLsu
  <2> QED BY <1>2, <2>1, <2>2, <2>3, <2>4
<1> QED BY <1>3, <1>4, <1>5 DEF UnitsServeTheirOwner

\* With nothing under way and nothing to start, nothing is under way next.
LEMMA CalmStaysCalm ==
    ASSUME QuietInv, NEW hit \in BOOLEAN, NEW taken \in BOOLEAN, NEW lsuDone \in BOOLEAN,
           NEW divDone \in BOOLEAN, NEW copDone \in BOOLEAN, NEW pred \in Predictions(pc_next),
           Cycle(hit, pred, taken, lsuDone, divDone, copDone),
           Calm, ExOp \in Harmless
    PROVE  Calm'
<1>1. UnitEdge(lsuDone, divDone) /\ CopEdge(copDone)
  BY DEF Cycle
<1>2. ~InLsu /\ ExOp # "div" /\ ExOp # "cop"
  BY DEF Harmless, InLsu
<1> QED BY <1>1, <1>2 DEF Calm, UnitEdge, CopEdge, cop_issue

\* A trap leaves execute with its successor next in line, and nothing else.
LEMMA TrapStartsShadow ==
    ASSUME QuietInv, NEW hit \in BOOLEAN, NEW taken \in BOOLEAN, NEW lsuDone \in BOOLEAN,
           NEW divDone \in BOOLEAN, NEW copDone \in BOOLEAN, NEW pred \in Predictions(pc_next),
           Cycle(hit, pred, taken, lsuDone, divDone, copDone)
    PROVE  BehindTrap'
<1> SUFFICES ASSUME TrapRedirect' # None PROVE BehindTrap'
  BY DEF BehindTrap
<1>1. /\ prog' = prog /\ WriteBackEdge(lsuDone, divDone, taken)
      /\ SoftwareEdge(lsuDone, divDone, taken) /\ MayComplete(lsuDone, divDone, copDone)
  BY DEF Cycle
<1>2. wb' # None /\ wb'.op = "trap"
  BY DEF TrapRedirect
<1>3. Retires(lsuDone, divDone) /\ wb' = Retiring(taken) /\ apc' = Retiring(taken).next
  BY <1>1, <1>2 DEF WriteBackEdge, SoftwareEdge
<1>4. /\ ex # None /\ ~TrapPending
      /\ cop_commit_fire \/ (cop = None /\ ExOp # "cop" /\ exu2idu_ready(lsuDone, divDone))
      /\ cop # None => wb' = [pc |-> ex.pc, op |-> "cop", next |-> Seq4(ex.pc)]
      /\ cop = None => wb' = [pc |-> ex.pc, op |-> ExOp,
                              next |-> IF ExOp = "trap" THEN prog[ex.pc].to
                                                        ELSE scalar_redirect_pc(taken)]
  BY <1>1, <1>3, WhatRetires
<1>5. cop = None /\ ExOp = "trap" /\ wb'.pc = ex.pc /\ exu2idu_ready(lsuDone, divDone)
  BY <1>2, <1>4 DEF cop_commit_fire
<1>6. Calm /\ ExOp \in Harmless
  BY <1>5 DEF Calm, Harmless, QuietInv, UnitsServeTheirOwner, InLsu
<1>7. ~frontend_flush(taken)
  BY <1>4, <1>5 DEF TrapPending, frontend_flush, exu_mispredict_flush, scalar_mispredict_flush,
                    cop_commit_fire
<1>8. Front' = Seq4(ex.pc)
  <2>1. Front' = PredictedNext(ex)
    BY <1>4, <1>5, <1>7, FrontAfterCycle, ExecuteHoldsInstruction
  <2>2. ex.pred = NotTaken
    BY <1>4, <1>5, ExecuteHoldsInstruction DEF QuietInv, StraightEntries, Straight
  <2> QED BY <2>1, <2>2 DEF PredictedNext
<1>9. Calm'
  BY <1>6, CalmStaysCalm
<1>10. Op(wb.pc)' = "trap"
  BY <1>1, <1>4, <1>5, ExecuteHoldsInstruction DEF Op
<1> QED BY <1>3, <1>5, <1>8, <1>9, <1>10 DEF BehindTrap

\* In its second cycle, too, execute holds nothing that could show.
LEMMA ShadowGoesOn ==
    ASSUME QuietInv, NEW hit \in BOOLEAN, NEW taken \in BOOLEAN, NEW lsuDone \in BOOLEAN,
           NEW divDone \in BOOLEAN, NEW copDone \in BOOLEAN, NEW pred \in Predictions(pc_next),
           Cycle(hit, pred, taken, lsuDone, divDone, copDone)
    PROVE  BehindRedirect'
<1> SUFFICES ASSUME pc_update' # None PROVE BehindRedirect'
  BY DEF BehindRedirect
<1>1. /\ prog' = prog /\ WriteBackEdge(lsuDone, divDone, taken)
      /\ SoftwareEdge(lsuDone, divDone, taken)
  BY DEF Cycle
<1>2. TrapRedirect # None /\ pc_update' = TrapRedirect
  BY <1>1 DEF WriteBackEdge
<1>3. /\ wb # None /\ wb.op = "trap" /\ TrapRedirect = wb.next /\ wb.pc \in PC
      /\ prog[wb.pc].op = "trap" /\ Front = Seq4(wb.pc) /\ apc = wb.next
  BY <1>2 DEF TrapRedirect, QuietInv, PathInv, TypeOK, Retired, BehindTrap, Op
<1>4. /\ prog[Seq4(wb.pc)].op \in {"alu", "trap"}
      /\ prog[Seq4(Seq4(wb.pc))].op \in {"alu", "trap"}
  BY <1>3 DEF QuietInv, QuietBehindTraps
<1>5. Calm /\ ExOp \in Harmless
  BY <1>2, ShadowIsHarmless DEF TrapPending
<1>6. Calm'
  BY <1>5, CalmStaysCalm
<1>7. apc' = pc_update'
  BY <1>1, <1>2, <1>3 DEF SoftwareEdge, Retires
<1>8. ExOp' \in Harmless
  <2>1. CASE ex' = None
    BY <2>1 DEF ExOp, Harmless
  <2>2. CASE ex' # None
    <3>1. exu2idu_ready(lsuDone, divDone)
      BY <1>5 DEF Calm, Harmless, exu2idu_ready, cop_pipeline_active, scalar_ready, InLsu
    <3>2. ex'.pc = NextFront
      BY <2>2, <3>1, FrontAfterCycle
    <3>3. NextFront \in {Seq4(wb.pc), Seq4(Seq4(wb.pc))}
      <4>1. CASE ex = None
        BY <1>3, <4>1 DEF Front
      <4>2. CASE ex # None
        <5>1. ex.pc = Seq4(wb.pc) /\ ExOp \in {"alu", "trap"}
          BY <1>3, <1>5, <4>2, ExecuteHoldsInstruction DEF Front, Harmless
        <5>2. ex.pred = NotTaken
          BY <4>2, <5>1, ExecuteHoldsInstruction DEF QuietInv, StraightEntries, Straight
        <5> QED BY <4>2, <5>1, <5>2, ExecuteHoldsInstruction DEF PredictedNext
      <4> QED BY <4>1, <4>2
    <3> QED BY <1>1, <1>4, <2>2, <3>2, <3>3 DEF ExOp, Op, Harmless
  <2> QED BY <2>1, <2>2
<1> QED BY <1>6, <1>7, <1>8 DEF BehindRedirect

\* Whatever is fetched is predicted as its kind may be.
LEMMA EntriesStayStraight ==
    ASSUME QuietInv, NEW hit \in BOOLEAN, NEW taken \in BOOLEAN, NEW lsuDone \in BOOLEAN,
           NEW divDone \in BOOLEAN, NEW copDone \in BOOLEAN, NEW pred \in Predictions(pc_next),
           Cycle(hit, pred, taken, lsuDone, divDone, copDone)
    PROVE  StraightEntries'
<1> DEFINE ready == exu2idu_ready(lsuDone, divDone)
           flush == frontend_flush(taken)
           fire == hit /\ enq_ready(ready)
           e == [pc |-> pc_next, pred |-> pred]
           left == IF ready /\ line # << >> THEN Tail(line) ELSE line
<1>1. /\ prog' = prog /\ DecodeEdge(ready, flush) /\ QueueEdge(fire, pred, ready, flush)
  BY DEF Cycle
<1>2. /\ line \in Seq(Entry) /\ e \in Entry
      /\ \A i \in 1 .. Len(line) : Straight(line[i])
      /\ ex # None => Straight(ex)
  BY PredictionsAreTargets DEF QuietInv, PathInv, TypeOK, Entry, StraightEntries
<1>3. Straight(e)
  BY DEF Straight, Predictions
<1> HIDE DEF e
<1>6. left \in Seq(Entry) /\ \A i \in 1 .. Len(left) : Straight(left[i])
  BY <1>2
<1>7. line' \in {<< >>, left, Append(left, e)}
  BY <1>1 DEF QueueEdge, e
<1>8. ex' = None \/ ex' = ex \/ (line # << >> /\ ex' = line[1])
  BY <1>1 DEF DecodeEdge
<1> HIDE DEF left
<1>9. \A i \in 1 .. Len(line') : Straight(line'[i])
  <2>1. CASE line' = << >>
    <3>1. Len(<< >>) = 0
      OBVIOUS
    <3> QED BY <2>1, <3>1
  <2>2. CASE line' = left
    BY <1>6, <2>2
  <2>3. CASE line' = Append(left, e)
    <3>1. /\ Len(line') = Len(left) + 1 /\ Len(left) \in Nat
          /\ \A i \in 1 .. Len(left) : line'[i] = left[i]
          /\ line'[Len(left) + 1] = e
      BY <1>2, <1>6, <2>3
    <3>2. ASSUME NEW i \in 1 .. Len(line') PROVE i \in 1 .. Len(left) \/ i = Len(left) + 1
      BY <3>1
    <3> QED BY <1>3, <1>6, <3>1, <3>2
  <2> QED BY <1>7, <2>1, <2>2, <2>3
<1>10. ex' # None => Straight(ex')
  BY <1>2, <1>8
<1> QED BY <1>1, <1>9, <1>10 DEF StraightEntries, Straight, Op

\* The front end holds what software expects next: each redirect goes where the
\* instruction went that left last, and what leaves without one was predicted so.
LEMMA OldestStaysNext ==
    ASSUME QuietInv, NEW hit \in BOOLEAN, NEW taken \in BOOLEAN, NEW lsuDone \in BOOLEAN,
           NEW divDone \in BOOLEAN, NEW copDone \in BOOLEAN, NEW pred \in Predictions(pc_next),
           Cycle(hit, pred, taken, lsuDone, divDone, copDone)
    PROVE  OldestIsNext'
<1> SUFFICES ASSUME ~TrapPending' PROVE apc' = Front'
  BY DEF OldestIsNext, Front, NextFront
<1> DEFINE ready == exu2idu_ready(lsuDone, divDone)
           fire == hit /\ enq_ready(ready)
<1>1. /\ FetchEdge(fire, pred, taken) /\ WriteBackEdge(lsuDone, divDone, taken)
      /\ SoftwareEdge(lsuDone, divDone, taken) /\ MayComplete(lsuDone, divDone, copDone)
  BY DEF Cycle
<1>2. TrapRedirect = None
  BY <1>1 DEF TrapPending, WriteBackEdge
<1> HIDE DEF fire
<1>3. CASE pc_update # None
  <2>1. Calm /\ ExOp \in Harmless /\ apc = pc_update
    BY <1>3 DEF QuietInv, BehindRedirect
  <2>2. ~exu_mispredict_flush(taken) /\ frontend_flush(taken)
    BY <1>3, <2>1 DEF exu_mispredict_flush, scalar_mispredict_flush, cop_commit_fire, Calm,
                      Harmless, frontend_flush
  <2>3. pc_next' = pc_update
    BY <1>1, <1>3, <2>2 DEF FetchEdge
  <2>4. apc' = apc
    BY <1>1, <1>3 DEF SoftwareEdge, Retires
  <2> QED BY <2>1, <2>2, <2>3, <2>4, FrontAfterCycle
<1>4. CASE pc_update = None
  <2>1. ~TrapPending /\ apc = Front
    BY <1>2, <1>4 DEF TrapPending, QuietInv, OldestIsNext, Front, NextFront
  <2>2. CASE Retires(lsuDone, divDone)
    <3>1. apc' = Retiring(taken).next /\ wb' = Retiring(taken)
      BY <1>1, <2>2 DEF SoftwareEdge, WriteBackEdge
    <3>2. /\ ex # None
          /\ cop_commit_fire \/ (cop = None /\ ExOp # "cop" /\ ready)
          /\ cop # None => Retiring(taken) =
                              [pc |-> ex.pc, op |-> "cop", next |-> Seq4(ex.pc)]
          /\ cop = None => Retiring(taken) =
                              [pc |-> ex.pc, op |-> ExOp,
                               next |-> IF ExOp = "trap" THEN prog[ex.pc].to
                                                         ELSE scalar_redirect_pc(taken)]
      BY <1>1, <2>2, WhatRetires
    <3> HIDE DEF ready
    <3>3. CASE cop_commit_fire
      <4>1. cop # None /\ cop.pc = ex.pc
        BY <3>3 DEF cop_commit_fire, QuietInv, CopIsAlone
      <4>2. apc' = Seq4(ex.pc)
        BY <3>1, <3>2, <4>1
      <4>3. frontend_flush(taken) /\ exu_mispredict_flush(taken)
        BY <3>3 DEF frontend_flush, exu_mispredict_flush
      <4>4. pc_next' = Seq4(ex.pc)
        BY <1>1, <3>3, <4>1, <4>3 DEF FetchEdge, exu_redirect_pc
      <4> QED BY <4>2, <4>3, <4>4, FrontAfterCycle
    <3>4. CASE ~cop_commit_fire
      <4>1. cop = None /\ ExOp # "cop" /\ ready
        BY <3>2, <3>4
      <4>2. ExOp # "trap"
        <5> SUFFICES ASSUME ExOp = "trap" PROVE FALSE
          OBVIOUS
        <5>1. wb' = [pc |-> ex.pc, op |-> "trap", next |-> prog[ex.pc].to]
          BY <3>1, <3>2, <4>1
        <5>2. wb' \in Retired /\ prog[ex.pc].to # None
          BY <3>2, <5>1, ExecuteHoldsInstruction, CoreAssumption DEF Retired, Ops
        <5>3. wb' # None
          BY <5>2, NoneAssumption
        <5>4. TrapRedirect' # None
          BY <5>1, <5>2, <5>3 DEF TrapRedirect
        <5> QED BY <5>4 DEF TrapPending
      <4>3. apc' = scalar_redirect_pc(taken)
        BY <3>1, <3>2, <4>1, <4>2
      <4>4. CASE scalar_mispredict_flush(taken)
        <5>1. frontend_flush(taken) /\ exu_mispredict_flush(taken)
          BY <4>4 DEF frontend_flush, exu_mispredict_flush
        <5>2. pc_next' = scalar_redirect_pc(taken)
          BY <1>1, <3>4, <5>1 DEF FetchEdge, exu_redirect_pc
        <5> QED BY <4>3, <5>1, <5>2, FrontAfterCycle
      <4>5. CASE ~scalar_mispredict_flush(taken)
        <5>1. ~frontend_flush(taken)
          BY <1>4, <3>2, <3>4, <4>5, ExecuteHoldsInstruction
             DEF frontend_flush, exu_mispredict_flush
        <5>2. Front' = PredictedNext(ex)
          BY <3>2, <4>1, <5>1, FrontAfterCycle, ExecuteHoldsInstruction DEF ready
        <5> QED BY <3>2, <4>1, <4>3, <4>5, <5>2, VerifiedPrediction
      <4> QED BY <4>4, <4>5
    <3> QED BY <3>3, <3>4
  <2>3. CASE ~Retires(lsuDone, divDone)
    <3>1. apc' = apc
      BY <1>1, <2>3 DEF SoftwareEdge
    <3>2. ~(ex # None /\ ready)
      BY <2>1, <2>3, ReadyRetires
    <3>3. ~cop_commit_fire
      <4> SUFFICES ASSUME cop_commit_fire PROVE FALSE
        OBVIOUS
      <4>1. cop # None /\ cop.resp /\ ex # None
        BY DEF cop_commit_fire, QuietInv, CopIsAlone
      <4>2. ~flush_r
        BY <4>1, ExecuteHoldsInstruction
      <4> QED BY <1>2, <1>4, <2>3, <4>1, <4>2 DEF Retires, exu2wbu_valid
    <3>4. ~frontend_flush(taken)
      <4>1. CASE ex = None
        BY <1>4, <3>3, <4>1
           DEF frontend_flush, exu_mispredict_flush, scalar_mispredict_flush, scalar_issue, ExOp
      <4>2. CASE ex # None
        <5>1. InLsu \/ ExOp \in {"div", "cop"} \/ ~Calm
          BY <3>2, <4>2 DEF exu2idu_ready, cop_pipeline_active, scalar_ready, Calm
        <5> QED BY <3>3, <5>1, WorkIsNotFlushed
      <4> QED BY <4>1, <4>2
    <3>5. CASE ex = None
      <4>1. Front' = NextFront
        <5>1. cop = None /\ ExOp = "none"
          BY <3>5 DEF QuietInv, CopIsAlone, ExOp
        <5>2. ready
          BY <5>1 DEF exu2idu_ready, cop_pipeline_active, scalar_ready, InLsu
        <5> QED BY <3>4, <5>2, FrontAfterCycle
      <4> QED BY <2>1, <3>1, <3>5, <4>1 DEF Front
    <3>6. CASE ex # None
      <4>1. Front' = ex.pc
        BY <3>2, <3>4, <3>6, FrontAfterCycle
      <4> QED BY <2>1, <3>1, <3>6, <4>1 DEF Front
    <3> QED BY <3>5, <3>6
  <2> QED BY <2>2, <2>3
<1> QED BY <1>3, <1>4

\* Every edge is one instruction executed at the program counter, with its own
\* result and its own store, or shows nothing.
LEMMA CycleIsExecution ==
    ASSUME QuietInv, NEW hit \in BOOLEAN, NEW taken \in BOOLEAN, NEW lsuDone \in BOOLEAN,
           NEW divDone \in BOOLEAN, NEW copDone \in BOOLEAN, NEW pred \in Predictions(pc_next),
           Cycle(hit, pred, taken, lsuDone, divDone, copDone)
    PROVE  [InOrder!Execute]_<<prog, apc, reg, mem>>
<1>1. /\ prog' = prog /\ SoftwareEdge(lsuDone, divDone, taken)
      /\ MayComplete(lsuDone, divDone, copDone)
  BY DEF Cycle
<1>2. ASSUME lsuDone
      PROVE  InLsu /\ cop = None /\ ex # None /\ LsuServes = ex.pc
  BY <1>1, <1>2 DEF MayComplete, QuietInv, UnitsServeTheirOwner, CopIsAlone, LsuServes, InLsu, ExOp
<1>3. CASE Retires(lsuDone, divDone)
  <2>1. /\ ex # None /\ apc = ex.pc /\ Retiring(taken).pc = ex.pc /\ ResultOf = ex.pc
        /\ cop # None => Retiring(taken) = [pc |-> ex.pc, op |-> "cop", next |-> Seq4(ex.pc)]
        /\ cop = None => Retiring(taken) =
                            [pc |-> ex.pc, op |-> ExOp,
                             next |-> IF ExOp = "trap" THEN prog[ex.pc].to
                                                       ELSE scalar_redirect_pc(taken)]
    BY <1>1, <1>3, WhatRetires
  <2>2. ExOp = prog[apc].op /\ ExOp \in Ops /\ InOrder!Following(apc) = Seq4(apc)
    BY <2>1, ExecuteHoldsInstruction DEF Op, InOrder!Following, Seq4
  <2>3. apc' \in InOrder!Successors(apc)
    <3>1. apc' = Retiring(taken).next
      BY <1>1, <1>3 DEF SoftwareEdge
    <3>2. CASE cop # None
      <4>1. prog[apc].op = "cop" /\ apc' = Seq4(apc)
        BY <2>1, <2>2, <3>1, <3>2 DEF QuietInv, CopIsAlone
      <4> QED BY <2>2, <4>1 DEF InOrder!Successors
    <3>3. CASE cop = None /\ ExOp = "trap"
      BY <2>1, <2>2, <3>1, <3>3 DEF InOrder!Successors
    <3>4. CASE cop = None /\ ExOp # "trap"
      <4>1. apc' = IF ActualTaken(taken) THEN prog[apc].to ELSE Seq4(apc)
        BY <2>1, <3>1, <3>4 DEF scalar_redirect_pc
      <4>2. /\ ExOp \in {"jal", "jalr"} => ActualTaken(taken)
            /\ ExOp \notin {"jal", "jalr", "branch"} => ~ActualTaken(taken)
        BY DEF ActualTaken
      <4>3. CASE ExOp = "branch"
        BY <2>2, <4>1, <4>3 DEF InOrder!Successors
      <4>4. CASE ExOp \in {"jal", "jalr"}
        BY <2>2, <4>1, <4>2, <4>4 DEF InOrder!Successors
      <4>5. CASE ExOp \notin {"jal", "jalr", "branch"}
        BY <2>2, <3>4, <4>1, <4>2, <4>5 DEF InOrder!Successors
      <4> QED BY <4>3, <4>4, <4>5
    <3> QED BY <3>2, <3>3, <3>4
  <2>4. reg' = [pc |-> apc, from |-> apc]
    BY <1>1, <1>3, <2>1 DEF SoftwareEdge
  <2>5. mem' = IF prog[apc].op = "store" THEN InOrder!StoreTo(mem, apc) ELSE mem
    <3>1. prog[apc].op = "store" => lsuDone
      <4> SUFFICES ASSUME ExOp = "store" PROVE lsuDone
        BY <2>2
      <4>1. cop = None
        BY DEF QuietInv, CopIsAlone
      <4> QED BY <1>3, <4>1 DEF Retires, exu2wbu_valid, scalar_commit_visible, InLsu
    <3>2. lsuDone => Op(LsuServes) = prog[apc].op /\ LsuServes = apc
      BY <1>2, <2>1 DEF Op
    <3> QED BY <1>1, <3>1, <3>2 DEF SoftwareEdge, InOrder!StoreTo
  <2> QED BY <1>1, <2>3, <2>4, <2>5 DEF InOrder!Execute
<1>4. CASE ~Retires(lsuDone, divDone)
  <2>1. ~lsuDone
    <3> SUFFICES ASSUME lsuDone PROVE FALSE
      OBVIOUS
    <3>1. InLsu /\ cop = None /\ ex # None
      BY <1>2
    <3>2. ~TrapPending
      BY <3>1, ShadowIsHarmless DEF InLsu, Harmless
    <3>3. exu2idu_ready(lsuDone, divDone)
      BY <3>1 DEF exu2idu_ready, cop_pipeline_active, scalar_ready, InLsu
    <3> QED BY <1>4, <3>1, <3>2, <3>3, ReadyRetires
  <2> QED BY <1>1, <1>4, <2>1 DEF SoftwareEdge
<1> QED BY <1>3, <1>4

----------------------------------------------------------------------------
(* The invariant and what follows from it *)

\* The invariant beyond what CoreProofs shows of every program.
LEMMA QuietStep ==
    ASSUME QuietInv, [Next]_vars, PathInv', FlushInv'
    PROVE  QuietInv' /\ [InOrder!Execute]_<<prog, apc, reg, mem>>
<1>1. CASE UNCHANGED vars
  BY <1>1
     DEF vars, frontVars, unitVars, backVars, softVars, QuietInv, QuietBehindTraps,
         StraightEntries, Straight, UnitsServeTheirOwner, CopIsAlone, BehindTrap, BehindRedirect,
         OldestIsNext, TrapPending, TrapRedirect, Calm, Front, NextFront, ExOp, InLsu, Op
<1>2. CASE Next
  <2>1. PICK hit, taken, lsuDone, divDone, copDone \in BOOLEAN, pred \in Predictions(pc_next) :
           Cycle(hit, pred, taken, lsuDone, divDone, copDone)
    BY <1>2 DEF Next
  <2>2. QuietBehindTraps(prog)'
    BY <2>1 DEF Cycle, QuietInv, QuietBehindTraps
  <2>3. UnitsServeTheirOwner' /\ CopIsAlone'
    BY <2>1, WorkKeepsOwner
  <2>4. BehindTrap' /\ BehindRedirect'
    BY <2>1, TrapStartsShadow, ShadowGoesOn
  <2>5. StraightEntries' /\ OldestIsNext'
    BY <2>1, EntriesStayStraight, OldestStaysNext
  <2>6. [InOrder!Execute]_<<prog, apc, reg, mem>>
    BY <2>1, CycleIsExecution
  <2> QED BY <2>2, <2>3, <2>4, <2>5, <2>6 DEF QuietInv
<1> QED BY <1>1, <1>2

\* The start.
LEMMA QuietInit ==
    ASSUME \A g \in Programs : QuietBehindTraps(g), Init, PathInv, FlushInv
    PROVE  QuietInv
<1>1. QuietBehindTraps(prog)
  BY DEF Init
<1>2. /\ line = << >> /\ ex = None /\ lsu = None /\ div = None /\ cop = None /\ wb = None
      /\ pc_update = None /\ apc = pc_next
  BY DEF Init
<1>3. StraightEntries /\ UnitsServeTheirOwner /\ CopIsAlone
  BY <1>2 DEF StraightEntries, UnitsServeTheirOwner, CopIsAlone
<1>4. BehindTrap /\ BehindRedirect /\ OldestIsNext
  BY <1>2 DEF BehindTrap, BehindRedirect, OldestIsNext, TrapRedirect
<1> QED BY <1>1, <1>3, <1>4 DEF QuietInv

\* Every behaviour on quiet programs keeps the invariant.
THEOREM QuietInvariant ==
    ASSUME \A g \in Programs : QuietBehindTraps(g)
    PROVE  Spec => []QuietInv
<1>1. Init /\ PathInv /\ FlushInv => QuietInv
  BY QuietInit
<1>2. QuietInv /\ [Next]_vars /\ PathInv' /\ FlushInv' => QuietInv'
  BY QuietStep
<1> QED BY <1>1, <1>2, PathInvariant, FlushInvHolds, PTL DEF Spec

\* divider.v 160, lsu.v 200: no unit ever completes for another instruction.
THEOREM UnitsAlwaysServeTheirOwner ==
    ASSUME \A g \in Programs : QuietBehindTraps(g)
    PROVE  Spec => []UnitsServeTheirOwner
BY QuietInvariant, PTL DEF QuietInv

\* hcpu.v 1157: a coprocessor request never shares the back end with scalar work.
THEOREM CopIsAlwaysAlone ==
    ASSUME \A g \in Programs : QuietBehindTraps(g)
    PROVE  Spec => []CopIsAlone
BY QuietInvariant, PTL DEF QuietInv

\* The oldest instruction in flight is the one software expects.
THEOREM OldestIsAlwaysNext ==
    ASSUME \A g \in Programs : QuietBehindTraps(g)
    PROVE  Spec => []OldestIsNext
BY QuietInvariant, PTL DEF QuietInv

\* The pipeline implements the core that executes one instruction at a time.
THEOREM Refinement ==
    ASSUME \A g \in Programs : QuietBehindTraps(g)
    PROVE  Spec => ImplementsInOrderCore
<1>1. Init => InOrder!IsaInit
  BY DEF Init, InOrder!IsaInit
<1>2. QuietInv /\ [Next]_vars /\ PathInv' /\ FlushInv' => [InOrder!Execute]_<<prog, apc, reg, mem>>
  BY QuietStep
<1> QED BY <1>1, <1>2, QuietInvariant, PathInvariant, FlushInvHolds, PTL
        DEF Spec, ImplementsInOrderCore, InOrder!IsaSpec, InOrder!isaVars
=============================================================================
