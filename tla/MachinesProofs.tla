--------------------------- MODULE MachinesProofs ---------------------------
(***************************************************************************)
(* Proofs about the machines of Machines: the flow of register values for  *)
(* every set of registers, values and instructions, the return stack for   *)
(* every depth and every nesting of the program, multiplication and        *)
(* division for the code's words of 32 bits, and the testbenches of the    *)
(* front end and of its single units for every program.                    *)
(***************************************************************************)
EXTENDS Machines, PairLaneProofs

-----------------------------------------------------------------------------
(* RegisterFlow *)

\* The registered flush meets an empty execute stage, as in module Core.
FlushMeetsNoRegister ==
    flush_r \/ mispredict_latched => ex = Bubble /\ cop = Bubble

\* A request in flight keeps write-back empty: it cannot take the cycle in which
\* a CSR is written.
CopEmptiesWriteBack == cop # Bubble => wb = Bubble

\* What write-back holds is all that separates the file from what software
\* expects.
FileFollows ==
    \A r \in Register : soft[r] = IF wb # Bubble /\ WritesRd(wb.ins, r)
                            THEN wb.res ELSE regfile[r]
CsrFollows ==
    spaced => softCsr = IF wb # Bubble /\ IsCsrWriter(wb.ins) THEN wb.res ELSE csr

RegisterInv == /\ RegisterTypeOK
               /\ FlushMeetsNoRegister
               /\ CopEmptiesWriteBack
               /\ FileFollows
               /\ CsrFollows
               /\ OperandsAreLatest
               /\ CsrReadsAreLatest

\* The machine starts in the invariant.
LEMMA RegisterInitHolds == RegisterInit => RegisterInv
<1> SUFFICES ASSUME RegisterInit PROVE RegisterInv
  OBVIOUS
<1>1. RegisterTypeOK
  BY RegisterAssumption DEF RegisterInit, RegisterTypeOK
<1>2. FlushMeetsNoRegister /\ CopEmptiesWriteBack /\ FileFollows /\ CsrFollows
  BY DEF RegisterInit, CopEmptiesWriteBack, FlushMeetsNoRegister, FileFollows, CsrFollows
<1>3. OperandsAreLatest /\ CsrReadsAreLatest
  BY DEF RegisterInit, OperandsAreLatest, CsrReadsAreLatest
<1> QED BY <1>1, <1>2, <1>3 DEF RegisterInv

\* Decode reads a value, whatever it reads it from.
LEMMA ReadsValue ==
    ASSUME RegisterTypeOK, NEW r \in Register, NEW done \in BOOLEAN
    PROVE  rdata(r, done) \in Value
<1>1. CASE exu2wbu_valid(done) /\ WritesRd(exu_ins, r)
  <2>1. exu_res \in Value
    BY <1>1 DEF RegisterTypeOK, InExecute, InCoprocessor, exu_res, exu2wbu_valid
  <2> QED BY <1>1, <2>1 DEF rdata
<1>2. CASE ~(exu2wbu_valid(done) /\ WritesRd(exu_ins, r))
  <2>1. wb # Bubble => wb.res \in Value
    BY DEF RegisterTypeOK, InWriteBack
  <2>2. regfile[r] \in Value
    BY DEF RegisterTypeOK
  <2> QED BY <1>2, <2>1, <2>2 DEF rdata
<1> QED BY <1>1, <1>2

\* What an instruction computes is a value.
LEMMA ResultsAreValues ==
    ASSUME NEW ins, NEW src \in Value, NEW old \in Value,
           NEW res \in Results(ins, src, old)
    PROVE  res \in Value
BY DEF Results

\* Every stage goes on holding a value of its sort.
LEMMA StepKeepsTypes ==
    ASSUME RegisterInv, NEW done \in BOOLEAN, NEW copDone \in BOOLEAN,
           NEW wrong \in BOOLEAN, NEW stale \in BOOLEAN,
           RegisterEdge(done, copDone, wrong, stale)
    PROVE  RegisterTypeOK'
<1> USE DEF RegisterInv
<1>1. id' \in Operation \cup {Bubble}
  BY RegisterAssumption DEF RegisterTypeOK, RegisterEdge, Offer
<1>2. ex' \in InExecute \cup {Bubble}
  <2>1. CASE frontend_flush(wrong) \/ ~exu2idu_ready(done) \/ id = Bubble
    BY <2>1 DEF RegisterTypeOK, RegisterEdge, Capture
  <2>2. CASE ~frontend_flush(wrong) /\ exu2idu_ready(done) /\ id # Bubble
    <3>1. PICK res \in Results(id, rdata(id.rs, done), csr) :
             ex' = [ins |-> id, src |-> rdata(id.rs, done), csr |-> csr, res |-> res]
      BY <2>2 DEF RegisterEdge, Capture
    <3>2. id \in Operation /\ id.rs \in Register /\ csr \in Value
      BY <2>2 DEF RegisterTypeOK, Operation
    <3>3. rdata(id.rs, done) \in Value
      BY <3>2, ReadsValue
    <3>4. res \in Value
      BY <3>2, <3>3, ResultsAreValues
    <3> QED BY <3>1, <3>2, <3>3, <3>4 DEF InExecute
  <2> QED BY <2>1, <2>2
<1>3. cop' \in InCoprocessor \cup {Bubble}
  <2>1. CASE cop # Bubble /\ cop' = [ins |-> cop.ins, resp |-> copDone, res |-> cop.res]
    BY <2>1 DEF RegisterTypeOK, InCoprocessor
  <2>2. CASE ExIs("cop") /\ cop' = [ins |-> ex.ins, resp |-> FALSE, res |-> ex.res]
    BY <2>2 DEF RegisterTypeOK, InCoprocessor, InExecute, ExIs
  <2>3. CASE cop' = Bubble
    BY <2>3
  <2> QED BY <2>1, <2>2, <2>3 DEF RegisterEdge, Coprocess
<1>4. wb' \in InWriteBack \cup {Bubble}
  <2>1. CASE Retires(done)
    <3>1. exu_ins \in Operation /\ exu_res \in Value
      BY <2>1 DEF Retires, exu2wbu_valid, exu_ins, exu_res, RegisterTypeOK, InExecute,
                  InCoprocessor
    <3> QED BY <2>1, <3>1 DEF RegisterEdge, Retire, InWriteBack
  <2>2. CASE ~Retires(done)
    BY <2>2 DEF RegisterEdge, Retire
  <2> QED BY <2>1, <2>2
<1>5. pc_update' \in BOOLEAN /\ flush_r' \in BOOLEAN /\ mispredict_latched' \in BOOLEAN
      /\ spaced' \in BOOLEAN
  <2>1. (TrapInWriteBack) \in BOOLEAN /\ (exu_mispredict_flush(wrong)) \in BOOLEAN
    BY DEF TrapInWriteBack, exu_mispredict_flush, CopResponds
  <2> QED BY <2>1, Zenon DEF RegisterEdge, Retire
<1>6. regfile' \in [Register -> Value] /\ regfile'[0] = 0
  <2>1. wb # Bubble => wb.res \in Value
    BY DEF RegisterTypeOK, InWriteBack
  <2> QED BY <2>1, RegisterAssumption DEF RegisterEdge, WriteFile, WritesRd, RegisterTypeOK
<1>7. csr' \in Value
  BY DEF RegisterEdge, WriteCsr, RegisterTypeOK, InWriteBack
<1>8. soft' \in [Register -> Value] /\ softCsr' \in Value
  <2>1. CASE Retires(done)
    <3>1. exu_res \in Value
      BY <2>1 DEF Retires, exu2wbu_valid, exu_res, RegisterTypeOK, InExecute, InCoprocessor
    <3> QED BY <2>1, <3>1 DEF RegisterEdge, Expect, RegisterTypeOK
  <2>2. CASE ~Retires(done)
    BY <2>2 DEF RegisterEdge, Expect, RegisterTypeOK
  <2> QED BY <2>1, <2>2
<1> QED BY <1>1, <1>2, <1>3, <1>4, <1>5, <1>6, <1>7, <1>8 DEF RegisterTypeOK

\* A flush is registered in the edge that empties execute and the coprocessor.
LEMMA StepKeepsFlush ==
    ASSUME RegisterInv, NEW done \in BOOLEAN, NEW copDone \in BOOLEAN,
           NEW wrong \in BOOLEAN, NEW stale \in BOOLEAN,
           RegisterEdge(done, copDone, wrong, stale)
    PROVE  FlushMeetsNoRegister'
<1>1. CASE exu_mispredict_flush(wrong)
  <2>1. ex' = Bubble
    BY <1>1 DEF RegisterEdge, Capture, frontend_flush
  <2>2. cop' = Bubble
    BY <1>1 DEF RegisterEdge, Coprocess, exu_mispredict_flush, ExIs
  <2> QED BY <2>1, <2>2 DEF FlushMeetsNoRegister
<1>2. CASE ~exu_mispredict_flush(wrong)
  BY <1>2 DEF RegisterEdge, Retire, FlushMeetsNoRegister
<1> QED BY <1>1, <1>2

\* What stays in the coprocessor has not retired, and nothing retires beside it.
LEMMA StepKeepsWriteBackEmpty ==
    ASSUME RegisterInv, NEW done \in BOOLEAN, NEW copDone \in BOOLEAN,
           NEW wrong \in BOOLEAN, NEW stale \in BOOLEAN,
           RegisterEdge(done, copDone, wrong, stale)
    PROVE  CopEmptiesWriteBack'
<1> SUFFICES ASSUME cop' # Bubble PROVE wb' = Bubble
  BY DEF CopEmptiesWriteBack
<1>1. ~CopResponds /\ (cop # Bubble \/ ExIs("cop"))
  BY DEF RegisterEdge, Coprocess
<1>2. ~exu2wbu_valid(done)
  BY <1>1 DEF exu2wbu_valid, CopResponds
<1> QED BY <1>2 DEF RegisterEdge, Retire, Retires

\* What reaches write-back is what software learns; what leaves write-back
\* enters the file.
LEMMA StepKeepsFile ==
    ASSUME RegisterInv, NEW done \in BOOLEAN, NEW copDone \in BOOLEAN,
           NEW wrong \in BOOLEAN, NEW stale \in BOOLEAN,
           RegisterEdge(done, copDone, wrong, stale), RegisterTypeOK'
    PROVE  FileFollows' /\ CsrFollows'
<1>1. \A r \in Register : regfile'[r] = soft[r]
  BY DEF RegisterInv, RegisterTypeOK, RegisterEdge, WriteFile, FileFollows
<1>2. spaced' => csr' = softCsr
  <2> SUFFICES ASSUME spaced' PROVE csr' = softCsr
    OBVIOUS
  <2>1. spaced /\ ~TooClose(stale)
    BY DEF RegisterEdge
  <2>2. wb # Bubble /\ IsCsrWriter(wb.ins) => ~TrapShown(stale)
    BY <2>1 DEF TooClose
  <2>3. wb # Bubble => ~CopResponds
    BY DEF RegisterInv, CopEmptiesWriteBack, CopResponds
  <2> QED BY <2>1, <2>2, <2>3 DEF RegisterInv, RegisterEdge, WriteCsr, CsrFollows
<1>3. CASE Retires(done)
  <2>1. wb' = [ins |-> exu_ins, res |-> exu_res] /\ wb' # Bubble
    <3>1. exu_ins \in Operation /\ exu_res \in Value
      BY <1>3 DEF RegisterInv, Retires, exu2wbu_valid, exu_ins, exu_res, RegisterTypeOK, InExecute,
                  InCoprocessor
    <3>2. wb' = [ins |-> exu_ins, res |-> exu_res]
      BY <1>3 DEF RegisterEdge, Retire
    <3> QED BY <3>1, <3>2, RegisterAssumption DEF InWriteBack
  <2>2. \A r \in Register : soft'[r] = IF WritesRd(exu_ins, r) THEN exu_res ELSE soft[r]
    BY <1>3 DEF RegisterEdge, Expect
  <2>3. softCsr' = IF IsCsrWriter(exu_ins) THEN exu_res ELSE softCsr
    BY <1>3 DEF RegisterEdge, Expect
  <2>4. FileFollows'
    BY <1>1, <2>1, <2>2 DEF FileFollows, WritesRd
  <2>5. CsrFollows'
    BY <1>2, <2>1, <2>3 DEF CsrFollows, IsCsrWriter
  <2> QED BY <2>4, <2>5
<1>4. CASE ~Retires(done)
  BY <1>1, <1>2, <1>4 DEF RegisterEdge, Retire, Expect, FileFollows, CsrFollows
<1> QED BY <1>3, <1>4

\* The instruction in execute keeps its operands while it waits; the next one
\* takes them from wherever the one ahead of it has got to.
LEMMA StepKeepsOperands ==
    ASSUME RegisterInv, NEW done \in BOOLEAN, NEW copDone \in BOOLEAN,
           NEW wrong \in BOOLEAN, NEW stale \in BOOLEAN,
           RegisterEdge(done, copDone, wrong, stale), RegisterTypeOK'
    PROVE  OperandsAreLatest' /\ CsrReadsAreLatest'
<1> SUFFICES ASSUME ex' # Bubble, ~InShadow'
             PROVE  /\ ex'.src = soft'[ex'.ins.rs]
                    /\ spaced' /\ ReadsCsr(ex'.ins) => ex'.csr = softCsr'
  BY DEF OperandsAreLatest, CsrReadsAreLatest, InShadow, TrapInWriteBack, ReadsCsr
<1>1. ~frontend_flush(wrong) /\ ~pc_update /\ ~exu_mispredict_flush(wrong)
  BY DEF RegisterEdge, Capture, frontend_flush
<1>2. ~TrapInWriteBack
  BY DEF RegisterEdge, Retire, InShadow, TrapInWriteBack
<1>3. ~InShadow
  BY <1>1, <1>2 DEF InShadow
<1>4. CASE ~exu2idu_ready(done)
  <2>1. ex' = ex
    BY <1>1, <1>4 DEF RegisterEdge, Capture
  <2>2. ~exu2wbu_valid(done)
    BY <1>1, <1>4 DEF exu2idu_ready, exu2wbu_valid, exu_mispredict_flush, CopResponds
  <2>3. soft' = soft /\ softCsr' = softCsr
    BY <2>2 DEF RegisterEdge, Expect, Retires
  <2>4. spaced' => spaced
    BY DEF RegisterEdge
  <2> QED BY <1>3, <2>1, <2>3, <2>4 DEF RegisterInv, OperandsAreLatest, CsrReadsAreLatest
<1>5. CASE exu2idu_ready(done)
  <2>1. id # Bubble
    BY <1>1, <1>5 DEF RegisterEdge, Capture
  <2>2. PICK res \in Results(id, rdata(id.rs, done), csr) :
           ex' = [ins |-> id, src |-> rdata(id.rs, done), csr |-> csr, res |-> res]
    BY <1>1, <1>5, <2>1 DEF RegisterEdge, Capture
  <2>3. id.rs \in Register
    BY <2>1 DEF RegisterInv, RegisterTypeOK, Operation
  <2>4. cop = Bubble
    BY <1>5 DEF exu2idu_ready
  <2>5. exu2wbu_valid(done) <=> ex # Bubble
    BY <1>5, <2>4 DEF exu2idu_ready, exu2wbu_valid, RegisterInv, FlushMeetsNoRegister
  <2>6. Retires(done) <=> ex # Bubble
    BY <1>1, <1>2, <2>5 DEF Retires, RegisterInv, FlushMeetsNoRegister
  <2>7. rdata(id.rs, done) = soft'[id.rs]
    <3>1. CASE ex # Bubble
      <4>1. soft'[id.rs] = IF WritesRd(exu_ins, id.rs) THEN exu_res ELSE soft[id.rs]
        BY <2>3, <2>6, <3>1 DEF RegisterEdge, Expect
      <4> QED BY <2>3, <2>5, <3>1, <4>1 DEF rdata, RegisterInv, FileFollows
    <3>2. CASE ex = Bubble
      <4>1. soft' = soft
        BY <2>6, <3>2 DEF RegisterEdge, Expect
      <4> QED BY <2>3, <2>5, <3>2, <4>1 DEF rdata, RegisterInv, FileFollows
    <3> QED BY <3>1, <3>2
  <2>8. spaced' /\ ReadsCsr(id) => csr = softCsr'
    <3> SUFFICES ASSUME spaced', ReadsCsr(id) PROVE csr = softCsr'
      OBVIOUS
    <3>1. spaced /\ ~TooClose(stale)
      BY DEF RegisterEdge
    <3>2. ~(ex # Bubble /\ IsCsrWriter(ex.ins)) /\ ~(wb # Bubble /\ IsCsrWriter(wb.ins))
      BY <2>1, <3>1 DEF TooClose
    <3>3. csr = softCsr
      BY <3>1, <3>2 DEF RegisterInv, CsrFollows
    <3>4. softCsr' = softCsr
      BY <2>4, <2>6, <3>2 DEF RegisterEdge, Expect, exu_ins
    <3> QED BY <3>3, <3>4
  <2> QED BY <2>2, <2>7, <2>8
<1> QED BY <1>4, <1>5

\* Every edge, and every cycle in which nothing happens, keeps the invariant.
LEMMA RegisterStepHolds == RegisterInv /\ [RegisterNext]_registerVars => RegisterInv'
<1> SUFFICES ASSUME RegisterInv, [RegisterNext]_registerVars PROVE RegisterInv'
  OBVIOUS
<1>1. CASE RegisterNext
  <2>1. PICK done, copDone, wrong, stale \in BOOLEAN :
           RegisterEdge(done, copDone, wrong, stale)
    <3>1. \A kind : ExIs(kind) \in BOOLEAN
      BY DEF ExIs
    <3>2. (~ExIs("unit")) \in BOOLEAN /\ (cop # Bubble) \in BOOLEAN
          /\ ExIs("control") \in BOOLEAN /\ (id = Bubble) \in BOOLEAN
      BY <3>1
    <3> QED BY <1>1, <3>2, Zenon DEF RegisterNext
  <2>2. RegisterTypeOK'
    BY <2>1, StepKeepsTypes
  <2>3. FlushMeetsNoRegister'
    BY <2>1, StepKeepsFlush
  <2>4. CopEmptiesWriteBack'
    BY <2>1, StepKeepsWriteBackEmpty
  <2>5. FileFollows' /\ CsrFollows'
    BY <2>1, <2>2, StepKeepsFile
  <2>6. OperandsAreLatest' /\ CsrReadsAreLatest'
    BY <2>1, <2>2, StepKeepsOperands
  <2> QED BY <2>2, <2>3, <2>4, <2>5, <2>6 DEF RegisterInv
<1>2. CASE UNCHANGED registerVars
  BY <1>2 DEF registerVars, flowVars, valueVars, RegisterInv, RegisterTypeOK, FlushMeetsNoRegister,
              CopEmptiesWriteBack, FileFollows, CsrFollows, OperandsAreLatest,
              CsrReadsAreLatest, InShadow, TrapInWriteBack
<1> QED BY <1>1, <1>2

\* Every stage holds a value of its sort, and the constant register zero.
THEOREM RegisterTypes == RegisterSpec => []RegisterTypeOK
<1>1. RegisterInv => RegisterTypeOK
  BY DEF RegisterInv
<1> QED BY RegisterInitHolds, RegisterStepHolds, <1>1, PTL DEF RegisterSpec

\* What an instruction that takes effect worked on is the latest value of its
\* source register, wherever that value was when decode read it.
THEOREM OperandsCorrect == RegisterSpec => []OperandsAreLatest
<1>1. RegisterInv => OperandsAreLatest
  BY DEF RegisterInv
<1> QED BY RegisterInitHolds, RegisterStepHolds, <1>1, PTL DEF RegisterSpec

\* With CSR accesses apart, what an instruction reads of a CSR is what the last
\* instruction ahead of it wrote.
THEOREM CsrReadsCorrect == RegisterSpec => []CsrReadsAreLatest
<1>1. RegisterInv => CsrReadsAreLatest
  BY DEF RegisterInv
<1> QED BY RegisterInitHolds, RegisterStepHolds, <1>1, PTL DEF RegisterSpec

-----------------------------------------------------------------------------
(* ReturnStack *)

\* While no call was dropped the stack is the program's own.
Aligned == ~overflowed => /\ wr_ptr = Len(calls)
                          /\ \A i \in 1 .. wr_ptr : stack[i - 1] = calls[i]

ReturnInv == /\ ReturnTypeOK
             /\ wr_ptr <= Len(calls)
             /\ Aligned
             /\ EntriesAreOpenCalls

\* Below its bound the top of the stack is the place last written.
LEMMA TopIsLastWritten ==
    ASSUME ReturnTypeOK, wr_ptr > 0
    PROVE  top_idx = wr_ptr - 1
<1>1. RAS_DEPTH \in Nat \ {0} /\ wr_ptr \in 1 .. RAS_DEPTH
  BY ReturnStackAssumption DEF ReturnTypeOK
<1>2. \A d \in Nat \ {0} : \A k \in 0 .. d - 1 : (k + d) % d = k
  BY Z3
<1>3. (wr_ptr - 1) \in 0 .. RAS_DEPTH - 1 /\ wr_ptr + RAS_DEPTH - 1 = (wr_ptr - 1) + RAS_DEPTH
  BY <1>1
<1> QED BY <1>1, <1>2, <1>3 DEF top_idx

\* The machine starts in the invariant.
LEMMA ReturnInitHolds == ReturnInit => ReturnInv
<1> SUFFICES ASSUME ReturnInit PROVE ReturnInv
  OBVIOUS
<1>1. wr_ptr = 0 /\ calls = << >> /\ Len(calls) = 0 /\ overflowed = FALSE
      /\ stack \in [Places -> Address] /\ calls \in Seq(Address)
  BY DEF ReturnInit
<1>3. ReturnTypeOK
  <2>1. wr_ptr \in 0 .. RAS_DEPTH
    BY <1>1, ReturnStackAssumption
  <2>2. overflowed \in BOOLEAN
    BY <1>1, Zenon
  <2> QED BY <1>1, <2>1, <2>2, Zenon DEF ReturnTypeOK
<1>4. wr_ptr <= Len(calls) /\ Aligned
  BY <1>1 DEF Aligned
<1>2. EntriesAreOpenCalls
  <2>1. [i \in 1 .. 0 |-> i] \in [1 .. wr_ptr -> 1 .. Len(calls)]
    BY DEF ReturnInit
  <2>2. 1 .. wr_ptr = {}
    BY DEF ReturnInit
  <2> QED BY <2>1, <2>2 DEF EntriesAreOpenCalls
<1> QED BY <1>2, <1>3, <1>4 DEF ReturnInv

\* A call adds itself on top of both, or of the program's stack alone.
LEMMA CallHolds ==
    ASSUME ReturnInv, NEW a \in Address, Call(a)
    PROVE  ReturnInv'
<1>1. calls' = Append(calls, a) /\ Len(calls') = Len(calls) + 1 /\ calls' \in Seq(Address)
      /\ calls'[Len(calls) + 1] = a /\ \A i \in 1 .. Len(calls) : calls'[i] = calls[i]
  BY DEF ReturnInv, ReturnTypeOK, Call
<1>2. PICK f \in [1 .. wr_ptr -> 1 .. Len(calls)] :
         /\ \A i, j \in 1 .. wr_ptr : i < j => f[i] < f[j]
         /\ \A i \in 1 .. wr_ptr : stack[i - 1] = calls[f[i]]
  BY DEF ReturnInv, EntriesAreOpenCalls
<1>3. CASE wr_ptr < RAS_DEPTH
  <2>1. stack' = [stack EXCEPT ![wr_ptr] = a] /\ wr_ptr' = wr_ptr + 1
    BY <1>3 DEF Call, Push
  <2>2. wr_ptr \in Nat /\ wr_ptr \in Places /\ Len(calls) \in Nat
    BY <1>3, ReturnStackAssumption DEF ReturnInv, ReturnTypeOK, Places
  <2>3. stack' \in [Places -> Address] /\ stack'[wr_ptr] = a
        /\ \A i \in 1 .. wr_ptr : stack'[i - 1] = stack[i - 1]
    BY <1>3, <2>1, <2>2, ReturnStackAssumption DEF ReturnInv, ReturnTypeOK, Places
  <2>4. ReturnTypeOK'
    BY <1>1, <1>3, <2>1, <2>2, <2>3, ReturnStackAssumption DEF ReturnInv, ReturnTypeOK, Call
  <2>5. (wr_ptr <= Len(calls))'
    BY <1>1, <2>1, <2>2 DEF ReturnInv
  <2>6. Aligned'
    <3> SUFFICES ASSUME ~overflowed' PROVE (wr_ptr = Len(calls))' /\ \A i \in 1 .. wr_ptr' : stack'[i - 1] = calls'[i]
      BY DEF Aligned
    <3>1. wr_ptr = Len(calls) /\ \A i \in 1 .. wr_ptr : stack[i - 1] = calls[i]
      BY DEF ReturnInv, Aligned, Call
    <3>2. ASSUME NEW i \in 1 .. wr_ptr' PROVE stack'[i - 1] = calls'[i]
      <4>1. CASE i = wr_ptr + 1
        BY <1>1, <2>1, <2>2, <2>3, <3>1, <4>1
      <4>2. CASE i # wr_ptr + 1
        <5>1. i \in 1 .. wr_ptr /\ i \in 1 .. Len(calls)
          BY <2>1, <2>2, <3>1, <3>2, <4>2
        <5> QED BY <1>1, <2>3, <3>1, <5>1
      <4> QED BY <4>1, <4>2
    <3> QED BY <1>1, <2>1, <2>2, <3>1, <3>2
  <2>7. EntriesAreOpenCalls'
    <3> DEFINE g == [i \in 1 .. wr_ptr + 1 |-> IF i = wr_ptr + 1 THEN Len(calls) + 1 ELSE f[i]]
    <3>1. g \in [1 .. wr_ptr' -> 1 .. Len(calls')]
      BY <1>1, <2>1, <2>2
    <3>2. \A i, j \in 1 .. wr_ptr' : i < j => g[i] < g[j]
      BY <1>2, <2>1, <2>2
    <3>3. \A i \in 1 .. wr_ptr' : stack'[i - 1] = calls'[g[i]]
      <4> SUFFICES ASSUME NEW i \in 1 .. wr_ptr' PROVE stack'[i - 1] = calls'[g[i]]
        OBVIOUS
      <4>1. CASE i = wr_ptr + 1
        BY <1>1, <2>1, <2>2, <2>3, <4>1
      <4>2. CASE i # wr_ptr + 1
        BY <1>1, <1>2, <2>1, <2>2, <2>3, <4>2
      <4> QED BY <4>1, <4>2
    <3> HIDE DEF g
    <3> QED BY <3>1, <3>2, <3>3 DEF EntriesAreOpenCalls
  <2> QED BY <2>4, <2>5, <2>6, <2>7 DEF ReturnInv
<1>4. CASE ~(wr_ptr < RAS_DEPTH)
  <2>1. stack' = stack /\ wr_ptr' = wr_ptr /\ overflowed' = TRUE
    <3>1. wr_ptr = RAS_DEPTH
      BY <1>4, ReturnStackAssumption DEF ReturnInv, ReturnTypeOK
    <3>2. stack' = stack /\ wr_ptr' = wr_ptr
      BY <1>4 DEF Call, Push
    <3> QED BY <3>1, <3>2 DEF Call
  <2>2. wr_ptr \in Nat /\ Len(calls) \in Nat
    BY ReturnStackAssumption DEF ReturnInv, ReturnTypeOK
  <2>3. f \in [1 .. wr_ptr' -> 1 .. Len(calls')]
    BY <1>1, <2>1, <2>2
  <2>4. \A i \in 1 .. wr_ptr' : stack'[i - 1] = calls'[f[i]]
    BY <1>1, <1>2, <2>1
  <2>5. EntriesAreOpenCalls'
    BY <1>2, <2>1, <2>3, <2>4 DEF EntriesAreOpenCalls
  <2> QED BY <1>1, <2>1, <2>2, <2>5 DEF ReturnInv, ReturnTypeOK, Aligned
<1> QED BY <1>3, <1>4

\* A return takes the newest call off the program's stack, and off the other
\* one if it holds any.
LEMMA ReturnHolds ==
    ASSUME ReturnInv, Return
    PROVE  ReturnInv'
<1>1. wr_ptr \in Nat /\ Len(calls) \in Nat /\ stack' = stack
  BY ReturnStackAssumption DEF ReturnInv, ReturnTypeOK, Return, Pop
<1>2. calls' \in Seq(Address)
      /\ Len(calls') = (IF Len(calls) = 0 THEN 0 ELSE Len(calls) - 1)
      /\ \A i \in 1 .. Len(calls) - 1 : calls'[i] = calls[i]
  BY DEF ReturnInv, ReturnTypeOK, Return
<1>3. wr_ptr' = IF wr_ptr > 0 THEN wr_ptr - 1 ELSE 0
  BY <1>1 DEF Return, Pop
<1>4. ReturnTypeOK'
  BY <1>1, <1>2, <1>3, ReturnStackAssumption DEF ReturnInv, ReturnTypeOK, Return
<1>5. (wr_ptr <= Len(calls))'
  BY <1>1, <1>2, <1>3 DEF ReturnInv
<1>6. Aligned'
  <2>1. CASE ~overflowed
    <3>1. wr_ptr = Len(calls) /\ \A i \in 1 .. wr_ptr : stack[i - 1] = calls[i]
      BY <2>1 DEF ReturnInv, Aligned
    <3>2. wr_ptr' = Len(calls')
      BY <1>1, <1>2, <1>3, <3>1
    <3>3. ASSUME NEW i \in 1 .. wr_ptr' PROVE stack'[i - 1] = calls'[i]
      <4>1. i \in 1 .. wr_ptr /\ i \in 1 .. Len(calls) - 1
        BY <1>1, <1>3, <3>1, <3>3
      <4> QED BY <1>1, <1>2, <3>1, <4>1
    <3> QED BY <3>2, <3>3 DEF Aligned
  <2>2. CASE overflowed /\ Len(calls) <= 1
    <3>0. wr_ptr <= Len(calls)
      BY DEF ReturnInv
    <3>1. wr_ptr' = 0
      BY <1>1, <1>3, <2>2, <3>0
    <3>2. Len(calls') = 0
      <4>1. Len(calls) = 0 \/ Len(calls) = 1
        <5>1. \A n \in Nat : n <= 1 => n = 0 \/ n = 1
          OBVIOUS
        <5>2. Len(calls) <= 1
          BY <2>2
        <5> QED BY <1>1, <5>1, <5>2
      <4>2. CASE Len(calls) = 0
        BY <1>2, <4>2
      <4>3. CASE Len(calls) = 1
        BY <1>2, <4>3
      <4> QED BY <4>1, <4>2, <4>3
    <3> QED BY <3>1, <3>2 DEF Aligned
  <2>3. CASE overflowed /\ Len(calls) > 1
    BY <2>3 DEF Return, Aligned
  <2> QED BY <1>1, <2>1, <2>2, <2>3
<1>7. EntriesAreOpenCalls'
  <2>1. PICK f \in [1 .. wr_ptr -> 1 .. Len(calls)] :
           /\ \A i, j \in 1 .. wr_ptr : i < j => f[i] < f[j]
           /\ \A i \in 1 .. wr_ptr : stack[i - 1] = calls[f[i]]
    BY DEF ReturnInv, EntriesAreOpenCalls
  <2> DEFINE g == [i \in 1 .. wr_ptr' |-> f[i]]
  <2>2. \A i \in 1 .. wr_ptr' : i \in 1 .. wr_ptr /\ f[i] \in 1 .. Len(calls) - 1
    <3> SUFFICES ASSUME NEW i \in 1 .. wr_ptr' PROVE i \in 1 .. wr_ptr /\ f[i] \in 1 .. Len(calls) - 1
      OBVIOUS
    <3>1. i \in 1 .. wr_ptr /\ wr_ptr \in 1 .. wr_ptr /\ i < wr_ptr
      BY <1>1, <1>3
    <3>2. f[i] \in 1 .. Len(calls) /\ f[wr_ptr] \in 1 .. Len(calls) /\ f[i] < f[wr_ptr]
      BY <2>1, <3>1
    <3> QED BY <1>1, <3>1, <3>2
  <2>3. g \in [1 .. wr_ptr' -> 1 .. Len(calls')]
    BY <1>1, <1>2, <2>2
  <2>4. \A i, j \in 1 .. wr_ptr' : i < j => g[i] < g[j]
    BY <2>1, <2>2
  <2>5. \A i \in 1 .. wr_ptr' : stack'[i - 1] = calls'[g[i]]
    BY <1>1, <1>2, <2>1, <2>2
  <2> HIDE DEF g
  <2> QED BY <2>3, <2>4, <2>5 DEF EntriesAreOpenCalls
<1> QED BY <1>4, <1>5, <1>6, <1>7 DEF ReturnInv

\* Every call and return, and every cycle without one, keeps the invariant.
LEMMA ReturnStepHolds == ReturnInv /\ [ReturnNext]_returnVars => ReturnInv'
<1> SUFFICES ASSUME ReturnInv, [ReturnNext]_returnVars PROVE ReturnInv'
  OBVIOUS
<1>1. CASE ReturnNext
  BY <1>1, CallHolds, ReturnHolds DEF ReturnNext
<1>2. CASE UNCHANGED returnVars
  BY <1>2 DEF returnVars, ReturnInv, ReturnTypeOK, Aligned, EntriesAreOpenCalls
<1> QED BY <1>1, <1>2

\* The registers hold what fits them.
THEOREM ReturnTypes == ReturnSpec => []ReturnTypeOK
<1>1. ReturnInv => ReturnTypeOK
  BY DEF ReturnInv
<1> QED BY ReturnInitHolds, ReturnStepHolds, <1>1, PTL DEF ReturnSpec

\* A return is predicted where it goes, unless the program nested deeper than
\* the stack since it last had no call open.
THEOREM ReturnsPredicted == ReturnSpec => []ReturnIsPredicted
<1>1. ReturnInv => ReturnIsPredicted
  <2> SUFFICES ASSUME ReturnInv, ~overflowed, calls # << >>
               PROVE  predict_valid /\ predict_target = calls[Len(calls)]
    BY DEF ReturnIsPredicted
  <2>1. wr_ptr = Len(calls) /\ wr_ptr \in Nat /\ wr_ptr > 0
    BY DEF ReturnInv, ReturnTypeOK, Aligned
  <2>2. stack[wr_ptr - 1] = calls[wr_ptr]
    BY <2>1 DEF ReturnInv, Aligned
  <2>3. top_idx = wr_ptr - 1
    BY <2>1, TopIsLastWritten DEF ReturnInv
  <2> QED BY <2>1, <2>2, <2>3 DEF predict_valid, predict_target
<1> QED BY ReturnInitHolds, ReturnStepHolds, <1>1, PTL DEF ReturnSpec

\* What the stack holds are returns of calls still open, in order, however deep
\* the program nests.
THEOREM EntriesOpen == ReturnSpec => []EntriesAreOpenCalls
<1>1. ReturnInv => EntriesAreOpenCalls
  BY DEF ReturnInv
<1> QED BY ReturnInitHolds, ReturnStepHolds, <1>1, PTL DEF ReturnSpec

-----------------------------------------------------------------------------
(* Division with remainder *)

\* Division with remainder, and what a multiple of the divisor adds to it.
LEMMA DivMod ==
    ASSUME NEW m \in Nat \ {0}, NEW x \in Int
    PROVE  /\ x \div m \in Int /\ x % m \in Int /\ 0 <= x % m /\ x % m < m
           /\ x = m * (x \div m) + (x % m)
<1>1. x \div m \in Int
  BY SMT
<1>2. x % m \in 0 .. m - 1
  BY SMT
<1>3. x = m * (x \div m) + (x % m)
  BY SMT
<1> QED BY <1>1, <1>2, <1>3, SMT

\* Only one quotient leaves a remainder below the divisor.
LEMMA DivModUnique ==
    ASSUME NEW m \in Nat \ {0}, NEW q \in Int, NEW r \in Int, 0 <= r, r < m
    PROVE  (m * q + r) \div m = q /\ (m * q + r) % m = r
BY SMT

\* A multiple of the divisor does not change the remainder.
LEMMA ModShift ==
    ASSUME NEW m \in Nat \ {0}, NEW x \in Int, NEW k \in Int
    PROVE  (x + m * k) % m = x % m
<1>1. /\ x = m * (x \div m) + (x % m)
      /\ x \div m \in Int /\ x % m \in Int /\ 0 <= x % m /\ x % m < m
  BY DivMod
<1> DEFINE q == x \div m
           r == x % m
<1>2. (m * (q + k) + r) % m = r
  BY <1>1, DivModUnique
<1> HIDE DEF q, r
<1>3. q \in Int /\ r \in Int /\ x = m * q + r
  BY <1>1 DEF q, r
<1>4. x + m * k = m * (q + k) + r
  BY <1>3, SMT
<1> QED BY <1>2, <1>4 DEF r

\* (The provers do not know -0.)
LEMMA Minus ==
    ASSUME NEW x \in Int
    PROVE  -x \in Int /\ -x = 0 - x
BY SMT

\* The divisor itself, added once.
LEMMA ModShiftOnce ==
    ASSUME NEW m \in Nat \ {0}, NEW x \in Int
    PROVE  (x + m) % m = x % m
<1> DEFINE one == 1
<1>1. one \in Int /\ m * one = m
  OBVIOUS
<1> HIDE DEF one
<1>2. (x + m * one) % m = x % m
  BY <1>1, ModShift
<1> QED BY <1>1, <1>2

\* A number below the divisor is its own remainder.
LEMMA SmallMod ==
    ASSUME NEW m \in Nat \ {0}, NEW x \in Nat, x < m
    PROVE  x % m = x /\ x \div m = 0
BY SMT

\* The product of naturals.
LEMMA Products ==
    ASSUME NEW a \in Nat, NEW b \in Nat
    PROVE  a * b \in Nat /\ a * b = b * a
BY SMT

\* The high word of a number taken modulo two words.
LEMMA HighWord ==
    ASSUME NEW m \in Nat \ {0}, NEW x \in Int
    PROVE  (x % (m * m)) \div m = (x \div m) % m
<1> DEFINE mm == m * m
           q == x \div mm
           r == x % mm
           h == r \div m
           l == r % m
<1>1. mm \in Nat \ {0}
  BY SMT
<1>2. q \in Int /\ r \in Int /\ 0 <= r /\ r < mm /\ x = mm * q + r
  BY <1>1, DivMod
<1>3. h \in Int /\ l \in Int /\ 0 <= l /\ l < m /\ r = m * h + l
  <2> HIDE DEF r
  <2> QED BY <1>2, DivMod
<1> HIDE DEF q, r, h, l
<1>4. 0 <= h /\ h < m
  <2>1. CASE h < 0
    <3>1. m * h <= -m
      BY <1>3, <2>1, SMT
    <3> QED BY <1>2, <1>3, <3>1, SMT
  <2>2. CASE h >= m
    <3>1. m * h >= m * m
      BY <1>3, <2>2, SMT
    <3> QED BY <1>2, <1>3, <3>1, SMT DEF mm
  <2> QED BY <1>3, <2>1, <2>2, SMT
<1>5. x = m * (m * q + h) + l
  BY <1>2, <1>3, SMT
<1>6. m * q + h \in Int
  BY <1>2, <1>3, SMT
<1>7. x \div m = m * q + h
  BY <1>3, <1>5, <1>6, DivModUnique
<1>8. (m * q + h) % m = h
  BY <1>2, <1>3, <1>4, DivModUnique
<1> QED BY <1>7, <1>8 DEF h, r, mm

-----------------------------------------------------------------------------
(* MulDiv: powers of two, at the width of the code's words *)

\* What the proofs use of the powers of two: they double, and two of them make
\* the word that the quotient register is.
PowersOfTwo ==
    /\ 2^0 = 1 /\ 2^(WIDTH - 1) \in Nat /\ 2^(WIDTH - 1) > 1
    /\ 2^WIDTH = 2 * 2^(WIDTH - 1)
    /\ 2^(WIDTH + 1) = 2 * 2^WIDTH /\ 2^(WIDTH + 2) = 4 * 2^WIDTH
    /\ \A k \in 0 .. WIDTH - 1 :
          /\ 2^k \in Nat \ {0} /\ 2^(WIDTH - (k + 1)) \in Nat \ {0}
          /\ 2^(k + 1) = 2 * 2^k /\ 2^(WIDTH - k) = 2 * 2^(WIDTH - (k + 1))
          /\ 2^k * 2^(WIDTH - (k + 1)) = 2^(WIDTH - 1)

\* The provers know a power only when it is written out.
LEMMA PowerFacts ==
    ASSUME NEW k \in 0 .. 31
    PROVE  /\ 2^k \in Nat \ {0} /\ 2^(32 - (k + 1)) \in Nat \ {0}
           /\ 2^(k + 1) = 2 * 2^k /\ 2^(32 - k) = 2 * 2^(32 - (k + 1))
           /\ 2^k * 2^(32 - (k + 1)) = 2^31
<1>1. CASE k = 0
  BY <1>1, SMT
<1>2. CASE k = 1
  BY <1>2, SMT
<1>3. CASE k = 2
  BY <1>3, SMT
<1>4. CASE k = 3
  BY <1>4, SMT
<1>5. CASE k = 4
  BY <1>5, SMT
<1>6. CASE k = 5
  BY <1>6, SMT
<1>7. CASE k = 6
  BY <1>7, SMT
<1>8. CASE k = 7
  BY <1>8, SMT
<1>9. CASE k = 8
  BY <1>9, SMT
<1>10. CASE k = 9
  BY <1>10, SMT
<1>11. CASE k = 10
  BY <1>11, SMT
<1>12. CASE k = 11
  BY <1>12, SMT
<1>13. CASE k = 12
  BY <1>13, SMT
<1>14. CASE k = 13
  BY <1>14, SMT
<1>15. CASE k = 14
  BY <1>15, SMT
<1>16. CASE k = 15
  BY <1>16, SMT
<1>17. CASE k = 16
  BY <1>17, SMT
<1>18. CASE k = 17
  BY <1>18, SMT
<1>19. CASE k = 18
  BY <1>19, SMT
<1>20. CASE k = 19
  BY <1>20, SMT
<1>21. CASE k = 20
  BY <1>21, SMT
<1>22. CASE k = 21
  BY <1>22, SMT
<1>23. CASE k = 22
  BY <1>23, SMT
<1>24. CASE k = 23
  BY <1>24, SMT
<1>25. CASE k = 24
  BY <1>25, SMT
<1>26. CASE k = 25
  BY <1>26, SMT
<1>27. CASE k = 26
  BY <1>27, SMT
<1>28. CASE k = 27
  BY <1>28, SMT
<1>29. CASE k = 28
  BY <1>29, SMT
<1>30. CASE k = 29
  BY <1>30, SMT
<1>31. CASE k = 30
  BY <1>31, SMT
<1>32. CASE k = 31
  BY <1>32, SMT
<1> QED BY <1>1, <1>2, <1>3, <1>4, <1>5, <1>6, <1>7, <1>8, <1>9, <1>10,
           <1>11, <1>12, <1>13, <1>14, <1>15, <1>16, <1>17, <1>18, <1>19, <1>20,
           <1>21, <1>22, <1>23, <1>24, <1>25, <1>26, <1>27, <1>28, <1>29, <1>30,
           <1>31, <1>32, SMT

\* The code's words have 32 bits.
LEMMA WordPowers == ASSUME WIDTH = 32 PROVE PowersOfTwo
<1>1. 2^0 = 1
  BY SMT
<1>2. 2^31 \in Nat /\ 2^31 > 1
  BY SMT
<1>3. 2^32 = 2 * 2^31
  BY SMT
<1>4. 2^33 = 2 * 2^32
  BY SMT
<1>5. 2^34 = 4 * 2^32
  BY SMT
<1>6. WIDTH - 1 = 31 /\ WIDTH + 1 = 33 /\ WIDTH + 2 = 34
  BY SMT
<1>7. ASSUME NEW k \in 0 .. WIDTH - 1
      PROVE  /\ 2^k \in Nat \ {0} /\ 2^(WIDTH - (k + 1)) \in Nat \ {0}
             /\ 2^(k + 1) = 2 * 2^k /\ 2^(WIDTH - k) = 2 * 2^(WIDTH - (k + 1))
             /\ 2^k * 2^(WIDTH - (k + 1)) = 2^(WIDTH - 1)
  <2>1. k \in 0 .. 31
    BY SMT
  <2>2. /\ 2^k \in Nat \ {0} /\ 2^(32 - (k + 1)) \in Nat \ {0}
        /\ 2^(k + 1) = 2 * 2^k /\ 2^(32 - k) = 2 * 2^(32 - (k + 1))
        /\ 2^k * 2^(32 - (k + 1)) = 2^31
    BY <2>1, PowerFacts, Zenon
  <2> QED BY <1>6, <2>2, Zenon
<1>8. 2^WIDTH = 2 * 2^(WIDTH - 1) /\ 2^(WIDTH + 1) = 2 * 2^WIDTH /\ 2^(WIDTH + 2) = 4 * 2^WIDTH
  BY <1>3, <1>4, <1>5, <1>6, Zenon
<1>9. 2^(WIDTH - 1) \in Nat /\ 2^(WIDTH - 1) > 1
  BY <1>2, <1>6, Zenon
<1> QED BY <1>1, <1>7, <1>8, <1>9, Zenon DEF PowersOfTwo

-----------------------------------------------------------------------------
(* MulDiv: an iteration of the divider *)

\* The bit that leaves the quotient register: the top one of the dividend's rest.
LEMMA HeadBit ==
    ASSUME NEW P \in Nat \ {0}, NEW R \in Nat \ {0},
           NEW L \in Nat, L < 2 * R, NEW Q \in Nat, Q < P
    PROVE  \E bit \in {0, 1}, M \in Nat :
              /\ M < R /\ L = bit * R + M
              /\ M * P + Q \in Nat /\ M * P + Q < P * R
              /\ L * P + Q = (P * R) * bit + (M * P + Q)
<1> DEFINE bit == IF L >= R THEN 1 ELSE 0
           M == L - bit * R
<1>1. bit \in {0, 1} /\ M \in Nat /\ M < R /\ L = bit * R + M
  BY SMT
<1> HIDE DEF bit, M
<1>2. L * P = (P * R) * bit + M * P
  BY <1>1, SMT
<1>3. M * P \in Nat /\ P * R \in Nat
  BY <1>1, Products
<1>4. (R - 1 - M) * P \in Nat
  BY <1>1, Products, SMT
<1>5. (R - 1 - M) * P = P * R - P - M * P
  BY <1>1, SMT
<1>6. M * P + Q < P * R
  BY <1>3, <1>4, <1>5, SMT
<1>7. M * P + Q \in Nat
  BY <1>3, SMT
<1>8. L * P + Q = (P * R) * bit + (M * P + Q)
  BY <1>1, <1>2, <1>3, SMT
<1> QED BY <1>1, <1>6, <1>7, <1>8

\* An iteration of the divider on the words of its invariant.
Divided(A, D, P, R, q, rem) ==
    \E Q, T, L, rho \in Nat :
        /\ A = T * R + L /\ L < R
        /\ T = D * Q + rho /\ rho < D /\ Q < P
        /\ q = L * P + Q
        /\ rem = rho \/ rem = rho - D + 2^(WIDTH + 2)

\* The top bit of the partial remainder tells which half of its range it is in.
LEMMA SignBit ==
    ASSUME PowersOfTwo, NEW rem \in Nat, rem < 2^(WIDTH + 2)
    PROVE  RemNegative(rem) <=> rem >= 2^(WIDTH + 1)
<1> DEFINE m == 2^(WIDTH + 1)
<1>1. m \in Nat \ {0} /\ 2^(WIDTH + 2) = 2 * m
  BY SMT DEF PowersOfTwo
<1>2. RemNegative(rem) <=> (rem \div m) % 2 = 1
  BY DEF RemNegative, Bit
<1> HIDE DEF m
<1>3. ASSUME rem < m
      PROVE  ~RemNegative(rem)
  <2>1. rem \div m = 0
    BY <1>1, <1>3, SmallMod
  <2>2. 0 % 2 # 1
    BY SMT
  <2> QED BY <1>2, <2>1, <2>2, Zenon
<1>4. ASSUME rem >= m
      PROVE  RemNegative(rem)
  <2>1. rem - m \in Int /\ 0 <= rem - m /\ rem - m < m
    BY <1>1, <1>4, SMT
  <2>2. (m * 1 + (rem - m)) \div m = 1
    BY <1>1, <2>1, DivModUnique
  <2>3. m * 1 + (rem - m) = rem
    BY <1>1, SMT
  <2>4. rem \div m = 1
    BY <2>2, <2>3
  <2>5. 1 % 2 = 1
    BY SMT
  <2> QED BY <1>2, <2>4, <2>5, Zenon
<1> QED BY <1>1, <1>3, <1>4, SMT DEF m

\* The next partial remainder: of either form, the doubled remainder with the
\* divisor taken off, once.
LEMMA NextRemainder ==
    ASSUME PowersOfTwo, NEW D \in Word, NEW rho \in Nat, rho < D, NEW bit \in {0, 1},
           NEW q, Bit(q, WIDTH - 1) = bit, NEW rem,
           rem = rho \/ rem = rho - D + 2^(WIDTH + 2),
           NEW y, y = (2 * rho + bit) - D
    PROVE  /\ next_rem(rem, q, D) = IF y >= 0 THEN y ELSE y + 2^(WIDTH + 2)
           /\ RemNegative(next_rem(rem, q, D)) <=> y < 0
<1> DEFINE W == 2^WIDTH
           W2 == 2^(WIDTH + 1)
           m == 2^(WIDTH + 2)
<1>1. W \in Nat \ {0} /\ W2 = 2 * W /\ m = 4 * W /\ m \in Nat \ {0}
  BY SMT DEF PowersOfTwo
<1>2. D \in Nat /\ D < W
  BY <1>1, SMT DEF Word
<1>3. /\ RemNegative(rem) => next_rem(rem, q, D) = ((2 * rem + bit) + D) % m
      /\ ~RemNegative(rem) => next_rem(rem, q, D) = ((2 * rem + bit) - D) % m
  <2>1. ASSUME RemNegative(rem)
        PROVE  next_rem(rem, q, D) = ((2 * rem + Bit(q, WIDTH - 1)) + D) % 2^(WIDTH + 2)
    BY <2>1, Zenon DEF next_rem, Low
  <2>2. ASSUME ~RemNegative(rem)
        PROVE  next_rem(rem, q, D) = ((2 * rem + Bit(q, WIDTH - 1)) - D) % 2^(WIDTH + 2)
    BY <2>2, Zenon DEF next_rem, Low
  <2> QED BY <2>1, <2>2, Zenon
<1>4. \A z \in Nat : z < m => (RemNegative(z) <=> z >= W2)
  BY SignBit
<1> HIDE DEF W, W2, m
<1>5. y \in Int /\ y < W /\ -W < y
  BY <1>1, <1>2, SMT
<1>6. next_rem(rem, q, D) = y % m
  <2>1. CASE rem = rho
    <3>1. ~RemNegative(rem)
      BY <1>1, <1>2, <1>4, <2>1, SMT
    <3> QED BY <1>3, <2>1, <3>1
  <2>2. CASE rem = rho - D + m
    <3>1. rem \in Nat /\ rem < m /\ rem >= W2
      BY <1>1, <1>2, <2>2, SMT
    <3>2. RemNegative(rem)
      BY <1>4, <3>1
    <3>3. (2 * rem + bit) + D = y + m * 2
      BY <1>1, <1>2, <2>2, SMT
    <3>4. (y + m * 2) % m = y % m
      <4>1. 2 \in Int
        OBVIOUS
      <4> QED BY <1>1, <1>5, <4>1, ModShift
    <3> QED BY <1>3, <3>2, <3>3, <3>4
  <2> QED BY <2>1, <2>2 DEF m
<1>7. CASE y >= 0
  <2>1. y \in Nat /\ y < m /\ ~(y >= W2)
    BY <1>1, <1>5, <1>7, SMT
  <2>2. y % m = y
    BY <1>1, <2>1, SmallMod
  <2>3. ~RemNegative(y)
    BY <1>4, <2>1
  <2>4. ~(y < 0)
    BY <1>5, <1>7, SMT
  <2> QED BY <1>6, <1>7, <2>2, <2>3, <2>4 DEF m
<1>8. CASE ~(y >= 0)
  <2>1. y + m \in Nat /\ y + m < m /\ y + m >= W2 /\ y < 0
    BY <1>1, <1>5, <1>8, SMT
  <2>3. y % m = y + m
    <3>1. (y + m) % m = y % m
      BY <1>1, <1>5, ModShiftOnce
    <3>2. (y + m) % m = y + m
      BY <1>1, <2>1, SmallMod
    <3> QED BY <3>1, <3>2
  <2>4. RemNegative(y + m)
    BY <1>4, <2>1
  <2> QED BY <1>6, <1>8, <2>1, <2>3, <2>4 DEF m
<1> QED BY <1>7, <1>8

\* The quotient register shifts its top bit out and the new bit in.
LEMMA NextQuotient ==
    ASSUME PowersOfTwo, NEW bit \in {0, 1}, NEW X \in Nat, X < 2^(WIDTH - 1),
           NEW q, q = 2^(WIDTH - 1) * bit + X, NEW rem
    PROVE  /\ Bit(q, WIDTH - 1) = bit
           /\ next_q(q, rem) = 2 * X + (IF RemNegative(rem) THEN 0 ELSE 1)
<1> DEFINE H == 2^(WIDTH - 1)
           W == 2^WIDTH
<1>1. H \in Nat \ {0} /\ W = 2 * H /\ W \in Nat \ {0}
  BY SMT DEF PowersOfTwo
<1>2. Bit(q, WIDTH - 1) = (q \div H) % 2 /\ Low(2 * q, WIDTH) = (2 * q) % W
  BY DEF Bit, Low
<1>3. q = H * bit + X /\ X < H
  OBVIOUS
<1> HIDE DEF H, W
<1>4. q \div H = bit
  BY <1>1, <1>3, DivModUnique
<1>5. bit % 2 = bit
  BY SMT
<1>6. 2 * q = W * bit + 2 * X /\ 2 * X \in Int /\ 0 <= 2 * X /\ 2 * X < W
  BY <1>1, <1>3, SMT
<1>7. (2 * q) % W = 2 * X
  <2> DEFINE Y == 2 * X
  <2>1. 2 * q = W * bit + Y /\ Y \in Int /\ 0 <= Y /\ Y < W /\ bit \in Int
    BY <1>6
  <2> HIDE DEF Y
  <2>2. (W * bit + Y) % W = Y
    BY <1>1, <2>1, DivModUnique
  <2> QED BY <2>1, <2>2 DEF Y
<1> QED BY <1>2, <1>4, <1>5, <1>7 DEF next_q

\* An iteration moves one bit of the dividend from the part that waits to the part
\* that is divided.
LEMMA IterationDivides ==
    ASSUME PowersOfTwo, NEW A \in Nat, NEW D \in Word, NEW k \in 0 .. WIDTH - 1,
           NEW q, NEW rem, Divided(A, D, 2^k, 2^(WIDTH - k), q, rem)
    PROVE  LET r == next_rem(rem, q, D)
           IN Divided(A, D, 2^(k + 1), 2^(WIDTH - (k + 1)), next_q(q, r), r)
<1> DEFINE P == 2^k
           R == 2^(WIDTH - (k + 1))
           m == 2^(WIDTH + 2)
           r == next_rem(rem, q, D)
<1>1. /\ P \in Nat \ {0} /\ R \in Nat \ {0}
      /\ 2^(k + 1) = 2 * P /\ 2^(WIDTH - k) = 2 * R /\ P * R = 2^(WIDTH - 1)
  BY Zenon DEF PowersOfTwo
<1>2. D \in Nat /\ m \in Nat
  BY SMT DEF Word, PowersOfTwo
<1>3. PICK Q \in Nat, T \in Nat, L \in Nat, rho \in Nat :
         /\ A = T * (2 * R) + L /\ L < 2 * R
         /\ T = D * Q + rho /\ rho < D /\ Q < P
         /\ q = L * P + Q
         /\ rem = rho \/ rem = rho - D + m
  BY <1>1, Zenon DEF Divided
<1> HIDE DEF P, R, m, r
<1>4. PICK bit \in {0, 1}, M \in Nat :
         /\ M < R /\ L = bit * R + M
         /\ M * P + Q \in Nat /\ M * P + Q < P * R
         /\ L * P + Q = (P * R) * bit + (M * P + Q)
  BY <1>1, <1>3, HeadBit
<1> DEFINE y == (2 * rho + bit) - D
           c == IF y >= 0 THEN 1 ELSE 0
<1>5. /\ Bit(q, WIDTH - 1) = bit
      /\ next_q(q, r) = 2 * (M * P + Q) + (IF RemNegative(r) THEN 0 ELSE 1)
  <2> DEFINE X == M * P + Q
  <2>1. X \in Nat /\ X < 2^(WIDTH - 1) /\ q = 2^(WIDTH - 1) * bit + X
    BY <1>1, <1>3, <1>4
  <2> HIDE DEF X
  <2>2. Bit(q, WIDTH - 1) = bit /\ next_q(q, r) = 2 * X + (IF RemNegative(r) THEN 0 ELSE 1)
    BY <2>1, NextQuotient
  <2> QED BY <2>2 DEF X
<1>6. /\ r = IF y >= 0 THEN y ELSE y + m
      /\ RemNegative(r) <=> y < 0
  <2>1. y = (2 * rho + bit) - D
    OBVIOUS
  <2> HIDE DEF y
  <2>2. /\ rho < D /\ Bit(q, WIDTH - 1) = bit
        /\ rem = rho \/ rem = rho - D + 2^(WIDTH + 2)
    BY <1>3, <1>5 DEF m
  <2>3. /\ next_rem(rem, q, D) = IF y >= 0 THEN y ELSE y + 2^(WIDTH + 2)
        /\ RemNegative(next_rem(rem, q, D)) <=> y < 0
    BY <2>1, <2>2, NextRemainder, SMTT(60)
  <2> QED BY <2>3 DEF r, m
<1>7. y \in Int
  BY <1>2, SMT
<1>8. next_q(q, r) = 2 * (M * P + Q) + c
  BY <1>5, <1>6, <1>7, SMT
<1> DEFINE rho1 == IF y >= 0 THEN y ELSE y + D
<1>9. rho1 \in Nat /\ rho1 < D
  BY <1>2, <1>3, SMT
<1>10. r = rho1 \/ r = rho1 - D + m
  BY <1>2, <1>6, <1>7, SMT
<1>11. 2 * rho + bit = D * c + rho1
  BY <1>2, SMT
<1>12. c \in {0, 1}
  OBVIOUS
<1> HIDE DEF y, c, rho1
<1>13. 2 * T + bit \in Nat /\ 2 * Q + c \in Nat /\ 2 * Q + c < 2 * P
  BY <1>1, <1>3, <1>12, SMT
<1>14. A = (2 * T + bit) * R + M
  BY <1>1, <1>3, <1>4, SMT
<1>15. 2 * T + bit = D * (2 * Q + c) + rho1
  <2>1. D * (2 * Q + c) = 2 * (D * Q) + D * c
    BY <1>2, <1>12, SMT
  <2>2. D * Q \in Nat /\ D * c \in Nat
    BY <1>2, <1>12, Products, SMT
  <2> QED BY <1>3, <1>9, <1>11, <2>1, <2>2, SMT
<1>16. next_q(q, r) = M * (2 * P) + (2 * Q + c)
  BY <1>1, <1>8, <1>12, SMT
<1> DEFINE Q1 == 2 * Q + c
           T1 == 2 * T + bit
<1>17. /\ Q1 \in Nat /\ T1 \in Nat /\ A = T1 * R + M /\ M < R
       /\ T1 = D * Q1 + rho1 /\ rho1 < D /\ Q1 < 2 * P
       /\ next_q(q, r) = M * (2 * P) + Q1
       /\ r = rho1 \/ r = rho1 - D + m
  BY <1>4, <1>9, <1>10, <1>13, <1>14, <1>15, <1>16
<1> HIDE DEF Q1, T1
<1>18. Divided(A, D, 2 * P, R, next_q(q, r), r)
  BY <1>9, <1>17, Zenon DEF Divided, m
<1> QED BY <1>1, <1>18 DEF P, R, r

-----------------------------------------------------------------------------
(* MulDiv: words and how they are read *)

\* What the proofs use of the width of a word.
LEMMA WordSizes ==
    ASSUME PowersOfTwo
    PROVE  /\ 2^WIDTH \in Nat \ {0} /\ 2^(WIDTH - 1) \in Nat \ {0, 1}
           /\ 2^WIDTH = 2 * 2^(WIDTH - 1)
           /\ 2^(WIDTH + 2) \in Nat \ {0}
           /\ 2^(WIDTH + 2) = 4 * 2^WIDTH
           /\ 2^WIDTH * 2^WIDTH \in Nat \ {0}
BY SMT DEF PowersOfTwo

\* The low bits of an integer are a word.
LEMMA LowIsWord ==
    ASSUME PowersOfTwo, NEW x \in Int
    PROVE  Low(x, WIDTH) \in Word
<1> DEFINE W == 2^WIDTH
<1>1. W \in Nat \ {0}
  BY WordSizes
<1> HIDE DEF W
<1>2. x % W \in 0 .. W - 1
  BY <1>1, DivMod
<1> QED BY <1>2 DEF Low, Word, W

\* A word is its own low bits.
LEMMA LowOfWord ==
    ASSUME PowersOfTwo, NEW x \in Word
    PROVE  Low(x, WIDTH) = x
<1> DEFINE W == 2^WIDTH
<1>1. W \in Nat \ {0} /\ x \in Nat /\ x < W
  BY WordSizes, SMT DEF Word
<1> HIDE DEF W
<1>2. x % W = x
  BY <1>1, SmallMod
<1> QED BY <1>2 DEF Low, W

\* The negation of a word: its complement to the modulus, and zero for zero.
LEMMA NegatedWord ==
    ASSUME PowersOfTwo, NEW x \in Word
    PROVE  Negate(x) \in Word /\ Negate(x) = IF x = 0 THEN 0 ELSE 2^WIDTH - x
<1> DEFINE W == 2^WIDTH
<1>1. W \in Nat \ {0} /\ x \in Nat /\ x < W
  BY WordSizes, SMT DEF Word
<1>2. Negate(x) = (-x) % W
  BY DEF Negate, Low
<1> HIDE DEF W
<1>3. CASE x = 0
  <2>1. 0 \in Nat /\ 0 < W
    BY <1>1
  <2>3. -x = 0
    <3>1. -x = 0 - x
      BY <1>1, Minus
    <3>2. 0 - x = 0
      BY <1>3
    <3> QED BY <3>1, <3>2, Zenon
  <2>2. 0 % W = 0
    BY <1>1, <2>1, SmallMod
  <2> QED BY <1>1, <1>2, <1>3, <2>1, <2>2, <2>3 DEF Word, W
<1>4. CASE x # 0
  <2> DEFINE y == -x
  <2>1. y \in Int /\ y + W = W - x /\ W - x \in Nat /\ W - x < W
    BY <1>1, <1>4
  <2> HIDE DEF y
  <2>2. (y + W) % W = y % W
    BY <1>1, <2>1, ModShiftOnce
  <2>3. (W - x) % W = W - x
    BY <1>1, <2>1, SmallMod
  <2>4. y % W = W - x
    BY <2>1, <2>2, <2>3
  <2>5. Negate(x) = W - x
    BY <1>2, <2>4 DEF y
  <2> QED BY <1>1, <1>4, <2>1, <2>5 DEF Word, W
<1> QED BY <1>3, <1>4

\* The upper half of the words reads as negative numbers.
LEMMA SignOfWord ==
    ASSUME PowersOfTwo, NEW x \in Word
    PROVE  /\ Negative(x) <=> x >= 2^(WIDTH - 1)
           /\ Signed(x) \in Int
           /\ Signed(x) = IF x >= 2^(WIDTH - 1) THEN x - 2^WIDTH ELSE x
<1> DEFINE H == 2^(WIDTH - 1)
           W == 2^WIDTH
<1>1. H \in Nat \ {0} /\ W = 2 * H /\ x \in Nat /\ x < W
  BY WordSizes, SMT DEF Word
<1>2. Negative(x) <=> (x \div H) % 2 = 1
  BY DEF Negative, Bit
<1> HIDE DEF H, W
<1>3. ASSUME x < H
      PROVE  ~Negative(x)
  <2>1. x \div H = 0
    BY <1>1, <1>3, SmallMod
  <2>2. 0 % 2 # 1
    BY SMT
  <2> QED BY <1>2, <2>1, <2>2, Zenon
<1>4. ASSUME x >= H
      PROVE  Negative(x)
  <2>1. x - H \in Int /\ 0 <= x - H /\ x - H < H
    BY <1>1, <1>4, SMT
  <2>2. (H * 1 + (x - H)) \div H = 1
    BY <1>1, <2>1, DivModUnique
  <2>3. H * 1 + (x - H) = x
    BY <1>1, SMT
  <2>4. x \div H = 1
    BY <2>2, <2>3
  <2>5. 1 % 2 = 1
    BY SMT
  <2> QED BY <1>2, <2>4, <2>5, Zenon
<1>5. Negative(x) <=> x >= H
  BY <1>1, <1>3, <1>4, SMT
<1>6. Signed(x) = IF x >= H THEN x - W ELSE x
  BY <1>5, Zenon DEF Signed, W
<1> QED BY <1>1, <1>5, <1>6 DEF H, W

\* The low word of a signed reading of a word is the word.
LEMMA LowOfSigned ==
    ASSUME PowersOfTwo, NEW x \in Word
    PROVE  Low(Signed(x), WIDTH) = x
<1> DEFINE W == 2^WIDTH
           s == Signed(x)
<1>1. W \in Nat \ {0}
  BY WordSizes
<1>2. s = x \/ s = x - W
  BY SignOfWord
<1>3. s \in Int /\ x \in Int /\ x % W = x
  BY SignOfWord, LowOfWord DEF Low, Word
<1> HIDE DEF W, s
<1>4. CASE s = x
  BY <1>3, <1>4 DEF Low, W, s
<1>5. CASE s = x - W
  <2>1. (s + W) % W = s % W
    BY <1>1, <1>3, ModShiftOnce
  <2>2. s + W = x
    BY <1>1, <1>3, <1>5
  <2> QED BY <1>3, <2>1, <2>2 DEF Low, W, s
<1> QED BY <1>2, <1>4, <1>5

-----------------------------------------------------------------------------
(* MulDiv: products *)

\* The low word of a product does not depend on how the factors are read.
LEMMA LowProduct ==
    ASSUME PowersOfTwo, NEW a \in Word, NEW b \in Word
    PROVE  Low(a * b, WIDTH) = Low(Signed(a) * Signed(b), WIDTH)
<1> DEFINE W == 2^WIDTH
<1>1. W \in Nat \ {0} /\ a \in Nat /\ b \in Nat
  BY WordSizes, SMT DEF Word
<1>2. PICK s \in {0, 1} : Signed(a) = a - s * W
  <2>1. Signed(a) = a - 0 * W \/ Signed(a) = a - 1 * W
    BY <1>1, SignOfWord
  <2> QED BY <2>1
<1>3. PICK t \in {0, 1} : Signed(b) = b - t * W
  <2>1. Signed(b) = b - 0 * W \/ Signed(b) = b - 1 * W
    BY <1>1, SignOfWord
  <2> QED BY <2>1
<1> DEFINE k == (s * t) * W - (s * b + t * a)
           p == a * b
<1> HIDE DEF W
<1>4. k \in Int /\ p \in Int
  BY <1>1, SMT
<1>5. Signed(a) * Signed(b) = p + W * k
  BY <1>1, <1>2, <1>3, SMT
<1> HIDE DEF k, p
<1>6. (p + W * k) % W = p % W
  BY <1>1, <1>4, ModShift
<1> QED BY <1>5, <1>6 DEF Low, W, p

\* The high word of the product the pipe keeps.
LEMMA HighProduct ==
    ASSUME PowersOfTwo, NEW p \in Int
    PROVE  /\ p % (2^WIDTH * 2^WIDTH) \in 0 .. 2^WIDTH * 2^WIDTH - 1
           /\ (p % (2^WIDTH * 2^WIDTH)) \div 2^WIDTH = Low(p \div 2^WIDTH, WIDTH)
<1> DEFINE W == 2^WIDTH
<1>1. W \in Nat \ {0} /\ W * W \in Nat \ {0}
  BY WordSizes
<1> HIDE DEF W
<1>2. (p % (W * W)) \div W = (p \div W) % W
  BY <1>1, HighWord
<1>3. p % (W * W) \in 0 .. W * W - 1
  <2> DEFINE m == W * W
  <2> HIDE DEF m
  <2>1. m \in Nat \ {0}
    BY <1>1 DEF m
  <2>2. p % m \in 0 .. m - 1
    BY <2>1, DivMod
  <2> QED BY <2>2 DEF m
<1> QED BY <1>2, <1>3 DEF Low, W

-----------------------------------------------------------------------------
(* MulDiv: quotient and remainder *)

\* Quotient and remainder are the only ones whose magnitudes divide.
LEMMA TruncatedOf ==
    ASSUME NEW x \in Int, NEW y \in Int, y # 0, NEW q \in Nat, NEW r \in Nat,
           r < Magnitude(y), Magnitude(x) = Magnitude(y) * q + r
    PROVE  /\ Quotient(x, y) = IF (x < 0) = (y < 0) THEN q ELSE 0 - q
           /\ Remainder(x, y) = IF x < 0 THEN 0 - r ELSE r
<1> DEFINE D == Magnitude(y)
<1>1. -x = 0 - x /\ -y = 0 - y /\ -q = 0 - q
  BY Minus
<1>2. D \in Nat \ {0} /\ D = (IF y < 0 THEN 0 - y ELSE y)
  BY <1>1 DEF Magnitude
<1>3. Magnitude(x) = IF x < 0 THEN 0 - x ELSE x
  BY <1>1 DEF Magnitude
<1> HIDE DEF D
<1>4. (D * q + r) \div D = q
  <2>1. q \in Int /\ r \in Int /\ 0 <= r /\ r < D
    BY DEF D
  <2> QED BY <1>2, <2>1, DivModUnique
<1>5. Magnitude(x) \div Magnitude(y) = q
  BY <1>4 DEF D
<1>6. Truncated(x, y) = IF (x < 0) = (y < 0) THEN q ELSE 0 - q
  BY <1>1, <1>5, Zenon DEF Truncated
<1>7. Quotient(x, y) = Truncated(x, y) /\ Remainder(x, y) = x - y * Truncated(x, y)
  BY Zenon DEF Quotient, Remainder
<1> DEFINE t == Truncated(x, y)
<1> HIDE DEF t
<1>8. t = (IF (x < 0) = (y < 0) THEN q ELSE 0 - q) /\ Remainder(x, y) = x - y * t
  BY <1>6, <1>7 DEF t
<1>9. CASE x < 0 /\ y < 0
  <2>1. t = q /\ 0 - x = (0 - y) * q + r
    BY <1>2, <1>3, <1>8, <1>9 DEF D
  <2>2. x - y * q = 0 - r
    BY <2>1, SMT
  <2> QED BY <1>6, <1>7, <1>8, <1>9, <2>1, <2>2
<1>10. CASE x < 0 /\ ~(y < 0)
  <2>1. t = 0 - q /\ 0 - x = y * q + r
    BY <1>2, <1>3, <1>8, <1>10 DEF D
  <2>2. x - y * (0 - q) = 0 - r
    BY <2>1, SMT
  <2> QED BY <1>6, <1>7, <1>8, <1>10, <2>1, <2>2
<1>11. CASE ~(x < 0) /\ y < 0
  <2>1. t = 0 - q /\ x = (0 - y) * q + r
    BY <1>2, <1>3, <1>8, <1>11 DEF D
  <2>2. x - y * (0 - q) = r
    BY <2>1, SMT
  <2> QED BY <1>6, <1>7, <1>8, <1>11, <2>1, <2>2
<1>12. CASE ~(x < 0) /\ ~(y < 0)
  <2>1. t = q /\ x = y * q + r
    BY <1>2, <1>3, <1>8, <1>12 DEF D
  <2>2. x - y * q = r
    BY <2>1, SMT
  <2> QED BY <1>6, <1>7, <1>8, <1>12, <2>1, <2>2
<1> QED BY <1>9, <1>10, <1>11, <1>12

\* How an instruction reads a word, and the magnitude the divider takes.
Reading(i, v) == IF IsSigned(i) THEN Signed(v) ELSE v
IsBelowZero(i, v) == IsSigned(i) /\ Negative(v)
Absolute(i, v) == IF IsBelowZero(i, v) THEN Negate(v) ELSE v

\* The magnitude that the divider takes is the magnitude of what is read.
LEMMA ReadingOfWord ==
    ASSUME PowersOfTwo, NEW i, NEW v \in Word
    PROVE  /\ Reading(i, v) \in Int
           /\ Reading(i, v) < 0 <=> IsBelowZero(i, v)
           /\ Magnitude(Reading(i, v)) = Absolute(i, v)
           /\ Absolute(i, v) \in Word
           /\ Low(Reading(i, v), WIDTH) = v
           /\ Reading(i, v) = 0 <=> v = 0
<1> DEFINE W == 2^WIDTH
           H == 2^(WIDTH - 1)
           x == Reading(i, v)
<1>1. W \in Nat \ {0} /\ H \in Nat \ {0} /\ W = 2 * H /\ v \in Nat /\ v < W
  BY WordSizes, SMT DEF Word
<1>2. /\ Negative(v) <=> v >= H
      /\ Signed(v) = IF v >= H THEN v - W ELSE v
  BY SignOfWord
<1>3. Negate(v) \in Word /\ Negate(v) = IF v = 0 THEN 0 ELSE W - v
  BY NegatedWord
<1>4. Low(Signed(v), WIDTH) = v /\ Low(v, WIDTH) = v
  BY LowOfSigned, LowOfWord
<1> HIDE DEF W, H, x
<1>5. CASE IsBelowZero(i, v)
  <2>1. IsSigned(i) /\ v >= H
    BY <1>2, <1>5 DEF IsBelowZero
  <2>2. x = v - W /\ Low(x, WIDTH) = v
    BY <1>2, <1>4, <2>1 DEF x, Reading
  <2>3. x \in Int /\ x < 0 /\ x # 0 /\ v # 0
    BY <1>1, <2>1, <2>2
  <2>4. Absolute(i, v) = W - v /\ Absolute(i, v) \in Word
    BY <1>3, <1>5, <2>3 DEF Absolute
  <2>5. Magnitude(x) = 0 - x
    BY <2>3, Minus DEF Magnitude
  <2>6. 0 - x = W - v
    BY <1>1, <2>2
  <2> QED BY <1>5, <2>2, <2>3, <2>4, <2>5, <2>6 DEF x
<1>6. CASE ~IsBelowZero(i, v)
  <2>1. x = v
    BY <1>1, <1>2, <1>6 DEF x, Reading, IsBelowZero
  <2>2. x \in Int /\ ~(x < 0)
    BY <1>1, <2>1
  <2>3. Absolute(i, v) = v /\ Magnitude(x) = x
    BY <1>6, <2>2 DEF Absolute, Magnitude
  <2> QED BY <1>4, <1>6, <2>1, <2>2, <2>3 DEF x
<1> QED BY <1>5, <1>6

\* What a division promises, in terms of how its operands are read.
LEMMA ArchitecturalDivision ==
    ASSUME NEW i, i.op \in DivOps
    PROVE  Architectural(i) = Low(IF i.op \in {"rem", "remu"}
                                  THEN Remainder(Reading(i, i.a), Reading(i, i.b))
                                  ELSE Quotient(Reading(i, i.a), Reading(i, i.b)), WIDTH)
<1>1. CASE i.op = "div"
  BY <1>1 DEF Architectural, Reading, IsSigned
<1>2. CASE i.op = "divu"
  BY <1>2 DEF Architectural, Reading, IsSigned
<1>3. CASE i.op = "rem"
  BY <1>3 DEF Architectural, Reading, IsSigned
<1>4. CASE i.op = "remu"
  BY <1>4 DEF Architectural, Reading, IsSigned
<1> QED BY <1>1, <1>2, <1>3, <1>4 DEF DivOps

\* A division that needs no iteration has its results at once.
LEMMA SpecialResults ==
    ASSUME PowersOfTwo, NEW i \in Insn, i.op \in DivOps, special(i).is
    PROVE  /\ special(i).q = Low(Quotient(Reading(i, i.a), Reading(i, i.b)), WIDTH)
           /\ special(i).r = Low(Remainder(Reading(i, i.a), Reading(i, i.b)), WIDTH)
<1> DEFINE W == 2^WIDTH
           H == 2^(WIDTH - 1)
           x == Reading(i, i.a)
           y == Reading(i, i.b)
           A == Absolute(i, i.a)
           D == Absolute(i, i.b)
<1>1. /\ W \in Nat \ {0} /\ H \in Nat \ {0, 1} /\ W = 2 * H
      /\ i.a \in Word /\ i.b \in Word /\ i.a \in Nat /\ i.b \in Nat /\ i.a < W /\ i.b < W
  BY WordSizes, SMT DEF Word, Insn
<1>2. /\ x \in Int /\ (x < 0 <=> IsBelowZero(i, i.a)) /\ Magnitude(x) = A
      /\ A \in Word /\ A \in Nat /\ Low(x, WIDTH) = i.a
  BY <1>1, ReadingOfWord DEF Word
<1>3. /\ y \in Int /\ (y < 0 <=> IsBelowZero(i, i.b)) /\ Magnitude(y) = D
      /\ D \in Word /\ D \in Nat /\ (y = 0 <=> i.b = 0)
  BY <1>1, ReadingOfWord DEF Word
<1>4. /\ IsSigned(i) => x = (IF i.a >= H THEN i.a - W ELSE i.a)
      /\ IsSigned(i) => y = (IF i.b >= H THEN i.b - W ELSE i.b)
      /\ ~IsSigned(i) => x = i.a /\ y = i.b
  BY <1>1, SignOfWord DEF Reading
<1>5. abs_dividend(i) = A /\ abs_divisor(i) = D
  BY DEF abs_dividend, abs_divisor, dividend_sign, divisor_sign, Absolute, IsBelowZero
<1>6. -x = 0 - x /\ -y = 0 - y
  BY <1>2, <1>3, Minus
<1> HIDE DEF W, H, x, y, A, D
<1>7. A = IF x < 0 THEN 0 - x ELSE x
  BY <1>2, <1>6 DEF Magnitude
<1>8. ASSUME NEW q \in Nat, NEW r \in Nat, y # 0, r < D, A = D * q + r
      PROVE  /\ Quotient(x, y) = IF (x < 0) = (y < 0) THEN q ELSE 0 - q
             /\ Remainder(x, y) = IF x < 0 THEN 0 - r ELSE r
  <2>1. x \in Int /\ y \in Int /\ r < Magnitude(y) /\ Magnitude(x) = Magnitude(y) * q + r
    BY <1>2, <1>3, <1>8
  <2> QED BY <1>8, <2>1, TruncatedOf
<1>9. Low(0, WIDTH) = 0
  <2>1. 0 \in Word
    BY <1>1 DEF Word, W
  <2> QED BY <2>1, LowOfWord
<1> DEFINE overflow == IsSigned(i) /\ i.a = H /\ i.b = W - 1
<1>10. /\ i.b = 0 => special(i).q = W - 1 /\ special(i).r = i.a
       /\ i.b # 0 /\ overflow => special(i).q = i.a /\ special(i).r = 0
       /\ i.b # 0 /\ ~overflow /\ i.b = 1 => special(i).q = i.a /\ special(i).r = 0
       /\ i.b # 0 /\ ~overflow /\ i.b # 1 => D > A /\ special(i).q = 0 /\ special(i).r = i.a
  BY <1>5 DEF special, NotSpecial, W, H
<1>11. CASE i.b = 0
  <2>1. y = 0 /\ Quotient(x, y) = -1 /\ Remainder(x, y) = x
    BY <1>3, <1>11 DEF Quotient, Remainder
  <2>2. Low(-1, WIDTH) = W - 1
    <3> DEFINE minus == -1
    <3>1. minus \in Int /\ minus + W = W - 1 /\ W - 1 \in Nat /\ W - 1 < W
      BY <1>1
    <3> HIDE DEF minus
    <3>2. (minus + W) % W = minus % W
      BY <1>1, <3>1, ModShiftOnce
    <3>3. (W - 1) % W = W - 1
      BY <1>1, <3>1, SmallMod
    <3> QED BY <3>1, <3>2, <3>3 DEF Low, W, minus
  <2> QED BY <1>2, <1>10, <1>11, <2>1, <2>2 DEF x, y
<1>12. CASE i.b # 0 /\ overflow
  <2>1. x = 0 - H /\ y = 0 - 1
    BY <1>1, <1>4, <1>12
  <2>2. A = H /\ D = 1 /\ y # 0 /\ x < 0 /\ y < 0
    BY <1>1, <1>3, <1>6, <1>7, <2>1 DEF Magnitude
  <2>3. A = D * H + 0 /\ 0 \in Nat /\ H \in Nat
    BY <1>1, <2>2
  <2>4. Quotient(x, y) = H /\ Remainder(x, y) = 0 - 0
    BY <1>8, <2>2, <2>3
  <2>5. 0 - 0 = 0
    BY SMT
  <2>6. Low(H, WIDTH) = H
    BY <1>1, <1>12, LowOfWord
  <2> QED BY <1>9, <1>10, <1>12, <2>4, <2>5, <2>6 DEF x, y
<1>13. CASE i.b # 0 /\ ~overflow /\ i.b = 1
  <2>1. y = 1 /\ ~(y < 0)
    BY <1>1, <1>4, <1>13
  <2>2. D = 1
    BY <1>3, <2>1 DEF Magnitude
  <2>3. A = D * A + 0 /\ 0 \in Nat
    BY <1>2, <2>2
  <2>4. Quotient(x, y) = (IF x < 0 THEN 0 - A ELSE A)
        /\ Remainder(x, y) = (IF x < 0 THEN 0 - 0 ELSE 0)
    BY <1>2, <1>8, <2>1, <2>2, <2>3
  <2>5. Quotient(x, y) = x /\ Remainder(x, y) = 0
    BY <1>2, <1>7, <2>4
  <2> QED BY <1>2, <1>9, <1>10, <1>13, <2>5 DEF x, y
<1>14. CASE i.b # 0 /\ ~overflow /\ i.b # 1
  <2>1. A < D /\ y # 0
    BY <1>2, <1>3, <1>10, <1>14
  <2>2. A = D * 0 + A /\ 0 \in Nat
    BY <1>2, <1>3
  <2>3. /\ Quotient(x, y) = (IF (x < 0) = (y < 0) THEN 0 ELSE 0 - 0)
        /\ Remainder(x, y) = (IF x < 0 THEN 0 - A ELSE A)
    BY <1>2, <1>8, <2>1, <2>2
  <2>4. Quotient(x, y) = 0 /\ Remainder(x, y) = x
    BY <1>2, <1>7, <2>3
  <2> QED BY <1>2, <1>9, <1>10, <1>14, <2>4 DEF x, y
<1> QED BY <1>11, <1>12, <1>13, <1>14

\* When all bits are through, the two registers hold quotient and remainder.
LEMMA IteratedResults ==
    ASSUME PowersOfTwo, NEW i \in Insn, i.op \in DivOps, ~special(i).is, NEW q, NEW rem,
           Divided(abs_dividend(i), abs_divisor(i), 2^WIDTH, 1, q, rem),
           NEW r, r = Low(IF RemNegative(rem) THEN rem + abs_divisor(i) ELSE rem, WIDTH)
    PROVE  /\ (IF dividend_sign(i) # divisor_sign(i) THEN Negate(q) ELSE q)
                = Low(Quotient(Reading(i, i.a), Reading(i, i.b)), WIDTH)
           /\ (IF dividend_sign(i) THEN Negate(r) ELSE r)
                = Low(Remainder(Reading(i, i.a), Reading(i, i.b)), WIDTH)
<1> DEFINE W == 2^WIDTH
           W2 == 2^(WIDTH + 1)
           m == 2^(WIDTH + 2)
           x == Reading(i, i.a)
           y == Reading(i, i.b)
           A == abs_dividend(i)
           D == abs_divisor(i)
<1>1. /\ W \in Nat \ {0} /\ W2 = 2 * W /\ m = 4 * W /\ m \in Nat \ {0}
      /\ i.a \in Word /\ i.b \in Word
  BY WordSizes, SMT DEF PowersOfTwo, Insn
<1>2. /\ A = Absolute(i, i.a) /\ D = Absolute(i, i.b)
      /\ dividend_sign(i) <=> IsBelowZero(i, i.a)
      /\ divisor_sign(i) <=> IsBelowZero(i, i.b)
  BY DEF abs_dividend, abs_divisor, dividend_sign, divisor_sign, Absolute, IsBelowZero
<1>3. /\ x \in Int /\ (x < 0 <=> dividend_sign(i)) /\ Magnitude(x) = A
  BY <1>1, <1>2, ReadingOfWord
<1>4. /\ y \in Int /\ (y < 0 <=> divisor_sign(i)) /\ Magnitude(y) = D
      /\ y # 0
  <2>1. i.b # 0
    BY DEF special
  <2> QED BY <1>1, <1>2, <2>1, ReadingOfWord
<1>5. D \in Nat /\ D < W
  <2>1. D \in Word
    BY <1>1, <1>2, ReadingOfWord
  <2> QED BY <1>1, <2>1 DEF Word
<1>6. PICK Q \in Nat, T \in Nat, L \in Nat, rho \in Nat :
         /\ A = T * 1 + L /\ L < 1
         /\ T = D * Q + rho /\ rho < D /\ Q < W
         /\ q = L * W + Q
         /\ rem = rho \/ rem = rho - D + m
  BY Zenon DEF Divided
<1> HIDE DEF W, W2, m, x, y, A, D
<1>7. L = 0
  BY <1>6
<1>8. A = D * Q + rho
  <2>1. A = T
    BY <1>6, <1>7
  <2> QED BY <1>6, <2>1
<1>9. q = Q
  BY <1>1, <1>6, <1>7
<1>10. q \in Word /\ rho \in Word /\ q \in Nat /\ Low(q, WIDTH) = q /\ Low(rho, WIDTH) = rho
  <2>1. q \in Word /\ rho \in Word
    BY <1>1, <1>5, <1>6, <1>9 DEF Word, W
  <2> QED BY <1>6, <1>9, <2>1, LowOfWord
<1>11. r = rho
  <2>1. CASE rem = rho
    <3>1. rem \in Nat /\ rem < m /\ ~(rem >= W2)
      BY <1>1, <1>5, <1>6, <2>1
    <3>2. ~RemNegative(rem)
      BY <3>1, SignBit DEF m, W2
    <3>3. r = Low(rem, WIDTH)
      BY <3>2
    <3> QED BY <1>10, <2>1, <3>3
  <2>2. CASE rem = rho - D + m
    <3>1. rem \in Nat /\ rem < m /\ rem >= W2
      BY <1>1, <1>5, <1>6, <2>2
    <3>2. RemNegative(rem)
      BY <3>1, SignBit DEF m, W2
    <3>3. r = Low(rem + D, WIDTH)
      BY <3>2 DEF D
    <3>4. rem + D = rho + W * 4
      BY <1>1, <1>5, <2>2
    <3>5. (rho + W * 4) % W = rho % W
      <4>1. 4 \in Int /\ rho \in Int
        OBVIOUS
      <4> QED BY <1>1, <4>1, ModShift
    <3> QED BY <1>10, <3>3, <3>4, <3>5 DEF Low, W
  <2> QED BY <1>6, <2>1, <2>2
<1>12. /\ Quotient(x, y) = IF (x < 0) = (y < 0) THEN Q ELSE 0 - Q
       /\ Remainder(x, y) = IF x < 0 THEN 0 - rho ELSE rho
  BY <1>3, <1>4, <1>6, <1>8, TruncatedOf
<1>13. Negate(q) = Low(0 - Q, WIDTH) /\ Negate(r) = Low(0 - rho, WIDTH)
  <2>1. -q = 0 - q /\ -r = 0 - r
    BY <1>6, <1>9, <1>11, Minus
  <2> QED BY <1>9, <1>11, <2>1 DEF Negate
<1>14. (IF dividend_sign(i) # divisor_sign(i) THEN Negate(q) ELSE q) = Low(Quotient(x, y), WIDTH)
  <2>1. dividend_sign(i) \in BOOLEAN /\ divisor_sign(i) \in BOOLEAN
    BY DEF dividend_sign, divisor_sign
  <2>2. CASE dividend_sign(i) # divisor_sign(i)
    <3>1. Quotient(x, y) = 0 - Q
      BY <1>3, <1>4, <1>12, <2>1, <2>2
    <3> QED BY <1>13, <2>2, <3>1
  <2>3. CASE dividend_sign(i) = divisor_sign(i)
    <3>1. Quotient(x, y) = Q
      BY <1>3, <1>4, <1>12, <2>1, <2>3
    <3> QED BY <1>9, <1>10, <2>3, <3>1
  <2> QED BY <2>2, <2>3
<1>15. (IF dividend_sign(i) THEN Negate(r) ELSE r) = Low(Remainder(x, y), WIDTH)
  BY <1>3, <1>10, <1>11, <1>12, <1>13
<1> QED BY <1>14, <1>15 DEF x, y

-----------------------------------------------------------------------------
(* MulDiv: the invariant *)

\* The divider holds the instruction in execute: its signs, its divisor and,
\* while the bits go through, the part of the division that is done.
DividerServes ==
    /\ state # "IDLE" =>
          /\ IsDiv /\ op_reg = stage.op
          /\ q_neg_result = (dividend_sign(stage) # divisor_sign(stage))
          /\ r_neg_result = dividend_sign(stage)
          /\ divisor_reg = abs_divisor(stage) /\ special_reg = special(stage)
    /\ state = "CALC" =>
          /\ ~special(stage).is
          /\ Divided(abs_dividend(stage), abs_divisor(stage), 2^cnt, 2^(WIDTH - cnt),
                     quotient, partial_rem)
    /\ state = "DONE" /\ ~special(stage).is =>
          Divided(abs_dividend(stage), abs_divisor(stage), 2^WIDTH, 1, quotient, partial_rem)

\* The pipe holds the product of the instruction in execute.
PipeServes == pipe_valid => /\ mul_valid /\ pipe_op = stage.op
                            /\ pipe_product = selected_product

MulDivInv == MulDivTypeOK /\ DividerServes /\ PipeServes

\* Which unit an instruction waits for.
LEMMA UnitsWait ==
    /\ if_mul_low => muldiv_done /\ muldiv_res = Low(stage.a * stage.b, WIDTH)
    /\ mul_valid => /\ muldiv_done <=> pipe_valid
                    /\ muldiv_res = mul_result
    /\ IsDiv => /\ ~mul_valid
                /\ muldiv_done <=> state = "DONE"
                /\ muldiv_res = div_result
    /\ muldiv_done => if_mul_low \/ mul_valid \/ IsDiv
<1>1. if_mul_low => ~mul_valid
  BY DEF if_mul_low, mul_valid
<1>2. IsDiv => ~mul_valid /\ ~if_mul_low
  BY DEF if_mul_low, mul_valid, IsMul, IsDiv, MulOps, DivOps
<1>3. CASE if_mul_low
  BY <1>1, <1>2, <1>3 DEF muldiv_done, muldiv_res
<1>4. CASE ~if_mul_low /\ mul_valid
  BY <1>1, <1>2, <1>4 DEF muldiv_done, muldiv_res
<1>5. CASE ~if_mul_low /\ ~mul_valid /\ IsDiv
  BY <1>5 DEF muldiv_done, muldiv_res
<1>6. CASE ~if_mul_low /\ ~mul_valid /\ ~IsDiv
  BY <1>6 DEF muldiv_done
<1> QED BY <1>3, <1>4, <1>5, <1>6

\* What a division is made of has the size of a word.
LEMMA DivisionTypes ==
    ASSUME PowersOfTwo, NEW i \in Insn
    PROVE  /\ abs_dividend(i) \in Word /\ abs_divisor(i) \in Word
           /\ special(i) \in [is : BOOLEAN, q : Word, r : Word]
           /\ ~special(i).is => abs_divisor(i) # 0
<1>1. i.a \in Word /\ i.b \in Word
  BY DEF Insn
<1>2. /\ abs_dividend(i) = Absolute(i, i.a) /\ abs_divisor(i) = Absolute(i, i.b)
  BY DEF abs_dividend, abs_divisor, dividend_sign, divisor_sign, Absolute, IsBelowZero
<1>3. abs_dividend(i) \in Word /\ abs_divisor(i) \in Word
  BY <1>1, <1>2, ReadingOfWord
<1> DEFINE W == 2^WIDTH
<1>4. W \in Nat \ {0}
  BY WordSizes
<1>5. 0 \in Word /\ W - 1 \in Word
  <2> HIDE DEF W
  <2>1. 0 \in 0 .. W - 1 /\ W - 1 \in 0 .. W - 1
    BY <1>4
  <2> QED BY <2>1 DEF Word, W
<1>6. special(i) \in [is : BOOLEAN, q : Word, r : Word]
  BY <1>1, <1>5 DEF special, NotSpecial
<1>7. ASSUME ~special(i).is
      PROVE  abs_divisor(i) # 0
  <2>1. i.b # 0
    BY <1>7 DEF special
  <2>2. i.b \in Nat /\ i.b < W /\ W - i.b # 0
    BY <1>1, <1>4, <2>1, SMT DEF Word
  <2>3. Negate(i.b) = W - i.b
    BY <1>1, <2>1, NegatedWord
  <2> QED BY <1>2, <2>1, <2>2, <2>3 DEF Absolute
<1> QED BY <1>3, <1>6, <1>7

\* A division that starts has done nothing yet.
LEMMA DivisionStarts ==
    ASSUME PowersOfTwo, NEW A \in Word, NEW D \in Word, D # 0
    PROVE  Divided(A, D, 2^0, 2^(WIDTH - 0), A, 0)
<1> DEFINE W == 2^WIDTH
<1>1. W \in Nat \ {0} /\ A \in Nat /\ A < W /\ D \in Nat
  BY WordSizes, SMT DEF Word
<1>2. 2^0 = 1
  BY DEF PowersOfTwo
<1>3. WIDTH - 0 = WIDTH
  BY MulDivAssumption
<1> HIDE DEF W
<1>4. /\ A = 0 * W + A /\ A < W
      /\ 0 = D * 0 + 0 /\ 0 < D /\ 0 < 1
      /\ A = A * 1 + 0
  BY <1>1
<1>5. 0 \in Nat /\ A \in Nat
  BY <1>1
<1>6. Divided(A, D, 1, W, A, 0)
  BY <1>4, <1>5, Zenon DEF Divided
<1> QED BY <1>2, <1>3, <1>6 DEF W

\* The registers of a division under way fit.
LEMMA DividedFits ==
    ASSUME PowersOfTwo, NEW A \in Nat, NEW D \in Word,
           NEW P \in Nat \ {0}, NEW R \in Nat \ {0}, P * R = 2^WIDTH,
           NEW q, NEW rem, Divided(A, D, P, R, q, rem)
    PROVE  q \in Word /\ rem \in 0 .. 2^(WIDTH + 2) - 1
<1> DEFINE W == 2^WIDTH
           m == 2^(WIDTH + 2)
<1>1. W \in Nat \ {0} /\ m = 4 * W /\ D \in Nat /\ D < W
  BY WordSizes, SMT DEF Word
<1>2. PICK Q \in Nat, T \in Nat, L \in Nat, rho \in Nat :
         /\ A = T * R + L /\ L < R
         /\ T = D * Q + rho /\ rho < D /\ Q < P
         /\ q = L * P + Q
         /\ rem = rho \/ rem = rho - D + m
  BY Zenon DEF Divided
<1>3. P * R = W
  OBVIOUS
<1> HIDE DEF W, m
<1>4. rem \in 0 .. m - 1
  BY <1>1, <1>2, SMT
<1>5. (R - 1 - L) * P \in Nat /\ L * P \in Nat
  BY <1>2, Products, SMT
<1>6. (R - 1 - L) * P = P * R - P - L * P
  BY <1>2, SMT
<1>7. q \in 0 .. W - 1
  BY <1>1, <1>2, <1>3, <1>5, <1>6, SMT
<1> QED BY <1>4, <1>7 DEF Word, W, m

\* The machine starts in the invariant.
LEMMA MulDivInitInv == ASSUME PowersOfTwo, MulDivInit PROVE MulDivInv
<1> DEFINE W == 2^WIDTH
           m == 2^(WIDTH + 2)
           mm == 2^WIDTH * 2^WIDTH
<1>1. W \in Nat \ {0} /\ m \in Nat \ {0} /\ mm \in Nat \ {0} /\ WIDTH \in Nat \ {0}
  BY WordSizes, MulDivAssumption
<1>2. 0 \in Word /\ 0 \in 0 .. m - 1 /\ 0 \in 0 .. mm - 1 /\ 0 \in 0 .. WIDTH - 1
  <2>1. Word = 0 .. W - 1
    BY DEF Word
  <2> HIDE DEF W, m, mm
  <2> QED BY <1>1, <2>1
<1>3. MulDivTypeOK
  BY <1>2 DEF MulDivInit, MulDivTypeOK, NotSpecial, MulOps, DivOps
<1> QED BY <1>3 DEF MulDivInit, MulDivInv, DividerServes, PipeServes

\* An edge of the divider.
LEMMA DividerStep ==
    ASSUME PowersOfTwo, MulDivInv, MulDivNext
    PROVE  /\ state' \in {"IDLE", "CALC", "DONE"} /\ cnt' \in 0 .. WIDTH - 1
           /\ partial_rem' \in 0 .. 2^(WIDTH + 2) - 1
           /\ quotient' \in Word /\ divisor_reg' \in Word
           /\ q_neg_result' \in BOOLEAN /\ r_neg_result' \in BOOLEAN
           /\ op_reg' \in DivOps
           /\ special_reg' \in [is : BOOLEAN, q : Word, r : Word]
           /\ DividerServes'
<1> DEFINE m == 2^(WIDTH + 2)
           Typed == /\ state' \in {"IDLE", "CALC", "DONE"} /\ cnt' \in 0 .. WIDTH - 1
                    /\ partial_rem' \in 0 .. m - 1
                    /\ quotient' \in Word /\ divisor_reg' \in Word
                    /\ q_neg_result' \in BOOLEAN /\ r_neg_result' \in BOOLEAN
                    /\ op_reg' \in DivOps
                    /\ special_reg' \in [is : BOOLEAN, q : Word, r : Word]
<1>1. MulDivTypeOK /\ DividerServes /\ WIDTH \in Nat \ {0}
  BY MulDivAssumption DEF MulDivInv
<1>2. 0 \in 0 .. WIDTH - 1 /\ 0 \in 0 .. m - 1
  <2>1. m \in Nat \ {0}
    BY WordSizes
  <2> HIDE DEF m
  <2> QED BY <1>1, <2>1
<1>3. IsDiv /\ state # "DONE" => stage' = stage
  <2>1. ASSUME IsDiv, state # "DONE"
        PROVE  stage' = stage
    <3>1. ~muldiv_done /\ stage # NoInsn
      BY <2>1, UnitsWait DEF IsDiv
    <3> QED BY <3>1 DEF MulDivNext
  <2> QED BY <2>1
<1>4. IsDiv => /\ stage \in Insn /\ stage.op \in DivOps
  BY <1>1 DEF IsDiv, MulDivTypeOK
<1>5. CASE state = "IDLE" /\ IsDiv
  <2>1. StartDivision /\ stage' = stage /\ stage \in Insn
    BY <1>3, <1>4, <1>5 DEF MulDivNext, DividerEdge
  <2>2. /\ abs_dividend(stage) \in Word /\ abs_divisor(stage) \in Word
        /\ special(stage) \in [is : BOOLEAN, q : Word, r : Word]
        /\ ~special(stage).is => abs_divisor(stage) # 0
    BY <2>1, DivisionTypes
  <2>3. dividend_sign(stage) \in BOOLEAN /\ divisor_sign(stage) \in BOOLEAN
    BY DEF dividend_sign, divisor_sign
  <2>4. Typed
    BY <1>2, <1>4, <1>5, <2>1, <2>2, <2>3 DEF StartDivision
  <2>5. IsDiv'
    BY <1>5, <2>1 DEF IsDiv
  <2>6. /\ op_reg' = stage'.op
        /\ q_neg_result' = (dividend_sign(stage') # divisor_sign(stage'))
        /\ r_neg_result' = dividend_sign(stage')
        /\ divisor_reg' = abs_divisor(stage') /\ special_reg' = special(stage')
    BY <2>1 DEF StartDivision
  <2>7. ASSUME ~special(stage).is
        PROVE  /\ state' = "CALC"
               /\ Divided(abs_dividend(stage'), abs_divisor(stage'), 2^(cnt'),
                          2^(WIDTH - cnt'), quotient', partial_rem')
    <3>1. Divided(abs_dividend(stage), abs_divisor(stage), 2^0, 2^(WIDTH - 0),
                  abs_dividend(stage), 0)
      BY <2>2, <2>7, DivisionStarts, Zenon
    <3>2. /\ state' = "CALC" /\ cnt' = 0 /\ quotient' = abs_dividend(stage)
          /\ partial_rem' = 0
      BY <2>1, <2>7 DEF StartDivision
    <3> QED BY <2>1, <3>1, <3>2, Zenon
  <2>8. special(stage).is => state' = "DONE"
    BY <2>1 DEF StartDivision
  <2>9. DividerServes'
    BY <2>1, <2>5, <2>6, <2>7, <2>8, Zenon DEF DividerServes
  <2> QED BY <2>4, <2>9
<1>6. CASE state = "IDLE" /\ ~IsDiv
  <2>1. UNCHANGED dividerVars
    BY <1>6 DEF MulDivNext, DividerEdge
  <2>2. Typed
    BY <1>1, <2>1 DEF MulDivTypeOK, dividerVars
  <2>3. state' = "IDLE"
    BY <1>6, <2>1 DEF dividerVars
  <2>4. DividerServes'
    BY <2>3 DEF DividerServes
  <2> QED BY <2>2, <2>4
<1>7. CASE state = "CALC"
  <2>1. /\ IsDiv /\ op_reg = stage.op /\ ~special(stage).is
        /\ q_neg_result = (dividend_sign(stage) # divisor_sign(stage))
        /\ r_neg_result = dividend_sign(stage)
        /\ divisor_reg = abs_divisor(stage) /\ special_reg = special(stage)
        /\ Divided(abs_dividend(stage), abs_divisor(stage), 2^cnt, 2^(WIDTH - cnt),
                   quotient, partial_rem)
    BY <1>1, <1>7, Zenon DEF DividerServes
  <2>2. stage' = stage /\ stage \in Insn /\ Iterate
    BY <1>3, <1>4, <1>7, <2>1 DEF MulDivNext, DividerEdge
  <2> DEFINE A == abs_dividend(stage)
             D == abs_divisor(stage)
             rem == next_rem(partial_rem, quotient, D)
  <2>3. /\ partial_rem' = rem /\ quotient' = next_q(quotient, rem)
        /\ state' = IF cnt = WIDTH - 1 THEN "DONE" ELSE "CALC"
        /\ cnt' = (cnt + 1) % WIDTH
        /\ UNCHANGED <<divisor_reg, q_neg_result, r_neg_result, op_reg, special_reg>>
    BY <2>1, <2>2 DEF Iterate
  <2>4. A \in Nat /\ D \in Word /\ cnt \in 0 .. WIDTH - 1
    BY <1>1, <2>2, DivisionTypes, SMT DEF Word, MulDivTypeOK
  <2>5. Divided(A, D, 2^(cnt + 1), 2^(WIDTH - (cnt + 1)), quotient', partial_rem')
    <3>1. Divided(A, D, 2^(cnt + 1), 2^(WIDTH - (cnt + 1)),
                  next_q(quotient, next_rem(partial_rem, quotient, D)),
                  next_rem(partial_rem, quotient, D))
      BY <2>1, <2>4, IterationDivides, Zenon
    <3> QED BY <2>3, <3>1, Zenon
  <2> HIDE DEF A, D, rem
  <2>6. /\ 2^(cnt + 1) \in Nat \ {0} /\ 2^(WIDTH - (cnt + 1)) \in Nat \ {0}
        /\ 2^(cnt + 1) * 2^(WIDTH - (cnt + 1)) = 2^WIDTH
    <3> DEFINE P == 2^cnt
               R == 2^(WIDTH - (cnt + 1))
               H == 2^(WIDTH - 1)
               W == 2^WIDTH
               P2 == 2^(cnt + 1)
    <3>1. /\ P \in Nat \ {0} /\ R \in Nat \ {0} /\ P2 = 2 * P /\ P * R = H
          /\ W = 2 * H
      BY <2>4, Zenon DEF PowersOfTwo
    <3> HIDE DEF P, R, H, W, P2
    <3>2. P2 \in Nat \ {0} /\ P2 * R = W
      BY <3>1, SMT
    <3> QED BY <3>1, <3>2 DEF P2, R, W
  <2>7. quotient' \in Word /\ partial_rem' \in 0 .. m - 1
    BY <2>4, <2>5, <2>6, DividedFits, Zenon
  <2>8. cnt' \in 0 .. WIDTH - 1 /\ (cnt # WIDTH - 1 => cnt' = cnt + 1)
    <3>1. WIDTH \in Nat \ {0} /\ cnt + 1 \in Nat
      BY <1>1, <2>4
    <3>2. (cnt + 1) % WIDTH \in 0 .. WIDTH - 1
      BY <3>1, DivMod
    <3>3. cnt # WIDTH - 1 => (cnt + 1) % WIDTH = cnt + 1
      BY <2>4, <3>1, SmallMod
    <3> QED BY <2>3, <3>2, <3>3
  <2>9. Typed
    BY <1>1, <2>3, <2>7, <2>8 DEF MulDivTypeOK
  <2>10. /\ IsDiv' /\ op_reg' = stage'.op /\ ~special(stage').is
         /\ q_neg_result' = (dividend_sign(stage') # divisor_sign(stage'))
         /\ r_neg_result' = dividend_sign(stage')
         /\ divisor_reg' = abs_divisor(stage') /\ special_reg' = special(stage')
    BY <2>1, <2>2, <2>3 DEF IsDiv
  <2>11. CASE cnt = WIDTH - 1
    <3>1. cnt + 1 = WIDTH /\ WIDTH - (cnt + 1) = 0
      BY <1>1, <2>11
    <3>2. Divided(A, D, 2^WIDTH, 2^0, quotient', partial_rem')
      BY <2>5, <3>1, Zenon
    <3>3. Divided(A, D, 2^WIDTH, 1, quotient', partial_rem')
      BY <3>2, Zenon DEF PowersOfTwo
    <3>4. Divided(abs_dividend(stage'), abs_divisor(stage'), 2^WIDTH, 1, quotient', partial_rem')
      BY <2>2, <3>3, Zenon DEF A, D
    <3>5. state' = "DONE"
      BY <2>3, <2>11
    <3>6. DividerServes'
      BY <2>10, <3>4, <3>5, Zenon DEF DividerServes
    <3> QED BY <2>9, <3>6
  <2>12. CASE cnt # WIDTH - 1
    <3>1. cnt' = cnt + 1 /\ state' = "CALC"
      BY <2>3, <2>8, <2>12
    <3>2. Divided(abs_dividend(stage'), abs_divisor(stage'), 2^(cnt'), 2^(WIDTH - cnt'),
                  quotient', partial_rem')
      BY <2>2, <2>5, <3>1, Zenon DEF A, D
    <3>3. DividerServes'
      BY <2>10, <3>1, <3>2, Zenon DEF DividerServes
    <3> QED BY <2>9, <3>3
  <2> QED BY <2>11, <2>12
<1>8. CASE state = "DONE"
  <2>1. /\ state' = "IDLE"
        /\ UNCHANGED <<cnt, partial_rem, quotient, divisor_reg, q_neg_result,
                       r_neg_result, op_reg, special_reg>>
    BY <1>8 DEF MulDivNext, DividerEdge
  <2>2. Typed
    BY <1>1, <2>1 DEF MulDivTypeOK
  <2>3. DividerServes'
    BY <2>1 DEF DividerServes
  <2> QED BY <2>2, <2>3
<1> QED BY <1>1, <1>5, <1>6, <1>7, <1>8 DEF MulDivTypeOK

\* The product of the factors as the instruction reads them.
FactorA(i) == IF i.op = "mulhu" THEN i.a ELSE Signed(i.a)
FactorB(i) == IF i.op = "mulh" THEN Signed(i.b) ELSE i.b

\* The pipe keeps two words of the product.
LEMMA SelectedProduct ==
    ASSUME PowersOfTwo, stage \in Insn
    PROVE  /\ FactorA(stage) * FactorB(stage) \in Int
           /\ selected_product = (FactorA(stage) * FactorB(stage)) % (2^WIDTH * 2^WIDTH)
           /\ selected_product \in 0 .. 2^WIDTH * 2^WIDTH - 1
<1>1. stage.a \in Word /\ stage.b \in Word /\ stage.a \in Int /\ stage.b \in Int
  BY DEF Insn, Word
<1>2. FactorA(stage) \in Int /\ FactorB(stage) \in Int
  BY <1>1, SignOfWord DEF FactorA, FactorB
<1>3. FactorA(stage) * FactorB(stage) \in Int
  BY <1>2
<1>4. selected_product = (FactorA(stage) * FactorB(stage)) % (2^WIDTH * 2^WIDTH)
  BY Zenon DEF selected_product, FactorA, FactorB
<1> QED BY <1>3, <1>4, HighProduct

\* An edge of the multiplier's pipe.
LEMMA PipeStep ==
    ASSUME PowersOfTwo, MulDivInv, MulDivNext
    PROVE  /\ pipe_valid' \in BOOLEAN /\ pipe_op' \in MulOps
           /\ pipe_product' \in 0 .. 2^WIDTH * 2^WIDTH - 1
           /\ PipeServes'
<1> DEFINE mm == 2^WIDTH * 2^WIDTH
<1>1. MulDivTypeOK /\ PipeServes /\ MultiplierEdge
  BY DEF MulDivInv, MulDivNext
<1>2. /\ pipe_valid \in BOOLEAN /\ pipe_op \in MulOps /\ pipe_product \in 0 .. mm - 1
  BY <1>1 DEF MulDivTypeOK
<1> HIDE DEF mm
<1>3. CASE pipe_valid
  BY <1>1, <1>2, <1>3 DEF MultiplierEdge, PipeServes, mm
<1>4. CASE ~pipe_valid /\ mul_valid
  <2>1. pipe_valid' = TRUE /\ pipe_product' = selected_product /\ pipe_op' = stage.op
    BY <1>1, <1>4 DEF MultiplierEdge
  <2>2. stage # NoInsn /\ stage.op \in MulOps /\ stage \in Insn
    BY <1>1, <1>4 DEF mul_valid, IsMul, MulDivTypeOK
  <2>3. ~muldiv_done
    BY <1>4, UnitsWait
  <2>4. stage' = stage
    BY <2>2, <2>3 DEF MulDivNext
  <2>5. selected_product \in 0 .. mm - 1
    BY <2>2, SelectedProduct DEF mm
  <2>6. mul_valid' /\ selected_product' = selected_product
    BY <1>4, <2>4 DEF mul_valid, IsMul, if_mul_low, selected_product
  <2> QED BY <2>1, <2>2, <2>4, <2>5, <2>6 DEF PipeServes, mm
<1>5. CASE ~pipe_valid /\ ~mul_valid
  BY <1>1, <1>2, <1>5 DEF MultiplierEdge, pipeVars, PipeServes, mm
<1> QED BY <1>3, <1>4, <1>5

\* Every edge keeps it.
LEMMA MulDivStepInv ==
    ASSUME PowersOfTwo, MulDivInv, [MulDivNext]_mulDivVars
    PROVE  MulDivInv'
<1>1. CASE MulDivNext
  <2>1. stage' \in Insn \cup {NoInsn}
    BY <1>1 DEF MulDivInv, MulDivTypeOK, MulDivNext
  <2>2. MulDivTypeOK'
    BY <1>1, <2>1, DividerStep, PipeStep, Zenon DEF MulDivTypeOK
  <2> QED BY <1>1, <2>2, DividerStep, PipeStep, Zenon DEF MulDivInv
<1>2. CASE UNCHANGED mulDivVars
  BY <1>2 DEF MulDivInv, MulDivTypeOK, DividerServes, PipeServes, mulDivVars, dividerVars,
     pipeVars, IsDiv, mul_valid, IsMul, if_mul_low, selected_product
<1> QED BY <1>1, <1>2

-----------------------------------------------------------------------------
(* MulDiv: the results *)

\* A product that leaves execute is the one the instruction promises.
LEMMA MultiplyResults ==
    ASSUME PowersOfTwo, MulDivInv, muldiv_done, IsMul
    PROVE  muldiv_res = Architectural(stage)
<1> DEFINE W == 2^WIDTH
           i == stage
           sa == Signed(i.a)
           sb == Signed(i.b)
<1>1. MulDivTypeOK /\ PipeServes
  BY DEF MulDivInv
<1>2. i \in Insn /\ i.op \in MulOps /\ i.a \in Word /\ i.b \in Word
  BY <1>1 DEF IsMul, MulDivTypeOK, Insn
<1>3. CASE i.op = "mul"
  <2>1. if_mul_low
    BY <1>3 DEF if_mul_low
  <2>2. muldiv_res = Low(i.a * i.b, WIDTH)
    BY <2>1, UnitsWait
  <2>3. Architectural(i) = Low(sa * sb, WIDTH)
    BY <1>3 DEF Architectural
  <2> QED BY <1>2, <2>2, <2>3, LowProduct
<1>4. CASE i.op # "mul"
  <2>1. mul_valid
    BY <1>4 DEF mul_valid, if_mul_low
  <2>2. /\ muldiv_res = mul_result /\ pipe_op = i.op
        /\ pipe_product = selected_product
    BY <1>1, <2>1, UnitsWait DEF PipeServes
  <2> DEFINE p == FactorA(i) * FactorB(i)
  <2>3. p \in Int /\ selected_product = p % (W * W)
    BY <1>2, SelectedProduct
  <2>4. muldiv_res = (p % (W * W)) \div W
    BY <1>4, <2>2, <2>3 DEF mul_result
  <2>5. muldiv_res = Low(p \div W, WIDTH)
    <3> HIDE DEF p
    <3> QED BY <2>3, <2>4, HighProduct
  <2>6. CASE i.op = "mulh"
    BY <2>5, <2>6, Zenon DEF Architectural, FactorA, FactorB
  <2>7. CASE i.op = "mulhsu"
    BY <2>5, <2>7, Zenon DEF Architectural, FactorA, FactorB
  <2>8. CASE i.op = "mulhu"
    BY <2>5, <2>8, Zenon DEF Architectural, FactorA, FactorB
  <2> QED BY <1>2, <1>4, <2>6, <2>7, <2>8 DEF MulOps
<1> QED BY <1>3, <1>4

\* So is a quotient or a remainder, whichever way the divider took.
LEMMA DivideResults ==
    ASSUME PowersOfTwo, MulDivInv, muldiv_done, IsDiv
    PROVE  muldiv_res = Architectural(stage)
<1> DEFINE x == Reading(stage, stage.a)
           y == Reading(stage, stage.b)
<1>1. MulDivTypeOK /\ DividerServes
  BY DEF MulDivInv
<1>2. stage \in Insn /\ stage.op \in DivOps
  BY <1>1 DEF IsDiv, MulDivTypeOK
<1>3. state = "DONE" /\ muldiv_res = div_result
  BY UnitsWait
<1>4. /\ op_reg = stage.op
      /\ q_neg_result = (dividend_sign(stage) # divisor_sign(stage))
      /\ r_neg_result = dividend_sign(stage)
      /\ divisor_reg = abs_divisor(stage) /\ special_reg = special(stage)
  BY <1>1, <1>3, Zenon DEF DividerServes
<1>5. Architectural(stage) = Low(IF stage.op \in {"rem", "remu"}
                                 THEN Remainder(x, y) ELSE Quotient(x, y), WIDTH)
  BY <1>2, ArchitecturalDivision
<1>6. CASE special(stage).is
  <2>1. /\ special(stage).q = Low(Quotient(x, y), WIDTH)
        /\ special(stage).r = Low(Remainder(x, y), WIDTH)
    BY <1>2, <1>6, SpecialResults
  <2> HIDE DEF x, y
  <2>2. div_result = IF stage.op \in {"rem", "remu"} THEN special(stage).r ELSE special(stage).q
    BY <1>4, <1>6, Zenon DEF div_result
  <2> QED BY <1>3, <1>5, <2>1, <2>2
<1>7. CASE ~special(stage).is
  <2>1. Divided(abs_dividend(stage), abs_divisor(stage), 2^WIDTH, 1, quotient, partial_rem)
    BY <1>1, <1>3, <1>7 DEF DividerServes
  <2>2. r_correct = Low(IF RemNegative(partial_rem) THEN partial_rem + abs_divisor(stage)
                        ELSE partial_rem, WIDTH)
    BY <1>4, Zenon DEF r_correct
  <2>3. /\ (IF dividend_sign(stage) # divisor_sign(stage) THEN Negate(quotient) ELSE quotient)
             = Low(Quotient(x, y), WIDTH)
        /\ (IF dividend_sign(stage) THEN Negate(r_correct) ELSE r_correct)
             = Low(Remainder(x, y), WIDTH)
    BY <1>2, <1>7, <2>1, <2>2, IteratedResults, Zenon
  <2> HIDE DEF x, y
  <2>4. div_result = IF stage.op \in {"rem", "remu"}
                     THEN IF dividend_sign(stage) THEN Negate(r_correct) ELSE r_correct
                     ELSE IF dividend_sign(stage) # divisor_sign(stage)
                     THEN Negate(quotient) ELSE quotient
    BY <1>4, <1>7, Zenon DEF div_result
  <2> QED BY <1>3, <1>5, <2>3, <2>4
<1> QED BY <1>6, <1>7

\* The invariant is enough for the result.
LEMMA MulDivInvMeans == ASSUME PowersOfTwo, MulDivInv PROVE ResultsAreArchitectural
<1>1. muldiv_done => IsMul \/ IsDiv
  BY UnitsWait DEF if_mul_low, mul_valid
<1> QED BY <1>1, MultiplyResults, DivideResults DEF ResultsAreArchitectural

\* For the code's 32-bit words: the registers hold what fits them, the divider and
\* the pipe serve the instruction in execute, and a division under way has divided
\* the bits that went through.
THEOREM MulDivInvariant == ASSUME WIDTH = 32 PROVE MulDivSpec => []MulDivInv
<1>1. PowersOfTwo
  BY WordPowers
<1>2. MulDivInit => MulDivInv
  BY <1>1, MulDivInitInv
<1>3. MulDivInv /\ [MulDivNext]_mulDivVars => MulDivInv'
  BY <1>1, MulDivStepInv
<1> QED BY <1>2, <1>3, PTL DEF MulDivSpec

\* For the code's 32-bit words, every result that leaves execute is the one the
\* RISC-V M extension promises.
THEOREM ResultsAlwaysArchitectural ==
    ASSUME WIDTH = 32 PROVE MulDivSpec => []ResultsAreArchitectural
<1>1. PowersOfTwo
  BY WordPowers
<1>2. MulDivInv => ResultsAreArchitectural
  BY <1>1, MulDivInvMeans
<1> QED BY <1>2, MulDivInvariant, PTL

-----------------------------------------------------------------------------
(* The testbenches of the top level *)

\* A branch behind an ALU instruction whose result it does not read is what the
\* scoreboard looks for.
LEMMA IndependentIsCandidate ==
    ASSUME NEW p, p.older \in Entry, p.younger \in Entry, Independent(p.older, p.younger)
    PROVE  Scoreboard(p).candidate /\ Scoreboard(p).alu_then_branch
<1> DEFINE a == p.older
           b == p.younger
<1>1. /\ a.wen \in BOOLEAN /\ b.wen = FALSE
      /\ a.kind = "alu" /\ b.kind = "branch"
      /\ a.wen /\ a.rd # 0 => b.rs1 # a.rd /\ b.rs2 # a.rd
  BY PairLaneAssumption DEF Instruction, Independent
<1>2. simple_alu(a) /\ simple_branch(b) /\ ~simple_alu(b) /\ ~simple_branch(a)
  BY <1>1 DEF simple_alu, simple_branch
<1>3. ~(a.wen /\ a.rd # 0 /\ a.rd \in {b.rs1, b.rs2})
  BY <1>1
<1> HIDE DEF a, b
<1>4. "unit" \notin {a.kind, b.kind} /\ "jump" \notin {a.kind, b.kind}
  BY <1>1
<1> QED BY <1>1, <1>2, <1>3, <1>4 DEF Scoreboard, a, b

\* Of a visible slot 1 the bench expects no more than the queue shows.
LEMMA VisibleIsBranch == LaneInv => expect_visible
<1> SUFFICES ASSUME LaneInv, slot1_visible
             PROVE  /\ deq_valid /\ pair_valid
                    /\ simple_branch(pair_younger)
                    /\ pair_younger.pc # slot[head].pc
  BY DEF expect_visible
<1>1. pair_visible
  BY DEF slot1_visible, policy_slot1_visible
<1>2. slot[head] \in Entry /\ pair_younger \in Entry /\ count = DEPTH /\ DEPTH >= 2
  BY <1>1, ShownIsFetched DEF LaneInv
<1>3. Independent(slot[head], pair_younger)
  BY <1>2, VisibleIsIndependent DEF slot1_visible, Screen
<1>4. simple_branch(pair_younger)
  BY <1>2, <1>3, PairLaneAssumption DEF Independent, simple_branch
<1>5. deq_valid /\ pair_valid /\ pair_younger.pc # slot[head].pc
  BY <1>1, <1>2 DEF pair_visible, deq_valid, empty
<1> QED BY <1>4, <1>5

\* A round of the benches with a flush.
LEMMA FlushedRound ==
    ASSUME LaneInv, LaneInv', fail = {}, flush_fail = {},
           Round(TRUE, FALSE, Flush /\ LaneFlush)
    PROVE  fail' = {} /\ flush_fail' = {}
<1> DEFINE pre == pre_decode(TRUE, FALSE)
           go == pre_dispatch(TRUE, FALSE)
           lane1 == pre_lane1(go)
<1>1. Flush /\ LaneFlush /\ SlotOneRound(pre, go) /\ FlushRound(TRUE)
  BY DEF Round
<1>2. /\ pre.frontend_flush = TRUE /\ pre.allow_second = FALSE
      /\ go.fireable = FALSE /\ lane1.accept = FALSE
  BY DEF pre_decode, pre_dispatch, pre_lane1
<1>3. /\ ~slot1_shadow'.valid /\ ~slot1_endpoint'.valid /\ ~frontend_pair_bundle'.valid
      /\ ~pair_handoff'.valid /\ ~pair_dispatch'.valid /\ lane1_issue_valid' = FALSE
  BY <1>1, FlushedRegisters DEF LaneInv, AllowedMeansIndependent
<1>4. expect_visible'
  BY VisibleIsBranch, PTL
<1> HIDE DEF pre, go, lane1
<1>5. expect_shadow(pre) /\ expect_endpoint(pre)
  BY <1>2, <1>3 DEF expect_shadow, expect_endpoint, LaneExpected
<1>6. /\ expect_bundle_capture(pre) /\ expect_bundle_hold(pre)
      /\ expect_handoff_capture(pre) /\ expect_handoff_hold(pre)
  BY <1>2, <1>3 DEF expect_bundle_capture, expect_bundle_hold,
                    expect_handoff_capture, expect_handoff_hold
<1>7. expect_dispatch_capture(pre, go) /\ expect_dispatch_hold(pre, go)
  BY <1>2, <1>3 DEF expect_dispatch_capture, expect_dispatch_hold
<1>8. expect_lane1(pre, lane1)
  BY <1>2, <1>3 DEF expect_lane1
<1>9. fail' = {}
  BY <1>1, <1>2, <1>4, <1>5, <1>6, <1>7, <1>8 DEF SlotOneRound, expect, lane1
<1>10. flush_fail' = {}
  <2>1. count' = 0 /\ (\A i \in Slots : ~valid'[i]) /\ head' = 0 /\ tail' = 0
    BY <1>1 DEF Flush
  <2> QED BY <1>1, <2>1 DEF FlushRound, expect
<1> QED BY <1>9, <1>10

\* A round without one.
LEMMA EdgeRound ==
    ASSUME LaneInv, LaneInv', fail = {}, flush_fail = {}, NEW free \in BOOLEAN,
           Round(FALSE, free, /\ LaneEdge(free)
                              /\ QueueEdge
                              /\ slot' \in [Slots -> Program \cup {NoEntry}])
    PROVE  fail' = {} /\ flush_fail' = {}
<1> DEFINE pre == pre_decode(FALSE, free)
           go == pre_dispatch(FALSE, free)
           lane1 == pre_lane1(go)
<1>1. LaneEdge(free) /\ SlotOneRound(pre, go) /\ FlushRound(FALSE)
  BY DEF Round
<1>2. /\ pre.frontend_flush = FALSE
      /\ pre.allow_second = decode_pair_allow_second(free)
      /\ pre.slot1_valid <=> slot1_visible
      /\ pre.endpoint_accept <=> slot1_visible
      /\ pre.pair_capture <=> pair_visible
      /\ pre.slot0 = slot[head] /\ pre.younger = pair_younger
      /\ pair_visible => pre.screen = Screen
  <2>1. /\ pre.frontend_flush = FALSE
        /\ pre.allow_second = (~FALSE /\ decode_pair_allow_second(free))
        /\ pre.slot1_valid = slot1_visible
        /\ pre.endpoint_accept = (slot1_visible /\ ~FALSE)
        /\ pre.pair_capture = (pair_visible /\ ~FALSE)
        /\ pre.slot0 = slot[head] /\ pre.younger = pair_younger
        /\ pair_visible => pre.screen = Screen
    BY DEF pre_decode
  <2>2. decode_pair_allow_second(free) \in BOOLEAN
    BY DEF decode_pair_allow_second
  <2> QED BY <2>1, <2>2
<1>3. /\ go.handoff_fireable <=> scoreboard_allow_second(pair_handoff, free)
      /\ go.dispatch = pair_dispatch
      /\ go.fireable <=> scoreboard_allow_second(pair_dispatch, free)
      /\ lane1.valid = lane1_issue_valid
      /\ lane1.accept <=> (go.fireable /\ ~lane1_issue_valid)
      /\ lane1.kill <=> (lane1_issue_valid /\ ~go.fireable)
  BY DEF pre_dispatch, pre_lane1
<1>4. expect_visible'
  BY VisibleIsBranch, PTL
<1> HIDE DEF pre, go, lane1
<1>5. expect_shadow(pre) /\ expect_endpoint(pre)
  BY <1>1, <1>2 DEF expect_shadow, expect_endpoint, LaneExpected, LaneEdge, ShadowEdge,
                    EndpointEdge, Lane, pre_lanes
<1>6. expect_bundle_capture(pre) /\ expect_bundle_hold(pre)
  <2>1. frontend_pair_bundle' =
           IF pair_visible
           THEN [valid |-> TRUE, older |-> slot[head], younger |-> pair_younger,
                 screen |-> Screen, allow |-> decode_pair_allow_second(free)]
           ELSE frontend_pair_bundle
    BY <1>1, Zenon DEF LaneEdge, BundleEdge
  <2>2. decode_pair_allow_second(free) => Screen.candidate
    BY DEF decode_pair_allow_second, slot1_visible, policy_slot1_visible
  <2>3. pair_visible => slot[head].pc # pair_younger.pc
    BY DEF pair_visible
  <2> QED BY <1>2, <2>1, <2>2, <2>3 DEF expect_bundle_capture, expect_bundle_hold, pre_pairs
<1>7. expect_handoff_capture(pre) /\ expect_handoff_hold(pre)
  BY <1>1, <1>2 DEF expect_handoff_capture, expect_handoff_hold, LaneEdge, HandoffEdge,
                    pre_pairs
<1>8. expect_dispatch_capture(pre, go) /\ expect_dispatch_hold(pre, go)
  BY <1>1, <1>2, <1>3 DEF expect_dispatch_capture, expect_dispatch_hold, LaneEdge,
                          DispatchEdge, pre_pairs
<1>9. expect_lane1(pre, lane1)
  <2>1. lane1_issue_valid' <=> go.fireable
    BY <1>1, <1>3 DEF LaneEdge, LaneOneEdge
  <2>2. ASSUME lane1_issue_valid'
        PROVE  /\ pair_dispatch'.valid
               /\ Scoreboard(pair_dispatch').candidate
               /\ Scoreboard(pair_dispatch').alu_then_branch
    <3>1. pair_dispatch'.valid /\ Independent(pair_dispatch'.older, pair_dispatch'.younger)
      BY <2>2 DEF LaneInv, LaneOneIsSafe
    <3>2. pair_dispatch'.older \in Entry /\ pair_dispatch'.younger \in Entry
      BY <3>1 DEF LaneInv, LanesHoldEntries
    <3> QED BY <3>1, <3>2, IndependentIsCandidate
  <2> QED BY <1>2, <1>3, <2>1, <2>2 DEF expect_lane1
<1>10. fail' = {}
  BY <1>1, <1>2, <1>4, <1>5, <1>6, <1>7, <1>8, <1>9 DEF SlotOneRound, expect, lane1
<1>11. flush_fail' = {}
  BY <1>1 DEF FlushRound, expect
<1> QED BY <1>10, <1>11

-----------------------------------------------------------------------------
(* The script of the queue's bench *)

\* What the script of the queue's bench offers to the queue.
QueueInputs == [reset : BOOLEAN, flush : BOOLEAN, deq : BOOLEAN, enq : SUBSET BenchEntries]
OffersEntries(script) ==
    /\ Len(script) \in Nat
    /\ \A k \in 1 .. Len(script) : script[k].in \in QueueInputs

\* Each part of the script offers instructions of the bench alone.
LEMMA ScriptsOffer ==
    /\ OffersEntries(FillAndDrain) /\ OffersEntries(FlushQueue) /\ OffersEntries(HostilePairs)
<1>1. /\ QueueIdle \in QueueInputs
      /\ \A e \in BenchEntries : Enq(e) \in QueueInputs
      /\ \A in \in QueueInputs : Deq(in) \in QueueInputs /\ Flushing(in) \in QueueInputs
  BY DEF QueueIdle, QueueInputs, Enq, Deq, Flushing
<1>2. [QueueIdle EXCEPT !.reset = TRUE] \in QueueInputs
  BY DEF QueueIdle, QueueInputs
<1>3. {ins_a, ins_b, ins_c, ins_d, ins_e, ins_f, ins_g} \subseteq BenchEntries
  BY DEF BenchEntries
<1>4. ASSUME NEW in \in QueueInputs, NEW want
      PROVE  Tick(in, want).in \in QueueInputs
  BY DEF Tick
<1>5. OffersEntries(FillAndDrain)
  <2>1. Len(FillAndDrain) = 7
    BY DEF FillAndDrain
  <2>2. FillAndDrain[1].in \in QueueInputs
    BY <1>2, <1>4 DEF FillAndDrain
  <2>3. FillAndDrain[2].in \in QueueInputs
    BY <1>1, <1>3, <1>4 DEF FillAndDrain
  <2>4. FillAndDrain[3].in \in QueueInputs
    BY <1>1, <1>3, <1>4 DEF FillAndDrain
  <2>5. FillAndDrain[4].in \in QueueInputs
    BY <1>1, <1>3, <1>4 DEF FillAndDrain
  <2>6. FillAndDrain[5].in \in QueueInputs
    BY <1>1, <1>3, <1>4 DEF FillAndDrain
  <2>7. FillAndDrain[6].in \in QueueInputs
    BY <1>1, <1>3, <1>4 DEF FillAndDrain
  <2>8. FillAndDrain[7].in \in QueueInputs
    BY <1>1, <1>3, <1>4 DEF FillAndDrain
  <2> QED BY <2>1, <2>2, <2>3, <2>4, <2>5, <2>6, <2>7, <2>8 DEF OffersEntries
<1>6. OffersEntries(FlushQueue)
  <2>1. Len(FlushQueue) = 6
    BY DEF FlushQueue
  <2>2. \A k \in 1 .. 6 : FlushQueue[k].in \in QueueInputs
    BY <1>1, <1>3, <1>4 DEF FlushQueue
  <2> QED BY <2>1, <2>2 DEF OffersEntries
<1>7. OffersEntries(HostilePairs)
  <2>1. Len(HostilePairs) = 4
    BY DEF HostilePairs
  <2>2. HostilePairs[1].in \in QueueInputs
    BY <1>1, <1>3, <1>4 DEF HostilePairs
  <2>3. HostilePairs[2].in \in QueueInputs
    BY <1>1, <1>3, <1>4 DEF HostilePairs
  <2>4. HostilePairs[3].in \in QueueInputs
    BY <1>1, <1>3, <1>4 DEF HostilePairs
  <2>5. HostilePairs[4].in \in QueueInputs
    BY <1>1, <1>3, <1>4 DEF HostilePairs
  <2> QED BY <2>1, <2>2, <2>3, <2>4, <2>5 DEF OffersEntries
<1> QED BY <1>5, <1>6, <1>7

\* One script after another.
LEMMA OffersTogether ==
    ASSUME NEW S, NEW s \in Seq(S), NEW t \in Seq(S), OffersEntries(s), OffersEntries(t)
    PROVE  s \o t \in Seq(S) /\ OffersEntries(s \o t)
<1>1. /\ s \o t \in Seq(S) /\ Len(s \o t) = Len(s) + Len(t)
      /\ \A k \in 1 .. Len(s) + Len(t) :
            (s \o t)[k] = IF k <= Len(s) THEN s[k] ELSE t[k - Len(s)]
  BY ConcatProperties
<1> QED BY <1>1 DEF OffersEntries

\* The scripts are sequences of steps.
LEMMA ScriptsAreSequences ==
    \E S : FillAndDrain \in Seq(S) /\ FlushQueue \in Seq(S) /\ HostilePairs \in Seq(S)
<1>1. PICK a1, a2, a3, a4, a5, a6, a7 : FillAndDrain = <<a1, a2, a3, a4, a5, a6, a7>>
  BY Zenon DEF FillAndDrain
<1>2. PICK b1, b2, b3, b4, b5, b6 : FlushQueue = <<b1, b2, b3, b4, b5, b6>>
  BY Zenon DEF FlushQueue
<1>3. PICK c1, c2, c3, c4 : HostilePairs = <<c1, c2, c3, c4>>
  BY Zenon DEF HostilePairs
<1> DEFINE S == {a1, a2, a3, a4, a5, a6, a7, b1, b2, b3, b4, b5, b6, c1, c2, c3, c4}
<1>4. FillAndDrain \in Seq(S)
  BY <1>1
<1>5. FlushQueue \in Seq(S)
  BY <1>2
<1>6. HostilePairs \in Seq(S)
  BY <1>3
<1> QED BY <1>4, <1>5, <1>6

\* So every step of the bench offers an instruction that the queue can hold.
LEMMA QueueScriptOffers ==
    ASSUME NEW k \in Nat, k < Len(Scripts["queue"])
    PROVE  Scripts["queue"][k + 1].in \in QueueInputs
<1>1. PICK S : FillAndDrain \in Seq(S) /\ FlushQueue \in Seq(S) /\ HostilePairs \in Seq(S)
  BY ScriptsAreSequences
<1>2. FillAndDrain \o FlushQueue \in Seq(S) /\ OffersEntries(FillAndDrain \o FlushQueue)
  BY <1>1, ScriptsOffer, OffersTogether
<1>3. OffersEntries((FillAndDrain \o FlushQueue) \o HostilePairs)
  BY <1>1, <1>2, ScriptsOffer, OffersTogether
<1>4. Scripts["queue"] = (FillAndDrain \o FlushQueue) \o HostilePairs
  BY DEF Scripts
<1> QED BY <1>3, <1>4 DEF OffersEntries

-----------------------------------------------------------------------------
(* The scripts of the single units, step by step *)

\* In its last tick, the one after w others, step k of bench b leads from d to e,
\* and the bench sees what it wants to see.
Runs(b, k, w, d, e) ==
    LET step == Scripts[b][k]
        seen == DutOut(b, e, step.in)
    IN /\ e = (IF step.tick THEN DutEdge(b, d, step.in) ELSE d)
       /\ ~(step.limit > w + 1 /\ ~seen.post_valid)
       /\ Matches(seen, step.want)

\* In tick w + 1 of step k nothing is there to look at, and the bench goes on waiting.
Waits(b, k, w, d, e) ==
    LET step == Scripts[b][k]
    IN /\ step.tick /\ e = DutEdge(b, d, step.in)
       /\ step.limit > w + 1 /\ ~DutOut(b, e, step.in).post_valid

\* What a step may wait: one tick, or eight.
LEMMA Once == ~(1 > 0 + 1) /\ 8 > 0 + 1 /\ 8 > 1 + 1
OBVIOUS

\* Outputs named by a bench match what they are wanted to be one by one.
LEMMA MatchesEach ==
    /\ \A out : Matches(out, << >>)
    /\ \A out, a : /\ out.inflight = a => Matches(out, [inflight |-> a])
                   /\ out.fire = a => Matches(out, [fire |-> a])
                   /\ out.valid = a => Matches(out, [valid |-> a])
                   /\ out.complete = a => Matches(out, [complete |-> a])
                   /\ out.recovery = a => Matches(out, [recovery |-> a])
                   /\ out.busy = a => Matches(out, [busy |-> a])
                   /\ out.pair = a => Matches(out, [pair |-> a])
    /\ \A out, a, b :
          /\ out.inflight = a /\ out.ready = b => Matches(out, [inflight |-> a, ready |-> b])
          /\ out.inflight = a /\ out.entry = b => Matches(out, [inflight |-> a, entry |-> b])
          /\ out.valid = a /\ out.payload = b => Matches(out, [valid |-> a, payload |-> b])
          /\ out.fire = a /\ out.recovery = b => Matches(out, [fire |-> a, recovery |-> b])
          /\ out.recovery = a /\ out.gap = b => Matches(out, [recovery |-> a, gap |-> b])
          /\ out.busy = a /\ out.post_valid = b => Matches(out, [busy |-> a, post_valid |-> b])
          /\ out.post_valid = a /\ out.res = b => Matches(out, [post_valid |-> a, res |-> b])
          /\ out.visible = a /\ out.allow = b => Matches(out, [visible |-> a, allow |-> b])
          /\ out.allow = a /\ out.blocks = b => Matches(out, [allow |-> a, blocks |-> b])
          /\ out.deq_valid = a /\ out.enq_ready = b => Matches(out, [deq_valid |-> a, enq_ready |-> b])
          /\ out.deq_valid = a /\ out.head = b => Matches(out, [deq_valid |-> a, head |-> b])
    /\ \A out, a, b, c :
          /\ out.recovery = a /\ out.cause = b /\ out.gap = c
               => Matches(out, [recovery |-> a, cause |-> b, gap |-> c])
          /\ out.post_valid = a /\ out.pre_ready = b /\ out.res = c
               => Matches(out, [post_valid |-> a, pre_ready |-> b, res |-> c])
          /\ out.busy = a /\ out.post_valid = b /\ out.pre_ready = c
               => Matches(out, [busy |-> a, post_valid |-> b, pre_ready |-> c])
          /\ out.visible = a /\ out.allow = b /\ out.select = c
               => Matches(out, [visible |-> a, allow |-> b, select |-> c])
          /\ out.allow = a /\ out.select = b /\ out.blocks = c
               => Matches(out, [allow |-> a, select |-> b, blocks |-> c])
          /\ out.candidate = a /\ out.alu_then_branch = b /\ out.allow = c
               => Matches(out, [candidate |-> a, alu_then_branch |-> b, allow |-> c])
          /\ out.branch_then_alu = a /\ out.allow = b /\ out.blocks = c
               => Matches(out, [branch_then_alu |-> a, allow |-> b, blocks |-> c])
    /\ \A out, a, b, c, d :
          /\ out.deq_valid = a /\ out.head = b /\ out.pair = c /\ out.younger = d
               => Matches(out, [deq_valid |-> a, head |-> b, pair |-> c, younger |-> d])
          /\ out.deq_valid = a /\ out.enq_ready = b /\ out.pair = c /\ out.younger = d
               => Matches(out, [deq_valid |-> a, enq_ready |-> b, pair |-> c, younger |-> d])
    /\ \A out, a, b, c, d, e :
          out.deq_valid = a /\ out.enq_ready = b /\ out.head = c /\ out.pair = d /\ out.younger = e
            => Matches(out, [deq_valid |-> a, enq_ready |-> b, head |-> c, pair |-> d, younger |-> e])
BY SMT DEF Matches

\* What the units hold on the way.
HoldsOld == [valid |-> TRUE, payload |-> "old"]
Gone == [valid |-> FALSE, payload |-> "old"]
After(r, g, c) == [recovery |-> r, gap |-> g, cause |-> c]
Counting(left, shown, res, pending, vtype) ==
    [cop_busy |-> TRUE, resp_valid |-> FALSE, resp_res |-> shown, busy |-> TRUE, countdown |-> left,
     done |-> FALSE, latched_res |-> res, pending_vtype |-> pending, vtype |-> vtype]
Landed(shown, res, vtype) ==
    [cop_busy |-> TRUE, resp_valid |-> FALSE, resp_res |-> shown, busy |-> FALSE, countdown |-> 0,
     done |-> TRUE, latched_res |-> res, pending_vtype |-> {}, vtype |-> vtype]
Answered(there, res, vtype) ==
    [cop_busy |-> FALSE, resp_valid |-> there, resp_res |-> res, busy |-> FALSE, countdown |-> 0,
     done |-> FALSE, latched_res |-> res, pending_vtype |-> {}, vtype |-> vtype]
\* idu_cop_regs.v: every step of its bench, from whatever it powers up with.
LEMMA CopRegsRuns ==
    /\ \A d : Runs("cop_regs", 1, 0, d, "none")
    /\ Runs("cop_regs", 2, 0, "none", "none")
    /\ Runs("cop_regs", 3, 0, "none", "first")
    /\ Runs("cop_regs", 4, 0, "first", "none")
    /\ Runs("cop_regs", 5, 0, "none", "second")
    /\ Runs("cop_regs", 6, 0, "second", "second")
    /\ Runs("cop_regs", 7, 0, "second", "third")
    /\ Runs("cop_regs", 8, 0, "third", "none")
<1> USE Once, MatchesEach
    DEF Runs, Waits, Scripts, Tick, Eval, DutEdge, DutOut,
        CopRegsScript, CopRegsIdle, CopRegsEdge, CopRegsReady, CopRegsOut
<1>1. \A d : Runs("cop_regs", 1, 0, d, "none")
  BY Zenon
<1>2. Runs("cop_regs", 2, 0, "none", "none")
  BY Zenon
<1>3. Runs("cop_regs", 3, 0, "none", "first")
  BY Zenon
<1>4. Runs("cop_regs", 4, 0, "first", "none")
  BY Zenon
<1>5. Runs("cop_regs", 5, 0, "none", "second")
  BY Zenon
<1>6. Runs("cop_regs", 6, 0, "second", "second")
  BY Zenon
<1>7. Runs("cop_regs", 7, 0, "second", "third")
  BY Zenon
<1>8. Runs("cop_regs", 8, 0, "third", "none")
  BY Zenon
<1> HIDE DEF Runs, Waits
<1> QED BY <1>1, <1>2, <1>3, <1>4, <1>5, <1>6, <1>7, <1>8, Zenon

\* exu_wbu_regs.v: every step of its bench, from whatever it powers up with.
LEMMA WbuRegsRuns ==
    /\ \A d : Runs("wbu_regs", 1, 0, d, Empty)
    /\ Runs("wbu_regs", 2, 0, Empty, HoldsOld)
    /\ Runs("wbu_regs", 3, 0, HoldsOld, Empty)
<1> USE Once, MatchesEach
    DEF Runs, Waits, Scripts, Tick, Eval, DutEdge, DutOut,
        WbuRegsScript, BoundaryIdle, WbuRegsEdge, HoldsOld, Empty
<1>1. \A d : Runs("wbu_regs", 1, 0, d, Empty)
  BY Zenon
<1>2. Runs("wbu_regs", 2, 0, Empty, HoldsOld)
  BY Zenon
<1>3. Runs("wbu_regs", 3, 0, HoldsOld, Empty)
  BY Zenon
<1> HIDE DEF Runs, Waits
<1> QED BY <1>1, <1>2, <1>3, Zenon

\* ifu_idu_regs.v: every step of its bench, from whatever it powers up with.
LEMMA IfuIduRuns ==
    /\ \A d : Runs("ifu_idu", 1, 0, d, Empty)
    /\ Runs("ifu_idu", 2, 0, Empty, HoldsOld)
    /\ Runs("ifu_idu", 3, 0, HoldsOld, HoldsOld)
    /\ Runs("ifu_idu", 4, 0, HoldsOld, Gone)
    /\ Runs("ifu_idu", 5, 0, Gone, HoldsOld)
    /\ Runs("ifu_idu", 6, 0, HoldsOld, HoldsOld)
    /\ Runs("ifu_idu", 7, 0, HoldsOld, HoldsOld)
    /\ Runs("ifu_idu", 8, 0, HoldsOld, Empty)
<1> USE Once, MatchesEach
    DEF Runs, Waits, Scripts, Tick, Eval, DutEdge, DutOut,
        IfuIduScript, BoundaryIdle, IfuIduEdge, HoldsOld, Gone, Empty
<1>1. \A d : Runs("ifu_idu", 1, 0, d, Empty)
  BY Zenon
<1>2. Runs("ifu_idu", 2, 0, Empty, HoldsOld)
  BY Zenon
<1>3. Runs("ifu_idu", 3, 0, HoldsOld, HoldsOld)
  BY Zenon
<1>4. Runs("ifu_idu", 4, 0, HoldsOld, Gone)
  BY Zenon
<1>5. Runs("ifu_idu", 5, 0, Gone, HoldsOld)
  BY Zenon
<1>6. Runs("ifu_idu", 6, 0, HoldsOld, HoldsOld)
  BY Zenon
<1>7. Runs("ifu_idu", 7, 0, HoldsOld, HoldsOld)
  BY Zenon
<1>8. Runs("ifu_idu", 8, 0, HoldsOld, Empty)
  BY Zenon
<1> HIDE DEF Runs, Waits
<1> QED BY <1>1, <1>2, <1>3, <1>4, <1>5, <1>6, <1>7, <1>8, Zenon

\* The counter of commit_visible_ctrl.v counts to one.
LEMMA GapCounts == (0 + 1) % GAP = 1
BY DEF GAP

\* commit_visible_ctrl.v: every step of its bench, from whatever it powers up with.
LEMMA CommitRuns ==
    /\ \A d : Runs("commit", 1, 0, d, After(FALSE, 0, "none"))
    /\ Runs("commit", 2, 0, After(FALSE, 0, "none"), After(FALSE, 0, "none"))
    /\ Runs("commit", 3, 0, After(FALSE, 0, "none"), After(FALSE, 0, "none"))
    /\ Runs("commit", 4, 0, After(FALSE, 0, "none"), After(TRUE, 0, "brch"))
    /\ Runs("commit", 5, 0, After(TRUE, 0, "brch"), After(TRUE, 1, "brch"))
    /\ Runs("commit", 6, 0, After(TRUE, 1, "brch"), After(TRUE, 1, "brch"))
    /\ Runs("commit", 7, 0, After(TRUE, 1, "brch"), After(FALSE, 1, "brch"))
    /\ Runs("commit", 8, 0, After(FALSE, 1, "brch"), After(FALSE, 1, "brch"))
    /\ Runs("commit", 9, 0, After(FALSE, 1, "brch"), After(FALSE, 1, "brch"))
<1>1. \A d : Runs("commit", 1, 0, d, After(FALSE, 0, "none"))
  <2>1. \A d, in : in.reset => CommitEdge(d, in) = After(FALSE, 0, "none")
    BY Zenon DEF CommitEdge, After
  <2>2. CommitScript[1] = Tick([CommitIdle EXCEPT !.reset = TRUE], [fire |-> FALSE, recovery |-> FALSE])
    BY Zenon DEF CommitScript
  <2>3. Matches(CommitOut(After(FALSE, 0, "none"), [CommitIdle EXCEPT !.reset = TRUE]),
                [fire |-> FALSE, recovery |-> FALSE])
    BY MatchesEach, Zenon DEF CommitOut, CommitIdle, wbu_pc_update_fire, redirect_complete,
       redirect_fire, After
  <2>4. [CommitIdle EXCEPT !.reset = TRUE].reset
    BY Zenon DEF CommitIdle
  <2>5. \A d : CommitEdge(d, [CommitIdle EXCEPT !.reset = TRUE]) = After(FALSE, 0, "none")
    BY <2>1, <2>4, Zenon
  <2> DEFINE in == [CommitIdle EXCEPT !.reset = TRUE]
  <2>6. /\ CommitScript[1].tick = TRUE /\ CommitScript[1].in = in /\ CommitScript[1].limit = 1
        /\ CommitScript[1].want = [fire |-> FALSE, recovery |-> FALSE]
    <3>1. \A i, w : LET step == Tick(i, w)
                     IN step.tick = TRUE /\ step.in = i /\ step.limit = 1 /\ step.want = w
      BY Zenon DEF Tick
    <3> QED BY <2>2, <3>1
  <2>7. \A d : DutEdge("commit", d, in) = CommitEdge(d, in) /\ DutOut("commit", d, in) = CommitOut(d, in)
    BY Zenon DEF DutEdge, DutOut
  <2>8. Scripts["commit"] = CommitScript
    BY Zenon DEF Scripts
  <2> QED BY <2>3, <2>5, <2>6, <2>7, <2>8, Once, Zenon DEF Runs
<1> USE Once, MatchesEach, GapCounts
    DEF Runs, Waits, Scripts, Tick, Eval, DutEdge, DutOut,
        CommitScript, CommitIdle, CommitEdge, CommitOut, After, redirect_fire,
        redirect_complete, wbu_pc_update_fire
<1>2. Runs("commit", 2, 0, After(FALSE, 0, "none"), After(FALSE, 0, "none"))
  BY Zenon
<1>3. Runs("commit", 3, 0, After(FALSE, 0, "none"), After(FALSE, 0, "none"))
  BY Zenon
<1>4. Runs("commit", 4, 0, After(FALSE, 0, "none"), After(TRUE, 0, "brch"))
  BY Zenon
<1>5. Runs("commit", 5, 0, After(TRUE, 0, "brch"), After(TRUE, 1, "brch"))
  BY Zenon
<1>6. Runs("commit", 6, 0, After(TRUE, 1, "brch"), After(TRUE, 1, "brch"))
  BY Zenon
<1>7. Runs("commit", 7, 0, After(TRUE, 1, "brch"), After(FALSE, 1, "brch"))
  BY Zenon
<1>8. Runs("commit", 8, 0, After(FALSE, 1, "brch"), After(FALSE, 1, "brch"))
  BY Zenon
<1>9. Runs("commit", 9, 0, After(FALSE, 1, "brch"), After(FALSE, 1, "brch"))
  BY Zenon
<1> HIDE DEF Runs, Waits
<1> QED BY <1>1, <1>2, <1>3, <1>4, <1>5, <1>6, <1>7, <1>8, <1>9, Zenon

\* What the multiplier's bench expects.
LEMMA Product == 6 * 7 = 42
OBVIOUS

\* exu.v: the bench only evaluates.
LEMMA ExuRuns ==
    /\ \A d : Runs("exu", 1, 0, d, d)
    /\ \A d : Runs("exu", 2, 0, d, d)
<1> USE Once, MatchesEach, Product
    DEF Runs, Waits, Scripts, Tick, Eval, DutEdge, DutOut,
        ExuScript, ExuIdle, ExuOut, backend_done, backend_commit_visible
<1>1. \A d : Runs("exu", 1, 0, d, d)
  BY Zenon
<1>2. \A d : Runs("exu", 2, 0, d, d)
  BY Zenon
<1> HIDE DEF Runs, Waits
<1> QED BY <1>1, <1>2, Zenon

\* The countdown of the coprocessor, its sum and its types of vectors.
LEMMA CountsDown ==
    /\ (2 + 3) % 4 = 1 /\ (1 + 3) % 4 = 0 /\ ~(2 = 1) /\ ~(0 = 1)
    /\ 3 + 4 = 7
    /\ \A old : ToWrite({}, old) = old /\ ToWrite({2}, old) = 2
    /\ vtype_next_value(0) = 0 /\ vtype_next_value(2) = 2
BY SMT DEF ToWrite, vtype_next_value, Vill

\* cop_backend.v under the bench of flushes: every step, from whatever it powers up with.
LEMMA CopFlushRuns ==
    /\ \A d : Runs("cop_flush", 1, 0, d, CopClear)
    /\ Runs("cop_flush", 2, 0, CopClear, Counting(2, 0, 7, {}, Vill))
    /\ Runs("cop_flush", 3, 0, Counting(2, 0, 7, {}, Vill), CopClear)
    /\ Runs("cop_flush", 4, 0, CopClear, Counting(2, 0, 7, {}, Vill))
    /\ Runs("cop_flush", 5, 0, Counting(2, 0, 7, {}, Vill), Counting(1, 0, 7, {}, Vill))
    /\ Runs("cop_flush", 6, 0, Counting(1, 0, 7, {}, Vill), Landed(0, 7, Vill))
    /\ Runs("cop_flush", 7, 0, Landed(0, 7, Vill), Answered(TRUE, 7, Vill))
    /\ Runs("cop_flush", 8, 0, Answered(TRUE, 7, Vill), Answered(TRUE, 7, Vill))
    /\ Runs("cop_flush", 9, 0, Answered(TRUE, 7, Vill), CopClear)
<1>1. \A d : Runs("cop_flush", 1, 0, d, CopClear)
  <2>1. \A d, in : in.reset => CopEdge(d, in) = CopClear
    BY Zenon DEF CopEdge
  <2> QED BY <2>1, Once, MatchesEach, Zenon
          DEF Runs, Waits, Scripts, CopFlushScript, Tick, DutEdge, DutOut, CopIdle
<1> USE Once, MatchesEach, CountsDown
    DEF Runs, Waits, Scripts, Tick, Eval, DutEdge, DutOut,
        CopFlushScript, Issue, CopIdle, CopClear, CopFlushed, CopEdge, cop_result, CopOut,
        Counting, Landed, Answered
<1>2. Runs("cop_flush", 2, 0, CopClear, Counting(2, 0, 7, {}, Vill))
  BY Zenon
<1>3. Runs("cop_flush", 3, 0, Counting(2, 0, 7, {}, Vill), CopClear)
  BY Zenon
<1>4. Runs("cop_flush", 4, 0, CopClear, Counting(2, 0, 7, {}, Vill))
  BY Zenon
<1>5. Runs("cop_flush", 5, 0, Counting(2, 0, 7, {}, Vill), Counting(1, 0, 7, {}, Vill))
  BY Zenon
<1>6. Runs("cop_flush", 6, 0, Counting(1, 0, 7, {}, Vill), Landed(0, 7, Vill))
  BY Zenon
<1>7. Runs("cop_flush", 7, 0, Landed(0, 7, Vill), Answered(TRUE, 7, Vill))
  BY Zenon
<1>8. Runs("cop_flush", 8, 0, Answered(TRUE, 7, Vill), Answered(TRUE, 7, Vill))
  BY Zenon
<1>9. Runs("cop_flush", 9, 0, Answered(TRUE, 7, Vill), CopClear)
  BY Zenon
<1> HIDE DEF Runs, Waits
<1> QED BY <1>1, <1>2, <1>3, <1>4, <1>5, <1>6, <1>7, <1>8, <1>9, Zenon

\* cop_backend.v under its bench of vtype, tick by tick of its waiting.
LEMMA CopVtypeRuns ==
    /\ \A d : Runs("cop_vtype", 1, 0, d, CopClear)
    /\ Runs("cop_vtype", 2, 0, CopClear, Counting(2, 0, Vill, {0}, Vill))
    /\ Runs("cop_vtype", 3, 0, Counting(2, 0, Vill, {0}, Vill), CopClear)
    /\ Runs("cop_vtype", 4, 0, CopClear, Counting(2, 0, Vill, {2}, Vill))
    /\ Waits("cop_vtype", 5, 0, Counting(2, 0, Vill, {2}, Vill), Counting(1, 0, Vill, {2}, Vill))
    /\ Waits("cop_vtype", 5, 1, Counting(1, 0, Vill, {2}, Vill), Landed(0, Vill, 2))
    /\ Runs("cop_vtype", 5, 2, Landed(0, Vill, 2), Answered(TRUE, Vill, 2))
    /\ Runs("cop_vtype", 6, 0, Answered(TRUE, Vill, 2), Answered(FALSE, Vill, 2))
    /\ Runs("cop_vtype", 7, 0, Answered(FALSE, Vill, 2), Counting(2, Vill, 2, {}, 2))
    /\ Waits("cop_vtype", 8, 0, Counting(2, Vill, 2, {}, 2), Counting(1, Vill, 2, {}, 2))
    /\ Waits("cop_vtype", 8, 1, Counting(1, Vill, 2, {}, 2), Landed(Vill, 2, 2))
    /\ Runs("cop_vtype", 8, 2, Landed(Vill, 2, 2), Answered(TRUE, 2, 2))
    /\ Runs("cop_vtype", 9, 0, Answered(TRUE, 2, 2), Answered(FALSE, 2, 2))
<1>1. \A d : Runs("cop_vtype", 1, 0, d, CopClear)
  <2>1. \A d, in : in.reset => CopEdge(d, in) = CopClear
    BY Zenon DEF CopEdge
  <2> QED BY <2>1, Once, MatchesEach, Zenon
          DEF Runs, Scripts, CopVtypeScript, Tick, DutEdge, DutOut, CopIdle
<1> USE Once, MatchesEach, CountsDown
    DEF Runs, Waits, Scripts, Tick, Eval, DutEdge, DutOut,
        CopVtypeScript, Await, WaitResponse, TakeResponse, Issue, CopIdle, CopClear, CopFlushed,
        CopEdge, cop_result, CopOut,
        Counting, Landed, Answered
<1>2. Runs("cop_vtype", 2, 0, CopClear, Counting(2, 0, Vill, {0}, Vill))
  BY Zenon
<1>3. Runs("cop_vtype", 3, 0, Counting(2, 0, Vill, {0}, Vill), CopClear)
  BY Zenon
<1>4. Runs("cop_vtype", 4, 0, CopClear, Counting(2, 0, Vill, {2}, Vill))
  BY Zenon
<1>5. Waits("cop_vtype", 5, 0, Counting(2, 0, Vill, {2}, Vill), Counting(1, 0, Vill, {2}, Vill))
  BY Zenon
<1>6. Waits("cop_vtype", 5, 1, Counting(1, 0, Vill, {2}, Vill), Landed(0, Vill, 2))
  BY Zenon
<1>7. Runs("cop_vtype", 5, 2, Landed(0, Vill, 2), Answered(TRUE, Vill, 2))
  BY Zenon
<1>8. Runs("cop_vtype", 6, 0, Answered(TRUE, Vill, 2), Answered(FALSE, Vill, 2))
  BY Zenon
<1>9. Runs("cop_vtype", 7, 0, Answered(FALSE, Vill, 2), Counting(2, Vill, 2, {}, 2))
  BY Zenon
<1>10. Waits("cop_vtype", 8, 0, Counting(2, Vill, 2, {}, 2), Counting(1, Vill, 2, {}, 2))
  BY Zenon
<1>11. Waits("cop_vtype", 8, 1, Counting(1, Vill, 2, {}, 2), Landed(Vill, 2, 2))
  BY Zenon
<1>12. Runs("cop_vtype", 8, 2, Landed(Vill, 2, 2), Answered(TRUE, 2, 2))
  BY Zenon
<1>13. Runs("cop_vtype", 9, 0, Answered(TRUE, 2, 2), Answered(FALSE, 2, 2))
  BY Zenon
<1> HIDE DEF Runs, Waits
<1> QED BY <1>1, <1>2, <1>3, <1>4, <1>5, <1>6, <1>7, <1>8, <1>9, <1>10, <1>11, <1>12, <1>13, Zenon

\* A visible pair as decode's policy sees it, a screen with nothing against the pair, and
\* what keeps it back for now.
PolicyPair(s, back) == [valid |-> TRUE, screen |-> s, back |-> back]
CleanScreen(s) == s.candidate /\ s.reasons = {} /\ s.alu_then_branch /\ ~s.branch_then_alu
BlockedBy(back) == PassingBlocks(TRUE, back.ready, back.cop, back.flush)

\* The policy shows and allows a clean pair that nothing keeps back, and no other.
LEMMA PolicyOfPair ==
    ASSUME NEW s, NEW back
    PROVE  LET out == PolicyOut(PolicyPair(s, back))
           IN /\ out.visible = TRUE
              /\ CleanScreen(s) => out.select = TRUE
              /\ CleanScreen(s) /\ BlockedBy(back) = {} => out.allow = TRUE
              /\ ~CleanScreen(s) \/ BlockedBy(back) # {} => out.allow = FALSE
              /\ ~s.branch_then_alu => out.blocks = s.reasons \cup BlockedBy(back)
              /\ s.branch_then_alu => out.blocks = s.reasons \cup BlockedBy(back) \cup {"older_branch_first"}
<1> DEFINE out == PolicyOut(PolicyPair(s, back))
<1>1. out.visible = TRUE
  BY Zenon DEF PolicyOut, PolicyPair
<1>2. policy_slot1_visible(TRUE, s) <=> CleanScreen(s)
  BY Zenon DEF policy_slot1_visible, CleanScreen
<1>3. out.select = policy_slot1_visible(TRUE, s)
  BY Zenon DEF PolicyOut, PolicyPair
<1>4. out.allow = (policy_slot1_visible(TRUE, s) /\ BlockedBy(back) = {})
  BY Zenon DEF PolicyOut, PolicyPair, BlockedBy
<1>5. out.blocks = s.reasons \cup BlockedBy(back) \cup (IF s.branch_then_alu THEN {"older_branch_first"} ELSE {})
  BY Zenon DEF PolicyOut, PolicyPair, BlockedBy
<1>6. CleanScreen(s) => out.select = TRUE
  BY <1>2, <1>3, Zenon
<1>7. CleanScreen(s) /\ BlockedBy(back) = {} => out.allow = TRUE
  BY <1>2, <1>4, Zenon
<1>8. ~CleanScreen(s) \/ BlockedBy(back) # {} => out.allow = FALSE
  BY <1>2, <1>4, Zenon
<1>9. s.branch_then_alu => out.blocks = s.reasons \cup BlockedBy(back) \cup {"older_branch_first"}
  BY <1>5
<1>10. ~s.branch_then_alu => out.blocks = s.reasons \cup BlockedBy(back)
  BY <1>5
<1> QED BY <1>1, <1>6, <1>7, <1>8, <1>9, <1>10, Zenon

\* What keeps a pair back for now, one at a time.
LEMMA Passing ==
    /\ BlockedBy(Free) = {}
    /\ BlockedBy([Free EXCEPT !.ready = FALSE]) = {"downstream_busy"}
    /\ BlockedBy([Free EXCEPT !.cop = TRUE]) = {"cop_pipeline"}
    /\ BlockedBy([Free EXCEPT !.flush = TRUE]) = {"frontend_flush"}
BY DEF BlockedBy, PassingBlocks, Free

\* So its verdicts on the pairs of the bench: allowed, or refused for the one thing against it.
LEMMA PolicyVerdicts ==
    ASSUME NEW s, NEW back, NEW x
    PROVE  LET out == PolicyOut(PolicyPair(s, back))
           IN /\ CleanScreen(s) /\ BlockedBy(back) = {}
                   => Matches(out, [visible |-> TRUE, allow |-> TRUE, select |-> TRUE])
              /\ CleanScreen(s) /\ BlockedBy(back) = {x}
                   => Matches(out, [allow |-> FALSE, select |-> TRUE, blocks |-> {x}])
              /\ s.reasons = {x} /\ ~s.branch_then_alu /\ BlockedBy(back) = {}
                   => Matches(out, [allow |-> FALSE, blocks |-> {x}])
              /\ s.reasons = {} /\ s.branch_then_alu /\ BlockedBy(back) = {}
                   => Matches(out, [allow |-> FALSE, blocks |-> {"older_branch_first"}])
<1> DEFINE out == PolicyOut(PolicyPair(s, back))
<1>1. /\ out.visible = TRUE
      /\ CleanScreen(s) => out.select = TRUE
      /\ CleanScreen(s) /\ BlockedBy(back) = {} => out.allow = TRUE
      /\ ~CleanScreen(s) \/ BlockedBy(back) # {} => out.allow = FALSE
      /\ ~s.branch_then_alu => out.blocks = s.reasons \cup BlockedBy(back)
      /\ s.branch_then_alu => out.blocks = s.reasons \cup BlockedBy(back) \cup {"older_branch_first"}
  BY PolicyOfPair, Zenon
<1>0. /\ {x} # {} /\ {} \cup {x} = {x} /\ {x} \cup {} = {x}
      /\ {} \cup {} \cup {"older_branch_first"} = {"older_branch_first"}
  OBVIOUS
<1> HIDE DEF out
<1>2. CleanScreen(s) /\ BlockedBy(back) = {}
                   => Matches(out, [visible |-> TRUE, allow |-> TRUE, select |-> TRUE])
  BY <1>1, MatchesEach, Zenon
<1>3. CleanScreen(s) /\ BlockedBy(back) = {x}
                   => Matches(out, [allow |-> FALSE, select |-> TRUE, blocks |-> {x}])
  BY <1>0, <1>1, MatchesEach, Zenon DEF CleanScreen
<1>4. s.reasons = {x} /\ ~s.branch_then_alu /\ BlockedBy(back) = {}
                   => Matches(out, [allow |-> FALSE, blocks |-> {x}])
  BY <1>0, <1>1, MatchesEach, Zenon DEF CleanScreen
<1>5. s.reasons = {} /\ s.branch_then_alu /\ BlockedBy(back) = {}
                   => Matches(out, [allow |-> FALSE, blocks |-> {"older_branch_first"}])
  BY <1>0, <1>1, MatchesEach, Zenon DEF CleanScreen
<1> QED BY <1>2, <1>3, <1>4, <1>5, Zenon DEF out

\* decode_pair_policy.v holds no register: every step of its bench sees what it wants.
LEMMA PolicyRuns == \A d : \A k \in 1 .. 11 : Runs("policy", k, 0, d, d)
<1> DEFINE Clean == [NothingScreened EXCEPT !.candidate = TRUE, !.alu_then_branch = TRUE]
           Against(x) == [Clean EXCEPT !.reasons = {x}]
<1>1. CleanScreen(Clean) /\ Clean.reasons = {}
  BY Zenon DEF CleanScreen, NothingScreened
<1>2. \A x : Against(x).reasons = {x} /\ ~Against(x).branch_then_alu
  BY Zenon DEF NothingScreened
<1>3. \A d : Runs("policy", 1, 0, d, d)
  BY Once, MatchesEach, Zenon
     DEF Runs, Scripts, Eval, DutEdge, DutOut, PolicyScript, PolicyOut, policy_slot1_visible
<1> USE Once, Passing, PolicyVerdicts DEF Runs, Scripts, Eval, DutEdge, DutOut, PolicyScript, PolicyPair
<1>4. \A d : Runs("policy", 2, 0, d, d)
  BY <1>1, Zenon
<1>5. \A d : Runs("policy", 3, 0, d, d)
  BY <1>1, Zenon
<1>6. \A d : Runs("policy", 4, 0, d, d)
  BY <1>2, Zenon
<1>7. \A d : Runs("policy", 5, 0, d, d)
  BY <1>2, Zenon
<1>8. \A d : Runs("policy", 6, 0, d, d)
  BY <1>2, Zenon
<1>9. \A d : Runs("policy", 7, 0, d, d)
  BY <1>2, Zenon
<1>10. \A d : Runs("policy", 8, 0, d, d)
  BY <1>2, Zenon
<1>11. \A d : Runs("policy", 9, 0, d, d)
  BY Zenon DEF NothingScreened
<1>12. \A d : Runs("policy", 10, 0, d, d)
  BY <1>1, Zenon
<1>13. \A d : Runs("policy", 11, 0, d, d)
  BY <1>1, Zenon
<1> HIDE DEF Runs
<1> QED BY <1>3, <1>4, <1>5, <1>6, <1>7, <1>8, <1>9, <1>10, <1>11, <1>12, <1>13

\* The same of the scoreboard, over a registered pair.
Registered(a, b) == [valid |-> TRUE, older |-> a, younger |-> b]
Offered(a, b, back) == [older |-> a, younger |-> b, back |-> back]
Judged(a, b) == Scoreboard(Registered(a, b)).reasons
AluFirst(a, b) == simple_alu(a) /\ simple_branch(b)
BranchFirst(a, b) == simple_branch(a) /\ simple_alu(b)

\* What the scoreboard holds against a pair, in one set.
LEMMA ScoreboardReasons ==
    ASSUME NEW a, NEW b
    PROVE  Judged(a, b)
             = (IF a.wen /\ a.rd # 0 /\ (a.rd = b.rs1 \/ a.rd = b.rs2) THEN {"raw"} ELSE {})
               \cup (IF a.wen /\ b.wen THEN {"dual_writeback"} ELSE {})
               \cup (IF a.wen /\ b.wen /\ a.rd # 0 /\ b.rd = a.rd THEN {"waw"} ELSE {})
               \cup (IF "unit" \in {a.kind, b.kind} THEN {"exclusive_backend"} ELSE {})
               \cup (IF "jump" \in {a.kind, b.kind} THEN {"redirect_control"} ELSE {})
BY SMT DEF Judged, Scoreboard, Registered

\* What it says of a registered pair.
LEMMA ScoreboardOfPair ==
    ASSUME NEW a, NEW b, NEW back
    PROVE  LET out == ScoreboardOut(Offered(a, b, back))
               R == Judged(a, b)
           IN /\ AluFirst(a, b) => out.alu_then_branch = TRUE
              /\ BranchFirst(a, b) => out.branch_then_alu = TRUE
              /\ AluFirst(a, b) /\ R = {} => out.candidate = TRUE
              /\ AluFirst(a, b) /\ R = {} /\ BlockedBy(back) = {} /\ ~BranchFirst(a, b) => out.allow = TRUE
              /\ R # {} \/ BranchFirst(a, b) \/ BlockedBy(back) # {} => out.allow = FALSE
              /\ ~BranchFirst(a, b) => out.blocks = R \cup BlockedBy(back)
              /\ BranchFirst(a, b) => out.blocks = R \cup BlockedBy(back) \cup {"older_branch_first"}
<1> DEFINE out == ScoreboardOut(Offered(a, b, back))
           p == Registered(a, b)
           R == Judged(a, b)
<1>1. /\ p.valid = TRUE
      /\ Scoreboard(p).alu_then_branch = AluFirst(a, b)
      /\ Scoreboard(p).branch_then_alu = BranchFirst(a, b)
  BY Zenon DEF Registered, Scoreboard, AluFirst, BranchFirst
<1>2. Scoreboard(p).candidate = ((AluFirst(a, b) \/ BranchFirst(a, b)) /\ R = {})
  <2>1. Scoreboard(p).candidate = ((AluFirst(a, b) \/ BranchFirst(a, b)) /\ Scoreboard(p).reasons = {})
    BY Zenon DEF Registered, Scoreboard, AluFirst, BranchFirst
  <2> QED BY <2>1 DEF Judged
<1>3. /\ out.alu_then_branch = Scoreboard(p).alu_then_branch
      /\ out.branch_then_alu = Scoreboard(p).branch_then_alu
      /\ out.candidate = Scoreboard(p).candidate
      /\ out.allow = scoreboard_allow_second(p, BlockedBy(back) = {})
      /\ out.blocks = R \cup BlockedBy(back)
             \cup (IF Scoreboard(p).branch_then_alu THEN {"older_branch_first"} ELSE {})
  BY Zenon DEF ScoreboardOut, Offered, Registered, BlockedBy, Judged
<1>4. scoreboard_allow_second(p, BlockedBy(back) = {})
         = (Scoreboard(p).candidate /\ ~Scoreboard(p).branch_then_alu /\ BlockedBy(back) = {})
  BY <1>1, Zenon DEF scoreboard_allow_second
<1> HIDE DEF p, out, R
<1>5. AluFirst(a, b) => out.alu_then_branch = TRUE
  BY <1>1, <1>3, Zenon
<1>6. BranchFirst(a, b) => out.branch_then_alu = TRUE
  BY <1>1, <1>3, Zenon
<1>7. AluFirst(a, b) /\ R = {} => out.candidate = TRUE
  BY <1>2, <1>3, Zenon
<1>8. AluFirst(a, b) /\ R = {} /\ BlockedBy(back) = {} /\ ~BranchFirst(a, b) => out.allow = TRUE
  BY <1>1, <1>2, <1>3, <1>4, Zenon
<1>9. R # {} \/ BranchFirst(a, b) \/ BlockedBy(back) # {} => out.allow = FALSE
  BY <1>1, <1>2, <1>3, <1>4, Zenon
<1>10. ~BranchFirst(a, b) => out.blocks = R \cup BlockedBy(back)
  BY <1>1, <1>3
<1>11. BranchFirst(a, b) => out.blocks = R \cup BlockedBy(back) \cup {"older_branch_first"}
  BY <1>1, <1>3
<1> QED BY <1>5, <1>6, <1>7, <1>8, <1>9, <1>10, <1>11, Zenon DEF out, R

\* A clean pair goes; a pair with something against it does not, for that reason.
LEMMA ScoreboardVerdicts ==
    ASSUME NEW a, NEW b, NEW back, NEW x
    PROVE  LET out == ScoreboardOut(Offered(a, b, back))
               R == Judged(a, b)
           IN /\ AluFirst(a, b) /\ ~BranchFirst(a, b) /\ R = {} /\ BlockedBy(back) = {}
                   => Matches(out, [candidate |-> TRUE, alu_then_branch |-> TRUE, allow |-> TRUE])
              /\ ~BranchFirst(a, b) /\ R # {} /\ BlockedBy(back) = {}
                   => Matches(out, [allow |-> FALSE, blocks |-> R])
              /\ ~BranchFirst(a, b) /\ R = {} /\ BlockedBy(back) = {x}
                   => Matches(out, [allow |-> FALSE, blocks |-> {x}])
              /\ BranchFirst(a, b) /\ R = {} /\ BlockedBy(back) = {}
                   => Matches(out, [branch_then_alu |-> TRUE, allow |-> FALSE,
                                    blocks |-> {"older_branch_first"}])
<1> DEFINE out == ScoreboardOut(Offered(a, b, back))
           R == Judged(a, b)
<1>1. /\ AluFirst(a, b) => out.alu_then_branch = TRUE
      /\ BranchFirst(a, b) => out.branch_then_alu = TRUE
      /\ AluFirst(a, b) /\ R = {} => out.candidate = TRUE
      /\ AluFirst(a, b) /\ R = {} /\ BlockedBy(back) = {} /\ ~BranchFirst(a, b) => out.allow = TRUE
      /\ R # {} \/ BranchFirst(a, b) \/ BlockedBy(back) # {} => out.allow = FALSE
      /\ ~BranchFirst(a, b) => out.blocks = R \cup BlockedBy(back)
      /\ BranchFirst(a, b) => out.blocks = R \cup BlockedBy(back) \cup {"older_branch_first"}
  BY ScoreboardOfPair, Zenon
<1> HIDE DEF out, R
<1>2. /\ {x} # {} /\ {} \cup {x} = {x} /\ R \cup {} = R
      /\ {} \cup {} \cup {"older_branch_first"} = {"older_branch_first"}
  OBVIOUS
<1>3. AluFirst(a, b) /\ ~BranchFirst(a, b) /\ R = {} /\ BlockedBy(back) = {}
         => Matches(out, [candidate |-> TRUE, alu_then_branch |-> TRUE, allow |-> TRUE])
  BY <1>1, MatchesEach, Zenon
<1>4. ~BranchFirst(a, b) /\ R # {} /\ BlockedBy(back) = {}
         => Matches(out, [allow |-> FALSE, blocks |-> R])
  BY <1>1, <1>2, MatchesEach, Zenon
<1>5. ~BranchFirst(a, b) /\ R = {} /\ BlockedBy(back) = {x}
         => Matches(out, [allow |-> FALSE, blocks |-> {x}])
  BY <1>1, <1>2, MatchesEach, Zenon
<1>6. BranchFirst(a, b) /\ R = {} /\ BlockedBy(back) = {}
         => Matches(out, [branch_then_alu |-> TRUE, allow |-> FALSE, blocks |-> {"older_branch_first"}])
  BY <1>1, <1>2, MatchesEach, Zenon
<1> QED BY <1>3, <1>4, <1>5, <1>6, Zenon DEF out, R

\* The instructions of its bench.
AluOlder == Ins("alu", TRUE, 5, 0, 0)
BranchYounger == Ins("branch", FALSE, 0, 1, 2)
Reader == Ins("branch", FALSE, 0, 5, 2)
Writer == Ins("alu", TRUE, 5, 1, 2)
Load == Ins("unit", TRUE, 5, 0, 0)
Jump == Ins("jump", FALSE, 0, 1, 2)
BranchOlder == Ins("branch", FALSE, 5, 0, 0)
AluYounger == Ins("alu", TRUE, 0, 1, 2)

\* lane1_issue_scoreboard.v holds no register: every step of its bench sees what it wants.
LEMMA ScoreboardRuns == \A d : \A k \in 1 .. 9 : Runs("scoreboard", k, 0, d, d)
<1>1. /\ AluOlder.kind = "alu" /\ AluOlder.wen = TRUE /\ AluOlder.rd = 5
      /\ BranchYounger.kind = "branch" /\ BranchYounger.wen = FALSE
      /\ BranchYounger.rs1 = 1 /\ BranchYounger.rs2 = 2
      /\ Reader.kind = "branch" /\ Reader.wen = FALSE /\ Reader.rs1 = 5 /\ Reader.rs2 = 2
      /\ Writer.kind = "alu" /\ Writer.wen = TRUE /\ Writer.rd = 5 /\ Writer.rs1 = 1 /\ Writer.rs2 = 2
      /\ Load.kind = "unit" /\ Load.wen = TRUE /\ Load.rd = 5
      /\ Jump.kind = "jump" /\ Jump.wen = FALSE /\ Jump.rs1 = 1 /\ Jump.rs2 = 2
      /\ BranchOlder.kind = "branch" /\ BranchOlder.wen = FALSE /\ BranchOlder.rd = 5
      /\ AluYounger.kind = "alu" /\ AluYounger.wen = TRUE /\ AluYounger.rd = 0
      /\ AluYounger.rs1 = 1 /\ AluYounger.rs2 = 2
  BY Zenon DEF Ins, AluOlder, BranchYounger, Reader, Writer, Load, Jump, BranchOlder, AluYounger
<1>2. Judged(AluOlder, BranchYounger) = {}
  BY <1>1, ScoreboardReasons, SMT
<1>3. Judged(AluOlder, Reader) = {"raw"} /\ {"raw"} # {}
  BY <1>1, ScoreboardReasons, SMT
<1>4. Judged(AluOlder, Writer) = {"waw", "dual_writeback"} /\ {"waw", "dual_writeback"} # {}
  BY <1>1, ScoreboardReasons, SMT
<1>5. Judged(Load, BranchYounger) = {"exclusive_backend"} /\ {"exclusive_backend"} # {}
  BY <1>1, ScoreboardReasons, SMT
<1>6. Judged(AluOlder, Jump) = {"redirect_control"} /\ {"redirect_control"} # {}
  BY <1>1, ScoreboardReasons, SMT
<1>7. Judged(BranchOlder, AluYounger) = {}
  BY <1>1, ScoreboardReasons, SMT
<1>8. /\ AluFirst(AluOlder, BranchYounger)
      /\ \A b : ~BranchFirst(AluOlder, b) /\ ~BranchFirst(Load, b)
      /\ BranchFirst(BranchOlder, AluYounger)
  BY <1>1, Zenon DEF AluFirst, BranchFirst, simple_alu, simple_branch
<1> USE Once, Passing, ScoreboardVerdicts
    DEF Runs, Scripts, Eval, DutEdge, DutOut, ScoreboardScript, Offered
<1>9. \A d : Runs("scoreboard", 1, 0, d, d)
  BY <1>2, <1>8, Zenon DEF AluOlder, BranchYounger
<1>10. \A d : Runs("scoreboard", 2, 0, d, d)
  BY <1>3, <1>8, Zenon DEF AluOlder, Reader
<1>11. \A d : Runs("scoreboard", 3, 0, d, d)
  BY <1>4, <1>8, Zenon DEF AluOlder, Writer
<1>12. \A d : Runs("scoreboard", 4, 0, d, d)
  BY <1>5, <1>8, Zenon DEF Load, BranchYounger
<1>13. \A d : Runs("scoreboard", 5, 0, d, d)
  BY <1>6, <1>8, Zenon DEF AluOlder, Jump
<1>14. \A d : Runs("scoreboard", 6, 0, d, d)
  BY <1>2, <1>8, Zenon DEF AluOlder, BranchYounger
<1>15. \A d : Runs("scoreboard", 7, 0, d, d)
  BY <1>2, <1>8, Zenon DEF AluOlder, BranchYounger
<1>16. \A d : Runs("scoreboard", 8, 0, d, d)
  BY <1>2, <1>8, Zenon DEF AluOlder, BranchYounger
<1>17. \A d : Runs("scoreboard", 9, 0, d, d)
  BY <1>7, <1>8, Zenon DEF BranchOlder, AluYounger
<1> HIDE DEF Runs
<1> QED BY <1>9, <1>10, <1>11, <1>12, <1>13, <1>14, <1>15, <1>16, <1>17

\* A tick that ends a step, and one that does not.
LEMMA StepEnds ==
    \A e : UnitStep /\ bench # "queue" /\ missed = {} /\ Runs(bench, at + 1, waited, dut, e)
             => at' = at + 1 /\ waited' = 0 /\ missed' = {} /\ dut' = e
<1> TAKE e
<1> HAVE UnitStep /\ bench # "queue" /\ missed = {} /\ Runs(bench, at + 1, waited, dut, e)
<1> DEFINE step == Scripts[bench][at + 1]
<1>1. dut' = e
  BY Zenon DEF UnitStep, Runs
<1>2. /\ ~(step.limit > waited + 1 /\ ~DutOut(bench, dut', step.in).post_valid)
      /\ Matches(DutOut(bench, dut', step.in), step.want)
  BY <1>1, Zenon DEF Runs
<1>3. at' = at + 1 /\ waited' = 0 /\ missed' = missed \cup {}
  BY <1>2, Zenon DEF UnitStep
<1> QED BY <1>1, <1>3

\* The bench waits on.
LEMMA StepWaits ==
    \A e : UnitStep /\ bench # "queue" /\ missed = {} /\ Waits(bench, at + 1, waited, dut, e)
             => at' = at /\ waited' = waited + 1 /\ missed' = {} /\ dut' = e
<1> TAKE e
<1> HAVE UnitStep /\ bench # "queue" /\ missed = {} /\ Waits(bench, at + 1, waited, dut, e)
<1>1. dut' = e
  BY Zenon DEF UnitStep, Waits
<1>2. at' = at /\ waited' = waited + 1 /\ missed' = missed
  BY <1>1, Zenon DEF UnitStep, Waits
<1> QED BY <1>1, <1>2

\* The bench has found nothing wrong in its first steps, and left the unit there.
OnTrack(n, track) ==
    /\ waited = 0 /\ missed = {} /\ at \in 0 .. n
    /\ at # 0 => dut = track[at]
\* From any state the first step leads to the track, and each other step along it.
Follows(b, n, track) ==
    /\ b # "queue" /\ n \in Nat /\ Len(Scripts[b]) = n
    /\ \A d : Runs(b, 1, 0, d, track[1])
    /\ \A k \in 2 .. n : Runs(b, k, 0, track[k - 1], track[k])

\* So the bench of a unit that follows its track keeps to it.
LEMMA TrackStep ==
    \A n, track : UnitStep /\ Follows(bench, n, track) /\ OnTrack(n, track) => OnTrack(n, track)'
<1> TAKE n, track
<1> HAVE UnitStep /\ Follows(bench, n, track) /\ OnTrack(n, track)
<1>1. n \in Nat /\ at \in 0 .. n /\ at < n /\ bench # "queue" /\ waited = 0 /\ missed = {}
  BY DEF UnitStep, Follows, OnTrack
<1>2. Runs(bench, at + 1, waited, dut, track[at + 1])
  <2>1. CASE at = 0
    <3>1. at + 1 = 1
      BY <2>1
    <3> QED BY <1>1, <3>1, Zenon DEF Follows
  <2>2. CASE at # 0
    <3>1. at + 1 \in 2 .. n /\ (at + 1) - 1 = at
      BY <1>1, <2>2
    <3>2. Runs(bench, at + 1, 0, track[(at + 1) - 1], track[at + 1])
      BY <3>1, Zenon DEF Follows
    <3> QED BY <1>1, <2>2, <3>1, <3>2, Zenon DEF OnTrack
  <2> QED BY <2>1, <2>2
<1>3. at' = at + 1 /\ waited' = 0 /\ missed' = {} /\ dut' = track[at + 1]
  BY <1>1, <1>2, StepEnds, Zenon
<1> QED BY <1>1, <1>3 DEF OnTrack

\* A bench that only evaluates finds nothing wrong whatever the unit holds.
Looks(n) == waited = 0 /\ missed = {} /\ at \in 0 .. n
\* A bench whose every step, from any state, leaves the unit as it is and sees what it wants.
ShowsAll(b, n) ==
    /\ b # "queue" /\ n \in Nat /\ Len(Scripts[b]) = n
    /\ \A d : \A k \in 1 .. n : Runs(b, k, 0, d, d)

\* So such a bench finds nothing wrong.
LEMMA LooksStep == \A n : UnitStep /\ ShowsAll(bench, n) /\ Looks(n) => Looks(n)'
<1> TAKE n
<1> HAVE UnitStep /\ ShowsAll(bench, n) /\ Looks(n)
<1>1. n \in Nat /\ at + 1 \in 1 .. n /\ bench # "queue" /\ waited = 0 /\ missed = {}
  BY DEF UnitStep, ShowsAll, Looks
<1>2. Runs(bench, at + 1, waited, dut, dut)
  BY <1>1, Zenon DEF ShowsAll
<1>3. at' = at + 1 /\ waited' = 0 /\ missed' = {}
  BY <1>1, <1>2, StepEnds, Zenon
<1> QED BY <1>1, <1>3 DEF Looks

\* What idu_cop_regs.v holds after each step of its bench.
CopRegsTrack == <<"none", "none", "first", "none", "second", "second", "third", "none">>

\* Its bench follows that track.
LEMMA CopRegsFollows == Follows("cop_regs", 8, CopRegsTrack)
<1>1. Len(Scripts["cop_regs"]) = 8
  BY DEF Scripts, CopRegsScript
<1>4. Runs("cop_regs", 2, 0, CopRegsTrack[1], CopRegsTrack[2])
  BY CopRegsRuns, Zenon DEF CopRegsTrack
<1>5. Runs("cop_regs", 3, 0, CopRegsTrack[2], CopRegsTrack[3])
  BY CopRegsRuns, Zenon DEF CopRegsTrack
<1>6. Runs("cop_regs", 4, 0, CopRegsTrack[3], CopRegsTrack[4])
  BY CopRegsRuns, Zenon DEF CopRegsTrack
<1>7. Runs("cop_regs", 5, 0, CopRegsTrack[4], CopRegsTrack[5])
  BY CopRegsRuns, Zenon DEF CopRegsTrack
<1>8. Runs("cop_regs", 6, 0, CopRegsTrack[5], CopRegsTrack[6])
  BY CopRegsRuns, Zenon DEF CopRegsTrack
<1>9. Runs("cop_regs", 7, 0, CopRegsTrack[6], CopRegsTrack[7])
  BY CopRegsRuns, Zenon DEF CopRegsTrack
<1>10. Runs("cop_regs", 8, 0, CopRegsTrack[7], CopRegsTrack[8])
  BY CopRegsRuns, Zenon DEF CopRegsTrack
<1>2. \A k \in 2 .. 8 : Runs("cop_regs", k, 0, CopRegsTrack[k - 1], CopRegsTrack[k])
  <2>1. \A k \in 2 .. 8 : k \in {2, 3, 4, 5, 6, 7, 8}
    OBVIOUS
  <2> QED BY <2>1, <1>4, <1>5, <1>6, <1>7, <1>8, <1>9, <1>10, SMT
<1>3. \A d : Runs("cop_regs", 1, 0, d, CopRegsTrack[1])
  BY CopRegsRuns, Zenon DEF CopRegsTrack
<1> QED BY <1>1, <1>2, <1>3 DEF Follows

\* What exu_wbu_regs.v holds after each step of its bench.
WbuRegsTrack == <<Empty, HoldsOld, Empty>>

\* Its bench follows that track.
LEMMA WbuRegsFollows == Follows("wbu_regs", 3, WbuRegsTrack)
<1>1. Len(Scripts["wbu_regs"]) = 3
  BY DEF Scripts, WbuRegsScript
<1>4. Runs("wbu_regs", 2, 0, WbuRegsTrack[1], WbuRegsTrack[2])
  BY WbuRegsRuns, Zenon DEF WbuRegsTrack
<1>5. Runs("wbu_regs", 3, 0, WbuRegsTrack[2], WbuRegsTrack[3])
  BY WbuRegsRuns, Zenon DEF WbuRegsTrack
<1>2. \A k \in 2 .. 3 : Runs("wbu_regs", k, 0, WbuRegsTrack[k - 1], WbuRegsTrack[k])
  <2>1. \A k \in 2 .. 3 : k \in {2, 3}
    OBVIOUS
  <2> QED BY <2>1, <1>4, <1>5, SMT
<1>3. \A d : Runs("wbu_regs", 1, 0, d, WbuRegsTrack[1])
  BY WbuRegsRuns, Zenon DEF WbuRegsTrack
<1> QED BY <1>1, <1>2, <1>3 DEF Follows

\* What ifu_idu_regs.v holds after each step of its bench.
IfuIduTrack == <<Empty, HoldsOld, HoldsOld, Gone, HoldsOld, HoldsOld, HoldsOld, Empty>>

\* Its bench follows that track.
LEMMA IfuIduFollows == Follows("ifu_idu", 8, IfuIduTrack)
<1>1. Len(Scripts["ifu_idu"]) = 8
  BY DEF Scripts, IfuIduScript
<1>4. Runs("ifu_idu", 2, 0, IfuIduTrack[1], IfuIduTrack[2])
  BY IfuIduRuns, Zenon DEF IfuIduTrack
<1>5. Runs("ifu_idu", 3, 0, IfuIduTrack[2], IfuIduTrack[3])
  BY IfuIduRuns, Zenon DEF IfuIduTrack
<1>6. Runs("ifu_idu", 4, 0, IfuIduTrack[3], IfuIduTrack[4])
  BY IfuIduRuns, Zenon DEF IfuIduTrack
<1>7. Runs("ifu_idu", 5, 0, IfuIduTrack[4], IfuIduTrack[5])
  BY IfuIduRuns, Zenon DEF IfuIduTrack
<1>8. Runs("ifu_idu", 6, 0, IfuIduTrack[5], IfuIduTrack[6])
  BY IfuIduRuns, Zenon DEF IfuIduTrack
<1>9. Runs("ifu_idu", 7, 0, IfuIduTrack[6], IfuIduTrack[7])
  BY IfuIduRuns, Zenon DEF IfuIduTrack
<1>10. Runs("ifu_idu", 8, 0, IfuIduTrack[7], IfuIduTrack[8])
  BY IfuIduRuns, Zenon DEF IfuIduTrack
<1>2. \A k \in 2 .. 8 : Runs("ifu_idu", k, 0, IfuIduTrack[k - 1], IfuIduTrack[k])
  <2>1. \A k \in 2 .. 8 : k \in {2, 3, 4, 5, 6, 7, 8}
    OBVIOUS
  <2> QED BY <2>1, <1>4, <1>5, <1>6, <1>7, <1>8, <1>9, <1>10, SMT
<1>3. \A d : Runs("ifu_idu", 1, 0, d, IfuIduTrack[1])
  BY IfuIduRuns, Zenon DEF IfuIduTrack
<1> QED BY <1>1, <1>2, <1>3 DEF Follows

\* What commit_visible_ctrl.v holds after each step of its bench.
CommitTrack == <<After(FALSE, 0, "none"), After(FALSE, 0, "none"), After(FALSE, 0, "none"), After(TRUE,
                 0, "brch"), After(TRUE, 1, "brch"), After(TRUE, 1, "brch"), After(FALSE, 1, "brch"),
        After(FALSE, 1, "brch"), After(FALSE, 1, "brch")>>

\* Its bench follows that track.
LEMMA CommitFollows == Follows("commit", 9, CommitTrack)
<1>1. Len(Scripts["commit"]) = 9
  BY DEF Scripts, CommitScript
<1>4. Runs("commit", 2, 0, CommitTrack[1], CommitTrack[2])
  BY CommitRuns, Zenon DEF CommitTrack
<1>5. Runs("commit", 3, 0, CommitTrack[2], CommitTrack[3])
  BY CommitRuns, Zenon DEF CommitTrack
<1>6. Runs("commit", 4, 0, CommitTrack[3], CommitTrack[4])
  BY CommitRuns, Zenon DEF CommitTrack
<1>7. Runs("commit", 5, 0, CommitTrack[4], CommitTrack[5])
  BY CommitRuns, Zenon DEF CommitTrack
<1>8. Runs("commit", 6, 0, CommitTrack[5], CommitTrack[6])
  BY CommitRuns, Zenon DEF CommitTrack
<1>9. Runs("commit", 7, 0, CommitTrack[6], CommitTrack[7])
  BY CommitRuns, Zenon DEF CommitTrack
<1>10. Runs("commit", 8, 0, CommitTrack[7], CommitTrack[8])
  BY CommitRuns, Zenon DEF CommitTrack
<1>11. Runs("commit", 9, 0, CommitTrack[8], CommitTrack[9])
  BY CommitRuns, Zenon DEF CommitTrack
<1>2. \A k \in 2 .. 9 : Runs("commit", k, 0, CommitTrack[k - 1], CommitTrack[k])
  <2>1. \A k \in 2 .. 9 : k \in {2, 3, 4, 5, 6, 7, 8, 9}
    OBVIOUS
  <2> QED BY <2>1, <1>4, <1>5, <1>6, <1>7, <1>8, <1>9, <1>10, <1>11, SMT
<1>3. \A d : Runs("commit", 1, 0, d, CommitTrack[1])
  BY CommitRuns, Zenon DEF CommitTrack
<1> QED BY <1>1, <1>2, <1>3 DEF Follows

\* What cop_backend.v holds after each step of its bench.
CopFlushTrack == <<CopClear, Counting(2, 0, 7, {}, Vill), CopClear, Counting(2, 0, 7, {}, Vill),
                   Counting(1, 0, 7, {}, Vill), Landed(0, 7, Vill), Answered(TRUE, 7, Vill),
        Answered(TRUE, 7, Vill), CopClear>>

\* Its bench follows that track.
LEMMA CopFlushFollows == Follows("cop_flush", 9, CopFlushTrack)
<1>1. Len(Scripts["cop_flush"]) = 9
  BY DEF Scripts, CopFlushScript
<1>4. Runs("cop_flush", 2, 0, CopFlushTrack[1], CopFlushTrack[2])
  BY CopFlushRuns, Zenon DEF CopFlushTrack
<1>5. Runs("cop_flush", 3, 0, CopFlushTrack[2], CopFlushTrack[3])
  BY CopFlushRuns, Zenon DEF CopFlushTrack
<1>6. Runs("cop_flush", 4, 0, CopFlushTrack[3], CopFlushTrack[4])
  BY CopFlushRuns, Zenon DEF CopFlushTrack
<1>7. Runs("cop_flush", 5, 0, CopFlushTrack[4], CopFlushTrack[5])
  BY CopFlushRuns, Zenon DEF CopFlushTrack
<1>8. Runs("cop_flush", 6, 0, CopFlushTrack[5], CopFlushTrack[6])
  BY CopFlushRuns, Zenon DEF CopFlushTrack
<1>9. Runs("cop_flush", 7, 0, CopFlushTrack[6], CopFlushTrack[7])
  BY CopFlushRuns, Zenon DEF CopFlushTrack
<1>10. Runs("cop_flush", 8, 0, CopFlushTrack[7], CopFlushTrack[8])
  BY CopFlushRuns, Zenon DEF CopFlushTrack
<1>11. Runs("cop_flush", 9, 0, CopFlushTrack[8], CopFlushTrack[9])
  BY CopFlushRuns, Zenon DEF CopFlushTrack
<1>2. \A k \in 2 .. 9 : Runs("cop_flush", k, 0, CopFlushTrack[k - 1], CopFlushTrack[k])
  <2>1. \A k \in 2 .. 9 : k \in {2, 3, 4, 5, 6, 7, 8, 9}
    OBVIOUS
  <2> QED BY <2>1, <1>4, <1>5, <1>6, <1>7, <1>8, <1>9, <1>10, <1>11, SMT
<1>3. \A d : Runs("cop_flush", 1, 0, d, CopFlushTrack[1])
  BY CopFlushRuns, Zenon DEF CopFlushTrack
<1> QED BY <1>1, <1>2, <1>3 DEF Follows

\* The bench of exu.v only looks.
LEMMA ExuShows == ShowsAll("exu", 2)
<1>1. Len(Scripts["exu"]) = 2
  BY DEF Scripts, ExuScript
<1>2. \A d : \A k \in 1 .. 2 : Runs("exu", k, 0, d, d)
  <2>1. \A k \in 1 .. 2 : k \in {1, 2}
    OBVIOUS
  <2> QED BY <2>1, ExuRuns
<1> QED BY <1>1, <1>2 DEF ShowsAll

\* The bench of decode_pair_policy.v only looks.
LEMMA PolicyShows == ShowsAll("policy", 11)
<1>1. Len(Scripts["policy"]) = 11
  BY DEF Scripts, PolicyScript
<1> QED BY <1>1, PolicyRuns DEF ShowsAll

\* The bench of lane1_issue_scoreboard.v only looks.
LEMMA ScoreboardShows == ShowsAll("scoreboard", 9)
<1>1. Len(Scripts["scoreboard"]) = 9
  BY DEF Scripts, ScoreboardScript
<1> QED BY <1>1, ScoreboardRuns DEF ShowsAll

\* Where the bench of vtype is, how long it has waited there, and what the unit holds.
OnVtype ==
    /\ missed = {}
    /\ \/ at = 0 /\ waited = 0
       \/ at = 1 /\ waited = 0 /\ dut = CopClear
       \/ at = 2 /\ waited = 0 /\ dut = Counting(2, 0, Vill, {0}, Vill)
       \/ at = 3 /\ waited = 0 /\ dut = CopClear
       \/ at = 4 /\ waited = 0 /\ dut = Counting(2, 0, Vill, {2}, Vill)
       \/ at = 4 /\ waited = 1 /\ dut = Counting(1, 0, Vill, {2}, Vill)
       \/ at = 4 /\ waited = 2 /\ dut = Landed(0, Vill, 2)
       \/ at = 5 /\ waited = 0 /\ dut = Answered(TRUE, Vill, 2)
       \/ at = 6 /\ waited = 0 /\ dut = Answered(FALSE, Vill, 2)
       \/ at = 7 /\ waited = 0 /\ dut = Counting(2, Vill, 2, {}, 2)
       \/ at = 7 /\ waited = 1 /\ dut = Counting(1, Vill, 2, {}, 2)
       \/ at = 7 /\ waited = 2 /\ dut = Landed(Vill, 2, 2)
       \/ at = 8 /\ waited = 0 /\ dut = Answered(TRUE, 2, 2)
       \/ at = 9 /\ waited = 0 /\ dut = Answered(FALSE, 2, 2)

\* The bench of vtype keeps to its places, waiting twice for an answer.
LEMMA VtypeStep == UnitStep /\ bench = "cop_vtype" /\ OnVtype => OnVtype'
<1> SUFFICES ASSUME UnitStep, bench = "cop_vtype", OnVtype PROVE OnVtype'
  OBVIOUS
<1>0. missed = {} /\ bench # "queue"
  BY DEF OnVtype
<1>14. at # 9
  <2>1. Len(Scripts["cop_vtype"]) = 9
    BY DEF Scripts, CopVtypeScript
  <2> QED BY <2>1 DEF UnitStep
<1>1. CASE at = 0 /\ waited = 0
  <2>1. at + 1 = 1
    BY <1>1
  <2>2. Runs(bench, at + 1, waited, dut, CopClear)
    BY <1>1, <2>1, CopVtypeRuns, Zenon
  <2>3. at' = at + 1 /\ waited' = 0 /\ missed' = {} /\ dut' = CopClear
    BY <1>0, <2>2, StepEnds, Zenon
  <2>4. at' = 1 /\ waited' = 0
    BY <1>1, <2>3
  <2> QED BY <2>3, <2>4, Zenon DEF OnVtype
<1>2. CASE at = 1 /\ waited = 0 /\ dut = CopClear
  <2>1. at + 1 = 2
    BY <1>2
  <2>2. Runs(bench, at + 1, waited, dut, Counting(2, 0, Vill, {0}, Vill))
    BY <1>2, <2>1, CopVtypeRuns, Zenon
  <2>3. at' = at + 1 /\ waited' = 0 /\ missed' = {} /\ dut' = Counting(2, 0, Vill, {0}, Vill)
    BY <1>0, <2>2, StepEnds, Zenon
  <2>4. at' = 2 /\ waited' = 0
    BY <1>2, <2>3
  <2> QED BY <2>3, <2>4, Zenon DEF OnVtype
<1>3. CASE at = 2 /\ waited = 0 /\ dut = Counting(2, 0, Vill, {0}, Vill)
  <2>1. at + 1 = 3
    BY <1>3
  <2>2. Runs(bench, at + 1, waited, dut, CopClear)
    BY <1>3, <2>1, CopVtypeRuns, Zenon
  <2>3. at' = at + 1 /\ waited' = 0 /\ missed' = {} /\ dut' = CopClear
    BY <1>0, <2>2, StepEnds, Zenon
  <2>4. at' = 3 /\ waited' = 0
    BY <1>3, <2>3
  <2> QED BY <2>3, <2>4, Zenon DEF OnVtype
<1>4. CASE at = 3 /\ waited = 0 /\ dut = CopClear
  <2>1. at + 1 = 4
    BY <1>4
  <2>2. Runs(bench, at + 1, waited, dut, Counting(2, 0, Vill, {2}, Vill))
    BY <1>4, <2>1, CopVtypeRuns, Zenon
  <2>3. at' = at + 1 /\ waited' = 0 /\ missed' = {} /\ dut' = Counting(2, 0, Vill, {2}, Vill)
    BY <1>0, <2>2, StepEnds, Zenon
  <2>4. at' = 4 /\ waited' = 0
    BY <1>4, <2>3
  <2> QED BY <2>3, <2>4, Zenon DEF OnVtype
<1>5. CASE at = 4 /\ waited = 0 /\ dut = Counting(2, 0, Vill, {2}, Vill)
  <2>1. at + 1 = 5
    BY <1>5
  <2>2. Waits(bench, at + 1, waited, dut, Counting(1, 0, Vill, {2}, Vill))
    BY <1>5, <2>1, CopVtypeRuns, Zenon
  <2>3. at' = at /\ waited' = waited + 1 /\ missed' = {} /\ dut' = Counting(1, 0, Vill, {2}, Vill)
    BY <1>0, <2>2, StepWaits, Zenon
  <2>4. at' = 4 /\ waited' = 1
    BY <1>5, <2>3
  <2> QED BY <2>3, <2>4, Zenon DEF OnVtype
<1>6. CASE at = 4 /\ waited = 1 /\ dut = Counting(1, 0, Vill, {2}, Vill)
  <2>1. at + 1 = 5
    BY <1>6
  <2>2. Waits(bench, at + 1, waited, dut, Landed(0, Vill, 2))
    BY <1>6, <2>1, CopVtypeRuns, Zenon
  <2>3. at' = at /\ waited' = waited + 1 /\ missed' = {} /\ dut' = Landed(0, Vill, 2)
    BY <1>0, <2>2, StepWaits, Zenon
  <2>4. at' = 4 /\ waited' = 2
    BY <1>6, <2>3
  <2> QED BY <2>3, <2>4, Zenon DEF OnVtype
<1>7. CASE at = 4 /\ waited = 2 /\ dut = Landed(0, Vill, 2)
  <2>1. at + 1 = 5
    BY <1>7
  <2>2. Runs(bench, at + 1, waited, dut, Answered(TRUE, Vill, 2))
    BY <1>7, <2>1, CopVtypeRuns, Zenon
  <2>3. at' = at + 1 /\ waited' = 0 /\ missed' = {} /\ dut' = Answered(TRUE, Vill, 2)
    BY <1>0, <2>2, StepEnds, Zenon
  <2>4. at' = 5 /\ waited' = 0
    BY <1>7, <2>3
  <2> QED BY <2>3, <2>4, Zenon DEF OnVtype
<1>8. CASE at = 5 /\ waited = 0 /\ dut = Answered(TRUE, Vill, 2)
  <2>1. at + 1 = 6
    BY <1>8
  <2>2. Runs(bench, at + 1, waited, dut, Answered(FALSE, Vill, 2))
    BY <1>8, <2>1, CopVtypeRuns, Zenon
  <2>3. at' = at + 1 /\ waited' = 0 /\ missed' = {} /\ dut' = Answered(FALSE, Vill, 2)
    BY <1>0, <2>2, StepEnds, Zenon
  <2>4. at' = 6 /\ waited' = 0
    BY <1>8, <2>3
  <2> QED BY <2>3, <2>4, Zenon DEF OnVtype
<1>9. CASE at = 6 /\ waited = 0 /\ dut = Answered(FALSE, Vill, 2)
  <2>1. at + 1 = 7
    BY <1>9
  <2>2. Runs(bench, at + 1, waited, dut, Counting(2, Vill, 2, {}, 2))
    BY <1>9, <2>1, CopVtypeRuns, Zenon
  <2>3. at' = at + 1 /\ waited' = 0 /\ missed' = {} /\ dut' = Counting(2, Vill, 2, {}, 2)
    BY <1>0, <2>2, StepEnds, Zenon
  <2>4. at' = 7 /\ waited' = 0
    BY <1>9, <2>3
  <2> QED BY <2>3, <2>4, Zenon DEF OnVtype
<1>10. CASE at = 7 /\ waited = 0 /\ dut = Counting(2, Vill, 2, {}, 2)
  <2>1. at + 1 = 8
    BY <1>10
  <2>2. Waits(bench, at + 1, waited, dut, Counting(1, Vill, 2, {}, 2))
    BY <1>10, <2>1, CopVtypeRuns, Zenon
  <2>3. at' = at /\ waited' = waited + 1 /\ missed' = {} /\ dut' = Counting(1, Vill, 2, {}, 2)
    BY <1>0, <2>2, StepWaits, Zenon
  <2>4. at' = 7 /\ waited' = 1
    BY <1>10, <2>3
  <2> QED BY <2>3, <2>4, Zenon DEF OnVtype
<1>11. CASE at = 7 /\ waited = 1 /\ dut = Counting(1, Vill, 2, {}, 2)
  <2>1. at + 1 = 8
    BY <1>11
  <2>2. Waits(bench, at + 1, waited, dut, Landed(Vill, 2, 2))
    BY <1>11, <2>1, CopVtypeRuns, Zenon
  <2>3. at' = at /\ waited' = waited + 1 /\ missed' = {} /\ dut' = Landed(Vill, 2, 2)
    BY <1>0, <2>2, StepWaits, Zenon
  <2>4. at' = 7 /\ waited' = 2
    BY <1>11, <2>3
  <2> QED BY <2>3, <2>4, Zenon DEF OnVtype
<1>12. CASE at = 7 /\ waited = 2 /\ dut = Landed(Vill, 2, 2)
  <2>1. at + 1 = 8
    BY <1>12
  <2>2. Runs(bench, at + 1, waited, dut, Answered(TRUE, 2, 2))
    BY <1>12, <2>1, CopVtypeRuns, Zenon
  <2>3. at' = at + 1 /\ waited' = 0 /\ missed' = {} /\ dut' = Answered(TRUE, 2, 2)
    BY <1>0, <2>2, StepEnds, Zenon
  <2>4. at' = 8 /\ waited' = 0
    BY <1>12, <2>3
  <2> QED BY <2>3, <2>4, Zenon DEF OnVtype
<1>13. CASE at = 8 /\ waited = 0 /\ dut = Answered(TRUE, 2, 2)
  <2>1. at + 1 = 9
    BY <1>13
  <2>2. Runs(bench, at + 1, waited, dut, Answered(FALSE, 2, 2))
    BY <1>13, <2>1, CopVtypeRuns, Zenon
  <2>3. at' = at + 1 /\ waited' = 0 /\ missed' = {} /\ dut' = Answered(FALSE, 2, 2)
    BY <1>0, <2>2, StepEnds, Zenon
  <2>4. at' = 9 /\ waited' = 0
    BY <1>13, <2>3
  <2> QED BY <2>3, <2>4, Zenon DEF OnVtype
<1> QED BY <1>14, <1>1, <1>2, <1>3, <1>4, <1>5, <1>6, <1>7, <1>8, <1>9, <1>10, <1>11, <1>12, <1>13,
           Zenon DEF OnVtype

-----------------------------------------------------------------------------
(* The script of the queue, over the line that FetchQueueProofs reads off its slots *)

\* What the bench makes of a line of at most two instructions, and what it is shown.
LineMoves(l, in) ==
    LET room == Len(l) < 2 \/ in.deq
        left == IF l # << >> /\ in.deq THEN Tail(l) ELSE l
    IN IF in.reset \/ in.flush THEN << >>
       ELSE IF in.enq # {} /\ room THEN Append(left, CHOOSE e \in in.enq : TRUE) ELSE left

\* What such a line shows.
LineShows(l, in) ==
    [deq_valid |-> l # << >>,
     enq_ready |-> Len(l) < 2 \/ in.deq,
     head |-> IF l # << >> THEN {l[1]} ELSE {},
     pair |-> IF Len(l) = 2 THEN {PairScreen(l[1], l[2])} ELSE {},
     younger |-> IF Len(l) = 2 THEN {l[2]} ELSE {}]

\* At most one instruction is offered.
OffersOne(in) == /\ \E e \in Entry : in.enq \in {{}, {e}}
                 /\ in.reset \in BOOLEAN /\ in.flush \in BOOLEAN /\ in.deq \in BOOLEAN

\* The queue moves as the line of its entries does.
LEMMA QueueMovesLine ==
    ASSUME DEPTH = 2, IInv, NEW in, OffersOne(in), QueueBenchEdge(in)
    PROVE  LineOf' = LineMoves(LineOf, in)
<1> DEFINE enq_fire == in.enq # {} /\ enq_ready(in.deq)
           deq_fire == deq_valid /\ in.deq
           l == LineOf
<1>1. /\ l \in Seq(Entry) /\ Len(l) = count /\ count \in 0 .. 2
  BY LineAfter DEF IInv, TypeOK
<1>2. l # << >> <=> count # 0
  BY <1>1
<1>3. /\ enq_fire <=> in.enq # {} /\ (Len(l) < 2 \/ in.deq)
      /\ deq_fire <=> l # << >> /\ in.deq
  BY <1>1, <1>2 DEF enq_ready, deq_valid, full, empty, OffersOne
<1>4. PICK e \in Entry : in.enq \in {{}, {e}}
  BY DEF OffersOne
<1>5. in.enq # {} => in.enq = {e} /\ (CHOOSE x \in in.enq : TRUE) = e
  BY <1>4
<1>6. CASE in.reset \/ in.flush
  <2>1. Reset \/ Flush
    BY <1>6, Zenon DEF QueueBenchEdge
  <2> QED BY <1>6, <2>1, LineAfter, Zenon DEF LineMoves
<1>7. CASE ~in.reset /\ ~in.flush /\ enq_fire /\ deq_fire
  <2>1. DequeueEnqueue(e)
    BY <1>5, <1>7, Zenon DEF QueueBenchEdge
  <2>2. LineOf' = Append(Tail(l), e)
    BY <2>1, LineAfter, Zenon
  <2> QED BY <1>3, <1>5, <1>7, <2>2, Zenon DEF LineMoves
<1>8. CASE ~in.reset /\ ~in.flush /\ enq_fire /\ ~deq_fire
  <2>1. EnqueueOnly(e)
    BY <1>5, <1>8, Zenon DEF QueueBenchEdge
  <2>2. LineOf' = Append(l, e)
    BY <2>1, LineAfter, Zenon
  <2> QED BY <1>3, <1>5, <1>8, <2>2, Zenon DEF LineMoves
<1>9. CASE ~in.reset /\ ~in.flush /\ ~enq_fire /\ deq_fire
  <2>1. DequeueOnly
    BY <1>9, Zenon DEF QueueBenchEdge
  <2>2. LineOf' = Tail(l)
    BY <2>1, LineAfter, Zenon
  <2> QED BY <1>3, <1>9, <2>2, Zenon DEF LineMoves
<1>10. CASE ~in.reset /\ ~in.flush /\ ~enq_fire /\ ~deq_fire
  <2>1. UNCHANGED vars
    BY <1>10, Zenon DEF QueueBenchEdge
  <2>2. LineOf' = l
    BY <2>1 DEF vars, LineOf, Nth
  <2> QED BY <1>3, <1>10, <2>2, Zenon DEF LineMoves
<1> QED BY <1>6, <1>7, <1>8, <1>9, <1>10

\* The queue shows what its line shows.
LEMMA QueueShowsLine ==
    ASSUME DEPTH = 2, IInv', NEW in
    PROVE  QueueOut(in)' = LineShows(LineOf', in)
<1> DEFINE l == LineAt(slot', head', count')
<1>1. LineOf' = l
  BY DEF LineOf, LineAt, Nth
<1>2. count' \in 0 .. 2 /\ head' \in {0, 1}
  BY DEF IInv, TypeOK, Slots
<1>3. /\ Len(l) = count'
      /\ count' # 0 => l # << >> /\ l[1] = slot'[head']
      /\ count' = 2 => l[2] = slot'[Succ(head')]
  <2>1. Nth(head', 0) = head' /\ Nth(head', 1) = Succ(head')
    <3>1. CASE head' = 0
      BY <3>1 DEF Nth, Succ
    <3>2. CASE head' = 1
      BY <3>2 DEF Nth, Succ
    <3> QED BY <1>2, <3>1, <3>2
  <2> QED BY <1>2, <2>1 DEF LineAt
<1>4. count' = 0 => l = << >>
  BY DEF LineAt
<1> HIDE DEF l
<1>5. /\ deq_valid' <=> l # << >>
      /\ enq_ready(in.deq)' <=> Len(l) < 2 \/ in.deq
      /\ pair_valid' <=> Len(l) = 2
  BY <1>2, <1>3, <1>4 DEF deq_valid, enq_ready, pair_valid, full, empty
<1>6. /\ l # << >> => slot'[head'] = l[1]
      /\ Len(l) = 2 => pair_younger' = l[2] /\ slot'[head'] = l[1]
  BY <1>2, <1>3, <1>4 DEF pair_younger
<1>7. /\ deq_valid' = (l # << >>)
      /\ enq_ready(in.deq)' = (Len(l) < 2 \/ in.deq)
      /\ (IF deq_valid THEN {slot[head]} ELSE {})' = (IF l # << >> THEN {l[1]} ELSE {})
      /\ (IF pair_valid THEN {PairScreen(slot[head], pair_younger)} ELSE {})'
           = (IF Len(l) = 2 THEN {PairScreen(l[1], l[2])} ELSE {})
      /\ (IF pair_valid THEN {pair_younger} ELSE {})' = (IF Len(l) = 2 THEN {l[2]} ELSE {})
  <2>1. deq_valid' = (l # << >>)
    BY <1>5, Zenon DEF deq_valid, empty
  <2>2. enq_ready(in.deq)' = (Len(l) < 2 \/ in.deq)
    BY <1>5, Zenon DEF enq_ready, deq_valid, full, empty
  <2>3. (IF deq_valid THEN {slot[head]} ELSE {})' = (IF l # << >> THEN {l[1]} ELSE {})
    BY <1>5, <1>6
  <2>4. (IF pair_valid THEN {PairScreen(slot[head], pair_younger)} ELSE {})'
           = (IF Len(l) = 2 THEN {PairScreen(l[1], l[2])} ELSE {})
    BY <1>5, <1>6
  <2>5. (IF pair_valid THEN {pair_younger} ELSE {})' = (IF Len(l) = 2 THEN {l[2]} ELSE {})
    BY <1>5, <1>6
  <2> QED BY <2>1, <2>2, <2>3, <2>4, <2>5
<1> QED BY <1>1, <1>7, Zenon DEF QueueOut, LineShows

\* The lines of the bench.
LEMMA ShortLines ==
    /\ Len(<< >>) < 2 /\ Len(<< >>) # 2
    /\ \A a : /\ <<a>> # << >> /\ Len(<<a>>) < 2 /\ Len(<<a>>) # 2 /\ Tail(<<a>>) = << >> /\ <<a>>[1] = a
              /\ Append(<< >>, a) = <<a>>
              /\ {a} # {} /\ (CHOOSE e \in {a} : TRUE) = a
    /\ \A a, b : /\ <<a, b>> # << >> /\ Len(<<a, b>>) = 2 /\ ~(Len(<<a, b>>) < 2) /\ Tail(<<a, b>>) = <<b>>
                 /\ <<a, b>>[1] = a /\ <<a, b>>[2] = b
                 /\ Append(<<a>>, b) = <<a, b>>
<1>1. Len(<< >>) < 2 /\ Len(<< >>) # 2
  OBVIOUS
<1>2. \A a : <<a>> # << >> /\ Len(<<a>>) < 2 /\ Len(<<a>>) # 2 /\ <<a>>[1] = a
  OBVIOUS
<1>3. \A a : Tail(<<a>>) = << >>
  OBVIOUS
<1>4. \A a : Append(<< >>, a) = <<a>>
  OBVIOUS
<1>5. \A a : {a} # {} /\ (CHOOSE e \in {a} : TRUE) = a
  OBVIOUS
<1>6. \A a, b : /\ <<a, b>> # << >> /\ Len(<<a, b>>) = 2 /\ ~(Len(<<a, b>>) < 2)
                 /\ <<a, b>>[1] = a /\ <<a, b>>[2] = b
  OBVIOUS
<1>7. \A a, b : Tail(<<a, b>>) = <<b>>
  OBVIOUS
<1>8. ASSUME NEW a, NEW b PROVE Append(<<a>>, b) = <<a, b>>
  <2> DEFINE S == {a, b}
  <2>1. /\ <<a>> \in Seq(S) /\ <<a, b>> \in Seq(S) /\ b \in S /\ Len(<<a>>) = 1 /\ Len(<<a, b>>) = 2
        /\ <<a>>[1] = a /\ <<a, b>>[1] = a /\ <<a, b>>[2] = b
    OBVIOUS
  <2> HIDE DEF S
  <2>2. /\ Append(<<a>>, b) \in Seq(S) /\ Len(Append(<<a>>, b)) = 2
        /\ Append(<<a>>, b)[1] = a /\ Append(<<a>>, b)[2] = b
    BY <2>1, AppendProperties
  <2>3. \A k \in 1 .. 2 : Append(<<a>>, b)[k] = <<a, b>>[k]
    BY <2>1, <2>2
  <2> QED BY <2>1, <2>2, <2>3, SeqEqual
<1> QED BY <1>1, <1>2, <1>3, <1>4, <1>5, <1>6, <1>7, <1>8

\* What the inputs of the bench make of lines of up to two instructions.
LEMMA LinesMove ==
    /\ \A l : LineMoves(l, [QueueIdle EXCEPT !.reset = TRUE]) = << >>
    /\ \A l : LineMoves(l, Flushing(QueueIdle)) = << >>
    /\ \A l, e : LineMoves(l, Flushing(Deq(Enq(e)))) = << >>
    /\ \A e : LineMoves(<< >>, Enq(e)) = <<e>>
    /\ \A e : LineMoves(<< >>, Deq(Enq(e))) = <<e>>
    /\ \A a : LineMoves(<<a>>, Deq(QueueIdle)) = << >>
    /\ \A a, e : LineMoves(<<a>>, Enq(e)) = <<a, e>>
    /\ \A a, e : LineMoves(<<a>>, Deq(Enq(e))) = <<e>>
    /\ \A a, b : LineMoves(<<a, b>>, Deq(QueueIdle)) = <<b>>
    /\ \A a, b, e : LineMoves(<<a, b>>, Enq(e)) = <<a, b>>
    /\ \A a, b, e : LineMoves(<<a, b>>, Deq(Enq(e))) = <<b, e>>
<1>1. /\ [QueueIdle EXCEPT !.reset = TRUE].reset
      /\ Flushing(QueueIdle).flush
      /\ \A e : Flushing(Deq(Enq(e))).flush
  BY Zenon DEF QueueIdle, Flushing, Deq, Enq
<1>2. \A e : /\ ~Enq(e).reset /\ ~Enq(e).flush /\ ~Enq(e).deq /\ Enq(e).enq = {e}
            /\ ~Deq(Enq(e)).reset /\ ~Deq(Enq(e)).flush /\ Deq(Enq(e)).deq /\ Deq(Enq(e)).enq = {e}
  BY Zenon DEF QueueIdle, Enq, Deq
<1>3. ~Deq(QueueIdle).reset /\ ~Deq(QueueIdle).flush /\ Deq(QueueIdle).deq /\ Deq(QueueIdle).enq = {}
  BY Zenon DEF QueueIdle, Deq
<1>4. \A l, in : in.reset \/ in.flush => LineMoves(l, in) = << >>
  BY Zenon DEF LineMoves
<1>5. \A l, in, e : ~in.reset /\ ~in.flush /\ ~in.deq /\ in.enq = {e}
                    => /\ Len(l) < 2 => LineMoves(l, in) = Append(l, e)
                       /\ ~(Len(l) < 2) => LineMoves(l, in) = l
  BY ShortLines, Zenon DEF LineMoves
<1>6. \A l, in, e : ~in.reset /\ ~in.flush /\ in.deq /\ in.enq = {e}
                    => /\ l # << >> => LineMoves(l, in) = Append(Tail(l), e)
                       /\ l = << >> => LineMoves(l, in) = Append(l, e)
  BY ShortLines, Zenon DEF LineMoves
<1>7. \A l, in : ~in.reset /\ ~in.flush /\ in.deq /\ in.enq = {} /\ l # << >>
                    => LineMoves(l, in) = Tail(l)
  BY Zenon DEF LineMoves
<1>8. \A l : LineMoves(l, [QueueIdle EXCEPT !.reset = TRUE]) = << >>
  BY <1>1, <1>4, Zenon
<1>9. \A l : LineMoves(l, Flushing(QueueIdle)) = << >>
  BY <1>1, <1>4, Zenon
<1>18. \A l, e : LineMoves(l, Flushing(Deq(Enq(e)))) = << >>
  BY <1>1, <1>4, Zenon
<1>10. ASSUME NEW e PROVE LineMoves(<< >>, Enq(e)) = <<e>>
  <2>1. Len(<< >>) < 2 /\ Append(<< >>, e) = <<e>>
    BY ShortLines, Zenon
  <2>2. ~Enq(e).reset /\ ~Enq(e).flush /\ ~Enq(e).deq /\ Enq(e).enq = {e}
    BY <1>2, Zenon
  <2>3. LineMoves(<< >>, Enq(e)) = Append(<< >>, e)
    BY <1>5, <2>1, <2>2, Zenon
  <2> QED BY <2>1, <2>3
<1>11. ASSUME NEW e PROVE LineMoves(<< >>, Deq(Enq(e))) = <<e>>
  <2>1. Append(<< >>, e) = <<e>>
    BY ShortLines, Zenon
  <2>2. ~Deq(Enq(e)).reset /\ ~Deq(Enq(e)).flush /\ Deq(Enq(e)).deq /\ Deq(Enq(e)).enq = {e}
    BY <1>2, Zenon
  <2>3. LineMoves(<< >>, Deq(Enq(e))) = Append(<< >>, e)
    BY <1>6, <2>1, <2>2, Zenon
  <2> QED BY <2>1, <2>3
<1>12. ASSUME NEW a PROVE LineMoves(<<a>>, Deq(QueueIdle)) = << >>
  <2>1. <<a>> # << >> /\ Tail(<<a>>) = << >>
    BY ShortLines, Zenon
  <2>2. LineMoves(<<a>>, Deq(QueueIdle)) = Tail(<<a>>)
    BY <1>3, <1>7, <2>1, Zenon
  <2> QED BY <2>1, <2>2
<1>13. ASSUME NEW a, NEW e PROVE LineMoves(<<a>>, Enq(e)) = <<a, e>>
  <2>1. Len(<<a>>) < 2 /\ Append(<<a>>, e) = <<a, e>>
    BY ShortLines, Zenon
  <2>2. ~Enq(e).reset /\ ~Enq(e).flush /\ ~Enq(e).deq /\ Enq(e).enq = {e}
    BY <1>2, Zenon
  <2>3. LineMoves(<<a>>, Enq(e)) = Append(<<a>>, e)
    BY <1>5, <2>1, <2>2, Zenon
  <2> QED BY <2>1, <2>3
<1>14. ASSUME NEW a, NEW e PROVE LineMoves(<<a>>, Deq(Enq(e))) = <<e>>
  <2>1. <<a>> # << >> /\ Tail(<<a>>) = << >> /\ Append(<< >>, e) = <<e>>
    BY ShortLines, Zenon
  <2>2. ~Deq(Enq(e)).reset /\ ~Deq(Enq(e)).flush /\ Deq(Enq(e)).deq /\ Deq(Enq(e)).enq = {e}
    BY <1>2, Zenon
  <2>3. LineMoves(<<a>>, Deq(Enq(e))) = Append(Tail(<<a>>), e)
    BY <1>6, <2>1, <2>2, Zenon
  <2> QED BY <2>1, <2>3
<1>15. ASSUME NEW a, NEW b PROVE LineMoves(<<a, b>>, Deq(QueueIdle)) = <<b>>
  <2>1. <<a, b>> # << >> /\ Tail(<<a, b>>) = <<b>>
    BY ShortLines, Zenon
  <2>2. LineMoves(<<a, b>>, Deq(QueueIdle)) = Tail(<<a, b>>)
    BY <1>3, <1>7, <2>1, Zenon
  <2> QED BY <2>1, <2>2
<1>16. ASSUME NEW a, NEW b, NEW e PROVE LineMoves(<<a, b>>, Enq(e)) = <<a, b>>
  <2>1. ~(Len(<<a, b>>) < 2)
    BY ShortLines, Zenon
  <2>2. ~Enq(e).reset /\ ~Enq(e).flush /\ ~Enq(e).deq /\ Enq(e).enq = {e}
    BY <1>2, Zenon
  <2>3. LineMoves(<<a, b>>, Enq(e)) = <<a, b>>
    BY <1>5, <2>1, <2>2, Zenon
  <2> QED BY <2>1, <2>3
<1>17. ASSUME NEW a, NEW b, NEW e PROVE LineMoves(<<a, b>>, Deq(Enq(e))) = <<b, e>>
  <2>1. <<a, b>> # << >> /\ Tail(<<a, b>>) = <<b>> /\ Append(<<b>>, e) = <<b, e>>
    BY ShortLines, Zenon
  <2>2. ~Deq(Enq(e)).reset /\ ~Deq(Enq(e)).flush /\ Deq(Enq(e)).deq /\ Deq(Enq(e)).enq = {e}
    BY <1>2, Zenon
  <2>3. LineMoves(<<a, b>>, Deq(Enq(e))) = Append(Tail(<<a, b>>), e)
    BY <1>6, <2>1, <2>2, Zenon
  <2> QED BY <2>1, <2>3
<1> QED BY <1>8, <1>9, <1>10, <1>11, <1>12, <1>13, <1>14, <1>15, <1>16, <1>17, <1>18, Zenon
\* What is shown of each line.
LEMMA LinesShown ==
    /\ \A in : LineShows(<< >>, in).deq_valid = FALSE
    /\ \A in : LineShows(<< >>, in).enq_ready = TRUE
    /\ \A in : LineShows(<< >>, in).pair = {}
    /\ \A in : LineShows(<< >>, in).younger = {}
    /\ \A a, in : LineShows(<<a>>, in).deq_valid = TRUE
    /\ \A a, in : LineShows(<<a>>, in).head = {a}
    /\ \A a, b, in : LineShows(<<a, b>>, in).deq_valid = TRUE
    /\ \A a, b, in : LineShows(<<a, b>>, in).head = {a}
    /\ \A a, b, in : LineShows(<<a, b>>, in).younger = {b}
    /\ \A a, b, in : LineShows(<<a, b>>, in).pair = {PairScreen(a, b)}
    /\ \A a, b, in : ~in.deq => LineShows(<<a, b>>, in).enq_ready = FALSE
<1>1. \A in : LineShows(<< >>, in).deq_valid = FALSE
  BY ShortLines, Zenon DEF LineShows
<1>2. \A in : LineShows(<< >>, in).enq_ready = TRUE
  BY ShortLines, Zenon DEF LineShows
<1>3. \A in : LineShows(<< >>, in).pair = {}
  BY ShortLines, Zenon DEF LineShows
<1>4. \A in : LineShows(<< >>, in).younger = {}
  BY ShortLines, Zenon DEF LineShows
<1>5. \A a, in : LineShows(<<a>>, in).deq_valid = TRUE
  BY ShortLines, Zenon DEF LineShows
<1>6. \A a, in : LineShows(<<a>>, in).head = {a}
  BY ShortLines, Zenon DEF LineShows
<1>7. \A a, b, in : LineShows(<<a, b>>, in).deq_valid = TRUE
  BY ShortLines, Zenon DEF LineShows
<1>8. \A a, b, in : LineShows(<<a, b>>, in).head = {a}
  BY ShortLines, Zenon DEF LineShows
<1>9. \A a, b, in : LineShows(<<a, b>>, in).younger = {b}
  BY ShortLines, Zenon DEF LineShows
<1>10. \A a, b, in : LineShows(<<a, b>>, in).pair = {PairScreen(a, b)}
  BY ShortLines, Zenon DEF LineShows
<1>11. \A a, b, in : ~in.deq => LineShows(<<a, b>>, in).enq_ready = FALSE
  BY ShortLines, Zenon DEF LineShows
<1> QED BY <1>1, <1>2, <1>3, <1>4, <1>5, <1>6, <1>7, <1>8, <1>9, <1>10, <1>11, Zenon

\* The screens of the pairs that the bench brings together.
LEMMA BenchScreens ==
    /\ {PairScreen(ins_a, ins_b)} = WantedScreen({}, TRUE)
    /\ {PairScreen(ins_b, ins_c)} = WantedScreen({"exclusive_backend"}, FALSE)
    /\ {PairScreen(ins_d, ins_e)} = WantedScreen({"redirect_control"}, FALSE)
    /\ {PairScreen(ins_e, ins_f)} = WantedScreen({"raw", "dual_writeback"}, FALSE)
    /\ {PairScreen(ins_f, ins_g)} = WantedScreen({"waw", "dual_writeback"}, FALSE)
<1>1. /\ ins_a.kind = "alu" /\ ins_a.wen = TRUE /\ ins_a.rd = 5
      /\ ins_b.kind = "branch" /\ ins_b.wen = FALSE /\ ins_b.rs1 = 1 /\ ins_b.rs2 = 2
      /\ ins_c.kind = "unit" /\ ins_c.rs1 = 4 /\ ins_c.rs2 = 0
      /\ ins_d.kind = "jump" /\ ins_d.wen = FALSE
      /\ ins_e.kind = "alu" /\ ins_e.wen = TRUE /\ ins_e.rd = 1
      /\ ins_f.kind = "alu" /\ ins_f.wen = TRUE /\ ins_f.rd = 2 /\ ins_f.rs1 = 1 /\ ins_f.rs2 = 0
      /\ ins_g.kind = "alu" /\ ins_g.wen = TRUE /\ ins_g.rd = 2 /\ ins_g.rs1 = 0 /\ ins_g.rs2 = 0
  BY Zenon DEF Fetched, ins_a, ins_b, ins_c, ins_d, ins_e, ins_f, ins_g
<1>21. PairReasons(ins_a, ins_b) = {}
  <2>1. /\ ~pair_has_raw(ins_a, ins_b)
        /\ ~pair_has_waw(ins_a, ins_b)
        /\ ~(ins_a.wen /\ ins_b.wen)
        /\ ~(exclusive_backend(ins_a) \/ exclusive_backend(ins_b))
        /\ ~(redirect_control(ins_a) \/ redirect_control(ins_b))
    BY <1>1 DEF pair_has_raw, pair_has_waw, exclusive_backend, redirect_control
  <2> QED BY <2>1, SMT DEF PairReasons
<1>22. PairReasons(ins_b, ins_c) = {"exclusive_backend"}
  <2>1. /\ ~pair_has_raw(ins_b, ins_c)
        /\ ~pair_has_waw(ins_b, ins_c)
        /\ ~(ins_b.wen /\ ins_c.wen)
        /\ (exclusive_backend(ins_b) \/ exclusive_backend(ins_c))
        /\ ~(redirect_control(ins_b) \/ redirect_control(ins_c))
    BY <1>1 DEF pair_has_raw, pair_has_waw, exclusive_backend, redirect_control
  <2> QED BY <2>1, SMT DEF PairReasons
<1>23. PairReasons(ins_d, ins_e) = {"redirect_control"}
  <2>1. /\ ~pair_has_raw(ins_d, ins_e)
        /\ ~pair_has_waw(ins_d, ins_e)
        /\ ~(ins_d.wen /\ ins_e.wen)
        /\ ~(exclusive_backend(ins_d) \/ exclusive_backend(ins_e))
        /\ (redirect_control(ins_d) \/ redirect_control(ins_e))
    BY <1>1 DEF pair_has_raw, pair_has_waw, exclusive_backend, redirect_control
  <2> QED BY <2>1, SMT DEF PairReasons
<1>24. PairReasons(ins_e, ins_f) = {"raw", "dual_writeback"}
  <2>1. /\ pair_has_raw(ins_e, ins_f)
        /\ ~pair_has_waw(ins_e, ins_f)
        /\ (ins_e.wen /\ ins_f.wen)
        /\ ~(exclusive_backend(ins_e) \/ exclusive_backend(ins_f))
        /\ ~(redirect_control(ins_e) \/ redirect_control(ins_f))
    BY <1>1 DEF pair_has_raw, pair_has_waw, exclusive_backend, redirect_control
  <2> QED BY <2>1, SMT DEF PairReasons
<1>25. PairReasons(ins_f, ins_g) = {"waw", "dual_writeback"}
  <2>1. /\ ~pair_has_raw(ins_f, ins_g)
        /\ pair_has_waw(ins_f, ins_g)
        /\ (ins_f.wen /\ ins_g.wen)
        /\ ~(exclusive_backend(ins_f) \/ exclusive_backend(ins_g))
        /\ ~(redirect_control(ins_f) \/ redirect_control(ins_g))
    BY <1>1 DEF pair_has_raw, pair_has_waw, exclusive_backend, redirect_control
  <2> QED BY <2>1, SMT DEF PairReasons
<1>4. /\ pair_order_alu_then_branch(ins_a, ins_b) = TRUE /\ ~pair_order_branch_then_alu(ins_a, ins_b)
      /\ ~pair_order_alu_then_branch(ins_b, ins_c) /\ ~pair_order_branch_then_alu(ins_b, ins_c)
      /\ ~pair_order_alu_then_branch(ins_d, ins_e) /\ ~pair_order_branch_then_alu(ins_d, ins_e)
      /\ ~pair_order_alu_then_branch(ins_e, ins_f) /\ ~pair_order_branch_then_alu(ins_e, ins_f)
      /\ ~pair_order_alu_then_branch(ins_f, ins_g) /\ ~pair_order_branch_then_alu(ins_f, ins_g)
  BY <1>1, Zenon DEF pair_order_alu_then_branch, pair_order_branch_then_alu, simple_alu
<1>5. ASSUME NEW a, NEW b, ~pair_order_alu_then_branch(a, b), ~pair_order_branch_then_alu(a, b)
      PROVE  {PairScreen(a, b)} = WantedScreen(PairReasons(a, b), FALSE)
  <2>1. /\ pair_order_alu_then_branch(a, b) = FALSE
        /\ pair_order_branch_then_alu(a, b) = FALSE
    BY <1>5, Zenon DEF pair_order_alu_then_branch, pair_order_branch_then_alu
  <2>2. (/\ pair_order_alu_then_branch(a, b) \/ pair_order_branch_then_alu(a, b)
         /\ PairReasons(a, b) = {}) = FALSE
    BY <1>5, Zenon
  <2> QED BY <2>1, <2>2, Zenon DEF PairScreen, WantedScreen
<1>11. ASSUME NEW a, NEW b, pair_order_alu_then_branch(a, b), ~pair_order_branch_then_alu(a, b),
              PairReasons(a, b) = {}
       PROVE  {PairScreen(a, b)} = WantedScreen(PairReasons(a, b), TRUE)
  <2>1. /\ pair_order_alu_then_branch(a, b) = TRUE
        /\ pair_order_branch_then_alu(a, b) = FALSE
    BY <1>11, Zenon DEF pair_order_alu_then_branch, pair_order_branch_then_alu
  <2>2. (/\ pair_order_alu_then_branch(a, b) \/ pair_order_branch_then_alu(a, b)
         /\ PairReasons(a, b) = {}) = TRUE
    BY <1>11, Zenon
  <2> QED BY <2>1, <2>2, Zenon DEF PairScreen, WantedScreen
<1>6. {PairScreen(ins_a, ins_b)} = WantedScreen({}, TRUE)
  BY <1>21, <1>4, <1>11
<1>7. {PairScreen(ins_b, ins_c)} = WantedScreen({"exclusive_backend"}, FALSE)
  BY <1>22, <1>4, <1>5
<1>8. {PairScreen(ins_d, ins_e)} = WantedScreen({"redirect_control"}, FALSE)
  BY <1>23, <1>4, <1>5
<1>9. {PairScreen(ins_e, ins_f)} = WantedScreen({"raw", "dual_writeback"}, FALSE)
  BY <1>24, <1>4, <1>5
<1>10. {PairScreen(ins_f, ins_g)} = WantedScreen({"waw", "dual_writeback"}, FALSE)
  BY <1>25, <1>4, <1>5
<1> QED BY <1>6, <1>7, <1>8, <1>9, <1>10

\* The steps of the queue's bench, over the line.
QueueRuns(step, l, m) ==
    /\ step.tick /\ ~(step.limit > 0 + 1)
    /\ OffersOne(step.in)
    /\ m = LineMoves(l, step.in)
    /\ Matches(LineShows(m, step.in), step.want)

\* Every input of the bench offers at most one instruction the queue can hold.
LEMMA OneOffered ==
    /\ OffersOne([QueueIdle EXCEPT !.reset = TRUE])
    /\ OffersOne(Flushing(QueueIdle))
    /\ OffersOne(Deq(QueueIdle))
    /\ \A e \in Entry : OffersOne(Enq(e)) /\ OffersOne(Deq(Enq(e))) /\ OffersOne(Flushing(Deq(Enq(e))))
<1>1. PICK e : e \in Entry
  BY BenchAssumption DEF BenchEntries
<1>2. OffersOne([QueueIdle EXCEPT !.reset = TRUE])
  BY <1>1, Zenon DEF OffersOne, QueueIdle
<1>3. OffersOne(Flushing(QueueIdle))
  BY <1>1, Zenon DEF OffersOne, QueueIdle, Flushing
<1>4. OffersOne(Deq(QueueIdle))
  BY <1>1, Zenon DEF OffersOne, QueueIdle, Deq
<1>5. \A x \in Entry : OffersOne(Enq(x)) /\ OffersOne(Deq(Enq(x))) /\ OffersOne(Flushing(Deq(Enq(x))))
  BY Zenon DEF OffersOne, QueueIdle, Deq, Enq, Flushing
<1> QED BY <1>2, <1>3, <1>4, <1>5

\* The lines of the bench, step by step.
QueueLines == <<<< >>, <<ins_a>>, <<ins_a, ins_b>>, <<ins_a, ins_b>>, <<ins_b, ins_c>>, <<ins_c>>,
                << >>, <<ins_a>>, <<ins_a, ins_b>>, << >>, <<ins_a>>, <<ins_b>>, << >>, <<ins_d>>,
        <<ins_d, ins_e>>, <<ins_e, ins_f>>, <<ins_f, ins_g>>>>

\* The lengths of the three scripts.
LEMMA TupleLengths ==
    /\ \A a, b, c, d : Len(<<a, b, c, d>>) = 4
    /\ \A a, b, c, d, e, f : Len(<<a, b, c, d, e, f>>) = 6
    /\ \A a, b, c, d, e, f, g : Len(<<a, b, c, d, e, f, g>>) = 7
OBVIOUS

\* Two scripts in a row have the steps of both.
LEMMA JoinedSteps ==
    ASSUME NEW S, NEW s \in Seq(S), NEW t \in Seq(S)
    PROVE  /\ s \o t \in Seq(S) /\ Len(s \o t) = Len(s) + Len(t)
           /\ \A k \in 1 .. Len(s) : (s \o t)[k] = s[k]
           /\ \A k \in 1 .. Len(t) : (s \o t)[Len(s) + k] = t[k]
OBVIOUS

\* The steps of the queue's bench, by script.
LEMMA QueueSteps ==
    LET S == Scripts["queue"]
    IN /\ Len(S) = 17
       /\ \A k \in 1 .. 7 : S[k] = FillAndDrain[k]
       /\ \A k \in 1 .. 6 : S[7 + k] = FlushQueue[k]
       /\ \A k \in 1 .. 4 : S[13 + k] = HostilePairs[k]
<1>1. PICK T : FillAndDrain \in Seq(T) /\ FlushQueue \in Seq(T) /\ HostilePairs \in Seq(T)
  BY ScriptsAreSequences
<1>2. /\ Len(FillAndDrain) = 7 /\ Len(FlushQueue) = 6 /\ Len(HostilePairs) = 4
  <2>1. Len(FillAndDrain) = 7
    BY Zenon, TupleLengths DEF FillAndDrain
  <2>2. Len(FlushQueue) = 6
    BY Zenon, TupleLengths DEF FlushQueue
  <2>3. Len(HostilePairs) = 4
    BY Zenon, TupleLengths DEF HostilePairs
  <2> QED BY <2>1, <2>2, <2>3
<1>3. Scripts["queue"] = (FillAndDrain \o FlushQueue) \o HostilePairs
  BY Zenon DEF Scripts
<1>4. /\ FillAndDrain \o FlushQueue \in Seq(T) /\ Len(FillAndDrain \o FlushQueue) = 13
      /\ \A k \in 1 .. 7 : (FillAndDrain \o FlushQueue)[k] = FillAndDrain[k]
      /\ \A k \in 1 .. 6 : (FillAndDrain \o FlushQueue)[7 + k] = FlushQueue[k]
  <2>1. /\ FillAndDrain \o FlushQueue \in Seq(T)
        /\ Len(FillAndDrain \o FlushQueue) = Len(FillAndDrain) + Len(FlushQueue)
        /\ \A k \in 1 .. Len(FillAndDrain) : (FillAndDrain \o FlushQueue)[k] = FillAndDrain[k]
        /\ \A k \in 1 .. Len(FlushQueue) :
              (FillAndDrain \o FlushQueue)[Len(FillAndDrain) + k] = FlushQueue[k]
    BY <1>1, JoinedSteps
  <2>2. 7 + 6 = 13
    OBVIOUS
  <2> QED BY <1>2, <2>1, <2>2, Zenon
<1> DEFINE J == FillAndDrain \o FlushQueue
<1> HIDE DEF J
<1>5. /\ Len(J \o HostilePairs) = 17
      /\ \A k \in 1 .. 13 : (J \o HostilePairs)[k] = J[k]
      /\ \A k \in 1 .. 4 : (J \o HostilePairs)[13 + k] = HostilePairs[k]
  <2>1. J \in Seq(T) /\ Len(J) = 13
    BY <1>4, Zenon DEF J
  <2>2. /\ J \o HostilePairs \in Seq(T)
        /\ Len(J \o HostilePairs) = Len(J) + Len(HostilePairs)
        /\ \A k \in 1 .. Len(J) : (J \o HostilePairs)[k] = J[k]
        /\ \A k \in 1 .. Len(HostilePairs) : (J \o HostilePairs)[Len(J) + k] = HostilePairs[k]
    <3>1. HostilePairs \in Seq(T)
      BY <1>1
    <3>2. ASSUME NEW A \in Seq(T)
          PROVE  /\ A \o HostilePairs \in Seq(T)
                 /\ Len(A \o HostilePairs) = Len(A) + Len(HostilePairs)
                 /\ \A k \in 1 .. Len(A) : (A \o HostilePairs)[k] = A[k]
                 /\ \A k \in 1 .. Len(HostilePairs) :
                       (A \o HostilePairs)[Len(A) + k] = HostilePairs[k]
      BY <3>1, JoinedSteps
    <3>3. J \in Seq(T)
      BY <2>1, Zenon
    <3> QED BY <3>2, <3>3, Zenon
  <2>3. 13 + 4 = 17
    OBVIOUS
  <2> QED BY <1>2, <2>1, <2>2, <2>3, Zenon
<1> DEFINE S == Scripts["queue"]
<1>8. S = J \o HostilePairs
  BY <1>3, Zenon DEF J
<1>9. /\ \A k \in 1 .. 7 : J[k] = FillAndDrain[k]
      /\ \A k \in 1 .. 6 : J[7 + k] = FlushQueue[k]
  BY <1>4, Zenon DEF J
<1> HIDE DEF S
<1>11. \A k \in 1 .. 13 : S[k] = J[k]
  BY <1>5, <1>8, Zenon
<1>6. \A k \in 1 .. 7 : S[k] = FillAndDrain[k]
  <2>1. \A k \in 1 .. 7 : k \in 1 .. 13
    OBVIOUS
  <2> QED BY <1>9, <1>11, <2>1, Zenon
<1>7. \A k \in 1 .. 6 : S[7 + k] = FlushQueue[k]
  <2>1. \A k \in 1 .. 6 : 7 + k \in 1 .. 13
    OBVIOUS
  <2> QED BY <1>9, <1>11, <2>1, Zenon
<1>10. Len(S) = 17 /\ \A k \in 1 .. 4 : S[13 + k] = HostilePairs[k]
  BY <1>5, <1>8, Zenon
<1> QED BY <1>6, <1>7, <1>10, Zenon DEF S

\* A pair is shown as the bench wants it once its screen is the wanted one.
LEMMA PairShown ==
    \A a, b, R, c, in :
       {PairScreen(a, b)} = WantedScreen(R, c)
       => /\ Matches(LineShows(<<a, b>>, in), ShowsPair(a, R, c, b))
          /\ Matches(LineShows(<<a, b>>, in), Screened(R, c))
          /\ ~in.deq => Matches(LineShows(<<a, b>>, in),
                                [deq_valid |-> TRUE, enq_ready |-> FALSE, head |-> {a},
                                 pair |-> WantedScreen(R, c), younger |-> {b}])
<1> TAKE a, b, R, c, in
<1> HAVE {PairScreen(a, b)} = WantedScreen(R, c)
<1> DEFINE out == LineShows(<<a, b>>, in)
           h == {a}
           y == {b}
           p == WantedScreen(R, c)
<1>1. out.deq_valid = TRUE /\ out.head = h /\ out.younger = y /\ out.pair = p
  <2>1. out.deq_valid = TRUE
    BY LinesShown
  <2>2. out.head = h
    BY LinesShown
  <2>3. out.younger = y
    BY LinesShown
  <2>4. out.pair = p
    <3>1. out.pair = {PairScreen(a, b)}
      BY LinesShown
    <3> QED BY <3>1
  <2> QED BY <2>1, <2>2, <2>3, <2>4
<1>2. ~in.deq => out.enq_ready = FALSE
  BY LinesShown
<1> HIDE DEF out, h, y, p
<1>3. Matches(out, [deq_valid |-> TRUE, head |-> h, pair |-> p, younger |-> y])
  BY <1>1, MatchesEach, Zenon
<1>4. Matches(out, [pair |-> p])
  BY <1>1, MatchesEach, Zenon
<1>5. ~in.deq => Matches(out, [deq_valid |-> TRUE, enq_ready |-> FALSE, head |-> h, pair |-> p,
                               younger |-> y])
  BY <1>1, <1>2, MatchesEach, Zenon
<1> QED BY <1>3, <1>4, <1>5, Zenon DEF out, h, y, p, ShowsPair, Screened

\* A tick that moves the line as it should and shows what it should.
LEMMA TickRuns ==
    \A in, want, l, m :
       OffersOne(in) /\ m = LineMoves(l, in) /\ Matches(LineShows(m, in), want)
         => QueueRuns(Tick(in, want), l, m)
<1>1. ~(1 > 0 + 1)
  OBVIOUS
<1> QED BY <1>1, Zenon DEF QueueRuns, Tick

\* Each scripted step of ifu_fetch_queue.v, from the line the one before it left.
LEMMA QueueBenchRuns ==
    /\ \A l : QueueRuns(FillAndDrain[1], l, << >>)
    /\ QueueRuns(FillAndDrain[2], << >>, <<ins_a>>)
    /\ QueueRuns(FillAndDrain[3], <<ins_a>>, <<ins_a, ins_b>>)
    /\ QueueRuns(FillAndDrain[4], <<ins_a, ins_b>>, <<ins_a, ins_b>>)
    /\ QueueRuns(FillAndDrain[5], <<ins_a, ins_b>>, <<ins_b, ins_c>>)
    /\ QueueRuns(FillAndDrain[6], <<ins_b, ins_c>>, <<ins_c>>)
    /\ QueueRuns(FillAndDrain[7], <<ins_c>>, << >>)
    /\ QueueRuns(FlushQueue[1], << >>, <<ins_a>>)
    /\ QueueRuns(FlushQueue[2], <<ins_a>>, <<ins_a, ins_b>>)
    /\ QueueRuns(FlushQueue[3], <<ins_a, ins_b>>, << >>)
    /\ QueueRuns(FlushQueue[4], << >>, <<ins_a>>)
    /\ QueueRuns(FlushQueue[5], <<ins_a>>, <<ins_b>>)
    /\ QueueRuns(FlushQueue[6], <<ins_b>>, << >>)
    /\ QueueRuns(HostilePairs[1], << >>, <<ins_d>>)
    /\ QueueRuns(HostilePairs[2], <<ins_d>>, <<ins_d, ins_e>>)
    /\ QueueRuns(HostilePairs[3], <<ins_d, ins_e>>, <<ins_e, ins_f>>)
    /\ QueueRuns(HostilePairs[4], <<ins_e, ins_f>>, <<ins_f, ins_g>>)
<1>1. /\ \A e : ~Enq(e).deq
      /\ ~(1 > 0 + 1)
      /\ ins_a \in Entry /\ ins_b \in Entry /\ ins_c \in Entry /\ ins_d \in Entry
      /\ ins_e \in Entry /\ ins_f \in Entry /\ ins_g \in Entry
  <2>1. \A e : ~Enq(e).deq
    BY Zenon DEF Enq, QueueIdle
  <2> QED BY <2>1, BenchAssumption DEF BenchEntries
<1>19. \A in : Matches(LineShows(<<ins_a, ins_b>>, in), ShowsPair(ins_a, {}, TRUE, ins_b))
  BY BenchScreens, PairShown
<1>24. \A in : ~in.deq => Matches(LineShows(<<ins_a, ins_b>>, in),
                                  [deq_valid |-> TRUE, enq_ready |-> FALSE, head |-> {ins_a},
                                   pair |-> WantedScreen({}, TRUE), younger |-> {ins_b}])
  BY BenchScreens, PairShown
<1>20. \A in : Matches(LineShows(<<ins_b, ins_c>>, in),
                       ShowsPair(ins_b, {"exclusive_backend"}, FALSE, ins_c))
  BY BenchScreens, PairShown
<1>21. \A in : Matches(LineShows(<<ins_d, ins_e>>, in), Screened({"redirect_control"}, FALSE))
  BY BenchScreens, PairShown
<1>22. \A in : Matches(LineShows(<<ins_e, ins_f>>, in), Screened({"raw", "dual_writeback"}, FALSE))
  BY BenchScreens, PairShown
<1>23. \A in : Matches(LineShows(<<ins_f, ins_g>>, in), Screened({"waw", "dual_writeback"}, FALSE))
  BY BenchScreens, PairShown
<1>4. QueueRuns(FillAndDrain[3], <<ins_a>>, <<ins_a, ins_b>>)
  <2>1. FillAndDrain[3] = Tick(Enq(ins_b), [deq_valid |-> TRUE, enq_ready |-> FALSE, head |-> {ins_a},
                             pair |-> WantedScreen({}, TRUE), younger |-> {ins_b}])
    BY Zenon DEF FillAndDrain
  <2>2. OffersOne(Enq(ins_b))
    BY <1>1, OneOffered, Zenon
  <2>3. <<ins_a, ins_b>> = LineMoves(<<ins_a>>, Enq(ins_b))
    BY LinesMove
  <2>4. Matches(LineShows(<<ins_a, ins_b>>, Enq(ins_b)), [deq_valid |-> TRUE, enq_ready |-> FALSE, head |-> {ins_a},
                             pair |-> WantedScreen({}, TRUE), younger |-> {ins_b}])
    BY <1>1, <1>24
  <2> QED BY <2>1, <2>2, <2>3, <2>4, TickRuns
<1>5. QueueRuns(FillAndDrain[4], <<ins_a, ins_b>>, <<ins_a, ins_b>>)
  <2>1. FillAndDrain[4] = Tick(Enq(ins_c), ShowsPair(ins_a, {}, TRUE, ins_b))
    BY Zenon DEF FillAndDrain
  <2>2. OffersOne(Enq(ins_c))
    BY <1>1, OneOffered, Zenon
  <2>3. <<ins_a, ins_b>> = LineMoves(<<ins_a, ins_b>>, Enq(ins_c))
    BY LinesMove
  <2>4. Matches(LineShows(<<ins_a, ins_b>>, Enq(ins_c)), ShowsPair(ins_a, {}, TRUE, ins_b))
    BY <1>19, Zenon
  <2> QED BY <2>1, <2>2, <2>3, <2>4, TickRuns
<1>6. QueueRuns(FillAndDrain[5], <<ins_a, ins_b>>, <<ins_b, ins_c>>)
  <2>1. FillAndDrain[5] = Tick(Deq(Enq(ins_c)), ShowsPair(ins_b, {"exclusive_backend"}, FALSE, ins_c))
    BY Zenon DEF FillAndDrain
  <2>2. OffersOne(Deq(Enq(ins_c)))
    BY <1>1, OneOffered, Zenon
  <2>3. <<ins_b, ins_c>> = LineMoves(<<ins_a, ins_b>>, Deq(Enq(ins_c)))
    BY LinesMove
  <2>4. Matches(LineShows(<<ins_b, ins_c>>, Deq(Enq(ins_c))), ShowsPair(ins_b, {"exclusive_backend"}, FALSE, ins_c))
    BY <1>1, <1>20
  <2> QED BY <2>1, <2>2, <2>3, <2>4, TickRuns
<1>16. QueueRuns(HostilePairs[2], <<ins_d>>, <<ins_d, ins_e>>)
  <2>1. HostilePairs[2] = Tick(Enq(ins_e), Screened({"redirect_control"}, FALSE))
    BY Zenon DEF HostilePairs
  <2>2. OffersOne(Enq(ins_e))
    BY <1>1, OneOffered, Zenon
  <2>3. <<ins_d, ins_e>> = LineMoves(<<ins_d>>, Enq(ins_e))
    BY LinesMove
  <2>4. Matches(LineShows(<<ins_d, ins_e>>, Enq(ins_e)), Screened({"redirect_control"}, FALSE))
    BY <1>1, <1>21
  <2> QED BY <2>1, <2>2, <2>3, <2>4, TickRuns
<1>17. QueueRuns(HostilePairs[3], <<ins_d, ins_e>>, <<ins_e, ins_f>>)
  <2>1. HostilePairs[3] = Tick(Deq(Enq(ins_f)), Screened({"raw", "dual_writeback"}, FALSE))
    BY Zenon DEF HostilePairs
  <2>2. OffersOne(Deq(Enq(ins_f)))
    BY <1>1, OneOffered, Zenon
  <2>3. <<ins_e, ins_f>> = LineMoves(<<ins_d, ins_e>>, Deq(Enq(ins_f)))
    BY LinesMove
  <2>4. Matches(LineShows(<<ins_e, ins_f>>, Deq(Enq(ins_f))), Screened({"raw", "dual_writeback"}, FALSE))
    BY <1>1, <1>22
  <2> QED BY <2>1, <2>2, <2>3, <2>4, TickRuns
<1>18. QueueRuns(HostilePairs[4], <<ins_e, ins_f>>, <<ins_f, ins_g>>)
  <2>1. HostilePairs[4] = Tick(Deq(Enq(ins_g)), Screened({"waw", "dual_writeback"}, FALSE))
    BY Zenon DEF HostilePairs
  <2>2. OffersOne(Deq(Enq(ins_g)))
    BY <1>1, OneOffered, Zenon
  <2>3. <<ins_f, ins_g>> = LineMoves(<<ins_e, ins_f>>, Deq(Enq(ins_g)))
    BY LinesMove
  <2>4. Matches(LineShows(<<ins_f, ins_g>>, Deq(Enq(ins_g))), Screened({"waw", "dual_writeback"}, FALSE))
    BY <1>1, <1>23
  <2> QED BY <2>1, <2>2, <2>3, <2>4, TickRuns
<1> USE <1>1, LinesMove, LinesShown, MatchesEach, OneOffered
    DEF QueueRuns, Tick, Shows, Nothing
<1>2. \A l : QueueRuns(FillAndDrain[1], l, << >>)
  BY Zenon DEF FillAndDrain
<1>3. QueueRuns(FillAndDrain[2], << >>, <<ins_a>>)
  BY Zenon DEF FillAndDrain
<1>7. QueueRuns(FillAndDrain[6], <<ins_b, ins_c>>, <<ins_c>>)
  BY Zenon DEF FillAndDrain
<1>8. QueueRuns(FillAndDrain[7], <<ins_c>>, << >>)
  BY Zenon DEF FillAndDrain
<1>9. QueueRuns(FlushQueue[1], << >>, <<ins_a>>)
  BY Zenon DEF FlushQueue
<1>10. QueueRuns(FlushQueue[2], <<ins_a>>, <<ins_a, ins_b>>)
  BY Zenon DEF FlushQueue
<1>11. QueueRuns(FlushQueue[3], <<ins_a, ins_b>>, << >>)
  BY Zenon DEF FlushQueue
<1>12. QueueRuns(FlushQueue[4], << >>, <<ins_a>>)
  BY Zenon DEF FlushQueue
<1>13. QueueRuns(FlushQueue[5], <<ins_a>>, <<ins_b>>)
  BY Zenon DEF FlushQueue
<1>14. QueueRuns(FlushQueue[6], <<ins_b>>, << >>)
  BY Zenon DEF FlushQueue
<1>15. QueueRuns(HostilePairs[1], << >>, <<ins_d>>)
  BY Zenon DEF HostilePairs
<1> HIDE DEF QueueRuns
<1> QED BY <1>2, <1>3, <1>4, <1>5, <1>6, <1>7, <1>8, <1>9, <1>10, <1>11, <1>12, <1>13, <1>14, <1>15,
           <1>16, <1>17, <1>18, Zenon
\* The scripted steps follow these lines, from whatever line the queue powers up with.
LEMMA QueueFollows ==
    /\ Len(Scripts["queue"]) = 17
    /\ \A l : QueueRuns(Scripts["queue"][1], l, QueueLines[1])
    /\ \A k \in 2 .. 17 : QueueRuns(Scripts["queue"][k], QueueLines[k - 1], QueueLines[k])
<1> DEFINE S == Scripts["queue"]
<1>1. /\ Len(S) = 17
      /\ \A k \in 1 .. 7 : S[k] = FillAndDrain[k]
      /\ \A k \in 1 .. 6 : S[7 + k] = FlushQueue[k]
      /\ \A k \in 1 .. 4 : S[13 + k] = HostilePairs[k]
  BY QueueSteps, Zenon
<1> HIDE DEF S
<1>2. /\ S[1] = FillAndDrain[1] /\ S[2] = FillAndDrain[2] /\ S[3] = FillAndDrain[3]
      /\ S[4] = FillAndDrain[4] /\ S[5] = FillAndDrain[5] /\ S[6] = FillAndDrain[6]
      /\ S[7] = FillAndDrain[7]
  BY <1>1
<1>3. /\ S[8] = FlushQueue[1] /\ S[9] = FlushQueue[2] /\ S[10] = FlushQueue[3]
      /\ S[11] = FlushQueue[4] /\ S[12] = FlushQueue[5] /\ S[13] = FlushQueue[6]
  <2>1. /\ 7 + 1 = 8 /\ 7 + 2 = 9 /\ 7 + 3 = 10 /\ 7 + 4 = 11 /\ 7 + 5 = 12 /\ 7 + 6 = 13
        /\ 1 \in 1 .. 6 /\ 2 \in 1 .. 6 /\ 3 \in 1 .. 6 /\ 4 \in 1 .. 6 /\ 5 \in 1 .. 6 /\ 6 \in 1 .. 6
    OBVIOUS
  <2>2. S[7 + 1] = FlushQueue[1] /\ S[7 + 2] = FlushQueue[2] /\ S[7 + 3] = FlushQueue[3]
        /\ S[7 + 4] = FlushQueue[4] /\ S[7 + 5] = FlushQueue[5] /\ S[7 + 6] = FlushQueue[6]
    BY <1>1, <2>1, Zenon
  <2> QED BY <2>1, <2>2
<1>4. /\ S[14] = HostilePairs[1] /\ S[15] = HostilePairs[2]
      /\ S[16] = HostilePairs[3] /\ S[17] = HostilePairs[4]
  <2>1. /\ 13 + 1 = 14 /\ 13 + 2 = 15 /\ 13 + 3 = 16 /\ 13 + 4 = 17
        /\ 1 \in 1 .. 4 /\ 2 \in 1 .. 4 /\ 3 \in 1 .. 4 /\ 4 \in 1 .. 4
    OBVIOUS
  <2>2. S[13 + 1] = HostilePairs[1] /\ S[13 + 2] = HostilePairs[2]
        /\ S[13 + 3] = HostilePairs[3] /\ S[13 + 4] = HostilePairs[4]
    BY <1>1, <2>1, Zenon
  <2> QED BY <2>1, <2>2
<1>5. \A l : QueueRuns(S[1], l, QueueLines[1])
  BY <1>2, QueueBenchRuns, Zenon DEF QueueLines
<1>6. \A k \in 2 .. 17 : k \in {2, 3, 4, 5, 6, 7, 8, 9, 10, 11, 12, 13, 14, 15, 16, 17}
  OBVIOUS
<1>12. QueueRuns(S[2], QueueLines[1], QueueLines[2])
  BY <1>2, <1>3, <1>4, QueueBenchRuns, Zenon DEF QueueLines
<1>13. QueueRuns(S[3], QueueLines[2], QueueLines[3])
  BY <1>2, <1>3, <1>4, QueueBenchRuns, Zenon DEF QueueLines
<1>14. QueueRuns(S[4], QueueLines[3], QueueLines[4])
  BY <1>2, <1>3, <1>4, QueueBenchRuns, Zenon DEF QueueLines
<1>15. QueueRuns(S[5], QueueLines[4], QueueLines[5])
  BY <1>2, <1>3, <1>4, QueueBenchRuns, Zenon DEF QueueLines
<1>16. QueueRuns(S[6], QueueLines[5], QueueLines[6])
  BY <1>2, <1>3, <1>4, QueueBenchRuns, Zenon DEF QueueLines
<1>17. QueueRuns(S[7], QueueLines[6], QueueLines[7])
  BY <1>2, <1>3, <1>4, QueueBenchRuns, Zenon DEF QueueLines
<1>18. QueueRuns(S[8], QueueLines[7], QueueLines[8])
  BY <1>2, <1>3, <1>4, QueueBenchRuns, Zenon DEF QueueLines
<1>19. QueueRuns(S[9], QueueLines[8], QueueLines[9])
  BY <1>2, <1>3, <1>4, QueueBenchRuns, Zenon DEF QueueLines
<1>20. QueueRuns(S[10], QueueLines[9], QueueLines[10])
  BY <1>2, <1>3, <1>4, QueueBenchRuns, Zenon DEF QueueLines
<1>21. QueueRuns(S[11], QueueLines[10], QueueLines[11])
  BY <1>2, <1>3, <1>4, QueueBenchRuns, Zenon DEF QueueLines
<1>22. QueueRuns(S[12], QueueLines[11], QueueLines[12])
  BY <1>2, <1>3, <1>4, QueueBenchRuns, Zenon DEF QueueLines
<1>23. QueueRuns(S[13], QueueLines[12], QueueLines[13])
  BY <1>2, <1>3, <1>4, QueueBenchRuns, Zenon DEF QueueLines
<1>24. QueueRuns(S[14], QueueLines[13], QueueLines[14])
  BY <1>2, <1>3, <1>4, QueueBenchRuns, Zenon DEF QueueLines
<1>25. QueueRuns(S[15], QueueLines[14], QueueLines[15])
  BY <1>2, <1>3, <1>4, QueueBenchRuns, Zenon DEF QueueLines
<1>26. QueueRuns(S[16], QueueLines[15], QueueLines[16])
  BY <1>2, <1>3, <1>4, QueueBenchRuns, Zenon DEF QueueLines
<1>27. QueueRuns(S[17], QueueLines[16], QueueLines[17])
  BY <1>2, <1>3, <1>4, QueueBenchRuns, Zenon DEF QueueLines
<1>7. ASSUME NEW k \in 2 .. 17 PROVE QueueRuns(S[k], QueueLines[k - 1], QueueLines[k])
  BY <1>6, <1>12, <1>13, <1>14, <1>15, <1>16, <1>17, <1>18, <1>19, <1>20, <1>21, <1>22, <1>23, <1>24,
     <1>25, <1>26, <1>27, SMT
<1> QED BY <1>1, <1>5, <1>7 DEF S

\* The bench of the queue has found nothing wrong so far, and left that line.
OnQueue ==
    /\ waited = 0 /\ missed = {} /\ at \in 0 .. 17
    /\ at # 0 => LineOf = QueueLines[at]

\* Each step keeps it.
LEMMA OnQueueStep ==
    ASSUME DEPTH = 2, IInv, IInv', bench = "queue", UnitStep, OnQueue
    PROVE  OnQueue'
<1>0. PICK step \in {Scripts["queue"][at + 1]} :
         /\ step.tick => QueueBenchEdge(step.in)
         /\ LET stays == step.limit > waited + 1 /\ ~QueueOut(step.in)'.post_valid
            IN IF stays
               THEN waited' = waited + 1 /\ UNCHANGED <<at, missed>>
               ELSE /\ at' = at + 1
                    /\ waited' = 0
                    /\ missed' = missed \cup (IF Matches(QueueOut(step.in)', step.want) THEN {} ELSE {at + 1})
  BY Zenon DEF UnitStep
<1>1. at \in 0 .. 16 /\ waited = 0 /\ missed = {}
  BY QueueFollows DEF OnQueue, UnitStep
<1>3. step = Scripts["queue"][at + 1]
  BY <1>0, Zenon
<1>2. QueueRuns(step, LineOf, QueueLines[at + 1])
  <2>1. CASE at = 0
    <3>1. at + 1 = 1
      BY <2>1
    <3> QED BY <1>3, <3>1, QueueFollows, Zenon
  <2>2. CASE at # 0
    <3>1. at + 1 \in 2 .. 17 /\ (at + 1) - 1 = at
      BY <1>1, <2>2
    <3>2. QueueRuns(step, QueueLines[(at + 1) - 1], QueueLines[at + 1])
      BY <1>3, <3>1, QueueFollows, Zenon
    <3> QED BY <2>2, <3>1, <3>2, Zenon DEF OnQueue
  <2> QED BY <2>1, <2>2
<1>4. LineOf' = QueueLines[at + 1]
  <2>1. OffersOne(step.in) /\ QueueBenchEdge(step.in)
    BY <1>0, <1>2, Zenon DEF QueueRuns
  <2>2. LineOf' = LineMoves(LineOf, step.in)
    BY <2>1, QueueMovesLine
  <2> QED BY <1>2, <2>2, Zenon DEF QueueRuns
<1>5. QueueOut(step.in)' = LineShows(LineOf', step.in)
  <2>1. \A in : QueueOut(in)' = LineShows(LineOf', in)
    BY QueueShowsLine
  <2> QED BY <2>1
<1>6. Matches(QueueOut(step.in)', step.want) /\ ~(step.limit > waited + 1)
  BY <1>1, <1>2, <1>4, <1>5, Zenon DEF QueueRuns
<1>7. at' = at + 1 /\ waited' = 0 /\ missed' = missed \cup {}
  BY <1>0, <1>6, Zenon
<1> QED BY <1>1, <1>4, <1>7 DEF OnQueue

-----------------------------------------------------------------------------
(* All machines *)

\* The benches of the top level pass, and the lane moves only under them: under a
\* unit's bench it rests while the queue may run, and nothing else moves either.
FrontEndInv ==
    /\ IInv
    /\ bench = TopLevel => LaneInv
    /\ bench # TopLevel => LaneInit
    /\ SlotOneBenchPasses /\ FlushBenchPasses
    /\ at \in Nat

\* The top level is no unit.
LEMMA TopLevelIsNoUnit == TopLevel \notin Benches
BY DEF TopLevel, Benches, Scripts

\* It holds after reset.
LEMMA FrontEndInit == MachinesInit => FrontEndInv
<1> SUFFICES ASSUME MachinesInit PROVE FrontEndInv
  OBVIOUS
<1>1. PairInit /\ fail = {} /\ flush_fail = {} /\ at = 0
  BY DEF MachinesInit, TestInit, BenchInit, UnitInit
<1>2. LaneInv /\ LaneInit
  BY <1>1, LaneInitHolds DEF PairInit
<1> QED BY <1>1, <1>2 DEF FrontEndInv, LaneInv, SlotOneBenchPasses, FlushBenchPasses

\* The queue alone.
LEMMA QueueAlone == ASSUME IInv, [Next]_vars PROVE IInv'
<1>1. TypeOK'
  BY TypeStep DEF IInv
<1> QED BY <1>1, PointersStep, WindowStep DEF IInv

\* Every step of every bench, and of every other machine, keeps it.
LEMMA FrontEndStep ==
    ASSUME FrontEndInv, [MachinesNext]_<<vars, laneVars, benchVars, benchRunVars, unitVars>>
    PROVE  FrontEndInv'
<1> USE DEF FrontEndInv, SlotOneBenchPasses, FlushBenchPasses
<1>1. CASE bench = TopLevel /\ BenchNext /\ UNCHANGED benchRunVars
  <2>1. LaneInv /\ bench' = bench /\ at' = at
    BY <1>1 DEF benchRunVars
  <2>2. [PairNext]_<<vars, laneVars>>
    BY <1>1 DEF BenchNext, BenchReset, Round, PairNext
  <2>3. LaneInv' /\ IInv'
    BY <2>1, <2>2, LaneStep DEF LaneInv
  <2>4. fail' = {} /\ flush_fail' = {}
    BY <1>1, <2>1, <2>3, FlushedRound, EdgeRound DEF BenchNext, BenchReset, benchVars
  <2> QED BY <1>1, <2>1, <2>3, <2>4
<1>2. CASE UnitStep /\ UNCHANGED <<laneVars, benchVars>>
  <2>1. bench # TopLevel /\ bench' = bench
    BY <1>2, TopLevelIsNoUnit DEF UnitStep
  <2>2. LaneInit' /\ fail' = {} /\ flush_fail' = {}
    BY <1>2, <2>1 DEF LaneInit, laneVars, benchVars
  <2>3. at' \in Nat
    BY <1>2 DEF UnitStep
  <2>4. [Next]_vars
    <3>1. CASE bench = "queue"
      <4> DEFINE step == Scripts["queue"][at + 1]
      <4>1. step.tick => QueueBenchEdge(step.in)
        BY <1>2, <3>1 DEF UnitStep
      <4>2. ~step.tick => UNCHANGED vars
        BY <1>2, <3>1 DEF UnitStep
      <4>3. step.in \in QueueInputs
        BY <1>2, <3>1, QueueScriptOffers DEF UnitStep
      <4>4. step.in.enq \subseteq Entry
        BY <4>3, BenchAssumption DEF QueueInputs
      <4> HIDE DEF step
      <4> QED BY <4>1, <4>2, <4>4 DEF QueueBenchEdge, Next
    <3>2. CASE bench # "queue"
      BY <1>2, <3>2 DEF UnitStep
    <3> QED BY <3>1, <3>2
  <2>5. IInv'
    BY <2>4, QueueAlone
  <2> QED BY <2>1, <2>2, <2>3, <2>5
<1>3. CASE UNCHANGED <<vars, laneVars, benchVars, benchRunVars>>
  <2>1. IInv'
    BY <1>3, QueueAlone
  <2>2. LaneInv => LaneInv'
    BY <1>3, LaneStep DEF PairNext
  <2>3. LaneInit => LaneInit'
    BY <1>3 DEF LaneInit, laneVars
  <2> QED BY <1>3, <2>1, <2>2, <2>3 DEF benchVars, benchRunVars
<1> QED BY <1>1, <1>2, <1>3 DEF MachinesNext, TestNext, UnitBenchesEnd

\* For any program, registers and depth of the queue.
THEOREM FrontEndInvariant == MachinesSpec => []FrontEndInv
BY FrontEndInit, FrontEndStep, PTL DEF MachinesSpec

\* Every other unit works or rests.
UnitsInv == MulDivInv /\ RegisterInv /\ ReturnInv

\* A step of one machine leaves the others as they are.
LEMMA UnitsStep ==
    ASSUME PowersOfTwo, UnitsInv,
           [MachinesNext]_<<vars, laneVars, benchVars, benchRunVars, unitVars>>
    PROVE  UnitsInv'
<1>1. /\ [MulDivNext]_mulDivVars /\ [RegisterNext]_registerVars /\ [ReturnNext]_returnVars
  BY Zenon DEF MachinesNext, unitVars
<1> QED BY <1>1, MulDivStepInv, RegisterStepHolds, ReturnStepHolds DEF UnitsInv

\* For the code's 32-bit words every register of every machine keeps to its type,
\* whichever machine runs.
THEOREM MachinesTyped == ASSUME WIDTH = 32 PROVE MachinesSpec => []MachinesTypeOK
<1>1. MachinesInit => UnitsInv
  BY WordPowers, MulDivInitInv, RegisterInitHolds, ReturnInitHolds DEF MachinesInit, UnitsInv
<1>2. UnitsInv /\ [MachinesNext]_<<vars, laneVars, benchVars, benchRunVars, unitVars>> => UnitsInv'
  BY WordPowers, UnitsStep
<1>3. LaneInv => PairTypeOK
  BY DEF LaneInv, IInv, LaneShape, LanesHoldEntries, PairTypeOK
<1>4. ASSUME IInv, LaneInit
      PROVE  PairTypeOK
  <2>1. /\ ~slot1_shadow.valid /\ ~slot1_endpoint.valid
        /\ ~frontend_pair_bundle.valid /\ ~pair_handoff.valid /\ ~pair_dispatch.valid
        /\ lane1_issue_valid \in BOOLEAN
    BY <1>4 DEF LaneInit, NoLane, NoPair, NoDispatch
  <2>2. since \in 0 .. BARRIER
    BY <1>4, PairLaneAssumption DEF LaneInit
  <2> QED BY <1>4, <2>1, <2>2 DEF IInv, PairTypeOK
<1>5. FrontEndInv => PairTypeOK
  BY <1>3, <1>4 DEF FrontEndInv
<1>6. UnitsInv => MulDivTypeOK /\ RegisterTypeOK /\ ReturnTypeOK
  BY DEF UnitsInv, MulDivInv, RegisterInv, ReturnInv
<1>7. FrontEndInv /\ UnitsInv => MachinesTypeOK
  BY <1>5, <1>6 DEF MachinesTypeOK
<1> QED BY <1>1, <1>2, <1>7, FrontEndInvariant, PTL DEF MachinesSpec

\* For any program, depth of the queue and registers, neither bench of the top level
\* ever complains, whenever it flushes and whenever the back end is busy.
THEOREM TopLevelBenchesPass == MachinesSpec => [](SlotOneBenchPasses /\ FlushBenchPasses)
<1>1. FrontEndInv => SlotOneBenchPasses /\ FlushBenchPasses
  BY DEF FrontEndInv
<1> QED BY <1>1, FrontEndInvariant, PTL

-----------------------------------------------------------------------------
(* The benches of single units *)

\* Every bench is where its script should have led it, and has found nothing wrong.
UnitBenchInv ==
    /\ bench = "cop_regs" => OnTrack(8, CopRegsTrack)
    /\ bench = "wbu_regs" => OnTrack(3, WbuRegsTrack)
    /\ bench = "ifu_idu" => OnTrack(8, IfuIduTrack)
    /\ bench = "commit" => OnTrack(9, CommitTrack)
    /\ bench = "exu" => Looks(2)
    /\ bench = "cop_flush" => OnTrack(9, CopFlushTrack)
    /\ bench = "cop_vtype" => OnVtype
    /\ bench = "policy" => Looks(11)
    /\ bench = "scoreboard" => Looks(9)
    /\ bench = "queue" => OnQueue
    /\ bench \notin Benches => missed = {}

\* The benches there are.
LEMMA TheBenches ==
    Benches = {"cop_regs", "wbu_regs", "ifu_idu", "commit", "exu", "cop_flush", "cop_vtype",
               "policy", "scoreboard", "queue"}
BY DEF Benches, Scripts

\* So no bench of a unit has complained.
LEMMA UnitBenchInvPasses == UnitBenchInv => UnitBenchesPass
BY TheBenches, Zenon DEF UnitBenchInv, OnTrack, Looks, OnVtype, OnQueue, UnitBenchesPass

\* A bench that has done no step has seen nothing wrong yet.
LEMMA UnitBenchInit == MachinesInit => UnitBenchInv
<1> SUFFICES ASSUME MachinesInit PROVE UnitBenchInv
  OBVIOUS
<1>1. at = 0 /\ waited = 0 /\ missed = {}
  BY DEF MachinesInit, TestInit, UnitInit
<1>2. /\ 0 \in 0 .. 2 /\ 0 \in 0 .. 3 /\ 0 \in 0 .. 8 /\ 0 \in 0 .. 9 /\ 0 \in 0 .. 11 /\ 0 \in 0 .. 17
  OBVIOUS
<1> QED BY <1>1, <1>2, Zenon DEF UnitBenchInv, OnTrack, Looks, OnVtype, OnQueue

\* A step of a bench keeps it on its way, whatever the bench is.
LEMMA UnitBenchStep ==
    ASSUME DEPTH = 2, IInv, IInv', UnitBenchInv, UnitStep
    PROVE  UnitBenchInv'
<1>1. bench' = bench /\ bench \in Benches
  BY DEF UnitStep
<1>2. CASE bench = "cop_regs"
  BY <1>1, <1>2, CopRegsFollows, TrackStep, Zenon DEF UnitBenchInv
<1>3. CASE bench = "wbu_regs"
  BY <1>1, <1>3, WbuRegsFollows, TrackStep, Zenon DEF UnitBenchInv
<1>4. CASE bench = "ifu_idu"
  BY <1>1, <1>4, IfuIduFollows, TrackStep, Zenon DEF UnitBenchInv
<1>5. CASE bench = "commit"
  BY <1>1, <1>5, CommitFollows, TrackStep, Zenon DEF UnitBenchInv
<1>6. CASE bench = "exu"
  BY <1>1, <1>6, ExuShows, LooksStep, Zenon DEF UnitBenchInv
<1>7. CASE bench = "cop_flush"
  BY <1>1, <1>7, CopFlushFollows, TrackStep, Zenon DEF UnitBenchInv
<1>8. CASE bench = "cop_vtype"
  BY <1>1, <1>8, VtypeStep, Zenon DEF UnitBenchInv
<1>9. CASE bench = "policy"
  BY <1>1, <1>9, PolicyShows, LooksStep, Zenon DEF UnitBenchInv
<1>10. CASE bench = "scoreboard"
  BY <1>1, <1>10, ScoreboardShows, LooksStep, Zenon DEF UnitBenchInv
<1>11. CASE bench = "queue"
  <2>1. OnQueue'
    BY <1>11, OnQueueStep DEF UnitBenchInv
  <2> QED BY <1>1, <1>11, <2>1, TheBenches, Zenon DEF UnitBenchInv
<1> QED BY <1>1, <1>2, <1>3, <1>4, <1>5, <1>6, <1>7, <1>8, <1>9, <1>10, <1>11, TheBenches, Zenon

\* No other machine moves a bench, and none but the top level, which is no unit's
\* bench, moves the queue beside it.
LEMMA UnitBenchRests ==
    ASSUME UnitBenchInv, UNCHANGED benchRunVars, bench = "queue" => UNCHANGED vars
    PROVE  UnitBenchInv'
<1>1. bench' = bench /\ at' = at /\ waited' = waited /\ dut' = dut /\ missed' = missed
  BY DEF benchRunVars
<1>2. bench = "queue" => LineOf' = LineOf
  BY DEF vars, LineOf, Nth
<1>3. \A n, track : OnTrack(n, track) => OnTrack(n, track)'
  BY <1>1 DEF OnTrack
<1>4. \A n : Looks(n) => Looks(n)'
  BY <1>1 DEF Looks
<1>5. OnVtype => OnVtype'
  BY <1>1 DEF OnVtype
<1>6. bench = "queue" /\ OnQueue => OnQueue'
  BY <1>1, <1>2 DEF OnQueue, QueueLines
<1> QED BY <1>1, <1>3, <1>4, <1>5, <1>6, Zenon DEF UnitBenchInv

\* For any program, registers and powers-up, at the code's depth of the queue, no bench
\* ever complains: the two of the top level, and every unit's at every step of its script.
THEOREM BenchesAlwaysPass == ASSUME DEPTH = 2 PROVE MachinesSpec => []BenchesPass
<1> DEFINE moved == <<vars, laneVars, benchVars, benchRunVars, unitVars>>
<1>1. FrontEndInv /\ FrontEndInv' /\ UnitBenchInv /\ [MachinesNext]_moved => UnitBenchInv'
  <2> SUFFICES ASSUME FrontEndInv, FrontEndInv', UnitBenchInv, [MachinesNext]_moved
               PROVE  UnitBenchInv'
    OBVIOUS
  <2>1. CASE UnitStep
    BY <2>1, UnitBenchStep DEF FrontEndInv
  <2>2. CASE ~UnitStep
    <3>1. UNCHANGED benchRunVars
      BY <2>2, Zenon DEF MachinesNext, TestNext, UnitBenchesEnd
    <3>2. bench = "queue" => bench # TopLevel
      BY DEF TopLevel
    <3>3. bench = "queue" => UNCHANGED vars
      BY <2>2, <3>2, Zenon DEF MachinesNext, TestNext, UnitBenchesEnd
    <3> QED BY <3>1, <3>3, UnitBenchRests
  <2> QED BY <2>1, <2>2
<1>2. FrontEndInv /\ UnitBenchInv => BenchesPass
  BY UnitBenchInvPasses DEF FrontEndInv, BenchesPass
<1> QED BY <1>1, <1>2, UnitBenchInit, FrontEndInvariant, PTL DEF MachinesSpec
=============================================================================
