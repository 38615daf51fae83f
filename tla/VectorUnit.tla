----------------------------- MODULE VectorUnit -----------------------------
(***************************************************************************)
(* The coprocessor and its port: the request register idu_cop_regs.v, the  *)
(* response register cop_backend.v, the vector unit dummy_coprocessor.v    *)
(* with its registers, and the copy of vl and vtype in Csrs.v.             *)
(*                                                                         *)
(* The lanes of an access to memory are in VectorMemory; here memory       *)
(* answers a whole access when it likes.  Of the operations there is one   *)
(* of each shape: an addition, which carries, and a move.  The custom      *)
(* operations on scalars alone change nothing but the counter and are left *)
(* out.                                                                    *)
(***************************************************************************)
EXTENDS Integers, FiniteSetsExt

CONSTANTS LANES, BITS, COUNTS,   \* bytes of a register, bits of a byte, wrap of op_count
          Vreg,                  \* vector registers
          Instruction,           \* what may be issued
          KILLS,                 \* "never", "early" or "any": when a kill may come
          TRAP,                  \* whether decode may hold an ecall or mret
          None

ASSUME VectorUnitAssumption ==
    /\ LANES \in Nat \ {0} /\ BITS \in Nat \ {0} /\ COUNTS \in Nat \ {0}
    /\ {0, 1} \subseteq Vreg
    /\ KILLS \in {"never", "early", "any"} /\ TRAP \in BOOLEAN
    /\ None \notin Instruction

WORD == LANES * BITS
Word == 0 .. 2^WORD - 1
Vill == 2^(WORD - 1)

\* The fields of an instruction, a field that is absent is None: new length (avl) and type
\* (sew, the six bits the unit looks at), registers (vd, vs2, vs1) and scalar operand (src1),
\* whether a scalar register takes the result (wen).
ASSUME InstructionAssumption ==
    Instruction \subseteq
        {i \in [op : {"set"}, wen : BOOLEAN, avl : Word \cup {None}, sew : 0 .. 63 \cup {None}] :
            i.avl # None \/ i.sew # None}
        \cup [op : {"arith"}, wen : {FALSE}, f : {"add", "move"}, vd : Vreg, vs2 : Vreg,
              vs1 : Vreg \cup {None}, src1 : Word, unmasked : BOOLEAN]
        \cup [op : {"load", "store"}, wen : BOOLEAN, vd : Vreg, sew : {0, 2, None}]
        \cup [op : {"scratch_write"}, wen : BOOLEAN, src1 : Word]
        \cup [op : {"op_count"}, wen : BOOLEAN]
        \cup [op : {"lane"}, wen : BOOLEAN, f : {"add", "move"}, vd : Vreg]
        \cup [op : {"vrf_write"}, wen : BOOLEAN, vd : Vreg, src1 : Word]

\* The state registers an instruction leaves, and how far its execution has come (Phase).
States == [vlen : Nat, vtype : Nat, scratch : Nat, count : Nat]
Phases == [ins : Instruction, res : Nat \cup {None}, lands : States \cup {None}]
ASSUME ModelValueAssumption == None \notin Nat \cup States \cup Phases

VARIABLES
    entry,                   \* idu_cop_regs: the request in flight, or None
    cop_busy, resp_valid, resp_res,      \* cop_backend: at work; the response
    busy, mem_active, countdown,         \* the unit: at work; on memory; or for so long
    done, latched_res,
    pending,                 \* what will be written to vlen, vtype, scratch; None: nothing
    vlen, vtype, scratch, op_count,
    vrf,
    mirror,                  \* Csrs.v: vl and vtype as the program reads them
    written                  \* history: the last result written to a scalar register

unitVars == <<busy, mem_active, countdown, done, latched_res, pending, vlen, vtype, scratch, op_count, vrf>>
vars == <<entry, cop_busy, resp_valid, resp_res, unitVars, mirror, written>>

----------------------------------------------------------------------------
(* Values: the wires of dummy_coprocessor.v *)

Lane(x, k) == (x \div 2^(BITS * k)) % 2^BITS
Lanes == 0 .. LANES - 1
FromLanes(f) == MapThenSumSet(LAMBDA k : f[k] * 2^(BITS * k), DOMAIN f)
MaskBit(k) == (vrf[0] \div 2^k) % 2

vlen_next_value(src1) == IF src1 > LANES THEN LANES ELSE src1
vtype_next_value(src) == IF src \in {0, 2} THEN src ELSE Vill

\* Right operand of lane k: the mask of a byte of the scalar is repeated for an addition.
RightByte(i, k) == IF i.vs1 # None THEN Lane(vrf[i.vs1], k)
                   ELSE IF i.f = "add" THEN Lane(i.src1, 0) ELSE Lane(i.src1, k)
RightWord(i) == IF i.vs1 # None THEN vrf[i.vs1] ELSE i.src1

ByteResult(i, k) == IF i.f = "add" THEN (Lane(vrf[i.vs2], k) + RightByte(i, k)) % 2^BITS
                    ELSE RightByte(i, k)
WordResult(i) == IF i.f = "add" THEN (vrf[i.vs2] + RightWord(i)) % 2^WORD ELSE RightWord(i)

\* vadd_vv_result ... vmv_result
Computed(i) == CASE vtype = 2 -> IF vlen = 0 THEN 0 ELSE WordResult(i)
                 [] vtype = 0 -> FromLanes([k \in Lanes |-> IF vlen > k THEN ByteResult(i, k) ELSE 0])
                 [] OTHER -> Vill

\* Mutant: what is beyond the length is masked as well.
merge_masked_result_Tail(i) ==
    IF i.unmasked THEN Computed(i)
    ELSE IF vtype = 2 THEN IF MaskBit(0) = 0 THEN vrf[i.vd] ELSE Computed(i)
    ELSE FromLanes([k \in Lanes |-> IF MaskBit(k) = 0 THEN Lane(vrf[i.vd], k)
                                    ELSE Lane(Computed(i), k)])

merge_masked_result(i) ==
    IF i.unmasked THEN Computed(i)
    ELSE IF vtype = 2 THEN IF vlen > 0 /\ MaskBit(0) = 0 THEN vrf[i.vd] ELSE Computed(i)
    ELSE FromLanes([k \in Lanes |-> IF vlen > k /\ MaskBit(k) = 0 THEN Lane(vrf[i.vd], k)
                                    ELSE Lane(Computed(i), k)])

vrf_op_result(i) ==
    FromLanes([k \in Lanes |-> IF i.f = "add" THEN (Lane(vrf[0], k) + Lane(vrf[1], k)) % 2^BITS
                               ELSE Lane(vrf[1], k)])

\* The standard accesses do not write a scalar register, the custom ones do and are
\* always of the whole of register 0.
standard_mem_op(i) == i.op \in {"load", "store"} /\ ~i.wen
standard_mem_supported(i) == vtype = i.sew
is_mem_op(i) == \/ i.op \in {"load", "store"} /\ i.wen
                \/ standard_mem_op(i) /\ standard_mem_supported(i) /\ vlen # 0
standard_mem_zero_load(i) ==
    i.op = "load" /\ standard_mem_op(i) /\ standard_mem_supported(i) /\ vlen = 0

\* The bytes an access transfers; the result of a load has zeros above them.
mem_lanes(i) == IF standard_mem_op(i) /\ i.sew = 0 THEN vlen ELSE LANES

\* A result that no scalar register takes is not looked at: 0.
cop_result(i) ==
    IF ~i.wen THEN 0
    ELSE CASE i.op = "set" -> IF i.avl # None /\ i.sew # None THEN vlen_next_value(i.avl)
                              ELSE IF i.sew = None THEN vlen ELSE vtype
           [] i.op = "scratch_write" -> scratch
           [] i.op = "op_count" -> op_count
           [] i.op = "lane" -> vrf_op_result(i)
           [] i.op = "vrf_write" -> vrf[i.vd]
           [] OTHER -> 0

vrf_write(i) == \/ i.op \in {"lane", "vrf_write"}
                \/ i.op = "arith" /\ vtype # Vill
                \/ standard_mem_zero_load(i)
vrf_write_value(i) == CASE i.op = "arith" -> merge_masked_result(i)
                        [] i.op = "load" -> 0
                        [] i.op = "lane" -> vrf_op_result(i)
                        [] i.op = "vrf_write" -> i.src1

NoPending == [vlen |-> None, vtype |-> None, scratch |-> None]
PendingOf(i) ==
    CASE i.op = "set" -> [vlen |-> IF i.avl = None THEN None ELSE vlen_next_value(i.avl),
                          vtype |-> IF i.sew = None THEN None ELSE vtype_next_value(i.sew),
                          scratch |-> None]
      [] i.op = "scratch_write" -> [NoPending EXCEPT !.scratch = i.src1]
      [] OTHER -> NoPending

----------------------------------------------------------------------------
(* Clock edges of the unit *)

\* i_flush: what is under way is dropped, the registers stay.
UnitFlush == /\ busy' = FALSE /\ mem_active' = FALSE /\ countdown' = 0
             /\ done' = FALSE
             /\ latched_res' = 0
             /\ pending' = NoPending
             /\ UNCHANGED <<vlen, vtype, scratch, op_count, vrf>>

\* i_valid && !busy: a result is there at once and the vector register is written, but
\* an access to memory first has to walk.
UnitAccept(i) ==
    /\ ~busy
    /\ busy' = TRUE
    /\ mem_active' = (is_mem_op(i) \/ mem_active)
    /\ countdown' = IF is_mem_op(i) THEN 0 ELSE 2
    /\ done' = FALSE
    /\ latched_res' = cop_result(i)
    /\ pending' = PendingOf(i)
    /\ vrf' = IF vrf_write(i) THEN [vrf EXCEPT ![i.vd] = vrf_write_value(i)] ELSE vrf
    /\ UNCHANGED <<vlen, vtype, scratch, op_count>>

Counts == op_count' = (op_count + 1) % COUNTS

\* The last lane's response.  Which register is read or written was latched on accept
\* (mem_vrf_idx, mem_is_store) and is what the request register still holds.
UnitMemDone ==
    /\ busy /\ mem_active
    /\ \E data \in IF entry.op = "load" THEN 0 .. 2^(BITS * mem_lanes(entry)) - 1
                   ELSE {vrf[entry.vd]} :
          /\ vrf' = [vrf EXCEPT ![entry.vd] = data]
          /\ latched_res' = IF entry.wen THEN data ELSE 0
    /\ busy' = FALSE /\ mem_active' = FALSE
    /\ done' = TRUE
    /\ Counts
    /\ pending' = NoPending
    /\ UNCHANGED <<countdown, vlen, vtype, scratch>>

UnitMemWait == /\ busy /\ mem_active
               /\ done' = FALSE
               /\ UNCHANGED <<busy, mem_active, countdown, latched_res, pending, vlen, vtype, scratch, op_count, vrf>>

Landed(next, old) == IF next = None THEN old ELSE next

UnitCountdown ==
    /\ busy /\ ~mem_active
    /\ IF countdown = 1
       THEN /\ busy' = FALSE /\ countdown' = 0
            /\ done' = TRUE
            /\ Counts
            /\ vlen' = Landed(pending.vlen, vlen)
            /\ vtype' = Landed(pending.vtype, vtype)
            /\ scratch' = Landed(pending.scratch, scratch)
            /\ pending' = NoPending
       ELSE /\ countdown' = countdown - 1
            /\ done' = FALSE
            /\ UNCHANGED <<busy, pending, vlen, vtype, scratch, op_count>>
    /\ UNCHANGED <<mem_active, latched_res, vrf>>

UnitIdle == /\ ~busy
            /\ done' = FALSE
            /\ UNCHANGED <<busy, mem_active, countdown, latched_res, pending,
                           vlen, vtype, scratch, op_count, vrf>>

\* issue: the instruction i_valid offers on this edge, or None.
UnitEdge(issue) == \/ issue # None /\ UnitAccept(issue)
                   \/ UnitMemDone
                   \/ UnitMemWait
                   \/ UnitCountdown
                   \/ issue = None /\ UnitIdle

----------------------------------------------------------------------------
(* The port *)

backend_busy == cop_busy \/ resp_valid

\* cop_issue_valid && o_issue_ready
CanIssue == entry = None /\ ~backend_busy

\* backend_resp_fire: write-back is ready whenever it is asked.
RespFires == resp_valid

\* Mutant: the entry is taken out when the unit is done, not when it commits.
EntryEdge_LeavesAtDone(issue) ==
    entry' = IF done THEN None ELSE IF issue # None THEN issue ELSE entry

EntryEdge(issue) ==
    entry' = IF RespFires THEN issue ELSE IF issue # None THEN issue ELSE entry

\* Mutant: an answer is taken only when the port is not at work.
BackendEdge_AnswerMissed(issue) ==
    /\ cop_busy' = (~done /\ (issue # None \/ cop_busy))
    /\ resp_valid' = (~RespFires /\ ((done /\ ~cop_busy) \/ resp_valid))
    /\ resp_res' = IF done THEN latched_res ELSE resp_res

\* The last assignment wins: accept, then done, then the response's leaving.
BackendEdge(issue) ==
    /\ cop_busy' = (~done /\ (issue # None \/ cop_busy))
    /\ resp_valid' = (~RespFires /\ (done \/ resp_valid))
    /\ resp_res' = IF done THEN latched_res ELSE resp_res

\* An ecall or mret in decode goes before the vector state.
MirrorEdge(trap) ==
    mirror' = IF ~trap /\ RespFires THEN [vl |-> vlen, vtype |-> vtype] ELSE mirror

WrittenEdge == written' = IF RespFires /\ entry.wen THEN resp_res ELSE written

----------------------------------------------------------------------------
(* The system *)

Init == /\ entry = None
        /\ cop_busy = FALSE /\ resp_valid = FALSE /\ resp_res = 0
        /\ busy = FALSE /\ mem_active = FALSE /\ countdown = 0
        /\ done = FALSE /\ latched_res = 0 /\ pending = NoPending
        /\ vlen = 0 /\ vtype = Vill /\ scratch = 0 /\ op_count = 0
        /\ vrf = [r \in Vreg |-> 0]
        /\ mirror = [vl |-> 0, vtype |-> Vill]
        /\ written = None

Edge(issue, trap) == /\ UnitEdge(issue)
                     /\ EntryEdge(issue)
                     /\ BackendEdge(issue)
                     /\ MirrorEdge(trap)
                     /\ WrittenEdge

\* cop_kill: every part forgets the request; a response that commits on this very
\* edge is written all the same.
KillEdge(trap) == /\ UnitFlush
                  /\ entry' = None
                  /\ cop_busy' = FALSE
                  /\ resp_valid' = FALSE /\ resp_res' = 0
                  /\ MirrorEdge(trap)
                  /\ WrittenEdge

Traps == IF TRAP THEN BOOLEAN ELSE {FALSE}

\* A kill that finds nothing of the request in the vector or state registers: there is none,
\* or it commits on this very edge; or it waits for memory; or it writes no vector register
\* and its state has not landed.
EarlyKill ==
    \/ ~busy /\ ~done
    \/ mem_active
    \/ /\ entry # None
       /\ ~vrf_write(entry) /\ ~is_mem_op(entry)
       /\ entry.op \in {"set", "scratch_write"} => busy

KillAllowed == \/ KILLS = "any"
               \/ KILLS = "early" /\ EarlyKill

Next == \E trap \in Traps :
           \/ Edge(None, trap)
           \/ CanIssue /\ \E i \in Instruction : Edge(i, trap)
           \/ KillAllowed /\ KillEdge(trap)

Spec == Init /\ [][Next]_vars

\* The clock ticks, and memory answers in the end.
FairSpec == Spec /\ WF_vars(\E trap \in Traps : Edge(None, trap))
                 /\ WF_vars(\E trap \in Traps : Edge(None, trap) /\ UnitMemDone)

----------------------------------------------------------------------------
(* Correctness *)

\* vector-coprocessor-interface.md: the request register, the response register and
\* the unit each keep a busy bit of their own; they speak of one and the same
\* request, from issue to commit, whatever was killed before.  So an accept is never
\* lost in a busy unit and an answer never finds another request.
OneRequest == /\ entry # None <=> cop_busy \/ resp_valid
              /\ ~(cop_busy /\ resp_valid)
              /\ cop_busy <=> busy \/ done
              /\ ~(busy /\ done)
              /\ mem_active => busy

\* The unit executes instructions one after another, element by element, although the state
\* registers change later than the vector registers; a killed instruction leaves nothing, and
\* the one after it sees all that was executed before.  The documents promise this of every
\* kill (rvv-standard-decode-p2-review.md:158).  The code keeps it for the early ones: a later
\* one leaves the vector register written on accept (dummy_coprocessor.v:519), or the state
\* that landed, and with KILLS = "any" the property fails.
Landing == [vlen |-> Landed(pending.vlen, vlen), vtype |-> Landed(pending.vtype, vtype),
            scratch |-> Landed(pending.scratch, scratch), count |-> (op_count + 1) % COUNTS]
Phase == [ins |-> entry,
          res |-> IF mem_active THEN None ELSE latched_res,
          lands |-> IF ~busy \/ mem_active THEN None ELSE Landing]

Arch == INSTANCE VectorArch WITH
            vectors <- vrf,
            state <- [vlen |-> vlen, vtype |-> vtype, scratch |-> scratch, count |-> op_count],
            request <- IF entry = None THEN None ELSE Phase,
            handed <- written
ImplementsVectorArch == Arch!ArchSpec

\* rvv-standard-decode-p2-review.md:213: vl and vtype as the program reads them follow
\* the unit at each commit: between requests they are what the unit has.
MirrorIsCurrent == entry = None => mirror = [vl |-> vlen, vtype |-> vtype]

\* An issued request commits or is killed: what Core assumes of the coprocessor.
RequestEnds == entry # None ~> entry = None
=============================================================================
