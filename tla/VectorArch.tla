----------------------------- MODULE VectorArch -----------------------------
(***************************************************************************)
(* What the vector unit promises: vector instructions execute one after    *)
(* another, element by element, and hand over one result each.  The vector *)
(* registers change when an instruction is performed, the state registers  *)
(* when it lands, the result is handed over when it commits.  A killed     *)
(* instruction leaves nothing: only one that has left nothing may be       *)
(* killed.                                                                 *)
(*                                                                         *)
(* A word is the number its bits stand for; element k of width w is the    *)
(* k-th digit to the base 2^w.                                             *)
(***************************************************************************)
EXTENDS Integers, FiniteSetsExt

CONSTANTS LANES,     \* bytes of a vector register; 4 in the code
          BITS,      \* bits of a byte; 8 in the code
          Vreg,      \* vector registers; 0 also holds the mask
          Instruction,   \* see Set, Scratch ... of VectorUnit
          COUNTS,    \* the instruction counter wraps at this value
          None

VARIABLES vectors,   \* the vector registers
          state,     \* [vlen, vtype, scratch, count]
          request,   \* None, or [ins, res, lands]: res and lands are None
                     \* before it is performed, lands again after it landed
          handed     \* the last result written to a scalar register

archVars == <<vectors, state, request, handed>>

WORD == LANES * BITS
Vill == 2^(WORD - 1)                 \* the top bit of vtype: unsupported

Digit(x, k, w) == (x \div 2^(w * k)) % 2^w
Assembled(digits, w) == MapThenSumSet(LAMBDA k : digits[k] * 2^(w * k), DOMAIN digits)

\* SEW 0 is elements of a byte, SEW 2 one element of a whole word.
Width(sew) == IF sew = 0 THEN BITS ELSE WORD
Places(sew) == IF sew = 0 THEN 0 .. LANES - 1 ELSE {0}
Legal(sew) == sew \in {0, 2}

\* The arithmetic of elements of width w, for one operation of each sort.
Operate(f, a, b, w) == IF f = "add" THEN (a + b) % 2^w ELSE b

\* A register gives element k of itself.  A scalar is repeated in every element,
\* except that a move takes it for a whole register.
Right(i, k, w) == IF i.vs1 # None THEN Digit(vectors[i.vs1], k, w)
                  ELSE Digit(i.src1, IF i.f = "move" THEN k ELSE 0, w)

\* rvv-standard-decode-p2-review.md:202-205: bit k of register 0 masks element
\* k, a masked element keeps its old value, elements beyond vlen become 0.
Element(i, k) ==
    LET w == Width(state.vtype)
    IN IF k >= state.vlen THEN 0
       ELSE IF ~i.unmasked /\ Digit(vectors[0], k, 1) = 0 THEN Digit(vectors[i.vd], k, w)
       ELSE Operate(i.f, Digit(vectors[i.vs2], k, w), Right(i, k, w), w)

Elements(i) == Assembled([k \in Places(state.vtype) |-> Element(i, k)], Width(state.vtype))

\* Every byte of register 0 and of register 1, whatever vlen is.
LaneResult(i) ==
    Assembled([k \in 0 .. LANES - 1 |->
                 Operate(i.f, Digit(vectors[0], k, BITS), Digit(vectors[1], k, BITS), BITS)], BITS)

\* A vector load brings as many bytes as there are active ones, and zeros.
Loaded(i) == CASE i.wen -> 0 .. 2^WORD - 1
               [] ~i.wen /\ i.sew # state.vtype -> {}
               [] OTHER -> IF state.vlen = 0 THEN {0}
                           ELSE 0 .. 2^(IF i.sew = 2 THEN WORD ELSE BITS * state.vlen) - 1

\* What an instruction may leave in a vector register.
Written(i) == CASE i.op = "arith" -> IF Legal(state.vtype) THEN {Elements(i)} ELSE {}
                [] i.op = "load" -> Loaded(i)
                [] i.op = "lane" -> {LaneResult(i)}
                [] i.op = "vrf_write" -> {i.src1}
                [] OTHER -> {}
VectorsAfter(i) == IF Written(i) = {} THEN {vectors}
                   ELSE {[vectors EXCEPT ![i.vd] = x] : x \in Written(i)}

\* What it leaves in the state registers; "set" gives a new length, a new type or both.
Length(avl) == IF avl > LANES THEN LANES ELSE avl
Counted == [state EXCEPT !.count = (@ + 1) % COUNTS]
StateAfter(i) ==
    CASE i.op = "set" -> [Counted EXCEPT !.vlen = IF i.avl = None THEN @ ELSE Length(i.avl),
                                         !.vtype = CASE i.sew = None -> @
                                                     [] Legal(i.sew) -> i.sew
                                                     [] OTHER -> Vill]
      [] i.op = "scratch_write" -> [Counted EXCEPT !.scratch = i.src1]
      [] OTHER -> Counted

\* And what it answers, 0 if no scalar register takes it: the new length if a length and
\* a type are given, and what was there before otherwise.
Result(i, after) ==
    IF ~i.wen THEN 0
    ELSE CASE i.op = "set" -> IF i.avl = None THEN state.vtype
                              ELSE IF i.sew = None THEN state.vlen ELSE Length(i.avl)
           [] i.op = "scratch_write" -> state.scratch
           [] i.op = "op_count" -> state.count
           [] i.op = "vrf_write" -> vectors[i.vd]
           [] OTHER -> after[i.vd]

----------------------------------------------------------------------------

ArchInit == /\ vectors = [r \in Vreg |-> 0]
            /\ state = [vlen |-> 0, vtype |-> Vill, scratch |-> 0, count |-> 0]
            /\ request = None
            /\ handed = None

Accept == /\ request = None
          /\ \E i \in Instruction : request' = [ins |-> i, res |-> None, lands |-> None]
          /\ UNCHANGED <<vectors, state, handed>>

Performed(i) == /\ vectors' \in VectorsAfter(i)
                /\ request' = [ins |-> i, res |-> Result(i, vectors'), lands |-> StateAfter(i)]

Perform == /\ request # None /\ request.res = None
           /\ Performed(request.ins)
           /\ UNCHANGED <<state, handed>>

AcceptAndPerform == /\ request = None
                    /\ \E i \in Instruction : Performed(i)
                    /\ UNCHANGED <<state, handed>>

Land == /\ request # None /\ request.lands # None
        /\ state' = request.lands
        /\ request' = [request EXCEPT !.lands = None]
        /\ UNCHANGED <<vectors, handed>>

PerformAndLand == /\ request # None /\ request.res = None
                  /\ vectors' \in VectorsAfter(request.ins)
                  /\ state' = StateAfter(request.ins)
                  /\ request' = [request EXCEPT !.res = Result(request.ins, vectors')]
                  /\ UNCHANGED handed

Commit == /\ request # None /\ request.res # None /\ request.lands = None
          /\ handed' = IF request.ins.wen THEN request.res ELSE handed
          /\ request' = None
          /\ UNCHANGED <<vectors, state>>

\* rvv-standard-decode-p2-review.md:82,158, rvv-state-p1.md:27, vrf-design.md:129: what is
\* killed commits no vector register, length or type.  An instruction has left nothing before
\* it is performed, and after that only if it leaves no vector register and no state but the
\* count of what was done, or its state has not landed.
Traceless(r) ==
    \/ r.res = None
    \/ /\ Written(r.ins) = {}
       /\ r.ins.op \in {"set", "scratch_write"} => r.lands # None

Kill == /\ request # None
        /\ Traceless(request)
        /\ request' = None
        /\ UNCHANGED <<vectors, state, handed>>

ArchNext == Accept \/ Perform \/ AcceptAndPerform \/ Land \/ PerformAndLand \/ Commit \/ Kill

ArchSpec == ArchInit /\ [][ArchNext]_archVars
=============================================================================
