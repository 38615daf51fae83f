-------------------------- MODULE VectorUnitProofs --------------------------
(***************************************************************************)
(* The request register, the response register and the vector unit speak   *)
(* of one request, for every set of instructions, every width and whatever *)
(* is killed when.  Without a trap in decode and with no kill after the    *)
(* instruction has left something, the vl and vtype the program reads are  *)
(* the ones the unit holds.  And at the code's four lanes of eight bits    *)
(* and under the same kills the unit implements VectorArch: its wires      *)
(* compute the elements, its edges perform, land and commit them, and what *)
(* is killed leaves nothing.                                               *)
(***************************************************************************)
EXTENDS VectorUnit, TLAPS

\* An edge on which nothing is killed.  issue is an instruction the port takes or None.
LEMMA EdgeKeepsOneRequest ==
    ASSUME OneRequest,
           NEW issue \in Instruction \cup {None}, issue # None => CanIssue,
           NEW trap \in BOOLEAN,
           Edge(issue, trap)
    PROVE  OneRequest'
<1> USE DEF OneRequest, CanIssue, backend_busy, RespFires
<1>port. /\ entry' = IF resp_valid THEN issue ELSE IF issue # None THEN issue ELSE entry
         /\ cop_busy' = (~done /\ (issue # None \/ cop_busy))
         /\ resp_valid' = (~resp_valid /\ (done \/ resp_valid))
  BY DEF Edge, EntryEdge, BackendEdge
<1>1. CASE issue # None /\ UnitAccept(issue)
  \* The port is empty, so the unit is: the accept is never lost.
  <2>1. entry = None /\ ~cop_busy /\ ~resp_valid /\ ~busy /\ ~done /\ ~mem_active
    BY <1>1
  <2>2. busy' = TRUE /\ done' = FALSE
    BY <1>1 DEF UnitAccept
  <2> QED BY <1>port, <1>1, <2>1, <2>2
<1>2. CASE UnitMemDone
  <2>1. busy /\ cop_busy /\ ~done /\ ~resp_valid /\ entry # None /\ issue = None
    BY <1>2 DEF UnitMemDone
  <2>2. busy' = FALSE /\ mem_active' = FALSE /\ done' = TRUE
    BY <1>2 DEF UnitMemDone
  <2> QED BY <1>port, <2>1, <2>2
<1>3. CASE UnitMemWait
  <2>1. busy /\ cop_busy /\ ~done /\ ~resp_valid /\ entry # None /\ issue = None
    BY <1>3 DEF UnitMemWait
  <2>2. busy' = busy /\ mem_active' = mem_active /\ done' = FALSE
    BY <1>3 DEF UnitMemWait
  <2> QED BY <1>port, <2>1, <2>2
<1>4. CASE UnitCountdown
  <2>1. busy /\ ~mem_active /\ cop_busy /\ ~done /\ ~resp_valid /\ entry # None /\ issue = None
    BY <1>4 DEF UnitCountdown
  <2>2. /\ mem_active' = mem_active
        /\ (busy' = FALSE /\ done' = TRUE) \/ (busy' = busy /\ done' = FALSE)
    BY <1>4 DEF UnitCountdown
  <2> QED BY <1>port, <2>1, <2>2
<1>5. CASE issue = None /\ UnitIdle
  \* The answer moves to the response register, or the response leaves with its request.
  <2>1. ~busy /\ ~mem_active /\ busy' = busy /\ mem_active' = mem_active /\ done' = FALSE
    BY <1>5 DEF UnitIdle
  <2> QED BY <1>port, <1>5, <2>1
<1> QED BY <1>1, <1>2, <1>3, <1>4, <1>5 DEF Edge, UnitEdge

\* cop_kill: all three forget at once.
LEMMA KillKeepsOneRequest ==
    ASSUME NEW trap \in BOOLEAN, KillEdge(trap)
    PROVE  OneRequest'
BY DEF KillEdge, UnitFlush, OneRequest

\* The busy bits of request register, response register and unit always speak of one
\* and the same request (cop_backend.v 69-104, idu_cop_regs.v 43-80,
\* dummy_coprocessor.v 465-586).
THEOREM OneRequestAlways == Spec => []OneRequest
<1>1. Init => OneRequest
  BY DEF Init, OneRequest
<1>2. OneRequest /\ [Next]_vars => OneRequest'
  <2> SUFFICES ASSUME OneRequest, [Next]_vars PROVE OneRequest'
    OBVIOUS
  <2>1. CASE UNCHANGED vars
    BY <2>1 DEF vars, unitVars, OneRequest
  <2>2. CASE Next
    <3>1. PICK trap \in BOOLEAN : \/ Edge(None, trap)
                                  \/ CanIssue /\ \E i \in Instruction : Edge(i, trap)
                                  \/ KillEdge(trap)
      BY <2>2 DEF Next, Traps
    <3>2. CASE Edge(None, trap)
      BY <3>2, EdgeKeepsOneRequest
    <3>3. CASE CanIssue /\ \E i \in Instruction : Edge(i, trap)
      BY <3>3, EdgeKeepsOneRequest
    <3>4. CASE KillEdge(trap)
      BY <3>4, KillKeepsOneRequest
    <3> QED BY <3>1, <3>2, <3>3, <3>4
  <2> QED BY <2>1, <2>2
<1> QED BY <1>1, <1>2, PTL DEF Spec

\* The copy in Csrs.v differs from the unit only while an instruction that sets vl or vtype
\* waits to commit, and no other instruction has one of them to land.
MirrorInv ==
    /\ OneRequest
    /\ \/ mirror = [vl |-> vlen, vtype |-> vtype]
       \/ entry # None /\ entry.op = "set" /\ ~busy
    /\ entry # None /\ entry.op # "set" => pending.vlen = None /\ pending.vtype = None

\* Without a trap in decode the copy follows at the commit.
LEMMA EdgeKeepsMirror ==
    ASSUME MirrorInv,
           NEW issue \in Instruction \cup {None}, issue # None => CanIssue,
           Edge(issue, FALSE)
    PROVE  MirrorInv'
<1> DEFINE Current == mirror = [vl |-> vlen, vtype |-> vtype]
           NoneLands == pending.vlen = None /\ pending.vtype = None
<1> USE DEF MirrorInv, OneRequest, CanIssue, backend_busy, RespFires
<1>1. OneRequest'
  BY EdgeKeepsOneRequest
<1>2. /\ entry' = IF resp_valid THEN issue ELSE IF issue # None THEN issue ELSE entry
      /\ mirror' = IF resp_valid THEN [vl |-> vlen, vtype |-> vtype] ELSE mirror
  BY DEF Edge, EntryEdge, MirrorEdge
<1>nothing. NoPending.vlen = None /\ NoPending.vtype = None
  BY DEF NoPending
<1>3. CASE issue # None /\ UnitAccept(issue)
  <2>1. entry = None /\ ~resp_valid /\ entry' = issue /\ Current
    BY <1>2, <1>3
  <2>2. vlen' = vlen /\ vtype' = vtype /\ pending' = PendingOf(issue)
    BY <1>3 DEF UnitAccept
  <2>3. issue.op # "set" => NoneLands'
    BY <2>2 DEF PendingOf, NoPending
  <2> QED BY <1>1, <1>2, <2>1, <2>2, <2>3
<1>4. CASE UnitMemDone \/ UnitMemWait
  <2>1. busy /\ ~resp_valid /\ issue = None /\ entry' = entry /\ mirror' = mirror /\ Current
    BY <1>2, <1>4 DEF UnitMemDone, UnitMemWait
  <2>2. vlen' = vlen /\ vtype' = vtype /\ (pending' = NoPending \/ pending' = pending)
    BY <1>4 DEF UnitMemDone, UnitMemWait
  <2> QED BY <1>1, <1>nothing, <2>1, <2>2
<1>5. CASE UnitCountdown
  <2>1. busy /\ ~resp_valid /\ issue = None /\ entry' = entry /\ mirror' = mirror /\ Current
    BY <1>2, <1>5 DEF UnitCountdown
  <2>2. CASE countdown = 1
    \* Of an instruction that does not set them, neither lands.
    <3>1. /\ ~busy' /\ pending' = NoPending
          /\ vlen' = Landed(pending.vlen, vlen) /\ vtype' = Landed(pending.vtype, vtype)
      BY <1>5, <2>2 DEF UnitCountdown
    <3>2. entry # None /\ (entry.op # "set" => Current')
      BY <2>1, <3>1 DEF Landed
    <3> QED BY <1>1, <1>nothing, <2>1, <3>1, <3>2
  <2>3. CASE countdown # 1
    <3>1. vlen' = vlen /\ vtype' = vtype /\ pending' = pending
      BY <1>5, <2>3 DEF UnitCountdown
    <3> QED BY <1>1, <2>1, <3>1
  <2> QED BY <2>2, <2>3
<1>6. CASE issue = None /\ UnitIdle
  <2>1. vlen' = vlen /\ vtype' = vtype /\ pending' = pending /\ busy' = busy
    BY <1>6 DEF UnitIdle
  <2> QED BY <1>1, <1>2, <1>6, <2>1
<1> QED BY <1>3, <1>4, <1>5, <1>6 DEF Edge, UnitEdge

\* An early kill finds nothing landed that the copy has not.
LEMMA KillKeepsMirror ==
    ASSUME MirrorInv, EarlyKill, KillEdge(FALSE)
    PROVE  MirrorInv'
<1> USE DEF MirrorInv, OneRequest, RespFires
<1>1. OneRequest'
  BY KillKeepsOneRequest
<1>2. /\ entry' = None /\ vlen' = vlen /\ vtype' = vtype
      /\ mirror' = IF resp_valid THEN [vl |-> vlen, vtype |-> vtype] ELSE mirror
  BY DEF KillEdge, UnitFlush, MirrorEdge
<1>3. ~resp_valid => mirror = [vl |-> vlen, vtype |-> vtype]
  BY DEF EarlyKill
<1> QED BY <1>1, <1>2, <1>3

\* For every set of instructions and every width: vl and vtype as the program reads them
\* (Csrs.v) are what the unit has between requests, as long as no ecall or mret stands in
\* decode and no request is killed after it has left something.
THEOREM MirrorAlwaysCurrent ==
    ASSUME KILLS # "any", ~TRAP PROVE Spec => []MirrorIsCurrent
<1>1. Init => MirrorInv
  BY DEF Init, MirrorInv, OneRequest
<1>2. MirrorInv /\ [Next]_vars => MirrorInv'
  <2> SUFFICES ASSUME MirrorInv, [Next]_vars PROVE MirrorInv'
    OBVIOUS
  <2>1. CASE UNCHANGED vars
    BY <2>1 DEF vars, unitVars, MirrorInv, OneRequest
  <2>2. CASE Next
    <3>1. \/ Edge(None, FALSE)
          \/ CanIssue /\ \E i \in Instruction : Edge(i, FALSE)
          \/ EarlyKill /\ KillEdge(FALSE)
      BY <2>2 DEF Next, Traps, KillAllowed
    <3> QED BY <3>1, EdgeKeepsMirror, KillKeepsMirror
  <2> QED BY <2>1, <2>2
<1>3. MirrorInv => MirrorIsCurrent
  BY DEF MirrorInv, MirrorIsCurrent
<1> QED BY <1>1, <1>2, <1>3, PTL DEF Spec

----------------------------------------------------------------------------
(* Words as sums of their bytes                                            *)

\* The member a fold of the community modules takes out first.
First(s) == CHOOSE x \in s : TRUE
\* iter sums g over the subsets of S, the way MapThenSumSet does.
Folds(iter, g, S) ==
    iter = [s \in SUBSET S |-> IF s = {} THEN 0 ELSE g[First(s)] + iter[s \ {First(s)}]]

\* The member a fold takes out of a set is a member of it.
LEMMA FirstIn == ASSUME NEW s, s # {} PROVE First(s) \in s
  BY DEF First

\* A sum over a set is a summand and the sum over the others.
LEMMA FoldsStep ==
  ASSUME NEW S, NEW g, NEW iter, Folds(iter, g, S), NEW s \in SUBSET S, s # {}
  PROVE  \E x \in s : iter[s] = g[x] + iter[s \ {x}]
<1>1. First(s) \in s
  BY FirstIn
<1>2. iter[s] = g[First(s)] + iter[s \ {First(s)}]
  BY DEF Folds
<1> QED BY <1>1, <1>2

\* A sum over nothing is nothing.
LEMMA FoldsEmpty ==
  ASSUME NEW S, NEW g, NEW iter, Folds(iter, g, S)
  PROVE  iter[{}] = 0
  BY DEF Folds

\* What place k gives to a sum over s, and the sum over four places.
Part(g, s, k) == IF k \in s THEN g[k] ELSE 0
Four(g, s) == ((Part(g, s, 0) + Part(g, s, 1)) + Part(g, s, 2)) + Part(g, s, 3)

\* Taking a place out of a sum over four takes its summand out.
LEMMA FourWithout ==
  ASSUME NEW g \in [0 .. 3 -> Int], NEW s \in SUBSET (0 .. 3), NEW x \in s
  PROVE  Four(g, s) = g[x] + Four(g, s \ {x})
<1>1. x = 0 \/ x = 1 \/ x = 2 \/ x = 3
  OBVIOUS
<1>2. \A k \in 0 .. 3 : Part(g, s, k) \in Int /\ Part(g, s \ {x}, k) = IF k = x THEN 0 ELSE Part(g, s, k)
  BY DEF Part
<1>3. Part(g, s, x) = g[x]
  BY DEF Part
<1> QED BY <1>1, <1>2, <1>3 DEF Four

\* A sum over four places is that of the four, whatever order the fold took them in.
LEMMA FoldsFour ==
  ASSUME NEW g \in [0 .. 3 -> Int], NEW iter, Folds(iter, g, 0 .. 3)
  PROVE  iter[0 .. 3] = ((g[0] + g[1]) + g[2]) + g[3]
<1>0. ASSUME NEW s, s \in SUBSET (0 .. 3), s # {}
      PROVE  \E x \in s : iter[s] = g[x] + iter[s \ {x}]
  <2>1. Folds(iter, g, 0 .. 3)
    OBVIOUS
  <2>2. \A S : Folds(iter, g, S) => \A t \in SUBSET S : t # {} => \E x \in t : iter[t] = g[x] + iter[t \ {x}]
    BY FoldsStep
  <2> QED BY <1>0, <2>1, <2>2
<1>1. PICK a \in 0 .. 3 : iter[0 .. 3] = g[a] + iter[(0 .. 3) \ {a}]
  BY <1>0, 0 \in 0 .. 3
<1>2. PICK b \in (0 .. 3) \ {a} : iter[(0 .. 3) \ {a}] = g[b] + iter[((0 .. 3) \ {a}) \ {b}]
  <2>1. (0 .. 3) \ {a} # {}
    <3>1. 0 \in 0 .. 3 /\ 1 \in 0 .. 3 OBVIOUS
    <3> QED BY <3>1
  <2>2. (0 .. 3) \ {a} \in SUBSET (0 .. 3)
    OBVIOUS
  <2> QED BY <2>1, <2>2, <1>0, Zenon
<1>3. PICK c \in ((0 .. 3) \ {a}) \ {b} :
         iter[((0 .. 3) \ {a}) \ {b}] = g[c] + iter[(((0 .. 3) \ {a}) \ {b}) \ {c}]
  <2>1. ((0 .. 3) \ {a}) \ {b} # {}
    <3>1. 0 \in 0 .. 3 /\ 1 \in 0 .. 3 /\ 2 \in 0 .. 3 OBVIOUS
    <3> QED BY <3>1
  <2>2. ((0 .. 3) \ {a}) \ {b} \in SUBSET (0 .. 3)
    OBVIOUS
  <2> QED BY <2>1, <2>2, <1>0, Zenon
<1>4. PICK d \in (((0 .. 3) \ {a}) \ {b}) \ {c} :
         iter[(((0 .. 3) \ {a}) \ {b}) \ {c}] = g[d] + iter[((((0 .. 3) \ {a}) \ {b}) \ {c}) \ {d}]
  <2>1. (((0 .. 3) \ {a}) \ {b}) \ {c} # {}
    <3>1. 0 \in 0 .. 3 /\ 1 \in 0 .. 3 /\ 2 \in 0 .. 3 /\ 3 \in 0 .. 3 OBVIOUS
    <3> QED BY <3>1
  <2>2. (((0 .. 3) \ {a}) \ {b}) \ {c} \in SUBSET (0 .. 3)
    OBVIOUS
  <2> QED BY <2>1, <2>2, <1>0, Zenon
<1>5. ((((0 .. 3) \ {a}) \ {b}) \ {c}) \ {d} = {}
  OBVIOUS
<1>6. iter[0 .. 3] = g[a] + (g[b] + (g[c] + g[d]))
  <2>1. iter[((((0 .. 3) \ {a}) \ {b}) \ {c}) \ {d}] = 0
    BY <1>5, FoldsEmpty
  <2>2. g[a] \in Int /\ g[b] \in Int /\ g[c] \in Int /\ g[d] \in Int
    OBVIOUS
  <2> QED BY <2>1, <2>2, <1>1, <1>2, <1>3, <1>4
<1>7. /\ a \in {0, 1, 2, 3} /\ b \in {0, 1, 2, 3} /\ c \in {0, 1, 2, 3} /\ d \in {0, 1, 2, 3}
      /\ a # b /\ a # c /\ a # d /\ b # c /\ b # d /\ c # d
  OBVIOUS
<1>8. g[0] \in Int /\ g[1] \in Int /\ g[2] \in Int /\ g[3] \in Int
  OBVIOUS
<1> QED BY <1>6, <1>7, <1>8

\* And a sum over one place is its summand.
LEMMA FoldsOne ==
  ASSUME NEW g \in [{0} -> Int], NEW iter, Folds(iter, g, {0})
  PROVE  iter[{0}] = g[0]
<1>1. iter[{0}] = g[0] + iter[{0} \ {0}]
  BY FoldsStep
<1>2. iter[{}] = 0 /\ {0} \ {0} = {}
  BY FoldsEmpty
<1> QED BY <1>1, <1>2

\* There is such a fold over four places: the sum itself.
LEMMA FoldsExists ==
  ASSUME NEW g \in [0 .. 3 -> Int]
  PROVE  \E iter : Folds(iter, g, 0 .. 3)
<1> DEFINE iter == [s \in SUBSET (0 .. 3) |-> Four(g, s)]
<1>1. iter = [s \in SUBSET (0 .. 3) |-> IF s = {} THEN 0 ELSE g[First(s)] + iter[s \ {First(s)}]]
  <2>1. ASSUME NEW s \in SUBSET (0 .. 3)
        PROVE  Four(g, s) = IF s = {} THEN 0 ELSE g[First(s)] + iter[s \ {First(s)}]
    <3>1. CASE s = {}
      BY <3>1 DEF Four, Part
    <3>2. CASE s # {}
      <4>1. First(s) \in s
        BY <3>2, FirstIn
      <4>2. Four(g, s) = g[First(s)] + Four(g, s \ {First(s)})
        BY <4>1, FourWithout
      <4>3. iter[s \ {First(s)}] = Four(g, s \ {First(s)})
        OBVIOUS
      <4> QED BY <3>2, <4>2, <4>3
    <3> QED BY <3>1, <3>2
  <2> QED BY <2>1, Zenon
<1> QED BY <1>1 DEF Folds

\* And over one.
LEMMA FoldsOneExists ==
  ASSUME NEW g \in [{0} -> Int]
  PROVE  \E iter : Folds(iter, g, {0})
<1> DEFINE iter == [s \in SUBSET {0} |-> IF s = {} THEN 0 ELSE g[0]]
<1>1. iter = [s \in SUBSET {0} |-> IF s = {} THEN 0 ELSE g[First(s)] + iter[s \ {First(s)}]]
  <2>1. ASSUME NEW s \in SUBSET {0}
        PROVE  (IF s = {} THEN 0 ELSE g[0]) = IF s = {} THEN 0 ELSE g[First(s)] + iter[s \ {First(s)}]
    <3>1. CASE s # {}
      <4>0. First(s) \in s
        BY <3>1, FirstIn
      <4>1. s = {0} /\ First(s) \in s
        BY <3>1, <4>0
      <4>3. First(s) = 0 /\ s \ {First(s)} = {}
        BY <4>1
      <4>2. iter[{}] = 0
        OBVIOUS
      <4> QED BY <3>1, <4>3, <4>2
    <3> QED BY <3>1
  <2> QED BY <2>1, Zenon
<1> QED BY <1>1 DEF Folds

\* What digits assemble to is a fold of them.
LEMMA AssembledFolds ==
  ASSUME NEW digits, NEW w, NEW S, DOMAIN digits = S, NEW g, g = [k \in S |-> digits[k] * 2^(w * k)],
         \E iter : Folds(iter, g, S)
  PROVE \E iter : Folds(iter, g, S) /\ Arch!Assembled(digits, w) = iter[S]
<1> DEFINE Eq(iter) ==
             iter = [s \in SUBSET S |-> IF s = {} THEN 0
                                       ELSE digits[First(s)] * 2^(w * First(s)) + iter[s \ {First(s)}]]
<1>1. Arch!Assembled(digits, w) = (CHOOSE iter : Eq(iter))[S]
  BY DEF Arch!Assembled, Arch!MapThenSumSet, Arch!MapThenFoldSet, First
<1>2. ASSUME NEW iter PROVE Eq(iter) <=> Folds(iter, g, S)
  <2>1. ASSUME NEW s \in SUBSET S
        PROVE  (IF s = {} THEN 0 ELSE g[First(s)] + iter[s \ {First(s)}])
               = (IF s = {} THEN 0 ELSE digits[First(s)] * 2^(w * First(s)) + iter[s \ {First(s)}])
    <3>1. CASE s # {}
      <4>1. First(s) \in S
        BY <3>1, FirstIn
      <4>2. g[First(s)] = digits[First(s)] * 2^(w * First(s))
        BY <4>1, Zenon
      <4> HIDE DEF First
      <4> QED BY <3>1, <4>2
    <3> QED BY <3>1, Zenon
  <2>2. [s \in SUBSET S |-> IF s = {} THEN 0 ELSE g[First(s)] + iter[s \ {First(s)}]]
        = [s \in SUBSET S |-> IF s = {} THEN 0
                              ELSE digits[First(s)] * 2^(w * First(s)) + iter[s \ {First(s)}]]
    BY <2>1, Zenon
  <2> QED BY <2>2, Zenon DEF Folds
<1>3. \E iter : Eq(iter)
  BY <1>2, Zenon
<1> HIDE DEF Eq
<1>4. Eq(CHOOSE iter : Eq(iter))
  BY <1>3, Zenon
<1> QED BY <1>1, <1>2, <1>4, Zenon

\* The unit puts lanes together as the architecture assembles digits.
LEMMA FromLanesIsAssembled ==
    ASSUME NEW f PROVE FromLanes(f) = Arch!Assembled(f, BITS)
  BY DEF FromLanes, Arch!Assembled, MapThenSumSet, MapThenFoldSet, Arch!MapThenSumSet, Arch!MapThenFoldSet

\* Quotient and remainder are what a sum of that form shows.
LEMMA DivModUnique ==
    ASSUME NEW m \in Nat \ {0}, NEW q \in Int, NEW r \in Int, 0 <= r, r < m
    PROVE  (m * q + r) \div m = q /\ (m * q + r) % m = r
BY SMT

\* The value of four bytes.
LEMMA FourBytes ==
    ASSUME NEW d \in [0 .. 3 -> 0 .. 255]
    PROVE  Arch!Assembled(d, 8) = ((d[0] + d[1] * 256) + d[2] * 65536) + d[3] * 2^24
<1> DEFINE g == [k \in 0 .. 3 |-> d[k] * 2^(8 * k)]
<1>1. /\ d[0] \in Int /\ d[1] \in Int /\ d[2] \in Int /\ d[3] \in Int
  BY SMT
<1>2. /\ 2^(8 * 0) = 1 /\ 2^(8 * 1) = 256 /\ 2^(8 * 2) = 65536 /\ 2^(8 * 3) = 2^24
  BY SMT
<1>3. /\ g[0] = d[0] /\ g[1] = d[1] * 256 /\ g[2] = d[2] * 65536 /\ g[3] = d[3] * 2^24
  BY <1>1, <1>2, SMT
<1>4. g \in [0 .. 3 -> Int]
  <2>1. ASSUME NEW k \in 0 .. 3 PROVE d[k] * 2^(8 * k) \in Int
    <3>1. k = 0 \/ k = 1 \/ k = 2 \/ k = 3
      BY SMT
    <3> QED BY <3>1, <1>1, <1>2, SMT
  <2> QED BY <2>1, Zenon
<1>5. DOMAIN d = 0 .. 3
  BY SMT
<1>6. \E iter : Folds(iter, g, 0 .. 3)
  BY <1>4, FoldsExists, SMT
<1>7. g = [k \in 0 .. 3 |-> d[k] * 2^(8 * k)]
  BY SMT
<1> HIDE DEF g
<1>8. PICK iter : Folds(iter, g, 0 .. 3) /\ Arch!Assembled(d, 8) = iter[0 .. 3]
  <2>1. \A w, S, h : DOMAIN d = S /\ h = [k \in S |-> d[k] * 2^(w * k)] /\ (\E iter : Folds(iter, h, S))
                      => \E iter : Folds(iter, h, S) /\ Arch!Assembled(d, w) = iter[S]
    BY AssembledFolds
  <2>2. DOMAIN d = 0 .. 3 /\ g = [k \in 0 .. 3 |-> d[k] * 2^(8 * k)] /\ (\E iter : Folds(iter, g, 0 .. 3))
        => \E iter : Folds(iter, g, 0 .. 3) /\ Arch!Assembled(d, 8) = iter[0 .. 3]
    BY <2>1, Zenon
  <2> QED BY <1>5, <1>6, <1>7, <2>2, Zenon
<1>9. iter[0 .. 3] = ((g[0] + g[1]) + g[2]) + g[3]
  BY <1>4, <1>8, FoldsFour, SMT
<1> QED BY <1>3, <1>8, <1>9, SMT

\* A word has the bytes it was put together from.
LEMMA BytesOfFour ==
    ASSUME NEW d \in [0 .. 3 -> 0 .. 255]
    PROVE  /\ Arch!Assembled(d, 8) \in 0 .. 2^32 - 1
           /\ \A k \in 0 .. 3 : Arch!Digit(Arch!Assembled(d, 8), k, 8) = d[k]
<1> DEFINE x == Arch!Assembled(d, 8)
           a == d[0]
           b == d[1]
           c == d[2]
           e == d[3]
<1>sum. /\ a \in 0 .. 255 /\ b \in 0 .. 255 /\ c \in 0 .. 255 /\ e \in 0 .. 255
        /\ x = ((a + b * 256) + c * 65536) + e * 2^24
  BY FourBytes, SMT
<1> HIDE DEF x, a, b, c, e
<1>1. x \in 0 .. 2^32 - 1
  BY <1>sum, SMT
<1>2. x % 256 = a
  <2>1. x = 256 * ((b + c * 256) + e * 65536) + a
    BY <1>sum, SMT
  <2> QED BY <2>1, DivModUnique, <1>sum, SMT
<1>3. (x \div 256) % 256 = b
  <2>1. x = 256 * ((b + c * 256) + e * 65536) + a
    BY <1>sum, SMT
  <2>2. x \div 256 = (b + c * 256) + e * 65536
    BY <2>1, DivModUnique, <1>sum, SMT
  <2>3. (b + c * 256) + e * 65536 = 256 * (c + e * 256) + b
    BY <1>sum, SMT
  <2>4. (256 * (c + e * 256) + b) % 256 = b
    BY DivModUnique, <1>sum, SMT
  <2> QED BY <2>2, <2>3, <2>4, SMT
<1>4. (x \div 65536) % 256 = c
  <2>1. x = 65536 * (c + e * 256) + (a + b * 256)
    BY <1>sum, SMT
  <2>2. x \div 65536 = c + e * 256
    BY <2>1, DivModUnique, <1>sum, SMT
  <2>3. (256 * e + c) % 256 = c
    BY DivModUnique, <1>sum, SMT
  <2> QED BY <1>sum, <2>2, <2>3, SMT
<1>5. (x \div 2^24) % 256 = e
  <2>1. x = 2^24 * e + ((a + b * 256) + c * 65536)
    BY <1>sum, SMT
  <2>2. x \div 2^24 = e
    BY <2>1, DivModUnique, <1>sum, SMT
  <2>3. e % 256 = e
    BY <1>sum, SMT
  <2> QED BY <1>sum, <2>2, <2>3, SMT
<1>6. ASSUME NEW k \in 0 .. 3 PROVE Arch!Digit(x, k, 8) = d[k]
  <2>1. 2^8 = 256 /\ 2^(8 * 0) = 1 /\ 2^(8 * 1) = 256 /\ 2^(8 * 2) = 65536 /\ 2^(8 * 3) = 2^24
    BY SMT
  <2>2. x \div 1 = x
    BY <1>1, SMT
  <2>3. CASE k = 0
    BY <1>2, <2>1, <2>2, <2>3, SMT DEF Arch!Digit, a
  <2>4. CASE k = 1
    BY <1>3, <2>1, <2>4, SMT DEF Arch!Digit, b
  <2>5. CASE k = 2
    BY <1>4, <2>1, <2>5, SMT DEF Arch!Digit, c
  <2>6. CASE k = 3
    BY <1>5, <2>1, <2>6, SMT DEF Arch!Digit, e
  <2> QED BY <2>3, <2>4, <2>5, <2>6, SMT
<1> QED BY <1>1, <1>6, SMT DEF x

\* One element of a whole word.
LEMMA OneWord ==
    ASSUME NEW d \in [{0} -> Int]
    PROVE  Arch!Assembled(d, 32) = d[0]
<1> DEFINE g == [k \in {0} |-> d[k] * 2^(32 * k)]
<1>1. d[0] \in Int /\ 2^(32 * 0) = 1
  BY SMT
<1>2. g \in [{0} -> Int] /\ g[0] = d[0]
  BY <1>1, SMT
<1>3. DOMAIN d = {0}
  BY SMT
<1>4. \E iter : Folds(iter, g, {0})
  BY <1>2, FoldsOneExists, SMT
<1>5. g = [k \in {0} |-> d[k] * 2^(32 * k)]
  BY SMT
<1> HIDE DEF g
<1>6. PICK iter : Folds(iter, g, {0}) /\ Arch!Assembled(d, 32) = iter[{0}]
  <2>1. \A w, S, h : DOMAIN d = S /\ h = [k \in S |-> d[k] * 2^(w * k)] /\ (\E iter : Folds(iter, h, S))
                      => \E iter : Folds(iter, h, S) /\ Arch!Assembled(d, w) = iter[S]
    BY AssembledFolds
  <2>2. DOMAIN d = {0} /\ g = [k \in {0} |-> d[k] * 2^(32 * k)] /\ (\E iter : Folds(iter, g, {0}))
        => \E iter : Folds(iter, g, {0}) /\ Arch!Assembled(d, 32) = iter[{0}]
    BY <2>1, Zenon
  <2> QED BY <1>3, <1>4, <1>5, <2>2, Zenon
<1>7. iter[{0}] = g[0]
  BY <1>2, <1>6, FoldsOne, SMT
<1> QED BY <1>2, <1>6, <1>7, SMT

\* Digit 0 of a word, at the width of a word, is the word.
LEMMA WholeWord ==
    ASSUME NEW x \in 0 .. 2^32 - 1
    PROVE  Arch!Digit(x, 0, 32) = x
<1>1. 2^(32 * 0) = 1 /\ 2^32 \in Nat \ {0}
  BY SMT
<1> QED BY <1>1, SMT DEF Arch!Digit

----------------------------------------------------------------------------
(* The wires compute the elements                                          *)

\* The shape of an arithmetic instruction in InstructionAssumption.
ArithShape == [op : {"arith"}, wen : {FALSE}, f : {"add", "move"}, vd : Vreg, vs2 : Vreg,
               vs1 : Vreg \cup {None}, src1 : Word, unmasked : BOOLEAN]

\* The widths of the code, worked out.
LEMMA CodeWidths ==
    ASSUME LANES = 4, BITS = 8
    PROVE  /\ WORD = 32 /\ Arch!WORD = 32
           /\ Lanes = 0 .. 3 /\ Arch!Places(0) = 0 .. 3 /\ Arch!Places(2) = {0}
           /\ Arch!Width(0) = 8 /\ Arch!Width(2) = 32
           /\ Word = 0 .. 2^32 - 1
  BY SMT DEF WORD, Arch!WORD, Lanes, Arch!Places, Arch!Width, Word

\* What is left of eight bits is a byte.
LEMMA RemainderIsByte ==
    ASSUME NEW y \in Int PROVE y % 2^8 \in 0 .. 255
<1>1. 2^8 = 256
  BY SMT
<1> QED BY <1>1, SMT

\* A lane is a digit.
LEMMA LaneIsDigit ==
    ASSUME NEW x, NEW k PROVE Lane(x, k) = Arch!Digit(x, k, BITS)
  BY DEF Lane, Arch!Digit

\* A digit of eight bits is a byte.
LEMMA DigitIsByte ==
    ASSUME NEW x \in Nat, NEW k \in 0 .. 3 PROVE Arch!Digit(x, k, 8) \in 0 .. 255
<1>1. /\ 2^(8 * 0) \in Nat \ {0} /\ 2^(8 * 1) \in Nat \ {0}
      /\ 2^(8 * 2) \in Nat \ {0} /\ 2^(8 * 3) \in Nat \ {0}
  BY SMT
<1>2. 2^(8 * k) \in Nat \ {0}
  <2>1. k = 0 \/ k = 1 \/ k = 2 \/ k = 3
    BY SMT
  <2> QED BY <1>1, <2>1, Zenon
<1>3. \A m \in Nat \ {0} : x \div m \in Int
  BY SMT
<1>4. x \div 2^(8 * k) \in Int
  BY <1>2, <1>3, Zenon
<1> QED BY <1>4, RemainderIsByte, Zenon DEF Arch!Digit

\* A mask bit is a digit of one bit.
LEMMA MaskBitIsDigit ==
    ASSUME NEW k \in 0 .. 3 PROVE MaskBit(k) = Arch!Digit(vrf[0], k, 1)
<1>1. 1 * k = k /\ 2^1 = 2
  BY SMT
<1> QED BY <1>1, Zenon DEF MaskBit, Arch!Digit

\* Two bytes add up to a number.
LEMMA ByteSum ==
    ASSUME NEW a \in 0 .. 255, NEW b \in 0 .. 255 PROVE a + b \in Int
  BY SMT

\* Words are numbers.
LEMMA WordIsNat ==
    ASSUME LANES = 4, BITS = 8 PROVE \A x \in Word : x \in Nat
<1>1. \A n, x : x \in 0 .. n => x \in Nat
  BY SMT
<1> QED BY <1>1, CodeWidths, Zenon

\* The fields of an arithmetic instruction and the registers it reads.
LEMMA ArithFields ==
    ASSUME LANES = 4, BITS = 8, NEW i \in ArithShape, vrf \in [Vreg -> Word]
    PROVE  /\ i.f = "add" \/ i.f = "move"
           /\ i.vd \in Vreg /\ i.vs2 \in Vreg /\ i.vs1 \in Vreg \cup {None}
           /\ i.src1 \in Word /\ vrf[i.vd] \in Word /\ vrf[i.vs2] \in Word
           /\ i.vs1 # None => vrf[i.vs1] \in Word
           /\ i.src1 \in Nat /\ vrf[i.vd] \in Nat /\ vrf[i.vs2] \in Nat
           /\ i.vs1 # None => vrf[i.vs1] \in Nat
<1>1. /\ i.f = "add" \/ i.f = "move"
      /\ i.vd \in Vreg /\ i.vs2 \in Vreg /\ i.vs1 \in Vreg \cup {None} /\ i.src1 \in Word
  BY SMT DEF ArithShape
<1>2. vrf[i.vd] \in Word /\ vrf[i.vs2] \in Word /\ (i.vs1 # None => vrf[i.vs1] \in Word)
  BY <1>1, Zenon
<1> QED BY <1>1, <1>2, WordIsNat, Zenon

\* What the unit computes for a byte is what the element is.
LEMMA ByteResultIsOperate ==
    ASSUME LANES = 4, BITS = 8, NEW i \in ArithShape, NEW k \in 0 .. 3,
           vrf \in [Vreg -> Word]
    PROVE  /\ ByteResult(i, k) = Arch!Operate(i.f, Arch!Digit(vrf[i.vs2], k, 8), Arch!Right(i, k, 8), 8)
           /\ ByteResult(i, k) \in 0 .. 255
<1>1. /\ i.f = "add" \/ i.f = "move"
      /\ i.vs2 \in Vreg /\ i.vs1 \in Vreg \cup {None} /\ i.src1 \in Nat
      /\ vrf[i.vs2] \in Nat /\ (i.vs1 # None => vrf[i.vs1] \in Nat)
  BY ArithFields, Zenon
<1>2. RightByte(i, k) = Arch!Right(i, k, 8)
  BY <1>1, LaneIsDigit, Zenon DEF RightByte, Arch!Right
<1>3. 0 \in 0 .. 3
  BY SMT
<1>4. Arch!Right(i, k, 8) \in 0 .. 255
  BY <1>1, <1>3, DigitIsByte, Zenon DEF Arch!Right
<1>5. Lane(vrf[i.vs2], k) = Arch!Digit(vrf[i.vs2], k, 8) /\ Arch!Digit(vrf[i.vs2], k, 8) \in 0 .. 255
  BY <1>1, LaneIsDigit, DigitIsByte, Zenon
<1>6. ByteResult(i, k) = Arch!Operate(i.f, Arch!Digit(vrf[i.vs2], k, 8), Arch!Right(i, k, 8), 8)
  BY <1>2, <1>5, Zenon DEF ByteResult, Arch!Operate
<1>7. Arch!Digit(vrf[i.vs2], k, 8) + Arch!Right(i, k, 8) \in Int
  BY <1>4, <1>5, ByteSum, Zenon
<1>8. (Arch!Digit(vrf[i.vs2], k, 8) + Arch!Right(i, k, 8)) % 2^8 \in 0 .. 255
  BY <1>7, RemainderIsByte, Zenon
<1> QED BY <1>4, <1>6, <1>8, Zenon DEF Arch!Operate

\* Elements of a byte.
LEMMA BytesAreElements ==
    ASSUME LANES = 4, BITS = 8, NEW i \in ArithShape, vrf \in [Vreg -> Word],
           vlen \in 0 .. 4, vtype = 0
    PROVE  merge_masked_result(i) = Arch!Elements(i) /\ Arch!Elements(i) \in Word
<1> DEFINE c == [k \in 0 .. 3 |-> IF vlen > k THEN ByteResult(i, k) ELSE 0]
           e == [k \in 0 .. 3 |-> Arch!Element(i, k)]
<1>1. \A k \in 0 .. 3 : 0 \in 0 .. 255 /\ ByteResult(i, k) \in 0 .. 255
  BY ByteResultIsOperate, SMT
<1>2. c \in [0 .. 3 -> 0 .. 255]
  BY <1>1, Zenon
<1>3. Computed(i) = Arch!Assembled(c, 8)
  <2>1. Computed(i) = FromLanes([k \in Lanes |-> IF vlen > k THEN ByteResult(i, k) ELSE 0])
    BY SMT DEF Computed
  <2>2. Computed(i) = FromLanes(c)
    BY <2>1, CodeWidths, Zenon
  <2> QED BY <2>2, FromLanesIsAssembled, Zenon
<1>4. \A k \in 0 .. 3 : Lane(Computed(i), k) = IF vlen > k THEN ByteResult(i, k) ELSE 0
  <2>1. \A k \in 0 .. 3 : Arch!Digit(Arch!Assembled(c, 8), k, 8) = c[k]
    BY <1>2, BytesOfFour, Zenon
  <2>2. \A k \in 0 .. 3 : Lane(Computed(i), k) = Arch!Digit(Arch!Assembled(c, 8), k, 8)
    BY <1>3, LaneIsDigit, Zenon
  <2> QED BY <2>1, <2>2, Zenon
<1>5. Arch!Elements(i) = Arch!Assembled(e, 8)
  BY CodeWidths, Zenon DEF Arch!Elements
<1>6. ASSUME NEW k \in 0 .. 3
      PROVE  Arch!Element(i, k) =
                 IF ~(vlen > k) THEN 0
                 ELSE IF ~i.unmasked /\ MaskBit(k) = 0 THEN Lane(vrf[i.vd], k)
                 ELSE ByteResult(i, k)
  <2>1. (k >= vlen) <=> ~(vlen > k)
    BY SMT
  <2>2. Lane(vrf[i.vd], k) = Arch!Digit(vrf[i.vd], k, 8)
    BY LaneIsDigit, Zenon
  <2> QED BY <2>1, <2>2, MaskBitIsDigit, ByteResultIsOperate, CodeWidths, Zenon DEF Arch!Element
<1>7. e \in [0 .. 3 -> 0 .. 255]
  <2>1. ASSUME NEW k \in 0 .. 3 PROVE Arch!Element(i, k) \in 0 .. 255
    <3>1. vrf[i.vd] \in Nat
      BY ArithFields, Zenon
    <3>2. Lane(vrf[i.vd], k) \in 0 .. 255
      BY <3>1, LaneIsDigit, DigitIsByte, Zenon
    <3> QED BY <1>1, <1>6, <3>2, Zenon
  <2> QED BY <2>1, Zenon
<1>8. Arch!Elements(i) \in Word
  BY <1>5, <1>7, BytesOfFour, CodeWidths, Zenon
<1>9. CASE i.unmasked
  <2>1. ASSUME NEW k \in 0 .. 3 PROVE c[k] = e[k]
    BY <1>6, <1>9, Zenon
  <2>2. c = e
    BY <2>1, Zenon
  <2>3. merge_masked_result(i) = Computed(i)
    BY <1>9, Zenon DEF merge_masked_result
  <2> QED BY <1>3, <1>5, <1>8, <2>2, <2>3, Zenon
<1>10. CASE ~i.unmasked
  <2> DEFINE m == [k \in 0 .. 3 |-> IF vlen > k /\ MaskBit(k) = 0 THEN Lane(vrf[i.vd], k)
                                    ELSE Lane(Computed(i), k)]
  <2>1. ASSUME NEW k \in 0 .. 3
        PROVE  (IF vlen > k /\ MaskBit(k) = 0 THEN Lane(vrf[i.vd], k) ELSE Lane(Computed(i), k))
               = Arch!Element(i, k)
    BY <1>4, <1>6, <1>10, Zenon
  <2>2. m = e
    BY <2>1, Zenon
  <2>3. merge_masked_result(i) =
          FromLanes([k \in Lanes |-> IF vlen > k /\ MaskBit(k) = 0 THEN Lane(vrf[i.vd], k)
                                     ELSE Lane(Computed(i), k)])
    BY <1>10, SMT DEF merge_masked_result
  <2>4. merge_masked_result(i) = FromLanes(m)
    BY <2>3, CodeWidths, Zenon
  <2> QED BY <1>5, <1>8, <2>2, <2>4, FromLanesIsAssembled, Zenon
<1> QED BY <1>9, <1>10, Zenon

\* One element of a word.
LEMMA WordIsElement ==
    ASSUME LANES = 4, BITS = 8, NEW i \in ArithShape, vrf \in [Vreg -> Word],
           vlen \in 0 .. 4, vtype = 2
    PROVE  merge_masked_result(i) = Arch!Elements(i) /\ Arch!Elements(i) \in Word
<1>1. /\ i.f = "add" \/ i.f = "move"
      /\ i.vd \in Vreg /\ i.vs2 \in Vreg /\ i.vs1 \in Vreg \cup {None} /\ i.src1 \in 0 .. 2^32 - 1
      /\ vrf[i.vd] \in 0 .. 2^32 - 1 /\ vrf[i.vs2] \in 0 .. 2^32 - 1
      /\ i.vs1 # None => vrf[i.vs1] \in 0 .. 2^32 - 1
  BY ArithFields, CodeWidths, Zenon
<1>2. Arch!Right(i, 0, 32) = RightWord(i) /\ RightWord(i) \in 0 .. 2^32 - 1
  BY <1>1, WholeWord, Zenon DEF Arch!Right, RightWord
<1>3. /\ Arch!Digit(vrf[i.vs2], 0, 32) = vrf[i.vs2]
      /\ Arch!Digit(vrf[i.vd], 0, 32) = vrf[i.vd]
  BY <1>1, WholeWord, Zenon
<1>4. WordResult(i) = Arch!Operate(i.f, Arch!Digit(vrf[i.vs2], 0, 32), Arch!Right(i, 0, 32), 32)
  BY <1>2, <1>3, CodeWidths, Zenon DEF WordResult, Arch!Operate
<1>5. WordResult(i) \in 0 .. 2^32 - 1
  <2>1. 2^32 \in Nat \ {0}
    BY SMT
  <2>2. \A m \in Nat \ {0}, y \in Int : y % m \in 0 .. m - 1
    BY SMT
  <2>3. vrf[i.vs2] + RightWord(i) \in Int
    BY <1>1, <1>2, SMT
  <2>4. (vrf[i.vs2] + RightWord(i)) % 2^32 \in 0 .. 2^32 - 1
    BY <2>1, <2>2, <2>3, Zenon
  <2> QED BY <1>2, <2>4, CodeWidths, Zenon DEF WordResult
<1>6. Arch!Element(i, 0) = IF vlen = 0 THEN 0
                           ELSE IF ~i.unmasked /\ MaskBit(0) = 0 THEN vrf[i.vd] ELSE WordResult(i)
  <2>1. (0 >= vlen) <=> vlen = 0
    BY SMT
  <2>2. MaskBit(0) = Arch!Digit(vrf[0], 0, 1)
    BY MaskBitIsDigit, SMT
  <2> QED BY <1>3, <1>4, <2>1, <2>2, CodeWidths, Zenon DEF Arch!Element
<1>7. Arch!Element(i, 0) \in 0 .. 2^32 - 1
  <2>1. 0 \in 0 .. 2^32 - 1
    BY SMT
  <2> QED BY <1>1, <1>5, <1>6, <2>1, Zenon
<1>8. Arch!Elements(i) = Arch!Element(i, 0)
  <2> DEFINE d == [k \in {0} |-> Arch!Element(i, k)]
  <2>1. Arch!Elements(i) = Arch!Assembled(d, 32)
    BY CodeWidths, Zenon DEF Arch!Elements
  <2>2. Arch!Element(i, 0) \in Int
    BY <1>7, SMT
  <2>3. d \in [{0} -> Int] /\ d[0] = Arch!Element(i, 0)
    BY <2>2
  <2> HIDE DEF d
  <2> QED BY <2>1, <2>3, OneWord, Zenon
<1>9. merge_masked_result(i) = Arch!Element(i, 0)
  <2>1. vlen > 0 <=> vlen # 0
    BY SMT
  <2>2. Computed(i) = IF vlen = 0 THEN 0 ELSE WordResult(i)
    BY SMT DEF Computed
  <2>3. merge_masked_result(i) =
          IF i.unmasked THEN Computed(i)
          ELSE IF vlen > 0 /\ MaskBit(0) = 0 THEN vrf[i.vd] ELSE Computed(i)
    BY Zenon DEF merge_masked_result
  <2>4. CASE vlen = 0
    <3>1. Computed(i) = 0 /\ ~(vlen > 0)
      BY <2>1, <2>2, <2>4, Zenon
    <3>2. merge_masked_result(i) = 0
      BY <2>3, <3>1, Zenon
    <3> QED BY <1>6, <2>4, <3>2, Zenon
  <2>5. CASE vlen # 0
    <3>1. Computed(i) = WordResult(i) /\ vlen > 0
      BY <2>1, <2>2, <2>5, Zenon
    <3>2. CASE i.unmasked
      BY <1>6, <2>3, <2>5, <3>1, <3>2, Zenon
    <3>3. CASE ~i.unmasked
      <4>1. CASE MaskBit(0) = 0
        <5>1. merge_masked_result(i) = vrf[i.vd]
          BY <2>3, <3>1, <3>3, <4>1, Zenon
        <5>2. Arch!Element(i, 0) = vrf[i.vd]
          BY <1>6, <2>5, <3>3, <4>1, Zenon
        <5> QED BY <5>1, <5>2, Zenon
      <4>2. CASE MaskBit(0) # 0
        <5>1. merge_masked_result(i) = Computed(i)
          BY <2>3, <3>1, <3>3, <4>2, Zenon
        <5>2. Arch!Element(i, 0) = WordResult(i)
          BY <1>6, <2>5, <3>3, <4>2, Zenon
        <5> QED BY <3>1, <5>1, <5>2, Zenon
      <4> QED BY <4>1, <4>2, Zenon
    <3> QED BY <3>2, <3>3, Zenon
  <2> QED BY <2>4, <2>5, Zenon
<1> QED BY <1>7, <1>8, <1>9, CodeWidths, Zenon

\* The custom operation on registers 0 and 1 works on every byte (lane_add8).
LEMMA LanesAreElements ==
    ASSUME LANES = 4, BITS = 8, vrf \in [Vreg -> Word], NEW i, i.f \in {"add", "move"}
    PROVE  vrf_op_result(i) = Arch!LaneResult(i) /\ Arch!LaneResult(i) \in Word
<1> DEFINE a == [k \in 0 .. 3 |-> Arch!Operate(i.f, Arch!Digit(vrf[0], k, 8), Arch!Digit(vrf[1], k, 8), 8)]
           u == [k \in 0 .. 3 |-> IF i.f = "add" THEN (Lane(vrf[0], k) + Lane(vrf[1], k)) % 2^BITS
                                  ELSE Lane(vrf[1], k)]
<1>1. vrf[0] \in Nat /\ vrf[1] \in Nat
  <2>1. 0 \in Vreg /\ 1 \in Vreg
    BY VectorUnitAssumption
  <2> QED BY <2>1, WordIsNat, Zenon
<1>2. ASSUME NEW k \in 0 .. 3
      PROVE  Arch!Operate(i.f, Arch!Digit(vrf[0], k, 8), Arch!Digit(vrf[1], k, 8), 8) \in 0 .. 255
  <2>1. Arch!Digit(vrf[0], k, 8) \in 0 .. 255 /\ Arch!Digit(vrf[1], k, 8) \in 0 .. 255
    BY <1>1, DigitIsByte, Zenon
  <2>2. Arch!Digit(vrf[0], k, 8) + Arch!Digit(vrf[1], k, 8) \in Int
    BY <2>1, ByteSum, Zenon
  <2> QED BY <2>1, <2>2, RemainderIsByte, Zenon DEF Arch!Operate
<1>3. a \in [0 .. 3 -> 0 .. 255]
  BY <1>2, Zenon
<1>4. a = u
  <2>1. ASSUME NEW k \in 0 .. 3
        PROVE  Arch!Operate(i.f, Arch!Digit(vrf[0], k, 8), Arch!Digit(vrf[1], k, 8), 8)
               = IF i.f = "add" THEN (Lane(vrf[0], k) + Lane(vrf[1], k)) % 2^BITS ELSE Lane(vrf[1], k)
    BY LaneIsDigit, Zenon DEF Arch!Operate
  <2> QED BY <2>1, Zenon
<1>5. vrf_op_result(i) = Arch!Assembled(u, 8)
  BY CodeWidths, FromLanesIsAssembled, Zenon DEF vrf_op_result
<1>6. Arch!LaneResult(i) = Arch!Assembled(a, 8)
  <2>1. 0 .. LANES - 1 = 0 .. 3
    BY CodeWidths, Zenon DEF Lanes
  <2> QED BY <2>1, Zenon DEF Arch!LaneResult
<1>7. Arch!Assembled(a, 8) \in 0 .. 2^32 - 1
  BY <1>3, BytesOfFour, Zenon
<1> QED BY <1>4, <1>5, <1>6, <1>7, CodeWidths, Zenon

----------------------------------------------------------------------------
(* An accept performs the instruction                                      *)

\* What may be pending: each register its own kind of value, or nothing.
Pendings == [vlen : 0 .. 4 \cup {None}, vtype : {0, 2, Vill, None}, scratch : Word \cup {None}]

\* The inductive invariant.  What a request in flight has done is read off the unit's
\* registers: the response register holds the latched result, and only an access is in memory.
VectorInv ==
    /\ OneRequest
    /\ entry \in Instruction \cup {None}
    /\ vrf \in [Vreg -> Word]
    /\ vlen \in 0 .. 4 /\ vtype \in {0, 2, Vill} /\ scratch \in Word /\ op_count \in Nat
    /\ pending \in Pendings
    /\ latched_res \in Nat
    /\ resp_valid => resp_res = latched_res
    /\ mem_active => is_mem_op(entry)

\* The shapes of InstructionAssumption, by name.
SetShape == [op : {"set"}, wen : BOOLEAN, avl : Word \cup {None}, sew : 0 .. 63 \cup {None}]
MemShape == [op : {"load", "store"}, wen : BOOLEAN, vd : Vreg, sew : {0, 2, None}]
LaneShape == [op : {"lane"}, wen : BOOLEAN, f : {"add", "move"}, vd : Vreg]
WriteShape == [op : {"vrf_write"}, wen : BOOLEAN, vd : Vreg, src1 : Word]
ScratchShape == [op : {"scratch_write"}, wen : BOOLEAN, src1 : Word]
CountShape == [op : {"op_count"}, wen : BOOLEAN]

\* Every instruction has one of the seven shapes.
LEMMA InstructionShape ==
    ASSUME NEW i \in Instruction
    PROVE  \/ i \in SetShape /\ (i.avl # None \/ i.sew # None)
           \/ i \in ArithShape \/ i \in MemShape \/ i \in ScratchShape
           \/ i \in CountShape \/ i \in LaneShape \/ i \in WriteShape
  BY InstructionAssumption
     DEF SetShape, ArithShape, MemShape, ScratchShape, CountShape, LaneShape, WriteShape

\* What an instruction that does not go to memory leaves on the edge it is accepted, in
\* the words of the architecture.
Performs(i) ==
    /\ vrf' \in Arch!VectorsAfter(i)
    /\ vrf' \in [Vreg -> Word]
    /\ latched_res' = Arch!Result(i, vrf') /\ latched_res' \in Nat
    /\ Landing' = Arch!StateAfter(i)
    /\ pending' \in Pendings

\* The value of an unsupported type, and that it is neither of the supported ones.
LEMMA CodeVill == ASSUME LANES = 4, BITS = 8
                  PROVE  Vill = 2^31 /\ Arch!Vill = 2^31 /\ Vill \in Nat /\ Vill # 0 /\ Vill # 2
  BY SMT DEF Vill, WORD, Arch!Vill, Arch!WORD

\* A field that is absent is told from every number.
LEMMA NoneIsApart == None \notin Nat
  BY ModelValueAssumption

\* Only "set" and "scratch_write" leave more than the count.
LEMMA CountedOnly ==
    ASSUME LANES = 4, BITS = 8, VectorInv, NEW i, i.op \notin {"set", "scratch_write"}, UnitAccept(i)
    PROVE  /\ Landing' = Arch!StateAfter(i)
           /\ pending' \in Pendings
<1>1. pending' = NoPending
  BY SMT DEF UnitAccept, PendingOf
<1>2. NoPending \in Pendings
  BY SMT DEF NoPending, Pendings
<1>3. UNCHANGED <<vlen, vtype, scratch, op_count>>
  BY Zenon DEF UnitAccept
<1>4. Landing' = [vlen |-> vlen, vtype |-> vtype, scratch |-> scratch, count |-> (op_count + 1) % COUNTS]
  BY <1>1, <1>3 DEF Landing, Landed, NoPending
<1>5. Arch!StateAfter(i) = [vlen |-> vlen, vtype |-> vtype, scratch |-> scratch,
                            count |-> (op_count + 1) % COUNTS]
  <2>1. Arch!StateAfter(i) = Arch!Counted
    BY SMT DEF Arch!StateAfter
  <2> QED BY <2>1 DEF Arch!Counted
<1> QED BY <1>1, <1>2, <1>4, <1>5, Zenon

\* vsetvli and its like: a new length, a new type or both, and the length as the result.
LEMMA SetPerforms ==
    ASSUME LANES = 4, BITS = 8, VectorInv, NEW i \in SetShape, i.avl # None \/ i.sew # None,
           UnitAccept(i)
    PROVE  Performs(i)
<1>1. i.op = "set" /\ i.avl \in Word \cup {None} /\ i.sew \in 0 .. 63 \cup {None} /\ i.wen \in BOOLEAN
  BY SMT DEF SetShape
<1>2. vrf' = vrf
  <2>1. ~vrf_write(i)
    BY <1>1, Zenon DEF vrf_write, standard_mem_zero_load
  <2> QED BY <2>1, Zenon DEF UnitAccept
<1>3. Arch!VectorsAfter(i) = {vrf}
  <2>1. Arch!Written(i) = {}
    BY <1>1 DEF Arch!Written
  <2> QED BY <2>1, Zenon DEF Arch!VectorsAfter
<1>4. /\ i.avl # None => /\ i.avl \in Nat /\ vlen_next_value(i.avl) \in 0 .. 4
                         /\ vlen_next_value(i.avl) = Arch!Length(i.avl)
      /\ i.sew # None => vtype_next_value(i.sew) \in {0, 2, Vill}
  <2>1. i.avl # None => i.avl \in Nat
    BY <1>1, WordIsNat, Zenon
  <2> QED BY <2>1, SMT DEF vlen_next_value, vtype_next_value, Arch!Length
<1>5. pending' = [vlen |-> IF i.avl = None THEN None ELSE vlen_next_value(i.avl),
                  vtype |-> IF i.sew = None THEN None ELSE vtype_next_value(i.sew),
                  scratch |-> None]
  BY <1>1, SMT DEF UnitAccept, PendingOf
<1>6. UNCHANGED <<vlen, vtype, scratch, op_count>>
  BY Zenon DEF UnitAccept
<1>7. pending' \in Pendings
  BY <1>4, <1>5 DEF Pendings
<1>8. Landing' = [vlen |-> IF i.avl = None THEN vlen ELSE vlen_next_value(i.avl),
                  vtype |-> IF i.sew = None THEN vtype ELSE vtype_next_value(i.sew),
                  scratch |-> scratch, count |-> (op_count + 1) % COUNTS]
  <2>1. /\ i.avl # None => vlen_next_value(i.avl) # None
        /\ i.sew # None => vtype_next_value(i.sew) # None
    <3>1. None \notin 0 .. 4 /\ None \notin {0, 2, Vill}
      BY NoneIsApart, CodeVill, SMT
    <3> QED BY <1>4, <3>1, Zenon
  <2> QED BY <1>5, <1>6, <2>1 DEF Landing, Landed
<1>9. Arch!StateAfter(i) = [vlen |-> IF i.avl = None THEN vlen ELSE Arch!Length(i.avl),
                            vtype |-> IF i.sew = None THEN vtype ELSE vtype_next_value(i.sew),
                            scratch |-> scratch, count |-> (op_count + 1) % COUNTS]
  <2>1. None \notin {0, 2}
    BY NoneIsApart, SMT
  <2>2. i.sew # None => (IF Arch!Legal(i.sew) THEN i.sew ELSE Arch!Vill) = vtype_next_value(i.sew)
    BY CodeVill, Zenon DEF Arch!Legal, vtype_next_value
  <2>3. ~Arch!Legal(None)
    BY <2>1, Zenon DEF Arch!Legal
  <2> QED BY <1>1, <2>2, <2>3 DEF Arch!StateAfter, Arch!Counted
<1>10. Landing' = Arch!StateAfter(i)
  BY <1>4, <1>8, <1>9, Zenon
<1>11. latched_res' = Arch!Result(i, vrf') /\ latched_res' \in Nat
  <2>1. latched_res' = cop_result(i)
    BY Zenon DEF UnitAccept
  <2>2. cop_result(i) = IF ~i.wen THEN 0
                        ELSE IF i.avl # None /\ i.sew # None THEN vlen_next_value(i.avl)
                        ELSE IF i.sew = None THEN vlen ELSE vtype
    BY <1>1, SMT DEF cop_result
  <2>3. Arch!Result(i, vrf') = IF ~i.wen THEN 0
                               ELSE IF i.avl = None THEN vtype
                               ELSE IF i.sew = None THEN vlen ELSE Arch!Length(i.avl)
    BY <1>1, SMT DEF Arch!Result
  <2>4. vlen \in Nat /\ vtype \in Nat /\ 0 \in Nat /\ (\A n \in 0 .. 4 : n \in Nat)
    BY CodeVill, SMT DEF VectorInv
  <2>5. cop_result(i) = Arch!Result(i, vrf')
    <3>1. CASE ~i.wen
      BY <2>2, <2>3, <3>1, Zenon
    <3>2. CASE i.wen /\ i.avl = None
      <4>1. i.sew # None
        BY <3>2, Zenon
      <4>2. cop_result(i) = vtype
        BY <2>2, <3>2, <4>1, Zenon
      <4> QED BY <2>3, <3>2, <4>2, Zenon
    <3>3. CASE i.wen /\ i.avl # None /\ i.sew = None
      BY <2>2, <2>3, <3>3, Zenon
    <3>4. CASE i.wen /\ i.avl # None /\ i.sew # None
      BY <1>4, <2>2, <2>3, <3>4, Zenon
    <3> QED BY <3>1, <3>2, <3>3, <3>4, Zenon
  <2>6. cop_result(i) \in Nat
    BY <1>4, <2>2, <2>4, Zenon
  <2> QED BY <2>1, <2>5, <2>6, Zenon
<1>12. vrf' \in Arch!VectorsAfter(i) /\ vrf' \in [Vreg -> Word]
  BY <1>2, <1>3, Zenon DEF VectorInv
<1> QED BY <1>7, <1>10, <1>11, <1>12, Zenon DEF Performs

\* Arithmetic, of either element width, masked or not, or of an unsupported type.
LEMMA ArithPerforms ==
    ASSUME LANES = 4, BITS = 8, VectorInv, NEW i \in ArithShape, UnitAccept(i)
    PROVE  Performs(i)
<1>1. i.op = "arith" /\ ~i.wen /\ i.vd \in Vreg
  <2>1. i.op \in {"arith"} /\ i.wen \in {FALSE} /\ i.vd \in Vreg
    BY Zenon DEF ArithShape
  <2> QED BY <2>1, Zenon
<1>2. vrf \in [Vreg -> Word] /\ vlen \in 0 .. 4
  BY Zenon DEF VectorInv
<1>3. latched_res' = Arch!Result(i, vrf') /\ latched_res' \in Nat
  <2>1. latched_res' = 0
    BY <1>1, Zenon DEF UnitAccept, cop_result
  <2>2. Arch!Result(i, vrf') = 0
    BY <1>1, Zenon DEF Arch!Result
  <2> QED BY <2>1, <2>2, SMT
<1>4. vrf' \in Arch!VectorsAfter(i) /\ vrf' \in [Vreg -> Word]
  <2>1. CASE vtype \in {0, 2}
    <3>1. vtype # Vill
      BY <2>1, CodeVill, Zenon
    <3>2. vrf_write(i)
      BY <1>1, <3>1, Zenon DEF vrf_write
    <3>3. vrf_write_value(i) = merge_masked_result(i)
      BY <1>1, SMT DEF vrf_write_value
    <3>4. merge_masked_result(i) = Arch!Elements(i) /\ Arch!Elements(i) \in Word
      BY <1>2, <2>1, BytesAreElements, WordIsElement, Zenon
    <3>5. vrf' = [vrf EXCEPT ![i.vd] = Arch!Elements(i)]
      BY <3>2, <3>3, <3>4, Zenon DEF UnitAccept
    <3>6. Arch!Written(i) = {Arch!Elements(i)}
      BY <1>1, <2>1, SMT DEF Arch!Written, Arch!Legal
    <3>7. vrf' \in Arch!VectorsAfter(i)
      BY <3>5, <3>6, Zenon DEF Arch!VectorsAfter
    <3> QED BY <1>1, <1>2, <3>4, <3>5, <3>7, Zenon
  <2>2. CASE vtype \notin {0, 2}
    <3>1. vtype = Vill
      BY <2>2, Zenon DEF VectorInv
    <3>2. ~vrf_write(i)
      BY <1>1, <3>1, Zenon DEF vrf_write, standard_mem_zero_load
    <3>3. vrf' = vrf
      BY <3>2, Zenon DEF UnitAccept
    <3>4. Arch!Written(i) = {}
      BY <1>1, <2>2, SMT DEF Arch!Written, Arch!Legal
    <3>5. vrf' \in Arch!VectorsAfter(i)
      BY <3>3, <3>4, Zenon DEF Arch!VectorsAfter
    <3> QED BY <1>2, <3>3, <3>5, Zenon
  <2> QED BY <2>1, <2>2, Zenon
<1>5. Landing' = Arch!StateAfter(i) /\ pending' \in Pendings
  BY <1>1, CountedOnly, Zenon
<1> QED BY <1>3, <1>4, <1>5, Zenon DEF Performs

\* Accesses that do not go to memory: of an unsupported type, or of no byte.
LEMMA EmptyAccessPerforms ==
    ASSUME LANES = 4, BITS = 8, VectorInv, NEW i \in MemShape, ~is_mem_op(i), UnitAccept(i)
    PROVE  Performs(i)
<1>1. i.op \in {"load", "store"} /\ i.wen \in BOOLEAN /\ i.vd \in Vreg
  BY SMT DEF MemShape
<1>2. ~i.wen /\ (i.sew # vtype \/ vlen = 0)
  BY <1>1, Zenon DEF is_mem_op, standard_mem_op, standard_mem_supported
<1>3. vrf \in [Vreg -> Word] /\ 0 \in Word
  <2>1. 0 \in 0 .. 2^32 - 1
    BY SMT
  <2> QED BY <2>1, CodeWidths, Zenon DEF VectorInv
<1>4. latched_res' = Arch!Result(i, vrf') /\ latched_res' \in Nat
  <2>1. latched_res' = 0
    BY <1>2, Zenon DEF UnitAccept, cop_result
  <2>2. Arch!Result(i, vrf') = 0
    BY <1>2, Zenon DEF Arch!Result
  <2> QED BY <2>1, <2>2, SMT
<1>5. vrf' \in Arch!VectorsAfter(i) /\ vrf' \in [Vreg -> Word]
  <2>1. CASE i.op = "load" /\ i.sew = vtype
    <3>1. vlen = 0
      BY <1>2, <2>1, Zenon
    <3>2. vrf_write(i)
      BY <1>2, <2>1, <3>1, Zenon
         DEF vrf_write, standard_mem_zero_load, standard_mem_op, standard_mem_supported
    <3>3. vrf_write_value(i) = 0
      BY <2>1, SMT DEF vrf_write_value
    <3>4. vrf' = [vrf EXCEPT ![i.vd] = 0]
      BY <3>2, <3>3, Zenon DEF UnitAccept
    <3>5. Arch!Written(i) = {0}
      <4>1. Arch!Loaded(i) = {0}
        BY <1>2, <2>1, <3>1, SMT DEF Arch!Loaded
      <4> QED BY <2>1, <4>1, SMT DEF Arch!Written
    <3>6. vrf' \in Arch!VectorsAfter(i)
      BY <3>4, <3>5, Zenon DEF Arch!VectorsAfter
    <3> QED BY <1>1, <1>3, <3>4, <3>6, Zenon
  <2>2. CASE ~(i.op = "load" /\ i.sew = vtype)
    <3>1. ~vrf_write(i)
      BY <1>1, <2>2, Zenon DEF vrf_write, standard_mem_zero_load, standard_mem_supported
    <3>2. vrf' = vrf
      BY <3>1, Zenon DEF UnitAccept
    <3>3. Arch!Written(i) = {}
      <4>1. i.op = "load" => Arch!Loaded(i) = {}
        BY <1>2, <2>2, SMT DEF Arch!Loaded
      <4> QED BY <1>1, <4>1, SMT DEF Arch!Written
    <3>4. vrf' \in Arch!VectorsAfter(i)
      BY <3>2, <3>3, Zenon DEF Arch!VectorsAfter
    <3> QED BY <1>3, <3>2, <3>4, Zenon
  <2> QED BY <2>1, <2>2, Zenon
<1>6. Landing' = Arch!StateAfter(i) /\ pending' \in Pendings
  <2>1. i.op \notin {"set", "scratch_write"}
    BY <1>1, Zenon
  <2> QED BY <2>1, CountedOnly, Zenon
<1> QED BY <1>4, <1>5, <1>6, Zenon DEF Performs

\* A write of the scratch register answers with what was there.
LEMMA ScratchPerforms ==
    ASSUME LANES = 4, BITS = 8, VectorInv, NEW i \in ScratchShape, UnitAccept(i)
    PROVE  Performs(i)
<1>1. i.op = "scratch_write" /\ i.wen \in BOOLEAN /\ i.src1 \in Word
  BY SMT DEF ScratchShape
<1>2. i.src1 # None /\ scratch \in Nat
  BY <1>1, NoneIsApart, WordIsNat, Zenon DEF VectorInv
<1>3. vrf' = vrf
  <2>1. ~vrf_write(i)
    BY <1>1, Zenon DEF vrf_write, standard_mem_zero_load
  <2> QED BY <2>1, Zenon DEF UnitAccept
<1>4. vrf' \in Arch!VectorsAfter(i) /\ vrf' \in [Vreg -> Word]
  <2>1. Arch!Written(i) = {}
    BY <1>1, SMT DEF Arch!Written
  <2> QED BY <1>3, <2>1, Zenon DEF Arch!VectorsAfter, VectorInv
<1>5. pending' = [vlen |-> None, vtype |-> None, scratch |-> i.src1]
  BY <1>1, SMT DEF UnitAccept, PendingOf, NoPending
<1>6. pending' \in Pendings
  BY <1>1, <1>5 DEF Pendings
<1>7. UNCHANGED <<vlen, vtype, scratch, op_count>>
  BY Zenon DEF UnitAccept
<1>8. Landing' = [vlen |-> vlen, vtype |-> vtype, scratch |-> i.src1, count |-> (op_count + 1) % COUNTS]
  BY <1>2, <1>5, <1>7 DEF Landing, Landed
<1>9. Arch!StateAfter(i) = [vlen |-> vlen, vtype |-> vtype, scratch |-> i.src1,
                            count |-> (op_count + 1) % COUNTS]
  BY <1>1 DEF Arch!StateAfter, Arch!Counted
<1>10. latched_res' = Arch!Result(i, vrf') /\ latched_res' \in Nat
  <2>1. latched_res' = IF ~i.wen THEN 0 ELSE scratch
    BY <1>1, SMT DEF UnitAccept, cop_result
  <2>2. Arch!Result(i, vrf') = IF ~i.wen THEN 0 ELSE scratch
    BY <1>1, SMT DEF Arch!Result
  <2>3. 0 \in Nat
    BY SMT
  <2> QED BY <1>2, <2>1, <2>2, <2>3, Zenon
<1> QED BY <1>4, <1>6, <1>8, <1>9, <1>10, Zenon DEF Performs

\* A read of the counter changes nothing but the counter.
LEMMA CountPerforms ==
    ASSUME LANES = 4, BITS = 8, VectorInv, NEW i \in CountShape, UnitAccept(i)
    PROVE  Performs(i)
<1>1. i.op = "op_count" /\ i.wen \in BOOLEAN
  BY SMT DEF CountShape
<1>2. vrf' = vrf
  <2>1. ~vrf_write(i)
    BY <1>1, Zenon DEF vrf_write, standard_mem_zero_load
  <2> QED BY <2>1, Zenon DEF UnitAccept
<1>3. vrf' \in Arch!VectorsAfter(i) /\ vrf' \in [Vreg -> Word]
  <2>1. Arch!Written(i) = {}
    BY <1>1, SMT DEF Arch!Written
  <2> QED BY <1>2, <2>1, Zenon DEF Arch!VectorsAfter, VectorInv
<1>4. latched_res' = Arch!Result(i, vrf') /\ latched_res' \in Nat
  <2>1. latched_res' = IF ~i.wen THEN 0 ELSE op_count
    BY <1>1, SMT DEF UnitAccept, cop_result
  <2>2. Arch!Result(i, vrf') = IF ~i.wen THEN 0 ELSE op_count
    BY <1>1, SMT DEF Arch!Result
  <2>3. 0 \in Nat /\ op_count \in Nat
    BY SMT DEF VectorInv
  <2> QED BY <2>1, <2>2, <2>3, Zenon
<1>5. Landing' = Arch!StateAfter(i) /\ pending' \in Pendings
  <2>1. i.op \notin {"set", "scratch_write"}
    BY <1>1, Zenon
  <2> QED BY <2>1, CountedOnly, Zenon
<1> QED BY <1>3, <1>4, <1>5, Zenon DEF Performs

\* The custom operation on the lanes of registers 0 and 1.
LEMMA LanePerforms ==
    ASSUME LANES = 4, BITS = 8, VectorInv, NEW i \in LaneShape, UnitAccept(i)
    PROVE  Performs(i)
<1>1. i.op = "lane" /\ i.wen \in BOOLEAN /\ i.f \in {"add", "move"} /\ i.vd \in Vreg
  BY SMT DEF LaneShape
<1>2. vrf \in [Vreg -> Word]
  BY Zenon DEF VectorInv
<1>3. vrf_op_result(i) = Arch!LaneResult(i) /\ Arch!LaneResult(i) \in Word
  <2>1. i.f \in {"add", "move"}
    BY <1>1, Zenon
  <2> QED BY <1>2, <2>1, LanesAreElements
<1>4. vrf' = [vrf EXCEPT ![i.vd] = Arch!LaneResult(i)]
  <2>1. vrf_write(i)
    BY <1>1, Zenon DEF vrf_write
  <2>2. vrf_write_value(i) = vrf_op_result(i)
    BY <1>1, SMT DEF vrf_write_value
  <2> QED BY <1>3, <2>1, <2>2, Zenon DEF UnitAccept
<1>5. vrf' \in Arch!VectorsAfter(i) /\ vrf' \in [Vreg -> Word]
  <2>1. Arch!Written(i) = {Arch!LaneResult(i)}
    BY <1>1, SMT DEF Arch!Written
  <2> QED BY <1>1, <1>2, <1>3, <1>4, <2>1, Zenon DEF Arch!VectorsAfter
<1>6. latched_res' = Arch!Result(i, vrf') /\ latched_res' \in Nat
  <2>1. latched_res' = IF ~i.wen THEN 0 ELSE vrf_op_result(i)
    BY <1>1, SMT DEF UnitAccept, cop_result
  <2>2. Arch!Result(i, vrf') = IF ~i.wen THEN 0 ELSE vrf'[i.vd]
    BY <1>1, SMT DEF Arch!Result
  <2>3. vrf'[i.vd] = Arch!LaneResult(i)
    BY <1>1, <1>2, <1>4, Zenon
  <2>4. 0 \in Nat /\ Arch!LaneResult(i) \in Nat
    BY <1>3, WordIsNat, SMT
  <2> QED BY <1>3, <2>1, <2>2, <2>3, <2>4, Zenon
<1>7. Landing' = Arch!StateAfter(i) /\ pending' \in Pendings
  <2>1. i.op \notin {"set", "scratch_write"}
    BY <1>1, Zenon
  <2> QED BY <2>1, CountedOnly, Zenon
<1> QED BY <1>5, <1>6, <1>7, Zenon DEF Performs

\* A write of a vector register answers with what was there.
LEMMA WritePerforms ==
    ASSUME LANES = 4, BITS = 8, VectorInv, NEW i \in WriteShape, UnitAccept(i)
    PROVE  Performs(i)
<1>1. i.op = "vrf_write" /\ i.wen \in BOOLEAN /\ i.vd \in Vreg /\ i.src1 \in Word
  BY SMT DEF WriteShape
<1>2. vrf \in [Vreg -> Word]
  BY Zenon DEF VectorInv
<1>3. vrf' = [vrf EXCEPT ![i.vd] = i.src1]
  <2>1. vrf_write(i)
    BY <1>1, Zenon DEF vrf_write
  <2>2. vrf_write_value(i) = i.src1
    BY <1>1, SMT DEF vrf_write_value
  <2> QED BY <2>1, <2>2, Zenon DEF UnitAccept
<1>4. vrf' \in Arch!VectorsAfter(i) /\ vrf' \in [Vreg -> Word]
  <2>1. Arch!Written(i) = {i.src1}
    BY <1>1, SMT DEF Arch!Written
  <2> QED BY <1>1, <1>2, <1>3, <2>1, Zenon DEF Arch!VectorsAfter
<1>5. latched_res' = Arch!Result(i, vrf') /\ latched_res' \in Nat
  <2>1. latched_res' = IF ~i.wen THEN 0 ELSE vrf[i.vd]
    BY <1>1, SMT DEF UnitAccept, cop_result
  <2>2. Arch!Result(i, vrf') = IF ~i.wen THEN 0 ELSE vrf[i.vd]
    BY <1>1, SMT DEF Arch!Result
  <2>3. 0 \in Nat /\ vrf[i.vd] \in Nat
    <3>1. vrf[i.vd] \in Word
      BY <1>1, <1>2, Zenon
    <3> QED BY <3>1, WordIsNat, SMT
  <2> QED BY <2>1, <2>2, <2>3, Zenon
<1>6. Landing' = Arch!StateAfter(i) /\ pending' \in Pendings
  <2>1. i.op \notin {"set", "scratch_write"}
    BY <1>1, Zenon
  <2> QED BY <2>1, CountedOnly, Zenon
<1> QED BY <1>4, <1>5, <1>6, Zenon DEF Performs

\* Every instruction that does not go to memory is performed on the edge it is accepted.
LEMMA AcceptPerforms ==
    ASSUME LANES = 4, BITS = 8, VectorInv, NEW i \in Instruction, ~is_mem_op(i), UnitAccept(i)
    PROVE  Performs(i)
  BY InstructionShape, SetPerforms, ArithPerforms, EmptyAccessPerforms, ScratchPerforms,
     CountPerforms, LanePerforms, WritePerforms, Zenon

----------------------------------------------------------------------------
(* The invariant                                                           *)

\* What a load may bring is what the last response brings.
LEMMA MemoryPerforms ==
    ASSUME LANES = 4, BITS = 8, VectorInv, UnitMemDone
    PROVE  /\ entry \in Instruction /\ mem_active /\ busy
           /\ vrf' \in Arch!VectorsAfter(entry) /\ vrf' \in [Vreg -> Word]
           /\ latched_res' = Arch!Result(entry, vrf') /\ latched_res' \in Nat
           /\ [vlen |-> vlen', vtype |-> vtype', scratch |-> scratch', count |-> op_count']
              = Arch!StateAfter(entry)
<1>1. entry \in Instruction /\ entry # None /\ busy /\ mem_active /\ is_mem_op(entry)
  BY Zenon DEF UnitMemDone, VectorInv, OneRequest
<1>2. entry \in MemShape
  <2>1. entry.op \in {"load", "store"}
    BY <1>1, Zenon DEF is_mem_op, standard_mem_op
  <2>2. entry.op \notin {"set", "arith", "scratch_write", "op_count", "lane", "vrf_write"}
    BY <2>1
  <2>3. /\ entry \in SetShape => entry.op = "set"
        /\ entry \in ArithShape => entry.op = "arith"
        /\ entry \in ScratchShape => entry.op = "scratch_write"
        /\ entry \in CountShape => entry.op = "op_count"
        /\ entry \in LaneShape => entry.op = "lane"
        /\ entry \in WriteShape => entry.op = "vrf_write"
    BY Zenon DEF SetShape, ArithShape, ScratchShape, CountShape, LaneShape, WriteShape
  <2> QED BY <1>1, <2>2, <2>3, InstructionShape, Zenon
<1>3. /\ entry.op \in {"load", "store"} /\ entry.wen \in BOOLEAN /\ entry.vd \in Vreg
      /\ entry.sew \in {0, 2, None}
  BY <1>2, SMT DEF MemShape
<1>4. vrf \in [Vreg -> Word] /\ vlen \in 0 .. 4 /\ vtype \in {0, 2, Vill}
  BY Zenon DEF VectorInv
<1>5. PICK data \in IF entry.op = "load" THEN 0 .. 2^(BITS * mem_lanes(entry)) - 1
                    ELSE {vrf[entry.vd]} :
         /\ vrf' = [vrf EXCEPT ![entry.vd] = data]
         /\ latched_res' = IF entry.wen THEN data ELSE 0
  BY Zenon DEF UnitMemDone
<1>6. ~entry.wen => entry.sew = vtype /\ vlen # 0 /\ entry.sew \in {0, 2}
  <2>1. ~entry.wen => entry.sew = vtype /\ vlen # 0
    BY <1>1, Zenon DEF is_mem_op, standard_mem_op, standard_mem_supported
  <2>2. None # Vill /\ Vill # 0 /\ Vill # 2
    BY CodeVill, NoneIsApart, Zenon
  <2> QED BY <1>3, <1>4, <2>1, <2>2, Zenon
<1>7. ASSUME entry.op = "load" PROVE data \in Word /\ vrf' \in Arch!VectorsAfter(entry)
  <2>1. data \in 0 .. 2^(BITS * mem_lanes(entry)) - 1
    BY <1>5, <1>7, Zenon
  <2>2. 0 .. 2^(BITS * mem_lanes(entry)) - 1 = Arch!Loaded(entry)
    <3>1. CASE entry.wen
      <4>1. mem_lanes(entry) = LANES
        BY <3>1, Zenon DEF mem_lanes, standard_mem_op
      <4>2. Arch!Loaded(entry) = 0 .. 2^Arch!WORD - 1
        BY <3>1, SMT DEF Arch!Loaded
      <4>3. BITS * LANES = 32
        BY SMT
      <4> QED BY <4>1, <4>2, <4>3, CodeWidths, Zenon
    <3>2. CASE ~entry.wen
      <4>1. Arch!Loaded(entry) = 0 .. 2^(IF entry.sew = 2 THEN Arch!WORD ELSE BITS * vlen) - 1
        BY <1>6, <3>2, SMT DEF Arch!Loaded
      <4>2. mem_lanes(entry) = IF entry.sew = 0 THEN vlen ELSE LANES
        BY <1>7, <3>2, Zenon DEF mem_lanes, standard_mem_op
      <4>3. BITS * LANES = 32 /\ 0 # 2
        BY SMT
      <4>4. BITS * mem_lanes(entry) = IF entry.sew = 2 THEN Arch!WORD ELSE BITS * vlen
        BY <1>6, <3>2, <4>2, <4>3, CodeWidths, Zenon
      <4> QED BY <4>1, <4>4, Zenon
    <3> QED BY <3>1, <3>2, Zenon
  <2>3. data \in Word
    <3>1. mem_lanes(entry) \in 0 .. 4
      BY <1>4, SMT DEF mem_lanes
    <3>2. /\ 2^(8 * 0) - 1 < 2^32 /\ 2^(8 * 1) - 1 < 2^32 /\ 2^(8 * 2) - 1 < 2^32
          /\ 2^(8 * 3) - 1 < 2^32 /\ 2^(8 * 4) = 2^32
          /\ 2^(8 * 0) \in Nat /\ 2^(8 * 1) \in Nat /\ 2^(8 * 2) \in Nat
          /\ 2^(8 * 3) \in Nat /\ 2^32 \in Nat
      BY SMT
    <3>3. \A m, n, x : m \in Nat /\ n \in Nat /\ (m - 1 < n \/ m = n) /\ x \in 0 .. m - 1 => x \in 0 .. n - 1
      BY SMT
    <3>4. \A k \in 0 .. 4 : k = 0 \/ k = 1 \/ k = 2 \/ k = 3 \/ k = 4
      BY SMT
    <3>5. /\ 2^(8 * mem_lanes(entry)) \in Nat
          /\ 2^(8 * mem_lanes(entry)) - 1 < 2^32 \/ 2^(8 * mem_lanes(entry)) = 2^32
      BY <3>1, <3>2, <3>4, Zenon
    <3>6. data \in 0 .. 2^32 - 1
      BY <2>1, <3>2, <3>3, <3>5, Zenon
    <3> QED BY <3>6, CodeWidths, Zenon
  <2>4. Arch!Written(entry) = Arch!Loaded(entry)
    BY <1>7, SMT DEF Arch!Written
  <2>5. vrf' \in Arch!VectorsAfter(entry)
    BY <1>5, <2>1, <2>2, <2>4, Zenon DEF Arch!VectorsAfter
  <2> QED BY <2>3, <2>5, Zenon
<1>8. ASSUME entry.op = "store" PROVE data \in Word /\ vrf' \in Arch!VectorsAfter(entry)
  <2>1. data = vrf[entry.vd]
    BY <1>5, <1>8, SMT
  <2>2. vrf[entry.vd] \in Word
    BY <1>3, <1>4, Zenon
  <2>3. vrf' = vrf
    BY <1>4, <1>5, <2>1
  <2>4. Arch!Written(entry) = {}
    BY <1>8, SMT DEF Arch!Written
  <2> QED BY <2>1, <2>2, <2>3, <2>4, Zenon DEF Arch!VectorsAfter
<1>9. data \in Word /\ vrf' \in Arch!VectorsAfter(entry)
  BY <1>3, <1>7, <1>8, Zenon
<1>10. vrf' \in [Vreg -> Word] /\ vrf'[entry.vd] = data
  BY <1>3, <1>4, <1>5, <1>9, Zenon
<1>11. latched_res' = Arch!Result(entry, vrf') /\ latched_res' \in Nat
  <2>1. Arch!Result(entry, vrf') = IF ~entry.wen THEN 0 ELSE vrf'[entry.vd]
    BY <1>3, SMT DEF Arch!Result
  <2>2. 0 \in Nat /\ data \in Nat
    BY <1>9, WordIsNat, SMT
  <2> QED BY <1>5, <1>10, <2>1, <2>2, Zenon
<1>12. [vlen |-> vlen', vtype |-> vtype', scratch |-> scratch', count |-> op_count']
       = Arch!StateAfter(entry)
  <2>1. UNCHANGED <<vlen, vtype, scratch>> /\ op_count' = (op_count + 1) % COUNTS
    BY Zenon DEF UnitMemDone, Counts
  <2>2. Arch!StateAfter(entry) = Arch!Counted
    BY <1>3, SMT DEF Arch!StateAfter
  <2> QED BY <2>1, <2>2 DEF Arch!Counted
<1> QED BY <1>1, <1>9, <1>10, <1>11, <1>12, Zenon


\* After reset the invariant holds.
LEMMA VectorInitHolds == ASSUME LANES = 4, BITS = 8, Init PROVE VectorInv
<1>1. OneRequest
  BY SMT DEF Init, OneRequest
<1>2. 0 \in Word /\ 0 \in 0 .. 4 /\ 0 \in Nat
  <2>1. 0 \in 0 .. 2^32 - 1 /\ 0 \in 0 .. 4 /\ 0 \in Nat
    BY SMT
  <2> QED BY <2>1, CodeWidths, Zenon
<1>3. vrf \in [Vreg -> Word]
  BY <1>2, Zenon DEF Init
<1>4. pending \in Pendings
  BY Zenon DEF Init, NoPending, Pendings
<1> QED BY <1>1, <1>2, <1>3, <1>4, Zenon DEF Init, VectorInv

\* A state is a state and a phase a phase, so neither is None.
LEMMA PhaseIsThere ==
    ASSUME LANES = 4, BITS = 8, VectorInv
    PROVE  /\ Landing # None /\ latched_res # None
           /\ entry # None => Phase # None
<1>1. vlen \in Nat /\ vtype \in Nat /\ scratch \in Nat /\ (op_count + 1) % COUNTS \in Nat
  <2>1. \A n \in 0 .. 4 : n \in Nat
    BY SMT
  <2>2. 0 \in Nat /\ 2 \in Nat
    BY SMT
  <2>3. \A n \in Nat, m \in Nat \ {0} : (n + 1) % m \in Nat
    BY SMT
  <2> QED BY <2>1, <2>2, <2>3, WordIsNat, CodeVill, VectorUnitAssumption, Zenon DEF VectorInv
<1>2. /\ Landed(pending.vlen, vlen) \in Nat /\ Landed(pending.vtype, vtype) \in Nat
      /\ Landed(pending.scratch, scratch) \in Nat
  <2>1. /\ pending.vlen \in 0 .. 4 \cup {None} /\ pending.vtype \in {0, 2, Vill, None}
        /\ pending.scratch \in Word \cup {None}
    BY SMT DEF VectorInv, Pendings
  <2>2. \A n \in 0 .. 4 : n \in Nat
    BY SMT
  <2>3. 0 \in Nat /\ 2 \in Nat
    BY SMT
  <2> QED BY <1>1, <2>1, <2>2, <2>3, WordIsNat, CodeVill, Zenon DEF Landed
<1>3. Landing \in States
  BY <1>1, <1>2, Zenon DEF Landing, States
<1>4. Landing # None /\ latched_res # None
  BY <1>3, ModelValueAssumption, Zenon DEF VectorInv
<1>5. ASSUME entry # None PROVE Phase # None
  <2>1. entry \in Instruction
    BY <1>5, Zenon DEF VectorInv
  <2>2. (IF mem_active THEN None ELSE latched_res) \in Nat \cup {None}
    BY Zenon DEF VectorInv
  <2>3. (IF ~busy \/ mem_active THEN None ELSE Landing) \in States \cup {None}
    BY <1>3, Zenon
  <2>4. Phase \in Phases
    BY <2>1, <2>2, <2>3, Zenon DEF Phase, Phases
  <2> QED BY <2>4, ModelValueAssumption, Zenon
<1> QED BY <1>4, <1>5, Zenon

\* What the other edges of the unit leave of the invariant.
TypesHold == /\ vrf' \in [Vreg -> Word]
             /\ vlen' \in 0 .. 4 /\ vtype' \in {0, 2, Vill} /\ scratch' \in Word /\ op_count' \in Nat
             /\ pending' \in Pendings
             /\ latched_res' \in Nat

\* The counter wraps within the numbers.
LEMMA CountIsNat == op_count \in Nat => (op_count + 1) % COUNTS \in Nat
<1>1. \A n \in Nat, m \in Nat \ {0} : (n + 1) % m \in Nat
  BY SMT
<1> QED BY <1>1, VectorUnitAssumption, Zenon

\* Whatever edge the unit takes, its registers keep to their types.
LEMMA EdgeKeepsTypes ==
    ASSUME LANES = 4, BITS = 8, VectorInv, NEW issue \in Instruction \cup {None}, UnitEdge(issue)
    PROVE  TypesHold
<1>1. /\ vrf \in [Vreg -> Word]
      /\ vlen \in 0 .. 4 /\ vtype \in {0, 2, Vill} /\ scratch \in Word /\ op_count \in Nat
      /\ pending \in Pendings /\ latched_res \in Nat
  BY Zenon DEF VectorInv
<1>2. ASSUME issue # None, UnitAccept(issue) PROVE TypesHold
  <2>1. issue \in Instruction
    BY <1>2, Zenon
  <2>2. UNCHANGED <<vlen, vtype, scratch, op_count>>
    BY <1>2, Zenon DEF UnitAccept
  <2>3. CASE is_mem_op(issue)
    <3>1. issue.op \in {"load", "store"}
      BY <2>3, Zenon DEF is_mem_op, standard_mem_op
    <3>2. issue.op \notin {"set", "scratch_write", "lane", "vrf_write", "arith"}
      BY <3>1
    <3>3. ~vrf_write(issue)
      BY <2>3, <3>2, Zenon DEF vrf_write, is_mem_op, standard_mem_zero_load, standard_mem_op
    <3>4. vrf' = vrf
      BY <1>2, <3>3, Zenon DEF UnitAccept
    <3>5. pending' \in Pendings
      BY <1>2, <3>2, CountedOnly, Zenon
    <3>6. latched_res' = 0 /\ 0 \in Nat
      <4>1. cop_result(issue) = 0
        BY <3>1, SMT DEF cop_result
      <4> QED BY <1>2, <4>1, SMT DEF UnitAccept
    <3> QED BY <1>1, <2>2, <3>4, <3>5, <3>6, Zenon DEF TypesHold
  <2>4. CASE ~is_mem_op(issue)
    <3>1. Performs(issue)
      BY <1>2, <2>1, <2>4, AcceptPerforms, Zenon
    <3> QED BY <1>1, <2>2, <3>1, Zenon DEF Performs, TypesHold
  <2> QED BY <2>3, <2>4, Zenon
<1>3. ASSUME UnitMemDone PROVE TypesHold
  <2>1. vrf' \in [Vreg -> Word] /\ latched_res' \in Nat
    BY <1>3, MemoryPerforms, Zenon
  <2>2. UNCHANGED <<vlen, vtype, scratch>> /\ op_count' \in Nat
    BY <1>1, <1>3, CountIsNat, Zenon DEF UnitMemDone, Counts
  <2>3. pending' \in Pendings
    BY <1>3, Zenon DEF UnitMemDone, NoPending, Pendings
  <2> QED BY <1>1, <2>1, <2>2, <2>3, Zenon DEF TypesHold
<1>4. ASSUME UnitMemWait \/ UnitIdle PROVE TypesHold
  <2>1. UNCHANGED <<latched_res, pending, vlen, vtype, scratch, op_count, vrf>>
    BY <1>4, Zenon DEF UnitMemWait, UnitIdle
  <2> QED BY <1>1, <2>1, Zenon DEF TypesHold
<1>5. ASSUME UnitCountdown PROVE TypesHold
  <2>1. UNCHANGED <<latched_res, vrf>>
    BY <1>5, Zenon DEF UnitCountdown
  <2>2. CASE countdown = 1
    <3>1. op_count' \in Nat /\ pending' \in Pendings
      <4>1. pending' = NoPending /\ op_count' = (op_count + 1) % COUNTS
        BY <1>5, <2>2, Zenon DEF UnitCountdown, Counts
      <4>2. NoPending \in Pendings
        BY Zenon DEF NoPending, Pendings
      <4> QED BY <1>1, <4>1, <4>2, CountIsNat, Zenon
    <3>2. /\ pending.vlen \in 0 .. 4 \cup {None} /\ pending.vtype \in {0, 2, Vill, None}
          /\ pending.scratch \in Word \cup {None}
      BY <1>1, SMT DEF Pendings
    <3>3. vlen' \in 0 .. 4 /\ vtype' \in {0, 2, Vill} /\ scratch' \in Word
      BY <1>1, <1>5, <2>2, <3>2, Zenon DEF UnitCountdown, Landed
    <3> QED BY <1>1, <2>1, <3>1, <3>3, Zenon DEF TypesHold
  <2>3. CASE countdown # 1
    <3>1. UNCHANGED <<pending, vlen, vtype, scratch, op_count>>
      BY <1>5, <2>3, Zenon DEF UnitCountdown
    <3> QED BY <1>1, <2>1, <3>1, Zenon DEF TypesHold
  <2> QED BY <2>2, <2>3, Zenon
<1> QED BY <1>2, <1>3, <1>4, <1>5, Zenon DEF UnitEdge

\* An edge without a kill.
LEMMA EdgeKeepsVectorInv ==
    ASSUME LANES = 4, BITS = 8, VectorInv,
           NEW issue \in Instruction \cup {None}, issue # None => CanIssue,
           NEW trap \in BOOLEAN, Edge(issue, trap)
    PROVE  VectorInv'
<1>1. OneRequest /\ OneRequest'
  BY EdgeKeepsOneRequest, Zenon DEF VectorInv
<1>2. TypesHold
  BY EdgeKeepsTypes, Zenon DEF Edge
<1>3. entry' = (IF resp_valid THEN issue ELSE IF issue # None THEN issue ELSE entry)
  BY Zenon DEF Edge, EntryEdge, RespFires
<1>4. entry' \in Instruction \cup {None}
  BY <1>3, Zenon DEF VectorInv
<1>5. resp_valid' => resp_res' = latched_res'
  <2>1. SUFFICES ASSUME resp_valid' PROVE resp_res' = latched_res'
    OBVIOUS
  <2>2. ~resp_valid /\ done
    BY <2>1, Zenon DEF Edge, BackendEdge, RespFires
  <2>3. resp_res' = latched_res
    BY <2>2, Zenon DEF Edge, BackendEdge
  <2>4. ~busy /\ entry # None /\ issue = None
    BY <1>1, <2>2, Zenon DEF OneRequest, CanIssue
  <2>5. UnitIdle
    BY <2>4, Zenon DEF Edge, UnitEdge, UnitMemDone, UnitMemWait, UnitCountdown
  <2> QED BY <2>3, <2>5, Zenon DEF UnitIdle
<1>6. mem_active' => is_mem_op(entry)'
  <2>1. SUFFICES ASSUME mem_active' PROVE is_mem_op(entry)'
    OBVIOUS
  <2>2. CASE issue # None /\ UnitAccept(issue)
    <3>1. entry' = issue
      BY <1>3, <2>2, Zenon
    <3>2. ~mem_active
      BY <1>1, <2>2, Zenon DEF OneRequest, UnitAccept
    <3>3. is_mem_op(issue) /\ vlen' = vlen /\ vtype' = vtype
      BY <2>1, <2>2, <3>2, Zenon DEF UnitAccept
    <3> QED BY <3>1, <3>3, Zenon DEF is_mem_op, standard_mem_op, standard_mem_supported
  <2>3. CASE ~(issue # None /\ UnitAccept(issue))
    <3>1. UnitMemWait
      <4>1. UnitMemDone \/ UnitMemWait \/ UnitCountdown \/ UnitIdle
        BY <2>3, Zenon DEF Edge, UnitEdge
      <4>2. UnitMemDone => ~mem_active'
        BY Zenon DEF UnitMemDone
      <4>3. UnitCountdown => ~mem_active'
        BY Zenon DEF UnitCountdown
      <4>4. UnitIdle => ~mem_active'
        BY <1>1, Zenon DEF UnitIdle, OneRequest
      <4> QED BY <2>1, <4>1, <4>2, <4>3, <4>4, Zenon
    <3>2. mem_active /\ vlen' = vlen /\ vtype' = vtype
      BY <3>1, Zenon DEF UnitMemWait
    <3>3. entry' = entry
      <4>1. entry # None /\ ~resp_valid
        BY <1>1, <3>2, Zenon DEF OneRequest
      <4>2. issue = None
        BY <4>1, Zenon DEF CanIssue
      <4> QED BY <1>3, <4>1, <4>2, Zenon
    <3> QED BY <3>2, <3>3, Zenon DEF VectorInv, is_mem_op, standard_mem_op, standard_mem_supported
  <2> QED BY <2>2, <2>3, Zenon
<1> QED BY <1>1, <1>2, <1>4, <1>5, <1>6, Zenon DEF VectorInv, TypesHold

\* cop_kill: what is dropped needs nothing, the registers stay.
LEMMA KillKeepsVectorInv ==
    ASSUME LANES = 4, BITS = 8, VectorInv, NEW trap \in BOOLEAN, KillEdge(trap)
    PROVE  VectorInv'
<1>1. /\ ~busy' /\ ~mem_active' /\ ~done' /\ ~cop_busy' /\ ~resp_valid' /\ entry' = None
      /\ latched_res' = 0 /\ pending' = NoPending
      /\ UNCHANGED <<vlen, vtype, scratch, op_count, vrf>>
  BY SMT DEF KillEdge, UnitFlush
<1>2. OneRequest'
  BY <1>1, SMT DEF OneRequest
<1>3. 0 \in Nat
  BY SMT
<1>4. pending' \in Pendings
  BY <1>1, Zenon DEF NoPending, Pendings
<1> QED BY <1>1, <1>2, <1>3, <1>4, Zenon DEF VectorInv

----------------------------------------------------------------------------
(* The refinement                                                          *)

\* At four lanes of eight bits: types, one request, a response register that holds the
\* latched result, and a walk over memory only for an access (dummy_coprocessor.v 465-586,
\* cop_backend.v 84-104).
THEOREM VectorInvariant == ASSUME LANES = 4, BITS = 8 PROVE Spec => []VectorInv
<1>1. Init => VectorInv
  BY VectorInitHolds
<1>2. VectorInv /\ [Next]_vars => VectorInv'
  <2> SUFFICES ASSUME VectorInv, [Next]_vars PROVE VectorInv'
    OBVIOUS
  <2>1. CASE UNCHANGED vars
    BY <2>1, Zenon
       DEF vars, unitVars, VectorInv, OneRequest, is_mem_op, standard_mem_op, standard_mem_supported
  <2>2. CASE Next
    <3>1. PICK trap \in BOOLEAN : \/ Edge(None, trap)
                                  \/ CanIssue /\ \E i \in Instruction : Edge(i, trap)
                                  \/ KillEdge(trap)
      BY <2>2 DEF Next, Traps
    <3>2. CASE Edge(None, trap)
      BY <3>2, EdgeKeepsVectorInv
    <3>3. CASE CanIssue /\ \E i \in Instruction : Edge(i, trap)
      BY <3>3, EdgeKeepsVectorInv
    <3>4. CASE KillEdge(trap)
      BY <3>4, KillKeepsVectorInv
    <3> QED BY <3>1, <3>2, <3>3, <3>4
  <2> QED BY <2>1, <2>2
<1> QED BY <1>1, <1>2, PTL DEF Spec

\* An accept goes to memory or performs the instruction.
LEMMA AcceptRefines ==
    ASSUME LANES = 4, BITS = 8, VectorInv,
           NEW issue \in Instruction, CanIssue, NEW trap \in BOOLEAN,
           Edge(issue, trap), UnitAccept(issue)
    PROVE  Arch!Accept \/ Arch!AcceptAndPerform
<1>1. entry = None /\ ~resp_valid /\ ~mem_active /\ issue # None
  BY VectorUnitAssumption, Zenon DEF CanIssue, backend_busy, VectorInv, OneRequest
<1>2. /\ entry' = issue /\ written' = written /\ busy'
      /\ UNCHANGED <<vlen, vtype, scratch, op_count>>
      /\ mem_active' <=> is_mem_op(issue)
  BY <1>1, Zenon DEF Edge, EntryEdge, WrittenEdge, RespFires, UnitAccept
<1>3. CASE is_mem_op(issue)
  <2>1. issue.op \in {"load", "store"}
    BY <1>3, Zenon DEF is_mem_op, standard_mem_op
  <2>2. issue.op \notin {"lane", "vrf_write", "arith"}
    BY <2>1
  <2>3. ~vrf_write(issue)
    BY <1>3, <2>2, Zenon DEF vrf_write, is_mem_op, standard_mem_zero_load, standard_mem_op
  <2>4. vrf' = vrf
    BY <2>3, Zenon DEF UnitAccept
  <2>5. Phase' = [ins |-> issue, res |-> None, lands |-> None]
    BY <1>2, <1>3, Zenon DEF Phase
  <2> QED BY <1>1, <1>2, <2>4, <2>5, Zenon DEF Arch!Accept
<1>4. CASE ~is_mem_op(issue)
  <2>1. Performs(issue)
    BY <1>4, AcceptPerforms, Zenon
  <2>2. Phase' = [ins |-> issue, res |-> latched_res', lands |-> Landing']
    BY <1>2, <1>4, Zenon DEF Phase
  <2>3. Phase' = [ins |-> issue, res |-> Arch!Result(issue, vrf'), lands |-> Arch!StateAfter(issue)]
    BY <2>1, <2>2, Zenon DEF Performs
  <2>4. Arch!Performed(issue)
    BY <1>1, <1>2, <2>1, <2>3, Zenon DEF Arch!Performed, Performs
  <2> QED BY <1>1, <1>2, <2>4, Zenon DEF Arch!AcceptAndPerform
<1> QED BY <1>3, <1>4, Zenon

\* The last response of memory performs the access, and lands it.
LEMMA MemoryRefines ==
    ASSUME LANES = 4, BITS = 8, VectorInv, NEW trap \in BOOLEAN, Edge(None, trap), UnitMemDone
    PROVE  Arch!PerformAndLand
<1>1. /\ entry \in Instruction /\ entry # None /\ mem_active /\ busy /\ ~resp_valid
      /\ vrf' \in Arch!VectorsAfter(entry)
      /\ latched_res' = Arch!Result(entry, vrf')
      /\ [vlen |-> vlen', vtype |-> vtype', scratch |-> scratch', count |-> op_count']
         = Arch!StateAfter(entry)
  BY MemoryPerforms, Zenon DEF VectorInv, OneRequest
<1>2. entry' = entry /\ written' = written /\ ~busy' /\ ~mem_active'
  BY <1>1, Zenon DEF Edge, EntryEdge, WrittenEdge, RespFires, UnitMemDone
<1>3. Phase # None
  BY <1>1, PhaseIsThere, Zenon
<1>4. Phase = [ins |-> entry, res |-> None, lands |-> None]
  BY <1>1, Zenon DEF Phase
<1>5. Phase' = [ins |-> entry, res |-> latched_res', lands |-> None]
  BY <1>2, Zenon DEF Phase
<1>6. Phase' = [Phase EXCEPT !.res = Arch!Result(Phase.ins, vrf')] /\ Phase.res = None /\ Phase.ins = entry
  BY <1>1, <1>4, <1>5
<1> QED BY <1>1, <1>2, <1>3, <1>6, Zenon DEF Arch!PerformAndLand

\* The state registers land when the countdown ends.
LEMMA CountdownRefines ==
    ASSUME LANES = 4, BITS = 8, VectorInv, NEW trap \in BOOLEAN, Edge(None, trap), UnitCountdown
    PROVE  Arch!Land \/ UNCHANGED Arch!archVars
<1>1. busy /\ ~mem_active /\ entry # None /\ ~resp_valid
  BY Zenon DEF UnitCountdown, VectorInv, OneRequest
<1>2. entry' = entry /\ written' = written /\ ~mem_active' /\ UNCHANGED <<latched_res, vrf>>
  BY <1>1, Zenon DEF Edge, EntryEdge, WrittenEdge, RespFires, UnitCountdown
<1>3. Phase = [ins |-> entry, res |-> latched_res, lands |-> Landing]
  BY <1>1, Zenon DEF Phase
<1>4. CASE countdown = 1
  <2>1. /\ ~busy' /\ vlen' = Landed(pending.vlen, vlen) /\ vtype' = Landed(pending.vtype, vtype)
        /\ scratch' = Landed(pending.scratch, scratch) /\ op_count' = (op_count + 1) % COUNTS
    BY <1>4, Zenon DEF UnitCountdown, Counts
  <2>2. Phase' = [ins |-> entry, res |-> latched_res, lands |-> None]
    BY <1>2, <2>1, Zenon DEF Phase
  <2>3. Phase' = [Phase EXCEPT !.lands = None] /\ Phase.lands = Landing
    BY <1>3, <2>2
  <2>4. [vlen |-> vlen', vtype |-> vtype', scratch |-> scratch', count |-> op_count'] = Landing
    BY <2>1, Zenon DEF Landing
  <2>5. Phase # None /\ Landing # None
    BY <1>1, PhaseIsThere, Zenon
  <2> QED BY <1>1, <1>2, <2>3, <2>4, <2>5, Zenon DEF Arch!Land
<1>5. CASE countdown # 1
  <2>1. busy' /\ UNCHANGED <<pending, vlen, vtype, scratch, op_count>>
    BY <1>1, <1>5, Zenon DEF UnitCountdown
  <2>2. Landing' = Landing
    BY <2>1, Zenon DEF Landing, Landed
  <2>3. Phase' = Phase
    BY <1>1, <1>2, <2>1, <2>2, Zenon DEF Phase
  <2> QED BY <1>2, <2>1, <2>3, Zenon DEF Arch!archVars
<1> QED BY <1>4, <1>5, Zenon

\* While the unit rests the answer moves on, and the response leaves with its request.
LEMMA IdleRefines ==
    ASSUME LANES = 4, BITS = 8, VectorInv, NEW trap \in BOOLEAN, Edge(None, trap),
           UnitIdle \/ UnitMemWait
    PROVE  Arch!Commit \/ UNCHANGED Arch!archVars
<1>1. UNCHANGED <<busy, mem_active, latched_res, pending, vlen, vtype, scratch, op_count, vrf>>
  BY Zenon DEF UnitIdle, UnitMemWait
<1>2. CASE resp_valid
  <2>1. entry # None /\ ~busy /\ ~mem_active /\ resp_res = latched_res /\ entry' = None
    BY <1>2, Zenon DEF VectorInv, OneRequest, Edge, EntryEdge, RespFires
  <2>2. written' = IF entry.wen THEN latched_res ELSE written
    BY <1>2, <2>1, Zenon DEF Edge, WrittenEdge, RespFires
  <2>3. Phase.ins = entry /\ Phase.res = latched_res /\ Phase.lands = None
    BY <2>1 DEF Phase
  <2>4. Phase # None /\ latched_res # None
    BY <2>1, PhaseIsThere, Zenon
  <2> QED BY <1>1, <2>1, <2>2, <2>3, <2>4, Zenon DEF Arch!Commit
<1>3. CASE ~resp_valid
  <2>1. entry' = entry /\ written' = written
    BY <1>3, Zenon DEF Edge, EntryEdge, WrittenEdge, RespFires
  <2>2. Phase' = Phase
    BY <1>1, <2>1, Zenon DEF Phase, Landing, Landed
  <2> QED BY <1>1, <2>1, <2>2, Zenon DEF Arch!archVars
<1> QED BY <1>2, <1>3, Zenon

\* What the unit calls neither a write nor an access leaves no vector register.
LEMMA NothingWritten ==
    ASSUME LANES = 4, BITS = 8, VectorInv, NEW i \in Instruction, ~vrf_write(i), ~is_mem_op(i)
    PROVE  Arch!Written(i) = {}
<1>1. CASE i \in ArithShape
  <2>1. i.op = "arith"
    BY <1>1, Zenon DEF ArithShape
  <2>2. vtype = Vill
    BY <2>1, Zenon DEF vrf_write
  <2>3. ~Arch!Legal(vtype)
    BY <2>2, CodeVill, Zenon DEF Arch!Legal
  <2> QED BY <2>1, <2>3, Zenon DEF Arch!Written
<1>2. CASE i \in MemShape
  <2>1. i.op \in {"load", "store"} /\ i.wen \in BOOLEAN
    BY <1>2, SMT DEF MemShape
  <2>2. ~i.wen
    BY <2>1, Zenon DEF is_mem_op
  <2>3. i.op = "load" => i.sew # vtype
    \* Of a supported type it would be an access, or a load of no bytes that writes zeros.
    BY <2>1, <2>2, Zenon DEF is_mem_op, vrf_write, standard_mem_zero_load, standard_mem_op,
                             standard_mem_supported
  <2>4. i.op = "load" => Arch!Loaded(i) = {}
    BY <2>2, <2>3, SMT DEF Arch!Loaded
  <2> QED BY <2>1, <2>4, SMT DEF Arch!Written
<1>3. CASE \/ i \in LaneShape \/ i \in WriteShape
  BY <1>3, SMT DEF LaneShape, WriteShape, vrf_write
<1>4. CASE \/ i \in SetShape \/ i \in ScratchShape \/ i \in CountShape
  <2>1. i.op \in {"set", "scratch_write", "op_count"}
    BY <1>4, SMT DEF SetShape, ScratchShape, CountShape
  <2> QED BY <2>1, SMT DEF Arch!Written
<1> QED BY <1>1, <1>2, <1>3, <1>4, InstructionShape, Zenon

\* An early kill drops a request that has left nothing; one that commits on this very edge
\* is handed over, and where there is none nothing happens.
LEMMA KillRefines ==
    ASSUME LANES = 4, BITS = 8, VectorInv, NEW trap \in BOOLEAN, EarlyKill, KillEdge(trap)
    PROVE  Arch!Commit \/ Arch!Kill \/ UNCHANGED Arch!archVars
<1>1. entry' = None /\ UNCHANGED <<vlen, vtype, scratch, op_count, vrf>>
  BY Zenon DEF KillEdge, UnitFlush
<1>2. CASE resp_valid
  <2>1. entry # None /\ ~busy /\ ~mem_active /\ resp_res = latched_res
    BY <1>2, Zenon DEF VectorInv, OneRequest
  <2>2. written' = IF entry.wen THEN latched_res ELSE written
    BY <1>2, <2>1, Zenon DEF KillEdge, WrittenEdge, RespFires
  <2>3. Phase.ins = entry /\ Phase.res = latched_res /\ Phase.lands = None
    BY <2>1 DEF Phase
  <2>4. Phase # None /\ latched_res # None
    BY <2>1, PhaseIsThere, Zenon
  <2> QED BY <1>1, <2>1, <2>2, <2>3, <2>4, Zenon DEF Arch!Commit
<1>3. CASE ~resp_valid
  <2>1. written' = written
    BY <1>3, Zenon DEF KillEdge, WrittenEdge, RespFires
  <2>2. CASE entry = None
    BY <1>1, <2>1, <2>2, Zenon DEF Arch!archVars
  <2>3. CASE entry # None
    <3>1. entry \in Instruction /\ (busy \/ done)
      BY <1>3, <2>3, Zenon DEF VectorInv, OneRequest
    <3>2. Phase # None /\ Landing # None
      BY <2>3, PhaseIsThere, Zenon
    <3>3. Phase.ins = entry
      BY DEF Phase
    <3>4. CASE mem_active
      <4>1. Phase.res = None
        BY <3>4 DEF Phase
      <4> QED BY <1>1, <2>1, <2>3, <3>2, <4>1, Zenon DEF Arch!Kill, Arch!Traceless
    <3>5. CASE ~mem_active
      <4>1. /\ ~vrf_write(entry) /\ ~is_mem_op(entry)
            /\ entry.op \in {"set", "scratch_write"} => busy
        BY <3>1, <3>5, Zenon DEF EarlyKill
      <4>2. Arch!Written(entry) = {}
        BY <3>1, <4>1, NothingWritten, Zenon
      <4>3. busy => Phase.lands = Landing
        BY <3>5 DEF Phase
      <4>4. Arch!Traceless(Phase)
        BY <3>2, <3>3, <4>1, <4>2, <4>3, Zenon DEF Arch!Traceless
      <4> QED BY <1>1, <2>1, <2>3, <3>2, <4>4, Zenon DEF Arch!Kill
    <3> QED BY <3>4, <3>5
  <2> QED BY <2>2, <2>3
<1> QED BY <1>2, <1>3, Zenon

\* At four lanes of eight bits, for every set of instructions, every answer of memory and
\* every kill before the instruction has left something: the unit with its port (dummy_coprocessor.v, cop_backend.v,
\* idu_cop_regs.v) implements the machine that executes vector instructions one after
\* another, element by element, and leaves nothing of what was killed.
THEOREM VectorRefinement ==
    ASSUME LANES = 4, BITS = 8, KILLS # "any" PROVE Spec => ImplementsVectorArch
<1>1. Init => Arch!ArchInit
  <2>1. SUFFICES ASSUME Init PROVE Arch!ArchInit
    OBVIOUS
  <2>2. Vill = Arch!Vill
    BY CodeVill, Zenon
  <2> QED BY <2>1, <2>2, Zenon DEF Init, Arch!ArchInit
<1>2. VectorInv /\ [Next]_vars => [Arch!ArchNext]_Arch!archVars
  <2> SUFFICES ASSUME VectorInv, [Next]_vars PROVE Arch!ArchNext \/ UNCHANGED Arch!archVars
    OBVIOUS
  <2>1. CASE UNCHANGED vars
    BY <2>1, Zenon DEF vars, unitVars, Arch!archVars, Phase, Landing, Landed
  <2>2. CASE Next
    <3>1. PICK trap \in BOOLEAN : \/ Edge(None, trap)
                                  \/ CanIssue /\ \E i \in Instruction : Edge(i, trap)
                                  \/ EarlyKill /\ KillEdge(trap)
      BY <2>2 DEF Next, Traps, KillAllowed
    <3>2. CASE Edge(None, trap)
      <4>1. UnitMemDone \/ UnitMemWait \/ UnitCountdown \/ UnitIdle
        BY <3>2, Zenon DEF Edge, UnitEdge
      <4> QED BY <3>2, <4>1, MemoryRefines, CountdownRefines, IdleRefines, Zenon DEF Arch!ArchNext
    <3>3. CASE CanIssue /\ \E i \in Instruction : Edge(i, trap)
      <4>1. PICK i \in Instruction : Edge(i, trap)
        BY <3>3
      <4>2. ~busy /\ i # None
        BY <3>3, VectorUnitAssumption, Zenon DEF CanIssue, backend_busy, VectorInv, OneRequest
      <4>3. UnitAccept(i)
        BY <4>1, <4>2, Zenon DEF Edge, UnitEdge, UnitMemDone, UnitMemWait, UnitCountdown
      <4> QED BY <3>3, <4>1, <4>3, AcceptRefines, Zenon DEF Arch!ArchNext
    <3>4. CASE EarlyKill /\ KillEdge(trap)
      BY <3>4, KillRefines, Zenon DEF Arch!ArchNext
    <3> QED BY <3>1, <3>2, <3>3, <3>4
  <2> QED BY <2>1, <2>2
<1> QED BY <1>1, <1>2, VectorInvariant, PTL DEF Spec, ImplementsVectorArch, Arch!ArchSpec
=============================================================================
