---------------------------- MODULE VectorMemory ----------------------------
(***************************************************************************)
(* Vector loads and stores in the core: the coprocessor walks the bytes of *)
(* a vector register one lane at a time (vsrc/vector/cop/                  *)
(* dummy_coprocessor.v, lines 492-563) through the memory service, which   *)
(* shares its port with the load/store unit.                               *)
(*                                                                         *)
(* The execute stage holds one instruction at a time and so decides which  *)
(* of the two may ask (Core, CopIsAlone).  Memory takes one transaction at *)
(* a time and answers when it likes.                                       *)
(***************************************************************************)
EXTENDS MemoryService, Sequences, FiniteSets

CONSTANTS Base,        \* addresses a vector access may start from
          LAST,        \* its last lane: 3 in the code, fewer for short vectors
          SCALAR,      \* a scalar load or store, and the address it is for
          KILLS,       \* "never", "drained" or "any": when a kill may come
          MAX_KILLS    \* bound on the number of kills

ASSUME VectorMemoryAssumption ==
    /\ LAST \in Nat
    /\ Base \subseteq Nat
    /\ \A b \in Base : b .. b + LAST \subseteq Address
    /\ None \notin Address /\ SCALAR \notin Address /\ SCALAR # None
    /\ KILLS \in {"never", "drained", "any"}
    /\ MAX_KILLS \in Nat

VARIABLES execute,   \* the instruction in the execute stage: None, SCALAR or a vector access
          walk,      \* the coprocessor's access under way: [lane, read], or None
          result,    \* what the last finished vector access was made of
          lsu,       \* channels the load/store unit still drives
          pending,   \* what memory has accepted and not answered
          touched,   \* history: addresses performed for the access under way
          kills      \* number of kills so far

vars == <<serviceVars, execute, walk, result, lsu, pending, touched, kills>>

Access == [store : BOOLEAN, base : Base]
Request == [store : BOOLEAN, addr : Address]
Progress == [lane : 0 .. LAST, read : Seq(Address)]
IsVector == execute \in Access

ASSUME ModelValueAssumption ==
    /\ None \notin Access \cup Request \cup Progress
    /\ SCALAR \notin Access

----------------------------------------------------------------------------
(* The coprocessor's request, and memory *)

\* o_cop_mem_req_*: raised with the walk, moved on with the lane.
CopRequest == IF walk = None THEN None
              ELSE [store |-> execute.store, addr |-> execute.base + walk.lane]

scalar_mem_req_valid == execute = SCALAR

\* Channels on which memory may be ready: one transaction at a time.
Offered == (IF pending.ar = None THEN {"ar"} ELSE {"r"})
           \cup (IF pending.aw = None THEN {"aw"} ELSE {})
           \cup (IF pending.w THEN {} ELSE {"w"})
           \cup (IF pending.aw # None /\ pending.w THEN {"b"} ELSE {})

\* The load/store unit sees the ready signals of memory themselves, not those
\* of the port it shares.
LsuSees(port) == lsu \cap port

Fires(port) == Drives(lsu) \cap port

PendingEdge(port) ==
    pending' =
      [ar |-> IF "ar" \in Fires(port) THEN AddressOut(SCALAR)
              ELSE IF "r" \in Fires(port) THEN None ELSE pending.ar,
       aw |-> IF "aw" \in Fires(port) THEN AddressOut(SCALAR)
              ELSE IF "b" \in Fires(port) THEN None ELSE pending.aw,
       w  |-> "w" \in Fires(port) \/ ("b" \notin Fires(port) /\ pending.w)]

\* The address whose transaction a response on this edge belongs to.
Answered(port) == IF "r" \in Fires(port) THEN pending.ar
                  ELSE IF "b" \in Fires(port) THEN pending.aw ELSE None

----------------------------------------------------------------------------
(* Edges of the coprocessor and of the execute stage *)

\* i_valid && !busy: the walk starts at lane 0.
CopAccept == /\ IsVector /\ walk = None
             /\ walk' = [lane |-> 0, read |-> << >>]
             /\ UNCHANGED <<result, execute>>

\* A response moves the walk on; the last one ends it, and the instruction
\* leaves the execute stage.
CopRespond ==
    /\ walk # None /\ cop_mem_resp_valid
    /\ LET read == Append(walk.read, cop_mem_rdata_r)
       IN IF walk.lane = LAST
          THEN /\ walk' = None
               /\ result' = [base |-> execute.base, read |-> read]
               /\ execute' = None
          ELSE /\ walk' = [lane |-> walk.lane + 1, read |-> read]
               /\ UNCHANGED <<result, execute>>

CopWait == /\ walk # None /\ ~cop_mem_resp_valid
           /\ UNCHANGED <<walk, result, execute>>

\* An empty execute stage takes an instruction; a load or store leaves it on the
\* edge that leaves the load/store unit nothing to do.
Dispatch == /\ walk = None /\ ~IsVector
            /\ execute' \in (IF execute = None THEN Access \cup {None, SCALAR}
                             ELSE IF lsu' = {} THEN {SCALAR, None} ELSE {SCALAR})
            /\ UNCHANGED <<walk, result>>

\* i_flush: the walk is abandoned.  The test build kills without flushing the
\* execute stage, so the instruction is issued again.
CopFlush == /\ walk' = None
            /\ UNCHANGED <<result, execute>>

CopEdge(kill) == IF kill THEN CopFlush
                 ELSE CopAccept \/ CopRespond \/ CopWait \/ Dispatch

\* The load/store unit drives a request until memory takes it, then waits for
\* the response; lsu.v orders the transactions of one instruction.
LsuEdge(port) ==
    lsu' \in IF ~scalar_mem_req_valid THEN {{}}
             ELSE CASE lsu = {} -> {{}, {"ar"}, {"aw", "w"}}
                    [] lsu \cap {"ar", "aw", "w"} # {} ->
                         LET rest == lsu \ LsuSees(port)
                         IN {IF rest # {} THEN rest ELSE IF "ar" \in lsu THEN {"r"} ELSE {"b"}}
                    [] OTHER -> {lsu \ LsuSees(port)}

----------------------------------------------------------------------------
(* The system *)

\* A kill as the directed tests give it: of a request not yet answered, and not
\* on the edge that answers it.
DrainedKill(port) ==
    /\ walk # None
    /\ cop_mem_state \in {"launch", "wait"}
    /\ resp_wait_fire(Fires(port)) => cop_mem_killed_r

KillAllowed(port) == /\ kills < MAX_KILLS
                     /\ \/ KILLS = "any" /\ IsVector
                        \/ KILLS = "drained" /\ DrainedKill(port)

Init == /\ ServiceInit
        /\ execute = None
        /\ walk = None
        /\ result = None
        /\ lsu = {}
        /\ pending = [ar |-> None, aw |-> None, w |-> FALSE]
        /\ touched = << >>
        /\ kills = 0

\* touched restarts with each access and grows with each answer that is not
\* absorbed for a killed one.
TouchedEdge(kill, port) ==
    touched' = IF walk = None /\ walk' # None THEN << >>
               ELSE IF Answered(port) \in Address /\ ~cop_mem_killed_r
               THEN Append(touched, Answered(port))
               ELSE touched

Cycle(kill, port) ==
    /\ ServiceEdge(kill, CopRequest, scalar_mem_req_valid, Fires(port), Answered(port))
    /\ LsuEdge(port)
    /\ CopEdge(kill)
    /\ PendingEdge(port)
    /\ TouchedEdge(kill, port)
    /\ kills' = IF kill THEN kills + 1 ELSE kills

Next == \/ \E port \in SUBSET Offered : Cycle(FALSE, port)
        \/ \E port \in SUBSET Offered : KillAllowed(port) /\ Cycle(TRUE, port)

Spec == Init /\ [][Next]_vars

\* Memory answers in the end: again and again it is ready on every channel.
FairSpec == Spec /\ WF_vars(Cycle(FALSE, Offered))

----------------------------------------------------------------------------
(* Correctness *)

\* Only one request is in flight, and it is its owner's: whatever memory has
\* accepted carries the address of the slot when the slot is taken, and of the
\* load/store unit otherwise.  The address and the handshake of the port are
\* multiplexed by different conditions, so this is not given.
OneOwnerInFlight ==
    /\ pending.ar = None \/ (pending.aw = None /\ ~pending.w)
    /\ {pending.ar, pending.aw} \subseteq {None, AddressOut(SCALAR)}
    /\ slot.valid => lsu = {}
    /\ pending # [ar |-> None, aw |-> None, w |-> FALSE] => slot.valid \/ lsu # {}

\* The slot is taken exactly while the service machine works on it, and its
\* channel bits tell what memory holds: a second launch of an accepted half
\* store, or a response nobody waits for, would show here.
SlotTellsMemory ==
    /\ slot.valid <=> cop_mem_state # "idle"
    /\ cop_mem_state = "launch" /\ slot.store =>
         /\ slot.aw_done <=> pending.aw # None
         /\ slot.w_done <=> pending.w
    /\ cop_mem_state = "wait" =>
         /\ slot.resp_pending
         /\ IF slot.store THEN pending.aw # None /\ pending.w ELSE pending.ar # None

\* docs/vector/vector-memory-access.md:144: a response shown to the coprocessor
\* has passed the kill filter: what a vector load collects was read for it, lane
\* by lane, whatever was killed before.
LanesAreItsOwn ==
    /\ walk # None => \A i \in 1 .. Len(walk.read) : walk.read[i] = execute.base + i - 1
    /\ result # None => /\ Len(result.read) = LAST + 1
                        /\ \A i \in 1 .. LAST + 1 : result.read[i] = result.base + i - 1

\* Memory performs each lane of an access once and in order, up to its end or to
\* the kill that abandons it; what a killed request still does is not counted.
Walk == INSTANCE VectorWalk WITH access <- IF walk = None THEN None ELSE execute,
                                 Idle <- None
ImplementsVectorWalk == Walk!WalkSpec

\* docs/vector/vector-memory-access.md:187: after a kill the stale completion is
\* absorbed and the core recovers: a vector access in the execute stage gets its
\* answers and leaves.
VectorAccessEnds == IsVector ~> ~IsVector
=============================================================================
