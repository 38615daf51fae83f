------------------------- MODULE VectorMemoryProofs -------------------------
(***************************************************************************)
(* Proofs about the shared memory port, for every set of addresses, every  *)
(* number of lanes and any number of kills of the kind the testbenches     *)
(* give, or none, as in the shipped core.                                  *)
(***************************************************************************)
EXTENDS VectorMemory, TLAPS

Held == Address \cup {None, SCALAR}
LsuChannels == {{}, {"ar"}, {"aw", "w"}, {"aw"}, {"w"}, {"r"}, {"b"}}

\* Every register holds a value of its sort.
PortTypes == /\ cop_mem_state \in {"idle", "launch", "wait", "done"}
             /\ slot \in [valid : BOOLEAN, resp_pending : BOOLEAN, store : BOOLEAN,
                          aw_done : BOOLEAN, w_done : BOOLEAN, addr : Address \cup {None}]
             /\ cop_mem_killed_r \in BOOLEAN
             /\ cop_mem_done_r \in BOOLEAN
             /\ cop_mem_rdata_r \in Held
             /\ execute \in Access \cup {None, SCALAR}
             /\ walk \in Progress \cup {None}
             /\ lsu \in LsuChannels
             /\ pending \in [ar : Held, aw : Held, w : BOOLEAN]
             /\ touched \in Seq(Address)

\* Who uses the port is decided by what execute holds.
Roles == /\ walk # None => IsVector
         /\ slot.valid => IsVector
         /\ lsu # {} => execute = SCALAR

\* Showing a response: the walk is still at the lane that asked for it.
Shows == cop_mem_state = "done" \/ cop_mem_done_r

\* A request that was not killed is the one of the walk's lane.
SlotServesWalk ==
    /\ slot.valid <=> cop_mem_state # "idle"
    /\ slot.valid => slot.addr \in Address
    /\ slot.valid /\ ~cop_mem_killed_r =>
          /\ walk # None
          /\ slot.store = execute.store
          /\ slot.addr = execute.base + walk.lane
    /\ cop_mem_done_r => cop_mem_state = "idle"
    /\ Shows => /\ walk # None /\ ~cop_mem_killed_r
                /\ cop_mem_rdata_r = execute.base + walk.lane

\* What memory has accepted follows from the service's state, or from what the
\* load/store unit still drives.
PortInOrder ==
    /\ cop_mem_state = "idle" =>
          /\ pending.ar = (IF lsu = {"r"} THEN SCALAR ELSE None)
          /\ pending.aw = (IF lsu \in {{"w"}, {"b"}} THEN SCALAR ELSE None)
          /\ pending.w <=> lsu \in {{"aw"}, {"b"}}
    /\ cop_mem_state = "launch" =>
          /\ pending.ar = None
          /\ pending.aw = (IF slot.store /\ slot.aw_done THEN slot.addr ELSE None)
          /\ pending.w <=> slot.store /\ slot.w_done
    /\ cop_mem_state = "wait" =>
          /\ slot.resp_pending
          /\ pending.ar = (IF slot.store THEN None ELSE slot.addr)
          /\ pending.aw = (IF slot.store THEN slot.addr ELSE None)
          /\ pending.w <=> slot.store
    /\ cop_mem_state = "done" =>
          pending.ar = None /\ pending.aw = None /\ ~pending.w

\* What the walk has collected, and what memory has done for it.
WalkInOrder == walk # None => /\ Len(walk.read) = walk.lane
                              /\ Len(touched) = walk.lane + (IF Shows THEN 1 ELSE 0)

PortInv == /\ PortTypes
           /\ Roles
           /\ SlotServesWalk
           /\ PortInOrder
           /\ WalkInOrder
           /\ LanesAreItsOwn

------------------------------------------------------------------------------
(* Wires *)

\* A lane's address is an address of the access.
LEMMA LaneAddress ==
    ASSUME NEW a \in Access, NEW lane \in 0 .. LAST
    PROVE  a.base + lane \in Address
<1>1. a.base \in Base /\ a.base \in Nat /\ LAST \in Nat
  BY VectorMemoryAssumption DEF Access
<1>2. a.base + lane \in a.base .. a.base + LAST
  BY <1>1
<1> QED BY <1>1, <1>2, VectorMemoryAssumption

\* The request is the one of the walk's lane.
LEMMA RequestOfWalk ==
    ASSUME PortTypes, Roles
    PROVE  IF walk = None THEN CopRequest = None
           ELSE /\ CopRequest \in Request /\ CopRequest # None
                /\ CopRequest.store = execute.store
                /\ CopRequest.addr = execute.base + walk.lane
<1>1. CASE walk = None
  BY <1>1 DEF CopRequest
<1>2. CASE walk # None
  <2>1. execute \in Access /\ walk.lane \in 0 .. LAST
    BY <1>2 DEF PortTypes, Roles, IsVector, Progress
  <2>2. CopRequest \in Request
    BY <1>2, <2>1, LaneAddress DEF CopRequest, Request, Access
  <2> QED BY <1>2, <2>2, ModelValueAssumption DEF CopRequest
<1> QED BY <1>1, <1>2

\* With the slot taken the port is the service's alone.
LEMMA PortOfService ==
    ASSUME PortInv, NEW port \in SUBSET Offered, cop_mem_state # "idle"
    PROVE  /\ lsu = {} /\ slot.valid /\ execute \in Access
           /\ AddressOut(SCALAR) = slot.addr /\ slot.addr \in Address
           /\ cop_mem_state = "launch" /\ ~slot.store => Fires(port) = {"ar"} \cap port
           /\ cop_mem_state = "launch" /\ slot.store =>
                 /\ Fires(port) \subseteq {"aw", "w"}
                 /\ "aw" \in Fires(port) <=> ~slot.aw_done /\ "aw" \in port
                 /\ "w" \in Fires(port) <=> ~slot.w_done /\ "w" \in port
           /\ cop_mem_state = "wait" =>
                 Fires(port) = (IF slot.store THEN {"b"} ELSE {"r"}) \cap port
           /\ cop_mem_state = "done" => Fires(port) = {}
<1>1. /\ slot.valid /\ execute \in Access /\ slot.addr \in Address
      /\ lsu = {} /\ AddressOut(SCALAR) = slot.addr
  BY ModelValueAssumption DEF PortInv, SlotServesWalk, Roles, IsVector, AddressOut
<1>2. cop_mem_state \in {"launch", "wait", "done"}
  BY DEF PortInv, PortTypes
<1>3. CASE cop_mem_state = "launch"
  BY <1>1, <1>3 DEF Fires, Drives
<1>4. CASE cop_mem_state = "wait"
  BY <1>1, <1>4 DEF Fires, Drives
<1>5. CASE cop_mem_state = "done"
  <2>1. pending.ar = None /\ pending.aw = None
    BY <1>5 DEF PortInv, PortInOrder
  <2>2. "r" \notin port /\ "b" \notin port
    BY <2>1 DEF Offered
  <2> QED BY <1>1, <1>5, <2>2 DEF Fires, Drives
<1> QED BY <1>1, <1>2, <1>3, <1>4, <1>5

\* With the slot empty the port is the load/store unit's.
LEMMA PortOfLsu ==
    ASSUME PortInv, NEW port \in SUBSET Offered, cop_mem_state = "idle"
    PROVE  /\ ~slot.valid
           /\ AddressOut(SCALAR) = SCALAR
           /\ Fires(port) = lsu \cap port
           /\ LsuSees(port) = Fires(port)
BY DEF PortInv, SlotServesWalk, AddressOut, Fires, Drives, LsuSees

------------------------------------------------------------------------------
(* A cycle with the slot empty *)

\* No request, and no scalar transaction is disturbed.
LEMMA ScalarCycle ==
    ASSUME PortInv, NEW port \in SUBSET Offered, cop_mem_state = "idle",
           LsuEdge(port), PendingEdge(port)
    PROVE  /\ lsu' \in LsuChannels
           /\ lsu' # {} => execute = SCALAR
           /\ pending' \in [ar : Held, aw : Held, w : BOOLEAN]
           /\ pending'.ar = (IF lsu' = {"r"} THEN SCALAR ELSE None)
           /\ pending'.aw = (IF lsu' \in {{"w"}, {"b"}} THEN SCALAR ELSE None)
           /\ pending'.w <=> lsu' \in {{"aw"}, {"b"}}
           /\ Answered(port) \in {None, SCALAR}
<1> DEFINE f == Fires(port)
<1>1. AddressOut(SCALAR) = SCALAR /\ f = lsu \cap port /\ LsuSees(port) = f
  BY PortOfLsu
<1>2. lsu # {} => execute = SCALAR
  BY DEF PortInv, Roles
<1>3. /\ pending.ar = (IF lsu = {"r"} THEN SCALAR ELSE None)
      /\ pending.aw = (IF lsu \in {{"w"}, {"b"}} THEN SCALAR ELSE None)
      /\ pending.w <=> lsu \in {{"aw"}, {"b"}}
      /\ pending.w \in BOOLEAN
  BY DEF PortInv, PortInOrder, PortTypes
<1>4. pending' =
        [ar |-> IF "ar" \in f THEN SCALAR ELSE IF "r" \in f THEN None ELSE pending.ar,
         aw |-> IF "aw" \in f THEN SCALAR ELSE IF "b" \in f THEN None ELSE pending.aw,
         w  |-> "w" \in f \/ ("b" \notin f /\ pending.w)]
  BY <1>1 DEF PendingEdge
<1>5. /\ pending'.ar = IF "ar" \in f THEN SCALAR ELSE IF "r" \in f THEN None ELSE pending.ar
      /\ pending'.aw = IF "aw" \in f THEN SCALAR ELSE IF "b" \in f THEN None ELSE pending.aw
      /\ pending'.w = ("w" \in f \/ ("b" \notin f /\ pending.w))
  BY <1>4
<1>6. pending' \in [ar : Held, aw : Held, w : BOOLEAN]
  BY <1>3, <1>4 DEF Held
<1>7. Answered(port) \in {None, SCALAR}
  BY <1>3 DEF Answered
<1>8. lsu \in LsuChannels
  BY DEF PortInv, PortTypes
<1>9. None # SCALAR
  BY VectorMemoryAssumption
<1>10. lsu' \in IF execute # SCALAR THEN {{}}
                ELSE CASE lsu = {} -> {{}, {"ar"}, {"aw", "w"}}
                       [] lsu \cap {"ar", "aw", "w"} # {} ->
                            LET rest == lsu \ f
                            IN {IF rest # {} THEN rest
                                ELSE IF "ar" \in lsu THEN {"r"} ELSE {"b"}}
                       [] OTHER -> {lsu \ f}
  BY <1>1 DEF LsuEdge, scalar_mem_req_valid
<1> HIDE DEF f
<1>11. CASE lsu = {}
  <2>1. f = {} /\ lsu' \in {{}, {"ar"}, {"aw", "w"}} /\ (lsu' # {} => execute = SCALAR)
    BY <1>1, <1>10, <1>11
  <2> QED BY <1>3, <1>5, <1>6, <1>7, <1>11, <2>1 DEF LsuChannels
<1>12. CASE lsu = {"ar"}
  <2>1. (f = {} /\ lsu' = {"ar"}) \/ (f = {"ar"} /\ lsu' = {"r"})
    BY <1>1, <1>2, <1>10, <1>12
  <2> QED BY <1>2, <1>3, <1>5, <1>6, <1>7, <1>9, <1>12, <2>1 DEF LsuChannels
<1>13. CASE lsu = {"aw", "w"}
  <2>1. \/ f = {} /\ lsu' = {"aw", "w"}
        \/ f = {"aw"} /\ lsu' = {"w"}
        \/ f = {"w"} /\ lsu' = {"aw"}
        \/ f = {"aw", "w"} /\ lsu' = {"b"}
    BY <1>1, <1>2, <1>10, <1>13
  <2> QED BY <1>2, <1>3, <1>5, <1>6, <1>7, <1>9, <1>13, <2>1 DEF LsuChannels
<1>14. CASE lsu = {"aw"}
  <2>1. (f = {} /\ lsu' = {"aw"}) \/ (f = {"aw"} /\ lsu' = {"b"})
    BY <1>1, <1>2, <1>10, <1>14
  <2> QED BY <1>2, <1>3, <1>5, <1>6, <1>7, <1>9, <1>14, <2>1 DEF LsuChannels
<1>15. CASE lsu = {"w"}
  <2>1. (f = {} /\ lsu' = {"w"}) \/ (f = {"w"} /\ lsu' = {"b"})
    BY <1>1, <1>2, <1>10, <1>15
  <2> QED BY <1>2, <1>3, <1>5, <1>6, <1>7, <1>9, <1>15, <2>1 DEF LsuChannels
<1>16. CASE lsu = {"r"}
  <2>1. (f = {} /\ lsu' = {"r"}) \/ (f = {"r"} /\ lsu' = {})
    BY <1>1, <1>2, <1>10, <1>16
  <2> QED BY <1>2, <1>3, <1>5, <1>6, <1>7, <1>9, <1>16, <2>1 DEF LsuChannels
<1>17. CASE lsu = {"b"}
  <2>1. (f = {} /\ lsu' = {"b"}) \/ (f = {"b"} /\ lsu' = {})
    BY <1>1, <1>2, <1>10, <1>17
  <2> QED BY <1>2, <1>3, <1>5, <1>6, <1>7, <1>9, <1>17, <2>1 DEF LsuChannels
<1> QED BY <1>8, <1>11, <1>12, <1>13, <1>14, <1>15, <1>16, <1>17 DEF LsuChannels

\* A request of the walk is taken unless the response to the last one is shown.
LEMMA IdleService ==
    ASSUME PortInv, NEW port \in SUBSET Offered, cop_mem_state = "idle",
           ServiceEdge(FALSE, CopRequest, scalar_mem_req_valid, Fires(port), Answered(port))
    PROVE  /\ cop_mem_done_r' = FALSE /\ cop_mem_rdata_r' = cop_mem_rdata_r
           /\ cop_mem_killed_r' \in BOOLEAN
           /\ slot' \in [valid : BOOLEAN, resp_pending : BOOLEAN, store : BOOLEAN,
                         aw_done : BOOLEAN, w_done : BOOLEAN, addr : Address \cup {None}]
           /\ walk # None /\ ~cop_mem_done_r =>
                 /\ cop_mem_state' = "launch" /\ ~cop_mem_killed_r' /\ slot'.valid
                 /\ ~slot'.aw_done /\ ~slot'.w_done
                 /\ slot'.store = execute.store
                 /\ slot'.addr = execute.base + walk.lane /\ slot'.addr \in Address
           /\ walk = None \/ cop_mem_done_r => cop_mem_state' = "idle" /\ ~slot'.valid
<1> DEFINE n == cop_mem_new_req(CopRequest, scalar_mem_req_valid)
<1>1. ~slot.valid
  BY PortOfLsu
<1>2. n <=> walk # None /\ ~cop_mem_done_r
  <2>1. walk # None => execute # SCALAR
    BY ModelValueAssumption DEF PortInv, Roles, IsVector
  <2>2. CopRequest # None <=> walk # None
    BY RequestOfWalk DEF PortInv
  <2> QED BY <1>1, <2>1, <2>2 DEF cop_mem_new_req, mem_owner_scalar_active, scalar_mem_req_valid
<1>3. Begin(CopRequest, scalar_mem_req_valid)
  BY DEF ServiceEdge, Launch, Wait, Done
<1>4. ~slot_clear(FALSE, Fires(port))
  BY DEF slot_clear, resp_wait_fire
<1>5. slot' = IF n THEN [EmptySlot EXCEPT !.valid = TRUE, !.store = CopRequest.store,
                                          !.addr = CopRequest.addr]
              ELSE [slot EXCEPT !.resp_pending = @ \/ (cop_mem_state = "launch" /\ Launched(Fires(port))),
                                !.aw_done = @ \/ "aw" \in Fires(port),
                                !.w_done = @ \/ "w" \in Fires(port)]
  BY <1>4 DEF ServiceEdge, SlotEdge
<1>6. CASE n
  <2>1. /\ CopRequest \in Request
        /\ CopRequest.store = execute.store
        /\ CopRequest.addr = execute.base + walk.lane
    BY <1>2, <1>6, RequestOfWalk DEF PortInv
  <2>2. slot' \in [valid : BOOLEAN, resp_pending : BOOLEAN, store : BOOLEAN,
                   aw_done : BOOLEAN, w_done : BOOLEAN, addr : Address \cup {None}]
    BY <1>5, <1>6, <2>1 DEF EmptySlot, Request
  <2>3. /\ slot'.valid /\ ~slot'.aw_done /\ ~slot'.w_done
        /\ slot'.store = CopRequest.store /\ slot'.addr = CopRequest.addr
    BY <1>5, <1>6 DEF EmptySlot
  <2>4. CopRequest.addr \in Address
    BY <2>1 DEF Request
  <2> HIDE DEF n
  <2> QED BY <1>2, <1>3, <1>6, <2>1, <2>2, <2>3, <2>4 DEF Begin, PortInv, PortTypes, n
<1>7. CASE ~n
  <2>1. slot \in [valid : BOOLEAN, resp_pending : BOOLEAN, store : BOOLEAN,
                  aw_done : BOOLEAN, w_done : BOOLEAN, addr : Address \cup {None}]
    BY DEF PortInv, PortTypes
  <2>2. /\ slot' \in [valid : BOOLEAN, resp_pending : BOOLEAN, store : BOOLEAN,
                      aw_done : BOOLEAN, w_done : BOOLEAN, addr : Address \cup {None}]
        /\ ~slot'.valid
    BY <1>1, <1>5, <1>7, <2>1
  <2> HIDE DEF n
  <2> QED BY <1>2, <1>3, <1>7, <2>2 DEF Begin, PortInv, PortTypes, n
<1> QED BY <1>6, <1>7

\* What history remembers of a cycle in which nothing is answered for a vector
\* access.
LEMMA NothingTouched ==
    ASSUME PortTypes, NEW port, Answered(port) \notin Address, TouchedEdge(FALSE, port)
    PROVE  /\ touched' \in Seq(Address)
           /\ IF walk = None /\ walk' # None THEN touched' = << >> ELSE touched' = touched
BY DEF TouchedEdge, PortTypes

\* A response ends the lane, and with the last lane the access.
LEMMA RespondStep ==
    ASSUME PortInv, CopRespond
    PROVE  /\ execute' \in Access \cup {None, SCALAR}
           /\ walk' \in Progress \cup {None}
           /\ execute' # SCALAR
           /\ walk' # None => /\ execute' = execute /\ execute \in Access
                              /\ walk'.lane = walk.lane + 1
                              /\ Len(walk'.read) = walk'.lane
           /\ walk' = None => walk.lane = LAST
           /\ LanesAreItsOwn'
<1> DEFINE read == Append(walk.read, cop_mem_rdata_r)
<1>1. /\ walk # None /\ execute \in Access /\ cop_mem_done_r
      /\ cop_mem_rdata_r = execute.base + walk.lane
      /\ walk.lane \in 0 .. LAST /\ walk.read \in Seq(Address)
      /\ Len(walk.read) = walk.lane
      /\ \A i \in 1 .. Len(walk.read) : walk.read[i] = execute.base + i - 1
      /\ execute.base \in Nat /\ LAST \in Nat
  BY VectorMemoryAssumption
     DEF CopRespond, cop_mem_resp_valid, PortInv, SlotServesWalk, Shows, Roles, IsVector,
         WalkInOrder, LanesAreItsOwn, PortTypes, Progress, Access
<1>2. cop_mem_rdata_r \in Address
  BY <1>1, LaneAddress
<1>3. /\ read \in Seq(Address) /\ Len(read) = walk.lane + 1
      /\ \A i \in 1 .. Len(read) : read[i] = execute.base + i - 1
  BY <1>1, <1>2
<1>4. execute # SCALAR
  BY <1>1, ModelValueAssumption
<1>5. execute.base \in Base
  BY <1>1 DEF Access
<1> HIDE DEF read
<1>6. CASE walk.lane = LAST
  <2>1. walk' = None /\ result' = [base |-> execute.base, read |-> read] /\ execute' = None
    BY <1>6 DEF CopRespond, read
  <2>2. LanesAreItsOwn'
    BY <1>1, <1>3, <1>6, <2>1 DEF LanesAreItsOwn
  <2> QED BY <1>6, <2>1, <2>2, VectorMemoryAssumption
<1>7. CASE walk.lane # LAST
  <2>1. walk' = [lane |-> walk.lane + 1, read |-> read] /\ result' = result /\ execute' = execute
    BY <1>7 DEF CopRespond, read
  <2>2. walk.lane + 1 \in 0 .. LAST
    BY <1>1, <1>7
  <2>3. walk' \in Progress
    BY <1>3, <2>1, <2>2 DEF Progress
  <2>4. LanesAreItsOwn'
    BY <1>3, <2>1 DEF LanesAreItsOwn, PortInv
  <2> QED BY <1>1, <1>3, <1>4, <2>1, <2>3, <2>4, ModelValueAssumption
<1> QED BY <1>6, <1>7

LEMMA IdleStep ==
    ASSUME PortInv, NEW port \in SUBSET Offered, cop_mem_state = "idle", Cycle(FALSE, port)
    PROVE  PortInv'
<1>1. /\ lsu' \in LsuChannels
      /\ lsu' # {} => execute = SCALAR
      /\ pending' \in [ar : Held, aw : Held, w : BOOLEAN]
      /\ pending'.ar = (IF lsu' = {"r"} THEN SCALAR ELSE None)
      /\ pending'.aw = (IF lsu' \in {{"w"}, {"b"}} THEN SCALAR ELSE None)
      /\ pending'.w <=> lsu' \in {{"aw"}, {"b"}}
      /\ Answered(port) \in {None, SCALAR}
  BY ScalarCycle DEF Cycle
<1>2. /\ cop_mem_done_r' = FALSE /\ cop_mem_rdata_r' = cop_mem_rdata_r
      /\ cop_mem_killed_r' \in BOOLEAN
      /\ slot' \in [valid : BOOLEAN, resp_pending : BOOLEAN, store : BOOLEAN,
                    aw_done : BOOLEAN, w_done : BOOLEAN, addr : Address \cup {None}]
      /\ walk # None /\ ~cop_mem_done_r =>
            /\ cop_mem_state' = "launch" /\ ~cop_mem_killed_r' /\ slot'.valid
            /\ ~slot'.aw_done /\ ~slot'.w_done
            /\ slot'.store = execute.store
            /\ slot'.addr = execute.base + walk.lane /\ slot'.addr \in Address
      /\ walk = None \/ cop_mem_done_r => cop_mem_state' = "idle" /\ ~slot'.valid
  BY IdleService DEF Cycle
<1>3. /\ touched' \in Seq(Address)
      /\ IF walk = None /\ walk' # None THEN touched' = << >> ELSE touched' = touched
  <2>1. Answered(port) \notin Address
    BY <1>1, VectorMemoryAssumption
  <2> QED BY <2>1, NothingTouched DEF Cycle, PortInv
<1>4. CopAccept \/ CopRespond \/ CopWait \/ Dispatch
  BY DEF Cycle, CopEdge
<1>5. Shows <=> cop_mem_done_r
  BY DEF Shows
<1>6. ~Shows'
  BY <1>2 DEF Shows
<1>7. cop_mem_rdata_r' \in Held
  BY <1>2 DEF PortInv, PortTypes
<1>8. walk # None => IsVector /\ execute # SCALAR
  BY ModelValueAssumption DEF PortInv, Roles, IsVector
<1>9. CASE walk # None /\ ~cop_mem_done_r
  <2>1. walk' = walk /\ result' = result /\ execute' = execute
    BY <1>4, <1>9 DEF CopAccept, CopRespond, CopWait, Dispatch, cop_mem_resp_valid
  <2>2. lsu' = {}
    BY <1>1, <1>8, <1>9
  <2>3. PortTypes'
    BY <1>1, <1>2, <1>3, <1>7, <1>9, <2>1 DEF PortInv, PortTypes
  <2>4. Roles'
    BY <1>8, <1>9, <2>1, <2>2 DEF Roles, IsVector
  <2>5. SlotServesWalk'
    BY <1>2, <1>6, <1>9, <2>1 DEF SlotServesWalk
  <2>6. PortInOrder'
    BY <1>1, <1>2, <1>9, <2>2 DEF PortInOrder
  <2>7. WalkInOrder'
    BY <1>3, <1>5, <1>6, <1>9, <2>1 DEF WalkInOrder, PortInv
  <2>8. LanesAreItsOwn'
    BY <2>1 DEF LanesAreItsOwn, PortInv
  <2> QED BY <2>3, <2>4, <2>5, <2>6, <2>7, <2>8 DEF PortInv
<1>10. CASE cop_mem_done_r
  <2>0. walk # None /\ ~cop_mem_killed_r
    BY <1>5, <1>10 DEF PortInv, SlotServesWalk
  <2>1. CopRespond
    BY <1>4, <1>10, <2>0, <1>8 DEF CopAccept, CopWait, Dispatch, cop_mem_resp_valid
  <2>2. /\ execute' \in Access \cup {None, SCALAR}
        /\ walk' \in Progress \cup {None}
        /\ walk' # None => /\ execute' = execute /\ execute \in Access
                           /\ walk'.lane = walk.lane + 1
                           /\ Len(walk'.read) = walk'.lane
        /\ LanesAreItsOwn'
    BY <2>1, RespondStep
  <2>3. lsu' = {} /\ cop_mem_state' = "idle" /\ ~slot'.valid
    BY <1>1, <1>2, <1>8, <1>10, <2>0
  <2>4. PortTypes'
    BY <1>1, <1>2, <1>3, <1>7, <2>2, <2>3 DEF PortTypes
  <2>5. Roles'
    BY <2>2, <2>3 DEF Roles, IsVector
  <2>6. SlotServesWalk'
    BY <1>2, <1>6, <2>3 DEF SlotServesWalk
  <2>7. PortInOrder'
    BY <1>1, <2>3 DEF PortInOrder
  <2>8. WalkInOrder'
    BY <1>3, <1>5, <1>6, <1>10, <2>0, <2>2 DEF WalkInOrder, PortInv, PortTypes, Progress
  <2> QED BY <2>2, <2>4, <2>5, <2>6, <2>7, <2>8 DEF PortInv
<1>11. CASE walk = None /\ ~cop_mem_done_r
  <2>1. cop_mem_state' = "idle" /\ ~slot'.valid
    BY <1>2, <1>11
  <2>2. result' = result
    BY <1>4, <1>11 DEF CopAccept, CopRespond, CopWait, Dispatch
  <2>3. /\ execute' \in Access \cup {None, SCALAR}
        /\ lsu' # {} => execute' = SCALAR
        /\ walk' # None => /\ execute' \in Access
                           /\ walk' = [lane |-> 0, read |-> << >>]
    <3>1. CASE CopAccept
      BY <1>1, <3>1 DEF CopAccept, IsVector
    <3>2. CASE Dispatch
      <4>1. walk' = None /\ execute' \in Access \cup {None, SCALAR}
        BY <3>2, <1>11 DEF Dispatch
      <4>2. execute = SCALAR /\ lsu' # {} => execute' = SCALAR
        BY <3>2, VectorMemoryAssumption DEF Dispatch
      <4> QED BY <1>1, <4>1, <4>2
    <3> QED BY <1>4, <1>11, <3>1, <3>2 DEF CopRespond, CopWait
  <2>4. walk' \in Progress \cup {None}
    <3>1. 0 \in 0 .. LAST /\ << >> \in Seq(Address)
      BY VectorMemoryAssumption
    <3>2. [lane |-> 0, read |-> << >>] \in Progress
      BY <3>1 DEF Progress
    <3> QED BY <2>3, <3>2
  <2>5. PortTypes'
    BY <1>1, <1>2, <1>3, <1>7, <2>1, <2>3, <2>4 DEF PortTypes
  <2>6. Roles'
    BY <2>1, <2>3 DEF Roles, IsVector
  <2>7. SlotServesWalk'
    BY <1>2, <1>6, <2>1 DEF SlotServesWalk
  <2>8. PortInOrder'
    BY <1>1, <2>1 DEF PortInOrder
  <2>9. WalkInOrder'
    BY <1>3, <1>6, <1>11, <2>3 DEF WalkInOrder
  <2>10. LanesAreItsOwn'
    BY <2>2, <2>3 DEF LanesAreItsOwn, PortInv
  <2> QED BY <2>5, <2>6, <2>7, <2>8, <2>9, <2>10 DEF PortInv
<1> QED BY <1>9, <1>10, <1>11

------------------------------------------------------------------------------
(* A cycle with the slot taken *)

\* The walk waits, starts anew if it was killed before, or is killed now.
LEMMA WalkWaits ==
    ASSUME PortInv, NEW port \in SUBSET Offered, cop_mem_state # "idle",
           NEW kill \in BOOLEAN, LsuEdge(port), CopEdge(kill)
    PROVE  /\ lsu' = {} /\ result' = result /\ execute' = execute /\ execute \in Access
           /\ walk' \in Progress \cup {None}
           /\ kill => walk' = None
           /\ ~kill /\ walk # None => walk' = walk
           /\ ~kill /\ walk = None => walk' # None /\ walk'.lane = 0 /\ walk'.read = << >>
<1>1. execute \in Access /\ lsu = {} /\ execute # SCALAR /\ ~cop_mem_done_r
      /\ walk \in Progress \cup {None} /\ lsu' = {}
  <2>1. execute \in Access /\ execute # SCALAR
    BY ModelValueAssumption DEF PortInv, SlotServesWalk, Roles, IsVector
  <2> QED BY <2>1 DEF PortInv, SlotServesWalk, Roles, PortTypes, LsuEdge, scalar_mem_req_valid
<1>2. CASE kill
  BY <1>1, <1>2 DEF CopEdge, CopFlush
<1>3. CASE ~kill /\ walk # None
  BY <1>1, <1>3 DEF CopEdge, CopAccept, CopRespond, CopWait, Dispatch, cop_mem_resp_valid
<1>4. CASE ~kill /\ walk = None
  <2>1. walk' = [lane |-> 0, read |-> << >>] /\ result' = result /\ execute' = execute
    BY <1>1, <1>4 DEF CopEdge, CopAccept, CopRespond, CopWait, Dispatch, IsVector
  <2>2. 0 \in 0 .. LAST /\ << >> \in Seq(Address)
    BY VectorMemoryAssumption
  <2>3. walk' \in Progress
    BY <2>1, <2>2 DEF Progress
  <2> QED BY <1>1, <1>4, <2>1, <2>3, ModelValueAssumption
<1> QED BY <1>2, <1>3, <1>4

\* What a walk that waits leaves to be shown.
LEMMA WaitingWalkKeeps ==
    ASSUME PortInv, NEW port \in SUBSET Offered, cop_mem_state # "idle",
           NEW kill \in BOOLEAN, Cycle(kill, port),
           touched' \in Seq(Address),
           walk # None /\ ~kill =>
              Len(touched') = walk.lane + (IF Shows' THEN 1 ELSE 0),
           walk = None /\ ~kill => touched' = << >> /\ ~Shows'
    PROVE  WalkInOrder' /\ LanesAreItsOwn' /\ Roles'
<1>1. /\ lsu' = {} /\ result' = result /\ execute' = execute /\ execute \in Access
      /\ walk' \in Progress \cup {None}
      /\ kill => walk' = None
      /\ ~kill /\ walk # None => walk' = walk
      /\ ~kill /\ walk = None => walk' # None /\ walk'.lane = 0 /\ walk'.read = << >>
  BY WalkWaits DEF Cycle
<1>2. WalkInOrder'
  BY <1>1 DEF WalkInOrder, PortInv
<1>3. LanesAreItsOwn'
  BY <1>1 DEF LanesAreItsOwn, PortInv
<1>4. Roles'
  BY <1>1 DEF Roles, IsVector
<1> QED BY <1>2, <1>3, <1>4

\* The edges of the slot's own registers while its request is on its way.
LEMMA SlotTypes ==
    ASSUME PortTypes, NEW kill \in BOOLEAN, NEW fires, slot.valid,
           SlotEdge(kill, CopRequest, scalar_mem_req_valid, fires)
    PROVE  /\ slot' \in [valid : BOOLEAN, resp_pending : BOOLEAN, store : BOOLEAN,
                         aw_done : BOOLEAN, w_done : BOOLEAN, addr : Address \cup {None}]
           /\ slot_clear(kill, fires) => ~slot'.valid
           /\ ~slot_clear(kill, fires) =>
                 /\ slot'.valid /\ slot'.store = slot.store /\ slot'.addr = slot.addr
                 /\ slot'.resp_pending = (slot.resp_pending \/ (cop_mem_state = "launch" /\ Launched(fires)))
                 /\ slot'.aw_done = (slot.aw_done \/ "aw" \in fires)
                 /\ slot'.w_done = (slot.w_done \/ "w" \in fires)
<1>1. slot \in [valid : BOOLEAN, resp_pending : BOOLEAN, store : BOOLEAN,
                aw_done : BOOLEAN, w_done : BOOLEAN, addr : Address \cup {None}]
  BY DEF PortTypes
<1>2. CASE slot_clear(kill, fires)
  <2>1. slot' = [EmptySlot EXCEPT !.addr = slot.addr]
    BY <1>2 DEF SlotEdge
  <2> QED BY <1>1, <1>2, <2>1 DEF EmptySlot
<1>3. CASE ~slot_clear(kill, fires)
  <2>1. slot' = [slot EXCEPT
                   !.resp_pending = slot.resp_pending \/ (cop_mem_state = "launch" /\ Launched(fires)),
                   !.aw_done = slot.aw_done \/ "aw" \in fires,
                   !.w_done = slot.w_done \/ "w" \in fires]
    BY <1>3 DEF SlotEdge, cop_mem_new_req
  <2> QED BY <1>1, <1>3, <2>1
<1> QED BY <1>2, <1>3

\* The edge of history while nothing is answered that counts.
LEMMA TouchedKeeps ==
    ASSUME PortTypes, NEW port, NEW kill \in BOOLEAN, TouchedEdge(kill, port),
           Answered(port) \notin Address \/ cop_mem_killed_r
    PROVE  /\ touched' \in Seq(Address)
           /\ IF walk = None /\ walk' # None THEN touched' = << >> ELSE touched' = touched
BY DEF TouchedEdge, PortTypes

\* Channels of a request go one by one; a kill is in time as long as none has.
LEMMA LaunchStep ==
    ASSUME PortInv, NEW port \in SUBSET Offered, cop_mem_state = "launch",
           NEW kill \in BOOLEAN, Cycle(kill, port)
    PROVE  PortInv'
<1> DEFINE f == Fires(port)
           over == kill /\ pre_accept_kill(f)
           gone == Launched(f)
<1>1. /\ lsu = {} /\ slot.valid /\ execute \in Access
      /\ AddressOut(SCALAR) = slot.addr /\ slot.addr \in Address
      /\ ~slot.store => f = {"ar"} \cap port
      /\ slot.store => /\ f \subseteq {"aw", "w"}
                       /\ "aw" \in f => ~slot.aw_done
                       /\ "w" \in f => ~slot.w_done
  BY PortOfService
<1>2. /\ pending.ar = None
      /\ pending.aw = (IF slot.store /\ slot.aw_done THEN slot.addr ELSE None)
      /\ pending.w = (slot.store /\ slot.w_done)
  BY DEF PortInv, PortInOrder, PortTypes
<1>0. /\ "r" \notin f /\ "b" \notin f
      /\ slot.store => "ar" \notin f
      /\ ~slot.store => "aw" \notin f /\ "w" \notin f
  <2>1. CASE slot.store
    <3>1. \A c \in f : c = "aw" \/ c = "w"
      BY <1>1, <2>1
    <3> QED BY <2>1, <3>1
  <2>2. CASE ~slot.store
    <3>1. \A c \in f : c = "ar"
      BY <1>1, <2>2
    <3> QED BY <2>2, <3>1
  <2> QED BY <2>1, <2>2
<1>3. Answered(port) = None
  BY <1>0 DEF Answered
<1>4. pending' = [ar |-> IF "ar" \in f THEN slot.addr ELSE None,
                  aw |-> IF "aw" \in f THEN slot.addr ELSE pending.aw,
                  w  |-> "w" \in f \/ pending.w]
  BY <1>0, <1>1, <1>2 DEF Cycle, PendingEdge
<1>5. /\ pending'.ar = (IF "ar" \in f THEN slot.addr ELSE None)
      /\ pending'.aw = (IF "aw" \in f THEN slot.addr ELSE pending.aw)
      /\ pending'.w = ("w" \in f \/ pending.w)
      /\ pending' \in [ar : Held, aw : Held, w : BOOLEAN]
  BY <1>1, <1>2, <1>4 DEF Held, PortInv, PortTypes
<1>6. gone <=> IF slot.store THEN (slot.aw_done \/ "aw" \in f) /\ (slot.w_done \/ "w" \in f)
               ELSE "ar" \in f
  BY DEF Launched, store_launch_done
<1>7. over => /\ "ar" \notin f /\ "aw" \notin f /\ "w" \notin f
              /\ slot.store => ~slot.aw_done /\ ~slot.w_done
  <2>1. pre_accept_kill(f) => IF slot.store THEN ~store_accepted(f) ELSE "ar" \notin f
    BY DEF pre_accept_kill
  <2>2. slot.store /\ ~store_accepted(f) =>
           ~slot.aw_done /\ ~slot.w_done /\ "aw" \notin f /\ "w" \notin f
    BY DEF store_accepted
  <2> QED BY <1>0, <2>1, <2>2
<1>8. ~resp_wait_fire(f)
  BY DEF resp_wait_fire
<1>9. slot_clear(kill, f) <=> over
  BY <1>8 DEF slot_clear
<1>10. /\ cop_mem_state' = IF over THEN "idle" ELSE IF gone THEN "wait" ELSE "launch"
       /\ cop_mem_killed_r' = (~over /\ (kill \/ cop_mem_killed_r))
       /\ cop_mem_done_r' = FALSE
       /\ cop_mem_rdata_r' = cop_mem_rdata_r
       /\ SlotEdge(kill, CopRequest, scalar_mem_req_valid, f)
  <2>1. ServiceEdge(kill, CopRequest, scalar_mem_req_valid, f, Answered(port))
    BY DEF Cycle
  <2>2. cop_mem_killed_r \in BOOLEAN
    BY DEF PortInv, PortTypes
  <2>3. CASE kill
    BY <1>8, <2>1, <2>3 DEF ServiceEdge, KillEdge
  <2>4. CASE ~kill
    <3>1. Launch(f)
      BY <2>1, <2>4 DEF ServiceEdge, Begin, Wait, Done
    <3> QED BY <2>1, <2>2, <2>4, <3>1 DEF ServiceEdge, Launch
  <2> QED BY <2>3, <2>4
<1>11. /\ slot' \in [valid : BOOLEAN, resp_pending : BOOLEAN, store : BOOLEAN,
                     aw_done : BOOLEAN, w_done : BOOLEAN, addr : Address \cup {None}]
       /\ over => ~slot'.valid
       /\ ~over => /\ slot'.valid /\ slot'.store = slot.store /\ slot'.addr = slot.addr
                   /\ gone => slot'.resp_pending
                   /\ slot'.aw_done = (slot.aw_done \/ "aw" \in f)
                   /\ slot'.w_done = (slot.w_done \/ "w" \in f)
  BY <1>1, <1>9, <1>10, SlotTypes DEF PortInv
<1>12. /\ lsu' = {} /\ result' = result /\ execute' = execute /\ execute \in Access
       /\ walk' \in Progress \cup {None}
       /\ ~kill /\ walk # None => walk' = walk
       /\ ~kill /\ walk = None => walk' # None
  BY WalkWaits DEF Cycle
<1>13. /\ touched' \in Seq(Address)
       /\ IF walk = None /\ walk' # None THEN touched' = << >> ELSE touched' = touched
  <2>1. Answered(port) \notin Address
    BY <1>3, VectorMemoryAssumption
  <2> QED BY <2>1, TouchedKeeps DEF Cycle, PortInv
<1>14. ~Shows /\ ~Shows'
  BY <1>10 DEF Shows, PortInv, SlotServesWalk
<1> HIDE DEF f, over, gone
<1>15. PortTypes'
  BY <1>5, <1>10, <1>11, <1>12, <1>13 DEF PortInv, PortTypes, LsuChannels
<1>16. SlotServesWalk'
  <2>1. slot.valid /\ ~cop_mem_killed_r =>
           walk # None /\ slot.store = execute.store /\ slot.addr = execute.base + walk.lane
    BY DEF PortInv, SlotServesWalk
  <2> QED BY <1>1, <1>10, <1>11, <1>12, <1>14, <2>1 DEF SlotServesWalk, over
<1>17. PortInOrder'
  <2>1. CASE over
    BY <1>2, <1>5, <1>7, <1>10, <1>12, <2>1 DEF PortInOrder
  <2>2. CASE ~over /\ slot.store
    <3>1. /\ slot'.store /\ pending'.ar = None /\ slot'.addr = slot.addr
          /\ pending'.aw = (IF slot'.aw_done THEN slot.addr ELSE None)
          /\ pending'.w = slot'.w_done
      BY <1>0, <1>2, <1>5, <1>11, <2>2
    <3>2. CASE gone
      <4>1. slot'.resp_pending /\ cop_mem_state' = "wait" /\ slot'.aw_done /\ slot'.w_done
        BY <1>6, <1>10, <1>11, <2>2, <3>2
      <4> QED BY <3>1, <4>1 DEF PortInOrder
    <3>3. CASE ~gone
      <4>1. cop_mem_state' = "launch"
        BY <1>10, <2>2, <3>3
      <4> QED BY <3>1, <4>1 DEF PortInOrder
    <3> QED BY <3>2, <3>3
  <2>3. CASE ~over /\ ~slot.store
    BY <1>1, <1>2, <1>5, <1>6, <1>10, <1>11, <2>3 DEF PortInOrder
  <2> QED BY <2>1, <2>2, <2>3
<1>18. WalkInOrder' /\ LanesAreItsOwn' /\ Roles'
  <2>1. walk # None /\ ~kill => Len(touched') = walk.lane + (IF Shows' THEN 1 ELSE 0)
    BY <1>12, <1>13, <1>14 DEF PortInv, WalkInOrder
  <2>2. walk = None /\ ~kill => touched' = << >> /\ ~Shows'
    BY <1>12, <1>13, <1>14
  <2> QED BY <1>13, <2>1, <2>2, WaitingWalkKeeps
<1> QED BY <1>15, <1>16, <1>17, <1>18 DEF PortInv

\* The answer ends the request; of a killed one it is absorbed.
LEMMA WaitStep ==
    ASSUME PortInv, NEW port \in SUBSET Offered, cop_mem_state = "wait",
           NEW kill \in BOOLEAN, kill => DrainedKill(port), Cycle(kill, port)
    PROVE  PortInv'
<1> DEFINE f == Fires(port)
           fire == resp_wait_fire(f)
<1>1. /\ lsu = {} /\ slot.valid /\ execute \in Access
      /\ AddressOut(SCALAR) = slot.addr /\ slot.addr \in Address
      /\ f = (IF slot.store THEN {"b"} ELSE {"r"}) \cap port
  BY PortOfService
<1>2. /\ slot.resp_pending
      /\ pending.ar = (IF slot.store THEN None ELSE slot.addr)
      /\ pending.aw = (IF slot.store THEN slot.addr ELSE None)
      /\ pending.w = slot.store
  BY DEF PortInv, PortInOrder, PortTypes
<1>3. fire <=> f # {}
  BY <1>1, <1>2 DEF resp_wait_fire
<1>4. Answered(port) = IF fire THEN slot.addr ELSE None
  BY <1>1, <1>2, <1>3 DEF Answered
<1>5. pending' = [ar |-> IF "r" \in f THEN None ELSE pending.ar,
                  aw |-> IF "b" \in f THEN None ELSE pending.aw,
                  w  |-> "b" \notin f /\ pending.w]
  BY <1>1 DEF Cycle, PendingEdge
<1>6. /\ pending'.ar = (IF "r" \in f THEN None ELSE pending.ar)
      /\ pending'.aw = (IF "b" \in f THEN None ELSE pending.aw)
      /\ pending'.w = ("b" \notin f /\ pending.w)
      /\ pending' \in [ar : Held, aw : Held, w : BOOLEAN]
  BY <1>1, <1>2, <1>5 DEF Held, PortInv, PortTypes
<1>7. /\ cop_mem_killed_r \in BOOLEAN
      /\ kill /\ fire => cop_mem_killed_r
  BY DEF DrainedKill, PortInv, PortTypes
<1>8. slot_clear(kill, f) <=> fire /\ cop_mem_killed_r
  BY DEF slot_clear, pre_accept_kill
<1>9. /\ cop_mem_state' = IF ~fire THEN "wait" ELSE IF cop_mem_killed_r THEN "idle" ELSE "done"
      /\ cop_mem_killed_r' = IF kill THEN ~fire ELSE cop_mem_killed_r
      /\ cop_mem_done_r' = FALSE
      /\ kill => cop_mem_rdata_r' = cop_mem_rdata_r
      /\ ~kill => cop_mem_rdata_r' = IF fire THEN slot.addr ELSE cop_mem_rdata_r
      /\ SlotEdge(kill, CopRequest, scalar_mem_req_valid, f)
  <2>1. ServiceEdge(kill, CopRequest, scalar_mem_req_valid, f, Answered(port))
    BY DEF Cycle
  <2>2. CASE kill
    BY <1>7, <2>1, <2>2 DEF ServiceEdge, KillEdge, pre_accept_kill
  <2>3. CASE ~kill
    <3>1. Wait(f, Answered(port))
      BY <2>1, <2>3 DEF ServiceEdge, Begin, Launch, Done
    <3> QED BY <1>4, <2>1, <2>3, <3>1 DEF ServiceEdge, Wait
  <2> QED BY <2>2, <2>3
<1>10. /\ slot' \in [valid : BOOLEAN, resp_pending : BOOLEAN, store : BOOLEAN,
                     aw_done : BOOLEAN, w_done : BOOLEAN, addr : Address \cup {None}]
       /\ fire /\ cop_mem_killed_r => ~slot'.valid
       /\ ~(fire /\ cop_mem_killed_r) =>
             slot'.valid /\ slot'.store = slot.store /\ slot'.addr = slot.addr /\ slot'.resp_pending
  BY <1>1, <1>2, <1>8, <1>9, SlotTypes DEF PortInv
<1>11. /\ lsu' = {} /\ result' = result /\ execute' = execute
       /\ walk' \in Progress \cup {None}
       /\ ~kill /\ walk # None => walk' = walk
       /\ ~kill /\ walk = None => walk' # None
  BY WalkWaits DEF Cycle
<1>12. ~cop_mem_killed_r =>
          walk # None /\ slot.store = execute.store /\ slot.addr = execute.base + walk.lane
  BY <1>1 DEF PortInv, SlotServesWalk
<1>13. ~Shows /\ (Shows' <=> fire /\ ~cop_mem_killed_r)
  BY <1>9 DEF Shows, PortInv, SlotServesWalk
<1>14. /\ touched' \in Seq(Address)
       /\ walk # None /\ ~kill => Len(touched') = walk.lane + (IF Shows' THEN 1 ELSE 0)
       /\ walk = None /\ ~kill => touched' = << >> /\ ~Shows'
  <2>1. touched \in Seq(Address) /\ (walk # None => Len(touched) = walk.lane)
    BY <1>13 DEF PortInv, PortTypes, WalkInOrder
  <2>2. TouchedEdge(kill, port)
    BY DEF Cycle
  <2>3. walk # None => walk.lane \in Nat
    BY VectorMemoryAssumption DEF PortInv, PortTypes, Progress
  <2>4. CASE fire /\ ~cop_mem_killed_r
    <3>1. walk # None /\ touched' = Append(touched, slot.addr)
      BY <1>1, <1>4, <1>12, <2>2, <2>4 DEF TouchedEdge
    <3> QED BY <1>1, <1>13, <2>1, <2>3, <2>4, <3>1
  <2>5. CASE ~(fire /\ ~cop_mem_killed_r)
    <3>1. Answered(port) \notin Address \/ cop_mem_killed_r
      BY <1>4, <2>5, VectorMemoryAssumption
    <3>2. /\ touched' \in Seq(Address)
          /\ IF walk = None /\ walk' # None THEN touched' = << >> ELSE touched' = touched
      BY <2>2, <3>1, TouchedKeeps DEF PortInv
    <3> QED BY <1>11, <1>13, <2>1, <2>3, <2>5, <3>2
  <2> QED BY <2>4, <2>5
<1> HIDE DEF f, fire
<1>15. PortTypes'
  <2>1. cop_mem_rdata_r' \in Held
    BY <1>1, <1>9 DEF Held, PortInv, PortTypes
  <2> QED BY <1>6, <1>7, <1>9, <1>10, <1>11, <1>14, <2>1 DEF PortInv, PortTypes, LsuChannels
<1>16. SlotServesWalk'
  BY <1>1, <1>7, <1>9, <1>10, <1>11, <1>12, <1>13 DEF SlotServesWalk
<1>17. PortInOrder'
  BY <1>1, <1>2, <1>3, <1>6, <1>9, <1>10, <1>11 DEF PortInOrder
<1>18. WalkInOrder' /\ LanesAreItsOwn' /\ Roles'
  BY <1>14, WaitingWalkKeeps
<1> QED BY <1>15, <1>16, <1>17, <1>18 DEF PortInv

\* The response is shown in the next cycle, with the slot empty again.
LEMMA DoneStep ==
    ASSUME PortInv, NEW port \in SUBSET Offered, cop_mem_state = "done", Cycle(FALSE, port)
    PROVE  PortInv'
<1>1. /\ lsu = {} /\ slot.valid /\ slot.addr \in Address /\ Fires(port) = {}
  BY PortOfService
<1>2. /\ walk # None /\ ~cop_mem_killed_r /\ ~cop_mem_done_r
      /\ cop_mem_rdata_r = execute.base + walk.lane
      /\ pending.ar = None /\ pending.aw = None /\ ~pending.w
  BY DEF PortInv, SlotServesWalk, PortInOrder, Shows
<1>3. /\ cop_mem_state' = "idle" /\ cop_mem_done_r' = TRUE /\ cop_mem_killed_r' = FALSE
      /\ cop_mem_rdata_r' = cop_mem_rdata_r
      /\ SlotEdge(FALSE, CopRequest, scalar_mem_req_valid, Fires(port))
  BY DEF Cycle, ServiceEdge, Begin, Launch, Wait, Done
<1>4. /\ slot' \in [valid : BOOLEAN, resp_pending : BOOLEAN, store : BOOLEAN,
                    aw_done : BOOLEAN, w_done : BOOLEAN, addr : Address \cup {None}]
      /\ ~slot'.valid
  BY <1>1, <1>3, SlotTypes DEF PortInv, slot_clear
<1>5. /\ lsu' = {} /\ result' = result /\ execute' = execute /\ walk' = walk
  BY <1>2, WalkWaits DEF Cycle
<1>6. Answered(port) = None
  BY <1>1 DEF Answered
<1>7. touched' \in Seq(Address) /\ touched' = touched
  <2>1. Answered(port) \notin Address
    BY <1>6, VectorMemoryAssumption
  <2> QED BY <1>2, <2>1, TouchedKeeps DEF Cycle, PortInv
<1>8. /\ pending' \in [ar : Held, aw : Held, w : BOOLEAN]
      /\ pending'.ar = None /\ pending'.aw = None /\ ~pending'.w
  BY <1>1, <1>2 DEF Cycle, PendingEdge, Held, PortInv, PortTypes
<1>9. Shows /\ Shows'
  BY <1>3 DEF Shows
<1>10. PortTypes'
  BY <1>3, <1>4, <1>5, <1>7, <1>8 DEF PortInv, PortTypes, LsuChannels
<1>11. SlotServesWalk'
  BY <1>2, <1>3, <1>4, <1>5 DEF SlotServesWalk
<1>12. PortInOrder'
  BY <1>3, <1>5, <1>8 DEF PortInOrder
<1>13. WalkInOrder' /\ LanesAreItsOwn' /\ Roles'
  BY <1>2, <1>7, <1>9, WaitingWalkKeeps DEF PortInv, WalkInOrder
<1> QED BY <1>10, <1>11, <1>12, <1>13 DEF PortInv

------------------------------------------------------------------------------
(* The whole port *)

\* Kills of the testbenches, and none, come while a request is on its way.
LEMMA StepKinds ==
    ASSUME KILLS # "any", PortInv, Next
    PROVE  \E port \in SUBSET Offered, kill \in BOOLEAN :
              /\ Cycle(kill, port)
              /\ kill => DrainedKill(port)
<1>1. CASE \E port \in SUBSET Offered : Cycle(FALSE, port)
  BY <1>1
<1>2. CASE \E port \in SUBSET Offered : KillAllowed(port) /\ Cycle(TRUE, port)
  BY <1>2 DEF KillAllowed
<1> QED BY <1>1, <1>2 DEF Next

LEMMA PortStep ==
    ASSUME KILLS # "any", PortInv, [Next]_vars
    PROVE  PortInv'
<1>1. CASE Next
  <2>1. PICK port \in SUBSET Offered, kill \in BOOLEAN :
           Cycle(kill, port) /\ (kill => DrainedKill(port))
    BY <1>1, StepKinds
  <2>2. kill => cop_mem_state \in {"launch", "wait"}
    BY <2>1 DEF DrainedKill
  <2>3. CASE cop_mem_state = "idle"
    <3>1. kill = FALSE
      BY <2>2, <2>3
    <3> QED BY <2>1, <2>3, <3>1, IdleStep
  <2>4. CASE cop_mem_state = "launch"
    BY <2>1, <2>4, LaunchStep
  <2>5. CASE cop_mem_state = "wait"
    BY <2>1, <2>5, WaitStep
  <2>6. CASE cop_mem_state = "done"
    <3>1. kill = FALSE
      BY <2>2, <2>6
    <3> QED BY <2>1, <2>6, <3>1, DoneStep
  <2>7. cop_mem_state \in {"idle", "launch", "wait", "done"}
    BY DEF PortInv, PortTypes
  <2> QED BY <2>3, <2>4, <2>5, <2>6, <2>7
<1>2. CASE UNCHANGED vars
  BY <1>2 DEF vars, serviceVars, PortInv, PortTypes, Roles, IsVector, SlotServesWalk, Shows,
              PortInOrder, WalkInOrder, LanesAreItsOwn
<1> QED BY <1>1, <1>2

LEMMA InitHolds == Init => PortInv
<1> SUFFICES ASSUME Init PROVE PortInv
  OBVIOUS
<1>1. PortTypes
  <2>1. << >> \in Seq(Address)
    OBVIOUS
  <2>2. slot \in [valid : BOOLEAN, resp_pending : BOOLEAN, store : BOOLEAN,
                 aw_done : BOOLEAN, w_done : BOOLEAN, addr : Address \cup {None}]
    BY DEF Init, ServiceInit, EmptySlot
  <2>3. pending \in [ar : Held, aw : Held, w : BOOLEAN]
    BY DEF Init, Held
  <2>4. cop_mem_rdata_r \in Held /\ lsu \in LsuChannels
    BY DEF Init, ServiceInit, Held, LsuChannels
  <2> QED BY <2>1, <2>2, <2>3, <2>4 DEF Init, ServiceInit, PortTypes
<1>2. Roles /\ SlotServesWalk /\ WalkInOrder /\ LanesAreItsOwn
  BY DEF Init, ServiceInit, EmptySlot, Roles, SlotServesWalk, Shows, WalkInOrder, LanesAreItsOwn
<1>3. PortInOrder
  BY DEF Init, ServiceInit, PortInOrder
<1> QED BY <1>1, <1>2, <1>3 DEF PortInv

\* What the service, the walk, the load/store unit and memory agree on holds in
\* every reachable state, with the testbenches' kills or with none.
THEOREM PortInvariant ==
    ASSUME KILLS # "any"
    PROVE  Spec => []PortInv
<1>1. PortInv /\ [Next]_vars => PortInv'
  BY PortStep
<1> QED BY <1>1, InitHolds, PTL DEF Spec

\* One transaction is in flight, and it is its owner's.
THEOREM OneOwner ==
    ASSUME KILLS # "any"
    PROVE  Spec => []OneOwnerInFlight
<1>1. PortInv => OneOwnerInFlight
  <2> SUFFICES ASSUME PortInv PROVE OneOwnerInFlight
    OBVIOUS
  <2>1. CASE cop_mem_state = "idle"
    BY <2>1 DEF PortInv, PortTypes, LsuChannels, SlotServesWalk, PortInOrder, OneOwnerInFlight,
                AddressOut
  <2>2. CASE cop_mem_state # "idle"
    <3>1. lsu = {} /\ slot.valid /\ AddressOut(SCALAR) = slot.addr
      BY <2>2, PortOfService
    <3> QED BY <2>2, <3>1 DEF PortInv, PortTypes, PortInOrder, OneOwnerInFlight
  <2> QED BY <2>1, <2>2
<1> QED BY <1>1, PortInvariant, PTL

\* The slot's bits tell what memory holds for it.
THEOREM SlotIsTrue ==
    ASSUME KILLS # "any"
    PROVE  Spec => []SlotTellsMemory
<1>1. PortInv => SlotTellsMemory
  BY VectorMemoryAssumption DEF PortInv, PortTypes, SlotServesWalk, PortInOrder, SlotTellsMemory
<1> QED BY <1>1, PortInvariant, PTL

\* docs/vector/vector-memory-access.md:144: a vector load is made of what was
\* read for it, lane by lane.
THEOREM LoadsOwnLanes ==
    ASSUME KILLS # "any"
    PROVE  Spec => []LanesAreItsOwn
<1>1. PortInv => LanesAreItsOwn
  BY DEF PortInv
<1> QED BY <1>1, PortInvariant, PTL

------------------------------------------------------------------------------
(* The walk of the abstract specification *)

\* Memory answers for a vector access only while the service waits for it.
LEMMA AnswerIsOfSlot ==
    ASSUME PortInv, NEW port \in SUBSET Offered, Answered(port) \in Address
    PROVE  /\ cop_mem_state = "wait" /\ resp_wait_fire(Fires(port))
           /\ slot.valid /\ Answered(port) = slot.addr
<1>1. None \notin Address /\ SCALAR \notin Address
  BY VectorMemoryAssumption
<1>2. "r" \in Fires(port) => Answered(port) = pending.ar
  BY DEF Answered
<1>3. "r" \notin Fires(port) => "b" \in Fires(port) /\ Answered(port) = pending.aw
  BY <1>1 DEF Answered
<1>4. cop_mem_state # "idle"
  <2> SUFFICES ASSUME cop_mem_state = "idle" PROVE FALSE
    OBVIOUS
  <2>1. pending.ar \in {None, SCALAR} /\ pending.aw \in {None, SCALAR}
    BY DEF PortInv, PortInOrder
  <2> QED BY <1>1, <1>2, <1>3, <2>1
<1>5. cop_mem_state # "launch"
  <2> SUFFICES ASSUME cop_mem_state = "launch" PROVE FALSE
    OBVIOUS
  <2>1. pending.ar = None
    BY DEF PortInv, PortInOrder
  <2>2. "b" \notin Fires(port)
    <3>1. CASE slot.store
      BY <1>4, <3>1, PortOfService
    <3>2. CASE ~slot.store
      BY <1>4, <3>2, PortOfService
    <3> QED BY <3>1, <3>2
  <2> QED BY <1>1, <1>2, <1>3, <2>1, <2>2
<1>6. cop_mem_state # "done"
  BY <1>2, <1>3, <1>4, PortOfService
<1>7. cop_mem_state = "wait"
  BY <1>4, <1>5, <1>6 DEF PortInv, PortTypes
<1>8. /\ slot.valid /\ Fires(port) = (IF slot.store THEN {"b"} ELSE {"r"}) \cap port
  BY <1>4, <1>7, PortOfService
<1>9. /\ slot.resp_pending
      /\ slot.store => pending.aw = slot.addr
      /\ ~slot.store => pending.ar = slot.addr
  BY <1>7 DEF PortInv, PortInOrder
<1> QED BY <1>2, <1>3, <1>7, <1>8, <1>9 DEF resp_wait_fire

\* A kill abandons the walk.
LEMMA KillAbandons ==
    ASSUME PortInv, NEW port \in SUBSET Offered, DrainedKill(port), Cycle(TRUE, port)
    PROVE  Walk!Abandon
<1>1. walk # None /\ walk' = None /\ execute \in Access
  BY DEF DrainedKill, Cycle, CopEdge, CopFlush, PortInv, Roles, IsVector
<1>2. touched' = touched
  <2>1. Answered(port) \notin Address \/ cop_mem_killed_r
    BY AnswerIsOfSlot DEF DrainedKill
  <2> QED BY <1>1, <2>1 DEF Cycle, TouchedEdge
<1>3. execute # None
  BY <1>1, ModelValueAssumption
<1> QED BY <1>1, <1>2, <1>3 DEF Walk!Abandon

\* Without a walk the port works for the load/store unit, or for a killed
\* request, and a walk may start.
LEMMA NoWalkStep ==
    ASSUME PortInv, NEW port \in SUBSET Offered, walk = None, Cycle(FALSE, port)
    PROVE  Walk!Start \/ UNCHANGED Walk!walkVars
<1>1. CopAccept \/ Dispatch
  BY DEF Cycle, CopEdge, CopRespond, CopWait
<1>2. Answered(port) \notin Address \/ cop_mem_killed_r
  BY AnswerIsOfSlot DEF PortInv, SlotServesWalk
<1>3. IF walk = None /\ walk' # None THEN touched' = << >> ELSE touched' = touched
  BY <1>2, TouchedKeeps DEF Cycle, PortInv
<1>4. CASE CopAccept
  <2>1. execute' = execute /\ execute \in [store : BOOLEAN, base : Base]
    BY <1>4 DEF CopAccept, IsVector, Access
  <2>2. walk' = [lane |-> 0, read |-> << >>]
    BY <1>4 DEF CopAccept
  <2>3. walk' # None
    <3>1. 0 \in 0 .. LAST /\ << >> \in Seq(Address)
      BY VectorMemoryAssumption
    <3>2. [lane |-> 0, read |-> << >>] \in Progress
      BY <3>1 DEF Progress
    <3> QED BY <2>2, <3>2, ModelValueAssumption
  <2> QED BY <1>3, <2>1, <2>3 DEF Walk!Start
<1>5. CASE Dispatch
  <2>1. walk' = None
    BY <1>5 DEF Dispatch
  <2> QED BY <1>3, <2>1 DEF Walk!walkVars
<1> QED BY <1>1, <1>4, <1>5

\* A walk under way has its next lane performed, moves to the next lane, ends
\* after the last one, or waits.
LEMMA WalkStep ==
    ASSUME PortInv, NEW port \in SUBSET Offered, walk # None, Cycle(FALSE, port)
    PROVE  Walk!Touch \/ Walk!Finish \/ UNCHANGED Walk!walkVars
<1>1. /\ execute \in Access /\ execute # None
      /\ walk.lane \in 0 .. LAST /\ LAST \in Nat /\ touched \in Seq(Address)
      /\ Len(touched) = walk.lane + (IF Shows THEN 1 ELSE 0)
  BY VectorMemoryAssumption, ModelValueAssumption
     DEF PortInv, Roles, IsVector, PortTypes, Progress, WalkInOrder
<1>2. touched' = IF Answered(port) \in Address /\ ~cop_mem_killed_r
                 THEN Append(touched, Answered(port)) ELSE touched
  BY DEF Cycle, TouchedEdge
<1>3. CASE cop_mem_resp_valid
  <2>1. CopRespond
    BY <1>1, <1>3 DEF Cycle, CopEdge, CopAccept, CopWait, Dispatch, IsVector
  <2>2. Shows /\ cop_mem_state = "idle"
    BY <1>3 DEF cop_mem_resp_valid, Shows, PortInv, SlotServesWalk
  <2>3. touched' = touched
    BY <1>2, <2>2, AnswerIsOfSlot
  <2>4. CASE walk.lane = LAST
    <3>1. walk' = None
      BY <2>1, <2>4 DEF CopRespond
    <3>2. Len(touched) = LAST + 1
      BY <1>1, <2>2, <2>4
    <3> QED BY <1>1, <2>3, <3>1, <3>2 DEF Walk!Finish
  <2>5. CASE walk.lane # LAST
    <3>1. execute' = execute
      BY <2>1, <2>5 DEF CopRespond
    <3>2. walk' # None
      <4>1. walk' = [lane |-> walk.lane + 1, read |-> Append(walk.read, cop_mem_rdata_r)]
        BY <2>1, <2>5 DEF CopRespond
      <4>2. walk'.lane = walk.lane + 1
        BY <4>1
      <4>3. cop_mem_rdata_r \in Address
        BY <1>1, <2>2, LaneAddress DEF PortInv, SlotServesWalk
      <4>4. walk.read \in Seq(Address)
        BY DEF PortInv, PortTypes, Progress
      <4>5. walk.lane + 1 \in 0 .. LAST /\ Append(walk.read, cop_mem_rdata_r) \in Seq(Address)
        BY <1>1, <2>5, <4>3, <4>4
      <4>6. walk' \in Progress
        BY <4>1, <4>5 DEF Progress
      <4> QED BY <4>6, ModelValueAssumption
    <3> QED BY <2>3, <3>1, <3>2 DEF Walk!walkVars
  <2> QED BY <2>4, <2>5
<1>4. CASE ~cop_mem_resp_valid
  <2>1. walk' = walk /\ execute' = execute
    BY <1>1, <1>4 DEF Cycle, CopEdge, CopAccept, CopRespond, CopWait, Dispatch, IsVector
  <2>2. CASE Answered(port) \in Address /\ ~cop_mem_killed_r
    <3>1. cop_mem_state = "wait" /\ slot.valid /\ Answered(port) = slot.addr
      BY <2>2, AnswerIsOfSlot
    <3>2. ~Shows /\ slot.addr = execute.base + walk.lane
      BY <2>2, <3>1 DEF Shows, PortInv, SlotServesWalk
    <3>3. Len(touched) = walk.lane /\ Len(touched) <= LAST
      BY <1>1, <3>2
    <3>4. touched' = Append(touched, execute.base + Len(touched))
      BY <1>2, <2>2, <3>1, <3>2, <3>3
    <3> QED BY <1>1, <2>1, <3>3, <3>4 DEF Walk!Touch
  <2>3. CASE ~(Answered(port) \in Address /\ ~cop_mem_killed_r)
    BY <1>2, <2>1, <2>3 DEF Walk!walkVars
  <2> QED BY <2>2, <2>3
<1> QED BY <1>3, <1>4

\* Memory performs the lanes of an access once each and in order, up to its end
\* or to the kill that abandons it.
THEOREM Refinement ==
    ASSUME KILLS # "any"
    PROVE  Spec => ImplementsVectorWalk
<1>1. Init => Walk!WalkInit
  BY DEF Init, Walk!WalkInit
<1>2. PortInv /\ [Next]_vars =>
         [Walk!Start \/ Walk!Touch \/ Walk!Finish \/ Walk!Abandon]_(Walk!walkVars)
  <2> SUFFICES ASSUME PortInv, [Next]_vars
               PROVE  [Walk!Start \/ Walk!Touch \/ Walk!Finish \/ Walk!Abandon]_(Walk!walkVars)
    OBVIOUS
  <2>1. CASE Next
    <3>1. PICK port \in SUBSET Offered, kill \in BOOLEAN :
             Cycle(kill, port) /\ (kill => DrainedKill(port))
      BY <2>1, StepKinds
    <3>2. CASE kill
      <4>1. Cycle(TRUE, port) /\ DrainedKill(port)
        BY <3>1, <3>2
      <4> QED BY <4>1, KillAbandons
    <3>3. CASE ~kill
      <4>1. Cycle(FALSE, port)
        BY <3>1, <3>3
      <4>2. CASE walk = None
        BY <4>1, <4>2, NoWalkStep
      <4>3. CASE walk # None
        BY <4>1, <4>3, WalkStep
      <4> QED BY <4>2, <4>3
    <3> QED BY <3>2, <3>3
  <2>2. CASE UNCHANGED vars
    BY <2>2 DEF vars, Walk!walkVars
  <2> QED BY <2>1, <2>2
<1> QED BY <1>1, <1>2, PortInvariant, PTL DEF Spec, ImplementsVectorWalk, Walk!WalkSpec
=============================================================================
