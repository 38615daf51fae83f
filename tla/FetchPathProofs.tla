-------------------------- MODULE FetchPathProofs --------------------------
(***************************************************************************)
(* For every size of the cache, every set of transactions and every length *)
(* of a chain: memory answers the port it was asked by, the way used last  *)
(* is never the way replaced next, and fetches are fresh.                  *)
(***************************************************************************)
EXTENDS FetchPath, TLAPS

\* The replacement tree of both caches: the way an access touched is not the next
\* victim, so that the line just fetched or just hit survives the next refill.
THEOREM LastUsedIsKept ==
    ASSUME NEW p \in Tree, NEW w \in Ways
    PROVE  /\ Touch(p, w) \in Tree
           /\ victim_way(p) \in Ways
           /\ victim_way(Touch(p, w)) # w
<1>1. w \in {0, 1, 2, 3}
  BY DEF Ways
<1>2. victim_way(p) \in Ways
  BY DEF victim_way, Ways
<1>3. 0 \in 0 .. 2 /\ 1 \in 0 .. 2 /\ 2 \in 0 .. 2
  OBVIOUS
<1>4. DOMAIN p = 0 .. 2
  BY DEF Tree
<1>5. CASE w = 0
  <2>1. Touch(p, w) = [p EXCEPT ![0] = TRUE, ![1] = TRUE]
    BY <1>5 DEF Touch
  <2>2. Touch(p, w)[0] = TRUE /\ Touch(p, w)[1] = TRUE
    BY <1>3, <1>4, <2>1
  <2>3. victim_way(Touch(p, w)) # w
    BY <1>5, <2>2 DEF victim_way
  <2>4. Touch(p, w) \in Tree
    BY <2>1 DEF Tree
  <2>5. QED
    BY <1>2, <1>5, <2>3, <2>4
<1>6. CASE w = 1
  <2>1. Touch(p, w) = [p EXCEPT ![0] = TRUE, ![1] = FALSE]
    BY <1>6 DEF Touch
  <2>2. Touch(p, w)[0] = TRUE /\ Touch(p, w)[1] = FALSE
    BY <1>3, <1>4, <2>1
  <2>3. victim_way(Touch(p, w)) # w
    BY <1>6, <2>2 DEF victim_way
  <2>4. Touch(p, w) \in Tree
    BY <2>1 DEF Tree
  <2>5. QED
    BY <1>2, <1>6, <2>3, <2>4
<1>7. CASE w = 2
  <2>1. Touch(p, w) = [p EXCEPT ![0] = FALSE, ![2] = TRUE]
    BY <1>7 DEF Touch
  <2>2. Touch(p, w)[0] = FALSE /\ Touch(p, w)[2] = TRUE
    BY <1>3, <1>4, <2>1
  <2>3. victim_way(Touch(p, w)) # w
    BY <1>7, <2>2 DEF victim_way
  <2>4. Touch(p, w) \in Tree
    BY <2>1 DEF Tree
  <2>5. QED
    BY <1>2, <1>7, <2>3, <2>4
<1>8. CASE w = 3
  <2>1. Touch(p, w) = [p EXCEPT ![0] = FALSE, ![2] = FALSE]
    BY <1>8 DEF Touch
  <2>2. Touch(p, w)[0] = FALSE /\ Touch(p, w)[2] = FALSE
    BY <1>3, <1>4, <2>1
  <2>3. victim_way(Touch(p, w)) # w
    BY <1>8, <2>2 DEF victim_way
  <2>4. Touch(p, w) \in Tree
    BY <2>1 DEF Tree
  <2>5. QED
    BY <1>2, <1>8, <2>3, <2>4
<1>9. QED
  BY <1>1, <1>5, <1>6, <1>7, <1>8

\* What memory has accepted, and under which grant.
OwnerHasGrant(s, g) ==
    s # None => /\ DOMAIN s = {"kind", "addr", "beat", "shown", "by"}
                /\ g = (IF s.by = "ifu" THEN "ifu_ram" ELSE "lsu_ram")

\* While memory serves, a grant ends only on the edge that ends the transaction.
LEMMA GrantLasts ==
    ASSUME NEW fence_i, NEW redirect, NEW ready, NEW show,
           OwnerHasGrant(serving, grant),
           serving # None, serving' # None,
           Cycle(fence_i, redirect, ready, show)
    PROVE  grant' = grant
<1>1. CASE grant = "ifu_ram"
  <2>1. ~(rvalid /\ rlast /\ axi_rready)
    BY <1>1 DEF Cycle, MemoryEdge, sram_rready, ToRam
  <2>2. QED
    BY <1>1, <2>1 DEF Cycle, XbarEdge, ifu_ram_finish
<1>2. CASE grant = "lsu_ram"
  <2>1. ~(rvalid /\ rlast /\ lsu_rready) /\ ~(bvalid /\ lsu_bready)
    BY <1>2 DEF Cycle, MemoryEdge, sram_rready, sram_bready, ToRam
  <2>2. QED
    BY <1>2, <2>1 DEF Cycle, XbarEdge, lsu_ram_finish
<1>3. QED
  BY <1>1, <1>2 DEF OwnerHasGrant

\* A transaction is accepted only under the grant of the port that drives it, and
\* on that edge the grant stays: nothing has ended.
LEMMA GrantOfTheAsker ==
    ASSUME NEW fence_i, NEW redirect, NEW ready, NEW show,
           serving = None, serving' # None,
           Cycle(fence_i, redirect, ready, show)
    PROVE  OwnerHasGrant(serving', grant')
<1>1. sram_arvalid \/ sram_awvalid
  BY DEF Cycle, MemoryEdge
<1>2. grant \in {"ifu_ram", "lsu_ram"}
  BY <1>1 DEF sram_arvalid, sram_awvalid, ToRam
<1>3. grant' = grant
  BY <1>2 DEF Cycle, XbarEdge, ifu_ram_finish, lsu_ram_finish, rvalid, bvalid
<1>4. /\ DOMAIN serving' = {"kind", "addr", "beat", "shown", "by"}
      /\ serving'.by = IF grant = "ifu_ram" THEN "ifu" ELSE "lsu"
  BY DEF Cycle, MemoryEdge
<1>5. QED
  BY <1>2, <1>3, <1>4 DEF OwnerHasGrant

LEMMA OwnerStep ==
    ASSUME OwnerHasGrant(serving, grant), [Next]_vars
    PROVE  OwnerHasGrant(serving', grant')
<1>1. CASE UNCHANGED vars
  BY <1>1 DEF vars, OwnerHasGrant
<1>2. CASE Next
  <2>1. PICK fence_i, redirect, answers \in BOOLEAN : Cycle(fence_i, redirect, answers, answers)
    BY <1>2 DEF Next
  <2>2. CASE serving' = None
    BY <2>2 DEF OwnerHasGrant
  <2>3. CASE serving = None /\ serving' # None
    BY <2>1, <2>3, GrantOfTheAsker
  <2>4. CASE serving # None /\ serving' # None
    <3>1. grant' = grant
      BY <2>1, <2>4, GrantLasts
    <3>2. DOMAIN serving' = DOMAIN serving /\ serving'.by = serving.by
      BY <2>1, <2>4 DEF Cycle, MemoryEdge, OwnerHasGrant
    <3>3. QED
      BY <2>4, <3>1, <3>2 DEF OwnerHasGrant
  <2>5. QED
    BY <2>2, <2>3, <2>4
<1>3. QED
  BY <1>1, <1>2

\* Xbar.v: a response always finds the grant of the port that asked for it.
THEOREM ResponsesAlwaysReachOwner == Spec => []ResponsesReachOwner
<1> DEFINE Inv == OwnerHasGrant(serving, grant)
<1>1. Init => Inv
  BY DEF Init, OwnerHasGrant
<1>2. Inv /\ [Next]_vars => Inv'
  BY OwnerStep
<1>3. Inv => ResponsesReachOwner
  BY DEF OwnerHasGrant, ResponsesReachOwner
<1>4. QED
  BY <1>1, <1>2, <1>3, PTL DEF Spec

-----------------------------------------------------------------------------
(* Fetches are fresh *)

Refilling == serving # None /\ serving.by = "ifu"

\* Every register holds a value of its sort.
LineTypes == /\ DOMAIN lines = Index
             /\ \A i \in Index : DOMAIN lines[i] = Ways
             /\ \A i \in Index, w \in Ways :
                   /\ DOMAIN lines[i][w] = {"tag", "valid", "data"}
                   /\ DOMAIN lines[i][w].data = Word
                   /\ lines[i][w].valid \in BOOLEAN
                   /\ lines[i][w].valid => lines[i][w].tag \in Tag
FetchTypes == /\ LineTypes
              /\ addr \in Fetches
              /\ araddr \in Blocks
              /\ victim_way_lat \in Ways
              /\ read_index \in Word
              /\ <<idle, axi_arvalid, axi_rready>> \in BOOLEAN \X BOOLEAN \X BOOLEAN

\* The word k of a way is one that memory has held.
Fresh(i, w, k) ==
    lines[i][w].data[k] \in held[[tag |-> lines[i][w].tag, index |-> i, word |-> k]]

\* Memory serves fetch only between the accepted address and the last beat, and
\* at the beat the cache expects.  The line has what came so far.
RefillInStep ==
    /\ Refilling => /\ serving \in Transaction
                    /\ serving.kind = "read" /\ serving.addr = araddr
                    /\ serving.beat = read_index
                    /\ ~idle /\ ~axi_arvalid
                    /\ ~lines[araddr.index][victim_way_lat].valid
                    /\ lines[araddr.index][victim_way_lat].tag = araddr.tag
                    /\ \A k \in Word : k < read_index => Fresh(araddr.index, victim_way_lat, k)
    /\ axi_rready => Refilling /\ serving.shown
    /\ axi_arvalid => ~idle

LinesAreFresh == \A i \in Index, w \in Ways : lines[i][w].valid =>
                    \A k \in Word : Fresh(i, w, k)
MemoryIsHeld == \A a \in Address : ram[a] \in held[a]

FetchInv == /\ OwnerHasGrant(serving, grant)
            /\ FetchTypes
            /\ RefillInStep
            /\ LinesAreFresh
            /\ MemoryIsHeld

\* The first of some ways.
LEMMA FirstWay ==
    ASSUME NEW S \in SUBSET Ways, S # {}
    PROVE  \E w \in S : \A v \in S : w <= v
<1>1. \A v \in S : v \in {0, 1, 2, 3}
  BY DEF Ways
<1>2. CASE 0 \in S
  BY <1>1, <1>2
<1>3. CASE 0 \notin S /\ 1 \in S
  BY <1>1, <1>3
<1>4. CASE 0 \notin S /\ 1 \notin S /\ 2 \in S
  BY <1>1, <1>4
<1>5. CASE 0 \notin S /\ 1 \notin S /\ 2 \notin S
  BY <1>1, <1>5
<1> QED BY <1>2, <1>3, <1>4, <1>5

LEMMA HitIsValid ==
    ASSUME NEW a \in Address, hit(a)
    PROVE  /\ hit_way_sel(a) \in Ways
           /\ lines[a.index][hit_way_sel(a)].valid
           /\ lines[a.index][hit_way_sel(a)].tag = a.tag
<1>1. \E w \in HitWays(a) : \A v \in HitWays(a) : w <= v
  BY FirstWay DEF HitWays, hit
<1>2. hit_way_sel(a) \in HitWays(a)
  BY <1>1, Zenon DEF hit_way_sel
<1> QED BY <1>2 DEF HitWays

\* A valid line has a fresh value of each of its words.
LEMMA HitsAreFresh == FetchInv => FetchIsFresh
<1> SUFFICES ASSUME FetchInv, hit(addr)
             PROVE  data(addr) \in held[addr]
  BY DEF FetchIsFresh
<1>1. addr \in Address /\ addr.index \in Index /\ addr.word \in Word
  BY FetchPathAssumption DEF FetchInv, FetchTypes, Address
<1> DEFINE w == hit_way_sel(addr)
<1>2. w \in Ways /\ lines[addr.index][w].valid /\ lines[addr.index][w].tag = addr.tag
  BY <1>1, HitIsValid
<1> HIDE DEF w
<1>3. Fresh(addr.index, w, addr.word)
  BY <1>1, <1>2 DEF FetchInv, LinesAreFresh
<1>4. addr = [tag |-> addr.tag, index |-> addr.index, word |-> addr.word]
  BY <1>1 DEF Address
<1>5. data(addr) = lines[addr.index][w].data[addr.word]
  BY DEF data, w
<1> QED BY <1>2, <1>3, <1>4, <1>5 DEF Fresh

\* The values a word has had are kept but for an invalidation.
LEMMA HeldKept ==
    ASSUME MemoryIsHeld, NEW fence_i \in BOOLEAN, HeldEdge(fence_i)
    PROVE  /\ MemoryIsHeld'
           /\ ~Invalidates(fence_i) =>
                 \A a \in Address : held[a] \subseteq held'[a] /\ ram[a] \in held'[a]
BY DEF MemoryIsHeld, HeldEdge

\* What memory serves of a refill moves with the cache.
LEMMA ServingStep ==
    ASSUME FetchInv, NEW fence_i \in BOOLEAN, NEW redirect \in BOOLEAN,
           NEW ready \in BOOLEAN, NEW show \in BOOLEAN,
           Cycle(fence_i, redirect, ready, show)
    PROVE  LET fires == axi_arvalid /\ grant = "ifu_ram" /\ ready /\ serving = None
               taken == Refilling /\ axi_rready
           IN /\ Refilling' => serving' \in Transaction /\ serving'.kind = "read"
              /\ fires => /\ Refilling' /\ serving'.addr = araddr
                          /\ serving'.beat = 0 /\ serving'.shown = FALSE
              /\ ~fires /\ ~Refilling => ~Refilling'
              /\ Refilling => grant = "ifu_ram" /\ serving # None
              /\ Refilling /\ ~taken =>
                    /\ Refilling' /\ serving'.addr = serving.addr
                    /\ serving'.beat = serving.beat
                    /\ serving'.shown = (serving.shown \/ show)
              /\ taken => rvalid
              /\ taken /\ serving.beat = LAST_WORD => serving' = None
              /\ taken /\ serving.beat # LAST_WORD =>
                    /\ Refilling' /\ serving'.addr = serving.addr
                    /\ serving'.beat = serving.beat + 1 /\ serving'.shown = show
<1> DEFINE fires == axi_arvalid /\ grant = "ifu_ram" /\ ready /\ serving = None
           taken == Refilling /\ axi_rready
<1>1. MemoryEdge(ready, show)
  BY DEF Cycle
<1>2. ASSUME fires
      PROVE  /\ Refilling' /\ serving' \in Transaction /\ serving'.kind = "read" /\ serving'.addr = araddr
             /\ serving'.beat = 0 /\ serving'.shown = FALSE
  <2>1. sram_arvalid /\ sram_araddr = araddr
    BY <1>2 DEF sram_arvalid, sram_araddr, ToRam
  <2>2. serving' = [kind |-> "read", addr |-> araddr, beat |-> 0, shown |-> FALSE, by |-> "ifu"]
    BY <1>1, <1>2, <2>1 DEF MemoryEdge
  <2>4. araddr \in Address /\ 0 \in Word
    BY ICacheAssumption DEF FetchInv, FetchTypes, Blocks, BlockOf, Address, Word
  <2>5. serving' \in Transaction
    BY <2>2, <2>4 DEF Transaction
  <2>3. serving' # None
    BY <2>5, ModelValueAssumption
  <2> QED BY <2>2, <2>3, <2>5 DEF Refilling
<1>3. ASSUME ~fires, ~Refilling
      PROVE  ~Refilling'
  <2>1. CASE serving = None
    BY <1>1, <1>3, <2>1 DEF MemoryEdge, sram_arvalid, sram_awvalid, ToRam, Refilling
  <2>2. CASE serving # None
    <3>1. serving.by # "ifu" /\ DOMAIN serving = {"kind", "addr", "beat", "shown", "by"}
      BY <1>3, <2>2 DEF Refilling, FetchInv, OwnerHasGrant
    <3> QED BY <1>1, <2>2, <3>1 DEF MemoryEdge, Refilling
  <2> QED BY <2>1, <2>2
<1>4. ASSUME Refilling
      PROVE  /\ grant = "ifu_ram" /\ serving # None /\ serving.by = "ifu"
             /\ DOMAIN serving = {"kind", "addr", "beat", "shown", "by"}
             /\ serving.kind = "read" /\ serving.shown \in BOOLEAN
             /\ ~bvalid
             /\ rvalid <=> serving.shown
             /\ rlast <=> serving.beat = LAST_WORD
             /\ sram_rready <=> axi_rready
  <2>1. /\ grant = "ifu_ram" /\ serving # None /\ serving.by = "ifu"
        /\ DOMAIN serving = {"kind", "addr", "beat", "shown", "by"}
        /\ serving.kind = "read" /\ serving.shown \in BOOLEAN
    BY <1>4 DEF Refilling, FetchInv, OwnerHasGrant, RefillInStep, Transaction
  <2>2. ~bvalid /\ (rvalid <=> serving.shown) /\ (rlast <=> serving.beat = LAST_WORD)
    BY <2>1 DEF rvalid, bvalid, rlast
  <2>3. axi_rready \in BOOLEAN
    BY DEF FetchInv, FetchTypes
  <2>4. sram_rready <=> axi_rready
    BY <2>1, <2>3 DEF sram_rready, ToRam
  <2> QED BY <2>1, <2>2, <2>4
<1>5. taken => rvalid /\ sram_rready /\ axi_rready
  BY <1>4 DEF FetchInv, RefillInStep, FetchTypes
<1>6. ASSUME Refilling, ~taken
      PROVE  /\ Refilling' /\ serving' \in Transaction /\ serving'.kind = "read" /\ serving'.addr = serving.addr
             /\ serving'.beat = serving.beat
             /\ serving'.shown = (serving.shown \/ show)
  <2>1. ~sram_rready
    BY <1>4, <1>6
  <2>2. serving' = [serving EXCEPT !.shown = @ \/ show]
    BY <1>1, <1>4, <1>6, <2>1 DEF MemoryEdge
  <2>3. serving' \in Transaction
    BY <1>6, <2>2 DEF FetchInv, RefillInStep, Transaction
  <2>4. serving' # None
    BY <2>3, ModelValueAssumption
  <2>5. serving'.kind = "read" /\ serving'.addr = serving.addr /\ serving'.beat = serving.beat
    BY <1>4, <1>6, <2>2
  <2>6. serving'.by = "ifu"
    BY <1>4, <1>6, <2>2
  <2>7. serving'.shown = (serving.shown \/ show)
    BY <1>4, <1>6, <2>2
  <2> QED BY <2>3, <2>4, <2>5, <2>6, <2>7 DEF Refilling
<1>7. ASSUME taken, serving.beat = LAST_WORD
      PROVE  serving' = None
  BY <1>1, <1>4, <1>5, <1>7 DEF MemoryEdge
<1>8. ASSUME taken, serving.beat # LAST_WORD
      PROVE  /\ Refilling' /\ serving' \in Transaction /\ serving'.kind = "read" /\ serving'.addr = serving.addr
             /\ serving'.beat = serving.beat + 1 /\ serving'.shown = show
  <2>1. serving' = [serving EXCEPT !.beat = @ + 1, !.shown = show]
    BY <1>1, <1>4, <1>5, <1>8 DEF MemoryEdge
  <2>2. serving.beat + 1 \in Word
    BY <1>8, ICacheAssumption DEF FetchInv, RefillInStep, Transaction, Word
  <2>3. serving' \in Transaction
    BY <1>8, <2>1, <2>2 DEF FetchInv, RefillInStep, Transaction
  <2>4. serving' # None
    BY <2>3, ModelValueAssumption
  <2>5. /\ serving'.kind = "read" /\ serving'.addr = serving.addr
        /\ serving'.beat = serving.beat + 1 /\ serving'.shown = show
    BY <1>4, <1>8, <2>1
  <2>6. serving'.by = "ifu"
    BY <1>4, <1>8, <2>1
  <2> QED BY <2>3, <2>4, <2>5, <2>6 DEF Refilling
<1>9. Refilling' => serving' \in Transaction /\ serving'.kind = "read"
  <2>1. serving' = None => ~Refilling'
    BY DEF Refilling
  <2> QED BY <1>2, <1>3, <1>6, <1>7, <1>8, <2>1
<1> QED BY <1>2, <1>3, <1>4, <1>5, <1>6, <1>7, <1>8, <1>9

\* The cache's side of an edge, apart from its lines.
LEMMA CacheStep ==
    ASSUME FetchInv, NEW fence_i \in BOOLEAN, NEW redirect \in BOOLEAN,
           NEW ready \in BOOLEAN, NEW show \in BOOLEAN,
           Cycle(fence_i, redirect, ready, show)
    PROVE  LET fires == axi_arvalid /\ grant = "ifu_ram" /\ ready /\ serving = None
               taken == Refilling /\ axi_rready
           IN /\ addr' \in Fetches
              /\ araddr' \in Blocks
              /\ <<idle, axi_arvalid, axi_rready>>' \in BOOLEAN \X BOOLEAN \X BOOLEAN
              /\ victim_way_lat' \in Ways /\ read_index' \in Word
              /\ axi_arvalid' => ~idle'
              /\ axi_rready' => Refilling /\ rvalid /\ ~axi_rready
              /\ fires => /\ araddr' = araddr /\ read_index' = 0 /\ ~idle' /\ ~axi_arvalid'
                          /\ victim_way_lat' = victim_way(plru[araddr.index])
              /\ Refilling /\ ~(taken /\ serving.beat = LAST_WORD) =>
                    /\ araddr' = araddr /\ ~idle' /\ ~axi_arvalid'
                    /\ victim_way_lat' = victim_way_lat
                    /\ read_index' = IF taken THEN read_index + 1 ELSE read_index
<1> DEFINE fires == axi_arvalid /\ grant = "ifu_ram" /\ ready /\ serving = None
           taken == Refilling /\ axi_rready
<1>1. /\ FetchEdge(redirect) /\ MissEdge(addr, ToIfu(rlast))
      /\ ChannelEdge(addr, grant = "ifu_ram" /\ ready /\ serving = None, ToIfu(rvalid), ToIfu(rlast))
  BY DEF Cycle, ICacheEdge
<1>2. addr \in Address /\ addr \in Fetches /\ araddr \in Blocks
      /\ idle \in BOOLEAN /\ axi_arvalid \in BOOLEAN /\ axi_rready \in BOOLEAN
      /\ victim_way_lat \in Ways /\ read_index \in Word
  BY FetchPathAssumption DEF FetchInv, FetchTypes
<1>3. addr' \in Fetches
  BY <1>1, <1>2 DEF FetchEdge
<1>4. BlockOf(addr) \in Blocks /\ ZeroBlock \in Blocks
  <2>1. BlockOf(addr) \in Blocks
    BY <1>2 DEF Blocks
  <2> QED BY <2>1, Zenon DEF ZeroBlock
<1>5. araddr' \in Blocks
  BY <1>1, <1>2, <1>4 DEF MissEdge
<1>6. hit(addr) \in BOOLEAN /\ Miss(addr) \in BOOLEAN
  BY DEF hit, Miss
<1>7. ToIfu(rvalid) <=> Refilling /\ rvalid
  BY DEF ToIfu, Refilling, rvalid, FetchInv, OwnerHasGrant
<1>8. ToIfu(rlast) <=> Refilling /\ serving.beat = LAST_WORD
  BY DEF ToIfu, Refilling, rlast, FetchInv, OwnerHasGrant, RefillInStep
<1>9. taken => rvalid /\ serving.beat = read_index
  <2> SUFFICES ASSUME Refilling, axi_rready
               PROVE  rvalid /\ serving.beat = read_index
    OBVIOUS
  <2>1. serving # None /\ serving.kind = "read" /\ serving.shown /\ serving.beat = read_index
    BY DEF Refilling, FetchInv, RefillInStep
  <2> QED BY <2>1 DEF rvalid
<1>10. BurstEnds(ToIfu(rlast)) <=> taken /\ serving.beat = LAST_WORD
  BY <1>8 DEF BurstEnds
<1>11. victim_way(plru[araddr.index]) \in Ways
  BY DEF victim_way, Ways
<1>12. LAST_WORD \in Nat
  BY ICacheAssumption
<1>13. /\ axi_arvalid => ~idle /\ ~Refilling
       /\ Refilling => ~idle
       /\ axi_rready => Refilling
  BY DEF FetchInv, RefillInStep
<1> DEFINE next == (read_index + 1) % (LAST_WORD + 1)
<1>14. next \in Word /\ (read_index # LAST_WORD => next = read_index + 1)
  BY <1>2, <1>12 DEF Word
<1> HIDE DEF next
<1>15. idle' = (~Miss(addr) /\ (idle \/ (taken /\ serving.beat = LAST_WORD /\ hit(addr))))
  BY <1>1, <1>10 DEF MissEdge
<1>16. axi_arvalid' = (\/ Miss(addr)
                       \/ ~fires /\ (axi_arvalid \/ (taken /\ serving.beat = LAST_WORD /\ ~hit(addr))))
  BY <1>1, <1>10 DEF ChannelEdge
<1>17. axi_rready' = (Refilling /\ rvalid /\ ~axi_rready)
  BY <1>1, <1>7 DEF ChannelEdge
<1>18. /\ victim_way_lat' = IF fires THEN victim_way(plru[araddr.index]) ELSE victim_way_lat
       /\ read_index' = IF fires THEN 0 ELSE IF taken THEN next ELSE read_index
  BY <1>1, <1>7, <1>9, <1>13 DEF ChannelEdge, next
<1>19. araddr' = IF Miss(addr) \/ (taken /\ serving.beat = LAST_WORD /\ ~hit(addr)) THEN BlockOf(addr)
                 ELSE IF taken /\ serving.beat = LAST_WORD /\ hit(addr) THEN ZeroBlock ELSE araddr
  BY <1>1, <1>10 DEF MissEdge
<1>20. Miss(addr) => idle /\ ~hit(addr)
  BY DEF Miss
<1>21. 0 \in Word
  BY <1>12 DEF Word
<1>22. fires => ~Refilling
  BY DEF Refilling
<1>23. <<idle, axi_arvalid, axi_rready>>' \in BOOLEAN \X BOOLEAN \X BOOLEAN
  BY <1>2, <1>6, <1>15, <1>16, <1>17 DEF Refilling
<1>24. victim_way_lat' \in Ways /\ read_index' \in Word
  BY <1>2, <1>11, <1>14, <1>18, <1>21
<1>25. /\ axi_arvalid' => ~idle'
       /\ axi_rready' => Refilling /\ rvalid /\ ~axi_rready
  BY <1>13, <1>15, <1>16, <1>17, <1>20
<1>26. fires => /\ araddr' = araddr /\ read_index' = 0 /\ ~idle' /\ ~axi_arvalid'
                /\ victim_way_lat' = victim_way(plru[araddr.index])
  BY <1>13, <1>15, <1>16, <1>18, <1>19, <1>20, <1>22
<1>27. Refilling /\ ~(taken /\ serving.beat = LAST_WORD) =>
          /\ araddr' = araddr /\ ~idle' /\ ~axi_arvalid'
          /\ victim_way_lat' = victim_way_lat
          /\ read_index' = IF taken THEN read_index + 1 ELSE read_index
  BY <1>9, <1>13, <1>14, <1>15, <1>16, <1>18, <1>19, <1>20, <1>22
<1> QED BY <1>3, <1>5, <1>23, <1>24, <1>25, <1>26, <1>27

\* An edge that writes one way of one set, and what it leaves alone.
LineWritten(i, w, l) == lines' = [lines EXCEPT ![i][w] = l]

LEMMA OneLine ==
    ASSUME LineTypes, NEW i \in Index, NEW w \in Ways, NEW l,
           DOMAIN l = {"tag", "valid", "data"}, DOMAIN l.data = Word,
           l.valid \in BOOLEAN, l.valid => l.tag \in Tag,
           LineWritten(i, w, l)
    PROVE  /\ LineTypes'
           /\ lines'[i][w] = l
           /\ \A j \in Index, v \in Ways : j # i \/ v # w => lines'[j][v] = lines[j][v]
<1>1. /\ DOMAIN lines' = Index
      /\ \A j \in Index : lines'[j] = IF j = i THEN [lines[i] EXCEPT ![w] = l] ELSE lines[j]
  BY DEF LineWritten, LineTypes
<1>2. \A j \in Index : DOMAIN lines'[j] = Ways
  BY <1>1 DEF LineTypes
<1>3. lines'[i][w] = l
  BY <1>1 DEF LineTypes
<1>4. \A j \in Index, v \in Ways : j # i \/ v # w => lines'[j][v] = lines[j][v]
  BY <1>1 DEF LineTypes
<1>5. \A j \in Index, v \in Ways :
         /\ DOMAIN lines'[j][v] = {"tag", "valid", "data"}
         /\ DOMAIN lines'[j][v].data = Word
         /\ lines'[j][v].valid \in BOOLEAN
         /\ lines'[j][v].valid => lines'[j][v].tag \in Tag
  <2> TAKE j \in Index, v \in Ways
  <2>1. CASE j = i /\ v = w
    BY <1>3, <2>1
  <2>2. CASE j # i \/ v # w
    <3>1. lines'[j][v] = lines[j][v]
      BY <1>4, <2>2
    <3> QED BY <3>1 DEF LineTypes
  <2> QED BY <2>1, <2>2
<1> QED BY <1>1, <1>2, <1>3, <1>4, <1>5 DEF LineTypes

\* What was fresh stays fresh where nothing is written.
LEMMA FreshKept ==
    ASSUME NEW i \in Index, NEW w \in Ways, NEW k \in Word,
           lines[i][w].tag \in Tag, lines'[i][w] = lines[i][w],
           \A a \in Address : held[a] \subseteq held'[a],
           Fresh(i, w, k)
    PROVE  Fresh(i, w, k)'
<1> DEFINE a == [tag |-> lines[i][w].tag, index |-> i, word |-> k]
<1>1. a \in Address
  BY DEF Address
<1>2. held[a] \subseteq held'[a]
  BY <1>1
<1> QED BY <1>2 DEF Fresh

LEMMA RefillBlock ==
    ASSUME FetchTypes
    PROVE  /\ araddr.tag \in Tag /\ araddr.index \in Index
           /\ \A k \in Word : [araddr EXCEPT !.word = k]
                                = [tag |-> araddr.tag, index |-> araddr.index, word |-> k]
           /\ \A k \in Word : [tag |-> araddr.tag, index |-> araddr.index, word |-> k] \in Address
<1>1. PICK a \in Address : araddr = BlockOf(a)
  BY DEF FetchTypes, Blocks
<1>2. araddr \in Address
  BY <1>1, ICacheAssumption DEF BlockOf, Address, Word
<1> QED BY <1>2 DEF Address

\* The four things an edge can do to the lines, and that no way but the one it
\* writes loses what it has.
LEMMA LinesInvalidated ==
    ASSUME FetchInv, NEW fence_i \in BOOLEAN, NEW redirect \in BOOLEAN,
           NEW ready \in BOOLEAN, NEW show \in BOOLEAN,
           Cycle(fence_i, redirect, ready, show), Invalidates(fence_i)
    PROVE  /\ LineTypes' /\ LinesAreFresh' /\ ~Refilling'
<1>1. ~Refilling /\ ~axi_arvalid
  BY DEF Invalidates, FetchInv, RefillInStep
<1>2. ~Refilling'
  BY <1>1, ServingStep
<1>3. lines' = Emptied
  BY DEF Cycle, ICacheEdge, LinesEdge
<1>4. /\ DOMAIN lines' = Index
      /\ \A i \in Index : DOMAIN lines'[i] = Ways
      /\ \A i \in Index, w \in Ways : lines'[i][w] = [lines[i][w] EXCEPT !.valid = FALSE]
  BY <1>3 DEF Emptied
<1>5. \A i \in Index, w \in Ways :
         /\ DOMAIN lines'[i][w] = {"tag", "valid", "data"}
         /\ DOMAIN lines'[i][w].data = Word
         /\ lines'[i][w].valid = FALSE
  <2> TAKE i \in Index, w \in Ways
  <2>1. DOMAIN lines[i][w] = {"tag", "valid", "data"} /\ DOMAIN lines[i][w].data = Word
    BY DEF FetchInv, FetchTypes, LineTypes
  <2>2. lines'[i][w] = [lines[i][w] EXCEPT !.valid = FALSE]
    BY <1>4
  <2> QED BY <2>1, <2>2
<1>6. LineTypes'
  BY <1>4, <1>5 DEF LineTypes
<1>7. LinesAreFresh'
  BY <1>5 DEF LinesAreFresh
<1> QED BY <1>2, <1>6, <1>7

LEMMA LineClaimed ==
    ASSUME FetchInv, NEW fence_i \in BOOLEAN, NEW redirect \in BOOLEAN,
           NEW ready \in BOOLEAN, NEW show \in BOOLEAN,
           Cycle(fence_i, redirect, ready, show), ~Invalidates(fence_i),
           axi_arvalid, grant = "ifu_ram", ready, serving = None
    PROVE  /\ LineTypes' /\ LinesAreFresh'
           /\ LET l == lines'[araddr.index][victim_way(plru[araddr.index])]
              IN ~l.valid /\ l.tag = araddr.tag
<1> DEFINE i == araddr.index
           w == victim_way(plru[araddr.index])
           l == Claimed(lines[i][w])
<1>1. i \in Index /\ w \in Ways
  BY RefillBlock DEF FetchInv, victim_way, Ways
<1>2. LineTypes /\ DOMAIN lines[i][w] = {"tag", "valid", "data"} /\ DOMAIN lines[i][w].data = Word
  BY <1>1 DEF FetchInv, FetchTypes, LineTypes
<1>3. /\ DOMAIN l = {"tag", "valid", "data"} /\ DOMAIN l.data = Word
      /\ l.valid = FALSE /\ l.tag = araddr.tag
  BY <1>2 DEF Claimed
<1>4. LineWritten(i, w, l)
  BY DEF Cycle, ICacheEdge, LinesEdge, LineWritten
<1> HIDE DEF i, w, l
<1>5. /\ LineTypes' /\ lines'[i][w] = l
      /\ \A j \in Index, v \in Ways : j # i \/ v # w => lines'[j][v] = lines[j][v]
  BY <1>1, <1>2, <1>3, <1>4, OneLine
<1>6. LinesAreFresh'
  <2> SUFFICES ASSUME NEW j \in Index, NEW v \in Ways, lines'[j][v].valid, NEW k \in Word
               PROVE  Fresh(j, v, k)'
    BY DEF LinesAreFresh
  <2>1. lines'[j][v] = lines[j][v]
    BY <1>3, <1>5
  <2>2. lines[j][v].tag \in Tag /\ Fresh(j, v, k)
    BY <2>1 DEF FetchInv, FetchTypes, LineTypes, LinesAreFresh
  <2>3. \A a \in Address : held[a] \subseteq held'[a]
    BY HeldKept DEF FetchInv, Cycle
  <2> QED BY <2>1, <2>2, <2>3, FreshKept
<1> QED BY <1>3, <1>5, <1>6 DEF i, w

LEMMA LineFilled ==
    ASSUME FetchInv, NEW fence_i \in BOOLEAN, NEW redirect \in BOOLEAN,
           NEW ready \in BOOLEAN, NEW show \in BOOLEAN,
           Cycle(fence_i, redirect, ready, show), Refilling, axi_rready
    PROVE  /\ LineTypes' /\ LinesAreFresh'
           /\ LET l == lines'[araddr.index][victim_way_lat]
              IN /\ l.tag = araddr.tag
                 /\ serving.beat # LAST_WORD => ~l.valid
                 /\ \A k \in Word : k <= read_index => l.data[k] \in
                       held'[[tag |-> araddr.tag, index |-> araddr.index, word |-> k]]
<1> DEFINE i == araddr.index
           w == victim_way_lat
           last == ToIfu(rlast)
           l == Filled(lines[i][w], read_index, rdata, last)
<1>1. i \in Index /\ w \in Ways /\ read_index \in Word /\ araddr.tag \in Tag
  BY RefillBlock DEF FetchInv, FetchTypes
<1>2. LineTypes /\ DOMAIN lines[i][w] = {"tag", "valid", "data"} /\ DOMAIN lines[i][w].data = Word
  BY <1>1 DEF FetchInv, FetchTypes, LineTypes
<1>3. /\ ~lines[i][w].valid /\ lines[i][w].tag = araddr.tag
      /\ serving.beat = read_index /\ serving.addr = araddr /\ serving.kind = "read"
      /\ ~idle /\ ~axi_arvalid
  BY DEF FetchInv, RefillInStep
<1>4. grant = "ifu_ram" /\ rvalid
  BY ServingStep
<1>5. last <=> serving.beat = LAST_WORD
  BY <1>3, <1>4 DEF ToIfu, rlast, Refilling
<1>6. /\ DOMAIN l = {"tag", "valid", "data"} /\ DOMAIN l.data = Word
      /\ l.valid = (lines[i][w].valid \/ last) /\ l.tag = araddr.tag
      /\ l.data = [lines[i][w].data EXCEPT ![read_index] = rdata]
  BY <1>2, <1>3 DEF Filled
<1>7. LineWritten(i, w, l)
  BY <1>3, <1>4 DEF Cycle, ICacheEdge, LinesEdge, LineWritten, Invalidates, ToIfu, RefillWay
<1>8. l.valid <=> last
  BY <1>3, <1>6
<1>9. l.valid \in BOOLEAN
  BY <1>2, <1>6 DEF FetchInv, FetchTypes, LineTypes
<1> HIDE DEF last, l
<1>10. /\ LineTypes' /\ lines'[i][w] = l
       /\ \A j \in Index, v \in Ways : j # i \/ v # w => lines'[j][v] = lines[j][v]
  <2>1. DOMAIN l = {"tag", "valid", "data"} /\ DOMAIN l.data = Word /\ (l.valid => l.tag \in Tag)
    BY <1>1, <1>6
  <2> QED BY <1>1, <1>2, <1>7, <1>9, <2>1, OneLine
<1>11. ~Invalidates(fence_i)
  BY <1>3 DEF Invalidates
<1>12. \A a \in Address : held[a] \subseteq held'[a] /\ ram[a] \in held'[a]
  BY <1>11, HeldKept DEF FetchInv, Cycle
<1>13. ASSUME NEW k \in Word, k <= read_index
       PROVE  lines'[i][w].data[k] \in
                 held'[[tag |-> araddr.tag, index |-> araddr.index, word |-> k]]
  <2> DEFINE a == [tag |-> araddr.tag, index |-> araddr.index, word |-> k]
  <2>1. a \in Address /\ [araddr EXCEPT !.word = k] = a
    BY RefillBlock DEF FetchInv
  <2>2. CASE k = read_index
    <3>1. rdata = ram[a]
      BY <1>3, <2>1, <2>2 DEF rdata
    <3>2. l.data[k] = rdata
      BY <1>1, <1>2, <1>6, <2>2
    <3> QED BY <1>10, <1>12, <2>1, <3>1, <3>2
  <2>3. CASE k < read_index
    <3>1. l.data[k] = lines[i][w].data[k]
      BY <1>1, <1>2, <1>6, <2>3 DEF Word
    <3>2. Fresh(i, w, k)
      BY <2>3 DEF FetchInv, RefillInStep
    <3>3. lines[i][w].data[k] \in held[a]
      BY <1>3, <3>2 DEF Fresh
    <3> QED BY <1>10, <1>12, <2>1, <3>1, <3>3
  <2>4. k = read_index \/ k < read_index
    BY <1>1, <1>13 DEF Word
  <2> QED BY <2>2, <2>3, <2>4
<1>14. LinesAreFresh'
  <2> SUFFICES ASSUME NEW j \in Index, NEW v \in Ways, lines'[j][v].valid, NEW k \in Word
               PROVE  Fresh(j, v, k)'
    BY DEF LinesAreFresh
  <2>1. CASE j = i /\ v = w
    <3>1. read_index = LAST_WORD
      BY <1>3, <1>5, <1>8, <1>10, <2>1
    <3>2. k <= read_index
      BY <3>1, ICacheAssumption DEF Word
    <3>3. lines'[i][w].data[k] \in
             held'[[tag |-> araddr.tag, index |-> araddr.index, word |-> k]]
      BY <1>13, <3>2
    <3> QED BY <1>6, <1>10, <2>1, <3>3 DEF Fresh
  <2>2. CASE j # i \/ v # w
    <3>1. lines'[j][v] = lines[j][v]
      BY <1>10, <2>2
    <3>2. lines[j][v].tag \in Tag /\ Fresh(j, v, k)
      BY <3>1 DEF FetchInv, FetchTypes, LineTypes, LinesAreFresh
    <3> QED BY <1>12, <3>1, <3>2, FreshKept
  <2> QED BY <2>1, <2>2
<1> QED BY <1>5, <1>6, <1>8, <1>10, <1>13, <1>14

LEMMA LinesLeft ==
    ASSUME FetchInv, NEW fence_i \in BOOLEAN, NEW redirect \in BOOLEAN,
           NEW ready \in BOOLEAN, NEW show \in BOOLEAN,
           Cycle(fence_i, redirect, ready, show), ~Invalidates(fence_i),
           ~(axi_arvalid /\ grant = "ifu_ram" /\ ready /\ serving = None), ~axi_rready
    PROVE  lines' = lines /\ LineTypes' /\ LinesAreFresh'
<1>1. lines' = lines
  BY DEF Cycle, ICacheEdge, LinesEdge
<1>2. LineTypes'
  BY <1>1 DEF FetchInv, FetchTypes, LineTypes
<1>3. LinesAreFresh'
  <2> SUFFICES ASSUME NEW j \in Index, NEW v \in Ways, lines[j][v].valid, NEW k \in Word
               PROVE  Fresh(j, v, k)'
    BY <1>1 DEF LinesAreFresh
  <2>1. lines[j][v].tag \in Tag /\ Fresh(j, v, k)
    BY DEF FetchInv, FetchTypes, LineTypes, LinesAreFresh
  <2>2. \A a \in Address : held[a] \subseteq held'[a]
    BY HeldKept DEF FetchInv, Cycle
  <2> QED BY <1>1, <2>1, <2>2, FreshKept
<1> QED BY <1>1, <1>2, <1>3

LEMMA FetchStep ==
    ASSUME FetchInv, NEW fence_i \in BOOLEAN, NEW redirect \in BOOLEAN,
           NEW ready \in BOOLEAN, NEW show \in BOOLEAN,
           Cycle(fence_i, redirect, ready, show),
           OwnerHasGrant(serving', grant')
    PROVE  FetchInv'
<1> DEFINE fires == axi_arvalid /\ grant = "ifu_ram" /\ ready /\ serving = None
<1>1. MemoryIsHeld'
  BY HeldKept DEF FetchInv, Cycle
<1>2. /\ addr' \in Fetches /\ araddr' \in Blocks
      /\ victim_way_lat' \in Ways /\ read_index' \in Word
      /\ <<idle, axi_arvalid, axi_rready>>' \in BOOLEAN \X BOOLEAN \X BOOLEAN
      /\ axi_arvalid' => ~idle'
  BY CacheStep
<1>3. axi_rready' => Refilling' /\ serving'.shown
  <2> SUFFICES ASSUME axi_rready'
               PROVE  Refilling' /\ serving'.shown
    OBVIOUS
  <2>1. Refilling /\ rvalid /\ ~axi_rready
    BY CacheStep
  <2>2. serving.shown
    BY <2>1 DEF rvalid
  <2>3. Refilling' /\ serving'.shown = (serving.shown \/ show)
    BY <2>1, ServingStep
  <2> QED BY <2>2, <2>3
<1> DEFINE Step == /\ LineTypes' /\ LinesAreFresh'
                   /\ Refilling' =>
                         /\ serving' \in Transaction /\ serving'.kind = "read"
                         /\ serving'.addr = araddr' /\ serving'.beat = read_index'
                         /\ ~idle' /\ ~axi_arvalid'
                         /\ ~lines'[araddr'.index][victim_way_lat'].valid
                         /\ lines'[araddr'.index][victim_way_lat'].tag = araddr'.tag
                         /\ \A k \in Word : k < read_index' =>
                               Fresh(araddr.index, victim_way_lat, k)'
<1>4. Refilling' => serving' \in Transaction /\ serving'.kind = "read"
  BY ServingStep
<1>5. ASSUME Invalidates(fence_i)
      PROVE  Step
  BY <1>5, LinesInvalidated
<1>6. ASSUME ~Invalidates(fence_i) /\ fires
      PROVE  Step
  <2>1. /\ LineTypes' /\ LinesAreFresh'
        /\ ~lines'[araddr.index][victim_way(plru[araddr.index])].valid
        /\ lines'[araddr.index][victim_way(plru[araddr.index])].tag = araddr.tag
    BY <1>6, LineClaimed
  <2>2. /\ araddr' = araddr /\ read_index' = 0 /\ ~idle' /\ ~axi_arvalid'
        /\ victim_way_lat' = victim_way(plru[araddr.index])
    BY <1>6, CacheStep
  <2>3. serving'.addr = araddr /\ serving'.beat = 0
    BY <1>6, ServingStep
  <2>4. \A k \in Word : ~(k < 0)
    BY DEF Word
  <2> QED BY <1>4, <2>1, <2>2, <2>3, <2>4
<1>7. ASSUME Refilling /\ axi_rready
      PROVE  Step
  <2>1. /\ LineTypes' /\ LinesAreFresh'
        /\ lines'[araddr.index][victim_way_lat].tag = araddr.tag
        /\ serving.beat # LAST_WORD => ~lines'[araddr.index][victim_way_lat].valid
        /\ \A k \in Word : k <= read_index => lines'[araddr.index][victim_way_lat].data[k] \in
              held'[[tag |-> araddr.tag, index |-> araddr.index, word |-> k]]
    BY <1>7, LineFilled
  <2>2. serving.addr = araddr /\ serving.beat = read_index /\ read_index \in Word
    BY <1>7 DEF FetchInv, FetchTypes, RefillInStep
  <2>3. CASE serving.beat = LAST_WORD
    <3>1. ~Refilling'
      BY <1>7, <2>3, ServingStep DEF Refilling
    <3> QED BY <2>1, <3>1
  <2>4. CASE serving.beat # LAST_WORD
    <3>1. serving'.addr = serving.addr /\ serving'.beat = serving.beat + 1
      BY <1>7, <2>4, ServingStep
    <3>2. /\ araddr' = araddr /\ ~idle' /\ ~axi_arvalid'
          /\ victim_way_lat' = victim_way_lat /\ read_index' = read_index + 1
      BY <1>7, <2>4, CacheStep
    <3>3. \A k \in Word : k < read_index + 1 => k <= read_index
      BY <2>2 DEF Word
    <3>4. \A k \in Word : k < read_index' => Fresh(araddr.index, victim_way_lat, k)'
      BY <2>1, <3>2, <3>3 DEF Fresh
    <3> QED BY <1>4, <2>1, <2>2, <2>4, <3>1, <3>2, <3>4
  <2> QED BY <2>3, <2>4
<1>8. ASSUME Refilling /\ ~axi_rready
      PROVE  Step
  <2>1. ~Invalidates(fence_i) /\ ~fires
    BY <1>8 DEF Invalidates, Refilling, FetchInv, RefillInStep
  <2>2. lines' = lines /\ LineTypes' /\ LinesAreFresh'
    BY <1>8, <2>1, LinesLeft
  <2>3. serving'.addr = serving.addr /\ serving'.beat = serving.beat
    BY <1>8, ServingStep
  <2>4. /\ araddr' = araddr /\ ~idle' /\ ~axi_arvalid'
        /\ victim_way_lat' = victim_way_lat /\ read_index' = read_index
    BY <1>8, CacheStep
  <2>5. /\ serving.addr = araddr /\ serving.beat = read_index
        /\ ~lines[araddr.index][victim_way_lat].valid
        /\ lines[araddr.index][victim_way_lat].tag = araddr.tag
        /\ \A k \in Word : k < read_index => Fresh(araddr.index, victim_way_lat, k)
    BY <1>8 DEF FetchInv, RefillInStep
  <2>6. \A k \in Word : k < read_index' => Fresh(araddr.index, victim_way_lat, k)'
    <3> SUFFICES ASSUME NEW k \in Word, k < read_index'
                 PROVE  Fresh(araddr.index, victim_way_lat, k)'
      OBVIOUS
    <3>1. araddr.index \in Index /\ araddr.tag \in Tag /\ victim_way_lat \in Ways
      BY RefillBlock DEF FetchInv, FetchTypes
    <3>2. Fresh(araddr.index, victim_way_lat, k)
      BY <2>4, <2>5
    <3>3. \A a \in Address : held[a] \subseteq held'[a]
      BY <2>1, HeldKept DEF FetchInv, Cycle
    <3>4. [tag |-> araddr.tag, index |-> araddr.index, word |-> k] \in Address
      BY RefillBlock DEF FetchInv
    <3> QED BY <2>2, <2>4, <2>5, <3>2, <3>3, <3>4 DEF Fresh
  <2> QED BY <1>4, <2>2, <2>3, <2>4, <2>5, <2>6
<1>9. ASSUME ~Invalidates(fence_i) /\ ~fires /\ ~Refilling
      PROVE  Step
  <2>1. ~axi_rready
    BY <1>9 DEF FetchInv, RefillInStep
  <2>2. LineTypes' /\ LinesAreFresh'
    BY <1>9, <2>1, LinesLeft
  <2>3. ~Refilling'
    BY <1>9, ServingStep
  <2> QED BY <2>2, <2>3
<1>10. Step
  BY <1>5, <1>6, <1>7, <1>8, <1>9
<1>11. FetchTypes'
  BY <1>2, <1>10 DEF FetchTypes
<1>12. RefillInStep'
  BY <1>2, <1>3, <1>10 DEF RefillInStep
<1> QED BY <1>1, <1>10, <1>11, <1>12 DEF FetchInv

LEMMA FetchInit == Init => FetchInv
<1> SUFFICES ASSUME Init PROVE FetchInv
  OBVIOUS
<1> USE DEF Init, ICacheInit
<1>1. addr \in Address /\ BlockOf(addr) \in Blocks
  BY FetchPathAssumption DEF Blocks
<1>2. ZeroBlock \in Blocks
  BY <1>1, Zenon DEF ZeroBlock
<1>3. LineTypes
  BY DEF LineTypes, EmptyLine
<1>4. FetchTypes
  <2>1. 0 \in Ways /\ 0 \in Word
    BY ICacheAssumption DEF Ways, Word
  <2> QED BY <1>2, <1>3, <2>1 DEF FetchTypes
<1>5. RefillInStep /\ OwnerHasGrant(serving, grant)
  BY DEF RefillInStep, Refilling, OwnerHasGrant
<1>6. LinesAreFresh
  BY DEF LinesAreFresh, EmptyLine
<1>7. MemoryIsHeld
  BY DEF MemoryIsHeld
<1> QED BY <1>4, <1>5, <1>6, <1>7 DEF FetchInv

LEMMA FetchInvStep == FetchInv /\ [Next]_vars => FetchInv'
<1> SUFFICES ASSUME FetchInv, [Next]_vars PROVE FetchInv'
  OBVIOUS
<1>1. OwnerHasGrant(serving', grant')
  BY OwnerStep DEF FetchInv
<1>2. CASE UNCHANGED vars
  BY <1>2 DEF vars, icacheVars, FetchInv, OwnerHasGrant, FetchTypes, LineTypes, RefillInStep,
              LinesAreFresh, MemoryIsHeld, Refilling, Fresh
<1>3. CASE Next
  <2>1. PICK fence_i, redirect, answers \in BOOLEAN : Cycle(fence_i, redirect, answers, answers)
    BY <1>3 DEF Next
  <2> QED BY <1>1, <2>1, FetchStep
<1> QED BY <1>2, <1>3

\* icache.v: whatever is asked for during a refill, whichever way the replacement
\* tree names meanwhile, and whatever the data port stores between two beats, a
\* fetch sees a value its word has had since the last fence.i that met the
\* cache idle.
THEOREM FetchesAlwaysFresh == Spec => []FetchIsFresh
<1>1. FetchInv => FetchIsFresh
  BY HitsAreFresh
<1> QED BY <1>1, FetchInit, FetchInvStep, PTL DEF Spec
=============================================================================
