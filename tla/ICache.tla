------------------------------- MODULE ICache -------------------------------
(***************************************************************************)
(* The instruction cache, vsrc/cpu/ifu/icache.v: look-up in the cycle of   *)
(* the request, refills in bursts, invalidation by fence.i.  ICacheEdge is *)
(* one clock edge; its parameters are the request, fence.i in the execute  *)
(* stage, and the signals memory drives.                                   *)
(***************************************************************************)
EXTENDS Naturals, PseudoLru

CONSTANTS Tag, Index,     \* block tags, cache sets
          LAST_WORD,      \* last word of a block; 3 in the code
          None

Word == 0 .. LAST_WORD
Address == [tag : Tag, index : Index, word : Word]

ASSUME ICacheAssumption == LAST_WORD \in Nat /\ None \notin Address

VARIABLES
    lines,             \* lines[index][way]: [tag, valid, data]
    plru,
    victim_way_lat,    \* way of the refill under way
    araddr,            \* block of the last miss, as the address of its first word
    idle,              \* no miss under way
    axi_arvalid, axi_rready,
    read_index         \* word of the refill that comes next

icacheVars == <<lines, plru, victim_way_lat, araddr, idle, axi_arvalid, axi_rready, read_index>>

BlockOf(a) == [a EXCEPT !.word = 0]
Blocks == {BlockOf(a) : a \in Address}
ZeroBlock == CHOOSE b \in Blocks : TRUE

HitWays(a) == {w \in Ways : /\ lines[a.index][w].valid
                            /\ lines[a.index][w].tag = a.tag}
hit(a) == HitWays(a) # {}
hit_way_sel(a) == CHOOSE w \in HitWays(a) : \A v \in HitWays(a) : w <= v
data(a) == lines[a.index][hit_way_sel(a)].data[a.word]

\* Tags have no reset value; they are not looked at before they are written.
EmptyLine == [tag |-> None, valid |-> FALSE, data |-> [w \in Word |-> 0]]

ICacheInit == /\ lines = [i \in Index |-> [w \in Ways |-> EmptyLine]]
              /\ plru = [i \in Index |-> NoUse]
              /\ victim_way_lat = 0
              /\ araddr = ZeroBlock
              /\ idle = TRUE
              /\ axi_arvalid = FALSE
              /\ axi_rready = FALSE
              /\ read_index = 0

\* A miss is taken up only when none is under way.
Miss(addr) == ~hit(addr) /\ idle

\* The last beat of a burst is taken.  What is asked for now decides whether
\* another burst follows; the block just received counts as absent still.
BurstEnds(rlast) == rlast /\ axi_rready

\* Mutant: the way of a refill is looked up when its data arrives.
RefillWay_LookedUp == victim_way(plru[araddr.index])
RefillWay == victim_way_lat

PlruEdge(addr, fence_i, rlast) ==
    plru' = IF fence_i THEN [i \in Index |-> NoUse]
            ELSE IF BurstEnds(rlast)
                 THEN [plru EXCEPT ![araddr.index] = Touch(@, RefillWay)]
            ELSE IF hit(addr)
                 THEN [plru EXCEPT ![addr.index] = Touch(@, hit_way_sel(addr))]
            ELSE plru

\* fence.i invalidates only while no miss is under way.
Invalidates(fence_i) == fence_i /\ idle

Emptied == [i \in Index |-> [w \in Ways |-> [lines[i][w] EXCEPT !.valid = FALSE]]]

\* A line about to be refilled has its new tag and is invalid.
Claimed(l) == [l EXCEPT !.tag = araddr.tag, !.valid = FALSE]

\* A beat of the refill; the last one makes the line valid.
Filled(l, k, d, last) == [l EXCEPT !.data[k] = d, !.valid = @ \/ last]

LinesEdge(fence_i, arready, rvalid, rlast, rdata) ==
    lines' = IF Invalidates(fence_i) THEN Emptied
             ELSE IF axi_arvalid /\ arready
                  THEN [lines EXCEPT ![araddr.index][victim_way(plru[araddr.index])] = Claimed(@)]
             ELSE IF rvalid /\ axi_rready
                  THEN [lines EXCEPT ![araddr.index][RefillWay] = Filled(@, read_index, rdata, rlast)]
             ELSE lines

MissEdge(addr, rlast) ==
    LET over == BurstEnds(rlast) /\ hit(addr)
        again == BurstEnds(rlast) /\ ~hit(addr)
    IN /\ araddr' = IF Miss(addr) \/ again THEN BlockOf(addr)
                    ELSE IF over THEN ZeroBlock ELSE araddr
       /\ idle' = (~Miss(addr) /\ (idle \/ over))

ChannelEdge(addr, arready, rvalid, rlast) ==
    LET fires == axi_arvalid /\ arready
    IN /\ axi_arvalid' = (\/ Miss(addr)
                          \/ ~fires /\ (axi_arvalid \/ (BurstEnds(rlast) /\ ~hit(addr))))
       /\ axi_rready' = (rvalid /\ ~axi_rready)
       /\ victim_way_lat' = IF fires THEN victim_way(plru[araddr.index]) ELSE victim_way_lat
       /\ read_index' = IF fires THEN 0
                        ELSE IF rvalid /\ axi_rready THEN (read_index + 1) % (LAST_WORD + 1)
                        ELSE read_index

ICacheEdge(addr, fence_i, arready, rvalid, rlast, rdata) ==
    /\ PlruEdge(addr, fence_i, rlast)
    /\ LinesEdge(fence_i, arready, rvalid, rlast, rdata)
    /\ MissEdge(addr, rlast)
    /\ ChannelEdge(addr, arready, rvalid, rlast)

=============================================================================
