----------------------------- MODULE DataCache -----------------------------
(***************************************************************************)
(* The load/store unit with its data cache, vsrc/cpu/exu/lsu.v: four ways  *)
(* with a replacement tree, write-back and write-allocate, refills in      *)
(* bursts, write-backs word by word, and uncached accesses.                *)
(*                                                                         *)
(* A step is one clock edge.  The unit sees the instruction in the execute *)
(* stage (op), which stays until lsu_done, and memory behind an AXI port.  *)
(* That nothing flushes it meanwhile is Core's FlushMeetsEmptyExecute.     *)
(* A byte or halfword is its whole word here: strobes and shifts are not   *)
(* told apart.                                                             *)
(***************************************************************************)
EXTENDS Naturals, PseudoLru

CONSTANTS Tag, Index,        \* block tags, cache sets
          LAST_WORD,         \* last word of a block; 3 in the code
          Uncached,          \* addresses outside CACHE_START .. CACHE_END
          Accesses,          \* the loads and stores considered: [store, addr, value]
          Contents,          \* what memory may hold to begin with
          SPLIT,             \* memory may take an uncached store's address first
          None

Word == 0 .. LAST_WORD
Cacheable == [tag : Tag, index : Index, word : Word]
Address == Cacheable \cup Uncached

ASSUME DataCacheAssumption ==
    /\ LAST_WORD \in Nat
    /\ SPLIT \in BOOLEAN
    /\ Uncached \cap Cacheable = {}
    /\ \A a \in Accesses : a.store \in BOOLEAN /\ a.addr \in Address
    /\ None \notin Accesses

\* What a word can hold: what memory held, what a store gives it, or what a
\* line holds after reset.
Value == {0} \cup {a.value : a \in Accesses}
             \cup UNION {{m[a] : a \in Address} : m \in Contents}

\* A read under way: the beat it is at, whether memory shows it, and the last.
Burst == [addr : Address, beat : Word, shown : BOOLEAN, last : Word]

ASSUME ModelValueAssumption ==
    /\ None \notin Address \cup Value \cup Burst
    /\ \A m \in Contents : m \in [Address -> Value]

VARIABLES
    op,                \* the load or store in the execute stage, or None
    o_pre_ready_d1, init_txn_ff,    \* edge detection of a new instruction
    state,             \* S_IDLE .. S_STORE_FILL, without the prefix
    lat,               \* the latched request
    cache,             \* cache[index][way]: [tag, valid, dirty, data]
    plru,              \* plru[index]: the three bits of the replacement tree
    victim_way_lat, refill_cnt,
    rready,            \* refill_rready, and axi_rready in the other states
    wb,                \* write-back: [tag, way, cnt] (wb_addr_lat, wb_way_lat, wb_cnt)
    axi_awvalid, wb_wvalid, axi_bready,
    done_reg,
    ram, reading, writing,    \* memory and what it has accepted
    answer             \* history: the value shown to the load that just ended

controlVars == <<o_pre_ready_d1, init_txn_ff, state, lat, victim_way_lat,
                 refill_cnt, rready, wb, axi_awvalid, wb_wvalid, axi_bready, done_reg>>
memoryVars == <<ram, reading, writing>>
vars == <<op, controlVars, cache, plru, memoryVars, answer>>

----------------------------------------------------------------------------
(* Look-up and replacement *)

\* Mutant: the last way is not compared.
HitWays_ThreeOnly(a) == {w \in 0 .. 2 : /\ cache[a.index][w].valid
                                        /\ cache[a.index][w].tag = a.tag}
HitWays(a) == {w \in Ways : /\ cache[a.index][w].valid
                            /\ cache[a.index][w].tag = a.tag}
Hit(a) == a \in Cacheable /\ HitWays(a) # {}
hit_way(a) == CHOOSE w \in HitWays(a) : \A v \in HitWays(a) : w <= v
Line(i, w) == cache[i][w]

Victim(a) == victim_way(plru[a.index])
victim_is_dirty(a) == Line(a.index, Victim(a)).valid /\ Line(a.index, Victim(a)).dirty

----------------------------------------------------------------------------
(* Wires between the unit and memory *)

rvalid == reading # None /\ reading.shown
rlast == reading # None /\ reading.beat = reading.last
bvalid == writing.b

\* The address of the beat memory shows, and its value.
BeatAddress == IF reading.addr \in Cacheable
               THEN [reading.addr EXCEPT !.word = reading.beat] ELSE reading.addr
rdata == ram[BeatAddress]

arvalid == state \in {"refill_ar", "uncache_ar"}
wvalid == IF state = "wb_aw" THEN wb_wvalid ELSE state = "uncache_aw" /\ axi_awvalid

wb_word_addr == [tag |-> wb.tag, index |-> lat.addr.index, word |-> wb.cnt]
awaddr == IF state = "wb_aw" THEN wb_word_addr ELSE lat.addr
wdata == IF state = "wb_aw" THEN Line(lat.addr.index, wb.way).data[wb.cnt] ELSE lat.value

\* The address and data channels the unit drives.
Driven == {c \in {"ar", "aw", "w"} : CASE c = "ar" -> arvalid
                                       [] c = "aw" -> axi_awvalid
                                       [] c = "w"  -> wvalid}

----------------------------------------------------------------------------
(* Completion *)

fast_idle_hit_done == state = "idle" /\ op # None /\ Hit(op.addr)
fast_hit_done == state = "check" /\ Hit(lat.addr)
fast_refill_done == state = "refill_r" /\ rready /\ rlast /\ ~lat.store
fast_uncache_r_done == state = "uncache_r" /\ rready
fast_uncache_b_done == state = "uncache_b" /\ axi_bready

lsu_done == \/ done_reg
            \/ fast_idle_hit_done
            \/ fast_hit_done
            \/ fast_refill_done
            \/ fast_uncache_r_done
            \/ fast_uncache_b_done

\* Mutant: a word that came in an earlier beat is not read back from the line.
load_res_LastBeat ==
    CASE fast_idle_hit_done  -> Line(op.addr.index, hit_way(op.addr)).data[op.addr.word]
      [] fast_hit_done       -> Line(lat.addr.index, hit_way(lat.addr)).data[lat.addr.word]
      [] OTHER -> rdata

\* load_res in a cycle that completes a load: the word of the line, of the beat
\* being received, or of an earlier beat of the burst.
load_res ==
    CASE fast_idle_hit_done  -> Line(op.addr.index, hit_way(op.addr)).data[op.addr.word]
      [] fast_hit_done       -> Line(lat.addr.index, hit_way(lat.addr)).data[lat.addr.word]
      [] fast_uncache_r_done -> rdata
      [] OTHER -> IF refill_cnt = lat.addr.word THEN rdata
                  ELSE Line(lat.addr.index, victim_way_lat).data[lat.addr.word]

INIT_AXI_TXN == o_pre_ready_d1 /\ op # None
init_txn_pulse == INIT_AXI_TXN /\ ~init_txn_ff

----------------------------------------------------------------------------
(* The state machine: one action per state.  fires is the set of address and *)
(* data channels on which memory is ready for what the unit drives.          *)

Idle == /\ state = "idle"
        /\ IF init_txn_pulse /\ ~fast_idle_hit_done
           THEN state' = "check" /\ lat' = op
           ELSE UNCHANGED <<state, lat>>
        /\ UNCHANGED <<victim_way_lat, refill_cnt, rready, wb, axi_awvalid, wb_wvalid, axi_bready>>

\* A hit here repeats the look-up of the idle state and cannot occur.
Check ==
    /\ state = "check"
    /\ state' = CASE Hit(lat.addr) -> "idle"
                  [] lat.addr \in Uncached -> IF lat.store THEN "uncache_aw" ELSE "uncache_ar"
                  [] OTHER -> IF victim_is_dirty(lat.addr) THEN "wb_aw" ELSE "refill_ar"
    /\ axi_awvalid' = (state' \in {"wb_aw", "uncache_aw"})
    /\ wb_wvalid' = (state' = "wb_aw")
    /\ wb' = IF state' # "wb_aw" THEN wb
             ELSE [tag |-> Line(lat.addr.index, Victim(lat.addr)).tag,
                   way |-> Victim(lat.addr), cnt |-> 0]
    /\ UNCHANGED <<lat, victim_way_lat, refill_cnt, rready, axi_bready>>

\* Each channel is dropped when it fires; both must have fired.
WbAw(fires) ==
    /\ state = "wb_aw"
    /\ axi_awvalid' = (axi_awvalid /\ "aw" \notin fires)
    /\ wb_wvalid' = (wb_wvalid /\ "w" \notin fires)
    /\ IF axi_awvalid' \/ wb_wvalid'
       THEN UNCHANGED <<state, victim_way_lat>>
       ELSE state' = "wb_b" /\ victim_way_lat' = wb.way
    /\ UNCHANGED <<lat, refill_cnt, rready, wb, axi_bready>>

\* Mutant: the last word is not written back.
WbB_OneWordShort ==
    /\ state = "wb_b"
    /\ axi_bready' = (bvalid /\ ~axi_bready)
    /\ LET next == axi_bready /\ wb.cnt + 1 < LAST_WORD
       IN /\ state' = IF next THEN "wb_aw" ELSE IF axi_bready THEN "refill_ar" ELSE state
          /\ wb' = IF next THEN [wb EXCEPT !.cnt = @ + 1] ELSE wb
          /\ axi_awvalid' = next
          /\ wb_wvalid' = next
    /\ UNCHANGED <<lat, victim_way_lat, refill_cnt, rready>>

\* The response is taken the cycle after it shows; then the next word, or the
\* refill.
WbB ==
    /\ state = "wb_b"
    /\ axi_bready' = (bvalid /\ ~axi_bready)
    /\ LET next == axi_bready /\ wb.cnt < LAST_WORD
       IN /\ state' = IF next THEN "wb_aw" ELSE IF axi_bready THEN "refill_ar" ELSE state
          /\ wb' = IF next THEN [wb EXCEPT !.cnt = @ + 1] ELSE wb
          /\ axi_awvalid' = next
          /\ wb_wvalid' = next
    /\ UNCHANGED <<lat, victim_way_lat, refill_cnt, rready>>

RefillAr(fires) ==
    /\ state = "refill_ar"
    /\ IF "ar" \in fires
       THEN /\ state' = "refill_r"
            /\ victim_way_lat' = Victim(lat.addr)
            /\ refill_cnt' = 0
            /\ rready' = FALSE
       ELSE UNCHANGED <<state, victim_way_lat, refill_cnt, rready>>
    /\ UNCHANGED <<lat, wb, axi_awvalid, wb_wvalid, axi_bready>>

\* Each beat is taken the cycle after it shows.
RefillR ==
    /\ state = "refill_r"
    /\ rready' = (rvalid /\ ~rready)
    /\ refill_cnt' = IF rready THEN (refill_cnt + 1) % (LAST_WORD + 1) ELSE refill_cnt
    /\ state' = IF rready /\ rlast THEN (IF lat.store THEN "store_fill" ELSE "idle")
                ELSE state
    /\ UNCHANGED <<lat, victim_way_lat, wb, axi_awvalid, wb_wvalid, axi_bready>>

UncacheAr(fires) ==
    /\ state = "uncache_ar"
    /\ IF "ar" \in fires THEN state' = "uncache_r" /\ rready' = FALSE
       ELSE UNCHANGED <<state, rready>>
    /\ UNCHANGED <<lat, victim_way_lat, refill_cnt, wb, axi_awvalid, wb_wvalid, axi_bready>>

UncacheR ==
    /\ state = "uncache_r"
    /\ rready' = (rvalid /\ ~rready)
    /\ state' = IF rready THEN "idle" ELSE state
    /\ UNCHANGED <<lat, victim_way_lat, refill_cnt, wb, axi_awvalid, wb_wvalid, axi_bready>>

\* Both channels are driven from axi_awvalid, which only the address drops.
UncacheAw(fires) ==
    LET over == axi_awvalid => {"aw", "w"} \subseteq fires
    IN /\ state = "uncache_aw"
       /\ state' = IF over THEN "uncache_b" ELSE state
       /\ axi_awvalid' = (axi_awvalid /\ ~over /\ "aw" \notin fires)
       /\ UNCHANGED <<lat, victim_way_lat, refill_cnt, rready, wb, wb_wvalid, axi_bready>>

UncacheB ==
    /\ state = "uncache_b"
    /\ axi_bready' = (bvalid /\ ~axi_bready)
    /\ state' = IF axi_bready THEN "idle" ELSE state
    /\ UNCHANGED <<lat, victim_way_lat, refill_cnt, rready, wb, axi_awvalid, wb_wvalid>>

StoreFill ==
    /\ state = "store_fill"
    /\ state' = "idle"
    /\ UNCHANGED <<lat, victim_way_lat, refill_cnt, rready, wb, axi_awvalid, wb_wvalid, axi_bready>>

StateEdge(fires) ==
    \/ Idle \/ Check
    \/ WbAw(fires) \/ WbB
    \/ RefillAr(fires) \/ RefillR \/ StoreFill
    \/ UncacheAr(fires) \/ UncacheR \/ UncacheAw(fires) \/ UncacheB

----------------------------------------------------------------------------
(* Cache arrays *)

\* Mutant: a store that hits does not mark its line.
Stored_NotDirty(line, a) == [line EXCEPT !.data[a.addr.word] = a.value]

Stored(line, a) == [line EXCEPT !.data[a.addr.word] = a.value, !.dirty = TRUE]

\* A line about to be refilled has its new tag and is invalid.
Claimed(line, a) == [line EXCEPT !.tag = a.addr.tag, !.valid = FALSE, !.dirty = FALSE]

\* A beat of the refill; the last one makes the line valid.
Filled(line, k, d, last) == [line EXCEPT !.data[k] = d, !.valid = @ \/ last]

CacheEdge(fires) ==
    cache' = CASE fast_idle_hit_done /\ op.store ->
                    [cache EXCEPT ![op.addr.index][hit_way(op.addr)] = Stored(@, op)]
               [] fast_hit_done /\ lat.store ->
                    [cache EXCEPT ![lat.addr.index][hit_way(lat.addr)] = Stored(@, lat)]
               [] state = "refill_ar" /\ "ar" \in fires ->
                    [cache EXCEPT ![lat.addr.index][Victim(lat.addr)] = Claimed(@, lat)]
               [] state = "refill_r" /\ rvalid /\ rready ->
                    [cache EXCEPT ![lat.addr.index][victim_way_lat] =
                       Filled(@, refill_cnt, rdata, rlast)]
               [] state = "store_fill" ->
                    [cache EXCEPT ![lat.addr.index][victim_way_lat] = Stored(@, lat)]
               [] OTHER -> cache

PlruEdge ==
    plru' = CASE state = "refill_r" /\ rvalid /\ rready /\ rlast ->
                   [plru EXCEPT ![lat.addr.index] = Touch(@, victim_way_lat)]
              [] fast_hit_done /\ lat.store ->
                   [plru EXCEPT ![lat.addr.index] = Touch(@, hit_way(lat.addr))]
              [] fast_idle_hit_done ->
                   [plru EXCEPT ![op.addr.index] = Touch(@, hit_way(op.addr))]
              [] OTHER -> plru

----------------------------------------------------------------------------
(* Memory behind the port *)

\* What memory may accept: one read and one write at a time, and the two
\* channels of an uncached store together unless SPLIT.
MayFire(fires) ==
    /\ "ar" \in fires => reading = None
    /\ "aw" \in fires => writing.aw = None
    /\ "w" \in fires => writing.w = None
    /\ state = "uncache_aw" /\ ~SPLIT => ("aw" \in fires <=> "w" \in fires)

ReadEdge(fires, show) ==
    reading' =
        IF "ar" \in fires
        THEN [addr |-> lat.addr, beat |-> 0, shown |-> FALSE,
              last |-> IF state = "refill_ar" THEN LAST_WORD ELSE 0]
        ELSE IF reading = None THEN None
        ELSE IF rvalid /\ rready
             THEN IF rlast THEN None ELSE [reading EXCEPT !.beat = @ + 1, !.shown = show]
        ELSE [reading EXCEPT !.shown = @ \/ show]

NoWrite == [aw |-> None, w |-> None, b |-> FALSE]

\* The word is written when its address and its data are both there.
WriteEdge(fires, show) ==
    LET aw == IF "aw" \in fires THEN awaddr ELSE writing.aw
        w == IF "w" \in fires THEN wdata ELSE writing.w
        whole == aw # None /\ w # None
    IN /\ writing' = IF bvalid /\ axi_bready THEN NoWrite
                     ELSE [aw |-> aw, w |-> w,
                           b |-> bvalid \/ (show /\ None \notin {writing.aw, writing.w})]
       /\ ram' = IF whole THEN [ram EXCEPT ![aw] = w] ELSE ram

----------------------------------------------------------------------------
(* The unit, the execute stage before it and memory behind it *)

\* Tags have no reset value; they are not looked at before they are written.
EmptyLine == [tag |-> None, valid |-> FALSE, dirty |-> FALSE,
              data |-> [w \in Word |-> 0]]

Init == /\ op = None
        /\ o_pre_ready_d1 = FALSE
        /\ init_txn_ff = FALSE
        /\ state = "idle"
        /\ lat = None
        /\ cache = [i \in Index |-> [w \in Ways |-> EmptyLine]]
        /\ plru = [i \in Index |-> NoUse]
        /\ victim_way_lat = 0
        /\ refill_cnt = 0
        /\ rready = FALSE
        /\ wb = None
        /\ axi_awvalid = FALSE
        /\ wb_wvalid = FALSE
        /\ axi_bready = FALSE
        /\ done_reg = FALSE
        /\ ram \in Contents
        /\ reading = None
        /\ writing = NoWrite
        /\ answer = None

\* The execute stage: a load or store stays until it is done, other instructions
\* as long as they like.
OpEdge ==
    \E o_pre_ready \in IF op # None THEN {lsu_done} ELSE BOOLEAN :
       /\ op' \in IF o_pre_ready THEN Accesses \cup {None} ELSE {op}
       /\ o_pre_ready_d1' = o_pre_ready
       /\ init_txn_ff' = (INIT_AXI_TXN /\ ~fast_idle_hit_done)
       /\ answer' = IF op # None /\ lsu_done /\ ~op.store THEN load_res ELSE None

Cycle(fires, show) ==
    /\ MayFire(fires)
    /\ StateEdge(fires)
    /\ done_reg' = (state = "store_fill")
    /\ CacheEdge(fires)
    /\ PlruEdge
    /\ ReadEdge(fires, show)
    /\ WriteEdge(fires, show)
    /\ OpEdge

\* Memory can show an answer only to what it has accepted.
MayShow == IF reading = None /\ None \in {writing.aw, writing.w} THEN {FALSE} ELSE BOOLEAN

Next == \E fires \in SUBSET Driven, show \in MayShow : Cycle(fires, show)

Spec == Init /\ [][Next]_vars

\* Memory accepts and answers in the end.
Answers == \E show \in MayShow : (TRUE \in MayShow => show) /\ Cycle(Driven, show)
FairSpec == Spec /\ WF_vars(Answers)

----------------------------------------------------------------------------
(* Correctness *)

\* At most one way of a set holds a block: a second copy would be written back
\* over the first.  A block already in another way must never be refilled, and
\* the way a refill claims must be invalid until its last beat.
OneWayHits == \A i \in Index : \A v, w \in Ways :
    Line(i, v).valid /\ Line(i, w).valid /\ Line(i, v).tag = Line(i, w).tag => v = w

\* A clean line may be dropped: memory has its contents.  A line is written
\* word by word and back word by word, and its dirty bit covers all of them.
CleanLinesMatchMemory == \A i \in Index : \A w \in Ways :
    Line(i, w).valid /\ ~Line(i, w).dirty =>
        \A k \in Word : Line(i, w).data[k] = ram[[tag |-> Line(i, w).tag, index |-> i, word |-> k]]

\* The line that was written back is the one the refill claims, though the
\* victim is looked up three times; and when it is claimed nothing of it is lost.
\* The access it is for is the one the execute stage waits for.
VictimIsSaved ==
    /\ state # "idle" => lat = op /\ op # None
    /\ state \in {"wb_aw", "wb_b"} => Victim(lat.addr) = wb.way
    /\ state = "refill_ar" /\ victim_is_dirty(lat.addr) =>
         LET v == Line(lat.addr.index, Victim(lat.addr))
         IN \A k \in Word : v.data[k] = ram[[tag |-> v.tag, index |-> lat.addr.index, word |-> k]]

\* With the cache in front, memory is what a memory without cache would be.
Words == [a \in Address |->
            LET held == IF a \in Cacheable THEN HitWays(a) ELSE {}
            IN IF held = {} THEN ram[a]
               ELSE Line(a.index, CHOOSE w \in held : TRUE).data[a.word]]
Plain == INSTANCE DataMemory WITH words <- Words
ImplementsDataMemory == Plain!DataSpec

\* lsu.v:602, on leaving for the response of an uncached store: both AW and W are
\* done.  Memory that takes the address a cycle before the data breaks this.
UncachedStoreIsWhole == state = "uncache_b" => writing.aw # None /\ writing.w # None
=============================================================================
