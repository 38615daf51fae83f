-------------------------- MODULE DataCacheProofs --------------------------
(***************************************************************************)
(* Proofs about the data cache, for every set of tags, sets, accesses and  *)
(* contents of memory, and every length of a block.                        *)
(***************************************************************************)
EXTENDS DataCache, TLAPS

Blocks == {"wb_aw", "wb_b", "refill_ar", "refill_r", "store_fill"}
Devices == {"uncache_ar", "uncache_r", "uncache_aw", "uncache_b"}

CacheLine == [tag : Tag \cup {None}, valid : BOOLEAN, dirty : BOOLEAN, data : [Word -> Value]]
Written == [aw : Address \cup {None}, w : Value \cup {None}, b : BOOLEAN]
Evicted == [tag : Tag \cup {None}, way : Ways, cnt : Word]

\* Every register holds a value of its sort.
CacheTypes == /\ op \in Accesses \cup {None}
              /\ lat \in Accesses \cup {None}
              /\ state \in {"idle", "check"} \cup Blocks \cup Devices
              /\ cache \in [Index -> [Ways -> CacheLine]]
              /\ plru \in [Index -> Tree]
              /\ victim_way_lat \in Ways
              /\ refill_cnt \in Word
              /\ wb \in Evicted \cup {None}
              /\ <<o_pre_ready_d1, init_txn_ff, done_reg>> \in BOOLEAN \X BOOLEAN \X BOOLEAN
              /\ <<rready, axi_bready>> \in BOOLEAN \X BOOLEAN
              /\ <<axi_awvalid, wb_wvalid>> \in BOOLEAN \X BOOLEAN
              /\ ram \in [Address -> Value]
              /\ reading \in Burst \cup {None}
              /\ writing \in Written
              /\ \A i \in Index : \A w \in Ways : Line(i, w).valid => Line(i, w).tag \in Tag

\* The unit works on the instruction in the execute stage, and what it does
\* is decided by the region of its address.
Serves == /\ state # "idle" => lat = op /\ op # None
          /\ done_reg => state = "idle" /\ op # None /\ op.store /\ ~o_pre_ready_d1
          /\ state \in Blocks => lat.addr \in Cacheable
          /\ state \in Devices => lat.addr \in Uncached

\* A read is under way exactly in the states that wait for it.
Reads == /\ IF state \in {"refill_r", "uncache_r"}
            THEN /\ reading # None
                 /\ reading.addr = lat.addr
                 /\ reading.beat = (IF state = "refill_r" THEN refill_cnt ELSE 0)
                 /\ reading.last = (IF state = "refill_r" THEN LAST_WORD ELSE 0)
            ELSE reading = None
         /\ rready => state \in {"refill_r", "uncache_r"} /\ rvalid

\* The word of the write-back.
Saved(k) == ram[[tag |-> wb.tag, index |-> lat.addr.index, word |-> k]]
              = Line(lat.addr.index, wb.way).data[k]

\* What memory has of a write is what the unit no longer drives.
Writes ==
    /\ state = "wb_aw" =>
          /\ axi_awvalid \/ wb_wvalid
          /\ writing.aw = (IF axi_awvalid THEN None ELSE wb_word_addr)
          /\ writing.w = (IF wb_wvalid THEN None
                          ELSE Line(lat.addr.index, wb.way).data[wb.cnt])
          /\ ~writing.b
    /\ state = "wb_b" => /\ writing.aw = wb_word_addr
                         /\ writing.w = Line(lat.addr.index, wb.way).data[wb.cnt]
    /\ state \in {"uncache_aw", "uncache_b"} =>
          /\ writing.aw \in {None, lat.addr}
          /\ writing.w \in {None, lat.value}
          /\ lat.store
          /\ axi_awvalid => state = "uncache_aw" /\ writing.aw = None
    /\ state \notin {"wb_aw", "wb_b", "uncache_aw", "uncache_b"} => writing = NoWrite
    /\ writing.b => None \notin {writing.aw, writing.w}
    /\ axi_awvalid => state \in {"wb_aw", "uncache_aw"}
    /\ wb_wvalid => state = "wb_aw"
    /\ axi_bready => state \in {"wb_b", "uncache_b"} /\ bvalid

\* Until its last beat has come, no way holds the block that is missing.
Misses == state \in {"check", "wb_aw", "wb_b", "refill_ar", "refill_r"} /\ lat.addr \in Cacheable =>
             \A w \in Ways : Line(lat.addr.index, w).valid =>
                Line(lat.addr.index, w).tag # lat.addr.tag

\* The victim stays the same, and is saved word by word.
Victims ==
    /\ state \in {"wb_aw", "wb_b"} =>
          /\ wb \in Evicted
          /\ Victim(lat.addr) = wb.way
          /\ LET v == Line(lat.addr.index, wb.way) IN v.valid /\ v.dirty /\ v.tag = wb.tag
          /\ \A k \in Word : k < wb.cnt \/ (k = wb.cnt /\ state = "wb_b") => Saved(k)
    /\ state = "refill_ar" /\ victim_is_dirty(lat.addr) =>
          LET v == Line(lat.addr.index, Victim(lat.addr))
          IN \A k \in Word : v.data[k] = ram[[tag |-> v.tag, index |-> lat.addr.index, word |-> k]]

\* The line being filled has what memory has, up to the beat that comes next.
Fills ==
    /\ state \in {"refill_r", "store_fill"} =>
          LET v == Line(lat.addr.index, victim_way_lat)
          IN /\ v.tag = lat.addr.tag /\ ~v.dirty
             /\ v.valid <=> state = "store_fill"
             /\ \A k \in Word : k < refill_cnt \/ state = "store_fill" =>
                   v.data[k] = ram[[tag |-> v.tag, index |-> lat.addr.index, word |-> k]]
             /\ state = "store_fill" => lat.store
    /\ done_reg => Hit(op.addr)

CacheInv == /\ CacheTypes
            /\ Serves
            /\ Reads
            /\ Writes
            /\ Misses
            /\ Victims
            /\ Fills
            /\ OneWayHits
            /\ CleanLinesMatchMemory

------------------------------------------------------------------------------
(* Addresses, lines and the replacement tree *)

\* The word k of a block.
LEMMA WordOfBlock ==
    ASSUME NEW t \in Tag, NEW i \in Index, NEW k \in Word
    PROVE  [tag |-> t, index |-> i, word |-> k] \in Cacheable
BY DEF Cacheable

LEMMA BeatOfBlock ==
    ASSUME NEW a \in Cacheable, NEW k \in Word
    PROVE  [a EXCEPT !.word = k] = [tag |-> a.tag, index |-> a.index, word |-> k]
BY DEF Cacheable

LEMMA BlockOfWord ==
    ASSUME NEW a \in Cacheable
    PROVE  /\ a.tag \in Tag /\ a.index \in Index /\ a.word \in Word
           /\ a = [tag |-> a.tag, index |-> a.index, word |-> a.word]
BY DEF Cacheable

\* A store gives a word a value.
LEMMA AccessTypes ==
    ASSUME NEW a \in Accesses
    PROVE  /\ a.store \in BOOLEAN /\ a.addr \in Address /\ a.value \in Value
           /\ a # None /\ a.addr # None /\ a.value # None
           /\ a.addr \in Cacheable \/ a.addr \in Uncached
           /\ ~(a.addr \in Cacheable /\ a.addr \in Uncached)
<1>1. a.value \in Value
  BY DEF Value
<1> QED BY <1>1, DataCacheAssumption, ModelValueAssumption DEF Address

LEMMA VictimIsWay ==
    ASSUME NEW p \in Tree
    PROVE  victim_way(p) \in Ways
BY DEF victim_way, Ways

LEMMA TouchedTree ==
    ASSUME NEW p \in Tree, NEW w \in Ways
    PROVE  Touch(p, w) \in Tree
<1>1. w \in {0, 1, 2, 3}
  BY DEF Ways
<1>2. CASE w = 0
  BY <1>2 DEF Touch, Tree
<1>3. CASE w = 1
  BY <1>3 DEF Touch, Tree
<1>4. CASE w = 2
  BY <1>4 DEF Touch, Tree
<1>5. CASE w = 3
  BY <1>5 DEF Touch, Tree
<1> QED BY <1>1, <1>2, <1>3, <1>4, <1>5

\* The three ways in which a line is written.
LEMMA StoredLine ==
    ASSUME NEW l \in CacheLine, NEW a \in Accesses, a.addr \in Cacheable
    PROVE  /\ Stored(l, a) \in CacheLine
           /\ Stored(l, a).tag = l.tag /\ Stored(l, a).valid = l.valid /\ Stored(l, a).dirty
           /\ \A k \in Word : Stored(l, a).data[k] = IF k = a.addr.word THEN a.value ELSE l.data[k]
<1>1. a.addr.word \in Word /\ a.value \in Value
  BY BlockOfWord, AccessTypes
<1>2. [l.data EXCEPT ![a.addr.word] = a.value] \in [Word -> Value]
  BY <1>1 DEF CacheLine
<1> QED BY <1>1, <1>2 DEF Stored, CacheLine

LEMMA ClaimedLine ==
    ASSUME NEW l \in CacheLine, NEW a \in Accesses, a.addr \in Cacheable
    PROVE  /\ Claimed(l, a) \in CacheLine
           /\ Claimed(l, a).tag = a.addr.tag /\ ~Claimed(l, a).valid /\ ~Claimed(l, a).dirty
           /\ Claimed(l, a).data = l.data
<1>1. a.addr.tag \in Tag
  BY BlockOfWord
<1> QED BY <1>1 DEF Claimed, CacheLine

LEMMA FilledLine ==
    ASSUME NEW l \in CacheLine, NEW k \in Word, NEW d \in Value, NEW last \in BOOLEAN
    PROVE  /\ Filled(l, k, d, last) \in CacheLine
           /\ Filled(l, k, d, last).tag = l.tag /\ Filled(l, k, d, last).dirty = l.dirty
           /\ Filled(l, k, d, last).valid = (l.valid \/ last)
           /\ \A j \in Word : Filled(l, k, d, last).data[j] = IF j = k THEN d ELSE l.data[j]
<1>1. [l.data EXCEPT ![k] = d] \in [Word -> Value]
  BY DEF CacheLine
<1> QED BY <1>1 DEF Filled, CacheLine

\* An edge that writes one line.
LineWritten(i, w, l) == cache' = [cache EXCEPT ![i][w] = l]

LEMMA OneLine ==
    ASSUME cache \in [Index -> [Ways -> CacheLine]],
           NEW i \in Index, NEW w \in Ways, NEW l \in CacheLine,
           LineWritten(i, w, l)
    PROVE  /\ cache' \in [Index -> [Ways -> CacheLine]]
           /\ \A j \in Index : \A v \in Ways :
                 Line(j, v)' = IF j = i /\ v = w THEN l ELSE Line(j, v)
<1>1. [cache[i] EXCEPT ![w] = l] \in [Ways -> CacheLine]
  OBVIOUS
<1> QED BY <1>1 DEF Line, LineWritten

\* The block looked up is in one way, and that way is found.
LEMMA HitWay ==
    ASSUME OneWayHits, NEW a \in Cacheable, HitWays(a) # {}
    PROVE  /\ hit_way(a) \in Ways
           /\ Line(a.index, hit_way(a)).valid /\ Line(a.index, hit_way(a)).tag = a.tag
           /\ \A w \in HitWays(a) : w = hit_way(a)
<1>1. PICK w \in HitWays(a) : TRUE
  OBVIOUS
<1>2. a.index \in Index
  BY BlockOfWord
<1>3. \A v \in HitWays(a) : v = w
  BY <1>1, <1>2 DEF HitWays, OneWayHits, Line
<1>4. w \in Ways /\ w <= w
  BY <1>1 DEF HitWays, Ways
<1>5. \A v \in HitWays(a) : w <= v
  BY <1>3, <1>4
<1>6. hit_way(a) \in HitWays(a)
  BY <1>1, <1>5 DEF hit_way
<1> QED BY <1>3, <1>6 DEF HitWays, Line
------------------------------------------------------------------------------
(* The state machine and the execute stage *)

\* When an access is done, state by state: the look-up after the latch never hits.
LEMMA WhenDone ==
    ASSUME CacheInv
    PROVE  /\ ~fast_hit_done
           /\ state # "idle" => ~fast_idle_hit_done /\ ~done_reg
           /\ lsu_done <=> \/ state = "idle" /\ (done_reg \/ fast_idle_hit_done)
                           \/ state = "refill_r" /\ rready /\ rlast /\ ~lat.store
                           \/ state = "uncache_r" /\ rready
                           \/ state = "uncache_b" /\ axi_bready
           /\ lsu_done \in BOOLEAN
<1>1. ~fast_hit_done
  <2> SUFFICES ASSUME state = "check", lat.addr \in Cacheable, HitWays(lat.addr) # {} PROVE FALSE
    BY DEF fast_hit_done, Hit
  <2>1. \A w \in Ways : Line(lat.addr.index, w).valid =>
                         Line(lat.addr.index, w).tag # lat.addr.tag
    BY DEF CacheInv, Misses
  <2> QED BY <2>1 DEF HitWays, Line
<1>2. state # "idle" => ~fast_idle_hit_done /\ ~done_reg
  BY DEF fast_idle_hit_done, CacheInv, Serves
<1> QED BY <1>1, <1>2 DEF lsu_done, fast_refill_done, fast_uncache_r_done, fast_uncache_b_done,
                          CacheInv, Serves

\* An access stays in execute until it is done.
LEMMA OpStays ==
    ASSUME CacheInv, OpEdge
    PROVE  /\ op' \in Accesses \cup {None}
           /\ o_pre_ready_d1' \in BOOLEAN /\ init_txn_ff' \in BOOLEAN
           /\ op # None => o_pre_ready_d1' = lsu_done
           /\ op # None /\ ~lsu_done => op' = op
<1>1. PICK o_pre_ready \in IF op # None THEN {lsu_done} ELSE BOOLEAN :
         /\ op' \in IF o_pre_ready THEN Accesses \cup {None} ELSE {op}
         /\ o_pre_ready_d1' = o_pre_ready
         /\ init_txn_ff' = (INIT_AXI_TXN /\ ~fast_idle_hit_done)
  BY DEF OpEdge
<1>2. lsu_done \in BOOLEAN
  BY WhenDone
<1>3. op \in Accesses \cup {None}
  BY DEF CacheInv, CacheTypes
<1>4. o_pre_ready \in BOOLEAN
  BY <1>1, <1>2
<1>5. init_txn_ff' \in BOOLEAN
  BY <1>1
<1> QED BY <1>1, <1>3, <1>4, <1>5

\* From one state to the next.
LEMMA StateFlow ==
    ASSUME CacheInv, NEW fires, StateEdge(fires)
    PROVE  /\ state' \in {"idle", "check"} \cup Blocks \cup Devices
           /\ state' = "check" => state = "idle" /\ init_txn_pulse /\ ~fast_idle_hit_done /\ lat' = op
           /\ state' # "check" => lat' = lat
           /\ state = "check" => state' \in Blocks \cup Devices
           /\ state \in Blocks => state' \in Blocks \cup {"idle"}
           /\ state \in Devices => state' \in Devices \cup {"idle"}
           /\ state = "check" /\ state' \in Blocks => lat.addr \in Cacheable
           /\ state = "check" /\ state' \in Devices => lat.addr \in Uncached
           /\ state = "idle" => state' \in {"idle", "check"}
           /\ state = "store_fill" => state' = "idle"
           /\ state' = "store_fill" => state = "refill_r" /\ rready /\ rlast /\ lat.store
           /\ lsu_done => state' = "idle"
<1>1. state \in {"idle", "check"} \cup Blocks \cup Devices /\ lat \in Accesses \cup {None}
  BY DEF CacheInv, CacheTypes
<1>2. CASE Idle
  BY <1>2, WhenDone DEF Idle, Blocks, Devices, CacheInv, Serves, init_txn_pulse, INIT_AXI_TXN
<1>3. CASE Check
  <2>1. lat.addr \in Cacheable \/ lat.addr \in Uncached
    BY <1>3, AccessTypes DEF Check, CacheInv, Serves, CacheTypes
  <2>2. ~Hit(lat.addr)
    BY <1>3, WhenDone DEF Check, fast_hit_done
  <2> QED BY <1>3, <2>1, <2>2, WhenDone DEF Check, Blocks, Devices
<1>4. CASE WbAw(fires)
  BY <1>4, WhenDone DEF WbAw, Blocks, Devices
<1>5. CASE WbB
  BY <1>5, WhenDone DEF WbB, Blocks, Devices
<1>6. CASE RefillAr(fires)
  BY <1>6, WhenDone DEF RefillAr, Blocks, Devices
<1>7. CASE RefillR
  BY <1>7, WhenDone DEF RefillR, Blocks, Devices
<1>8. CASE StoreFill
  BY <1>8, WhenDone DEF StoreFill, Blocks, Devices
<1>9. CASE UncacheAr(fires)
  BY <1>9, WhenDone DEF UncacheAr, Blocks, Devices
<1>10. CASE UncacheR
  BY <1>10, WhenDone DEF UncacheR, Blocks, Devices
<1>11. CASE UncacheAw(fires)
  BY <1>11, WhenDone DEF UncacheAw, Blocks, Devices
<1>12. CASE UncacheB
  BY <1>12, WhenDone DEF UncacheB, Blocks, Devices
<1> QED BY <1>2, <1>3, <1>4, <1>5, <1>6, <1>7, <1>8, <1>9, <1>10, <1>11, <1>12 DEF StateEdge

LEMMA ServesStep ==
    ASSUME CacheInv, NEW fires, StateEdge(fires), OpEdge, done_reg' = (state = "store_fill")
    PROVE  Serves'
<1>1. /\ op # None => o_pre_ready_d1' = lsu_done
      /\ op # None /\ ~lsu_done => op' = op
  BY OpStays
<1>2. state' # "idle" => lat' = op' /\ op' # None
  <2> SUFFICES ASSUME state' # "idle" PROVE lat' = op' /\ op' # None
    OBVIOUS
  <2>1. ~lsu_done
    BY StateFlow
  <2>2. CASE state' = "check"
    BY <1>1, <2>1, <2>2, StateFlow DEF init_txn_pulse, INIT_AXI_TXN
  <2>3. CASE state' # "check"
    <3>1. state # "idle" /\ lat' = lat
      BY <2>3, StateFlow
    <3> QED BY <1>1, <2>1, <3>1 DEF CacheInv, Serves
  <2> QED BY <2>2, <2>3
<1>3. done_reg' => state' = "idle" /\ op' # None /\ op'.store /\ ~o_pre_ready_d1'
  <2> SUFFICES ASSUME state = "store_fill"
               PROVE  state' = "idle" /\ op' # None /\ op'.store /\ ~o_pre_ready_d1'
    OBVIOUS
  <2>1. op # None /\ lat = op /\ lat.store
    BY DEF CacheInv, Serves, Fills
  <2>2. ~lsu_done
    BY WhenDone
  <2> QED BY <1>1, <2>1, <2>2, StateFlow
<1>4. state' \in Blocks => lat'.addr \in Cacheable
  <2> SUFFICES ASSUME state' \in Blocks PROVE lat'.addr \in Cacheable
    OBVIOUS
  <2>1. state' # "check" /\ state' # "idle" /\ state' \notin Devices
    BY DEF Blocks, Devices
  <2>2. lat' = lat /\ (state = "check" \/ state \in Blocks)
    BY <2>1, StateFlow DEF CacheInv, CacheTypes
  <2> QED BY <2>2, StateFlow DEF CacheInv, Serves
<1>5. state' \in Devices => lat'.addr \in Uncached
  <2> SUFFICES ASSUME state' \in Devices PROVE lat'.addr \in Uncached
    OBVIOUS
  <2>1. state' # "check" /\ state' # "idle" /\ state' \notin Blocks
    BY DEF Blocks, Devices
  <2>2. lat' = lat /\ (state = "check" \/ state \in Devices)
    BY <2>1, StateFlow DEF CacheInv, CacheTypes
  <2> QED BY <2>2, StateFlow DEF CacheInv, Serves
<1> QED BY <1>2, <1>3, <1>4, <1>5 DEF Serves
------------------------------------------------------------------------------
(* Reads and writes of memory *)

\* Only a request for an address reads, and only a write writes.
LEMMA Channels ==
    ASSUME CacheInv, NEW fires \in SUBSET Driven
    PROVE  /\ "ar" \in fires => state \in {"refill_ar", "uncache_ar"}
           /\ "aw" \in fires => axi_awvalid
           /\ "w" \in fires => \/ state = "wb_aw" /\ wb_wvalid
                               \/ state = "uncache_aw" /\ axi_awvalid
BY DEF Driven, arvalid, wvalid

\* What becomes of a read under way.
LEMMA ReadGoesOn ==
    ASSUME CacheInv, NEW fires \in SUBSET Driven, NEW show \in BOOLEAN,
           ReadEdge(fires, show), state \in {"refill_r", "uncache_r"}
    PROVE  /\ reading' \in Burst \cup {None}
           /\ rready /\ rlast => reading' = None
           /\ ~(rready /\ rlast) => /\ reading' # None
                                    /\ reading'.addr = reading.addr /\ reading'.last = reading.last
                                    /\ reading'.beat = (IF rready THEN reading.beat + 1 ELSE reading.beat)
                                    /\ ~rready /\ rvalid => reading'.shown
           /\ rready => rvalid
<1>1. "ar" \notin fires
  BY Channels
<1>2. reading \in Burst /\ reading # None /\ (rready => rvalid)
  BY DEF CacheInv, CacheTypes, Reads
<1>3. /\ reading.addr \in Address /\ reading.beat \in Word /\ reading.last \in Word
      /\ reading.shown \in BOOLEAN
  BY <1>2 DEF Burst
<1>4. reading.beat <= reading.last /\ LAST_WORD \in Nat
  BY DataCacheAssumption DEF CacheInv, CacheTypes, Reads, Word
<1>5. CASE rready /\ rlast
  BY <1>1, <1>2, <1>5 DEF ReadEdge
<1>6. CASE rready /\ ~rlast
  <2>1. reading' = [reading EXCEPT !.beat = @ + 1, !.shown = show]
    BY <1>1, <1>2, <1>6 DEF ReadEdge
  <2>2. reading.beat + 1 \in Word
    BY <1>2, <1>3, <1>4, <1>6 DEF rlast, Word
  <2>3. reading' \in Burst
    BY <1>2, <2>1, <2>2 DEF Burst
  <2> QED BY <1>2, <1>6, <2>1, <2>3, ModelValueAssumption DEF Burst
<1>7. CASE ~rready
  <2>1. reading' = [reading EXCEPT !.shown = @ \/ show]
    BY <1>1, <1>2, <1>7 DEF ReadEdge
  <2>2. reading' \in Burst
    BY <1>2, <2>1 DEF Burst
  <2> QED BY <1>2, <1>7, <2>1, <2>2, ModelValueAssumption DEF Burst, rvalid
<1> QED BY <1>5, <1>6, <1>7

LEMMA ReadsStep ==
    ASSUME CacheInv, NEW fires \in SUBSET Driven, NEW show \in BOOLEAN,
           StateEdge(fires), ReadEdge(fires, show)
    PROVE  Reads' /\ reading' \in Burst \cup {None} /\ refill_cnt' \in Word /\ rready' \in BOOLEAN
<1>1. /\ LAST_WORD \in Nat /\ 0 \in Word /\ LAST_WORD \in Word
      /\ refill_cnt \in Word /\ rready \in BOOLEAN
  BY DataCacheAssumption DEF Word, CacheInv, CacheTypes
<1>2. CASE state \notin {"refill_ar", "refill_r", "uncache_ar", "uncache_r"}
  <2>1. reading = None /\ ~rready
    BY <1>2 DEF CacheInv, Reads
  <2>2. reading' = None
    BY <1>2, <2>1, Channels DEF ReadEdge
  <2>3. rready' = rready /\ refill_cnt' = refill_cnt
    BY <1>2 DEF StateEdge, Idle, Check, WbAw, WbB, RefillAr, RefillR, StoreFill,
                UncacheAr, UncacheR, UncacheAw, UncacheB
  <2>4. state' \notin {"refill_r", "uncache_r"}
    BY <1>2 DEF StateEdge, Idle, Check, WbAw, WbB, RefillAr, RefillR, StoreFill,
                UncacheAr, UncacheR, UncacheAw, UncacheB
  <2> QED BY <1>1, <2>1, <2>2, <2>3, <2>4 DEF Reads
<1>3. CASE state \in {"refill_ar", "uncache_ar"} /\ "ar" \notin fires
  <2>1. reading = None /\ ~rready
    BY <1>3 DEF CacheInv, Reads
  <2>2. reading' = None
    BY <1>3, <2>1 DEF ReadEdge
  <2>3. rready' = rready /\ refill_cnt' = refill_cnt /\ state' = state
    BY <1>3 DEF StateEdge, Idle, Check, WbAw, WbB, RefillAr, RefillR, StoreFill,
                UncacheAr, UncacheR, UncacheAw, UncacheB
  <2> QED BY <1>1, <1>3, <2>1, <2>2, <2>3 DEF Reads
<1>4. CASE state \in {"refill_ar", "uncache_ar"} /\ "ar" \in fires
  <2>1. /\ state' = (IF state = "refill_ar" THEN "refill_r" ELSE "uncache_r")
        /\ rready' = FALSE /\ lat' = lat
        /\ refill_cnt' = (IF state = "refill_ar" THEN 0 ELSE refill_cnt)
    BY <1>4 DEF StateEdge, Idle, Check, WbAw, WbB, RefillAr, RefillR, StoreFill,
                UncacheAr, UncacheR, UncacheAw, UncacheB
  <2>2. reading' = [addr |-> lat.addr, beat |-> 0, shown |-> FALSE,
                    last |-> IF state = "refill_ar" THEN LAST_WORD ELSE 0]
    BY <1>4 DEF ReadEdge
  <2>3. lat.addr \in Address
    BY <1>4, AccessTypes DEF CacheInv, CacheTypes, Serves
  <2>4. reading' \in Burst
    BY <1>1, <2>2, <2>3 DEF Burst
  <2>5. /\ reading'.addr = lat.addr /\ reading'.beat = 0
        /\ reading'.last = IF state = "refill_ar" THEN LAST_WORD ELSE 0
    BY <2>2
  <2> QED BY <1>1, <1>4, <2>1, <2>4, <2>5, ModelValueAssumption DEF Reads
<1>5. CASE state = "refill_r"
  <2>1. /\ reading.addr = lat.addr /\ reading.beat = refill_cnt /\ reading.last = LAST_WORD
    BY <1>5 DEF CacheInv, Reads
  <2>2. /\ rready' = (rvalid /\ ~rready) /\ lat' = lat
        /\ refill_cnt' = (IF rready THEN (refill_cnt + 1) % (LAST_WORD + 1) ELSE refill_cnt)
        /\ state' = IF rready /\ rlast THEN (IF lat.store THEN "store_fill" ELSE "idle") ELSE state
    BY <1>5 DEF StateEdge, Idle, Check, WbAw, WbB, RefillAr, RefillR, StoreFill,
                UncacheAr, UncacheR, UncacheAw, UncacheB
  <2>3. refill_cnt' \in Word
    BY <1>1, <2>2 DEF Word
  <2>4. rready /\ ~rlast => refill_cnt' = refill_cnt + 1
    <3> SUFFICES ASSUME rready, ~rlast PROVE refill_cnt' = refill_cnt + 1
      OBVIOUS
    <3>1. reading # None
      BY <1>5 DEF CacheInv, Reads
    <3>2. refill_cnt # LAST_WORD
      BY <2>1, <3>1 DEF rlast
    <3> QED BY <1>1, <2>2, <3>2 DEF Word
  <2>5. CASE rready /\ rlast
    BY <1>5, <2>2, <2>3, <2>5, ReadGoesOn DEF Reads
  <2>6. CASE ~(rready /\ rlast)
    <3>1. /\ reading' \in Burst /\ reading' # None
          /\ reading'.addr = reading.addr /\ reading'.last = reading.last
          /\ reading'.beat = (IF rready THEN reading.beat + 1 ELSE reading.beat)
          /\ ~rready /\ rvalid => reading'.shown
      BY <1>5, <2>6, ReadGoesOn
    <3>2. state' = "refill_r"
      BY <1>5, <2>2, <2>6
    <3>3. reading'.beat = refill_cnt'
      BY <2>1, <2>2, <2>4, <2>6, <3>1
    <3> QED BY <2>1, <2>2, <2>3, <3>1, <3>2, <3>3 DEF Reads, rvalid
  <2> QED BY <2>5, <2>6
<1>6. CASE state = "uncache_r"
  <2>1. reading # None /\ reading.addr = lat.addr /\ reading.beat = 0 /\ reading.last = 0
    BY <1>6 DEF CacheInv, Reads
  <2>2. /\ rready' = (rvalid /\ ~rready) /\ lat' = lat /\ refill_cnt' = refill_cnt
        /\ state' = IF rready THEN "idle" ELSE state
    BY <1>6 DEF StateEdge, Idle, Check, WbAw, WbB, RefillAr, RefillR, StoreFill,
                UncacheAr, UncacheR, UncacheAw, UncacheB
  <2>3. rlast
    BY <2>1 DEF rlast
  <2>4. CASE rready
    BY <1>1, <1>6, <2>2, <2>3, <2>4, ReadGoesOn DEF Reads
  <2>5. CASE ~rready
    <3>1. /\ reading' \in Burst /\ reading' # None
          /\ reading'.addr = reading.addr /\ reading'.last = reading.last
          /\ reading'.beat = reading.beat
          /\ rvalid => reading'.shown
      BY <1>6, <2>5, ReadGoesOn
    <3> QED BY <1>1, <1>6, <2>1, <2>2, <2>5, <3>1 DEF Reads, rvalid
  <2> QED BY <2>4, <2>5
<1> QED BY <1>2, <1>3, <1>4, <1>5, <1>6
\* Nothing is written in the cache while the unit looks up or writes back a
\* block, or works for a device.
LEMMA CacheRests ==
    ASSUME CacheInv, NEW fires, CacheEdge(fires), PlruEdge,
           state \in {"check", "wb_aw", "wb_b"} \cup Devices
    PROVE  cache' = cache /\ plru' = plru
<1>1. /\ state # "idle" /\ state # "refill_ar" /\ state # "refill_r" /\ state # "store_fill"
      /\ ~fast_hit_done /\ ~fast_idle_hit_done
  BY WhenDone DEF Devices
<1> QED BY <1>1 DEF CacheEdge, PlruEdge

\* The line that is written back, and where its next word goes.
LEMMA EvictedLine ==
    ASSUME CacheInv, state \in {"wb_aw", "wb_b"}
    PROVE  /\ wb \in Evicted /\ wb.tag \in Tag /\ wb.way \in Ways /\ wb.cnt \in Word
           /\ lat.addr \in Cacheable /\ lat.addr.index \in Index
           /\ wb_word_addr \in Cacheable /\ wb_word_addr \in Address /\ wb_word_addr # None
           /\ Line(lat.addr.index, wb.way) \in CacheLine
           /\ Line(lat.addr.index, wb.way).data[wb.cnt] \in Value
           /\ Line(lat.addr.index, wb.way).data[wb.cnt] # None
<1>1. wb \in Evicted /\ wb.way \in Ways /\ wb.cnt \in Word
  BY DEF CacheInv, Victims, Evicted
<1>2. lat.addr \in Cacheable /\ lat.addr.index \in Index
  BY BlockOfWord DEF CacheInv, Serves, Blocks
<1>3. wb.tag \in Tag
  BY <1>1, <1>2 DEF CacheInv, Victims, CacheTypes
<1>4. wb_word_addr \in Cacheable
  BY <1>1, <1>2, <1>3, WordOfBlock DEF wb_word_addr
<1>5. Line(lat.addr.index, wb.way) \in CacheLine
  BY <1>1, <1>2 DEF Line, CacheInv, CacheTypes
<1>6. Line(lat.addr.index, wb.way).data[wb.cnt] \in Value
  BY <1>1, <1>5 DEF CacheLine
<1> QED BY <1>1, <1>2, <1>3, <1>4, <1>5, <1>6, ModelValueAssumption DEF Address

\* In the other states memory has no write.
LEMMA NoWriteStep ==
    ASSUME CacheInv, NEW fires \in SUBSET Driven, NEW show \in BOOLEAN,
           StateEdge(fires), WriteEdge(fires, show),
           state \notin {"wb_aw", "wb_b", "uncache_aw", "uncache_b"}
    PROVE  /\ Writes' /\ writing' = NoWrite /\ writing' \in Written /\ ram' = ram
           /\ <<axi_bready', axi_awvalid', wb_wvalid'>> \in BOOLEAN \X BOOLEAN \X BOOLEAN
<1>1. /\ writing = NoWrite /\ axi_awvalid = FALSE /\ wb_wvalid = FALSE /\ axi_bready = FALSE
  BY DEF CacheInv, CacheTypes, Writes
<1>2. "aw" \notin fires /\ "w" \notin fires
  BY <1>1, Channels
<1>3. /\ writing' = [aw |-> None, w |-> None, b |-> bvalid \/ (show /\ None \notin {None, None})]
      /\ ram' = ram
  BY <1>1, <1>2 DEF WriteEdge, NoWrite, bvalid
<1>4. bvalid = FALSE
  BY <1>1 DEF bvalid, NoWrite
<1>5. writing' = NoWrite
  BY <1>3, <1>4 DEF NoWrite
<1>6. writing' \in Written
  BY <1>5 DEF NoWrite, Written
<1>7. writing'.aw = None /\ writing'.w = None /\ writing'.b = FALSE
  BY <1>5 DEF NoWrite
<1>8. CASE state = "check"
  <2>1. Check
    BY <1>8 DEF StateEdge, Idle, WbAw, WbB, RefillAr, RefillR, StoreFill,
                UncacheAr, UncacheR, UncacheAw, UncacheB
  <2>2. lat' = lat /\ axi_bready' = FALSE
    BY <1>1, <2>1 DEF Check
  <2>3. axi_awvalid' = (state' \in {"wb_aw", "uncache_aw"}) /\ wb_wvalid' = (state' = "wb_aw")
    BY <2>1 DEF Check
  <2>4. state' = "uncache_aw" => lat.store
    BY <2>1 DEF Check
  <2>5. state' # "wb_b" /\ state' # "uncache_b"
    BY <2>1 DEF Check
  <2>6. <<axi_bready', axi_awvalid', wb_wvalid'>> \in BOOLEAN \X BOOLEAN \X BOOLEAN
    <3>1. (state' \in {"wb_aw", "uncache_aw"}) \in BOOLEAN /\ (state' = "wb_aw") \in BOOLEAN
      OBVIOUS
    <3>2. axi_awvalid' \in BOOLEAN /\ wb_wvalid' \in BOOLEAN
      BY <2>3, <3>1, Zenon
    <3>3. axi_bready' \in BOOLEAN
      BY <2>2
    <3> QED BY <3>2, <3>3
  <2>7. Writes'
    BY <1>5, <1>7, <2>2, <2>3, <2>4, <2>5 DEF Writes
  <2> QED BY <1>3, <1>5, <1>6, <2>6, <2>7
<1>9. CASE state # "check"
  <2>1. /\ axi_awvalid' = FALSE /\ wb_wvalid' = FALSE /\ axi_bready' = FALSE
        /\ state' \notin {"wb_aw", "wb_b", "uncache_aw", "uncache_b"}
    BY <1>1, <1>9 DEF StateEdge, Idle, Check, WbAw, WbB, RefillAr, RefillR, StoreFill,
                UncacheAr, UncacheR, UncacheAw, UncacheB
  <2> QED BY <1>3, <1>5, <1>6, <1>7, <2>1 DEF Writes
<1> QED BY <1>8, <1>9

\* One word of the write-back: memory has it when both channels have fired.
LEMMA WbAwWrites ==
    ASSUME CacheInv, NEW fires \in SUBSET Driven, NEW show \in BOOLEAN,
           StateEdge(fires), WriteEdge(fires, show), CacheEdge(fires), PlruEdge,
           state = "wb_aw"
    PROVE  /\ Writes' /\ writing' \in Written
           /\ ram' = IF state' = "wb_b"
                     THEN [ram EXCEPT ![wb_word_addr] = Line(lat.addr.index, wb.way).data[wb.cnt]]
                     ELSE ram
           /\ state' \in {"wb_aw", "wb_b"} /\ wb' = wb /\ lat' = lat
           /\ state' = "wb_b" => victim_way_lat' = wb.way
           /\ state' # "wb_b" => victim_way_lat' = victim_way_lat
           /\ <<axi_bready', axi_awvalid', wb_wvalid'>> \in BOOLEAN \X BOOLEAN \X BOOLEAN
<1> DEFINE d == Line(lat.addr.index, wb.way).data[wb.cnt]
<1>1. /\ axi_awvalid \/ wb_wvalid
      /\ writing.aw = (IF axi_awvalid THEN None ELSE wb_word_addr)
      /\ writing.w = (IF wb_wvalid THEN None ELSE d)
      /\ ~writing.b
      /\ axi_awvalid \in BOOLEAN /\ wb_wvalid \in BOOLEAN /\ axi_bready = FALSE
  BY DEF CacheInv, CacheTypes, Writes
<1>2. wb_word_addr # None /\ d # None /\ wb_word_addr \in Address /\ d \in Value
  BY EvictedLine
<1>3. WbAw(fires)
  BY DEF StateEdge, Idle, Check, WbB, RefillAr, RefillR, StoreFill,
         UncacheAr, UncacheR, UncacheAw, UncacheB
<1>4. /\ axi_awvalid' = (axi_awvalid /\ "aw" \notin fires)
      /\ wb_wvalid' = (wb_wvalid /\ "w" \notin fires)
      /\ state' = IF axi_awvalid' \/ wb_wvalid' THEN "wb_aw" ELSE "wb_b"
      /\ wb' = wb /\ lat' = lat /\ axi_bready' = FALSE
      /\ state' = "wb_b" => victim_way_lat' = wb.way
      /\ state' # "wb_b" => victim_way_lat' = victim_way_lat
  BY <1>1, <1>3 DEF WbAw
<1>5. ("aw" \in fires => axi_awvalid) /\ ("w" \in fires => wb_wvalid)
  BY Channels
<1>6. awaddr = wb_word_addr /\ wdata = d
  BY DEF awaddr, wdata
<1> DEFINE aw == IF axi_awvalid' THEN None ELSE wb_word_addr
           w == IF wb_wvalid' THEN None ELSE d
<1> DEFINE naw == IF "aw" \in fires THEN awaddr ELSE writing.aw
           nw == IF "w" \in fires THEN wdata ELSE writing.w
<1>7. naw = aw /\ nw = w
  BY <1>1, <1>4, <1>5, <1>6
<1>8. None \in {writing.aw, writing.w}
  BY <1>1
<1>9. bvalid = FALSE
  BY <1>1, <1>8 DEF bvalid, CacheInv, CacheTypes, Written
<1>10. /\ writing' = [aw |-> aw, w |-> w, b |-> FALSE]
       /\ ram' = IF aw # None /\ w # None THEN [ram EXCEPT ![aw] = w] ELSE ram
  <2>1. /\ writing' = [aw |-> naw, w |-> nw,
                       b |-> bvalid \/ (show /\ None \notin {writing.aw, writing.w})]
        /\ ram' = IF naw # None /\ nw # None THEN [ram EXCEPT ![naw] = nw] ELSE ram
    BY <1>9 DEF WriteEdge
  <2>2. (bvalid \/ (show /\ None \notin {writing.aw, writing.w})) = FALSE
    BY <1>8, <1>9
  <2> HIDE DEF naw, nw, aw, w
  <2> QED BY <1>7, <2>1, <2>2
<1>11. aw # None /\ w # None <=> state' = "wb_b"
  BY <1>2, <1>4
<1>12. ram' = IF state' = "wb_b" THEN [ram EXCEPT ![wb_word_addr] = d] ELSE ram
  BY <1>4, <1>10, <1>11
<1>13. cache' = cache
  BY CacheRests
<1>14. wb_word_addr' = wb_word_addr /\ (Line(lat.addr.index, wb.way).data[wb.cnt])' = d
  BY <1>4, <1>13 DEF wb_word_addr, Line
<1>15. writing' \in Written /\ writing'.aw = aw /\ writing'.w = w /\ writing'.b = FALSE
  BY <1>2, <1>10 DEF Written
<1> HIDE DEF d
<1>16. Writes'
  BY <1>4, <1>11, <1>14, <1>15 DEF Writes
<1> QED BY <1>4, <1>12, <1>15, <1>16 DEF d

\* A write on memory's side that repeats what is there.
LEMMA SameWrite ==
    ASSUME ram \in [Address -> Value], NEW a \in Address
    PROVE  [ram EXCEPT ![a] = ram[a]] = ram
OBVIOUS

\* The response of a word: memory keeps it.
LEMMA WbBWrites ==
    ASSUME CacheInv, NEW fires \in SUBSET Driven, NEW show \in BOOLEAN,
           StateEdge(fires), WriteEdge(fires, show), CacheEdge(fires), PlruEdge,
           state = "wb_b"
    PROVE  /\ Writes' /\ writing' \in Written /\ ram' = ram /\ lat' = lat
           /\ victim_way_lat' = victim_way_lat
           /\ state' \in {"wb_aw", "wb_b", "refill_ar"}
           /\ state' = "wb_aw" => wb.cnt < LAST_WORD /\ wb' = [wb EXCEPT !.cnt = @ + 1]
           /\ state' # "wb_aw" => wb' = wb
           /\ state' = "refill_ar" => wb.cnt = LAST_WORD
           /\ <<axi_bready', axi_awvalid', wb_wvalid'>> \in BOOLEAN \X BOOLEAN \X BOOLEAN
<1> DEFINE d == Line(lat.addr.index, wb.way).data[wb.cnt]
           next == axi_bready /\ wb.cnt < LAST_WORD
<1>1. /\ writing.aw = wb_word_addr /\ writing.w = d /\ writing.b \in BOOLEAN
      /\ axi_bready => writing.b
      /\ axi_awvalid = FALSE /\ wb_wvalid = FALSE /\ axi_bready \in BOOLEAN
  BY DEF CacheInv, CacheTypes, Writes, bvalid, Written
<1>2. /\ wb_word_addr # None /\ d # None /\ wb_word_addr \in Address /\ d \in Value
      /\ wb.cnt \in Word
  BY EvictedLine
<1>3. WbB
  BY DEF StateEdge, Idle, Check, WbAw, RefillAr, RefillR, StoreFill,
         UncacheAr, UncacheR, UncacheAw, UncacheB
<1>4. /\ axi_bready' = (writing.b /\ ~axi_bready)
      /\ state' = IF next THEN "wb_aw" ELSE IF axi_bready THEN "refill_ar" ELSE "wb_b"
      /\ wb' = IF next THEN [wb EXCEPT !.cnt = @ + 1] ELSE wb
      /\ axi_awvalid' = next /\ wb_wvalid' = next /\ lat' = lat
      /\ victim_way_lat' = victim_way_lat
  BY <1>3 DEF WbB, bvalid
<1>5. "aw" \notin fires /\ "w" \notin fires
  BY <1>1, Channels
<1>6. ram[wb_word_addr] = d
  BY <1>2 DEF CacheInv, Victims, Saved, wb_word_addr
<1>7. ram' = [ram EXCEPT ![wb_word_addr] = d]
  BY <1>1, <1>2, <1>5 DEF WriteEdge
<1>8. ram' = ram
  BY <1>2, <1>6, <1>7, SameWrite DEF CacheInv, CacheTypes
<1>9. cache' = cache
  BY CacheRests
<1>10. wb.cnt \in 0 .. LAST_WORD /\ LAST_WORD \in Nat
  BY <1>2, DataCacheAssumption DEF Word
<1> HIDE DEF d
<1>11. CASE axi_bready
  <2>1. writing' = NoWrite
    BY <1>1, <1>11 DEF WriteEdge, bvalid
  <2>2. writing' \in Written /\ writing'.aw = None /\ writing'.w = None /\ writing'.b = FALSE
    BY <2>1 DEF NoWrite, Written
  <2>3. axi_bready' = FALSE
    BY <1>4, <1>11
  <2>4. state' \in {"wb_aw", "refill_ar"} /\ axi_awvalid' = (state' = "wb_aw")
        /\ wb_wvalid' = (state' = "wb_aw")
    BY <1>4, <1>11
  <2>5. Writes'
    BY <2>1, <2>2, <2>3, <2>4 DEF Writes
  <2>6. wb.cnt < LAST_WORD \/ wb.cnt = LAST_WORD
    BY <1>10
  <2> QED BY <1>4, <1>8, <1>11, <2>2, <2>3, <2>4, <2>5, <2>6
<1>12. CASE ~axi_bready
  <2>1. writing' = [aw |-> writing.aw, w |-> writing.w, b |-> bvalid \/ (show /\ None \notin {writing.aw, writing.w})]
    BY <1>5, <1>12 DEF WriteEdge
  <2>2. /\ writing'.aw = wb_word_addr /\ writing'.w = d /\ writing'.b \in BOOLEAN
        /\ writing.b => writing'.b
    BY <1>1, <2>1 DEF bvalid
  <2>3. writing' \in Written
    BY <1>1, <1>2, <2>1 DEF Written, bvalid
  <2>4. next = FALSE /\ state' = "wb_b" /\ wb' = wb
    BY <1>4, <1>12
  <2>5. wb_word_addr' = wb_word_addr /\ (Line(lat.addr.index, wb.way).data[wb.cnt])' = d
    BY <1>4, <1>9, <2>4 DEF wb_word_addr, Line, d
  <2>6. Writes'
    BY <1>2, <1>4, <1>12, <2>2, <2>4, <2>5 DEF Writes, bvalid
  <2> QED BY <1>4, <1>8, <2>3, <2>4, <2>6
<1> QED BY <1>11, <1>12
\* A store to a device, its two halves together or one before the other.
LEMMA DeviceWrites ==
    ASSUME CacheInv, NEW fires \in SUBSET Driven, NEW show \in BOOLEAN, MayFire(fires),
           StateEdge(fires), WriteEdge(fires, show),
           state \in {"uncache_aw", "uncache_b"}
    PROVE  /\ Writes' /\ writing' \in Written /\ lat' = lat
           /\ ram' = ram \/ ram' = [ram EXCEPT ![lat.addr] = lat.value]
           /\ wb' = wb /\ victim_way_lat' = victim_way_lat
           /\ <<axi_bready', axi_awvalid', wb_wvalid'>> \in BOOLEAN \X BOOLEAN \X BOOLEAN
<1>1. /\ writing.aw \in {None, lat.addr} /\ writing.w \in {None, lat.value}
      /\ lat.store /\ writing.b \in BOOLEAN
      /\ axi_awvalid => state = "uncache_aw" /\ writing.aw = None
      /\ writing.b => None \notin {writing.aw, writing.w}
      /\ wb_wvalid = FALSE /\ axi_awvalid \in BOOLEAN /\ axi_bready \in BOOLEAN
      /\ axi_bready => state = "uncache_b" /\ writing.b
  BY DEF CacheInv, CacheTypes, Writes, Written, bvalid
<1>2. /\ lat.addr \in Address /\ lat.value \in Value /\ lat.addr # None /\ lat.value # None
  BY AccessTypes DEF CacheInv, CacheTypes, Serves
<1>3. UncacheAw(fires) \/ UncacheB
  BY DEF StateEdge, Idle, Check, WbAw, WbB, RefillAr, RefillR, StoreFill, UncacheAr, UncacheR
<1>4. /\ lat' = lat /\ wb' = wb /\ victim_way_lat' = victim_way_lat /\ wb_wvalid' = FALSE
      /\ axi_awvalid' \in BOOLEAN /\ axi_bready' \in BOOLEAN
      /\ state' \in {"uncache_aw", "uncache_b", "idle"}
      /\ state' = "idle" <=> axi_bready
      /\ axi_awvalid' => axi_awvalid /\ "aw" \notin fires /\ state' = "uncache_aw"
      /\ axi_bready' => ~axi_bready /\ writing.b /\ state' = "uncache_b"
  <2>1. CASE UncacheAw(fires)
    BY <1>1, <2>1 DEF UncacheAw
  <2>2. CASE UncacheB
    BY <1>1, <2>2 DEF UncacheB, bvalid
  <2> QED BY <1>3, <2>1, <2>2
<1> DEFINE naw == IF "aw" \in fires THEN awaddr ELSE writing.aw
           nw == IF "w" \in fires THEN wdata ELSE writing.w
<1>5. naw \in {None, lat.addr} /\ nw \in {None, lat.value}
  BY <1>1 DEF awaddr, wdata
<1>6. /\ writing' = IF bvalid /\ axi_bready THEN NoWrite
                    ELSE [aw |-> naw, w |-> nw,
                          b |-> bvalid \/ (show /\ None \notin {writing.aw, writing.w})]
      /\ ram' = IF naw # None /\ nw # None THEN [ram EXCEPT ![naw] = nw] ELSE ram
  BY DEF WriteEdge
<1>7. axi_awvalid' => naw = None
  BY <1>1, <1>4
<1>8. writing.aw # None => naw = writing.aw
  BY DEF MayFire
<1>9. writing.w # None => nw = writing.w
  BY DEF MayFire
<1> HIDE DEF naw, nw
<1>10. ram' = ram \/ ram' = [ram EXCEPT ![lat.addr] = lat.value]
  BY <1>5, <1>6
<1>11. CASE axi_bready
  <2>1. writing' = NoWrite
    BY <1>1, <1>6, <1>11 DEF bvalid
  <2>2. writing' \in Written /\ writing'.aw = None /\ writing'.w = None /\ writing'.b = FALSE
    BY <2>1 DEF NoWrite, Written
  <2>3. state' = "idle" /\ axi_bready' = FALSE /\ axi_awvalid' = FALSE
    BY <1>4, <1>11
  <2>4. Writes'
    BY <1>4, <2>1, <2>2, <2>3 DEF Writes
  <2> QED BY <1>4, <1>10, <2>2, <2>4
<1>12. CASE ~axi_bready
  <2>1. writing' = [aw |-> naw, w |-> nw,
                    b |-> writing.b \/ (show /\ None \notin {writing.aw, writing.w})]
    BY <1>6, <1>12 DEF bvalid
  <2>2. /\ writing'.aw = naw /\ writing'.w = nw /\ writing'.b \in BOOLEAN
        /\ writing.b => writing'.b
        /\ writing'.b => None \notin {writing.aw, writing.w}
    BY <1>1, <2>1
  <2>3. writing' \in Written
    BY <1>2, <1>5, <2>1, <2>2 DEF Written
  <2>4. writing'.b => None \notin {writing'.aw, writing'.w}
    BY <1>8, <1>9, <2>2
  <2>5. state' \in {"uncache_aw", "uncache_b"}
    BY <1>4, <1>12
  <2>6. Writes'
    BY <1>1, <1>4, <1>5, <1>7, <2>2, <2>4, <2>5 DEF Writes, bvalid
  <2> QED BY <1>4, <1>10, <2>3, <2>6
<1> QED BY <1>11, <1>12
------------------------------------------------------------------------------
(* Lines, state by state *)

Lines == /\ cache \in [Index -> [Ways -> CacheLine]]
         /\ \A i \in Index : \A w \in Ways : Line(i, w).valid => Line(i, w).tag \in Tag
         /\ OneWayHits
         /\ CleanLinesMatchMemory

\* What the registers beside the lines keep track of.
Progress == /\ plru \in [Index -> Tree]
            /\ victim_way_lat \in Ways
            /\ wb \in Evicted \cup {None}
            /\ Misses
            /\ Victims
            /\ Fills

LEMMA LinesKept ==
    ASSUME CacheInv, cache' = cache, \A a \in Cacheable : ram'[a] = ram[a]
    PROVE  Lines'
<1>1. cache' \in [Index -> [Ways -> CacheLine]]
  BY DEF CacheInv, CacheTypes
<1>2. \A i \in Index : \A w \in Ways : Line(i, w)' = Line(i, w)
  BY DEF Line
<1>3. (\A i \in Index : \A w \in Ways : Line(i, w).valid => Line(i, w).tag \in Tag)'
  BY <1>2 DEF CacheInv, CacheTypes
<1>4. OneWayHits'
  BY <1>2 DEF CacheInv, OneWayHits
<1>5. CleanLinesMatchMemory'
  <2> SUFFICES ASSUME NEW i \in Index, NEW w \in Ways, Line(i, w).valid, ~Line(i, w).dirty,
                      NEW k \in Word
               PROVE  Line(i, w).data[k] = ram'[[tag |-> Line(i, w).tag, index |-> i, word |-> k]]
    BY <1>2 DEF CleanLinesMatchMemory
  <2>1. [tag |-> Line(i, w).tag, index |-> i, word |-> k] \in Cacheable
    BY WordOfBlock DEF CacheInv, CacheTypes
  <2> QED BY <2>1 DEF CacheInv, CleanLinesMatchMemory
<1> QED BY <1>1, <1>3, <1>4, <1>5 DEF Lines

\* One line is written: it stays alone with its block, and clean only if it is
\* what memory has.
LEMMA LinesWritten ==
    ASSUME CacheInv, ram' = ram, NEW i \in Index, NEW w \in Ways, NEW l \in CacheLine,
           LineWritten(i, w, l),
           l.valid => /\ l.tag \in Tag
                      /\ \A v \in Ways : Line(i, v).valid /\ Line(i, v).tag = l.tag => v = w
                      /\ ~l.dirty => \A k \in Word :
                            l.data[k] = ram[[tag |-> l.tag, index |-> i, word |-> k]]
    PROVE  Lines'
<1>1. /\ cache' \in [Index -> [Ways -> CacheLine]]
      /\ \A j \in Index : \A v \in Ways :
           Line(j, v)' = IF j = i /\ v = w THEN l ELSE Line(j, v)
  <2>1. cache \in [Index -> [Ways -> CacheLine]]
    BY DEF CacheInv, CacheTypes
  <2> QED BY <2>1, OneLine
<1>2. (\A j \in Index : \A v \in Ways : Line(j, v).valid => Line(j, v).tag \in Tag)'
  BY <1>1 DEF CacheInv, CacheTypes
<1>3. OneWayHits'
  <2> SUFFICES ASSUME NEW j \in Index, NEW v \in Ways, NEW u \in Ways,
                      Line(j, v)'.valid, Line(j, u)'.valid, Line(j, v)'.tag = Line(j, u)'.tag
               PROVE  v = u
    BY DEF OneWayHits
  <2> QED BY <1>1 DEF CacheInv, OneWayHits
<1>4. CleanLinesMatchMemory'
  <2> SUFFICES ASSUME NEW j \in Index, NEW v \in Ways, Line(j, v)'.valid, ~Line(j, v)'.dirty,
                      NEW k \in Word
               PROVE  Line(j, v)'.data[k] = ram[[tag |-> Line(j, v)'.tag, index |-> j, word |-> k]]
    BY DEF CleanLinesMatchMemory
  <2> QED BY <1>1 DEF CacheInv, CleanLinesMatchMemory
<1> QED BY <1>1, <1>2, <1>3, <1>4 DEF Lines

\* A store that hits.
LEMMA StoreHits ==
    ASSUME CacheInv, ram' = ram, NEW a \in Accesses, a.addr \in Cacheable,
           NEW w \in Ways, Line(a.addr.index, w).valid, Line(a.addr.index, w).tag = a.addr.tag,
           LineWritten(a.addr.index, w, Stored(Line(a.addr.index, w), a))
    PROVE  /\ Lines'
           /\ cache'[a.addr.index][w].valid /\ cache'[a.addr.index][w].tag = a.addr.tag
<1> DEFINE l == Stored(Line(a.addr.index, w), a)
<1>1. a.addr.index \in Index
  BY BlockOfWord
<1>2. Line(a.addr.index, w) \in CacheLine
  BY <1>1 DEF Line, CacheInv, CacheTypes
<1>3. l \in CacheLine /\ l.tag = a.addr.tag /\ l.valid /\ l.dirty
  BY <1>2, StoredLine
<1> HIDE DEF l
<1>4. l.tag \in Tag
  BY <1>3, BlockOfWord
<1>5. \A v \in Ways : Line(a.addr.index, v).valid /\ Line(a.addr.index, v).tag = l.tag => v = w
  BY <1>1, <1>3 DEF CacheInv, OneWayHits
<1>6. LineWritten(a.addr.index, w, l)
  BY DEF l
<1>7. Lines'
  BY <1>1, <1>3, <1>4, <1>5, <1>6, LinesWritten
<1>8. Line(a.addr.index, w)' = l
  <2>1. cache \in [Index -> [Ways -> CacheLine]]
    BY DEF CacheInv, CacheTypes
  <2> QED BY <1>1, <1>3, <1>6, <2>1, OneLine
<1> QED BY <1>3, <1>7, <1>8 DEF Line

\* Edge by edge, what becomes of the lines and of the work under way.
LEMMA IdleLines ==
    ASSUME CacheInv, NEW fires \in SUBSET Driven, NEW show \in BOOLEAN, Cycle(fires, show),
           state = "idle"
    PROVE  Lines' /\ Progress'
<1>1. /\ ram' = ram /\ wb' = wb /\ victim_way_lat' = victim_way_lat
      /\ state' \in {"idle", "check"} /\ done_reg' = FALSE
      /\ state' = "check" => lat' = op /\ ~fast_idle_hit_done /\ op # None
  <2>1. Idle
    BY DEF Cycle, StateEdge, Check, WbAw, WbB, RefillAr, RefillR, StoreFill,
           UncacheAr, UncacheR, UncacheAw, UncacheB
  <2>2. ram' = ram
    BY NoWriteStep DEF Cycle
  <2> QED BY <2>1, <2>2 DEF Idle, Cycle, init_txn_pulse, INIT_AXI_TXN
<1>2. ~fast_hit_done
  BY WhenDone
<1>3. CASE fast_idle_hit_done
  <2> DEFINE w == hit_way(op.addr)
  <2>1. op \in Accesses /\ op.addr \in Cacheable /\ HitWays(op.addr) # {}
    BY <1>3 DEF fast_idle_hit_done, Hit, CacheInv, CacheTypes
  <2>2. /\ w \in Ways /\ Line(op.addr.index, w).valid
        /\ Line(op.addr.index, w).tag = op.addr.tag
    BY <2>1, HitWay DEF CacheInv
  <2>3. op.addr.index \in Index
    BY <2>1, BlockOfWord
  <2>4. plru' = [plru EXCEPT ![op.addr.index] = Touch(plru[op.addr.index], w)]
    BY <1>2, <1>3 DEF Cycle, PlruEdge
  <2>5. CASE op.store
    <3>1. LineWritten(op.addr.index, w, Stored(Line(op.addr.index, w), op))
      <4>1. cache' = [cache EXCEPT ![op.addr.index][hit_way(op.addr)] = Stored(@, op)]
        BY <1>2, <1>3, <2>5 DEF Cycle, CacheEdge
      <4> QED BY <4>1 DEF Line, LineWritten
    <3> HIDE DEF w
    <3>2. Lines'
      BY <1>1, <2>1, <2>2, <3>1, StoreHits
    <3> QED BY <3>2, <1>1, <1>3, <2>2, <2>3, <2>4, TouchedTree
            DEF Progress, Misses, Victims, Fills, CacheInv, CacheTypes
  <2>6. CASE ~op.store
    <3>1. cache' = cache
      BY <1>2, <1>3, <2>6 DEF Cycle, CacheEdge
    <3>2. Lines'
      BY <1>1, <3>1, LinesKept
    <3> HIDE DEF w
    <3> QED BY <3>2, <1>1, <1>3, <2>2, <2>3, <2>4, TouchedTree
            DEF Progress, Misses, Victims, Fills, CacheInv, CacheTypes
  <2> QED BY <2>5, <2>6
<1>4. CASE ~fast_idle_hit_done
  <2>1. cache' = cache /\ plru' = plru
    BY <1>2, <1>4 DEF Cycle, CacheEdge, PlruEdge
  <2>2. Lines'
    BY <1>1, <2>1, LinesKept
  <2>3. Misses'
    <3>1. CASE state' = "check"
      <4>1. lat' = op /\ ~Hit(op.addr)
        BY <1>1, <1>4, <3>1 DEF fast_idle_hit_done
      <4>2. op.addr \in Cacheable =>
               \A w \in Ways : Line(op.addr.index, w).valid => Line(op.addr.index, w).tag # op.addr.tag
        BY <4>1 DEF Hit, HitWays, Line
      <4> QED BY <2>1, <4>1, <4>2 DEF Misses, Line
    <3>2. CASE state' = "idle"
      BY <3>2 DEF Misses
    <3> QED BY <1>1, <3>1, <3>2
  <2> QED BY <1>1, <2>1, <2>2, <2>3 DEF Progress, Victims, Fills, CacheInv, CacheTypes
<1> QED BY <1>3, <1>4

LEMMA CheckLines ==
    ASSUME CacheInv, NEW fires \in SUBSET Driven, NEW show \in BOOLEAN, Cycle(fires, show),
           state = "check"
    PROVE  Lines' /\ Progress'
<1>1. ram' = ram /\ cache' = cache /\ plru' = plru
  BY NoWriteStep, CacheRests DEF Cycle
<1>2. Lines'
  BY <1>1, LinesKept
<1>3. Check
  BY DEF Cycle, StateEdge, Idle, WbAw, WbB, RefillAr, RefillR, StoreFill,
         UncacheAr, UncacheR, UncacheAw, UncacheB
<1>4. ~Hit(lat.addr)
  BY WhenDone DEF fast_hit_done
<1>5. /\ lat' = lat /\ victim_way_lat' = victim_way_lat /\ done_reg' = FALSE
      /\ state' \in {"wb_aw", "refill_ar"} \cup Devices
      /\ state' = "wb_aw" => victim_is_dirty(lat.addr) /\ lat.addr \notin Uncached
      /\ state' = "refill_ar" => ~victim_is_dirty(lat.addr)
      /\ wb' = IF state' # "wb_aw" THEN wb
               ELSE [tag |-> Line(lat.addr.index, Victim(lat.addr)).tag,
                     way |-> Victim(lat.addr), cnt |-> 0]
  BY <1>3, <1>4 DEF Check, Devices, Cycle
<1>6. state' = "wb_aw" => wb' \in Evicted
  <2> SUFFICES ASSUME state' = "wb_aw" PROVE wb' \in Evicted
    OBVIOUS
  <2>1. lat.addr \in Cacheable
    BY <1>5, AccessTypes DEF CacheInv, Serves, CacheTypes
  <2>2. lat.addr.index \in Index
    BY <2>1, BlockOfWord
  <2>3. Victim(lat.addr) \in Ways
    BY <2>2, VictimIsWay DEF Victim, CacheInv, CacheTypes
  <2>4. Line(lat.addr.index, Victim(lat.addr)).tag \in Tag \cup {None}
    BY <2>2, <2>3 DEF Line, CacheInv, CacheTypes, CacheLine
  <2>5. 0 \in Word
    BY DataCacheAssumption DEF Word
  <2> QED BY <1>5, <2>3, <2>4, <2>5 DEF Evicted
<1>7. Misses'
  BY <1>1, <1>5 DEF CacheInv, Misses, Line
<1>8. Victims'
  <2>1. CASE state' = "wb_aw"
    <3>1. /\ wb'.tag = Line(lat.addr.index, Victim(lat.addr)).tag
          /\ wb'.way = Victim(lat.addr) /\ wb'.cnt = 0
      BY <1>5, <2>1
    <3>2. Victim(lat.addr)' = Victim(lat.addr)
      BY <1>1, <1>5 DEF Victim
    <3>3. Line(lat.addr.index, wb.way)' = Line(lat.addr.index, Victim(lat.addr))
      BY <1>1, <1>5, <3>1 DEF Line
    <3>4. \A k \in Word : ~(k < 0)
      BY DEF Word
    <3> QED BY <1>5, <1>6, <2>1, <3>1, <3>2, <3>3, <3>4 DEF Victims, victim_is_dirty
  <2>2. CASE state' = "refill_ar"
    <3>1. ~victim_is_dirty(lat.addr)'
      BY <1>1, <1>5, <2>2 DEF victim_is_dirty, Victim, Line
    <3> QED BY <2>2, <3>1 DEF Victims
  <2>3. CASE state' \in Devices
    BY <2>3 DEF Victims, Devices
  <2> QED BY <1>5, <2>1, <2>2, <2>3
<1>9. Fills'
  BY <1>5 DEF Fills, Devices
<1> QED BY <1>1, <1>2, <1>5, <1>6, <1>7, <1>8, <1>9 DEF Progress, CacheInv, CacheTypes

LEMMA DeviceLines ==
    ASSUME CacheInv, NEW fires \in SUBSET Driven, NEW show \in BOOLEAN, Cycle(fires, show),
           state \in Devices
    PROVE  Lines' /\ Progress'
<1>1. cache' = cache /\ plru' = plru
  BY CacheRests DEF Cycle
<1>2. \A a \in Cacheable : ram'[a] = ram[a]
  <2>1. CASE state \in {"uncache_ar", "uncache_r"}
    BY <2>1, NoWriteStep DEF Cycle
  <2>2. CASE state \in {"uncache_aw", "uncache_b"}
    <3>1. ram' = ram \/ ram' = [ram EXCEPT ![lat.addr] = lat.value]
      BY <2>2, DeviceWrites DEF Cycle
    <3>2. lat.addr \notin Cacheable
      BY DataCacheAssumption DEF CacheInv, Serves
    <3>3. ram \in [Address -> Value]
      BY DEF CacheInv, CacheTypes
    <3> QED BY <3>1, <3>2, <3>3 DEF Address
  <2> QED BY <2>1, <2>2 DEF Devices
<1>3. Lines'
  BY <1>1, <1>2, LinesKept
<1>4. /\ wb' = wb /\ victim_way_lat' = victim_way_lat /\ done_reg' = FALSE
      /\ state' \in Devices \cup {"idle"}
  BY DEF Cycle, StateEdge, Devices, Idle, Check, WbAw, WbB, RefillAr, RefillR, StoreFill,
         UncacheAr, UncacheR, UncacheAw, UncacheB
<1> QED BY <1>1, <1>3, <1>4 DEF Progress, Misses, Victims, Fills, Devices, CacheInv, CacheTypes
\* A word that goes back to memory is of a dirty line: no clean line is told otherwise.
LEMMA EvictedIsNotClean ==
    ASSUME CacheInv, state \in {"wb_aw", "wb_b"}, NEW i \in Index, NEW w \in Ways,
           Line(i, w).valid, ~Line(i, w).dirty, NEW k \in Word
    PROVE  [tag |-> Line(i, w).tag, index |-> i, word |-> k] # wb_word_addr
<1> SUFFICES ASSUME [tag |-> Line(i, w).tag, index |-> i, word |-> k] = wb_word_addr PROVE FALSE
  OBVIOUS
<1>1. Line(i, w).tag = wb.tag /\ i = lat.addr.index
  <2> DEFINE a == [tag |-> Line(i, w).tag, index |-> i, word |-> k]
             b == [tag |-> wb.tag, index |-> lat.addr.index, word |-> wb.cnt]
  <2>1. a.tag = b.tag /\ a.index = b.index
    BY DEF wb_word_addr
  <2> QED BY <2>1
<1>2. /\ Line(i, wb.way).valid /\ Line(i, wb.way).dirty /\ Line(i, wb.way).tag = wb.tag
      /\ wb.way \in Ways
  BY <1>1, EvictedLine DEF CacheInv, Victims
<1>3. w = wb.way
  BY <1>1, <1>2 DEF CacheInv, OneWayHits
<1> QED BY <1>2, <1>3

LEMMA WbAwLines ==
    ASSUME CacheInv, NEW fires \in SUBSET Driven, NEW show \in BOOLEAN, Cycle(fires, show),
           state = "wb_aw"
    PROVE  Lines' /\ Progress'
<1> DEFINE v == Line(lat.addr.index, wb.way)
<1>1. cache' = cache /\ plru' = plru
  BY CacheRests DEF Cycle
<1>2. /\ ram' = IF state' = "wb_b" THEN [ram EXCEPT ![wb_word_addr] = v.data[wb.cnt]] ELSE ram
      /\ state' \in {"wb_aw", "wb_b"} /\ wb' = wb /\ lat' = lat
      /\ state' = "wb_b" => victim_way_lat' = wb.way
      /\ state' # "wb_b" => victim_way_lat' = victim_way_lat
  BY WbAwWrites DEF Cycle
<1>3. /\ wb \in Evicted /\ wb.tag \in Tag /\ wb.way \in Ways /\ wb.cnt \in Word
      /\ lat.addr \in Cacheable /\ lat.addr.index \in Index /\ wb_word_addr \in Address
  BY EvictedLine
<1>4. ram \in [Address -> Value]
  BY DEF CacheInv, CacheTypes
<1>5. \A i \in Index : \A w \in Ways : Line(i, w)' = Line(i, w)
  BY <1>1 DEF Line
<1>6. Lines'
  <2>1. cache' \in [Index -> [Ways -> CacheLine]]
    BY <1>1 DEF CacheInv, CacheTypes
  <2>2. (\A i \in Index : \A w \in Ways : Line(i, w).valid => Line(i, w).tag \in Tag)'
    BY <1>5 DEF CacheInv, CacheTypes
  <2>3. OneWayHits'
    BY <1>5 DEF CacheInv, OneWayHits
  <2>4. CleanLinesMatchMemory'
    <3> SUFFICES ASSUME NEW i \in Index, NEW w \in Ways, Line(i, w).valid, ~Line(i, w).dirty,
                        NEW k \in Word
                 PROVE  Line(i, w).data[k] = ram'[[tag |-> Line(i, w).tag, index |-> i, word |-> k]]
      BY <1>5 DEF CleanLinesMatchMemory
    <3> DEFINE a == [tag |-> Line(i, w).tag, index |-> i, word |-> k]
    <3>1. a \in Address
      BY WordOfBlock DEF CacheInv, CacheTypes, Address
    <3>2. a # wb_word_addr
      BY EvictedIsNotClean
    <3>3. Line(i, w).data[k] = ram[a]
      BY DEF CacheInv, CleanLinesMatchMemory
    <3> HIDE DEF a
    <3>4. ram'[a] = ram[a]
      BY <1>2, <1>3, <1>4, <3>1, <3>2
    <3> QED BY <3>3, <3>4 DEF a
  <2> QED BY <2>1, <2>2, <2>3, <2>4 DEF Lines
<1>7. /\ Victim(lat.addr) = wb.way /\ v.valid /\ v.dirty /\ v.tag = wb.tag
      /\ \A k \in Word : k < wb.cnt => Saved(k)
  BY DEF CacheInv, Victims
<1>8. Victim(lat.addr)' = wb.way /\ Line(lat.addr.index, wb.way)' = v
  BY <1>1, <1>2, <1>3, <1>5, <1>7 DEF Victim
<1> DEFINE b(k) == [tag |-> wb.tag, index |-> lat.addr.index, word |-> k]
<1>9. \A k \in Word : b(k) \in Address /\ b(k).word = k
  BY <1>3, WordOfBlock DEF Address
<1>10. b(wb.cnt) = wb_word_addr
  BY DEF wb_word_addr
<1>11. \A k \in Word : ram'[b(k)] = IF state' = "wb_b" /\ k = wb.cnt THEN v.data[wb.cnt] ELSE ram[b(k)]
  <2> SUFFICES ASSUME NEW k \in Word
               PROVE  ram'[b(k)] = IF state' = "wb_b" /\ k = wb.cnt THEN v.data[wb.cnt] ELSE ram[b(k)]
    OBVIOUS
  <2>1. b(k) = wb_word_addr <=> k = wb.cnt
    BY <1>3, <1>9, <1>10
  <2>2. b(k) \in Address
    BY <1>9
  <2> HIDE DEF b, v
  <2> QED BY <1>2, <1>3, <1>4, <2>1, <2>2
<1>12. \A k \in Word : k < wb.cnt => ram[b(k)] = v.data[k]
  BY <1>7 DEF Saved
<1>13. \A k \in Word : k < wb.cnt \/ (k = wb.cnt /\ state' = "wb_b") => ram'[b(k)] = v.data[k]
  <2> HIDE DEF b, v
  <2>1. wb.cnt \in Nat /\ \A k \in Word : k \in Nat
    BY <1>3, DataCacheAssumption DEF Word
  <2> QED BY <1>11, <1>12, <2>1
<1>14. \A k \in Word : Saved(k)' <=> ram'[b(k)] = v.data[k]
  BY <1>2, <1>8 DEF Saved
<1>15. Victims'
  <2> HIDE DEF b, v
  <2>1. (\A k \in Word : k < wb.cnt \/ (k = wb.cnt /\ state = "wb_b") => Saved(k))'
    BY <1>2, <1>13, <1>14
  <2>2. (LET u == Line(lat.addr.index, wb.way) IN u.valid /\ u.dirty /\ u.tag = wb.tag)'
    BY <1>2, <1>7, <1>8
  <2> QED BY <1>2, <1>3, <1>8, <2>1, <2>2 DEF Victims
<1>16. Misses'
  BY <1>2, <1>3, <1>5 DEF CacheInv, Misses
<1>17. Fills'
  BY <1>2 DEF Fills, Cycle
<1> QED BY <1>1, <1>2, <1>3, <1>6, <1>15, <1>16, <1>17 DEF Progress, CacheInv, CacheTypes

LEMMA WbBLines ==
    ASSUME CacheInv, NEW fires \in SUBSET Driven, NEW show \in BOOLEAN, Cycle(fires, show),
           state = "wb_b"
    PROVE  Lines' /\ Progress'
<1> DEFINE v == Line(lat.addr.index, wb.way)
<1>1. cache' = cache /\ plru' = plru
  BY CacheRests DEF Cycle
<1>2. /\ ram' = ram /\ lat' = lat /\ victim_way_lat' = victim_way_lat
      /\ state' \in {"wb_aw", "wb_b", "refill_ar"}
      /\ state' = "wb_aw" => wb.cnt < LAST_WORD /\ wb' = [wb EXCEPT !.cnt = @ + 1]
      /\ state' # "wb_aw" => wb' = wb
      /\ state' = "refill_ar" => wb.cnt = LAST_WORD
  BY WbBWrites DEF Cycle
<1>3. /\ wb \in Evicted /\ wb.way \in Ways /\ wb.cnt \in Word
      /\ lat.addr \in Cacheable /\ lat.addr.index \in Index
  BY EvictedLine
<1>4. Lines'
  BY <1>1, <1>2, LinesKept
<1>5. /\ Victim(lat.addr) = wb.way /\ v.valid /\ v.dirty /\ v.tag = wb.tag
      /\ \A k \in Word : k < wb.cnt \/ k = wb.cnt => Saved(k)
  BY DEF CacheInv, Victims
<1>6. Victim(lat.addr)' = wb.way /\ \A w \in Ways : Line(lat.addr.index, w)' = Line(lat.addr.index, w)
  BY <1>1, <1>2, <1>5 DEF Victim, Line
<1>7. LAST_WORD \in Nat /\ \A k \in Word : k \in Nat /\ k <= LAST_WORD
  BY DataCacheAssumption DEF Word
<1>8. wb' \in Evicted /\ wb'.way = wb.way /\ wb'.tag = wb.tag
  <2>1. CASE state' = "wb_aw"
    <3>1. wb.cnt + 1 \in Word
      BY <1>2, <1>3, <1>7, <2>1 DEF Word
    <3> QED BY <1>2, <1>3, <2>1, <3>1 DEF Evicted
  <2>2. CASE state' # "wb_aw"
    BY <1>2, <1>3, <2>2
  <2> QED BY <2>1, <2>2
<1>9. \A k \in Word : Saved(k)' <=> Saved(k)
  BY <1>2, <1>3, <1>6, <1>8 DEF Saved
<1>10. Victims'
  <2>1. CASE state' \in {"wb_aw", "wb_b"}
    <3>1. (\A k \in Word : k < wb.cnt \/ (k = wb.cnt /\ state = "wb_b") => Saved(k))'
      <4>1. CASE state' = "wb_aw"
        <5>1. wb'.cnt = wb.cnt + 1
          BY <1>2, <1>3, <4>1 DEF Evicted
        <5> QED BY <1>3, <1>5, <1>7, <1>9, <4>1, <5>1
      <4>2. CASE state' = "wb_b"
        BY <1>2, <1>5, <1>9, <4>2
      <4> QED BY <2>1, <4>1, <4>2
    <3>2. (LET u == Line(lat.addr.index, wb.way) IN u.valid /\ u.dirty /\ u.tag = wb.tag)'
      BY <1>2, <1>3, <1>5, <1>6, <1>8
    <3> QED BY <1>6, <1>8, <2>1, <3>1, <3>2 DEF Victims
  <2>2. CASE state' = "refill_ar"
    <3>1. \A k \in Word : Saved(k)
      BY <1>2, <1>3, <1>5, <1>7, <2>2
    <3>2. Line(lat.addr.index, Victim(lat.addr))' = v
      BY <1>2, <1>3, <1>6
    <3> QED BY <1>2, <1>5, <2>2, <3>1, <3>2 DEF Victims, Saved
  <2> QED BY <1>2, <2>1, <2>2
<1>11. Misses'
  BY <1>2, <1>3, <1>6 DEF CacheInv, Misses
<1>12. Fills'
  BY <1>2 DEF Fills, Cycle
<1> QED BY <1>1, <1>2, <1>4, <1>8, <1>10, <1>11, <1>12 DEF Progress, CacheInv, CacheTypes

LEMMA RefillArLines ==
    ASSUME CacheInv, NEW fires \in SUBSET Driven, NEW show \in BOOLEAN, Cycle(fires, show),
           state = "refill_ar"
    PROVE  Lines' /\ Progress'
<1> DEFINE i == lat.addr.index
           w == Victim(lat.addr)
           l == Claimed(Line(i, w), lat)
<1>1. /\ ram' = ram /\ lat' = lat /\ wb' = wb /\ done_reg' = FALSE
      /\ IF "ar" \in fires THEN state' = "refill_r" /\ victim_way_lat' = w /\ refill_cnt' = 0
         ELSE state' = "refill_ar" /\ victim_way_lat' = victim_way_lat
  <2>1. RefillAr(fires)
    BY DEF Cycle, StateEdge, Idle, Check, WbAw, WbB, RefillR, StoreFill,
           UncacheAr, UncacheR, UncacheAw, UncacheB
  <2>2. ram' = ram
    BY NoWriteStep DEF Cycle
  <2> QED BY <2>1, <2>2 DEF RefillAr, Cycle
<1>2. ~fast_hit_done /\ ~fast_idle_hit_done
  BY WhenDone
<1>3. lat \in Accesses /\ lat.addr \in Cacheable /\ i \in Index /\ lat.addr.tag \in Tag
  BY BlockOfWord DEF CacheInv, Serves, CacheTypes, Blocks
<1>4. plru' = plru
  BY <1>2 DEF Cycle, PlruEdge
<1>5. w \in Ways
  BY <1>3, VictimIsWay DEF Victim, CacheInv, CacheTypes
<1>6. Victim(lat.addr)' = Victim(lat.addr)
  BY <1>1, <1>4 DEF Victim
<1>7. \A u \in Ways : Line(i, u).valid => Line(i, u).tag # lat.addr.tag
  BY <1>3 DEF CacheInv, Misses
<1>8. CASE "ar" \notin fires
  <2>1. cache' = cache
    BY <1>2, <1>8 DEF Cycle, CacheEdge
  <2>2. Lines'
    BY <1>1, <2>1, LinesKept
  <2>3. Misses'
    BY <1>1, <1>8, <2>1 DEF CacheInv, Misses, Line
  <2>4. Victims'
    <3>1. victim_is_dirty(lat.addr)' <=> victim_is_dirty(lat.addr)
      BY <1>1, <1>6, <2>1 DEF victim_is_dirty, Line
    <3>2. Line(i, w)' = Line(i, w)
      BY <1>1, <1>6, <2>1 DEF Line
    <3> QED BY <1>1, <1>6, <1>8, <3>1, <3>2 DEF CacheInv, Victims
  <2>5. Fills'
    BY <1>1, <1>8 DEF Fills
  <2> QED BY <1>1, <1>4, <1>8, <2>2, <2>3, <2>4, <2>5 DEF Progress, CacheInv, CacheTypes
<1>9. CASE "ar" \in fires
  <2>1. LineWritten(i, w, l)
    <3>1. cache' = [cache EXCEPT ![lat.addr.index][Victim(lat.addr)] = Claimed(@, lat)]
      BY <1>2, <1>9 DEF Cycle, CacheEdge
    <3> QED BY <3>1 DEF LineWritten, Line
  <2>2. Line(i, w) \in CacheLine
    BY <1>3, <1>5 DEF Line, CacheInv, CacheTypes
  <2>3. l \in CacheLine /\ l.tag = lat.addr.tag /\ ~l.valid /\ ~l.dirty
    BY <1>3, <2>2, ClaimedLine
  <2> HIDE DEF l, w, i
  <2>4. Lines'
    BY <1>1, <1>3, <1>5, <2>1, <2>3, LinesWritten
  <2>5. \A j \in Index : \A u \in Ways : Line(j, u)' = IF j = i /\ u = w THEN l ELSE Line(j, u)
    <3>1. cache \in [Index -> [Ways -> CacheLine]]
      BY DEF CacheInv, CacheTypes
    <3> QED BY <1>3, <1>5, <2>1, <2>3, <3>1, OneLine
  <2>6. \A u \in Ways : Line(lat.addr.index, u)' = IF u = w THEN l ELSE Line(i, u)
    BY <1>1, <1>3, <2>5 DEF i, Line
  <2>7. Misses'
    BY <1>1, <1>7, <2>3, <2>6 DEF Misses
  <2>8. Victims'
    BY <1>1, <1>9 DEF Victims
  <2>9. Fills'
    <3>1. Line(lat.addr.index, victim_way_lat)' = l
      BY <1>1, <1>5, <1>9, <2>6 DEF Line
    <3>2. \A k \in Word : ~(k < 0)
      BY DEF Word
    <3> QED BY <1>1, <1>9, <2>3, <3>1, <3>2 DEF Fills
  <2> QED BY <1>1, <1>4, <1>5, <1>9, <2>4, <2>7, <2>8, <2>9 DEF Progress, CacheInv, CacheTypes
<1> QED BY <1>8, <1>9

\* The beat memory shows is the next word of the line.
LEMMA BeatOfLine ==
    ASSUME CacheInv, state = "refill_r"
    PROVE  /\ rdata = ram[[tag |-> lat.addr.tag, index |-> lat.addr.index, word |-> refill_cnt]]
           /\ rdata \in Value
           /\ rlast <=> refill_cnt = LAST_WORD
<1>1. /\ lat.addr \in Cacheable /\ refill_cnt \in Word /\ reading # None
      /\ reading.addr = lat.addr /\ reading.beat = refill_cnt /\ reading.last = LAST_WORD
  BY DEF CacheInv, Serves, CacheTypes, Blocks, Reads
<1>2. BeatAddress = [tag |-> lat.addr.tag, index |-> lat.addr.index, word |-> refill_cnt]
  BY <1>1, BeatOfBlock DEF BeatAddress
<1>3. [tag |-> lat.addr.tag, index |-> lat.addr.index, word |-> refill_cnt] \in Address
  BY <1>1, BlockOfWord, WordOfBlock DEF Address
<1>4. ram \in [Address -> Value]
  BY DEF CacheInv, CacheTypes
<1> QED BY <1>1, <1>2, <1>3, <1>4 DEF rdata, rlast

LEMMA RefillRLines ==
    ASSUME CacheInv, NEW fires \in SUBSET Driven, NEW show \in BOOLEAN, Cycle(fires, show),
           state = "refill_r"
    PROVE  Lines' /\ Progress'
<1> DEFINE i == lat.addr.index
           w == victim_way_lat
           l == Filled(Line(i, w), refill_cnt, rdata, rlast)
<1>1. /\ ram' = ram /\ lat' = lat /\ wb' = wb /\ done_reg' = FALSE /\ victim_way_lat' = w
      /\ refill_cnt' = (IF rready THEN (refill_cnt + 1) % (LAST_WORD + 1) ELSE refill_cnt)
      /\ state' = IF rready /\ rlast THEN (IF lat.store THEN "store_fill" ELSE "idle")
                  ELSE "refill_r"
  <2>1. RefillR
    BY DEF Cycle, StateEdge, Idle, Check, WbAw, WbB, RefillAr, StoreFill,
           UncacheAr, UncacheR, UncacheAw, UncacheB
  <2>2. ram' = ram
    BY NoWriteStep DEF Cycle
  <2> QED BY <2>1, <2>2 DEF RefillR, Cycle
<1>2. ~fast_hit_done /\ ~fast_idle_hit_done /\ (rready => rvalid)
  BY WhenDone DEF CacheInv, Reads
<1>3. /\ lat.addr \in Cacheable /\ i \in Index /\ lat.addr.tag \in Tag
      /\ w \in Ways /\ refill_cnt \in Word /\ lat.store \in BOOLEAN
  BY BlockOfWord, AccessTypes DEF CacheInv, Serves, CacheTypes, Blocks
<1>4. /\ Line(i, w) \in CacheLine /\ Line(i, w).tag = lat.addr.tag
      /\ ~Line(i, w).dirty /\ ~Line(i, w).valid
      /\ \A k \in Word : k < refill_cnt => Line(i, w).data[k] =
            ram[[tag |-> lat.addr.tag, index |-> i, word |-> k]]
  BY <1>3 DEF Line, CacheInv, CacheTypes, Fills
<1>5. \A u \in Ways : Line(i, u).valid => Line(i, u).tag # lat.addr.tag
  BY <1>3 DEF CacheInv, Misses
<1>6. LAST_WORD \in Nat /\ refill_cnt \in 0 .. LAST_WORD /\ \A k \in Word : k \in 0 .. LAST_WORD
  BY <1>3, DataCacheAssumption DEF Word
<1>7. plru' \in [Index -> Tree]
  <2>1. plru \in [Index -> Tree]
    BY DEF CacheInv, CacheTypes
  <2>2. CASE rready /\ rlast
    <3>1. plru' = [plru EXCEPT ![i] = Touch(plru[i], w)]
      BY <1>2, <2>2 DEF Cycle, PlruEdge
    <3>2. Touch(plru[i], w) \in Tree
      BY <1>3, <2>1, TouchedTree
    <3> QED BY <2>1, <3>1, <3>2
  <2>3. CASE ~(rready /\ rlast)
    BY <1>2, <2>1, <2>3 DEF Cycle, PlruEdge
  <2> QED BY <2>2, <2>3
<1>8. Victims'
  BY <1>1 DEF Victims
<1>9. CASE ~rready
  <2>1. cache' = cache
    BY <1>2, <1>9 DEF Cycle, CacheEdge
  <2>2. Lines'
    BY <1>1, <2>1, LinesKept
  <2>3. state' = "refill_r" /\ refill_cnt' = refill_cnt
    BY <1>1, <1>9
  <2>4. Misses'
    BY <1>1, <2>1, <2>3 DEF CacheInv, Misses, Line
  <2>5. Fills'
    <3>1. Line(lat.addr.index, victim_way_lat)' = Line(i, w)
      BY <1>1, <2>1 DEF Line
    <3> HIDE DEF i, w
    <3> QED BY <1>1, <1>4, <2>3, <3>1 DEF Fills, i
  <2> QED BY <1>1, <1>3, <1>7, <1>8, <2>2, <2>4, <2>5 DEF Progress, CacheInv, CacheTypes
<1>10. CASE rready
  <2>1. LineWritten(i, w, l)
    <3>1. cache' = [cache EXCEPT ![lat.addr.index][victim_way_lat] = Filled(@, refill_cnt, rdata, rlast)]
      BY <1>2, <1>10 DEF Cycle, CacheEdge
    <3> QED BY <3>1 DEF LineWritten, Line
  <2>2. rlast \in BOOLEAN
    BY DEF rlast
  <2>3. /\ l \in CacheLine /\ l.tag = lat.addr.tag /\ ~l.dirty
        /\ l.valid <=> rlast
        /\ \A k \in Word : l.data[k] = IF k = refill_cnt THEN rdata ELSE Line(i, w).data[k]
    BY <1>3, <1>4, <2>2, BeatOfLine, FilledLine
  <2> HIDE DEF l, w, i
  <2>4. \A k \in Word : k <= refill_cnt =>
           l.data[k] = ram[[tag |-> lat.addr.tag, index |-> i, word |-> k]]
    BY <1>4, <1>6, <2>3, BeatOfLine DEF i
  <2>5. rlast => \A k \in Word : l.data[k] = ram[[tag |-> lat.addr.tag, index |-> i, word |-> k]]
    BY <1>6, <2>4, BeatOfLine
  <2>6. Lines'
    BY <1>1, <1>3, <1>5, <2>1, <2>3, <2>5, LinesWritten
  <2>7. \A j \in Index : \A u \in Ways : Line(j, u)' = IF j = i /\ u = w THEN l ELSE Line(j, u)
    <3>1. cache \in [Index -> [Ways -> CacheLine]]
      BY DEF CacheInv, CacheTypes
    <3> QED BY <1>3, <2>1, <2>3, <3>1, OneLine
  <2>8. \A u \in Ways : Line(lat.addr.index, u)' = IF u = w THEN l ELSE Line(i, u)
    BY <1>1, <1>3, <2>7 DEF i, Line
  <2>9. Line(lat.addr.index, victim_way_lat)' = l
    BY <1>1, <1>3, <2>8 DEF Line
  <2>10. CASE rlast
    <3>1. state' \in {"store_fill", "idle"} /\ (state' = "store_fill" => lat.store)
      BY <1>1, <1>10, <2>10
    <3>2. Misses'
      BY <3>1 DEF Misses
    <3>3. Fills'
      BY <1>1, <2>3, <2>5, <2>9, <2>10, <3>1 DEF Fills, i
    <3> QED BY <1>1, <1>3, <1>7, <1>8, <2>6, <3>2, <3>3 DEF Progress, CacheInv, CacheTypes
  <2>11. CASE ~rlast
    <3>1. state' = "refill_r"
      BY <1>1, <1>10, <2>11
    <3>2. refill_cnt' = refill_cnt + 1
      <4>1. refill_cnt # LAST_WORD
        BY <2>11, BeatOfLine
      <4> QED BY <1>1, <1>6, <1>10, <4>1
    <3>3. Misses'
      BY <1>1, <1>5, <2>3, <2>8, <2>11, <3>1 DEF Misses
    <3>4. \A k \in Word : k < refill_cnt' => k <= refill_cnt
      BY <1>6, <3>2
    <3>5. Fills'
      BY <1>1, <2>3, <2>4, <2>9, <2>11, <3>1, <3>4 DEF Fills, i
    <3> QED BY <1>1, <1>3, <1>7, <1>8, <2>6, <3>3, <3>5 DEF Progress, CacheInv, CacheTypes
  <2> QED BY <2>10, <2>11
<1> QED BY <1>9, <1>10

LEMMA StoreFillLines ==
    ASSUME CacheInv, NEW fires \in SUBSET Driven, NEW show \in BOOLEAN, Cycle(fires, show),
           state = "store_fill"
    PROVE  Lines' /\ Progress'
<1> DEFINE i == lat.addr.index
           w == victim_way_lat
<1>1. /\ ram' = ram /\ lat' = lat /\ wb' = wb /\ victim_way_lat' = w /\ state' = "idle"
  <2>1. StoreFill
    BY DEF Cycle, StateEdge, Idle, Check, WbAw, WbB, RefillAr, RefillR,
           UncacheAr, UncacheR, UncacheAw, UncacheB
  <2>2. ram' = ram
    BY NoWriteStep DEF Cycle
  <2> QED BY <2>1, <2>2 DEF StoreFill
<1>2. ~fast_hit_done /\ ~fast_idle_hit_done /\ ~lsu_done
  BY WhenDone
<1>3. lat \in Accesses /\ lat.addr \in Cacheable /\ i \in Index /\ w \in Ways /\ op = lat /\ op # None
  BY BlockOfWord DEF CacheInv, Serves, CacheTypes, Blocks
<1>4. Line(i, w).valid /\ Line(i, w).tag = lat.addr.tag
  BY DEF CacheInv, Fills
<1>5. plru' = plru
  BY <1>2 DEF Cycle, PlruEdge
<1>6. LineWritten(i, w, Stored(Line(i, w), lat))
  <2>1. cache' = [cache EXCEPT ![lat.addr.index][victim_way_lat] = Stored(@, lat)]
    BY <1>2 DEF Cycle, CacheEdge
  <2> QED BY <2>1 DEF LineWritten, Line
<1>7. Lines' /\ cache'[i][w].valid /\ cache'[i][w].tag = lat.addr.tag
  BY <1>1, <1>3, <1>4, <1>6, StoreHits
<1>8. op' = lat
  BY <1>2, <1>3, OpStays DEF Cycle
<1>9. Fills'
  <2>1. Hit(op.addr)'
    BY <1>1, <1>3, <1>7, <1>8 DEF Hit, HitWays, Line
  <2> QED BY <1>1, <2>1 DEF Fills
<1>10. Misses' /\ Victims'
  BY <1>1 DEF Misses, Victims
<1> QED BY <1>1, <1>3, <1>5, <1>7, <1>9, <1>10 DEF Progress, CacheInv, CacheTypes
------------------------------------------------------------------------------
(* Together *)

LEMMA LinesStep ==
    ASSUME CacheInv, NEW fires \in SUBSET Driven, NEW show \in BOOLEAN, Cycle(fires, show)
    PROVE  Lines' /\ Progress'
<1>1. state \in {"idle", "check"} \cup Blocks \cup Devices
  BY DEF CacheInv, CacheTypes
<1>2. CASE state = "idle"
  BY <1>2, IdleLines
<1>3. CASE state = "check"
  BY <1>3, CheckLines
<1>4. CASE state = "wb_aw"
  BY <1>4, WbAwLines
<1>5. CASE state = "wb_b"
  BY <1>5, WbBLines
<1>6. CASE state = "refill_ar"
  BY <1>6, RefillArLines
<1>7. CASE state = "refill_r"
  BY <1>7, RefillRLines
<1>8. CASE state = "store_fill"
  BY <1>8, StoreFillLines
<1>9. CASE state \in Devices
  BY <1>9, DeviceLines
<1> QED BY <1>1, <1>2, <1>3, <1>4, <1>5, <1>6, <1>7, <1>8, <1>9 DEF Blocks

LEMMA WritesStep ==
    ASSUME CacheInv, NEW fires \in SUBSET Driven, NEW show \in BOOLEAN, Cycle(fires, show)
    PROVE  /\ Writes' /\ writing' \in Written /\ ram' \in [Address -> Value]
           /\ <<axi_bready', axi_awvalid', wb_wvalid'>> \in BOOLEAN \X BOOLEAN \X BOOLEAN
<1>1. ram \in [Address -> Value]
  BY DEF CacheInv, CacheTypes
<1>2. CASE state \notin {"wb_aw", "wb_b", "uncache_aw", "uncache_b"}
  BY <1>1, <1>2, NoWriteStep DEF Cycle
<1>3. CASE state = "wb_aw"
  <2>1. /\ Writes' /\ writing' \in Written
        /\ ram' = IF state' = "wb_b"
                  THEN [ram EXCEPT ![wb_word_addr] = Line(lat.addr.index, wb.way).data[wb.cnt]]
                  ELSE ram
        /\ <<axi_bready', axi_awvalid', wb_wvalid'>> \in BOOLEAN \X BOOLEAN \X BOOLEAN
    BY <1>3, WbAwWrites DEF Cycle
  <2>2. Line(lat.addr.index, wb.way).data[wb.cnt] \in Value
    BY <1>3, EvictedLine
  <2>3. ram' \in [Address -> Value]
    BY <1>1, <2>1, <2>2
  <2> QED BY <2>1, <2>3
<1>4. CASE state = "wb_b"
  BY <1>1, <1>4, WbBWrites DEF Cycle
<1>5. CASE state \in {"uncache_aw", "uncache_b"}
  <2>1. /\ Writes' /\ writing' \in Written
        /\ ram' = ram \/ ram' = [ram EXCEPT ![lat.addr] = lat.value]
        /\ <<axi_bready', axi_awvalid', wb_wvalid'>> \in BOOLEAN \X BOOLEAN \X BOOLEAN
    BY <1>5, DeviceWrites DEF Cycle
  <2>2. lat.value \in Value
    BY <1>5, AccessTypes DEF CacheInv, CacheTypes, Serves
  <2>3. ram' \in [Address -> Value]
    BY <1>1, <2>1, <2>2
  <2> QED BY <2>1, <2>3
<1> QED BY <1>2, <1>3, <1>4, <1>5

LEMMA CycleKeepsInv ==
    ASSUME CacheInv, NEW fires \in SUBSET Driven, NEW show \in BOOLEAN, Cycle(fires, show)
    PROVE  CacheInv'
<1>1. Lines' /\ Progress'
  BY LinesStep
<1>2. /\ Writes' /\ writing' \in Written /\ ram' \in [Address -> Value]
      /\ <<axi_bready', axi_awvalid', wb_wvalid'>> \in BOOLEAN \X BOOLEAN \X BOOLEAN
  BY WritesStep
<1>3. Reads' /\ reading' \in Burst \cup {None} /\ refill_cnt' \in Word /\ rready' \in BOOLEAN
  BY ReadsStep DEF Cycle
<1>4. Serves'
  BY ServesStep DEF Cycle
<1>5. /\ op' \in Accesses \cup {None}
      /\ o_pre_ready_d1' \in BOOLEAN /\ init_txn_ff' \in BOOLEAN
  BY OpStays DEF Cycle
<1>6. /\ state' \in {"idle", "check"} \cup Blocks \cup Devices
      /\ lat' \in Accesses \cup {None}
  <2>1. lat' = lat \/ lat' = op
    BY StateFlow DEF Cycle
  <2> QED BY <2>1, StateFlow DEF Cycle, CacheInv, CacheTypes
<1>7. done_reg' \in BOOLEAN
  BY DEF Cycle
<1>8. CacheTypes'
  BY <1>1, <1>2, <1>3, <1>5, <1>6, <1>7 DEF CacheTypes, Lines, Progress
<1> QED BY <1>1, <1>2, <1>3, <1>4, <1>8 DEF CacheInv, Lines, Progress

LEMMA CacheStep == CacheInv /\ [Next]_vars => CacheInv'
<1> SUFFICES ASSUME CacheInv, [Next]_vars PROVE CacheInv'
  OBVIOUS
<1>1. CASE Next
  <2>1. PICK fires \in SUBSET Driven, show \in MayShow : Cycle(fires, show)
    BY <1>1 DEF Next
  <2>2. show \in BOOLEAN
    BY <2>1 DEF MayShow
  <2> QED BY <2>1, <2>2, CycleKeepsInv
<1>2. CASE UNCHANGED vars
  <2>1. CacheTypes' /\ Serves' /\ Reads'
    BY <1>2 DEF vars, controlVars, memoryVars, CacheInv, CacheTypes, Serves, Reads, Line, rvalid
  <2>2. Writes' /\ Misses' /\ Victims'
    BY <1>2 DEF vars, controlVars, memoryVars, CacheInv, Writes, Misses, Victims, Line,
                Victim, victim_is_dirty, wb_word_addr, NoWrite, bvalid, Saved
  <2>3. Fills' /\ OneWayHits' /\ CleanLinesMatchMemory'
    BY <1>2 DEF vars, controlVars, memoryVars, CacheInv, Fills, OneWayHits,
                CleanLinesMatchMemory, Line, Hit, HitWays
  <2> QED BY <2>1, <2>2, <2>3 DEF CacheInv
<1> QED BY <1>1, <1>2

\* After reset no line is valid and nothing is under way.
LEMMA InitHolds == Init => CacheInv
<1> SUFFICES ASSUME Init PROVE CacheInv
  OBVIOUS
<1>1. 0 \in Word /\ 0 \in Ways /\ 0 \in Value /\ NoUse \in Tree
  BY DataCacheAssumption DEF Word, Ways, Value, NoUse, Tree
<1>2. EmptyLine \in CacheLine /\ ~EmptyLine.valid /\ ~EmptyLine.dirty
  BY <1>1 DEF EmptyLine, CacheLine
<1>3. /\ cache \in [Index -> [Ways -> CacheLine]]
      /\ \A i \in Index : \A w \in Ways : ~Line(i, w).valid
  BY <1>2 DEF Init, Line
<1>4. plru \in [Index -> Tree]
  BY <1>1 DEF Init
<1>5. ram \in [Address -> Value]
  BY ModelValueAssumption DEF Init
<1>6. writing \in Written
  BY DEF Init, NoWrite, Written
<1>7. CacheTypes
  BY <1>1, <1>3, <1>4, <1>5, <1>6 DEF Init, CacheTypes
<1>8. Serves /\ Reads /\ Writes
  BY DEF Init, Serves, Reads, Writes, NoWrite, Blocks, Devices
<1>9. Misses /\ Victims /\ Fills /\ OneWayHits /\ CleanLinesMatchMemory
  BY <1>3 DEF Init, Misses, Victims, Fills, OneWayHits, CleanLinesMatchMemory
<1> QED BY <1>7, <1>8, <1>9 DEF CacheInv

------------------------------------------------------------------------------

\* Look-up, replacement, refill and write-back keep the lines, the work under
\* way and memory consistent, whatever memory does with the halves of a store.
THEOREM CacheInvariant == Spec => []CacheInv
BY InitHolds, CacheStep, PTL DEF Spec

\* A block is never in two ways.
THEOREM BlocksAreAlone == Spec => []OneWayHits
<1>1. CacheInv => OneWayHits
  BY DEF CacheInv
<1> QED BY <1>1, CacheInvariant, PTL

\* A line may be dropped when it is clean.
THEOREM CleanLinesMayGo == Spec => []CleanLinesMatchMemory
<1>1. CacheInv => CleanLinesMatchMemory
  BY DEF CacheInv
<1> QED BY <1>1, CacheInvariant, PTL

\* The victim of a miss is saved before its line is claimed.
THEOREM VictimsSurvive == Spec => []VictimIsSaved
<1>1. CacheInv => VictimIsSaved
  BY DEF CacheInv, Serves, Victims, VictimIsSaved
<1> QED BY <1>1, CacheInvariant, PTL

------------------------------------------------------------------------------
(* Devices, when memory takes the halves of their stores together *)

\* A load waits for its value; a store is whole when the unit stops driving it.
DeviceInv ==
    /\ state \in {"uncache_ar", "uncache_r"} => ~lat.store
    /\ ~SPLIT /\ state = "uncache_aw" => axi_awvalid /\ writing = NoWrite
    /\ ~SPLIT /\ state = "uncache_b" => /\ writing.aw = lat.addr /\ writing.w = lat.value
                                        /\ ram[lat.addr] = lat.value

\* The store reaches memory in the cycle in which both channels fire.
LEMMA DeviceStore ==
    ASSUME CacheInv, DeviceInv, ~SPLIT, NEW fires \in SUBSET Driven, NEW show \in BOOLEAN,
           Cycle(fires, show), state = "uncache_aw"
    PROVE  /\ lat' = lat /\ lat.store
           /\ \/ /\ state' = "uncache_b"
                 /\ writing'.aw = lat.addr /\ writing'.w = lat.value
                 /\ ram' = [ram EXCEPT ![lat.addr] = lat.value]
              \/ /\ state' = "uncache_aw" /\ axi_awvalid' = TRUE
                 /\ writing' = NoWrite /\ ram' = ram
<1>1. UncacheAw(fires)
  BY DEF Cycle, StateEdge, Idle, Check, WbAw, WbB, RefillAr, RefillR, StoreFill,
         UncacheAr, UncacheR, UncacheB
<1>2. /\ axi_awvalid = TRUE /\ axi_bready = FALSE /\ writing = NoWrite /\ lat.store
  BY DEF DeviceInv, CacheInv, CacheTypes, Writes
<1>3. lat.addr # None /\ lat.value # None
  BY AccessTypes DEF CacheInv, CacheTypes, Serves
<1>4. bvalid = FALSE /\ writing.aw = None /\ writing.w = None /\ awaddr = lat.addr /\ wdata = lat.value
  BY <1>2 DEF bvalid, NoWrite, awaddr, wdata
<1>5. "aw" \in fires <=> "w" \in fires
  BY DEF Cycle, MayFire
<1>6. CASE "aw" \in fires
  <2>1. /\ writing' = [aw |-> lat.addr, w |-> lat.value,
                       b |-> bvalid \/ (show /\ None \notin {writing.aw, writing.w})]
        /\ ram' = [ram EXCEPT ![lat.addr] = lat.value]
    BY <1>2, <1>3, <1>4, <1>5, <1>6 DEF Cycle, WriteEdge
  <2>2. state' = "uncache_b" /\ lat' = lat
    BY <1>1, <1>5, <1>6 DEF UncacheAw
  <2> QED BY <1>2, <2>1, <2>2
<1>7. CASE "aw" \notin fires
  <2>1. /\ writing' = [aw |-> None, w |-> None,
                       b |-> bvalid \/ (show /\ None \notin {writing.aw, writing.w})]
        /\ ram' = ram
    BY <1>2, <1>4, <1>5, <1>7 DEF Cycle, WriteEdge
  <2>2. writing' = NoWrite
    BY <1>4, <2>1 DEF NoWrite
  <2>3. state' = "uncache_aw" /\ axi_awvalid' = TRUE /\ lat' = lat
    BY <1>1, <1>2, <1>7 DEF UncacheAw
  <2> QED BY <1>2, <2>1, <2>2, <2>3
<1> QED BY <1>6, <1>7

\* While the unit waits for the response, memory has the store.
LEMMA DeviceStored ==
    ASSUME CacheInv, DeviceInv, ~SPLIT, NEW fires \in SUBSET Driven, NEW show \in BOOLEAN,
           Cycle(fires, show), state = "uncache_b"
    PROVE  /\ ram' = ram /\ lat' = lat /\ lat.store
           /\ \/ state' = "idle" /\ axi_bready
              \/ /\ state' = "uncache_b" /\ ~axi_bready
                 /\ writing'.aw = lat.addr /\ writing'.w = lat.value
<1>1. UncacheB
  BY DEF Cycle, StateEdge, Idle, Check, WbAw, WbB, RefillAr, RefillR, StoreFill,
         UncacheAr, UncacheR, UncacheAw
<1>2. /\ ~axi_awvalid /\ lat.store
      /\ writing.aw = lat.addr /\ writing.w = lat.value /\ ram[lat.addr] = lat.value
  BY DEF DeviceInv, CacheInv, Writes
<1>3. lat.addr # None /\ lat.value # None /\ lat.addr \in Address
  BY AccessTypes DEF CacheInv, CacheTypes, Serves
<1>4. "aw" \notin fires /\ "w" \notin fires
  BY <1>2, Channels
<1>5. /\ writing' = IF bvalid /\ axi_bready THEN NoWrite
                    ELSE [aw |-> lat.addr, w |-> lat.value,
                          b |-> bvalid \/ (show /\ None \notin {writing.aw, writing.w})]
      /\ ram' = [ram EXCEPT ![lat.addr] = lat.value]
  BY <1>2, <1>3, <1>4 DEF Cycle, WriteEdge
<1>6. ram \in [Address -> Value]
  BY DEF CacheInv, CacheTypes
<1>7. ram' = ram
  BY <1>2, <1>3, <1>5, <1>6
<1>8. lat' = lat /\ state' = IF axi_bready THEN "idle" ELSE "uncache_b"
  BY <1>1 DEF UncacheB
<1> QED BY <1>2, <1>5, <1>7, <1>8

LEMMA DeviceStep ==
    ASSUME CacheInv, DeviceInv, NEW fires \in SUBSET Driven, NEW show \in BOOLEAN,
           Cycle(fires, show)
    PROVE  DeviceInv'
<1>1. state \in {"idle", "check"} \cup Blocks \cup Devices
  BY DEF CacheInv, CacheTypes
<1>2. CASE state \in {"idle"} \cup Blocks
  <2>1. state' \notin Devices
    BY <1>2, StateFlow DEF Cycle, Blocks, Devices
  <2> QED BY <2>1 DEF DeviceInv, Devices
<1>3. CASE state = "check"
  <2>1. Check
    BY <1>3 DEF Cycle, StateEdge, Idle, WbAw, WbB, RefillAr, RefillR, StoreFill,
                UncacheAr, UncacheR, UncacheAw, UncacheB
  <2>2. writing' = NoWrite
    BY <1>3, NoWriteStep DEF Cycle
  <2>3. /\ lat' = lat /\ state' # "uncache_b" /\ state' # "uncache_r"
        /\ state' = "uncache_aw" => axi_awvalid'
        /\ state' = "uncache_ar" => ~lat.store
    BY <2>1 DEF Check
  <2> QED BY <2>2, <2>3 DEF DeviceInv
<1>4. CASE state = "uncache_ar"
  <2>1. UncacheAr(fires)
    BY <1>4 DEF Cycle, StateEdge, Idle, Check, WbAw, WbB, RefillAr, RefillR, StoreFill,
                UncacheR, UncacheAw, UncacheB
  <2> QED BY <1>4, <2>1 DEF UncacheAr, DeviceInv
<1>5. CASE state = "uncache_r"
  <2>1. UncacheR
    BY <1>5 DEF Cycle, StateEdge, Idle, Check, WbAw, WbB, RefillAr, RefillR, StoreFill,
                UncacheAr, UncacheAw, UncacheB
  <2> QED BY <1>5, <2>1 DEF UncacheR, DeviceInv
<1>6. CASE state = "uncache_aw"
  <2>1. state' \in {"uncache_aw", "uncache_b"}
    <3>1. UncacheAw(fires)
      BY <1>6 DEF Cycle, StateEdge, Idle, Check, WbAw, WbB, RefillAr, RefillR, StoreFill,
                  UncacheAr, UncacheR, UncacheB
    <3> QED BY <1>6, <3>1 DEF UncacheAw
  <2>2. CASE SPLIT
    BY <2>1, <2>2 DEF DeviceInv
  <2>3. CASE ~SPLIT
    <3>1. lat.addr \in Address /\ ram \in [Address -> Value]
      BY <1>6, AccessTypes DEF CacheInv, CacheTypes, Serves
    <3> QED BY <1>6, <2>3, <3>1, DeviceStore DEF DeviceInv
  <2> QED BY <2>2, <2>3
<1>7. CASE state = "uncache_b"
  <2>1. state' \in {"uncache_b", "idle"}
    <3>1. UncacheB
      BY <1>7 DEF Cycle, StateEdge, Idle, Check, WbAw, WbB, RefillAr, RefillR, StoreFill,
                  UncacheAr, UncacheR, UncacheAw
    <3> QED BY <1>7, <3>1 DEF UncacheB
  <2>2. CASE SPLIT
    BY <2>1, <2>2 DEF DeviceInv
  <2>3. CASE ~SPLIT
    BY <1>7, <2>1, <2>3, DeviceStored DEF DeviceInv
  <2> QED BY <2>2, <2>3
<1> QED BY <1>1, <1>2, <1>3, <1>4, <1>5, <1>6, <1>7 DEF Devices

LEMMA DeviceNext == CacheInv /\ DeviceInv /\ [Next]_vars => DeviceInv'
<1> SUFFICES ASSUME CacheInv, DeviceInv, [Next]_vars PROVE DeviceInv'
  OBVIOUS
<1>1. CASE Next
  <2>1. PICK fires \in SUBSET Driven, show \in MayShow : Cycle(fires, show)
    BY <1>1 DEF Next
  <2>2. show \in BOOLEAN
    BY <2>1 DEF MayShow
  <2> QED BY <2>1, <2>2, DeviceStep
<1>2. CASE UNCHANGED vars
  BY <1>2 DEF vars, controlVars, memoryVars, DeviceInv, NoWrite
<1> QED BY <1>1, <1>2

THEOREM DeviceInvariant == Spec => []DeviceInv
<1>1. Init => DeviceInv
  BY DEF Init, DeviceInv
<1> QED BY <1>1, DeviceNext, CacheInvariant, PTL DEF Spec

\* Memory that takes an uncached store's address and data together makes the
\* comment in the unit true: it leaves for the response when both are done.
THEOREM TogetherIsWhole == ASSUME ~SPLIT PROVE Spec => []UncachedStoreIsWhole
<1>1. CacheInv /\ DeviceInv => UncachedStoreIsWhole
  <2> SUFFICES ASSUME CacheInv, DeviceInv, state = "uncache_b"
               PROVE  writing.aw # None /\ writing.w # None
    BY DEF UncachedStoreIsWhole
  <2>1. lat.addr # None /\ lat.value # None
    BY AccessTypes DEF CacheInv, CacheTypes, Serves
  <2> QED BY <2>1 DEF DeviceInv
<1> QED BY <1>1, CacheInvariant, DeviceInvariant, PTL

------------------------------------------------------------------------------
(* The value of every word *)

\* Way w of its set holds the word at address a.
HeldIn(a, w) == a \in Cacheable /\ Line(a.index, w).valid /\ Line(a.index, w).tag = a.tag

WordsAreHeld ==
    \A a \in Address :
       /\ (\A w \in Ways : ~HeldIn(a, w)) => Words[a] = ram[a]
       /\ \A w \in Ways : HeldIn(a, w) => Words[a] = Line(a.index, w).data[a.word]

LEMMA WordsHeld == CacheInv => WordsAreHeld
<1> SUFFICES ASSUME CacheInv, NEW a \in Address
             PROVE  /\ (\A w \in Ways : ~HeldIn(a, w)) => Words[a] = ram[a]
                    /\ \A w \in Ways : HeldIn(a, w) => Words[a] = Line(a.index, w).data[a.word]
  BY DEF WordsAreHeld
<1>1. CASE \A w \in Ways : ~HeldIn(a, w)
  <2>1. (IF a \in Cacheable THEN HitWays(a) ELSE {}) = {}
    BY <1>1 DEF HeldIn, HitWays, Line
  <2> QED BY <1>1, <2>1 DEF Words
<1>2. ASSUME NEW w \in Ways, HeldIn(a, w) PROVE Words[a] = Line(a.index, w).data[a.word]
  <2>1. a \in Cacheable /\ a.index \in Index
    BY <1>2, BlockOfWord DEF HeldIn
  <2>2. HitWays(a) = {w}
    BY <1>2, <2>1 DEF HeldIn, HitWays, Line, CacheInv, OneWayHits
  <2>3. (CHOOSE u \in HitWays(a) : TRUE) = w
    BY <2>2
  <2> QED BY <2>1, <2>2, <2>3 DEF Words
<1> QED BY <1>1, <1>2

LEMMA WordsHeldNext == CacheInv' => WordsAreHeld'
BY WordsHeld, PTL

LEMMA WordByWord ==
    /\ Words = [a \in Address |-> Words[a]]
    /\ Words' = [a \in Address |-> Words'[a]]
BY DEF Words

\* Where neither lines nor memory change, no word does.
LEMMA NothingChanges ==
    ASSUME cache' = cache, ram' = ram
    PROVE  Words' = Words
BY DEF Words, HitWays, Line

\* A store to a line that holds its block changes its word.
LEMMA StoreChangesWord ==
    ASSUME CacheInv, CacheInv', ram' = ram, NEW x \in Accesses, x.addr \in Cacheable,
           NEW w \in Ways, Line(x.addr.index, w).valid, Line(x.addr.index, w).tag = x.addr.tag,
           LineWritten(x.addr.index, w, Stored(Line(x.addr.index, w), x))
    PROVE  Words' = [Words EXCEPT ![x.addr] = x.value]
<1> DEFINE i == x.addr.index
           l == Stored(Line(x.addr.index, w), x)
<1>1. i \in Index /\ x.addr \in Address
  BY BlockOfWord DEF Address
<1>2. Line(i, w) \in CacheLine
  BY <1>1 DEF Line, CacheInv, CacheTypes
<1>3. /\ l \in CacheLine /\ l.tag = Line(i, w).tag /\ l.valid = Line(i, w).valid
      /\ \A k \in Word : l.data[k] = IF k = x.addr.word THEN x.value ELSE Line(i, w).data[k]
  BY <1>2, StoredLine
<1> HIDE DEF l, i
<1>4. \A j \in Index : \A u \in Ways : Line(j, u)' = IF j = i /\ u = w THEN l ELSE Line(j, u)
  <2>1. cache \in [Index -> [Ways -> CacheLine]] /\ LineWritten(i, w, l)
    BY DEF CacheInv, CacheTypes, i, l
  <2> QED BY <1>1, <1>3, <2>1, OneLine
<1>5. WordsAreHeld /\ WordsAreHeld'
  BY WordsHeld, WordsHeldNext
<1>6. ASSUME NEW a \in Address
      PROVE  Words'[a] = IF a = x.addr THEN x.value ELSE Words[a]
  <2>1. a \in Cacheable => a.index \in Index /\ a.word \in Word
    BY BlockOfWord
  <2>2. \A u \in Ways : HeldIn(a, u)' <=> HeldIn(a, u)
    BY <1>3, <1>4, <2>1 DEF HeldIn
  <2>3. CASE \A u \in Ways : ~HeldIn(a, u)
    <3>1. a # x.addr
      BY <2>3 DEF HeldIn
    <3>2. Words[a] = ram[a] /\ Words'[a] = ram'[a]
      BY <1>5, <2>2, <2>3 DEF WordsAreHeld
    <3> QED BY <3>1, <3>2
  <2>4. ASSUME NEW u \in Ways, HeldIn(a, u)
        PROVE  Words'[a] = IF a = x.addr THEN x.value ELSE Words[a]
    <3>1. Words[a] = Line(a.index, u).data[a.word] /\ Words'[a] = Line(a.index, u)'.data[a.word]
      BY <1>5, <2>2, <2>4 DEF WordsAreHeld
    <3>2. a \in Cacheable /\ a.index \in Index /\ a.word \in Word
      BY <2>1, <2>4 DEF HeldIn
    <3>3. CASE a.index = i /\ u = w
      <4>1. a.tag = x.addr.tag
        BY <2>4, <3>3 DEF HeldIn, i
      <4>2. a = x.addr <=> a.word = x.addr.word
        BY <3>2, <3>3, <4>1, BlockOfWord DEF i
      <4> QED BY <1>3, <1>4, <3>1, <3>2, <3>3, <4>2
    <3>4. CASE ~(a.index = i /\ u = w)
      <4>1. a # x.addr
        <5> SUFFICES ASSUME a = x.addr PROVE FALSE
          OBVIOUS
        <5>1. Line(i, u).valid /\ Line(i, u).tag = x.addr.tag
          BY <2>4 DEF HeldIn, i
        <5>2. u = w
          BY <1>1, <5>1 DEF CacheInv, OneWayHits, i
        <5> QED BY <3>4, <5>2 DEF i
      <4> QED BY <1>4, <3>1, <3>2, <3>4, <4>1
    <3> QED BY <3>3, <3>4
  <2> QED BY <2>3, <2>4
<1> QED BY <1>1, <1>6, WordByWord

\* A line that becomes invalid takes nothing with it that memory has not.
LEMMA ClaimChangesNoWord ==
    ASSUME CacheInv, CacheInv', ram' = ram, NEW i \in Index, NEW w \in Ways, NEW l \in CacheLine,
           LineWritten(i, w, l), ~l.valid,
           Line(i, w).valid => \A k \in Word :
              Line(i, w).data[k] = ram[[tag |-> Line(i, w).tag, index |-> i, word |-> k]]
    PROVE  Words' = Words
<1>1. \A j \in Index : \A u \in Ways : Line(j, u)' = IF j = i /\ u = w THEN l ELSE Line(j, u)
  <2>1. cache \in [Index -> [Ways -> CacheLine]]
    BY DEF CacheInv, CacheTypes
  <2> QED BY <2>1, OneLine
<1>2. WordsAreHeld /\ WordsAreHeld'
  BY WordsHeld, WordsHeldNext
<1>3. ASSUME NEW a \in Address
      PROVE  Words'[a] = Words[a]
  <2>1. a \in Cacheable => a.index \in Index /\ a.word \in Word
    BY BlockOfWord
  <2>2. CASE \A u \in Ways : ~HeldIn(a, u)
    <3>1. \A u \in Ways : ~HeldIn(a, u)'
      BY <1>1, <2>1, <2>2 DEF HeldIn
    <3> QED BY <1>2, <2>2, <3>1 DEF WordsAreHeld
  <2>3. ASSUME NEW u \in Ways, HeldIn(a, u) PROVE Words'[a] = Words[a]
    <3>1. a \in Cacheable /\ a.index \in Index /\ a.word \in Word
      BY <2>1, <2>3 DEF HeldIn
    <3>2. Words[a] = Line(a.index, u).data[a.word]
      BY <1>2, <2>3 DEF WordsAreHeld
    <3>3. CASE a.index = i /\ u = w
      <4>1. a = [tag |-> Line(i, w).tag, index |-> i, word |-> a.word]
        BY <2>3, <3>1, <3>3, BlockOfWord DEF HeldIn
      <4>2. Words[a] = ram[a]
        BY <2>3, <3>1, <3>2, <3>3, <4>1 DEF HeldIn
      <4>3. \A v \in Ways : ~HeldIn(a, v)'
        <5> SUFFICES ASSUME NEW v \in Ways, HeldIn(a, v)' PROVE FALSE
          OBVIOUS
        <5>1. v # w /\ HeldIn(a, v)
          BY <1>1, <3>1, <3>3 DEF HeldIn
        <5> QED BY <2>3, <3>1, <3>3, <5>1 DEF HeldIn, CacheInv, OneWayHits
      <4>4. Words'[a] = ram'[a]
        BY <1>2, <4>3 DEF WordsAreHeld
      <4> QED BY <4>2, <4>4
    <3>4. CASE ~(a.index = i /\ u = w)
      <4>1. Line(a.index, u)' = Line(a.index, u)
        BY <1>1, <3>1, <3>4
      <4>2. HeldIn(a, u)'
        BY <2>3, <4>1 DEF HeldIn
      <4>3. Words'[a] = Line(a.index, u)'.data[a.word]
        BY <1>2, <4>2 DEF WordsAreHeld
      <4> QED BY <3>2, <4>1, <4>3
    <3> QED BY <3>3, <3>4
  <2> QED BY <2>2, <2>3
<1> QED BY <1>3, WordByWord

\* A line that becomes valid has the words memory has.
LEMMA FillChangesNoWord ==
    ASSUME CacheInv, CacheInv', ram' = ram, NEW i \in Index, NEW w \in Ways, NEW l \in CacheLine,
           LineWritten(i, w, l), ~Line(i, w).valid,
           l.valid => /\ \A u \in Ways : Line(i, u).valid => Line(i, u).tag # l.tag
                      /\ \A k \in Word : l.data[k] = ram[[tag |-> l.tag, index |-> i, word |-> k]]
    PROVE  Words' = Words
<1>1. \A j \in Index : \A u \in Ways : Line(j, u)' = IF j = i /\ u = w THEN l ELSE Line(j, u)
  <2>1. cache \in [Index -> [Ways -> CacheLine]]
    BY DEF CacheInv, CacheTypes
  <2> QED BY <2>1, OneLine
<1>2. WordsAreHeld /\ WordsAreHeld'
  BY WordsHeld, WordsHeldNext
<1>3. ASSUME NEW a \in Address
      PROVE  Words'[a] = Words[a]
  <2>1. a \in Cacheable => a.index \in Index /\ a.word \in Word
    BY BlockOfWord
  <2>2. CASE \A u \in Ways : ~HeldIn(a, u)'
    <3>1. \A u \in Ways : ~HeldIn(a, u)
      BY <1>1, <2>1, <2>2 DEF HeldIn
    <3> QED BY <1>2, <2>2, <3>1 DEF WordsAreHeld
  <2>3. ASSUME NEW u \in Ways, HeldIn(a, u)' PROVE Words'[a] = Words[a]
    <3>1. a \in Cacheable /\ a.index \in Index /\ a.word \in Word
      BY <2>1, <2>3 DEF HeldIn
    <3>2. Words'[a] = Line(a.index, u)'.data[a.word]
      BY <1>2, <2>3 DEF WordsAreHeld
    <3>3. CASE a.index = i /\ u = w
      <4>1. l.valid /\ l.tag = a.tag
        BY <1>1, <2>3, <3>1, <3>3 DEF HeldIn
      <4>2. a = [tag |-> l.tag, index |-> i, word |-> a.word]
        BY <3>1, <3>3, <4>1, BlockOfWord
      <4>3. Words'[a] = ram[a]
        BY <1>1, <3>1, <3>2, <3>3, <4>1, <4>2
      <4>4. \A v \in Ways : ~HeldIn(a, v)
        BY <3>3, <4>1 DEF HeldIn
      <4>5. Words[a] = ram[a]
        BY <1>2, <4>4 DEF WordsAreHeld
      <4> QED BY <4>3, <4>5
    <3>4. CASE ~(a.index = i /\ u = w)
      <4>1. Line(a.index, u)' = Line(a.index, u)
        BY <1>1, <3>1, <3>4
      <4>2. HeldIn(a, u)
        BY <2>3, <4>1 DEF HeldIn
      <4>3. Words[a] = Line(a.index, u).data[a.word]
        BY <1>2, <4>2 DEF WordsAreHeld
      <4> QED BY <3>2, <4>1, <4>3
    <3> QED BY <3>3, <3>4
  <2> QED BY <2>2, <2>3
<1> QED BY <1>3, WordByWord

\* A word that is written back was in its line already.
LEMMA WriteBackChangesNoWord ==
    ASSUME CacheInv, CacheInv', state \in {"wb_aw", "wb_b"}, cache' = cache,
           \/ ram' = ram
           \/ ram' = [ram EXCEPT ![wb_word_addr] = Line(lat.addr.index, wb.way).data[wb.cnt]]
    PROVE  Words' = Words
<1>1. WordsAreHeld /\ WordsAreHeld'
  BY WordsHeld, WordsHeldNext
<1>2. \A i \in Index : \A w \in Ways : Line(i, w)' = Line(i, w)
  BY DEF Line
<1>3. ram \in [Address -> Value]
  BY DEF CacheInv, CacheTypes
<1>4. ASSUME NEW a \in Address
      PROVE  Words'[a] = Words[a]
  <2>1. a \in Cacheable => a.index \in Index /\ a.word \in Word
    BY BlockOfWord
  <2>2. \A u \in Ways : HeldIn(a, u)' <=> HeldIn(a, u)
    BY <1>2, <2>1 DEF HeldIn
  <2>3. CASE \A u \in Ways : ~HeldIn(a, u)
    <3>1. Words[a] = ram[a] /\ Words'[a] = ram'[a]
      BY <1>1, <2>2, <2>3 DEF WordsAreHeld
    <3>2. a # wb_word_addr
      <4> SUFFICES ASSUME a = wb_word_addr PROVE FALSE
        OBVIOUS
      <4>1. wb.way \in Ways /\ wb_word_addr \in Cacheable
        BY EvictedLine
      <4>2. a.tag = wb.tag /\ a.index = lat.addr.index
        BY DEF wb_word_addr
      <4>3. HeldIn(a, wb.way)
        BY <4>1, <4>2 DEF HeldIn, CacheInv, Victims
      <4> QED BY <2>3, <4>1, <4>3
    <3> QED BY <1>3, <3>1, <3>2
  <2>4. ASSUME NEW u \in Ways, HeldIn(a, u) PROVE Words'[a] = Words[a]
    BY <1>1, <1>2, <2>1, <2>2, <2>4 DEF WordsAreHeld, HeldIn
  <2> QED BY <2>3, <2>4
<1> QED BY <1>4, WordByWord

\* A store to a device changes its word.
LEMMA DeviceChangesWord ==
    ASSUME CacheInv, cache' = cache, NEW a \in Uncached, NEW d,
           ram' = [ram EXCEPT ![a] = d]
    PROVE  Words' = [Words EXCEPT ![a] = d]
<1>1. a \in Address /\ a \notin Cacheable /\ ram \in [Address -> Value]
  BY DataCacheAssumption DEF Address, CacheInv, CacheTypes
<1>2. Words'[a] = d
  BY <1>1 DEF Words
<1>3. ASSUME NEW b \in Address, b # a PROVE Words'[b] = Words[b]
  BY <1>1, <1>3 DEF Words, HitWays, Line
<1> QED BY <1>1, <1>2, <1>3, WordByWord

------------------------------------------------------------------------------
(* The unit implements a memory without a cache *)

Promised == Plain!Wait \/ Plain!Arrive \/ Plain!Load \/ Plain!Store

\* The instruction in execute, and what a load is shown.
LEMMA OpMoves ==
    ASSUME CacheInv, OpEdge
    PROVE  /\ op' \in Accesses \cup {None}
           /\ op # None /\ ~lsu_done => op' = op
           /\ answer' = IF op # None /\ lsu_done /\ ~op.store THEN load_res ELSE None
<1>1. answer' = IF op # None /\ lsu_done /\ ~op.store THEN load_res ELSE None
  BY DEF OpEdge
<1> QED BY <1>1, OpStays

LEMMA Waiting ==
    ASSUME CacheInv, OpEdge, op # None, ~lsu_done, Words' = Words
    PROVE  Promised
<1>1. answer' = None /\ op' = op
  BY OpMoves
<1> QED BY <1>1 DEF Promised, Plain!Wait

LEMMA Loading ==
    ASSUME CacheInv, OpEdge, op # None, ~op.store, lsu_done, load_res = Words[op.addr], Words' = Words
    PROVE  Promised
<1>1. answer' = load_res /\ op' \in Accesses \cup {None}
  BY OpMoves
<1> QED BY <1>1 DEF Promised, Plain!Load, Plain!NextOp

LEMMA Storing ==
    ASSUME CacheInv, OpEdge, op # None, op.store, Words' = [Words EXCEPT ![op.addr] = op.value]
    PROVE  Promised
<1>1. answer' = None /\ (op' = op \/ op' \in Accesses \cup {None})
  BY OpMoves
<1> QED BY <1>1 DEF Promised, Plain!Store, Plain!NextOp

LEMMA IdlePromise ==
    ASSUME CacheInv, CacheInv', NEW fires \in SUBSET Driven, NEW show \in BOOLEAN,
           Cycle(fires, show), state = "idle"
    PROVE  Promised
<1>1. ram' = ram
  BY NoWriteStep DEF Cycle
<1>2. ~fast_hit_done /\ OpEdge
  BY WhenDone DEF Cycle
<1>3. CASE op = None
  <2>1. ~fast_idle_hit_done
    BY <1>3 DEF fast_idle_hit_done
  <2>2. cache' = cache
    BY <1>2, <2>1 DEF Cycle, CacheEdge
  <2>3. Words' = Words
    BY <1>1, <2>2, NothingChanges
  <2>4. answer' = None /\ op' \in Accesses \cup {None}
    BY <1>2, <1>3, OpMoves
  <2> QED BY <1>3, <2>3, <2>4 DEF Promised, Plain!Arrive, Plain!NextOp
<1>4. CASE op # None /\ ~fast_idle_hit_done
  <2>1. cache' = cache
    BY <1>2, <1>4 DEF Cycle, CacheEdge
  <2>2. Words' = Words
    BY <1>1, <2>1, NothingChanges
  <2>3. ~lsu_done
    BY <1>4, WhenDone DEF CacheInv, Fills, fast_idle_hit_done
  <2> QED BY <1>2, <1>4, <2>2, <2>3, Waiting
<1>5. CASE op # None /\ fast_idle_hit_done
  <2> DEFINE w == hit_way(op.addr)
  <2>1. op \in Accesses /\ op.addr \in Cacheable /\ HitWays(op.addr) # {}
    BY <1>5 DEF CacheInv, CacheTypes, fast_idle_hit_done, Hit
  <2>2. /\ w \in Ways
        /\ Line(op.addr.index, w).valid /\ Line(op.addr.index, w).tag = op.addr.tag
    BY <2>1, HitWay DEF CacheInv
  <2>3. CASE op.store
    <3>1. LineWritten(op.addr.index, w, Stored(Line(op.addr.index, w), op))
      BY <1>2, <1>5, <2>3 DEF Cycle, CacheEdge, LineWritten, Line
    <3> HIDE DEF w
    <3>2. Words' = [Words EXCEPT ![op.addr] = op.value]
      BY <1>1, <2>1, <2>2, <3>1, StoreChangesWord
    <3> QED BY <1>2, <1>5, <2>3, <3>2, Storing
  <2>4. CASE ~op.store
    <3>1. cache' = cache
      BY <1>2, <1>5, <2>4 DEF Cycle, CacheEdge
    <3>2. Words' = Words
      BY <1>1, <3>1, NothingChanges
    <3>3. load_res = Line(op.addr.index, w).data[op.addr.word]
      BY <1>2, <1>5 DEF load_res, fast_uncache_r_done
    <3>4. Words[op.addr] = Line(op.addr.index, w).data[op.addr.word]
      <4>1. op.addr \in Address /\ HeldIn(op.addr, w)
        BY <2>1, <2>2 DEF HeldIn, Address
      <4> QED BY <2>2, <4>1, WordsHeld DEF WordsAreHeld
    <3>5. lsu_done
      BY <1>5 DEF lsu_done
    <3> QED BY <1>2, <1>5, <2>4, <3>2, <3>3, <3>4, <3>5, Loading
  <2> QED BY <2>3, <2>4
<1> QED BY <1>3, <1>4, <1>5

LEMMA WriteBackPromise ==
    ASSUME CacheInv, CacheInv', NEW fires \in SUBSET Driven, NEW show \in BOOLEAN,
           Cycle(fires, show), state \in {"check", "wb_aw", "wb_b"}
    PROVE  Promised
<1>1. cache' = cache
  BY CacheRests DEF Cycle
<1>2. op # None /\ ~lsu_done /\ OpEdge
  BY WhenDone DEF CacheInv, Serves, Cycle
<1>3. Words' = Words
  <2>1. CASE state = "check"
    <3>1. ram' = ram
      BY <2>1, NoWriteStep DEF Cycle
    <3> QED BY <1>1, <3>1, NothingChanges
  <2>2. CASE state = "wb_aw"
    <3>1. \/ ram' = ram
          \/ ram' = [ram EXCEPT ![wb_word_addr] = Line(lat.addr.index, wb.way).data[wb.cnt]]
      BY <2>2, WbAwWrites DEF Cycle
    <3> QED BY <1>1, <2>2, <3>1, WriteBackChangesNoWord
  <2>3. CASE state = "wb_b"
    <3>1. ram' = ram
      BY <2>3, WbBWrites DEF Cycle
    <3> QED BY <1>1, <3>1, NothingChanges
  <2> QED BY <2>1, <2>2, <2>3
<1> QED BY <1>2, <1>3, Waiting

LEMMA ClaimPromise ==
    ASSUME CacheInv, CacheInv', NEW fires \in SUBSET Driven, NEW show \in BOOLEAN,
           Cycle(fires, show), state = "refill_ar"
    PROVE  Promised
<1> DEFINE i == lat.addr.index
           w == Victim(lat.addr)
           l == Claimed(Line(i, w), lat)
<1>1. ram' = ram
  BY NoWriteStep DEF Cycle
<1>2. op # None /\ ~lsu_done /\ OpEdge /\ ~fast_hit_done /\ ~fast_idle_hit_done
  BY WhenDone DEF CacheInv, Serves, Cycle
<1>3. CASE "ar" \notin fires
  <2>1. cache' = cache
    BY <1>2, <1>3 DEF Cycle, CacheEdge
  <2> QED BY <1>1, <1>2, <2>1, NothingChanges, Waiting
<1>4. CASE "ar" \in fires
  <2>1. lat \in Accesses /\ lat.addr \in Cacheable /\ i \in Index
    BY BlockOfWord DEF CacheInv, Serves, CacheTypes, Blocks
  <2>2. w \in Ways
    BY <2>1, VictimIsWay DEF Victim, CacheInv, CacheTypes
  <2>3. Line(i, w) \in CacheLine
    BY <2>1, <2>2 DEF Line, CacheInv, CacheTypes
  <2>4. l \in CacheLine /\ ~l.valid
    BY <2>1, <2>3, ClaimedLine
  <2>5. LineWritten(i, w, l)
    BY <1>2, <1>4 DEF Cycle, CacheEdge, LineWritten, Line
  <2>6. Line(i, w).valid => \A k \in Word :
           Line(i, w).data[k] = ram[[tag |-> Line(i, w).tag, index |-> i, word |-> k]]
    BY <2>1, <2>2 DEF CacheInv, Victims, CleanLinesMatchMemory, victim_is_dirty
  <2> HIDE DEF i, w, l
  <2>7. Words' = Words
    BY <1>1, <2>1, <2>2, <2>4, <2>5, <2>6, ClaimChangesNoWord
  <2> QED BY <1>2, <2>7, Waiting
<1> QED BY <1>3, <1>4

LEMMA FillPromise ==
    ASSUME CacheInv, CacheInv', NEW fires \in SUBSET Driven, NEW show \in BOOLEAN,
           Cycle(fires, show), state = "refill_r"
    PROVE  Promised
<1> DEFINE i == lat.addr.index
           w == victim_way_lat
           l == Filled(Line(i, w), refill_cnt, rdata, rlast)
<1>1. ram' = ram
  BY NoWriteStep DEF Cycle
<1>2. /\ op # None /\ lat = op /\ OpEdge /\ ~fast_hit_done /\ ~fast_idle_hit_done
      /\ ~fast_uncache_r_done /\ (rready => rvalid)
      /\ lsu_done <=> rready /\ rlast /\ ~lat.store
  BY WhenDone DEF CacheInv, Serves, Cycle, Reads, fast_uncache_r_done
<1>3. /\ lat \in Accesses /\ lat.addr \in Cacheable /\ i \in Index /\ w \in Ways
      /\ refill_cnt \in Word /\ lat.addr \in Address /\ lat.addr.word \in Word
  BY BlockOfWord DEF CacheInv, Serves, CacheTypes, Blocks, Address
<1>4. /\ Line(i, w) \in CacheLine /\ Line(i, w).tag = lat.addr.tag /\ ~Line(i, w).valid
      /\ \A k \in Word : k < refill_cnt =>
            Line(i, w).data[k] = ram[[tag |-> lat.addr.tag, index |-> i, word |-> k]]
  BY <1>3 DEF CacheInv, CacheTypes, Fills, Line
<1>5. \A u \in Ways : Line(i, u).valid => Line(i, u).tag # lat.addr.tag
  BY <1>3 DEF CacheInv, Misses
<1>6. LAST_WORD \in Nat /\ refill_cnt \in 0 .. LAST_WORD /\ \A k \in Word : k \in 0 .. LAST_WORD
  BY <1>3, DataCacheAssumption DEF Word
<1>7. Words' = Words
  <2>1. CASE ~rready
    <3>1. cache' = cache
      BY <1>2, <2>1 DEF Cycle, CacheEdge
    <3> QED BY <1>1, <3>1, NothingChanges
  <2>2. CASE rready
    <3>1. LineWritten(i, w, l)
      BY <1>2, <2>2 DEF Cycle, CacheEdge, LineWritten, Line
    <3>2. rlast \in BOOLEAN
      BY DEF rlast
    <3>3. /\ l \in CacheLine /\ l.tag = lat.addr.tag /\ (l.valid <=> rlast)
          /\ \A k \in Word : l.data[k] = IF k = refill_cnt THEN rdata ELSE Line(i, w).data[k]
      BY <1>3, <1>4, <3>2, BeatOfLine, FilledLine
    <3> HIDE DEF i, w, l
    <3>4. l.valid => \A k \in Word :
             l.data[k] = ram[[tag |-> l.tag, index |-> i, word |-> k]]
      BY <1>4, <1>6, <3>3, BeatOfLine DEF i
    <3> QED BY <1>1, <1>3, <1>4, <1>5, <3>1, <3>3, <3>4, FillChangesNoWord
  <2> QED BY <2>1, <2>2
<1>8. CASE ~lsu_done
  BY <1>2, <1>7, <1>8, Waiting
<1>9. CASE lsu_done
  <2>1. rlast /\ ~op.store /\ refill_cnt = LAST_WORD
    BY <1>2, <1>9, BeatOfLine
  <2>2. load_res = IF refill_cnt = lat.addr.word THEN rdata ELSE Line(i, w).data[lat.addr.word]
    BY <1>2 DEF load_res
  <2>3. lat.addr = [tag |-> lat.addr.tag, index |-> i, word |-> lat.addr.word]
    BY <1>3, BlockOfWord
  <2>4. refill_cnt # lat.addr.word => lat.addr.word < refill_cnt
    <3>1. lat.addr.word \in 0 .. LAST_WORD
      BY <1>3, <1>6
    <3> QED BY <1>6, <2>1, <3>1
  <2>5. load_res = ram[lat.addr]
    BY <1>3, <1>4, <2>2, <2>3, <2>4, BeatOfLine
  <2>6. \A u \in Ways : ~HeldIn(lat.addr, u)
    BY <1>5 DEF HeldIn
  <2>7. Words[lat.addr] = ram[lat.addr]
    BY <1>3, <2>6, WordsHeld DEF WordsAreHeld
  <2> QED BY <1>2, <1>7, <1>9, <2>1, <2>5, <2>7, Loading
<1> QED BY <1>8, <1>9

LEMMA StoreFillPromise ==
    ASSUME CacheInv, CacheInv', NEW fires \in SUBSET Driven, NEW show \in BOOLEAN,
           Cycle(fires, show), state = "store_fill"
    PROVE  Promised
<1> DEFINE w == victim_way_lat
<1>1. ram' = ram
  BY NoWriteStep DEF Cycle
<1>2. op # None /\ lat = op /\ op.store /\ OpEdge /\ ~fast_hit_done /\ ~fast_idle_hit_done
  BY WhenDone DEF CacheInv, Serves, Cycle, Fills
<1>3. op \in Accesses /\ op.addr \in Cacheable /\ w \in Ways
  BY <1>2 DEF CacheInv, Serves, CacheTypes, Blocks
<1>4. Line(op.addr.index, w).valid /\ Line(op.addr.index, w).tag = op.addr.tag
  BY <1>2 DEF CacheInv, Fills
<1>5. LineWritten(op.addr.index, w, Stored(Line(op.addr.index, w), op))
  BY <1>2 DEF Cycle, CacheEdge, LineWritten, Line
<1> HIDE DEF w
<1>6. Words' = [Words EXCEPT ![op.addr] = op.value]
  BY <1>1, <1>3, <1>4, <1>5, StoreChangesWord
<1> QED BY <1>2, <1>6, Storing

LEMMA DevicePromise ==
    ASSUME CacheInv, DeviceInv, ~SPLIT, NEW fires \in SUBSET Driven, NEW show \in BOOLEAN,
           Cycle(fires, show), state \in Devices
    PROVE  Promised
<1>1. cache' = cache
  BY CacheRests DEF Cycle
<1>2. /\ op # None /\ lat = op /\ OpEdge /\ op \in Accesses
      /\ op.addr \in Uncached /\ op.addr \in Address /\ op.addr \notin Cacheable
  BY DataCacheAssumption DEF CacheInv, CacheTypes, Serves, Cycle, Devices, Address
<1>3. Words[op.addr] = ram[op.addr] /\ ~fast_hit_done /\ ~fast_idle_hit_done
  BY <1>2, WhenDone DEF Words, Devices
<1>4. CASE state = "uncache_ar"
  <2>1. ram' = ram /\ ~lsu_done
    BY <1>4, NoWriteStep, WhenDone DEF Cycle
  <2> QED BY <1>1, <1>2, <2>1, NothingChanges, Waiting
<1>5. CASE state = "uncache_r"
  <2>1. ram' = ram /\ (lsu_done <=> rready)
    BY <1>5, NoWriteStep, WhenDone DEF Cycle
  <2>2. Words' = Words
    BY <1>1, <2>1, NothingChanges
  <2>3. CASE ~rready
    BY <1>2, <2>1, <2>2, <2>3, Waiting
  <2>4. CASE rready
    <3>1. load_res = rdata
      BY <1>3, <1>5, <2>4 DEF load_res, fast_uncache_r_done
    <3>2. rdata = ram[op.addr]
      BY <1>2, <1>5 DEF rdata, BeatAddress, CacheInv, Reads
    <3>3. ~op.store
      BY <1>2, <1>5 DEF DeviceInv
    <3> QED BY <1>2, <1>3, <2>1, <2>2, <2>4, <3>1, <3>2, <3>3, Loading
  <2> QED BY <2>3, <2>4
<1>6. CASE state = "uncache_aw"
  <2>1. op.store /\ (ram' = ram \/ ram' = [ram EXCEPT ![op.addr] = op.value])
    BY <1>2, <1>6, DeviceStore
  <2>2. ~lsu_done
    BY <1>6, WhenDone
  <2>3. CASE ram' = ram
    BY <1>1, <1>2, <2>2, <2>3, NothingChanges, Waiting
  <2>4. CASE ram' = [ram EXCEPT ![op.addr] = op.value]
    <3>1. Words' = [Words EXCEPT ![op.addr] = op.value]
      BY <1>1, <1>2, <2>4, DeviceChangesWord
    <3> QED BY <1>2, <2>1, <3>1, Storing
  <2> QED BY <2>1, <2>3, <2>4
<1>7. CASE state = "uncache_b"
  <2>1. ram' = ram /\ op.store /\ ram[op.addr] = op.value
    BY <1>2, <1>7, DeviceStored DEF DeviceInv
  <2>2. Words' = Words
    BY <1>1, <2>1, NothingChanges
  <2>3. Words' = [Words EXCEPT ![op.addr] = op.value]
    BY <1>2, <1>3, <2>1, <2>2, WordByWord
  <2> QED BY <1>2, <2>1, <2>3, Storing
<1> QED BY <1>4, <1>5, <1>6, <1>7 DEF Devices

LEMMA PromiseStep ==
    ASSUME CacheInv, CacheInv', DeviceInv, ~SPLIT, [Next]_vars
    PROVE  [Promised]_<<op, Words, answer>>
<1>1. CASE UNCHANGED vars
  <2>1. Words' = Words
    BY <1>1, NothingChanges DEF vars, memoryVars
  <2> QED BY <1>1, <2>1 DEF vars
<1>2. CASE Next
  <2>1. PICK fires \in SUBSET Driven, show \in MayShow : Cycle(fires, show)
    BY <1>2 DEF Next
  <2>2. show \in BOOLEAN
    BY <2>1 DEF MayShow
  <2>3. state \in {"idle", "check"} \cup Blocks \cup Devices
    BY DEF CacheInv, CacheTypes
  <2>4. CASE state = "idle"
    BY <2>1, <2>2, <2>4, IdlePromise
  <2>5. CASE state \in {"check", "wb_aw", "wb_b"}
    BY <2>1, <2>2, <2>5, WriteBackPromise
  <2>6. CASE state = "refill_ar"
    BY <2>1, <2>2, <2>6, ClaimPromise
  <2>7. CASE state = "refill_r"
    BY <2>1, <2>2, <2>7, FillPromise
  <2>8. CASE state = "store_fill"
    BY <2>1, <2>2, <2>8, StoreFillPromise
  <2>9. CASE state \in Devices
    BY <2>1, <2>2, <2>9, DevicePromise
  <2> QED BY <2>3, <2>4, <2>5, <2>6, <2>7, <2>8, <2>9 DEF Blocks
<1> QED BY <1>1, <1>2

LEMMA PromiseInit ==
    ASSUME Init
    PROVE  Plain!DataInit
<1>1. CacheInv /\ \A i \in Index : \A w \in Ways : ~Line(i, w).valid
  BY InitHolds DEF Init, Line, EmptyLine
<1>2. ASSUME NEW a \in Address PROVE Words[a] = ram[a]
  <2>1. \A u \in Ways : ~HeldIn(a, u)
    BY <1>1, BlockOfWord DEF HeldIn
  <2> QED BY <1>1, <2>1, WordsHeld DEF WordsAreHeld
<1>3. ram \in [Address -> Value]
  BY <1>1 DEF CacheInv, CacheTypes
<1>4. Words = ram
  BY <1>2, <1>3, WordByWord
<1> QED BY <1>4 DEF Init, Plain!DataInit

\* With the cache in front, loads and stores see a memory without a cache,
\* where memory takes an uncached store's address and data together.
THEOREM Refinement == ASSUME ~SPLIT PROVE Spec => ImplementsDataMemory
<1>1. Init => Plain!DataInit
  BY PromiseInit
<1>2. CacheInv /\ CacheInv' /\ DeviceInv /\ [Next]_vars
        => [Plain!Wait \/ Plain!Arrive \/ Plain!Load \/ Plain!Store]_Plain!dataVars
  BY PromiseStep DEF Promised, Plain!dataVars
<1> QED BY <1>1, <1>2, CacheInvariant, DeviceInvariant, PTL DEF Spec, ImplementsDataMemory, Plain!DataSpec
=============================================================================
