---------------------------- MODULE MCDataCache ----------------------------
(***************************************************************************)
(* One set of the data cache, two words to a block, one block more than    *)
(* there are ways, and one word outside the cached region.  Two blocks are *)
(* stored to; one word of the first and the uncached word tell values      *)
(* apart, the other words always hold 0.                                   *)
(***************************************************************************)
EXTENDS DataCache, TLC

CONSTANTS t1, t2, t3, t4, t5, device

MCTag == {t1, t2, t3, t4, t5}
MCUncached == {device}

At(t, w) == [tag |-> t, index |-> 0, word |-> w]
MCContents == {[a \in Address |-> 0]}

LoadOf(a) == [store |-> FALSE, addr |-> a, value |-> 0]
StoreOf(a, v) == [store |-> TRUE, addr |-> a, value |-> v]

MCAccesses ==
    {LoadOf(a) : a \in {At(t1, 0), At(t1, 1), At(t3, 0), At(t4, 0), At(t5, 0), device}}
    \cup {StoreOf(At(t1, 1), v) : v \in {0, 1}}
    \cup {StoreOf(At(t2, 0), 0), StoreOf(device, 1)}

\* The three blocks that are only read are alike.
Alike == Permutations({t3, t4, t5})

\* Registers whose content nothing reads before it is overwritten are left out
\* of the comparison of states.
Live == <<op, o_pre_ready_d1, init_txn_ff, state, done_reg, cache, plru, memoryVars, answer,
          rready, axi_awvalid, wb_wvalid, axi_bready,
          IF state = "idle" THEN None ELSE lat,
          IF state \in {"wb_aw", "wb_b"} THEN wb ELSE None,
          IF state \in {"refill_r", "store_fill"} THEN <<victim_way_lat, refill_cnt>> ELSE None>>
=============================================================================
