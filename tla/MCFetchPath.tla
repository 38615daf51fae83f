---------------------------- MODULE MCFetchPath ----------------------------
(***************************************************************************)
(* One set of the instruction cache, two blocks of two words.  A miss      *)
(* fetches its block twice, into two ways, so that two blocks fill a set.  *)
(* One word is stored to; every word has values of its own.                *)
(***************************************************************************)
EXTENDS FetchPath

CONSTANTS t1, t2

MCTag == {t1, t2}

At(t, w) == [tag |-> t, index |-> 0, word |-> w]
Stored == At(t1, 1)

MCFetches == {At(t1, 1), At(t2, 0)}
MCContents == {[a \in Address |-> IF a = Stored THEN 0
                                  ELSE IF a.tag = t1 THEN 2 ELSE 3 + a.word]}

MCJobs == {[kind |-> "write", addr |-> Stored, value |-> 1],
           [kind |-> "read", addr |-> Stored, value |-> 0],
           [kind |-> "timer", addr |-> None, value |-> 0]}

\* What nothing reads before it is overwritten is left out of the comparison of
\* states: the content of an invalid way, but for what a refill has brought, and
\* the place in a burst when there is none.
Filling == ~idle /\ ~axi_arvalid
Shown(l, w) == IF l.valid THEN l
               ELSE IF Filling /\ w = victim_way_lat
                    THEN [l EXCEPT !.data = [k \in 0 .. read_index - 1 |-> @[k]]]
               ELSE None
Live == <<[i \in Index |-> [w \in Ways |-> Shown(lines[i][w], w)]],
          plru, araddr, idle, axi_arvalid, axi_rready,
          IF Filling THEN <<victim_way_lat, read_index>> ELSE None,
          grant, addr, job, ram, serving, held>>
=============================================================================
