----------------------------- MODULE FetchPath -----------------------------
(***************************************************************************)
(* The way of an instruction into the core: the instruction cache behind   *)
(* the fetch unit, the interconnect, the data port beside it and one       *)
(* memory (hcpu.v 829-853, 2741-2886).  A step is one clock edge.          *)
(*                                                                         *)
(* The fetch unit asks for some address in every cycle.  The data port     *)
(* makes the transactions of lsu.v and of the memory service, one at a     *)
(* time, some of them back to back (write-backs before a refill).          *)
(***************************************************************************)
EXTENDS ICache, Xbar

CONSTANTS Fetches,     \* the addresses considered
          Jobs,        \* transactions of the data port: [kind, addr, value]
          CHAIN,       \* bound: transactions back to back behind the first
          Contents     \* what memory holds to begin with

ASSUME FetchPathAssumption ==
    /\ Fetches \subseteq Address
    /\ CHAIN \in Nat
    /\ \A j \in Jobs : j.kind \in {"read", "write", "timer"}

\* What memory has accepted: a transaction, the beat it is at, whether memory
\* shows it, and the port it is for.
Transaction == [kind : {"read", "write"}, addr : Address, beat : Word,
                shown : BOOLEAN, by : {"ifu", "lsu"}]

ASSUME ModelValueAssumption == None \notin Transaction

VARIABLES
    addr,          \* pc_next
    job,           \* data transaction under way: a job, its phase, its ready pulse
    ram, serving,  \* memory and the transaction it has accepted
    held           \* history: the values each word has had since the last fence.i

vars == <<icacheVars, grant, addr, job, ram, serving, held>>

----------------------------------------------------------------------------
(* Wires *)

Asks(kinds) == job # None /\ job.phase = "ask" /\ job.kind \in kinds
Awaits(kinds) == job # None /\ job.phase = "answer" /\ job.kind \in kinds

lsu_rready == Awaits({"read", "timer"}) /\ job.ready
lsu_bready == Awaits({"write"}) /\ job.ready

sram_arvalid == ToRam(Asks({"read"}), axi_arvalid)
sram_awvalid == ToRam(Asks({"write"}), FALSE)
sram_rready == ToRam(lsu_rready, axi_rready)
sram_bready == ToRam(lsu_bready, FALSE)
sram_araddr == IF grant = "lsu_ram" THEN BlockOf(job.addr) ELSE araddr

rvalid == serving # None /\ serving.kind = "read" /\ serving.shown
rlast == serving # None /\ serving.kind = "read" /\ serving.beat = LAST_WORD
bvalid == serving # None /\ serving.kind = "write" /\ serving.shown
rdata == ram[[serving.addr EXCEPT !.word = serving.beat]]

----------------------------------------------------------------------------
(* Data port and memory *)

\* What follows a transaction that ends, or an idle cycle.
Following(left) == {None} \cup
    {[kind |-> j.kind, addr |-> j.addr, value |-> j.value,
      phase |-> "ask", ready |-> FALSE, left |-> left] : j \in Jobs}

\* lsu.v takes an answer the cycle after it shows: its ready is a pulse.  (The memory service
\* is ready all through its wait; its accesses of one beat are in VectorMemory, not here.)
JobEdge(ready) ==
    LET fires == ToLsu(ready, Asks({"timer"}))
        shows == ToLsu(IF Awaits({"write"}) THEN bvalid ELSE rvalid, Awaits({"timer"}))
        last == Awaits({"read"}) => rlast
    IN job' \in IF job = None THEN Following(CHAIN)
                ELSE IF job.phase = "ask"
                     THEN {IF fires THEN [job EXCEPT !.phase = "answer"] ELSE job}
                ELSE IF job.ready /\ last
                     THEN IF job.left > 0 THEN Following(job.left - 1) ELSE {None}
                ELSE {[job EXCEPT !.ready = shows /\ ~job.ready]}

\* Memory serves one transaction at a time and shows each answer when it likes.
MemoryEdge(ready, show) ==
    LET accepted(kind, a) == [kind |-> kind, addr |-> a, beat |-> 0, shown |-> FALSE,
                              by |-> IF grant = "ifu_ram" THEN "ifu" ELSE "lsu"]
    IN /\ serving' =
            IF serving = None
            THEN IF ready /\ sram_arvalid THEN accepted("read", sram_araddr)
                 ELSE IF ready /\ sram_awvalid THEN accepted("write", job.addr)
                 ELSE None
            ELSE IF (rvalid /\ rlast /\ sram_rready) \/ (bvalid /\ sram_bready) THEN None
            ELSE IF rvalid /\ sram_rready
                 THEN [serving EXCEPT !.beat = @ + 1, !.shown = show]
            ELSE [serving EXCEPT !.shown = @ \/ show]
       /\ ram' = IF serving = None /\ ready /\ sram_awvalid
                 THEN [ram EXCEPT ![job.addr] = job.value] ELSE ram

----------------------------------------------------------------------------
(* The system *)

Init == /\ ICacheInit
        /\ XbarInit
        /\ addr \in Fetches
        /\ job = None
        /\ ram \in Contents
        /\ serving = None
        /\ held = [a \in Address |-> {ram[a]}]

\* A fetch that hits may be followed by any other; a redirect comes at any time.
FetchEdge(redirect) == addr' \in IF hit(addr) \/ redirect THEN Fetches ELSE {addr}

HeldEdge(fence_i) ==
    held' = [a \in Address |-> IF Invalidates(fence_i) THEN {ram'[a]}
                               ELSE held[a] \cup {ram'[a]}]

Cycle(fence_i, redirect, ready, show) ==
    /\ FetchEdge(redirect)
    /\ JobEdge(ready /\ serving = None)
    /\ MemoryEdge(ready, show)
    /\ ICacheEdge(addr, fence_i, grant = "ifu_ram" /\ ready /\ serving = None,
                  ToIfu(rvalid), ToIfu(rlast), rdata)
    /\ XbarEdge(axi_arvalid, Asks({"read", "write", "timer"}), Asks({"timer"}),
                rvalid, rlast, bvalid, axi_rready, lsu_rready, lsu_bready)
    /\ HeldEdge(fence_i)

\* Memory is ready only when idle, and has something to show only when it is not.
Next == \E fence_i, redirect, answers \in BOOLEAN :
           Cycle(fence_i, redirect, answers, answers)

Spec == Init /\ [][Next]_vars

\* Memory accepts and answers in the end.
Answers == \E fence_i, redirect \in BOOLEAN : Cycle(fence_i, redirect, TRUE, TRUE)
FairSpec == Spec /\ WF_vars(Answers)

----------------------------------------------------------------------------
(* Correctness *)

\* Memory answers the port it was asked by: a grant lasts as long as what
\* memory has accepted under it.  All transactions carry the same identifier
\* (ARID and AWID are 0), so nothing else could tell them apart.
ResponsesReachOwner ==
    serving # None => grant = (IF serving.by = "ifu" THEN "ifu_ram" ELSE "lsu_ram")

\* A fetch sees a value its word has had since the last fence.i that met the
\* cache idle, though a refill goes on while fetch moves elsewhere, hits
\* change the replacement tree under it, and the data port writes to memory
\* between two of its beats.
FetchIsFresh == hit(addr) => data(addr) \in held[addr]

\* Fetch goes on: unless redirects never end, a fetch hits again and again.  The
\* data port is served first and must not keep the interconnect.
FetchGoesOn == []<>hit(addr) \/ []<><<~hit(addr) /\ addr' # addr>>_addr

\* A transaction of the data port ends.
DataGoesOn == job # None ~> job = None
=============================================================================
