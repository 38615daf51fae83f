----------------------------- MODULE FetchQueue -----------------------------
(***************************************************************************)
(* The fetch queue between the instruction cache and decode,               *)
(* vsrc/cpu/ifu/ifu_fetch_queue.v: a circular buffer with a head, a tail,  *)
(* an occupancy counter and one valid bit per slot.  The seven parallel    *)
(* payload arrays (pc_q ... predecode_q) are one array of entries here.    *)
(* A step is one clock edge.                                               *)
(***************************************************************************)
EXTENDS Integers, Sequences

CONSTANTS Entry,     \* fetched instructions with their prediction sidecar
          NoEntry,   \* the all-zero payload of a slot after reset
          DEPTH      \* number of slots; the code has 2

ASSUME DepthAssumption == DEPTH \in Nat \ {0}
ASSUME NoEntryAssumption == NoEntry \notin Entry

VARIABLES slot,      \* slot[i]: payload of slot i, kept when it is not valid
          valid,     \* valid[i]: valid_q[i]
          head,      \* the slot decode reads
          tail,      \* the slot the next fetch is written to
          count      \* occupancy

vars == <<slot, valid, head, tail, count>>

Slots == 0 .. DEPTH - 1

\* The pointers are one bit wide in the code and wrap by overflow.
Succ(i) == IF i = DEPTH - 1 THEN 0 ELSE i + 1

----------------------------------------------------------------------------
(* Combinational outputs *)

full  == count = DEPTH
empty == count = 0
deq_valid == ~empty

\* Mutant: readiness does not look at the occupancy.
enq_ready_Always(deqReady) == TRUE

\* o_enq_ready: a full queue still accepts when its head leaves on this edge.
enq_ready(deqReady) == ~full \/ (deq_valid /\ deqReady)

\* o_pair_valid and the younger half of the pair surface.
pair_valid == count = DEPTH
pair_younger == slot[Succ(head)]

----------------------------------------------------------------------------
(* Clock edges *)

Init == /\ slot = [i \in Slots |-> NoEntry]
        /\ valid = [i \in Slots |-> FALSE]
        /\ head = 0
        /\ tail = 0
        /\ count = 0

Reset == /\ slot' = [i \in Slots |-> NoEntry]
         /\ valid' = [i \in Slots |-> FALSE]
         /\ head' = 0
         /\ tail' = 0
         /\ count' = 0

\* Mutant: the tail is not rewound.
Flush_KeepsTail == /\ valid' = [i \in Slots |-> FALSE]
                   /\ head' = 0
                   /\ count' = 0
                   /\ UNCHANGED <<slot, tail>>

\* A flush forgets the occupancy and leaves the payload where it is.
Flush == /\ valid' = [i \in Slots |-> FALSE]
         /\ head' = 0
         /\ tail' = 0
         /\ count' = 0
         /\ UNCHANGED slot

\* enq_fire without deq_fire: decode is not ready, or there is nothing to take.
EnqueueOnly(e) ==
    /\ \E deqReady \in BOOLEAN : enq_ready(deqReady) /\ ~(deq_valid /\ deqReady)
    /\ slot' = [slot EXCEPT ![tail] = e]
    /\ valid' = [valid EXCEPT ![tail] = TRUE]
    /\ tail' = Succ(tail)
    /\ count' = count + 1
    /\ UNCHANGED head

\* deq_fire without enq_fire.
DequeueOnly ==
    /\ deq_valid
    /\ valid' = [valid EXCEPT ![head] = FALSE]
    /\ head' = Succ(head)
    /\ count' = count - 1
    /\ UNCHANGED <<slot, tail>>

\* Mutant: an exchange does not advance the head.
DequeueEnqueue_HeadStays(e) ==
    /\ deq_valid
    /\ enq_ready(TRUE)
    /\ slot' = [slot EXCEPT ![tail] = e]
    /\ valid' = [valid EXCEPT ![head] = FALSE, ![tail] = TRUE]
    /\ tail' = Succ(tail)
    /\ UNCHANGED <<head, count>>

\* Mutant: the dequeue's assignment wins over the enqueue's.
DequeueEnqueue_ClearWins(e) ==
    /\ deq_valid
    /\ enq_ready(TRUE)
    /\ slot' = [slot EXCEPT ![tail] = e]
    /\ valid' = [valid EXCEPT ![tail] = TRUE, ![head] = FALSE]
    /\ head' = Succ(head)
    /\ tail' = Succ(tail)
    /\ UNCHANGED count

\* Mutant: the exchange writes the slot after the tail.
DequeueEnqueue_WrongSlot(e) ==
    /\ deq_valid
    /\ enq_ready(TRUE)
    /\ slot' = [slot EXCEPT ![Succ(tail)] = e]
    /\ valid' = [valid EXCEPT ![head] = FALSE, ![tail] = TRUE]
    /\ head' = Succ(head)
    /\ tail' = Succ(tail)
    /\ UNCHANGED count

\* Both fire.  On a full queue head = tail, and the later assignment, the
\* enqueue's, decides the valid bit of that slot.
DequeueEnqueue(e) ==
    /\ deq_valid
    /\ enq_ready(TRUE)
    /\ slot' = [slot EXCEPT ![tail] = e]
    /\ valid' = [valid EXCEPT ![head] = FALSE, ![tail] = TRUE]
    /\ head' = Succ(head)
    /\ tail' = Succ(tail)
    /\ UNCHANGED count

Next == \/ Reset
        \/ Flush
        \/ DequeueOnly
        \/ \E e \in Entry : EnqueueOnly(e) \/ DequeueEnqueue(e)

Spec == Init /\ [][Next]_vars

----------------------------------------------------------------------------
(* Correctness *)

\* The slot k places after slot h, and how many places after slot h slot i is:
\* inverse to each other.
Nth(h, k) == IF h + k < DEPTH THEN h + k ELSE h + k - DEPTH
Age(h, i) == IF i >= h THEN i - h ELSE i - h + DEPTH

\* Every register has a value it can hold.
TypeOK == /\ slot \in [Slots -> Entry \cup {NoEntry}]
          /\ valid \in [Slots -> BOOLEAN]
          /\ head \in Slots
          /\ tail \in Slots
          /\ count \in 0 .. DEPTH

\* The pointers and the counter describe the same window of slots: the tail is
\* count slots after the head.  With the next invariant this is what the
\* $fatal checks at the end of the module (lines 413-428) look for.
PointersAgree == tail = Nth(head, count)

\* Exactly the slots of that window are marked valid, and each holds a fetched
\* instruction, never the zero payload of reset: what decode or the pair
\* surface is shown as valid was really fetched.
WindowIsValid == \A i \in Slots :
    /\ valid[i] <=> Age(head, i) < count
    /\ valid[i] => slot[i] \in Entry

\* The queue as the line of instructions it stands for.
LineOf == [k \in 1 .. count |-> slot[Nth(head, k - 1)]]

\* The buffer implements the bounded line: nothing is lost, duplicated or
\* reordered by wrapping, by an exchange on a full queue, or by a flush.
Fifo == INSTANCE FetchFifo WITH line <- LineOf
ImplementsFifo == Fifo!FifoSpec

\* The younger half of a pair is the instruction decode is shown next: when the
\* elder of a valid pair leaves, the new head is what the pair surface showed,
\* whether or not a fetch arrives on that edge.
PairYoungerIsNext ==
    [][pair_valid /\ DEPTH > 1 /\ head' = Succ(head) /\ deq_valid'
         => slot'[head'] = pair_younger]_vars

=============================================================================
