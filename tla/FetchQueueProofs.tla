-------------------------- MODULE FetchQueueProofs --------------------------
(***************************************************************************)
(* The fetch queue of any depth: its types, its pointers, its valid bits,  *)
(* and that it implements the bounded line of module FetchFifo.            *)
(***************************************************************************)
EXTENDS FetchQueue, SequenceTheorems, TLAPS

\* The inductive invariant: the three state invariants together.  The pointers
\* are needed to know which slot an edge touches, the valid bits to know that
\* what leaves the buffer was fetched.
IInv == TypeOK /\ PointersAgree /\ WindowIsValid

-----------------------------------------------------------------------------
(* Types *)

\* Every edge keeps every register within its values: a full queue accepts a
\* fetch only when its head leaves on that edge.
LEMMA TypeStep == ASSUME TypeOK, [Next]_vars PROVE TypeOK'
<1> USE DepthAssumption DEF TypeOK, Slots
<1>0. \A i \in Slots : Succ(i) \in Slots
  BY DEF Succ
<1>1. CASE Reset
  BY <1>1 DEF Reset
<1>2. CASE Flush
  BY <1>2 DEF Flush
<1>3. CASE DequeueOnly
  BY <1>0, <1>3 DEF DequeueOnly, deq_valid, empty
<1>4. ASSUME NEW e \in Entry, EnqueueOnly(e) PROVE TypeOK'
  <2>1. count < DEPTH
    BY <1>4 DEF EnqueueOnly, enq_ready, full
  <2> QED
    BY <1>0, <1>4, <2>1 DEF EnqueueOnly
<1>5. ASSUME NEW e \in Entry, DequeueEnqueue(e) PROVE TypeOK'
  BY <1>0, <1>5 DEF DequeueEnqueue
<1>6. CASE UNCHANGED vars
  BY <1>6 DEF vars
<1> QED
  BY <1>1, <1>2, <1>3, <1>4, <1>5, <1>6 DEF Next

\* The registers of a running queue always hold values they can hold; the
\* occupancy never passes DEPTH.
THEOREM TypeCorrect == Spec => []TypeOK
<1>1. Init => TypeOK
  BY DepthAssumption DEF Init, TypeOK, Slots
<1> QED
  BY <1>1, TypeStep, PTL DEF Spec

-----------------------------------------------------------------------------
(* Pointers and valid bits *)

\* The pointers and the counter keep describing one window, whichever of the
\* three edges that move them are taken, and in whatever order.
LEMMA PointersStep ==
    ASSUME TypeOK, TypeOK', PointersAgree, [Next]_vars
    PROVE  PointersAgree'
<1> USE DepthAssumption DEF TypeOK, Slots, PointersAgree, Nth
<1>1. CASE Reset
  BY <1>1 DEF Reset
<1>2. CASE Flush
  BY <1>2 DEF Flush
<1>3. CASE DequeueOnly
  BY <1>3 DEF DequeueOnly, Succ
<1>4. ASSUME NEW e \in Entry, EnqueueOnly(e) PROVE PointersAgree'
  BY <1>4 DEF EnqueueOnly, Succ
<1>5. ASSUME NEW e \in Entry, DequeueEnqueue(e) PROVE PointersAgree'
  BY <1>5 DEF DequeueEnqueue, Succ
<1>6. CASE UNCHANGED vars
  BY <1>6 DEF vars
<1> QED
  BY <1>1, <1>2, <1>3, <1>4, <1>5, <1>6 DEF Next

\* How moving the head by one shifts the ages of the slots: every slot but the
\* old head comes one place nearer to leaving, the old head becomes the last.
LEMMA AgeAfterDequeue ==
    ASSUME NEW h \in Slots, NEW i \in Slots
    PROVE  /\ i # h => Age(Succ(h), i) = Age(h, i) - 1 /\ Age(h, i) > 0
           /\ i = h => Age(Succ(h), i) = DEPTH - 1 /\ Age(h, i) = 0
BY DepthAssumption DEF Slots, Succ, Age

\* The age of a slot is at most DEPTH - 1.
LEMMA AgeType ==
    ASSUME NEW h \in Slots, NEW i \in Slots
    PROVE  Age(h, i) \in 0 .. DEPTH - 1
BY DepthAssumption DEF Slots, Age

\* The tail of a queue with a free slot is the slot whose age is the occupancy;
\* the tail of a full queue is its head.
LEMMA AgeOfTail ==
    ASSUME TypeOK, PointersAgree, NEW i \in Slots
    PROVE  /\ count < DEPTH => (i = tail <=> Age(head, i) = count)
           /\ count = DEPTH => tail = head
BY DepthAssumption DEF TypeOK, Slots, PointersAgree, Nth, Age

\* The valid bits keep marking exactly the window, and what they mark was
\* fetched, also when a full queue exchanges its head for a new entry.
LEMMA WindowStep ==
    ASSUME TypeOK, PointersAgree, WindowIsValid, TypeOK', [Next]_vars
    PROVE  WindowIsValid'
<1> DEFINE Right(i) == /\ valid'[i] <=> Age(head', i) < count'
                       /\ valid'[i] => slot'[i] \in Entry
<1> SUFFICES ASSUME NEW i \in Slots PROVE Right(i)
  BY DEF WindowIsValid
<1>0. /\ valid[i] <=> Age(head, i) < count
      /\ valid[i] => slot[i] \in Entry
  BY DEF WindowIsValid
<1>T. /\ DEPTH \in Nat \ {0} /\ count \in 0 .. DEPTH
      /\ head \in Slots /\ head' \in Slots /\ tail \in Slots
      /\ slot \in [Slots -> Entry \cup {NoEntry}]
      /\ valid \in [Slots -> BOOLEAN]
  BY DepthAssumption DEF TypeOK
<1>a. Age(head, i) \in 0 .. DEPTH - 1
  BY <1>T, AgeType
<1>b. Age(head', i) \in 0 .. DEPTH - 1
  BY <1>T, AgeType
<1>1. CASE Reset
  BY <1>1, <1>b DEF Reset
<1>2. CASE Flush
  BY <1>2, <1>b DEF Flush
<1>3. CASE DequeueOnly
  <2>1. head' = Succ(head) /\ count' = count - 1 /\ slot' = slot /\ count > 0
    BY <1>3, <1>T DEF DequeueOnly, deq_valid, empty
  <2>2. valid'[i] = IF i = head THEN FALSE ELSE valid[i]
    BY <1>3, <1>T DEF DequeueOnly
  <2>3. CASE i = head
    BY <1>T, <2>1, <2>2, <2>3, AgeAfterDequeue
  <2>4. CASE i # head
    BY <1>0, <1>T, <1>a, <2>1, <2>2, <2>4, AgeAfterDequeue
  <2> QED
    BY <2>3, <2>4
<1>4. ASSUME NEW e \in Entry, EnqueueOnly(e) PROVE Right(i)
  <2>1. count < DEPTH /\ count' = count + 1 /\ head' = head
    BY <1>4, <1>T DEF EnqueueOnly, enq_ready, full
  <2>2. /\ valid'[i] = IF i = tail THEN TRUE ELSE valid[i]
        /\ slot'[i] = IF i = tail THEN e ELSE slot[i]
    BY <1>4, <1>T DEF EnqueueOnly
  <2>3. i = tail <=> Age(head, i) = count
    BY <2>1, AgeOfTail
  <2> QED
    BY <1>0, <1>T, <1>a, <2>1, <2>2, <2>3
<1>5. ASSUME NEW e \in Entry, DequeueEnqueue(e) PROVE Right(i)
  <2>1. head' = Succ(head) /\ count' = count /\ count > 0
    BY <1>5, <1>T DEF DequeueEnqueue, deq_valid, empty
  <2>2. /\ valid'[i] = IF i = tail THEN TRUE ELSE IF i = head THEN FALSE ELSE valid[i]
        /\ slot'[i] = IF i = tail THEN e ELSE slot[i]
    BY <1>5, <1>T DEF DequeueEnqueue
  <2>3. /\ i # head => Age(head', i) = Age(head, i) - 1 /\ Age(head, i) > 0
        /\ i = head => Age(head', i) = DEPTH - 1 /\ Age(head, i) = 0
    BY <1>T, <2>1, AgeAfterDequeue
  <2>4. CASE count < DEPTH
    <3>1. i = tail <=> Age(head, i) = count
      BY <2>4, AgeOfTail
    <3> QED
      BY <1>0, <1>T, <1>a, <2>1, <2>2, <2>3, <2>4, <3>1
  <2>5. CASE count = DEPTH
    <3>1. tail = head
      BY <2>5, AgeOfTail
    <3> QED
      BY <1>0, <1>T, <1>a, <2>1, <2>2, <2>3, <2>5, <3>1
  <2> QED
    BY <1>T, <2>4, <2>5
<1>6. CASE UNCHANGED vars
  BY <1>0, <1>6 DEF vars
<1> QED
  BY <1>1, <1>2, <1>3, <1>4, <1>5, <1>6 DEF Next

\* The head, the tail, the counter and the valid bits always agree: none of the
\* $fatal checks at the end of ifu_fetch_queue.v can fire.
THEOREM QueueInvariant == Spec => []IInv
<1>1. Init => IInv
  BY DepthAssumption
     DEF Init, IInv, TypeOK, PointersAgree, WindowIsValid, Nth, Age, Slots
<1>2. IInv /\ [Next]_vars => IInv'
  <2> SUFFICES ASSUME IInv, [Next]_vars, TypeOK' PROVE IInv'
    BY TypeStep DEF IInv
  <2> QED
    BY PointersStep, WindowStep DEF IInv
<1> QED
  BY <1>1, <1>2, PTL DEF Spec

\* The three state invariants, one by one.
THEOREM PointersAlwaysAgree == Spec => []PointersAgree
BY QueueInvariant, PTL DEF IInv

THEOREM WindowAlwaysValid == Spec => []WindowIsValid
BY QueueInvariant, PTL DEF IInv

-----------------------------------------------------------------------------
(* The buffer implements the line *)

\* LineOf, for any payload array, head and occupancy.
LineAt(sl, h, c) == [k \in 1 .. c |-> sl[Nth(h, k - 1)]]

\* The places of the window, seen from a slot: moving the head shifts them.
LEMMA NthProperties ==
    ASSUME NEW h \in Slots
    PROVE  /\ \A k \in 0 .. DEPTH - 1 : /\ Nth(h, k) \in Slots
                                       /\ Age(h, Nth(h, k)) = k
           /\ \A k \in 0 .. DEPTH - 1 : Nth(Succ(h), k) = Nth(h, k + 1)
           /\ Succ(h) \in Slots
BY DepthAssumption DEF Slots, Nth, Age, Succ

\* The line a good window stands for is a sequence of fetched entries, as long
\* as the occupancy.
LEMMA LineIsSeq ==
    ASSUME NEW sl, NEW h, NEW c \in Nat,
           \A k \in 1 .. c : sl[Nth(h, k - 1)] \in Entry
    PROVE  /\ LineAt(sl, h, c) \in Seq(Entry)
           /\ Len(LineAt(sl, h, c)) = c
           /\ \A k \in 1 .. c : LineAt(sl, h, c)[k] = sl[Nth(h, k - 1)]
BY DEF LineAt

\* What the invariant says of the line: every place of it holds an entry.
LEMMA WindowHoldsEntries ==
    ASSUME IInv
    PROVE  /\ count \in Nat /\ count <= DEPTH /\ head \in Slots
           /\ \A k \in 1 .. count : slot[Nth(head, k - 1)] \in Entry
<1>1. count \in 0 .. DEPTH /\ head \in Slots /\ DEPTH \in Nat
  BY DepthAssumption DEF IInv, TypeOK
<1>2. ASSUME NEW k \in 1 .. count PROVE slot[Nth(head, k - 1)] \in Entry
  <2>1. k - 1 \in 0 .. DEPTH - 1 /\ k - 1 < count
    BY <1>1
  <2>2. Nth(head, k - 1) \in Slots /\ Age(head, Nth(head, k - 1)) = k - 1
    BY <1>1, <2>1, NthProperties
  <2> QED
    BY <2>1, <2>2 DEF IInv, WindowIsValid
<1> QED
  BY <1>1, <1>2

\* A dequeue takes the first of the line.
LEMMA LineTail ==
    ASSUME NEW sl, NEW h \in Slots, NEW c \in 1 .. DEPTH,
           \A k \in 1 .. c : sl[Nth(h, k - 1)] \in Entry
    PROVE  /\ LineAt(sl, h, c) # << >>
           /\ LineAt(sl, Succ(h), c - 1) = Tail(LineAt(sl, h, c))
           /\ \A k \in 1 .. c - 1 : sl[Nth(Succ(h), k - 1)] \in Entry
<1> DEFINE l == LineAt(sl, h, c)
           m == LineAt(sl, Succ(h), c - 1)
<1>0. c \in Nat /\ c - 1 \in Nat /\ DEPTH \in Nat
  BY DepthAssumption
<1>1. l \in Seq(Entry) /\ Len(l) = c /\ \A k \in 1 .. c : l[k] = sl[Nth(h, k - 1)]
  BY <1>0, LineIsSeq
<1>2. \A k \in 1 .. c - 1 : Nth(Succ(h), k - 1) = Nth(h, k)
  <2> TAKE k \in 1 .. c - 1
  <2>1. k - 1 \in 0 .. DEPTH - 1 /\ (k - 1) + 1 = k
    BY <1>0
  <2> QED
    BY <2>1, NthProperties
<1>3. \A k \in 1 .. c - 1 : sl[Nth(Succ(h), k - 1)] = sl[Nth(h, (k + 1) - 1)]
                          /\ sl[Nth(Succ(h), k - 1)] \in Entry
  <2> TAKE k \in 1 .. c - 1
  <2>1. k + 1 \in 1 .. c /\ (k + 1) - 1 = k
    BY <1>0
  <2> QED
    BY <1>2, <2>1
<1>4. /\ m \in Seq(Entry) /\ Len(m) = c - 1
      /\ \A k \in 1 .. c - 1 : m[k] = sl[Nth(Succ(h), k - 1)]
  <2>1. \A k \in 1 .. c - 1 : sl[Nth(Succ(h), k - 1)] \in Entry
    BY <1>3
  <2> QED
    BY <1>0, <2>1, LineIsSeq, Zenon
<1>5. l # << >>
  BY <1>0, <1>1, EmptySeq
<1>6. /\ Tail(l) \in Seq(Entry) /\ Len(Tail(l)) = c - 1
      /\ \A k \in 1 .. c - 1 : Tail(l)[k] = l[k + 1]
  BY <1>1, <1>5, HeadTailProperties
<1>7. \A k \in 1 .. c - 1 : m[k] = Tail(l)[k]
  <2> TAKE k \in 1 .. c - 1
  <2>1. k + 1 \in 1 .. c
    BY <1>0
  <2> QED
    BY <1>1, <1>3, <1>4, <1>6, <2>1
<1> HIDE DEF l, m
<1>8. m = Tail(l)
  BY <1>4, <1>6, <1>7, SeqEqual
<1> QED
  BY <1>3, <1>5, <1>8 DEF l, m

\* A write to the slot after the window appends to the line; the write of an
\* exchange on a full queue lands on the slot the head just left.
LEMMA LineAppend ==
    ASSUME NEW sl, NEW h \in Slots, NEW c \in 0 .. DEPTH - 1, NEW e \in Entry,
           sl \in [Slots -> Entry \cup {NoEntry}],
           \A k \in 1 .. c : sl[Nth(h, k - 1)] \in Entry
    PROVE  LineAt([sl EXCEPT ![Nth(h, c)] = e], h, c + 1) = Append(LineAt(sl, h, c), e)
<1> DEFINE new == [sl EXCEPT ![Nth(h, c)] = e]
           l == LineAt(sl, h, c)
           m == LineAt(new, h, c + 1)
<1>0. c \in Nat /\ c + 1 \in Nat /\ DEPTH \in Nat
  BY DepthAssumption
<1>1. l \in Seq(Entry) /\ Len(l) = c /\ \A k \in 1 .. c : l[k] = sl[Nth(h, k - 1)]
  BY <1>0, LineIsSeq
<1>2. Nth(h, c) \in Slots /\ Age(h, Nth(h, c)) = c
  BY NthProperties
<1>3. \A k \in 1 .. c : new[Nth(h, k - 1)] = sl[Nth(h, k - 1)]
  <2> TAKE k \in 1 .. c
  <2>1. k - 1 \in 0 .. DEPTH - 1 /\ k - 1 # c
    BY <1>0
  <2>2. Nth(h, k - 1) \in Slots /\ Age(h, Nth(h, k - 1)) = k - 1
    BY <2>1, NthProperties
  <2> QED
    BY <1>2, <2>1, <2>2
<1>4. new[Nth(h, c)] = e
  BY <1>2
<1>5. \A k \in 1 .. c + 1 : new[Nth(h, k - 1)] \in Entry
  <2> TAKE k \in 1 .. c + 1
  <2>1. CASE k = c + 1
    <3>1. k - 1 = c
      BY <1>0, <2>1
    <3> QED
      BY <1>4, <3>1
  <2>2. CASE k # c + 1
    <3>1. k \in 1 .. c
      BY <1>0, <2>2
    <3> QED
      BY <1>3, <3>1
  <2> QED
    BY <2>1, <2>2
<1>6. /\ m \in Seq(Entry) /\ Len(m) = c + 1
      /\ \A k \in 1 .. c + 1 : m[k] = new[Nth(h, k - 1)]
  <2> HIDE DEF new
  <2> QED
    BY <1>0, <1>5, LineIsSeq, Zenon
<1>7. /\ Append(l, e) \in Seq(Entry) /\ Len(Append(l, e)) = c + 1
      /\ \A k \in 1 .. c : Append(l, e)[k] = l[k]
      /\ Append(l, e)[c + 1] = e
  BY <1>1, AppendProperties
<1>8. \A k \in 1 .. c + 1 : m[k] = Append(l, e)[k]
  <2> TAKE k \in 1 .. c + 1
  <2>1. CASE k = c + 1
    <3>1. k - 1 = c
      BY <1>0, <2>1
    <3> QED
      BY <1>4, <1>6, <1>7, <2>1, <3>1
  <2>2. CASE k # c + 1
    <3>1. k \in 1 .. c
      BY <1>0, <2>2
    <3> QED
      BY <1>1, <1>3, <1>6, <1>7, <3>1
  <2> QED
    BY <2>1, <2>2
<1> HIDE DEF l, m
<1>9. m = Append(l, e)
  BY <1>6, <1>7, <1>8, SeqEqual
<1> QED
  BY <1>9 DEF l, m

\* The mapping of the whole state: LineOf is the line of the registers' values,
\* and each edge does to it what its name says.
LEMMA LineAfter ==
    ASSUME IInv
    PROVE  /\ LineOf \in Seq(Entry) /\ Len(LineOf) = count
           /\ Reset \/ Flush => LineOf' = << >>
           /\ DequeueOnly => LineOf # << >> /\ LineOf' = Tail(LineOf)
           /\ \A e \in Entry :
                 /\ EnqueueOnly(e) => count < DEPTH /\ LineOf' = Append(LineOf, e)
                 /\ DequeueEnqueue(e) => LineOf # << >> /\ LineOf' = Append(Tail(LineOf), e)
<1> DEFINE l == LineAt(slot, head, count)
<1>0. /\ LineOf = LineAt(slot, head, count)
      /\ LineOf' = LineAt(slot', head', count')
  BY DEF LineOf, LineAt, Nth
<1>1. /\ count \in Nat /\ count <= DEPTH /\ head \in Slots /\ DEPTH \in Nat
      /\ \A k \in 1 .. count : slot[Nth(head, k - 1)] \in Entry
  BY DepthAssumption, WindowHoldsEntries
<1>2. slot \in [Slots -> Entry \cup {NoEntry}] /\ tail = Nth(head, count)
  BY DEF IInv, TypeOK, PointersAgree
<1>3. /\ l \in Seq(Entry) /\ Len(l) = count
  BY <1>1, LineIsSeq
<1>4. ASSUME count > 0, head' = Succ(head), NEW s, s = count - 1
      PROVE  /\ l # << >>
             /\ LineAt(slot, head', s) = Tail(l)
             /\ \A k \in 1 .. s : slot[Nth(head', k - 1)] \in Entry
  <2>1. count \in 1 .. DEPTH
    BY <1>1, <1>4
  <2>2. /\ l # << >>
        /\ LineAt(slot, Succ(head), count - 1) = Tail(l)
        /\ \A k \in 1 .. count - 1 : slot[Nth(Succ(head), k - 1)] \in Entry
    BY <1>1, <2>1, LineTail, Zenon
  <2> QED
    BY <1>4, <2>2
<1>5. ASSUME Reset \/ Flush PROVE LineOf' = << >>
  BY <1>0, <1>5 DEF Reset, Flush, LineAt
<1>6. ASSUME DequeueOnly PROVE l # << >> /\ LineOf' = Tail(l)
  <2>1. count > 0 /\ head' = Succ(head) /\ count' = count - 1 /\ slot' = slot
    BY <1>1, <1>6 DEF DequeueOnly, deq_valid, empty
  <2> QED
    BY <1>0, <1>4, <2>1
<1>7. ASSUME NEW e \in Entry, EnqueueOnly(e) PROVE count < DEPTH /\ LineOf' = Append(l, e)
  <2>1. /\ count < DEPTH /\ count' = count + 1 /\ head' = head
        /\ slot' = [slot EXCEPT ![Nth(head, count)] = e]
    BY <1>2, <1>7, <1>1 DEF EnqueueOnly, enq_ready, full
  <2>2. count \in 0 .. DEPTH - 1
    BY <1>1, <2>1
  <2>3. LineAt([slot EXCEPT ![Nth(head, count)] = e], head, count + 1) = Append(l, e)
    BY <1>1, <1>2, <2>2, LineAppend, Zenon
  <2> QED
    BY <1>0, <2>1, <2>3
<1>8. ASSUME NEW e \in Entry, DequeueEnqueue(e) PROVE l # << >> /\ LineOf' = Append(Tail(l), e)
  <2> DEFINE s == count - 1
  <2>1. /\ count > 0 /\ count' = count /\ head' = Succ(head)
        /\ slot' = [slot EXCEPT ![Nth(head, count)] = e]
    BY <1>1, <1>2, <1>8 DEF DequeueEnqueue, deq_valid, empty
  <2>2. s \in 0 .. DEPTH - 1 /\ s + 1 = count
    BY <1>1, <2>1
  <2>3. Nth(head, count) = Nth(head', s) /\ head' \in Slots
    BY <1>1, <2>1, <2>2, NthProperties
  <2>4. /\ l # << >>
        /\ LineAt(slot, head', s) = Tail(l)
        /\ \A k \in 1 .. s : slot[Nth(head', k - 1)] \in Entry
    BY <1>4, <2>1
  <2> HIDE DEF s
  <2>5. LineAt([slot EXCEPT ![Nth(head', s)] = e], head', s + 1)
          = Append(LineAt(slot, head', s), e)
    BY <1>2, <2>2, <2>3, <2>4, LineAppend, Zenon
  <2> QED
    BY <1>0, <2>1, <2>2, <2>3, <2>4, <2>5
<1> HIDE DEF l
<1>9. l = LineOf
  BY <1>0 DEF l
<1> QED
  BY <1>3, <1>5, <1>6, <1>7, <1>8, <1>9

\* So every edge is a step of the line, or leaves it alone.
LEMMA StepImplementsFifo ==
    ASSUME IInv, [Next]_vars
    PROVE  [Fifo!FifoNext]_LineOf
<1>1. CASE Reset \/ Flush
  BY <1>1, LineAfter DEF Fifo!FifoNext, Fifo!Discard
<1>2. CASE DequeueOnly
  BY <1>2, LineAfter DEF Fifo!FifoNext, Fifo!Take
<1>3. ASSUME NEW e \in Entry, EnqueueOnly(e) PROVE Fifo!FifoNext
  BY <1>3, LineAfter DEF Fifo!FifoNext, Fifo!Accept
<1>4. ASSUME NEW e \in Entry, DequeueEnqueue(e) PROVE Fifo!FifoNext
  BY <1>4, LineAfter DEF Fifo!FifoNext, Fifo!TakeAndAccept
<1>5. CASE UNCHANGED vars
  BY <1>5 DEF vars, LineOf, Nth
<1> QED
  BY <1>1, <1>2, <1>3, <1>4, <1>5 DEF Next

\* For any depth the circular buffer is a first-in first-out line: wrapping, the
\* exchange on a full queue and the flush lose, repeat and reorder nothing.
THEOREM Refinement == Spec => ImplementsFifo
<1>1. Init => Fifo!FifoInit
  BY DEF Init, Fifo!FifoInit, LineOf
<1>2. IInv /\ [Next]_vars => [Fifo!FifoNext]_LineOf
  BY StepImplementsFifo
<1> QED
  BY <1>1, <1>2, QueueInvariant, PTL DEF Spec, ImplementsFifo, Fifo!FifoSpec

-----------------------------------------------------------------------------
(* The pair surface *)

\* An exchange on a full queue writes the slot that leaves, never the one that
\* the pair surface showed as the younger half.
LEMMA YoungerStep ==
    ASSUME IInv, [Next]_vars, vars' # vars,
           pair_valid, DEPTH > 1, head' = Succ(head), deq_valid'
    PROVE  slot'[head'] = pair_younger
<1>1. /\ DEPTH \in Nat /\ head \in Slots /\ tail = head /\ Succ(head) \in Slots
      /\ Succ(head) # head /\ slot \in [Slots -> Entry \cup {NoEntry}]
  BY DepthAssumption DEF IInv, TypeOK, PointersAgree, Nth, Slots, Succ, pair_valid
<1>2. CASE Reset \/ Flush
  BY <1>2 DEF Reset, Flush, deq_valid, empty
<1>3. CASE DequeueOnly
  BY <1>3 DEF DequeueOnly, pair_younger
<1>4. ASSUME NEW e \in Entry, EnqueueOnly(e)
      PROVE  FALSE
  BY <1>1, <1>4 DEF EnqueueOnly
<1>5. ASSUME NEW e \in Entry, DequeueEnqueue(e)
      PROVE  slot'[head'] = pair_younger
  BY <1>1, <1>5 DEF DequeueEnqueue, pair_younger
<1> QED BY <1>2, <1>3, <1>4, <1>5 DEF Next

\* For any depth, what decode is shown after the elder of a pair has left is the
\* younger that the pair surface showed beside it.
THEOREM YoungerComesNext == Spec => PairYoungerIsNext
<1>1. IInv /\ [Next]_vars =>
         [pair_valid /\ DEPTH > 1 /\ head' = Succ(head) /\ deq_valid'
            => slot'[head'] = pair_younger]_vars
  BY YoungerStep
<1> QED
  BY <1>1, QueueInvariant, PTL DEF Spec, PairYoungerIsNext
=============================================================================
