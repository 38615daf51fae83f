# HelloCPU in TLA+

HelloCPU is an in-order RV32IM core in Verilog (`src/vsrc/`), with a fetch queue
between fetch and decode, table-driven branch prediction, instruction and data
caches behind one AXI master, and a coprocessor port for a small vector unit. This
directory holds TLA+ modules that model its control, TLC configurations that
check them on small instances, and TLAPS proofs for every value of the constants.

The Verilog is the reference. A step of every model is one clock edge: each
register takes its next value from the wires of the cycle that ends, and wires
decided elsewhere (a cache hit, a memory answer, a branch outcome) are chosen
by `\E`. `PROJECT.json` maps each definition to the lines it stands for.

## 1. Inventory

| Component | State it keeps | Operations | Talks to |
|---|---|---|---|
| Fetch unit, `cpu/ifu/ifu.v` | `pc_next` | redirect from execute, redirect from write-back, accepted fetch | icache, BTB, RAS, queue |
| Branch tables, `btb.v`, `ras.v` | tags, targets, 2-bit counters, loop entries; return stack | look-up, train, push, pop | fetch unit, execute |
| Instruction cache, `icache.v` | lines, tags, valid bits, replacement bits, refill state | hit, refill burst, fence.i | fetch unit, Xbar |
| Fetch queue, `ifu_fetch_queue.v` | two slots of payload, valid bits, head, tail, counter | enqueue, dequeue, both, flush, reset, pair surface | fetch, decode |
| Decode, `idu.v`, `idu_exu_regs.v` | decode/execute register | decode, capture, hold, flush | queue, registers, execute |
| Registers and CSRs, `Registers/*.v` | 32 registers; mstatus, mepc, mtvec, vl, vtype | read with forwarding, write, ecall, mret, vector commit | decode, execute, write-back |
| Execute, `exu.v`, `exu_wbu_regs.v` | kill bookkeeping; execute/write-back register | issue, stall, complete, mispredict | all units |
| Arithmetic, `alu.v`, `multiplier.v`, `divider.v` | iteration state of the divider | start, iterate, finish | execute |
| Load/store unit and D-cache, `lsu.v` | 16-state machine, line buffer, tags, dirty bits | load, store, refill, write-back, uncached access | execute, memory service, Xbar |
| Write-back, `wbu.v` | trap redirect register | write a register, raise `pc_update` | registers, fetch |
| Coprocessor port, `idu_cop_regs.v`, `cop_backend.v` | one request, its response | issue, respond, commit, kill | execute, write-back |
| Vector unit, `dummy_coprocessor.v`, `vector_*.v` | vector registers, length, type, scratch, counter; walk over lanes | arithmetic, state, load, store, flush | coprocessor port, memory service, CSRs |
| Memory service, `hcpu_memory_service*.v` | request slot, 4-state machine, kill flag | accept, launch, wait, show, kill | vector unit, load/store unit's AXI port |
| Interconnect, `Xbar.v`, `Clint.v` | grant of the AXI master; timer | arbitrate, route | caches, memory |
| Second lane, `decode_pair_policy.v`, `lane1_issue_scoreboard.v`, `hcpu.v` 1267-2347 | shadow, endpoint, bundle, handoff, dispatch, live bit | screen a pair, hand it on, flush | queue (reads only) |
| Top level, `hcpu.v` | registered flush, mispredict latch | stalls, flushes, redirects, kills | everything |
| Commit visibility, `commit_visible_ctrl.v` | observation registers | what a commit or a flush shows | top level, read only |
| Testbenches, `sim/*_tb.cpp` | a script, or an observer beside the core | drive, tick, compare | one unit, or the core |
| Simulation, `sim/`; software, `sw/`, `tools/` | - | RAM, differential run, programs | drives the core |

What is hard here, and what would be correct:

- **Many registers decide one edge separately.** A flush, a fetch and a capture can
  meet on an edge, and the queue, the decode register, the fetch counter and the
  write-back register each choose a winner. Correct: they choose as one, so the
  front end holds one predicted path and nothing is lost or duplicated.
- **Redirects overlap.** A trap is recognised two edges after it leaves execute, so
  two younger instructions go through execute in its shadow, where they can
  redirect, start units, write the cache or enter the coprocessor. Correct: none
  of it shows.
- **Units outlive their instructions.** Divider and load/store unit have no flush.
  Correct: a completion goes to the instruction that started it.
- **Two masters share one port** without an arbiter, on the understanding that
  execute holds one instruction. Correct: at most one request in flight, and the
  response goes to its owner, also after a kill.
- **A pair is judged twice**, at the queue and registers later, by logic written
  apart. Correct: both say the same, and only independent pairs become live.
- **Values overtake each other.** An operand may be in execute, in write-back or in the
  file, and CSRs are not forwarded at all. Correct: an instruction works on the latest
  value, of a CSR as long as software keeps the distance the hardware needs.
- **A stack that forgets.** The return stack drops calls when it is full and cannot know
  how many. Correct: what it holds are returns still to come, in their order.
- **Numbers at their edges.** Division by zero and the most negative number leave the
  iteration by paths of their own. Correct: every result is the one RISC-V defines.
- **State lands at different times.** A vector register is written on accept, length
  and type two edges later, their copy in the CSRs at commit. Correct: each
  instruction sees all of what was executed before it.
- **Buffers at their limits.** A full queue accepts on the edge that empties a slot.
- **Everything waits on ready signals.** Correct: instructions keep retiring.

`PROJECT.json` lists the hazards line by line with the properties that watch them,
for those without one, why, and which part of a hazard its properties leave out.

## 2. Modules

| Module | Models | State ↔ code |
|---|---|---|
| `FetchFifo` | abstract: a bounded line | - |
| `FetchQueue` | `ifu_fetch_queue.v` | `slot` = the payload arrays as one, `valid` = `valid_q`, `head`, `tail`, `count` |
| `FetchQueueProofs` | theorems about `FetchQueue` | - |
| `PairRules` | the judgement of two instructions: `ifu_fetch_queue.v` 30-106 and 306-330, `decode_pair_policy.v`, `lane1_issue_scoreboard.v` | no state: operators |
| `PairLane` | `FetchQueue` with the screens and the pair registers behind it | registers by name; a pair is its two instructions with their pcs, a screen its set of reasons and its orders |
| `PairLaneProofs` | theorems about `PairLane` | - |
| `SlotOneBench` | `top_slot1_observability_tb.cpp` and `top_fetch_queue_flush_tb.cpp` as observers of `PairLane` | `fail`, `flush_fail` = the surfaces a bench has complained about |
| `UnitBenches` | ten directed testbenches of single units, and the units `idu_cop_regs.v`, `exu_wbu_regs.v`, `ifu_idu_regs.v`, `commit_visible_ctrl.v`, the result wires of `exu.v`, `cop_backend.v` with `dummy_coprocessor.v` as the scripts see them | `bench` = the script, `at` its step, `dut` = the unit's registers, `missed` = steps that failed |
| `TestBenches` | composition of the two | - |
| `RegisterFlow` | `RegisterFile.v`, `Csrs.v`, and the stages values cross | `id`, `ex`, `cop`, `wb` = the stages with values; `regfile`, `csr`; `soft`, `softCsr` = what software expects; `spaced` = software's side of the CSR contract |
| `MulDiv` | `multiplier.v`, `divider.v`, `exu.v` 161-189 | registers by name; `stage` = what execute holds |
| `ReturnStack` | `ras.v`, `exu.v` 470-476 | `stack`, `wr_ptr`; `calls` = what the program has open |
| `Machines` | composition: a behaviour runs one machine, chosen in the initial state by `bench` | - |
| `MachinesProofs` | theorems about `RegisterFlow`, `ReturnStack`, `MulDiv` and the benches of the top level | - |
| `InOrderCore` | abstract: one instruction at a time | - |
| `Core` | the pipeline as wired in `hcpu.v` | `pc_next`; `line` = the queue through `FetchFifo`; `ex` = decode/execute register; `lsu`, `div` = owner of a busy unit; `cop` = request in `idu_cop_regs`/`cop_backend`; `wb` = execute/write-back register; `pc_update`, `flush_r`, `mispredict_latched` = the registers of those names |
| `CoreProofs` | theorems about `Core`, on every program and on quiet ones, the refinement among them | - |
| `VectorWalk` | abstract: the lanes of one vector access | - |
| `MemoryService` | `hcpu_memory_service.v`, its slot and its multiplexer | `cop_mem_state` = states 0..3 as "idle", "launch", "wait", "done"; `slot`; the flags by name |
| `VectorMemory` | `MemoryService` composed with the vector unit's walk, the load/store unit's channels and memory | `walk` = `mem_active`, `mem_lane`, `mem_load_data`; `execute` = what execute holds |
| `VectorMemoryProofs` | theorems about `VectorMemory` | - |
| `VectorArch` | abstract: vector instructions one after another, element by element | - |
| `VectorUnit` | `idu_cop_regs.v`, `cop_backend.v`, `dummy_coprocessor.v` without the walk, vl and vtype of `Csrs.v` | registers by name; `entry` = the request register; `pending` = the `pending_*` registers; `mirror` = vl and vtype of the CSRs |
| `VectorUnitProofs` | theorems about `VectorUnit` | - |
| `DataMemory` | abstract: a memory without a cache, one access at a time | - |
| `DataCache` | `lsu.v` with memory behind its AXI port | registers by name; `state` without the `S_`; `lat` = the `lat_*` registers; `cache[index][way]` = one entry of `cache_data`, `cache_tag`, `cache_valid`, `cache_dirty`; `wb` = `wb_addr_lat`, `wb_way_lat`, `wb_cnt`; `rready` = `refill_rready` or `axi_rready`, of which one is in use at a time |
| `DataCacheProofs` | theorems about `DataCache` | - |
| `PseudoLru` | the replacement tree of a set, alike in `lsu.v` and `icache.v` | `Tree` = `plru_bits`, `plru` |
| `ICache` | `icache.v` | registers by name; `lines[index][way]` = one entry of `data`, `tag`, `valid` |
| `Xbar` | `Xbar.v`, the timer's answer | `grant` = the arbiter's state by owner |
| `FetchPath` | `ICache` and `Xbar` composed with the fetch unit's address, the data port's transactions and memory | `addr` = `pc_next`; `job` = a transaction of `lsu.v`, which takes an answer the cycle after it shows; the memory service's, ready all through its wait, are in `VectorMemory` |
| `FetchPathProofs` | theorems about `FetchPath` and `PseudoLru` | - |
| `MC*` | small instances for TLC | - |

`Core` uses the abstract line, not the buffer: `FetchQueueProofs!Refinement` is what
allows it. `VectorMemory` lets execute hold one instruction at a time: `Core`'s
`CopIsAlone` is what allows that (`CoreProofs!CopIsAlwaysAlone`). `DataCache` lets a load or store stay in execute until it
is done: `Core`'s `FlushMeetsEmptyExecute` is what allows that. The states
`S_CACHE_HIT` and `S_STORE_HIT` of `lsu.v` are left out: nothing enters them. `Core` cuts both units' contents: any load,
store or division completes when it likes, any branch goes either way, and any
prediction is made that the tables could hold for the instruction's kind (ifu.v
37-64). Instructions are an op and one target; a result is the address of the
instruction it was computed for, so a result in the wrong hands is seen.

The operators whose names contain an underscore and a capital (`enq_ready_Always`)
are deliberate mistakes. Each property is shown to notice one of them.

`Machines` composes machines that share no wires: it exists so that one run can ask about all
of them, and `bench` keeps all but one at rest. Its behaviours are those of
its parts, one after another and never beside each other.

## 3. Runs

| Run | Bounds | Shows |
|---|---|---|
| `fetch_queue`, the front end | the code's 2 slots, 5 instructions over 2 registers | `PointersAgree`, `WindowIsValid` (with the types: the `$fatal` checks of the source), `ImplementsFifo`, `PairYoungerIsNext`; of the lane `LaneOneIsSafe`, `ScreensAgree`, `AllowedMeansIndependent`, `FlushIsABarrier`; `MachinesTypeOK` |
| ... the testbenches | their own scripts, every power-up state; the top-level ones on any program | `BenchesPass`: no bench complains |
| ... the single machines | words of 3 bits, all operands; registers 0..2 over one bit; a stack of 2 under 5 nested calls | `ResultsAreArchitectural`, `OperandsAreLatest`, `CsrReadsAreLatest`, `ReturnIsPredicted`, `EntriesAreOpenCalls` |
| `core_quiet` | 4 addresses, 2 slots, families of programs `MCQuiet` | `UnitsServeTheirOwner`, `CopIsAlone`, `OldestIsNext`, and the refinement `ImplementsInOrderCore` |
| `core_any` | 3 addresses, every program over 7 instructions, with fairness | `FrontEndIsOnePath`, `FlushMeetsEmptyExecute`, `KillMeetsNoRequest`, `KeepsRetiring` |
| `vector_memory` | 2 base addresses, 3 lanes, 2 kills, with fairness | `OneOwnerInFlight`, `SlotTellsMemory`, `LanesAreItsOwn`, `ImplementsVectorWalk`, `VectorAccessEnds` |
| `vector_unit` | 2 lanes of 2 bits, 2 registers, 16 instructions, the counter modulo 2, kills until the instruction has left something, with fairness | `OneRequest`, `ImplementsVectorArch`, `RequestEnds` |
| `data_cache` | one set of the code's 4 ways, 5 blocks of 2 words, 2 of them stored to, an uncached word | `OneWayHits`, `CleanLinesMatchMemory`, `VictimIsSaved`, `ImplementsDataMemory` |
| `fetch_path` | one set of the code's 4 ways, 2 blocks of 2 words, a stored word, 2 transactions back to back, with fairness | `ResponsesReachOwner`, `FetchIsFresh`, `FetchGoesOn`, `DataGoesOn` |

Why the bounds are enough. Two slots is the code's depth; with five instructions any
order of the line's content is told apart, each reason against a pair and each order
occurs, and the proofs cover every depth. `BARRIER = 6` is the longest way from a flush
to a live lane 1, so the count of cycles stops where nothing depends on it (the module assumes no less). The payload of
the dispatched pair may be replaced while the live bit stays set; `LaneOneIsSafe` is
about whatever pair is there. Queue and decode stage decode a pair with the same text
(predecode and `idu.v`), so one abstraction stands for both.

A bench of a unit is a fixed script; what is free is the state the unit powers up in, which
Verilator leaves to chance and a run of the bench tries once. The top-level
benches drive one program; as observers they watch every program, with a flush and a
busy back end on any cycle, and must hold their judgement where the bench
would. Three bits of a word have a sign, a middle and a low bit, so that every special case of the
divider, both signs of every operand and remainder, and every iteration is reached with all
operands; the divider's loop and the multiplier do not depend on the width. A stack of two
overflows and drains under five calls, also twice within one nest. Two registers
beside the constant one tell "the same", "another" and "zero" apart; one bit tells a stale value from
a new one.

The core holds at most six instructions at a time (fetch, two in the queue, execute, write-back, and
the redirect), and with three or four addresses that wrap around the program
every instruction meets every other at every distance; `MCQuiet` restricts what
stands at two of the addresses to keep the family at a size TLC finishes. Two lanes of two bits
carry within a lane and, as a word, between them, and a length is less than, equal to and more than
the lanes; the mask bits of both lie in the lowest byte as in the code. Three lanes of an access have a first, a
middle and a last; two kills allow the request after a killed one to be killed too.
Sets of the data cache share no state, so one is checked; one block more than
there are ways makes every way a victim, two dirty ones let a store miss evict a
dirty line, and two words tell the last beat of a burst from the others. The three
blocks that are only read are interchangeable (`SYMMETRY`), and `VIEW` leaves out
registers that are overwritten before they are read again. In `data_cache` memory takes
the address and data of an uncached store together (`SPLIT = FALSE`), as `sim/axi_ram.v`
does; `data_cache_split` drops that.

In the instruction cache two blocks fill a set, because a miss fetches its block twice: on
the edge that brings the last beat the look-up still misses (the valid bit is being
written), so the next edge starts the refill again (`icache.v:264`), into another way. The
second copy costs a burst and a way and changes no answer: both hold the same block,
or the second a newer one, and `FetchIsFresh` allows either. Two transactions back
to back are the shortest chain in which the data port asks again before fetch is granted.
`VIEW` leaves out what an invalid line holds.

Reading a CSR is restricted in `CsrReadsAreLatest`, and that too is a statement about
the code: `spaced` says that no CSR access is in decode while a write of one is in execute or
write-back, and that no trap instruction shows in decode on the cycle of such a write
(`Csrs.v:39` acts on what decode shows, valid or not). The hardware has nothing that
enforces it and the documents do not state it.

`ReturnIsPredicted` is about a return fetched after every earlier call has executed, since
the stack is written from execute (`exu.v:470`). A call (rd = x1) and a return (jalr with rd = x0, rs1 = x1)
exclude each other, so the arm of `ras.v` that pushes and pops at once is never driven; the
fetch unit predicts every jalr with rd = x0 from the stack (`ifu.v:46`), and one through another
register is then corrected by execute.

Programs are restricted in `core_quiet`, and the restriction is a statement about the
code: `QuietBehindTraps` says what must stand behind an ecall or mret for the
pipeline to execute in order. The violation runs show what happens otherwise.

Kills are restricted in `vector_memory` to what the directed tests do (`DrainedKill`): a
kill while a request waits for memory, not on the edge that answers it. The
shipped core is narrower still: `KillMeetsNoRequest` of `Core` shows that no kill ever
meets a request in flight, and only the test build's `tb_cop_kill` makes one.
With `KILLS = "any"` every property but `OneOwnerInFlight` fails: a kill in the cycle between the
bus response and its presentation does not stop the presentation
(`hcpu_memory_service.v:227`, the state-3 branch clears `cop_mem_killed_r` in the next
cycle), and a kill on the edge on which a request enters the slot leaves the slot
taken with the machine idle (`hcpu_memory_service.v:128`).

Kills are restricted in `vector_unit` too, to those that come before the instruction has left something
(`EarlyKill`): while it waits for memory, while its state registers have not landed, at any time if
all it does is count, on the edge on which it commits, and between requests. `VectorArch` has the promise of the documents, that
killed work leaves no vector register, length or type: docs/vector/rvv-standard-decode-p2-review.md:82 and
:158 ("killed COP work 不提交 `vl/vtype`、VRF 或 memory-visible side effect"), docs/vector/rvv-state-p1.md:27,
docs/vector/vrf-design.md:129 ("flush 取消未提交的 VRF 写入"). The code does not keep it for later kills: the vector
register file is written on the edge of the accept (`dummy_coprocessor.v:519`) and on a load's last
lane, two edges or more before the commit, length and type land one edge before the response shows, and
`i_flush` takes back neither. vrf-design.md:203 names the remedy, a write on the edge of completion, which the code does not have.
With `KILLS = "any"` TLC refutes `ImplementsVectorArch` in three states: a write of a vector register
is accepted, killed on the next edge, and stays. The shipped core never gets there: `KillMeetsNoRequest`, again.
An instruction that only counts and is killed on the edge before its response stays counted; the documents say nothing of that.
Lanes of a killed store that memory had accepted stay in memory, in `VectorWalk` as in the code: vector-memory-access.md:96 asks only
that a kill starts no further write.

### Findings

| Run | What the code does |
|---|---|
| `core_jump_behind_trap` | A mispredicted jump in the second place behind an ecall wins over the trap redirect (`ifu.v:73`); the handler is never entered. |
| `core_cop_behind_trap` | A coprocessor request issued behind an ecall survives the redirect: `cop_kill` lacks the `pc_update_en` term the interface document gives it (`hcpu.v:2371`). |
| `data_cache_split` | If memory takes an uncached store's address before its data, the data is withdrawn and the store never ends (`lsu.v:599`). |
| `vector_mirror` | An ecall or mret in decode takes the CSRs' edge on which a vector instruction commits: the vl and vtype a program reads stay old (`Csrs.v:49`). |
| `core_fence` | fence.i flushes what was fetched behind it and does not move the fetch counter back (`hcpu.v:2380`). |

The first two have one cause, and `QuietBehindTraps` names the rest of it: a division
started behind an ecall goes on and the handler's division would take its result
(`divider.v:160` has no flush), and a store behind an ecall that hits the data cache
is performed although it never retires (`lsu.v:200`).

Observed while modelling `VectorUnit` and modelled as the code has it: a kill after an instruction has left something
takes nothing back, against the documents (above, the restriction of `vector_unit`); vmv.v.x takes the scalar for a whole register in both
element widths; vsetivli takes its length from register rs1.

## 4. Fairness

`Core!Fairness` asks that a clock ticks (`WF(Next)`), that a fetch the queue has
room for is answered in the end, and that a busy unit or coprocessor request is. The
caches, the divider's 32 iterations and the memory service justify the last
three; nothing is assumed about predictions or branch outcomes.
`VectorMemory!FairSpec` asks that again and again memory is ready on every channel
it has something for, which the RAM of the test bench (`sim/axi_ram.v`) is.
`VectorUnit!FairSpec` asks that a clock ticks and that an access to memory ends, which is
`VectorAccessEnds`. `FetchPath!FairSpec` asks the same of memory under both ports, and nothing of fetch or of
the data port: that the arbiter serves both is what its properties show. `CHAIN` bounds how
many transactions the data port makes without an idle cycle; the core justifies a
bound, since after a load, a store or a vector access the next instruction must be fetched.

## 5. Proofs

`FetchQueueProofs` proves, for every `DEPTH >= 1` and every set of entries (assumptions
`DepthAssumption`, `NoEntryAssumption`):

- `TypeCorrect`: types, in particular that the occupancy never passes the depth.
- `QueueInvariant`: the inductive invariant `IInv == TypeOK /\ PointersAgree /\
  WindowIsValid`. None of the last two is inductive alone: which slot a dequeue
  clears and an enqueue sets is known only if head, tail and counter agree, and
  that the tail slot of a queue with room is invalid only if the window is.
  `Age`, the distance of a slot from the head, carries the argument: a
  dequeue lowers every age but the head's by one, the head's becomes the largest.
- `PointersAlwaysAgree`, `WindowAlwaysValid`: its parts, as properties of the specification.
- `Refinement`: `Spec => ImplementsFifo`. The line is read off the buffer (`LineOf`);
  `LineTail` and `LineAppend` say what a dequeue and an enqueue do to it, and an
  exchange on a full queue is the one followed by the other although both touch
  one slot.
- `YoungerComesNext`: on a full queue head and tail are one slot, so an exchange cannot write
  the one the pair surface shows as the younger half.

`CoreProofs` proves, for every program (not only those of the runs), every address space, every
depth of the queue, and whatever stands behind a trap or a fence:

- `TypeCorrect`: types, in particular that the queue never overflows (`LineHasType`) and
  that nothing leaves for write-back without an instruction (`RetiringHasType`).
- `FlushAlwaysMeetsEmptyExecute`, `KillNeverMeetsRequest`, from one inductive invariant,
  `FlushInv`: the flush register is the first cycle of its latch, and with a request in flight
  execute holds its instruction or, after a trap redirect, nothing. The second is what
  keeps a fence.i away from a request; it holds because decode hands on nothing meanwhile.
- `FrontEndIsAlwaysOnePath`: by `PathInv`, the property with execute and the queue taken
  apart. An edge without a flush moves the head and appends a fetch (`EdgeKeepsPath`);
  one with a flush leaves nothing but the fetch counter.

It proves further, for every program with harmless instructions behind its traps
(`QuietBehindTraps`), every address space and depth, and every prediction, stall and order of
completion, the four things `core_quiet` checks: `UnitsAlwaysServeTheirOwner`, `CopIsAlwaysAlone`,
`OldestIsAlwaysNext` and `Refinement`, that `Core` implements `InOrderCore`. They need each
other: `QuietInv` joins the front end's single path and `FlushInv` with

- `StraightEntries`: only what can go elsewhere is predicted to, so what stands behind a trap is
  at the next address;
- `BehindTrap` and `BehindRedirect`: the two cycles of a trap's shadow. In the first,
  execute holds the instruction behind it or will; in the second that or the one after. Both are
  harmless, so no unit and no request is under way when the redirect empties the front end, and
  what software expects next is where it goes.

The assumption `NoneAssumption` of `Core` says that an empty register is told from a full one.

`PairLaneProofs` proves, for every depth and every program, `LaneOneIsAlwaysSafe`,
`ScreensAlwaysAgree`, `AllowedAlwaysMeansIndependent` and `FlushIsAlwaysABarrier`. `LaneInv` adds to them
that a captured pair keeps the screen taken of it, that only independent pairs are dispatched,
and that the queue gains one entry in a cycle, so that a pair needs two cycles after
a flush (`QueueRefills`). `ScreensAlike` is the comparison of the two texts that judge a pair; it
uses that a branch writes no register, which `PairLaneAssumption` states.

`MachinesProofs` proves, for every set of instructions, registers and values,
`OperandsCorrect` and `CsrReadsCorrect`. The invariant says that what software expects differs from the
file only by what write-back holds (`FileFollows`, `CsrFollows`), that a flush meets an empty execute
stage, and that a coprocessor request in flight keeps write-back empty: it cannot take
the edge on which a CSR would be written. It proves further,
for every depth of the return stack and every nesting, `ReturnsPredicted` and `EntriesOpen`. `EntriesAreOpenCalls` is kept by giving the map from places to open calls for each
step: a push extends it, a pop restricts it; that there are never more
entries than open calls is what the pop needs.

Of `MulDiv` it proves `ResultsAlwaysArchitectural`, for words of 32 bits, the code's, and with it
`MulDivInvariant`. The invariant says of a division under way (`Divided`) that the bits of the dividend
that went through are divided: for P = 2^cnt and R = 2^(32 - cnt) the dividend is T * R + L, T = D * Q + rho with rho
below the divisor D and Q below P; the quotient register holds L above Q, and the partial remainder is rho or,
when the last subtraction went below zero, rho - D on 34 bits. `IterationDivides` is the step: whichever
form the remainder has, adding or subtracting D gives one of the two forms again (`NextRemainder`). At the end L is gone and Q, rho
are quotient and remainder of the magnitudes; `TruncatedOf` puts the signs back, and `SpecialResults` does the divisions that need no
iteration. For the multiplier, the product of two words kept modulo two words has the right high word (`HighProduct`), and
the low word does not depend on the signs (`LowProduct`). The width is fixed because the provers know a power of
two only when it is written out: `PowersOfTwo` lists what the argument uses of them, and `WordPowers` checks it for
32, exponent by exponent; nothing else depends on the number.

Of all machines together, `MachinesTyped`, and for every program, depth and register `TopLevelBenchesPass`: the expectations of
`top_slot1_observability_tb.cpp` and `top_fetch_queue_flush_tb.cpp` follow from `LaneInv` and the edge
(`EdgeRound`, `FlushedRound`). `FrontEndInv` is the invariant; that the queue's own bench keeps it needs that its
script offers only instructions (`QueueScriptOffers`, `BenchAssumption`).

`BenchesAlwaysPass` is the whole of `BenchesPass`, at the code's depth 2 of the queue, for every program, every set of
registers the benches' instructions name and every state a unit powers up in. The invariant `UnitBenchInv` says where
each script must have led its unit: from any state the first step, a reset, leads to the first state
of a track (`CommitTrack`, `CopFlushTrack`, ...), every other step along it, and each step sees what it wants (`Runs`).
`CopVtypeRuns` does so tick by tick, two of whose steps wait for an answer (`Waits`). The benches of the policy, the
scoreboard and execute only look, so there every step must hold of whatever the unit holds (`PolicyVerdicts`, `ScoreboardVerdicts`).
The queue is followed on its line of entries, which `FetchQueueProofs` reads off the slots: `QueueMovesLine` and
`QueueShowsLine` say that with two slots the ring moves and shows exactly what that line does, and `QueueLines` are the
lines the seventeen steps go through. The depth is fixed because the script fills the queue with two instructions.

`FetchPathProofs` proves, for every size of the cache, every set of transactions and
every chain length:

- `ResponsesAlwaysReachOwner`: by the inductive invariant `OwnerHasGrant`, which adds to the
  property what a transaction record carries. `GrantOfTheAsker`: a transaction is accepted
  only under a grant, and the grant stays on that edge; `GrantLasts`: until its last
  beat or its write response is taken, none of the conditions that end a grant holds.
- `FetchesAlwaysFresh`: by the inductive invariant `FetchInv` (checked on the run's instance too). `RefillInStep`
  says that memory serves fetch only between the accepted address and the last beat, at the beat the
  cache expects, and that the line of the latched way, invalid until then, has what came so far;
  `LinesAreFresh` and `MemoryIsHeld` say of valid lines and of memory what the property says of
  fetches. That fence.i empties the lines only when no miss is under way is what keeps them.
- `LastUsedIsKept`: the way used last is not the next victim, for both caches.

`VectorUnitProofs` proves, for every set of instructions, every width and whatever is killed,
`OneRequestAlways`: request register, response register and unit speak of one request.
The property is inductive as it stands: which edge may follow which is decided by exactly
these busy bits.
`MirrorAlwaysCurrent` adds where the finding of `vector_mirror` ends: as long as no instruction is killed after it
has left something and no ecall or mret stands in decode, the `vl` and `vtype` a program reads between two requests are the
ones the unit holds. `MirrorInv` says that the copy differs only while an instruction that sets them waits to commit.

`VectorRefinement` is that the unit implements `VectorArch`, at the code's four lanes of eight bits, for every set of
instructions of the shapes `InstructionAssumption` lists, every answer of memory and every kill before the instruction
has left something (`KILLS # "any"`). It has two halves.
What the wires compute for an instruction are the elements the architecture defines
(`BytesAreElements`, `WordIsElement`, `LanesAreElements`): a word put together from lanes is
the sum of its four bytes (`FoldsFour`, for whatever order a sum takes them in), and its digits are those bytes again
(`BytesOfFour`), so a byte the mask keeps is the old one and no lane carries into the next. And the edges perform, land and
commit: `AcceptPerforms` shape by shape, `MemoryPerforms` for the last response of an access,
`CountdownRefines` and `IdleRefines` for the state registers and the response, `KillRefines` for what is dropped, with
`NothingWritten`: what the unit's wires call neither a write nor an access leaves no vector register in the architecture's words. `VectorInv` says in
between that the response register holds the latched result and that only an access of some bytes is in
memory. The widths are fixed because the provers know a power of two only when it is written out, and because
a sum over any number of lanes would need induction. `ModelValueAssumption` says that an empty register is
told from a full one.

`VectorMemoryProofs` proves, for every set of accesses and addresses, every number of lanes and any
number of kills, `OneOwner`, `SlotIsTrue`, `LoadsOwnLanes` and `Refinement`, that the path implements
`VectorWalk`. Each assumes `KILLS # "any"`: no kills, as in the shipped core, or the testbenches' drained ones
(with any kill most of the properties fail, see section 3). The invariant is `PortInv`:

- `Roles`: execute decides who uses the port, so a load/store unit with a channel to drive and a slot in
  use exclude each other;
- `SlotServesWalk`: a request that was not killed is the one of the walk's lane, and an answer is shown
  while the walk is still there;
- `PortInOrder`: what memory has accepted follows from the service's state and the slot's flags, or from the channels
  the load/store unit still drives. This is what makes a killed store harmless: it goes on to its response.
- `WalkInOrder`: the walk has collected as many lanes as it has passed, and memory has done
  one more only while an answer is shown.

`DataCacheProofs` proves, for every number of sets and words, every set of blocks, accesses
and contents of memory, `BlocksAreAlone`, `CleanLinesMayGo`, `VictimsSurvive` and `Refinement`, that the unit with its
cache implements `DataMemory`. The invariant is `CacheInv`; beside types and what each state
drives and waits for (`Serves`, `Reads`, `Writes`) it says

- `Misses`: until the last beat of its refill no way holds the missing block, which is why the line it makes
  valid is the only one (`OneWayHits`);
- `Victims`: the replacement tree is not touched between the miss and the refill, so the victim that was
  latched for the write-back is the one looked up again when the refill is accepted, and it is saved word by word;
- `Fills`: the line being filled has memory's words up to the beat that comes next, and
  memory does not change meanwhile.

The last step of the refinement reads memory through the cache (`DataCache!contents`): a step either leaves
that unchanged or performs the access. `Refinement` and `TogetherIsWhole` assume `~SPLIT`, memory that takes
both halves of an uncached store together; without it `data_cache_split` shows what happens. `DeviceInv`
is the invariant for uncached accesses.
The assumptions `ModelValueAssumption` of both modules say that an empty register is told from a full one.

Only model-checked: `ImplementsVectorArch` at other widths than the code's, and every
liveness property (the prover has no fairness).

## 6. Not modelled

Branch target buffer, direction counters and loop predictor (`btb.v`): `Core` takes any
prediction they could give for the instruction's kind, so that what they hold decides how fast
the core runs and never what it executes. The ALU: one level of logic without state.
The tables of encodings in decode and the wording of traces: no control in them.

mepc and mstatus. ecall and mret change them while decode shows them, whether or not
the instruction is valid or will retire (`Csrs.v:39`, `hcpu.v:783`): one that stalls repeats its effect,
one that is flushed still has it. No text of the repository says what software may rely on
there, so there is nothing to check them against.

Of the vector operations `VectorUnit` has one of each shape; the shifts, whose byte
form takes one amount for all lanes, and the custom operations on scalars are left out.
Strobes, and loads and stores narrower than a word. Of the unused sources `ifu_idu_regs.v` is in
`UnitBenches`, for its testbench; `icache_direct.v` is commented out.

Of the testbenches those of the vector memory path (`cop_mem_*`, `scalar_mem_*`): their units are
`VectorMemory`, with every order of answers where the benches have one. `sim_main.cpp` and its RAM:
loading, tracing and the comparison with a reference simulator. `sw/lib/klib.c`: a C library for the
programs the core runs, sequential and apart from the core's logic. Reading it showed two
things no test of the repository reaches: `__muldi3` never ends when its second factor is the most negative
number, which stays negative and is shifted arithmetically, and `vsnprintf` does not count the digits of a number it prints.

In `FetchPath`: a store to the timer's addresses, for which the arbiter takes a grant that
nothing ends (`Xbar.v:125`) and which no program of the repository makes; the timer's value; and the
data cache in front of the data port, so that a transaction is what reaches memory.
fence.i empties the instruction cache only when it meets it idle (`icache.v:225`), and it does not write
dirty data lines back; `FetchIsFresh` therefore speaks of the last fence.i that met the
cache idle and of what memory held since.

## 7. What is left

1. The branch tables, should a promise about their contents be made (a counter that trains
   toward its branch, a loop entry that knows its count).
2. The testbenches of the vector memory path as scripts against `MemoryService`.
