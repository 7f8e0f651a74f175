# A verification project for RV32ISim

RV32ISim is a simulator of a 32-bit RISC-V processor (RV32I, some of RV32A,
the CSR instructions and machine-mode traps) with a paged memory management
unit. It is one sequential C++ program, almost all of it in headers. This
directory holds TLA+ modules that model its state machines, the TLC
configurations that check them, and TLAPS proofs about them.

## 1. The system

    main loop -> Riscv32::step -> Controller::noWaitTrap   may an instruction run?
                               -> Controller::step         move the pc, count
                               -> MMU::getPhysicalAddress  fetch
                               -> Bus::load -> Memory::read
                               -> decode -> Instruct
                               -> execute        -> Controller (branch, trap)
                               -> memoryAccess   -> MMU, Bus, CSR, Controller
                               -> writeBack      -> x[32]

| Component | State | Operations | What makes it correct |
|---|---|---|---|
| TLB (`mmu/TLB.hpp`, `mmu/defs.hpp`) | ten slots, the pid they belong to, two statistics | `set`, `flush`, `save`, `find`, `checkPermission` | never stale, never two slots for a page, a saved page is found |
| MMU (`mmu/MMU.hpp`) | two-level tables and a frame list per process, three statistics | `createEntry`, `getPhysicalAddress`, `getFromTables` | frames given once, mappings never change, the same answer on every path |
| CSR bank (`CSR.hpp`) | a map from addresses to words | `read`, `write`, `increment64` | counters exact over both halves, access rules |
| Controller (`Controller.hpp`, `Trap.hpp`) | pc, pending branch, latest trap and its state, the bank | `noWaitTrap`, `step`, `setBranchAddress`, `trapException`, `trapReturn`, `reset` | every instruction is followed by the one it names, every trap is taken once |
| Pipeline (`Riscv32.hpp`, `Instruct.hpp`) | 32 registers, the instruction under way | `step`, `decode`, `writeBack` | the order of a turn, early returns, x0 |
| Instruction classes (`Instruct*.hpp`) | decoded fields, between `execute` and `memoryAccess` | the constructor, `execute`, `memoryAccess` | which traps, branches and writes each makes |
| Memory and Bus (`Memory.hpp`, `Bus.hpp`) | byte buffers with an access status | `read`, `write`, `load`, `store` | what was stored is loaded, nothing is written in ROM |
| main | none of its own | opening the banks, loading the program, the first mapping, the endless loop | the initial state and the fairness of the others |
| Debug, build | none | output | not modelled |

Nothing runs concurrently and nothing survives a run. What is hard here is
*stale state* (a translation kept across a change of process or an eviction),
*pending state* (a branch and a trap that share a mechanism and are acted upon
one or two turns later), *two traps in one instruction* (`execute` raises one,
`memoryAccess` runs all the same and may raise another), *limits* (slots,
frames, the ends of banks, wrapping counts, the carry of 64-bit counters),
*conversions* (an error code through a `uint8_t`, immediates put together from
fields, signed comparisons of unsigned words) and *instructions that do several
things* (an atomic translates, reads, writes memory and writes one or two
registers, and may fail in between). `PROJECT.json` lists these hazards at
their lines.

## 2. The modules

| Module | What it is |
|---|---|
| `TLB.tla` | `checkPermission` and the operations of the TLB as operators on the value of the buffer |
| `MMU.tla` | the state machine of the MMU and its properties; one action per way a call can end |
| `PageMap.tla` | what the MMU promises: a map that only grows, and an answer the map determines |
| `MMUProofs.tla` | proofs about `MMU` |
| `Numbers.tla`, `Sums.tla` | lemmas the proofs share: quotients, remainders and powers of two; sums over finite sets |
| `CSR.tla` | the register bank as operators on its value: access check, 64-bit counters, MSTATUS on entry and return, the trap vector |
| `Controller.tla` | the state machine of the controller, with the stages of `Riscv32::step` that drive it |
| `Flow.tla` | what the controller promises: a control flow with no pending branches and no trap states |
| `ControllerProofs.tla` | proofs about `Controller` |
| `Memory.tla` | words, the banks and the bus as operators on the contents of the banks |
| `Hart.tla` | one step of the simulator with registers, MMU, bus and banks together: fetch, loads, stores, atomics, write back |
| `Machine.tla` | what the hart promises: pages of storage that keep what was written to them |
| `HartProofs.tla` | proofs of the invariant and the action properties of `Hart` |
| `HartRefinement.tla` | the proof that `Hart` implements `Machine` |
| `Rv32i.tla` | the reference for `Instruct`: how an assembler cuts an immediate into fields, and what each instruction means |
| `Instruct.tla` | the constructor and the execution of the instructions that compute |
| `InstructProofs.tla` | proofs about `Instruct` |
| `MCMMU.tla`, `MCController.tla`, `MCHart.tla`, `MCInstruct.tla` | the small sets the configurations give to the constants |

Operators named "Mutated form" in the comments are plausible wrong versions of
the definition after them. No specification uses them; putting one in the place
of the original must make the property it is paired with in `PROJECT.json`
fail, which shows that the property depends on that code.

### MMU and TLB

A call of `createEntry` or `getPhysicalAddress` is one step, since nothing runs
while it does; `reply` is the call and what it returned. `CreateEntry` has the
two ends of `createEntry`; `GetPhysicalAddress` has five: `TlbHit`,
`TlbForbidden`, `WalkHit`, `WalkForbidden` and `PageFault`, the last of which
creates the entry as the code does, with its two ends. Each begins with the
flush of `m_tlb.set` (`Selected`).

A page is the pair of its two table indexes. An offset goes through translation
untouched and is left out, so a "page" stands for its 4096 addresses. `ptes` is
total: the entries of a second-level table that does not exist are those its
allocation would give, and `tables` says which exist, so that `Entries` and
`EntriesAllocated` can say what a second allocation would lose. `mapped[p][j]`
holds the page whose entry the code points to.

`RefinesPageMap` hides the TLB, the tables and the order of allocation: a
TLB hit, a walk and a fault must be the same answer. Error codes are not part
of it; `DocumentedCodes` is about them.

### CSR and Controller

The variable `stage` is the point `Riscv32::step` has reached:

    wait --noWaitTrap true--> advance --step--> fetch --decode--> execute --> memory --> wait
     |                                            |                              |
     +--noWaitTrap false--> wait                  +--illegal--> wait             +--throw--> halt
                                                  +--out of memory--> halt

Every instruction class has its `Execute...` and `Access...` action with the
calls its code can make, the traps an unknown encoding raises in `execute`
before `memoryAccess` runs among them. What decides between them (fields of the
instruction, register values, the answers of MMU and Bus) is left open. The
registers of the bank are told apart by name; those no trap logic reads and
every program may write are left out, and one name stands for each of the
ranges a program may not write.

MSTATUS is the set of its two bits the code looks at, MCAUSE an interrupt bit
and a code. `WordMod` and `CounterMod` stand for 2^32, where addresses and
counter halves wrap.

`RefinesFlow` maps a state to what the program sees: while an instruction is
under way, the state it started in; between instructions, the state with what
the sequencer has yet to do done (`nextBar`, `statusBar`, `mepcBar`, ...). Thus
an instruction takes effect when its turn ends and the turns of the sequencer
are stutters: a lost, doubled or reordered trap, or a branch taken in place of a
handler, is a step `Flow` does not have.

### Memory, bus and hart

A word is a function from the four places of a word to bytes, the least
significant first, as the banks keep it; `Value` and `ToWord` convert to and
from numbers. `ByteMod` stands for 2^8 and `WordMod`, its fourth power, for
2^32. A bank is its start, its size and whether `DEV_RW` was given; its contents
are in `mem`. `BusLoad` and `BusStore` use the first bank that can serve the
whole access, as the loops of `Bus` do.

`Hart` puts together what one instruction touches. For the MMU it uses the
operators of `PageMap` with one process, which is all `main` has: `MMU` is shown
to implement `PageMap`, by a run and by proof. A step is `Fetch` and then one
action for the instruction; which instruction follows is left open, since the
bytes fetched are not decoded here. Every program is among these behaviours,
and what holds of all of them holds of it.

| Action | Code |
|---|---|
| `Init` | `main.cpp`: banks filled with 0xFC, the program loaded, page 0 mapped |
| `Fetch` | `Riscv32::step` up to the load of the instruction, and its throws |
| `Unknown`, `Compute` | `decode` without a class, reset; the classes that use no memory |
| `Load`, `Store` | `InstructILoad`, `InstructS` with `writeBack`; `known` is FALSE where `funct3` is none of theirs, the illegal instruction is reported and the access done all the same |
| `LoadReserved`, `StoreConditional`, `AmoCombine` | the cases of `InstructAtom::memoryAccess` other than the swap that succeed |
| `AmoSwap` | the case of AMOSWAP, which has no `break`: `SwapTried`, and where it has not returned `AddTried`, the case of AMOADD, on the memory and the registers it left |
| `AtomicRefused` | atomics that do not succeed, the operations `memoryAccess` does not carry out included |

`event` names the class of the latest instruction and how it ended, which is
what lets a property say what a refused access may have done; `request` is the address and the width of
the latest fetch or access, `instr` the word fetched.

`Machine` has no frames, no banks and no bus: a page, once touched, has the
rights of the request that touched it and cells of its own, each present or
not, writable or not. `RefinesMachine` maps a page to the cells at its frame's
place in the banks (`spaceBar`). An access is at the address that is in one of
the registers, plus an offset, and `request` tells `Machine` which it is: were
the place open, a load from a wrong one would pass for a load from another
register. The refinement fails if two pages share a frame, a store reaches
another page or another byte, a load or a fetch returns other bytes than those
at its address, in another order or with another sign, an access across the
end of a bank is half done, an aligned access is refused as misaligned, or a
refused access leaves a trace. Only which registers hold the value stored and
take the one loaded is left to the instruction. A fetch that is not aligned
may reach beyond its page; `Machine` then says nothing of what is there.

### Instructions

An instruction of `Instruct` is its operation, the immediate it was written with
and the values it finds. `Decode` is the constructor: the fields `Rv32i` cuts an
immediate into (`HighB`, `LowB`, `MiddleJ`, ...) go through the constructor's
own arithmetic (`ImmediateB`, `ImmediateJ`, ...) into `imm`. The `Execute...`
and `Csr...` actions are `execute`, `memoryAccess` and `writeBack` of a class;
`outcome` is the value for `rd` (the address, for loads and stores), the
address of the next instruction, and the control register afterwards. `Meaning`
of `Rv32i` is what these should be.

The simulator does not implement all of RV32I as specified, so the invariants
say exactly for which instructions it does; each is an equivalence, and a
change of the code in either direction breaks it:

- `OffsetsDecoded`: the immediate comes out of the constructor as it was
  written, but for negative offsets of stores, branches to themselves or more
  than 2048 bytes away, jumps back by more than 4096 bytes, jumps forward with
  bit 10 in their offset, and the count of SRAI, which keeps the bit that tells
  it from SRLI (`execute` removes it).
- `ComparisonsDecided`: signed comparisons are right exactly for words of the
  same sign; SLTIU exactly if its immediate is not negative or any reading of it
  gives the same result.
- `ShiftsDone`: SRA and SRAI are right exactly for words without a sign, or when
  nothing is shifted; the other shifts always are.
- `SwapsRead`: CSRRW and CSRRWI write the right word, and `rd` gets the old one
  if it held something else than zero (or `rd` is x0, or the old one is zero).
  `doc.md` goes by the number of `rd` instead: see the findings.
- `RestDone`: everything else is right, given its immediate, but for bit 0 of
  the target of JALR.

## 3. The runs

| Run | Instance | Shows |
|---|---|---|
| `mmu_processes` | 2 processes, 2 pages, 2 frames, 1 slot, a right with and without the supervisor's, counts mod 2 | no stale translation across switches, frames, stable mappings, refinement |
| `mmu_eviction` | 1 process, 4 pages, 3 frames, 2 slots, counts and statistics mod 2 | coherence, uniqueness and caching through evictions and lack of frames; two tallies of page hits agree |
| `mmu_codes` (violation) | 1 frame, 1 slot | a refusal with an undocumented code |
| `controller_flow` | 4 words, 2 jump targets, a misaligned data address, 2 vectors, 5 causes | pending state, types, refinement of `Flow`, progress of the sequencer |
| `controller_liveness` | 2 words, 1 jump target, 2 causes, counter halves of one bit, fair | traps and returns are delivered; both counters exact through carries and wraps |
| `controller_mtvec`, `controller_access`, `controller_mepc` (violations) | small | see the findings below |
| `hart` | 2 registers, bytes of one bit, 16 addresses in 4 pages of a word, 2 frames; a ROM of a word in frame 0, a RAM of a word in frame 1 | registers and memory under every load, store and atomic; refinement of `Machine` |
| `hart_zero` (violation) | the same banks, both in one page and one frame as in `main` | x0 after an AMOSWAP |
| `instruct` | words of 16 bits; every offset of the formats I, S and B, jumps up to 6000 either way and at the ends of fields, 15 words at the edges as operands | for which instructions the simulator does what the instruction set says |
| `instruct_offsets` (violation) | four stores to a stack frame | a negative offset of a store |

Why the bounds are enough. A TLB slot more than one is needed for duplicates
and for choosing a victim, two are there in `mmu_eviction`, and reference
counts that wrap at 2 reach the ties and the overflow of the victim search at
once. Two pages in one second-level table and two in another cover both orders
of allocation. Two processes cover the switch; a third would behave as the
second. For the controller four words are the smallest space in which vectors,
jumps, fall through, the return of a handler to a misaligned place and the wrap
of the pc are all different. In `hart` two registers are x0 and another, so
that every way two operands can coincide occurs; with four pages for two frames
pages run out, and one frame of each kind of bank makes every page either ROM,
RAM or not to be had. That banks meet inside a page, as they do in `main`,
needs pages of two words: no run has that beside several pages and frames, and
the accesses across the seam are covered by the proofs of `RomKept` and
`RefinesMachine`, which are for every layout of banks. Words of sixteen bits
are the smallest in which immediates of twelve and thirteen bits keep their
size and their sign extension shows.

Everything the passing runs show of these instances is also proved for every
size, but for the two liveness properties.

`hart` identifies states by `x`, `mem`, `map` and `stage` (`StateView`): no
action reads `answer`, `request`, `instr` or `event` before it has assigned
them, and the action properties of that run read them only after the step, or
ask that they stay as they were, so what is left out changes neither the
successors of a state nor what is said of its steps. The types of these four,
which the run sees only once per such class of states, are proved in
`HartProofs`.

Bounds on values: `RefMod`, `StatMod`, `WordMod` and `CounterMod` are the wraps of
`uint32_t`, smaller; `StatMod = 1` and `CounterMod = 1` make a counter
constant where a run is not about it. `ReqPages`, `ReqAccess`, `Targets`,
`DataAddrs`, `Vectors`, `Causes` and `Opcodes` bound what programs do. In `Hart`,
`Fetches`, `Results` and `Offsets` do (the run has only offset 0: registers hold
every word, so every address is reached without it), and `Programs` are the
files that may be loaded; in `Instruct`, `Instructions`.

Fairness. `FairSpec` assumes weak fairness of `Turn`: `main` calls `step` in an
endless loop and every call returns, so a turn that can be taken is. Nothing is
assumed of which instruction comes next. A halted program takes no turn.

### Findings

- `DocumentedCodes`: `getFromTables` puts the result of `checkPermission` in a
  `uint8_t` (`MMU.hpp:148`) and returns 251..254 where its comment promises
  `MMU_FORBIDEN_*`. The simulator only compares with `MMU_OK`, so programs do
  not notice.
- `DirectMode`: `setIntVector` (`Controller.hpp:127`) ignores the mode of MTVEC.
- `OnlyReadOnlyThrows`: `CSR::write` (`CSR.hpp:76`) takes every address from
  0x400 on for read-only.
- `EpcIsPc`: failed loads, misaligned stores and failed atomics save the data's
  address in MEPC (`InstructILoad.hpp:90`), and the return goes there plus 4.
- `ZeroIsZero`: AMOSWAP writes its source register itself
  (`InstructAtom.hpp:196`), and x0 stops being zero if that is the one.
- `ImmediatesKept`: the constructor of a store does not extend the sign of its
  offset (`InstructS.hpp:20`). The other immediates that do not survive their
  constructor are in `OffsetsDecoded`.
- `SwapsRead`: CSRRW and CSRRWI return what the control register held only if
  `rd` held something else than zero (`InstructCSR.hpp:70`, `:76`), where
  `docs/doc.md:43-44` says they do unless `rd` is x0. This one is not a
  counterexample: the property is an equivalence, and `instruct` checks it of
  swaps on both sides.

## 4. What is proved

All theorems are about the specifications themselves, for all values of the
constants that satisfy the assumptions in the modules (`TLBAssumption`,
`MMUAssumption`, `CSRAssumption`, `ControllerAssumption`, `MemoryAssumption`,
`HartAssumption`, `WordAssumption`, `InstructionsAssumption`): sizes and wraps
are positive, `WordMod` is a multiple of four, what programs use is in range,
banks are apart from each other and made of whole words, the frames end before
the addresses do, the width of a word divides 1024, as 32 does (the shifts of
`InstructR` and `InstructIULAI` take five bits of a count that, for SRAI, still
has bit 10 in it: with a width of 13 the remainder would not drop it),
instructions are such as an assembler can write.

The induction theorems of the library take an operator as a parameter, which
the provers cannot instantiate. Where a proof needs induction it takes the
least counterexample instead: a set of naturals that is not empty has a least
member (`LeastNat` of `Numbers`), a set of finite sets one that no element can
be taken from within it (`SmallestSubset` of `Sums`).

`MMUProofs` proves `TypeOK`, `EntriesAllocated`, `TLBCoherent`, `TLBUnique`,
`FramesConsistent`, `GrantedIsCached`, `MappingStable`, `PageHitsReconcile` and
`RefinesPageMap`. Its `IInv` joins these
invariants. None is inductive alone: `TLBCoherent` survives a fault only because
`TLBUnique` and the absence of the page from the buffer (the miss) keep `save`
from adding a second slot; a new second-level table overwrites nothing only by
`EntriesAllocated`; and the uniqueness of frames needs the converse half of
`FramesConsistent`. The refinement needs `TLBCoherent` to give a TLB hit the
answer of the tables, and a lemma that `CheckPermission` and `Permits` agree.
`PageHitsReconcile` equates a counter with a sum over all pages of all
processes. `Sums` shows that such a sum is well defined whatever the order of
its terms and follows a change of one of them (`TotalChange`); the invariant
`HitsInv` adds that an entry that is not valid has counted nothing
(`UnusedUncounted`), without which a new mapping, which resets the counter of
its entry, would lose what was counted there. A walk that hits then moves one
term and the statistic by one, both modulo 2^32 (`RemainderTerm`), and no other
step moves either.

`ControllerProofs` proves `TypeOK`, `PendingExclusive`,
`NoPendingWhileRunning`, `CountersExact`, `RefinesFlow` and `NextInTurn`. Its `IInv` adds
`StartsIdle` (the sequencer is idle when an instruction starts), `FallsThrough`
(`pcPlus4` follows `pc` while an instruction is under way) and
`LeftByExecute`, which ties what may be pending before `memoryAccess` to the
class of the instruction. The last is the key: a load may replace its own trap
but cannot hold a branch, and a branch may hold either but does nothing more.
`CountersExact` rests on a lemma about two-digit numbers to a base
(`SquareBound`, `IncrementCounts`). `NextInTurn` is what liveness takes beside
fairness: `StepsLeft` falls with every step between an instruction and the
next fetch, and what `Flow` sees stands still. That such a step is always
possible, and is taken, is left to `TrapsDelivered` and `ReturnsDelivered`.

`HartProofs` proves `TypeOK`, `RomKept`, `WritesNeedRight`, `RefusedKeepsAll`
and `ZeroLostBySwapOnly`. Its `Inv` adds to `TypeOK` that no page has two
mappings and no frame two pages (`Unshared`). The argument is about the bus: an
access in range lies inside of one bank in spite of the sum that wraps, because
frames end before the addresses do (`InBank`), only one bank can serve it
(`OneServer`), and a store changes the bytes it names and no other
(`StoreDone`). `WritesNeedRight` says that a store writes only through a page
that gives W and an atomic only through one that gives R, which is all it asks
for; it needs that an aligned access stays in its frame (`SpanInPage`).
`SwapEnds` shows that an AMOSWAP ends in one of two ways: all done by its first
try, or nothing done by either.

`HartRefinement` proves `RefinesMachine`. `ServedIff`, `ReadCells` and
`StoreCells` say what the bus does in terms of cells; `FramesApart` that a store
through one page leaves the cells of the others; `Grants` that an answer of the
MMU is a request granted. A read needs only to end in its page, which
is what gives the bytes of a fetch that is not aligned (`Located`,
`PresentRead`); that what is not served is not there needs alignment, since
such a fetch may span two banks that touch. Then there is one lemma per action (`LoadMaps`,
`StoreMaps`, `SwapMaps`, ...) and `StepMaps` joins them.

`InstructProofs` proves `TypeOK`, `OffsetsDecoded`, `ComparisonsDecided`,
`ShiftsDone`, `SwapsRead` and `RestDone` for every program and for words of up
to 32 bits. Its `Inv` says that
the object of a decoded instruction holds what its constructor makes of it; one
lemma per format says what that is, and one per class of instruction what
`execute` makes of the operands. `TypeOK` gives each format its own reach
(`Reach`): twelve bits, extended, for I; not extended for S; for B one less than
that downward, since its arithmetic takes one away; for J one bit too many
forward; a word for U; zero for instructions without an immediate. One lemma
per format (`ReachI`, `ReachS`, `ReachB`, `ReachJ`) shows that no sum of shifted
fields leaves it. `ShiftsDone` rests on powers of two
(`PowerNext`, `PowerSum`): a word shifted by what is left of the count is the
product or the quotient the instruction set names, and the sign the arithmetic
shifts should bring in is missing unless the word has none or stays in place.

Only model-checked: `TrapsDelivered` and `ReturnsDelivered`, since liveness
under fairness, and ENABLED, are beyond the prover. The six violations are
counterexamples, which TLC finds.

## 5. What is not modelled

- `Debug` (formatting) and the build files.
- A program file longer than the ROM, which `loadFile` writes past the end of the
  buffer (`main.cpp:19`): undefined behaviour before the simulation starts.
- Processes other than 0 in the hart: nothing asks for another. In `MMU` there
  are several, but frames are numbered per process (`MMU.hpp:63`), so what two
  processes would do to each other's data is not said. Process identifiers
  outside of `MAX_PROC` have no caller.
- `setRW`, which nothing calls, and `DEV_CHANGED` and the `changed` bits, which
  nothing reads or sets; accesses of eight bytes, which no instruction makes.
- Widths an unknown `funct3` leaves uninitialised that are none of 1, 2 and 4.
- Encodings the instruction set does not define (shifts by 32 and more).
- One composition of `Hart`, `Controller` and `Instruct` that runs the program in
  memory: the modules meet at the class of the instruction, which each of them
  leaves open, and not at its bytes.
