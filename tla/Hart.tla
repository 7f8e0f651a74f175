-------------------------------- MODULE Hart --------------------------------
(***************************************************************************)
(* One step of include/Riscv32.hpp with the parts it brings together: the  *)
(* registers, the memory management unit, the bus and its banks, and the   *)
(* instructions that compute, load, store or do both at once.              *)
(*                                                                         *)
(* The MMU is what PageMap says of it, which MMU.tla implements.  What     *)
(* Controller.tla and Instruct.tla model is left open here: the address of *)
(* a fetch is any of Fetches, the instruction it brings is any there is,   *)
(* a decoded immediate is any of Offsets, and a computed word is any of    *)
(* Results.                                                                *)
(***************************************************************************)
EXTENDS Memory

CONSTANTS
  PageSize,     \* PGSIZE
  NumPages,     \* the pages of the address space
  MaxPte,       \* the frames of a process
  NumRegs,      \* 32
  Offsets,      \* the immediates of loads and stores
  Fetches,      \* the values of pc
  Results,      \* the words an instruction that uses no memory may write back
  InitVal,      \* 0xFC
  Programs      \* the files main may load, each as its bytes from 0 on

ASSUME HartAssumption ==
  /\ PageSize \in Nat \ {0} /\ PageSize % 4 = 0
  /\ NumPages \in Nat \ {0} /\ WordMod = NumPages * PageSize
  /\ MaxPte \in Nat \ {0} /\ MaxPte * PageSize + 4 <= WordMod
  /\ NumRegs \in Nat \ {0}
  /\ Offsets \subseteq Int
  /\ Fetches \subseteq Addrs
  /\ Results \subseteq Word
  /\ InitVal \in Bytes
  /\ \A f \in Programs : \E n \in 0 .. Banks[1].size : f \in [0 .. n - 1 -> Bytes]

Regs == 0 .. NumRegs - 1
PageNumbers == 0 .. NumPages - 1
Frames == 0 .. MaxPte - 1

\* What main maps the first page with, and what the stages ask for.
MainAccess == {"X", "R", "W", "S"}
FetchAccess == {"X", "S"}
LoadAccess == {"R", "S"}
StoreAccessRead == {"R", "S"}   \* mutated form: the mask of a load
StoreAccess == {"W", "S"}
AtomicAccess == {"R", "S"}
Accesses == {MainAccess, FetchAccess, LoadAccess, StoreAccess, AtomicAccess}

VARIABLES
  x,          \* the integer registers
  mem,        \* the contents of the banks
  map,        \* the mappings the MMU has made
  answer,     \* its latest answer
  request,    \* the address and the width of the latest fetch or access
  instr,      \* the word the latest fetch brought
  stage,      \* what the step does next; "halt" once it has thrown
  event       \* the class of the latest instruction and how it ended

vars == <<x, mem, map, answer, request, instr, stage, event>>

PM == INSTANCE PageMap WITH Procs <- {0}, Pages <- PageNumbers

-----------------------------------------------------------------------------
(* main: every bank is filled with initval, loadFile overwrites the start  *)
(* of the first, and createEntry maps the first page.                      *)

Loaded(file) ==
  [k \in BankIds |-> [o \in 0 .. Banks[k].size - 1 |->
     IF k = 1 /\ o \in DOMAIN file THEN file[o] ELSE InitVal]]

Init ==
  /\ x = [r \in Regs |-> Zero]
  /\ mem \in {Loaded(file) : file \in Programs}
  /\ map = {[pid |-> 0, page |-> 0, frame |-> 0, protection |-> MainAccess]}
  /\ answer = [call |-> "createEntry", pid |-> 0, page |-> 0, access |-> MainAccess,
               granted |-> TRUE, frame |-> 0]
  /\ request = [address |-> 0, size |-> FullWord]
  /\ instr = Zero
  /\ stage = "fetch"
  /\ event = [class |-> "none", result |-> "done"]

-----------------------------------------------------------------------------
(* What the stages of a step share.                                        *)

PageOf(address) == address \div PageSize

\* Every request is made for process 0; a page not mapped is mapped by it.
Translate(address, access) ==
  \/ PM!Use(0, PageOf(address), access)
  \/ PM!Map("getPhysicalAddress", 0, PageOf(address), access)
  \/ PM!Exhausted("getPhysicalAddress", 0, PageOf(address), access)

\* The physical address of the answer just given.
Physical(address) == answer'.frame * PageSize + (address % PageSize)

Readable(address, size) == answer'.granted /\ Readers(Physical(address), size) # {}
Writable(address, size) == answer'.granted /\ Writers(Physical(address), size) # {}
Loaded4(address) == BusLoad(mem, Physical(address), FullWord, TRUE)

\* Mutated form: x0 is written as the others are.
WriteBackAll(regs, rd, value) == [regs EXCEPT ![rd] = value]

WriteBack(regs, rd, value) == [regs EXCEPT ![rd] = IF rd = 0 THEN Zero ELSE value]

Requested(address, size) == request' = [address |-> address, size |-> size]
Ended(class, result) == event' = [class |-> class, result |-> result]

\* The address a load or a store computes is a uint32_t.
Effective(rs1, offset) == (Value(x[rs1]) + offset) % WordMod

Misaligned(address, size) == address % size # 0

-----------------------------------------------------------------------------
(* Fetch and decode.                                                       *)

Fetch(pc) ==
  /\ stage = "fetch"
  /\ Requested(pc, FullWord)
  /\ Translate(pc, FetchAccess)
  /\ \/ /\ Readable(pc, FullWord)
        /\ instr' = Loaded4(pc)
        /\ stage' = "execute"
        /\ Ended("fetch", "done")
     \/ /\ ~Readable(pc, FullWord)
        /\ stage' = "halt"
        /\ Ended("fetch", "outside")
        /\ UNCHANGED instr
  /\ UNCHANGED <<x, mem>>

\* The end of a step.
Retire == stage = "execute" /\ stage' = "fetch" /\ UNCHANGED instr

\* decode knows no such opcode, or the reset signal is up.
Unknown ==
  /\ Retire
  /\ Ended("unknown", "IllegalInstruction") \/ Ended("unknown", "done")
  /\ UNCHANGED <<x, mem, map, answer, request>>

\* Arithmetic, jumps and the CSR instructions write a register; branches and
\* the system instructions write none.  A CSR instruction of no known kind
\* writes a zero and traps.
Compute ==
  /\ Retire
  /\ \/ Ended("compute", "done") /\ UNCHANGED x
     \/ \E rd \in Regs, value \in Results :
          Ended("compute", "done") /\ x' = WriteBack(x, rd, value)
     \/ \E rd \in Regs :
          Ended("compute", "IllegalInstruction") /\ x' = WriteBack(x, rd, Zero)
     \/ Ended("compute", "IllegalInstruction") /\ UNCHANGED x
  /\ UNCHANGED <<mem, map, answer, request>>

-----------------------------------------------------------------------------
(* Loads and stores.  When funct3 is none of theirs, execute reports an    *)
(* illegal instruction and leaves the width as it was allocated, and       *)
(* memoryAccess goes on with it: known is FALSE and size any width.        *)

\* LB, LH, LBU and LHU, and LW, which has no sign to extend.
LoadKinds == [width : {Byte, HalfWord}, valSigned : BOOLEAN]
             \cup {[width |-> FullWord, valSigned |-> FALSE]}

Outcome(known) == IF known THEN "done" ELSE "IllegalInstruction"

Load(rs1, offset, rd, size, signedVal, known) ==
  LET address == Effective(rs1, offset)
      class   == IF signedVal THEN "loadSigned" ELSE "load"
  IN /\ Retire
     /\ Requested(address, size)
     /\ \/ /\ Misaligned(address, size)
           /\ Ended(class, "LoadAddressMisaligned")
           /\ UNCHANGED <<x, map, answer>>
        \/ /\ ~Misaligned(address, size)
           /\ Translate(address, LoadAccess)
           /\ \/ /\ Readable(address, size)
                 /\ x' = WriteBack(x, rd, BusLoad(mem, Physical(address), size, signedVal))
                 /\ Ended(class, Outcome(known))
              \/ /\ ~Readable(address, size)
                 /\ Ended(class, "LoadAccessFault")
                 /\ UNCHANGED x
     /\ UNCHANGED mem

Store(rs1, offset, rs2, size, known) ==
  LET address == Effective(rs1, offset)
  IN /\ Retire
     /\ Requested(address, size)
     /\ \/ /\ Misaligned(address, size)
           /\ Ended("store", "StoreAMOAddressMisaligned")
           /\ UNCHANGED <<mem, map, answer>>
        \/ /\ ~Misaligned(address, size)
           /\ Translate(address, StoreAccess)
           /\ \/ /\ Writable(address, size)
                 /\ mem' = BusStore(mem, Physical(address), size, x[rs2])
                 /\ Ended("store", Outcome(known))
              \/ /\ ~Writable(address, size)
                 /\ Ended("store", "StoreAMOAccessFault")
                 /\ UNCHANGED mem
     /\ UNCHANGED x

-----------------------------------------------------------------------------
(* Atomics.  All of them translate with the right to read.                 *)

Asked(address) ==
  /\ Retire
  /\ Requested(address, FullWord)
  /\ ~Misaligned(address, FullWord)
  /\ Translate(address, AtomicAccess)

Done(address, class) == Asked(address) /\ Ended(class, "done")

LoadReserved(rs1, rd) ==
  LET address == Value(x[rs1])
  IN /\ Done(address, "atomic")
     /\ Readable(address, FullWord)
     /\ x' = WriteBack(x, rd, Loaded4(address))
     /\ UNCHANGED mem

\* There is no reservation: it always succeeds.
StoreConditional(rs1, rs2, rd) ==
  LET address == Value(x[rs1])
  IN /\ Done(address, "atomic")
     /\ Writable(address, FullWord)
     /\ mem' = BusStore(mem, Physical(address), FullWord, x[rs2])
     /\ x' = WriteBack(x, rd, Zero)

Operations == {"AMOADD", "AMOAND", "AMOOR"}

\* Mutated form: the sum is not cut to the width of a register.
CombinedWide(op, old, val) ==
  CASE op = "AMOADD" -> [i \in Places |-> old[i] + val[i]]
    [] op = "AMOAND" -> [i \in Places |-> BitAnd(old[i], val[i])]
    [] op = "AMOOR"  -> [i \in Places |-> BitOr(old[i], val[i])]

Combined(op, old, val) ==
  CASE op = "AMOADD" -> ToWord(Value(old) + Value(val))
    [] op = "AMOAND" -> [i \in Places |-> BitAnd(old[i], val[i])]
    [] op = "AMOOR"  -> [i \in Places |-> BitOr(old[i], val[i])]

AmoCombine(op, rs1, rs2, rd) ==
  LET address == Value(x[rs1])
      old     == Loaded4(address)
  IN /\ Done(address, "atomic")
     /\ Readable(address, FullWord) /\ Writable(address, FullWord)
     /\ mem' = BusStore(mem, Physical(address), FullWord, Combined(op, old, x[rs2]))
     /\ x' = WriteBack(x, rd, old)

\* A case of the switch that reads a word and writes one: whether both calls of
\* the bus were served, and the memory and the registers it leaves.
Tried(served, m, r) == [served |-> served, mem |-> m, x |-> r]
BothServed(address) == Readable(address, FullWord) /\ Writable(address, FullWord)

\* Mutated form: the source register is written before the store is known to
\* have been done.
SwapTriedEager(address, rs2, rd) ==
  LET old   == Loaded4(address)
      early == [x EXCEPT ![rs2] = old]
  IN CASE BothServed(address) -> Tried(TRUE, BusStore(mem, Physical(address), FullWord, x[rs2]),
                                   WriteBack(early, rd, old))
       [] Readable(address, FullWord) /\ ~Writable(address, FullWord) -> Tried(FALSE, mem, early)
       [] OTHER -> Tried(FALSE, mem, x)

\* The source register gets the old word too, by an assignment of its own and
\* ahead of the write back.
SwapTried(address, rs2, rd) ==
  LET old == Loaded4(address)
  IN IF BothServed(address)
       THEN Tried(TRUE, BusStore(mem, Physical(address), FullWord, x[rs2]),
                  WriteBack([x EXCEPT ![rs2] = old], rd, old))
       ELSE Tried(FALSE, mem, x)

\* The case of AMOADD, on what an earlier one has left.
AddTried(left, address, val, rd) ==
  LET old == BusLoad(left.mem, Physical(address), FullWord, TRUE)
  IN IF BothServed(address)
       THEN Tried(TRUE, BusStore(left.mem, Physical(address), FullWord, Combined("AMOADD", old, val)),
                  WriteBack(left.x, rd, old))
       ELSE left

\* Mutated form: the case does not end even where it has done the swap.
SwapThenAdd(address, rs2, rd) == AddTried(SwapTried(address, rs2, rd), address, x[rs2], rd)

\* There is no break after the case of AMOSWAP: where it has not returned, that
\* of AMOADD follows, with the value rs2 had to begin with.
SwapOrAdd(address, rs2, rd) ==
  LET first == SwapTried(address, rs2, rd)
  IN IF first.served THEN first ELSE AddTried(first, address, x[rs2], rd)

AmoSwap(rs1, rs2, rd) ==
  LET address == Value(x[rs1])
      last    == SwapOrAdd(address, rs2, rd)
  IN /\ Asked(address)
     /\ Ended("swap", IF last.served THEN "done" ELSE "LoadAccessFault")
     /\ mem' = last.mem
     /\ x' = last.x

\* No word is there, or none that can be written, or the operation is one of
\* those that memoryAccess does not carry out.
AtomicRefused(rs1, needed) ==
  LET address == Value(x[rs1])
  IN /\ Retire
     /\ Requested(address, FullWord)
     /\ \/ /\ Misaligned(address, FullWord)
           /\ Ended("atomic", "LoadAddressMisaligned")
           /\ UNCHANGED <<map, answer>>
        \/ /\ ~Misaligned(address, FullWord)
           /\ Translate(address, AtomicAccess)
           /\ needed = "read"  => ~Readable(address, FullWord)
           /\ needed = "write" => ~Writable(address, FullWord)
           /\ Ended("atomic", "LoadAccessFault")
     /\ UNCHANGED <<x, mem>>

-----------------------------------------------------------------------------

Next ==
  \/ \E pc \in Fetches : Fetch(pc)
  \/ Unknown
  \/ Compute
  \/ \E rs1, rd \in Regs, offset \in Offsets :
       \/ \E kind \in LoadKinds : Load(rs1, offset, rd, kind.width, kind.valSigned, TRUE)
       \/ \E size \in Widths : Load(rs1, offset, rd, size, FALSE, FALSE)
  \/ \E rs1, rs2 \in Regs, offset \in Offsets, size \in Widths, known \in BOOLEAN :
       Store(rs1, offset, rs2, size, known)
  \/ \E rs1, rd \in Regs : LoadReserved(rs1, rd)
  \/ \E rs1, rs2, rd \in Regs :
       \/ StoreConditional(rs1, rs2, rd)
       \/ AmoSwap(rs1, rs2, rd)
       \/ \E op \in Operations : AmoCombine(op, rs1, rs2, rd)
  \/ \E rs1 \in Regs, needed \in {"read", "write", "unimplemented"} :
       AtomicRefused(rs1, needed)

Spec == Init /\ [][Next]_vars

-----------------------------------------------------------------------------
(* Properties.                                                             *)

Refusals == {"LoadAddressMisaligned", "LoadAccessFault",
             "StoreAMOAddressMisaligned", "StoreAMOAccessFault"}
Mapping == [pid : {0}, page : PageNumbers, frame : Frames, protection : Accesses]

\* Registers hold words and the banks bytes, the MMU maps pages to frames with
\* the rights main and the stages ask for.
TypeOK ==
  /\ x \in [Regs -> Word]
  /\ mem \in MemoryType
  /\ map \subseteq Mapping
  /\ answer \in [call : PM!Calls, pid : {0}, page : PageNumbers, access : Accesses,
                 granted : BOOLEAN, frame : Frames]
  /\ request \in [address : Addrs, size : Widths]
  /\ instr \in Word
  /\ stage \in {"fetch", "execute", "halt"}
  /\ event \in [class : {"none", "fetch", "unknown", "compute", "load", "loadSigned",
                         "store", "atomic", "swap"},
                result : Refusals \cup {"done", "outside", "IllegalInstruction"}]

\* The ROM keeps the program main loaded: whatever page leads to it and with
\* whatever rights, no store and no atomic changes a byte of a bank that was
\* opened without DEV_RW.
RomKept ==
  [][\A k \in BankIds : ~Banks[k].writable => mem'[k] = mem[k]]_vars

\* A load, a store or an atomic that raises an access exception has done
\* nothing by then: no register and no byte differs from before it, though an
\* atomic reads, writes memory and writes two registers one after the other.
RefusedKeepsAll ==
  [][event'.result \in Refusals => UNCHANGED <<x, mem>>]_vars

\* A byte of memory changes only through a page that gives the right its writer
\* asks for: stores that to write, atomics, which are how a page that may not be
\* written changes all the same, that to read.
WritesNeedRight ==
  [][\A k \in BankIds : \A o \in 0 .. Banks[k].size - 1 :
       mem'[k][o] # mem[k][o] =>
         \E m \in map' :
           /\ m.frame = (Banks[k].start + o) \div PageSize
           /\ (IF event'.class \in {"atomic", "swap"} THEN "R" ELSE "W") \in m.protection]_vars

\* writeBack keeps x0 at zero for every instruction; the assignment AMOSWAP
\* makes to its source register is the one way it ever stops being zero.
ZeroLostBySwapOnly ==
  [][x[0] = Zero /\ x'[0] # Zero => event'.class = "swap"]_vars

\* x0 is zero: docs/doc.md:6, "x0 |zero |always zero".
ZeroIsZero == x[0] = Zero

\* The refinement mapping to Machine: a page is touched once it is mapped, and
\* it holds the bytes at its frame's place in the banks.
PhysicalAddrs == 0 .. MaxPte * PageSize - 1
BanksAt == [p \in PhysicalAddrs |-> {k \in BankIds : Banks[k].start <= p /\ p < Top(Banks[k])}]

CellAt(p) ==
  IF BanksAt[p] = {} THEN [present |-> FALSE, writable |-> FALSE, byte |-> 0]
  ELSE LET k == CHOOSE k \in BanksAt[p] : TRUE
       IN [present |-> TRUE, writable |-> Banks[k].writable, byte |-> mem[k][p - Banks[k].start]]

spaceBar ==
  [g \in PageNumbers |->
     IF PM!MappingsOf(0, g) = {} THEN [touched |-> FALSE]
     ELSE LET m == CHOOSE m \in map : m.page = g
          IN [touched |-> TRUE, rights |-> m.protection,
              cells |-> [o \in 0 .. PageSize - 1 |-> CellAt(m.frame * PageSize + o)]]]

Sign(byte) == IF byte >= ByteMod \div 2 THEN ByteMod - 1 ELSE 0

Ideal == INSTANCE Machine WITH
           Combine <- Combined, Number <- Value, AddressMod <- WordMod,
           regs <- x, space <- spaceBar

\* Behind frames shared with nobody, a bus searched bank by bank and accesses
\* split into bytes, a program sees storage that keeps what it wrote, page by
\* page: loads return the latest stores, extended as the instruction says, and
\* the word fetched from an address is what was last stored there.
RefinesMachine == Ideal!Spec
=============================================================================
