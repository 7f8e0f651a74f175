----------------------------- MODULE Controller -----------------------------
(***************************************************************************)
(* The program counter, the control registers and the trap sequencer of    *)
(* include/Controller.hpp, driven as Riscv32::step drives them: a turn of  *)
(* the main loop asks noWaitTrap whether an instruction may run; if so,    *)
(* step() moves the program counter, the instruction is fetched and        *)
(* decoded, and its execute and memoryAccess call back into the            *)
(* controller.  Which calls these can make depends on the instruction's    *)
(* class; what it does to registers and memory is left out here.           *)
(***************************************************************************)
EXTENDS CSR, FiniteSets

CONSTANTS
  StartupAddr,  \* where the reset leads
  Fetchable,    \* the addresses an instruction can be fetched from
  Targets,      \* addresses programs jump to, or write to mepc
  DataAddrs,    \* addresses loads, stores and atomics fail at
  Vectors,      \* what programs write to mtvec
  Causes,       \* the causes traps have, and programs write to mcause
  Opcodes       \* what traps save in mtval: the opcode

ASSUME ControllerAssumption ==
  /\ StartupAddr \in Targets
  /\ Fetchable \subseteq Words
  /\ Targets \subseteq Words
  /\ DataAddrs \subseteq Words /\ DataAddrs # {}
  /\ Vectors \subseteq Words
  /\ Opcodes \subseteq Words
  /\ Causes \subseteq MCause
  /\ {Exception(2), Exception(5)} \subseteq Causes   \* IllegalInstruction, LoadAccessFault
  /\ 0 \in Opcodes

VARIABLES
  stage,               \* the point Riscv32::step has reached
  instr,               \* the class of the instruction in "pipeline", if any
  branchAddressValid,
  branchAddress,
  pc,
  pcPlus4,
  csr,                 \* the register bank
  trap,                \* the latest Trap
  thrown               \* the register whose write ended the simulation

vars == <<stage, instr, branchAddressValid, branchAddress, pc, pcPlus4, csr, trap, thrown>>
branch == <<branchAddressValid, branchAddress>>

Stages == {"wait", "advance", "fetch", "execute", "memory", "halt"}
Classes == {"alu", "branch", "jump", "load", "store", "atomic", "system", "csr"}
TrapStates == {"Idle", "SetCSRJump", "ReturnFromTrap", "SetPc"}
Trap == [mepc : Words, mtval : Words, pcToSet : Words, trapState : TrapStates, mcause : MCause]

SetBranchAddress(addr) ==
  /\ branchAddress' = addr
  /\ branchAddressValid' = TRUE

NewTrap(mepc, cause, mtval) ==
  [mepc |-> mepc, mtval |-> mtval, pcToSet |-> 0,
   trapState |-> "SetCSRJump", mcause |-> cause]

IllegalInstruction == Exception(2)

\* main() resets the processor before its loop.
Init ==
  /\ stage = "wait"
  /\ instr = "none"
  /\ branchAddressValid = TRUE
  /\ branchAddress = StartupAddr
  /\ pc = 0
  /\ pcPlus4 = 0
  /\ csr = InitialBank
  /\ trap = [mepc |-> 0, mtval |-> 0, pcToSet |-> 0, trapState |-> "Idle",
             mcause |-> IllegalInstruction]
  /\ thrown = "none"

-----------------------------------------------------------------------------
(* noWaitTrap: one case of its switch per trap state.                      *)

Counted == Increment64(csr, "cycle", "cycleh")

GoOn ==
  /\ trap.trapState = "Idle"
  /\ stage' = "advance"
  /\ csr' = Counted
  /\ UNCHANGED <<branch, trap>>

SetCSRJump ==
  /\ trap.trapState = "SetCSRJump"
  /\ csr' = [Counted EXCEPT !["mepc"] = trap.mepc,
                            !["mcause"] = trap.mcause,
                            !["mtval"] = trap.mtval,
                            !["mstatus"] = EnterTrap(@)]
  /\ trap' = [trap EXCEPT !.pcToSet = Vector(csr["mtvec"], trap.mcause),
                          !.trapState = "SetPc"]
  /\ stage' = "wait"
  /\ UNCHANGED branch

\* Mutated forms: the branch is not scheduled, and the trap stays pending.
SetPcLost ==
  /\ trap.trapState = "SetPc"
  /\ trap' = [trap EXCEPT !.trapState = "Idle"]
  /\ stage' = "advance"
  /\ csr' = Counted
  /\ UNCHANGED branch

SetPcAgain ==
  /\ trap.trapState = "SetPc"
  /\ SetBranchAddress(trap.pcToSet)
  /\ stage' = "advance"
  /\ csr' = Counted
  /\ UNCHANGED trap

SetPc ==
  /\ trap.trapState = "SetPc"
  /\ SetBranchAddress(trap.pcToSet)
  /\ trap' = [trap EXCEPT !.trapState = "Idle"]
  /\ stage' = "advance"
  /\ csr' = Counted

\* Mutated form: the return leads back to the instruction that trapped.
ReturnToSame ==
  /\ trap.trapState = "ReturnFromTrap"
  /\ trap' = [trap EXCEPT !.pcToSet = csr["mepc"], !.trapState = "SetPc"]
  /\ csr' = [Counted EXCEPT !["mstatus"] = LeaveTrap(@)]
  /\ stage' = "wait"
  /\ UNCHANGED branch

ReturnFromTrap ==
  /\ trap.trapState = "ReturnFromTrap"
  /\ trap' = [trap EXCEPT !.pcToSet = (csr["mepc"] + 4) % WordMod, !.trapState = "SetPc"]
  /\ csr' = [Counted EXCEPT !["mstatus"] = LeaveTrap(@)]
  /\ stage' = "wait"
  /\ UNCHANGED branch

NoWaitTrap ==
  /\ stage = "wait"
  /\ GoOn \/ SetCSRJump \/ SetPc \/ ReturnFromTrap
  /\ UNCHANGED <<instr, pc, pcPlus4, thrown>>

-----------------------------------------------------------------------------
(* step(), the fetch and the decoding.                                     *)

\* Mutated form: the branch stays pending.
StepKeepsBranch ==
  /\ stage = "advance"
  /\ stage' = "fetch"
  /\ csr' = Increment64(csr, "instret", "instreth")
  /\ pc' = IF branchAddressValid THEN branchAddress ELSE pcPlus4
  /\ pcPlus4' = (pc' + 4) % WordMod
  /\ UNCHANGED <<instr, branchAddressValid, branchAddress, trap, thrown>>

\* Mutated form: the next address does not wrap.
StepWide ==
  /\ stage = "advance"
  /\ stage' = "fetch"
  /\ csr' = Increment64(csr, "instret", "instreth")
  /\ pc' = IF branchAddressValid THEN branchAddress ELSE pcPlus4
  /\ pcPlus4' = pc' + 4
  /\ branchAddressValid' = FALSE
  /\ UNCHANGED <<instr, branchAddress, trap, thrown>>

Step ==
  /\ stage = "advance"
  /\ stage' = "fetch"
  /\ csr' = Increment64(csr, "instret", "instreth")
  /\ pc' = IF branchAddressValid THEN branchAddress ELSE pcPlus4
  /\ pcPlus4' = (pc' + 4) % WordMod
  /\ branchAddressValid' = FALSE
  /\ UNCHANGED <<instr, branchAddress, trap, thrown>>

\* Riscv32::step throws "Fora da memoria".
OutOfMemory ==
  /\ stage = "fetch"
  /\ pc \notin Fetchable
  /\ stage' = "halt"
  /\ UNCHANGED <<instr, branch, pc, pcPlus4, csr, trap, thrown>>

\* decode() knows the opcode.
Decode ==
  /\ stage = "fetch"
  /\ pc \in Fetchable
  /\ instr' \in Classes
  /\ stage' = "execute"
  /\ UNCHANGED <<branch, pc, pcPlus4, csr, trap, thrown>>

\* decode() does not: the turn ends there.
DecodeIllegal ==
  /\ stage = "fetch"
  /\ pc \in Fetchable
  /\ \E opcode \in Opcodes : trap' = NewTrap(pc, IllegalInstruction, opcode)
  /\ stage' = "wait"
  /\ UNCHANGED <<instr, branch, pc, pcPlus4, csr, thrown>>

-----------------------------------------------------------------------------
(* execute() of the instruction classes: what it asks of the controller.   *)

NoCall == UNCHANGED <<branch, trap>>

TrapException(mepc, cause, mtval) ==
  /\ trap' = NewTrap(mepc, cause, mtval)
  /\ UNCHANGED branch

Illegal == \E opcode \in Opcodes : TrapException(pc, IllegalInstruction, opcode)

TrapReturn ==
  /\ trap' = [trap EXCEPT !.trapState = "ReturnFromTrap"]
  /\ UNCHANGED branch

TakeJump ==
  /\ \E addr \in Targets : SetBranchAddress(addr)
  /\ UNCHANGED trap

\* Register arithmetic, LUI and AUIPC do all their work here or later, and the
\* CSR instructions later.
ExecuteAlu == instr = "alu" /\ NoCall
ExecuteCsr == instr = "csr" /\ NoCall

ExecuteJump == instr = "jump" /\ TakeJump

\* A branch that is taken, one that is not, and one with an unknown funct3.
ExecuteBranch ==
  /\ instr = "branch"
  /\ TakeJump \/ NoCall \/ Illegal

\* An unknown funct3 raises a trap here; memoryAccess runs all the same.
ExecuteLoad == instr = "load" /\ (NoCall \/ Illegal)
ExecuteStore == instr = "store" /\ (NoCall \/ Illegal)

\* And so does an unknown funct5.
ExecuteAtomic == instr = "atomic" /\ (NoCall \/ Illegal)

\* EBREAK and ECALL, SRET and MRET, WFI, and anything else.
ExecuteSystem ==
  /\ instr = "system"
  /\ \/ \E cause \in Causes \cap {Exception(3), Exception(11)} : TrapException(pc, cause, 0)
     \/ TrapReturn
     \/ NoCall
     \/ Illegal

Execute ==
  /\ stage = "execute"
  /\ \/ ExecuteAlu \/ ExecuteCsr \/ ExecuteJump \/ ExecuteBranch
     \/ ExecuteLoad \/ ExecuteStore \/ ExecuteAtomic \/ ExecuteSystem
  /\ stage' = "memory"
  /\ UNCHANGED <<instr, pc, pcPlus4, csr, thrown>>

-----------------------------------------------------------------------------
(* memoryAccess() of the instruction classes.                              *)

\* A trap for one of these causes, saving addr as its place.  It replaces the
\* trap execute may have raised.
Refuse(addr, causes) ==
  \E cause \in Causes \cap causes, opcode \in Opcodes : TrapException(addr, cause, opcode)

\* Nothing to do, or nothing that involves the controller.
AccessNone ==
  /\ instr \in {"alu", "jump", "branch", "system"}
  /\ NoCall

\* A load is done, or is misaligned or refused: the data's address is saved.
AccessLoad ==
  /\ instr = "load"
  /\ NoCall \/ \E addr \in DataAddrs : Refuse(addr, {Exception(4), Exception(5)})

\* A store saves the data's address if misaligned, the instruction's if refused.
AccessStore ==
  /\ instr = "store"
  /\ \/ NoCall
     \/ \E addr \in DataAddrs : Refuse(addr, {Exception(6)})
     \/ Refuse(pc, {Exception(7)})

\* An unknown atomic is always refused; it is reported as a load.
AccessAtomic ==
  /\ instr = "atomic"
  /\ \/ trap.trapState = "Idle" /\ NoCall
     \/ \E addr \in DataAddrs : Refuse(addr, {Exception(4), Exception(5)})

\* What a program can write to a register; nothing is ever written to others.
Writes(r) ==
  CASE r = "mstatus" -> SUBSET StatusBits
    [] r = "mcause"  -> Causes
    [] r = "mtvec"   -> Vectors
    [] r = "mepc"    -> Targets
    [] r = "mtval"   -> Opcodes
    [] OTHER         -> {0}

\* CSRRW and its kin write a register, or only read it; funct3 = 4 is illegal.
AccessCsr ==
  /\ instr = "csr"
  /\ \/ /\ \E r \in Registers :
             /\ MayWrite(r, FALSE)
             /\ \E v \in Writes(r) : csr' = [csr EXCEPT ![r] = v]
        /\ NoCall
     \/ csr' = csr /\ NoCall
     \/ csr' = csr /\ Illegal

\* Or the write throws, and main() ends.
AccessCsrThrows ==
  /\ instr = "csr"
  /\ \E r \in Registers : ~MayWrite(r, FALSE) /\ thrown' = r
  /\ stage' = "halt"
  /\ UNCHANGED <<instr, branch, csr, trap>>

\* The turn ends: the instruction is deleted.
Retire ==
  /\ stage' = "wait"
  /\ instr' = "none"
  /\ UNCHANGED thrown

MemoryAccess ==
  /\ stage = "memory"
  /\ \/ /\ \/ /\ AccessNone \/ AccessLoad \/ AccessStore \/ AccessAtomic
             /\ csr' = csr
          \/ AccessCsr
        /\ Retire
     \/ AccessCsrThrows
  /\ UNCHANGED <<pc, pcPlus4>>

-----------------------------------------------------------------------------

\* The program has ended.
Ended == stage = "halt" /\ UNCHANGED vars

Turn ==
  \/ NoWaitTrap \/ Step \/ OutOfMemory \/ Decode \/ DecodeIllegal
  \/ Execute \/ MemoryAccess

Next == Turn \/ Ended

Spec == Init /\ [][Next]_vars

\* main() calls step in an endless loop.
FairSpec == Spec /\ WF_vars(Turn)

-----------------------------------------------------------------------------
(* Properties.                                                             *)

\* Every variable has its type; register values have the type of their register.
TypeOK ==
  /\ stage \in Stages
  /\ instr \in Classes \cup {"none"}
  /\ branchAddressValid \in BOOLEAN
  /\ branchAddress \in Words
  /\ pc \in Words
  /\ pcPlus4 \in Words
  /\ DOMAIN csr = Registers
  /\ \A r \in Registers : csr[r] \in Values(r)
  /\ trap \in Trap
  /\ thrown \in Registers \cup {"none"}

\* A jump and a trap are never both pending: the branch the sequencer schedules
\* for a trap or a return overwrites no jump of the program, and no jump is
\* taken in place of a handler.
PendingExclusive == branchAddressValid => trap.trapState = "Idle"

\* No instruction runs while a trap is pending: one is fetched, or executed,
\* only with the sequencer idle and the branch consumed.
NoPendingWhileRunning ==
  stage \in {"fetch", "execute"} => trap.trapState = "Idle" /\ ~branchAddressValid

Total(bank, lo, hi) == bank[hi] * CounterMod + bank[lo]

PlusOneIf(n, c) == (n + (IF c THEN 1 ELSE 0)) % (CounterMod * CounterMod)

CountersStep ==
  /\ Total(csr', "cycle", "cycleh")
       = PlusOneIf(Total(csr, "cycle", "cycleh"), stage = "wait")
  /\ Total(csr', "instret", "instreth")
       = PlusOneIf(Total(csr, "instret", "instreth"), stage = "advance")

\* CYCLE/CYCLEH and INSTRET/INSTRETH are 64-bit counters kept in two halves:
\* CYCLE counts every turn of the loop once, those that only sequence a trap
\* included, INSTRET every instruction started once, and nothing a program
\* does moves them.
CountersExact == [][CountersStep]_vars

\* Every trap reaches its handler: the first instruction fetched after it is the
\* one at its vector, and mepc holds the place it was raised for.
TrapsDelivered ==
  \A cause \in Causes, v \in Vectors, e \in Words :
    (/\ stage = "wait" /\ trap.trapState = "SetCSRJump"
     /\ trap.mcause = cause /\ csr["mtvec"] = v /\ trap.mepc = e)
      ~> (/\ stage = "fetch" /\ pc = Vector(v, cause)
          /\ csr["mepc"] = e /\ csr["mcause"] = cause)

\* Every return reaches the instruction after the one that trapped.
ReturnsDelivered ==
  \A e \in Words :
    (stage = "wait" /\ trap.trapState = "ReturnFromTrap" /\ csr["mepc"] = e)
      ~> (stage = "fetch" /\ pc = (e + 4) % WordMod)

\* docs/doc.md, MTVEC: "MODE 0 endereco direto", 1 adds four times the cause.
DirectMode ==
  [][trap.trapState = "SetCSRJump" /\ trap'.trapState = "SetPc" /\ csr["mtvec"] % 4 = 0
       => trap'.pcToSet = csr["mtvec"]]_vars

\* docs/doc.md: only registers with address bits 11 and 10 both set are read-only.
OnlyReadOnlyThrows == thrown # "none" => Access(thrown) = 3

\* docs/doc.md: mepc holds the PC of the instruction that was interrupted.
EpcIsPc ==
  [][stage # "wait" /\ stage' = "wait" /\ trap'.trapState = "SetCSRJump"
       => trap'.mepc = pc]_vars

-----------------------------------------------------------------------------
(* The refinement mapping to Flow: an instruction takes effect when its    *)
(* turn ends, and what the sequencer has yet to do is done already.        *)

entering == stage = "wait" /\ trap.trapState = "SetCSRJump"
leaving  == stage = "wait" /\ trap.trapState = "ReturnFromTrap"

nextBar ==
  IF stage \in {"fetch", "execute", "memory", "halt"} THEN pc
  ELSE IF trap.trapState = "SetCSRJump" THEN Vector(csr["mtvec"], trap.mcause)
  ELSE IF trap.trapState = "SetPc" THEN trap.pcToSet
  ELSE IF trap.trapState = "ReturnFromTrap" THEN (csr["mepc"] + 4) % WordMod
  ELSE IF branchAddressValid THEN branchAddress ELSE pcPlus4

statusBar ==
  IF entering THEN EnterTrap(csr["mstatus"])
  ELSE IF leaving THEN LeaveTrap(csr["mstatus"]) ELSE csr["mstatus"]

mepcBar == IF entering THEN trap.mepc ELSE csr["mepc"]
mcauseBar == IF entering THEN trap.mcause ELSE csr["mcause"]
mtvalBar == IF entering THEN trap.mtval ELSE csr["mtval"]

F == INSTANCE Flow WITH
       Places <- DataAddrs, Details <- Opcodes,
       next <- nextBar,
       mie <- "MIE" \in statusBar, mpie <- "MPIE" \in statusBar,
       mtvec <- csr["mtvec"],
       mepc <- mepcBar,
       mcause <- mcauseBar,
       mtval <- mtvalBar,
       halted <- stage = "halt"

\* However many turns the sequencer takes over a trap or a return, and whatever
\* an instruction had pending, the program sees what Flow promises: each
\* instruction is followed by the one it names, a trap is taken once and at
\* once, and no instruction runs in between.
RefinesFlow == F!Spec

\* How many steps the next fetch is away once an instruction has ended.
StepsLeft ==
  CASE stage = "wait" /\ trap.trapState \in {"SetCSRJump", "ReturnFromTrap"} -> 3
    [] stage = "wait" /\ trap.trapState \in {"Idle", "SetPc"} -> 2
    [] stage = "advance" -> 1
    [] OTHER -> 0

\* The sequencer never goes round in its states: from the end of an instruction
\* every step brings the next fetch nearer, with what a trap or a return owes
\* the program (its address, its registers) neither lost nor changed on the
\* way.  Once steps are taken at all, this is what delivers traps and returns.
NextInTurn ==
  [][StepsLeft > 0 => StepsLeft' = StepsLeft - 1 /\ UNCHANGED F!vars]_vars
=============================================================================
