-------------------------------- MODULE CSR --------------------------------
(***************************************************************************)
(* The control and status registers of include/CSR.hpp, as operators on    *)
(* the value of the bank, and the constants of include/Trap.hpp.           *)
(* Controller.tla holds the bank in a variable and applies them.           *)
(*                                                                         *)
(* Registers are named, with their access field (address bits 11:10) in    *)
(* Access; "r400" and "r800" stand for any register at 0x400..0x7FF and at *)
(* 0x800..0xBFF.  A register that was never written reads 0, so the bank   *)
(* is total.  MSTATUS is the set of its bits the code looks at; MCAUSE is  *)
(* its interrupt bit and its code.                                         *)
(***************************************************************************)
EXTENDS Integers

CONSTANTS
  WordMod,     \* 2^32: addresses wrap here
  CounterMod   \* 2^32: each half of a counter wraps here

ASSUME CSRAssumption ==
  /\ WordMod \in Nat \ {0}
  /\ WordMod % 4 = 0
  /\ CounterMod \in Nat \ {0}

Words == 0 .. WordMod - 1
Halves == 0 .. CounterMod - 1
StatusBits == {"MIE", "MPIE"}
MCause == [interrupt : BOOLEAN, code : 0 .. 15]
Exception(n) == [interrupt |-> FALSE, code |-> n]

Counters == {"cycle", "cycleh", "instret", "instreth"}
Addresses == {"mtvec", "mepc", "mtval"}
Unprivileged == {"r400", "r800"}
Registers == {"mstatus", "mcause"} \cup Addresses \cup Counters \cup Unprivileged

Values(r) ==
  CASE r = "mstatus"       -> SUBSET StatusBits
    [] r = "mcause"        -> MCause
    [] r \in Addresses     -> Words
    [] r \in Counters      -> Halves
    [] r \in Unprivileged  -> {0}

\* address >> 10
Access(r) ==
  CASE r \in Counters -> 3
    [] r = "r800"     -> 2
    [] r = "r400"     -> 1
    [] OTHER          -> 0

InitialBank ==
  [r \in Registers |-> CASE r = "mstatus" -> {}
                         [] r = "mcause"  -> Exception(0)
                         [] OTHER         -> 0]

\* write() throws unless this holds.
MayWrite(r, isRoot) == isRoot \/ Access(r) = 0

\* Mutated form: the carry is lost.
Increment64NoCarry(bank, lo, hi) == [bank EXCEPT ![lo] = (@ + 1) % CounterMod]

\* increment64(lo, hi, true)
Increment64(bank, lo, hi) ==
  LET low == (bank[lo] + 1) % CounterMod
  IN IF low = 0
       THEN [bank EXCEPT ![lo] = low, ![hi] = (@ + 1) % CounterMod]
       ELSE [bank EXCEPT ![lo] = low]

-----------------------------------------------------------------------------
(* MSTATUS and the trap vector.                                            *)

\* Mutated form: the interrupt enable is cleared before it is saved.
EnterTrapUnsaved(mstatus) == mstatus \ {"MIE", "MPIE"}

\* MIE is saved in MPIE and cleared.
EnterTrap(mstatus) ==
  (mstatus \ {"MIE", "MPIE"}) \cup (IF "MIE" \in mstatus THEN {"MPIE"} ELSE {})

\* MPIE is restored to MIE and cleared.
LeaveTrap(mstatus) ==
  (mstatus \ {"MIE", "MPIE"}) \cup (IF "MPIE" \in mstatus THEN {"MIE"} ELSE {})

\* setIntVector: every cause has its entry in the table at the base of mtvec,
\* interrupts after the twelve exceptions, whatever mtvec's mode bits say.
Vector(mtvec, cause) ==
  (mtvec - (mtvec % 4) + (IF cause.interrupt THEN 48 ELSE 0) + 4 * cause.code) % WordMod
=============================================================================
