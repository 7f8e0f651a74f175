-------------------------------- MODULE Flow --------------------------------
(***************************************************************************)
(* The control flow a program sees: a sequence of instructions each of     *)
(* which, at once, names the instruction that follows it.  A trap saves    *)
(* where it happened and the interrupt enable and goes to its handler; a   *)
(* return restores the enable and goes on after the saved place.  There    *)
(* are no pending branches and no trap states.                             *)
(***************************************************************************)
EXTENDS Integers

CONSTANTS
  WordMod,    \* addresses wrap here
  Targets,    \* where jumps lead
  Places,     \* what a trap may save as the place where it happened
  Causes,     \* why traps are taken
  Details,    \* what a trap may save as its detail
  Vectors     \* what programs write to mtvec

VARIABLES
  next,       \* the address of the instruction to execute
  mie,        \* interrupts are enabled
  mpie,       \* they were before the trap
  mtvec, mepc, mcause, mtval,
  halted      \* the simulation has stopped

vars == <<next, mie, mpie, mtvec, mepc, mcause, mtval, halted>>

Follow == next' = (next + 4) % WordMod

Init ==
  /\ next \in Targets
  /\ ~mie /\ ~mpie
  /\ mtvec = 0 /\ mepc = 0 /\ mtval = 0
  /\ mcause = [interrupt |-> FALSE, code |-> 0]
  /\ ~halted

-----------------------------------------------------------------------------

Plain ==
  /\ Follow
  /\ UNCHANGED <<mie, mpie, mtvec, mepc, mcause, mtval>>

Jump ==
  /\ next' \in Targets
  /\ UNCHANGED <<mie, mpie, mtvec, mepc, mcause, mtval>>

\* An instruction that traps goes to the vector of its cause: exceptions come
\* first in the table, one word each, interrupts from the twelfth word on.
Trap ==
  /\ mepc' \in Places \cup {next}
  /\ mcause' \in Causes
  /\ mtval' \in Details
  /\ mpie' = mie
  /\ mie' = FALSE
  /\ LET entry == IF mcause'.interrupt THEN 12 + mcause'.code ELSE mcause'.code
     IN next' = (4 * (mtvec \div 4) + 4 * entry) % WordMod
  /\ UNCHANGED mtvec

Return ==
  /\ next' = (mepc + 4) % WordMod
  /\ mie' = mpie
  /\ mpie' = FALSE
  /\ UNCHANGED <<mtvec, mepc, mcause, mtval>>

\* A program writes one of the registers.
Write ==
  /\ Follow
  /\ \/ mie' \in BOOLEAN /\ mpie' \in BOOLEAN /\ UNCHANGED <<mtvec, mepc, mcause, mtval>>
     \/ mtvec' \in Vectors /\ UNCHANGED <<mie, mpie, mepc, mcause, mtval>>
     \/ mepc' \in Targets /\ UNCHANGED <<mie, mpie, mtvec, mcause, mtval>>
     \/ mcause' \in Causes /\ UNCHANGED <<mie, mpie, mtvec, mepc, mtval>>
     \/ mtval' \in Details /\ UNCHANGED <<mie, mpie, mtvec, mepc, mcause>>

\* The instruction cannot be fetched, or writes a register it may not write.
Halt ==
  /\ halted' = TRUE
  /\ UNCHANGED <<next, mie, mpie, mtvec, mepc, mcause, mtval>>

Next ==
  /\ ~halted
  /\ \/ /\ UNCHANGED halted
        /\ Plain \/ Jump \/ Trap \/ Return \/ Write
     \/ Halt

Spec == Init /\ [][Next]_vars
=============================================================================
