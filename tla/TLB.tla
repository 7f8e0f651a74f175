-------------------------------- MODULE TLB --------------------------------
(***************************************************************************)
(* The Translation Lookaside Buffer of include/mmu/TLB.hpp and the access  *)
(* check of include/mmu/defs.hpp, as operators on the value of the buffer. *)
(* MMU.tla holds the buffer in a variable and applies them.                *)
(*                                                                         *)
(* A page number is the pair of its two 10-bit fields (the index into the  *)
(* first-level table, the index into the second-level table), which is all *)
(* the code ever does with one beside comparing it.  Address offsets pass  *)
(* through translation untouched and are left out.  Protection masks are   *)
(* sets of rights: X, W, R and S for MMU_ACC_EXECUTE, _WRITE, _READ and    *)
(* _SUPER.  The "changed" bits of entries are never set by any code and    *)
(* are left out.                                                           *)
(***************************************************************************)
EXTENDS Integers, FiniteSetsExt

CONSTANTS
  MaxPages,   \* MAX_PAGES: entries of a first- or second-level table
  MaxPte,     \* MAX_PTE:   page frames a process can map
  MaxTlb,     \* MAX_TLB:   slots of the buffer
  RefMod      \* 2^32: the uint32_t reference counts wrap here

ASSUME TLBAssumption ==
  /\ MaxPages \in Nat \ {0}
  /\ MaxPte \in Nat \ {0}
  /\ MaxTlb \in Nat \ {0}
  /\ RefMod \in Nat \ {0}

Pages == (0 .. MaxPages - 1) \X (0 .. MaxPages - 1)
Frames == 0 .. MaxPte - 1
Slots == 0 .. MaxTlb - 1
Refs == 0 .. RefMod - 1
Rights == {"X", "W", "R", "S"}

MMU_OK == 0
MMU_PAGE_FAULT == -1
MMU_FORBIDEN_ACCESS == -2
MMU_FORBIDEN_READ == -3
MMU_FORBIDEN_WRITE == -4
MMU_FORBIDEN_EXECUTE == -5

-----------------------------------------------------------------------------
(* The access check: "current" is what the page grants, "access" what the  *)
(* caller asks for.                                                        *)

\* Mutated form: a supervisor's page serves everybody.
CheckPermissionAnyMode(current, access) ==
  IF access \subseteq current \cup {"S"} THEN MMU_OK ELSE MMU_FORBIDEN_ACCESS

CheckPermission(current, access) ==
  LET res == SymDiff(current, access)
  IN IF "S" \in res /\ "S" \notin access THEN MMU_FORBIDEN_ACCESS
     ELSE IF "R" \in res /\ "R" \notin current THEN MMU_FORBIDEN_READ
     ELSE IF "W" \in res /\ "W" \notin current THEN MMU_FORBIDEN_WRITE
     ELSE IF "X" \in res /\ "X" \notin current THEN MMU_FORBIDEN_EXECUTE
     ELSE MMU_OK

-----------------------------------------------------------------------------
(* The buffer: one entry per slot.                                         *)

TlbEntry ==
  [valid : BOOLEAN, protection : SUBSET Rights, page : Pages,
   framePage : Frames, references : Refs]

Flushed ==
  [i \in Slots |-> [valid |-> FALSE, protection |-> {}, page |-> <<0, 0>>,
                    framePage |-> 0, references |-> 0]]

\* Mutated form: a change of process keeps the entries of the last one.
SetPidNoFlush(b, current, p) == b

\* set(pid): a change of process flushes every slot.
SetPid(b, current, p) == IF current = p THEN b ELSE Flushed

\* Mutated form: the search ends one slot early.
HoldingButLast(b, page) == {i \in Slots \ {MaxTlb - 1} : b[i].valid /\ b[i].page = page}

\* The slots find(vAddress) would stop at; it stops at the first.
Holding(b, page) == {i \in Slots : b[i].valid /\ b[i].page = page}

\* Mutated forms: a count that is wider than the field, and one that saturates.
BumpUnbounded(n) == n + 1
BumpSaturated(n) == IF n = RefMod - 1 THEN n ELSE n + 1

\* One more reference, in a uint32_t.
Bump(n) == (n + 1) % RefMod

Install(b, i, pte, page, refs) ==
  [b EXCEPT ![i] = [valid |-> TRUE, protection |-> pte.protection,
                    page |-> page, framePage |-> pte.framePage,
                    references |-> refs]]

\* Mutated form: a full buffer takes no new entry.
SaveIfFree(b, pte, page) ==
  LET free == {i \in Slots : ~b[i].valid}
  IN IF free # {} THEN Install(b, Min(free), pte, page, 0) ELSE b

\* Mutated form: an evicted slot keeps its frame.
SaveKeepsFrame(b, pte, page) ==
  LET free  == {i \in Slots : ~b[i].valid}
      least == {i \in Slots : \A j \in Slots : b[i].references <= b[j].references}
      i     == Min(least)
  IN IF free # {}
       THEN Install(b, Min(free), pte, page, 0)
       ELSE [b EXCEPT ![i].page = page, ![i].protection = pte.protection,
                      ![i].references = Bump(@)]

\* save(pte, page): the first free slot, or else the first of the least
\* referenced ones, whose count the new entry inherits and increments.
Save(b, pte, page) ==
  LET free  == {i \in Slots : ~b[i].valid}
      least == {i \in Slots : \A j \in Slots : b[i].references <= b[j].references}
  IN IF free # {}
       THEN Install(b, Min(free), pte, page, 0)
       ELSE Install(b, Min(least), pte, page, Bump(b[Min(least)].references))
=============================================================================
