-------------------------------- MODULE MMU --------------------------------
(***************************************************************************)
(* The memory management unit of include/mmu/MMU.hpp: a two-level page     *)
(* table and a list of frames in use for each process, and one TLB for     *)
(* all of them.  A client calls createEntry and getPhysicalAddress; each   *)
(* call is one step, for nothing else runs while it does.                  *)
(*                                                                         *)
(* A second-level table that is not allocated yet reads as the entries its *)
(* allocation gives it, so ptes is total and "tables" says which parts of  *)
(* it exist.  A frame's pointer to a page table entry is the page itself.  *)
(***************************************************************************)
EXTENDS TLB

CONSTANTS
  MaxProc,    \* MAX_PROC
  StatMod,    \* 2^32: the uint32_t statistics wrap here
  ReqPages,   \* the pages clients ask for: all of Pages in the code
  ReqAccess   \* the access masks they ask with

ASSUME MMUAssumption ==
  /\ MaxProc \in Nat \ {0}
  /\ StatMod \in Nat \ {0}
  /\ ReqPages \subseteq Pages
  /\ ReqAccess \subseteq SUBSET Rights

Procs == 0 .. MaxProc - 1

VARIABLES
  tables,     \* m_procs[p].virtualPageLv1: the first-level indexes in use
  ptes,       \* the page table entries of each process
  mapped,     \* m_procs[p].mapped: the pages that hold each frame
  bufer,      \* m_tlb.bufer
  pid,        \* m_tlb.pid: the process the TLB's entries belong to
  stats,      \* the counters of the TLB and of the MMU
  reply       \* the latest call and what it returned

vars == <<tables, ptes, mapped, bufer, pid, stats, reply>>

\* mapped[p][j] is the set of the one page that holds frame j, or empty.
PTE == [valid : BOOLEAN, protection : SUBSET Rights, referenced : Refs, framePage : Frames]
EmptyPTE == [valid |-> FALSE, protection |-> {}, referenced |-> 0, framePage |-> 0]

Counters == {"tlb_hit", "tlb_miss", "m_page_fault", "m_page_hit", "m_page_forbiden"}
Count(names) ==
  stats' = [c \in Counters |-> IF c \in names THEN (stats[c] + 1) % StatMod ELSE stats[c]]

Calls == {"createEntry", "getPhysicalAddress"}

Return(call, p, page, access, code, frame) ==
  reply' = [call |-> call, pid |-> p, page |-> page, access |-> access,
            code |-> code, frame |-> frame]

Init ==
  /\ tables = [p \in Procs |-> {}]
  /\ ptes = [p \in Procs |-> [g \in Pages |-> EmptyPTE]]
  /\ mapped = [p \in Procs |-> [j \in Frames |-> {}]]
  /\ bufer = Flushed
  /\ pid = 0
  /\ stats = [c \in Counters |-> 0]
  /\ reply = [call |-> "none", pid |-> 0, page |-> <<0, 0>>, access |-> {},
              code |-> MMU_FORBIDEN_ACCESS, frame |-> 0]

-----------------------------------------------------------------------------
(* createEntry.                                                            *)

\* The TLB after m_tlb.set(p), which every call begins with.
Selected(p) == SetPid(bufer, pid, p)

\* Mutated form: a new second-level table replaces the one there is.
EntriesFresh(p, page) ==
  [g \in Pages |-> IF g[1] = page[1] THEN EmptyPTE ELSE ptes[p][g]]

\* The entries of process p once the second-level table of the page exists.
Entries(p, page) ==
  IF page[1] \in tables[p] THEN ptes[p]
  ELSE [g \in Pages |-> IF g[1] = page[1] THEN EmptyPTE ELSE ptes[p][g]]

\* Mutated form: the new table is not entered in the first level.
WithTableLost(p, page) == tables' = tables

WithTable(p, page) == tables' = [tables EXCEPT ![p] = @ \cup {page[1]}]

\* Mutated form: a frame is taken for free without a look at who holds it.
FreeFramesAll(p) == Frames

FreeFrames(p) == {j \in Frames : mapped[p][j] = {}}

\* The page gets the first free frame, and a TLB entry.
NewEntry(call, p, page, protection) ==
  LET j   == Min(FreeFrames(p))
      pte == [valid |-> TRUE, protection |-> protection, referenced |-> 0, framePage |-> j]
  IN /\ ~Entries(p, page)[page].valid
     /\ FreeFrames(p) # {}
     /\ mapped' = [mapped EXCEPT ![p][j] = {page}]
     /\ ptes' = [ptes EXCEPT ![p] = [Entries(p, page) EXCEPT ![page] = pte]]
     /\ bufer' = Save(Selected(p), pte, page)
     /\ Return(call, p, page, protection, MMU_OK, j)

\* The page has an entry already, or the process has no free frame.
NoNewEntry(call, p, page, protection) ==
  /\ Entries(p, page)[page].valid \/ FreeFrames(p) = {}
  /\ ptes' = [ptes EXCEPT ![p] = Entries(p, page)]
  /\ bufer' = Selected(p)
  /\ Return(call, p, page, protection, MMU_FORBIDEN_ACCESS, 0)
  /\ UNCHANGED mapped

CreateEntry(p, page, protection) ==
  /\ pid' = p
  /\ WithTable(p, page)
  /\ \/ /\ NewEntry("createEntry", p, page, protection)
        /\ UNCHANGED stats
     \/ /\ NoNewEntry("createEntry", p, page, protection)
        /\ Count({"m_page_forbiden"})

-----------------------------------------------------------------------------
(* getPhysicalAddress when m_tlb.find stops at a slot.                     *)

TlbHit(p, page, access) ==
  LET b == Selected(p)
      i == Min(Holding(b, page))
  IN /\ Holding(b, page) # {}
     /\ CheckPermission(b[i].protection, access) = MMU_OK
     /\ bufer' = [b EXCEPT ![i].references = Bump(@)]
     /\ Count({"tlb_hit"})
     /\ Return("getPhysicalAddress", p, page, access, MMU_OK, b[i].framePage)
     /\ UNCHANGED <<tables, ptes, mapped>>

TlbForbidden(p, page, access) ==
  LET b == Selected(p)
      v == CheckPermission(b[Min(Holding(b, page))].protection, access)
  IN /\ Holding(b, page) # {}
     /\ v # MMU_OK
     /\ bufer' = b
     /\ Count({"m_page_forbiden"})
     /\ Return("getPhysicalAddress", p, page, access, v, 0)
     /\ UNCHANGED <<tables, ptes, mapped>>

-----------------------------------------------------------------------------
(* getPhysicalAddress when m_tlb.find misses: getFromTables.               *)

Miss(p, page) == Holding(Selected(p), page) = {}

\* getFromTables keeps the result of checkPermission, an int32_t, in a
\* uint8_t, and returns that.
ToUint8(v) == v % 256

WalkHit(p, page, access) ==
  LET pte == Entries(p, page)[page]
  IN /\ Miss(p, page)
     /\ WithTable(p, page)
     /\ pte.valid
     /\ ToUint8(CheckPermission(pte.protection, access)) = MMU_OK
     /\ ptes' = [ptes EXCEPT ![p] =
                   [Entries(p, page) EXCEPT ![page].referenced = Bump(@)]]
     /\ bufer' = Save(Selected(p), pte, page)
     /\ Count({"tlb_miss", "m_page_hit"})
     /\ Return("getPhysicalAddress", p, page, access, MMU_OK, pte.framePage)
     /\ UNCHANGED mapped

WalkForbidden(p, page, access) ==
  LET pte == Entries(p, page)[page]
      v   == ToUint8(CheckPermission(pte.protection, access))
  IN /\ Miss(p, page)
     /\ WithTable(p, page)
     /\ pte.valid
     /\ v # MMU_OK
     /\ ptes' = [ptes EXCEPT ![p] = Entries(p, page)]
     /\ bufer' = Selected(p)
     /\ Count({"tlb_miss", "m_page_forbiden"})
     /\ Return("getPhysicalAddress", p, page, access, v, 0)
     /\ UNCHANGED mapped

\* A page fault: getPhysicalAddress itself creates the entry, with the
\* access just asked for as its protection.
PageFault(p, page, access) ==
  /\ Miss(p, page)
  /\ WithTable(p, page)
  /\ ~Entries(p, page)[page].valid
  /\ \/ /\ NewEntry("getPhysicalAddress", p, page, access)
        /\ Count({"tlb_miss", "m_page_fault"})
     \/ /\ NoNewEntry("getPhysicalAddress", p, page, access)
        /\ Count({"tlb_miss", "m_page_fault", "m_page_forbiden"})

GetPhysicalAddress(p, page, access) ==
  /\ pid' = p
  /\ \/ TlbHit(p, page, access)
     \/ TlbForbidden(p, page, access)
     \/ WalkHit(p, page, access)
     \/ WalkForbidden(p, page, access)
     \/ PageFault(p, page, access)

Next ==
  \E p \in Procs, page \in ReqPages, access \in ReqAccess :
    \/ CreateEntry(p, page, access)
    \/ GetPhysicalAddress(p, page, access)

Spec == Init /\ [][Next]_vars

-----------------------------------------------------------------------------
(* Properties.                                                             *)

\* Every variable has the type its declaration in the source gives it; the
\* uint32_t counts stay below the value they wrap at.
TypeOK ==
  /\ tables \in [Procs -> SUBSET (0 .. MaxPages - 1)]
  /\ ptes \in [Procs -> [Pages -> PTE]]
  /\ mapped \in [Procs -> [Frames -> SUBSET Pages]]
  /\ bufer \in [Slots -> TlbEntry]
  /\ pid \in Procs
  /\ stats \in [Counters -> 0 .. StatMod - 1]
  /\ reply \in [call : Calls \cup {"none"}, pid : Procs, page : Pages,
                access : SUBSET Rights, code : Int, frame : Frames]

\* An entry of the page tables exists only in a second-level table that has
\* been allocated: the walk of getFromTables never loses an entry createEntry
\* made.
EntriesAllocated ==
  \A p \in Procs, g \in Pages : ptes[p][g].valid => g[1] \in tables[p]

\* The frame list and the page tables of a process describe each other: a
\* valid entry's frame is held by that very entry, and a held frame by one
\* entry, which is valid and names it.  Two pages never share a frame.
FramesConsistent ==
  /\ \A p \in Procs, g \in Pages :
       ptes[p][g].valid => mapped[p][ptes[p][g].framePage] = {g}
  /\ \A p \in Procs, j \in Frames :
       \/ mapped[p][j] = {}
       \/ \E g \in Pages : /\ mapped[p][j] = {g}
                           /\ ptes[p][g].valid
                           /\ ptes[p][g].framePage = j

\* The TLB never answers for another process nor with a stale entry: what it
\* holds is the frame and the protection of the page's entry in the tables of
\* the process it was last set to, through every eviction and process switch.
TLBCoherent ==
  \A i \in Slots : bufer[i].valid =>
    LET pte == ptes[pid][bufer[i].page]
    IN /\ pte.valid
       /\ pte.framePage = bufer[i].framePage
       /\ pte.protection = bufer[i].protection

\* find() stops at the first slot that holds the page: there is never another.
TLBUnique ==
  \A i, j \in Slots :
    bufer[i].valid /\ bufer[j].valid /\ bufer[i].page = bufer[j].page => i = j

\* An access just granted has left its translation in the TLB, even when that
\* took the eviction of a slot: the next access to the page is a TLB hit.
GrantedIsCached ==
  reply.code = MMU_OK =>
    /\ reply.pid = pid
    /\ \E i \in Holding(bufer, reply.page) : bufer[i].framePage = reply.frame

TableHits == [pg \in Procs \X Pages |-> ptes[pg[1]][pg[2]].referenced]

\* m_page_hit counts the table walks that found a page they could use, and
\* each of them is also counted in one entry's "referenced": the two tallies,
\* kept apart over all processes, agree up to the wrap of uint32_t.
PageHitsReconcile ==
  RefMod = StatMod =>
    stats["m_page_hit"] = SumFunction(TableHits) % StatMod

\* A page that is mapped stays mapped, to the same frame and with the same
\* protection, whatever is asked for it and by whom.
MappingStable ==
  [][\A p \in Procs, g \in Pages : ptes[p][g].valid =>
       /\ ptes'[p][g].valid
       /\ ptes'[p][g].framePage = ptes[p][g].framePage
       /\ ptes'[p][g].protection = ptes[p][g].protection]_vars

\* The codes the source documents for a refused access: "(MMU_FORBIDEN_*, 0)".
DocumentedCodes ==
  reply.code \in {MMU_OK, MMU_PAGE_FAULT, MMU_FORBIDEN_ACCESS, MMU_FORBIDEN_READ,
                  MMU_FORBIDEN_WRITE, MMU_FORBIDEN_EXECUTE}

\* The refinement mapping to PageMap: the mappings the page tables hold, and
\* the answer without its error code.
mapBar ==
  UNION {{[pid |-> p, page |-> g, frame |-> ptes[p][g].framePage,
           protection |-> ptes[p][g].protection] : g \in {x \in Pages : ptes[p][x].valid}}
         : p \in Procs}

answerBar ==
  [call |-> reply.call, pid |-> reply.pid, page |-> reply.page, access |-> reply.access,
   granted |-> reply.code = MMU_OK, frame |-> reply.frame]

PM == INSTANCE PageMap WITH
        Pages <- ReqPages, Accesses <- ReqAccess, map <- mapBar, answer <- answerBar

\* The MMU with its TLB, its lazily allocated tables and its search for a frame
\* keeps what PageMap promises: a TLB hit, a table walk and a fault give the
\* same answer for the same mapping and access.
RefinesPageMap == PM!Spec
=============================================================================
