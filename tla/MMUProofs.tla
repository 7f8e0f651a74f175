----------------------------- MODULE MMUProofs -----------------------------
(***************************************************************************)
(* Proofs about MMU for every size of the tables, the buffer and the       *)
(* process list, and for whatever pages and accesses are asked for.        *)
(***************************************************************************)
EXTENDS MMU, Sums

-----------------------------------------------------------------------------
(* Lemmas on the operators.                                                *)

\* A set of natural numbers that is not empty has the least member Min names.
LEMMA MinOfNats ==
  ASSUME NEW S \in SUBSET Nat, S # {}
  PROVE  /\ Min(S) \in S
         /\ \A y \in S : Min(S) <= y
BY LeastNat DEF Min

\* The first of a set of slots is one of them, and so is the first of a set of
\* frames.
LEMMA MinOfSlots ==
  ASSUME NEW S \in SUBSET Slots, S # {}
  PROVE  Min(S) \in S
BY MinOfNats, TLBAssumption DEF Slots

LEMMA MinOfFrames ==
  ASSUME NEW S \in SUBSET Frames, S # {}
  PROVE  Min(S) \in S
BY MinOfNats, TLBAssumption DEF Frames

LEMMA BumpType == \A n \in Refs : Bump(n) \in Refs
BY TLBAssumption DEF Bump, Refs

\* A buffer in which every slot is in use has a least referenced slot.
LEMMA LeastExists ==
  ASSUME NEW b \in [Slots -> TlbEntry]
  PROVE  \E i \in Slots : \A j \in Slots : b[i].references <= b[j].references
<1> DEFINE R == {b[i].references : i \in Slots}
<1>1. R \in SUBSET Nat /\ R # {}
  BY TLBAssumption DEF Slots, TlbEntry, Refs
<1>2. PICK i \in Slots : b[i].references = Min(R)
  BY <1>1, MinOfNats
<1>3. \A y \in R : Min(R) <= y
  BY <1>1, MinOfNats
<1>4. \A j \in Slots : b[j].references \in R
  OBVIOUS
<1> HIDE DEF R
<1> QED
  BY <1>2, <1>3, <1>4

-----------------------------------------------------------------------------
(* The TLB as a value: what it may hold beside given page table entries.   *)

Coherent(b, entries) ==
  \A i \in Slots : b[i].valid =>
    /\ entries[b[i].page].valid
    /\ entries[b[i].page].framePage = b[i].framePage
    /\ entries[b[i].page].protection = b[i].protection

Unique(b) ==
  \A i, j \in Slots : b[i].valid /\ b[j].valid /\ b[i].page = b[j].page => i = j

BufferOK(b, entries) ==
  /\ b \in [Slots -> TlbEntry]
  /\ Coherent(b, entries)
  /\ Unique(b)

LEMMA PagesOrigin == <<0, 0>> \in Pages
BY TLBAssumption DEF Pages

\* A flushed buffer is right beside any tables.
LEMMA FlushedOK == \A entries : BufferOK(Flushed, entries)
<1>1. Flushed \in [Slots -> TlbEntry]
  BY PagesOrigin, TLBAssumption DEF Flushed, TlbEntry, Frames, Refs
<1>2. \A i \in Slots : ~Flushed[i].valid
  BY DEF Flushed
<1> QED
  BY <1>1, <1>2 DEF BufferOK, Coherent, Unique

\* Writing the entry of a page no slot holds keeps the buffer right, whichever
\* slot it is written to, and the buffer then holds that page.
LEMMA InstallOK ==
  ASSUME NEW b, NEW entries, BufferOK(b, entries),
         NEW page \in Pages, Holding(b, page) = {},
         NEW pte \in PTE,
         entries[page].valid,
         entries[page].framePage = pte.framePage,
         entries[page].protection = pte.protection,
         NEW s \in Slots, NEW refs \in Refs
  PROVE  LET c == Install(b, s, pte, page, refs)
         IN /\ BufferOK(c, entries)
            /\ s \in Holding(c, page)
            /\ c[s].framePage = pte.framePage
<1> DEFINE c == Install(b, s, pte, page, refs)
           new == [valid |-> TRUE, protection |-> pte.protection, page |-> page,
                   framePage |-> pte.framePage, references |-> refs]
<1>1. new \in TlbEntry
  BY DEF TlbEntry, PTE
<1>2. /\ c \in [Slots -> TlbEntry]
      /\ c[s] = new
      /\ \A i \in Slots : i # s => c[i] = b[i]
  BY <1>1 DEF Install, BufferOK
<1> HIDE DEF c
<1>3. \A i \in Slots : b[i].valid => b[i].page # page
  BY DEF Holding
<1>4. Coherent(c, entries)
  BY <1>2 DEF Coherent, BufferOK
<1>5. Unique(c)
  BY <1>2, <1>3 DEF Unique, BufferOK
<1>6. s \in Holding(c, page) /\ c[s].framePage = pte.framePage
  BY <1>2 DEF Holding
<1> QED
  BY <1>2, <1>4, <1>5, <1>6 DEF BufferOK, c

\* So save() does, with or without a free slot.
LEMMA SaveOK ==
  ASSUME NEW b, NEW entries, BufferOK(b, entries),
         NEW page \in Pages, Holding(b, page) = {},
         NEW pte \in PTE,
         entries[page].valid,
         entries[page].framePage = pte.framePage,
         entries[page].protection = pte.protection
  PROVE  /\ BufferOK(Save(b, pte, page), entries)
         /\ \E s \in Holding(Save(b, pte, page), page) :
              Save(b, pte, page)[s].framePage = pte.framePage
<1> DEFINE free  == {i \in Slots : ~b[i].valid}
           least == {i \in Slots : \A j \in Slots : b[i].references <= b[j].references}
<1>1. b \in [Slots -> TlbEntry]
  BY DEF BufferOK
<1>2. CASE free # {}
  <2>1. Min(free) \in Slots
    BY <1>2, MinOfSlots
  <2>2. 0 \in Refs
    BY TLBAssumption DEF Refs
  <2>3. Save(b, pte, page) = Install(b, Min(free), pte, page, 0)
    BY <1>2 DEF Save
  <2> HIDE DEF free
  <2> QED
    BY <2>1, <2>2, <2>3, InstallOK
<1>3. CASE free = {}
  <2>1. least # {}
    BY <1>1, LeastExists
  <2>2. Min(least) \in Slots
    BY <2>1, MinOfSlots
  <2>3. Bump(b[Min(least)].references) \in Refs
    BY <1>1, <2>2, BumpType DEF TlbEntry
  <2>4. Save(b, pte, page) = Install(b, Min(least), pte, page, Bump(b[Min(least)].references))
    BY <1>3 DEF Save
  <2> HIDE DEF least
  <2> QED
    BY <2>2, <2>3, <2>4, InstallOK
<1> QED
  BY <1>2, <1>3

-----------------------------------------------------------------------------
(* The inductive invariant.  TLBCoherent alone is not inductive: that a new *)
(* entry is not in the TLB yet follows from coherence, that it does not     *)
(* take another page's frame from FramesConsistent, and that allocating a   *)
(* second-level table overwrites no entry from EntriesAllocated.            *)

IInv ==
  /\ TypeOK
  /\ EntriesAllocated
  /\ FramesConsistent
  /\ TLBCoherent
  /\ TLBUnique

LEMMA BuferOK == IInv <=> /\ TypeOK
                          /\ EntriesAllocated
                          /\ FramesConsistent
                          /\ BufferOK(bufer, ptes[pid])
BY DEF IInv, BufferOK, Coherent, Unique, TLBCoherent, TLBUnique, TypeOK

\* m_tlb.set(p) leaves a buffer that is right for p, whichever process it was
\* set to before.
LEMMA SelectedOK ==
  ASSUME IInv, NEW p \in Procs
  PROVE  BufferOK(Selected(p), ptes[p])
<1>1. CASE pid = p
  BY <1>1, BuferOK DEF Selected, SetPid
<1>2. CASE pid # p
  BY <1>2, FlushedOK DEF Selected, SetPid
<1> QED
  BY <1>1, <1>2

\* Two readings of the page table entries that differ at most in "referenced".
SameMap(e, f) ==
  \A g \in Pages :
    /\ e[g].valid = f[g].valid
    /\ e[g].valid => /\ e[g].framePage = f[g].framePage
                     /\ e[g].protection = f[g].protection

LEMMA EmptyPTEType == EmptyPTE \in PTE
BY TLBAssumption DEF EmptyPTE, PTE, Refs, Frames

LEMMA EntriesOK ==
  ASSUME IInv, NEW p \in Procs, NEW page \in Pages
  PROVE  /\ Entries(p, page) \in [Pages -> PTE]
         /\ SameMap(Entries(p, page), ptes[p])
<1>1. ptes[p] \in [Pages -> PTE]
  BY DEF IInv, TypeOK
<1>2. CASE page[1] \in tables[p]
  BY <1>1, <1>2 DEF Entries, SameMap
<1>3. CASE page[1] \notin tables[p]
  <2>1. \A g \in Pages : g[1] = page[1] => ~ptes[p][g].valid
    BY <1>3 DEF IInv, EntriesAllocated
  <2>2. Entries(p, page) = [g \in Pages |-> IF g[1] = page[1] THEN EmptyPTE ELSE ptes[p][g]]
    BY <1>3 DEF Entries
  <2>3. EmptyPTE.valid = FALSE
    BY DEF EmptyPTE
  <2>4. \A g \in Pages : /\ Entries(p, page)[g] \in PTE
                         /\ Entries(p, page)[g].valid => Entries(p, page)[g] = ptes[p][g]
                         /\ Entries(p, page)[g].valid = ptes[p][g].valid
    <3> TAKE g \in Pages
    <3>1. CASE g[1] = page[1]
      <4>1. Entries(p, page)[g] = EmptyPTE
        BY <2>2, <3>1
      <4>2. ptes[p][g].valid = FALSE
        BY <1>1, <2>1, <3>1 DEF PTE
      <4> QED
        BY <2>3, <4>1, <4>2, EmptyPTEType
    <3>2. CASE g[1] # page[1]
      BY <1>1, <2>2, <3>2
    <3> QED
      BY <3>1, <3>2
  <2>5. Entries(p, page) \in [Pages -> PTE]
    BY <2>2, <2>4
  <2> QED
    BY <2>4, <2>5 DEF SameMap
<1> QED
  BY <1>2, <1>3

\* A buffer right for the entries of p is right for any with the same map.
LEMMA SameMapOK ==
  ASSUME NEW b, NEW e, NEW f, SameMap(e, f), BufferOK(b, f)
  PROVE  BufferOK(b, e)
<1>1. \A i \in Slots : b[i].page \in Pages
  BY DEF BufferOK, TlbEntry
<1> QED
  BY <1>1 DEF BufferOK, Coherent, SameMap

LEMMA CountType ==
  ASSUME TypeOK, NEW names, Count(names)
  PROVE  stats' \in [Counters -> 0 .. StatMod - 1]
<1>1. \A c \in Counters : stats[c] \in 0 .. StatMod - 1
  BY DEF TypeOK
<1>2. \A n \in 0 .. StatMod - 1 : (n + 1) % StatMod \in 0 .. StatMod - 1
  BY MMUAssumption
<1> QED
  BY <1>1, <1>2 DEF Count

\* Allocating a second-level table keeps the type, and covers the page.
LEMMA WithTableType ==
  ASSUME TypeOK, NEW p \in Procs, NEW page \in Pages, WithTable(p, page)
  PROVE  /\ tables' \in [Procs -> SUBSET (0 .. MaxPages - 1)]
         /\ \A q \in Procs : tables[q] \subseteq tables'[q]
         /\ page[1] \in tables'[p]
BY DEF TypeOK, WithTable, Pages

\* A step that maps nothing keeps the invariant if it leaves the buffer right.
LEMMA KeepStep ==
  ASSUME IInv, NEW p \in Procs, NEW e \in [Pages -> PTE], SameMap(e, ptes[p]),
         pid' = p,
         ptes' = [ptes EXCEPT ![p] = e],
         UNCHANGED mapped,
         BufferOK(bufer', e),
         tables' \in [Procs -> SUBSET (0 .. MaxPages - 1)],
         \A q \in Procs : tables[q] \subseteq tables'[q],
         stats' \in [Counters -> 0 .. StatMod - 1],
         reply' \in [call : Calls \cup {"none"}, pid : Procs, page : Pages,
                    access : SUBSET Rights, code : Int, frame : Frames]
  PROVE  IInv'
<1>1. ptes' \in [Procs -> [Pages -> PTE]]
  BY DEF IInv, TypeOK
<1>2. /\ ptes'[p] = e
      /\ \A q \in Procs : SameMap(ptes'[q], ptes[q])
  BY DEF IInv, TypeOK, SameMap
<1>3. TypeOK'
  BY <1>1 DEF IInv, TypeOK, BufferOK
<1>4. EntriesAllocated'
  BY <1>2 DEF IInv, EntriesAllocated, SameMap
<1>5. FramesConsistent'
  <2>1. \A q \in Procs, g \in Pages :
          ptes'[q][g].valid => mapped'[q][ptes'[q][g].framePage] = {g}
    <3>1. \A q \in Procs, g \in Pages :
            ptes[q][g].valid => mapped[q][ptes[q][g].framePage] = {g}
      BY DEF IInv, FramesConsistent
    <3> TAKE q \in Procs, g \in Pages
    <3> HAVE ptes'[q][g].valid
    <3>2. SameMap(ptes'[q], ptes[q])
      BY <1>2
    <3>3. ptes[q][g].valid /\ ptes'[q][g].framePage = ptes[q][g].framePage
      BY <3>2 DEF SameMap
    <3> QED
      BY <3>1, <3>3
  <2>2. ASSUME NEW q \in Procs, NEW j \in Frames, mapped'[q][j] # {}
        PROVE  \E g \in Pages : /\ mapped'[q][j] = {g}
                                /\ ptes'[q][g].valid
                                /\ ptes'[q][g].framePage = j
    <3>1. PICK g \in Pages : mapped[q][j] = {g} /\ ptes[q][g].valid /\ ptes[q][g].framePage = j
      BY <2>2 DEF IInv, FramesConsistent
    <3> QED
      BY <1>2, <3>1 DEF SameMap
  <2> QED
    BY <2>1, <2>2 DEF FramesConsistent
<1>6. BufferOK(bufer', ptes'[pid'])
  BY <1>2
<1>7. TLBCoherent' /\ TLBUnique'
  BY <1>6 DEF BufferOK, Coherent, Unique, TLBCoherent, TLBUnique
<1> QED
  BY <1>3, <1>4, <1>5, <1>7 DEF IInv

\* The step that maps a page to frame j: what it changes, with e the entries of
\* the process after it, and that the rest stays.
Maps(call, p, page, protection, j, e) ==
  /\ ~ptes[p][page].valid
  /\ e[page] = [valid |-> TRUE, protection |-> protection,
                 referenced |-> 0, framePage |-> j]
  /\ \A g \in Pages \ {page} : e[g] = Entries(p, page)[g]
  /\ ptes' = [ptes EXCEPT ![p] = e]
  /\ mapped' = [mapped EXCEPT ![p][j] = {page}]
  /\ BufferOK(bufer', e)
  /\ \E s \in Holding(bufer', page) : bufer'[s].framePage = j
  /\ reply' = [call |-> call, pid |-> p, page |-> page, access |-> protection,
               code |-> MMU_OK, frame |-> j]

LEMMA NewEntryOK ==
  ASSUME IInv, NEW p \in Procs, NEW page \in Pages, NEW protection \in SUBSET Rights,
         NEW call \in Calls, NewEntry(call, p, page, protection)
  PROVE  \E j \in FreeFrames(p), e \in [Pages -> PTE] :
           Maps(call, p, page, protection, j, e)
<1> DEFINE j   == Min(FreeFrames(p))
           pte == [valid |-> TRUE, protection |-> protection,
                   referenced |-> 0, framePage |-> j]
           E   == Entries(p, page)
           e   == [E EXCEPT ![page] = pte]
<1>1. j \in FreeFrames(p) /\ j \in Frames
  BY MinOfFrames DEF NewEntry, FreeFrames
<1>2. pte \in PTE
  BY <1>1, TLBAssumption DEF PTE, Refs
<1>3. E \in [Pages -> PTE] /\ SameMap(E, ptes[p])
  BY EntriesOK
<1>4. /\ e \in [Pages -> PTE]
      /\ e[page] = pte
      /\ \A g \in Pages : g # page => e[g] = E[g]
  BY <1>2, <1>3
<1>5. ~ptes[p][page].valid
  BY <1>3 DEF NewEntry, SameMap
<1>6. BufferOK(Selected(p), ptes[p])
  BY SelectedOK
<1>7. Holding(Selected(p), page) = {}
  BY <1>5, <1>6 DEF Holding, BufferOK, Coherent
<1>8. BufferOK(Selected(p), e)
  <2>1. BufferOK(Selected(p), E)
    BY <1>3, <1>6, SameMapOK
  <2>2. ASSUME NEW i \in Slots, Selected(p)[i].valid
        PROVE  Selected(p)[i].page \in Pages \ {page}
    BY <2>1, <2>2, <1>7 DEF Holding, BufferOK, TlbEntry
  <2> HIDE DEF e, E
  <2> QED
    BY <1>4, <2>1, <2>2 DEF BufferOK, Coherent
<1>9. bufer' = Save(Selected(p), pte, page)
  BY DEF NewEntry
<1>10. /\ BufferOK(bufer', e)
       /\ \E s \in Holding(bufer', page) : bufer'[s].framePage = pte.framePage
  <2> HIDE DEF e
  <2>1. e[page].valid /\ e[page].framePage = pte.framePage /\ e[page].protection = pte.protection
    BY <1>4
  <2> HIDE DEF pte
  <2> QED
    BY <1>2, <1>7, <1>8, <1>9, <2>1, SaveOK
<1>11. /\ ptes' = [ptes EXCEPT ![p] = e]
       /\ mapped' = [mapped EXCEPT ![p][j] = {page}]
       /\ reply' = [call |-> call, pid |-> p, page |-> page, access |-> protection,
                    code |-> MMU_OK, frame |-> j]
  BY DEF NewEntry, Return
<1>12. pte.framePage = j
  OBVIOUS
<1>13. \A g \in Pages \ {page} : e[g] = Entries(p, page)[g]
  BY <1>4
<1>14. e[page] = [valid |-> TRUE, protection |-> protection,
                  referenced |-> 0, framePage |-> j]
  BY <1>4
<1>15. \E s \in Holding(bufer', page) : bufer'[s].framePage = j
  BY <1>10, <1>12
<1>16. e \in [Pages -> PTE]
  BY <1>4
<1>17. BufferOK(bufer', e)
  BY <1>10
<1> HIDE DEF e, j, pte
<1>18. Maps(call, p, page, protection, j, e)
  BY <1>5, <1>11, <1>13, <1>14, <1>15, <1>17 DEF Maps
<1> QED
  BY <1>1, <1>16, <1>18

LEMMA NewEntryStep ==
  ASSUME IInv, NEW p \in Procs, NEW page \in Pages, NEW protection \in SUBSET Rights,
         NEW call \in Calls, NewEntry(call, p, page, protection),
         pid' = p, WithTable(p, page),
         stats' \in [Counters -> 0 .. StatMod - 1]
  PROVE  IInv'
<1>1. PICK j \in FreeFrames(p), e \in [Pages -> PTE] :
           Maps(call, p, page, protection, j, e)
  BY NewEntryOK
<1> USE DEF Maps
<1>2. j \in Frames /\ mapped[p][j] = {}
  BY DEF FreeFrames
<1>3. SameMap(Entries(p, page), ptes[p])
  BY EntriesOK
<1>4. /\ e[page].valid /\ e[page].framePage = j
      /\ \A g \in Pages \ {page} :
           /\ e[g].valid => ptes[p][g].valid /\ e[g].framePage = ptes[p][g].framePage
           /\ ptes[p][g].valid => e[g].valid /\ e[g].framePage = ptes[p][g].framePage
  BY <1>1, <1>3 DEF SameMap
<1>5. /\ ptes'[p] = e
      /\ \A q \in Procs \ {p} : ptes'[q] = ptes[q]
      /\ mapped'[p][j] = {page}
      /\ \A i \in Frames \ {j} : mapped'[p][i] = mapped[p][i]
      /\ \A q \in Procs \ {p} : mapped'[q] = mapped[q]
  BY <1>1, <1>2 DEF IInv, TypeOK
<1>6. /\ tables' \in [Procs -> SUBSET (0 .. MaxPages - 1)]
      /\ \A q \in Procs : tables[q] \subseteq tables'[q]
      /\ page[1] \in tables'[p]
  BY WithTableType DEF IInv
<1>7. TypeOK'
  <2>1. ptes' \in [Procs -> [Pages -> PTE]] /\ mapped' \in [Procs -> [Frames -> SUBSET Pages]]
    BY <1>1, <1>2 DEF IInv, TypeOK
  <2>2. reply' \in [call : Calls \cup {"none"}, pid : Procs, page : Pages,
                   access : SUBSET Rights, code : Int, frame : Frames]
    BY <1>1, <1>2 DEF MMU_OK
  <2> QED
    BY <1>1, <1>6, <2>1, <2>2 DEF TypeOK, BufferOK
<1>8. EntriesAllocated'
  <2> SUFFICES ASSUME NEW q \in Procs, NEW g \in Pages, ptes'[q][g].valid
               PROVE  g[1] \in tables'[q]
    BY DEF EntriesAllocated
  <2>1. CASE q = p /\ g = page
    BY <1>6, <2>1
  <2>2. CASE ~(q = p /\ g = page)
    <3>1. ptes[q][g].valid
      BY <1>4, <1>5, <2>2
    <3> QED
      BY <1>6, <3>1 DEF IInv, EntriesAllocated
  <2> QED
    BY <2>1, <2>2
<1>9. FramesConsistent'
  <2>1. ASSUME NEW q \in Procs, NEW g \in Pages, ptes'[q][g].valid
        PROVE  mapped'[q][ptes'[q][g].framePage] = {g}
    <3>1. CASE q = p /\ g = page
      BY <1>4, <1>5, <3>1
    <3>2. CASE q = p /\ g # page
      <4>1. ptes[p][g].valid /\ ptes'[p][g].framePage = ptes[p][g].framePage
        BY <1>4, <1>5, <2>1, <3>2
      <4>2. mapped[p][ptes[p][g].framePage] = {g}
        BY <4>1 DEF IInv, FramesConsistent
      <4>3. ptes[p][g].framePage \in Frames
        BY DEF IInv, TypeOK, PTE
      <4>4. ptes[p][g].framePage # j
        BY <1>2, <4>2
      <4> QED
        BY <1>5, <3>2, <4>1, <4>2, <4>3, <4>4
    <3>3. CASE q # p
      <4>1. ptes'[q] = ptes[q] /\ mapped'[q] = mapped[q] /\ ptes[q][g].valid
        BY <1>5, <2>1, <3>3
      <4>2. mapped[q][ptes[q][g].framePage] = {g}
        BY <4>1 DEF IInv, FramesConsistent
      <4> QED
        BY <4>1, <4>2
    <3> QED
      BY <3>1, <3>2, <3>3
  <2>2. ASSUME NEW q \in Procs, NEW i \in Frames, mapped'[q][i] # {}
        PROVE  \E g \in Pages : /\ mapped'[q][i] = {g}
                                /\ ptes'[q][g].valid
                                /\ ptes'[q][g].framePage = i
    <3>1. CASE q = p /\ i = j
      BY <1>4, <1>5, <3>1
    <3>2. CASE ~(q = p /\ i = j)
      <4>1. mapped'[q][i] = mapped[q][i]
        BY <1>5, <3>2
      <4>2. PICK g \in Pages : mapped[q][i] = {g} /\ ptes[q][g].valid /\ ptes[q][g].framePage = i
        BY <2>2, <4>1 DEF IInv, FramesConsistent
      <4>3. ~(q = p /\ g = page)
        BY <1>1, <4>2
      <4>4. ptes'[q][g].valid /\ ptes'[q][g].framePage = i
        BY <1>4, <1>5, <4>2, <4>3
      <4> QED
        BY <4>1, <4>2, <4>4
    <3> QED
      BY <3>1, <3>2
  <2> QED
    BY <2>1, <2>2 DEF FramesConsistent
<1>10. TLBCoherent' /\ TLBUnique'
  BY <1>1, <1>5 DEF BufferOK, Coherent, Unique, TLBCoherent, TLBUnique
<1> QED
  BY <1>7, <1>8, <1>9, <1>10 DEF IInv

-----------------------------------------------------------------------------
(* One lemma per operation: it keeps the invariant.                        *)

LEMMA ProcTypes ==
  ASSUME IInv, NEW p \in Procs
  PROVE  /\ ptes[p] \in [Pages -> PTE]
         /\ ptes = [ptes EXCEPT ![p] = ptes[p]]
         /\ SameMap(ptes[p], ptes[p])
         /\ tables \in [Procs -> SUBSET (0 .. MaxPages - 1)]
BY DEF IInv, TypeOK, SameMap

\* No refusal is reported with a frame, and frame 0 exists.
LEMMA ReplyType ==
  ASSUME NEW call \in Calls, NEW p \in Procs, NEW page \in Pages,
         NEW access \in SUBSET Rights, NEW code \in Int, NEW frame \in Frames,
         Return(call, p, page, access, code, frame)
  PROVE  reply' \in [call : Calls \cup {"none"}, pid : Procs, page : Pages,
                    access : SUBSET Rights, code : Int, frame : Frames]
BY DEF Return

LEMMA FrameZero == 0 \in Frames
BY TLBAssumption DEF Frames

LEMMA CodeType ==
  \A current, access : CheckPermission(current, access) \in -5 .. 0
BY DEF CheckPermission, MMU_OK, MMU_FORBIDEN_ACCESS, MMU_FORBIDEN_READ,
       MMU_FORBIDEN_WRITE, MMU_FORBIDEN_EXECUTE

\* A code survives its conversion to uint8_t as far as its being zero goes.
LEMMA Uint8OfCode ==
  ASSUME NEW current, NEW access
  PROVE  /\ ToUint8(CheckPermission(current, access)) \in 0 .. 255
         /\ ToUint8(CheckPermission(current, access)) = MMU_OK
              <=> CheckPermission(current, access) = MMU_OK
<1> DEFINE v == CheckPermission(current, access)
<1>1. v \in -5 .. 0
  BY CodeType
<1> HIDE DEF v
<1>2. v = 0 \/ (v < 0 /\ v % 256 = v + 256)
  BY <1>1
<1>3. ToUint8(v) \in 0 .. 255 /\ (ToUint8(v) = MMU_OK <=> v = MMU_OK)
  BY <1>1, <1>2 DEF ToUint8, MMU_OK
<1> QED
  BY <1>3 DEF v

LEMMA NoNewEntryStep ==
  ASSUME IInv, NEW p \in Procs, NEW page \in Pages, NEW protection \in SUBSET Rights,
         NEW call \in Calls, NoNewEntry(call, p, page, protection),
         pid' = p, WithTable(p, page),
         stats' \in [Counters -> 0 .. StatMod - 1]
  PROVE  IInv'
<1>1. Entries(p, page) \in [Pages -> PTE] /\ SameMap(Entries(p, page), ptes[p])
  BY EntriesOK
<1>2. BufferOK(bufer', Entries(p, page))
  BY <1>1, SelectedOK, SameMapOK DEF NoNewEntry
<1>3. reply' \in [call : Calls \cup {"none"}, pid : Procs, page : Pages,
                  access : SUBSET Rights, code : Int, frame : Frames]
  BY ReplyType, FrameZero DEF NoNewEntry, MMU_FORBIDEN_ACCESS
<1>4. /\ tables' \in [Procs -> SUBSET (0 .. MaxPages - 1)]
      /\ \A q \in Procs : tables[q] \subseteq tables'[q]
  BY WithTableType DEF IInv
<1>5. ptes' = [ptes EXCEPT ![p] = Entries(p, page)] /\ UNCHANGED mapped
  BY DEF NoNewEntry
<1> QED
  BY <1>1, <1>2, <1>3, <1>4, <1>5, KeepStep

\* find() stopped at a slot: whatever it answers, the buffer stays right.
LEMMA TlbStep ==
  ASSUME IInv, NEW p \in Procs, NEW page \in Pages, NEW access \in SUBSET Rights,
         pid' = p,
         TlbHit(p, page, access) \/ TlbForbidden(p, page, access)
  PROVE  IInv'
<1> DEFINE b == Selected(p)
           i == Min(Holding(b, page))
<1>1. BufferOK(b, ptes[p])
  BY SelectedOK
<1>2. i \in Holding(b, page) /\ i \in Slots
  BY MinOfSlots DEF Holding, TlbHit, TlbForbidden
<1>3. b[i] \in TlbEntry
  BY <1>1, <1>2 DEF BufferOK
<1>4. BufferOK(bufer', ptes[p])
  <2>1. CASE TlbForbidden(p, page, access)
    BY <1>1, <2>1 DEF TlbForbidden
  <2>2. CASE TlbHit(p, page, access)
    <3>1. bufer' = [b EXCEPT ![i].references = Bump(@)]
      BY <2>2 DEF TlbHit
    <3>2. Bump(b[i].references) \in Refs
      BY <1>3, BumpType DEF TlbEntry
    <3> HIDE DEF b, i
    <3>3. /\ bufer' \in [Slots -> TlbEntry]
          /\ \A s \in Slots : /\ bufer'[s].valid = b[s].valid
                              /\ bufer'[s].page = b[s].page
                              /\ bufer'[s].framePage = b[s].framePage
                              /\ bufer'[s].protection = b[s].protection
      BY <1>1, <1>2, <3>1, <3>2 DEF BufferOK, TlbEntry
    <3>4. Coherent(bufer', ptes[p]) /\ Unique(bufer')
      BY <1>1, <3>3 DEF BufferOK, Coherent, Unique
    <3> QED
      BY <3>3, <3>4 DEF BufferOK
  <2> QED
    BY <2>1, <2>2
<1>5. reply' \in [call : Calls \cup {"none"}, pid : Procs, page : Pages,
                  access : SUBSET Rights, code : Int, frame : Frames]
  <2>1. CASE TlbForbidden(p, page, access)
    BY <2>1, ReplyType, FrameZero, CodeType DEF TlbForbidden, Calls
  <2>2. CASE TlbHit(p, page, access)
    <3>1. b[i].framePage \in Frames
      BY <1>3 DEF TlbEntry
    <3> QED
      BY <2>2, <3>1, ReplyType DEF TlbHit, Calls, MMU_OK
  <2> QED
    BY <2>1, <2>2
<1>6. stats' \in [Counters -> 0 .. StatMod - 1]
  BY CountType DEF TlbHit, TlbForbidden, IInv
<1>7. UNCHANGED <<tables, ptes, mapped>>
  BY DEF TlbHit, TlbForbidden
<1> QED
  BY <1>4, <1>5, <1>6, <1>7, ProcTypes, KeepStep

\* getFromTables found the entry: the walk allocates at most a table.
LEMMA WalkStep ==
  ASSUME IInv, NEW p \in Procs, NEW page \in Pages, NEW access \in SUBSET Rights,
         pid' = p,
         WalkHit(p, page, access) \/ WalkForbidden(p, page, access)
  PROVE  IInv'
<1> DEFINE E   == Entries(p, page)
           pte == E[page]
<1>1. E \in [Pages -> PTE] /\ SameMap(E, ptes[p])
  BY EntriesOK
<1>2. BufferOK(Selected(p), E)
  BY <1>1, SelectedOK, SameMapOK
<1>3. pte \in PTE
  BY <1>1
<1>4. /\ tables' \in [Procs -> SUBSET (0 .. MaxPages - 1)]
      /\ \A q \in Procs : tables[q] \subseteq tables'[q]
  BY WithTableType DEF IInv, WalkHit, WalkForbidden
<1>5. stats' \in [Counters -> 0 .. StatMod - 1]
  BY CountType DEF WalkHit, WalkForbidden, IInv
<1>6. CASE WalkForbidden(p, page, access)
  <2>1. reply' \in [call : Calls \cup {"none"}, pid : Procs, page : Pages,
                    access : SUBSET Rights, code : Int, frame : Frames]
    BY <1>6, ReplyType, FrameZero, Uint8OfCode DEF WalkForbidden, Calls
  <2> QED
    BY <1>1, <1>2, <1>4, <1>5, <1>6, <2>1, KeepStep DEF WalkForbidden
<1>7. CASE WalkHit(p, page, access)
  <2> DEFINE e == [E EXCEPT ![page].referenced = Bump(@)]
  <2>1. Bump(pte.referenced) \in Refs
    BY <1>3, BumpType DEF PTE
  <2>2. e \in [Pages -> PTE]
    BY <1>1, <2>1 DEF PTE
  <2>3. SameMap(e, E)
    BY <1>1 DEF SameMap
  <2>4. SameMap(e, ptes[p])
    BY <1>1, <2>3 DEF SameMap
  <2>5. BufferOK(Save(Selected(p), pte, page), E)
    <3>1. Holding(Selected(p), page) = {} /\ pte.valid
      BY <1>7 DEF WalkHit, Miss
    <3> QED
      BY <1>2, <1>3, <3>1, SaveOK
  <2>6. BufferOK(bufer', e)
    BY <1>7, <2>3, <2>5, SameMapOK DEF WalkHit
  <2>7. reply' \in [call : Calls \cup {"none"}, pid : Procs, page : Pages,
                    access : SUBSET Rights, code : Int, frame : Frames]
    <3>1. pte.framePage \in Frames
      BY <1>3 DEF PTE
    <3> QED
      BY <1>7, <3>1, ReplyType DEF WalkHit, Calls, MMU_OK
  <2>8. ptes' = [ptes EXCEPT ![p] = e] /\ UNCHANGED mapped
    BY <1>7 DEF WalkHit
  <2> HIDE DEF e
  <2> QED
    BY <1>4, <1>5, <2>2, <2>4, <2>6, <2>7, <2>8, KeepStep
<1> QED
  BY <1>6, <1>7

LEMMA CreateEntryStep ==
  ASSUME IInv, NEW p \in Procs, NEW page \in Pages, NEW protection \in SUBSET Rights,
         CreateEntry(p, page, protection)
  PROVE  IInv'
<1>1. CASE NewEntry("createEntry", p, page, protection) /\ UNCHANGED stats
  <2>1. stats' \in [Counters -> 0 .. StatMod - 1]
    BY <1>1 DEF IInv, TypeOK
  <2> QED
    BY <1>1, <2>1, NewEntryStep DEF CreateEntry, Calls
<1>2. CASE /\ NoNewEntry("createEntry", p, page, protection)
           /\ Count({"m_page_forbiden"})
  <2>1. stats' \in [Counters -> 0 .. StatMod - 1]
    BY <1>2, CountType DEF IInv
  <2> QED
    BY <1>2, <2>1, NoNewEntryStep DEF CreateEntry, Calls
<1> QED
  BY <1>1, <1>2 DEF CreateEntry

LEMMA PageFaultStep ==
  ASSUME IInv, NEW p \in Procs, NEW page \in Pages, NEW access \in SUBSET Rights,
         pid' = p, PageFault(p, page, access)
  PROVE  IInv'
<1>1. stats' \in [Counters -> 0 .. StatMod - 1]
  BY CountType DEF IInv, PageFault
<1> QED
  BY <1>1, NewEntryStep, NoNewEntryStep DEF PageFault, Calls

LEMMA StepInvariant ==
  ASSUME IInv, [Next]_vars
  PROVE  IInv'
<1>1. CASE UNCHANGED vars
  <2>1. TypeOK'
    BY <1>1 DEF vars, IInv, TypeOK
  <2>2. EntriesAllocated' /\ TLBCoherent' /\ TLBUnique'
    BY <1>1 DEF vars, IInv, EntriesAllocated, TLBCoherent, TLBUnique
  <2>3. FramesConsistent'
    <3>1. ptes' = ptes /\ mapped' = mapped /\ FramesConsistent
      BY <1>1 DEF vars, IInv
    <3>2. \A p \in Procs, g \in Pages :
            ptes'[p][g].valid => mapped'[p][ptes'[p][g].framePage] = {g}
      BY <3>1, SMT DEF FramesConsistent
    <3>3. \A p \in Procs, j \in Frames :
            \/ mapped'[p][j] = {}
            \/ \E g \in Pages : /\ mapped'[p][j] = {g}
                                /\ ptes'[p][g].valid
                                /\ ptes'[p][g].framePage = j
      BY <3>1, SMT DEF FramesConsistent
    <3> QED
      BY <3>2, <3>3 DEF FramesConsistent
  <2> QED
    BY <2>1, <2>2, <2>3 DEF IInv
<1>2. ASSUME NEW p \in Procs, NEW page \in ReqPages, NEW access \in ReqAccess,
             CreateEntry(p, page, access) \/ GetPhysicalAddress(p, page, access)
      PROVE  IInv'
  <2>1. page \in Pages /\ access \in SUBSET Rights
    BY MMUAssumption
  <2>2. CASE CreateEntry(p, page, access)
    BY <2>1, <2>2, CreateEntryStep
  <2>3. CASE GetPhysicalAddress(p, page, access)
    BY <2>1, <2>3, TlbStep, WalkStep, PageFaultStep DEF GetPhysicalAddress
  <2> QED
    BY <1>2, <2>2, <2>3
<1> QED
  BY <1>1, <1>2 DEF Next

LEMMA InitInvariant == Init => IInv
<1> SUFFICES ASSUME Init PROVE IInv
  OBVIOUS
<1>1. BufferOK(bufer, ptes[pid])
  BY FlushedOK DEF Init
<1>2. 0 \in Procs /\ 0 \in 0 .. StatMod - 1
  BY MMUAssumption DEF Procs
<1>3. TypeOK
  BY <1>1, <1>2, EmptyPTEType, PagesOrigin, FrameZero
     DEF Init, TypeOK, BufferOK, Calls, MMU_FORBIDEN_ACCESS
<1>4. \A p \in Procs, g \in Pages : ~ptes[p][g].valid
  BY DEF Init, EmptyPTE
<1>5. EntriesAllocated /\ FramesConsistent
  BY <1>4 DEF Init, EntriesAllocated, FramesConsistent
<1> QED
  BY <1>1, <1>3, <1>5, BuferOK

-----------------------------------------------------------------------------
(* The theorems.                                                           *)

\* Every reachable state of the MMU is well typed, its frame list and its page
\* tables agree, and its TLB holds only what the tables of the selected process
\* say, each page at most once.
THEOREM Invariance == Spec => []IInv
<1>1. Init => IInv
  BY InitInvariant
<1>2. IInv /\ [Next]_vars => IInv'
  BY StepInvariant
<1> QED
  BY <1>1, <1>2, PTL DEF Spec

\* The buffer never answers for another process or with a stale entry.
THEOREM Coherence == Spec => []TLBCoherent
<1>1. IInv => TLBCoherent
  BY DEF IInv
<1> QED
  BY <1>1, Invariance, PTL

\* Every variable keeps its type, whatever is asked for.
THEOREM Typing == Spec => []TypeOK
<1>1. IInv => TypeOK
  BY DEF IInv
<1> QED
  BY <1>1, Invariance, PTL

\* find() can stop at the first slot that holds a page: no other slot does.
THEOREM Uniqueness == Spec => []TLBUnique
<1>1. IInv => TLBUnique
  BY DEF IInv
<1> QED
  BY <1>1, Invariance, PTL

\* No table with entries is ever allocated again: a page whose table is missing
\* has no entry (MMU.hpp:43-48, 135-140).
THEOREM Allocation == Spec => []EntriesAllocated
<1>1. IInv => EntriesAllocated
  BY DEF IInv
<1> QED  BY <1>1, Invariance, PTL

\* No two pages of a process share a frame: createEntry's search always takes
\* one that is free.
THEOREM FrameConsistency == Spec => []FramesConsistent
<1>1. IInv => FramesConsistent
  BY DEF IInv
<1> QED
  BY <1>1, Invariance, PTL

\* One step seen through the map alone: either no mapping changes, or p's page
\* gets one on a free frame.
Untouched == \A q \in Procs : SameMap(ptes'[q], ptes[q])

LEMMA UntouchedBy ==
  ASSUME IInv, NEW p \in Procs, NEW e \in [Pages -> PTE], SameMap(e, ptes[p]),
         ptes' = [ptes EXCEPT ![p] = e]
  PROVE  Untouched
<1>1. ptes \in [Procs -> [Pages -> PTE]]
  BY DEF IInv, TypeOK
<1>2. ptes'[p] = e /\ \A q \in Procs \ {p} : ptes'[q] = ptes[q]
  BY <1>1
<1> QED
  BY <1>2 DEF Untouched, SameMap

\* Every call but those that map a page leaves the map alone.
LEMMA UntouchedStep ==
  ASSUME IInv, NEW p \in Procs, NEW page \in Pages, NEW access \in SUBSET Rights,
         \/ \E call \in Calls : NoNewEntry(call, p, page, access)
         \/ TlbHit(p, page, access)
         \/ TlbForbidden(p, page, access)
         \/ WalkHit(p, page, access)
         \/ WalkForbidden(p, page, access)
  PROVE  Untouched
<1>1. Entries(p, page) \in [Pages -> PTE] /\ SameMap(Entries(p, page), ptes[p])
  BY EntriesOK
<1>2. CASE \/ \E call \in Calls : NoNewEntry(call, p, page, access)
           \/ WalkForbidden(p, page, access)
  BY <1>1, <1>2, UntouchedBy DEF NoNewEntry, WalkForbidden
<1>3. CASE TlbHit(p, page, access) \/ TlbForbidden(p, page, access)
  BY <1>3, ProcTypes, UntouchedBy DEF TlbHit, TlbForbidden
<1>4. CASE WalkHit(p, page, access)
  <2> DEFINE E == Entries(p, page)
             e == [E EXCEPT ![page].referenced = Bump(@)]
  <2>1. Bump(E[page].referenced) \in Refs
    BY <1>1, BumpType DEF PTE
  <2>2. e \in [Pages -> PTE]
    BY <1>1, <2>1 DEF PTE
  <2>3. SameMap(e, ptes[p])
    <3>1. SameMap(e, E)
      BY <1>1 DEF SameMap
    <3> QED
      BY <1>1, <3>1 DEF SameMap
  <2>4. ptes' = [ptes EXCEPT ![p] = e]
    BY <1>4 DEF WalkHit
  <2> HIDE DEF e
  <2> QED
    BY <2>2, <2>3, <2>4, UntouchedBy
<1> QED
  BY <1>2, <1>3, <1>4

\* The body of MappingStable for one page.
Stable(p, g) ==
  ptes[p][g].valid =>
    /\ ptes'[p][g].valid
    /\ ptes'[p][g].framePage = ptes[p][g].framePage
    /\ ptes'[p][g].protection = ptes[p][g].protection

LEMMA StableStep ==
  ASSUME IInv, [Next]_vars
  PROVE  \A p \in Procs, g \in Pages : Stable(p, g)
<1>1. ASSUME Untouched
      PROVE  \A p \in Procs, g \in Pages : Stable(p, g)
  BY <1>1 DEF Untouched, SameMap, Stable
<1>2. ASSUME NEW call \in Calls, NEW p \in Procs, NEW page \in Pages,
             NEW access \in SUBSET Rights, NewEntry(call, p, page, access)
      PROVE  \A q \in Procs, g \in Pages : Stable(q, g)
  <2>1. PICK j \in FreeFrames(p), e \in [Pages -> PTE] : Maps(call, p, page, access, j, e)
    BY <1>2, NewEntryOK
  <2>2. SameMap(Entries(p, page), ptes[p])
    BY EntriesOK
  <2> SUFFICES ASSUME NEW q \in Procs, NEW g \in Pages, ptes[q][g].valid
               PROVE  /\ ptes'[q][g].valid
                      /\ ptes'[q][g].framePage = ptes[q][g].framePage
                      /\ ptes'[q][g].protection = ptes[q][g].protection
    BY DEF Stable
  <2>3. ptes' = [ptes EXCEPT ![p] = e] /\ ptes \in [Procs -> [Pages -> PTE]]
    BY <2>1 DEF Maps, IInv, TypeOK
  <2>4. CASE q # p
    BY <2>3, <2>4
  <2>5. CASE q = p
    <3>1. g # page
      BY <2>1, <2>5 DEF Maps
    <3>2. ptes'[q][g] = Entries(p, page)[g]
      BY <2>1, <2>3, <2>5, <3>1 DEF Maps
    <3> QED
      BY <2>2, <2>5, <3>2 DEF SameMap
  <2> QED
    BY <2>4, <2>5
<1>3. CASE UNCHANGED vars
  BY <1>3 DEF vars, Stable
<1>4. CASE Next
  <2>1. PICK p \in Procs, page \in Pages, access \in SUBSET Rights :
          CreateEntry(p, page, access) \/ GetPhysicalAddress(p, page, access)
    BY <1>4, MMUAssumption DEF Next
  <2> QED
    BY <1>1, <1>2, <2>1, UntouchedStep
       DEF CreateEntry, GetPhysicalAddress, PageFault, Calls
<1> QED
  BY <1>3, <1>4

\* Whatever is asked of the MMU and by whom, a page once mapped keeps its frame
\* and its protection.
THEOREM Stability == Spec => MappingStable
<1>1. IInv /\ [Next]_vars => [\A p \in Procs, g \in Pages : ptes[p][g].valid =>
                                /\ ptes'[p][g].valid
                                /\ ptes'[p][g].framePage = ptes[p][g].framePage
                                /\ ptes'[p][g].protection = ptes[p][g].protection]_vars
  BY StableStep DEF Stable
<1> QED
  BY <1>1, Invariance, PTL DEF Spec, MappingStable

-----------------------------------------------------------------------------
(* What has been granted is in the buffer.                                 *)

LEMMA GrantedStep ==
  ASSUME IInv, GrantedIsCached, [Next]_vars
  PROVE  GrantedIsCached'
<1>1. CASE UNCHANGED vars
  BY <1>1 DEF vars, GrantedIsCached, Holding
<1>2. ASSUME NEW call \in Calls, NEW p \in Procs, NEW page \in Pages,
             NEW access \in SUBSET Rights, pid' = p, NewEntry(call, p, page, access)
      PROVE  GrantedIsCached'
  <2>1. PICK j \in FreeFrames(p), e \in [Pages -> PTE] : Maps(call, p, page, access, j, e)
    BY <1>2, NewEntryOK
  <2> QED
    BY <1>2, <2>1 DEF Maps, GrantedIsCached
<1>3. ASSUME NEW call \in Calls, NEW p \in Procs, NEW page \in Pages,
             NEW access \in SUBSET Rights, NoNewEntry(call, p, page, access)
      PROVE  GrantedIsCached'
  BY <1>3 DEF NoNewEntry, Return, GrantedIsCached, MMU_OK, MMU_FORBIDEN_ACCESS
<1>4. ASSUME NEW p \in Procs, NEW page \in Pages, NEW access \in SUBSET Rights,
             TlbForbidden(p, page, access) \/ WalkForbidden(p, page, access)
      PROVE  GrantedIsCached'
  BY <1>4, Uint8OfCode DEF TlbForbidden, WalkForbidden, Return, GrantedIsCached
<1>5. ASSUME NEW p \in Procs, NEW page \in Pages, NEW access \in SUBSET Rights,
             pid' = p, TlbHit(p, page, access)
      PROVE  GrantedIsCached'
  <2> DEFINE b == Selected(p)
             i == Min(Holding(b, page))
  <2>1. b \in [Slots -> TlbEntry]
    BY SelectedOK DEF BufferOK
  <2>2. i \in Holding(b, page)
    BY <1>5, MinOfSlots DEF Holding, TlbHit
  <2>3. bufer' = [b EXCEPT ![i].references = Bump(@)]
    BY <1>5 DEF TlbHit
  <2>4. reply'.pid = p /\ reply'.page = page /\ reply'.frame = b[i].framePage
    BY <1>5 DEF TlbHit, Return
  <2> HIDE DEF b, i
  <2>5. i \in Holding(bufer', page) /\ bufer'[i].framePage = b[i].framePage
    BY <2>1, <2>2, <2>3 DEF Holding, TlbEntry
  <2> QED
    BY <1>5, <2>4, <2>5 DEF GrantedIsCached
<1>6. ASSUME NEW p \in Procs, NEW page \in Pages, NEW access \in SUBSET Rights,
             pid' = p, WalkHit(p, page, access)
      PROVE  GrantedIsCached'
  <2> DEFINE E   == Entries(p, page)
             pte == E[page]
  <2>1. BufferOK(Selected(p), E) /\ pte \in PTE
    BY EntriesOK, SelectedOK, SameMapOK
  <2>2. Holding(Selected(p), page) = {} /\ pte.valid
    BY <1>6 DEF WalkHit, Miss
  <2>3. \E s \in Holding(bufer', page) : bufer'[s].framePage = pte.framePage
    <3>1. bufer' = Save(Selected(p), pte, page)
      BY <1>6 DEF WalkHit
    <3> HIDE DEF E
    <3> QED
      BY <2>1, <2>2, <3>1, SaveOK
  <2>4. reply'.pid = p /\ reply'.page = page /\ reply'.frame = pte.framePage
    BY <1>6 DEF WalkHit, Return
  <2> QED
    BY <1>6, <2>3, <2>4 DEF GrantedIsCached
<1>7. CASE Next
  <2>1. PICK p \in Procs, page \in Pages, access \in SUBSET Rights :
          CreateEntry(p, page, access) \/ GetPhysicalAddress(p, page, access)
    BY <1>7, MMUAssumption DEF Next
  <2> QED
    BY <1>2, <1>3, <1>4, <1>5, <1>6, <2>1
       DEF CreateEntry, GetPhysicalAddress, PageFault, Calls
<1> QED
  BY <1>1, <1>7

\* A granted access leaves its translation in the buffer, through evictions.
THEOREM Caching == Spec => []GrantedIsCached
<1>1. Init => GrantedIsCached
  BY DEF Init, GrantedIsCached, MMU_OK, MMU_FORBIDEN_ACCESS
<1>2. IInv /\ GrantedIsCached /\ [Next]_vars => GrantedIsCached'
  BY GrantedStep
<1> QED
  BY <1>1, <1>2, Invariance, PTL DEF Spec

-----------------------------------------------------------------------------
(* The tallies of page hits.  They agree because an entry starts at zero    *)
(* and is never lost: allocating a table writes over entries that count     *)
(* nothing, and mapping a page over one that has no entry yet.              *)

UnusedUncounted ==
  \A p \in Procs, g \in Pages : ~ptes[p][g].valid => ptes[p][g].referenced = 0

HitsInv == IInv /\ UnusedUncounted /\ PageHitsReconcile

LEMMA TableFinite == IsFiniteSet(Procs \X Pages)
<1>1. IsFiniteSet(Procs) /\ IsFiniteSet(0 .. MaxPages - 1)
  BY FS_Interval, MMUAssumption, TLBAssumption DEF Procs
<1>2. IsFiniteSet(Pages)
  BY <1>1, FS_Product DEF Pages
<1> QED
  BY <1>1, <1>2, FS_Product

HitsOf(pt) == [pg \in Procs \X Pages |-> pt[pg[1]][pg[2]].referenced]

LEMMA TableHitsType ==
  ASSUME NEW pt \in [Procs -> [Pages -> PTE]]
  PROVE  HitsOf(pt) \in [Procs \X Pages -> Refs] /\ HitsOf(pt) \in [Procs \X Pages -> Nat]
<1>1. \A pg \in Procs \X Pages : pt[pg[1]][pg[2]] \in PTE
  OBVIOUS
<1>2. \A pg \in Procs \X Pages : pt[pg[1]][pg[2]].referenced \in Refs
  BY <1>1 DEF PTE
<1>3. Refs \subseteq Nat
  BY TLBAssumption DEF Refs
<1> QED
  BY <1>2, <1>3 DEF HitsOf

\* A step that neither counts a hit nor changes an entry's count.
SameHits ==
  /\ \A q \in Procs, g \in Pages : ptes'[q][g].referenced = ptes[q][g].referenced
  /\ stats'["m_page_hit"] = stats["m_page_hit"]

LEMMA SameHitsOK ==
  ASSUME PageHitsReconcile, SameHits
  PROVE  PageHitsReconcile'
<1>1. TableHits' = TableHits
  BY DEF TableHits, SameHits
<1> QED
  BY <1>1 DEF PageHitsReconcile, SameHits

\* Allocating a table leaves every count as it is.
LEMMA EntriesHits ==
  ASSUME IInv, UnusedUncounted, NEW p \in Procs, NEW page \in Pages, NEW g \in Pages
  PROVE  Entries(p, page)[g].referenced = ptes[p][g].referenced
<1>1. CASE page[1] \in tables[p] \/ g[1] # page[1]
  BY <1>1 DEF Entries
<1>2. CASE page[1] \notin tables[p] /\ g[1] = page[1]
  <2>1. ~ptes[p][g].valid
    BY <1>2 DEF IInv, EntriesAllocated
  <2>2. ptes[p][g].referenced = 0
    BY <2>1 DEF UnusedUncounted
  <2>3. Entries(p, page)[g] = EmptyPTE
    BY <1>2 DEF Entries
  <2> QED
    BY <2>2, <2>3 DEF EmptyPTE
<1> QED
  BY <1>1, <1>2

\* Counting other events leaves the hits alone.
LEMMA OtherCount ==
  ASSUME NEW names, Count(names), "m_page_hit" \notin names
  PROVE  stats'["m_page_hit"] = stats["m_page_hit"]
BY DEF Count, Counters

\* The entries of one process replaced by others with the same counts.
LEMMA SameHitsBy ==
  ASSUME IInv, NEW p \in Procs, NEW e,
         \A g \in Pages : /\ e[g].valid = ptes[p][g].valid
                          /\ e[g].referenced = ptes[p][g].referenced,
         ptes' = [ptes EXCEPT ![p] = e]
  PROVE  \A q \in Procs, g \in Pages : /\ ptes'[q][g].valid = ptes[q][g].valid
                                       /\ ptes'[q][g].referenced = ptes[q][g].referenced
<1>1. ptes \in [Procs -> [Pages -> PTE]]
  BY DEF IInv, TypeOK
<1>2. ptes'[p] = e /\ \A q \in Procs \ {p} : ptes'[q] = ptes[q]
  BY <1>1
<1> QED
  BY <1>2

\* The only step that counts a hit counts it in one entry as well.
LEMMA WalkHitHits ==
  ASSUME HitsInv, NEW p \in Procs, NEW page \in Pages, NEW access \in SUBSET Rights,
         WalkHit(p, page, access), IInv'
  PROVE  UnusedUncounted' /\ PageHitsReconcile'
<1> DEFINE E  == Entries(p, page)
           e  == [E EXCEPT ![page].referenced = Bump(@)]
           hit == <<p, page>>
           t  == SumFunction(TableHits)
           r  == ptes[p][page].referenced
<1>1. E \in [Pages -> PTE] /\ SameMap(E, ptes[p])
  BY EntriesOK DEF HitsInv
<1>2. \A g \in Pages : E[g].referenced = ptes[p][g].referenced
  BY EntriesHits DEF HitsInv
<1>3. E[page].valid /\ ptes' = [ptes EXCEPT ![p] = e]
  BY DEF WalkHit
<1>4. /\ e[page].referenced = Bump(r) /\ e[page].valid
      /\ \A g \in Pages \ {page} : e[g] = E[g]
  <2> HIDE DEF E
  <2> QED
    BY <1>1, <1>2, <1>3 DEF PTE
<1>5. ptes'[p] = e /\ \A q \in Procs \ {p} : ptes'[q] = ptes[q]
  BY <1>3 DEF HitsInv, IInv, TypeOK
<1> HIDE DEF e, E
<1>6. UnusedUncounted'
  <2> SUFFICES ASSUME NEW q \in Procs, NEW g \in Pages, ~ptes'[q][g].valid
               PROVE  ptes'[q][g].referenced = 0
    BY DEF UnusedUncounted
  <2>1. CASE q # p
    BY <1>5, <2>1 DEF HitsInv, UnusedUncounted
  <2>2. CASE q = p
    <3>1. g # page
      BY <1>4, <1>5, <2>2
    <3>2. ptes'[q][g] = E[g]
      BY <1>4, <1>5, <2>2, <3>1
    <3>3. ~ptes[p][g].valid
      BY <1>1, <3>2 DEF SameMap
    <3> QED
      BY <1>2, <3>2, <3>3 DEF HitsInv, UnusedUncounted
  <2> QED
    BY <2>1, <2>2
<1>7. ASSUME RefMod = StatMod
      PROVE  stats'["m_page_hit"] = SumFunction(TableHits') % StatMod
  <2>1. /\ TableHits \in [Procs \X Pages -> Nat] /\ TableHits' \in [Procs \X Pages -> Nat]
        /\ TableHits \in [Procs \X Pages -> Refs]
    BY TableHitsType DEF HitsInv, IInv, TypeOK, TableHits, HitsOf
  <2>2. hit \in Procs \X Pages /\ TableHits[hit] = r /\ TableHits'[hit] = Bump(r)
    BY <1>4, <1>5 DEF TableHits
  <2>3. ASSUME NEW y \in (Procs \X Pages) \ {hit}
        PROVE  TableHits'[y] = TableHits[y]
    <3>1. PICK q \in Procs, g \in Pages : y = <<q, g>>
      OBVIOUS
    <3>2. TableHits[y] = ptes[q][g].referenced /\ TableHits'[y] = ptes'[q][g].referenced
      BY <3>1 DEF TableHits
    <3>3. CASE q # p
      BY <1>5, <3>2, <3>3
    <3>4. CASE q = p
      <4>1. g # page
        BY <3>1, <3>4
      <4> QED
        BY <1>2, <1>4, <1>5, <3>2, <3>4, <4>1
    <3> QED
      BY <3>3, <3>4
  <2>4. SumFunction(TableHits') = t - r + Bump(r)
    BY <2>1, <2>2, <2>3, TableFinite, TotalChange DEF Total
  <2>5. t \in Nat
    BY <2>1, TableFinite, TotalType DEF Total
  <2>6. r \in Refs
    BY <2>1, <2>2
  <2>7. /\ StatMod \in Int /\ StatMod > 0
        /\ t \in Int /\ r \in Int /\ 0 <= r /\ r < StatMod
    BY <1>7, <2>5, <2>6, MMUAssumption DEF Refs
  <2>8. stats["m_page_hit"] = t % StatMod
    BY <1>7 DEF HitsInv, PageHitsReconcile
  <2>9. stats'["m_page_hit"] = (stats["m_page_hit"] + 1) % StatMod
    BY DEF WalkHit, Count, Counters
  <2>10. Bump(r) = (r + 1) % StatMod
    BY <1>7 DEF Bump
  <2> HIDE DEF t, r
  <2>11. (t - r + ((r + 1) % StatMod)) % StatMod = ((t % StatMod) + 1) % StatMod
    BY <2>7, RemainderTerm, Zenon
  <2> QED
    BY <2>4, <2>8, <2>9, <2>10, <2>11
<1> QED
  BY <1>6, <1>7 DEF PageHitsReconcile

\* Mapping a page takes an entry that counts nothing.
LEMMA NewEntryHits ==
  ASSUME HitsInv, NEW p \in Procs, NEW page \in Pages, NEW access \in SUBSET Rights,
         NEW call \in Calls, NewEntry(call, p, page, access)
  PROVE  /\ UnusedUncounted'
         /\ \A q \in Procs, g \in Pages : ptes'[q][g].referenced = ptes[q][g].referenced
<1>1. PICK j \in FreeFrames(p), e \in [Pages -> PTE] : Maps(call, p, page, access, j, e)
  BY NewEntryOK DEF HitsInv
<1>2. /\ SameMap(Entries(p, page), ptes[p])
      /\ \A g \in Pages : Entries(p, page)[g].referenced = ptes[p][g].referenced
  BY EntriesOK, EntriesHits DEF HitsInv
<1>3. ptes'[p] = e /\ \A q \in Procs \ {p} : ptes'[q] = ptes[q]
  BY <1>1 DEF HitsInv, IInv, TypeOK, Maps
<1>4. ptes[p][page].referenced = 0
  BY <1>1 DEF HitsInv, UnusedUncounted, Maps
<1>5. /\ e[page].referenced = 0 /\ e[page].valid
      /\ \A g \in Pages \ {page} : e[g] = Entries(p, page)[g]
  BY <1>1 DEF Maps
<1>6. ASSUME NEW q \in Procs, NEW g \in Pages
      PROVE  /\ ptes'[q][g].referenced = ptes[q][g].referenced
             /\ ~ptes'[q][g].valid => ~ptes[q][g].valid
  <2>1. CASE q # p
    BY <1>3, <2>1
  <2>2. CASE q = p /\ g = page
    BY <1>3, <1>4, <1>5, <2>2
  <2>3. CASE q = p /\ g # page
    <3>1. ptes'[q][g] = Entries(p, page)[g]
      BY <1>3, <1>5, <2>3
    <3> QED
      BY <1>2, <2>3, <3>1 DEF SameMap
  <2> QED
    BY <2>1, <2>2, <2>3
<1> QED
  BY <1>6 DEF HitsInv, UnusedUncounted

\* A call that maps nothing and counts no hit changes no entry's count.
LEMMA QuietHits ==
  ASSUME HitsInv, NEW p \in Procs, NEW page \in Pages, NEW access \in SUBSET Rights,
         \/ \E call \in Calls : NoNewEntry(call, p, page, access)
         \/ TlbHit(p, page, access)
         \/ TlbForbidden(p, page, access)
         \/ WalkForbidden(p, page, access)
  PROVE  /\ UnusedUncounted'
         /\ \A q \in Procs, g \in Pages : ptes'[q][g].referenced = ptes[q][g].referenced
<1>1. Entries(p, page) \in [Pages -> PTE] /\ SameMap(Entries(p, page), ptes[p])
  BY EntriesOK DEF HitsInv
<1>2. \A g \in Pages : Entries(p, page)[g].referenced = ptes[p][g].referenced
  BY EntriesHits DEF HitsInv
<1>3. ptes' = ptes \/ ptes' = [ptes EXCEPT ![p] = Entries(p, page)]
  BY DEF NoNewEntry, TlbHit, TlbForbidden, WalkForbidden
<1>4. \A q \in Procs, g \in Pages : /\ ptes'[q][g].valid = ptes[q][g].valid
                                    /\ ptes'[q][g].referenced = ptes[q][g].referenced
  <2>1. CASE ptes' = ptes
    BY <2>1
  <2>2. CASE ptes' = [ptes EXCEPT ![p] = Entries(p, page)]
    BY <1>1, <1>2, <2>2, SameHitsBy DEF HitsInv, SameMap
  <2> QED
    BY <1>3, <2>1, <2>2
<1> QED
  BY <1>4 DEF HitsInv, UnusedUncounted

LEMMA HitsStep ==
  ASSUME HitsInv, [Next]_vars
  PROVE  HitsInv'
<1>1. IInv'
  BY StepInvariant DEF HitsInv
<1>2. CASE UNCHANGED vars
  <2>1. SameHits /\ UnusedUncounted'
    BY <1>2 DEF vars, SameHits, UnusedUncounted, HitsInv
  <2> QED
    BY <1>1, <2>1, SameHitsOK DEF HitsInv
<1>3. ASSUME NEW p \in Procs, NEW page \in Pages, NEW access \in SUBSET Rights,
             CreateEntry(p, page, access) \/ GetPhysicalAddress(p, page, access),
             ~WalkHit(p, page, access)
      PROVE  UnusedUncounted' /\ SameHits
  <2>1. \/ \E call \in Calls : NewEntry(call, p, page, access)
        \/ \E call \in Calls : NoNewEntry(call, p, page, access)
        \/ TlbHit(p, page, access)
        \/ TlbForbidden(p, page, access)
        \/ WalkForbidden(p, page, access)
    BY <1>3 DEF CreateEntry, GetPhysicalAddress, PageFault, Calls
  <2>2. stats'["m_page_hit"] = stats["m_page_hit"]
    <3>1. UNCHANGED stats \/ \E names : Count(names) /\ "m_page_hit" \notin names
      BY <1>3 DEF CreateEntry, GetPhysicalAddress, PageFault, TlbHit, TlbForbidden,
                  WalkForbidden
    <3> QED
      BY <3>1, OtherCount
  <2> QED
    BY <2>1, <2>2, NewEntryHits, QuietHits DEF SameHits
<1>4. CASE Next
  <2>1. PICK p \in Procs, page \in Pages, access \in SUBSET Rights :
          CreateEntry(p, page, access) \/ GetPhysicalAddress(p, page, access)
    BY <1>4, MMUAssumption DEF Next
  <2>2. CASE WalkHit(p, page, access)
    BY <1>1, <2>2, WalkHitHits DEF HitsInv
  <2>3. CASE ~WalkHit(p, page, access)
    BY <1>1, <1>3, <2>1, <2>3, SameHitsOK DEF HitsInv
  <2> QED
    BY <2>2, <2>3
<1> QED
  BY <1>2, <1>4

\* The MMU's count of page hits and those of the entries agree in every state,
\* whatever the processes, the evictions and the faults between two hits.
THEOREM Reconciled == Spec => []PageHitsReconcile
<1>1. Init => HitsInv
  <2> SUFFICES ASSUME Init PROVE HitsInv
    OBVIOUS
  <2>1. IInv
    BY InitInvariant
  <2>2. \A p \in Procs, g \in Pages : ptes[p][g].referenced = 0
    BY DEF Init, EmptyPTE
  <2>3. SumFunction(TableHits) = 0
    <3>1. TableHits \in [Procs \X Pages -> Nat]
      BY <2>1, TableHitsType DEF IInv, TypeOK, TableHits, HitsOf
    <3>2. \A x \in Procs \X Pages : TableHits[x] = 0
      BY <2>2 DEF TableHits
    <3> QED
      BY <3>1, <3>2, TableFinite, TotalZero DEF Total
  <2>4. stats["m_page_hit"] = 0
    BY DEF Init, Counters
  <2>5. 0 % StatMod = 0
    BY MMUAssumption, DividedBy, 0 = StatMod * 0 + 0
  <2> QED
    BY <2>1, <2>2, <2>3, <2>4, <2>5 DEF HitsInv, UnusedUncounted, PageHitsReconcile
<1>2. HitsInv /\ [Next]_vars => HitsInv'
  BY HitsStep
<1>3. HitsInv => PageHitsReconcile
  BY DEF HitsInv
<1> QED
  BY <1>1, <1>2, <1>3, PTL DEF Spec

-----------------------------------------------------------------------------
(* MMU implements PageMap.                                                 *)

\* The access check, bit by bit, says what Permits says.
LEMMA PermissionMeaning ==
  ASSUME NEW current \in SUBSET Rights, NEW access \in SUBSET Rights
  PROVE  CheckPermission(current, access) = MMU_OK <=> PM!Permits(current, access)
<1>1. \A r : r \in SymDiff(current, access) <=> ~(r \in current <=> r \in access)
  BY DEF SymDiff
<1>2. PM!Permits(current, access)
        <=> /\ \A r \in {"X", "W", "R"} : r \in access => r \in current
            /\ "S" \in current => "S" \in access
  BY DEF PM!Permits, Rights
<1> QED
  BY <1>1, <1>2 DEF CheckPermission, MMU_OK, MMU_FORBIDEN_ACCESS, MMU_FORBIDEN_READ,
                    MMU_FORBIDEN_WRITE, MMU_FORBIDEN_EXECUTE

\* The mappings of a table of entries.
OneMapping(pt, p, g) ==
  [pid |-> p, page |-> g, frame |-> pt[p][g].framePage, protection |-> pt[p][g].protection]
MapOf(pt) ==
  UNION {{OneMapping(pt, p, g) : g \in {x \in Pages : pt[p][x].valid}} : p \in Procs}

LEMMA InMapOf ==
  ASSUME NEW pt
  PROVE  \A m : m \in MapOf(pt) <=>
           \E p \in Procs, g \in Pages : pt[p][g].valid /\ m = OneMapping(pt, p, g)
BY DEF MapOf

LEMMA MapBar == mapBar = MapOf(ptes) /\ mapBar' = MapOf(ptes')
BY DEF mapBar, MapOf, OneMapping

\* What PageMap asks of the map, in terms of the page table entries.
LEMMA Mappings ==
  ASSUME IInv, NEW p \in Procs, NEW page \in Pages
  PROVE  /\ ptes[p][page].valid =>
              \A m : m \in PM!MappingsOf(p, page) <=> m = OneMapping(ptes, p, page)
         /\ ~ptes[p][page].valid => PM!MappingsOf(p, page) = {}
         /\ PM!FreeFrames(p) = FreeFrames(p)
<1>1. \A m : m \in PM!MappingsOf(p, page) <=>
               /\ \E q \in Procs, g \in Pages : ptes[q][g].valid /\ m = OneMapping(ptes, q, g)
               /\ m.pid = p /\ m.page = page
  BY MapBar, InMapOf DEF PM!MappingsOf
<1>2. \A q, g : OneMapping(ptes, q, g).pid = q /\ OneMapping(ptes, q, g).page = g
                /\ OneMapping(ptes, q, g).frame = ptes[q][g].framePage
  BY DEF OneMapping
<1>3. ASSUME ptes[p][page].valid
      PROVE  \A m : m \in PM!MappingsOf(p, page) <=> m = OneMapping(ptes, p, page)
  BY <1>1, <1>2, <1>3
<1>4. ASSUME ~ptes[p][page].valid
      PROVE  PM!MappingsOf(p, page) = {}
  BY <1>1, <1>2, <1>4
<1>5. ASSUME NEW f \in Frames
      PROVE  f \in PM!FreeFrames(p) <=> mapped[p][f] = {}
  <2>1. f \in PM!FreeFrames(p) <=> \A g \in Pages : ptes[p][g].valid => ptes[p][g].framePage # f
    BY <1>2, MapBar, InMapOf DEF PM!FreeFrames
  <2>2. (\A g \in Pages : ptes[p][g].valid => ptes[p][g].framePage # f) <=> mapped[p][f] = {}
    BY DEF IInv, FramesConsistent
  <2> QED
    BY <2>1, <2>2
<1> QED
  BY <1>3, <1>4, <1>5 DEF FreeFrames, PM!FreeFrames

\* A step that leaves the entries' map alone leaves PageMap's map alone.
LEMMA SameMapBar ==
  ASSUME Untouched
  PROVE  mapBar' = mapBar
<1>1. \A p \in Procs, g \in Pages :
        /\ ptes'[p][g].valid <=> ptes[p][g].valid
        /\ ptes'[p][g].valid => OneMapping(ptes', p, g) = OneMapping(ptes, p, g)
  BY DEF Untouched, SameMap, OneMapping
<1>2. \A m : m \in MapOf(ptes') <=> m \in MapOf(ptes)
  BY <1>1, InMapOf
<1> QED
  BY <1>2, MapBar

\* A step that maps a page adds its mapping to PageMap's map.
LEMMA MoreMapBar ==
  ASSUME IInv, NEW call \in Calls, NEW p \in Procs, NEW page \in Pages,
         NEW access \in SUBSET Rights, NEW j \in FreeFrames(p),
         NEW e \in [Pages -> PTE], Maps(call, p, page, access, j, e)
  PROVE  mapBar' = mapBar \cup {[pid |-> p, page |-> page, frame |-> j, protection |-> access]}
<1> DEFINE new == [pid |-> p, page |-> page, frame |-> j, protection |-> access]
<1>1. /\ ptes'[p][page].valid
      /\ OneMapping(ptes', p, page) = new
      /\ ~ptes[p][page].valid
  BY DEF Maps, OneMapping, IInv, TypeOK
<1>2. SameMap(Entries(p, page), ptes[p])
  BY EntriesOK
<1>3. ASSUME NEW q \in Procs, NEW g \in Pages, ~(q = p /\ g = page)
      PROVE  /\ ptes'[q][g].valid <=> ptes[q][g].valid
             /\ ptes'[q][g].valid => OneMapping(ptes', q, g) = OneMapping(ptes, q, g)
  <2>1. ptes' = [ptes EXCEPT ![p] = e] /\ ptes \in [Procs -> [Pages -> PTE]]
    BY DEF Maps, IInv, TypeOK
  <2>2. CASE q # p
    BY <2>1, <2>2 DEF OneMapping
  <2>3. CASE q = p /\ g # page
    <3>1. ptes'[q][g] = Entries(p, page)[g]
      BY <2>1, <2>3 DEF Maps
    <3> QED
      BY <1>2, <2>3, <3>1 DEF SameMap, OneMapping
  <2> QED
    BY <1>3, <2>2, <2>3
<1>4. \A m : m \in MapOf(ptes') <=> m \in MapOf(ptes) \/ m = new
  <2>1. ASSUME NEW m, m \in MapOf(ptes')
        PROVE  m \in MapOf(ptes) \/ m = new
    <3>1. PICK q \in Procs, g \in Pages : ptes'[q][g].valid /\ m = OneMapping(ptes', q, g)
      BY <2>1, InMapOf
    <3> QED
      BY <1>1, <1>3, <3>1, InMapOf
  <2>2. ASSUME NEW m, m \in MapOf(ptes)
        PROVE  m \in MapOf(ptes')
    <3>1. PICK q \in Procs, g \in Pages : ptes[q][g].valid /\ m = OneMapping(ptes, q, g)
      BY <2>2, InMapOf
    <3>2. ~(q = p /\ g = page)
      BY <1>1, <3>1
    <3>3. ptes'[q][g].valid /\ m = OneMapping(ptes', q, g)
      BY <1>3, <3>1, <3>2
    <3> QED
      BY <3>3, InMapOf
  <2>3. new \in MapOf(ptes')
    BY <1>1, InMapOf
  <2> QED
    BY <2>1, <2>2, <2>3
<1> QED
  BY <1>4, MapBar

\* What the caller sees of a reply.
LEMMA GrantedBar ==
  ASSUME NEW call, NEW p, NEW page, NEW access, NEW frame,
         Return(call, p, page, access, MMU_OK, frame)
  PROVE  PM!Granted(call, p, page, access, frame)
BY DEF Return, answerBar, PM!Granted

LEMMA DeniedBar ==
  ASSUME NEW call, NEW p, NEW page, NEW access, NEW code, code # MMU_OK,
         Return(call, p, page, access, code, 0)
  PROVE  PM!Denied(call, p, page, access)
<1>1. (code = MMU_OK) = FALSE
  OBVIOUS
<1>2. answerBar' = [call |-> call, pid |-> p, page |-> page, access |-> access,
                    granted |-> code = MMU_OK, frame |-> 0]
  BY DEF Return, answerBar
<1> QED
  BY <1>1, <1>2 DEF PM!Denied

LEMMA SimulateNew ==
  ASSUME IInv, NEW call \in Calls, NEW p \in Procs, NEW page \in Pages,
         NEW access \in SUBSET Rights, NewEntry(call, p, page, access)
  PROVE  PM!Map(call, p, page, access)
<1>1. PICK j \in FreeFrames(p), e \in [Pages -> PTE] : Maps(call, p, page, access, j, e)
  BY NewEntryOK
<1>2. ~ptes[p][page].valid
  BY <1>1 DEF Maps
<1>3. PM!MappingsOf(p, page) = {} /\ j \in PM!FreeFrames(p)
  BY <1>2, Mappings
<1>4. mapBar' = mapBar \cup {[pid |-> p, page |-> page, frame |-> j, protection |-> access]}
  BY <1>1, MoreMapBar
<1>5. PM!Granted(call, p, page, access, j)
  BY <1>1 DEF Maps, answerBar, PM!Granted
<1>6. j \in Frames
  BY DEF FreeFrames
<1> QED
  BY <1>3, <1>4, <1>5, <1>6 DEF PM!Map

LEMMA SimulateNoNew ==
  ASSUME IInv, NEW call \in Calls, NEW p \in Procs, NEW page \in Pages,
         NEW access \in SUBSET Rights, NoNewEntry(call, p, page, access)
  PROVE  /\ ptes[p][page].valid /\ call = "createEntry" => PM!Remap(p, page, access)
         /\ ~ptes[p][page].valid => PM!Exhausted(call, p, page, access)
<1>1. mapBar' = mapBar
  BY UntouchedStep, SameMapBar
<1>2. PM!Denied(call, p, page, access)
  <2>1. MMU_FORBIDEN_ACCESS # MMU_OK
    BY DEF MMU_OK, MMU_FORBIDEN_ACCESS
  <2> QED
    BY <2>1, DeniedBar DEF NoNewEntry
<1>3. ASSUME ptes[p][page].valid
      PROVE  PM!MappingsOf(p, page) # {}
  BY <1>3, Mappings
<1>4. ASSUME ~ptes[p][page].valid
      PROVE  PM!MappingsOf(p, page) = {} /\ PM!FreeFrames(p) = {}
  <2>1. ~Entries(p, page)[page].valid
    BY <1>4, EntriesOK DEF SameMap
  <2> QED
    BY <1>4, <2>1, Mappings DEF NoNewEntry
<1> QED
  BY <1>1, <1>2, <1>3, <1>4 DEF PM!Remap, PM!Exhausted

\* A translation of a mapped page, found in the buffer or in the tables, is
\* PageMap's use of the mapping.
LEMMA SimulateUse ==
  ASSUME IInv, NEW p \in Procs, NEW page \in Pages, NEW access \in SUBSET Rights,
         \/ TlbHit(p, page, access)
         \/ TlbForbidden(p, page, access)
         \/ WalkHit(p, page, access)
         \/ WalkForbidden(p, page, access)
  PROVE  PM!Use(p, page, access)
<1> DEFINE b   == Selected(p)
           i   == Min(Holding(b, page))
           E   == Entries(p, page)
           one == OneMapping(ptes, p, page)
<1>1. BufferOK(b, ptes[p]) /\ SameMap(E, ptes[p])
  BY SelectedOK, EntriesOK
<1>2. mapBar' = mapBar
  BY UntouchedStep, SameMapBar
<1>3. ptes[p][page] \in PTE
  BY DEF IInv, TypeOK
<1>4. one.frame \in Frames /\ one.protection \in SUBSET Rights
  BY <1>3 DEF OneMapping, PTE
<1>5. ASSUME ptes[p][page].valid
      PROVE  one \in PM!MappingsOf(p, page)
  BY <1>5, Mappings
<1>6. CASE TlbHit(p, page, access) \/ TlbForbidden(p, page, access)
  <2>1. i \in Holding(b, page)
    BY <1>6, MinOfSlots DEF Holding, TlbHit, TlbForbidden
  <2>2. /\ ptes[p][page].valid
        /\ b[i].framePage = one.frame
        /\ b[i].protection = one.protection
    BY <1>1, <2>1 DEF Holding, BufferOK, Coherent, OneMapping
  <2>3. CASE TlbHit(p, page, access)
    <3>1. CheckPermission(one.protection, access) = MMU_OK
      BY <2>2, <2>3 DEF TlbHit
    <3>2. PM!Granted("getPhysicalAddress", p, page, access, one.frame)
      BY <2>2, <2>3, GrantedBar DEF TlbHit
    <3> HIDE DEF one
    <3> QED
      BY <1>2, <1>4, <1>5, <2>2, <3>1, <3>2, PermissionMeaning DEF PM!Use
  <2>4. CASE TlbForbidden(p, page, access)
    <3>1. CheckPermission(one.protection, access) # MMU_OK
      BY <2>2, <2>4 DEF TlbForbidden
    <3>2. PM!Denied("getPhysicalAddress", p, page, access)
      BY <2>4, DeniedBar DEF TlbForbidden
    <3> HIDE DEF one
    <3> QED
      BY <1>2, <1>4, <1>5, <2>2, <3>1, <3>2, PermissionMeaning DEF PM!Use
  <2> QED
    BY <1>6, <2>3, <2>4
<1>7. CASE WalkHit(p, page, access) \/ WalkForbidden(p, page, access)
  <2>1. E[page].valid
    BY <1>7 DEF WalkHit, WalkForbidden
  <2>2. /\ ptes[p][page].valid
        /\ E[page].framePage = one.frame
        /\ E[page].protection = one.protection
    BY <1>1, <2>1 DEF SameMap, OneMapping
  <2>3. CASE WalkHit(p, page, access)
    <3>1. CheckPermission(one.protection, access) = MMU_OK
      BY <2>2, <2>3, Uint8OfCode DEF WalkHit
    <3>2. PM!Granted("getPhysicalAddress", p, page, access, one.frame)
      BY <2>2, <2>3, GrantedBar DEF WalkHit
    <3> HIDE DEF one
    <3> QED
      BY <1>2, <1>4, <1>5, <2>2, <3>1, <3>2, PermissionMeaning DEF PM!Use
  <2>4. CASE WalkForbidden(p, page, access)
    <3>1. CheckPermission(one.protection, access) # MMU_OK
      BY <2>2, <2>4, Uint8OfCode DEF WalkForbidden
    <3>2. PM!Denied("getPhysicalAddress", p, page, access)
      BY <2>4, DeniedBar DEF WalkForbidden
    <3> HIDE DEF one
    <3> QED
      BY <1>2, <1>4, <1>5, <2>2, <3>1, <3>2, PermissionMeaning DEF PM!Use
  <2> QED
    BY <1>7, <2>3, <2>4
<1> QED
  BY <1>6, <1>7

LEMMA SimulateStep ==
  ASSUME IInv, [Next]_vars
  PROVE  [PM!Next]_(PM!vars)
<1>1. CASE UNCHANGED vars
  BY <1>1 DEF vars, mapBar, answerBar, PM!vars
<1>2. ASSUME NEW p \in Procs, NEW page \in ReqPages, NEW access \in ReqAccess,
             CreateEntry(p, page, access) \/ GetPhysicalAddress(p, page, access)
      PROVE  PM!Next
  <2>1. page \in Pages /\ access \in SUBSET Rights
    BY MMUAssumption
  <2>2. CASE \E call \in Calls : NewEntry(call, p, page, access)
    BY <2>1, <2>2, SimulateNew DEF PM!Next, Calls, PM!Calls
  <2>3. CASE NoNewEntry("createEntry", p, page, access)
    BY <2>1, <2>3, SimulateNoNew DEF PM!Next, Calls, PM!Calls
  <2>4. CASE PageFault(p, page, access)
    <3>1. ~ptes[p][page].valid
      BY <2>1, <2>4, EntriesOK DEF PageFault, SameMap
    <3> QED
      BY <2>1, <2>2, <2>4, <3>1, SimulateNoNew DEF PageFault, PM!Next, Calls, PM!Calls
  <2>5. CASE \/ TlbHit(p, page, access)
             \/ TlbForbidden(p, page, access)
             \/ WalkHit(p, page, access)
             \/ WalkForbidden(p, page, access)
    BY <2>1, <2>5, SimulateUse DEF PM!Next
  <2> QED
    BY <1>2, <2>2, <2>3, <2>4, <2>5 DEF CreateEntry, GetPhysicalAddress, Calls
<1> QED
  BY <1>1, <1>2 DEF Next

\* The MMU, with its TLB, two-level tables and frame list, answers every call as
\* PageMap does: what a process is granted depends on nothing but its own map.
THEOREM Refinement == Spec => RefinesPageMap
<1>1. Init => PM!Init
  <2> SUFFICES ASSUME Init PROVE PM!Init
    OBVIOUS
  <2>1. \A p \in Procs, g \in Pages : ~ptes[p][g].valid
    BY DEF Init, EmptyPTE
  <2>2. mapBar = {}
    BY <2>1, MapBar, InMapOf
  <2>3. (MMU_FORBIDEN_ACCESS = MMU_OK) = FALSE
    BY DEF MMU_OK, MMU_FORBIDEN_ACCESS
  <2>4. answerBar = [call |-> "none", pid |-> 0, page |-> <<0, 0>>, access |-> {},
                     granted |-> MMU_FORBIDEN_ACCESS = MMU_OK, frame |-> 0]
    BY DEF Init, answerBar
  <2> QED
    BY <2>2, <2>3, <2>4 DEF PM!Init
<1>2. IInv /\ [Next]_vars => [PM!Next]_(PM!vars)
  BY SimulateStep
<1> QED
  BY <1>1, <1>2, Invariance, PTL DEF Spec, RefinesPageMap, PM!Spec
=============================================================================
