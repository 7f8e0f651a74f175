--------------------------- MODULE HartRefinement ---------------------------
(***************************************************************************)
(* Hart implements Machine, for every layout of banks, every page size and *)
(* every program: behind the MMU, the bus and the banks a program sees     *)
(* pages that keep what it wrote to them.                                  *)
(***************************************************************************)
EXTENDS HartProofs

-----------------------------------------------------------------------------
(* The refinement mapping, of any mappings M and any contents m.           *)

CellIn(m, p) ==
  IF BanksAt[p] = {} THEN [present |-> FALSE, writable |-> FALSE, byte |-> 0]
  ELSE LET k == CHOOSE k \in BanksAt[p] : TRUE
       IN [present |-> TRUE, writable |-> Banks[k].writable, byte |-> m[k][p - Banks[k].start]]

CellsIn(m, f) == [o \in 0 .. PageSize - 1 |-> CellIn(m, f * PageSize + o)]

Bar(M, m) ==
  [g \in PageNumbers |->
     IF {n \in M : n.pid = 0 /\ n.page = g} = {} THEN [touched |-> FALSE]
     ELSE LET n == CHOOSE n \in M : n.page = g
          IN [touched |-> TRUE, rights |-> n.protection, cells |-> CellsIn(m, n.frame)]]

LEMMA BarIs == spaceBar = Bar(map, mem) /\ spaceBar' = Bar(map', mem')
<1>1. spaceBar = Bar(map, mem)
  BY Zenon DEF spaceBar, Bar, PM!MappingsOf, CellAt, CellIn, CellsIn
<1>2. spaceBar' = Bar(map', mem')
  BY Zenon DEF spaceBar, Bar, PM!MappingsOf, CellAt, CellIn, CellsIn
<1> QED  BY <1>1, <1>2

OnePerPage(M) == \A m, n \in M : m.page = n.page => m = n

LEMMA BarUntouched ==
  ASSUME NEW M, NEW m, NEW g \in PageNumbers, \A n \in M : n.page # g
  PROVE  Bar(M, m)[g] = [touched |-> FALSE]
<1>1. {n \in M : n.pid = 0 /\ n.page = g} = {}
  OBVIOUS
<1> QED  BY <1>1 DEF Bar

LEMMA BarTouched ==
  ASSUME NEW M, M \subseteq Mapping, OnePerPage(M), NEW m, NEW n \in M
  PROVE  Bar(M, m)[n.page] =
           [touched |-> TRUE, rights |-> n.protection, cells |-> CellsIn(m, n.frame)]
<1> DEFINE g == n.page
<1>1. g \in PageNumbers /\ n.pid = 0
  BY DEF Mapping
<1>2. {a \in M : a.pid = 0 /\ a.page = g} # {}
  BY <1>1
<1>3. (CHOOSE a \in M : a.page = g) = n
  BY Zenon DEF OnePerPage
<1> QED  BY <1>1, <1>2, <1>3, Zenon DEF Bar

-----------------------------------------------------------------------------
(* Cells.                                                                  *)

LEMMA PhysicalInt ==
  ASSUME NEW p \in PhysicalAddrs
  PROVE  p \in Int /\ 0 <= p /\ p < MaxPte * PageSize /\ p + 4 < WordMod
<1>1. MaxPte * PageSize \in Int /\ MaxPte * PageSize + 4 <= WordMod
  <2>1. MaxPte * PageSize \in Int
    BY Sizes, SMTT(30)
  <2> QED  BY <2>1, HartAssumption
<1> QED  BY <1>1, Sizes, SMT DEF PhysicalAddrs

LEMMA PhysicalIs ==
  ASSUME NEW p \in Int, 0 <= p, p < MaxPte * PageSize
  PROVE  p \in PhysicalAddrs
<1>1. MaxPte * PageSize \in Int
  BY Sizes, SMTT(30)
<1> QED  BY <1>1, SMT DEF PhysicalAddrs

Holder(k, p) == k \in BankIds /\ Banks[k].start <= p /\ p < Top(Banks[k])

LEMMA CellHeld ==
  ASSUME NEW p \in PhysicalAddrs, NEW k, Holder(k, p), NEW m
  PROVE  CellIn(m, p) = [present |-> TRUE, writable |-> Banks[k].writable,
                         byte |-> m[k][p - Banks[k].start]]
<1>1. \A j \in BanksAt[p] : j = k
  <2>1. \A j \in BanksAt[p] : j \in BankIds /\ Banks[j].start <= p /\ p < Top(Banks[j])
    BY DEF BanksAt
  <2> QED  BY <2>1, PhysicalInt, OneBank DEF Holder
<1>2. k \in BanksAt[p]
  BY DEF BanksAt, Holder
<1>3. (CHOOSE j \in BanksAt[p] : TRUE) = k
  BY <1>1, <1>2, Zenon
<1> QED  BY <1>2, <1>3, Zenon DEF CellIn

LEMMA CellMissing ==
  ASSUME NEW p \in PhysicalAddrs, \A k : ~Holder(k, p), NEW m
  PROVE  CellIn(m, p) = [present |-> FALSE, writable |-> FALSE, byte |-> 0]
<1>1. BanksAt[p] = {}
  BY DEF BanksAt, Holder
<1> QED  BY <1>1 DEF CellIn

LEMMA CellTyped ==
  ASSUME NEW p \in PhysicalAddrs, NEW m \in MemoryType
  PROVE  CellIn(m, p) \in [present : BOOLEAN, writable : BOOLEAN, byte : Bytes]
<1>1. CASE \A k : ~Holder(k, p)
  <2>1. 0 \in Bytes
    BY Sizes, SMT DEF Bytes
  <2>2. CellIn(m, p) = [present |-> FALSE, writable |-> FALSE, byte |-> 0]
    BY <1>1, CellMissing
  <2> QED  BY <2>1, <2>2
<1>2. CASE \E k : Holder(k, p)
  <2>1. PICK k : Holder(k, p)
    BY <1>2
  <2>2. k \in BankIds /\ Banks[k].start <= p /\ p < Top(Banks[k])
    BY <2>1 DEF Holder
  <2>3. p - Banks[k].start \in 0 .. Banks[k].size - 1
    BY <2>2, BankFacts, PhysicalInt, SMT
  <2>4. m[k][p - Banks[k].start] \in Bytes
    <3>1. m[k] \in [0 .. Banks[k].size - 1 -> Bytes]
      BY <2>2, MemoryTyped
    <3> QED  BY <2>3, <3>1
  <2>5. Banks[k].writable \in BOOLEAN
    BY <2>2, BankFacts
  <2>6. CellIn(m, p) = [present |-> TRUE, writable |-> Banks[k].writable,
                        byte |-> m[k][p - Banks[k].start]]
    BY <2>1, CellHeld
  <2> QED  BY <2>4, <2>5, <2>6
<1> QED  BY <1>1, <1>2

\* The bytes a frame has.
LEMMA FrameBytes ==
  ASSUME NEW f \in Frames, NEW o \in 0 .. PageSize - 1
  PROVE  f * PageSize + o \in PhysicalAddrs /\ f * PageSize \in Int /\ o \in Int /\ 0 <= o /\ o < PageSize
<1>1. o \in Int /\ 0 <= o /\ o < PageSize
  BY Sizes, SMT
<1>2. f * PageSize \in Int
  BY Sizes, SMT DEF Frames
<1> QED  BY <1>1, <1>2, FrameEnds, PhysicalIs

\* Two frames have no byte in common.
LEMMA FramesApart ==
  ASSUME NEW f \in Frames, NEW h \in Frames, NEW o \in 0 .. PageSize - 1, NEW u \in 0 .. PageSize - 1,
         f * PageSize + o = h * PageSize + u
  PROVE  f = h /\ o = u
<1> DEFINE a == f * PageSize + o
<1>1. /\ f \in Int /\ h \in Int /\ o \in Int /\ u \in Int
      /\ 0 <= o /\ o < PageSize /\ 0 <= u /\ u < PageSize
  BY Sizes, SMT DEF Frames
<1>2. a \in Int /\ a = PageSize * f + o /\ a = PageSize * h + u
  BY <1>1, Sizes, SMTT(30)
<1> HIDE DEF a
<1>3. a \div PageSize = f /\ a % PageSize = o
  BY <1>1, <1>2, Sizes, DividedBy
<1>4. a \div PageSize = h /\ a % PageSize = u
  BY <1>1, <1>2, Sizes, DividedBy
<1> QED  BY <1>3, <1>4

LEMMA CellsTyped ==
  ASSUME NEW f \in Frames, NEW m \in MemoryType
  PROVE  CellsIn(m, f) \in [0 .. PageSize - 1 -> [present : BOOLEAN, writable : BOOLEAN, byte : Bytes]]
BY FrameBytes, CellTyped DEF CellsIn

-----------------------------------------------------------------------------
(* An aligned access is served exactly if every byte of it is there.       *)

LEMMA AlignedEnd ==
  ASSUME NEW p \in Int, NEW size \in Widths, p % size = 0, NEW k \in BankIds,
         Banks[k].start <= p, p < Top(Banks[k])
  PROVE  p + size <= Top(Banks[k])
<1>1. /\ Banks[k].start \in Int /\ Banks[k].size \in Int
      /\ Banks[k].start % 4 = 0 /\ Banks[k].size % 4 = 0
      /\ Top(Banks[k]) = Banks[k].start + Banks[k].size
  BY BankFacts
<1>2. size \in {1, 2, 4}
  BY DEF Widths, Byte, HalfWord, FullWord
<1>3. Top(Banks[k]) \in Int /\ Top(Banks[k]) % 4 = 0
  BY <1>1, SMT
<1>4. CASE size = 1
  BY <1>3, <1>4, SMT
<1>5. CASE size = 2
  BY <1>3, <1>5, SMT
<1>6. CASE size = 4
  BY <1>3, <1>6, SMT
<1> QED  BY <1>2, <1>4, <1>5, <1>6

LEMMA ServedIff ==
  ASSUME NEW p \in Int, 0 <= p, p + 4 < WordMod, NEW size \in Widths, p % size = 0, NEW m,
         \A q \in p .. p + size - 1 : q \in PhysicalAddrs
  PROVE  /\ Readers(p, size) # {} <=> \A q \in p .. p + size - 1 : CellIn(m, q).present
         /\ Writers(p, size) # {} <=> \A q \in p .. p + size - 1 : CellIn(m, q).present /\ CellIn(m, q).writable
<1>1. size \in Int /\ 1 <= size /\ size <= 4 /\ p \in p .. p + size - 1
  BY SMT DEF Widths, Byte, HalfWord, FullWord
<1>2. ASSUME NEW k \in BankIds, Banks[k].start <= p, p + size <= Top(Banks[k]),
             NEW q \in p .. p + size - 1
      PROVE  CellIn(m, q).present /\ CellIn(m, q).writable = Banks[k].writable
  <2>1. Banks[k].start \in Int /\ Top(Banks[k]) \in Int
    BY BankFacts, SMT
  <2>2. Holder(k, q)
    BY <1>1, <1>2, <2>1, SMT DEF Holder
  <2> QED  BY <2>2, CellHeld
<1>3. ASSUME CellIn(m, p).present
      PROVE  \E k \in Readers(p, size) : CellIn(m, p).writable = Banks[k].writable
  <2>1. \E k : Holder(k, p)
    BY <1>1, <1>3, CellMissing
  <2>2. PICK k : Holder(k, p)
    BY <2>1
  <2>3. k \in BankIds /\ Banks[k].start <= p /\ p < Top(Banks[k])
    BY <2>2 DEF Holder
  <2>4. p + size <= Top(Banks[k])
    BY <2>3, AlignedEnd
  <2>5. k \in Readers(p, size)
    BY <2>3, <2>4, InBank DEF Readers
  <2>6. CellIn(m, p).writable = Banks[k].writable
    BY <1>1, <2>2, CellHeld
  <2> QED  BY <2>5, <2>6
<1>4. ASSUME NEW k \in Readers(p, size)
      PROVE  k \in BankIds /\ Banks[k].start <= p /\ p + size <= Top(Banks[k])
  BY InBank DEF Readers
<1>5. \A k : k \in Writers(p, size) <=> k \in Readers(p, size) /\ Banks[k].writable
  BY DEF Writers, Readers, ValidWrite
<1>6. Readers(p, size) # {} <=> \A q \in p .. p + size - 1 : CellIn(m, q).present
  BY <1>1, <1>2, <1>3, <1>4
<1>7. ASSUME Writers(p, size) # {}, NEW q \in p .. p + size - 1
      PROVE  CellIn(m, q).present /\ CellIn(m, q).writable
  <2>1. PICK k \in Writers(p, size) : TRUE
    BY <1>7
  <2> QED  BY <1>2, <1>4, <1>5, <2>1
<1>8. ASSUME \A q \in p .. p + size - 1 : CellIn(m, q).present /\ CellIn(m, q).writable
      PROVE  Writers(p, size) # {}
  <2>1. CellIn(m, p).present /\ CellIn(m, p).writable
    BY <1>1, <1>8
  <2>2. PICK k \in Readers(p, size) : CellIn(m, p).writable = Banks[k].writable
    BY <1>3, <2>1
  <2> QED  BY <1>5, <2>1, <2>2
<1> QED  BY <1>6, <1>7, <1>8

\* What a bank can serve is there, aligned or not.
LEMMA ServedThere ==
  ASSUME NEW p \in Int, 0 <= p, p + 4 < WordMod, NEW size \in Widths, NEW m,
         Readers(p, size) # {}, NEW q \in p .. p + size - 1, q \in PhysicalAddrs
  PROVE  CellIn(m, q).present
<1>1. PICK k \in Readers(p, size) : TRUE
  OBVIOUS
<1>2. k \in BankIds /\ Banks[k].start <= p /\ p + size <= Top(Banks[k])
  BY InBank DEF Readers
<1>3. size \in Int /\ Banks[k].start \in Int /\ Top(Banks[k]) \in Int
  BY <1>2, BankFacts, SMT DEF Widths, Byte, HalfWord, FullWord
<1>4. Holder(k, q)
  BY <1>2, <1>3, SMT DEF Holder
<1> QED  BY <1>4, CellHeld

\* A read gives the bytes of the cells, extended by the sign of the last.
LEMMA ReadCells ==
  ASSUME NEW p \in Int, 0 <= p, p + 4 < WordMod, NEW size \in Widths, NEW signedVal \in BOOLEAN,
         NEW m, Readers(p, size) # {},
         \A q \in p .. p + size - 1 : q \in PhysicalAddrs
  PROVE  BusLoad(m, p, size, signedVal) =
           [i \in 0 .. 3 |-> IF i < size THEN CellIn(m, p + i).byte
                             ELSE IF signedVal THEN Sign(CellIn(m, p + (size - 1)).byte) ELSE 0]
<1>1. PICK k \in Readers(p, size) : TRUE
  OBVIOUS
<1>2. /\ Min(Readers(p, size)) = k /\ k \in BankIds
      /\ Banks[k].start <= p /\ p + size <= Top(Banks[k])
  BY OneServer
<1>3. size \in Int /\ 1 <= size /\ size <= 4 /\ Banks[k].start \in Int /\ Top(Banks[k]) \in Int
  BY <1>2, BankFacts, SMT DEF Widths, Byte, HalfWord, FullWord
<1> DEFINE at == p - Banks[k].start
<1>4. ASSUME NEW i \in Int, 0 <= i, i < size
      PROVE  m[k][at + i] = CellIn(m, p + i).byte
  <2>1. p + i \in p .. p + size - 1 /\ Banks[k].start <= p + i /\ p + i < Top(Banks[k])
    BY <1>2, <1>3, <1>4, SMT
  <2>2. Holder(k, p + i)
    BY <1>2, <2>1 DEF Holder
  <2>3. CellIn(m, p + i).byte = m[k][(p + i) - Banks[k].start]
    BY <2>1, <2>2, CellHeld
  <2>4. (p + i) - Banks[k].start = at + i
    BY <1>3, <1>4, SMT
  <2> QED  BY <2>3, <2>4
<1>5. BusLoad(m, p, size, signedVal) =
        [i \in Places |-> IF i < size THEN m[k][at + i]
                          ELSE IF signedVal /\ m[k][at + size - 1] >= ByteMod \div 2 THEN ByteMod - 1 ELSE 0]
  BY <1>2, Zenon DEF BusLoad, Read
<1>6. at + size - 1 = at + (size - 1) /\ size - 1 \in Int /\ 0 <= size - 1 /\ size - 1 < size
  BY <1>3, SMT
<1>7. m[k][at + size - 1] = CellIn(m, p + (size - 1)).byte
  BY <1>4, <1>6
<1> DEFINE f(i) == IF i < size THEN m[k][at + i]
                   ELSE IF signedVal /\ m[k][at + size - 1] >= ByteMod \div 2 THEN ByteMod - 1 ELSE 0
           g(i) == IF i < size THEN CellIn(m, p + i).byte
                   ELSE IF signedVal THEN Sign(CellIn(m, p + (size - 1)).byte) ELSE 0
<1>8. \A i \in Places : f(i) = g(i)
  <2> SUFFICES ASSUME NEW i \in Places PROVE f(i) = g(i)
    OBVIOUS
  <2>1. CASE i < size
    <3>1. i \in Int /\ 0 <= i
      BY SMT DEF Places
    <3>2. m[k][at + i] = CellIn(m, p + i).byte
      BY <1>4, <2>1, <3>1
    <3> QED  BY <2>1, <3>2
  <2>2. CASE ~ (i < size)
    BY <1>7, <2>2 DEF Sign
  <2> QED  BY <2>1, <2>2
<1> HIDE DEF f, g
<1>9. [i \in Places |-> f(i)] = [i \in Places |-> g(i)]
  BY <1>8
<1> QED  BY <1>5, <1>9 DEF f, g, Places

\* A store changes the cells it covers, to the bytes of its word, and no other.
LEMMA StoreCells ==
  ASSUME NEW m \in MemoryType, NEW p \in Int, 0 <= p, p + 4 < WordMod, NEW size \in Widths,
         NEW val \in Word, Writers(p, size) # {}, NEW q \in PhysicalAddrs
  PROVE  LET after == BusStore(m, p, size, val)
         IN /\ q \notin p .. p + size - 1 => CellIn(after, q) = CellIn(m, q)
            /\ q \in p .. p + size - 1 => CellIn(after, q).byte = val[q - p]
<1> DEFINE after == BusStore(m, p, size, val)
<1>1. PICK k \in Writers(p, size) : TRUE
  OBVIOUS
<1> DEFINE at == p - Banks[k].start
<1>2. /\ k \in BankIds /\ Banks[k].start <= p /\ p + size <= Top(Banks[k])
      /\ \A j \in BankIds : j # k => after[j] = m[j]
      /\ \A o \in 0 .. Banks[k].size - 1 :
           after[k][o] = IF o \in at .. at + size - 1 THEN val[o - at] ELSE m[k][o]
  <2>1. k \in BankIds /\ Banks[k].start <= p /\ p + size <= Top(Banks[k])
    BY StoreDone
  <2>2. \A j \in BankIds : j # k => after[j] = m[j]
    BY StoreDone
  <2>3. \A o \in 0 .. Banks[k].size - 1 :
          after[k][o] = IF o \in at .. at + size - 1 THEN val[o - at] ELSE m[k][o]
    BY StoreDone
  <2> QED  BY <2>1, <2>2, <2>3
<1> HIDE DEF after
<1>3. /\ size \in Int /\ 1 <= size /\ size <= 4
      /\ Banks[k].start \in Int /\ Banks[k].size \in Int
      /\ Top(Banks[k]) = Banks[k].start + Banks[k].size
  BY <1>2, BankFacts, SMT DEF Widths, Byte, HalfWord, FullWord
<1>4. CASE \A j : ~Holder(j, q)
  <2>1. CellIn(after, q) = CellIn(m, q)
    BY <1>4, CellMissing
  <2>2. q \notin p .. p + size - 1
    <3> SUFFICES ASSUME q \in p .. p + size - 1 PROVE FALSE
      OBVIOUS
    <3>1. Banks[k].start <= q /\ q < Top(Banks[k])
      BY <1>2, <1>3, PhysicalInt, SMT
    <3> QED  BY <1>2, <1>4, <3>1 DEF Holder
  <2> QED  BY <2>1, <2>2 DEF after
<1>5. CASE \E j : Holder(j, q)
  <2>1. PICK j : Holder(j, q)
    BY <1>5
  <2>2. j \in BankIds /\ Banks[j].start <= q /\ q < Top(Banks[j]) /\ q \in Int
    BY <2>1, PhysicalInt DEF Holder
  <2>3. /\ CellIn(after, q) = [present |-> TRUE, writable |-> Banks[j].writable,
                               byte |-> after[j][q - Banks[j].start]]
        /\ CellIn(m, q) = [present |-> TRUE, writable |-> Banks[j].writable,
                           byte |-> m[j][q - Banks[j].start]]
    BY <2>1, CellHeld
  <2>4. CASE j # k
    <3>1. q \notin p .. p + size - 1
      <4> SUFFICES ASSUME q \in p .. p + size - 1 PROVE FALSE
        OBVIOUS
      <4>1. Banks[k].start <= q /\ q < Top(Banks[k])
        BY <1>2, <1>3, <2>2, SMT
      <4> QED  BY <1>2, <2>2, <2>4, <4>1, OneBank
    <3>2. after[j] = m[j]
      BY <1>2, <2>2, <2>4
    <3> QED  BY <2>3, <3>1, <3>2 DEF after
  <2>5. CASE j = k
    <3> DEFINE o == q - Banks[k].start
    <3>1. o \in 0 .. Banks[k].size - 1
      BY <1>3, <2>2, <2>5, SMT
    <3>2. o \in at .. at + size - 1 <=> q \in p .. p + size - 1
      BY <1>3, <2>2, SMT
    <3>3. o - at = q - p
      BY <1>3, <2>2, SMT
    <3>4. after[k][o] = IF o \in at .. at + size - 1 THEN val[o - at] ELSE m[k][o]
      BY <1>2, <3>1
    <3> HIDE DEF o, at
    <3>5. after[k][o] = IF q \in p .. p + size - 1 THEN val[q - p] ELSE m[k][o]
      BY <3>2, <3>3, <3>4
    <3>6. /\ CellIn(after, q) = [present |-> TRUE, writable |-> Banks[k].writable, byte |-> after[k][o]]
          /\ CellIn(m, q) = [present |-> TRUE, writable |-> Banks[k].writable, byte |-> m[k][o]]
      BY <2>3, <2>5 DEF o
    <3>7. q \notin p .. p + size - 1 => CellIn(after, q) = CellIn(m, q)
      BY <3>5, <3>6
    <3>8. q \in p .. p + size - 1 => CellIn(after, q).byte = val[q - p]
      BY <3>5, <3>6
    <3> QED  BY <3>7, <3>8 DEF after
  <2> QED  BY <2>4, <2>5
<1> QED  BY <1>4, <1>5

-----------------------------------------------------------------------------
(* Requests to the MMU, as Machine sees them.                              *)

\* The cells that may change are those of frame f at the offsets W.
OnlyAt(f, W) ==
  \A q \in PhysicalAddrs : (\A o \in W : q # f * PageSize + o) => CellIn(mem', q) = CellIn(mem, q)

LEMMA OtherFrames ==
  ASSUME NEW f \in Frames, NEW h \in Frames, f # h, NEW W \in SUBSET (0 .. PageSize - 1), OnlyAt(f, W)
  PROVE  CellsIn(mem', h) = CellsIn(mem, h)
<1>1. ASSUME NEW o \in 0 .. PageSize - 1
      PROVE  CellIn(mem', h * PageSize + o) = CellIn(mem, h * PageSize + o)
  <2>1. h * PageSize + o \in PhysicalAddrs
    BY FrameBytes
  <2>2. \A u \in W : h * PageSize + o # f * PageSize + u
    BY FramesApart
  <2> QED  BY <2>1, <2>2 DEF OnlyAt
<1> QED  BY <1>1 DEF CellsIn

LEMMA SameFrame ==
  ASSUME NEW f \in Frames, NEW W \in SUBSET (0 .. PageSize - 1), OnlyAt(f, W),
         NEW o \in (0 .. PageSize - 1) \ W
  PROVE  CellsIn(mem', f)[o] = CellsIn(mem, f)[o]
<1>1. f * PageSize + o \in PhysicalAddrs
  BY FrameBytes
<1>2. \A u \in W : f * PageSize + o # f * PageSize + u
  BY FramesApart
<1> QED  BY <1>1, <1>2 DEF OnlyAt, CellsIn

LEMMA Grants ==
  ASSUME Inv, NEW address \in Addrs, NEW access \in Accesses, Translate(address, access),
         answer'.granted, mem' \in MemoryType,
         NEW W \in SUBSET (0 .. PageSize - 1), OnlyAt(answer'.frame, W)
  PROVE  /\ Ideal!Granted(PageOf(address), access, W)
         /\ spaceBar'[PageOf(address)].cells = CellsIn(mem', answer'.frame)
         /\ spaceBar[PageOf(address)].touched =>
              spaceBar[PageOf(address)].cells = CellsIn(mem, answer'.frame)
<1> DEFINE g == PageOf(address)
           f == answer'.frame
<1>1. g \in PageNumbers
  BY AddressParts
<1>2. map \subseteq Mapping /\ map' \subseteq Mapping /\ Unshared /\ Unshared'
  BY Given, TranslateKeeps
<1>3. OnePerPage(map) /\ OnePerPage(map')
  BY <1>2 DEF Unshared, OnePerPage
<1>4. PICK m \in Mapping : Comes(m, g, access)
  BY Given, Translated
<1> HIDE DEF g
<1>5. m \in map' /\ m.page = g /\ m.frame = f /\ f \in Frames /\ m.protection \in Accesses
  BY <1>4 DEF Comes, Mapping
<1> HIDE DEF f
<1>6. spaceBar'[g] = [touched |-> TRUE, rights |-> m.protection, cells |-> CellsIn(mem', f)]
  <2>1. Bar(map', mem')[m.page] = [touched |-> TRUE, rights |-> m.protection, cells |-> CellsIn(mem', m.frame)]
    BY <1>2, <1>3, <1>5, BarTouched
  <2> QED  BY <1>5, <2>1, BarIs
<1>7. OnlyAt(f, W)
  BY DEF f
<1>8. ASSUME NEW h \in PageNumbers \ {g}
      PROVE  spaceBar'[h] = spaceBar[h]
  <2>1. \A n : n.page = h => (n \in map <=> n \in map')
    BY <1>4, <1>5 DEF Comes
  <2>2. CASE \E n \in map : n.page = h
    <3>1. PICK n \in map : n.page = h
      BY <2>2
    <3>2. n \in map' /\ n.frame \in Frames
      BY <1>2, <2>1, <3>1 DEF Mapping
    <3>3. n.frame # f
      BY <1>2, <1>5, <3>1, <3>2 DEF Unshared
    <3>4. CellsIn(mem', n.frame) = CellsIn(mem, n.frame)
      BY <1>5, <1>7, <3>2, <3>3, OtherFrames
    <3>5. Bar(map, mem)[n.page] =
            [touched |-> TRUE, rights |-> n.protection, cells |-> CellsIn(mem, n.frame)]
      BY <1>2, <1>3, <3>1, BarTouched
    <3>6. Bar(map', mem')[n.page] =
            [touched |-> TRUE, rights |-> n.protection, cells |-> CellsIn(mem', n.frame)]
      BY <1>2, <1>3, <3>2, BarTouched
    <3> QED  BY <3>1, <3>4, <3>5, <3>6, BarIs
  <2>3. CASE \A n \in map : n.page # h
    <3>1. \A n \in map' : n.page # h
      BY <2>1, <2>3
    <3>2. Bar(map, mem)[h] = [touched |-> FALSE] /\ Bar(map', mem')[h] = [touched |-> FALSE]
      BY <2>3, <3>1, BarUntouched
    <3> QED  BY <3>2, BarIs
  <2> QED  BY <2>2, <2>3
<1>9. CASE map' = map /\ PM!Permits(m.protection, access)
  <2>1. m \in map
    BY <1>5, <1>9
  <2>2. spaceBar[g] = [touched |-> TRUE, rights |-> m.protection, cells |-> CellsIn(mem, f)]
    <3>1. Bar(map, mem)[m.page] = [touched |-> TRUE, rights |-> m.protection, cells |-> CellsIn(mem, m.frame)]
      BY <1>2, <1>3, <2>1, BarTouched
    <3> QED  BY <1>5, <3>1, BarIs
  <2>3. Ideal!Permits(m.protection, access)
    BY <1>9 DEF Ideal!Permits, PM!Permits
  <2>4. \A o \in (0 .. PageSize - 1) \ W : CellsIn(mem', f)[o] = CellsIn(mem, f)[o]
    BY <1>5, <1>7, SameFrame
  <2>5. Ideal!Granted(g, access, W)
    BY <1>6, <1>8, <2>2, <2>3, <2>4 DEF Ideal!Granted, Ideal!PageOffsets
  <2> QED  BY <1>6, <2>2, <2>5 DEF f, g
<1>10. CASE m.protection = access /\ \A n \in map : n.page # g
  <2>1. spaceBar[g] = [touched |-> FALSE]
    <3>1. Bar(map, mem)[g] = [touched |-> FALSE]
      BY <1>1, <1>10, BarUntouched
    <3> QED  BY <3>1, BarIs
  <2>2. spaceBar'[g] \in Ideal!Page(access)
    <3>1. CellsIn(mem', f) \in [0 .. PageSize - 1 -> [present : BOOLEAN, writable : BOOLEAN, byte : Bytes]]
      BY <1>5, CellsTyped
    <3> QED  BY <1>6, <1>10, <3>1 DEF Ideal!Page, Ideal!PageOffsets, Ideal!Cell
  <2>3. Ideal!Granted(g, access, W)
    BY <1>6, <1>8, <2>1, <2>2 DEF Ideal!Granted
  <2> QED  BY <1>6, <2>1, <2>3 DEF f, g
<1> QED  BY <1>4, <1>9, <1>10 DEF Comes

LEMMA Bars ==
  ASSUME Inv, NEW address \in Addrs, NEW access \in Accesses, Translate(address, access),
         ~answer'.granted, mem' = mem
  PROVE  Ideal!Barred(PageOf(address), access)
<1> DEFINE g == PageOf(address)
<1>1. g \in PageNumbers
  BY AddressParts
<1>2. map \subseteq Mapping /\ OnePerPage(map)
  BY Given DEF Unshared, OnePerPage
<1>3. Stays(g, access)
  BY Given, Translated
<1> HIDE DEF g
<1>4. spaceBar' = spaceBar
  BY <1>3, BarIs DEF Stays
<1>5. CASE \A n \in map : n.page # g
  <2>1. Bar(map, mem)[g] = [touched |-> FALSE]
    BY <1>1, <1>5, BarUntouched
  <2> QED  BY <1>4, <2>1, BarIs DEF Ideal!Barred, g
<1>6. CASE \E n \in map : n.page = g /\ ~PM!Permits(n.protection, access)
  <2>1. PICK n \in map : n.page = g /\ ~PM!Permits(n.protection, access)
    BY <1>6
  <2>2. Bar(map, mem)[n.page] = [touched |-> TRUE, rights |-> n.protection, cells |-> CellsIn(mem, n.frame)]
    BY <1>2, BarTouched
  <2>3. spaceBar[g].rights = n.protection
    BY <2>1, <2>2, BarIs
  <2>4. ~Ideal!Permits(n.protection, access)
    BY <2>1 DEF Ideal!Permits, PM!Permits
  <2> QED  BY <1>4, <2>3, <2>4 DEF Ideal!Barred, g
<1> QED  BY <1>3, <1>5, <1>6 DEF Stays

-----------------------------------------------------------------------------
(* An aligned access in its page.                                          *)

LEMMA Place ==
  ASSUME answer' \in Answers, NEW address \in Addrs, NEW size \in Widths, ~Misaligned(address, size)
  PROVE  LET o == address % PageSize
             f == answer'.frame
             p == Physical(address)
         IN /\ PageOf(address) \in PageNumbers /\ o \in 0 .. PageSize - 1 /\ o % size = 0
            /\ size \in Int /\ 1 <= size /\ size <= 4 /\ o \in Int /\ 0 <= o /\ o + size <= PageSize
            /\ f \in Frames /\ f * PageSize \in Int
            /\ p = f * PageSize + o /\ p \in Int /\ 0 <= p /\ p + 4 < WordMod
            /\ p < MaxPte * PageSize /\ p % size = 0
<1> DEFINE o == address % PageSize
           f == answer'.frame
           p == Physical(address)
<1>1. PageOf(address) \in PageNumbers
  BY AddressParts
<1>2. o \in Int /\ 0 <= o /\ o + size <= PageSize /\ o % size = 0
  BY SpanInPage
<1>3. size \in Int /\ 1 <= size /\ size <= 4 /\ size \in {1, 2, 4}
  BY SMT DEF Widths, Byte, HalfWord, FullWord
<1>4. f \in Frames /\ f \in Int
  BY Sizes, SMT DEF Answers, Frames
<1>5. p = f * PageSize + o /\ p \in Int /\ 0 <= p /\ p + 4 < WordMod /\ p < MaxPte * PageSize
  BY PhysicalPlace
<1> HIDE DEF o, f, p
<1>6. PICK t \in Int : f * PageSize = 4 * t
  <2>1. PICK P \in Int : PageSize = 4 * P
    BY Sizes, HartAssumption, SMT
  <2>2. f * P \in Int /\ f * PageSize = 4 * (f * P)
    BY <1>4, <2>1, SMTT(30)
  <2> QED  BY <2>2
<1>7. p % size = 0
  <2>1. p = 4 * t + o
    BY <1>5, <1>6
  <2>2. CASE size = 1
    BY <1>5, <2>2, SMT
  <2>3. CASE size = 2
    BY <1>2, <1>6, <2>1, <2>3, SMT
  <2>4. CASE size = 4
    BY <1>2, <1>6, <2>1, <2>4, SMT
  <2> QED  BY <1>3, <2>2, <2>3, <2>4
<1>8. o \in 0 .. PageSize - 1 /\ f * PageSize \in Int
  BY <1>2, <1>3, <1>6, Sizes, SMT
<1> QED  BY <1>1, <1>2, <1>3, <1>4, <1>5, <1>7, <1>8 DEF o, f, p

\* An access that ends in its page, as every aligned one does.
Inside(address, size) == (address % PageSize) + size <= PageSize

LEMMA AlignedInside ==
  ASSUME NEW address \in Addrs, NEW size \in Widths, ~Misaligned(address, size)
  PROVE  Inside(address, size)
BY SpanInPage DEF Inside

LEMMA Located ==
  ASSUME answer' \in Answers, NEW address \in Addrs, NEW size \in Widths, Inside(address, size)
  PROVE  LET o == address % PageSize
             f == answer'.frame
             p == Physical(address)
         IN /\ size \in Int /\ 1 <= size /\ size <= 4 /\ o \in Int /\ 0 <= o /\ o + size <= PageSize
            /\ f \in Frames /\ f * PageSize \in Int
            /\ p = f * PageSize + o /\ p \in Int /\ 0 <= p /\ p + 4 < WordMod
<1>1. size \in Int /\ 1 <= size /\ size <= 4
  BY SMT DEF Widths, Byte, HalfWord, FullWord
<1>2. address % PageSize \in Int /\ 0 <= address % PageSize /\ (address % PageSize) + size <= PageSize
  BY AddressParts DEF Inside
<1>3. answer'.frame \in Frames /\ answer'.frame \in Int
  BY Sizes, SMT DEF Answers, Frames
<1>4. answer'.frame * PageSize \in Int
  <2> DEFINE f == answer'.frame
  <2>1. f \in Int
    BY <1>3
  <2> HIDE DEF f
  <2>2. f * PageSize \in Int
    BY <2>1, Sizes, SMT
  <2> QED  BY <2>2 DEF f
<1> QED  BY <1>1, <1>2, <1>3, <1>4, PhysicalPlace

\* Its bytes, in the page and in the banks.
LEMMA Spanned ==
  ASSUME answer' \in Answers, NEW address \in Addrs, NEW size \in Widths, Inside(address, size)
  PROVE  LET o == address % PageSize
             f == answer'.frame
             p == Physical(address)
         IN /\ Ideal!Span(o, size) \subseteq 0 .. PageSize - 1
            /\ \A u \in Ideal!Span(o, size) : u \in Int /\ f * PageSize + u \in p .. p + size - 1
            /\ \A q \in p .. p + size - 1 :
                 /\ q \in PhysicalAddrs /\ q - f * PageSize \in Ideal!Span(o, size)
                 /\ q = f * PageSize + (q - f * PageSize)
<1> DEFINE o == address % PageSize
           f == answer'.frame
           p == Physical(address)
           F == f * PageSize
<1>1. /\ size \in Int /\ 1 <= size /\ o \in Int /\ 0 <= o /\ o + size <= PageSize
      /\ F \in Int /\ p = F + o /\ f \in Frames
  BY Located
<1> HIDE DEF o, F, p
<1>2. Ideal!Span(o, size) = o .. o + size - 1
  BY DEF Ideal!Span
<1>3. Ideal!Span(o, size) \subseteq 0 .. PageSize - 1
  BY <1>1, <1>2, Sizes, SMT
<1>4. \A u \in Ideal!Span(o, size) : u \in Int /\ F + u \in p .. p + size - 1
  BY <1>1, <1>2, SMT
<1>5. \A q \in p .. p + size - 1 : q - F \in Ideal!Span(o, size) /\ q = F + (q - F)
  BY <1>1, <1>2, SMT
<1>6. \A u \in 0 .. PageSize - 1 : F + u \in PhysicalAddrs
  BY <1>1, FrameBytes DEF F
<1> QED  BY <1>3, <1>4, <1>5, <1>6 DEF o, p, F

\* The access is served by a bank exactly if its cells are present, and
\* writable.
LEMMA Served ==
  ASSUME answer' \in Answers, NEW address \in Addrs, NEW size \in Widths, ~Misaligned(address, size),
         spaceBar'[PageOf(address)].cells = CellsIn(mem', answer'.frame)
  PROVE  LET S == Ideal!Span(address % PageSize, size)
         IN /\ Readers(Physical(address), size) # {} <=> Ideal!Present(PageOf(address), S)
            /\ Writers(Physical(address), size) # {} <=> Ideal!Writable(PageOf(address), S)
<1> DEFINE g == PageOf(address)
           S == Ideal!Span(address % PageSize, size)
           f == answer'.frame
           F == f * PageSize
           p == Physical(address)
           c(q) == CellIn(mem', q)
<1>1. /\ p \in Int /\ 0 <= p /\ p + 4 < WordMod /\ p % size = 0
  BY Place
<1>2. /\ S \subseteq 0 .. PageSize - 1
      /\ \A u \in S : F + u \in p .. p + size - 1
      /\ \A q \in p .. p + size - 1 : q \in PhysicalAddrs /\ q - F \in S /\ q = F + (q - F)
  <2>1. Inside(address, size)
    BY AlignedInside
  <2> QED  BY <2>1, Spanned
<1>3. \A u \in S : spaceBar'[g].cells[u] = c(F + u)
  BY <1>2 DEF CellsIn
<1>4. Ideal!Present(g, S) <=> \A u \in S : c(F + u).present
  BY <1>3 DEF Ideal!Present
<1>5. Ideal!Writable(g, S) <=> \A u \in S : c(F + u).present /\ c(F + u).writable
  BY <1>3 DEF Ideal!Writable
<1>6. /\ Readers(p, size) # {} <=> \A q \in p .. p + size - 1 : c(q).present
      /\ Writers(p, size) # {} <=> \A q \in p .. p + size - 1 : c(q).present /\ c(q).writable
  BY <1>1, <1>2, ServedIff
<1> HIDE DEF g, S, F, p, c
<1>7. (\A u \in S : c(F + u).present) <=> \A q \in p .. p + size - 1 : c(q).present
  BY <1>2, Zenon
<1>8. (\A u \in S : c(F + u).present /\ c(F + u).writable)
        <=> \A q \in p .. p + size - 1 : c(q).present /\ c(q).writable
  BY <1>2, Zenon
<1> QED  BY <1>4, <1>5, <1>6, <1>7, <1>8 DEF g, S, p

\* Bytes a bank can serve are present.
LEMMA PresentRead ==
  ASSUME answer' \in Answers, NEW address \in Addrs, NEW size \in Widths, Inside(address, size),
         Readers(Physical(address), size) # {},
         spaceBar'[PageOf(address)].cells = CellsIn(mem', answer'.frame)
  PROVE  Ideal!Present(PageOf(address), Ideal!Span(address % PageSize, size))
<1> DEFINE g == PageOf(address)
           S == Ideal!Span(address % PageSize, size)
           F == answer'.frame * PageSize
           p == Physical(address)
           c(q) == CellIn(mem', q)
<1>1. p \in Int /\ 0 <= p /\ p + 4 < WordMod
  BY Located
<1>2. /\ S \subseteq 0 .. PageSize - 1
      /\ \A u \in S : F + u \in p .. p + size - 1
      /\ \A q \in p .. p + size - 1 : q \in PhysicalAddrs
  BY Spanned
<1>3. \A u \in S : spaceBar'[g].cells[u] = c(F + u)
  BY <1>2 DEF CellsIn
<1>4. \A q \in p .. p + size - 1 : c(q).present
  BY <1>1, <1>2, ServedThere
<1> HIDE DEF g, S, F, p, c
<1>5. \A u \in S : spaceBar'[g].cells[u].present
  BY <1>2, <1>3, <1>4
<1> QED  BY <1>5 DEF Ideal!Present, g, S

\* What is read is what the cells hold.
LEMMA ReadsCells ==
  ASSUME answer' \in Answers, NEW address \in Addrs, NEW size \in Widths, Inside(address, size),
         NEW signedVal \in BOOLEAN, Readers(Physical(address), size) # {}, mem' = mem,
         spaceBar'[PageOf(address)].cells = CellsIn(mem', answer'.frame)
  PROVE  BusLoad(mem, Physical(address), size, signedVal) =
           Ideal!Reads(PageOf(address), address % PageSize, size, signedVal)
<1> DEFINE g == PageOf(address)
           o == address % PageSize
           S == Ideal!Span(o, size)
           f == answer'.frame
           F == f * PageSize
           p == Physical(address)
<1>1. /\ p \in Int /\ 0 <= p /\ p + 4 < WordMod /\ size \in Int /\ 1 <= size /\ o \in Int
      /\ p = F + o /\ F \in Int
  BY Located
<1>2. /\ S \subseteq 0 .. PageSize - 1
      /\ \A q \in p .. p + size - 1 : q \in PhysicalAddrs
  BY Spanned
<1>3. ASSUME NEW i \in Int, 0 <= i, i < size
      PROVE  CellIn(mem, p + i).byte = spaceBar'[g].cells[o + i].byte
  <2>1. o + i \in S
    <3> HIDE DEF o
    <3> QED  BY <1>1, <1>3, SMT DEF Ideal!Span
  <2>2. spaceBar'[g].cells[o + i] = CellIn(mem, F + (o + i))
    BY <1>2, <2>1 DEF CellsIn
  <2>3. F + (o + i) = p + i
    <3> HIDE DEF o, F, p
    <3> QED  BY <1>1, <1>3, SMT
  <2> QED  BY <2>2, <2>3
<1> DEFINE a(i) == IF i < size THEN CellIn(mem, p + i).byte
                   ELSE IF signedVal THEN Sign(CellIn(mem, p + (size - 1)).byte) ELSE 0
           b(i) == IF i < size THEN spaceBar'[g].cells[o + i].byte
                   ELSE IF signedVal THEN Sign(spaceBar'[g].cells[o + (size - 1)].byte) ELSE 0
<1>4. BusLoad(mem, p, size, signedVal) = [i \in 0 .. 3 |-> a(i)]
  BY <1>1, <1>2, ReadCells
<1>5. Ideal!Reads(g, o, size, signedVal) = [i \in 0 .. 3 |-> b(i)]
  BY DEF Ideal!Reads
<1>6. \A i \in 0 .. 3 : a(i) = b(i)
  <2> SUFFICES ASSUME NEW i \in 0 .. 3 PROVE a(i) = b(i)
    OBVIOUS
  <2>1. i \in Int /\ 0 <= i /\ size - 1 \in Int /\ 0 <= size - 1 /\ size - 1 < size
    BY <1>1, SMT
  <2>2. CellIn(mem, p + (size - 1)).byte = spaceBar'[g].cells[o + (size - 1)].byte
    BY <1>3, <2>1
  <2>3. i < size => CellIn(mem, p + i).byte = spaceBar'[g].cells[o + i].byte
    BY <1>3, <2>1
  <2> QED  BY <2>2, <2>3
<1> HIDE DEF a, b
<1> QED  BY <1>4, <1>5, <1>6

-----------------------------------------------------------------------------
(* Requests that read, or are refused by the bus.                          *)

LEMMA NothingWritten ==
  ASSUME Inv, NEW address \in Addrs, NEW access \in Accesses, Translate(address, access),
         answer'.granted, mem' = mem
  PROVE  /\ Ideal!Granted(PageOf(address), access, {})
         /\ spaceBar'[PageOf(address)].cells = CellsIn(mem', answer'.frame)
<1>1. OnlyAt(answer'.frame, {})
  BY DEF OnlyAt
<1>2. mem' \in MemoryType
  BY Given
<1> QED  BY <1>1, <1>2, Grants

\* A request that the bus does not serve, as one of Machine's refusals.
LEMMA Refused ==
  ASSUME Inv, NEW address \in Addrs, NEW access \in Accesses, Translate(address, access), mem' = mem
  PROVE  Ideal!Barred(PageOf(address), access) \/ Ideal!Granted(PageOf(address), access, {})
BY Bars, NothingWritten

LEMMA RefusedRead ==
  ASSUME Inv, NEW address \in Addrs, NEW access \in Accesses, Translate(address, access), mem' = mem,
         NEW size \in Widths, ~Misaligned(address, size), ~Readable(address, size)
  PROVE  LET g == PageOf(address)
         IN \/ Ideal!Barred(g, access)
            \/ /\ Ideal!Granted(g, access, {})
               /\ ~Ideal!Present(g, Ideal!Span(address % PageSize, size))
<1>1. answer' \in Answers
  BY Given, TranslateKeeps
<1>2. CASE answer'.granted
  <2>1. /\ Ideal!Granted(PageOf(address), access, {})
        /\ spaceBar'[PageOf(address)].cells = CellsIn(mem', answer'.frame)
    BY <1>2, NothingWritten
  <2>2. Readers(Physical(address), size) = {}
    BY <1>2 DEF Readable
  <2> QED  BY <1>1, <2>1, <2>2, Served
<1> QED  BY <1>2, Bars

LEMMA RefusedWrite ==
  ASSUME Inv, NEW address \in Addrs, NEW access \in Accesses, Translate(address, access), mem' = mem,
         NEW size \in Widths, ~Misaligned(address, size), ~Writable(address, size)
  PROVE  LET g == PageOf(address)
         IN \/ Ideal!Barred(g, access)
            \/ /\ Ideal!Granted(g, access, {})
               /\ ~Ideal!Writable(g, Ideal!Span(address % PageSize, size))
<1>1. answer' \in Answers
  BY Given, TranslateKeeps
<1>2. CASE answer'.granted
  <2>1. /\ Ideal!Granted(PageOf(address), access, {})
        /\ spaceBar'[PageOf(address)].cells = CellsIn(mem', answer'.frame)
    BY <1>2, NothingWritten
  <2>2. Writers(Physical(address), size) = {}
    BY <1>2 DEF Writable
  <2> QED  BY <1>1, <2>1, <2>2, Served
<1> QED  BY <1>2, Bars

\* A read that is served.
LEMMA ServedRead ==
  ASSUME Inv, NEW address \in Addrs, NEW access \in Accesses, Translate(address, access), mem' = mem,
         NEW size \in Widths, Inside(address, size), NEW signedVal \in BOOLEAN,
         Readable(address, size)
  PROVE  LET g == PageOf(address)
             o == address % PageSize
         IN /\ Ideal!Granted(g, access, {})
            /\ Ideal!Present(g, Ideal!Span(o, size))
            /\ BusLoad(mem, Physical(address), size, signedVal) = Ideal!Reads(g, o, size, signedVal)
<1>1. answer' \in Answers /\ answer'.granted /\ Readers(Physical(address), size) # {}
  BY Given, TranslateKeeps DEF Readable
<1>2. /\ Ideal!Granted(PageOf(address), access, {})
      /\ spaceBar'[PageOf(address)].cells = CellsIn(mem', answer'.frame)
  BY <1>1, NothingWritten
<1>3. Ideal!Present(PageOf(address), Ideal!Span(address % PageSize, size))
  BY <1>1, <1>2, PresentRead
<1>4. BusLoad(mem, Physical(address), size, signedVal)
        = Ideal!Reads(PageOf(address), address % PageSize, size, signedVal)
  BY <1>1, <1>2, ReadsCells
<1> QED  BY <1>2, <1>3, <1>4

\* A store that is done.
LEMMA ServedWrite ==
  ASSUME Inv, NEW address \in Addrs, NEW access \in Accesses, NEW size \in Widths, NEW val \in Word,
         StoresAt(address, size, val, access)
  PROVE  LET g == PageOf(address)
             o == address % PageSize
         IN /\ Ideal!Granted(g, access, Ideal!Span(o, size))
            /\ Ideal!Writable(g, Ideal!Span(o, size))
            /\ Ideal!Holds(g, o, size, val)
            /\ spaceBar[g].touched => spaceBar[g].cells = CellsIn(mem, answer'.frame)
<1> DEFINE g == PageOf(address)
           o == address % PageSize
           S == Ideal!Span(o, size)
           f == answer'.frame
           F == f * PageSize
           p == Physical(address)
<1>1. answer' \in Answers /\ answer'.granted /\ Translate(address, access) /\ ~Misaligned(address, size)
  BY StoreChanges DEF StoresAt
<1>2. /\ p \in Int /\ 0 <= p /\ p + 4 < WordMod /\ size \in Int /\ 1 <= size /\ o \in Int
      /\ p = F + o /\ F \in Int
  BY <1>1, Place
<1>3. /\ S \subseteq 0 .. PageSize - 1
      /\ \A u \in S : F + u \in p .. p + size - 1
      /\ \A q \in p .. p + size - 1 : q \in PhysicalAddrs /\ q - F \in S /\ q = F + (q - F)
  BY <1>1, AlignedInside, Spanned
<1>4. Writers(p, size) # {} /\ mem' = BusStore(mem, p, size, val)
  BY DEF StoresAt, Writable
<1>5. \A q \in PhysicalAddrs :
        /\ q \notin p .. p + size - 1 => CellIn(mem', q) = CellIn(mem, q)
        /\ q \in p .. p + size - 1 => CellIn(mem', q).byte = val[q - p]
  BY <1>2, <1>4, Given, StoreCells
<1>6. OnlyAt(f, S)
  <2> SUFFICES ASSUME NEW q \in PhysicalAddrs, \A u \in S : q # F + u
               PROVE  CellIn(mem', q) = CellIn(mem, q)
    BY DEF OnlyAt
  <2>1. q \notin p .. p + size - 1
    BY <1>3
  <2> QED  BY <1>5, <2>1
<1>7. mem' \in MemoryType
  <2>1. \E k \in Writers(p, size) : mem' \in MemoryType
    BY <1>1, Given, StoreIsDone DEF StoresAt
  <2> QED  BY <2>1
<1>8. /\ Ideal!Granted(g, access, S)
      /\ spaceBar'[g].cells = CellsIn(mem', f)
      /\ spaceBar[g].touched => spaceBar[g].cells = CellsIn(mem, f)
  <2>1. S \in SUBSET (0 .. PageSize - 1)
    BY <1>3
  <2> HIDE DEF S
  <2> QED  BY <1>1, <1>6, <1>7, <2>1, Grants
<1>9. Ideal!Writable(g, S)
  BY <1>1, <1>4, <1>8, Served
<1>10. Ideal!Holds(g, o, size, val)
  <2> SUFFICES ASSUME NEW i \in 0 .. size - 1
               PROVE  spaceBar'[g].cells[o + i].byte = val[i]
    BY DEF Ideal!Holds
  <2> DEFINE q == p + i
  <2>1. q \in p .. p + size - 1 /\ q - p = i /\ q - F = o + i
    <3> HIDE DEF o, F, p
    <3> QED  BY <1>2, SMT
  <2>2. q \in PhysicalAddrs /\ q - F \in S /\ q = F + (q - F)
    BY <1>3, <2>1
  <2>3. CellIn(mem', q).byte = val[i]
    BY <1>5, <2>1, <2>2
  <2>4. spaceBar'[g].cells[o + i] = CellIn(mem', F + (o + i))
    BY <1>3, <1>8, <2>1, <2>2 DEF CellsIn
  <2>5. F + (o + i) = q
    BY <2>1, <2>2
  <2> QED  BY <2>3, <2>4, <2>5
<1> QED  BY <1>8, <1>9, <1>10

\* What an atomic that writes found there.
LEMMA FoundBefore ==
  ASSUME Inv, NEW address \in Addrs, NEW val \in Word, Readable(address, FullWord),
         StoresAt(address, FullWord, val, AtomicAccess)
  PROVE  Ideal!Before(PageOf(address), address % PageSize, Loaded4(address))
<1> DEFINE g == PageOf(address)
           o == address % PageSize
           F == answer'.frame * PageSize
           p == Physical(address)
<1>1. AtomicAccess \in Accesses /\ FullWord \in Widths /\ TRUE \in BOOLEAN
  BY Access, FullIsWidth
<1>2. /\ answer' \in Answers /\ ~Misaligned(address, FullWord)
  BY <1>1, StoreChanges DEF StoresAt
<1>3. /\ p \in Int /\ 0 <= p /\ p + 4 < WordMod /\ o \in Int /\ 0 <= o /\ o + FullWord <= PageSize
      /\ p = F + o /\ F \in Int
  BY <1>1, <1>2, Place
<1>4. \A q \in p .. p + FullWord - 1 : q \in PhysicalAddrs
  BY <1>1, <1>2, AlignedInside, Spanned
<1>5. Readers(p, FullWord) # {}
  BY DEF Readable
<1> DEFINE s == TRUE
           a(i) == IF i < FullWord THEN CellIn(mem, p + i).byte
                   ELSE IF s THEN Sign(CellIn(mem, p + (FullWord - 1)).byte) ELSE 0
<1>6. Loaded4(address) = [i \in 0 .. 3 |-> a(i)]
  <2>1. s \in BOOLEAN /\ Loaded4(address) = BusLoad(mem, p, FullWord, s)
    BY DEF Loaded4
  <2> HIDE DEF s
  <2> QED  BY <1>1, <1>3, <1>4, <1>5, <2>1, ReadCells
<1>7. ASSUME spaceBar[g].touched, NEW i \in 0 .. 3
      PROVE  spaceBar[g].cells[o + i].byte = Loaded4(address)[i]
  <2>1. spaceBar[g].cells = CellsIn(mem, answer'.frame)
    BY <1>1, <1>7, ServedWrite
  <2>2. o + i \in 0 .. PageSize - 1 /\ F + (o + i) = p + i /\ i < FullWord
    <3> HIDE DEF o, F, p
    <3> QED  BY <1>3, Sizes, SMT DEF FullWord
  <2>3. spaceBar[g].cells[o + i] = CellIn(mem, p + i)
    BY <2>1, <2>2 DEF CellsIn
  <2>4. Loaded4(address)[i] = CellIn(mem, p + i).byte
    BY <1>6, <2>2
  <2> QED  BY <2>3, <2>4
<1> QED  BY <1>7 DEF Ideal!Before

-----------------------------------------------------------------------------
(* The steps.                                                              *)

LEMMA SameWords ==
  /\ Ideal!Word = Word /\ Ideal!Zero = Zero
  /\ \A f, rd, v : Ideal!Written(f, rd, v) = WriteBack(f, rd, v)
BY DEF Ideal!Word, Word, Ideal!Zero, Zero, Places, Ideal!Written, WriteBack

LEMMA SameSpace ==
  ASSUME map' = map, mem' = mem
  PROVE  spaceBar' = spaceBar
BY BarIs

LEMMA Pointing ==
  ASSUME Inv, NEW rs1 \in Regs, NEW size
  PROVE  /\ \A offset \in Offsets : Requested(Effective(rs1, offset), size) => Ideal!Pointed(Offsets)
         /\ Requested(Value(x[rs1]), size) => Ideal!Pointed({0})
<1>1. ASSUME NEW offset \in Offsets, Requested(Effective(rs1, offset), size)
      PROVE  Ideal!Pointed(Offsets)
  <2>1. request'.address = (Value(x[rs1]) + offset) % WordMod
    BY <1>1 DEF Requested, Effective
  <2> QED  BY <2>1, Zenon DEF Ideal!Pointed
<1>2. ASSUME Requested(Value(x[rs1]), size)
      PROVE  Ideal!Pointed({0})
  <2> DEFINE v == Value(x[rs1])
             zero == 0
  <2>1. v \in Int /\ 0 <= v /\ v < WordMod /\ zero \in Int
    BY Given, ValueRange
  <2>2. v = WordMod * zero + v
    BY <2>1, Sizes, SMT
  <2>3. v % WordMod = v
    <3> HIDE DEF v, zero
    <3> QED  BY <2>1, <2>2, Sizes, DividedBy
  <2>4. v + 0 = v
    <3> HIDE DEF v
    <3> QED  BY <2>1, SMT
  <2>5. request'.address = (v + 0) % WordMod
    BY <1>2, <2>3, <2>4 DEF Requested
  <2> QED  BY <2>5, Zenon DEF Ideal!Pointed
<1> QED  BY <1>1, <1>2

\* The request as Machine has it: a page and an offset in it.
LEMMA Placed ==
  ASSUME NEW address \in Addrs, NEW size, Requested(address, size)
  PROVE  Ideal!Requested(PageOf(address), address % PageSize, size)
<1> DEFINE o == address % PageSize
           q == address \div PageSize
<1>1. address \in Int
  BY Sizes, SMT DEF Addrs
<1>2. o \in Int /\ q \in Int /\ address = PageSize * q + o
  BY <1>1, Sizes, Divided
<1>3. q * PageSize + o = address
  <2> HIDE DEF o, q
  <2> QED  BY <1>2, Sizes, SMTT(30)
<1> QED  BY <1>3 DEF Requested, Ideal!Requested, PageOf

LEMMA InitMaps == Init => Ideal!Init
<1> SUFFICES ASSUME Init PROVE Ideal!Init
  OBVIOUS
<1>1. map \subseteq Mapping /\ OnePerPage(map) /\ mem \in MemoryType
  BY InitInv, Given DEF Unshared, OnePerPage
<1> DEFINE n == [pid |-> 0, page |-> 0, frame |-> 0, protection |-> MainAccess]
<1>2. map = {n}
  BY DEF Init
<1>3. ASSUME NEW g \in PageNumbers
      PROVE  spaceBar[g] = Ideal!Untouched \/ spaceBar[g] \in Ideal!Page({"X", "R", "W", "S"})
  <2>1. CASE g = 0
    <3>1. n \in map /\ n.frame \in Frames /\ n.page = g /\ n.protection = {"X", "R", "W", "S"}
      BY <1>1, <1>2, <2>1 DEF Mapping, MainAccess
    <3>2. Bar(map, mem)[n.page] = [touched |-> TRUE, rights |-> n.protection, cells |-> CellsIn(mem, n.frame)]
      BY <1>1, <3>1, BarTouched
    <3>3. CellsIn(mem, n.frame) \in [0 .. PageSize - 1 -> [present : BOOLEAN, writable : BOOLEAN, byte : Bytes]]
      BY <1>1, <3>1, CellsTyped
    <3> HIDE DEF n
    <3>4. spaceBar[g] = [touched |-> TRUE, rights |-> {"X", "R", "W", "S"}, cells |-> CellsIn(mem, n.frame)]
      BY <3>1, <3>2, BarIs
    <3> QED  BY <3>3, <3>4 DEF Ideal!Page, Ideal!PageOffsets, Ideal!Cell
  <2>2. CASE g # 0
    <3>1. \A a \in map : a.page # g
      BY <1>2, <2>2
    <3>2. Bar(map, mem)[g] = [touched |-> FALSE]
      BY <3>1, BarUntouched
    <3> QED  BY <3>2, BarIs DEF Ideal!Untouched
  <2> QED  BY <2>1, <2>2
<1>4. /\ x = [r \in Regs |-> Ideal!Zero] /\ instr = Ideal!Zero /\ request = [address |-> 0, size |-> 4]
      /\ stage = "fetch" /\ event = [class |-> "none", result |-> "done"]
  BY SameWords DEF Init, FullWord
<1> QED  BY <1>3, <1>4 DEF Ideal!Init

\* An offset is aligned in its page only if its address is.
LEMMA AlignedOffset ==
  ASSUME NEW address \in Addrs, Ideal!Aligned(address % PageSize, FullWord)
  PROVE  ~Misaligned(address, FullWord)
<1> DEFINE o == address % PageSize
           q == address \div PageSize
<1>1. address \in Int
  BY Sizes, SMT DEF Addrs
<1>2. o \in Int /\ q \in Int /\ address = PageSize * q + o
  BY <1>1, Sizes, Divided
<1>3. o % 4 = 0
  BY DEF Ideal!Aligned, FullWord
<1>4. PICK P \in Int : PageSize = 4 * P
  BY Sizes, HartAssumption, SMT
<1> HIDE DEF o, q
<1>5. PICK t \in Int : PageSize * q = 4 * t
  <2>1. P * q \in Int /\ PageSize * q = 4 * (P * q)
    BY <1>2, <1>4, SMTT(30)
  <2> QED  BY <2>1
<1>6. address % 4 = 0
  BY <1>1, <1>2, <1>3, <1>5, SMT
<1> QED  BY <1>6 DEF Misaligned, FullWord

LEMMA FetchMaps ==
  ASSUME Inv, NEW pc \in Fetches, Fetch(pc)
  PROVE  Ideal!Next
<1> DEFINE g == PageOf(pc)
           o == pc % PageSize
<1>1. pc \in Addrs /\ FetchAccess \in Accesses /\ FullWord \in Widths /\ TRUE \in BOOLEAN
  BY HartAssumption, Access, FullIsWidth
<1>2. g \in PageNumbers /\ o \in Ideal!PageOffsets
  BY <1>1, AddressParts, Sizes, SMT DEF Ideal!PageOffsets
<1>3. Translate(pc, FetchAccess) /\ mem' = mem /\ x' = x /\ stage = "fetch"
  BY DEF Fetch
<1>7. Ideal!Requested(g, o, FullWord)
  BY <1>1, Placed DEF Fetch
<1>4. FetchAccess = {"X", "S"} /\ FullWord = 4
  BY DEF FetchAccess, FullWord
<1>5. CASE /\ Readable(pc, FullWord) /\ instr' = Loaded4(pc)
           /\ stage' = "execute" /\ Ended("fetch", "done")
  <2>1. Ideal!Granted(g, FetchAccess, {})
    BY <1>1, <1>3, <1>5, NothingWritten DEF Readable
  <2>2. ASSUME Ideal!Within(o, FullWord)
        PROVE  /\ Ideal!Present(g, Ideal!Span(o, FullWord))
               /\ instr' = Ideal!Reads(g, o, FullWord, TRUE)
    <3>1. Inside(pc, FullWord)
      BY <2>2 DEF Ideal!Within, Inside
    <3> QED  BY <1>1, <1>3, <1>5, <3>1, ServedRead DEF Loaded4
  <2>4. instr' \in Ideal!Word
    <3>1. instr' \in Word
      BY FetchInv, Given DEF Inv, TypeOK
    <3> QED  BY <3>1, SameWords
  <2>3. Ideal!Fetch(g, o)
    <3> HIDE DEF g, o
    <3> QED  BY <1>3, <1>4, <1>5, <1>7, <2>1, <2>2, <2>4 DEF Ideal!Fetch, Ended, Ideal!Ended
  <2> QED  BY <1>2, <1>3, <2>3 DEF Ideal!Next
<1>6. CASE ~Readable(pc, FullWord) /\ stage' = "halt" /\ Ended("fetch", "outside") /\ UNCHANGED instr
  <2>1. \/ Ideal!Barred(g, FetchAccess)
        \/ /\ Ideal!Granted(g, FetchAccess, {})
           /\ Ideal!Aligned(o, FullWord) => ~Ideal!Present(g, Ideal!Span(o, FullWord))
    <3>1. CASE Ideal!Aligned(o, FullWord)
      BY <1>1, <1>3, <1>6, <3>1, AlignedOffset, RefusedRead
    <3>2. CASE ~Ideal!Aligned(o, FullWord)
      BY <1>1, <1>3, <3>2, Refused
    <3> QED  BY <3>1, <3>2
  <2>2. Ideal!Fetch(g, o)
    <3> HIDE DEF g, o
    <3> QED  BY <1>3, <1>4, <1>6, <1>7, <2>1 DEF Ideal!Fetch, Ended, Ideal!Ended
  <2> QED  BY <1>2, <1>3, <2>2 DEF Ideal!Next
<1> QED  BY <1>5, <1>6 DEF Fetch

LEMMA ComputeMaps ==
  ASSUME Inv, Unknown \/ Compute
  PROVE  Ideal!Next
<1>1. spaceBar' = spaceBar
  BY SameSpace DEF Unknown, Compute
<1>2. event'.class \in {"compute", "unknown"}
  BY DEF Unknown, Compute, Ended
<1>3. ASSUME NEW rd \in Regs, NEW v \in Word, x' = WriteBack(x, rd, v)
      PROVE  \E r \in Regs : x'[r] \in Ideal!Word /\ x' = Ideal!Written(x, r, x'[r])
  <2>1. x \in [Regs -> Word]
    BY Given
  <2>2. x'[rd] = IF rd = 0 THEN Zero ELSE v
    BY <1>3, <2>1 DEF WriteBack
  <2>3. x' = WriteBack(x, rd, x'[rd]) /\ x'[rd] \in Word
    BY <1>3, <2>2, ZeroWord DEF WriteBack
  <2> QED  BY <2>3, SameWords
<1>4. x' = x \/ \E rd \in Regs, v \in Word : x' = WriteBack(x, rd, v)
  BY HartAssumption, ZeroWord DEF Unknown, Compute
<1>5. Ideal!Compute
  <2>1. request' = request
    BY DEF Unknown, Compute
  <2> QED  BY <1>1, <1>2, <1>3, <1>4, <2>1 DEF Ideal!Compute
<1>6. stage = "execute" /\ stage' = "fetch" /\ instr' = instr
  BY DEF Unknown, Compute, Retire
<1> QED  BY <1>5, <1>6 DEF Ideal!Next, Ideal!Execute

\* Where an aligned access is in its page.
LEMMA InPage ==
  ASSUME NEW address \in Addrs, NEW size \in Widths, ~Misaligned(address, size)
  PROVE  /\ PageOf(address) \in PageNumbers /\ address % PageSize \in Ideal!PageOffsets
         /\ size \in {1, 2, 4} /\ Ideal!Aligned(address % PageSize, size)
<1>1. address % PageSize \in Ideal!PageOffsets
  BY AddressParts, Sizes, SMT DEF Ideal!PageOffsets
<1>2. (address % PageSize) % size = 0
  BY SpanInPage
<1> QED  BY <1>1, <1>2, AddressParts DEF Ideal!Aligned, Widths, Byte, HalfWord, FullWord

LEMMA Unaligned ==
  ASSUME NEW address, NEW size, Requested(address, size), Misaligned(address, size)
  PROVE  ~Ideal!Aligned(request'.address, request'.size)
BY DEF Requested, Misaligned, Ideal!Aligned

LEMMA LoadMaps ==
  ASSUME Inv, NEW rs1 \in Regs, NEW rd \in Regs, NEW offset \in Offsets, NEW size \in Widths,
         NEW signedVal \in BOOLEAN, NEW known \in BOOLEAN, Load(rs1, offset, rd, size, signedVal, known)
  PROVE  Ideal!Next
<1> DEFINE address == Effective(rs1, offset)
           class == IF signedVal THEN "loadSigned" ELSE "load"
           g == PageOf(address)
           o == address % PageSize
<1>1. address \in Addrs /\ LoadAccess \in Accesses /\ LoadAccess = {"R", "S"}
  BY Given, RegisterValues, Access DEF LoadAccess
<1>2. stage = "execute" /\ stage' = "fetch" /\ mem' = mem
  BY DEF Load, Retire
<1>5. Requested(address, size) /\ instr' = instr
  BY DEF Load, Retire
<1>6. Ideal!Pointed(Offsets)
  BY <1>5, Pointing
<1> SUFFICES Ideal!Execute
  BY <1>2, <1>5 DEF Ideal!Next
<1>3. CASE Misaligned(address, size) /\ Ended(class, "LoadAddressMisaligned") /\ UNCHANGED <<x, map, answer>>
  <2>1. spaceBar' = spaceBar
    BY <1>2, <1>3, SameSpace
  <2>2. Ideal!Ended("load", "LoadAddressMisaligned") \/ Ideal!Ended("loadSigned", "LoadAddressMisaligned")
    BY <1>3 DEF Ended, Ideal!Ended
  <2>3. ~Ideal!Aligned(request'.address, request'.size)
    BY <1>3, <1>5, Unaligned
  <2>4. Ideal!Misaligned
    BY <1>3, <1>6, <2>1, <2>2, <2>3 DEF Ideal!Misaligned
  <2> QED  BY <2>4 DEF Ideal!Execute
<1>4. CASE ~Misaligned(address, size) /\ Translate(address, LoadAccess)
           /\ \/ /\ Readable(address, size)
                 /\ x' = WriteBack(x, rd, BusLoad(mem, Physical(address), size, signedVal))
                 /\ Ended(class, Outcome(known))
              \/ /\ ~Readable(address, size)
                 /\ Ended(class, "LoadAccessFault")
                 /\ UNCHANGED x
  <2>1. g \in PageNumbers /\ o \in Ideal!PageOffsets /\ size \in {1, 2, 4} /\ Ideal!Aligned(o, size)
    BY <1>1, <1>4, InPage
  <2>5. Ideal!Requested(g, o, size)
    BY <1>1, <1>5, Placed
  <2>2. event'.class = class
    BY <1>4 DEF Ended
  <2>3. CASE /\ Readable(address, size)
             /\ x' = WriteBack(x, rd, BusLoad(mem, Physical(address), size, signedVal))
             /\ Ended(class, Outcome(known))
    <3>1. /\ Ideal!Granted(g, LoadAccess, {})
          /\ Ideal!Present(g, Ideal!Span(o, size))
          /\ BusLoad(mem, Physical(address), size, signedVal) = Ideal!Reads(g, o, size, signedVal)
      BY <1>1, <1>2, <1>4, <2>3, AlignedInside, ServedRead
    <3>2. event'.result \in {"done", "IllegalInstruction"}
      BY <2>3 DEF Ended, Outcome
    <3>3. x' = Ideal!Written(x, rd, Ideal!Reads(g, o, size, signedVal))
      BY <2>3, <3>1, SameWords
    <3> HIDE DEF g, o
    <3>4. Ideal!Load(g, o, size, signedVal)
      BY <1>1, <2>2, <3>1, <3>2, <3>3 DEF Ideal!Load
    <3> QED  BY <1>6, <2>1, <2>2, <2>5, <3>4 DEF Ideal!Execute
  <2>4. CASE ~Readable(address, size) /\ Ended(class, "LoadAccessFault") /\ UNCHANGED x
    <3>1. \/ Ideal!Barred(g, LoadAccess)
          \/ Ideal!Granted(g, LoadAccess, {}) /\ ~Ideal!Present(g, Ideal!Span(o, size))
      BY <1>1, <1>2, <1>4, <2>4, RefusedRead
    <3>2. event'.result = "LoadAccessFault"
      BY <2>4 DEF Ended
    <3> HIDE DEF g, o
    <3>3. Ideal!Load(g, o, size, signedVal)
      BY <1>1, <2>2, <2>4, <3>1, <3>2 DEF Ideal!Load
    <3> QED  BY <1>6, <2>1, <2>2, <2>5, <3>3 DEF Ideal!Execute
  <2> QED  BY <1>4, <2>3, <2>4
<1> QED  BY <1>3, <1>4 DEF Load

LEMMA StoreMaps ==
  ASSUME Inv, NEW rs1 \in Regs, NEW rs2 \in Regs, NEW offset \in Offsets, NEW size \in Widths,
         NEW known \in BOOLEAN, Store(rs1, offset, rs2, size, known)
  PROVE  Ideal!Next
<1> DEFINE address == Effective(rs1, offset)
           g == PageOf(address)
           o == address % PageSize
<1>1. address \in Addrs /\ StoreAccess \in Accesses /\ StoreAccess = {"W", "S"} /\ x[rs2] \in Word
  BY Given, RegisterValues, Access DEF StoreAccess
<1>2. stage = "execute" /\ stage' = "fetch" /\ x' = x
  BY DEF Store, Retire
<1>5. Requested(address, size) /\ instr' = instr
  BY DEF Store, Retire
<1>6. Ideal!Pointed(Offsets)
  BY <1>5, Pointing
<1> SUFFICES Ideal!Execute
  BY <1>2, <1>5 DEF Ideal!Next
<1>3. CASE Misaligned(address, size) /\ Ended("store", "StoreAMOAddressMisaligned") /\ UNCHANGED <<mem, map, answer>>
  <2>1. spaceBar' = spaceBar
    BY <1>3, SameSpace
  <2>2. Ideal!Ended("store", "StoreAMOAddressMisaligned")
    BY <1>3 DEF Ended, Ideal!Ended
  <2>3. ~Ideal!Aligned(request'.address, request'.size)
    BY <1>3, <1>5, Unaligned
  <2>4. Ideal!Misaligned
    BY <1>2, <1>6, <2>1, <2>2, <2>3 DEF Ideal!Misaligned
  <2> QED  BY <2>4 DEF Ideal!Execute
<1>4. CASE ~Misaligned(address, size) /\ Translate(address, StoreAccess)
           /\ \/ /\ Writable(address, size)
                 /\ mem' = BusStore(mem, Physical(address), size, x[rs2])
                 /\ Ended("store", Outcome(known))
              \/ /\ ~Writable(address, size)
                 /\ Ended("store", "StoreAMOAccessFault")
                 /\ UNCHANGED mem
  <2>1. g \in PageNumbers /\ o \in Ideal!PageOffsets /\ size \in {1, 2, 4} /\ Ideal!Aligned(o, size)
    BY <1>1, <1>4, InPage
  <2>5. Ideal!Requested(g, o, size)
    BY <1>1, <1>5, Placed
  <2>2. event'.class = "store"
    BY <1>4 DEF Ended
  <2>3. CASE /\ Writable(address, size)
             /\ mem' = BusStore(mem, Physical(address), size, x[rs2])
             /\ Ended("store", Outcome(known))
    <3>1. StoresAt(address, size, x[rs2], StoreAccess)
      BY <1>4, <2>3 DEF StoresAt
    <3>2. /\ Ideal!Granted(g, StoreAccess, Ideal!Span(o, size))
          /\ Ideal!Writable(g, Ideal!Span(o, size))
          /\ Ideal!Holds(g, o, size, x[rs2])
      BY <1>1, <3>1, ServedWrite
    <3>3. event'.result \in {"done", "IllegalInstruction"}
      BY <2>3 DEF Ended, Outcome
    <3> HIDE DEF g, o
    <3>4. Ideal!Store(g, o, size)
      BY <1>1, <1>2, <2>2, <3>2, <3>3 DEF Ideal!Store
    <3> QED  BY <1>6, <2>1, <2>2, <2>5, <3>4 DEF Ideal!Execute
  <2>4. CASE ~Writable(address, size) /\ Ended("store", "StoreAMOAccessFault") /\ UNCHANGED mem
    <3>1. \/ Ideal!Barred(g, StoreAccess)
          \/ Ideal!Granted(g, StoreAccess, {}) /\ ~Ideal!Writable(g, Ideal!Span(o, size))
      BY <1>1, <1>4, <2>4, RefusedWrite
    <3>2. event'.result = "StoreAMOAccessFault"
      BY <2>4 DEF Ended
    <3> HIDE DEF g, o
    <3>3. Ideal!Store(g, o, size)
      BY <1>1, <1>2, <2>2, <3>1, <3>2 DEF Ideal!Store
    <3> QED  BY <1>6, <2>1, <2>2, <2>5, <3>3 DEF Ideal!Execute
  <2> QED  BY <1>4, <2>3, <2>4
<1> QED  BY <1>3, <1>4 DEF Store

\* An atomic that is done, as a step of Machine once the step of the word is.
LEMMA DoneMaps ==
  ASSUME Inv, NEW rs1 \in Regs, NEW class \in {"atomic", "swap"}, Done(Value(x[rs1]), class),
         LET g == PageOf(Value(x[rs1]))
             o == Value(x[rs1]) % PageSize
         IN Ideal!AtomicRead(g, o) \/ Ideal!AtomicWrite(g, o)
  PROVE  Ideal!Next
<1> DEFINE address == Value(x[rs1])
           g == PageOf(address)
           o == address % PageSize
<1>1. address \in Addrs /\ FullWord \in Widths /\ FullWord = 4
  BY Given, RegisterValues, FullIsWidth DEF FullWord
<1>2. /\ ~Misaligned(address, FullWord) /\ Requested(address, FullWord) /\ instr' = instr
      /\ stage = "execute" /\ stage' = "fetch" /\ event'.class = class
  BY DEF Done, Asked, Retire, Ended
<1>3. g \in PageNumbers /\ o \in Ideal!PageOffsets /\ Ideal!Aligned(o, FullWord)
  BY <1>1, <1>2, InPage
<1>4. Ideal!AtomicRead(g, o) \/ Ideal!AtomicWrite(g, o)
  OBVIOUS
<1>5. Ideal!Requested(g, o, FullWord) /\ Ideal!Pointed({0})
  BY <1>1, <1>2, Placed, Pointing
<1> HIDE DEF g, o
<1>6. Ideal!Execute
  BY <1>1, <1>2, <1>3, <1>4, <1>5 DEF Ideal!Execute
<1> QED  BY <1>2, <1>6 DEF Ideal!Next

LEMMA ReservedMaps ==
  ASSUME Inv, NEW rs1 \in Regs, NEW rd \in Regs, LoadReserved(rs1, rd)
  PROVE  Ideal!Next
<1> DEFINE address == Value(x[rs1])
           g == PageOf(address)
           o == address % PageSize
           s == TRUE
<1>1. /\ address \in Addrs /\ FullWord \in Widths /\ s \in BOOLEAN /\ FullWord = 4
      /\ AtomicAccess \in Accesses /\ AtomicAccess = {"R", "S"}
  BY Given, RegisterValues, FullIsWidth, Access DEF FullWord, AtomicAccess
<1>2. /\ Done(address, "atomic") /\ Readable(address, FullWord) /\ mem' = mem
      /\ Translate(address, AtomicAccess) /\ ~Misaligned(address, FullWord)
  BY DEF LoadReserved, Done, Asked
<1>3. /\ Ideal!Granted(g, AtomicAccess, {})
      /\ Ideal!Present(g, Ideal!Span(o, FullWord))
      /\ BusLoad(mem, Physical(address), FullWord, s) = Ideal!Reads(g, o, FullWord, s)
  <2> HIDE DEF s
  <2> QED  BY <1>1, <1>2, AlignedInside, ServedRead
<1>4. x' = Ideal!Written(x, rd, Ideal!Reads(g, o, FullWord, s))
  BY <1>3, SameWords DEF LoadReserved, Loaded4
<1>5. event' = [class |-> "atomic", result |-> "done"]
  BY <1>2 DEF Done, Asked, Ended
<1>6. Ideal!AtomicRead(g, o)
  <2> HIDE DEF g, o
  <2> QED  BY <1>1, <1>3, <1>4, <1>5 DEF Ideal!AtomicRead, Ideal!Ended
<1> QED  BY <1>2, <1>6, DoneMaps

\* What the three atomics that write have in common.
LEMMA AtomicWritten ==
  ASSUME Inv, NEW rs1 \in Regs, NEW class \in {"atomic", "swap"}, Done(Value(x[rs1]), class),
         NEW val \in Word, Writable(Value(x[rs1]), FullWord),
         mem' = BusStore(mem, Physical(Value(x[rs1])), FullWord, val)
  PROVE  LET address == Value(x[rs1])
             g == PageOf(address)
             o == address % PageSize
         IN /\ event' = [class |-> class, result |-> "done"]
            /\ Ideal!Granted(g, {"R", "S"}, Ideal!Span(o, 4))
            /\ Ideal!Writable(g, Ideal!Span(o, 4))
            /\ Ideal!Holds(g, o, 4, val)
            /\ Readable(address, FullWord) => Ideal!Before(g, o, Loaded4(address))
<1> DEFINE address == Value(x[rs1])
           g == PageOf(address)
           o == address % PageSize
<1>1. /\ address \in Addrs /\ FullWord \in Widths /\ FullWord = 4
      /\ AtomicAccess \in Accesses /\ AtomicAccess = {"R", "S"}
  BY Given, RegisterValues, FullIsWidth, Access DEF FullWord, AtomicAccess
<1>2. StoresAt(address, FullWord, val, AtomicAccess) /\ event' = [class |-> class, result |-> "done"]
  BY DEF StoresAt, Done, Asked, Ended
<1>3. /\ Ideal!Granted(g, AtomicAccess, Ideal!Span(o, FullWord))
      /\ Ideal!Writable(g, Ideal!Span(o, FullWord))
      /\ Ideal!Holds(g, o, FullWord, val)
  BY <1>1, <1>2, ServedWrite
<1>4. Readable(address, FullWord) => Ideal!Before(g, o, Loaded4(address))
  BY <1>1, <1>2, FoundBefore
<1> QED  BY <1>1, <1>2, <1>3, <1>4

LEMMA ConditionalMaps ==
  ASSUME Inv, NEW rs1 \in Regs, NEW rs2 \in Regs, NEW rd \in Regs, StoreConditional(rs1, rs2, rd)
  PROVE  Ideal!Next
<1> DEFINE address == Value(x[rs1])
           g == PageOf(address)
           o == address % PageSize
<1>1. /\ Done(address, "atomic") /\ Writable(address, FullWord) /\ x[rs2] \in Word
      /\ mem' = BusStore(mem, Physical(address), FullWord, x[rs2])
  BY Given DEF StoreConditional
<1>2. /\ event' = [class |-> "atomic", result |-> "done"]
      /\ Ideal!Granted(g, {"R", "S"}, Ideal!Span(o, 4))
      /\ Ideal!Writable(g, Ideal!Span(o, 4))
      /\ Ideal!Holds(g, o, 4, x[rs2])
  BY <1>1, AtomicWritten
<1>3. x' = Ideal!Written(x, rd, Ideal!Zero)
  BY SameWords DEF StoreConditional
<1>4. Ideal!AtomicWrite(g, o)
  <2> HIDE DEF g, o
  <2> QED  BY <1>2, <1>3 DEF Ideal!AtomicWrite
<1> QED  BY <1>1, <1>4, DoneMaps

LEMMA SwapMaps ==
  ASSUME Inv, NEW rs1 \in Regs, NEW rs2 \in Regs, NEW rd \in Regs, SwapDone(rs1, rs2, rd)
  PROVE  Ideal!Next
<1> DEFINE address == Value(x[rs1])
           g == PageOf(address)
           o == address % PageSize
           old == Loaded4(address)
<1>1. /\ Done(address, "swap") /\ Writable(address, FullWord) /\ Readable(address, FullWord)
      /\ mem' = BusStore(mem, Physical(address), FullWord, x[rs2])
      /\ x[rs2] \in Word /\ address \in Addrs /\ AtomicAccess \in Accesses
  BY Given, RegisterValues, Access DEF SwapDone
<1>2. /\ event' = [class |-> "swap", result |-> "done"]
      /\ Ideal!Granted(g, {"R", "S"}, Ideal!Span(o, 4))
      /\ Ideal!Writable(g, Ideal!Span(o, 4))
      /\ Ideal!Holds(g, o, 4, x[rs2])
      /\ Ideal!Before(g, o, old)
  BY <1>1, AtomicWritten
<1>3. old \in Ideal!Word
  <2>1. answer' \in Answers
    BY <1>1, Given, TranslateKeeps DEF Done, Asked
  <2> QED  BY <1>1, <2>1, DoneReads, SameWords
<1>4. x' = Ideal!Written([x EXCEPT ![rs2] = old], rd, old)
  BY SameWords DEF SwapDone
<1>5. Ideal!AtomicWrite(g, o)
  <2> HIDE DEF g, o, old
  <2> QED  BY <1>2, <1>3, <1>4 DEF Ideal!AtomicWrite
<1> QED  BY <1>1, <1>5, DoneMaps

LEMMA CombineMaps ==
  ASSUME Inv, NEW rs1 \in Regs, NEW rs2 \in Regs, NEW rd \in Regs, NEW op \in Operations,
         AmoCombine(op, rs1, rs2, rd)
  PROVE  Ideal!Next
<1> DEFINE address == Value(x[rs1])
           g == PageOf(address)
           o == address % PageSize
           old == Loaded4(address)
           val == Combined(op, old, x[rs2])
<1>1. /\ Done(address, "atomic") /\ Writable(address, FullWord) /\ Readable(address, FullWord)
      /\ mem' = BusStore(mem, Physical(address), FullWord, val)
      /\ x[rs2] \in Word /\ address \in Addrs /\ AtomicAccess \in Accesses
  BY Given, RegisterValues, Access DEF AmoCombine
<1>2. old \in Word /\ old \in Ideal!Word
  <2>1. answer' \in Answers
    BY <1>1, Given, TranslateKeeps DEF Done, Asked
  <2> QED  BY <1>1, <2>1, DoneReads, SameWords
<1>3. val \in Word
  BY <1>1, <1>2, CombinedWord
<1>4. /\ event' = [class |-> "atomic", result |-> "done"]
      /\ Ideal!Granted(g, {"R", "S"}, Ideal!Span(o, 4))
      /\ Ideal!Writable(g, Ideal!Span(o, 4))
      /\ Ideal!Holds(g, o, 4, val)
      /\ Ideal!Before(g, o, old)
  <2> HIDE DEF val
  <2> QED  BY <1>1, <1>3, AtomicWritten
<1>5. x' = Ideal!Written(x, rd, old)
  BY SameWords DEF AmoCombine
<1>6. Ideal!AtomicWrite(g, o)
  <2> HIDE DEF g, o, old
  <2> QED  BY <1>2, <1>4, <1>5 DEF Ideal!AtomicWrite
<1> QED  BY <1>1, <1>6, DoneMaps

\* An atomic whose word is not served.
LEMMA UnservedMaps ==
  ASSUME Inv, NEW rs1 \in Regs, Asked(Value(x[rs1])), NEW class \in {"atomic", "swap"},
         event' = [class |-> class, result |-> "LoadAccessFault"], mem' = mem, x' = x
  PROVE  Ideal!Next
<1> DEFINE address == Value(x[rs1])
           g == PageOf(address)
           o == address % PageSize
<1>1. /\ address \in Addrs /\ FullWord \in Widths
      /\ AtomicAccess \in Accesses /\ AtomicAccess = {"R", "S"}
  BY Given, RegisterValues, FullIsWidth, Access DEF AtomicAccess
<1>2. /\ stage = "execute" /\ stage' = "fetch" /\ instr' = instr
      /\ Requested(address, FullWord) /\ ~Misaligned(address, FullWord)
      /\ Translate(address, AtomicAccess)
  BY DEF Asked, Retire
<1>3. Ideal!Pointed({0})
  BY <1>2, Pointing
<1>4. g \in PageNumbers /\ o \in Ideal!PageOffsets /\ Ideal!Aligned(o, 4)
  BY <1>1, <1>2, InPage DEF FullWord
<1>5. Ideal!Requested(g, o, 4)
  BY <1>1, <1>2, Placed DEF FullWord
<1>6. Ideal!Barred(g, AtomicAccess) \/ Ideal!Granted(g, AtomicAccess, {})
  BY <1>1, <1>2, Refused
<1> HIDE DEF g, o
<1>7. Ideal!AtomicRefused(g) /\ event'.class \in {"atomic", "swap"}
  BY <1>1, <1>6 DEF Ideal!AtomicRefused
<1>8. Ideal!Execute
  BY <1>3, <1>4, <1>5, <1>7 DEF Ideal!Execute
<1> QED  BY <1>2, <1>8 DEF Ideal!Next

LEMMA AtomicRefusedMaps ==
  ASSUME Inv, NEW rs1 \in Regs, NEW needed, AtomicRefused(rs1, needed)
  PROVE  Ideal!Next
<1> DEFINE address == Value(x[rs1])
<1>1. /\ address \in Addrs /\ FullWord \in Widths
      /\ stage = "execute" /\ stage' = "fetch" /\ mem' = mem /\ x' = x
      /\ Requested(address, FullWord) /\ instr' = instr
  BY Given, RegisterValues, FullIsWidth DEF AtomicRefused, Retire
<1>2. CASE Misaligned(address, FullWord) /\ Ended("atomic", "LoadAddressMisaligned") /\ UNCHANGED <<map, answer>>
  <2>1. spaceBar' = spaceBar
    BY <1>1, <1>2, SameSpace
  <2>2. Ideal!Ended("atomic", "LoadAddressMisaligned")
    BY <1>2 DEF Ended, Ideal!Ended
  <2>3. ~Ideal!Aligned(request'.address, request'.size) /\ request'.size = 4
    BY <1>1, <1>2, Unaligned DEF Requested, FullWord
  <2>4. Ideal!Pointed({0})
    BY <1>1, Pointing
  <2>5. Ideal!Misaligned
    BY <1>1, <2>1, <2>2, <2>3, <2>4 DEF Ideal!Misaligned
  <2> QED  BY <1>1, <2>5 DEF Ideal!Execute, Ideal!Next
<1>3. CASE ~Misaligned(address, FullWord) /\ Translate(address, AtomicAccess)
           /\ Ended("atomic", "LoadAccessFault")
  <2>1. Asked(address)
    BY <1>3 DEF AtomicRefused, Asked
  <2>2. event' = [class |-> "atomic", result |-> "LoadAccessFault"]
    BY <1>3 DEF Ended
  <2> QED  BY <1>1, <2>1, <2>2, UnservedMaps
<1> QED  BY <1>2, <1>3 DEF AtomicRefused

LEMMA SwapRefusedMaps ==
  ASSUME Inv, NEW rs1 \in Regs, SwapRefused(rs1)
  PROVE  Ideal!Next
<1>1. event' = [class |-> "swap", result |-> "LoadAccessFault"]
  BY DEF SwapRefused, Ended
<1>2. Asked(Value(x[rs1])) /\ mem' = mem /\ x' = x
  BY DEF SwapRefused
<1> QED  BY <1>1, <1>2, UnservedMaps

LEMMA StepMaps == Inv /\ [Next]_vars => [Ideal!Next]_(Ideal!vars)
<1> SUFFICES ASSUME Inv, [Next]_vars PROVE [Ideal!Next]_(Ideal!vars)
  OBVIOUS
<1>1. CASE UNCHANGED vars
  <2>1. spaceBar' = spaceBar
    BY <1>1, SameSpace DEF vars
  <2> QED  BY <1>1, <2>1 DEF vars, Ideal!vars
<1>2. CASE ALoad
  BY <1>2, LoadMaps DEF ALoad
<1>3. CASE AStore
  BY <1>3, StoreMaps DEF AStore
<1>4. CASE AnAtomic
  BY <1>4, ReservedMaps, ConditionalMaps, SwapMaps, CombineMaps, AtomicRefusedMaps,
     SwapRefusedMaps DEF AnAtomic
<1> QED  BY <1>1, <1>2, <1>3, <1>4, Steps, FetchMaps, ComputeMaps

\* What the hart does with the MMU, the bus and the banks (Riscv32.hpp:29-74,
\* Bus.hpp:25-51, Memory.hpp:58-103) is what a program expects of storage that
\* is its own: for every layout of banks, page size and program, every step of
\* Hart is a step of Machine or leaves its state alone.
THEOREM Refinement == Spec => RefinesMachine
<1> QED  BY InitMaps, StepMaps, Invariance, PTL DEF Spec, RefinesMachine, Ideal!Spec
=============================================================================
