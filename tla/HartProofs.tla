----------------------------- MODULE HartProofs -----------------------------
(***************************************************************************)
(* The type invariant of Hart and its safety properties, proved for every  *)
(* number of registers, every layout of banks, every page size and every   *)
(* program.                                                                *)
(***************************************************************************)
EXTENDS Hart, Numbers

-----------------------------------------------------------------------------
(* Numbers.                                                                *)

LEMMA Sizes ==
  /\ PageSize \in Int /\ PageSize > 0 /\ NumPages \in Int /\ NumPages > 0
  /\ MaxPte \in Int /\ MaxPte > 0 /\ NumRegs \in Int /\ NumRegs > 0
  /\ ByteMod \in Int /\ ByteMod > 1 /\ WordMod \in Int /\ WordMod > 0
BY HartAssumption, MemoryAssumption, SMT

\* One more digit.
LEMMA Digit ==
  ASSUME NEW b \in Int, NEW m \in Int, NEW d \in Int, NEW v \in Int,
         b > 0, m > 0, 0 <= d, d < b, 0 <= v, v < m
  PROVE  0 <= d + b * v /\ d + b * v < b * m
<1>1. 0 <= b * v
  BY SMTT(30)
<1>2. b * v <= b * (m - 1)
  BY SMTT(30)
<1>3. b * (m - 1) = b * m - b
  BY SMTT(30)
<1> QED  BY <1>1, <1>2, <1>3, SMTT(30)

-----------------------------------------------------------------------------
(* Words.                                                                  *)

LEMMA WordBytes ==
  ASSUME NEW w \in Word, NEW i \in Places
  PROVE  w[i] \in Int /\ 0 <= w[i] /\ w[i] < ByteMod
BY Sizes, SMT DEF Word, Bytes

LEMMA ZeroWord == Zero \in Word
BY Sizes, SMT DEF Zero, Word, Bytes

LEMMA ValueRange ==
  ASSUME NEW w \in Word
  PROVE  Value(w) \in Int /\ 0 <= Value(w) /\ Value(w) < WordMod
<1> DEFINE B == ByteMod
           v2 == w[2] + B * w[3]
           v1 == w[1] + B * v2
           v0 == w[0] + B * v1
<1>1. \A i \in {0, 1, 2, 3} : w[i] \in Int /\ 0 <= w[i] /\ w[i] < B
  BY WordBytes, SMT DEF Places
<1>2. B \in Int /\ B > 0 /\ B * B \in Int /\ B * B > 0 /\ B * (B * B) \in Int /\ B * (B * B) > 0
  BY Sizes, SMTT(30)
<1>3. v2 \in Int /\ 0 <= v2 /\ v2 < B * B
  BY <1>1, <1>2, Digit, SMT
<1>4. v1 \in Int /\ 0 <= v1 /\ v1 < B * (B * B)
  <2> HIDE DEF v2
  <2> QED  BY <1>1, <1>2, <1>3, Digit, SMT
<1>5. v0 \in Int /\ 0 <= v0 /\ v0 < B * (B * (B * B))
  <2> HIDE DEF v1
  <2> QED  BY <1>1, <1>2, <1>4, Digit, SMT
<1>6. B * (B * (B * B)) = WordMod
  BY MemoryAssumption, Sizes, SMTT(30)
<1>7. Value(w) = v0
  BY Zenon DEF Value
<1> QED  BY <1>5, <1>6, <1>7

LEMMA ToWordTyped ==
  ASSUME NEW n \in Int
  PROVE  ToWord(n) \in Word
<1> DEFINE B == ByteMod
<1>1. B \in Int /\ B > 0 /\ B * B \in Int /\ B * B > 0 /\ B * B * B \in Int /\ B * B * B > 0
  BY Sizes, SMTT(30)
<1>2. n \div B \in Int /\ n \div (B * B) \in Int /\ n \div (B * B * B) \in Int
  BY <1>1, Divided
<1>3. \A k \in Int : k % B \in Bytes
  <2> SUFFICES ASSUME NEW k \in Int PROVE k % B \in Bytes
    OBVIOUS
  <2>1. k % B \in Int /\ 0 <= k % B /\ k % B < B
    BY <1>1, Divided
  <2> QED  BY <1>1, <2>1, SMT DEF Bytes
<1> DEFINE f(i) == CASE i = 0 -> n % B
                     [] i = 1 -> (n \div B) % B
                     [] i = 2 -> (n \div (B * B)) % B
                     [] i = 3 -> (n \div (B * B * B)) % B
<1>4. \A i \in Places : f(i) \in Bytes
  <2> SUFFICES ASSUME NEW i \in Places PROVE f(i) \in Bytes
    OBVIOUS
  <2>1. CASE i = 0
    <3>1. f(i) = n % B
      BY <2>1, SMT
    <3> QED  BY <1>3, <3>1
  <2>2. CASE i = 1
    <3>1. f(i) = (n \div B) % B
      BY <2>2, SMT
    <3> QED  BY <1>2, <1>3, <3>1
  <2>3. CASE i = 2
    <3>1. f(i) = (n \div (B * B)) % B
      BY <2>3, SMT
    <3> QED  BY <1>2, <1>3, <3>1
  <2>4. CASE i = 3
    <3>1. f(i) = (n \div (B * B * B)) % B
      BY <2>4, SMT
    <3> QED  BY <1>2, <1>3, <3>1
  <2> QED  BY <2>1, <2>2, <2>3, <2>4, SMT DEF Places
<1>5. ToWord(n) = [i \in Places |-> f(i)]
  BY DEF ToWord
<1> HIDE DEF f
<1> QED  BY <1>4, <1>5 DEF Word

-----------------------------------------------------------------------------
(* Addresses and banks.                                                    *)

LEMMA AddressParts ==
  ASSUME NEW address \in Addrs
  PROVE  /\ PageOf(address) \in PageNumbers
         /\ address % PageSize \in Int /\ 0 <= address % PageSize /\ address % PageSize < PageSize
<1>1. address \in Int /\ 0 <= address /\ address < NumPages * PageSize
  BY HartAssumption, Sizes, SMT DEF Addrs
<1>2. address \div PageSize \in Int /\ 0 <= address \div PageSize /\ address \div PageSize < NumPages
  BY <1>1, Sizes, Divided, Quotient
<1>3. PageOf(address) \in PageNumbers
  BY <1>2, Sizes, SMT DEF PageOf, PageNumbers
<1> QED  BY <1>1, <1>3, Sizes, Divided

\* A physical address is far enough from 2^32 for no sum to wrap.
LEMMA FrameEnds ==
  ASSUME NEW f \in Frames, NEW o \in Int, 0 <= o, o < PageSize
  PROVE  LET p == f * PageSize + o
         IN p \in Int /\ 0 <= p /\ p < MaxPte * PageSize /\ p + 4 < WordMod
<1>1. f \in Int /\ 0 <= f /\ f <= MaxPte - 1
  BY Sizes, SMT DEF Frames
<1>2. f * PageSize \in Int /\ 0 <= f * PageSize /\ f * PageSize <= (MaxPte - 1) * PageSize
  BY <1>1, Sizes, SMTT(30)
<1>3. (MaxPte - 1) * PageSize = MaxPte * PageSize - PageSize /\ MaxPte * PageSize \in Int
  BY Sizes, SMTT(30)
<1>4. MaxPte * PageSize + 4 <= WordMod
  BY HartAssumption
<1> QED  BY <1>2, <1>3, <1>4, Sizes, SMT

LEMMA BankFacts ==
  ASSUME NEW k \in BankIds
  PROVE  /\ k \in Int
         /\ Banks[k].start \in Int /\ 0 <= Banks[k].start
         /\ Banks[k].size \in Int /\ 0 < Banks[k].size
         /\ Banks[k].start % 4 = 0 /\ Banks[k].size % 4 = 0
         /\ Banks[k].writable \in BOOLEAN
         /\ Top(Banks[k]) = Banks[k].start + Banks[k].size
         /\ Top(Banks[k]) < WordMod
<1>1. Banks[k] \in Bank /\ k \in Int
  BY MemoryAssumption, SMT DEF BankIds
<1> QED  BY <1>1, MemoryAssumption, SMT DEF Bank, Top

\* Where physical addresses are, a bank serves an access if it has its bytes.
LEMMA InBank ==
  ASSUME NEW k \in BankIds, NEW p \in Int, NEW size \in Widths, 0 <= p, p + 4 < WordMod
  PROVE  ValidRange(Banks[k], p, size) <=> Banks[k].start <= p /\ p + size <= Top(Banks[k])
<1>1. size \in Int /\ 1 <= size /\ size <= 4
  BY SMT DEF Widths, Byte, HalfWord, FullWord
<1> DEFINE a == p + size
           zero == 0
<1>2. a \in Int /\ zero \in Int /\ a = WordMod * zero + a /\ 0 <= a /\ a < WordMod
  BY <1>1, Sizes, SMT
<1>3. (p + size) % WordMod = p + size
  <2> HIDE DEF a, zero
  <2>1. a % WordMod = a
    BY <1>2, Sizes, DividedBy
  <2> QED  BY <2>1 DEF a
<1> QED  BY <1>3, BankFacts, SMT DEF ValidRange

LEMMA OneBank ==
  ASSUME NEW j \in BankIds, NEW k \in BankIds, NEW p \in Int,
         Banks[j].start <= p, p < Top(Banks[j]), Banks[k].start <= p, p < Top(Banks[k])
  PROVE  j = k
<1>1. j = k \/ Top(Banks[j]) <= Banks[k].start \/ Top(Banks[k]) <= Banks[j].start
  BY MemoryAssumption
<1>2. /\ Banks[k].start \in Int /\ Banks[k].size \in Int /\ Top(Banks[k]) = Banks[k].start + Banks[k].size
      /\ Banks[j].start \in Int /\ Banks[j].size \in Int /\ Top(Banks[j]) = Banks[j].start + Banks[j].size
  BY BankFacts
<1> QED  BY <1>1, <1>2, SMT

\* The bank that serves a read or a write is the only one that can.
LEMMA OneServer ==
  ASSUME NEW p \in Int, NEW size \in Widths, 0 <= p, p + 4 < WordMod,
         NEW S, S \in {Readers(p, size), Writers(p, size)}, NEW k \in S
  PROVE  /\ S = {k} /\ Min(S) = k /\ k \in BankIds
         /\ Banks[k].start <= p /\ p + size <= Top(Banks[k])
         /\ S = Writers(p, size) => Banks[k].writable
<1>1. \A j \in S : j \in BankIds /\ Banks[j].start <= p /\ p + size <= Top(Banks[j])
  BY InBank DEF Readers, Writers, ValidWrite
<1>2. size \in Int /\ 1 <= size
  BY SMT DEF Widths, Byte, HalfWord, FullWord
<1>3. \A j \in S : j = k
  <2> SUFFICES ASSUME NEW j \in S PROVE j = k
    OBVIOUS
  <2>1. /\ Top(Banks[j]) \in Int /\ Top(Banks[k]) \in Int
        /\ Banks[j].start <= p /\ p + size <= Top(Banks[j])
        /\ Banks[k].start <= p /\ p + size <= Top(Banks[k])
    BY <1>1, BankFacts, SMT
  <2>2. p < Top(Banks[j]) /\ p < Top(Banks[k])
    BY <1>2, <2>1, SMT
  <2> QED  BY <1>1, <2>1, <2>2, OneBank
<1>4. S = {k}
  BY <1>3
<1>5. k \in Int
  BY <1>1, BankFacts
<1>6. Min({k}) = k
  <2>1. k <= k
    BY <1>5, SMT
  <2> QED  BY <2>1, Zenon DEF Min
<1>7. S = Writers(p, size) => Banks[k].writable
  BY DEF Writers, ValidWrite
<1> QED  BY <1>1, <1>4, <1>6, <1>7

LEMMA MemoryTyped ==
  ASSUME NEW m
  PROVE  m \in MemoryType <=> /\ m = [k \in BankIds |-> m[k]]
                              /\ \A k \in BankIds : m[k] \in [0 .. Banks[k].size - 1 -> Bytes]
<1>1. ASSUME m \in MemoryType
      PROVE  /\ m = [k \in BankIds |-> m[k]]
             /\ \A k \in BankIds : m[k] \in [0 .. Banks[k].size - 1 -> Bytes]
  BY <1>1 DEF MemoryType, Contents
<1>2. ASSUME m = [k \in BankIds |-> m[k]],
             \A k \in BankIds : m[k] \in [0 .. Banks[k].size - 1 -> Bytes]
      PROVE  m \in MemoryType
  <2>1. \A k \in BankIds : m[k] \in Contents[k]
    BY <1>2 DEF Contents
  <2>2. m \in [BankIds -> UNION {Contents[k] : k \in BankIds}]
    BY <1>2, <2>1
  <2> QED  BY <2>1, <2>2 DEF MemoryType
<1> QED  BY <1>1, <1>2

\* The bytes of an access are in the bank that serves it.
LEMMA BytesServed ==
  ASSUME NEW p \in Int, NEW size \in Widths, NEW k \in BankIds,
         Banks[k].start <= p, p + size <= Top(Banks[k])
  PROVE  /\ p - Banks[k].start \in Int
         /\ size \in Int /\ 1 <= size /\ size <= 4
         /\ \A i \in 0 .. size - 1 : p - Banks[k].start + i \in 0 .. Banks[k].size - 1
<1>1. size \in Int /\ 1 <= size /\ size <= 4
  BY SMT DEF Widths, Byte, HalfWord, FullWord
<1>2. Banks[k].start \in Int /\ Banks[k].size \in Int /\ Top(Banks[k]) = Banks[k].start + Banks[k].size
  BY BankFacts
<1> QED  BY <1>1, <1>2, SMT

\* A read gives a word.
LEMMA LoadTyped ==
  ASSUME NEW m \in MemoryType, NEW p \in Int, NEW size \in Widths, NEW signedVal \in BOOLEAN,
         0 <= p, p + 4 < WordMod, Readers(p, size) # {}
  PROVE  BusLoad(m, p, size, signedVal) \in Word
<1>1. PICK k \in Readers(p, size) : TRUE
  OBVIOUS
<1>2. /\ Min(Readers(p, size)) = k /\ k \in BankIds
      /\ Banks[k].start <= p /\ p + size <= Top(Banks[k])
  BY OneServer
<1> DEFINE at == p - Banks[k].start
<1>3. /\ at \in Int /\ size \in Int /\ 1 <= size
      /\ \A i \in 0 .. size - 1 : at + i \in 0 .. Banks[k].size - 1
  BY <1>2, BytesServed
<1>4. m[k] \in [0 .. Banks[k].size - 1 -> Bytes]
  BY <1>2, MemoryTyped
<1>5. \A i \in 0 .. size - 1 : m[k][at + i] \in Bytes
  BY <1>3, <1>4
<1> DEFINE fill == IF signedVal /\ m[k][at + size - 1] >= ByteMod \div 2 THEN ByteMod - 1 ELSE 0
<1>6. fill \in Bytes
  BY Sizes, SMT DEF Bytes
<1>7. BusLoad(m, p, size, signedVal) = [i \in Places |-> IF i < size THEN m[k][at + i] ELSE fill]
  BY <1>2, Zenon DEF BusLoad, Read
<1>8. \A i \in Places : (IF i < size THEN m[k][at + i] ELSE fill) \in Bytes
  <2> HIDE DEF at, fill
  <2> SUFFICES ASSUME NEW i \in Places PROVE (IF i < size THEN m[k][at + i] ELSE fill) \in Bytes
    OBVIOUS
  <2>1. i < size => i \in 0 .. size - 1
    BY <1>3, SMT DEF Places
  <2> QED  BY <1>5, <1>6, <2>1
<1> HIDE DEF at, fill
<1> QED  BY <1>7, <1>8 DEF Word

\* A write changes bytes of the bank that takes it, to those of the word.
LEMMA StoreDone ==
  ASSUME NEW m \in MemoryType, NEW p \in Int, NEW size \in Widths, NEW val \in Word,
         0 <= p, p + 4 < WordMod, NEW k \in Writers(p, size)
  PROVE  LET after == BusStore(m, p, size, val)
             at    == p - Banks[k].start
         IN /\ k \in BankIds /\ Banks[k].writable
            /\ Banks[k].start <= p /\ p + size <= Top(Banks[k])
            /\ after \in MemoryType
            /\ \A j \in BankIds : j # k => after[j] = m[j]
            /\ \A o \in 0 .. Banks[k].size - 1 :
                 after[k][o] = IF o \in at .. at + size - 1 THEN val[o - at] ELSE m[k][o]
<1> DEFINE after == BusStore(m, p, size, val)
           at == p - Banks[k].start
           D == 0 .. Banks[k].size - 1
<1>1. /\ Min(Writers(p, size)) = k /\ k \in BankIds /\ Banks[k].writable
      /\ Banks[k].start <= p /\ p + size <= Top(Banks[k])
  BY OneServer
<1>2. after = [m EXCEPT ![k] = Write(m[k], Banks[k], p, size, val)]
  BY <1>1, Zenon DEF BusStore
<1>3. /\ at \in Int /\ size \in Int /\ 1 <= size /\ size <= 4
      /\ \A i \in 0 .. size - 1 : at + i \in D
  BY <1>1, BytesServed
<1>4. m[k] \in [D -> Bytes] /\ m = [j \in BankIds |-> m[j]]
  BY <1>1, MemoryTyped
<1>5. Write(m[k], Banks[k], p, size, val) =
        [o \in D |-> IF o \in at .. at + size - 1 THEN val[o - at] ELSE m[k][o]]
  BY <1>4 DEF Write
<1> DEFINE new(o) == IF o \in at .. at + size - 1 THEN val[o - at] ELSE m[k][o]
<1>6. \A o \in D : new(o) \in Bytes
  <2> SUFFICES ASSUME NEW o \in D PROVE new(o) \in Bytes
    OBVIOUS
  <2>1. CASE o \in at .. at + size - 1
    <3> HIDE DEF at
    <3>1. o \in Int
      BY <1>1, BankFacts, SMT
    <3>2. o - at \in Places
      BY <1>3, <2>1, <3>1, SMT DEF Places
    <3> QED  BY <2>1, <3>2 DEF Word
  <2>2. CASE o \notin at .. at + size - 1
    BY <1>4, <2>2
  <2> QED  BY <2>1, <2>2
<1>7. after[k] = [o \in D |-> new(o)]
  BY <1>1, <1>2, <1>4, <1>5
<1>8. \A j \in BankIds : j # k => after[j] = m[j]
  BY <1>2, <1>4
<1> HIDE DEF new
<1>9. after[k] \in [D -> Bytes]
  BY <1>6, <1>7
<1>10. after = [j \in BankIds |-> after[j]]
  BY <1>2, <1>4
<1>11. after \in MemoryType
  <2> HIDE DEF after, at
  <2>1. \A j \in BankIds : after[j] \in [0 .. Banks[j].size - 1 -> Bytes]
    BY <1>8, <1>9, MemoryTyped
  <2> QED  BY <1>10, <2>1, MemoryTyped
<1>12. \A o \in D : after[k][o] = new(o)
  BY <1>7
<1> QED  BY <1>1, <1>8, <1>11, <1>12 DEF new

-----------------------------------------------------------------------------
(* The mappings.                                                           *)

\* The process has one mapping of a page and one of a frame.
Unshared ==
  /\ \A m, n \in map : m.page = n.page => m = n
  /\ \A m, n \in map : m.frame = n.frame => m = n

Inv == TypeOK /\ Unshared

Answers == [call : PM!Calls, pid : {0}, page : PageNumbers, access : Accesses,
            granted : BOOLEAN, frame : Frames]

MapTyped == map \subseteq Mapping

LEMMA Access ==
  /\ {MainAccess, FetchAccess, LoadAccess, StoreAccess, AtomicAccess} \subseteq Accesses
  /\ LoadAccess = AtomicAccess
BY DEF Accesses, LoadAccess, AtomicAccess

\* The mapping a granted request comes with.
Comes(m, page, access) ==
  /\ m \in map' /\ m.page = page /\ m.frame = answer'.frame
  /\ \/ /\ map' = map
        /\ PM!Permits(m.protection, access)
     \/ /\ map' = map \cup {m}
        /\ \A n \in map : n.page # page /\ n.frame # m.frame
        /\ m.protection = access

\* What there is when a request is denied: nothing changes.
Stays(page, access) ==
  /\ map' = map
  /\ \/ \A n \in map : n.page # page
     \/ \E n \in map : n.page = page /\ ~PM!Permits(n.protection, access)

LEMMA Translated ==
  ASSUME MapTyped, NEW address \in Addrs, NEW access \in Accesses, Translate(address, access)
  PROVE  /\ answer' \in Answers
         /\ answer'.granted => \E m \in Mapping : Comes(m, PageOf(address), access)
         /\ ~answer'.granted => Stays(PageOf(address), access)
<1> DEFINE page == PageOf(address)
<1>1. page \in PageNumbers
  BY AddressParts
<1>2. 0 \in Frames
  BY Sizes, SMT DEF Frames
<1>3. \A n : n \in PM!MappingsOf(0, page) <=> n \in map /\ n.page = page
  BY DEF PM!MappingsOf, MapTyped, Mapping
<1>4. \A f \in PM!FreeFrames(0) : \A n \in map : n.frame # f
  BY DEF PM!FreeFrames, MapTyped, Mapping
<1> HIDE DEF page
<1>5. CASE PM!Use(0, page, access)
  <2>1. CASE \E f \in Frames :
               /\ PM!Granted("getPhysicalAddress", 0, page, access, f)
               /\ \E m \in PM!MappingsOf(0, page) : m.frame = f /\ PM!Permits(m.protection, access)
    <3>1. PICK f \in Frames :
               /\ PM!Granted("getPhysicalAddress", 0, page, access, f)
               /\ \E m \in PM!MappingsOf(0, page) : m.frame = f /\ PM!Permits(m.protection, access)
      BY <2>1
    <3>2. answer' \in Answers /\ answer'.granted /\ answer'.frame = f
      BY <1>1, <3>1 DEF PM!Granted, Answers, PM!Calls
    <3>3. map' = map
      BY <1>5 DEF PM!Use
    <3>4. PICK m \in PM!MappingsOf(0, page) : m.frame = f /\ PM!Permits(m.protection, access)
      BY <3>1
    <3>5. m \in map /\ m.page = page /\ m \in Mapping
      BY <1>3, <3>4 DEF MapTyped
    <3>6. Comes(m, page, access)
      BY <3>2, <3>3, <3>4, <3>5 DEF Comes
    <3> QED  BY <3>2, <3>5, <3>6 DEF page
  <2>2. CASE /\ PM!Denied("getPhysicalAddress", 0, page, access)
             /\ \E m \in PM!MappingsOf(0, page) : ~PM!Permits(m.protection, access)
    <3>1. answer' \in Answers /\ ~answer'.granted
      BY <1>1, <1>2, <2>2 DEF PM!Denied, Answers, PM!Calls
    <3>2. Stays(page, access)
      BY <1>3, <1>5, <2>2 DEF Stays, PM!Use
    <3> QED  BY <3>1, <3>2 DEF page
  <2> QED  BY <1>5, <2>1, <2>2 DEF PM!Use
<1>6. CASE PM!Map("getPhysicalAddress", 0, page, access)
  <2>1. PICK f \in Frames :
           /\ PM!Granted("getPhysicalAddress", 0, page, access, f)
           /\ PM!MappingsOf(0, page) = {}
           /\ f \in PM!FreeFrames(0)
           /\ map' = map \cup {[pid |-> 0, page |-> page, frame |-> f, protection |-> access]}
    BY <1>6 DEF PM!Map
  <2> DEFINE m == [pid |-> 0, page |-> page, frame |-> f, protection |-> access]
  <2>2. answer' \in Answers /\ answer'.granted /\ answer'.frame = f
    BY <1>1, <2>1 DEF PM!Granted, Answers, PM!Calls
  <2>3. m \in Mapping
    BY <1>1 DEF Mapping
  <2>4. \A n \in map : n.page # page /\ n.frame # f
    BY <1>3, <1>4, <2>1
  <2>5. Comes(m, page, access)
    BY <2>1, <2>2, <2>4 DEF Comes
  <2> QED  BY <2>2, <2>3, <2>5 DEF page
<1>7. CASE PM!Exhausted("getPhysicalAddress", 0, page, access)
  <2>1. answer' \in Answers /\ ~answer'.granted
    BY <1>1, <1>2, <1>7 DEF PM!Exhausted, PM!Denied, Answers, PM!Calls
  <2>2. Stays(page, access)
    BY <1>3, <1>7 DEF Stays, PM!Exhausted
  <2> QED  BY <2>1, <2>2 DEF page
<1> QED  BY <1>5, <1>6, <1>7 DEF Translate, page

\* Mappings stay as they should be, whatever the answer.
LEMMA TranslateKeeps ==
  ASSUME MapTyped, Unshared, NEW address \in Addrs, NEW access \in Accesses,
         Translate(address, access)
  PROVE  /\ map' \subseteq Mapping /\ Unshared'
         /\ answer' \in Answers
<1> DEFINE page == PageOf(address)
<1>1. answer' \in Answers
  BY Translated
<1>2. CASE answer'.granted
  <2>1. PICK m \in Mapping : Comes(m, page, access)
    BY <1>2, Translated
  <2>2. CASE map' = map
    BY <1>1, <2>2 DEF MapTyped, Unshared
  <2>3. CASE map' = map \cup {m} /\ \A n \in map : n.page # page /\ n.frame # m.frame
    <3>1. m.page = page
      BY <2>1 DEF Comes
    <3>2. map' \subseteq Mapping
      BY <2>1, <2>3 DEF MapTyped
    <3>3. Unshared'
      BY <2>3, <3>1 DEF Unshared
    <3> QED  BY <1>1, <3>2, <3>3
  <2> QED  BY <1>1, <2>1, <2>2, <2>3 DEF Comes
<1>3. CASE ~answer'.granted
  <2>1. map' = map
    BY <1>3, Translated DEF Stays
  <2> QED  BY <1>1, <2>1 DEF MapTyped, Unshared
<1> QED  BY <1>2, <1>3

-----------------------------------------------------------------------------
(* What the steps are made of.                                             *)

LEMMA RegisterValues ==
  ASSUME x \in [Regs -> Word], NEW rs1 \in Regs
  PROVE  /\ x[rs1] \in Word /\ Value(x[rs1]) \in Addrs
         /\ \A offset \in Offsets : Effective(rs1, offset) \in Addrs
<1>1. x[rs1] \in Word
  OBVIOUS
<1>2. Value(x[rs1]) \in Int /\ 0 <= Value(x[rs1]) /\ Value(x[rs1]) < WordMod
  BY <1>1, ValueRange
<1>3. ASSUME NEW offset \in Offsets PROVE Effective(rs1, offset) \in Addrs
  <2> DEFINE a == Value(x[rs1]) + offset
  <2>1. a \in Int
    BY <1>2, HartAssumption, SMT
  <2>2. a % WordMod \in Int /\ 0 <= a % WordMod /\ a % WordMod < WordMod
    BY <2>1, Sizes, Divided
  <2> QED  BY <2>2, Sizes, SMT DEF Effective, Addrs
<1> QED  BY <1>1, <1>2, <1>3, Sizes, SMT DEF Addrs

LEMMA PhysicalPlace ==
  ASSUME answer' \in Answers, NEW address \in Addrs
  PROVE  /\ Physical(address) = answer'.frame * PageSize + (address % PageSize)
         /\ Physical(address) \in Int /\ 0 <= Physical(address)
         /\ Physical(address) < MaxPte * PageSize /\ Physical(address) + 4 < WordMod
<1>1. answer'.frame \in Frames
  BY DEF Answers
<1> QED  BY <1>1, AddressParts, FrameEnds DEF Physical

LEMMA WrittenBack ==
  ASSUME NEW regs \in [Regs -> Word], NEW rd \in Regs, NEW v \in Word
  PROVE  /\ WriteBack(regs, rd, v) \in [Regs -> Word]
         /\ regs[0] = Zero => WriteBack(regs, rd, v)[0] = Zero
<1>1. 0 \in Regs
  BY Sizes, SMT DEF Regs
<1> QED  BY <1>1, ZeroWord DEF WriteBack

LEMMA LoadIsWord ==
  ASSUME TypeOK, answer' \in Answers, NEW address \in Addrs, NEW size \in Widths,
         NEW signedVal \in BOOLEAN, Readable(address, size)
  PROVE  BusLoad(mem, Physical(address), size, signedVal) \in Word
BY PhysicalPlace, LoadTyped DEF Readable, TypeOK

LEMMA FullIsWidth == FullWord \in Widths /\ TRUE \in BOOLEAN
BY DEF Widths

\* A store, of a word, at an address of this process.
LEMMA StoreIsDone ==
  ASSUME TypeOK, answer' \in Answers, NEW address \in Addrs, NEW size \in Widths,
         NEW val \in Word, Writable(address, size),
         mem' = BusStore(mem, Physical(address), size, val)
  PROVE  \E k \in Writers(Physical(address), size) :
           LET at == Physical(address) - Banks[k].start
           IN /\ k \in BankIds /\ Banks[k].writable
              /\ Banks[k].start <= Physical(address) /\ Physical(address) + size <= Top(Banks[k])
              /\ mem' \in MemoryType
              /\ \A j \in BankIds : j # k => mem'[j] = mem[j]
              /\ \A o \in 0 .. Banks[k].size - 1 :
                   mem'[k][o] = IF o \in at .. at + size - 1 THEN val[o - at] ELSE mem[k][o]
<1>1. PICK k \in Writers(Physical(address), size) : TRUE
  BY DEF Writable
<1> QED  BY <1>1, PhysicalPlace, StoreDone DEF TypeOK

LEMMA CombinedWord ==
  ASSUME NEW op \in Operations, NEW v \in Word, NEW w \in Word
  PROVE  Combined(op, v, w) \in Word
<1>1. CASE op = "AMOADD"
  <2>1. Combined(op, v, w) = ToWord(Value(v) + Value(w))
    BY <1>1, SMT DEF Combined
  <2>2. Value(v) + Value(w) \in Int
    <3>1. Value(v) \in Int /\ Value(w) \in Int
      BY ValueRange
    <3> QED  BY <3>1, SMT
  <2> QED  BY <2>1, <2>2, ToWordTyped
<1>2. CASE op = "AMOAND"
  <2>1. Combined(op, v, w) = [i \in Places |-> BitAnd(v[i], w[i])]
    BY <1>2, SMT DEF Combined
  <2>2. \A i \in Places : BitAnd(v[i], w[i]) \in Bytes
    BY MemoryAssumption DEF Word
  <2> QED  BY <2>1, <2>2 DEF Word
<1>3. CASE op = "AMOOR"
  <2>1. Combined(op, v, w) = [i \in Places |-> BitOr(v[i], w[i])]
    BY <1>3, SMT DEF Combined
  <2>2. \A i \in Places : BitOr(v[i], w[i]) \in Bytes
    BY MemoryAssumption DEF Word
  <2> QED  BY <2>1, <2>2 DEF Word
<1> QED  BY <1>1, <1>2, <1>3 DEF Operations

\* The two ways an AMOSWAP ends: the swap is done, or neither the case of
\* AMOSWAP nor that of AMOADD after it has done anything.
SwapDone(rs1, rs2, rd) ==
  LET address == Value(x[rs1])
      old     == Loaded4(address)
  IN /\ Done(address, "swap")
     /\ Readable(address, FullWord) /\ Writable(address, FullWord)
     /\ mem' = BusStore(mem, Physical(address), FullWord, x[rs2])
     /\ x' = WriteBack([x EXCEPT ![rs2] = old], rd, old)

SwapRefused(rs1) ==
  /\ Asked(Value(x[rs1]))
  /\ Ended("swap", "LoadAccessFault")
  /\ UNCHANGED <<x, mem>>

LEMMA SwapEnds ==
  ASSUME NEW rs1, NEW rs2, NEW rd, AmoSwap(rs1, rs2, rd)
  PROVE  SwapDone(rs1, rs2, rd) \/ SwapRefused(rs1)
<1> DEFINE address == Value(x[rs1])
           first == SwapTried(address, rs2, rd)
           last == SwapOrAdd(address, rs2, rd)
<1>1. /\ Asked(address)
      /\ Ended("swap", IF last.served THEN "done" ELSE "LoadAccessFault")
      /\ mem' = last.mem /\ x' = last.x
  BY DEF AmoSwap
<1>2. CASE BothServed(address)
  <2>1. first = Tried(TRUE, BusStore(mem, Physical(address), FullWord, x[rs2]),
                      WriteBack([x EXCEPT ![rs2] = Loaded4(address)], rd, Loaded4(address)))
    BY <1>2, Zenon DEF SwapTried
  <2>2. first.served
    BY <2>1 DEF Tried
  <2>3. last = first
    BY <2>2, Zenon DEF SwapOrAdd
  <2>4. Ended("swap", "done")
    BY <1>1, <2>2, <2>3
  <2>5. /\ mem' = BusStore(mem, Physical(address), FullWord, x[rs2])
        /\ x' = WriteBack([x EXCEPT ![rs2] = Loaded4(address)], rd, Loaded4(address))
    BY <1>1, <2>1, <2>3 DEF Tried
  <2>6. SwapDone(rs1, rs2, rd)
    BY <1>1, <1>2, <2>4, <2>5, Zenon DEF SwapDone, Done, Asked, BothServed
  <2> QED  BY <2>6
<1>3. CASE ~BothServed(address)
  <2>1. first = Tried(FALSE, mem, x)
    BY <1>3, Zenon DEF SwapTried
  <2>2. ~first.served
    BY <2>1 DEF Tried
  <2>3. last = AddTried(first, address, x[rs2], rd)
    BY <2>2, Zenon DEF SwapOrAdd
  <2>4. last = first
    BY <1>3, <2>3, Zenon DEF AddTried
  <2>5. Ended("swap", "LoadAccessFault")
    BY <1>1, <2>2, <2>4
  <2>6. UNCHANGED <<x, mem>>
    BY <1>1, <2>1, <2>4 DEF Tried
  <2> QED  BY <1>1, <2>5, <2>6 DEF SwapRefused
<1> QED  BY <1>2, <1>3

\* The loads, the stores and the atomics, as sets of steps.
ALoad == \E rs1, rd \in Regs, offset \in Offsets, size \in Widths, signedVal, known \in BOOLEAN :
           Load(rs1, offset, rd, size, signedVal, known)
AStore == \E rs1, rs2 \in Regs, offset \in Offsets, size \in Widths, known \in BOOLEAN :
            Store(rs1, offset, rs2, size, known)
AnAtomic ==
  \/ \E rs1, rd \in Regs : LoadReserved(rs1, rd)
  \/ \E rs1, rs2, rd \in Regs : StoreConditional(rs1, rs2, rd)
  \/ \E rs1, rs2, rd \in Regs : SwapDone(rs1, rs2, rd)
  \/ \E rs1 \in Regs : SwapRefused(rs1)
  \/ \E rs1, rs2, rd \in Regs, op \in Operations : AmoCombine(op, rs1, rs2, rd)
  \/ \E rs1 \in Regs, needed \in {"read", "write", "unimplemented"} : AtomicRefused(rs1, needed)

LEMMA Steps ==
  Next => (\E pc \in Fetches : Fetch(pc)) \/ Unknown \/ Compute \/ ALoad \/ AStore \/ AnAtomic
<1> SUFFICES ASSUME Next
             PROVE  (\E pc \in Fetches : Fetch(pc)) \/ Unknown \/ Compute \/ ALoad \/ AStore \/ AnAtomic
  OBVIOUS
<1>1. ASSUME NEW rs1 \in Regs, NEW rd \in Regs, NEW offset \in Offsets, NEW kind \in LoadKinds,
             Load(rs1, offset, rd, kind.width, kind.valSigned, TRUE)
      PROVE  ALoad
  <2>1. kind.width \in Widths /\ kind.valSigned \in BOOLEAN
    <3>1. CASE kind \in [width : {Byte, HalfWord}, valSigned : BOOLEAN]
      BY <3>1 DEF Widths
    <3>2. CASE kind = [width |-> FullWord, valSigned |-> FALSE]
      BY <3>2 DEF Widths
    <3> QED  BY <3>1, <3>2 DEF LoadKinds
  <2> QED  BY <1>1, <2>1 DEF ALoad
<1>2. ASSUME NEW rs1 \in Regs, NEW rd \in Regs, NEW offset \in Offsets, NEW size \in Widths,
             Load(rs1, offset, rd, size, FALSE, FALSE)
      PROVE  ALoad
  BY <1>2 DEF ALoad
<1>3. ASSUME NEW rs1 \in Regs, NEW rs2 \in Regs, NEW rd \in Regs,
             \/ StoreConditional(rs1, rs2, rd)
             \/ AmoSwap(rs1, rs2, rd)
             \/ \E op \in Operations : AmoCombine(op, rs1, rs2, rd)
      PROVE  AnAtomic
  <2>1. AmoSwap(rs1, rs2, rd) => SwapDone(rs1, rs2, rd) \/ SwapRefused(rs1)
    BY SwapEnds
  <2> QED  BY <1>3, <2>1 DEF AnAtomic
<1>4. ASSUME \/ \E rs1, rd \in Regs : LoadReserved(rs1, rd)
             \/ \E rs1 \in Regs, needed \in {"read", "write", "unimplemented"} :
                  AtomicRefused(rs1, needed)
      PROVE  AnAtomic
  BY <1>4 DEF AnAtomic
<1> QED  BY <1>1, <1>2, <1>3, <1>4 DEF Next, AStore

-----------------------------------------------------------------------------
(* The type invariant.                                                     *)

Classes == {"none", "fetch", "unknown", "compute", "load", "loadSigned", "store", "atomic", "swap"}
Endings == Refusals \cup {"done", "outside", "IllegalInstruction"}

\* Where a step is, and what it was about.
Underway ==
  /\ stage \in {"fetch", "execute", "halt"}
  /\ request \in [address : Addrs, size : Widths]
  /\ instr \in Word

LEMMA EventTyped ==
  ASSUME NEW class \in Classes, NEW result \in Endings, Ended(class, result)
  PROVE  event' \in [class : Classes, result : Endings]
BY DEF Ended

\* The state is typed once its parts are.
LEMMA Parts ==
  ASSUME x' \in [Regs -> Word], mem' \in MemoryType, map' \subseteq Mapping, answer' \in Answers,
         Underway', event' \in [class : Classes, result : Endings],
         Unshared'
  PROVE  Inv'
BY DEF Inv, TypeOK, Answers, Classes, Endings, Underway

\* An instruction makes a request or leaves the one of its fetch.
LEMMA Retired ==
  ASSUME Inv, Retire
  PROVE  /\ request' = request => Underway'
         /\ \A address \in Addrs, size \in Widths : Requested(address, size) => Underway'
BY DEF Inv, TypeOK, Retire, Requested, Underway

LEMMA InitInv == Init => Inv
<1> SUFFICES ASSUME Init PROVE Inv
  OBVIOUS
<1>1. x \in [Regs -> Word]
  BY ZeroWord DEF Init
<1>2. mem \in MemoryType
  <2>1. PICK file \in Programs : mem = Loaded(file)
    BY DEF Init
  <2>2. PICK n \in 0 .. Banks[1].size : file \in [0 .. n - 1 -> Bytes]
    BY HartAssumption
  <2>3. InitVal \in Bytes
    BY HartAssumption
  <2> DEFINE byte(k, o) == IF k = 1 /\ o \in DOMAIN file THEN file[o] ELSE InitVal
  <2>4. \A k, o : byte(k, o) \in Bytes
    BY <2>2, <2>3
  <2>5. mem = [k \in BankIds |-> [o \in 0 .. Banks[k].size - 1 |-> byte(k, o)]]
    BY <2>1, Zenon DEF Loaded
  <2> HIDE DEF byte
  <2>6. \A k \in BankIds : mem[k] \in [0 .. Banks[k].size - 1 -> Bytes]
    BY <2>4, <2>5
  <2>7. mem = [k \in BankIds |-> mem[k]]
    BY <2>5
  <2> QED  BY <2>6, <2>7, MemoryTyped
<1>3. 0 \in PageNumbers /\ 0 \in Frames
  BY Sizes, SMT DEF PageNumbers, Frames
<1>4. map \subseteq Mapping /\ Unshared
  BY <1>3, Access DEF Init, Mapping, Unshared
<1>5. answer \in Answers
  BY <1>3, Access DEF Init, Answers, PM!Calls
<1>6. event \in [class : Classes, result : Endings]
  BY DEF Init, Classes, Endings
<1>7. Underway
  <2>1. 0 \in Addrs
    BY Sizes, SMT DEF Addrs
  <2> QED  BY <2>1, ZeroWord, FullIsWidth DEF Init, Underway
<1> QED  BY <1>1, <1>2, <1>4, <1>5, <1>6, <1>7 DEF Inv, TypeOK, Answers, Classes, Endings, Underway

\* What the invariant gives.
LEMMA Given ==
  ASSUME Inv
  PROVE  /\ TypeOK /\ Unshared /\ MapTyped
         /\ x \in [Regs -> Word] /\ mem \in MemoryType /\ map \subseteq Mapping /\ answer \in Answers
         /\ Underway /\ event \in [class : Classes, result : Endings]
BY DEF Inv, TypeOK, MapTyped, Answers, Classes, Endings, Underway

LEMMA FetchInv ==
  ASSUME Inv, NEW pc \in Fetches, Fetch(pc)
  PROVE  Inv'
<1>1. pc \in Addrs /\ FetchAccess \in Accesses
  BY HartAssumption, Access
<1>2. map' \subseteq Mapping /\ Unshared' /\ answer' \in Answers
  BY <1>1, Given, TranslateKeeps DEF Fetch
<1>3. event' \in [class : Classes, result : Endings]
  BY DEF Fetch, Ended, Classes, Endings
<1>4. x' \in [Regs -> Word] /\ mem' \in MemoryType
  BY Given DEF Fetch
<1>5. instr' \in Word
  <2>1. Readable(pc, FullWord) => Loaded4(pc) \in Word
    BY <1>1, <1>2, Given, FullIsWidth, LoadIsWord DEF Loaded4
  <2> QED  BY <2>1, Given DEF Fetch, Underway
<1>6. Underway'
  BY <1>1, <1>5, FullIsWidth DEF Fetch, Requested, Underway
<1> QED  BY <1>2, <1>3, <1>4, <1>6, Parts

LEMMA UnknownInv ==
  ASSUME Inv, Unknown
  PROVE  Inv'
<1>1. event' \in [class : Classes, result : Endings] /\ Underway'
  BY Retired DEF Unknown, Ended, Classes, Endings
<1>2. /\ x' \in [Regs -> Word] /\ mem' \in MemoryType /\ map' \subseteq Mapping
      /\ answer' \in Answers /\ Unshared'
  BY Given DEF Unknown, Unshared, Answers
<1> QED  BY <1>1, <1>2, Parts

LEMMA ComputeInv ==
  ASSUME Inv, Compute
  PROVE  Inv'
<1>1. event' \in [class : Classes, result : Endings] /\ Underway'
  BY Retired DEF Compute, Ended, Classes, Endings
<1>2. mem' \in MemoryType /\ map' \subseteq Mapping /\ answer' \in Answers /\ Unshared'
  BY Given DEF Compute, Unshared, Answers
<1>3. x' \in [Regs -> Word]
  <2>1. CASE UNCHANGED x
    BY <2>1, Given
  <2>2. ASSUME NEW rd \in Regs, NEW value \in Results, x' = WriteBack(x, rd, value)
        PROVE  x' \in [Regs -> Word]
    <3>1. value \in Word
      BY HartAssumption
    <3> QED  BY <2>2, <3>1, Given, WrittenBack
  <2>3. ASSUME NEW rd \in Regs, x' = WriteBack(x, rd, Zero)
        PROVE  x' \in [Regs -> Word]
    BY <2>3, ZeroWord, Given, WrittenBack
  <2> QED  BY <2>1, <2>2, <2>3 DEF Compute
<1> QED  BY <1>1, <1>2, <1>3, Parts

LEMMA LoadInv ==
  ASSUME Inv, NEW rs1 \in Regs, NEW rd \in Regs, NEW offset \in Offsets, NEW size \in Widths,
         NEW signedVal \in BOOLEAN, NEW known \in BOOLEAN,
         Load(rs1, offset, rd, size, signedVal, known)
  PROVE  Inv'
<1> DEFINE address == Effective(rs1, offset)
<1>1. address \in Addrs /\ LoadAccess \in Accesses
  BY Given, RegisterValues, Access
<1>2. Underway' /\ mem' \in MemoryType
  BY <1>1, Given, Retired DEF Load
<1>3. event' \in [class : Classes, result : Endings]
  BY DEF Load, Ended, Outcome, Classes, Endings, Refusals
<1>4. CASE UNCHANGED <<x, map, answer>>
  <2>1. x' \in [Regs -> Word] /\ map' \subseteq Mapping /\ answer' \in Answers /\ Unshared'
    BY <1>4, Given DEF Unshared, Answers
  <2> QED  BY <1>2, <1>3, <2>1, Parts
<1>5. CASE Translate(address, LoadAccess)
  <2>1. map' \subseteq Mapping /\ Unshared' /\ answer' \in Answers
    BY <1>1, <1>5, Given, TranslateKeeps
  <2>2. x' \in [Regs -> Word]
    <3>1. CASE UNCHANGED x
      BY <3>1, Given
    <3>2. CASE /\ Readable(address, size)
               /\ x' = WriteBack(x, rd, BusLoad(mem, Physical(address), size, signedVal))
      <4>1. BusLoad(mem, Physical(address), size, signedVal) \in Word
        BY <1>1, <2>1, <3>2, Given, LoadIsWord
      <4> QED  BY <3>2, <4>1, Given, WrittenBack
    <3> QED  BY <3>1, <3>2 DEF Load
  <2> QED  BY <1>2, <1>3, <2>1, <2>2, Parts
<1> QED  BY <1>4, <1>5 DEF Load

LEMMA StoreInv ==
  ASSUME Inv, NEW rs1 \in Regs, NEW rs2 \in Regs, NEW offset \in Offsets, NEW size \in Widths,
         NEW known \in BOOLEAN, Store(rs1, offset, rs2, size, known)
  PROVE  Inv'
<1> DEFINE address == Effective(rs1, offset)
<1>1. address \in Addrs /\ StoreAccess \in Accesses /\ x[rs2] \in Word
  BY Given, RegisterValues, Access
<1>2. Underway' /\ x' \in [Regs -> Word]
  BY <1>1, Given, Retired DEF Store
<1>3. event' \in [class : Classes, result : Endings]
  BY DEF Store, Ended, Outcome, Classes, Endings, Refusals
<1>4. CASE UNCHANGED <<mem, map, answer>>
  <2>1. mem' \in MemoryType /\ map' \subseteq Mapping /\ answer' \in Answers /\ Unshared'
    BY <1>4, Given DEF Unshared, Answers
  <2> QED  BY <1>2, <1>3, <2>1, Parts
<1>5. CASE Translate(address, StoreAccess)
  <2>1. map' \subseteq Mapping /\ Unshared' /\ answer' \in Answers
    BY <1>1, <1>5, Given, TranslateKeeps
  <2>2. mem' \in MemoryType
    <3>1. CASE UNCHANGED mem
      BY <3>1, Given
    <3>2. CASE /\ Writable(address, size)
               /\ mem' = BusStore(mem, Physical(address), size, x[rs2])
      BY <1>1, <2>1, <3>2, Given, StoreIsDone
    <3> QED  BY <3>1, <3>2 DEF Store
  <2> QED  BY <1>2, <1>3, <2>1, <2>2, Parts
<1> QED  BY <1>4, <1>5 DEF Store

LEMMA DoneTyped ==
  ASSUME Inv, NEW rs1 \in Regs, NEW class \in {"atomic", "swap"}, Done(Value(x[rs1]), class)
  PROVE  /\ map' \subseteq Mapping /\ Unshared' /\ answer' \in Answers
         /\ Underway'
         /\ event' \in [class : Classes, result : Endings]
<1>1. Value(x[rs1]) \in Addrs /\ AtomicAccess \in Accesses
  BY Given, RegisterValues, Access
<1>2. map' \subseteq Mapping /\ Unshared' /\ answer' \in Answers
  BY <1>1, Given, TranslateKeeps DEF Done, Asked
<1>3. event' \in [class : Classes, result : Endings] /\ Underway'
  BY <1>1, Retired, FullIsWidth DEF Done, Asked, Ended, Classes, Endings
<1> QED  BY <1>2, <1>3

\* What an atomic that is done reads is a word, what it stores is stored.
LEMMA DoneReads ==
  ASSUME Inv, NEW rs1 \in Regs, answer' \in Answers, Readable(Value(x[rs1]), FullWord)
  PROVE  Loaded4(Value(x[rs1])) \in Word
BY Given, RegisterValues, FullIsWidth, LoadIsWord DEF Loaded4

LEMMA DoneStores ==
  ASSUME Inv, NEW rs1 \in Regs, NEW val \in Word, answer' \in Answers,
         Writable(Value(x[rs1]), FullWord),
         mem' = BusStore(mem, Physical(Value(x[rs1])), FullWord, val)
  PROVE  mem' \in MemoryType
BY Given, RegisterValues, FullIsWidth, StoreIsDone

LEMMA AtomicInv ==
  ASSUME Inv, AnAtomic
  PROVE  Inv'
<1>1. ASSUME NEW rs1 \in Regs, NEW rd \in Regs, LoadReserved(rs1, rd)
      PROVE  Inv'
  <2>1. /\ map' \subseteq Mapping /\ Unshared' /\ answer' \in Answers
        /\ Underway' /\ event' \in [class : Classes, result : Endings]
    BY <1>1, DoneTyped DEF LoadReserved
  <2>2. Loaded4(Value(x[rs1])) \in Word
    BY <1>1, <2>1, DoneReads DEF LoadReserved
  <2>3. x' \in [Regs -> Word]
    BY <1>1, <2>2, Given, WrittenBack DEF LoadReserved
  <2>4. mem' \in MemoryType
    BY <1>1, Given DEF LoadReserved
  <2> QED  BY <2>1, <2>3, <2>4, Parts
<1>2. ASSUME NEW rs1 \in Regs, NEW rs2 \in Regs, NEW rd \in Regs, StoreConditional(rs1, rs2, rd)
      PROVE  Inv'
  <2>1. /\ map' \subseteq Mapping /\ Unshared' /\ answer' \in Answers
        /\ Underway' /\ event' \in [class : Classes, result : Endings]
    BY <1>2, DoneTyped DEF StoreConditional
  <2>2. x' \in [Regs -> Word]
    BY <1>2, ZeroWord, Given, WrittenBack DEF StoreConditional
  <2>3. mem' \in MemoryType
    BY <1>2, <2>1, Given, RegisterValues, DoneStores DEF StoreConditional
  <2> QED  BY <2>1, <2>2, <2>3, Parts
<1>3. ASSUME NEW rs1 \in Regs, NEW rs2 \in Regs, NEW rd \in Regs, SwapDone(rs1, rs2, rd)
      PROVE  Inv'
  <2>1. /\ map' \subseteq Mapping /\ Unshared' /\ answer' \in Answers
        /\ Underway' /\ event' \in [class : Classes, result : Endings]
    BY <1>3, DoneTyped DEF SwapDone
  <2>2. Loaded4(Value(x[rs1])) \in Word
    BY <1>3, <2>1, DoneReads DEF SwapDone
  <2>3. [x EXCEPT ![rs2] = Loaded4(Value(x[rs1]))] \in [Regs -> Word]
    BY <2>2, Given
  <2>4. x' \in [Regs -> Word]
    BY <1>3, <2>2, <2>3, WrittenBack DEF SwapDone
  <2>5. mem' \in MemoryType
    BY <1>3, <2>1, Given, RegisterValues, DoneStores DEF SwapDone
  <2> QED  BY <2>1, <2>4, <2>5, Parts
<1>4. ASSUME NEW rs1 \in Regs, NEW rs2 \in Regs, NEW rd \in Regs, NEW op \in Operations,
             AmoCombine(op, rs1, rs2, rd)
      PROVE  Inv'
  <2>1. /\ map' \subseteq Mapping /\ Unshared' /\ answer' \in Answers
        /\ Underway' /\ event' \in [class : Classes, result : Endings]
    BY <1>4, DoneTyped DEF AmoCombine
  <2>2. Loaded4(Value(x[rs1])) \in Word /\ x[rs2] \in Word
    BY <1>4, <2>1, Given, RegisterValues, DoneReads DEF AmoCombine
  <2>3. Combined(op, Loaded4(Value(x[rs1])), x[rs2]) \in Word
    BY <2>2, CombinedWord
  <2>4. x' \in [Regs -> Word]
    BY <1>4, <2>2, Given, WrittenBack DEF AmoCombine
  <2>5. mem' \in MemoryType
    BY <1>4, <2>1, <2>3, DoneStores DEF AmoCombine
  <2> QED  BY <2>1, <2>4, <2>5, Parts
<1>5. ASSUME NEW rs1 \in Regs, NEW needed \in {"read", "write", "unimplemented"},
             AtomicRefused(rs1, needed)
      PROVE  Inv'
  <2>1. Underway' /\ event' \in [class : Classes, result : Endings]
    BY <1>5, Given, RegisterValues, Retired, FullIsWidth DEF AtomicRefused, Ended, Classes, Endings, Refusals
  <2>2. x' \in [Regs -> Word] /\ mem' \in MemoryType
    BY <1>5, Given DEF AtomicRefused
  <2>3. map' \subseteq Mapping /\ Unshared' /\ answer' \in Answers
    <3>1. CASE UNCHANGED <<map, answer>>
      BY <3>1, Given DEF Unshared, Answers
    <3>2. CASE Translate(Value(x[rs1]), AtomicAccess)
      BY <3>2, Given, RegisterValues, Access, TranslateKeeps
    <3> QED  BY <1>5, <3>1, <3>2 DEF AtomicRefused
  <2> QED  BY <2>1, <2>2, <2>3, Parts
<1>6. ASSUME NEW rs1 \in Regs, SwapRefused(rs1)
      PROVE  Inv'
  <2>1. Underway' /\ event' \in [class : Classes, result : Endings]
    BY <1>6, Given, RegisterValues, Retired, FullIsWidth
       DEF SwapRefused, Asked, Ended, Classes, Endings, Refusals
  <2>2. x' \in [Regs -> Word] /\ mem' \in MemoryType
    BY <1>6, Given DEF SwapRefused
  <2>3. map' \subseteq Mapping /\ Unshared' /\ answer' \in Answers
    BY <1>6, Given, RegisterValues, Access, TranslateKeeps DEF SwapRefused, Asked
  <2> QED  BY <2>1, <2>2, <2>3, Parts
<1> QED  BY <1>1, <1>2, <1>3, <1>4, <1>5, <1>6 DEF AnAtomic

LEMMA NextInv == Inv /\ [Next]_vars => Inv'
<1> SUFFICES ASSUME Inv, [Next]_vars PROVE Inv'
  OBVIOUS
<1>1. CASE UNCHANGED vars
  BY <1>1 DEF vars, Inv, TypeOK, Unshared
<1>2. CASE ALoad
  BY <1>2, LoadInv DEF ALoad
<1>3. CASE AStore
  BY <1>3, StoreInv DEF AStore
<1> QED  BY <1>1, <1>2, <1>3, Steps, FetchInv, UnknownInv, ComputeInv, AtomicInv

\* Registers hold words and banks bytes, and no two pages have the same frame:
\* for every program, every layout of banks and every number of registers.
THEOREM Invariance == Spec => []Inv
<1> QED  BY InitInv, NextInv, PTL DEF Spec

\* The types alone.
THEOREM Typing == Spec => []TypeOK
<1>1. Inv => TypeOK
  BY DEF Inv
<1> QED  BY <1>1, Invariance, PTL

-----------------------------------------------------------------------------
(* What happens to memory.                                                 *)

\* A step that stores: where, how much, which word and with which right.
StoresAt(address, size, val, access) ==
  /\ Translate(address, access)
  /\ ~Misaligned(address, size)
  /\ Writable(address, size)
  /\ mem' = BusStore(mem, Physical(address), size, val)

AnyStore ==
  \E address \in Addrs, size \in Widths, val \in Word :
    \/ StoresAt(address, size, val, StoreAccess) /\ event'.class = "store"
    \/ StoresAt(address, size, val, AtomicAccess) /\ event'.class \in {"atomic", "swap"}

LEMMA MemorySteps ==
  ASSUME Inv, Next
  PROVE  UNCHANGED mem \/ AnyStore
<1>1. CASE (\E pc \in Fetches : Fetch(pc)) \/ Unknown \/ Compute \/ ALoad
  BY <1>1 DEF Fetch, Unknown, Compute, ALoad, Load
<1>2. ASSUME NEW rs1 \in Regs, NEW rs2 \in Regs, NEW offset \in Offsets, NEW size \in Widths,
             NEW known \in BOOLEAN, Store(rs1, offset, rs2, size, known)
      PROVE  UNCHANGED mem \/ AnyStore
  <2> DEFINE address == Effective(rs1, offset)
  <2>1. address \in Addrs /\ x[rs2] \in Word
    BY Given, RegisterValues
  <2>2. event'.class = "store"
    BY <1>2 DEF Store, Ended
  <2>3. UNCHANGED mem \/ StoresAt(address, size, x[rs2], StoreAccess)
    BY <1>2 DEF Store, StoresAt
  <2> QED  BY <2>1, <2>2, <2>3 DEF AnyStore
<1>3. ASSUME NEW rs1 \in Regs, NEW rs2 \in Regs, NEW rd \in Regs, StoreConditional(rs1, rs2, rd)
      PROVE  AnyStore
  <2> DEFINE address == Value(x[rs1])
  <2>1. address \in Addrs /\ x[rs2] \in Word /\ FullWord \in Widths
    BY Given, RegisterValues, FullIsWidth
  <2>2. event'.class = "atomic" /\ StoresAt(address, FullWord, x[rs2], AtomicAccess)
    BY <1>3 DEF StoreConditional, Done, Asked, Ended, StoresAt
  <2> QED  BY <2>1, <2>2 DEF AnyStore
<1>4. ASSUME NEW rs1 \in Regs, NEW rs2 \in Regs, NEW rd \in Regs, SwapDone(rs1, rs2, rd)
      PROVE  AnyStore
  <2> DEFINE address == Value(x[rs1])
  <2>1. address \in Addrs /\ x[rs2] \in Word /\ FullWord \in Widths
    BY Given, RegisterValues, FullIsWidth
  <2>2. event'.class = "swap" /\ StoresAt(address, FullWord, x[rs2], AtomicAccess)
    BY <1>4 DEF SwapDone, Done, Asked, Ended, StoresAt
  <2> QED  BY <2>1, <2>2 DEF AnyStore
<1>5. ASSUME NEW rs1 \in Regs, NEW rs2 \in Regs, NEW rd \in Regs, NEW op \in Operations,
             AmoCombine(op, rs1, rs2, rd)
      PROVE  AnyStore
  <2> DEFINE address == Value(x[rs1])
             val == Combined(op, Loaded4(address), x[rs2])
  <2>1. address \in Addrs /\ AtomicAccess \in Accesses /\ x[rs2] \in Word /\ FullWord \in Widths
    BY Given, RegisterValues, FullIsWidth, Access
  <2>2. answer' \in Answers
    BY <1>5, <2>1, Given, TranslateKeeps DEF AmoCombine, Done, Asked
  <2>3. val \in Word
    BY <1>5, <2>1, <2>2, DoneReads, CombinedWord DEF AmoCombine
  <2>4. event'.class = "atomic" /\ StoresAt(address, FullWord, val, AtomicAccess)
    BY <1>5 DEF AmoCombine, Done, Asked, Ended, StoresAt
  <2> QED  BY <2>1, <2>3, <2>4 DEF AnyStore
<1>6. ASSUME AnAtomic PROVE UNCHANGED mem \/ AnyStore
  BY <1>3, <1>4, <1>5, <1>6 DEF AnAtomic, LoadReserved, AtomicRefused, SwapRefused
<1> QED  BY <1>1, <1>2, <1>6, Steps DEF AStore

\* Which byte of which bank a store changes.
LEMMA StoreChanges ==
  ASSUME Inv, NEW address \in Addrs, NEW size \in Widths, NEW val \in Word,
         NEW access \in Accesses, StoresAt(address, size, val, access)
  PROVE  /\ answer' \in Answers /\ answer'.granted
         /\ \E k \in BankIds :
              LET at == Physical(address) - Banks[k].start
              IN /\ Banks[k].writable
                 /\ Banks[k].start <= Physical(address)
                 /\ Physical(address) + size <= Top(Banks[k])
                 /\ \A j \in BankIds : j # k => mem'[j] = mem[j]
                 /\ \A o \in 0 .. Banks[k].size - 1 :
                      mem'[k][o] = IF o \in at .. at + size - 1 THEN val[o - at] ELSE mem[k][o]
<1>1. answer' \in Answers
  BY Given, TranslateKeeps DEF StoresAt
<1>2. answer'.granted
  BY DEF StoresAt, Writable
<1>3. PICK k \in Writers(Physical(address), size) :
        LET at == Physical(address) - Banks[k].start
        IN /\ k \in BankIds /\ Banks[k].writable
           /\ Banks[k].start <= Physical(address) /\ Physical(address) + size <= Top(Banks[k])
           /\ mem' \in MemoryType
           /\ \A j \in BankIds : j # k => mem'[j] = mem[j]
           /\ \A o \in 0 .. Banks[k].size - 1 :
                mem'[k][o] = IF o \in at .. at + size - 1 THEN val[o - at] ELSE mem[k][o]
  BY <1>1, Given, StoreIsDone DEF StoresAt
<1> QED  BY <1>1, <1>2, <1>3

\* The ROM keeps what was loaded into it, whatever is mapped to its frames
\* (Memory.hpp:62-64, validWrite, and :90-103; Bus.hpp:25-36).
THEOREM RomIsKept == Spec => RomKept
<1> DEFINE Kept == \A k \in BankIds : ~Banks[k].writable => mem'[k] = mem[k]
<1>1. Inv /\ [Next]_vars => [Kept]_vars
  <2> SUFFICES ASSUME Inv, Next PROVE Kept
    OBVIOUS
  <2>1. CASE UNCHANGED mem
    BY <2>1
  <2>2. CASE AnyStore
    <3>1. PICK address \in Addrs, size \in Widths, val \in Word, access \in Accesses :
            StoresAt(address, size, val, access)
      BY <2>2, Access DEF AnyStore
    <3> QED  BY <3>1, StoreChanges
  <2> QED  BY <2>1, <2>2, MemorySteps
<1> QED  BY <1>1, Invariance, PTL DEF Spec, RomKept

-----------------------------------------------------------------------------
(* Rights.                                                                 *)

\* An aligned access stays in its page.
LEMMA SpanInPage ==
  ASSUME NEW address \in Addrs, NEW size \in Widths, ~Misaligned(address, size)
  PROVE  LET o == address % PageSize
         IN /\ o \in Int /\ 0 <= o /\ o + size <= PageSize
            /\ o % size = 0
<1> DEFINE o == address % PageSize
           q == address \div PageSize
<1>1. address \in Int
  BY Sizes, SMT DEF Addrs
<1>2. /\ o \in Int /\ q \in Int /\ 0 <= o /\ o < PageSize
      /\ address = PageSize * q + o
  BY <1>1, Sizes, Divided
<1>3. address % size = 0
  BY Sizes, <1>1, SMT DEF Misaligned
<1>4. PICK P \in Int : PageSize = 4 * P
  BY Sizes, HartAssumption, SMT
<1> HIDE DEF o, q
<1>5. PICK t \in Int : t = P * q /\ PageSize * q = 4 * t
  <2>1. P * q \in Int /\ PageSize * q = 4 * (P * q)
    BY <1>2, <1>4, SMTT(30)
  <2> QED  BY <2>1
<1>6. o % size = 0 /\ o + size <= PageSize
  <2>1. o = address - 4 * t
    BY <1>1, <1>2, <1>5, Sizes, SMT
  <2>2. CASE size = 1
    BY <1>2, <2>2, Sizes, SMT
  <2>3. CASE size = 2
    BY <1>1, <1>2, <1>3, <1>4, <2>1, <2>3, Sizes, SMT
  <2>4. CASE size = 4
    BY <1>1, <1>2, <1>3, <1>4, <2>1, <2>4, Sizes, SMT
  <2> QED  BY <2>2, <2>3, <2>4 DEF Widths, Byte, HalfWord, FullWord
<1> QED  BY <1>2, <1>6 DEF o

\* A store writes a byte only through a page that gives W, an atomic only through
\* one that gives R, the right it asks for (InstructS.hpp:64-71;
\* InstructAtom.hpp:164-250).
THEOREM WritesHaveRight == Spec => WritesNeedRight
<1> DEFINE right == IF event'.class \in {"atomic", "swap"} THEN "R" ELSE "W"
           Right ==
       \A k \in BankIds : \A o \in 0 .. Banks[k].size - 1 :
         mem'[k][o] # mem[k][o] =>
           \E m \in map' : /\ m.frame = (Banks[k].start + o) \div PageSize
                           /\ right \in m.protection
<1>1. Inv /\ [Next]_vars => [Right]_vars
  <2> SUFFICES ASSUME Inv, Next PROVE Right
    OBVIOUS
  <2>1. CASE UNCHANGED mem
    BY <2>1
  <2>2. CASE AnyStore
    <3>1. PICK address \in Addrs, size \in Widths, val \in Word, access \in Accesses :
            StoresAt(address, size, val, access) /\ right \in access \ {"S"}
      BY <2>2, Access DEF AnyStore, StoreAccess, AtomicAccess
    <3>2. \A k \in BankIds : \A o \in 0 .. Banks[k].size - 1 :
            mem'[k][o] # mem[k][o] =>
              \E m \in map' : m.frame = (Banks[k].start + o) \div PageSize /\ right \in m.protection
      <4> HIDE DEF right
      <4> DEFINE p == Physical(address)
                 f == answer'.frame
                 r == address % PageSize
      <4>1. answer' \in Answers /\ answer'.granted
        BY <3>1, StoreChanges
      <4>2. PICK m \in Mapping : Comes(m, PageOf(address), access)
        BY <3>1, <4>1, Given, Translated DEF StoresAt
      <4>3. m \in map' /\ m.frame = f /\ right \in m.protection
        BY <3>1, <4>2 DEF Comes, PM!Permits
      <4>4. PICK k \in BankIds :
              /\ \A j \in BankIds : j # k => mem'[j] = mem[j]
              /\ \A o \in 0 .. Banks[k].size - 1 :
                   mem'[k][o] = IF o \in p - Banks[k].start .. p - Banks[k].start + size - 1
                                THEN val[o - (p - Banks[k].start)] ELSE mem[k][o]
        BY <3>1, StoreChanges
      <4>5. /\ p = f * PageSize + r /\ p \in Int
            /\ r \in Int /\ 0 <= r /\ r + size <= PageSize /\ f \in Int
        <5>1. f \in Int
          BY <4>1, Sizes, SMT DEF Answers, Frames
        <5> QED  BY <3>1, <4>1, <5>1, PhysicalPlace, SpanInPage DEF StoresAt
      <4>6. ASSUME NEW o \in 0 .. Banks[k].size - 1, mem'[k][o] # mem[k][o]
            PROVE  (Banks[k].start + o) \div PageSize = f
        <5> DEFINE a == Banks[k].start + o
                   s == a - f * PageSize
        <5>1. o \in p - Banks[k].start .. p - Banks[k].start + size - 1
          BY <4>4, <4>6
        <5> HIDE DEF p, f, r
        <5>2. size \in Int /\ Banks[k].start \in Int /\ Banks[k].size \in Int
          BY BankFacts, SMT DEF Widths, Byte, HalfWord, FullWord
        <5>3. f * PageSize \in Int /\ f * PageSize = PageSize * f
          BY <4>5, Sizes, SMTT(30)
        <5>4. a \in Int /\ p <= a /\ a <= p + size - 1
          BY <4>5, <5>1, <5>2, SMT
        <5>5. s \in Int /\ 0 <= s /\ s < PageSize /\ a = PageSize * f + s
          BY <4>5, <5>2, <5>3, <5>4, Sizes, SMT
        <5> HIDE DEF s, a
        <5>6. a \div PageSize = f
          BY <4>5, <5>4, <5>5, Sizes, DividedBy
        <5> QED  BY <5>6 DEF a
      <4> QED  BY <4>3, <4>4, <4>6
    <3> QED  BY <3>2
  <2> QED  BY <2>1, <2>2, MemorySteps
<1> QED  BY <1>1, Invariance, PTL DEF Spec, WritesNeedRight

-----------------------------------------------------------------------------
(* Refusals and x0.                                                        *)

\* An access that is refused changes no register and no byte, the second access
\* of an atomic and the second try of AMOSWAP included (InstructILoad.hpp:73-92,
\* InstructS.hpp:54-75, InstructAtom.hpp:156-254).
THEOREM RefusalsKeepAll == Spec => RefusedKeepsAll
<1> DEFINE Keeps == event'.result \in Refusals => UNCHANGED <<x, mem>>
<1>1. [Next]_vars => [Keeps]_vars
  <2> SUFFICES ASSUME Next PROVE Keeps
    OBVIOUS
  <2>1. CASE \E pc \in Fetches : Fetch(pc)
    BY <2>1 DEF Fetch, Ended, Refusals
  <2>2. CASE Unknown
    BY <2>2 DEF Unknown, Ended, Refusals
  <2>3. CASE Compute
    BY <2>3 DEF Compute, Ended, Refusals
  <2>4. CASE ALoad
    BY <2>4 DEF ALoad, Load, Ended, Refusals, Outcome
  <2>5. CASE AStore
    BY <2>5 DEF AStore, Store, Ended, Refusals, Outcome
  <2>6. CASE AnAtomic
    <3>1. \A address, class : Done(address, class) => event'.result \notin Refusals
      BY DEF Done, Asked, Ended, Refusals
    <3>2. \A rs1, rd \in Regs : LoadReserved(rs1, rd) => Keeps
      BY <3>1 DEF LoadReserved
    <3>3. \A rs1, rs2, rd \in Regs : StoreConditional(rs1, rs2, rd) => Keeps
      BY <3>1 DEF StoreConditional
    <3>4. /\ \A rs1, rs2, rd \in Regs : SwapDone(rs1, rs2, rd) => Keeps
          /\ \A rs1 \in Regs : SwapRefused(rs1) => Keeps
      BY <3>1 DEF SwapDone, SwapRefused
    <3>5. \A rs1, rs2, rd \in Regs, op \in Operations : AmoCombine(op, rs1, rs2, rd) => Keeps
      BY <3>1 DEF AmoCombine
    <3>6. \A rs1 \in Regs, needed \in {"read", "write", "unimplemented"} :
            AtomicRefused(rs1, needed) => Keeps
      BY DEF AtomicRefused
    <3> QED  BY <2>6, <3>2, <3>3, <3>4, <3>5, <3>6 DEF AnAtomic
  <2> QED  BY <2>1, <2>2, <2>3, <2>4, <2>5, <2>6, Steps
<1> QED  BY <1>1, PTL DEF Spec, RefusedKeepsAll

\* No instruction but AMOSWAP takes x0 from zero (Instruct*.hpp, writeBack;
\* InstructAtom.hpp:196).
THEOREM ZeroKept == Spec => ZeroLostBySwapOnly
<1> DEFINE Only == x[0] = Zero /\ x'[0] # Zero => event'.class = "swap"
<1>1. Inv /\ [Next]_vars => [Only]_vars
  <2> SUFFICES ASSUME Inv, Next, x[0] = Zero, x'[0] # Zero PROVE event'.class = "swap"
    OBVIOUS
  <2>0. \A rd \in Regs : \A v : WriteBack(x, rd, v)[0] = Zero
    <3>1. 0 \in Regs
      BY Sizes, SMT DEF Regs
    <3> QED  BY <3>1, Given DEF WriteBack
  <2>1. ~ \E pc \in Fetches : Fetch(pc)
    BY DEF Fetch
  <2>2. ~ Unknown
    BY DEF Unknown
  <2>3. ~ Compute
    BY <2>0 DEF Compute
  <2>4. ~ ALoad
    BY <2>0 DEF ALoad, Load
  <2>5. ~ AStore
    BY DEF AStore, Store
  <2>6. ASSUME AnAtomic PROVE event'.class = "swap"
    <3>1. \A rs1, rd \in Regs : ~LoadReserved(rs1, rd)
      BY <2>0 DEF LoadReserved
    <3>2. \A rs1, rs2, rd \in Regs : ~StoreConditional(rs1, rs2, rd)
      BY <2>0 DEF StoreConditional
    <3>3. \A rs1, rs2, rd \in Regs, op \in Operations : ~AmoCombine(op, rs1, rs2, rd)
      BY <2>0 DEF AmoCombine
    <3>4. \A rs1 \in Regs, needed \in {"read", "write", "unimplemented"} : ~AtomicRefused(rs1, needed)
      BY DEF AtomicRefused
    <3>5. \A rs1, rs2, rd \in Regs : SwapDone(rs1, rs2, rd) => event'.class = "swap"
      BY DEF SwapDone, Done, Ended
    <3>6. \A rs1 \in Regs : SwapRefused(rs1) => event'.class = "swap"
      BY DEF SwapRefused, Ended
    <3> QED  BY <2>6, <3>1, <3>2, <3>3, <3>4, <3>5, <3>6 DEF AnAtomic
  <2> QED  BY <2>1, <2>2, <2>3, <2>4, <2>5, <2>6, Steps
<1> QED  BY <1>1, Invariance, PTL DEF Spec, ZeroLostBySwapOnly
=============================================================================
