--------------------------- MODULE InstructProofs ---------------------------
(***************************************************************************)
(* What Instruct does with immediates, comparisons and swaps, proved for   *)
(* every program and every width of a word.                                *)
(***************************************************************************)
EXTENDS Instruct, Numbers

\* The instruction is one of the program's, and its object holds what the
\* constructor makes of it.
Inv ==
  /\ stage \in {"fetched", "decoded", "executed"}
  /\ fetched \in Instructions
  /\ stage # "fetched" => imm = Decoded(fetched)

-----------------------------------------------------------------------------
(* The constructors, on the fields of an immediate.                        *)

\* Twelve bits, extended: the formats I.
LEMMA FormatI ==
  ASSUME NEW n \in Int, -2048 <= n, n < 2048
  PROVE  ImmediateI(TopI(n)) = n
BY SMTT(30) DEF ImmediateI, TopI, SignFill

LEMMA FormatS ==
  ASSUME NEW n \in Int, -2048 <= n, n < 2048
  PROVE  ImmediateS(HighS(n), LowS(n)) = n <=> n >= 0
BY SMTT(30) DEF ImmediateS, HighS, LowS, Bits

LEMMA FormatB ==
  ASSUME NEW n \in Int, -4096 <= n, n < 4096, n % 2 = 0
  PROVE  ImmediateB(HighB(n), LowB(n)) = n <=> -2048 <= n /\ n < 2048 /\ n # 0
BY SMTT(30) DEF ImmediateB, HighB, LowB, Bits, SignFill

LEMMA FormatJ ==
  ASSUME NEW n \in Int, -Mega <= n, n < Mega, n % 2 = 0
  PROVE  ImmediateJ(SignJ(n), MiddleJ(n), CarryJ(n), UpperJ(n)) = n
           <=> IF n < 0 THEN n >= -4096 ELSE Bits(n, 1024, 2) = 0
<1> DEFINE low == n % 4096
           upper == UpperJ(n)
           rest == 2048 * CarryJ(n) + 2 * MiddleJ(n)
           first == MiddleJ(n) \div 512
<1>1. rest = low /\ low \in 0 .. 4094
  BY SMTT(30) DEF Mega, CarryJ, MiddleJ, Bits
<1>2. upper \in 0 .. 255
  BY SMTT(30) DEF Mega, UpperJ, Bits
<1>3. first = Bits(n, 1024, 2) /\ first \in {0, 1}
  BY SMTT(30) DEF Mega, MiddleJ, Bits
<1>4. SignJ(n) = IF n < 0 THEN 1 ELSE 0
  BY SMTT(30) DEF Mega, SignJ, Bits
<1>5. 4096 * upper + low = IF n < 0 THEN n + Mega ELSE n
  BY SMTT(30) DEF Mega, UpperJ, Bits
<1>6. ImmediateJ(SignJ(n), MiddleJ(n), CarryJ(n), UpperJ(n)) =
        IF n < 0 THEN low - 4096 ELSE Mega * first + n
  <2> DEFINE s == SignJ(n)
  <2> DEFINE whole == Mega * (2 * s + first) + 4096 * upper + rest
  <2>1. ImmediateJ(s, MiddleJ(n), CarryJ(n), UpperJ(n)) =
          IF s = 1 THEN SignFill(whole) ELSE whole
    <3>1. 2048 * CarryJ(n) \in Int /\ 2 * MiddleJ(n) \in Int
      BY SMTT(30) DEF Mega, CarryJ, MiddleJ, Bits
    <3>2. whole = Mega * (2 * s + first) + 4096 * upper + 2048 * CarryJ(n) + 2 * MiddleJ(n)
      BY <1>2, <1>3, <1>4, <3>1, SMTT(30) DEF Mega
    <3> QED  BY <3>2, SMTT(30) DEF Mega, ImmediateJ
  <2>2. CASE n < 0
    <3>1. s = 1  BY <1>4, <2>2, SMTT(30) DEF Mega
    <3>2. whole % 4096 = low
      <4>1. whole = 4096 * (256 * (2 + first) + upper) + low
        BY <1>1, <1>2, <1>3, <3>1, SMTT(30) DEF Mega
      <4>2. 256 * (2 + first) + upper \in Int
        BY <1>2, <1>3, SMTT(30) DEF Mega
      <4> HIDE DEF whole, first, upper, low
      <4> QED  BY <4>1, <4>2, <1>1, SMTT(30) DEF Mega
    <3> QED  BY <2>1, <2>2, <3>1, <3>2, SMTT(30) DEF Mega, SignFill
  <2>3. CASE ~ (n < 0)
    <3>1. s = 0  BY <1>4, <2>3, SMTT(30) DEF Mega
    <3>2. whole = Mega * first + n
      BY <1>1, <1>2, <1>3, <1>5, <2>3, <3>1, SMTT(30) DEF Mega
    <3> QED  BY <2>1, <2>3, <3>1, <3>2, SMTT(30) DEF Mega
  <2> QED  BY <2>2, <2>3, SMT DEF Mega
<1>7. low - 4096 = n <=> n \in -4096 .. -1
  BY SMTT(30) DEF Mega
<1> QED  BY <1>3, <1>6, <1>7, SMTT(30) DEF Mega

\* The three fields a shift and an upper immediate have.
LEMMA FormatShift ==
  ASSUME NEW n \in Int, 0 <= n, n < 2048
  PROVE  ImmediateI(n) = n
BY DEF ImmediateI

LEMMA FormatU ==
  ASSUME NEW n \in Int, 0 <= n, n % 4096 = 0
  PROVE  4096 * Bits(n, 4096, Mega) = n <=> n < 4096 * Mega
<1>1. PICK k \in Int : n = 4096 * k
  BY SMTT(30)
<1>2. n \div 4096 = k
  BY <1>1, SMTT(30)
<1>3. k % Mega = k <=> k < Mega
  BY <1>1, SMTT(30) DEF Mega
<1> QED  BY <1>1, <1>2, <1>3, SMTT(30) DEF Bits, Mega

\* No operation has two formats.
LEMMA FormatOf ==
  ASSUME NEW op \in Ops
  PROVE  /\ op \in ShiftImmediates => op \notin OpsWithI \cup OpsB \cup OpsU \cup {"STORE", "JAL"}
         /\ op \in OpsWithI => op \notin ShiftImmediates \cup OpsB \cup OpsU \cup {"STORE", "JAL"}
         /\ op = "STORE" => op \notin ShiftImmediates \cup OpsWithI \cup OpsB \cup OpsU
         /\ op \in OpsB => op \notin ShiftImmediates \cup OpsWithI \cup OpsU \cup {"STORE", "JAL"}
         /\ op = "JAL" => op \notin ShiftImmediates \cup OpsWithI \cup OpsB \cup OpsU
         /\ op \in OpsU => op \notin ShiftImmediates \cup OpsWithI \cup OpsB \cup {"STORE", "JAL"}
         /\ op = "SRAI" => op \in ShiftImmediates
BY SMT DEF Ops, OpsR, OpsI, OpsB, OpsU, OpsCsr, OpsWithI, ShiftImmediates

\* What an object holds is what the instruction was written with, exactly for
\* the offsets OffsetKept names.
LEMMA DecodedRight ==
  ASSUME NEW i \in Instructions
  PROVE  Decoded(i) = i.imm <=> OffsetKept(i)
<1>1. i \in Instr /\ Encodable(i.op, i.imm)
  BY InstructionsAssumption
<1>2. i.op \in Ops /\ i.imm \in Int
  BY <1>1 DEF Instr
<1>3. CASE i.op \in ShiftImmediates
  <2> i.op \notin OpsWithI \cup OpsB \cup OpsU \cup {"STORE", "JAL"}
    BY <1>2, <1>3, FormatOf
  <2>1. 0 <= i.imm /\ i.imm < 32
    <3>1. 0 <= i.imm /\ i.imm < XLen
      BY <1>1, <1>3 DEF Encodable
    <3> QED  BY <1>2, <3>1, WordAssumption, SMT
  <2>2. Decoded(i) = ImmediateI(TopShift(i.op, i.imm))
    BY <1>3 DEF Decoded
  <2>3. Decoded(i) = IF i.op = "SRAI" THEN 1024 + i.imm ELSE i.imm
    BY <1>2, <2>1, <2>2, SMT DEF TopShift, ImmediateI
  <2>4. OffsetKept(i) <=> i.op # "SRAI"
    BY <1>3 DEF OffsetKept
  <2> QED  BY <1>2, <2>1, <2>3, <2>4, SMT
<1>4. CASE i.op \in OpsWithI
  <2>1. i.op \notin ShiftImmediates \cup OpsB \cup OpsU \cup {"STORE", "JAL"}
    BY <1>2, <1>4, FormatOf
  <2>2. -2048 <= i.imm /\ i.imm < 2048
    BY <1>1, <1>4, <2>1 DEF Encodable
  <2>3. Decoded(i) = ImmediateI(TopI(i.imm))
    BY <1>4, <2>1 DEF Decoded
  <2>4. OffsetKept(i)
    BY <1>2, <2>1, FormatOf DEF OffsetKept
  <2>5. ImmediateI(TopI(i.imm)) = i.imm
    BY <1>2, <2>2, FormatI
  <2> QED  BY <2>3, <2>4, <2>5
<1>5. CASE i.op = "STORE"
  <2>1. i.op \notin ShiftImmediates \cup OpsWithI \cup OpsB \cup OpsU
    BY <1>2, <1>5, FormatOf
  <2>2. -2048 <= i.imm /\ i.imm < 2048
    BY <1>1, <1>5, <2>1 DEF Encodable
  <2>3. Decoded(i) = ImmediateS(HighS(i.imm), LowS(i.imm))
    BY <1>5, <2>1 DEF Decoded
  <2>4. OffsetKept(i) <=> i.imm >= 0
    BY <1>5, <2>1 DEF OffsetKept
  <2>5. ImmediateS(HighS(i.imm), LowS(i.imm)) = i.imm <=> i.imm >= 0
    BY <1>2, <2>2, FormatS
  <2> QED  BY <2>3, <2>4, <2>5
<1>6. CASE i.op \in OpsB
  <2>1. i.op \notin ShiftImmediates \cup OpsWithI \cup OpsU \cup {"STORE", "JAL"}
    BY <1>2, <1>6, FormatOf
  <2>2. -4096 <= i.imm /\ i.imm < 4096 /\ i.imm % 2 = 0
    BY <1>1, <1>6, <2>1 DEF Encodable
  <2>3. Decoded(i) = ImmediateB(HighB(i.imm), LowB(i.imm))
    BY <1>6, <2>1 DEF Decoded
  <2>4. OffsetKept(i) <=> -2048 <= i.imm /\ i.imm < 2048 /\ i.imm # 0
    BY <1>2, <1>6, <2>1, FormatOf DEF OffsetKept
  <2>5. ImmediateB(HighB(i.imm), LowB(i.imm)) = i.imm <=> -2048 <= i.imm /\ i.imm < 2048 /\ i.imm # 0
    BY <1>2, <2>2, FormatB
  <2> QED  BY <2>3, <2>4, <2>5
<1>7. CASE i.op = "JAL"
  <2>1. i.op \notin ShiftImmediates \cup OpsWithI \cup OpsB \cup OpsU
    BY <1>2, <1>7, FormatOf
  <2>2. -Mega <= i.imm /\ i.imm < Mega /\ i.imm % 2 = 0
    BY <1>1, <1>7, <2>1 DEF Encodable
  <2>3. Decoded(i) = ImmediateJ(SignJ(i.imm), MiddleJ(i.imm), CarryJ(i.imm), UpperJ(i.imm))
    BY <1>7, <2>1 DEF Decoded
  <2>4. OffsetKept(i) <=> IF i.imm < 0 THEN i.imm >= -4096 ELSE Bits(i.imm, 1024, 2) = 0
    BY <1>7, <2>1 DEF OffsetKept
  <2>6. ImmediateJ(SignJ(i.imm), MiddleJ(i.imm), CarryJ(i.imm), UpperJ(i.imm)) = i.imm
          <=> IF i.imm < 0 THEN i.imm >= -4096 ELSE Bits(i.imm, 1024, 2) = 0
    BY <1>2, <2>2, FormatJ
  <2> QED  BY <2>3, <2>4, <2>6
<1>8. CASE i.op \in OpsU
  <2>1. i.op \notin ShiftImmediates \cup OpsWithI \cup OpsB \cup {"STORE", "JAL"}
    BY <1>2, <1>8, FormatOf
  <2>2. 0 <= i.imm /\ i.imm < WordMod /\ i.imm % 4096 = 0
    BY <1>1, <1>8, <2>1 DEF Encodable
  <2>3. Decoded(i) = 4096 * Bits(i.imm, 4096, Mega)
    BY <1>8, <2>1 DEF Decoded
  <2>4. OffsetKept(i)
    BY <1>2, <2>1, FormatOf DEF OffsetKept
  <2>5. i.imm < 4096 * Mega
    BY <1>2, <2>2, WordAssumption, SMTT(30) DEF Mega
  <2>6. 4096 * Bits(i.imm, 4096, Mega) = i.imm
    <3>1. 0 <= i.imm
      BY <1>2, <2>2, WordAssumption, SMT
    <3> QED  BY <1>2, <2>2, <2>5, <3>1, FormatU
  <2> QED  BY <2>3, <2>4, <2>6
<1>9. CASE i.op \in OpsR \cup OpsCsr
  <2>1. i.imm = 0 /\ Decoded(i) = 0 /\ OffsetKept(i)
    BY <1>1, <1>9, SMT DEF Encodable, Decoded, OffsetKept, OpsWithI, ShiftImmediates, OpsI, OpsB,
                     OpsU, OpsR, OpsCsr
  <2> QED  BY <2>1
<1> QED
  BY <1>2, <1>3, <1>4, <1>5, <1>6, <1>7, <1>8, <1>9, SMT DEF Ops, OpsWithI, OpsI, ShiftImmediates

-----------------------------------------------------------------------------
(* The pipeline.                                                           *)

LEMMA InitInv == Init => Inv
BY DEF Init, Inv

\* Every case of execute ends in Finish.
LEMMA ExecuteFinishes ==
  ASSUME Execute
  PROVE  stage = "decoded" /\ stage' = "executed" /\ UNCHANGED <<fetched, imm>>
BY DEF Execute, ExecuteR, ExecuteIULAI, ExecuteAddress, ExecuteB, ExecuteJ, ExecuteIJALR,
       ExecuteULUI, ExecuteUAUPC, CsrSwap, CsrSet, CsrClear, Finish

LEMMA NextInv == Inv /\ [Next]_vars => Inv'
<1> SUFFICES ASSUME Inv, [Next]_vars
             PROVE  Inv'
  OBVIOUS
<1>1. CASE Decode
  BY <1>1 DEF Inv, Decode
<1>2. CASE Execute
  BY <1>2, ExecuteFinishes DEF Inv
<1>3. CASE UNCHANGED vars
  BY <1>3 DEF Inv, vars
<1> QED  BY <1>1, <1>2, <1>3 DEF Next

\* The instruction is one of the program's and is decoded once, in any
\* program.
THEOREM PipelineKept == Spec => []Inv
<1> QED  BY InitInv, NextInv, PTL DEF Spec

\* Which offsets come out of the constructors as they were written, for every
\* program and every width of a word (Instruct*.hpp, the constructors).
THEOREM OffsetsAreDecoded == Spec => []OffsetsDecoded
<1>1. Inv => OffsetsDecoded
  BY DecodedRight DEF Inv, OffsetsDecoded
<1> QED  BY <1>1, PipelineKept, PTL

-----------------------------------------------------------------------------
(* What follows from the value an instruction has when it is executed.  A   *)
(* property of executed instructions is shown of the step that executes.    *)

\* What an instruction does is found out from the operation it is.
LEMMA OperationOf ==
  ASSUME NEW op \in Ops
  PROVE  /\ op \in OpsR => op \notin OpsI \cup OpsB \cup OpsU \cup OpsCsr \cup {"LOAD", "STORE", "JAL", "JALR"}
         /\ op \in OpsI => op \notin OpsR \cup OpsB \cup OpsU \cup OpsCsr \cup {"LOAD", "STORE", "JAL", "JALR"}
         /\ op \in OpsB => op \notin OpsR \cup OpsI \cup OpsU \cup OpsCsr \cup {"LOAD", "STORE", "JAL", "JALR"}
         /\ op \in OpsCsr => op \notin OpsR \cup OpsI \cup OpsB \cup OpsU \cup {"LOAD", "STORE", "JAL", "JALR"}
         /\ {"CSRRW", "CSRRWI"} \subseteq OpsCsr
         /\ op \in OpsU => op \in {"LUI", "AUIPC"}
BY SMT DEF Ops, OpsR, OpsI, OpsB, OpsU, OpsCsr

\* A swap.
LEMMA SwapMeans ==
  ASSUME NEW i \in Instr, i.op \in {"CSRRW", "CSRRWI"}
  PROVE  /\ Meaning(i).value = ToRd(i, i.csr)
         /\ Meaning(i).csr = IF i.op = "CSRRWI" THEN i.rs1 ELSE i.a
<1>1. i.op \in Ops
  BY DEF Instr
<1>2. i.op \in OpsCsr /\ i.op \notin OpsR \cup OpsI \cup OpsB \cup OpsU \cup {"LOAD", "STORE", "JAL", "JALR"}
  BY <1>1, OperationOf
<1>3. i.op \notin {"LUI", "AUIPC"}
  OBVIOUS
<1>4. Meaning(i) = Outcome(ToRd(i, i.csr), Word(i.pc + 4), Merged(i.op, i.csr, CsrSource(i)))
  BY <1>2, <1>3, Zenon DEF Meaning
<1>5. Merged(i.op, i.csr, CsrSource(i)) = CsrSource(i)
  BY DEF Merged
<1>6. CsrSource(i) = IF i.op = "CSRRWI" THEN i.rs1 ELSE i.a
  BY DEF CsrSource
<1> QED  BY <1>4, <1>5, <1>6 DEF Outcome

LEMMA ExecuteSwap ==
  ASSUME Inv, Execute, fetched.op \in {"CSRRW", "CSRRWI"}
  PROVE  CsrSwap
<1>1. fetched.op \in Ops
  BY InstructionsAssumption DEF Inv, Instr
<1>2. fetched.op \notin OpsR \cup OpsI \cup OpsB \cup OpsU \cup {"LOAD", "STORE", "JAL", "JALR", "LUI", "AUIPC"}
  BY <1>1, OperationOf
<1> QED  BY <1>2 DEF Execute, ExecuteR, ExecuteIULAI, ExecuteAddress, ExecuteB, ExecuteJ,
              ExecuteIJALR, ExecuteULUI, ExecuteUAUPC, CsrSet, CsrClear

\* A control register that is swapped gets the right value, and is read exactly
\* if the register it is swapped with held something else than zero: for every
\* program, whatever the registers hold (InstructCSR.hpp:66-78, :86).
THEOREM SwapsAreRead == Spec => []SwapsRead
<1>1. Init => SwapsRead
  BY DEF Init, SwapsRead, Executed
<1>2. Inv /\ SwapsRead /\ [Next]_vars => SwapsRead'
  <2> SUFFICES ASSUME Inv, SwapsRead, [Next]_vars
               PROVE  SwapsRead'
    OBVIOUS
  <2>1. CASE Decode
    BY <2>1 DEF Decode, SwapsRead, Executed
  <2>2. CASE Execute
    <3> SUFFICES ASSUME fetched'.op \in {"CSRRW", "CSRRWI"}
                 PROVE  /\ outcome'.csr = Meaning(fetched').csr
                        /\ outcome'.value = Meaning(fetched').value <=>
                             fetched'.rd = 0 \/ fetched'.d # 0 \/ fetched'.csr = 0
      BY DEF SwapsRead
    <3>1. fetched' = fetched
      BY <2>2, ExecuteFinishes
    <3>2. fetched \in Instr
      BY InstructionsAssumption DEF Inv
    <3>3. CsrSwap
      BY <2>2, <3>1, ExecuteSwap
    <3>4. /\ outcome'.value = Back(SwapRead(fetched.csr, fetched.d))
          /\ outcome'.csr = IF fetched.op = "CSRRW" THEN fetched.a ELSE fetched.rs1
      BY <3>3 DEF CsrSwap, Finish, Outcome
    <3>5. /\ Meaning(fetched).value = ToRd(fetched, fetched.csr)
          /\ Meaning(fetched).csr = IF fetched.op = "CSRRWI" THEN fetched.rs1 ELSE fetched.a
      BY <3>1, <3>2, SwapMeans
    <3>6. outcome'.csr = Meaning(fetched).csr
      BY <3>1, <3>4, <3>5
    <3>7. outcome'.value = Meaning(fetched).value <=>
            fetched.rd = 0 \/ fetched.d # 0 \/ fetched.csr = 0
      BY <3>4, <3>5 DEF Back, SwapRead, ToRd
    <3> QED  BY <3>1, <3>6, <3>7
  <2>3. CASE UNCHANGED vars
    BY <2>3 DEF vars, SwapsRead, Executed
  <2> QED  BY <2>1, <2>2, <2>3 DEF Next
<1> QED  BY <1>1, <1>2, PipelineKept, PTL DEF Spec

-----------------------------------------------------------------------------
(* Comparisons.                                                            *)

LEMMA ModulusInt == WordMod \in Int /\ WordMod >= 8192
BY WordAssumption, SMT

\* The remainder, for the modulus of a word.
LEMMA WordIs ==
  ASSUME NEW n \in Int, NEW k \in Int, NEW r \in Int, n = WordMod * k + r, 0 <= r, r < WordMod
  PROVE  Word(n) = r
BY ModulusInt, SMTT(30) DEF Word

LEMMA WordFound ==
  ASSUME NEW n \in Int
  PROVE  /\ Word(n) \in Int /\ 0 <= Word(n) /\ Word(n) < WordMod
         /\ \E k \in Int : n = WordMod * k + Word(n)
<1>1. n \div WordMod \in Int /\ n % WordMod \in Int
  BY ModulusInt, SMTT(30)
<1>2. 0 <= n % WordMod /\ n % WordMod < WordMod
  BY ModulusInt, SMTT(30)
<1>3. n = WordMod * (n \div WordMod) + (n % WordMod)
  BY ModulusInt, SMTT(30)
<1> QED  BY <1>1, <1>2, <1>3, Zenon DEF Word

\* An immediate of twelve bits as a word.
LEMMA WordOfShort ==
  ASSUME NEW n \in Int, -4096 <= n, n < 4096
  PROVE  Word(n) = IF n < 0 THEN WordMod + n ELSE n
<1>1. CASE n < 0
  <2> DEFINE k == -1
             r == WordMod + n
  <2>1. k \in Int /\ r \in Int /\ n = WordMod * k + r /\ 0 <= r /\ r < WordMod
    BY <1>1, ModulusInt, SMT
  <2> HIDE DEF k, r
  <2>2. Word(n) = r
    BY <2>1, WordIs
  <2> QED  BY <1>1, <2>2 DEF r
<1>2. CASE ~ (n < 0)
  <2> DEFINE k == 0
  <2>1. k \in Int /\ n = WordMod * k + n /\ 0 <= n /\ n < WordMod
    BY <1>2, ModulusInt, SMT
  <2> HIDE DEF k
  <2>2. Word(n) = n
    BY <2>1, WordIs
  <2> QED  BY <1>2, <2>2
<1> QED  BY <1>1, <1>2

\* Two offsets from the same address lead to the same place only if they are
\* the same word.
LEMMA TargetsDiffer ==
  ASSUME NEW pc \in Int, NEW n \in Int, Word(pc + n) = Word(pc + 4)
  PROVE  Word(n) = 4
<1> DEFINE w == Word(pc + 4)
           r == 4
<1>1. w \in Int
  BY WordFound, SMT
<1>2. PICK k \in Int : pc + n = WordMod * k + w
  BY WordFound, SMT
<1>3. PICK m \in Int : pc + 4 = WordMod * m + w
  BY WordFound, SMT
<1> DEFINE j == k - m
<1>4. j \in Int /\ n = WordMod * j + r /\ 0 <= r /\ r < WordMod /\ r \in Int
  <2> HIDE DEF w
  <2>1. n - 4 = WordMod * k - WordMod * m
    BY <1>1, <1>2, <1>3, ModulusInt, SMT
  <2>2. WordMod * k - WordMod * m = WordMod * (k - m)
    BY ModulusInt, SMT
  <2>3. WordMod * (k - m) \in Int
    BY ModulusInt, SMT
  <2> QED  BY <2>1, <2>2, <2>3, ModulusInt, SMT
<1> HIDE DEF j, r
<1>5. Word(n) = r
  BY <1>4, WordIs, Zenon
<1> QED  BY <1>5 DEF r

LEMMA OrderOfWords ==
  ASSUME NEW a \in Words, NEW b \in Words
  PROVE  (a < b <=> Signed(a) < Signed(b)) <=> SameSign(a, b)
BY ModulusInt, SMT DEF Words, Signed, SameSign

LEMMA OutcomesEqual ==
  ASSUME NEW v, NEW n, NEW c, NEW w, NEW m, NEW d
  PROVE  Outcome(v, n, c) = Outcome(w, m, d) <=> v = w /\ n = m /\ c = d
BY DEF Outcome

LEMMA ImmediateHeld ==
  ASSUME Inv, stage = "decoded", fetched.op \in {"SLTI", "SLTIU"}
  PROVE  imm = fetched.imm /\ imm \in Int /\ -2048 <= imm /\ imm < 2048
<1>1. fetched \in Instructions /\ imm = Decoded(fetched)
  BY DEF Inv
<1>2. fetched.op \in Ops /\ fetched.imm \in Int /\ Encodable(fetched.op, fetched.imm)
  BY <1>1, InstructionsAssumption DEF Instr
<1>3. fetched.op \in OpsWithI
  BY SMT DEF OpsWithI, OpsI, ShiftImmediates
<1>4. fetched.op \notin ShiftImmediates \cup OpsB \cup OpsU \cup {"STORE", "JAL"}
  BY <1>2, <1>3, FormatOf
<1>5. -2048 <= fetched.imm /\ fetched.imm < 2048
  BY <1>2, <1>3, <1>4 DEF Encodable
<1>6. OffsetKept(fetched)
  BY <1>2, <1>4, FormatOf DEF OffsetKept
<1> QED  BY <1>1, <1>2, <1>5, <1>6, DecodedRight

\* SLT and SLTU.
LEMMA OrderR ==
  ASSUME Inv, Execute, fetched.op \in {"SLT", "SLTU"}, fetched.rd # 0
  PROVE  outcome' = Meaning(fetched) <=> OrderKept(fetched)
<1> DEFINE i == fetched
           op == i.op
<1>1. i \in Instr /\ op \in Ops
  BY InstructionsAssumption DEF Inv, Instr
<1>2. op \in OpsR /\ op \notin OpsI \cup OpsB \cup OpsU \cup OpsCsr \cup {"LOAD", "STORE", "JAL", "JALR"}
  BY <1>1, OperationOf DEF OpsR
<1>3. ExecuteR
  BY <1>2 DEF Execute, ExecuteIULAI, ExecuteAddress, ExecuteB, ExecuteJ,
              ExecuteIJALR, ExecuteULUI, ExecuteUAUPC, CsrSwap, CsrSet, CsrClear
<1>4. outcome' = Outcome(ComputedR(op, i.a, i.b), Word(i.pc + 4), i.csr)
  BY <1>3 DEF ExecuteR, Finish, Back, Follow
<1>5. Meaning(i) = Outcome(Computed(op, i.a, i.b), Word(i.pc + 4), i.csr)
  BY <1>2, SMT DEF Meaning, ToRd
<1>6. outcome' = Meaning(i) <=> ComputedR(op, i.a, i.b) = Computed(op, i.a, i.b)
  BY <1>4, <1>5, OutcomesEqual
<1>7. i.a \in Words /\ i.b \in Words
  BY <1>1 DEF Instr
<1>8. CASE op = "SLT"
  <2>1. ComputedR(op, i.a, i.b) = Truth(i.a < i.b)
    BY <1>8, SMT DEF ComputedR
  <2>2. Computed(op, i.a, i.b) = Truth(Signed(i.a) < Signed(i.b))
    BY <1>8, SMT DEF Computed
  <2>3. OrderKept(i) <=> SameSign(i.a, i.b)
    BY <1>8, SMT DEF OrderKept
  <2>4. ComputedR(op, i.a, i.b) = Computed(op, i.a, i.b) <=>
          (i.a < i.b <=> Signed(i.a) < Signed(i.b))
    BY <2>1, <2>2 DEF Truth
  <2>5. (i.a < i.b <=> Signed(i.a) < Signed(i.b)) <=> SameSign(i.a, i.b)
    BY <1>7, OrderOfWords
  <2> QED  BY <1>6, <2>3, <2>4, <2>5
<1>9. CASE op = "SLTU"
  <2>1. ComputedR(op, i.a, i.b) = Computed(op, i.a, i.b)
    BY <1>9, SMT DEF ComputedR, Computed
  <2>2. OrderKept(i)
    BY <1>9, SMT DEF OrderKept
  <2> QED  BY <1>6, <2>1, <2>2
<1> QED  BY <1>8, <1>9

\* SLTI and SLTIU.
LEMMA OrderI ==
  ASSUME Inv, Execute, fetched.op \in {"SLTI", "SLTIU"}, fetched.rd # 0
  PROVE  outcome' = Meaning(fetched) <=> OrderKept(fetched)
<1> DEFINE i == fetched
           op == i.op
           n == i.imm
<1>1. i \in Instr /\ op \in Ops
  BY InstructionsAssumption DEF Inv, Instr
<1>2. op \in OpsI /\ op \notin OpsR \cup OpsB \cup OpsU \cup OpsCsr \cup {"LOAD", "STORE", "JAL", "JALR"}
  BY <1>1, OperationOf DEF OpsI
<1>3. ExecuteIULAI
  BY <1>2 DEF Execute, ExecuteR, ExecuteAddress, ExecuteB, ExecuteJ,
              ExecuteIJALR, ExecuteULUI, ExecuteUAUPC, CsrSwap, CsrSet, CsrClear
<1>4. imm = n /\ n \in Int /\ -2048 <= n /\ n < 2048
  BY ExecuteFinishes, ImmediateHeld
<1>5. outcome' = Outcome(ComputedI(op, i.a, n), Word(i.pc + 4), i.csr)
  BY <1>3, <1>4 DEF ExecuteIULAI, Finish, Back, Follow
<1>6. Meaning(i) = Outcome(Computed(op, i.a, Word(n)), Word(i.pc + 4), i.csr)
  BY <1>2, SMT DEF Meaning, ToRd
<1>7. outcome' = Meaning(i) <=> ComputedI(op, i.a, n) = Computed(op, i.a, Word(n))
  BY <1>5, <1>6, OutcomesEqual
<1>8. i.a \in Words /\ Word(n) \in Words
  <2>1. Word(n) \in Words
    <3>1. Word(n) \in Int /\ 0 <= Word(n) /\ Word(n) < WordMod
      BY <1>4, WordFound
    <3> HIDE DEF n
    <3> QED  BY <3>1, ModulusInt, SMT DEF Words
  <2> QED  BY <1>1, <2>1 DEF Instr
<1>9. CASE op = "SLTI"
  <2>1. ComputedI(op, i.a, n) = Truth(i.a < Word(n))
    BY <1>9, SMT DEF ComputedI
  <2>2. Computed(op, i.a, Word(n)) = Truth(Signed(i.a) < Signed(Word(n)))
    BY <1>9, SMT DEF Computed
  <2>3. OrderKept(i) <=> SameSign(i.a, Word(n))
    BY <1>9, SMT DEF OrderKept
  <2>4. ComputedI(op, i.a, n) = Computed(op, i.a, Word(n)) <=>
          (i.a < Word(n) <=> Signed(i.a) < Signed(Word(n)))
    BY <2>1, <2>2 DEF Truth
  <2>5. (i.a < Word(n) <=> Signed(i.a) < Signed(Word(n))) <=> SameSign(i.a, Word(n))
    BY <1>8, OrderOfWords
  <2> QED  BY <1>7, <2>3, <2>4, <2>5
<1>10. CASE op = "SLTIU"
  <2>1. ComputedI(op, i.a, n) = Truth(i.a < n % 4096)
    BY <1>10, SMT DEF ComputedI
  <2>2. Computed(op, i.a, Word(n)) = Truth(i.a < Word(n))
    BY <1>10, SMT DEF Computed
  <2>3. OrderKept(i) <=> n >= 0 \/ i.a < n + 4096 \/ i.a >= WordMod + n
    BY <1>10, SMT DEF OrderKept
  <2>4. (i.a < n % 4096 <=> i.a < Word(n)) <=> n >= 0 \/ i.a < n + 4096 \/ i.a >= WordMod + n
    <3>1. Word(n) = IF n < 0 THEN WordMod + n ELSE n
      BY <1>4, WordOfShort, SMT
    <3>2. n % 4096 = IF n < 0 THEN n + 4096 ELSE n
      BY <1>4, SMT
    <3> QED  BY <1>4, <1>8, <3>1, <3>2, ModulusInt, SMT DEF Words
  <2>5. ComputedI(op, i.a, n) = Computed(op, i.a, Word(n)) <=> (i.a < n % 4096 <=> i.a < Word(n))
    BY <2>1, <2>2 DEF Truth
  <2> QED  BY <1>7, <2>3, <2>4, <2>5
<1> QED  BY <1>9, <1>10

\* The branches, when the two ways they go are two.
LEMMA OrderB ==
  ASSUME Inv, Execute, fetched.op \in {"BLT", "BGE", "BLTU", "BGEU"}, Seen(fetched)
  PROVE  outcome' = Meaning(fetched) <=> OrderKept(fetched)
<1> DEFINE i == fetched
           op == i.op
           n == i.imm
<1>1. i \in Instr /\ op \in Ops /\ n \in Int
  BY InstructionsAssumption DEF Inv, Instr
<1>2. op \in OpsB /\ op \notin OpsR \cup OpsI \cup OpsU \cup OpsCsr \cup {"LOAD", "STORE", "JAL", "JALR"}
  BY <1>1, OperationOf DEF OpsB
<1>3. ExecuteB
  BY <1>2 DEF Execute, ExecuteR, ExecuteIULAI, ExecuteAddress, ExecuteJ,
              ExecuteIJALR, ExecuteULUI, ExecuteUAUPC, CsrSwap, CsrSet, CsrClear
<1>4. Word(imm) # 4 /\ imm = n
  BY <1>2 DEF Seen
<1>5. outcome' = Outcome(0, IF Branches(op, i.a, i.b) THEN Word(i.pc + n) ELSE Word(i.pc + 4), i.csr)
  BY <1>3, <1>4 DEF ExecuteB, Finish, Follow
<1>6. Meaning(i) = Outcome(0, IF Taken(op, i.a, i.b) THEN Word(i.pc + n) ELSE Word(i.pc + 4), i.csr)
  BY <1>2, SMT DEF Meaning
<1>7. i.a \in Words /\ i.b \in Words /\ i.pc \in Int
  BY <1>1, ModulusInt, SMT DEF Instr, Words
<1>8. Word(i.pc + n) # Word(i.pc + 4)
  BY <1>1, <1>4, <1>7, TargetsDiffer
<1>9. outcome' = Meaning(i) <=> (Branches(op, i.a, i.b) <=> Taken(op, i.a, i.b))
  BY <1>5, <1>6, <1>8, OutcomesEqual
<1>10. CASE op = "BLT"
  <2>1. Branches(op, i.a, i.b) <=> i.a < i.b
    BY <1>10, SMT DEF Branches
  <2>2. Taken(op, i.a, i.b) <=> Signed(i.a) < Signed(i.b)
    BY <1>10, SMT DEF Taken
  <2>3. OrderKept(i) <=> SameSign(i.a, i.b)
    BY <1>10, SMT DEF OrderKept
  <2>4. (i.a < i.b <=> Signed(i.a) < Signed(i.b)) <=> SameSign(i.a, i.b)
    BY <1>7, OrderOfWords
  <2> QED  BY <1>9, <2>1, <2>2, <2>3, <2>4
<1>11. CASE op = "BGE"
  <2>1. Branches(op, i.a, i.b) <=> i.a >= i.b
    BY <1>11, SMT DEF Branches
  <2>2. Taken(op, i.a, i.b) <=> Signed(i.a) >= Signed(i.b)
    BY <1>11, SMT DEF Taken
  <2>3. OrderKept(i) <=> SameSign(i.a, i.b)
    BY <1>11, SMT DEF OrderKept
  <2>4. (i.a >= i.b <=> ~(i.a < i.b)) /\ (Signed(i.a) >= Signed(i.b) <=> ~(Signed(i.a) < Signed(i.b)))
    BY <1>7, ModulusInt, SMT DEF Words, Signed
  <2>5. (i.a < i.b <=> Signed(i.a) < Signed(i.b)) <=> SameSign(i.a, i.b)
    BY <1>7, OrderOfWords
  <2> QED  BY <1>9, <2>1, <2>2, <2>3, <2>4, <2>5
<1>12. CASE op \in {"BLTU", "BGEU"}
  <2>1. Branches(op, i.a, i.b) <=> Taken(op, i.a, i.b)
    BY <1>12, SMT DEF Branches, Taken
  <2>2. OrderKept(i)
    BY <1>12, SMT DEF OrderKept
  <2> QED  BY <1>9, <2>1, <2>2
<1> QED  BY <1>10, <1>11, <1>12

\* A comparison tells which word is the less exactly when both have the same
\* sign, where signs count: for every program, whatever it compares
\* (InstructR.hpp:45-53, InstructIULAI.hpp:43-52, InstructB.hpp:44-66).
THEOREM ComparisonsAreDecided == Spec => []ComparisonsDecided
<1>1. Init => ComparisonsDecided
  BY DEF Init, ComparisonsDecided, Executed
<1>2. Inv /\ ComparisonsDecided /\ [Next]_vars => ComparisonsDecided'
  <2> SUFFICES ASSUME Inv, ComparisonsDecided, [Next]_vars
               PROVE  ComparisonsDecided'
    OBVIOUS
  <2>1. CASE Decode
    BY <2>1 DEF Decode, ComparisonsDecided, Executed
  <2>2. CASE Execute
    <3>1. fetched' = fetched /\ imm' = imm
      BY <2>2, ExecuteFinishes
    <3> SUFFICES ASSUME Ordered(fetched), Seen(fetched)
                 PROVE  outcome' = Meaning(fetched) <=> OrderKept(fetched)
      BY <3>1 DEF ComparisonsDecided, Seen
    <3>2. CASE fetched.op \in {"SLT", "SLTU"}
      BY <2>2, <3>2, OrderR, SMT DEF Seen, OpsB
    <3>3. CASE fetched.op \in {"SLTI", "SLTIU"}
      BY <2>2, <3>3, OrderI, SMT DEF Seen, OpsB
    <3>4. CASE fetched.op \in {"BLT", "BGE", "BLTU", "BGEU"}
      BY <2>2, <3>4, OrderB
    <3> QED  BY <3>2, <3>3, <3>4 DEF Ordered, OrderOps
  <2>3. CASE UNCHANGED vars
    BY <2>3 DEF vars, ComparisonsDecided, Executed, Seen
  <2> QED  BY <2>1, <2>2, <2>3 DEF Next
<1> QED  BY <1>1, <1>2, PipelineKept, PTL DEF Spec

-----------------------------------------------------------------------------
(* The other instructions.                                                 *)

Others == Ops \ (OrderOps \cup ShiftOps \cup {"CSRRW", "CSRRWI"})

LEMMA OtherOps ==
  ASSUME NEW op \in Others
  PROVE  /\ op \in OpsR => op \in {"ADD", "SUB", "XOR", "OR", "AND"}
         /\ op \in OpsI => op \in {"ADDI", "XORI", "ORI", "ANDI"}
         /\ op \in OpsB => op \in {"BEQ", "BNE"}
         /\ op \in OpsCsr => op \in {"CSRRS", "CSRRSI", "CSRRC", "CSRRCI"}
         /\ op \in OpsR \cup OpsI \cup OpsB \cup OpsU \cup OpsCsr \cup {"LOAD", "STORE", "JAL", "JALR"}
BY SMT DEF Others, Ops, OpsR, OpsI, OpsB, OpsCsr, OrderOps, ShiftOps

\* Twice the half of a number is the number if it is even.
LEMMA HalfOf ==
  ASSUME NEW n \in Int
  PROVE  n = 2 * (n \div 2) <=> n % 2 = 0
BY SMTT(30)

\* Register arithmetic, with two registers and with an immediate.
LEMMA RestR ==
  ASSUME Inv, ExecuteR, fetched.op \in Others
  PROVE  outcome' = Meaning(fetched)
<1> DEFINE i == fetched
           op == i.op
<1>1. op \in OpsR /\ op \in {"ADD", "SUB", "XOR", "OR", "AND"}
  BY OtherOps DEF ExecuteR
<1>2. op \notin OpsI \cup OpsB \cup OpsU \cup OpsCsr \cup {"LOAD", "STORE", "JAL", "JALR"}
  BY <1>1, OperationOf DEF Others
<1>3. ComputedR(op, i.a, i.b) = Computed(op, i.a, i.b)
  BY <1>1, SMT DEF ComputedR, Computed
<1>4. outcome' = Outcome(ToRd(i, Computed(op, i.a, i.b)), Word(i.pc + 4), i.csr)
  BY <1>3 DEF ExecuteR, Finish, Back, Follow, ToRd
<1>5. Meaning(i) = Outcome(ToRd(i, Computed(op, i.a, i.b)), Word(i.pc + 4), i.csr)
  BY <1>1, <1>2, SMT DEF Meaning
<1> QED  BY <1>4, <1>5

LEMMA RestI ==
  ASSUME Inv, ExecuteIULAI, fetched.op \in Others, imm = fetched.imm
  PROVE  outcome' = Meaning(fetched)
<1> DEFINE i == fetched
           op == i.op
<1>1. op \in OpsI /\ op \in {"ADDI", "XORI", "ORI", "ANDI"}
  BY OtherOps DEF ExecuteIULAI
<1>2. op \notin OpsR \cup OpsB \cup OpsU \cup OpsCsr \cup {"LOAD", "STORE", "JAL", "JALR"}
  BY <1>1, OperationOf DEF Others
<1>3. ComputedI(op, i.a, i.imm) = Computed(op, i.a, Word(i.imm))
  BY <1>1, SMT DEF ComputedI, Computed
<1>4. outcome' = Outcome(ToRd(i, Computed(op, i.a, Word(i.imm))), Word(i.pc + 4), i.csr)
  BY <1>3 DEF ExecuteIULAI, Finish, Back, Follow, ToRd
<1>5. Meaning(i) = Outcome(ToRd(i, Computed(op, i.a, Word(i.imm))), Word(i.pc + 4), i.csr)
  BY <1>1, <1>2, SMT DEF Meaning
<1> QED  BY <1>4, <1>5

LEMMA RestB ==
  ASSUME Inv, ExecuteB, fetched.op \in Others, imm = fetched.imm
  PROVE  outcome' = Meaning(fetched)
<1> DEFINE i == fetched
           op == i.op
<1>1. op \in OpsB /\ op \in {"BEQ", "BNE"}
  BY OtherOps DEF ExecuteB
<1>2. op \notin OpsR \cup OpsI \cup OpsU \cup OpsCsr \cup {"LOAD", "STORE", "JAL", "JALR"}
  BY <1>1, OperationOf DEF Others
<1>3. Branches(op, i.a, i.b) <=> Taken(op, i.a, i.b)
  BY <1>1, SMT DEF Branches, Taken
<1>4. outcome' = Outcome(0, IF Taken(op, i.a, i.b) THEN Word(i.pc + i.imm) ELSE Word(i.pc + 4), i.csr)
  BY <1>3 DEF ExecuteB, Finish, Follow
<1>5. Meaning(i) = Outcome(0, IF Taken(op, i.a, i.b) THEN Word(i.pc + i.imm) ELSE Word(i.pc + 4), i.csr)
  BY <1>1, <1>2, SMT DEF Meaning
<1> QED  BY <1>4, <1>5

\* The instructions of one operation each.
Alone == {"LOAD", "STORE", "JAL", "JALR", "LUI", "AUIPC"}

LEMMA AloneOps ==
  ASSUME NEW op \in Alone
  PROVE  op \notin OpsR \cup OpsI \cup OpsB \cup OpsCsr
BY SMT DEF Alone, OpsR, OpsI, OpsB, OpsCsr

LEMMA RestAlone ==
  ASSUME Inv, imm = fetched.imm, fetched.op # "JALR",
         ExecuteAddress \/ ExecuteJ \/ ExecuteULUI \/ ExecuteUAUPC
  PROVE  outcome' = Meaning(fetched)
<1> DEFINE i == fetched
           op == i.op
<1>1. CASE ExecuteAddress
  <2>1. op \in {"LOAD", "STORE"} /\ op \notin OpsR \cup OpsI \cup OpsB \cup OpsCsr
    BY <1>1, AloneOps DEF Alone, ExecuteAddress
  <2>2. Meaning(i) = Outcome(Word(i.a + i.imm), Word(i.pc + 4), i.csr)
    BY <2>1, SMT DEF Meaning
  <2> QED  BY <1>1, <2>2 DEF ExecuteAddress, Finish, Follow
<1>2. CASE ExecuteJ
  <2>1. op = "JAL" /\ op \notin OpsR \cup OpsI \cup OpsB \cup OpsCsr
    BY <1>2, AloneOps DEF Alone, ExecuteJ
  <2>2. Meaning(i) = Outcome(ToRd(i, Word(i.pc + 4)), Word(i.pc + i.imm), i.csr)
    BY <2>1, SMT DEF Meaning
  <2> QED  BY <1>2, <2>2 DEF ExecuteJ, Finish, Follow, Back, ToRd
<1>3. CASE ExecuteULUI
  <2>1. op = "LUI" /\ op \notin OpsR \cup OpsI \cup OpsB \cup OpsCsr
    BY <1>3, AloneOps DEF Alone, ExecuteULUI
  <2>2. Meaning(i) = Outcome(ToRd(i, i.imm), Word(i.pc + 4), i.csr)
    BY <2>1, SMT DEF Meaning
  <2> QED  BY <1>3, <2>2 DEF ExecuteULUI, Finish, Follow, Back, ToRd
<1>4. CASE ExecuteUAUPC
  <2>1. op = "AUIPC" /\ op \notin OpsR \cup OpsI \cup OpsB \cup OpsCsr
    BY <1>4, AloneOps DEF Alone, ExecuteUAUPC
  <2>2. Meaning(i) = Outcome(ToRd(i, Word(i.pc + i.imm)), Word(i.pc + 4), i.csr)
    BY <2>1, SMT DEF Meaning
  <2> QED  BY <1>4, <2>2 DEF ExecuteUAUPC, Finish, Follow, Back, ToRd
<1> QED  BY <1>1, <1>2, <1>3, <1>4

\* JALR leaves bit 0.
LEMMA RestJALR ==
  ASSUME Inv, imm = fetched.imm, ExecuteIJALR
  PROVE  outcome' = Meaning(fetched) <=> Word(fetched.a + fetched.imm) % 2 = 0
<1> DEFINE i == fetched
           op == i.op
           target == Word(i.a + i.imm)
<1>1. op = "JALR" /\ op \notin OpsR \cup OpsI \cup OpsB \cup OpsCsr
  BY AloneOps DEF Alone, ExecuteIJALR
<1>2. Meaning(i) = Outcome(ToRd(i, Word(i.pc + 4)), 2 * (target \div 2), i.csr)
  BY <1>1, SMT DEF Meaning
<1>3. outcome' = Outcome(ToRd(i, Word(i.pc + 4)), target, i.csr)
  BY DEF ExecuteIJALR, Finish, Follow, Back, ToRd
<1>4. outcome' = Meaning(i) <=> target = 2 * (target \div 2)
  BY <1>2, <1>3, OutcomesEqual
<1>5. target \in Int
  <2>1. i.a \in Int /\ i.imm \in Int
    BY InstructionsAssumption, ModulusInt, SMT DEF Inv, Instr, Words
  <2>2. i.a + i.imm \in Int
    BY <2>1, SMT
  <2> QED  BY <2>2, WordFound
<1> QED  BY <1>4, <1>5, HalfOf

\* The control registers whose bits are set or cleared.
LEMMA RestCsr ==
  ASSUME Inv, CsrSet \/ CsrClear
  PROVE  outcome' = Meaning(fetched)
<1> DEFINE i == fetched
           op == i.op
<1>1. i \in Instr /\ op \in Ops /\ (i.rs1 = 0 => i.a = 0)
  BY InstructionsAssumption DEF Inv, Instr
<1>2. BitAnd(i.csr, Complement(0)) = i.csr /\ BitOr(i.csr, 0) = i.csr
  BY InstructionsAssumption DEF Inv
<1>3. op \in {"CSRRS", "CSRRSI", "CSRRC", "CSRRCI"} /\ op \in OpsCsr
  BY SMT DEF CsrSet, CsrClear, OpsCsr
<1>4. op \notin OpsR \cup OpsI \cup OpsB \cup OpsU \cup {"LOAD", "STORE", "JAL", "JALR"}
  BY <1>1, <1>3, OperationOf
<1>5. op \notin {"LUI", "AUIPC"}
  BY <1>3, SMT
<1>6. Meaning(i) = Outcome(ToRd(i, i.csr), Word(i.pc + 4), Merged(op, i.csr, CsrSource(i)))
  BY <1>3, <1>4, <1>5, Zenon DEF Meaning
<1>7. CsrSource(i) = Mask(i) /\ (i.rs1 = 0 => Mask(i) = 0)
  BY <1>1, <1>3, SMT DEF CsrSource, Mask
<1>8. CASE CsrSet
  <2>1. Merged(op, i.csr, Mask(i)) = BitOr(i.csr, Mask(i))
    BY <1>8, SMT DEF CsrSet, Merged
  <2>2. outcome' = Outcome(ToRd(i, i.csr), Word(i.pc + 4), BitOr(i.csr, Mask(i)))
    BY <1>2, <1>7, <1>8 DEF CsrSet, Finish, Follow, Back, ToRd
  <2> QED  BY <1>6, <1>7, <2>1, <2>2
<1>9. CASE CsrClear
  <2>1. Merged(op, i.csr, Mask(i)) = BitAnd(i.csr, Complement(Mask(i)))
    BY <1>9, SMT DEF CsrClear, Merged
  <2>2. outcome' = Outcome(ToRd(i, i.csr), Word(i.pc + 4), BitAnd(i.csr, Complement(Mask(i))))
    BY <1>2, <1>7, <1>9 DEF CsrClear, Finish, Follow, Back, ToRd
  <2> QED  BY <1>6, <1>7, <2>1, <2>2
<1> QED  BY <1>8, <1>9

\* Every other instruction does what the instruction set says of its immediate,
\* JALR's bit 0 apart: for every program, whatever the registers hold
\* (Instruct*.hpp: execute, memoryAccess, writeBack).
THEOREM RestIsDone == Spec => []RestDone
<1>1. Init => RestDone
  BY DEF Init, RestDone, Executed
<1>2. Inv /\ RestDone /\ [Next]_vars => RestDone'
  <2> SUFFICES ASSUME Inv, RestDone, [Next]_vars
               PROVE  RestDone'
    OBVIOUS
  <2>1. CASE Decode
    BY <2>1 DEF Decode, RestDone, Executed
  <2>2. CASE Execute
    <3>1. fetched' = fetched /\ imm' = imm
      BY <2>2, ExecuteFinishes
    <3> DEFINE Whole == fetched.op = "JALR" => Word(fetched.a + fetched.imm) % 2 = 0
    <3> SUFFICES ASSUME imm = fetched.imm, fetched.op \notin OrderOps \cup ShiftOps \cup {"CSRRW", "CSRRWI"}
                 PROVE  outcome' = Meaning(fetched) <=> Whole
      BY <3>1 DEF RestDone
    <3>2. fetched.op \in Others
      BY InstructionsAssumption DEF Inv, Instr, Others
    <3>3. CASE ExecuteIJALR
      BY <3>3, RestJALR DEF ExecuteIJALR
    <3>4. CASE ~ ExecuteIJALR
      <4>1. ~ CsrSwap
        BY DEF CsrSwap
      <4>2. fetched.op # "JALR"
        BY <2>2, <3>4, <4>1, SMT DEF Execute, ExecuteR, ExecuteIULAI, ExecuteAddress, ExecuteB,
             ExecuteJ, ExecuteULUI, ExecuteUAUPC, CsrSet, CsrClear, OpsR, OpsI, OpsB
      <4>3. outcome' = Meaning(fetched)
        BY <2>2, <3>2, <3>4, <4>1, <4>2, RestR, RestI, RestB, RestAlone, RestCsr DEF Execute
      <4> QED  BY <4>2, <4>3
    <3> QED  BY <3>3, <3>4
  <2>3. CASE UNCHANGED vars
    BY <2>3 DEF vars, RestDone, Executed
  <2> QED  BY <2>1, <2>2, <2>3 DEF Next
<1> QED  BY <1>1, <1>2, PipelineKept, PTL DEF Spec

-----------------------------------------------------------------------------
(* Shifts.                                                                 *)

\* The powers of two a shift by n multiplies and divides by.
LEMMA ShiftPowers ==
  ASSUME NEW n \in 0 .. XLen - 1
  PROVE  /\ 2 ^ n \in Int /\ 2 ^ n > 0
         /\ 2 ^ (XLen - n) \in Int /\ 2 ^ (XLen - n) > 0
         /\ (2 ^ (XLen - n)) * (2 ^ n) = WordMod
         /\ n = 0 => 2 ^ n = 1
         /\ n > 0 => 2 ^ n >= 2
<1> DEFINE m == XLen - n
<1>1. n \in 0 .. 32 /\ m \in 0 .. 32 /\ m + n = XLen /\ m + n <= 32
  BY WordAssumption
<1> HIDE DEF m
<1>2. 2 ^ n \in Int /\ 2 ^ n > 0 /\ 2 ^ m \in Int /\ 2 ^ m > 0
  BY <1>1, PowerNext, Zenon
<1>3. (2 ^ m) * (2 ^ n) = WordMod
  <2>1. 2 ^ (m + n) = (2 ^ m) * (2 ^ n)
    BY <1>1, PowerSum, Zenon
  <2>2. WordMod = 2 ^ XLen /\ XLen = m + n
    BY <1>1, WordAssumption
  <2> QED
    BY <2>1, <2>2, ZenonT(30)
<1>4. ASSUME n > 0
      PROVE  2 ^ n >= 2
  <2> DEFINE k == n - 1
  <2>1. k \in 0 .. 32 /\ n = k + 1
    BY <1>1, <1>4
  <2> HIDE DEF k
  <2>2. 2 ^ k \in Int /\ 2 ^ k > 0 /\ 2 ^ (k + 1) = 2 * (2 ^ k)
    BY <2>1, PowerNext, Zenon
  <2>3. 2 ^ n = 2 * (2 ^ k)
    BY <2>1, <2>2, Zenon
  <2> DEFINE K == 2 ^ k
  <2> HIDE DEF K
  <2>4. 2 * K >= 2
    BY <2>2 DEF K
  <2> QED
    BY <2>3, <2>4 DEF K
<1> QED
  BY <1>2, <1>3, <1>4, PowerZero DEF m

\* A word shifted is a word.
LEMMA ShiftedWords ==
  ASSUME NEW a \in Words, NEW n \in 0 .. XLen - 1
  PROVE  /\ ShiftLeft(a, n) \in Words
         /\ ShiftRight(a, n) \in Words
<1> DEFINE k == 2 ^ n
           l == 2 ^ (XLen - n)
<1>1. k \in Int /\ k > 0 /\ l \in Int /\ l > 0 /\ l * k = WordMod
  BY ShiftPowers
<1>2. ShiftLeft(a, n) = (a % l) * k /\ ShiftRight(a, n) = a \div k
  BY DEF ShiftLeft, ShiftRight
<1> HIDE DEF k, l
<1>3. a \in Int /\ 0 <= a /\ a < WordMod /\ WordMod \in Int
  BY ModulusInt DEF Words
<1>4. (a % l) * k \in Words
  <2> DEFINE r == a % l
  <2>1. r \in Int /\ 0 <= r /\ r < l
    BY <1>1, <1>3, Divided
  <2> HIDE DEF r
  <2>2. r * k \in Int /\ 0 <= r * k /\ r * k <= (l - 1) * k
    BY <1>1, <2>1, SMTT(30)
  <2>3. (l - 1) * k = l * k - k /\ l * k \in Int
    BY <1>1, SMTT(30)
  <2> QED
    BY <1>1, <1>3, <2>2, <2>3 DEF Words, r
<1>5. a \div k \in Words
  <2>1. WordMod <= WordMod * k
    BY <1>1, <1>3, SMTT(30)
  <2>2. a < WordMod * k /\ a \div k \in Int
    <3>1. WordMod * k \in Int
      BY <1>1, <1>3, SMT
    <3>2. a \div k \in Int
      BY <1>1, <1>3, Divided
    <3> QED
      BY <1>1, <1>3, <2>1, <3>1, <3>2
  <2>3. 0 <= a \div k /\ a \div k < WordMod
    BY <1>1, <1>3, <2>2, Quotient, Zenon
  <2> QED
    BY <1>3, <2>2, <2>3 DEF Words
<1> QED
  BY <1>2, <1>4, <1>5

\* The shift that keeps the sign is the other one exactly if there is no sign or
\* nothing is shifted.
LEMMA SignShifted ==
  ASSUME NEW a \in Words, NEW n \in 0 .. XLen - 1
  PROVE  ShiftRight(a, n) = ShiftSigned(a, n) <=> 2 * a < WordMod \/ n = 0
<1> DEFINE k == 2 ^ n
           l == 2 ^ (XLen - n)
           q == a \div k
           r == a % k
<1>1. /\ k \in Int /\ k > 0 /\ l \in Int /\ l > 0 /\ l * k = WordMod
      /\ n = 0 => k = 1
      /\ n > 0 => k >= 2
  BY ShiftPowers
<1>2. ShiftRight(a, n) = q /\ ShiftSigned(a, n) = Word(Signed(a) \div k)
  BY DEF ShiftRight, ShiftSigned
<1>3. q \in Words
  BY <1>2, ShiftedWords
<1> HIDE DEF k, l
<1>4. a \in Int /\ 0 <= a /\ a < WordMod /\ WordMod \in Int
  BY ModulusInt DEF Words
<1>5. q \in Int /\ 0 <= q /\ q < WordMod /\ r \in Int /\ 0 <= r /\ r < k /\ a = k * q + r
  <2>1. q \in Int /\ r \in Int /\ 0 <= r /\ r < k /\ a = k * q + r
    BY <1>1, <1>4, Divided
  <2> HIDE DEF q, r
  <2> QED
    BY <1>3, <1>4, <2>1 DEF Words
<1> HIDE DEF q, r
<1>6. CASE 2 * a < WordMod
  <2>1. Signed(a) = a
    BY <1>4, <1>6 DEF Signed
  <2>2. q = WordMod * 0 + q
    BY <1>4, <1>5
  <2>3. Word(q) = q
    BY <1>5, <2>2, WordIs
  <2> QED
    BY <1>2, <1>6, <2>1, <2>3 DEF q
<1>7. CASE ~(2 * a < WordMod)
  <2> DEFINE p == q - l
             s == a - WordMod
  <2>1. Signed(a) = s
    BY <1>4, <1>7 DEF Signed
  <2>2. p \in Int /\ s \in Int /\ s = k * p + r
    <3>1. k * (q - l) = k * q - l * k
      BY <1>1, <1>5, SMTT(30)
    <3>2. k * q \in Int
      BY <1>1, <1>5
    <3> QED
      BY <1>1, <1>4, <1>5, <3>1, <3>2
  <2> HIDE DEF p, s
  <2>3. s \div k = p
    BY <1>1, <1>5, <2>2, DividedBy, Zenon
  <2>4. q < l /\ l <= WordMod
    <3>1. q < l
      <4> SUFFICES ASSUME q >= l PROVE FALSE
        BY <1>1, <1>5
      <4>1. k * q >= l * k /\ k * q \in Int
        BY <1>1, <1>5, SMTT(30)
      <4> QED
        BY <1>1, <1>4, <1>5, <4>1
    <3>2. l <= l * k
      BY <1>1, SMTT(30)
    <3> QED
      BY <1>1, <3>1, <3>2
  <2> DEFINE w == WordMod + p
  <2>5. w \in Int /\ p = WordMod * (-1) + w /\ 0 <= w /\ w < WordMod
    BY <1>1, <1>4, <1>5, <2>2, <2>4 DEF p
  <2>6. Word(p) = w
    <3> DEFINE one == -1
    <3>1. one \in Int /\ p = WordMod * one + w
      BY <2>5
    <3> HIDE DEF one, w
    <3> QED
      BY <2>2, <2>5, <3>1, WordIs, Zenon
  <2>7. w = q <=> l = WordMod
    BY <1>1, <1>4, <1>5 DEF p
  <2>8. l = WordMod <=> n = 0
    <3>1. CASE n = 0
      <4>1. k = 1 /\ l * 1 = l
        BY <1>1, <3>1
      <4> QED
        BY <1>1, <3>1, <4>1
    <3>2. CASE n > 0
      <4>1. k >= 2
        BY <1>1, <3>2
      <4>2. l * k >= 2 * l
        BY <1>1, <4>1, SMTT(30)
      <4> QED
        BY <1>1, <1>4, <3>2, <4>2
    <3> QED
      BY <3>1, <3>2, WordAssumption
  <2> QED
    BY <1>2, <1>7, <2>1, <2>3, <2>6, <2>7, <2>8
<1> QED
  BY <1>6, <1>7

\* What the object of a shift by an immediate holds, and what is left of it in
\* the two shifts to the right.
LEMMA ShiftHeld ==
  ASSUME Inv, stage = "decoded", fetched.op \in ShiftImmediates
  PROVE  LET n == fetched.imm
         IN /\ n \in 0 .. XLen - 1
            /\ imm = IF fetched.op = "SRAI" THEN 1024 + n ELSE n
            /\ Word(n) = n /\ n % XLen = n /\ (1024 + n) % XLen = n
            /\ Bits(n, 256, 16) = 0 /\ Bits(1024 + n, 256, 16) # 0
<1> DEFINE i == fetched
           n == i.imm
<1>1. i \in Instructions /\ imm = Decoded(i)
  BY DEF Inv
<1>2. i.op \in Ops /\ n \in Int /\ Encodable(i.op, n)
  BY <1>1, InstructionsAssumption DEF Instr
<1>3. n \in 0 .. XLen - 1 /\ XLen \in 1 .. 32
  <2>1. i.op \notin OpsWithI \cup OpsB \cup OpsU \cup {"STORE", "JAL"}
    BY <1>2, FormatOf
  <2>2. 0 <= n /\ n < XLen
    BY <1>2, <2>1 DEF Encodable
  <2> QED
    BY <1>2, <2>2, WordAssumption
<1>4. imm = ImmediateI(TopShift(i.op, n))
  <2>1. i.op \notin OpsWithI \cup OpsB \cup OpsU \cup {"STORE", "JAL"}
    BY <1>2, FormatOf
  <2>2. Decoded(i) = ImmediateI(TopShift(i.op, i.imm))
    BY <2>1 DEF Decoded
  <2> QED
    BY <1>1, <2>2
<1>5. imm = IF i.op = "SRAI" THEN 1024 + n ELSE n
  BY <1>3, <1>4, SMT DEF TopShift, ImmediateI
<1> HIDE DEF n
<1>6. Word(n) = n
  BY <1>3, WordOfShort
<1>7. n % XLen = n
  <2>1. n = XLen * 0 + n /\ 0 \in Int /\ n \in Int /\ 0 <= n /\ n < XLen /\ XLen \in Int /\ XLen > 0
    BY <1>3
  <2> QED
    BY <2>1, DividedBy, Zenon
<1>8. (1024 + n) % XLen = n
  <2> DEFINE c == 1024 \div XLen
             m == 1024 + n
  <2>1. c \in Int /\ 1024 = XLen * c
    BY <1>3, Divided, WordAssumption
  <2> HIDE DEF c
  <2>2. m = XLen * c + n /\ m \in Int /\ n \in Int /\ 0 <= n /\ n < XLen /\ XLen \in Int /\ XLen > 0
    BY <1>3, <2>1
  <2> HIDE DEF m
  <2>3. m % XLen = n
    BY <2>1, <2>2, DividedBy
  <2> QED
    BY <2>3 DEF m
<1>9. Bits(n, 256, 16) = 0 /\ Bits(1024 + n, 256, 16) # 0
  BY <1>3, SMT DEF Bits
<1> QED
  BY <1>3, <1>5, <1>6, <1>7, <1>8, <1>9 DEF n

\* SLL, SRL and SRA.
LEMMA ShiftR ==
  ASSUME Inv, Execute, fetched.op \in {"SLL", "SRL", "SRA"}, fetched.rd # 0
  PROVE  outcome' = Meaning(fetched) <=> ShiftKept(fetched)
<1> DEFINE i == fetched
           op == i.op
           n == i.b % XLen
<1>1. i \in Instr /\ op \in Ops
  BY InstructionsAssumption DEF Inv, Instr
<1>2. op \in OpsR /\ op \notin OpsI \cup OpsB \cup OpsU \cup OpsCsr \cup {"LOAD", "STORE", "JAL", "JALR"}
  BY <1>1, OperationOf DEF OpsR
<1>3. ExecuteR
  BY <1>2 DEF Execute, ExecuteIULAI, ExecuteAddress, ExecuteB, ExecuteJ,
              ExecuteIJALR, ExecuteULUI, ExecuteUAUPC, CsrSwap, CsrSet, CsrClear
<1>4. outcome' = Outcome(ComputedR(op, i.a, i.b), Word(i.pc + 4), i.csr)
  BY <1>3 DEF ExecuteR, Finish, Back, Follow
<1>5. Meaning(i) = Outcome(Computed(op, i.a, i.b), Word(i.pc + 4), i.csr)
  BY <1>2, SMT DEF Meaning, ToRd
<1>6. outcome' = Meaning(i) <=> ComputedR(op, i.a, i.b) = Computed(op, i.a, i.b)
  BY <1>4, <1>5, OutcomesEqual
<1>7. i.a \in Words /\ n \in 0 .. XLen - 1
  <2>1. i.a \in Words /\ i.b \in Int
    BY <1>1, ModulusInt DEF Instr, Words
  <2>2. n \in Int /\ 0 <= n /\ n < XLen
    BY <2>1, Divided, WordAssumption
  <2> QED
    BY <2>1, <2>2, WordAssumption
<1>8. CASE op = "SRA"
  <2>1. ComputedR(op, i.a, i.b) = ShiftRight(i.a, n) /\ Computed(op, i.a, i.b) = ShiftSigned(i.a, n)
    BY <1>8, SMT DEF ComputedR, Computed
  <2>2. ShiftKept(i) <=> 2 * i.a < WordMod \/ n = 0
    BY <1>8, SMT DEF ShiftKept
  <2>3. ShiftRight(i.a, n) = ShiftSigned(i.a, n) <=> 2 * i.a < WordMod \/ n = 0
    BY <1>7, SignShifted
  <2> QED  BY <1>6, <2>1, <2>2, <2>3
<1>9. CASE op \in {"SLL", "SRL"}
  <2>1. ComputedR(op, i.a, i.b) = Computed(op, i.a, i.b)
    BY <1>9, SMT DEF ComputedR, Computed
  <2>2. ShiftKept(i)
    BY <1>9, SMT DEF ShiftKept
  <2> QED  BY <1>6, <2>1, <2>2
<1> QED  BY <1>8, <1>9

\* SLLI, SRLI and SRAI.
LEMMA ShiftI ==
  ASSUME Inv, Execute, fetched.op \in ShiftImmediates, fetched.rd # 0
  PROVE  outcome' = Meaning(fetched) <=> ShiftKept(fetched)
<1> DEFINE i == fetched
           op == i.op
           n == i.imm
<1>1. i \in Instr /\ op \in Ops /\ i.a \in Words
  BY InstructionsAssumption DEF Inv, Instr
<1>2. op \in OpsI /\ op \notin OpsR \cup OpsB \cup OpsU \cup OpsCsr \cup {"LOAD", "STORE", "JAL", "JALR"}
  BY <1>1, OperationOf DEF OpsI, ShiftImmediates
<1>3. ExecuteIULAI
  <2>1. op \notin {"LUI", "AUIPC", "CSRRW", "CSRRWI", "CSRRS", "CSRRSI", "CSRRC", "CSRRCI"}
    BY <1>2, SMT DEF ShiftImmediates
  <2> QED
    BY <1>2, <2>1 DEF Execute, ExecuteR, ExecuteAddress, ExecuteB, ExecuteJ,
              ExecuteIJALR, ExecuteULUI, ExecuteUAUPC, CsrSwap, CsrSet, CsrClear
<1>4. /\ n \in 0 .. XLen - 1
      /\ imm = IF op = "SRAI" THEN 1024 + n ELSE n
      /\ Word(n) = n /\ n % XLen = n /\ (1024 + n) % XLen = n
      /\ Bits(n, 256, 16) = 0 /\ Bits(1024 + n, 256, 16) # 0
  BY ExecuteFinishes, ShiftHeld
<1>5. outcome' = Outcome(ComputedI(op, i.a, imm), Word(i.pc + 4), i.csr)
  BY <1>3 DEF ExecuteIULAI, Finish, Back, Follow
<1>6. Meaning(i) = Outcome(Computed(op, i.a, n), Word(i.pc + 4), i.csr)
  <2>1. Meaning(i) = Outcome(ToRd(i, Computed(op, i.a, Word(n))), Word(i.pc + 4), i.csr)
    <3>1. op \notin {"LUI", "AUIPC"}
      BY <1>2, SMT DEF ShiftImmediates
    <3> QED
      BY <1>2, <3>1, Zenon DEF Meaning
  <2> QED
    BY <1>4, <2>1 DEF ToRd
<1>7. outcome' = Meaning(i) <=> ComputedI(op, i.a, imm) = Computed(op, i.a, n)
  BY <1>5, <1>6, OutcomesEqual
<1> HIDE DEF n
<1>8. CASE op = "SRAI"
  <2>1. Computed(op, i.a, n) = ShiftSigned(i.a, n)
    BY <1>4, <1>8, SMT DEF Computed
  <2>2. ComputedI(op, i.a, imm) = ShiftedRight(i.a, 1024 + n)
    BY <1>4, <1>8, SMT DEF ComputedI
  <2>3. ShiftedRight(i.a, 1024 + n) = ShiftRight(i.a, n)
    BY <1>4 DEF ShiftedRight
  <2>4. ShiftKept(i) <=> 2 * i.a < WordMod \/ n = 0
    BY <1>8, SMT DEF ShiftKept, n
  <2>5. ShiftRight(i.a, n) = ShiftSigned(i.a, n) <=> 2 * i.a < WordMod \/ n = 0
    BY <1>1, <1>4, SignShifted
  <2> QED  BY <1>7, <2>1, <2>2, <2>3, <2>4, <2>5
<1>9. CASE op = "SLLI"
  <2>1. Computed(op, i.a, n) = ShiftLeft(i.a, n) /\ ComputedI(op, i.a, imm) = ShiftLeft(i.a, n)
    BY <1>4, <1>9, SMT DEF Computed, ComputedI
  <2>2. ShiftKept(i)
    BY <1>9, SMT DEF ShiftKept
  <2> QED  BY <1>7, <2>1, <2>2
<1>10. CASE op = "SRLI"
  <2>1. Computed(op, i.a, n) = ShiftRight(i.a, n)
    BY <1>4, <1>10, SMT DEF Computed
  <2>2. ComputedI(op, i.a, imm) = ShiftedRight(i.a, n)
    BY <1>4, <1>10, SMT DEF ComputedI
  <2>3. ShiftedRight(i.a, n) = ShiftRight(i.a, n)
    BY <1>4 DEF ShiftedRight
  <2>4. ShiftKept(i)
    BY <1>10, SMT DEF ShiftKept
  <2> QED  BY <1>7, <2>1, <2>2, <2>3, <2>4
<1> QED  BY <1>8, <1>9, <1>10 DEF ShiftImmediates

\* A shift does what the instruction set says, but for the two that keep the
\* sign, which do so exactly if there is no sign or nothing is shifted: for every
\* program, whatever it shifts (InstructR.hpp:40-43, :60-68,
\* InstructIULAI.hpp:38-41, :59-67).
THEOREM ShiftsAreDone == Spec => []ShiftsDone
<1>1. Init => ShiftsDone
  BY DEF Init, ShiftsDone, Executed
<1>2. Inv /\ ShiftsDone /\ [Next]_vars => ShiftsDone'
  <2> SUFFICES ASSUME Inv, ShiftsDone, [Next]_vars
               PROVE  ShiftsDone'
    OBVIOUS
  <2>1. CASE Decode
    BY <2>1 DEF Decode, ShiftsDone, Executed
  <2>2. CASE Execute
    <3>1. fetched' = fetched
      BY <2>2, ExecuteFinishes
    <3> SUFFICES ASSUME fetched.op \in ShiftOps, fetched.rd # 0
                 PROVE  outcome' = Meaning(fetched) <=> ShiftKept(fetched)
      BY <3>1 DEF ShiftsDone
    <3>2. fetched.op \in {"SLL", "SRL", "SRA"} \/ fetched.op \in ShiftImmediates
      BY DEF ShiftOps, ShiftImmediates
    <3> QED  BY <2>2, <3>2, ShiftR, ShiftI
  <2>3. CASE UNCHANGED vars
    BY <2>3 DEF vars, ShiftsDone, Executed
  <2> QED  BY <2>1, <2>2, <2>3 DEF Next
<1> QED  BY <1>1, <1>2, PipelineKept, PTL DEF Spec

-----------------------------------------------------------------------------
(* Types: how far an immediate can reach, and that results are words.       *)

Within(low, v, high) == v \in Int /\ low <= v /\ v < high

LEMMA FieldType ==
  ASSUME NEW n \in Int, NEW unit \in Int, unit > 0, NEW count \in Int, count > 0
  PROVE  Within(0, Bits(n, unit, count), count)
<1> DEFINE q == n \div unit
<1>1. q \in Int
  BY Divided
<1> HIDE DEF q
<1>2. q % count \in Int /\ 0 <= q % count /\ q % count < count
  BY <1>1, Divided
<1> QED
  BY <1>2 DEF Bits, q, Within

\* The immediates of the formats I and B, named so that a step can speak of
\* them without the bounds.
TwelveI == -2048 .. 2047
TwelveB == -2049 .. 2047

LEMMA TwelveBits ==
  ASSUME NEW v \in Int
  PROVE  /\ -2048 <= v /\ v <= 2047 => v \in TwelveI
         /\ -2049 <= v /\ v <= 2047 => v \in TwelveB
<1>1. ASSUME -2048 <= v, v <= 2047
      PROVE  v \in TwelveI
  BY <1>1, SMT DEF TwelveI
<1>2. ASSUME -2049 <= v, v <= 2047
      PROVE  v \in TwelveB
  BY <1>2, SMT DEF TwelveB
<1> QED
  BY <1>1, <1>2

LEMMA TwelveInt == TwelveI \subseteq Int /\ TwelveB \subseteq Int
BY SMT DEF TwelveI, TwelveB

LEMMA ReachI ==
  ASSUME NEW n \in Int, -2048 <= n, n < 2048
  PROVE  ImmediateI(TopI(n)) \in TwelveI
<1>1. n \in TwelveI
  BY TwelveBits
<1>2. ImmediateI(TopI(n)) = n
  BY FormatI
<1> QED
  BY <1>1, <1>2

LEMMA ReachS ==
  ASSUME NEW n \in Int
  PROVE  Within(0, ImmediateS(HighS(n), LowS(n)), 4096)
<1>1. Within(0, HighS(n), 128) /\ Within(0, LowS(n), 32)
  BY FieldType DEF HighS, LowS
<1> QED
  BY <1>1 DEF ImmediateS, Within

LEMMA ReachB ==
  ASSUME NEW n \in Int
  PROVE  ImmediateB(HighB(n), LowB(n)) \in TwelveB
<1> DEFINE high == HighB(n)
           low == LowB(n)
<1>1. Within(0, high, 128)
  <2>1. Within(0, Bits(n, 4096, 2), 2) /\ Within(0, Bits(n, 32, 64), 64)
    BY FieldType
  <2> QED
    BY <2>1 DEF HighB, Within
<1>2. Within(0, low, 32)
  <2>1. Within(0, Bits(n, 2, 16), 16) /\ Within(0, Bits(n, 2048, 2), 2)
    BY FieldType
  <2> QED
    BY <2>1 DEF LowB, Within
<1> HIDE DEF high, low
<1> DEFINE m == 32 * high + low - 1
<1>3. Within(-1, m, 4095)
  BY <1>1, <1>2 DEF Within
<1>4. ImmediateB(high, low) =
        LET v == IF high >= 64 THEN SignFill(m) ELSE m IN IF v > 0 THEN v + 1 ELSE v
  BY DEF ImmediateB
<1> HIDE DEF m
<1>5. high < 64 => m < 2047
  BY <1>1, <1>2 DEF m, Within
<1>6. high >= 64 => m >= 2047
  BY <1>1, <1>2 DEF m, Within
<1>7. m \in Int /\ -1 <= m /\ m < 4095
  BY <1>3 DEF Within
<1>8. high \in Int
  BY <1>1 DEF Within
<1>9. ImmediateB(high, low) \in TwelveB
  <2>1. CASE high >= 64
    <3>1. SignFill(m) = m - 4096
      BY <1>6, <1>7, <2>1 DEF SignFill
    <3>2. ImmediateB(high, low) = m - 4096
      BY <1>4, <1>7, <2>1, <3>1
    <3>3. m - 4096 \in Int /\ -2049 <= m - 4096 /\ m - 4096 <= 2047
      BY <1>6, <1>7, <2>1
    <3>4. m - 4096 \in TwelveB
      BY <3>3, TwelveBits
    <3> QED
      BY <3>2, <3>4
  <2>2. CASE ~(high >= 64)
    <3>1. ImmediateB(high, low) = IF m > 0 THEN m + 1 ELSE m
      BY <1>4, <2>2
    <3>2. m < 2047
      BY <1>5, <1>8, <2>2
    <3>3. /\ m \in Int /\ -2049 <= m /\ m <= 2047
          /\ m + 1 \in Int /\ -2049 <= m + 1 /\ m + 1 <= 2047
      BY <1>7, <3>2
    <3>4. m \in TwelveB /\ m + 1 \in TwelveB
      BY <3>3, TwelveBits
    <3> QED
      BY <3>1, <3>4
  <2> QED
    BY <2>1, <2>2
<1> QED
  BY <1>9 DEF high, low

LEMMA ReachJ ==
  ASSUME NEW n \in Int
  PROVE  Within(-4096, ImmediateJ(SignJ(n), MiddleJ(n), CarryJ(n), UpperJ(n)), 2 * Mega - 1)
<1> DEFINE sign == SignJ(n)
           middle == MiddleJ(n)
           carry == CarryJ(n)
           upper == UpperJ(n)
<1>1. Within(0, sign, 2) /\ Within(0, middle, 1024) /\ Within(0, carry, 2) /\ Within(0, upper, 256)
  BY FieldType DEF Mega, SignJ, MiddleJ, CarryJ, UpperJ
<1> HIDE DEF sign, middle, carry, upper
<1> DEFINE whole == Mega * (2 * sign + (middle \div 512)) + 4096 * upper + 2048 * carry + 2 * middle
<1>2. Within(0, middle \div 512, 2)
  BY <1>1 DEF Within
<1>3. whole \in Int /\ 0 <= whole
  BY <1>1, <1>2 DEF Mega, Within
<1>4. sign = 0 => whole < 2 * Mega - 1
  BY <1>1, <1>2 DEF Mega, Within
<1>5. ImmediateJ(sign, middle, carry, upper) = IF sign = 1 THEN SignFill(whole) ELSE whole
  BY DEF ImmediateJ
<1> HIDE DEF whole
<1>6. Within(-4096, SignFill(whole), 0)
  BY <1>3, SMT DEF SignFill, Within
<1>7. sign = 0 \/ sign = 1
  BY <1>1 DEF Within
<1>8. Within(-4096, ImmediateJ(sign, middle, carry, upper), 2 * Mega - 1)
  BY <1>3, <1>4, <1>5, <1>6, <1>7 DEF Mega, Within
<1> QED
  BY <1>8 DEF sign, middle, carry, upper

LEMMA DecodedType ==
  ASSUME NEW i \in Instructions
  PROVE  /\ Decoded(i) \in Reach(i.op) /\ Decoded(i) \in Int
         /\ i.op = "LUI" => Decoded(i) \in Words
<1>1. i \in Instr /\ Encodable(i.op, i.imm)
  BY InstructionsAssumption
<1>2. i.op \in Ops /\ i.imm \in Int
  BY <1>1 DEF Instr
<1>3. WordMod \in Int /\ WordMod >= 8192 /\ Mega \in Int /\ Mega > 0
  BY ModulusInt DEF Mega
<1>4. CASE i.op \in ShiftImmediates
  <2>1. i.op \notin OpsWithI \cup OpsB \cup OpsU \cup {"STORE", "JAL"} /\ i.op # "LUI"
    BY <1>2, <1>4, FormatOf DEF OpsU
  <2>2. Decoded(i) = ImmediateI(TopShift(i.op, i.imm))
    BY <1>4, <2>1 DEF Decoded
  <2>3. 0 <= i.imm /\ i.imm < XLen /\ XLen \in Int /\ XLen <= 32
    BY <1>1, <1>4, <2>1, WordAssumption DEF Encodable
  <2>4. Decoded(i) = IF i.op = "SRAI" THEN 1024 + i.imm ELSE i.imm
    BY <1>2, <2>2, <2>3, SMT DEF TopShift, ImmediateI
  <2>5. CASE i.op = "SRAI"
    <3>1. Reach(i.op) = 1024 .. 1024 + XLen - 1
      BY <2>1, <2>5, SMT DEF Reach
    <3> QED
      BY <1>2, <2>1, <2>3, <2>4, <2>5, <3>1
  <2>6. CASE i.op # "SRAI"
    <3>1. i.op \in {"SLLI", "SRLI"}
      BY <1>4, <2>6 DEF ShiftImmediates
    <3>2. Reach(i.op) = 0 .. XLen - 1
      BY <2>1, <2>6, <3>1, SMT DEF Reach
    <3> QED
      BY <1>2, <2>1, <2>3, <2>4, <2>6, <3>2
  <2> QED
    BY <2>5, <2>6
<1>5. CASE i.op \in OpsWithI
  <2>1. i.op \notin ShiftImmediates \cup OpsB \cup OpsU \cup {"STORE", "JAL"} /\ i.op # "LUI"
    BY <1>2, <1>5, FormatOf DEF OpsU
  <2>2. Decoded(i) = ImmediateI(TopI(i.imm))
    BY <1>5, <2>1 DEF Decoded
  <2>3. -2048 <= i.imm /\ i.imm < 2048
    BY <1>1, <1>5, <2>1 DEF Encodable
  <2>4. ImmediateI(TopI(i.imm)) \in TwelveI
    BY <1>2, <2>3, ReachI
  <2>5. Decoded(i) \in TwelveI /\ Decoded(i) \in Int
    BY <2>2, <2>4, TwelveInt, Zenon
  <2>6. Reach(i.op) = TwelveI
    BY <1>5, <2>1, SMT DEF Reach, ShiftImmediates, TwelveI
  <2> QED
    BY <2>1, <2>5, <2>6, Zenon
<1>6. CASE i.op = "STORE"
  <2>1. i.op \notin ShiftImmediates \cup OpsWithI \cup OpsB \cup OpsU
    BY <1>2, <1>6, FormatOf
  <2>2. Decoded(i) = ImmediateS(HighS(i.imm), LowS(i.imm))
    BY <1>6, <2>1 DEF Decoded
  <2>3. Within(0, Decoded(i), 4096)
    BY <1>2, <2>2, ReachS
  <2>4. Decoded(i) \in Int /\ 0 <= Decoded(i) /\ Decoded(i) <= 4095
    BY <2>3, SMT DEF Within
  <2>5. Decoded(i) \in Reach(i.op)
    BY <1>6, <2>1, <2>4, SMT DEF Reach, ShiftImmediates
  <2> QED
    BY <1>6, <2>4, <2>5
<1>7. CASE i.op \in OpsB
  <2>1. i.op \notin ShiftImmediates \cup OpsWithI \cup OpsU \cup {"STORE", "JAL"} /\ i.op # "LUI"
    BY <1>2, <1>7, FormatOf DEF OpsU
  <2>2. Decoded(i) = ImmediateB(HighB(i.imm), LowB(i.imm))
    BY <1>7, <2>1 DEF Decoded
  <2>3. ImmediateB(HighB(i.imm), LowB(i.imm)) \in TwelveB
    BY <1>2, ReachB
  <2>4. Decoded(i) \in TwelveB /\ Decoded(i) \in Int
    BY <2>2, <2>3, TwelveInt, Zenon
  <2>5. Reach(i.op) = TwelveB
    BY <1>7, <2>1, SMT DEF Reach, ShiftImmediates, TwelveB
  <2> QED
    BY <2>1, <2>4, <2>5, Zenon
<1>8. CASE i.op = "JAL"
  <2>1. i.op \notin ShiftImmediates \cup OpsWithI \cup OpsB \cup OpsU
    BY <1>2, <1>8, FormatOf
  <2>2. Decoded(i) = ImmediateJ(SignJ(i.imm), MiddleJ(i.imm), CarryJ(i.imm), UpperJ(i.imm))
    BY <1>8, <2>1 DEF Decoded
  <2>3. Within(-4096, Decoded(i), 2 * Mega - 1)
    BY <1>2, <2>2, ReachJ
  <2>4. Decoded(i) \in Int /\ -4096 <= Decoded(i) /\ Decoded(i) <= 2 * Mega - 2
    BY <1>3, <2>3, SMT DEF Within
  <2>5. Decoded(i) \in Reach(i.op)
    BY <1>3, <1>8, <2>1, <2>4, SMT DEF Reach, ShiftImmediates
  <2> QED
    BY <1>8, <2>4, <2>5
<1>9. CASE i.op \in OpsU
  <2>1. i.op \notin ShiftImmediates \cup OpsWithI \cup OpsB \cup {"STORE", "JAL"}
    BY <1>2, <1>9, FormatOf
  <2>2. 0 <= i.imm /\ i.imm < WordMod
    BY <1>1, <1>9, <2>1 DEF Encodable
  <2>3. Decoded(i) = i.imm
    <3>1. OffsetKept(i)
      BY <1>2, <1>9, <2>1, FormatOf DEF OffsetKept
    <3> QED
      BY <3>1, DecodedRight
  <2>4. Reach(i.op) = Words
    BY <1>9, <2>1, SMT DEF Reach, ShiftImmediates
  <2> QED
    BY <1>2, <1>3, <2>2, <2>3, <2>4 DEF Words
<1>10. CASE i.op \in OpsR \cup OpsCsr
  <2>1. Decoded(i) = 0 /\ i.op # "LUI"
    BY <1>10, SMT DEF Decoded, OpsWithI, ShiftImmediates, OpsI, OpsB, OpsU, OpsR, OpsCsr
  <2>2. Reach(i.op) = {0}
    BY <1>10, SMT DEF Reach, OpsWithI, OpsI, ShiftImmediates, OpsB, OpsU, OpsR, OpsCsr
  <2> QED
    BY <2>1, <2>2
<1> QED
  BY <1>2, <1>4, <1>5, <1>6, <1>7, <1>8, <1>9, <1>10, SMT DEF Ops, OpsWithI, OpsI, ShiftImmediates

LEMMA WordType == \A n \in Int : Word(n) \in Words
<1> SUFFICES ASSUME NEW n \in Int PROVE Word(n) \in Words
  OBVIOUS
<1>1. Word(n) \in Int /\ 0 <= Word(n) /\ Word(n) < WordMod
  BY WordFound
<1> QED
  BY <1>1, ModulusInt DEF Words

LEMMA SmallWords == {0, 1} \cup (0 .. 31) \subseteq Words /\ Words \subseteq Int
BY ModulusInt DEF Words

LEMMA TruthType == \A p : Truth(p) \in Words
BY SmallWords DEF Truth

\* What an instruction finds.
LEMMA FoundTypes ==
  ASSUME NEW i \in Instructions
  PROVE  /\ i \in Instr /\ i.op \in Ops /\ i.rs1 \in Words
         /\ i.a \in Words /\ i.b \in Words /\ i.d \in Words /\ i.csr \in Words /\ i.pc \in Words
BY InstructionsAssumption, SmallWords DEF Instr

LEMMA ComputedRType ==
  ASSUME NEW i \in Instructions, i.op \in OpsR
  PROVE  ComputedR(i.op, i.a, i.b) \in Words
<1> DEFINE op == i.op
<1>1. i.a \in Words /\ i.b \in Words /\ i.a \in Int /\ i.b \in Int
  BY FoundTypes, SmallWords
<1>2. {BitAnd(i.a, i.b), BitOr(i.a, i.b), BitXor(i.a, i.b)} \subseteq Words
  BY InstructionsAssumption
<1>3. i.b % XLen \in 0 .. XLen - 1
  <2>1. i.b % XLen \in Int /\ 0 <= i.b % XLen /\ i.b % XLen < XLen
    BY <1>1, Divided, WordAssumption
  <2> QED
    BY <2>1, WordAssumption
<1>4. ShiftLeft(i.a, i.b % XLen) \in Words /\ ShiftRight(i.a, i.b % XLen) \in Words
  BY <1>1, <1>3, ShiftedWords
<1>5. Word(i.a + i.b) \in Words /\ Word(i.a - i.b) \in Words
  BY <1>1, WordType
<1>6. CASE op = "ADD"
  BY <1>5, <1>6, SMT DEF ComputedR
<1>7. CASE op = "SUB"
  BY <1>5, <1>7, SMT DEF ComputedR
<1>8. CASE op = "SLL"
  BY <1>4, <1>8, SMT DEF ComputedR
<1>9. CASE op \in {"SRL", "SRA"}
  BY <1>4, <1>9, SMT DEF ComputedR
<1>10. CASE op \in {"SLT", "SLTU"}
  BY <1>10, TruthType, SMT DEF ComputedR
<1>11. CASE op \in {"XOR", "OR", "AND"}
  BY <1>2, <1>11, SMT DEF ComputedR
<1> QED
  BY <1>6, <1>7, <1>8, <1>9, <1>10, <1>11 DEF OpsR

LEMMA ComputedIType ==
  ASSUME Inv, stage = "decoded", fetched.op \in OpsI
  PROVE  ComputedI(fetched.op, fetched.a, imm) \in Words
<1> DEFINE i == fetched
           op == i.op
<1>1. i \in Instructions /\ imm = Decoded(i)
  BY DEF Inv
<1>2. i.a \in Words /\ i.a \in Int /\ op \in Ops /\ imm \in Int
  <2>1. imm \in Int
    BY <1>1, DecodedType
  <2> QED
    BY <1>1, <2>1, FoundTypes, SmallWords
<1>3. CASE op \in ShiftImmediates
  <2> DEFINE n == i.imm
  <2>1. /\ n \in 0 .. XLen - 1
        /\ imm = IF op = "SRAI" THEN 1024 + n ELSE n
        /\ (1024 + n) % XLen = n
        /\ Bits(n, 256, 16) = 0 /\ Bits(1024 + n, 256, 16) # 0
    BY <1>3, ShiftHeld
  <2> HIDE DEF n
  <2>2. ShiftLeft(i.a, n) \in Words /\ ShiftRight(i.a, n) \in Words
    BY <1>2, <2>1, ShiftedWords
  <2>3. CASE op = "SLLI"
    <3>1. ComputedI(op, i.a, imm) = ShiftLeft(i.a, n)
      BY <2>1, <2>3, SMT DEF ComputedI
    <3> QED
      BY <2>2, <3>1
  <2>4. CASE op \in {"SRLI", "SRAI"}
    <3>1. ComputedI(op, i.a, imm) = ShiftedRight(i.a, imm)
      BY <2>4, SMT DEF ComputedI
    <3>2. ShiftedRight(i.a, imm) = ShiftRight(i.a, n)
      BY <2>1, <2>4 DEF ShiftedRight
    <3> QED
      BY <2>2, <3>1, <3>2
  <2> QED
    BY <1>3, <2>3, <2>4 DEF ShiftImmediates
<1>4. CASE op \in {"SLTI", "SLTIU"}
  BY <1>4, TruthType, SMT DEF ComputedI
<1>5. CASE op = "ADDI"
  <2>1. Word(i.a + Word(imm)) \in Words
    <3>1. Word(imm) \in Int
      BY <1>2, WordType, SmallWords
    <3>2. i.a + Word(imm) \in Int
      BY <1>2, <3>1
    <3> QED
      BY <3>2, WordType
  <2>2. ComputedI(op, i.a, imm) = Word(i.a + Word(imm))
    BY <1>5, SMT DEF ComputedI
  <2> QED
    BY <2>1, <2>2
<1>6. CASE op \in {"XORI", "ORI", "ANDI"}
  <2>1. imm = i.imm
    <3>1. OffsetKept(i)
      BY <1>6, SMT DEF OffsetKept, OpsB
    <3> QED
      BY <1>1, <3>1, DecodedRight
  <2>2. {BitAnd(i.a, Word(imm)), BitOr(i.a, Word(imm)), BitXor(i.a, Word(imm))} \subseteq Words
    BY <1>1, <2>1, InstructionsAssumption
  <2>3. ComputedI(op, i.a, imm) \in {BitAnd(i.a, Word(imm)), BitOr(i.a, Word(imm)), BitXor(i.a, Word(imm))}
    BY <1>6, SMT DEF ComputedI
  <2> QED
    BY <2>2, <2>3
<1> QED
  BY <1>3, <1>4, <1>5, <1>6 DEF OpsI, ShiftImmediates

\* Whatever is executed, the results are words.
LEMMA FinishType ==
  ASSUME NEW v \in Words, NEW n \in Words, NEW c \in Words, Finish(v, n, c)
  PROVE  outcome' \in [value : Words, next : Words, csr : Words]
BY DEF Finish, Outcome

LEMMA OutcomeType ==
  ASSUME Inv, Execute
  PROVE  outcome' \in [value : Words, next : Words, csr : Words]
<1> DEFINE i == fetched
<1>1. /\ i \in Instructions /\ imm = Decoded(i) /\ imm \in Int
      /\ i.op = "LUI" => imm \in Words
  <2>1. i \in Instructions /\ imm = Decoded(i)
    BY ExecuteFinishes DEF Inv
  <2> QED
    BY <2>1, DecodedType
<1>2. /\ i.a \in Words /\ i.b \in Words /\ i.d \in Words /\ i.csr \in Words /\ i.rs1 \in Words
      /\ i.a \in Int /\ i.pc \in Int
  BY <1>1, FoundTypes, SmallWords
<1>3. ASSUME NEW v \in Words
      PROVE  Back(v) \in Words
  BY SmallWords DEF Back
<1>4. 0 \in Words /\ Follow \in Words /\ Word(i.pc + imm) \in Words /\ Word(i.a + imm) \in Words
  BY <1>1, <1>2, SmallWords, WordType DEF Follow
<1>5. CASE ExecuteR
  BY <1>1, <1>2, <1>3, <1>4, <1>5, ComputedRType, FinishType DEF ExecuteR
<1>6. CASE ExecuteIULAI
  <2>1. stage = "decoded" /\ i.op \in OpsI
    BY <1>6 DEF ExecuteIULAI, Finish
  <2> QED
    BY <1>2, <1>3, <1>4, <1>6, <2>1, ComputedIType, FinishType DEF ExecuteIULAI
<1>7. CASE ExecuteAddress
  BY <1>2, <1>4, <1>7, FinishType DEF ExecuteAddress
<1>8. CASE ExecuteB
  BY <1>2, <1>4, <1>8, FinishType DEF ExecuteB
<1>9. CASE ExecuteJ
  BY <1>2, <1>3, <1>4, <1>9, FinishType DEF ExecuteJ
<1>10. CASE ExecuteIJALR
  BY <1>2, <1>3, <1>4, <1>10, FinishType DEF ExecuteIJALR
<1>11. CASE ExecuteULUI
  BY <1>1, <1>2, <1>3, <1>4, <1>11, FinishType DEF ExecuteULUI
<1>12. CASE ExecuteUAUPC
  BY <1>2, <1>3, <1>4, <1>12, FinishType DEF ExecuteUAUPC
<1>13. CASE CsrSwap
  <2>1. SwapRead(i.csr, i.d) \in Words
    BY <1>2, <1>4 DEF SwapRead
  <2>2. (IF i.op = "CSRRW" THEN i.a ELSE i.rs1) \in Words
    BY <1>2
  <2> QED
    BY <1>3, <1>4, <1>13, <2>1, <2>2, FinishType DEF CsrSwap
<1>14. CASE CsrSet \/ CsrClear
  <2>1. Mask(i) \in {i.a, i.rs1}
    BY DEF Mask
  <2>2. BitOr(i.csr, Mask(i)) \in Words /\ BitAnd(i.csr, Complement(Mask(i))) \in Words
    BY <1>1, <2>1, InstructionsAssumption
  <2>3. /\ (IF i.rs1 # 0 THEN BitOr(i.csr, Mask(i)) ELSE i.csr) \in Words
        /\ (IF i.rs1 # 0 THEN BitAnd(i.csr, Complement(Mask(i))) ELSE i.csr) \in Words
    BY <1>2, <2>2
  <2> QED
    BY <1>2, <1>3, <1>4, <1>14, <2>3, FinishType DEF CsrSet, CsrClear
<1> QED
  BY <1>5, <1>6, <1>7, <1>8, <1>9, <1>10, <1>11, <1>12, <1>13, <1>14 DEF Execute

\* Whatever an instruction was written with, the constructor's arithmetic keeps
\* the immediate of each format within the reach Reach names for that format, and
\* no object of an instruction that has none holds one; whatever the operands,
\* registers, control registers and the program counter get words
\* (Instruct*.hpp, the constructors and execute).
THEOREM Typed == Spec => []TypeOK
<1>1. Init => TypeOK
  <2> SUFFICES ASSUME Init PROVE TypeOK
    OBVIOUS
  <2>1. fetched \in Instr
    BY FoundTypes DEF Init
  <2>2. imm \in IF stage = "fetched" THEN {0} ELSE Reach(fetched.op)
    BY DEF Init
  <2>3. outcome \in [value : Words, next : Words, csr : Words]
    BY SmallWords DEF Init, Nothing, Outcome
  <2> QED
    BY <2>1, <2>2, <2>3 DEF Init, TypeOK
<1>2. Inv /\ TypeOK /\ [Next]_vars => TypeOK'
  <2> SUFFICES ASSUME Inv, TypeOK, [Next]_vars PROVE TypeOK'
    OBVIOUS
  <2>1. CASE Decode
    <3>1. fetched \in Instructions /\ imm' = Decoded(fetched)
      BY <2>1 DEF Decode, Inv
    <3>2. imm' \in Reach(fetched.op)
      BY <3>1, DecodedType
    <3>3. stage' = "decoded" /\ UNCHANGED <<fetched, outcome>>
      BY <2>1 DEF Decode
    <3> QED
      BY <3>2, <3>3 DEF TypeOK
  <2>2. CASE Execute
    <3>1. stage = "decoded" /\ stage' = "executed" /\ UNCHANGED <<fetched, imm>>
      BY <2>2, ExecuteFinishes
    <3>2. outcome' \in [value : Words, next : Words, csr : Words]
      BY <2>2, OutcomeType
    <3> QED
      BY <3>1, <3>2 DEF TypeOK
  <2>3. CASE UNCHANGED vars
    BY <2>3 DEF vars, TypeOK
  <2> QED
    BY <2>1, <2>2, <2>3 DEF Next
<1> QED
  BY <1>1, <1>2, PipelineKept, PTL DEF Spec
=============================================================================
