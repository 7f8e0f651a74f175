------------------------------ MODULE Instruct ------------------------------
(***************************************************************************)
(* The instructions that compute, as the classes derived from Instruct     *)
(* decode and execute them: register arithmetic, branches, jumps, the      *)
(* addresses of loads and stores, and the control register instructions.   *)
(* One pass through the pipeline: Decode is the constructor, Execute is    *)
(* execute, memoryAccess and writeBack together.  Rv32i gives the fields   *)
(* of an instruction as an assembler encodes it.                           *)
(*                                                                         *)
(* Hart.tla models what loads and stores do at their address, Controller   *)
(* the instruction that follows and the access to the control registers.   *)
(***************************************************************************)
EXTENDS Rv32i

CONSTANT Instructions    \* the instructions a program may contain

ASSUME InstructionsAssumption ==
  /\ Instructions \subseteq Instr
  /\ \A i \in Instructions : /\ Encodable(i.op, i.imm)
                             /\ i.rs1 = 0 => i.a = 0
                             /\ i.rd = 0 => i.d = 0
  \* The bitwise operators give words, for the operands there are.
  /\ \A i \in Instructions :
       /\ \A v \in {i.b, Word(i.imm)} :
            {BitAnd(i.a, v), BitOr(i.a, v), BitXor(i.a, v)} \subseteq Words
       /\ \A v \in {i.a, i.rs1} :
            {BitAnd(i.csr, Complement(v)), BitOr(i.csr, v)} \subseteq Words
       /\ BitAnd(i.csr, Complement(0)) = i.csr /\ BitOr(i.csr, 0) = i.csr

VARIABLES
  stage,      \* what has been done with the instruction
  fetched,    \* the instruction, with the values it finds
  imm,        \* Instruct*::imm: the immediate its object holds
  outcome     \* what it did

vars == <<stage, fetched, imm, outcome>>

Nothing == Outcome(0, 0, 0)

Init ==
  /\ stage = "fetched"
  /\ fetched \in Instructions
  /\ imm = 0
  /\ outcome = Nothing

-----------------------------------------------------------------------------
(* The constructors.  i & 0x80000000 is the top bit of the highest field.  *)

\* imm |= 0xFFFFF000, where imm is an int32_t.
SignFill(n) == (n % 4096) - 4096

ImmediateI(top) == IF top >= 2048 THEN SignFill(top) ELSE top

\* The top bit is not looked at.
ImmediateS(high, low) == 32 * high + low

\* Mutated form: the one is not put back.
ImmediateBLess(high, low) ==
  LET n == 32 * high + low - 1
  IN IF high >= 64 THEN SignFill(n) ELSE n

\* One is taken away, which turns the last bit, bit 11 of a negative offset,
\* into a carry, and put back if the result is positive.
ImmediateB(high, low) ==
  LET n == 32 * high + low - 1
      m == IF high >= 64 THEN SignFill(n) ELSE n
  IN IF m > 0 THEN m + 1 ELSE m

\* Mutated form: the sign is not extended.
ImmediateJUnfilled(sign, middle, carry, upper) ==
  Mega * (2 * sign + (middle \div 512)) + 4096 * upper + 2048 * carry + 2 * middle

\* i >> 30 is two bits: the sign and the first of "middle".
ImmediateJ(sign, middle, carry, upper) ==
  LET n == Mega * (2 * sign + (middle \div 512)) + 4096 * upper + 2048 * carry + 2 * middle
  IN IF sign = 1 THEN SignFill(n) ELSE n

\* What the object holds.  The objects of LUI and AUIPC have the field in its
\* place, those of the others have none.
Decoded(i) ==
  CASE i.op \in ShiftImmediates -> ImmediateI(TopShift(i.op, i.imm))
    [] i.op \in OpsWithI -> ImmediateI(TopI(i.imm))
    [] i.op = "STORE"  -> ImmediateS(HighS(i.imm), LowS(i.imm))
    [] i.op \in OpsB   -> ImmediateB(HighB(i.imm), LowB(i.imm))
    [] i.op = "JAL"    -> ImmediateJ(SignJ(i.imm), MiddleJ(i.imm), CarryJ(i.imm), UpperJ(i.imm))
    [] i.op \in OpsU   -> 4096 * Bits(i.imm, 4096, Mega)
    [] OTHER           -> 0

Decode ==
  /\ stage = "fetched"
  /\ stage' = "decoded"
  /\ imm' = Decoded(fetched)
  /\ UNCHANGED <<fetched, outcome>>

-----------------------------------------------------------------------------
(* execute.  The operands are uint32_t: an immediate becomes one, and every *)
(* comparison and every shift to the right is unsigned.                     *)

\* InstructR.
ComputedR(op, a, b) ==
  CASE op = "ADD"            -> Word(a + b)
    [] op = "SUB"            -> Word(a - b)
    [] op = "SLL"            -> ShiftLeft(a, b % XLen)
    [] op \in {"SLT", "SLTU"} -> Truth(a < b)
    [] op = "XOR"            -> BitXor(a, b)
    [] op \in {"SRL", "SRA"} -> ShiftRight(a, b % XLen)
    [] op = "OR"             -> BitOr(a, b)
    [] op = "AND"            -> BitAnd(a, b)

\* Mutated form: the bit that tells SRAI is shifted by as well.
ShiftedRightWhole(a, n) == ShiftRight(a, IF n >= XLen THEN XLen ELSE n)

\* SRLI, or SRAI when one of the bits 0xf00 is set.
ShiftedRight(a, n) == IF Bits(n, 256, 16) = 0 THEN ShiftRight(a, n) ELSE ShiftRight(a, n % XLen)

\* InstructIULAI.  SLTIU keeps twelve bits of its immediate.
ComputedI(op, a, n) ==
  CASE op = "ADDI"              -> Word(a + Word(n))
    [] op = "SLLI"              -> ShiftLeft(a, n)
    [] op = "SLTI"              -> Truth(a < Word(n))
    [] op = "SLTIU"             -> Truth(a < n % 4096)
    [] op = "XORI"              -> BitXor(a, Word(n))
    [] op \in {"SRLI", "SRAI"}  -> ShiftedRight(a, n)
    [] op = "ORI"               -> BitOr(a, Word(n))
    [] op = "ANDI"              -> BitAnd(a, Word(n))

\* Mutated form: equal words count as less.
BranchesOrEqual(op, a, b) ==
  CASE op = "BEQ"               -> a = b
    [] op = "BNE"               -> a # b
    [] op \in {"BLT", "BLTU"}   -> a <= b
    [] op \in {"BGE", "BGEU"}   -> a >= b

\* InstructB.
Branches(op, a, b) ==
  CASE op = "BEQ"               -> a = b
    [] op = "BNE"               -> a # b
    [] op \in {"BLT", "BLTU"}   -> a < b
    [] op \in {"BGE", "BGEU"}   -> a >= b

\* writeBack: x0 gets zero.
Back(v) == IF fetched.rd = 0 THEN 0 ELSE v

Follow == Word(fetched.pc + 4)

Finish(value, next, csr) ==
  /\ stage = "decoded"
  /\ stage' = "executed"
  /\ outcome' = Outcome(value, next, csr)
  /\ UNCHANGED <<fetched, imm>>

ExecuteR ==
  /\ fetched.op \in OpsR
  /\ Finish(Back(ComputedR(fetched.op, fetched.a, fetched.b)), Follow, fetched.csr)

ExecuteIULAI ==
  /\ fetched.op \in OpsI
  /\ Finish(Back(ComputedI(fetched.op, fetched.a, imm)), Follow, fetched.csr)

\* The address of a load or a store.
ExecuteAddress ==
  /\ fetched.op \in {"LOAD", "STORE"}
  /\ Finish(Word(fetched.a + imm), Follow, fetched.csr)

ExecuteB ==
  /\ fetched.op \in OpsB
  /\ \/ /\ Branches(fetched.op, fetched.a, fetched.b)
        /\ Finish(0, Word(fetched.pc + imm), fetched.csr)
     \/ /\ ~Branches(fetched.op, fetched.a, fetched.b)
        /\ Finish(0, Follow, fetched.csr)

ExecuteJ ==
  /\ fetched.op = "JAL"
  /\ Finish(Back(Follow), Word(fetched.pc + imm), fetched.csr)

\* Bit 0 of the target stays.
ExecuteIJALR ==
  /\ fetched.op = "JALR"
  /\ Finish(Back(Follow), Word(fetched.a + imm), fetched.csr)

ExecuteULUI ==
  /\ fetched.op = "LUI"
  /\ Finish(Back(imm), Follow, fetched.csr)

ExecuteUAUPC ==
  /\ fetched.op = "AUIPC"
  /\ Finish(Back(Word(fetched.pc + imm)), Follow, fetched.csr)

-----------------------------------------------------------------------------
(* InstructCSR::memoryAccess.                                              *)

\* Mutated form: the register is always read.
SwapReadAlways(old, d) == old

\* The register is read only if the value found in rd is not zero.
SwapRead(old, d) == IF d # 0 THEN old ELSE 0

CsrSwap ==
  /\ fetched.op \in {"CSRRW", "CSRRWI"}
  /\ Finish(Back(SwapRead(fetched.csr, fetched.d)), Follow,
            IF fetched.op = "CSRRW" THEN fetched.a ELSE fetched.rs1)

\* Mutated form: the immediate forms use the value of the register too.
MaskRegister(i) == i.a

\* rs1 is the register's number; the immediate forms use it as the mask.
Mask(i) == IF i.op \in {"CSRRSI", "CSRRCI"} THEN i.rs1 ELSE i.a

CsrSet ==
  /\ fetched.op \in {"CSRRS", "CSRRSI"}
  /\ Finish(Back(fetched.csr), Follow,
            IF fetched.rs1 # 0 THEN BitOr(fetched.csr, Mask(fetched)) ELSE fetched.csr)

CsrClear ==
  /\ fetched.op \in {"CSRRC", "CSRRCI"}
  /\ Finish(Back(fetched.csr), Follow,
            IF fetched.rs1 # 0 THEN BitAnd(fetched.csr, Complement(Mask(fetched)))
            ELSE fetched.csr)

Execute ==
  \/ ExecuteR \/ ExecuteIULAI \/ ExecuteAddress
  \/ ExecuteB \/ ExecuteJ \/ ExecuteIJALR \/ ExecuteULUI \/ ExecuteUAUPC
  \/ CsrSwap \/ CsrSet \/ CsrClear

Next == Decode \/ Execute

Spec == Init /\ [][Next]_vars

-----------------------------------------------------------------------------
(* Properties.                                                             *)

\* How far the immediate an object holds can reach, format by format: a shift by
\* less than a word, with the bit that tells SRAI; the twelve bits of the formats
\* I, extended, and of S, not extended; of B, twelve bits less the one that is
\* taken away; of J, twelve bits backward, and forward one bit more than a jump
\* has; the words LUI and AUIPC become, int32_t in the code.
Reach(op) ==
  CASE op = "SRAI"           -> 1024 .. 1024 + XLen - 1
    [] op \in {"SLLI", "SRLI"} -> 0 .. XLen - 1
    [] op \in OpsWithI       -> -2048 .. 2047
    [] op = "STORE"          -> 0 .. 4095
    [] op \in OpsB           -> -2049 .. 2047
    [] op = "JAL"            -> -4096 .. 2 * Mega - 2
    [] op \in OpsU           -> Words
    [] OTHER                 -> {0}

\* An object holds no immediate before it is decoded and one within the reach of
\* its format from then on; results are words.
TypeOK ==
  /\ stage \in {"fetched", "decoded", "executed"}
  /\ fetched \in Instr
  /\ imm \in IF stage = "fetched" THEN {0} ELSE Reach(fetched.op)
  /\ outcome \in [value : Words, next : Words, csr : Words]

Executed == stage = "executed"

\* The offsets that come out of the constructors as they were written: all but
\* negative ones of stores, those of branches beyond 2048 bytes either way and
\* zero, and of jumps those below -4096 and those that have bit 10 set forward.
OffsetKept(i) ==
  CASE i.op = "STORE"   -> i.imm >= 0
    [] i.op \in OpsB    -> -2048 <= i.imm /\ i.imm < 2048 /\ i.imm # 0
    [] i.op = "JAL"     -> IF i.imm < 0 THEN i.imm >= -4096 ELSE Bits(i.imm, 1024, 2) = 0
    [] i.op = "SRAI"    -> FALSE
    [] OTHER            -> TRUE

\* The immediate an object holds is the one its instruction was written with
\* exactly for the offsets above.
OffsetsDecoded ==
  stage # "fetched" => (imm = fetched.imm <=> OffsetKept(fetched))

\* The comparisons: the program is told which of two words is the less as the
\* instruction set has it, exactly if they have the same sign where signs
\* count; for SLTIU, if its immediate is not negative, or either word decides.
OrderKept(i) ==
  CASE i.op \in {"SLT", "BLT", "BGE"} -> SameSign(i.a, i.b)
    [] i.op = "SLTI"  -> SameSign(i.a, Word(i.imm))
    [] i.op = "SLTIU" -> i.imm >= 0 \/ i.a < i.imm + 4096 \/ i.a >= WordMod + i.imm
    [] OTHER          -> TRUE

OrderOps == {"SLT", "SLTU", "SLTI", "SLTIU", "BLT", "BGE", "BLTU", "BGEU"}
Ordered(i) == i.op \in OrderOps
\* Where the difference could be seen: a result that is kept, or a branch whose
\* target is not the next instruction.
Seen(i) == IF i.op \in OpsB THEN Word(imm) # 4 /\ imm = i.imm ELSE i.rd # 0

ComparisonsDecided ==
  Executed /\ Ordered(fetched) /\ Seen(fetched) =>
    (outcome = Meaning(fetched) <=> OrderKept(fetched))

\* Shifts to the right that keep the sign do not: SRA and SRAI are what they
\* should be exactly when there is no sign, or nothing is shifted.
ShiftOps == {"SLL", "SLLI", "SRL", "SRLI", "SRA", "SRAI"}
ShiftKept(i) ==
  CASE i.op = "SRA"  -> 2 * i.a < WordMod \/ i.b % XLen = 0
    [] i.op = "SRAI" -> 2 * i.a < WordMod \/ i.imm = 0
    [] OTHER         -> TRUE

ShiftsDone ==
  Executed /\ fetched.op \in ShiftOps /\ fetched.rd # 0 =>
    (outcome = Meaning(fetched) <=> ShiftKept(fetched))

\* A control register that is swapped gets the register, or the immediate.  What
\* it held is returned exactly if rd is x0, or held something else than zero
\* before, or there is nothing to tell apart: the code goes by the value found in
\* rd, where docs/doc.md:43-44, "rs1 -------------------> CSR ---------------> rd
\* (retorno valor)" and "rd(0) (Sem leitura ,retorna 0)", goes by which register
\* rd is.  With rd another register that holds zero the two disagree.
SwapsRead ==
  Executed /\ fetched.op \in {"CSRRW", "CSRRWI"} =>
    /\ outcome.csr = Meaning(fetched).csr
    /\ outcome.value = Meaning(fetched).value <=>
         fetched.rd = 0 \/ fetched.d # 0 \/ fetched.csr = 0

\* Every other instruction does what the instruction set says, given its
\* immediate; but JALR leaves bit 0 of its target.
RestDone ==
  Executed /\ imm = fetched.imm
    /\ fetched.op \notin OrderOps \cup ShiftOps \cup {"CSRRW", "CSRRWI"} =>
    (outcome = Meaning(fetched) <=>
       (fetched.op = "JALR" => Word(fetched.a + fetched.imm) % 2 = 0))

\* README.md:2, "Simulador simples de riscv conjunto rv32i": the immediate an
\* instruction was written with is the one it runs with.
ImmediatesKept == stage # "fetched" => imm = fetched.imm
=============================================================================
