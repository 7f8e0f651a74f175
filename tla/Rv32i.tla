------------------------------- MODULE Rv32i -------------------------------
(***************************************************************************)
(* What the instruction set README.md names asks of the instructions that  *)
(* compute: how an immediate is cut into the fields of an instruction, and *)
(* what the instruction does to a register, to a control register and to   *)
(* the program counter.  Instruct.tla is compared with it.                 *)
(***************************************************************************)
EXTENDS Integers

CONSTANTS
  XLen,        \* the bits of a word
  WordMod,     \* 2^XLen
  BitAnd(_, _), BitOr(_, _), BitXor(_, _)

Mega == 1024 * 1024

ASSUME WordAssumption ==
  /\ XLen \in 1 .. 32
  /\ 1024 % XLen = 0    \* so & 0x1f, a remainder, drops the bit that tells SRAI
  /\ WordMod = 2 ^ XLen
  /\ WordMod \in Nat /\ WordMod % 8192 = 0 /\ WordMod > 0
  /\ WordMod \div 4096 <= Mega

Words == 0 .. WordMod - 1

OpsR == {"ADD", "SUB", "SLL", "SLT", "SLTU", "XOR", "SRL", "SRA", "OR", "AND"}
OpsI == {"ADDI", "SLLI", "SLTI", "SLTIU", "XORI", "SRLI", "SRAI", "ORI", "ANDI"}
OpsB == {"BEQ", "BNE", "BLT", "BGE", "BLTU", "BGEU"}
OpsU == {"LUI", "AUIPC"}
OpsCsr == {"CSRRW", "CSRRWI", "CSRRS", "CSRRSI", "CSRRC", "CSRRCI"}
Ops == OpsR \cup OpsI \cup OpsB \cup OpsU \cup OpsCsr \cup {"LOAD", "STORE", "JAL", "JALR"}

ShiftImmediates == {"SLLI", "SRLI", "SRAI"}
OpsWithI == (OpsI \ ShiftImmediates) \cup {"LOAD", "JALR"}

\* An instruction can be written with n for its immediate.
Encodable(op, n) ==
  CASE op \in ShiftImmediates         -> 0 <= n /\ n < XLen
    [] op \in OpsWithI \cup {"STORE"} -> -2048 <= n /\ n < 2048
    [] op \in OpsB                    -> -4096 <= n /\ n < 4096 /\ n % 2 = 0
    [] op = "JAL"                     -> -Mega <= n /\ n < Mega /\ n % 2 = 0
    [] op \in OpsU                    -> 0 <= n /\ n < WordMod /\ n % 4096 = 0
    [] OTHER                          -> n = 0

\* An instruction with all it finds: the values of rs1, rs2 and rd before it,
\* the control register it names, and its own address.
Instr == [op : Ops, imm : Int, rd : 0 .. 31, rs1 : 0 .. 31,
          a : Words, b : Words, d : Words, csr : Words, pc : Words]

-----------------------------------------------------------------------------
(* The fields an assembler makes of an immediate.  A field is Bits(n, unit, *)
(* count): the bits of n from the one worth "unit" on, as a number below    *)
(* "count".  For the formats S and B, "high" is what goes to bits 31:25     *)
(* and "low" what goes to bits 11:7.                                        *)

Bits(n, unit, count) == (n \div unit) % count

TopI(imm) == imm % 4096
HighS(imm) == Bits(imm, 32, 128)
LowS(imm) == Bits(imm, 1, 32)
HighB(imm) == 64 * Bits(imm, 4096, 2) + Bits(imm, 32, 64)
LowB(imm) == 2 * Bits(imm, 2, 16) + Bits(imm, 2048, 2)
SignJ(imm) == Bits(imm, Mega, 2)        \* bit 31
MiddleJ(imm) == Bits(imm, 2, 1024)         \* bits 30:21
CarryJ(imm) == Bits(imm, 2048, 2)          \* bit 20
UpperJ(imm) == Bits(imm, 4096, 256)        \* bits 19:12

\* The twelve bits of a shift: SRAI is told from SRLI by bit 10.
TopShift(op, imm) == IF op = "SRAI" THEN 1024 + imm ELSE imm

-----------------------------------------------------------------------------
(* What an instruction does.                                               *)

Signed(a) == IF 2 * a >= WordMod THEN a - WordMod ELSE a
SameSign(a, b) == (2 * a >= WordMod) <=> (2 * b >= WordMod)
Word(n) == n % WordMod
Truth(p) == IF p THEN 1 ELSE 0
Complement(a) == WordMod - 1 - a

ShiftLeft(a, n) == (a % (2 ^ (XLen - n))) * (2 ^ n)
ShiftRight(a, n) == a \div (2 ^ n)
ShiftSigned(a, n) == Word(Signed(a) \div (2 ^ n))

\* The word an arithmetic instruction computes, v being its second operand.
Computed(op, a, v) ==
  CASE op \in {"ADD", "ADDI"}   -> Word(a + v)
    [] op = "SUB"               -> Word(a - v)
    [] op \in {"SLL", "SLLI"}   -> ShiftLeft(a, v % XLen)
    [] op \in {"SRL", "SRLI"}   -> ShiftRight(a, v % XLen)
    [] op \in {"SRA", "SRAI"}   -> ShiftSigned(a, v % XLen)
    [] op \in {"SLT", "SLTI"}   -> Truth(Signed(a) < Signed(v))
    [] op \in {"SLTU", "SLTIU"} -> Truth(a < v)
    [] op \in {"XOR", "XORI"}   -> BitXor(a, v)
    [] op \in {"OR", "ORI"}     -> BitOr(a, v)
    [] op \in {"AND", "ANDI"}   -> BitAnd(a, v)

Taken(op, a, b) ==
  CASE op = "BEQ"  -> a = b
    [] op = "BNE"  -> a # b
    [] op = "BLT"  -> Signed(a) < Signed(b)
    [] op = "BGE"  -> Signed(a) >= Signed(b)
    [] op = "BLTU" -> a < b
    [] op = "BGEU" -> a >= b

\* What a control register instruction writes: s is rs1's value or number.
Merged(op, old, s) ==
  CASE op \in {"CSRRW", "CSRRWI"} -> s
    [] op \in {"CSRRS", "CSRRSI"} -> BitOr(old, s)
    [] op \in {"CSRRC", "CSRRCI"} -> BitAnd(old, Complement(s))

CsrSource(i) == IF i.op \in {"CSRRWI", "CSRRSI", "CSRRCI"} THEN i.rs1 ELSE i.a

\* "value" is what rd gets, zero if it is x0, or the address a load or a store
\* goes to; "next" is where the program goes on.
Outcome(value, next, csr) == [value |-> value, next |-> next, csr |-> csr]
ToRd(i, v) == IF i.rd = 0 THEN 0 ELSE v

Meaning(i) ==
  LET follow == Word(i.pc + 4)
  IN CASE i.op \in OpsR -> Outcome(ToRd(i, Computed(i.op, i.a, i.b)), follow, i.csr)
       [] i.op \in OpsI -> Outcome(ToRd(i, Computed(i.op, i.a, Word(i.imm))), follow, i.csr)
       [] i.op \in {"LOAD", "STORE"} -> Outcome(Word(i.a + i.imm), follow, i.csr)
       [] i.op \in OpsB ->
            Outcome(0, IF Taken(i.op, i.a, i.b) THEN Word(i.pc + i.imm) ELSE follow, i.csr)
       [] i.op = "JAL"  -> Outcome(ToRd(i, follow), Word(i.pc + i.imm), i.csr)
       [] i.op = "JALR" -> Outcome(ToRd(i, follow), 2 * (Word(i.a + i.imm) \div 2), i.csr)
       [] i.op = "LUI"  -> Outcome(ToRd(i, i.imm), follow, i.csr)
       [] i.op = "AUIPC" -> Outcome(ToRd(i, Word(i.pc + i.imm)), follow, i.csr)
       [] i.op \in OpsCsr -> Outcome(ToRd(i, i.csr), follow, Merged(i.op, i.csr, CsrSource(i)))
=============================================================================
