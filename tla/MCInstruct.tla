----------------------------- MODULE MCInstruct -----------------------------
(***************************************************************************)
(* Small instances of Instruct for TLC: words of sixteen bits, in which    *)
(* every immediate but that of a jump keeps its size; every offset of the  *)
(* formats I, S and B, and those of a jump where a field begins or ends.   *)
(***************************************************************************)
EXTENDS Instruct
LOCAL INSTANCE Bitwise

WordAnd(a, b) == a & b
WordOr(a, b) == a | b
WordXor(a, b) == a ^^ b

\* Words next to zero, to the sign bit and to the reach of an immediate.
Edges == {0, 1, 2, 15, 2047, 2048, 4095, 4096, 32767, 32768, 32769, 61440, 63488, 65534, 65535}

Instruction(op, n, rd, a, b) ==
  [op |-> op, imm |-> n, rd |-> rd, rs1 |-> 1, a |-> a, b |-> b, d |-> IF rd = 0 THEN 0 ELSE 1, csr |-> 0, pc |-> 4]

EdgeImmediates(op) == {n \in {-2048, -2047, -4, -1, 0, 1, 4, 15, 2046, 2047} : Encodable(op, n)}

\* All offsets, of instructions that take them.
OffsetsOf(op) == {Instruction(op, n, 1, 0, 0) : n \in {m \in -4096 .. 4094 : Encodable(op, m)}}

EdgesJ == UNION {{s * e - 2, s * e, s * e + 2} :
                 s \in {-1, 1}, e \in {4, 1024, 2048, 3072, 4096, 8192, 524288, 1047552, 1048572}}
Jumps == {Instruction("JAL", n, rd, 0, 0) :
            n \in {m \in EdgesJ \cup -6000 .. 6000 : m % 2 = 0}, rd \in {0, 5}}

Arithmetic ==
  UNION {{Instruction(op, 0, rd, a, b) : rd \in {0, 5}, a, b \in Edges} : op \in OpsR}
  \cup UNION {{Instruction(op, n, rd, a, 0) : rd \in {0, 5}, a \in Edges, n \in EdgeImmediates(op)}
              : op \in OpsI \cup {"JALR"}}
  \cup UNION {{Instruction(op, n, 0, a, b) : a, b \in Edges, n \in {4, 8, -8}} : op \in OpsB}
  \cup {Instruction(op, n, 5, 0, 0) : op \in OpsU, n \in {0, 4096, 32768, 61440}}

\* Every control register instruction; x0 holds zero.
Registers ==
  {i \in [op : OpsCsr, imm : {0}, rd : {0, 5}, rs1 : {0, 1, 31}, a : {0, 1, 65535}, b : {0},
          d : {0, 1}, csr : {0, 2, 65535}, pc : {65532}] :
     (i.rs1 = 0 => i.a = 0) /\ (i.rd = 0 => i.d = 0)}

Program ==
  Arithmetic \cup Registers \cup Jumps
  \cup OffsetsOf("ADDI") \cup OffsetsOf("LOAD") \cup OffsetsOf("STORE") \cup OffsetsOf("BEQ")

\* What a compiler emits for a function's frame.
FrameAccesses == {Instruction("STORE", n, 0, 32768, 1) : n \in {-8, -4, 0, 4}}
=============================================================================
