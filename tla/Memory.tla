------------------------------- MODULE Memory -------------------------------
(***************************************************************************)
(* The memory banks of include/Memory.hpp and the bus of include/Bus.hpp   *)
(* that searches them, as operators on the contents of the banks.          *)
(* Hart.tla holds the contents in a variable and applies them.             *)
(*                                                                         *)
(* A word is its four bytes, the least significant first, which is how the *)
(* banks keep it; Value is the number it stands for.  Banks are opened by  *)
(* their constructor and never closed, setRW is never called, and nothing  *)
(* reads the DEV_CHANGED bit: a bank's status is the constant "writable".  *)
(***************************************************************************)
EXTENDS Integers, Sequences, FiniteSetsExt

CONSTANTS
  ByteMod,     \* 2^8
  WordMod,     \* 2^32: addresses wrap here
  Banks,       \* the banks, in the order they were added to the bus
  BitAnd(_, _), BitOr(_, _)   \* & and | on bytes

Bytes == 0 .. ByteMod - 1
Addrs == 0 .. WordMod - 1
Bank == [start : Nat, size : Nat \ {0}, writable : BOOLEAN]
BankIds == DOMAIN Banks
Top(b) == b.start + b.size

ASSUME MemoryAssumption ==
  /\ ByteMod \in Nat \ {0} /\ ByteMod % 2 = 0
  /\ WordMod = ByteMod * ByteMod * ByteMod * ByteMod
  /\ Banks \in Seq(Bank) /\ Banks # <<>>
  /\ \A k \in BankIds : /\ Banks[k].start % 4 = 0
                        /\ Banks[k].size % 4 = 0
                        /\ Top(Banks[k]) < WordMod
  /\ \A j, k \in BankIds :
       j = k \/ Top(Banks[j]) <= Banks[k].start \/ Top(Banks[k]) <= Banks[j].start
  /\ \A a, b \in Bytes : BitAnd(a, b) \in Bytes /\ BitOr(a, b) \in Bytes

-----------------------------------------------------------------------------
(* Words.                                                                  *)

Places == 0 .. 3
Word == [Places -> Bytes]
Zero == [i \in Places |-> 0]

Value(w) == w[0] + ByteMod * (w[1] + ByteMod * (w[2] + ByteMod * w[3]))

\* The low 32 bits of a number.
ToWord(n) ==
  [i \in Places |->
     CASE i = 0 -> n % ByteMod
       [] i = 1 -> (n \div ByteMod) % ByteMod
       [] i = 2 -> (n \div (ByteMod * ByteMod)) % ByteMod
       [] i = 3 -> (n \div (ByteMod * ByteMod * ByteMod)) % ByteMod]

-----------------------------------------------------------------------------
(* One bank: b is its description, buffer its contents.                    *)

Byte == 1
HalfWord == 2
FullWord == 4
Widths == {Byte, HalfWord, FullWord}

Contents == [k \in BankIds |-> [0 .. Banks[k].size - 1 -> Bytes]]
MemoryType == {m \in [BankIds -> UNION {Contents[k] : k \in BankIds}] :
                 \A k \in BankIds : m[k] \in Contents[k]}

\* The sum is a uint32_t.
ValidRange(b, address, size) ==
  /\ address >= b.start
  /\ (address + size) % WordMod <= Top(b)

\* Mutated form: any bank in range takes a write.
ValidWriteAnywhere(b, address, size) == ValidRange(b, address, size)

ValidWrite(b, address, size) == b.writable /\ ValidRange(b, address, size)

\* Mutated form: the sign is not extended.
ReadUnsigned(buffer, b, address, size, signedVal) ==
  [i \in Places |-> IF i < size THEN buffer[address - b.start + i] ELSE 0]

\* What is above the bytes read is filled with the sign if asked for.
Read(buffer, b, address, size, signedVal) ==
  LET at   == address - b.start
      fill == IF signedVal /\ buffer[at + size - 1] >= ByteMod \div 2 THEN ByteMod - 1 ELSE 0
  IN [i \in Places |-> IF i < size THEN buffer[at + i] ELSE fill]

Write(buffer, b, address, size, val) ==
  LET at == address - b.start
  IN [o \in DOMAIN buffer |-> IF o \in at .. at + size - 1 THEN val[o - at] ELSE buffer[o]]

-----------------------------------------------------------------------------
(* The bus: the first bank that can serve an access does.                  *)

Readers(address, size) == {k \in BankIds : ValidRange(Banks[k], address, size)}
Writers(address, size) == {k \in BankIds : ValidWrite(Banks[k], address, size)}

\* The value load returns, if some bank can.
BusLoad(mem, address, size, signedVal) ==
  LET k == Min(Readers(address, size))
  IN Read(mem[k], Banks[k], address, size, signedVal)

\* The memory after store, if some bank can.
BusStore(mem, address, size, val) ==
  LET k == Min(Writers(address, size))
  IN [mem EXCEPT ![k] = Write(mem[k], Banks[k], address, size, val)]
=============================================================================
