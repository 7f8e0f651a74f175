------------------------------- MODULE MCHart -------------------------------
(***************************************************************************)
(* Small instances of Hart for TLC: bytes of one bit, hence words of four  *)
(* bits and sixteen addresses.                                             *)
(***************************************************************************)
EXTENDS Hart
LOCAL INSTANCE Bitwise

ByteAnd(a, b) == a & b
ByteOr(a, b) == a | b

\* A ROM and a RAM of one word each.
RomAndRam == << [start |-> 0, size |-> 4, writable |-> FALSE],
                [start |-> 4, size |-> 4, writable |-> TRUE] >>

\* Every word can be fetched, and two that begin at an address that is not
\* aligned, one of which reaches across the end of the ROM.
SomeFetches == {a \in Addrs : a % 4 = 0} \cup {1, 6}

\* The words that are aligned addresses, and one that is not; loads, swaps and
\* additions put the others into registers.
SomeResults == {w \in Word : Value(w) % 4 = 0 \/ Value(w) = 6}
NoOffset == {0}

\* The state without its record of the latest answer, request, word fetched and
\* event, which no step reads.
StateView == <<x, mem, map, stage>>

\* A file that fills the ROM, with bytes of both signs.
OneFile == {[o \in 0 .. 3 |-> o % 2]}
=============================================================================
