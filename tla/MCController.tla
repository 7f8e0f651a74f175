---------------------------- MODULE MCController ----------------------------
(***************************************************************************)
(* Small instances of Controller for TLC: addresses wrap after two or four *)
(* words.  Jumps lead to the first word and to the last one, from which    *)
(* the program counter wraps; failing accesses leave a misaligned address  *)
(* in mepc, and the return from their handler ends outside of the memory.  *)
(***************************************************************************)
EXTENDS Controller

InMemory == 0 .. 12
TwoWords == {0, 4}
TwoTargets == {0, 12}
OneTarget == {0}
MisalignedData == {6}
VectoredAndDirect == {1, 8}
Base == {4}
Direct == {8}
Zero == {0}

\* Illegal instruction, refused load, misaligned and refused store, call.
FiveCauses == {Exception(n) : n \in {2, 5, 6, 7, 11}}
IllegalOrRefused == {Exception(n) : n \in {2, 5}}
=============================================================================
