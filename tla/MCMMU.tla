------------------------------- MODULE MCMMU -------------------------------
(***************************************************************************)
(* Small instances of MMU for TLC.  Two pages per level give two pages     *)
(* that share a second-level table and two that do not; slots and frames   *)
(* are fewer than the pages asked for wherever evictions or the lack of a  *)
(* frame are wanted.                                                       *)
(***************************************************************************)
EXTENDS MMU

FourPages == Pages
TwoPages == {<<0, 0>>, <<1, 0>>}

\* What Riscv32::step asks for a fetch, alone, and with a right it does not
\* give or the same right without the supervisor's.
FetchOnly == {{"X", "S"}}
FetchUser == {{"X", "S"}, {"R"}}
FetchModes == {{"X", "S"}, {"X"}}
=============================================================================
