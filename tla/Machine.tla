------------------------------ MODULE Machine ------------------------------
(***************************************************************************)
(* What a program's loads, stores and atomics do, with no frames, no bus   *)
(* and no banks: every page it has touched is storage of its own, with the *)
(* rights of the request that touched it first, and a byte of it keeps the *)
(* value last written to that byte through that page.  Some bytes are not  *)
(* there, and some cannot be written.  A request that is refused changes   *)
(* nothing, beside giving its page to the program.                         *)
(***************************************************************************)
EXTENDS Integers

CONSTANTS
  Regs, Bytes, PageNumbers, PageSize,
  AddressMod,          \* where addresses wrap
  Offsets,             \* what loads and stores may add to a register
  Number(_),           \* the number a word stands for
  Operations,          \* the operations atomics do on a word of memory
  Sign(_),             \* the byte that extends the sign of another
  Combine(_, _, _)     \* what such an operation makes of two words

VARIABLES
  regs,       \* the integer registers
  space,      \* the pages touched so far
  request,    \* the address and the width of the latest access
  instr,      \* the word fetched
  stage,      \* what comes next: a fetch, the instruction fetched, or nothing
  event       \* what the latest step was and how it ended

vars == <<regs, space, request, instr, stage, event>>

Word == [0 .. 3 -> Bytes]
Zero == [i \in 0 .. 3 |-> 0]
PageOffsets == 0 .. PageSize - 1
Cell == [present : BOOLEAN, writable : BOOLEAN, byte : Bytes]
Untouched == [touched |-> FALSE]
Page(rights) == [touched : {TRUE}, rights : {rights}, cells : [PageOffsets -> Cell]]

\* As PageMap has it: a supervisor's page serves supervisor requests only.
Permits(rights, access) ==
  access \ {"S"} \subseteq rights /\ ("S" \in rights => "S" \in access)

Ended(class, result) == event' = [class |-> class, result |-> result]
Requested(g, o, size) == request' = [address |-> g * PageSize + o, size |-> size]
Written(f, rd, v) == [f EXCEPT ![rd] = IF rd = 0 THEN Zero ELSE v]

-----------------------------------------------------------------------------
(* Storage.                                                                *)

\* A request for access to page g is granted; but for the bytes in "written"
\* what the page and the other pages hold stays.
Granted(g, access, written) ==
  /\ \A h \in PageNumbers \ {g} : space'[h] = space[h]
  /\ space'[g].touched
  /\ IF space[g].touched
       THEN /\ Permits(space[g].rights, access)
            /\ space'[g].rights = space[g].rights
            /\ \A o \in PageOffsets \ written : space'[g].cells[o] = space[g].cells[o]
       ELSE space'[g] \in Page(access)

Present(g, S) == \A o \in S : space'[g].cells[o].present
Writable(g, S) == \A o \in S : space'[g].cells[o].present /\ space'[g].cells[o].writable

\* The page does not permit the request or cannot be had.
Barred(g, access) ==
  /\ space[g].touched => ~Permits(space[g].rights, access)
  /\ space' = space

\* The address is that in a register, and one of the offsets added to it.
Pointed(offsets) ==
  \E r \in Regs, i \in offsets : request'.address = (Number(regs[r]) + i) % AddressMod

Span(o, size) == o .. o + size - 1
Aligned(o, size) == o % size = 0
Within(o, size) == o + size <= PageSize

\* What "size" bytes from o on stand for in a register.
Reads(g, o, size, signed) ==
  LET byte(i) == space'[g].cells[o + i].byte
  IN [i \in 0 .. 3 |-> IF i < size THEN byte(i)
                       ELSE IF signed THEN Sign(byte(size - 1)) ELSE 0]

Holds(g, o, size, word) == \A i \in 0 .. size - 1 : space'[g].cells[o + i].byte = word[i]

\* The word at o before the step, if the program had the page.
Before(g, o, word) ==
  space[g].touched => \A i \in 0 .. 3 : space[g].cells[o + i].byte = word[i]

-----------------------------------------------------------------------------
(* Steps.                                                                  *)

Init ==
  /\ regs = [r \in Regs |-> Zero]
  /\ \A g \in PageNumbers :
       space[g] = Untouched \/ space[g] \in Page({"X", "R", "W", "S"})
  /\ request = [address |-> 0, size |-> 4]
  /\ instr = Zero
  /\ stage = "fetch"
  /\ event = [class |-> "none", result |-> "done"]

\* A word is fetched, or the simulation ends.  An address that is not aligned
\* may reach beyond its page, and what is fetched is then not said.
Fetch(g, o) ==
  /\ Requested(g, o, 4)
  /\ UNCHANGED regs
  /\ \/ /\ Granted(g, {"X", "S"}, {})
        /\ instr' \in Word
        /\ Within(o, 4) => Present(g, Span(o, 4)) /\ instr' = Reads(g, o, 4, TRUE)
        /\ stage' = "execute"
        /\ Ended("fetch", "done")
     \/ /\ \/ Barred(g, {"X", "S"})
           \/ /\ Granted(g, {"X", "S"}, {})
              /\ Aligned(o, 4) => ~Present(g, Span(o, 4))
        /\ stage' = "halt"
        /\ Ended("fetch", "outside")
        /\ UNCHANGED instr

\* No storage is involved: a register is computed, or nothing is.
Compute ==
  /\ event'.class \in {"compute", "unknown"}
  /\ \/ UNCHANGED regs
     \/ \E r \in Regs : regs'[r] \in Word /\ regs' = Written(regs, r, regs'[r])
  /\ UNCHANGED <<space, request>>

\* An access that is not aligned is refused before anything else.
Misaligned ==
  /\ ~Aligned(request'.address, request'.size)
  /\ \/ /\ \/ Ended("load", "LoadAddressMisaligned")
           \/ Ended("loadSigned", "LoadAddressMisaligned")
           \/ Ended("store", "StoreAMOAddressMisaligned")
        /\ Pointed(Offsets)
     \/ /\ Ended("atomic", "LoadAddressMisaligned")
        /\ Pointed({0}) /\ request'.size = 4
  /\ UNCHANGED <<regs, space>>

\* A load or a store whose width is not known is carried out and then reported.
Load(g, o, size, signed) ==
  /\ event'.class = IF signed THEN "loadSigned" ELSE "load"
  /\ \/ /\ event'.result \in {"done", "IllegalInstruction"}
        /\ Granted(g, {"R", "S"}, {})
        /\ Present(g, Span(o, size))
        /\ \E rd \in Regs : regs' = Written(regs, rd, Reads(g, o, size, signed))
     \/ /\ event'.result = "LoadAccessFault"
        /\ \/ Barred(g, {"R", "S"})
           \/ Granted(g, {"R", "S"}, {}) /\ ~Present(g, Span(o, size))
        /\ UNCHANGED regs

Store(g, o, size) ==
  /\ event'.class = "store"
  /\ \/ /\ event'.result \in {"done", "IllegalInstruction"}
        /\ Granted(g, {"W", "S"}, Span(o, size))
        /\ Writable(g, Span(o, size))
        /\ \E rs \in Regs : Holds(g, o, size, regs[rs])
     \/ /\ event'.result = "StoreAMOAccessFault"
        /\ \/ Barred(g, {"W", "S"})
           \/ Granted(g, {"W", "S"}, {}) /\ ~Writable(g, Span(o, size))
  /\ UNCHANGED regs

\* A word is read, or written, or both in one step; the right to read is
\* enough for any of them.
AtomicRead(g, o) ==
  /\ Ended("atomic", "done")
  /\ Granted(g, {"R", "S"}, {})
  /\ Present(g, Span(o, 4))
  /\ \E rd \in Regs : regs' = Written(regs, rd, Reads(g, o, 4, TRUE))

AtomicWrite(g, o) ==
  /\ event'.result = "done"
  /\ Granted(g, {"R", "S"}, Span(o, 4))
  /\ Writable(g, Span(o, 4))
  /\ \/ /\ event'.class = "atomic"
        /\ \E rd, rs \in Regs : /\ Holds(g, o, 4, regs[rs])
                               /\ regs' = Written(regs, rd, Zero)
     \/ \E rd, rs \in Regs, old \in Word :
          /\ Before(g, o, old)
          /\ \/ /\ event'.class = "swap"
                /\ Holds(g, o, 4, regs[rs])
                /\ regs' = Written([regs EXCEPT ![rs] = old], rd, old)
             \/ /\ event'.class = "atomic"
                /\ \E op \in Operations : Holds(g, o, 4, Combine(op, old, regs[rs]))
                /\ regs' = Written(regs, rd, old)

\* A swap that cannot be done is refused, and no other operation is done instead.
AtomicRefused(g) ==
  /\ event'.class \in {"atomic", "swap"} /\ event'.result = "LoadAccessFault"
  /\ Barred(g, {"R", "S"}) \/ Granted(g, {"R", "S"}, {})
  /\ UNCHANGED regs

Execute ==
  \/ Compute
  \/ Misaligned
  \/ /\ event'.class \in {"load", "loadSigned", "store"}
     /\ Pointed(Offsets)
     /\ \E g \in PageNumbers, o \in PageOffsets, size \in {1, 2, 4} :
          /\ Requested(g, o, size) /\ Aligned(o, size)
          /\ (\E signed \in BOOLEAN : Load(g, o, size, signed)) \/ Store(g, o, size)
  \/ /\ event'.class \in {"atomic", "swap"}
     /\ Pointed({0})
     /\ \E g \in PageNumbers, o \in PageOffsets :
          /\ Requested(g, o, 4) /\ Aligned(o, 4)
          /\ AtomicRead(g, o) \/ AtomicWrite(g, o) \/ AtomicRefused(g)

Next ==
  \/ stage = "fetch" /\ \E g \in PageNumbers, o \in PageOffsets : Fetch(g, o)
  \/ stage = "execute" /\ stage' = "fetch" /\ UNCHANGED instr /\ Execute

Spec == Init /\ [][Next]_vars
=============================================================================
