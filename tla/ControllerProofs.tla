--------------------------- MODULE ControllerProofs ---------------------------
(***************************************************************************)
(* Proofs about Controller for every width of addresses and counters and   *)
(* for whatever programs jump to, trap on and write.                       *)
(***************************************************************************)
EXTENDS Controller, TLAPS

-----------------------------------------------------------------------------
(* Lemmas on arithmetic and on the register bank.                          *)

LEMMA Wraps == ASSUME NEW n \in Int PROVE n % WordMod \in Words
BY CSRAssumption DEF Words

LEMMA HalfWraps == ASSUME NEW n \in Int PROVE n % CounterMod \in Halves
BY CSRAssumption DEF Halves

LEMMA ModSmall == ASSUME NEW k \in Nat \ {0}, NEW a \in 0 .. k - 1 PROVE a % k = a
OBVIOUS

LEMMA ModSelf == ASSUME NEW k \in Nat \ {0} PROVE k % k = 0
OBVIOUS

\* Two halves make a number of twice the width.
LEMMA SquareBound ==
  ASSUME NEW c \in Nat \ {0}, NEW h \in 0 .. c - 1, NEW l \in 0 .. c - 1
  PROVE  h * c + l \in 0 .. c * c - 1
OBVIOUS

LEMMA ClearModeBits == ASSUME NEW n \in Nat PROVE n - (n % 4) = 4 * (n \div 4)
OBVIOUS

LEMMA ValuesOf ==
  /\ Values("mstatus") = SUBSET StatusBits
  /\ Values("mcause") = MCause
  /\ \A r \in Addresses : Values(r) = Words
  /\ \A r \in Counters : Values(r) = Halves
<1>1. Values("mstatus") = SUBSET StatusBits
  BY DEF Values, Addresses, Counters, Unprivileged
<1>2. Values("mcause") = MCause
  BY DEF Values, Addresses, Counters, Unprivileged
<1>3. \A r \in Addresses : Values(r) = Words
  BY DEF Values, Addresses, Counters, Unprivileged
<1>4. \A r \in Counters : Values(r) = Halves
  BY DEF Values, Addresses, Counters, Unprivileged
<1> QED
  BY <1>1, <1>2, <1>3, <1>4

\* The type of the bank.
BankOK(b) == DOMAIN b = Registers /\ \A r \in Registers : b[r] \in Values(r)

LEMMA BankTypes ==
  ASSUME NEW b, BankOK(b)
  PROVE  /\ b["mstatus"] \in SUBSET StatusBits
         /\ b["mcause"] \in MCause
         /\ \A r \in Addresses : b[r] \in Words
         /\ \A r \in Counters : b[r] \in Halves
<1>1. {"mstatus", "mcause"} \cup Addresses \cup Counters \subseteq Registers
  BY DEF Registers
<1> QED
  BY <1>1, ValuesOf DEF BankOK

\* Counting a pair of halves moves the pair and nothing else.
LEMMA IncrementFrame ==
  ASSUME NEW b, BankOK(b), NEW lo \in Counters, NEW hi \in Counters, lo # hi
  PROVE  /\ BankOK(Increment64(b, lo, hi))
         /\ \A r \in Registers \ {lo, hi} : Increment64(b, lo, hi)[r] = b[r]
<1> DEFINE low == (b[lo] + 1) % CounterMod
           high == (b[hi] + 1) % CounterMod
<1>1. b[lo] \in Int /\ b[hi] \in Int
  BY BankTypes, CSRAssumption DEF Halves
<1>2. low \in Halves /\ high \in Halves
  BY <1>1, HalfWraps
<1>3. lo \in Registers /\ hi \in Registers /\ Values(lo) = Halves /\ Values(hi) = Halves
  BY ValuesOf DEF Registers
<1>4. Increment64(b, lo, hi)
        = IF low = 0 THEN [b EXCEPT ![lo] = low, ![hi] = high] ELSE [b EXCEPT ![lo] = low]
  BY DEF Increment64
<1> HIDE DEF low, high
<1>5. CASE low = 0
  BY <1>2, <1>3, <1>4, <1>5 DEF BankOK
<1>6. CASE low # 0
  BY <1>2, <1>3, <1>4, <1>6 DEF BankOK
<1> QED
  BY <1>5, <1>6

\* And it moves the pair by one, as the two halves of one number.
LEMMA IncrementCounts ==
  ASSUME NEW b, BankOK(b), NEW lo \in Counters, NEW hi \in Counters, lo # hi
  PROVE  Total(Increment64(b, lo, hi), lo, hi)
           = (Total(b, lo, hi) + 1) % (CounterMod * CounterMod)
<1> DEFINE C == CounterMod
           l == b[lo]
           h == b[hi]
           low == (l + 1) % C
           high == (h + 1) % C
<1>1. C \in Nat \ {0} /\ l \in 0 .. C - 1 /\ h \in 0 .. C - 1
  BY BankTypes, CSRAssumption DEF Halves
<1>2. lo \in DOMAIN b /\ hi \in DOMAIN b
  BY DEF BankOK, Counters, Registers
<1>3. Increment64(b, lo, hi)
        = IF low = 0 THEN [b EXCEPT ![lo] = low, ![hi] = high] ELSE [b EXCEPT ![lo] = low]
  BY DEF Increment64
<1>4. Total(b, lo, hi) = h * C + l
  BY DEF Total
<1>5. C * C \in Nat \ {0}
  BY <1>1
<1>6. CASE l + 1 < C
  <2>1. low = l + 1 /\ low # 0
    BY <1>1, <1>6, ModSmall
  <2>2. Total(Increment64(b, lo, hi), lo, hi) = h * C + (l + 1)
    BY <1>2, <1>3, <2>1 DEF Total
  <2>3. h * C + (l + 1) \in 0 .. C * C - 1
    BY <1>1, <1>6, SquareBound
  <2>4. (h * C + (l + 1)) % (C * C) = h * C + (l + 1)
    BY <1>5, <2>3, ModSmall
  <2>5. h * C + (l + 1) = (h * C + l) + 1
    BY <1>1
  <2> QED
    BY <1>4, <2>2, <2>4, <2>5
<1>7. CASE l + 1 = C /\ h + 1 < C
  <2>1. low = 0
    BY <1>1, <1>7, ModSelf
  <2>2. high = h + 1
    BY <1>1, <1>7, ModSmall
  <2>3. Total(Increment64(b, lo, hi), lo, hi) = (h + 1) * C + 0
    BY <1>2, <1>3, <2>1, <2>2 DEF Total
  <2>4. (h + 1) * C + 0 \in 0 .. C * C - 1
    BY <1>1, <1>7, SquareBound
  <2>5. ((h + 1) * C + 0) % (C * C) = (h + 1) * C + 0
    BY <1>5, <2>4, ModSmall
  <2>6. (h + 1) * C + 0 = (h * C + l) + 1
    BY <1>1, <1>7
  <2> QED
    BY <1>4, <2>3, <2>5, <2>6
<1>8. CASE l + 1 = C /\ h + 1 = C
  <2>1. low = 0 /\ high = 0
    BY <1>1, <1>8, ModSelf
  <2>2. Total(Increment64(b, lo, hi), lo, hi) = 0
    BY <1>1, <1>2, <1>3, <2>1 DEF Total
  <2>3. (h * C + l) + 1 = C * C
    <3>1. h = C - 1 /\ l = C - 1
      BY <1>1, <1>8
    <3> QED
      BY <1>1, <3>1
  <2>4. (C * C) % (C * C) = 0
    BY <1>5, ModSelf
  <2> QED
    BY <1>4, <2>2, <2>3, <2>4
<1> QED
  BY <1>1, <1>6, <1>7, <1>8

\* A pair no step touches keeps its total.
LEMMA TotalKept ==
  ASSUME NEW b, BankOK(b), NEW lo \in Counters, NEW hi \in Counters
  PROVE  Total(b, lo, hi) = Total(b, lo, hi) % (CounterMod * CounterMod)
<1>1. CounterMod \in Nat \ {0} /\ b[hi] \in 0 .. CounterMod - 1 /\ b[lo] \in 0 .. CounterMod - 1
  BY BankTypes, CSRAssumption DEF Halves
<1>2. Total(b, lo, hi) \in 0 .. CounterMod * CounterMod - 1
  BY <1>1, SquareBound DEF Total
<1>3. CounterMod * CounterMod \in Nat \ {0}
  BY <1>1
<1> QED
  BY <1>2, <1>3, ModSmall

\* Programs write five registers only, each with values of its own.
LEMMA WritableRegisters ==
  ASSUME NEW r \in Registers, MayWrite(r, FALSE)
  PROVE  r \in {"mstatus", "mcause", "mtvec", "mepc", "mtval"}
<1>1. ASSUME r \in Counters PROVE Access(r) = 3
  BY <1>1 DEF Access, Counters
<1>2. Access("r800") = 2 /\ Access("r400") = 1
  BY DEF Access, Counters
<1> QED
  BY <1>1, <1>2 DEF MayWrite, Registers, Addresses, Unprivileged

LEMMA WritesOf ==
  /\ Writes("mstatus") = SUBSET StatusBits
  /\ Writes("mcause") = Causes
  /\ Writes("mtvec") = Vectors
  /\ Writes("mepc") = Targets
  /\ Writes("mtval") = Opcodes
BY DEF Writes

LEMMA WritesTyped ==
  ASSUME NEW r \in Registers, MayWrite(r, FALSE)
  PROVE  Writes(r) \subseteq Values(r)
<1>1. Values("mtvec") = Words /\ Values("mepc") = Words /\ Values("mtval") = Words
  BY ValuesOf DEF Addresses
<1> QED
  BY <1>1, WritableRegisters, WritesOf, ValuesOf, ControllerAssumption

\* The entry of a cause is an address, and it is the one of the flow's table.
LEMMA VectorIsWord ==
  ASSUME NEW mtvec \in Words, NEW cause \in MCause
  PROVE  Vector(mtvec, cause) \in Words
<1>1. mtvec \in Int /\ cause.code \in Int /\ cause.interrupt \in BOOLEAN
  BY CSRAssumption DEF Words, MCause
<1>2. mtvec - (mtvec % 4) + (IF cause.interrupt THEN 48 ELSE 0) + 4 * cause.code \in Int
  BY <1>1
<1> QED
  BY <1>2, Wraps DEF Vector

LEMMA VectorIsEntry ==
  ASSUME NEW mtvec \in Words, NEW cause \in MCause
  PROVE  LET entry == IF cause.interrupt THEN 12 + cause.code ELSE cause.code
         IN Vector(mtvec, cause) = (4 * (mtvec \div 4) + 4 * entry) % WordMod
<1>1. mtvec \in Nat /\ cause.code \in Int /\ cause.interrupt \in BOOLEAN
  BY CSRAssumption DEF Words, MCause
<1>2. mtvec - (mtvec % 4) = 4 * (mtvec \div 4)
  BY <1>1, ClearModeBits
<1>3. mtvec \div 4 \in Int
  BY <1>1
<1>4. CASE cause.interrupt
  <2>1. mtvec - (mtvec % 4) + 48 + 4 * cause.code = 4 * (mtvec \div 4) + 4 * (12 + cause.code)
    BY <1>1, <1>2, <1>3
  <2> QED
    BY <1>4, <2>1 DEF Vector
<1>5. CASE ~cause.interrupt
  <2>1. mtvec - (mtvec % 4) + 0 + 4 * cause.code = 4 * (mtvec \div 4) + 4 * cause.code
    BY <1>1, <1>2, <1>3
  <2> QED
    BY <1>5, <2>1 DEF Vector
<1> QED
  BY <1>1, <1>4, <1>5

-----------------------------------------------------------------------------
(* The inductive invariant.                                                *)

\* The sequencer is idle when it lets an instruction start.
StartsIdle == stage = "advance" => trap.trapState = "Idle"

\* The address to fall through to is that of the next word.
FallsThrough ==
  stage \in {"fetch", "execute", "memory"} => pcPlus4 = (pc + 4) % WordMod

\* What execute can have left for memoryAccess: a jump, an exception raised for
\* the instruction itself, or a return.
Jumps == {"branch", "jump"}
Raisers == {"branch", "load", "store", "atomic", "system"}

LeftByExecute ==
  stage = "memory" =>
    /\ branchAddressValid => instr \in Jumps /\ branchAddress \in Targets
    /\ trap.trapState # "Idle" => instr \in Raisers
    /\ trap.trapState # "SetPc"
    /\ trap.trapState = "SetCSRJump" =>
         trap.mepc = pc /\ trap.mcause \in Causes /\ trap.mtval \in Opcodes

IInv ==
  /\ TypeOK
  /\ PendingExclusive
  /\ NoPendingWhileRunning
  /\ StartsIdle
  /\ FallsThrough
  /\ LeftByExecute

LEMMA TypeBank == TypeOK => BankOK(csr)
BY DEF TypeOK, BankOK

LEMMA CountedBank ==
  ASSUME TypeOK
  PROVE  /\ BankOK(Counted)
         /\ \A r \in Registers \ {"cycle", "cycleh"} : Counted[r] = csr[r]
BY TypeBank, IncrementFrame DEF Counted, Counters

LEMMA RetiredBank ==
  ASSUME TypeOK
  PROVE  LET bank == Increment64(csr, "instret", "instreth")
         IN /\ BankOK(bank)
            /\ \A r \in Registers \ {"instret", "instreth"} : bank[r] = csr[r]
BY TypeBank, IncrementFrame DEF Counters

LEMMA InitIInv == Init => IInv
<1> SUFFICES ASSUME Init PROVE IInv
  OBVIOUS
<1>1. 0 \in Words /\ 0 \in Halves
  BY CSRAssumption DEF Words, Halves
<1>2. IllegalInstruction \in MCause /\ Exception(0) \in MCause
  BY DEF IllegalInstruction, Exception, MCause
<1>3. \A r \in Registers : InitialBank[r] \in Values(r)
  <2> SUFFICES ASSUME NEW r \in Registers PROVE InitialBank[r] \in Values(r)
    OBVIOUS
  <2>1. CASE r \in {"mstatus", "mcause"}
    BY <2>1, <1>2, ValuesOf DEF InitialBank, Registers
  <2>2. CASE r \in Addresses
    BY <2>2, <1>1, ValuesOf DEF InitialBank, Registers, Addresses
  <2>3. CASE r \in Counters
    BY <2>3, <1>1, ValuesOf DEF InitialBank, Registers, Counters
  <2>4. CASE r \in Unprivileged
    BY <2>4 DEF InitialBank, Registers, Unprivileged, Values, Addresses, Counters
  <2> QED
    BY <2>1, <2>2, <2>3, <2>4 DEF Registers
<1>4. DOMAIN InitialBank = Registers
  BY DEF InitialBank
<1>5. TypeOK
  BY <1>1, <1>2, <1>3, <1>4, ControllerAssumption
  DEF Init, TypeOK, Stages, Classes, Trap, TrapStates
<1> QED
  BY <1>5 DEF Init, IInv, PendingExclusive, NoPendingWhileRunning, StartsIdle,
              FallsThrough, LeftByExecute

\* An exception raised for an address of the instruction or of its data.
LEMMA NewTrapTyped ==
  ASSUME NEW mepc \in Words, NEW cause \in MCause, NEW mtval \in Words
  PROVE  /\ NewTrap(mepc, cause, mtval) \in Trap
         /\ NewTrap(mepc, cause, mtval).trapState = "SetCSRJump"
         /\ NewTrap(mepc, cause, mtval).mepc = mepc
         /\ NewTrap(mepc, cause, mtval).mcause = cause
         /\ NewTrap(mepc, cause, mtval).mtval = mtval
<1>1. 0 \in Words
  BY CSRAssumption DEF Words
<1> QED
  BY <1>1 DEF NewTrap, Trap, TrapStates

LEMMA NoWaitTrapIInv ==
  ASSUME IInv, NoWaitTrap
  PROVE  IInv'
<1> USE DEF IInv
<1>1. /\ stage = "wait"
      /\ UNCHANGED <<instr, pc, pcPlus4, thrown>>
  BY DEF NoWaitTrap
<1>2. trap \in Trap /\ branchAddress \in Words /\ branchAddressValid \in BOOLEAN
  BY DEF TypeOK
<1>3. BankOK(csr) /\ BankOK(Counted)
  BY TypeBank, CountedBank
<1>4. CASE GoOn
  <2>1. /\ stage' = "advance" /\ csr' = Counted
        /\ branchAddressValid' = branchAddressValid /\ branchAddress' = branchAddress
        /\ trap' = trap /\ trap.trapState = "Idle"
    BY <1>4 DEF GoOn, branch
  <2>2. TypeOK'
    BY <1>1, <1>3, <2>1 DEF TypeOK, BankOK, Stages
  <2> QED
    BY <2>1, <2>2 DEF PendingExclusive, NoPendingWhileRunning, StartsIdle,
                      FallsThrough, LeftByExecute
<1>5. CASE SetCSRJump
  <2>1. /\ stage' = "wait" /\ trap.trapState = "SetCSRJump"
        /\ branchAddressValid' = branchAddressValid /\ branchAddress' = branchAddress
    BY <1>5 DEF SetCSRJump, branch
  <2>2. trap' = [trap EXCEPT !.pcToSet = Vector(csr["mtvec"], trap.mcause),
                             !.trapState = "SetPc"]
    BY <1>5 DEF SetCSRJump
  <2>3. Vector(csr["mtvec"], trap.mcause) \in Words
    BY <1>2, <1>3, BankTypes, VectorIsWord DEF Addresses, Trap
  <2>4. trap' \in Trap /\ trap'.trapState = "SetPc"
    BY <1>2, <2>2, <2>3 DEF Trap, TrapStates
  <2>5. BankOK(csr')
    <3>1. csr' = [Counted EXCEPT !["mepc"] = trap.mepc, !["mcause"] = trap.mcause,
                    !["mtval"] = trap.mtval, !["mstatus"] = EnterTrap(Counted["mstatus"])]
      BY <1>5 DEF SetCSRJump
    <3>2. EnterTrap(Counted["mstatus"]) \in SUBSET StatusBits
      BY <1>3, BankTypes DEF EnterTrap, StatusBits
    <3>3. trap.mepc \in Words /\ trap.mcause \in MCause /\ trap.mtval \in Words
      BY <1>2 DEF Trap
    <3>4. Values("mepc") = Words /\ Values("mtval") = Words
      BY ValuesOf DEF Addresses
    <3> QED
      BY <1>3, <3>1, <3>2, <3>3, <3>4, ValuesOf DEF BankOK, Registers, Addresses
  <2>6. TypeOK'
    BY <1>1, <1>2, <2>1, <2>4, <2>5 DEF TypeOK, BankOK, Stages
  <2>7. ~branchAddressValid
    BY <2>1 DEF PendingExclusive
  <2> QED
    BY <2>1, <2>6, <2>7 DEF PendingExclusive, NoPendingWhileRunning, StartsIdle,
                            FallsThrough, LeftByExecute
<1>6. CASE SetPc
  <2>1. /\ stage' = "advance" /\ csr' = Counted
        /\ trap' = [trap EXCEPT !.trapState = "Idle"]
        /\ branchAddress' = trap.pcToSet /\ branchAddressValid' = TRUE
    BY <1>6 DEF SetPc, SetBranchAddress
  <2>2. trap' \in Trap /\ trap'.trapState = "Idle" /\ trap.pcToSet \in Words
    BY <1>2, <2>1 DEF Trap, TrapStates
  <2>3. TypeOK'
    BY <1>1, <1>3, <2>1, <2>2 DEF TypeOK, BankOK, Stages
  <2> QED
    BY <2>1, <2>2, <2>3 DEF PendingExclusive, NoPendingWhileRunning, StartsIdle,
                            FallsThrough, LeftByExecute
<1>7. CASE ReturnFromTrap
  <2>1. /\ stage' = "wait" /\ trap.trapState = "ReturnFromTrap"
        /\ branchAddressValid' = branchAddressValid /\ branchAddress' = branchAddress
    BY <1>7 DEF ReturnFromTrap, branch
  <2>2. trap' = [trap EXCEPT !.pcToSet = (csr["mepc"] + 4) % WordMod, !.trapState = "SetPc"]
    BY <1>7 DEF ReturnFromTrap
  <2>3. (csr["mepc"] + 4) % WordMod \in Words
    <3>1. csr["mepc"] + 4 \in Int
      BY <1>3, BankTypes, CSRAssumption DEF Addresses, Words
    <3> QED
      BY <3>1, Wraps
  <2>4. trap' \in Trap /\ trap'.trapState = "SetPc"
    BY <1>2, <2>2, <2>3 DEF Trap, TrapStates
  <2>5. BankOK(csr')
    <3>1. csr' = [Counted EXCEPT !["mstatus"] = LeaveTrap(Counted["mstatus"])]
      BY <1>7 DEF ReturnFromTrap
    <3>2. LeaveTrap(Counted["mstatus"]) \in SUBSET StatusBits
      BY <1>3, BankTypes DEF LeaveTrap, StatusBits
    <3> QED
      BY <1>3, <3>1, <3>2, ValuesOf DEF BankOK, Registers
  <2>6. TypeOK'
    BY <1>1, <1>2, <2>1, <2>4, <2>5 DEF TypeOK, BankOK, Stages
  <2>7. ~branchAddressValid
    BY <2>1 DEF PendingExclusive
  <2> QED
    BY <2>1, <2>6, <2>7 DEF PendingExclusive, NoPendingWhileRunning, StartsIdle,
                            FallsThrough, LeftByExecute
<1> QED
  BY <1>4, <1>5, <1>6, <1>7 DEF NoWaitTrap

LEMMA StepIInv ==
  ASSUME IInv, Step
  PROVE  IInv'
<1> USE DEF IInv
<1> DEFINE bank == Increment64(csr, "instret", "instreth")
<1>1. /\ stage = "advance" /\ stage' = "fetch" /\ csr' = bank
      /\ pc' = (IF branchAddressValid THEN branchAddress ELSE pcPlus4)
      /\ pcPlus4' = (pc' + 4) % WordMod
      /\ branchAddressValid' = FALSE
      /\ UNCHANGED <<instr, branchAddress, trap, thrown>>
  BY DEF Step
<1>2. BankOK(bank)
  BY RetiredBank
<1>3. pc' \in Words
  BY <1>1 DEF TypeOK
<1>4. pcPlus4' \in Words
  <2>1. pc' + 4 \in Int
    BY <1>3, CSRAssumption DEF Words
  <2> QED
    BY <1>1, <2>1, Wraps
<1>5. TypeOK'
  <2> HIDE DEF bank
  <2> QED
    BY <1>1, <1>2, <1>3, <1>4 DEF TypeOK, BankOK, Stages
<1>6. trap'.trapState = "Idle"
  BY <1>1 DEF StartsIdle
<1> QED
  BY <1>1, <1>5, <1>6 DEF PendingExclusive, NoPendingWhileRunning, StartsIdle,
                          FallsThrough, LeftByExecute

LEMMA FetchIInv ==
  ASSUME IInv, OutOfMemory \/ Decode \/ DecodeIllegal
  PROVE  IInv'
<1> USE DEF IInv
<1>1. /\ stage = "fetch" /\ trap.trapState = "Idle" /\ ~branchAddressValid
      /\ UNCHANGED <<branchAddressValid, branchAddress, pc, pcPlus4, csr, thrown>>
  BY DEF OutOfMemory, Decode, DecodeIllegal, NoPendingWhileRunning, branch
<1>2. CASE OutOfMemory
  <2>1. stage' = "halt" /\ UNCHANGED <<instr, trap>>
    BY <1>2 DEF OutOfMemory
  <2>2. TypeOK'
    BY <1>1, <2>1 DEF TypeOK, Stages
  <2> QED
    BY <1>1, <2>1, <2>2 DEF PendingExclusive, NoPendingWhileRunning, StartsIdle,
                            FallsThrough, LeftByExecute
<1>3. CASE Decode
  <2>1. stage' = "execute" /\ instr' \in Classes /\ UNCHANGED trap
    BY <1>3 DEF Decode
  <2>2. TypeOK'
    BY <1>1, <2>1 DEF TypeOK, Stages
  <2> QED
    BY <1>1, <2>1, <2>2 DEF PendingExclusive, NoPendingWhileRunning, StartsIdle,
                            FallsThrough, LeftByExecute
<1>4. CASE DecodeIllegal
  <2>1. stage' = "wait" /\ UNCHANGED instr
    BY <1>4 DEF DecodeIllegal
  <2>2. PICK opcode \in Opcodes : trap' = NewTrap(pc, IllegalInstruction, opcode)
    BY <1>4 DEF DecodeIllegal
  <2>3. pc \in Words /\ opcode \in Words /\ IllegalInstruction \in MCause
    BY ControllerAssumption DEF TypeOK, IllegalInstruction
  <2>4. trap' \in Trap
    BY <2>2, <2>3, NewTrapTyped
  <2>5. TypeOK'
    BY <1>1, <2>1, <2>4 DEF TypeOK, Stages
  <2> QED
    BY <1>1, <2>1, <2>5 DEF PendingExclusive, NoPendingWhileRunning, StartsIdle,
                            FallsThrough, LeftByExecute
<1> QED
  BY <1>2, <1>3, <1>4

\* What execute can do, whatever the instruction.
LEMMA ExecuteCases ==
  ASSUME Execute
  PROVE  \/ NoCall
         \/ instr \in Jumps /\ TakeJump
         \/ /\ instr \in Raisers
            /\ \E cause \in Causes, mtval \in Opcodes : TrapException(pc, cause, mtval)
         \/ instr \in Raisers /\ TrapReturn
<1>1. Illegal => \E cause \in Causes, mtval \in Opcodes : TrapException(pc, cause, mtval)
  BY ControllerAssumption DEF Illegal, IllegalInstruction
<1>2. CASE ExecuteAlu \/ ExecuteCsr \/ ExecuteJump \/ ExecuteBranch
  BY <1>1, <1>2 DEF ExecuteAlu, ExecuteCsr, ExecuteJump, ExecuteBranch, Jumps, Raisers
<1>3. CASE ExecuteLoad \/ ExecuteStore \/ ExecuteAtomic
  BY <1>1, <1>3 DEF ExecuteLoad, ExecuteStore, ExecuteAtomic, Raisers
<1>4. CASE ExecuteSystem
  BY <1>1, <1>4, ControllerAssumption DEF ExecuteSystem, Raisers
<1> QED
  BY <1>2, <1>3, <1>4 DEF Execute

LEMMA ExecuteIInv ==
  ASSUME IInv, Execute
  PROVE  IInv'
<1> USE DEF IInv
<1>1. /\ stage = "execute" /\ stage' = "memory"
      /\ trap.trapState = "Idle" /\ trap \in Trap /\ branchAddressValid = FALSE
      /\ UNCHANGED <<instr, pc, pcPlus4, csr, thrown>>
  BY DEF Execute, NoPendingWhileRunning, TypeOK
<1>2. FallsThrough'
  BY <1>1 DEF FallsThrough
<1>3. SUFFICES /\ trap' \in Trap /\ branchAddress' \in Words /\ branchAddressValid' \in BOOLEAN
               /\ PendingExclusive' /\ LeftByExecute'
  BY <1>1, <1>2 DEF TypeOK, Stages, NoPendingWhileRunning, StartsIdle
<1>4. CASE NoCall
  BY <1>1, <1>4 DEF NoCall, branch, TypeOK, PendingExclusive, LeftByExecute
<1>5. CASE instr \in Jumps /\ TakeJump
  <2>1. trap' = trap /\ branchAddress' \in Targets /\ branchAddressValid' = TRUE
    BY <1>5 DEF TakeJump, SetBranchAddress
  <2> QED
    BY <1>1, <1>5, <2>1, ControllerAssumption DEF PendingExclusive, LeftByExecute
<1>6. ASSUME instr \in Raisers, NEW cause \in Causes, NEW mtval \in Opcodes,
             TrapException(pc, cause, mtval)
      PROVE  /\ trap' \in Trap /\ branchAddress' \in Words /\ branchAddressValid' \in BOOLEAN
             /\ PendingExclusive' /\ LeftByExecute'
  <2>1. pc \in Words /\ cause \in MCause /\ mtval \in Words /\ branchAddress \in Words
    BY <1>6, ControllerAssumption DEF TypeOK
  <2>2. /\ trap' = NewTrap(pc, cause, mtval)
        /\ branchAddressValid' = FALSE /\ branchAddress' = branchAddress
    BY <1>1, <1>6 DEF TrapException, branch
  <2>3. /\ trap' \in Trap /\ trap'.trapState = "SetCSRJump" /\ trap'.mepc = pc
        /\ trap'.mcause = cause /\ trap'.mtval = mtval
    BY <2>1, <2>2, NewTrapTyped
  <2>4. PendingExclusive'
    BY <2>2 DEF PendingExclusive
  <2>5. instr' \in Raisers /\ pc' = pc
    BY <1>1, <1>6
  <2>6. LeftByExecute'
    BY <1>6, <2>2, <2>3, <2>5 DEF LeftByExecute
  <2> QED
    BY <2>1, <2>2, <2>3, <2>4, <2>6
<1>7. CASE instr \in Raisers /\ TrapReturn
  <2>1. /\ trap' = [trap EXCEPT !.trapState = "ReturnFromTrap"]
        /\ branchAddressValid' = FALSE /\ branchAddress' = branchAddress
    BY <1>1, <1>7 DEF TrapReturn, branch
  <2>2. trap' \in Trap /\ trap'.trapState = "ReturnFromTrap"
    BY <1>1, <2>1 DEF Trap, TrapStates
  <2> QED
    BY <1>1, <1>7, <2>1, <2>2 DEF TypeOK, PendingExclusive, LeftByExecute
<1> QED
  BY <1>4, <1>5, <1>6, <1>7, ExecuteCases

\* What memoryAccess can do, whatever the instruction.
CsrKept == stage' = "wait" /\ csr' = csr /\ thrown' = thrown

Refusal(addr, cause, opcode) == CsrKept /\ TrapException(addr, cause, opcode)

Writing(r, v) ==
  /\ instr = "csr" /\ MayWrite(r, FALSE) /\ csr' = [csr EXCEPT ![r] = v]
  /\ stage' = "wait" /\ thrown' = thrown /\ NoCall

LEMMA MemoryAccessCases ==
  ASSUME MemoryAccess
  PROVE  \/ CsrKept /\ NoCall
         \/ /\ instr \in {"load", "store", "atomic", "csr"}
            /\ \E addr \in DataAddrs \cup {pc}, cause \in Causes, opcode \in Opcodes :
                 Refusal(addr, cause, opcode)
         \/ \E r \in Registers : \E v \in Writes(r) : Writing(r, v)
         \/ AccessCsrThrows
<1>1. ASSUME NEW addr, NEW causes, Refuse(addr, causes)
      PROVE  \E cause \in Causes, opcode \in Opcodes : TrapException(addr, cause, opcode)
  BY <1>1 DEF Refuse
<1>2. CASE (AccessNone \/ AccessLoad \/ AccessStore \/ AccessAtomic) /\ csr' = csr /\ Retire
  <2>1. CsrKept
    BY <1>2 DEF Retire, CsrKept
  <2>2. CASE NoCall
    BY <2>1, <2>2
  <2>3. CASE ~NoCall
    <3>1. instr \in {"load", "store", "atomic", "csr"}
      BY <1>2, <2>3 DEF AccessNone, AccessLoad, AccessStore, AccessAtomic
    <3>2. \E addr \in DataAddrs \cup {pc}, cause \in Causes, opcode \in Opcodes :
            TrapException(addr, cause, opcode)
      BY <1>1, <1>2, <2>3 DEF AccessNone, AccessLoad, AccessStore, AccessAtomic
    <3> QED
      BY <2>1, <3>1, <3>2 DEF Refusal
  <2> QED
    BY <2>2, <2>3
<1>3. CASE AccessCsr /\ Retire
  <2>1. instr = "csr" /\ stage' = "wait" /\ thrown' = thrown
    BY <1>3 DEF AccessCsr, Retire
  <2>2. CASE csr' = csr /\ NoCall
    BY <2>1, <2>2 DEF CsrKept
  <2>3. CASE csr' = csr /\ Illegal
    <3>1. \E opcode \in Opcodes : TrapException(pc, IllegalInstruction, opcode)
      BY <2>3 DEF Illegal
    <3>2. IllegalInstruction \in Causes
      BY ControllerAssumption DEF IllegalInstruction
    <3> QED
      BY <2>1, <2>3, <3>1, <3>2 DEF Refusal, CsrKept
  <2>4. CASE (\E r \in Registers : /\ MayWrite(r, FALSE)
                                  /\ \E v \in Writes(r) : csr' = [csr EXCEPT ![r] = v]) /\ NoCall
    BY <2>1, <2>4 DEF Writing
  <2> QED
    BY <1>3, <2>2, <2>3, <2>4 DEF AccessCsr
<1> QED
  BY <1>2, <1>3 DEF MemoryAccess

LEMMA MemoryAccessIInv ==
  ASSUME IInv, MemoryAccess
  PROVE  IInv'
<1> USE DEF IInv
<1>1. /\ stage = "memory" /\ UNCHANGED <<pc, pcPlus4>>
      /\ instr' \in Classes \cup {"none"}
  BY DEF MemoryAccess, Retire, AccessCsrThrows, TypeOK
<1>2. ASSUME stage' \in {"wait", "halt"}, BankOK(csr'), thrown' \in Registers \cup {"none"},
             trap' \in Trap, PendingExclusive',
             UNCHANGED <<branchAddressValid, branchAddress>>
      PROVE  IInv'
  <2>1. TypeOK'
    BY <1>1, <1>2 DEF TypeOK, BankOK, Stages
  <2> QED
    BY <1>2, <2>1 DEF NoPendingWhileRunning, StartsIdle, FallsThrough, LeftByExecute
<1>3. BankOK(csr) /\ trap \in Trap /\ thrown \in Registers \cup {"none"} /\ pc \in Words
  BY TypeBank DEF TypeOK
<1>4. CASE CsrKept /\ NoCall
  BY <1>2, <1>3, <1>4 DEF CsrKept, NoCall, branch, PendingExclusive
<1>5. ASSUME instr \in {"load", "store", "atomic", "csr"},
             NEW addr \in DataAddrs \cup {pc}, NEW cause \in Causes, NEW opcode \in Opcodes,
             Refusal(addr, cause, opcode)
      PROVE  IInv'
  <2>1. trap' = NewTrap(addr, cause, opcode) /\ UNCHANGED <<branchAddressValid, branchAddress>>
    BY <1>5 DEF Refusal, TrapException, branch
  <2>2. trap' \in Trap
    BY <1>3, <2>1, NewTrapTyped, ControllerAssumption
  <2>3. ~branchAddressValid
    BY <1>1, <1>5 DEF LeftByExecute, Jumps
  <2> QED
    BY <1>2, <1>3, <1>5, <2>1, <2>2, <2>3 DEF Refusal, CsrKept, PendingExclusive
<1>6. ASSUME NEW r \in Registers, NEW v \in Writes(r), Writing(r, v)
      PROVE  IInv'
  <2>1. BankOK(csr')
    BY <1>3, <1>6, WritesTyped DEF BankOK, Writing
  <2> QED
    BY <1>2, <1>3, <1>6, <2>1 DEF Writing, NoCall, branch, PendingExclusive
<1>7. CASE AccessCsrThrows
  BY <1>2, <1>3, <1>7 DEF AccessCsrThrows, branch, PendingExclusive
<1> QED
  BY <1>4, <1>5, <1>6, <1>7, MemoryAccessCases

LEMMA StutterIInv ==
  ASSUME IInv, UNCHANGED vars
  PROVE  IInv'
BY DEF IInv, TypeOK, PendingExclusive, NoPendingWhileRunning, StartsIdle, FallsThrough,
       LeftByExecute, vars

\* The invariant is inductive, and so holds of every reachable state.
THEOREM Invariance == Spec => []IInv
<1>1. IInv /\ [Next]_vars => IInv'
  <2> SUFFICES ASSUME IInv, [Next]_vars PROVE IInv'
    OBVIOUS
  <2>1. CASE NoWaitTrap
    BY <2>1, NoWaitTrapIInv
  <2>2. CASE Step
    BY <2>2, StepIInv
  <2>3. CASE OutOfMemory \/ Decode \/ DecodeIllegal
    BY <2>3, FetchIInv
  <2>4. CASE Execute
    BY <2>4, ExecuteIInv
  <2>5. CASE MemoryAccess
    BY <2>5, MemoryAccessIInv
  <2>6. CASE UNCHANGED vars
    BY <2>6, StutterIInv
  <2> QED
    BY <2>1, <2>2, <2>3, <2>4, <2>5, <2>6 DEF Next, Turn, Ended
<1> QED
  BY InitIInv, <1>1, PTL DEF Spec

-----------------------------------------------------------------------------
(* The properties of Controller.                                           *)

\* Every variable keeps its type: addresses and counters wrap, register values
\* stay in the registers' ranges.
THEOREM Typing == Spec => []TypeOK
<1>1. IInv => TypeOK
  BY DEF IInv
<1> QED
  BY Invariance, <1>1, PTL

\* A jump and a trap are never both pending.
THEOREM Exclusion == Spec => []PendingExclusive
<1>1. IInv => PendingExclusive
  BY DEF IInv
<1> QED
  BY Invariance, <1>1, PTL

\* No instruction is fetched or executed while a trap or a branch is pending.
THEOREM NoneWhilePending == Spec => []NoPendingWhileRunning
<1>1. IInv => NoPendingWhileRunning
  BY DEF IInv
<1> QED
  BY Invariance, <1>1, PTL

\* What counting one pair does to both.
LEMMA CountPair ==
  ASSUME TypeOK, NEW lo \in Counters, NEW hi \in Counters, lo # hi,
         csr' = Increment64(csr, lo, hi)
  PROVE  Total(csr', lo, hi) = PlusOneIf(Total(csr, lo, hi), TRUE)
BY TypeBank, IncrementCounts DEF PlusOneIf

LEMMA KeepPair ==
  ASSUME TypeOK, NEW lo \in Counters, NEW hi \in Counters,
         csr'[lo] = csr[lo], csr'[hi] = csr[hi]
  PROVE  Total(csr', lo, hi) = PlusOneIf(Total(csr, lo, hi), FALSE)
<1>1. Total(csr', lo, hi) = Total(csr, lo, hi)
  BY DEF Total
<1>2. BankOK(csr) /\ csr[lo] \in Int /\ csr[hi] \in Int
  BY TypeBank, BankTypes, CSRAssumption DEF Halves
<1>3. Total(csr, lo, hi) \in Int
  BY <1>2, CSRAssumption DEF Total
<1>4. Total(csr, lo, hi) + 0 = Total(csr, lo, hi)
  BY <1>3
<1> QED
  BY <1>1, <1>2, <1>4, TotalKept DEF PlusOneIf

\* The counters count, and nothing else moves them.
THEOREM Counting == Spec => CountersExact
<1>1. ASSUME IInv, [Next]_vars PROVE [CountersStep]_vars
  <2>1. TypeOK /\ BankOK(csr)
    BY <1>1, TypeBank DEF IInv
  <2>2. "cycle" # "cycleh" /\ "instret" # "instreth" /\ Counters \subseteq Registers
    BY DEF Registers
  <2>3. {"cycle", "cycleh", "instret", "instreth"} = Counters
    BY DEF Counters
  <2>4. ASSUME stage \notin {"wait", "advance"}, \A r \in Counters : csr'[r] = csr[r]
        PROVE  CountersStep
    <3>1. Total(csr', "cycle", "cycleh") = PlusOneIf(Total(csr, "cycle", "cycleh"), FALSE)
      BY <2>1, <2>3, <2>4, KeepPair
    <3>2. Total(csr', "instret", "instreth") = PlusOneIf(Total(csr, "instret", "instreth"), FALSE)
      BY <2>1, <2>3, <2>4, KeepPair
    <3> QED
      BY <3>1, <3>2, <2>4 DEF CountersStep, PlusOneIf
  <2>5. CASE NoWaitTrap
    <3>1. stage = "wait"
      BY <2>5 DEF NoWaitTrap
    <3>2. \A r \in Counters : csr'[r] = Counted[r]
      BY <2>1, <2>2, <2>5, CountedBank
      DEF NoWaitTrap, GoOn, SetCSRJump, SetPc, ReturnFromTrap, Counters, BankOK
    <3>3. Total(csr', "cycle", "cycleh") = Total(Counted, "cycle", "cycleh")
      BY <2>3, <3>2 DEF Total
    <3>4. Total(Counted, "cycle", "cycleh") = PlusOneIf(Total(csr, "cycle", "cycleh"), TRUE)
      BY <2>1, <2>2, <2>3, IncrementCounts DEF Counted, PlusOneIf
    <3>5. csr'["instret"] = csr["instret"] /\ csr'["instreth"] = csr["instreth"]
      BY <2>1, <2>2, <2>3, <3>2, CountedBank
    <3>6. Total(csr', "instret", "instreth") = PlusOneIf(Total(csr, "instret", "instreth"), FALSE)
      BY <2>1, <2>3, <3>5, KeepPair
    <3> QED
      BY <3>1, <3>3, <3>4, <3>6 DEF CountersStep, PlusOneIf
  <2>6. CASE Step
    <3>1. stage = "advance" /\ csr' = Increment64(csr, "instret", "instreth")
      BY <2>6 DEF Step
    <3>2. csr'["cycle"] = csr["cycle"] /\ csr'["cycleh"] = csr["cycleh"]
      BY <2>1, <2>2, <2>3, <3>1, RetiredBank
    <3>3. Total(csr', "instret", "instreth") = PlusOneIf(Total(csr, "instret", "instreth"), TRUE)
      BY <2>1, <2>2, <2>3, <3>1, CountPair
    <3>4. Total(csr', "cycle", "cycleh") = PlusOneIf(Total(csr, "cycle", "cycleh"), FALSE)
      BY <2>1, <2>3, <3>2, KeepPair
    <3> QED
      BY <3>1, <3>3, <3>4 DEF CountersStep, PlusOneIf
  <2>7. CASE OutOfMemory \/ Decode \/ DecodeIllegal \/ Execute
    <3>1. stage \notin {"wait", "advance"} /\ csr' = csr
      BY <2>7 DEF OutOfMemory, Decode, DecodeIllegal, Execute
    <3> QED
      BY <2>4, <3>1
  <2>8. CASE MemoryAccess
    <3>1. stage = "memory"
      BY <2>8 DEF MemoryAccess
    <3>2. ASSUME NEW r \in Registers, NEW v \in Writes(r), Writing(r, v)
          PROVE  CountersStep
      <4>1. MayWrite(r, FALSE) /\ csr' = [csr EXCEPT ![r] = v]
        BY <3>2 DEF Writing
      <4>2. r \notin Counters
        BY <4>1, WritableRegisters DEF Counters
      <4>3. \A q \in Counters : csr'[q] = csr[q]
        BY <2>1, <2>2, <4>1, <4>2 DEF BankOK
      <4> QED
        BY <2>4, <3>1, <4>3
    <3>3. CASE csr' = csr
      BY <2>4, <3>1, <3>3
    <3>4. csr' = csr \/ \E r \in Registers : \E v \in Writes(r) : Writing(r, v)
      BY <2>8, MemoryAccessCases DEF CsrKept, Refusal, AccessCsrThrows
    <3> QED
      BY <3>2, <3>3, <3>4
  <2> QED
    BY <1>1, <2>5, <2>6, <2>7, <2>8 DEF Next, Turn, Ended
<1>2. IInv /\ [Next]_vars => [CountersStep]_vars
  BY <1>1
<1> QED
  BY Invariance, <1>2, PTL DEF Spec, CountersExact

-----------------------------------------------------------------------------
(* Controller implements Flow.                                             *)

Visible == {"mstatus", "mcause", "mtvec", "mepc", "mtval"}

LEMMA VisibleKept ==
  ASSUME TypeOK
  PROVE  \A r \in Visible : /\ Counted[r] = csr[r]
                            /\ Increment64(csr, "instret", "instreth")[r] = csr[r]
<1>1. Visible \subseteq Registers \ {"cycle", "cycleh", "instret", "instreth"}
  BY DEF Visible, Registers, Addresses
<1> QED
  BY <1>1, CountedBank, RetiredBank

\* The interrupt enable through a trap and its return.
LEMMA EnterBits ==
  ASSUME NEW s \in SUBSET StatusBits
  PROVE  /\ ("MIE" \in EnterTrap(s)) = FALSE
         /\ ("MPIE" \in EnterTrap(s)) = ("MIE" \in s)
BY DEF EnterTrap

LEMMA LeaveBits ==
  ASSUME NEW s \in SUBSET StatusBits
  PROVE  /\ ("MIE" \in LeaveTrap(s)) = ("MPIE" \in s)
         /\ ("MPIE" \in LeaveTrap(s)) = FALSE
BY DEF LeaveTrap

\* A step that changes nothing a program sees is a stutter of Flow.
LEMMA Stutters ==
  ASSUME nextBar' = nextBar, statusBar' = statusBar, csr'["mtvec"] = csr["mtvec"],
         mepcBar' = mepcBar, mcauseBar' = mcauseBar, mtvalBar' = mtvalBar,
         stage # "halt", stage' # "halt"
  PROVE  UNCHANGED F!vars
BY DEF F!vars

LEMMA NoWaitTrapStutters ==
  ASSUME IInv, NoWaitTrap
  PROVE  UNCHANGED F!vars
<1>1. stage = "wait" /\ TypeOK /\ trap \in Trap /\ pcPlus4' = pcPlus4
  BY DEF NoWaitTrap, IInv, TypeOK
<1>2. \A r \in Visible : Counted[r] = csr[r]
  BY <1>1, VisibleKept
<1>3. "mstatus" \in Visible /\ "mcause" \in Visible /\ "mtvec" \in Visible
      /\ "mepc" \in Visible /\ "mtval" \in Visible
  BY DEF Visible
<1>4. CASE GoOn
  <2>1. /\ stage' = "advance" /\ csr' = Counted /\ trap' = trap /\ trap.trapState = "Idle"
        /\ branchAddressValid' = branchAddressValid /\ branchAddress' = branchAddress
    BY <1>4 DEF GoOn, branch
  <2>2. nextBar' = nextBar
    BY <1>1, <2>1 DEF nextBar
  <2>3. statusBar' = statusBar /\ mepcBar' = mepcBar /\ mcauseBar' = mcauseBar /\ mtvalBar' = mtvalBar
    BY <1>1, <1>2, <1>3, <2>1 DEF statusBar, mepcBar, mcauseBar, mtvalBar, entering, leaving
  <2> QED
    BY <1>1, <1>2, <1>3, <2>1, <2>2, <2>3, Stutters
<1>5. CASE SetCSRJump
  <2>1. /\ stage' = "wait" /\ trap.trapState = "SetCSRJump"
        /\ trap' = [trap EXCEPT !.pcToSet = Vector(csr["mtvec"], trap.mcause),
                                !.trapState = "SetPc"]
        /\ csr' = [Counted EXCEPT !["mepc"] = trap.mepc, !["mcause"] = trap.mcause,
                     !["mtval"] = trap.mtval, !["mstatus"] = EnterTrap(Counted["mstatus"])]
    BY <1>5 DEF SetCSRJump
  <2>2. /\ trap'.trapState = "SetPc" /\ trap'.pcToSet = Vector(csr["mtvec"], trap.mcause)
    BY <1>1, <2>1 DEF Trap
  <2>3. /\ csr'["mepc"] = trap.mepc /\ csr'["mcause"] = trap.mcause /\ csr'["mtval"] = trap.mtval
        /\ csr'["mstatus"] = EnterTrap(csr["mstatus"]) /\ csr'["mtvec"] = csr["mtvec"]
    BY <1>1, <1>2, <1>3, <2>1, CountedBank DEF BankOK, Registers, Addresses
  <2>4. nextBar' = nextBar
    BY <1>1, <2>1, <2>2 DEF nextBar
  <2>5. statusBar' = statusBar /\ mepcBar' = mepcBar /\ mcauseBar' = mcauseBar /\ mtvalBar' = mtvalBar
    BY <1>1, <2>1, <2>2, <2>3 DEF statusBar, mepcBar, mcauseBar, mtvalBar, entering, leaving
  <2> QED
    BY <1>1, <2>1, <2>3, <2>4, <2>5, Stutters
<1>6. CASE SetPc
  <2>1. /\ stage' = "advance" /\ csr' = Counted /\ trap.trapState = "SetPc"
        /\ trap' = [trap EXCEPT !.trapState = "Idle"]
        /\ branchAddress' = trap.pcToSet /\ branchAddressValid' = TRUE
    BY <1>6 DEF SetPc, SetBranchAddress
  <2>2. trap'.trapState = "Idle"
    BY <1>1, <2>1 DEF Trap
  <2>3. nextBar' = nextBar
    BY <1>1, <2>1, <2>2 DEF nextBar
  <2>4. statusBar' = statusBar /\ mepcBar' = mepcBar /\ mcauseBar' = mcauseBar /\ mtvalBar' = mtvalBar
    BY <1>1, <1>2, <1>3, <2>1, <2>2 DEF statusBar, mepcBar, mcauseBar, mtvalBar, entering, leaving
  <2> QED
    BY <1>1, <1>2, <1>3, <2>1, <2>3, <2>4, Stutters
<1>7. CASE ReturnFromTrap
  <2>1. /\ stage' = "wait" /\ trap.trapState = "ReturnFromTrap"
        /\ trap' = [trap EXCEPT !.pcToSet = (csr["mepc"] + 4) % WordMod, !.trapState = "SetPc"]
        /\ csr' = [Counted EXCEPT !["mstatus"] = LeaveTrap(Counted["mstatus"])]
    BY <1>7 DEF ReturnFromTrap
  <2>2. trap'.trapState = "SetPc" /\ trap'.pcToSet = (csr["mepc"] + 4) % WordMod
    BY <1>1, <2>1 DEF Trap
  <2>3. /\ csr'["mstatus"] = LeaveTrap(csr["mstatus"])
        /\ csr'["mtvec"] = csr["mtvec"] /\ csr'["mepc"] = csr["mepc"]
        /\ csr'["mcause"] = csr["mcause"] /\ csr'["mtval"] = csr["mtval"]
    BY <1>1, <1>2, <1>3, <2>1, CountedBank DEF BankOK, Registers, Addresses
  <2>4. nextBar' = nextBar
    BY <1>1, <2>1, <2>2 DEF nextBar
  <2>5. statusBar' = statusBar /\ mepcBar' = mepcBar /\ mcauseBar' = mcauseBar /\ mtvalBar' = mtvalBar
    BY <1>1, <2>1, <2>2, <2>3 DEF statusBar, mepcBar, mcauseBar, mtvalBar, entering, leaving
  <2> QED
    BY <1>1, <2>1, <2>3, <2>4, <2>5, Stutters
<1> QED
  BY <1>4, <1>5, <1>6, <1>7 DEF NoWaitTrap

LEMMA StepStutters ==
  ASSUME IInv, Step
  PROVE  UNCHANGED F!vars
<1>1. /\ stage = "advance" /\ stage' = "fetch" /\ trap' = trap /\ trap.trapState = "Idle"
      /\ csr' = Increment64(csr, "instret", "instreth")
      /\ pc' = (IF branchAddressValid THEN branchAddress ELSE pcPlus4)
  BY DEF Step, IInv, StartsIdle
<1>2. \A r \in Visible : csr'[r] = csr[r]
  BY <1>1, VisibleKept DEF IInv
<1>3. /\ csr'["mstatus"] = csr["mstatus"] /\ csr'["mcause"] = csr["mcause"]
      /\ csr'["mtvec"] = csr["mtvec"] /\ csr'["mepc"] = csr["mepc"] /\ csr'["mtval"] = csr["mtval"]
  BY <1>2 DEF Visible
<1>4. nextBar' = nextBar
  BY <1>1 DEF nextBar
<1>5. statusBar' = statusBar /\ mepcBar' = mepcBar /\ mcauseBar' = mcauseBar /\ mtvalBar' = mtvalBar
  BY <1>1, <1>3 DEF statusBar, mepcBar, mcauseBar, mtvalBar, entering, leaving
<1> QED
  BY <1>1, <1>3, <1>4, <1>5, Stutters

LEMMA ExecuteStutters ==
  ASSUME IInv, Decode \/ Execute
  PROVE  UNCHANGED F!vars
<1>1. /\ stage \in {"fetch", "execute"} /\ stage' \in {"execute", "memory"}
      /\ pc' = pc /\ csr' = csr
  BY DEF Decode, Execute
<1>2. nextBar' = nextBar
  BY <1>1 DEF nextBar
<1>3. statusBar' = statusBar /\ mepcBar' = mepcBar /\ mcauseBar' = mcauseBar /\ mtvalBar' = mtvalBar
  BY <1>1 DEF statusBar, mepcBar, mcauseBar, mtvalBar, entering, leaving
<1> QED
  BY <1>1, <1>2, <1>3, Stutters

\* While an instruction is under way the program sees the state it started in.
LEMMA UnderWay ==
  ASSUME stage \in {"fetch", "execute", "memory", "halt"}
  PROVE  /\ nextBar = pc /\ statusBar = csr["mstatus"]
         /\ mepcBar = csr["mepc"] /\ mcauseBar = csr["mcause"] /\ mtvalBar = csr["mtval"]
BY DEF nextBar, statusBar, mepcBar, mcauseBar, mtvalBar, entering, leaving

\* An instruction that ends with an exception pending is a trap of Flow.
LEMMA EndsInTrap ==
  ASSUME IInv, stage \in {"fetch", "memory"}, stage' = "wait", csr' = csr,
         trap'.trapState = "SetCSRJump", trap'.mepc \in DataAddrs \cup {pc},
         trap'.mcause \in Causes, trap'.mtval \in Opcodes
  PROVE  F!Next
<1>1. /\ nextBar = pc /\ statusBar = csr["mstatus"]
      /\ mepcBar = csr["mepc"] /\ mcauseBar = csr["mcause"] /\ mtvalBar = csr["mtval"]
  BY UnderWay
<1>2. entering' = TRUE
  BY DEF entering
<1>3. /\ nextBar' = Vector(csr["mtvec"], trap'.mcause)
      /\ statusBar' = EnterTrap(csr["mstatus"])
      /\ mepcBar' = trap'.mepc /\ mcauseBar' = trap'.mcause /\ mtvalBar' = trap'.mtval
  BY <1>2 DEF nextBar, statusBar, mepcBar, mcauseBar, mtvalBar
<1>4. csr["mstatus"] \in SUBSET StatusBits /\ csr["mtvec"] \in Words
  BY TypeBank, BankTypes DEF IInv, Addresses
<1>5. trap'.mcause \in MCause
  BY ControllerAssumption
<1>6. nextBar' = LET entry == IF mcauseBar'.interrupt THEN 12 + mcauseBar'.code ELSE mcauseBar'.code
                 IN (4 * (csr["mtvec"] \div 4) + 4 * entry) % WordMod
  BY <1>3, <1>4, <1>5, VectorIsEntry
<1>7. /\ ("MIE" \in statusBar') = FALSE
      /\ ("MPIE" \in statusBar') = ("MIE" \in statusBar)
  BY <1>1, <1>3, <1>4, EnterBits
<1>8. csr'["mtvec"] = csr["mtvec"]
  OBVIOUS
<1>9. F!Trap
  <2>1. mepcBar' \in DataAddrs \cup {nextBar} /\ mcauseBar' \in Causes /\ mtvalBar' \in Opcodes
    BY <1>1, <1>3
  <2> QED
    BY <1>6, <1>7, <1>8, <2>1 DEF F!Trap
<1>10. ~(stage = "halt") /\ UNCHANGED (stage = "halt")
  OBVIOUS
<1> QED
  BY <1>9, <1>10 DEF F!Next

\* One that ends with nothing pending but a jump of its own, or a return.
LEMMA EndsQuietly ==
  ASSUME IInv, stage = "memory", CsrKept, NoCall, UNCHANGED <<pc, pcPlus4>>
  PROVE  F!Next
<1>1. /\ nextBar = pc /\ statusBar = csr["mstatus"]
      /\ mepcBar = csr["mepc"] /\ mcauseBar = csr["mcause"] /\ mtvalBar = csr["mtval"]
  BY UnderWay
<1>2. /\ stage' = "wait" /\ trap' = trap /\ csr' = csr
      /\ branchAddressValid' = branchAddressValid /\ branchAddress' = branchAddress
  BY DEF CsrKept, NoCall, branch
<1>3. ~(stage = "halt") /\ UNCHANGED (stage = "halt")
  BY <1>2
<1>4. CASE trap.trapState = "Idle"
  <2>1. /\ statusBar' = csr["mstatus"]
        /\ mepcBar' = csr["mepc"] /\ mcauseBar' = csr["mcause"] /\ mtvalBar' = csr["mtval"]
    BY <1>2, <1>4 DEF statusBar, mepcBar, mcauseBar, mtvalBar, entering, leaving
  <2>2. nextBar' = IF branchAddressValid THEN branchAddress ELSE pcPlus4
    BY <1>2, <1>4 DEF nextBar
  <2>3. CASE branchAddressValid
    <3>1. nextBar' \in Targets
      BY <2>2, <2>3 DEF IInv, LeftByExecute
    <3>2. F!Jump
      BY <1>1, <1>2, <2>1, <3>1 DEF F!Jump
    <3> QED
      BY <1>3, <3>2 DEF F!Next
  <2>4. CASE ~branchAddressValid
    <3>1. nextBar' = (nextBar + 4) % WordMod
      BY <1>1, <2>2, <2>4 DEF IInv, FallsThrough
    <3>2. F!Plain
      BY <1>1, <1>2, <2>1, <3>1 DEF F!Plain, F!Follow
    <3> QED
      BY <1>3, <3>2 DEF F!Next
  <2> QED
    BY <2>3, <2>4
<1>5. CASE trap.trapState = "SetCSRJump"
  BY <1>2, <1>5, EndsInTrap DEF IInv, LeftByExecute
<1>6. CASE trap.trapState = "ReturnFromTrap"
  <2>1. ~entering' /\ leaving'
    BY <1>2, <1>6 DEF entering, leaving
  <2>2. /\ statusBar' = LeaveTrap(csr["mstatus"])
        /\ mepcBar' = csr["mepc"] /\ mcauseBar' = csr["mcause"] /\ mtvalBar' = csr["mtval"]
    BY <1>2, <2>1 DEF statusBar, mepcBar, mcauseBar, mtvalBar
  <2>3. nextBar' = (csr["mepc"] + 4) % WordMod
    BY <1>2, <1>6 DEF nextBar
  <2>4. csr["mstatus"] \in SUBSET StatusBits
    BY TypeBank, BankTypes DEF IInv
  <2>5. /\ ("MIE" \in statusBar') = ("MPIE" \in statusBar)
        /\ ("MPIE" \in statusBar') = FALSE
    BY <1>1, <2>2, <2>4, LeaveBits
  <2>6. F!Return
    BY <1>1, <1>2, <2>2, <2>3, <2>5 DEF F!Return
  <2> QED
    BY <1>3, <2>6 DEF F!Next
<1> QED
  BY <1>4, <1>5, <1>6 DEF IInv, LeftByExecute, TypeOK, Trap, TrapStates

\* One that writes a register falls through and changes just that register.
LEMMA EndsInWrite ==
  ASSUME IInv, stage = "memory", UNCHANGED <<pc, pcPlus4>>,
         NEW r \in Registers, NEW v \in Writes(r), Writing(r, v)
  PROVE  F!Next
<1>1. /\ nextBar = pc /\ statusBar = csr["mstatus"]
      /\ mepcBar = csr["mepc"] /\ mcauseBar = csr["mcause"] /\ mtvalBar = csr["mtval"]
  BY UnderWay
<1>2. /\ stage' = "wait" /\ trap' = trap /\ instr = "csr"
      /\ branchAddressValid' = branchAddressValid
  BY DEF Writing, NoCall, branch
<1>3. trap'.trapState = "Idle" /\ ~branchAddressValid'
  BY <1>2 DEF IInv, LeftByExecute, Jumps, Raisers
<1>4. /\ nextBar' = pcPlus4 /\ statusBar' = csr'["mstatus"]
      /\ mepcBar' = csr'["mepc"] /\ mcauseBar' = csr'["mcause"] /\ mtvalBar' = csr'["mtval"]
  BY <1>2, <1>3 DEF nextBar, statusBar, mepcBar, mcauseBar, mtvalBar, entering, leaving
<1>5. F!Follow
  BY <1>1, <1>4 DEF F!Follow, IInv, FallsThrough
<1>6. MayWrite(r, FALSE)
  BY DEF Writing
<1>7. csr' = [csr EXCEPT ![r] = v]
  BY DEF Writing
<1>8. DOMAIN csr = Registers
  BY TypeBank DEF IInv, BankOK
<1>9. csr'[r] = v /\ \A q \in Registers \ {r} : csr'[q] = csr[q]
  BY <1>7, <1>8
<1>10. Visible \subseteq Registers
  BY DEF Visible, Registers, Addresses
<1>11. F!Write
  <2>1. CASE r = "mstatus"
    <3>1. UNCHANGED <<csr["mtvec"], mepcBar, mcauseBar, mtvalBar>>
      BY <1>1, <1>4, <1>9, <1>10, <2>1 DEF Visible
    <3> QED
      BY <1>5, <3>1 DEF F!Write
  <2>2. ASSUME r # "mstatus"
        PROVE  /\ ("MIE" \in statusBar') = ("MIE" \in statusBar)
               /\ ("MPIE" \in statusBar') = ("MPIE" \in statusBar)
    BY <1>1, <1>4, <1>9, <1>10, <2>2 DEF Visible
  <2>3. CASE r = "mtvec"
    <3>1. csr'["mtvec"] \in Vectors /\ UNCHANGED <<mepcBar, mcauseBar, mtvalBar>>
      BY <1>1, <1>4, <1>9, <1>10, <2>3, WritesOf DEF Visible
    <3> QED
      BY <1>5, <2>2, <2>3, <3>1 DEF F!Write
  <2>4. CASE r = "mepc"
    <3>1. mepcBar' \in Targets /\ UNCHANGED <<csr["mtvec"], mcauseBar, mtvalBar>>
      BY <1>1, <1>4, <1>9, <1>10, <2>4, WritesOf DEF Visible
    <3> QED
      BY <1>5, <2>2, <2>4, <3>1 DEF F!Write
  <2>5. CASE r = "mcause"
    <3>1. mcauseBar' \in Causes /\ UNCHANGED <<csr["mtvec"], mepcBar, mtvalBar>>
      BY <1>1, <1>4, <1>9, <1>10, <2>5, WritesOf DEF Visible
    <3> QED
      BY <1>5, <2>2, <2>5, <3>1 DEF F!Write
  <2>6. CASE r = "mtval"
    <3>1. mtvalBar' \in Opcodes /\ UNCHANGED <<csr["mtvec"], mepcBar, mcauseBar>>
      BY <1>1, <1>4, <1>9, <1>10, <2>6, WritesOf DEF Visible
    <3> QED
      BY <1>5, <2>2, <2>6, <3>1 DEF F!Write
  <2> QED
    BY <1>6, <2>1, <2>3, <2>4, <2>5, <2>6, WritableRegisters
<1>12. ~(stage = "halt") /\ UNCHANGED (stage = "halt")
  BY <1>2
<1> QED
  BY <1>11, <1>12 DEF F!Next

\* Or the simulation stops.
LEMMA Halts ==
  ASSUME stage \in {"fetch", "memory"}, stage' = "halt", UNCHANGED <<pc, csr>>
  PROVE  F!Next
<1>1. UNCHANGED <<nextBar, statusBar, mepcBar, mcauseBar, mtvalBar, csr["mtvec"]>>
  BY DEF nextBar, statusBar, mepcBar, mcauseBar, mtvalBar, entering, leaving
<1>2. F!Halt
  BY <1>1 DEF F!Halt
<1>3. ~(stage = "halt")
  OBVIOUS
<1> QED
  BY <1>2, <1>3 DEF F!Next

LEMMA MemoryAccessSimulates ==
  ASSUME IInv, MemoryAccess
  PROVE  F!Next
<1>1. stage = "memory" /\ UNCHANGED <<pc, pcPlus4>>
  BY DEF MemoryAccess
<1>2. pc \in Words
  BY DEF IInv, TypeOK
<1>3. CASE CsrKept /\ NoCall
  BY <1>1, <1>3, EndsQuietly
<1>4. ASSUME NEW addr \in DataAddrs \cup {pc}, NEW cause \in Causes, NEW opcode \in Opcodes,
             Refusal(addr, cause, opcode)
      PROVE  F!Next
  <2>1. stage' = "wait" /\ csr' = csr /\ trap' = NewTrap(addr, cause, opcode)
    BY <1>4 DEF Refusal, CsrKept, TrapException
  <2>2. /\ trap'.trapState = "SetCSRJump" /\ trap'.mepc = addr
        /\ trap'.mcause = cause /\ trap'.mtval = opcode
    BY <1>2, <2>1, NewTrapTyped, ControllerAssumption
  <2> QED
    BY <1>1, <2>1, <2>2, EndsInTrap
<1>5. ASSUME NEW r \in Registers, NEW v \in Writes(r), Writing(r, v)
      PROVE  F!Next
  BY <1>1, <1>5, EndsInWrite
<1>6. CASE AccessCsrThrows
  BY <1>1, <1>6, Halts DEF AccessCsrThrows
<1> QED
  BY <1>3, <1>4, <1>5, <1>6, MemoryAccessCases

LEMMA DecodeIllegalSimulates ==
  ASSUME IInv, DecodeIllegal
  PROVE  F!Next
<1>1. stage = "fetch" /\ stage' = "wait" /\ csr' = csr /\ pc \in Words
  BY DEF DecodeIllegal, IInv, TypeOK
<1>2. PICK opcode \in Opcodes : trap' = NewTrap(pc, IllegalInstruction, opcode)
  BY DEF DecodeIllegal
<1>3. /\ trap'.trapState = "SetCSRJump" /\ trap'.mepc = pc
      /\ trap'.mcause = IllegalInstruction /\ trap'.mtval = opcode
  BY <1>1, <1>2, NewTrapTyped, ControllerAssumption DEF IllegalInstruction
<1> QED
  BY <1>1, <1>3, EndsInTrap, ControllerAssumption DEF IllegalInstruction

\* Every instruction follows the one that named it, and traps are taken once.
THEOREM Refinement == Spec => RefinesFlow
<1>1. Init => F!Init
  <2> SUFFICES ASSUME Init PROVE F!Init
    OBVIOUS
  <2>1. nextBar \in Targets
    BY ControllerAssumption DEF Init, nextBar
  <2>2. /\ statusBar = InitialBank["mstatus"] /\ mepcBar = InitialBank["mepc"]
        /\ mcauseBar = InitialBank["mcause"] /\ mtvalBar = InitialBank["mtval"]
    BY DEF Init, statusBar, mepcBar, mcauseBar, mtvalBar, entering, leaving
  <2>3. /\ InitialBank["mstatus"] = {} /\ InitialBank["mcause"] = Exception(0)
        /\ InitialBank["mepc"] = 0 /\ InitialBank["mtval"] = 0 /\ InitialBank["mtvec"] = 0
    BY DEF InitialBank, Registers, Addresses
  <2>4. csr = InitialBank /\ stage = "wait"
    BY DEF Init
  <2> QED
    BY <2>1, <2>2, <2>3, <2>4 DEF F!Init, Exception
<1>2. IInv /\ [Next]_vars => [F!Next]_(F!vars)
  <2> SUFFICES ASSUME IInv, [Next]_vars PROVE [F!Next]_(F!vars)
    OBVIOUS
  <2>1. CASE NoWaitTrap
    BY <2>1, NoWaitTrapStutters
  <2>2. CASE Step
    BY <2>2, StepStutters
  <2>3. CASE OutOfMemory
    BY <2>3, Halts DEF OutOfMemory
  <2>4. CASE Decode \/ Execute
    BY <2>4, ExecuteStutters
  <2>5. CASE DecodeIllegal
    BY <2>5, DecodeIllegalSimulates
  <2>6. CASE MemoryAccess
    BY <2>6, MemoryAccessSimulates
  <2>7. CASE UNCHANGED vars
    BY <2>7 DEF vars, F!vars, nextBar, statusBar, mepcBar, mcauseBar, mtvalBar,
                entering, leaving
  <2> QED
    BY <2>1, <2>2, <2>3, <2>4, <2>5, <2>6, <2>7 DEF Next, Turn, Ended
<1> QED
  BY <1>1, <1>2, Invariance, PTL DEF Spec, RefinesFlow, F!Spec

-----------------------------------------------------------------------------
(* The sequencer gets to the next fetch.                                   *)

Nearer == StepsLeft > 0 => StepsLeft' = StepsLeft - 1 /\ UNCHANGED F!vars

LEMMA SequencerSteps ==
  ASSUME IInv, NoWaitTrap
  PROVE  StepsLeft' = StepsLeft - 1
<1>1. stage = "wait" /\ trap \in Trap
  BY DEF NoWaitTrap, IInv, TypeOK
<1>2. CASE GoOn \/ SetPc
  <2>1. trap.trapState \in {"Idle", "SetPc"} /\ stage' = "advance"
    BY <1>2 DEF GoOn, SetPc
  <2>2. StepsLeft = 2 /\ StepsLeft' = 1
    BY <1>1, <2>1, Zenon DEF StepsLeft
  <2> QED
    BY <2>2
<1>3. CASE SetCSRJump \/ ReturnFromTrap
  <2>1. trap.trapState \in {"SetCSRJump", "ReturnFromTrap"} /\ stage' = "wait"
    BY <1>3 DEF SetCSRJump, ReturnFromTrap
  <2>2. trap'.trapState = "SetPc"
    BY <1>1, <1>3 DEF SetCSRJump, ReturnFromTrap, Trap
  <2>3. StepsLeft = 3 /\ StepsLeft' = 2
    BY <1>1, <2>1, <2>2 DEF StepsLeft
  <2> QED
    BY <2>3
<1> QED
  BY <1>2, <1>3 DEF NoWaitTrap

\* Between an instruction and the fetch of the next, every turn of the loop
\* takes the sequencer on (step and noWaitTrap, Controller.hpp:41-107), and
\* none changes what the program is owed: the safety half of TrapsDelivered and
\* ReturnsDelivered.
THEOREM Sequencing == Spec => NextInTurn
<1>1. IInv /\ [Next]_vars => [Nearer]_vars
  <2> SUFFICES ASSUME IInv, [Next]_vars PROVE [Nearer]_vars
    OBVIOUS
  <2>1. CASE NoWaitTrap
    BY <2>1, NoWaitTrapStutters, SequencerSteps DEF Nearer
  <2>2. CASE Step
    <3>1. stage = "advance" /\ stage' = "fetch"
      BY <2>2 DEF Step
    <3>2. StepsLeft = 1 /\ StepsLeft' = 0
      BY <3>1 DEF StepsLeft
    <3> QED
      BY <2>2, <3>2, StepStutters DEF Nearer
  <2>3. CASE OutOfMemory \/ Decode \/ DecodeIllegal \/ Execute \/ MemoryAccess
    <3>1. stage \in {"fetch", "execute", "memory"}
      BY <2>3 DEF OutOfMemory, Decode, DecodeIllegal, Execute, MemoryAccess
    <3>2. StepsLeft = 0
      BY <3>1 DEF StepsLeft
    <3> QED
      BY <3>2 DEF Nearer
  <2>4. CASE UNCHANGED vars
    BY <2>4
  <2> QED
    BY <2>1, <2>2, <2>3, <2>4 DEF Next, Turn, Ended
<1> QED
  BY Invariance, <1>1, PTL DEF Spec, NextInTurn, Nearer
=============================================================================
