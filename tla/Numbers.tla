------------------------------ MODULE Numbers ------------------------------
(***************************************************************************)
(* Facts about numbers that several proofs rest on: least members,         *)
(* quotients and remainders, and powers of two.                            *)
(***************************************************************************)
EXTENDS Integers, WellFoundedInduction, TLAPS

\* A set of natural numbers that is not empty has a least member.
LEMMA LeastNat ==
  ASSUME NEW T \in SUBSET Nat, T # {}
  PROVE  \E x \in T : \A y \in T : x <= y
<1>1. PICK x \in T : \A y \in T : ~(<<y, x>> \in OpToRel(<, Nat))
  BY NatLessThanWellFounded, WFMin
<1>2. \A y \in T : ~(y < x)
  BY <1>1, Zenon DEF OpToRel
<1> QED
  BY <1>2

\* The remainder and the quotient.
LEMMA Divided ==
  ASSUME NEW a \in Int, NEW n \in Int, n > 0
  PROVE  /\ a \div n \in Int /\ a % n \in Int
         /\ 0 <= a % n /\ a % n < n
         /\ a = n * (a \div n) + (a % n)
BY SMTT(30)

LEMMA DividedBy ==
  ASSUME NEW a \in Int, NEW n \in Int, NEW k \in Int, NEW r \in Int, n > 0,
         a = n * k + r, 0 <= r, r < n
  PROVE  a \div n = k /\ a % n = r
BY SMTT(30)

LEMMA Quotient ==
  ASSUME NEW a \in Int, NEW n \in Int, NEW m \in Int, n > 0, 0 <= a, a < m * n
  PROVE  0 <= a \div n /\ a \div n < m
<1> DEFINE q == a \div n
           r == a % n
<1>1. q \in Int /\ r \in Int /\ 0 <= r /\ r < n /\ a = n * q + r
  BY Divided
<1> HIDE DEF q, r
<1>2. n * q <= a /\ a < n * q + n
  <2>1. n * q \in Int
    BY <1>1, SMT
  <2> QED  BY <1>1, <2>1, SMT
<1>3. q >= 0
  <2> SUFFICES ASSUME q <= -1 PROVE FALSE
    BY <1>1, SMT
  <2>1. n * q <= n * (-1)
    BY <1>1, SMTT(30)
  <2> QED  BY <1>1, <1>2, <2>1, SMT
<1>4. q < m
  <2> SUFFICES ASSUME q >= m PROVE FALSE
    BY <1>1, SMT
  <2>1. n * q >= m * n
    BY <1>1, SMTT(30)
  <2> QED  BY <1>1, <1>2, <2>1, SMT
<1> QED  BY <1>3, <1>4 DEF q

\* Counting on modulo n can start from the remainder.
LEMMA RemainderNext ==
  ASSUME NEW a \in Int, NEW n \in Int, n > 0
  PROVE  (a + 1) % n = ((a % n) + 1) % n
<1> DEFINE q == a \div n
           r == a % n
<1>1. q \in Int /\ r \in Int /\ 0 <= r /\ r < n /\ a = n * q + r
  BY Divided
<1> HIDE DEF q, r
<1>2. CASE r + 1 < n
  <2>1. a + 1 = n * q + (r + 1) /\ r + 1 = n * 0 + (r + 1)
    BY <1>1
  <2> QED
    BY <1>1, <1>2, <2>1, DividedBy DEF r
<1>3. CASE r + 1 = n
  <2>1. a + 1 = n * (q + 1) + 0 /\ r + 1 = n * 1 + 0
    BY <1>1, <1>3, SMTT(30)
  <2>2. (a + 1) % n = 0
    BY <1>1, <2>1, DividedBy
  <2>3. (r + 1) % n = 0
    BY <1>1, <2>1, DividedBy
  <2> QED
    BY <2>2, <2>3 DEF r
<1> QED
  BY <1>1, <1>2, <1>3

\* A term that counts modulo n adds one to a sum modulo n.
LEMMA RemainderTerm ==
  ASSUME NEW n \in Int, n > 0, NEW t \in Int, NEW r \in Int, 0 <= r, r < n
  PROVE  (t - r + ((r + 1) % n)) % n = ((t % n) + 1) % n
<1>1. (t + 1) % n = ((t % n) + 1) % n
  BY RemainderNext
<1>2. CASE r + 1 < n
  <2>1. r + 1 = n * 0 + (r + 1)
    OBVIOUS
  <2>2. (r + 1) % n = r + 1
    BY <1>2, <2>1, DividedBy
  <2>3. t - r + ((r + 1) % n) = t + 1
    BY <2>2
  <2> QED
    BY <1>1, <2>3
<1>3. CASE r + 1 = n
  <2>1. r + 1 = n * 1 + 0
    BY <1>3
  <2>2. (r + 1) % n = 0
    BY <2>1, DividedBy
  <2>3. t - r + ((r + 1) % n) = t + 1 - n
    BY <1>3, <2>2
  <2> DEFINE q == (t + 1) \div n
             s == (t + 1) % n
  <2>4. q \in Int /\ s \in Int /\ 0 <= s /\ s < n /\ t + 1 = n * q + s
    BY Divided
  <2> HIDE DEF q, s
  <2> DEFINE k == q - 1
             a == t + 1 - n
  <2>5. k \in Int /\ a \in Int /\ a = n * k + s
    BY <2>4, SMTT(30)
  <2> HIDE DEF k
  <2>6. a % n = s
    <3> HIDE DEF a
    <3> QED
      BY <2>4, <2>5, DividedBy
  <2> QED
    BY <1>1, <2>3, <2>6 DEF s
<1> QED
  BY <1>2, <1>3

-----------------------------------------------------------------------------
(* Powers of two.  The provers compute 2 ^ n for a number n that is written *)
(* out, which gives the step from one power to the next; what holds of all  *)
(* powers is by induction on that, in the form of a least counterexample.   *)

LEMMA PowerNext ==
  ASSUME NEW n \in 0 .. 32
  PROVE  2 ^ n \in Int /\ 2 ^ n > 0 /\ 2 ^ (n + 1) = 2 * (2 ^ n)
<1>1. CASE n = 0
  BY <1>1, SMT
<1>2. CASE n = 1
  BY <1>2, SMT
<1>3. CASE n = 2
  BY <1>3, SMT
<1>4. CASE n = 3
  BY <1>4, SMT
<1>5. CASE n = 4
  BY <1>5, SMT
<1>6. CASE n = 5
  BY <1>6, SMT
<1>7. CASE n = 6
  BY <1>7, SMT
<1>8. CASE n = 7
  BY <1>8, SMT
<1>9. CASE n = 8
  BY <1>9, SMT
<1>10. CASE n = 9
  BY <1>10, SMT
<1>11. CASE n = 10
  BY <1>11, SMT
<1>12. CASE n = 11
  BY <1>12, SMT
<1>13. CASE n = 12
  BY <1>13, SMT
<1>14. CASE n = 13
  BY <1>14, SMT
<1>15. CASE n = 14
  BY <1>15, SMT
<1>16. CASE n = 15
  BY <1>16, SMT
<1>17. CASE n = 16
  BY <1>17, SMT
<1>18. CASE n = 17
  BY <1>18, SMT
<1>19. CASE n = 18
  BY <1>19, SMT
<1>20. CASE n = 19
  BY <1>20, SMT
<1>21. CASE n = 20
  BY <1>21, SMT
<1>22. CASE n = 21
  BY <1>22, SMT
<1>23. CASE n = 22
  BY <1>23, SMT
<1>24. CASE n = 23
  BY <1>24, SMT
<1>25. CASE n = 24
  BY <1>25, SMT
<1>26. CASE n = 25
  BY <1>26, SMT
<1>27. CASE n = 26
  BY <1>27, SMT
<1>28. CASE n = 27
  BY <1>28, SMT
<1>29. CASE n = 28
  BY <1>29, SMT
<1>30. CASE n = 29
  BY <1>30, SMT
<1>31. CASE n = 30
  BY <1>31, SMT
<1>32. CASE n = 31
  BY <1>32, SMT
<1>33. CASE n = 32
  BY <1>33, SMT
<1> QED
  BY <1>1, <1>2, <1>3, <1>4, <1>5, <1>6, <1>7, <1>8, <1>9, <1>10, <1>11, <1>12, <1>13, <1>14, <1>15, <1>16, <1>17, <1>18, <1>19, <1>20, <1>21, <1>22, <1>23, <1>24, <1>25, <1>26, <1>27, <1>28, <1>29, <1>30, <1>31, <1>32, <1>33

LEMMA PowerZero == 2 ^ 0 = 1
BY SMT

LEMMA PowerSum ==
  ASSUME NEW m \in 0 .. 32, NEW n \in 0 .. 32, m + n <= 32
  PROVE  2 ^ (m + n) = (2 ^ m) * (2 ^ n)
<1> DEFINE B == {k \in Nat : m + k <= 32 /\ 2 ^ (m + k) # (2 ^ m) * (2 ^ k)}
<1>1. ASSUME B # {}
      PROVE  FALSE
  <2>1. PICK k \in B : \A j \in B : k <= j
    BY <1>1, LeastNat
  <2>2. k # 0
    <3> SUFFICES ASSUME k = 0 PROVE FALSE
      OBVIOUS
    <3>1. m + k = m /\ 2 ^ m \in Int /\ 2 ^ k = 1
      BY PowerNext, PowerZero
    <3>2. (2 ^ m) * 1 = 2 ^ m
      BY <3>1
    <3> QED
      BY <2>1, <3>1, <3>2
  <2> DEFINE j == k - 1
             M == 2 ^ m
             J == 2 ^ j
  <2>3. j \in 0 .. 31 /\ m + j \in 0 .. 31 /\ k = j + 1 /\ m + k = (m + j) + 1
    BY <2>1, <2>2
  <2>4. 2 ^ (m + j) = M * J
    BY <2>1, <2>3
  <2>5. 2 ^ k = 2 * J /\ 2 ^ (m + k) = 2 * (2 ^ (m + j)) /\ J \in Int /\ M \in Int
    <3>1. j \in 0 .. 32 /\ m + j \in 0 .. 32
      BY <2>3
    <3> HIDE DEF j
    <3>2. J \in Int /\ 2 ^ (j + 1) = 2 * J /\ M \in Int
      BY <3>1, PowerNext, Zenon
    <3>3. 2 ^ ((m + j) + 1) = 2 * (2 ^ (m + j))
      BY <3>1, PowerNext, Zenon
    <3> QED
      BY <2>3, <3>2, <3>3, Zenon
  <2> HIDE DEF M, J
  <2>6. 2 * (M * J) = M * (2 * J)
    BY <2>5, SMT
  <2>7. 2 ^ (m + k) = M * (2 ^ k)
    BY <2>4, <2>5, <2>6
  <2> QED
    BY <2>1, <2>7 DEF M
<1>2. n \notin B
  BY <1>1
<1> QED
  BY <1>2, SMT
=============================================================================
