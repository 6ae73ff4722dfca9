---------------------------- MODULE BackoffProofs ---------------------------
(***************************************************************************)
(* What 1 << n is.  FileCache defines it by recursion, so a proof has to   *)
(* show first that a function that satisfies the recursion exists.  It     *)
(* goes by induction on sets of naturals, which rests on the least element *)
(* of such a set: the library's induction theorems take an operator as a   *)
(* parameter, its theorem on minimal elements takes a set.                 *)
(***************************************************************************)
EXTENDS FileCache, WellFoundedInduction, TLAPS

\* A set of naturals that is not empty has a least element.
LEMMA LeastElement ==
  ASSUME NEW T \in SUBSET Nat, T # {}
  PROVE  \E x \in T : \A y \in T : x <= y
<1> DEFINE R == OpToRel(<, Nat)
<1>1. IsWellFoundedOn(R, Nat)
  BY NatLessThanWellFounded, Zenon
<1>2. \A y, x \in Nat : y < x => <<y, x>> \in R
  BY DEF R, OpToRel
<1> HIDE DEF R
<1>3. PICK x \in T : \A y \in T : ~(<<y, x>> \in R)
  BY <1>1, WFMin
<1>4. x \in Nat /\ \A y \in T : y \in Nat
  OBVIOUS
<1> SUFFICES \A y \in T : x <= y
  OBVIOUS
<1> TAKE y \in T
<1>5. ~(y < x)
  BY <1>2, <1>3, <1>4
<1> QED
  BY <1>4, <1>5

\* A set that holds 0 and, with each number, the next one, holds every number.
LEMMA SetInduction ==
  ASSUME NEW S \in SUBSET Nat, 0 \in S, \A n \in S : n + 1 \in S
  PROVE  S = Nat
<1> DEFINE T == Nat \ S
<1> SUFFICES ASSUME T # {} PROVE FALSE
  OBVIOUS
<1>1. T \in SUBSET Nat
  OBVIOUS
<1>2. PICK x \in T : \A y \in T : x <= y
  BY <1>1, LeastElement
<1>3. x \in Nat /\ x # 0
  BY <1>2
<1>4. x - 1 \in Nat /\ ~(x - 1 \in T)
  BY <1>2, <1>3
<1>5. x - 1 \in S
  BY <1>4
<1> QED
  BY <1>2, <1>3, <1>5

-----------------------------------------------------------------------------
\* The recursion, up to n.
Doubles(g, n) == g \in [0..n -> Nat] /\ g[0] = 1 /\ \A i \in 1..n : g[i] = 2 * g[i - 1]

LEMMA DoublesExist == \A n \in Nat : \E g : Doubles(g, n)
<1> DEFINE S == {n \in Nat : \E g : Doubles(g, n)}
<1>1. 0 \in S
  <2> DEFINE g == [i \in 0..0 |-> 1]
  <2>1. Doubles(g, 0)
    BY DEF Doubles
  <2> QED
    BY <2>1
<1>2. ASSUME NEW n \in S PROVE n + 1 \in S
  <2>1. PICK g : Doubles(g, n)
    BY <1>2
  <2> DEFINE h == [i \in 0..(n + 1) |-> IF i = n + 1 THEN 2 * g[n] ELSE g[i]]
  <2>2. Doubles(h, n + 1)
    BY <2>1 DEF Doubles
  <2> QED
    BY <2>2
<1> HIDE DEF S
<1>3. S \in SUBSET Nat
  BY DEF S
<1>4. S = Nat
  BY <1>1, <1>2, <1>3, SetInduction
<1> QED
  BY <1>4 DEF S

\* Functions that satisfy the recursion agree as far as both do.
LEMMA DoublesAgree ==
  ASSUME NEW m \in Nat, NEW n \in Nat, m <= n, NEW g, NEW h, Doubles(g, m), Doubles(h, n)
  PROVE  g[m] = h[m]
<1> DEFINE S == {i \in Nat : i <= m => g[i] = h[i]}
<1>1. 0 \in S
  BY DEF Doubles
<1>2. ASSUME NEW i \in S PROVE i + 1 \in S
  <2>1. CASE i + 1 <= m
    <3>1. g[i] = h[i]
      BY <1>2, <2>1
    <3>2. i + 1 \in 1..m /\ i + 1 \in 1..n /\ (i + 1) - 1 = i
      BY <2>1
    <3>3. g[i + 1] = 2 * g[i] /\ h[i + 1] = 2 * h[i]
      BY <3>2 DEF Doubles
    <3> QED
      BY <3>1, <3>3
  <2> QED
    BY <2>1
<1> HIDE DEF S
<1>3. S \in SUBSET Nat
  BY DEF S
<1>4. S = Nat
  BY <1>1, <1>2, <1>3, SetInduction
<1> QED
  BY <1>4 DEF S

\* The recursion has a solution, so Shifted is what its definition says.
LEMMA ShiftedDef ==
  Shifted = [n \in Nat |-> IF n = 0 THEN 1 ELSE 2 * Shifted[n - 1]]
<1> DEFINE Val(n) == (CHOOSE g : Doubles(g, n))[n]
           F == [n \in Nat |-> Val(n)]
<1>1. \A n \in Nat : Doubles(CHOOSE g : Doubles(g, n), n)
  BY DoublesExist
<1>2. Val(0) = 1
  BY <1>1 DEF Doubles
<1>3. ASSUME NEW n \in Nat, n # 0 PROVE Val(n) = 2 * Val(n - 1)
  <2>1. PICK g : Doubles(g, n) /\ Val(n) = g[n]
    BY <1>1
  <2>2. PICK h : Doubles(h, n - 1) /\ Val(n - 1) = h[n - 1]
    <3>1. n - 1 \in Nat
      BY <1>3
    <3> QED
      BY <1>1, <3>1
  <2>3. h[n - 1] = g[n - 1]
    BY <1>3, <2>1, <2>2, DoublesAgree
  <2>4. g[n] = 2 * g[n - 1]
    BY <1>3, <2>1 DEF Doubles
  <2> QED
    BY <2>1, <2>2, <2>3, <2>4
<1> HIDE DEF Val
<1>4. F = [n \in Nat |-> IF n = 0 THEN 1 ELSE 2 * F[n - 1]]
  BY <1>2, <1>3
<1> HIDE DEF F
<1>5. \E f : f = [n \in Nat |-> IF n = 0 THEN 1 ELSE 2 * f[n - 1]]
  BY <1>4
<1> QED
  BY <1>5 DEF Shifted

\* The three facts about the shift that the proofs cite.
LEMMA ShiftedSteps ==
  /\ Shifted[0] = 1
  /\ \A n \in Nat : Shifted[n + 1] = 2 * Shifted[n]
  /\ \A n \in Nat : Shifted[n] \in Nat \ {0}
<1>1. \A n \in Nat : Shifted[n] = IF n = 0 THEN 1 ELSE 2 * Shifted[n - 1]
  BY ShiftedDef
<1>2. Shifted[0] = 1
  BY <1>1
<1>3. ASSUME NEW n \in Nat PROVE Shifted[n + 1] = 2 * Shifted[n]
  <2>1. n + 1 \in Nat /\ n + 1 # 0 /\ (n + 1) - 1 = n
    OBVIOUS
  <2> QED
    BY <1>1, <2>1
<1> DEFINE S == {n \in Nat : Shifted[n] \in Nat \ {0}}
<1>4. 0 \in S
  BY <1>2
<1>5. ASSUME NEW n \in S PROVE n + 1 \in S
  BY <1>3, <1>5
<1> HIDE DEF S
<1>6. S \in SUBSET Nat
  BY DEF S
<1>7. S = Nat
  BY <1>4, <1>5, <1>6, SetInduction
<1> QED
  BY <1>2, <1>3, <1>7 DEF S

\* A longer shift is a longer sleep.
LEMMA ShiftedGrows ==
  ASSUME NEW m \in Nat, NEW n \in Nat, m <= n
  PROVE  Shifted[m] <= Shifted[n]
<1> DEFINE S == {k \in Nat : Shifted[m] <= Shifted[m + k]}
<1>1. 0 \in S
  BY ShiftedSteps
<1>2. ASSUME NEW k \in S PROVE k + 1 \in S
  <2>1. m + k \in Nat /\ m + (k + 1) = (m + k) + 1
    BY <1>2
  <2>2. Shifted[m + (k + 1)] = 2 * Shifted[m + k]
    BY <2>1, ShiftedSteps
  <2>3. Shifted[m] \in Nat /\ Shifted[m + k] \in Nat /\ Shifted[m] <= Shifted[m + k]
    BY <1>2, <2>1, ShiftedSteps
  <2> QED
    BY <1>2, <2>2, <2>3
<1> HIDE DEF S
<1>3. S \in SUBSET Nat
  BY DEF S
<1>4. S = Nat
  BY <1>1, <1>2, <1>3, SetInduction
<1>5. n - m \in S /\ m + (n - m) = n
  BY <1>4
<1> QED
  BY <1>5 DEF S

\* The longest shift whose result an int of 32 bits holds is the one by 30.
IntMax == 2147483647

LEMMA ShiftedThirty == Shifted[30] <= IntMax /\ Shifted[31] > IntMax
<1>1. Shifted[0 + 1] = 2 /\ Shifted[1 + 1] = 4 /\ Shifted[2 + 1] = 8 /\ Shifted[3 + 1] = 16
  BY ShiftedSteps
<1>2. Shifted[4 + 1] = 32 /\ Shifted[5 + 1] = 64 /\ Shifted[6 + 1] = 128 /\ Shifted[7 + 1] = 256
  BY <1>1, ShiftedSteps
<1>3. Shifted[8 + 1] = 512 /\ Shifted[9 + 1] = 1024 /\ Shifted[10 + 1] = 2048
      /\ Shifted[11 + 1] = 4096
  BY <1>2, ShiftedSteps
<1>4. Shifted[12 + 1] = 8192 /\ Shifted[13 + 1] = 16384 /\ Shifted[14 + 1] = 32768
      /\ Shifted[15 + 1] = 65536
  BY <1>3, ShiftedSteps
<1>5. Shifted[16 + 1] = 131072 /\ Shifted[17 + 1] = 262144 /\ Shifted[18 + 1] = 524288
      /\ Shifted[19 + 1] = 1048576
  BY <1>4, ShiftedSteps
<1>6. Shifted[20 + 1] = 2097152 /\ Shifted[21 + 1] = 4194304 /\ Shifted[22 + 1] = 8388608
      /\ Shifted[23 + 1] = 16777216
  BY <1>5, ShiftedSteps
<1>7. Shifted[24 + 1] = 33554432 /\ Shifted[25 + 1] = 67108864 /\ Shifted[26 + 1] = 134217728
      /\ Shifted[27 + 1] = 268435456
  BY <1>6, ShiftedSteps
<1>8. Shifted[28 + 1] = 536870912 /\ Shifted[29 + 1] = 1073741824
      /\ Shifted[30 + 1] = 2147483648
  BY <1>7, ShiftedSteps
<1> QED
  BY <1>8 DEF IntMax

=============================================================================
