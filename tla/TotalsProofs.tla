---------------------------- MODULE TotalsProofs ----------------------------
(***************************************************************************)
(* What a Total of naturals or integers does when one element changes,     *)
(* when two functions are added element by element, and when an element is *)
(* added at the end.  The provers cannot instantiate an induction theorem  *)
(* that takes a predicate, so the induction is done on sets, from the      *)
(* well-foundedness of < on the naturals (NatSetInduction).                *)
(***************************************************************************)
EXTENDS Totals, WellFoundedInduction, TLAPS

(* r is the function of running sums of f up to n.                         *)
IsRunning(s, f, n) ==
  s = [i \in 0..n |-> IF i = 0 THEN 0 ELSE s[i - 1] + f[i]]

(* Induction over the naturals, for a set rather than a predicate: the     *)
(* form the provers can use.                                               *)
LEMMA NatSetInduction ==
  ASSUME NEW S, S \subseteq Nat, 0 \in S, \A i \in S : i + 1 \in S
  PROVE  S = Nat
<1>1. SUFFICES ASSUME Nat \ S # {} PROVE FALSE
  OBVIOUS
<1>2. PICK x \in Nat \ S : \A y \in Nat \ S : ~(<<y, x>> \in OpToRel(<, Nat))
  BY <1>1, NatLessThanWellFounded, WFMin
<1>3. x \in Nat /\ x \notin S /\ x # 0 /\ x - 1 \in Nat
  OBVIOUS
<1>4. x - 1 \in S
  <2>1. SUFFICES ASSUME x - 1 \notin S PROVE FALSE
    OBVIOUS
  <2>2. <<x - 1, x>> \in OpToRel(<, Nat)
    BY <1>3 DEF OpToRel
  <2> QED BY <1>2, <1>3, <2>1, <2>2
<1> QED BY <1>3, <1>4

(* There is a function of running sums for every f: the recursive          *)
(* definition of Running is sound.                                         *)
LEMMA RunningExists ==
  ASSUME NEW n \in Nat, NEW f \in [1..n -> Int]
  PROVE  \E s \in [0..n -> Int] : IsRunning(s, f, n)
<1> DEFINE R(s, k) == /\ s \in [0..k -> Int]
                      /\ s[0] = 0
                      /\ \A i \in 1..k : s[i] = s[i - 1] + f[i]
           S == {k \in Nat : k <= n => \E s : R(s, k)}
<1>1. 0 \in S
  <2>1. R([i \in 0..0 |-> 0], 0)
    OBVIOUS
  <2> QED BY <2>1
<1>2. ASSUME NEW k \in S PROVE k + 1 \in S
  <2>1. k \in Nat
    OBVIOUS
  <2>2. ASSUME k + 1 <= n PROVE \E s : R(s, k + 1)
    <3>1. PICK s : R(s, k)
      BY <2>1, <2>2
    <3> DEFINE t == [i \in 0..(k + 1) |-> IF i = k + 1 THEN s[k] + f[k + 1] ELSE s[i]]
    <3>2. t \in [0..(k + 1) -> Int]
      BY <2>1, <2>2, <3>1
    <3>3. R(t, k + 1)
      BY <2>1, <2>2, <3>1, <3>2
    <3> QED BY <3>3
  <2> HIDE DEF R
  <2> QED BY <2>1, <2>2
<1>3. n \in S
  <2> HIDE DEF R
  <2>1. S = Nat
    BY <1>1, <1>2, NatSetInduction
  <2> QED BY <2>1
<1>4. PICK s : R(s, n)
  BY <1>3
<1>5. IsRunning(s, f, n)
  BY <1>4 DEF IsRunning
<1> QED BY <1>4, <1>5

(* Running is that function.                                               *)
LEMMA RunningDef ==
  ASSUME NEW n \in Nat, NEW f \in [1..n -> Int]
  PROVE  IsRunning(Running(f, n), f, n)
<1>1. \E s : s = [i \in 0..n |-> IF i = 0 THEN 0 ELSE s[i - 1] + f[i]]
  BY RunningExists DEF IsRunning
<1> QED BY <1>1 DEF Running, IsRunning

(* Each running sum adds one element to the one before.                    *)
LEMMA RunningStep ==
  ASSUME NEW n \in Nat, NEW f \in [1..n -> Int]
  PROVE  /\ Running(f, n) \in [0..n -> Int]
         /\ Running(f, n)[0] = 0
         /\ \A i \in 1..n : Running(f, n)[i] = Running(f, n)[i - 1] + f[i]
<1> DEFINE r == Running(f, n)
<1>1. r = [i \in 0..n |-> IF i = 0 THEN 0 ELSE r[i - 1] + f[i]]
  BY RunningDef DEF IsRunning
<1> DEFINE S == {k \in Nat : k <= n => r[k] \in Int}
<1> HIDE DEF r
<1>2. r[0] = 0 /\ \A i \in 1..n : r[i] = r[i - 1] + f[i]
  <2>1. 0 \in 0..n /\ \A i \in 1..n : i \in 0..n /\ i # 0
    OBVIOUS
  <2> QED BY <1>1, <2>1
<1>3. S = Nat
  <2>1. 0 \in S
    BY <1>2
  <2>2. ASSUME NEW k \in S PROVE k + 1 \in S
    BY <1>2
  <2> HIDE DEF S
  <2>3. S \subseteq Nat
    BY DEF S
  <2> QED BY <2>1, <2>2, <2>3, NatSetInduction
<1>4. \A i \in 0..n : r[i] \in Int
  BY <1>3
<1>5. r \in [0..n -> Int]
  BY <1>1, <1>4
<1> QED BY <1>2, <1>5 DEF r

(* A total of integers is an integer.                                      *)
LEMMA TotalType ==
  ASSUME NEW n \in Nat, NEW f \in [1..n -> Int]
  PROVE  Total(f, n) \in Int
BY RunningStep DEF Total

(* Changing one element changes the total by the difference.               *)
LEMMA TotalUpdate ==
  ASSUME NEW n \in Nat, NEW f \in [1..n -> Int], NEW i \in 1..n, NEW v \in Int
  PROVE  Total([f EXCEPT ![i] = v], n) = Total(f, n) - f[i] + v
<1> DEFINE g == [f EXCEPT ![i] = v]
           r == Running(f, n)
           q == Running(g, n)
           S == {k \in Nat : k <= n => q[k] = IF k < i THEN r[k] ELSE r[k] - f[i] + v}
<1>1. g \in [1..n -> Int] /\ g[i] = v /\ \A j \in 1..n : j # i => g[j] = f[j]
  OBVIOUS
<1>2. /\ r \in [0..n -> Int]
      /\ r[0] = 0
      /\ \A j \in 1..n : r[j] = r[j - 1] + f[j]
  BY RunningStep
<1> HIDE DEF g
<1>3. /\ q \in [0..n -> Int]
      /\ q[0] = 0
      /\ \A j \in 1..n : q[j] = q[j - 1] + g[j]
  BY <1>1, RunningStep
<1> HIDE DEF r, q
<1>4. S = Nat
  <2>1. 0 \in S
    BY <1>2, <1>3
  <2>2. ASSUME NEW k \in S PROVE k + 1 \in S
    <3>1. ASSUME k + 1 <= n, k \in Nat
          PROVE  q[k + 1] = IF k + 1 < i THEN r[k + 1] ELSE r[k + 1] - f[i] + v
      <4>1. k + 1 \in 1..n /\ (k + 1) - 1 = k
        BY <3>1
      <4>2. q[k + 1] = q[k] + g[k + 1] /\ r[k + 1] = r[k] + f[k + 1]
        BY <4>1, <1>2, <1>3
      <4>3. q[k] = IF k < i THEN r[k] ELSE r[k] - f[i] + v
        BY <3>1
      <4>4. q[k] \in Int /\ r[k] \in Int /\ f[k + 1] \in Int /\ f[i] \in Int
        BY <3>1, <4>1, <1>2, <1>3
      <4>5. CASE k + 1 < i
        <5>1. g[k + 1] = f[k + 1] /\ k < i
          BY <1>1, <4>1, <4>5, <3>1
        <5> QED BY <4>2, <4>3, <4>4, <4>5, <5>1
      <4>6. CASE k + 1 = i
        <5>1. g[k + 1] = v /\ f[k + 1] = f[i] /\ k < i
          BY <1>1, <4>6, <3>1
        <5>2. ~(k + 1 < i)
          BY <4>6
        <5> QED BY <4>2, <4>3, <4>4, <5>1, <5>2
      <4>7. CASE k + 1 > i
        <5>1. g[k + 1] = f[k + 1] /\ ~(k < i)
          BY <1>1, <4>1, <4>7, <3>1
        <5>2. ~(k + 1 < i)
          BY <4>7, <3>1
        <5> QED BY <4>2, <4>3, <4>4, <5>1, <5>2
      <4> QED BY <3>1, <4>5, <4>6, <4>7
    <3> QED BY <3>1
  <2> HIDE DEF S
  <2>3. S \subseteq Nat
    BY DEF S
  <2> QED BY <2>1, <2>2, <2>3, NatSetInduction
<1>5. q[n] = r[n] - f[i] + v
  BY <1>4
<1> QED BY <1>5 DEF q, r, g, Total

(* A total of naturals is a natural no smaller than any element.           *)
LEMMA TotalBounds ==
  ASSUME NEW n \in Nat, NEW f \in [1..n -> Nat]
  PROVE  /\ Total(f, n) \in Nat
         /\ \A i \in 1..n : f[i] <= Total(f, n)
<1> DEFINE r == Running(f, n)
           S == {k \in Nat : k <= n => r[k] \in Nat /\ \A j \in 1..k : f[j] <= r[k]}
<1>0. f \in [1..n -> Int]
  OBVIOUS
<1>1. /\ r \in [0..n -> Int]
      /\ r[0] = 0
      /\ \A j \in 1..n : r[j] = r[j - 1] + f[j]
  BY <1>0, RunningStep
<1> HIDE DEF r
<1>2. S = Nat
  <2>1. 0 \in S
    BY <1>1
  <2>2. ASSUME NEW k \in S PROVE k + 1 \in S
    <3>1. ASSUME k + 1 <= n, k \in Nat
          PROVE  r[k + 1] \in Nat /\ \A j \in 1..(k + 1) : f[j] <= r[k + 1]
      <4>1. k + 1 \in 1..n /\ (k + 1) - 1 = k
        BY <3>1
      <4>2. r[k + 1] = r[k] + f[k + 1] /\ f[k + 1] \in Nat
        BY <4>1, <1>1
      <4>3. r[k] \in Nat /\ \A j \in 1..k : f[j] <= r[k]
        BY <3>1
      <4>4. \A j \in 1..(k + 1) : j = k + 1 \/ j \in 1..k
        BY <3>1
      <4>5. \A j \in 1..k : f[j] \in Nat
        BY <3>1
      <4> QED BY <4>2, <4>3, <4>4, <4>5
    <3> QED BY <3>1
  <2> HIDE DEF S
  <2>3. S \subseteq Nat
    BY DEF S
  <2> QED BY <2>1, <2>2, <2>3, NatSetInduction
<1> QED BY <1>2 DEF r, Total

(* A total of zeros is zero.                                               *)
LEMMA TotalZero ==
  ASSUME NEW n \in Nat, NEW f \in [1..n -> Int], \A i \in 1..n : f[i] = 0
  PROVE  Total(f, n) = 0
<1> DEFINE r == Running(f, n)
           S == {k \in Nat : k <= n => r[k] = 0}
<1>1. /\ r \in [0..n -> Int]
      /\ r[0] = 0
      /\ \A j \in 1..n : r[j] = r[j - 1] + f[j]
  BY RunningStep
<1> HIDE DEF r
<1>2. S = Nat
  <2>1. 0 \in S
    BY <1>1
  <2>2. ASSUME NEW k \in S PROVE k + 1 \in S
    BY <1>1
  <2> HIDE DEF S
  <2>3. S \subseteq Nat
    BY DEF S
  <2> QED BY <2>1, <2>2, <2>3, NatSetInduction
<1> QED BY <1>2 DEF r, Total

(* Adding two functions point by point adds their totals.                  *)
LEMMA TotalSum ==
  ASSUME NEW n \in Nat, NEW f \in [1..n -> Int], NEW g \in [1..n -> Int]
  PROVE  Total([i \in 1..n |-> f[i] + g[i]], n) = Total(f, n) + Total(g, n)
<1> DEFINE h == [i \in 1..n |-> f[i] + g[i]]
           r == Running(f, n)
           q == Running(g, n)
           p == Running(h, n)
           S == {k \in Nat : k <= n => p[k] = r[k] + q[k]}
<1>1. h \in [1..n -> Int] /\ \A i \in 1..n : h[i] = f[i] + g[i]
  OBVIOUS
<1>2. r \in [0..n -> Int] /\ r[0] = 0 /\ \A j \in 1..n : r[j] = r[j - 1] + f[j]
  BY RunningStep
<1>3. q \in [0..n -> Int] /\ q[0] = 0 /\ \A j \in 1..n : q[j] = q[j - 1] + g[j]
  BY RunningStep
<1> HIDE DEF h
<1>4. p \in [0..n -> Int] /\ p[0] = 0 /\ \A j \in 1..n : p[j] = p[j - 1] + h[j]
  BY <1>1, RunningStep
<1> HIDE DEF r, q, p
<1>5. S = Nat
  <2>1. 0 \in S
    BY <1>2, <1>3, <1>4
  <2>2. ASSUME NEW k \in S PROVE k + 1 \in S
    <3>1. ASSUME k + 1 <= n, k \in Nat
          PROVE  p[k + 1] = r[k + 1] + q[k + 1]
      <4>1. k + 1 \in 1..n /\ (k + 1) - 1 = k /\ k \in 0..n
        BY <3>1
      <4>2. p[k + 1] = p[k] + h[k + 1] /\ r[k + 1] = r[k] + f[k + 1] /\ q[k + 1] = q[k] + g[k + 1]
        BY <4>1, <1>2, <1>3, <1>4
      <4>3. p[k] = r[k] + q[k] /\ h[k + 1] = f[k + 1] + g[k + 1]
        BY <3>1, <4>1, <1>1
      <4>4. r[k] \in Int /\ q[k] \in Int /\ f[k + 1] \in Int /\ g[k + 1] \in Int
        BY <4>1, <1>2, <1>3
      <4> QED BY <4>2, <4>3, <4>4
    <3> QED BY <3>1
  <2> HIDE DEF S
  <2>3. S \subseteq Nat
    BY DEF S
  <2> QED BY <2>1, <2>2, <2>3, NatSetInduction
<1>6. p[n] = r[n] + q[n]
  BY <1>5
<1> QED BY <1>6 DEF p, q, r, h, Total

(* A longer function adds its last value to the total of the shorter one.  *)
LEMMA TotalExtend ==
  ASSUME NEW n \in Nat, NEW f \in [1..n -> Int], NEW g \in [1..(n + 1) -> Int],
         \A i \in 1..n : g[i] = f[i]
  PROVE  Total(g, n + 1) = Total(f, n) + g[n + 1]
<1> DEFINE r == Running(f, n)
           q == Running(g, n + 1)
           S == {k \in Nat : k <= n => q[k] = r[k]}
<1>1. r \in [0..n -> Int] /\ r[0] = 0 /\ \A j \in 1..n : r[j] = r[j - 1] + f[j]
  BY RunningStep
<1>2. q \in [0..(n + 1) -> Int] /\ q[0] = 0 /\ \A j \in 1..(n + 1) : q[j] = q[j - 1] + g[j]
  <2>1. n + 1 \in Nat
    OBVIOUS
  <2> QED BY <2>1, RunningStep
<1> HIDE DEF r, q
<1>3. S = Nat
  <2>1. 0 \in S
    BY <1>1, <1>2
  <2>2. ASSUME NEW k \in S PROVE k + 1 \in S
    <3>1. ASSUME k + 1 <= n, k \in Nat PROVE q[k + 1] = r[k + 1]
      <4>1. k + 1 \in 1..n /\ k + 1 \in 1..(n + 1) /\ (k + 1) - 1 = k
        BY <3>1
      <4>2. q[k + 1] = q[k] + g[k + 1] /\ r[k + 1] = r[k] + f[k + 1]
        BY <4>1, <1>1, <1>2
      <4>3. q[k] = r[k] /\ g[k + 1] = f[k + 1]
        BY <3>1, <4>1
      <4> QED BY <4>2, <4>3
    <3> QED BY <3>1
  <2> HIDE DEF S
  <2>3. S \subseteq Nat
    BY DEF S
  <2> QED BY <2>1, <2>2, <2>3, NatSetInduction
<1>4. q[n] = r[n]
  BY <1>3
<1>5. q[n + 1] = q[(n + 1) - 1] + g[n + 1] /\ (n + 1) - 1 = n
  BY <1>2
<1> QED BY <1>4, <1>5 DEF q, r, Total
=============================================================================
