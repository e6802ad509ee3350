----------------------------- MODULE SumsProofs -----------------------------
(***************************************************************************)
(* Facts about Total, by induction on the number of entries.  Induction on *)
(* the naturals is used in its set form, derived from the library's        *)
(* theorem that < is well founded.                                         *)
(***************************************************************************)
EXTENDS Sums, TLAPS, WellFoundedInduction

(* Every non-empty set of naturals has a least element.                    *)
LEMMA LeastNat ==
  ASSUME NEW T \in SUBSET Nat, T # {}
  PROVE  \E x \in T : \A y \in T : x <= y
<1> DEFINE R == {ss \in Nat \X Nat : ss[1] < ss[2]}
<1>1. IsWellFoundedOn(R, Nat)
  BY NatLessThanWellFounded, Zenon DEF OpToRel
<1> HIDE DEF R
<1>2. PICK x \in T : \A y \in T : ~ (<<y, x>> \in R)
  BY <1>1, WFMin, Zenon
<1>3. \A y \in Nat : y < x => <<y, x>> \in R
  BY DEF R
<1>4. \A y \in T : ~ (y < x)
  BY <1>2, <1>3, Zenon
<1> QED BY <1>4

(* A set of naturals with 0 and closed under successor is Nat.             *)
LEMMA SetInduction ==
  ASSUME NEW S \in SUBSET Nat, 0 \in S, \A n \in S : n + 1 \in S
  PROVE  S = Nat
<1> DEFINE T == Nat \ S
<1> SUFFICES ASSUME T # {} PROVE FALSE
  OBVIOUS
<1>1. PICK x \in T : \A y \in T : x <= y
  BY LeastNat, Zenon
<1>2. x \in Nat /\ x # 0 /\ x - 1 \in Nat
  BY <1>1
<1>3. x - 1 \in S
  BY <1>1, <1>2
<1> QED BY <1>1, <1>2, <1>3

(* The recursive definition of running sums has a solution: solutions on   *)
(* each initial segment exist, agree, and are glued together.              *)
LEMMA PrefixSumsExist ==
  ASSUME NEW w
  PROVE  \E s : s = [i \in Nat |-> IF i = 0 THEN 0 ELSE s[i - 1] + w[i]]
<1> DEFINE Good(n, g) == \A i \in 0..n : g[i] = IF i = 0 THEN 0 ELSE g[i - 1] + w[i]
           S == {n \in Nat : \E g : Good(n, g)}
           U == {n \in Nat : \A g, h : Good(n, g) /\ Good(n, h) => g[n] = h[n]}
<1>1. S = Nat
  <2>1. 0 \in S
    <3>1. Good(0, [i \in 0..0 |-> 0])
      OBVIOUS
    <3> QED BY <3>1
  <2>2. ASSUME NEW n \in S PROVE n + 1 \in S
    <3>1. PICK g : Good(n, g)
      OBVIOUS
    <3> DEFINE h == [i \in 0..(n + 1) |-> IF i = n + 1 THEN g[n] + w[n + 1] ELSE g[i]]
    <3>2. Good(n + 1, h)
      <4> SUFFICES ASSUME NEW i \in 0..(n + 1)
                   PROVE h[i] = IF i = 0 THEN 0 ELSE h[i - 1] + w[i]
        OBVIOUS
      <4>1. CASE i = n + 1
        BY <4>1
      <4>2. CASE i # n + 1
        <5>1. i \in 0..n /\ (i # 0 => i - 1 \in 0..(n+1) /\ i - 1 # n + 1)
          BY <4>2
        <5>2. h[i] = g[i] /\ (i # 0 => h[i - 1] = g[i - 1])
          BY <4>2, <5>1
        <5> QED BY <5>1, <5>2, <3>1
      <4> QED BY <4>1, <4>2
    <3> HIDE DEF h, Good
    <3> QED BY <3>2
  <2> HIDE DEF S
  <2>3. S \in SUBSET Nat
    BY DEF S
  <2> QED BY <2>1, <2>2, <2>3, SetInduction
<1>2. U = Nat
  <2>1. 0 \in U
    OBVIOUS
  <2>2. ASSUME NEW n \in U PROVE n + 1 \in U
    <3> SUFFICES ASSUME NEW g, NEW h, Good(n + 1, g), Good(n + 1, h)
                 PROVE g[n + 1] = h[n + 1]
      OBVIOUS
    <3>1. Good(n, g) /\ Good(n, h)
      OBVIOUS
    <3>2. g[n] = h[n]
      BY <3>1
    <3>3. g[n + 1] = g[n] + w[n + 1] /\ h[n + 1] = h[n] + w[n + 1]
      OBVIOUS
    <3> QED BY <3>2, <3>3
  <2> HIDE DEF U
  <2>3. U \in SUBSET Nat
    BY DEF U
  <2> QED BY <2>1, <2>2, <2>3, SetInduction
<1> DEFINE G == [n \in Nat |-> CHOOSE g : Good(n, g)]
           f == [n \in Nat |-> G[n][n]]
<1>3. \A n \in Nat : Good(n, G[n])
  BY <1>1
<1>4. f = [i \in Nat |-> IF i = 0 THEN 0 ELSE f[i - 1] + w[i]]
  <2> SUFFICES ASSUME NEW i \in Nat
               PROVE  G[i][i] = IF i = 0 THEN 0 ELSE f[i - 1] + w[i]
    OBVIOUS
  <2> HIDE DEF G
  <2>1. CASE i = 0
    BY <1>3, <2>1
  <2>2. CASE i # 0
    <3>1. i - 1 \in Nat /\ f[i - 1] = G[i - 1][i - 1]
      BY <2>2
    <3>2. G[i][i] = G[i][i - 1] + w[i]
      BY <1>3, <2>2
    <3>3. Good(i - 1, G[i]) /\ Good(i - 1, G[i - 1])
      BY <1>3, <3>1
    <3>4. G[i][i - 1] = G[i - 1][i - 1]
      BY <3>3, <1>2, <3>1
    <3> QED BY <3>1, <3>2, <3>4, <2>2
  <2> QED BY <2>1, <2>2
<1> QED BY <1>4

(* Hence running sums satisfy their own equations.                         *)
LEMMA PrefixSumsStep ==
  ASSUME NEW w
  PROVE  /\ PrefixSums(w)[0] = 0
         /\ \A n \in Nat : PrefixSums(w)[n + 1] = PrefixSums(w)[n] + w[n + 1]
<1> DEFINE s == PrefixSums(w)
<1>1. s = [i \in Nat |-> IF i = 0 THEN 0 ELSE s[i - 1] + w[i]]
  BY PrefixSumsExist, Zenon DEF PrefixSums
<1> HIDE DEF s
<1>2. s[0] = 0
  BY <1>1
<1>3. ASSUME NEW n \in Nat PROVE s[n + 1] = s[n] + w[n + 1]
  <2>1. s[n + 1] = IF n + 1 = 0 THEN 0 ELSE s[(n + 1) - 1] + w[n + 1]
    BY <1>1
  <2> QED BY <2>1
<1> QED BY <1>2, <1>3 DEF s

-----------------------------------------------------------------------------
(* The two equations of a running sum.                                     *)
LEMMA TotalSteps ==
  ASSUME NEW w
  PROVE  /\ Total(w, 0) = 0
         /\ \A n \in Nat : Total(w, n + 1) = Total(w, n) + w[n + 1]
  BY PrefixSumsStep, Zenon DEF Total

(* A sum of naturals is a natural.                                         *)
LEMMA TotalNat ==
  ASSUME NEW w, NEW n \in Nat, \A i \in 1..n : w[i] \in Nat
  PROVE  Total(w, n) \in Nat
<1> DEFINE S == {m \in Nat : m <= n => Total(w, m) \in Nat}
<1>1. 0 \in S
  BY TotalSteps
<1>2. ASSUME NEW m \in S PROVE m + 1 \in S
  BY TotalSteps
<1>3. S = Nat
  <2> HIDE DEF S
  <2>1. S \in SUBSET Nat
    BY DEF S
  <2> QED BY <1>1, <1>2, <2>1, SetInduction
<1> QED BY <1>3

(* Sums are monotone in their entries.                                     *)
LEMMA TotalMono ==
  ASSUME NEW v, NEW w, NEW n \in Nat,
         \A i \in 1..n : v[i] \in Nat /\ w[i] \in Nat /\ v[i] <= w[i]
  PROVE  Total(v, n) <= Total(w, n)
<1> DEFINE S == {m \in Nat : m <= n => /\ Total(v, m) \in Nat
                                      /\ Total(w, m) \in Nat
                                      /\ Total(v, m) <= Total(w, m)}
<1>1. 0 \in S
  BY TotalSteps
<1>2. ASSUME NEW m \in S PROVE m + 1 \in S
  <2>1. /\ Total(v, m + 1) = Total(v, m) + v[m + 1]
        /\ Total(w, m + 1) = Total(w, m) + w[m + 1]
    BY TotalSteps
  <2> QED BY <2>1
<1>3. S = Nat
  <2> HIDE DEF S
  <2>1. S \in SUBSET Nat
    BY DEF S
  <2> QED BY <1>1, <1>2, <2>1, SetInduction
<1> QED BY <1>3

(* Entries that are zero at the end do not count.                          *)
LEMMA TotalZeroTail ==
  ASSUME NEW w, NEW m \in Nat, NEW n \in Nat, m <= n,
         \A i \in 1..n : w[i] \in Nat,
         \A i \in (m + 1)..n : w[i] = 0
  PROVE  Total(w, n) = Total(w, m)
<1> DEFINE S == {k \in Nat : m + k <= n => Total(w, m + k) = Total(w, m)}
<1>1. 0 \in S
  OBVIOUS
<1>2. ASSUME NEW k \in S PROVE k + 1 \in S
  <2> SUFFICES ASSUME m + (k + 1) <= n
               PROVE  Total(w, m + (k + 1)) = Total(w, m)
    OBVIOUS
  <2>1. Total(w, (m + k) + 1) = Total(w, m + k) + w[(m + k) + 1]
    BY TotalSteps
  <2>2. w[(m + k) + 1] = 0
    OBVIOUS
  <2>3. Total(w, m + k) \in Nat
    BY TotalNat
  <2>4. m + (k + 1) = (m + k) + 1
    OBVIOUS
  <2> QED BY <2>1, <2>2, <2>3, <2>4
<1>3. S = Nat
  <2> HIDE DEF S
  <2>1. S \in SUBSET Nat
    BY DEF S
  <2> QED BY <1>1, <1>2, <2>1, SetInduction
<1>4. n - m \in S
  <2>1. n - m \in Nat
    OBVIOUS
  <2> HIDE DEF S
  <2> QED BY <1>3, <2>1
<1>5. m + (n - m) = n
  OBVIOUS
<1> QED BY <1>4, <1>5

=============================================================================
