------------------------------- MODULE Tally -------------------------------
(***************************************************************************)
(* The sum of a function over 1 .. n, by its partial sums.  Written as a   *)
(* recursive function so that the proofs can reason about it; the lemmas   *)
(* are the facts the accounting proofs need, for every g and n.  Induction *)
(* is by least counterexample.                                             *)
(***************************************************************************)
EXTENDS Integers, TLAPS, WellFoundedInduction

PartialSums(g, n) ==
  LET sum[i \in 0 .. n] == IF i = 0 THEN 0 ELSE sum[i - 1] + g[i] IN sum

Total(g, n) == PartialSums(g, n)[n]

-----------------------------------------------------------------------------
(* A non-empty set of naturals has a least element.                        *)
LEMMA LeastNat ==
  ASSUME NEW T, T \subseteq Nat, T # {}
  PROVE  \E x \in T : \A y \in T : x <= y
<1> DEFINE R == {ss \in Nat \X Nat : ss[1] < ss[2]}
<1>1. IsWellFoundedOn(R, Nat)
  BY NatLessThanWellFounded, Zenon DEF OpToRel
<1>2. \E x \in T : \A y \in T : ~(<<y, x>> \in R)
  <2> HIDE DEF R
  <2> QED BY <1>1, WFMin, Zenon
<1>3. \A x \in Nat, y \in Nat : ~(<<y, x>> \in R) => x <= y
  OBVIOUS
<1> QED BY <1>2, <1>3

(* The partial sums of g up to n satisfy their recursive definition.       *)
LEMMA PartialSumsUnfold ==
  ASSUME NEW n \in Nat, NEW g
  PROVE  PartialSums(g, n) =
           [i \in 0 .. n |-> IF i = 0 THEN 0 ELSE PartialSums(g, n)[i - 1] + g[i]]
<1> DEFINE Is(f, m) == f = [i \in 0 .. m |-> IF i = 0 THEN 0 ELSE f[i - 1] + g[i]]
           Bad == {m \in Nat : ~ \E f : Is(f, m)}
<1>1. Bad = {}
  <2> SUFFICES ASSUME Bad # {} PROVE FALSE
    OBVIOUS
  <2>1. PICK m \in Bad : \A k \in Bad : m <= k
    BY LeastNat
  <2>2. m # 0
    <3>1. Is([i \in 0 .. 0 |-> 0], 0)
      OBVIOUS
    <3> QED BY <3>1
  <2>3. m - 1 \in Nat /\ m - 1 \notin Bad
    BY <2>1, <2>2
  <2>4. PICK f : Is(f, m - 1)
    BY <2>3
  <2> DEFINE h == [i \in 0 .. m |-> IF i = m THEN f[m - 1] + g[m] ELSE f[i]]
  <2>5. Is(h, m)
    <3>1. \A i \in 0 .. m : h[i] = IF i = 0 THEN 0 ELSE h[i - 1] + g[i]
      <4> SUFFICES ASSUME NEW i \in 0 .. m
                   PROVE  h[i] = IF i = 0 THEN 0 ELSE h[i - 1] + g[i]
        OBVIOUS
      <4>1. CASE i = m
        BY <4>1, <2>2
      <4>2. CASE i # m
        <5>1. i \in 0 .. m - 1 /\ h[i] = f[i]
          BY <4>2
        <5>2. f[i] = IF i = 0 THEN 0 ELSE f[i - 1] + g[i]
          BY <5>1, <2>4
        <5>3. i # 0 => h[i - 1] = f[i - 1]
          BY <4>2
        <5> QED BY <5>1, <5>2, <5>3
      <4> QED BY <4>1, <4>2
    <3> HIDE DEF h
    <3>2. h = [i \in 0 .. m |-> h[i]]
      BY DEF h
    <3> QED BY <3>1, <3>2
  <2> QED BY <2>1, <2>5
<1>2. \E f : Is(f, n)
  BY <1>1
<1>3. PartialSums(g, n) = CHOOSE f : Is(f, n)
  BY DEF PartialSums
<1> HIDE DEF Is
<1>4. Is(PartialSums(g, n), n)
  BY <1>2, <1>3, Zenon
<1> QED BY <1>4 DEF Is

(* The recurrence, one index at a time.                                    *)
LEMMA PartialSumsAt ==
  ASSUME NEW n \in Nat, NEW g
  PROVE  /\ PartialSums(g, n)[0] = 0
         /\ \A i \in 1 .. n : PartialSums(g, n)[i] = PartialSums(g, n)[i - 1] + g[i]
<1> DEFINE s == PartialSums(g, n)
<1>1. s = [i \in 0 .. n |-> IF i = 0 THEN 0 ELSE s[i - 1] + g[i]]
  BY PartialSumsUnfold
<1> HIDE DEF s
<1>2. s[0] = 0 /\ \A i \in 1 .. n : s[i] = s[i - 1] + g[i]
  BY <1>1
<1> QED BY <1>2 DEF s

(* A tally of naturals is a natural.                                       *)
LEMMA TotalNat ==
  ASSUME NEW n \in Nat, NEW g \in [1 .. n -> Nat]
  PROVE  Total(g, n) \in Nat
<1> DEFINE s == PartialSums(g, n)
           Bad == {m \in 0 .. n : s[m] \notin Nat}
<1>1. s[0] = 0 /\ \A i \in 1 .. n : s[i] = s[i - 1] + g[i]
  BY PartialSumsAt
<1> HIDE DEF s
<1>2. Bad = {}
  <2> SUFFICES ASSUME Bad # {} PROVE FALSE
    OBVIOUS
  <2>0. Bad \subseteq Nat
    OBVIOUS
  <2>1. PICK m \in Bad : \A k \in Bad : m <= k
    <3> HIDE DEF Bad
    <3> QED BY <2>0, LeastNat
  <2>2. m # 0
    BY <1>1
  <2>3. m - 1 \in 0 .. n /\ s[m - 1] \in Nat
    BY <2>1, <2>2
  <2> QED BY <1>1, <2>2, <2>3
<1>3. s[n] \in Nat
  BY <1>2
<1> QED BY <1>3 DEF s, Total

(* Changing one summand changes the tally by the difference.               *)
LEMMA TotalUpdate ==
  ASSUME NEW n \in Nat, NEW k \in 1 .. n,
         NEW g \in [1 .. n -> Nat], NEW h \in [1 .. n -> Nat],
         \A i \in 1 .. n : i # k => h[i] = g[i]
  PROVE  Total(h, n) = Total(g, n) + h[k] - g[k]
<1> DEFINE s == PartialSums(g, n)
           t == PartialSums(h, n)
           Diff(m) == IF m < k THEN 0 ELSE h[k] - g[k]
           Bad == {m \in 0 .. n : ~(s[m] \in Int /\ t[m] \in Int /\ t[m] = s[m] + Diff(m))}
<1>1. s[0] = 0 /\ \A i \in 1 .. n : s[i] = s[i - 1] + g[i]
  BY PartialSumsAt
<1>2. t[0] = 0 /\ \A i \in 1 .. n : t[i] = t[i - 1] + h[i]
  BY PartialSumsAt
<1> HIDE DEF s, t
<1>3. Bad = {}
  <2> SUFFICES ASSUME Bad # {} PROVE FALSE
    OBVIOUS
  <2>0. Bad \subseteq Nat
    OBVIOUS
  <2>1. PICK m \in Bad : \A j \in Bad : m <= j
    <3> HIDE DEF Bad
    <3> QED BY <2>0, LeastNat
  <2>2. m # 0
    BY <1>1, <1>2
  <2>3. m - 1 \in 0 .. n /\ m - 1 \notin Bad /\ m \in 1 .. n
    BY <2>1, <2>2
  <2>4. s[m - 1] \in Int /\ t[m - 1] \in Int /\ t[m - 1] = s[m - 1] + Diff(m - 1)
    BY <2>3
  <2>5. s[m] = s[m - 1] + g[m] /\ t[m] = t[m - 1] + h[m]
    BY <1>1, <1>2, <2>3
  <2>6. g[m] \in Nat /\ h[m] \in Nat /\ g[k] \in Nat /\ h[k] \in Nat
    BY <2>3
  <2>7. t[m] = s[m] + Diff(m) /\ s[m] \in Int /\ t[m] \in Int
    <3>1. CASE m = k
      <4>1. Diff(m - 1) = 0 /\ Diff(m) = h[m] - g[m]
        BY <2>3, <3>1
      <4> HIDE DEF Diff, Bad
      <4> QED BY <2>4, <2>5, <2>6, <4>1
    <3>2. CASE m # k
      <4>1. Diff(m - 1) = Diff(m) /\ Diff(m) \in Int /\ h[m] = g[m]
        BY <2>3, <2>6, <3>2
      <4> HIDE DEF Diff, Bad
      <4> QED BY <2>4, <2>5, <2>6, <4>1
    <3> QED BY <3>1, <3>2
  <2>8. m \notin Bad
    <3> HIDE DEF Diff
    <3> QED BY <2>7
  <2> QED BY <2>8
<1>4. t[n] = s[n] + Diff(n) /\ s[n] \in Int
  BY <1>3
<1>5. t[n] = s[n] + h[k] - g[k]
  BY <1>4
<1> QED BY <1>5 DEF s, t, Total

(* No summand exceeds a tally of naturals.                                 *)
LEMMA TotalAtLeast ==
  ASSUME NEW n \in Nat, NEW k \in 1 .. n, NEW g \in [1 .. n -> Nat]
  PROVE  g[k] <= Total(g, n)
<1> DEFINE h == [g EXCEPT ![k] = 0]
<1>1. h \in [1 .. n -> Nat] /\ h[k] = 0 /\ \A i \in 1 .. n : i # k => h[i] = g[i]
  OBVIOUS
<1> HIDE DEF h
<1>2. Total(h, n) = Total(g, n) + h[k] - g[k]
  BY <1>1, TotalUpdate
<1>3. Total(h, n) \in Nat /\ Total(g, n) \in Nat
  BY <1>1, TotalNat
<1> QED BY <1>1, <1>2, <1>3

(* A tally of zeros is zero.                                               *)
LEMMA TotalZero ==
  ASSUME NEW n \in Nat, NEW g \in [1 .. n -> Nat], \A i \in 1 .. n : g[i] = 0
  PROVE  Total(g, n) = 0
<1> DEFINE s == PartialSums(g, n)
           Bad == {m \in 0 .. n : s[m] # 0}
<1>1. s[0] = 0 /\ \A i \in 1 .. n : s[i] = s[i - 1] + g[i]
  BY PartialSumsAt
<1> HIDE DEF s
<1>2. Bad = {}
  <2> SUFFICES ASSUME Bad # {} PROVE FALSE
    OBVIOUS
  <2>0. Bad \subseteq Nat
    OBVIOUS
  <2>1. PICK m \in Bad : \A k \in Bad : m <= k
    <3> HIDE DEF Bad
    <3> QED BY <2>0, LeastNat
  <2>2. m # 0
    BY <1>1
  <2>3. m - 1 \in 0 .. n /\ s[m - 1] = 0
    BY <2>1, <2>2
  <2> QED BY <1>1, <2>2, <2>3
<1>3. s[n] = 0
  BY <1>2
<1> QED BY <1>3 DEF s, Total

(* Moving from f and g to h and k without h[i] - k[i] exceeding f[i] - g[i]*)
(* anywhere moves the difference of the tallies no higher.                 *)
LEMMA TotalShift ==
  ASSUME NEW n \in Nat,
         NEW f \in [1 .. n -> Nat], NEW g \in [1 .. n -> Nat],
         NEW h \in [1 .. n -> Nat], NEW k \in [1 .. n -> Nat],
         \A i \in 1 .. n : h[i] + g[i] <= f[i] + k[i]
  PROVE  Total(h, n) + Total(g, n) <= Total(f, n) + Total(k, n)
<1> DEFINE sf == PartialSums(f, n)
           sg == PartialSums(g, n)
           sh == PartialSums(h, n)
           sk == PartialSums(k, n)
           Fine(m) == /\ sf[m] \in Int /\ sg[m] \in Int /\ sh[m] \in Int /\ sk[m] \in Int
                      /\ sh[m] + sg[m] <= sf[m] + sk[m]
           Bad == {m \in 0 .. n : ~Fine(m)}
<1>1. sf[0] = 0 /\ \A i \in 1 .. n : sf[i] = sf[i - 1] + f[i]
  BY PartialSumsAt
<1>2. sg[0] = 0 /\ \A i \in 1 .. n : sg[i] = sg[i - 1] + g[i]
  BY PartialSumsAt
<1>3. sh[0] = 0 /\ \A i \in 1 .. n : sh[i] = sh[i - 1] + h[i]
  BY PartialSumsAt
<1>4. sk[0] = 0 /\ \A i \in 1 .. n : sk[i] = sk[i - 1] + k[i]
  BY PartialSumsAt
<1> HIDE DEF sf, sg, sh, sk
<1>5. Fine(0)
  BY <1>1, <1>2, <1>3, <1>4
<1>6. ASSUME NEW m \in 1 .. n, Fine(m - 1) PROVE Fine(m)
  <2>1. f[m] \in Nat /\ g[m] \in Nat /\ h[m] \in Nat /\ k[m] \in Nat
    OBVIOUS
  <2>2. h[m] + g[m] <= f[m] + k[m]
    OBVIOUS
  <2>3. /\ sf[m] = sf[m - 1] + f[m] /\ sg[m] = sg[m - 1] + g[m]
        /\ sh[m] = sh[m - 1] + h[m] /\ sk[m] = sk[m - 1] + k[m]
    BY <1>1, <1>2, <1>3, <1>4
  <2>4. PICK a \in Int, b \in Int, c \in Int, d \in Int :
          /\ sf[m - 1] = a /\ sg[m - 1] = b /\ sh[m - 1] = c /\ sk[m - 1] = d
          /\ c + b <= a + d
    BY <1>6
  <2>5. sf[m] = a + f[m] /\ sg[m] = b + g[m] /\ sh[m] = c + h[m] /\ sk[m] = d + k[m]
    BY <2>3, <2>4
  <2>6. /\ a + f[m] \in Int /\ b + g[m] \in Int /\ c + h[m] \in Int /\ d + k[m] \in Int
        /\ (c + h[m]) + (b + g[m]) <= (a + f[m]) + (d + k[m])
    <3>1. \A w, x, y, z \in Int : y + x <= w + z =>
            (c + y) + (b + x) <= (a + w) + (d + z)
      BY <2>4
    <3>2. f[m] \in Int /\ g[m] \in Int /\ h[m] \in Int /\ k[m] \in Int
      BY <2>1
    <3>3. (c + h[m]) + (b + g[m]) <= (a + f[m]) + (d + k[m])
      BY <2>2, <3>1, <3>2
    <3>4. a + f[m] \in Int /\ b + g[m] \in Int /\ c + h[m] \in Int /\ d + k[m] \in Int
      <4>1. \A x, y \in Int : x + y \in Int
        OBVIOUS
      <4> QED BY <3>2, <4>1, Zenon
    <3> QED BY <3>3, <3>4, Zenon
  <2> QED BY <2>5, <2>6
<1> HIDE DEF Fine
<1>7. Bad = {}
  <2> SUFFICES ASSUME Bad # {} PROVE FALSE
    OBVIOUS
  <2>0. Bad \subseteq Nat
    OBVIOUS
  <2>1. PICK m \in Bad : \A j \in Bad : m <= j
    <3> HIDE DEF Bad
    <3> QED BY <2>0, LeastNat
  <2>2. m # 0
    BY <1>5
  <2>3. m - 1 \in 0 .. n /\ Fine(m - 1) /\ m \in 1 .. n
    BY <2>1, <2>2
  <2> QED BY <1>6, <2>3
<1>8. Fine(n)
  <2>1. n \in 0 .. n
    OBVIOUS
  <2> QED BY <1>7, <2>1
<1> QED BY <1>8 DEF Fine, sf, sg, sh, sk, Total
=============================================================================
