----------------------------- MODULE MoneyProofs -----------------------------
(***************************************************************************)
(* The lemmas the proofs about money share: what a token transfer and a    *)
(* step of the rest of the system do to the state every handler shares,    *)
(* and the laws of Total that the accounting needs: changing one summand   *)
(* changes the sum by the difference, zeros sum to zero, a sum of naturals *)
(* is at least each summand, and a concatenation sums to the sum of its    *)
(* parts.  The induction the prover cannot do with an operator parameter   *)
(* is replaced by a least counterexample, or by induction over a set.      *)
(***************************************************************************)
EXTENDS ContractEnv, Sums, FiniteSets, FiniteSetTheorems, WellFoundedInduction, TLAPS

-----------------------------------------------------------------------------
(* Sums *)

LessOnNat == {p \in Nat \X Nat : p[1] < p[2]}

\* Every non-empty set of naturals has a least element.
LEMMA LeastElement ==
    ASSUME NEW T, T \subseteq Nat, T # {}
    PROVE  \E x \in T : \A y \in T : ~(y < x)
<1>1. IsWellFoundedOn(LessOnNat, Nat)
  BY NatLessThanWellFounded DEF OpToRel, LessOnNat
<1>2. \E x \in T : \A y \in T : ~ (<<y, x>> \in LessOnNat)
  BY <1>1, WFMin
<1> QED
  BY <1>2 DEF LessOnNat

\* The equation that defines PartialSums.
IsPartialSums(s, f, n) ==
    s = [k \in 0..n |-> IF k = 0 THEN 0 ELSE s[k - 1] + f[k]]

\* The equation has a solution.
LEMMA PartialSumsExist ==
    ASSUME NEW N \in Nat, NEW f \in [1..N -> Int]
    PROVE  \E s \in [0..N -> Int] : IsPartialSums(s, f, N)
<1> DEFINE T == {m \in 0..N : ~ \E s \in [0..m -> Int] : IsPartialSums(s, f, m)}
<1>1. SUFFICES ASSUME T # {} PROVE FALSE
  OBVIOUS
<1>2. T \subseteq Nat
  OBVIOUS
<1>3. PICK x \in T : \A y \in T : ~(y < x)
  <2> HIDE DEF T
  <2> QED BY <1>1, <1>2, LeastElement
<1>4. CASE x = 0
  <2>1. [n \in 0..0 |-> 0] \in [0..x -> Int] /\ IsPartialSums([n \in 0..0 |-> 0], f, x)
     BY <1>4 DEF IsPartialSums
  <2> QED BY <2>1
<1>5. CASE x # 0
  <2>1. x - 1 \in 0..N /\ x - 1 \notin T /\ x \in 1..N
    BY <1>3, <1>5
  <2>2. PICK s \in [0..x-1 -> Int] : IsPartialSums(s, f, x - 1)
    BY <2>1
  <2> DEFINE t == [n \in 0..x |-> IF n = x THEN s[x-1] + f[x] ELSE s[n]]
  <2>3. t \in [0..x -> Int]
    BY <2>1
  <2>4. \A n \in 0..x-1 : t[n] = s[n]
    BY <2>1
  <2>5. t[x] = t[x-1] + f[x]
    BY <2>1
  <2>6. \A n \in 0..x-1 : s[n] = IF n = 0 THEN 0 ELSE s[n-1] + f[n]
    BY <2>2 DEF IsPartialSums
  <2>7. t = [n \in 0..x |-> t[n]]
    OBVIOUS
  <2> HIDE DEF t
  <2>8. ASSUME NEW n \in 0..x
        PROVE  t[n] = IF n = 0 THEN 0 ELSE t[n-1] + f[n]
    <3>1. CASE n = x
      BY <3>1, <2>5, <1>5
    <3>2. CASE n = 0
      <4>1. 0 \in 0..x-1
        BY <2>1
      <4> QED BY <3>2, <4>1, <2>4, <2>6
    <3>3. CASE n # 0 /\ n # x
      <4>1. n \in 0..x-1 /\ n - 1 \in 0..x-1
        BY <2>1, <3>3
      <4> QED BY <3>3, <4>1, <2>4, <2>6
    <3> QED BY <3>1, <3>2, <3>3
  <2>9. IsPartialSums(t, f, x)
    BY <2>7, <2>8 DEF IsPartialSums
  <2> QED BY <2>3, <2>9
<1> QED BY <1>4, <1>5

\* The equation has one solution only.
LEMMA PartialSumsUnique ==
    ASSUME NEW N \in Nat, NEW f \in [1..N -> Int], NEW s, NEW t,
           IsPartialSums(s, f, N), IsPartialSums(t, f, N)
    PROVE  s = t
<1> DEFINE T == {n \in 0..N : s[n] # t[n]}
<1>1. SUFFICES ASSUME T # {} PROVE FALSE
  <2>1. /\ s = [n \in 0..N |-> s[n]]
        /\ t = [n \in 0..N |-> t[n]]
     BY DEF IsPartialSums
  <2> QED BY <2>1
<1>2. T \subseteq Nat
  OBVIOUS
<1>3. PICK x \in T : \A y \in T : ~(y < x)
  <2> HIDE DEF T
  <2> QED BY <1>1, <1>2, LeastElement
<1>4. x # 0
  BY DEF IsPartialSums
<1>5. x - 1 \in 0..N /\ x - 1 \notin T
  BY <1>3, <1>4
<1> QED BY <1>4, <1>5 DEF IsPartialSums

\* PartialSums satisfies its defining equation.
LEMMA PartialSumsDefined ==
    ASSUME NEW N \in Nat, NEW f \in [1..N -> Int]
    PROVE  /\ PartialSums(f, N) \in [0..N -> Int]
           /\ IsPartialSums(PartialSums(f, N), f, N)
<1>1. PICK s \in [0..N -> Int] : IsPartialSums(s, f, N)
  BY PartialSumsExist
<1>2. PartialSums(f, N) = CHOOSE r : IsPartialSums(r, f, N)
  BY DEF PartialSums, IsPartialSums
<1>3. IsPartialSums(PartialSums(f, N), f, N)
  BY <1>1, <1>2
<1> QED BY <1>1, <1>3, PartialSumsUnique

\* A sum of integers is an integer.
LEMMA TotalType ==
    ASSUME NEW N \in Nat, NEW f \in [1..N -> Int]
    PROVE  Total(f, N) \in Int
<1>1. PartialSums(f, N) \in [0..N -> Int]
  BY PartialSumsDefined
<1> QED BY <1>1 DEF Total

\* Changing one summand changes the sum by the difference.
LEMMA TotalUpdate ==
    ASSUME NEW N \in Nat, NEW f \in [1..N -> Int], NEW k \in 1..N, NEW v \in Int
    PROVE  Total([f EXCEPT ![k] = v], N) = Total(f, N) - f[k] + v
<1> DEFINE g == [f EXCEPT ![k] = v]
           s == PartialSums(f, N)
           t == [n \in 0..N |-> IF n < k THEN s[n] ELSE s[n] - f[k] + v]
<1>1. s \in [0..N -> Int] /\ \A n \in 0..N : s[n] = IF n = 0 THEN 0 ELSE s[n-1] + f[n]
  BY PartialSumsDefined DEF IsPartialSums
<1>2. g \in [1..N -> Int]
  OBVIOUS
<1>3. \A n \in 1..N : n # k => g[n] = f[n]
  OBVIOUS
<1>4. g[k] = v /\ f[k] \in Int
  OBVIOUS
<1>5. ASSUME NEW n \in 0..N
      PROVE  t[n] = IF n = 0 THEN 0 ELSE t[n-1] + g[n]
  <2> HIDE DEF s, g
  <2>1. CASE n = 0
    BY <1>1, <2>1
  <2>2. CASE n > 0
    <3>1. n - 1 \in 0..N /\ n \in 1..N /\ s[n] = s[n-1] + f[n] /\ f[n] \in Int /\ s[n-1] \in Int
      BY <1>1, <2>2
    <3>2. CASE n < k
      BY <3>1, <3>2, <1>3
    <3>3. CASE n = k
      <4>1. t[n] = s[n] - f[k] + v /\ t[n-1] = s[n-1]
        BY <3>1, <3>3
      <4> QED BY <4>1, <3>1, <3>3, <1>4, <2>2
    <3>4. CASE n > k
      <4>1. t[n] = s[n] - f[k] + v /\ t[n-1] = s[n-1] - f[k] + v
        BY <3>1, <3>4
      <4>2. g[n] = f[n]
        BY <3>1, <3>4, <1>3
      <4> HIDE DEF t
      <4> QED BY <4>1, <4>2, <3>1, <1>4, <2>2
    <3> QED BY <3>2, <3>3, <3>4
  <2> QED BY <2>1, <2>2
<1>6. IsPartialSums(t, g, N)
  <2> HIDE DEF g, s
  <2>1. t = [n \in 0..N |-> t[n]]
    OBVIOUS
  <2> HIDE DEF t
  <2> QED BY <2>1, <1>5 DEF IsPartialSums
<1>7. t = PartialSums(g, N)
  <2>1. IsPartialSums(PartialSums(g, N), g, N)
    BY <1>2, PartialSumsDefined
  <2> HIDE DEF t, g
  <2> QED BY <2>1, <1>2, <1>6, PartialSumsUnique
<1> QED BY <1>1, <1>7 DEF Total

\* A sum of zeros is zero.
LEMMA TotalZero ==
    ASSUME NEW N \in Nat, NEW f \in [1..N -> Int], \A n \in 1..N : f[n] = 0
    PROVE  Total(f, N) = 0
<1> DEFINE z == [n \in 0..N |-> 0]
<1>1. IsPartialSums(z, f, N)
  BY DEF IsPartialSums
<1>2. z = PartialSums(f, N)
  <2> HIDE DEF z
  <2> QED BY <1>1, PartialSumsDefined, PartialSumsUnique
<1> QED BY <1>2 DEF Total

\* A sum of naturals is at least each of its summands.
LEMMA TotalCovers ==
    ASSUME NEW N \in Nat, NEW f \in [1..N -> Nat], NEW k \in 1..N
    PROVE  Total(f, N) \in Nat /\ f[k] <= Total(f, N)
<1> DEFINE s == PartialSums(f, N)
<1>0. f \in [1..N -> Int]
  OBVIOUS
<1>1. s \in [0..N -> Int] /\ \A n \in 0..N : s[n] = IF n = 0 THEN 0 ELSE s[n-1] + f[n]
  BY <1>0, PartialSumsDefined DEF IsPartialSums
<1> DEFINE T == {n \in 0..N : ~(s[n] >= 0 /\ (n >= k => s[n] >= f[k]))}
<1>2. T = {}
  <2> SUFFICES ASSUME T # {} PROVE FALSE
    OBVIOUS
  <2>1. T \subseteq Nat
    OBVIOUS
  <2>2. PICK x \in T : \A y \in T : ~(y < x)
    <3> HIDE DEF T
    <3> QED BY <2>1, LeastElement
  <2> HIDE DEF s
  <2>3. x # 0
    BY <1>1
  <2>4. x - 1 \in 0..N /\ x - 1 \notin T /\ x \in 1..N
    BY <2>2, <2>3
  <2>5. s[x] = s[x-1] + f[x] /\ s[x-1] \in Int /\ f[x] \in Nat /\ s[x-1] >= 0 /\ f[k] \in Nat
    <3>1. s[x] = s[x-1] + f[x]
      BY <1>1, <2>3, <2>4
    <3>2. s[x-1] \in Int /\ f[x] \in Nat /\ f[k] \in Nat
      BY <1>1, <2>4
    <3>3. s[x-1] >= 0
      BY <2>4
    <3> QED BY <3>1, <3>2, <3>3
  <2>6. CASE x = k
    BY <2>5, <2>6
  <2>7. CASE x > k
    <3>1. s[x-1] >= f[k]
      BY <2>4, <2>7
    <3> QED BY <2>5, <2>7, <3>1
  <2>8. CASE x < k
    BY <2>5, <2>8
  <2> QED BY <2>6, <2>7, <2>8
<1>3. s[N] \in Nat /\ s[N] >= f[k]
  <2>1. N \in 0..N /\ N \notin T
    BY <1>2
  <2> HIDE DEF s
  <2>2. s[N] \in Int
    BY <1>1, <2>1
  <2>3. s[N] >= 0 /\ s[N] >= f[k]
    BY <2>1
  <2> QED BY <2>2, <2>3
<1> QED BY <1>3 DEF Total

\* A sum of naturals is a natural.
LEMMA TotalNatural ==
    ASSUME NEW N \in Nat, NEW f \in [1..N -> Nat]
    PROVE  Total(f, N) \in Nat
<1>1. CASE N = 0
  <2>1. f \in [1..N -> Int] /\ \A n \in 1..N : f[n] = 0
    BY <1>1
  <2>2. Total(f, N) = 0
    BY <2>1, TotalZero
  <2> QED BY <2>2
<1>2. CASE N # 0
  <2>1. 1 \in 1..N
    BY <1>2
  <2> QED BY <2>1, TotalCovers
<1> QED BY <1>1, <1>2

\* The sum over a function that the step changed at one index.
LEMMA TotalAfter ==
    \A N \in Nat : \A f, g \in [1..N -> Nat] : \A k \in 1..N :
        (\A n \in 1..N : n # k => g[n] = f[n]) => Total(g, N) = Total(f, N) - f[k] + g[k]
<1> SUFFICES ASSUME NEW N \in Nat, NEW f \in [1..N -> Nat], NEW g \in [1..N -> Nat],
                    NEW k \in 1..N, \A n \in 1..N : n # k => g[n] = f[n]
             PROVE  Total(g, N) = Total(f, N) - f[k] + g[k]
  OBVIOUS
<1>1. f \in [1..N -> Int] /\ g[k] \in Int
  OBVIOUS
<1>2. g = [f EXCEPT ![k] = g[k]]
  OBVIOUS
<1>3. Total([f EXCEPT ![k] = g[k]], N) = Total(f, N) - f[k] + g[k]
  BY <1>1, TotalUpdate
<1> QED BY <1>2, <1>3

\* The same for a sum of signed shares.
LEMMA TotalMoves ==
    \A N \in Nat : \A f, g \in [1..N -> Int] : \A k \in 1..N :
        (\A n \in 1..N : n # k => g[n] = f[n]) => Total(g, N) = Total(f, N) - f[k] + g[k]
<1> SUFFICES ASSUME NEW N \in Nat, NEW f \in [1..N -> Int], NEW g \in [1..N -> Int],
                    NEW k \in 1..N, \A n \in 1..N : n # k => g[n] = f[n]
             PROVE  Total(g, N) = Total(f, N) - f[k] + g[k]
  OBVIOUS
<1>1. g[k] \in Int /\ g = [f EXCEPT ![k] = g[k]]
  OBVIOUS
<1>2. Total([f EXCEPT ![k] = g[k]], N) = Total(f, N) - f[k] + g[k]
  BY <1>1, TotalUpdate
<1> QED BY <1>1, <1>2

\* Induction up to N over a set, which needs no operator parameter.
LEMMA UpTo ==
    ASSUME NEW N \in Nat, NEW T, 0 \in T, \A n \in 1..N : n - 1 \in T => n \in T
    PROVE  0..N \subseteq T
<1> DEFINE Bad == {n \in 0..N : n \notin T}
<1>1. SUFFICES ASSUME Bad # {} PROVE FALSE
  OBVIOUS
<1>2. Bad \subseteq Nat
  OBVIOUS
<1>3. PICK x \in Bad : \A y \in Bad : ~(y < x)
  <2> HIDE DEF Bad
  <2> QED BY <1>1, <1>2, LeastElement
<1>4. x \in 1..N /\ x - 1 \in 0..N
  OBVIOUS
<1>5. x - 1 \in T
  BY <1>3, <1>4
<1> QED BY <1>4, <1>5

\* The partial sums, one step at a time.
LEMMA PartialSumsStep ==
    ASSUME NEW N \in Nat, NEW f \in [1..N -> Int]
    PROVE  /\ PartialSums(f, N) \in [0..N -> Int]
           /\ PartialSums(f, N)[0] = 0
           /\ \A n \in 1..N : PartialSums(f, N)[n] = PartialSums(f, N)[n - 1] + f[n]
           /\ Total(f, N) = PartialSums(f, N)[N]
<1> DEFINE s == PartialSums(f, N)
<1>1. s \in [0..N -> Int] /\ s = [k \in 0..N |-> IF k = 0 THEN 0 ELSE s[k - 1] + f[k]]
  BY PartialSumsDefined DEF IsPartialSums
<1>2. Total(f, N) = s[N]
  BY DEF Total
<1> HIDE DEF s
<1>3. s[0] = 0 /\ \A n \in 1..N : s[n] = s[n - 1] + f[n]
  BY <1>1
<1> QED BY <1>1, <1>2, <1>3 DEF s

\* The sum of a concatenation.
LEMMA TotalSplit ==
    \A N, M \in Nat : \A f \in [1..N + M -> Int], g \in [1..N -> Int], h \in [1..M -> Int] :
        (\A n \in 1..N : g[n] = f[n]) /\ (\A n \in 1..M : h[n] = f[N + n])
            => Total(f, N + M) = Total(g, N) + Total(h, M)
<1> SUFFICES ASSUME NEW N \in Nat, NEW M \in Nat, NEW f \in [1..N + M -> Int],
                    NEW g \in [1..N -> Int], NEW h \in [1..M -> Int],
                    \A n \in 1..N : g[n] = f[n], \A n \in 1..M : h[n] = f[N + n]
             PROVE  Total(f, N + M) = Total(g, N) + Total(h, M)
  OBVIOUS
<1> DEFINE s == PartialSums(f, N + M)
           p == PartialSums(g, N)
           q == PartialSums(h, M)
<1>1. /\ s \in [0..N + M -> Int] /\ s[0] = 0 /\ \A n \in 1..N + M : s[n] = s[n - 1] + f[n]
      /\ Total(f, N + M) = s[N + M]
  <2>1. N + M \in Nat
    OBVIOUS
  <2> QED BY <2>1, PartialSumsStep
<1>2. /\ p \in [0..N -> Int] /\ p[0] = 0 /\ \A n \in 1..N : p[n] = p[n - 1] + g[n]
      /\ Total(g, N) = p[N]
  BY PartialSumsStep
<1>3. /\ q \in [0..M -> Int] /\ q[0] = 0 /\ \A n \in 1..M : q[n] = q[n - 1] + h[n]
      /\ Total(h, M) = q[M]
  BY PartialSumsStep
<1> HIDE DEF s, p, q
<1> DEFINE A == {n \in 0..N : s[n] = p[n]}
           B == {n \in 0..M : s[N + n] = s[N] + q[n]}
<1>4. 0..N \subseteq A
  <2>1. 0 \in A
    BY <1>1, <1>2
  <2>2. ASSUME NEW n \in 1..N, n - 1 \in A PROVE n \in A
    BY <1>1, <1>2, <2>2
  <2> HIDE DEF A
  <2> QED BY <2>1, <2>2, UpTo
<1>5. 0..M \subseteq B
  <2>1. 0 \in B
    BY <1>1, <1>3
  <2>2. ASSUME NEW n \in 1..M, n - 1 \in B PROVE n \in B
    <3>1. s[N + n] = s[N + n - 1] + h[n] /\ N + (n - 1) = N + n - 1
      BY <1>1
    <3>2. s[N + n - 1] = s[N] + q[n - 1] /\ q[n] = q[n - 1] + h[n]
      BY <1>3, <2>2
    <3>3. s[N] \in Int /\ q[n - 1] \in Int /\ h[n] \in Int
      <4>1. N \in 0..N + M /\ n - 1 \in 0..M
        OBVIOUS
      <4> QED BY <1>1, <1>3, <4>1
    <3> QED BY <3>1, <3>2, <3>3, SMTT(30)
  <2> HIDE DEF B
  <2> QED BY <2>1, <2>2, UpTo
<1>6. s[N] = p[N] /\ s[N + M] = s[N] + q[M]
  BY <1>4, <1>5
<1> QED BY <1>1, <1>2, <1>3, <1>6

\* The sum of sums.
LEMMA TotalPointwise ==
    \A N \in Nat : \A f, g, h \in [1..N -> Int] :
        (\A n \in 1..N : h[n] = f[n] + g[n]) => Total(h, N) = Total(f, N) + Total(g, N)
<1> SUFFICES ASSUME NEW N \in Nat, NEW f \in [1..N -> Int], NEW g \in [1..N -> Int],
                    NEW h \in [1..N -> Int], \A n \in 1..N : h[n] = f[n] + g[n]
             PROVE  Total(h, N) = Total(f, N) + Total(g, N)
  OBVIOUS
<1> DEFINE s == PartialSums(h, N)
           p == PartialSums(f, N)
           q == PartialSums(g, N)
<1>1. /\ s \in [0..N -> Int] /\ s[0] = 0 /\ \A n \in 1..N : s[n] = s[n - 1] + h[n]
      /\ Total(h, N) = s[N]
  BY PartialSumsStep
<1>2. /\ p \in [0..N -> Int] /\ p[0] = 0 /\ \A n \in 1..N : p[n] = p[n - 1] + f[n]
      /\ Total(f, N) = p[N]
  BY PartialSumsStep
<1>3. /\ q \in [0..N -> Int] /\ q[0] = 0 /\ \A n \in 1..N : q[n] = q[n - 1] + g[n]
      /\ Total(g, N) = q[N]
  BY PartialSumsStep
<1> HIDE DEF s, p, q
<1> DEFINE A == {n \in 0..N : s[n] = p[n] + q[n]}
<1>4. 0..N \subseteq A
  <2>1. 0 \in A
    BY <1>1, <1>2, <1>3
  <2>2. ASSUME NEW n \in 1..N, n - 1 \in A PROVE n \in A
    <3>1. s[n - 1] = p[n - 1] + q[n - 1]
      BY <2>2
    <3>2. s[n] = s[n - 1] + h[n] /\ h[n] = f[n] + g[n]
      BY <1>1
    <3>3. p[n] = p[n - 1] + f[n] /\ q[n] = q[n - 1] + g[n]
      BY <1>2, <1>3
    <3>4. p[n - 1] \in Int /\ q[n - 1] \in Int /\ f[n] \in Int /\ g[n] \in Int
      <4>1. n - 1 \in 0..N
        OBVIOUS
      <4> QED BY <1>2, <1>3, <4>1
    <3>5. s[n] = p[n] + q[n] /\ n \in 0..N
      BY <3>1, <3>2, <3>3, <3>4
    <3> QED BY <3>5
  <2> HIDE DEF A
  <2> QED BY <2>1, <2>2, UpTo
<1> QED BY <1>1, <1>2, <1>3, <1>4

\* A sum of ones and zeros counts the ones.
LEMMA TotalCounts ==
    ASSUME NEW N \in Nat, NEW f \in [1..N -> {0, 1}]
    PROVE  /\ IsFiniteSet({n \in 1..N : f[n] = 1})
           /\ Total(f, N) = Cardinality({n \in 1..N : f[n] = 1})
<1> DEFINE s == PartialSums(f, N)
           Ones(k) == {n \in 1..k : f[n] = 1}
<1>1. /\ s \in [0..N -> Int] /\ s[0] = 0 /\ \A n \in 1..N : s[n] = s[n - 1] + f[n]
      /\ Total(f, N) = s[N]
  <2>1. f \in [1..N -> Int]
    OBVIOUS
  <2> QED BY <2>1, PartialSumsStep
<1> HIDE DEF s
<1> DEFINE A == {k \in 0..N : IsFiniteSet(Ones(k)) /\ s[k] = Cardinality(Ones(k))}
<1>2. 0..N \subseteq A
  <2>1. 0 \in A
    <3>1. Ones(0) = {}
      OBVIOUS
    <3>2. IsFiniteSet({}) /\ Cardinality({}) = 0
      BY FS_EmptySet
    <3>3. IsFiniteSet(Ones(0)) /\ s[0] = Cardinality(Ones(0))
      BY ONLY <1>1, <3>1, <3>2, Zenon
    <3> HIDE DEF Ones
    <3> QED BY <3>3
  <2>2. ASSUME NEW k \in 1..N, k - 1 \in A PROVE k \in A
    <3>1. k \notin Ones(k - 1) /\ k - 1 \in 0..N
      OBVIOUS
    <3>2. f[k] = 1 => Ones(k) = Ones(k - 1) \cup {k}
      OBVIOUS
    <3>3. f[k] = 0 => Ones(k) = Ones(k - 1)
      OBVIOUS
    <3> HIDE DEF Ones
    <3>4. IsFiniteSet(Ones(k - 1)) /\ s[k - 1] = Cardinality(Ones(k - 1))
      BY <2>2
    <3>5. s[k] = s[k - 1] + f[k] /\ s[k - 1] \in Int /\ (f[k] = 0 \/ f[k] = 1)
      BY <1>1
    <3>6. CASE f[k] = 1
      BY <3>1, <3>2, <3>4, <3>5, <3>6, FS_AddElement
    <3>7. CASE f[k] = 0
      BY <3>3, <3>4, <3>5, <3>7
    <3> QED BY <3>5, <3>6, <3>7
  <2> HIDE DEF A
  <2> QED BY <2>1, <2>2, UpTo
<1>3. IsFiniteSet(Ones(N)) /\ s[N] = Cardinality(Ones(N))
  <2>1. N \in A
    BY <1>2
  <2> HIDE DEF Ones
  <2> QED BY <2>1
<1> QED BY <1>1, <1>3

-----------------------------------------------------------------------------
(* Transfers and the environment *)

USE EnvAssumption

\* A transfer keeps balances natural and moves exactly the amount.
LEMMA TransferFacts ==
    ASSUME NEW t \in Tokens, NEW from \in Holders, NEW to \in Holders, NEW a \in Nat,
           balance \in [Tokens -> [Holders -> Nat]],
           Transfer(t, from, to, a)
    PROVE  /\ balance' \in [Tokens -> [Holders -> Nat]]
           /\ \A u \in Tokens : u # t => balance'[u] = balance[u]
           /\ from # to => /\ balance'[t][from] = balance[t][from] - a
                           /\ balance'[t][to] = balance[t][to] + a
<1>1. balance[t] \in [Holders -> Nat] /\ balance[t][from] >= a
  BY DEF Transfer
<1>2. \A h \in Holders : Moved(balance[t], from, to, a)[h] \in Nat
  BY <1>1 DEF Moved
<1>3. Moved(balance[t], from, to, a) \in [Holders -> Nat]
  BY <1>2 DEF Moved
<1>4. balance' = [balance EXCEPT ![t] = Moved(balance[t], from, to, a)]
  BY DEF Transfer
<1>5. from # to => /\ Moved(balance[t], from, to, a)[from] = balance[t][from] - a
                   /\ Moved(balance[t], from, to, a)[to] = balance[t][to] + a
  BY <1>1 DEF Moved
<1> QED BY <1>3, <1>4, <1>5

\* The steps of the rest of the system keep the environment well typed and
\* move no tokens.
LEMMA EnvNextFacts ==
    ASSUME EnvTypeOK, EnvNext
    PROVE  EnvTypeOK' /\ balance' = balance
<1>1. CASE AdvanceTime
  BY <1>1 DEF AdvanceTime, EnvTypeOK
<1>2. CASE set_paused
  BY <1>2 DEF set_paused, EnvTypeOK
<1>3. ASSUME NEW m \in Merchants, set_merchant_active(m) PROVE EnvTypeOK' /\ balance' = balance
  BY <1>3 DEF set_merchant_active, EnvTypeOK
<1>4. ASSUME NEW t \in Tokens, set_token_allowed(t) PROVE EnvTypeOK' /\ balance' = balance
  BY <1>4 DEF set_token_allowed, EnvTypeOK
<1> QED BY <1>1, <1>2, <1>3, <1>4 DEF EnvNext

-----------------------------------------------------------------------------
(* Iteration *)

\* s starts at a, and its n-th step is F[n].
Iterates(s, N, S, F, a) ==
    s \in [0..N -> S] /\ s[0] = a /\ \A n \in 1..N : s[n] = F[n][s[n - 1]]

\* A function that is given by its first value and a step exists.
LEMMA IterationExists ==
    \A N, S, F, a : N \in Nat /\ a \in S /\ F \in [1..N -> [S -> S]] =>
        \E s : Iterates(s, N, S, F, a)
<1> SUFFICES ASSUME NEW N \in Nat, NEW S, NEW F \in [1..N -> [S -> S]], NEW a \in S
             PROVE  \E s : Iterates(s, N, S, F, a)
  OBVIOUS
<1> DEFINE Runs(s, m) == s[0] = a /\ \A n \in 1..m : s[n] = F[n][s[n - 1]]
           A == {m \in 0..N : \E s \in [0..m -> S] : Runs(s, m)}
<1>1. 0 \in A
  <2> DEFINE z == [k \in 0..0 |-> a]
  <2>1. z \in [0..0 -> S] /\ z[0] = a
    OBVIOUS
  <2>2. \A n \in 1..0 : z[n] = F[n][z[n - 1]]
    OBVIOUS
  <2> HIDE DEF z
  <2>3. \E s \in [0..0 -> S] : Runs(s, 0)
    BY <2>1, <2>2
  <2> QED BY <2>3
<1>2. ASSUME NEW m \in 1..N, m - 1 \in A PROVE m \in A
  <2>1. PICK s \in [0..m - 1 -> S] : Runs(s, m - 1)
    BY <1>2
  <2> DEFINE t == [k \in 0..m |-> IF k = m THEN F[m][s[m - 1]] ELSE s[k]]
  <2>2. s[m - 1] \in S /\ F[m] \in [S -> S]
    OBVIOUS
  <2>3. t \in [0..m -> S]
    BY <2>2
  <2>4. t[0] = a
    BY <2>1
  <2>5. ASSUME NEW n \in 1..m PROVE t[n] = F[n][t[n - 1]]
    <3>1. CASE n = m
      BY <3>1
    <3>2. CASE n # m
      <4>1. n \in 1..m - 1 /\ t[n] = s[n] /\ t[n - 1] = s[n - 1]
        BY <3>2
      <4> QED BY <2>1, <4>1
    <3> QED BY <3>1, <3>2
  <2> HIDE DEF t
  <2> QED BY <2>3, <2>4, <2>5
<1>3. N \in A
  <2> HIDE DEF A
  <2>1. 0..N \subseteq A
    BY <1>1, <1>2, UpTo
  <2> QED BY <2>1
<1>4. \E s \in [0..N -> S] : Runs(s, N)
  BY <1>3
<1> QED BY <1>4 DEF Iterates

=============================================================================
