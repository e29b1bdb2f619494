----------------------------- MODULE SharedLemmas ------------------------------
(***************************************************************************)
(* What the proofs of several components rest on: remainders, for the      *)
(* wrapping clocks and counters; induction, functions defined step by      *)
(* step, and sequences, for the encoders and parsers.                      *)
(***************************************************************************)
EXTENDS Integers, SequencesExt, SequenceTheorems, FiniteSetTheorems, TLAPS

(* Division with remainder.                                                *)
LEMMA DivMod ==
  ASSUME NEW a \in Int, NEW m \in Int, m > 0
  PROVE  /\ a = (a \div m) * m + (a % m)
         /\ a \div m \in Int /\ a % m \in Int /\ 0 <= a % m /\ a % m < m
<1>1. a = (a \div m) * m + (a % m)
  BY Z3
<1>2. a \div m \in Int /\ a % m \in Int /\ 0 <= a % m /\ a % m < m
  OBVIOUS
<1> QED BY <1>1, <1>2

(* The remainder is the only number below m that differs from a by a       *)
(* multiple of m.                                                          *)
LEMMA ModUnique ==
  ASSUME NEW m \in Int, m > 0, NEW a \in Int, NEW q \in Int,
         NEW r \in Int, 0 <= r, r < m, a = q * m + r
  PROVE  a % m = r
<1> DEFINE p == a \div m
           s == a % m
<1>1. a = p * m + s /\ p \in Int /\ s \in Int /\ 0 <= s /\ s < m
  BY DivMod
<1> SUFFICES s = r
  BY DEF s
<1> HIDE DEF p, s
<1>2. (q - p) * m = s - r
  BY <1>1
<1>3. CASE q - p >= 1
  <2>1. (q - p) * m >= m
    BY <1>1, <1>3
  <2> QED BY <1>1, <1>2, <2>1
<1>4. CASE q - p <= -1
  <2>1. (q - p) * m <= -m
    BY <1>1, <1>4
  <2> QED BY <1>1, <1>2, <2>1
<1>5. CASE q - p = 0
  <2>1. s - r = 0 * m
    BY <1>2, <1>5
  <2>2. s - r = 0
    BY <2>1
  <2> QED BY <1>1, <2>2
<1> QED BY <1>1, <1>3, <1>4, <1>5

(* Products with a common factor, and the order of three factors.          *)
LEMMA Distribute ==
  ASSUME NEW p \in Int, NEW q \in Int, NEW m \in Int
  PROVE  /\ (p - q) * m = p * m - q * m /\ (p + q) * m = p * m + q * m
         /\ p * m \in Int /\ q * m \in Int /\ p * (q * m) = (p * q) * m
  BY Z3

(* A number below m is its own remainder.                                  *)
LEMMA ModSmall ==
  ASSUME NEW m \in Int, m > 0, NEW a \in Int, 0 <= a, a < m
  PROVE  a % m = a
  BY ModUnique

(* Remainders may be taken before or after adding and subtracting.         *)
LEMMA ModAdd ==
  ASSUME NEW m \in Int, m > 0, NEW a \in Int, NEW b \in Int
  PROVE  ((a % m) + b) % m = (a + b) % m
<1> DEFINE q == a \div m
           s == a % m
           p == (a + b) \div m
           r == (a + b) % m
<1>1. a = q * m + s /\ q \in Int /\ s \in Int
  BY DivMod
<1>2. a + b = p * m + r /\ p \in Int /\ r \in Int /\ 0 <= r /\ r < m
  BY DivMod
<1> HIDE DEF p, q, r, s
<1>3. s + b = (p - q) * m + r /\ p - q \in Int /\ s + b \in Int
  BY <1>1, <1>2, Distribute
<1>4. (s + b) % m = r
  BY <1>2, <1>3, ModUnique
<1> QED BY <1>4 DEF r, s

(* The difference of two wrapped counters is the wrapped difference.       *)
LEMMA ModSub ==
  ASSUME NEW m \in Int, m > 0, NEW a \in Int, NEW b \in Int
  PROVE  ((a % m) - (b % m)) % m = (a - b) % m
<1> DEFINE q == b \div m
           p == (a - b) \div m
           r == (a - b) % m
           u == a \div m
           s == a % m
           t == b % m
<1>1. b = q * m + t /\ q \in Int /\ t \in Int
  BY DivMod
<1>2. a - b = p * m + r /\ p \in Int /\ r \in Int /\ 0 <= r /\ r < m
  BY DivMod
<1>3. a = u * m + s /\ u \in Int /\ s \in Int
  BY DivMod
<1> HIDE DEF p, q, r, s, t, u
<1>4. s - t = ((p + q) - u) * m + r /\ (p + q) - u \in Int /\ s - t \in Int
  BY <1>1, <1>2, <1>3, Distribute
<1>5. (s - t) % m = r
  BY <1>2, <1>4, ModUnique
<1> QED BY <1>5 DEF r, s, t

(* A counter that wraps at a multiple of d still addresses entry a % d.    *)
LEMMA ModMod ==
  ASSUME NEW m \in Int, m > 0, NEW d \in Int, d > 0, m % d = 0, NEW a \in Int
  PROVE  (a % m) % d = a % d
<1> DEFINE q == a \div m
           k == m \div d
           p == a \div d
           r == a % d
           s == a % m
<1>1. a = q * m + s /\ q \in Int /\ s \in Int
  BY DivMod
<1>2. m = k * d /\ k \in Int
  BY DivMod
<1>3. a = p * d + r /\ p \in Int /\ r \in Int /\ 0 <= r /\ r < d
  BY DivMod
<1> HIDE DEF p, q, r, k, s
<1>4. q * m = (q * k) * d /\ q * k \in Int
  BY <1>1, <1>2, Distribute
<1>5. s = (p - q * k) * d + r /\ p - q * k \in Int
  BY <1>1, <1>3, <1>4, Distribute
<1>6. s % d = r
  BY <1>1, <1>3, <1>5, ModUnique
<1> QED BY <1>6 DEF r, s

(* Numbers less than m apart have different remainders.                    *)
LEMMA ModWindow ==
  ASSUME NEW m \in Int, m > 0, NEW a \in Int, NEW b \in Int, a < b, b < a + m
  PROVE  a % m # b % m
<1> SUFFICES ASSUME a % m = b % m PROVE FALSE
  OBVIOUS
<1>1. (b - a) % m = b - a
  BY ModSmall
<1>2. ((b % m) - (a % m)) % m = b - a
  BY <1>1, ModSub
<1>3. (b % m) - (a % m) = 0
  BY DivMod
<1>4. 0 % m = 0
  BY ModSmall
<1> QED BY <1>2, <1>3, <1>4

(* A set of natural numbers that is not empty has a least member: the      *)
(* finite intervals 0..m are well-founded under inclusion.                 *)
LEMMA LeastNat ==
  ASSUME NEW P \in SUBSET Nat, P # {}
  PROVE  \E m \in P : \A k \in P : m <= k
<1> DEFINE R == StrictSubsetOrdering(Nat)
           F == FiniteSubsetsOf(Nat)
           T == {0..m : m \in P}
<1>1. IsWellFoundedOn(R, F)
  BY FS_StrictSubsetOrderingWellFounded, Zenon
<1>2. T \subseteq F
  <2>1. \A m \in Nat : IsFiniteSet(0..m)
    BY FS_Interval
  <2> QED BY <2>1 DEF FiniteSubsetsOf
<1>3. T # {}
  OBVIOUS
<1>4. \A m, k \in P : k < m => <<0..k, 0..m>> \in R
  <2> SUFFICES ASSUME NEW m \in P, NEW k \in P, k < m PROVE <<0..k, 0..m>> \in R
    OBVIOUS
  <2>1. /\ m \in 0..m /\ m \notin 0..k /\ 0..k \subseteq 0..m
        /\ 0..k \subseteq Nat /\ 0..m \subseteq Nat
    OBVIOUS
  <2> QED BY <2>1 DEF StrictSubsetOrdering
<1> HIDE DEF R, F
<1>5. PICK t \in T : \A u \in T : <<u, t>> \notin R
  <2> HIDE DEF T
  <2>1. \E x \in T : \A y \in T : ~(<<y, x>> \in R)
    BY <1>1, <1>2, <1>3, WFMin, Zenon
  <2> QED BY <2>1
<1>6. PICK m \in P : t = 0..m
  OBVIOUS
<1>7. \A k \in P : ~(k < m)
  BY <1>4, <1>5, <1>6
<1> QED BY <1>7

(* Induction, for a set of natural numbers.                                *)
LEMMA Induction ==
  ASSUME NEW n \in Nat, NEW P, 0 \in P, \A i \in 0..n : i \in P /\ i < n => i + 1 \in P
  PROVE  \A i \in 0..n : i \in P
<1> DEFINE Q == {i \in 0..n : i \notin P}
<1> SUFFICES ASSUME Q # {} PROVE FALSE
  OBVIOUS
<1>1. Q \in SUBSET Nat
  OBVIOUS
<1> HIDE DEF Q
<1>2. PICK m \in Q : \A k \in Q : m <= k
  BY <1>1, LeastNat
<1> USE DEF Q
<1>3. m \in 0..n /\ m \notin P /\ m # 0
  BY <1>2
<1>4. m - 1 \in 0..n /\ m - 1 < n /\ m - 1 + 1 = m
  BY <1>3
<1>5. m - 1 \notin Q
  BY <1>2, <1>3
<1>6. m - 1 \in P
  BY <1>4, <1>5
<1> QED BY <1>3, <1>4, <1>6

(* A function may be defined by its first value and a step from each value *)
(* to the next.                                                            *)
Iterates(f, V, first, n, step) ==
  /\ f \in [0..n -> V] /\ f[0] = first
  /\ \A i \in 1..n : f[i] = step[i][f[i - 1]]

(* There is such a function.                                               *)
LEMMA Iteration ==
  ASSUME NEW V, NEW first \in V, NEW n \in Nat, NEW step \in [1..n -> [V -> V]]
  PROVE  \E f : Iterates(f, V, first, n, step)
<1> DEFINE Good(m, f) == f[0] = first /\ \A i \in 1..m : f[i] = step[i][f[i - 1]]
           P == {m \in 0..n : \E f \in [0..m -> V] : Good(m, f)}
<1>1. 0 \in P
  <2> DEFINE f == [i \in 0..0 |-> first]
  <2>1. f \in [0..0 -> V] /\ Good(0, f)
    OBVIOUS
  <2> HIDE DEF f, Good
  <2>2. \E e \in [0..0 -> V] : Good(0, e)
    BY <2>1
  <2> QED BY <2>2
<1>2. ASSUME NEW m \in 0..n, m \in P, m < n PROVE m + 1 \in P
  <2>1. PICK f \in [0..m -> V] : Good(m, f)
    BY <1>2
  <2> DEFINE g == [i \in 0..(m + 1) |-> IF i = m + 1 THEN step[m + 1][f[m]] ELSE f[i]]
  <2>2. m + 1 \in 1..n /\ f[m] \in V
    BY <1>2, <2>1
  <2>3. step[m + 1][f[m]] \in V
    BY <2>2
  <2>4. g \in [0..(m + 1) -> V]
    BY <2>1, <2>3
  <2>5. ASSUME NEW i \in 1..(m + 1) PROVE g[i] = step[i][g[i - 1]]
    <3>1. CASE i = m + 1
      <4>1. i - 1 = m /\ g[m] = f[m] /\ g[i] = step[m + 1][f[m]]
        BY <1>2, <3>1
      <4> QED BY <3>1, <4>1
    <3>2. CASE i # m + 1
      <4>1. i \in 1..m /\ i - 1 \in 0..m /\ g[i] = f[i] /\ g[i - 1] = f[i - 1]
        BY <1>2, <3>2
      <4>2. f[i] = step[i][f[i - 1]]
        BY <2>1, <3>2, <4>1
      <4> QED BY <3>2, <4>1, <4>2
    <3> QED BY <3>1, <3>2
  <2>6. Good(m + 1, g)
    <3>1. g[0] = first
      BY <1>2, <2>1
    <3> HIDE DEF g
    <3> QED BY <2>5, <3>1
  <2> HIDE DEF g, Good
  <2>7. \E e \in [0..(m + 1) -> V] : Good(m + 1, e)
    BY <2>4, <2>6
  <2>8. m + 1 \in 0..n
    BY <1>2
  <2> QED BY <2>7, <2>8
<1> HIDE DEF P
<1>3. \A i \in 0..n : i \in P
  BY <1>1, <1>2, Induction
<1>4. n \in P
  BY <1>3
<1>5. PICK f \in [0..n -> V] : Good(n, f)
  BY <1>4 DEF P
<1>6. Iterates(f, V, first, n, step)
  BY <1>5 DEF Iterates
<1> QED BY <1>6

(* FlattenSeq() puts the parts together one after the other: f[i] is what  *)
(* has come of the first i.                                                *)
Flattens(f, S, seqs) ==
  /\ f \in [0..Len(seqs) -> Seq(S)] /\ f[0] = <<>>
  /\ \A i \in 1..Len(seqs) : f[i] = f[i - 1] \o seqs[i]
  /\ FlattenSeq(seqs) = f[Len(seqs)]

(* There is such an f for every sequence of sequences.                     *)
LEMMA Flattening ==
  ASSUME NEW S, NEW seqs \in Seq(Seq(S))
  PROVE  \E f : Flattens(f, S, seqs)
<1> DEFINE n == Len(seqs)
           step == [i \in 1..n |-> [s \in Seq(S) |-> s \o seqs[i]]]
           first == <<>>
           Cat(s, t) == s \o t
           Equation(g) == g = [i \in 1..n |-> IF i = 1 THEN seqs[i] ELSE Cat(g[i - 1], seqs[i])]
           flatten == CHOOSE g : Equation(g)
<1>1. n \in Nat /\ first \in Seq(S) /\ \A i \in 1..n : seqs[i] \in Seq(S)
  BY EmptySeq
<1>2. step \in [1..n -> [Seq(S) -> Seq(S)]]
  <2>1. \A i \in 1..n, s \in Seq(S) : s \o seqs[i] \in Seq(S)
    BY <1>1, ConcatProperties
  <2> QED BY <2>1
<1>3. FlattenSeq(seqs) = IF n = 0 THEN seqs ELSE flatten[n]
  BY Zenon DEF FlattenSeq
<1>4. \A i \in 1..n, s \in Seq(S) : step[i][s] = s \o seqs[i]
  OBVIOUS
<1>5. PICK f : Iterates(f, Seq(S), first, n, step)
  <2> HIDE DEF n, step, first
  <2> QED BY <1>1, <1>2, Iteration
<1>f. /\ f \in [0..n -> Seq(S)] /\ f[0] = first
      /\ \A i \in 1..n : f[i] = step[i][f[i - 1]]
  <2> HIDE DEF n, step, first
  <2> QED BY <1>5 DEF Iterates
<1>6. f[0] = <<>> /\ \A i \in 1..n : i - 1 \in 0..n /\ f[i - 1] \in Seq(S) /\ f[i] = Cat(f[i - 1], seqs[i])
  <2>1. 0 \in 0..n
    BY <1>1
  <2>2. f[0] = first
    <3> HIDE DEF first, step, n
    <3> QED BY <1>f, <2>1
  <2>3. ASSUME NEW i \in 1..n PROVE i - 1 \in 0..n /\ f[i - 1] \in Seq(S) /\ f[i] = Cat(f[i - 1], seqs[i])
    <3>1. i - 1 \in 0..n /\ i \in 0..n /\ i # 0
      BY <1>1
    <3>2. f[i] = step[i][f[i - 1]] /\ f[i - 1] \in Seq(S)
      <4> HIDE DEF step, n, first
      <4> QED BY <1>f, <3>1
    <3> HIDE DEF step, n
    <3> QED BY <1>4, <3>1, <3>2
  <2> QED BY <2>2, <2>3
<1>e. \A s \in Seq(S) : Cat(<<>>, s) = s
  BY ConcatEmptySeq
<1>t. \A i \in 1..n : f[i] = f[i - 1] \o seqs[i]
  BY <1>6
<1> HIDE DEF step, n, Cat
<1>7. ASSUME n = 0 PROVE FlattenSeq(seqs) = f[n]
  <2>1. seqs = <<>>
    BY <1>7, EmptySeq DEF n
  <2> QED BY <1>3, <1>f, <1>6, <1>7, <1>t, <2>1 DEF n
<1>8. ASSUME n # 0 PROVE FlattenSeq(seqs) = f[n]
  <2> DEFINE h == [i \in 1..n |-> f[i]]
  <2>1. Equation(h)
    <3>1. ASSUME NEW i \in 1..n PROVE f[i] = IF i = 1 THEN seqs[i] ELSE Cat(h[i - 1], seqs[i])
      <4>1. CASE i = 1
        <5>1. f[1] = Cat(<<>>, seqs[1]) /\ seqs[1] \in Seq(S)
          BY <1>1, <1>6, <4>1
        <5> QED BY <4>1, <5>1, <1>e
      <4>2. CASE i # 1
        <5>1. i - 1 \in 1..n
          BY <1>1, <4>2
        <5>2. h[i - 1] = f[i - 1]
          BY <5>1
        <5> QED BY <1>6, <4>2, <5>2
      <4> QED BY <4>1, <4>2
    <3> QED BY <3>1
  <2> HIDE DEF h
  <2>2. Equation(flatten)
    BY <2>1
  <2> HIDE DEF flatten
  <2> DEFINE P == {i \in 0..n : i = 0 \/ flatten[i] = f[i]}
  <2>3. 0 \in P
    BY <1>1
  <2>4. ASSUME NEW i \in 0..n, i \in P, i < n PROVE i + 1 \in P
    <3>1. i + 1 \in 1..n /\ i + 1 - 1 = i
      BY <1>1, <2>4
    <3>2. flatten[i + 1] = IF i + 1 = 1 THEN seqs[i + 1] ELSE Cat(flatten[i], seqs[i + 1])
      BY <2>2, <3>1
    <3>3. f[i + 1] = Cat(f[i], seqs[i + 1]) /\ seqs[i + 1] \in Seq(S)
      BY <1>1, <1>6, <3>1
    <3>4. CASE i = 0
      <4>1. f[i + 1] = seqs[i + 1]
        BY <1>6, <3>3, <3>4, <1>e
      <4> QED BY <1>1, <3>1, <3>2, <3>4, <4>1
    <3>5. CASE i # 0
      BY <1>1, <2>4, <3>1, <3>2, <3>3, <3>5
    <3> QED BY <3>4, <3>5
  <2> HIDE DEF P
  <2>5. n \in P
    <3>1. \A i \in 0..n : i \in P
      BY <1>1, <2>3, <2>4, Induction
    <3> QED BY <1>1, <3>1
  <2>6. flatten[n] = f[n]
    BY <1>8, <2>5 DEF P
  <2> QED BY <1>3, <1>f, <1>6, <1>8, <1>t, <2>6 DEF n
<1>9. Flattens(f, S, seqs)
  BY <1>f, <1>6, <1>t, <1>7, <1>8 DEF Flattens, n
<1> QED BY <1>9

(* What has come of the first parts stays the beginning of the whole.      *)
Begins(s, t) == Len(s) <= Len(t) /\ \A k \in 1..Len(s) : t[k] = s[k]

(* The first i parts are the beginning of all of them.                     *)
LEMMA PartsBegin ==
  ASSUME NEW S, NEW n \in Nat, NEW f \in [0..n -> Seq(S)], NEW parts \in [1..n -> Seq(S)],
         \A k \in 1..n : f[k] = f[k - 1] \o parts[k],
         NEW i \in 0..n
  PROVE  Begins(f[i], f[n])
<1> DEFINE P == {j \in 0..n : i <= j => Begins(f[i], f[j])}
<1>0. \A s \in Seq(S) : Begins(s, s)
  BY DEF Begins
<1>1. 0 \in P
  <2>1. i <= 0 => i = 0 /\ f[i] \in Seq(S)
    OBVIOUS
  <2> QED BY <1>0, <2>1
<1>2. ASSUME NEW j \in 0..n, j \in P, j < n PROVE j + 1 \in P
  <2>1. j + 1 \in 1..n /\ j + 1 \in 0..n /\ j + 1 - 1 = j
    BY <1>2
  <2>2. CASE i <= j
    <3>1. Begins(f[i], f[j])
      BY <1>2, <2>2
    <3>2. /\ f[j + 1] = f[j] \o parts[j + 1]
          /\ f[i] \in Seq(S) /\ f[j] \in Seq(S) /\ parts[j + 1] \in Seq(S)
      BY <2>1
    <3>3. \A s, t, u \in Seq(S) : Begins(s, t) => Begins(s, t \o u)
      BY DEF Begins
    <3>4. Begins(f[i], f[j + 1])
      BY <3>1, <3>2, <3>3
    <3> QED BY <2>1, <3>4
  <2>3. CASE i = j + 1
    <3>1. Begins(f[i], f[j + 1])
      BY <1>0, <2>3
    <3> QED BY <2>1, <3>1
  <2>4. CASE i > j + 1
    BY <2>1, <2>4
  <2> QED BY <2>2, <2>3, <2>4
<1> HIDE DEF P
<1>3. \A j \in 0..n : j \in P
  BY <1>1, <1>2, Induction
<1>4. n \in P /\ i <= n
  BY <1>3
<1>5. i <= n => Begins(f[i], f[n])
  BY <1>4, Zenon DEF P
<1> QED BY <1>4, <1>5, Zenon

(* A function on 1..n is a sequence of length n.                           *)
LEMMA SeqOfFunction ==
  ASSUME NEW S, NEW n \in Nat, NEW f \in [1..n -> S]
  PROVE  f \in Seq(S) /\ Len(f) = n
OBVIOUS

(* What is left of a sequence without its first k members.                 *)
LEMMA SubSeqTail ==
  ASSUME NEW S, NEW t \in Seq(S), NEW k \in 1..Len(t)
  PROVE  /\ SubSeq(t, k + 1, Len(t)) \in Seq(S) /\ Len(SubSeq(t, k + 1, Len(t))) = Len(t) - k
         /\ \A i \in 1..(Len(t) - k) : SubSeq(t, k + 1, Len(t))[i] = t[k + i]
<1>1. \A i \in k + 1..Len(t) : t[i] \in S
  OBVIOUS
<1>2. SubSeq(t, k + 1, Len(t)) \in Seq(S)
  BY <1>1, SubSeqProperties
<1>3. Len(SubSeq(t, k + 1, Len(t))) = Len(t) - k
  OBVIOUS
<1>4. \A i \in 1..(Len(t) - k) : SubSeq(t, k + 1, Len(t))[i] = t[k + 1 + i - 1]
  OBVIOUS
<1>5. \A i \in 1..(Len(t) - k) : k + 1 + i - 1 = k + i
  OBVIOUS
<1> QED BY <1>2, <1>3, <1>4, <1>5

(* Two sequences one after the other, member by member.                    *)
LEMMA ConcatFields ==
  ASSUME NEW S, NEW s \in Seq(S), NEW t \in Seq(S)
  PROVE  /\ s \o t \in Seq(S) /\ Len(s \o t) = Len(s) + Len(t) /\ DOMAIN (s \o t) = 1..(Len(s) + Len(t))
         /\ \A i \in 1..Len(s) : (s \o t)[i] = s[i]
         /\ \A i \in 1..(Len(s) + Len(t)) : i > Len(s) => (s \o t)[i] = t[i - Len(s)]
OBVIOUS

(* The members of a sequence.                                              *)
LEMMA RangeSeq ==
  ASSUME NEW S, NEW s \in Seq(S)
  PROVE  /\ \A c \in Range(s) : c \in S /\ \E i \in 1..Len(s) : c = s[i]
         /\ \A i \in 1..Len(s) : s[i] \in Range(s)
BY DEF Range

(* The members of a sequence that got one more.                            *)
LEMMA RangeAppend ==
  ASSUME NEW S, NEW s \in Seq(S), NEW e \in S
  PROVE  /\ Append(s, e) \in Seq(S) /\ Append(s, e) # <<>> /\ Len(Append(s, e)) = Len(s) + 1
         /\ Range(Append(s, e)) = Range(s) \cup {e}
<1>1. /\ Append(s, e) \in Seq(S) /\ Len(Append(s, e)) = Len(s) + 1 /\ Len(s) \in Nat
      /\ Append(s, e)[Len(s) + 1] = e /\ \A i \in 1..Len(s) : Append(s, e)[i] = s[i]
  OBVIOUS
<1> DEFINE a == Append(s, e)
           n == Len(s)
<1> HIDE DEF a, n
<1>2. DOMAIN a = 1..(n + 1) /\ DOMAIN s = 1..n
  BY <1>1 DEF a, n
<1>3. Range(a) = Range(s) \cup {e}
  <2>1. ASSUME NEW x \in Range(a) PROVE x \in Range(s) \cup {e}
    <3>1. PICK i \in 1..(n + 1) : x = a[i]
      BY <1>2 DEF Range
    <3>2. i = n + 1 \/ i \in 1..n
      BY <1>1 DEF n
    <3> QED BY <1>1, <1>2, <3>1, <3>2 DEF a, n, Range
  <2>2. ASSUME NEW x \in Range(s) PROVE x \in Range(a)
    <3>1. PICK i \in 1..n : x = s[i]
      BY <1>2 DEF Range
    <3>2. i \in 1..(n + 1) /\ x = a[i]
      BY <1>1, <3>1 DEF a, n
    <3> QED BY <1>2, <3>2 DEF Range
  <2>3. e \in Range(a)
    <3>1. n + 1 \in 1..(n + 1) /\ a[n + 1] = e
      BY <1>1 DEF a, n
    <3> QED BY <1>2, <3>1 DEF Range
  <2> QED BY <2>1, <2>2, <2>3
<1>4. a # <<>>
  BY <1>1, <1>2 DEF a, n
<1> QED BY <1>1, <1>3, <1>4 DEF a

(* The members of a sequence without its first.                            *)
LEMMA RangeTail ==
  ASSUME NEW S, NEW s \in Seq(S), s # <<>>
  PROVE  /\ Tail(s) \in Seq(S) /\ Range(Tail(s)) \subseteq Range(s)
         /\ Head(s) \in S /\ Head(s) \in Range(s) /\ Head(s) = s[1]
         /\ Len(Tail(s)) = Len(s) - 1 /\ \A i \in 1..(Len(s) - 1) : Tail(s)[i] = s[i + 1]
<1>1. /\ Tail(s) \in Seq(S) /\ Len(Tail(s)) = Len(s) - 1 /\ Len(s) \in Nat \ {0}
      /\ \A i \in 1..(Len(s) - 1) : Tail(s)[i] = s[i + 1] /\ i + 1 \in 1..Len(s)
      /\ Head(s) = s[1] /\ 1 \in 1..Len(s) /\ Head(s) \in S
  OBVIOUS
<1>2. \A i \in 1..Len(s) : s[i] \in Range(s)
  BY RangeSeq
<1> DEFINE r == Tail(s)
<1>r. r \in Seq(S)
  BY <1>1
<1> HIDE DEF r
<1>3. \A c \in Range(r) : \E i \in 1..Len(r) : c = r[i]
  BY <1>r, RangeSeq
<1>4. \A c \in Range(r) : c \in Range(s)
  BY <1>1, <1>2, <1>3 DEF r
<1> QED BY <1>1, <1>2, <1>4 DEF r
================================================================================
