------------------------- MODULE TranscriptProofs --------------------------
(***************************************************************************)
(* Proofs about what stored transcripts are read for: the sessions that    *)
(* are made from others, for any sources, limits and transcripts; the      *)
(* inspector of a chat's agents, for any agents; and, with StoreProofs,    *)
(* what a run checks of all that the hub stores.                           *)
(***************************************************************************)
EXTENDS MCStores, StoreProofs

-----------------------------------------------------------------------------
(* Sums *)

\* f is what SumTo is defined as.
SolvesSum(f, numbers) == f = [n \in 0 .. Len(numbers) |-> IF n = 0 THEN 0 ELSE f[n - 1] + numbers[n]]

\* The equation that defines a sum has a solution.
LEMMA SumExists ==
    ASSUME NEW numbers, Len(numbers) \in Nat
    PROVE  \E f : SolvesSum(f, numbers)
<1> DEFINE Upto(f, m) == f = [n \in 0 .. m |-> IF n = 0 THEN 0 ELSE f[n - 1] + numbers[n]]
           S == {m \in Nat : \E f : Upto(f, m)}
<1>1. 0 \in S
  <2>1. Upto([n \in 0 .. 0 |-> 0], 0)
    OBVIOUS
  <2> QED BY <2>1
<1>2. ASSUME NEW m \in Nat, m \in S PROVE m + 1 \in S
  <2>1. PICK f : Upto(f, m)
    BY <1>2
  <2> DEFINE g == [n \in 0 .. m + 1 |-> IF n = m + 1 THEN f[m] + numbers[n] ELSE f[n]]
  <2>2. \A n \in 0 .. m : f[n] = IF n = 0 THEN 0 ELSE f[n - 1] + numbers[n]
    BY <2>1
  <2>3. \A n \in 0 .. m + 1 : g[n] = IF n = 0 THEN 0 ELSE g[n - 1] + numbers[n]
    <3> SUFFICES ASSUME NEW n \in 0 .. m + 1
                 PROVE  g[n] = IF n = 0 THEN 0 ELSE g[n - 1] + numbers[n]
      OBVIOUS
    <3>1. CASE n = m + 1
      BY <3>1
    <3>2. CASE n # m + 1
      BY <3>2, <2>2
    <3> QED BY <3>1, <3>2
  <2>4. Upto(g, m + 1)
    <3>1. g = [n \in 0 .. m + 1 |-> g[n]]
      OBVIOUS
    <3> HIDE DEF g
    <3> QED BY <2>3, <3>1
  <2>5. \E h : Upto(h, m + 1)
    <3> HIDE DEF g, Upto
    <3> QED BY <2>4
  <2> QED BY <2>5
<1>3. Len(numbers) \in S
  <2> HIDE DEF S
  <2> QED BY <1>1, <1>2, NumberByNumber
<1>4. \E f : Upto(f, Len(numbers))
  <2> HIDE DEF Upto
  <2> QED BY <1>3
<1> QED BY <1>4, Zenon DEF SolvesSum

\* A sum begins with zero and takes the numbers one by one.
LEMMA SumGoes ==
    ASSUME NEW numbers, Len(numbers) \in Nat
    PROVE  /\ SumTo(numbers)[0] = 0
           /\ \A n \in 1 .. Len(numbers) : SumTo(numbers)[n] = SumTo(numbers)[n - 1] + numbers[n]
<1> DEFINE r == SumTo(numbers)
<1>1. r = CHOOSE f : SolvesSum(f, numbers)
  BY Zenon DEF SumTo, SolvesSum
<1>2. \E f : SolvesSum(f, numbers)
  BY SumExists
<1>3. SolvesSum(r, numbers)
  <2> HIDE DEF r
  <2> QED BY <1>1, <1>2
<1>4. \A n \in 0 .. Len(numbers) : r[n] = IF n = 0 THEN 0 ELSE r[n - 1] + numbers[n]
  <2> HIDE DEF r
  <2> QED BY <1>3 DEF SolvesSum
<1> HIDE DEF r
<1> QED BY <1>4 DEF r

\* What is carried from each number to the next holds of all of them.
LEMMA UpTo ==
    ASSUME NEW k \in Nat, NEW T, 0 \in T, \A n \in 0 .. k : n < k /\ n \in T => n + 1 \in T
    PROVE  \A n \in 0 .. k : n \in T
<1> DEFINE S == {n \in Nat : n <= k => n \in T}
<1>1. 0 \in S /\ \A n \in Nat : n \in S => n + 1 \in S
  OBVIOUS
<1>2. \A n \in Nat : n \in S
  <2> HIDE DEF S
  <2> QED BY <1>1, NumberByNumber
<1> QED BY <1>2

\* Sums of natural numbers are natural, and none of the numbers is above their sum.
LEMMA SumNatural ==
    ASSUME NEW a \in Seq(Nat)
    PROVE  /\ Total(a) \in Nat
           /\ \A n \in 0 .. Len(a) : SumTo(a)[n] \in Nat
           /\ \A i \in 1 .. Len(a) : a[i] <= Total(a)
<1> DEFINE T == {n \in Nat : SumTo(a)[n] \in Nat /\ \A i \in 1 .. n : a[i] <= SumTo(a)[n]}
<1>1. /\ Len(a) \in Nat /\ \A i \in 1 .. Len(a) : a[i] \in Nat
      /\ SumTo(a)[0] = 0 /\ \A n \in 1 .. Len(a) : SumTo(a)[n] = SumTo(a)[n - 1] + a[n]
  BY SumGoes
<1>2. 0 \in T
  BY <1>1
<1>3. ASSUME NEW n \in 0 .. Len(a), n < Len(a), n \in T PROVE n + 1 \in T
  <2>1. n + 1 \in 1 .. Len(a) /\ SumTo(a)[n + 1] = SumTo(a)[n] + a[n + 1] /\ a[n + 1] \in Nat
    BY <1>1, <1>3
  <2>2. SumTo(a)[n] \in Nat
    BY <1>3
  <2>3. ASSUME NEW i \in 1 .. n + 1 PROVE a[i] <= SumTo(a)[n + 1]
    BY <1>1, <1>3, <2>1, <2>2
  <2> QED BY <2>1, <2>2, <2>3
<1>4. \A n \in 0 .. Len(a) : n \in T
  <2> HIDE DEF T
  <2> QED BY <1>1, <1>2, <1>3, UpTo
<1> QED BY <1>1, <1>4 DEF Total

\* A sum of numbers each of which exceeds another by k at most exceeds the other sum so many times.
LEMMA SumExceeds ==
    ASSUME NEW a \in Seq(Nat), NEW b \in Seq(Nat), Len(a) = Len(b), NEW k \in Nat,
           \A i \in 1 .. Len(a) : a[i] <= b[i] + k
    PROVE  Total(a) <= Total(b) + Len(a) * k
<1> DEFINE T == {n \in Nat : SumTo(a)[n] <= SumTo(b)[n] + n * k}
<1>1. Len(a) \in Nat /\ Len(b) \in Nat /\ \A i \in 1 .. Len(a) : a[i] \in Nat /\ b[i] \in Nat
  OBVIOUS
<1>2. SumTo(a)[0] = 0 /\ \A n \in 1 .. Len(a) : SumTo(a)[n] = SumTo(a)[n - 1] + a[n]
  BY <1>1, SumGoes
<1>3. SumTo(b)[0] = 0 /\ \A n \in 1 .. Len(b) : SumTo(b)[n] = SumTo(b)[n - 1] + b[n]
  BY <1>1, SumGoes
<1>4. 0 \in T
  BY <1>2, <1>3
<1>5. ASSUME NEW n \in 0 .. Len(a), n < Len(a), n \in T PROVE n + 1 \in T
  <2>1. /\ n + 1 \in 1 .. Len(a) /\ SumTo(a)[n + 1] = SumTo(a)[n] + a[n + 1] /\ a[n + 1] \in Nat
        /\ SumTo(b)[n + 1] = SumTo(b)[n] + b[n + 1] /\ b[n + 1] \in Nat /\ a[n + 1] <= b[n + 1] + k
    BY <1>1, <1>5, <1>2, <1>3
  <2>2. SumTo(a)[n] \in Nat /\ SumTo(b)[n] \in Nat
    BY SumNatural
  <2>3. SumTo(a)[n] <= SumTo(b)[n] + n * k
    BY <1>5
  <2>4. (n + 1) * k = n * k + k /\ n * k \in Nat
    OBVIOUS
  <2>5. SumTo(a)[n + 1] <= SumTo(b)[n + 1] + (n + 1) * k
    <3> DEFINE m == n * k
               s == SumTo(a)[n]
               t == SumTo(b)[n]
    <3>1. s + a[n + 1] <= t + b[n + 1] + (m + k)
      <4>1. s \in Nat /\ t \in Nat /\ m \in Nat /\ s <= t + m
        BY <2>2, <2>3, <2>4
      <4> HIDE DEF s, t, m
      <4> QED BY SMTT(30), <2>1, <4>1
    <3> QED BY <2>1, <2>4, <3>1
  <2> QED BY <2>5
<1>6. \A n \in 0 .. Len(a) : n \in T
  <2> HIDE DEF T
  <2> QED BY <1>1, <1>4, <1>5, UpTo
<1>7. Len(a) \in 0 .. Len(a)
  BY <1>1
<1>8. Len(a) \in T
  <2> HIDE DEF T
  <2> QED BY <1>6, <1>7
<1>9. SumTo(a)[Len(a)] <= SumTo(b)[Len(b)] + Len(a) * k
  BY <1>8
<1> QED BY <1>9 DEF Total

\* A sum of which only one number is not zero is that number.
LEMMA SumOfOne ==
    ASSUME NEW a \in Seq(Nat), NEW i \in 1 .. Len(a), \A n \in 1 .. Len(a) : n # i => a[n] = 0
    PROVE  Total(a) = a[i]
<1> DEFINE T == {n \in Nat : SumTo(a)[n] = IF n < i THEN 0 ELSE a[i]}
<1>1. /\ Len(a) \in Nat /\ \A n \in 1 .. Len(a) : a[n] \in Nat
      /\ SumTo(a)[0] = 0 /\ \A n \in 1 .. Len(a) : SumTo(a)[n] = SumTo(a)[n - 1] + a[n]
  BY SumGoes
<1>2. 0 \in T
  BY <1>1
<1>3. ASSUME NEW n \in 0 .. Len(a), n < Len(a), n \in T PROVE n + 1 \in T
  <2>1. n + 1 \in 1 .. Len(a) /\ SumTo(a)[n + 1] = SumTo(a)[n] + a[n + 1]
    BY <1>1, <1>3
  <2>2. SumTo(a)[n] = IF n < i THEN 0 ELSE a[i]
    BY <1>3
  <2>3. a[n + 1] = IF n + 1 = i THEN a[i] ELSE 0
    BY <2>1
  <2>4. a[i] \in Nat
    BY <1>1
  <2>5. SumTo(a)[n + 1] = IF n + 1 < i THEN 0 ELSE a[i]
    <3> HIDE DEF T
    <3> QED BY <2>1, <2>2, <2>3, <2>4
  <2> QED BY <2>5
<1>4. \A n \in 0 .. Len(a) : n \in T
  <2> HIDE DEF T
  <2> QED BY <1>1, <1>2, <1>3, UpTo
<1>5. Len(a) \in 0 .. Len(a) /\ ~(Len(a) < i)
  BY <1>1
<1>6. Len(a) \in T
  <2> HIDE DEF T
  <2> QED BY <1>4, <1>5
<1>7. SumTo(a)[Len(a)] = a[i]
  BY <1>5, <1>6
<1> QED BY <1>7 DEF Total

\* A sum of zeros is zero.
LEMMA SumOfNone ==
    ASSUME NEW a \in Seq(Nat), \A n \in 1 .. Len(a) : a[n] = 0
    PROVE  Total(a) = 0
<1> DEFINE T == {n \in Nat : SumTo(a)[n] = 0}
<1>1. /\ Len(a) \in Nat
      /\ SumTo(a)[0] = 0 /\ \A n \in 1 .. Len(a) : SumTo(a)[n] = SumTo(a)[n - 1] + a[n]
  BY SumGoes
<1>2. 0 \in T
  BY <1>1
<1>3. ASSUME NEW n \in 0 .. Len(a), n < Len(a), n \in T PROVE n + 1 \in T
  BY <1>1, <1>3
<1>4. \A n \in 0 .. Len(a) : n \in T
  <2> HIDE DEF T
  <2> QED BY <1>1, <1>2, <1>3, UpTo
<1> QED BY <1>1, <1>4 DEF Total

\* A quotient, taken as often as the divisor says, is not above the dividend.
LEMMA Quotient ==
    ASSUME NEW x \in Nat, NEW t \in Nat, t > 0
    PROVE  x \div t \in Nat /\ t * (x \div t) <= x
  OBVIOUS

\* The shares of what is to be divided, by the numbers, are within it: each is rounded down.
LEMMA SharesFit ==
    ASSUME NEW u \in Seq(Nat), NEW F \in Nat, NEW R \in Nat, NEW b \in Seq(Nat), Len(b) = Len(u),
           \A i \in 1 .. Len(u) : b[i] = IF u[i] = 0 THEN 0 ELSE F + (R * u[i]) \div Total(u)
    PROVE  Total(b) <= Cardinality({i \in 1 .. Len(u) : u[i] > 0}) * F + R
<1> DEFINE t == Total(u)
           N(n) == {i \in 1 .. n : u[i] > 0}
           K(n) == Cardinality(N(n))
           T == {n \in Nat : t * (SumTo(b)[n] - K(n) * F) <= R * SumTo(u)[n]}
<1>1. Len(u) \in Nat /\ Len(b) \in Nat /\ \A i \in 1 .. Len(u) : u[i] \in Nat /\ b[i] \in Nat
  OBVIOUS
<1>2. SumTo(u)[0] = 0 /\ \A n \in 1 .. Len(u) : SumTo(u)[n] = SumTo(u)[n - 1] + u[n]
  BY <1>1, SumGoes
<1>3. SumTo(b)[0] = 0 /\ \A n \in 1 .. Len(u) : SumTo(b)[n] = SumTo(b)[n - 1] + b[n]
  BY <1>1, SumGoes
<1>4. t \in Nat /\ \A i \in 1 .. Len(u) : u[i] <= t
  BY SumNatural
<1>5. \A n \in 0 .. Len(u) : SumTo(u)[n] \in Nat /\ SumTo(b)[n] \in Nat
  BY SumNatural
<1>6. \A n \in 0 .. Len(u) : IsFiniteSet(N(n)) /\ K(n) \in Nat
  <2> SUFFICES ASSUME NEW n \in 0 .. Len(u) PROVE IsFiniteSet(N(n)) /\ K(n) \in Nat
    OBVIOUS
  <2>1. IsFiniteSet(1 .. n) /\ N(n) \subseteq 1 .. n
    BY <1>1, FS_Interval
  <2>2. IsFiniteSet(N(n))
    BY <2>1, FS_Subset
  <2> QED BY <2>2, FS_CardinalityType
<1>7. K(0) = 0
  BY FS_EmptySet
<1>8. ASSUME NEW n \in 0 .. Len(u), n < Len(u)
      PROVE  K(n + 1) = IF u[n + 1] > 0 THEN K(n) + 1 ELSE K(n)
  <2>1. n + 1 \in 1 .. Len(u) /\ n + 1 \notin N(n)
    BY <1>1, <1>8
  <2>2. N(n + 1) = IF u[n + 1] > 0 THEN N(n) \cup {n + 1} ELSE N(n)
    BY <1>1, <1>8, <2>1
  <2>3. IsFiniteSet(N(n))
    BY <1>6
  <2> HIDE DEF N
  <2> QED BY <2>1, <2>2, <2>3, FS_AddElement
<1>9. IsFiniteSet(N(Len(u))) /\ K(Len(u)) \in Nat /\ Total(b) \in Nat
  <2>1. Len(u) \in 0 .. Len(u)
    BY <1>1
  <2> HIDE DEF N, K
  <2> QED BY <1>6, <2>1, SumNatural
<1>10. CASE t = 0
  <2>1. \A i \in 1 .. Len(b) : b[i] = 0
    BY <1>1, <1>4, <1>10
  <2>2. Total(b) = 0
    BY <2>1, SumOfNone
  <2> HIDE DEF N, K
  <2>3. K(Len(u)) * F \in Nat
    BY <1>9
  <2>4. Total(b) <= K(Len(u)) * F + R
    BY <2>2, <2>3
  <2> QED BY <2>4 DEF K, N
<1>11. CASE t > 0
  <2> HIDE DEF t, K
  <2>1. 0 \in T
    BY <1>2, <1>3, <1>4, <1>7
  <2>2. ASSUME NEW n \in 0 .. Len(u), n < Len(u), n \in T PROVE n + 1 \in T
    <3>1. n + 1 \in 1 .. Len(u) /\ n + 1 \in 0 .. Len(u)
      BY <1>1, <2>2
    <3>2. SumTo(u)[n + 1] = SumTo(u)[n] + u[n + 1] /\ SumTo(b)[n + 1] = SumTo(b)[n] + b[n + 1]
      BY <1>1, <1>2, <3>1, <1>3
    <3>3. u[n + 1] \in Nat /\ SumTo(u)[n] \in Nat /\ SumTo(b)[n] \in Nat /\ K(n) \in Nat
      <4> HIDE DEF N
      <4> QED BY <1>1, <1>5, <1>6, <3>1
    <3>4. K(n + 1) = IF u[n + 1] > 0 THEN K(n) + 1 ELSE K(n)
      BY <1>8, <2>2
    <3>5. t * (SumTo(b)[n] - K(n) * F) <= R * SumTo(u)[n]
      BY <2>2
    <3>6. t * (SumTo(b)[n + 1] - K(n + 1) * F) <= R * SumTo(u)[n + 1]
      <4>1. CASE u[n + 1] = 0
        BY <3>1, <4>1, <3>2, <3>3, <3>4, <3>5
      <4>2. CASE u[n + 1] > 0
        <5> DEFINE q == (R * u[n + 1]) \div t
                   v == u[n + 1]
                   s == SumTo(u)[n]
                   c == SumTo(b)[n]
                   k == K(n)
        <5>1. R * u[n + 1] \in Nat
          BY <3>3
        <5>2. q \in Nat /\ t * q <= R * v
          BY <5>1, <1>4, <1>11, Quotient
        <5>3. b[n + 1] = F + q
          BY <3>1, <4>2 DEF t
        <5>4. SumTo(b)[n + 1] = c + (F + q) /\ SumTo(u)[n + 1] = s + v /\ K(n + 1) = k + 1
          BY <3>2, <3>4, <4>2, <5>3
        <5>5. c \in Nat /\ s \in Nat /\ k \in Nat /\ v \in Nat /\ t * (c - k * F) <= R * s
          BY <3>3, <3>5
        <5> HIDE DEF q, v, s, c, k
        <5>6. (c + (F + q)) - (k + 1) * F = (c - k * F) + q
          BY <5>2, <5>5
        <5>7. c - k * F \in Int
          BY <5>5
        <5>8. t * ((c - k * F) + q) = t * (c - k * F) + t * q
          BY <1>4, <5>2, <5>7
        <5>9. R * (s + v) = R * s + R * v
          BY <5>5
        <5>10. t * (c - k * F) \in Int /\ t * q \in Int /\ R * s \in Int /\ R * v \in Int
          BY <1>4, <5>2, <5>5, <5>7
        <5>11. t * ((c - k * F) + q) <= R * (s + v)
          BY <5>2, <5>5, <5>8, <5>9, <5>10
        <5> QED BY <5>4, <5>6, <5>11
      <4> QED BY <3>3, <4>1, <4>2
    <3> QED BY <3>1, <3>6
  <2>3. \A n \in 0 .. Len(u) : n \in T
    <3> HIDE DEF T
    <3> QED BY <1>1, <2>1, <2>2, UpTo
  <2>4. t * (Total(b) - K(Len(u)) * F) <= R * t
    BY <1>1, <2>3 DEF Total, t
  <2>5. Total(b) - K(Len(u)) * F \in Int /\ Total(b) \in Nat /\ K(Len(u)) * F \in Int
    BY <1>9
  <2>6. ASSUME NEW d \in Int, t * d <= R * t PROVE d <= R
    BY <1>4, <2>6, <1>11
  <2>7. Total(b) - K(Len(u)) * F <= R
    BY <2>4, <2>5, <2>6
  <2>8. Total(b) <= K(Len(u)) * F + R
    BY <2>5, <2>7
  <2> QED BY <2>8 DEF K
<1> QED BY <1>4, <1>10, <1>11

\* A set of positions that is not empty has a newest and an oldest.
LEMMA NewestAndOldest ==
    ASSUME NEW k \in Nat, NEW S, S \subseteq 1 .. k, S # {}
    PROVE  /\ \E m \in S : \A n \in S : n <= m
           /\ \E m \in S : \A n \in S : m <= n
<1> DEFINE T == {j \in Nat : \A V \in SUBSET (1 .. j) : V # {} =>
                    (\E m \in V : \A n \in V : n <= m) /\ (\E m \in V : \A n \in V : m <= n)}
<1>1. 0 \in T
  <2>1. 1 .. 0 = {}
    OBVIOUS
  <2> QED BY <2>1
<1>2. ASSUME NEW j \in Nat, j \in T PROVE j + 1 \in T
  <2> SUFFICES ASSUME NEW V \in SUBSET (1 .. j + 1), V # {}
               PROVE  (\E m \in V : \A n \in V : n <= m) /\ (\E m \in V : \A n \in V : m <= n)
    BY <1>2
  <2>1. V \ {j + 1} \in SUBSET (1 .. j)
    OBVIOUS
  <2>2. CASE V \ {j + 1} = {}
    <3>1. V = {j + 1}
      BY <2>2
    <3> QED BY <3>1
  <2>3. CASE V \ {j + 1} # {}
    <3>1. PICK m \in V \ {j + 1} : \A n \in V \ {j + 1} : n <= m
      BY <1>2, <2>1, <2>3
    <3>2. PICK l \in V \ {j + 1} : \A n \in V \ {j + 1} : l <= n
      BY <1>2, <2>1, <2>3
    <3>3. \A n \in V : n = j + 1 \/ (n \in V \ {j + 1} /\ n \in 1 .. j)
      BY <2>1
    <3>4. \E x \in V : \A n \in V : n <= x
      BY <3>3, <3>1
    <3>5. \E x \in V : \A n \in V : x <= n
      BY <2>1, <3>2, <3>3
    <3> QED BY <3>4, <3>5
  <2> QED BY <2>2, <2>3
<1>3. k \in T
  <2> HIDE DEF T
  <2> QED BY <1>1, <1>2, NumberByNumber
<1> QED BY <1>3

-----------------------------------------------------------------------------
(* Excerpts *)

\* Entries of a transcript, and transcripts: a line is not empty, since it says who wrote it.
Entries == [kind: {"text", "other", "cleared"}, length: Nat]
Logged == {log \in Seq(Entries) : \A i \in DOMAIN log : log[i].kind = "text" => log[i].length > 0}

\* The limits are natural numbers.
LEMMA SeedNumbers ==
    /\ MaxMergeSessions \in Nat /\ TotalChars \in Nat /\ FloorChars \in Nat /\ LineChars \in Nat
    /\ SummaryChars \in Nat /\ ForkLines \in Nat /\ ForkChars \in Nat /\ HeaderChars \in Nat
    /\ OmittedChars \in Nat /\ MaxJobs \in Nat /\ MaxAdded \in Nat
  BY SeedConstants

\* A line of a transcript has a length, and that is above zero.
LEMMA LinesHaveLength ==
    ASSUME NEW log \in Logged, NEW i \in 1 .. Len(log)
    PROVE  /\ LineLength(log[i]) \in Nat /\ LineLength(log[i]) <= LineChars
           /\ log[i].kind = "text" => LineLength(log[i]) > 0
<1>1. DOMAIN log = 1 .. Len(log) /\ log[i] \in Entries
  BY DEF Logged
<1>2. log[i].length \in Nat /\ (log[i].kind = "text" => log[i].length > 0)
  BY <1>1 DEF Logged, Entries
<1>3. LineChars \in Nat /\ LineChars > 0
  BY SeedConstants, SeedNumbers
<1> QED BY <1>2, <1>3 DEF LineLength

\* What the lines at these positions cost, entry by entry.
Costs(log, places) == [i \in DOMAIN log |-> IF i \in places THEN LineLength(log[i]) + 1 ELSE 0]

\* Each costs a natural number, and together they cost their sum.
LEMMA CostsNatural ==
    ASSUME NEW log \in Logged, NEW places
    PROVE  /\ Costs(log, places) \in Seq(Nat) /\ Len(Costs(log, places)) = Len(log) /\ Len(log) \in Nat
           /\ \A i \in 1 .. Len(log) : Costs(log, places)[i] = IF i \in places THEN LineLength(log[i]) + 1 ELSE 0
           /\ Cost(log, places) = Total(Costs(log, places)) /\ Cost(log, places) \in Nat
<1> DEFINE a == Costs(log, places)
<1>1. DOMAIN log = 1 .. Len(log) /\ Len(log) \in Nat
  BY DEF Logged
<1>2. a = [i \in 1 .. Len(log) |-> IF i \in places THEN LineLength(log[i]) + 1 ELSE 0]
  BY <1>1 DEF Costs
<1>3. \A i \in 1 .. Len(log) : (IF i \in places THEN LineLength(log[i]) + 1 ELSE 0) \in Nat
  BY LinesHaveLength
<1>4. a \in [1 .. Len(log) -> Nat]
  BY <1>2, <1>3
<1>5. a \in Seq(Nat) /\ Len(a) = Len(log)
  BY <1>1, <1>4
<1>6. Cost(log, places) = Total(a)
  BY DEF Cost, Costs
<1> HIDE DEF a
<1>7. Total(a) \in Nat
  BY <1>5, SumNatural
<1> QED BY <1>1, <1>2, <1>5, <1>6, <1>7 DEF a

\* A single line costs its length and its line break.
LEMMA CostOfOne ==
    ASSUME NEW log \in Logged, NEW i \in 1 .. Len(log)
    PROVE  Cost(log, {i}) <= LineChars + 1
<1>1. /\ Costs(log, {i}) \in Seq(Nat) /\ Len(Costs(log, {i})) = Len(log)
      /\ \A n \in 1 .. Len(log) : Costs(log, {i})[n] = IF n \in {i} THEN LineLength(log[n]) + 1 ELSE 0
      /\ Cost(log, {i}) = Total(Costs(log, {i}))
  BY CostsNatural
<1>2. Total(Costs(log, {i})) = Costs(log, {i})[i]
  BY <1>1, SumOfOne
<1>3. LineLength(log[i]) \in Nat /\ LineLength(log[i]) <= LineChars /\ LineChars \in Nat
  BY LinesHaveLength, SeedNumbers
<1>4. Cost(log, {i}) = LineLength(log[i]) + 1
  BY <1>1, <1>2
<1> QED BY <1>3, <1>4

\* Fewer lines cost no more.
LEMMA CostOfFewer ==
    ASSUME NEW log \in Logged, NEW A, NEW B, A \subseteq B
    PROVE  Cost(log, A) <= Cost(log, B)
<1>1. /\ Costs(log, A) \in Seq(Nat) /\ Len(Costs(log, A)) = Len(log) /\ Len(log) \in Nat
      /\ \A i \in 1 .. Len(log) : Costs(log, A)[i] = IF i \in A THEN LineLength(log[i]) + 1 ELSE 0
      /\ Cost(log, A) = Total(Costs(log, A))
  BY CostsNatural
<1>2. /\ Costs(log, B) \in Seq(Nat) /\ Len(Costs(log, B)) = Len(log)
      /\ \A i \in 1 .. Len(log) : Costs(log, B)[i] = IF i \in B THEN LineLength(log[i]) + 1 ELSE 0
      /\ Cost(log, B) = Total(Costs(log, B))
  BY CostsNatural
<1>3. \A i \in 1 .. Len(log) : Costs(log, A)[i] <= Costs(log, B)[i] + 0
  <2> SUFFICES ASSUME NEW i \in 1 .. Len(log) PROVE Costs(log, A)[i] <= Costs(log, B)[i] + 0
    OBVIOUS
  <2>1. LineLength(log[i]) \in Nat
    BY LinesHaveLength
  <2>2. Costs(log, A)[i] = IF i \in A THEN LineLength(log[i]) + 1 ELSE 0
    BY <1>1
  <2>3. Costs(log, B)[i] = IF i \in B THEN LineLength(log[i]) + 1 ELSE 0
    BY <1>2
  <2>4. Costs(log, A)[i] \in Nat /\ Costs(log, B)[i] \in Nat /\ Costs(log, A)[i] <= Costs(log, B)[i]
    BY <2>1, <2>2, <2>3
  <2> QED BY <2>4
<1>4. Total(Costs(log, A)) <= Total(Costs(log, B)) + Len(Costs(log, A)) * 0
  BY <1>1, <1>2, <1>3, SumExceeds
<1>5. Total(Costs(log, B)) \in Nat
  BY <1>2, SumNatural
<1> QED BY <1>1, <1>2, <1>4, <1>5

\* Of lines that there are one is the newest, with none since.
LEMMA NewestAlone ==
    ASSUME NEW k \in Nat, NEW places, places \subseteq 1 .. k, places # {}
    PROVE  \E m \in places : Since(places, m) = {m}
<1>1. PICK m \in places : \A n \in places : n <= m
  BY NewestAndOldest
<1>2. \A n \in places : n \in Int
  OBVIOUS
<1>3. \A n \in places : n >= m <=> n = m
  BY <1>1, <1>2
<1>4. Since(places, m) = {m}
  BY <1>3 DEF Since
<1> QED BY <1>4

\* The lines since a later one are among those since an earlier one.
LEMMA SinceLater ==
    ASSUME NEW k \in Nat, NEW places, places \subseteq 1 .. k, NEW n \in places, NEW m \in Since(places, n)
    PROVE  m \in places /\ Since(places, m) \subseteq Since(places, n)
<1>1. m \in places /\ m >= n
  BY DEF Since
<1>2. \A i \in places : i \in Int
  OBVIOUS
<1>3. \A i \in places : i >= m => i >= n
  BY <1>1, <1>2
<1> QED BY <1>1, <1>3 DEF Since

\* The lines that fit are the newest ones and cost what they may; the newest is among them
\* if there is room for a line.
LEMMA FittingFits ==
    ASSUME NEW log \in Logged, NEW places, places \subseteq 1 .. Len(log), NEW chars \in Int
    PROVE  LET shown == Fitting(log, places, chars) IN
           /\ shown \subseteq places
           /\ \A n \in shown : Since(places, n) \subseteq shown
           /\ shown # {} => Cost(log, shown) <= chars
           /\ places # {} /\ LineChars + 1 <= chars => shown # {}
<1> DEFINE shown == Fitting(log, places, chars)
<1>1. Len(log) \in Nat
  BY CostsNatural
<1>2. shown \subseteq places /\ \A n \in places : n \in shown <=> Cost(log, Since(places, n)) <= chars
  BY DEF Fitting
<1> HIDE DEF shown
<1>3. ASSUME NEW n \in shown, NEW k \in Since(places, n) PROVE k \in shown
  <2>1. k \in places /\ Since(places, k) \subseteq Since(places, n)
    BY <1>1, <1>2, <1>3, SinceLater
  <2>2. Cost(log, Since(places, k)) <= Cost(log, Since(places, n))
    BY <2>1, CostOfFewer
  <2>3. Cost(log, Since(places, k)) \in Nat /\ Cost(log, Since(places, n)) \in Nat
    BY CostsNatural
  <2>4. Cost(log, Since(places, n)) <= chars
    BY <1>2, <1>3
  <2> QED BY <1>2, <2>1, <2>2, <2>3, <2>4
<1>4. ASSUME shown # {} PROVE Cost(log, shown) <= chars
  <2>1. PICK m \in shown : \A n \in shown : m <= n
    BY <1>1, <1>2, <1>4, NewestAndOldest
  <2>2. shown = Since(places, m)
    BY <1>3, <1>1, <1>2, <2>1 DEF Since
  <2> QED BY <1>2, <2>1, <2>2
<1>5. ASSUME places # {}, LineChars + 1 <= chars PROVE shown # {}
  <2>1. PICK m \in places : Since(places, m) = {m}
    BY <1>1, <1>5, NewestAlone
  <2>2. m \in 1 .. Len(log)
    BY <1>1
  <2>3. Cost(log, {m}) <= LineChars + 1
    BY <2>2, CostOfOne
  <2>4. Cost(log, {m}) \in Nat /\ LineChars \in Nat
    BY CostsNatural, SeedNumbers
  <2>5. Cost(log, {m}) <= chars
    <3>1. LineChars + 1 <= chars
      BY <1>5
    <3> HIDE DEF shown
    <3> QED BY <2>3, <2>4, <3>1
  <2> QED BY <1>2, <2>1, <2>5
<1>6. \A n \in shown : Since(places, n) \subseteq shown
  BY <1>3
<1> QED BY <1>2, <1>4, <1>5, <1>6 DEF shown

\* The lines of a transcript, all and those that count, are positions of it.
LEMMA LinesArePositions ==
    ASSUME NEW log \in Logged
    PROVE  /\ LinesOf(log, AfterCleared(log)) \subseteq LinesOf(log, DOMAIN log)
           /\ LinesOf(log, DOMAIN log) \subseteq 1 .. Len(log) /\ Len(log) \in Nat
           /\ \A i \in LinesOf(log, DOMAIN log) : log[i].kind = "text"
BY DEF Logged, LinesOf, AfterCleared

\* A transcript that has lines which count has a length.
LEMMA UsableIsSome ==
    ASSUME NEW log \in Logged
    PROVE  /\ UsableLength(log) \in Nat
           /\ LinesOf(log, AfterCleared(log)) # {} => UsableLength(log) > 0
<1> DEFINE places == LinesOf(log, AfterCleared(log))
           a == [i \in DOMAIN log |-> IF i \in places THEN LineLength(log[i]) ELSE 0]
<1>1. DOMAIN log = 1 .. Len(log) /\ Len(log) \in Nat
  BY DEF Logged
<1>2. places \subseteq 1 .. Len(log) /\ \A i \in places : log[i].kind = "text"
  BY LinesArePositions
<1>3. UsableLength(log) = Total(a)
  BY DEF UsableLength
<1> HIDE DEF places
<1>4. \A i \in 1 .. Len(log) : (IF i \in places THEN LineLength(log[i]) ELSE 0) \in Nat
  BY LinesHaveLength
<1>5. a \in [1 .. Len(log) -> Nat] /\ \A i \in 1 .. Len(log) : a[i] = IF i \in places THEN LineLength(log[i]) ELSE 0
  BY <1>1, <1>4
<1> HIDE DEF a
<1>6. a \in Seq(Nat) /\ Len(a) = Len(log)
  BY <1>1, <1>5
<1>7. Total(a) \in Nat /\ \A i \in 1 .. Len(log) : a[i] <= Total(a)
  BY <1>6, SumNatural
<1>8. ASSUME places # {} PROVE Total(a) > 0
  <2>1. PICK i \in places : TRUE
    BY <1>8
  <2>2. i \in 1 .. Len(log) /\ a[i] = LineLength(log[i])
    BY <1>2, <1>5, <2>1
  <2>3. LineLength(log[i]) \in Nat /\ LineLength(log[i]) > 0
    BY <1>2, <2>1, <2>2, LinesHaveLength
  <2> QED BY <1>7, <2>2, <2>3
<1> QED BY <1>3, <1>7, <1>8 DEF places

\* An excerpt of a transcript that has lines tells some.
ExcerptRecord == [lines: SUBSET Nat, header: Nat, length: Nat]
Telling(e, places) == /\ e \in ExcerptRecord
                     /\ e.lines \subseteq places /\ (places # {} => e.lines # {})
                     /\ e.header \in Nat /\ e.header <= HeaderChars + OmittedChars

\* An excerpt is what it is made of.
LEMMA ExcerptMade ==
    ASSUME NEW shown \in SUBSET Nat, NEW header \in Nat, NEW chars \in Nat
    PROVE  /\ Excerpt(shown, header, chars) \in ExcerptRecord
           /\ Excerpt(shown, header, chars).lines = shown /\ Excerpt(shown, header, chars).header = header
           /\ Excerpt(shown, header, chars).length = header + chars
  BY DEF Excerpt, ExcerptRecord

\* The excerpt of a fork tells some line, if there is one.
LEMMA ForkTells ==
    ASSUME NEW log \in Logged
    PROVE  Telling(ForkExcerpt(log), LinesOf(log, DOMAIN log))
<1> DEFINE places == LinesOf(log, DOMAIN log)
           recent == {i \in places : Cardinality(Since(places, i)) <= ForkLines}
           header == HeaderChars + (IF recent = places THEN 0 ELSE OmittedChars)
           fitting == Fitting(log, recent, ForkChars - header - 1)
           shown == IF header + Cost(log, recent) <= ForkChars THEN recent ELSE fitting
<1>1. places \subseteq 1 .. Len(log) /\ Len(log) \in Nat
  BY LinesArePositions
<1>2. ForkExcerpt(log) = IF places = {} THEN NoContext ELSE Excerpt(shown, header, Cost(log, shown))
  BY DEF ForkExcerpt
<1> HIDE DEF places
<1>3. header \in Nat /\ header <= HeaderChars + OmittedChars /\ header + LineChars + 2 <= ForkChars
  <2>1. header = HeaderChars \/ header = HeaderChars + OmittedChars
    <3> HIDE DEF recent
    <3> QED BY SeedNumbers
  <2>2. HeaderChars + OmittedChars + 2 + LineChars <= ForkChars
    BY SeedConstants
  <2> HIDE DEF header
  <2> QED BY <2>1, <2>2, SeedNumbers
<1>4. ASSUME places # {} PROVE recent # {}
  <2>1. PICK m \in places : Since(places, m) = {m}
    BY <1>1, <1>4, NewestAlone
  <2>3. Cardinality({m}) = 1
    BY FS_Singleton
  <2>4. ForkLines \in Nat /\ ForkLines > 0
    BY SeedConstants, SeedNumbers
  <2> QED BY <2>1, <2>3, <2>4
<1>5. recent \subseteq places
  OBVIOUS
<1> HIDE DEF recent, header
<1>6. ForkChars - header - 1 \in Int /\ LineChars + 1 <= ForkChars - header - 1
  BY <1>3, SeedNumbers
<1>7. fitting \subseteq recent /\ (recent # {} => fitting # {})
  BY <1>1, <1>5, <1>6, FittingFits
<1> HIDE DEF fitting
<1>8. shown \subseteq places /\ (places # {} => shown # {})
  BY <1>4, <1>5, <1>7
<1> HIDE DEF shown
<1>9. CASE places = {}
  BY <1>2, <1>9, ExcerptMade, SeedNumbers DEF NoContext, Telling, places
<1>10. CASE places # {}
  <2> DEFINE e == ForkExcerpt(log)
  <2>1. e = Excerpt(shown, header, Cost(log, shown))
    BY <1>2, <1>10
  <2>2. shown \in SUBSET Nat /\ Cost(log, shown) \in Nat
    BY <1>1, <1>8, CostsNatural
  <2> HIDE DEF e
  <2>3. e \in ExcerptRecord /\ e.lines = shown /\ e.header = header
    BY <1>3, <2>1, <2>2, ExcerptMade
  <2>4. Telling(e, places)
    BY <1>3, <1>8, <2>3 DEF Telling
  <2> QED BY <2>4 DEF e, places
<1> QED BY <1>9, <1>10

\* The excerpt of one source of several, whose budget is a floor at least if it has lines:
\* its newest lines, within the budget but for the longer header.
LEMMA BudgetedTells ==
    ASSUME NEW log \in Logged, NEW budget \in Nat,
           LinesOf(log, AfterCleared(log)) # {} => budget >= FloorChars
    PROVE  LET places == LinesOf(log, AfterCleared(log))
               e     == BudgetedExcerpt(log, budget)
           IN  /\ Telling(e, places)
               /\ \A n \in e.lines : Since(places, n) \subseteq e.lines
               /\ e.length \in Nat /\ e.length <= budget + OmittedChars
<1> DEFINE places == LinesOf(log, AfterCleared(log))
           e == BudgetedExcerpt(log, budget)
           room == budget - (HeaderChars + 1)
           whole == Fitting(log, places, room)
           newest == {i \in places : Since(places, i) = {i}}
           shown == IF whole = {} THEN newest ELSE whole
           header == HeaderChars + (IF shown = places THEN 0 ELSE OmittedChars)
           chars == IF whole = {} THEN 1 + (room - 1) ELSE Cost(log, shown)
<1>1. places \subseteq 1 .. Len(log) /\ Len(log) \in Nat
  BY LinesArePositions
<1>2. e = IF places = {} \/ (whole = {} /\ room <= 1) THEN NoContext ELSE Excerpt(shown, header, chars)
  BY DEF BudgetedExcerpt
<1>3. places # {} => budget >= FloorChars
  OBVIOUS
<1> HIDE DEF places, e
<1>4. room \in Int /\ (places # {} => room > 1)
  BY <1>3, SeedConstants, SeedNumbers
<1>5. /\ whole \subseteq places /\ \A n \in whole : Since(places, n) \subseteq whole
      /\ whole # {} => Cost(log, whole) <= room
  BY <1>1, <1>4, FittingFits
<1>6. newest \subseteq places /\ \A n \in newest : Since(places, n) \subseteq newest
  OBVIOUS
<1>7. places # {} => newest # {}
  BY <1>1, NewestAlone
<1>8. header \in Nat /\ header <= HeaderChars + OmittedChars
  BY SeedNumbers
<1>9. Cost(log, shown) \in Nat
  BY CostsNatural
<1> HIDE DEF whole, newest, header
<1>10. places # {} => chars \in Nat /\ chars <= room
  BY <1>4, <1>5, <1>9
<1>11. /\ shown \subseteq places /\ \A n \in shown : Since(places, n) \subseteq shown
       /\ places # {} => shown # {}
  BY <1>5, <1>6, <1>7
<1> HIDE DEF shown, chars
<1>12. CASE places = {}
  BY <1>2, <1>12, ExcerptMade, SeedNumbers DEF NoContext, Telling, e, places
<1>13. CASE places # {}
  <2>1. e = Excerpt(shown, header, chars)
    BY <1>2, <1>4, <1>13
  <2>5. shown \in SUBSET Nat /\ chars \in Nat
    BY <1>1, <1>10, <1>11, <1>13
  <2>2. e \in ExcerptRecord /\ e.lines = shown /\ e.header = header /\ e.length = header + chars
    BY <1>8, <2>1, <2>5, ExcerptMade
  <2>3. Telling(e, places)
    BY <1>8, <1>11, <2>2 DEF Telling
  <2>4. e.length \in Nat /\ e.length <= budget + OmittedChars
    <3>1. chars \in Nat /\ chars <= budget - (HeaderChars + 1)
      BY <1>10, <1>13
    <3> HIDE DEF room
    <3> QED BY <1>8, <2>2, <3>1, SeedNumbers
  <2> QED BY <1>11, <2>2, <2>3, <2>4 DEF e, places
<1> QED BY <1>12, <1>13

\* Of an excerpt some line is told even where it is cut to be its own summary.
LEMMA SummaryTells ==
    ASSUME NEW log \in Logged, NEW e, NEW places, places \subseteq 1 .. Len(log), Telling(e, places),
           NEW generated \in BOOLEAN
    PROVE  places # {} => TellsLines(log, e, generated) # {}
<1> SUFFICES ASSUME places # {} PROVE TellsLines(log, e, generated) # {}
  OBVIOUS
<1>1. e.lines \subseteq 1 .. Len(log) /\ e.lines # {} /\ Len(log) \in Nat
  BY CostsNatural DEF Telling
<1>2. PICK m \in e.lines : \A n \in e.lines : m <= n
  BY <1>1, NewestAndOldest
<1>3. {k \in e.lines : k < m} = {}
  BY <1>1, <1>2
<1>4. Cost(log, {}) = 0
  BY CostsNatural, SumOfNone
<1>5. e.header + Cost(log, {k \in e.lines : k < m}) + 1 < SummaryChars
  <2>1. e.header \in Nat /\ e.header <= HeaderChars + OmittedChars
    BY DEF Telling
  <2>2. HeaderChars + OmittedChars + 1 < SummaryChars
    BY SeedConstants
  <2>3. e.header + 0 + 1 < SummaryChars
    BY <2>1, <2>2, SeedNumbers
  <2> QED BY <1>3, <1>4, <2>3
<1> QED BY <1>1, <1>2, <1>5 DEF TellsLines

\* Of several sources each that has lines gets a floor, and all budgets are within the limit.
LEMMA BudgetsFit ==
    ASSUME NEW read \in Seq(Logged), Len(read) <= MaxMergeSessions
    PROVE  /\ Budgets(read) \in Seq(Nat) /\ Len(Budgets(read)) = Len(read)
           /\ Total(Budgets(read)) <= TotalChars
           /\ \A i \in 1 .. Len(read) :
                 LinesOf(read[i], AfterCleared(read[i])) # {} => Budgets(read)[i] >= FloorChars
<1> DEFINE u == [i \in DOMAIN read |-> UsableLength(read[i])]
           N == {i \in DOMAIN read : u[i] > 0}
           t == Total(u)
           R == TotalChars - Cardinality(N) * FloorChars
           b == Budgets(read)
<1>1. DOMAIN read = 1 .. Len(read) /\ Len(read) \in Nat
  OBVIOUS
<1>2. \A i \in 1 .. Len(read) : UsableLength(read[i]) \in Nat
  BY UsableIsSome
<1>3. u \in [1 .. Len(read) -> Nat]
  BY <1>1, <1>2
<1>4. u \in Seq(Nat) /\ Len(u) = Len(read)
  BY <1>1, <1>3
<1>5. \A i \in 1 .. Len(read) : u[i] = UsableLength(read[i])
  BY <1>1
<1>6. b = [i \in DOMAIN read |-> IF u[i] = 0 THEN 0 ELSE FloorChars + (R * u[i]) \div t]
  BY DEF Budgets
<1> HIDE DEF u
<1>7. t \in Nat /\ \A i \in 1 .. Len(read) : u[i] \in Nat /\ u[i] <= t
  BY <1>4, SumNatural
<1>8. Cardinality(N) \in Nat /\ Cardinality(N) <= Len(read)
  <2>1. IsFiniteSet(1 .. Len(read)) /\ Cardinality(1 .. Len(read)) = Len(read)
    BY <1>1, FS_Interval
  <2>2. N \subseteq 1 .. Len(read)
    BY <1>1
  <2> HIDE DEF N
  <2>3. IsFiniteSet(N) /\ Cardinality(N) <= Len(read)
    BY <2>1, <2>2, FS_Subset
  <2> QED BY <2>3, FS_CardinalityType
<1> HIDE DEF N
<1>9. R \in Nat
  <2> DEFINE n == Cardinality(N)
  <2>1. n \in Nat /\ n <= MaxMergeSessions
    BY <1>1, <1>8, SeedNumbers
  <2>2. MaxMergeSessions * FloorChars <= TotalChars
    BY SeedConstants
  <2> HIDE DEF n
  <2>3. n * FloorChars <= MaxMergeSessions * FloorChars
    BY <2>1, SeedNumbers
  <2>4. n * FloorChars \in Nat /\ MaxMergeSessions * FloorChars \in Nat
    BY <2>1, SeedNumbers
  <2>5. TotalChars - n * FloorChars \in Nat
    BY <2>2, <2>3, <2>4, SeedNumbers
  <2> QED BY <2>5 DEF n
<1> HIDE DEF t, R, b
<1>10. \A i \in 1 .. Len(read) : b[i] = IF u[i] = 0 THEN 0 ELSE FloorChars + (R * u[i]) \div t
  BY <1>1, <1>6
<1>11. \A i \in 1 .. Len(read) : b[i] \in Nat /\ (u[i] > 0 => b[i] >= FloorChars)
  <2> SUFFICES ASSUME NEW i \in 1 .. Len(read) PROVE b[i] \in Nat /\ (u[i] > 0 => b[i] >= FloorChars)
    OBVIOUS
  <2>1. CASE u[i] = 0
    BY <1>10, <2>1
  <2>2. CASE u[i] > 0
    <3>1. t > 0
      BY <1>7, <2>2
    <3>2. R * u[i] \in Nat
      BY <1>7, <1>9
    <3>3. (R * u[i]) \div t \in Nat
      BY <1>7, <3>1, <3>2, Quotient
    <3>4. b[i] = FloorChars + (R * u[i]) \div t
      BY <1>10, <2>2
    <3> QED BY <3>3, <3>4, SeedNumbers
  <2> QED BY <1>7, <2>1, <2>2
<1>12. b \in Seq(Nat) /\ Len(b) = Len(read)
  BY <1>1, <1>6, <1>11
<1>13. Total(b) <= Cardinality({i \in 1 .. Len(u) : u[i] > 0}) * FloorChars + R
  BY <1>4, <1>9, <1>10, <1>12, SeedNumbers, SharesFit DEF t
<1>14. {i \in 1 .. Len(u) : u[i] > 0} = N
  BY <1>1, <1>4 DEF N
<1>15. Total(b) <= TotalChars
  <2> DEFINE n == Cardinality(N)
             T == Total(b)
  <2>1. T <= n * FloorChars + R /\ R = TotalChars - n * FloorChars
    BY <1>13, <1>14 DEF R
  <2>2. n \in Nat /\ T \in Nat
    BY <1>8, <1>12, SumNatural
  <2> HIDE DEF n, T
  <2>3. n * FloorChars \in Nat
    BY <2>2, SeedNumbers
  <2> QED BY <2>1, <2>2, <2>3, SeedNumbers DEF T
<1>16. \A i \in 1 .. Len(read) : LinesOf(read[i], AfterCleared(read[i])) # {} => b[i] >= FloorChars
  BY <1>5, <1>11, UsableIsSome
<1> QED BY <1>12, <1>15, <1>16 DEF b

\* What ExcerptsAreFair says of one session: read is what was read for it, told its summaries.
Fair(told, read) ==
    Len(told) > 1 =>
        /\ Total([i \in DOMAIN told |-> told[i].excerpt.length]) <= TotalChars + Len(told) * OmittedChars
        /\ \A i \in DOMAIN told :
              LET places == LinesOf(read[i], AfterCleared(read[i]))
                  shown == told[i].excerpt.lines
              IN  /\ shown \subseteq places
                  /\ \A n \in shown : Since(places, n) \subseteq shown
                  /\ places # {} => shown # {}

\* The summary of each source that had lines tells some.
AllTold(told, read) ==
    \A i \in DOMAIN told : LinesOf(read[i], AfterCleared(read[i])) # {} => told[i].tells # {}

\* What may be told of a source.
Summary(c) == [of: {c}, excerpt: ExcerptRecord, tells: SUBSET Nat]

\* What is told of a source is a summary of it.
LEMMA SummaryMade ==
    ASSUME NEW log, NEW e \in ExcerptRecord, NEW c, NEW generated
    PROVE  [of |-> c, excerpt |-> e, tells |-> TellsLines(log, e, generated)] \in Summary(c)
BY DEF TellsLines, ExcerptRecord, Summary

\* The excerpts of what was read are fair, and the summaries made of them tell something.
LEMMA ExcerptsTell ==
    ASSUME NEW read \in Seq(Logged), Len(read) > 0, Len(read) <= MaxMergeSessions,
           NEW sources, NEW generated \in BOOLEAN
    PROVE  LET excerpts == SourceExcerpts(read)
               told == [i \in DOMAIN excerpts |->
                           [of |-> sources[i], excerpt |-> excerpts[i],
                            tells |-> TellsLines(read[i], excerpts[i], generated)]]
           IN  /\ DOMAIN told = 1 .. Len(read) /\ Len(told) = Len(read)
               /\ \A i \in 1 .. Len(read) : told[i] \in Summary(sources[i])
               /\ Fair(told, read) /\ AllTold(told, read)
<1> DEFINE excerpts == SourceExcerpts(read)
           told == [i \in DOMAIN excerpts |->
                       [of |-> sources[i], excerpt |-> excerpts[i],
                        tells |-> TellsLines(read[i], excerpts[i], generated)]]
           places(i) == LinesOf(read[i], AfterCleared(read[i]))
<1>1. DOMAIN read = 1 .. Len(read) /\ Len(read) \in Nat /\ \A i \in 1 .. Len(read) : read[i] \in Logged
  OBVIOUS
<1>2. /\ DOMAIN excerpts = 1 .. Len(read)
      /\ \A i \in 1 .. Len(read) :
            excerpts[i] = IF Len(read) = 1 THEN ForkExcerpt(read[1]) ELSE BudgetedExcerpt(read[i], Budgets(read)[i])
  BY <1>1 DEF SourceExcerpts
<1> HIDE DEF excerpts
<1>3. /\ DOMAIN told = 1 .. Len(read) /\ Len(told) = Len(read)
      /\ \A i \in 1 .. Len(read) :
            /\ told[i].of = sources[i] /\ told[i].excerpt = excerpts[i]
            /\ told[i].tells = TellsLines(read[i], excerpts[i], generated)
      /\ \A i \in 1 .. Len(read) : excerpts[i] \in ExcerptRecord => told[i] \in Summary(sources[i])
  BY <1>1, <1>2, SummaryMade
<1> HIDE DEF told
<1>4. CASE Len(read) = 1
  <2>1. excerpts[1] = ForkExcerpt(read[1]) /\ read[1] \in Logged /\ 1 .. Len(read) = {1}
    BY <1>1, <1>2, <1>4
  <2> DEFINE all == LinesOf(read[1], DOMAIN read[1])
  <2>2. Telling(excerpts[1], all) /\ places(1) \subseteq all /\ all \subseteq 1 .. Len(read[1])
    BY <2>1, ForkTells, LinesArePositions
  <2> HIDE DEF all
  <2>3. all # {} => TellsLines(read[1], excerpts[1], generated) # {}
    BY <2>1, <2>2, SummaryTells
  <2>4. places(1) # {} => told[1].tells # {}
    BY <1>3, <2>1, <2>2, <2>3
  <2>5. AllTold(told, read)
    BY <1>3, <2>1, <2>4 DEF AllTold
  <2>6. Fair(told, read)
    BY <1>3, <1>4 DEF Fair
  <2>7. \A i \in 1 .. Len(read) : excerpts[i] \in ExcerptRecord
    BY <2>1, <2>2 DEF Telling
  <2> QED BY <1>3, <2>5, <2>6, <2>7 DEF told, excerpts
<1>5. CASE Len(read) # 1
  <2> DEFINE b == Budgets(read)
  <2>1. /\ b \in Seq(Nat) /\ Len(b) = Len(read) /\ Total(b) <= TotalChars
        /\ \A i \in 1 .. Len(read) : places(i) # {} => b[i] >= FloorChars
    BY BudgetsFit
  <2> HIDE DEF b
  <2>2. ASSUME NEW i \in 1 .. Len(read)
        PROVE  /\ Telling(excerpts[i], places(i)) /\ \A n \in excerpts[i].lines : Since(places(i), n) \subseteq excerpts[i].lines
               /\ excerpts[i].length \in Nat /\ excerpts[i].length <= b[i] + OmittedChars
               /\ places(i) # {} => told[i].tells # {}
    <3>1. excerpts[i] = BudgetedExcerpt(read[i], b[i]) /\ read[i] \in Logged /\ b[i] \in Nat
      BY <1>1, <1>2, <1>5, <2>1 DEF b
    <3>2. places(i) # {} => b[i] >= FloorChars
      BY <2>1
    <3>3. /\ Telling(excerpts[i], places(i)) /\ \A n \in excerpts[i].lines : Since(places(i), n) \subseteq excerpts[i].lines
          /\ excerpts[i].length \in Nat /\ excerpts[i].length <= b[i] + OmittedChars
      BY <3>1, <3>2, BudgetedTells
    <3>4. places(i) \subseteq 1 .. Len(read[i])
      BY <3>1, LinesArePositions
    <3> HIDE DEF places
    <3>5. places(i) # {} => TellsLines(read[i], excerpts[i], generated) # {}
      BY <3>1, <3>3, <3>4, SummaryTells
    <3> QED BY <1>3, <3>3, <3>5
  <2>3. AllTold(told, read)
    BY <1>3, <2>2 DEF AllTold
  <2> DEFINE a == [i \in DOMAIN told |-> told[i].excerpt.length]
  <2>4. a \in Seq(Nat) /\ Len(a) = Len(read) /\ \A i \in 1 .. Len(a) : a[i] <= b[i] + OmittedChars
    <3>1. \A i \in 1 .. Len(read) : told[i].excerpt.length \in Nat /\ told[i].excerpt.length <= b[i] + OmittedChars
      BY <1>3, <2>2
    <3>2. a \in [1 .. Len(read) -> Nat] /\ \A i \in 1 .. Len(read) : a[i] = told[i].excerpt.length
      BY <1>3, <3>1
    <3> HIDE DEF a
    <3>3. a \in Seq(Nat) /\ Len(a) = Len(read)
      BY <1>1, <3>2
    <3> QED BY <3>1, <3>2, <3>3
  <2> HIDE DEF a
  <2>5. Total(a) <= Total(b) + Len(a) * OmittedChars
    BY <2>1, <2>4, SeedNumbers, SumExceeds
  <2>6. Total(a) <= TotalChars + Len(told) * OmittedChars
    <3> DEFINE x == Len(told) * OmittedChars
               y == Total(a)
               z == Total(b)
    <3>1. y \in Nat /\ z \in Nat /\ x \in Nat /\ y <= z + x /\ z <= TotalChars
      BY <1>1, <1>3, <2>1, <2>4, <2>5, SeedNumbers, SumNatural
    <3> HIDE DEF x, y, z
    <3>2. y <= TotalChars + x
      BY <3>1, SeedNumbers
    <3> QED BY <3>2 DEF x, y
  <2>7. ASSUME NEW i \in DOMAIN told
        PROVE  /\ told[i].excerpt.lines \subseteq places(i)
               /\ \A n \in told[i].excerpt.lines : Since(places(i), n) \subseteq told[i].excerpt.lines
               /\ places(i) # {} => told[i].excerpt.lines # {}
    BY <1>3, <2>2 DEF Telling
  <2>8. Fair(told, read)
    BY <2>6, <2>7 DEF Fair, a
  <2>9. \A i \in 1 .. Len(read) : excerpts[i] \in ExcerptRecord
    BY <2>2 DEF Telling
  <2> QED BY <1>3, <2>3, <2>8, <2>9 DEF told, excerpts
<1> QED BY <1>4, <1>5

-----------------------------------------------------------------------------
(* Sessions made from others *)

SeedStages == {"creating", "renaming", "asking", "reading", "analyzing", "compacting", "sending", "closing",
               "done", "failed"}
DialogRecord == [kind: {"none", "fork", "merge"}, chosen: Seq(Sources), intent: BOOLEAN, close: BOOLEAN,
                 pending: Nat, failed: BOOLEAN]
SummaryRecord == [of: Sources, excerpt: ExcerptRecord, tells: SUBSET Nat]
JobRecord == [kind: {"none", "fork", "merge"}, sources: Seq(Sources), close: BOOLEAN, stage: SeedStages,
              read: Seq(Logged), summaries: Seq(SummaryRecord), sent: BOOLEAN, closed: SUBSET Sources]

\* A session has a summary of the source c.
Summarised(job, c) == \E i \in DOMAIN job.summaries : job.summaries[i].of = c

\* How far a session is: what was read and summarised so far, and that a source is closed
\* only with a summary in a prompt that was sent.
JobFits(job) ==
    /\ Len(job.sources) <= MaxMergeSessions /\ Len(job.read) <= MaxMergeSessions
    /\ job.stage \notin {"done", "failed"} => Len(job.sources) > 0
    /\ job.stage \in {"creating", "renaming", "asking"} => job.read = <<>>
    /\ job.stage = "reading" => Len(job.read) < Len(job.sources)
    /\ job.stage \in {"analyzing", "compacting"} => Len(job.read) = Len(job.sources)
    /\ job.stage \in {"creating", "renaming", "asking", "reading", "analyzing", "compacting"} => job.summaries = <<>>
    /\ job.stage \notin {"closing", "done"} => job.closed = {}
    /\ job.stage \in {"sending", "closing"} => \A i \in 1 .. Len(job.sources) : Summarised(job, job.sources[i])
    /\ job.stage = "closing" \/ job.closed # {} => job.sent
    /\ \A c \in job.closed : Summarised(job, c)
    /\ Fair(job.summaries, job.read) /\ AllTold(job.summaries, job.read)

SeedInv ==
    /\ dialog \in DialogRecord /\ Len(dialog.chosen) <= MaxMergeSessions /\ dialog.pending <= Len(jobs)
    /\ written \in [Sources -> Logged] /\ deleted \subseteq Sources /\ added \in 0..MaxAdded
    /\ jobs \in Seq(JobRecord) /\ \A j \in 1 .. Len(jobs) : JobFits(jobs[j])

\* It holds at first.
LEMMA SeedStarts == SeedInit => SeedInv
BY SeedConstants, SeedNumbers DEF Closed, DialogRecord, Logged, Entries, SeedInit, SeedInv

\* The dialog may change to any that fits the sessions.
DialogFits(d) == d \in DialogRecord /\ Len(d.chosen) <= MaxMergeSessions /\ d.pending <= Len(jobs)

\* A dialog opened or closed fits, and so does one of which a session no longer is pending.
LEMMA DialogsFit ==
    ASSUME SeedInv
    PROVE  /\ DialogFits(Closed) /\ \A kind \in {"fork", "merge"} : DialogFits(FreshBody(kind))
           /\ DialogFits([dialog EXCEPT !.pending = 0, !.failed = TRUE])
           /\ DialogFits([dialog EXCEPT !.intent = ~@]) /\ DialogFits([dialog EXCEPT !.close = ~@])
<1>1. Len(jobs) \in Nat
  BY DEF SeedInv
<1>2. dialog \in DialogRecord /\ Len(dialog.chosen) <= MaxMergeSessions /\ dialog.pending <= Len(jobs)
  BY DEF SeedInv
<1>3. DialogFits(Closed) /\ \A kind \in {"fork", "merge"} : DialogFits(FreshBody(kind))
  <2>1. <<>> \in Seq(Sources) /\ Len(<<>>) = 0
    OBVIOUS
  <2>2. Closed \in DialogRecord /\ Closed.chosen = <<>> /\ Closed.pending = 0
    BY <2>1 DEF Closed, DialogRecord
  <2>3. DialogFits(Closed)
    BY <1>1, <2>1, <2>2, SeedNumbers DEF DialogFits
  <2>4. ASSUME NEW kind \in {"fork", "merge"} PROVE DialogFits(FreshBody(kind))
    <3>1. FreshBody(kind) \in DialogRecord
      BY <2>2 DEF FreshBody, DialogRecord
    <3>2. FreshBody(kind).chosen = <<>> /\ FreshBody(kind).pending = 0
      BY DEF FreshBody, Closed
    <3> QED BY <1>1, <2>1, <3>1, <3>2, SeedNumbers DEF DialogFits
  <2> QED BY <2>3, <2>4
<1>4. DialogFits([dialog EXCEPT !.pending = 0, !.failed = TRUE])
  <2> DEFINE d == [dialog EXCEPT !.pending = 0, !.failed = TRUE]
  <2>1. d \in DialogRecord
    BY <1>2 DEF DialogRecord
  <2>2. d.chosen = dialog.chosen /\ d.pending = 0
    BY <1>2 DEF DialogRecord
  <2> HIDE DEF d
  <2> QED BY <1>1, <1>2, <2>1, <2>2 DEF DialogFits, d
<1>5. DialogFits([dialog EXCEPT !.intent = ~@])
  BY <1>2 DEF DialogFits, DialogRecord
<1>6. DialogFits([dialog EXCEPT !.close = ~@])
  BY <1>2 DEF DialogFits, DialogRecord
<1> QED BY <1>3, <1>4, <1>5, <1>6

\* A step of one session that leaves it fitting, and the rest well typed, keeps the invariant.
LEMMA JobKeeps ==
    ASSUME SeedInv, NEW j \in 1 .. Len(jobs), NEW job \in JobRecord, JobFits(job),
           jobs' = [jobs EXCEPT ![j] = job], DialogFits(dialog'),
           deleted' \subseteq Sources, UNCHANGED <<written, added>>
    PROVE  SeedInv'
BY DEF SeedInv, DialogFits

\* A step of the dialog or of the sources keeps it as well.
LEMMA DialogKeeps ==
    ASSUME SeedInv, DialogFits(dialog'), written' \in [Sources -> Logged], deleted' \subseteq Sources,
           added' \in 0..MaxAdded, UNCHANGED jobs
    PROVE  SeedInv'
  BY DEF SeedInv, DialogFits

\* The chats chosen in the merge dialog.
LEMMA ToggledFits ==
    ASSUME SeedInv, NEW c \in Sources, ChatToggled(c)
    PROVE  SeedInv'
<1> DEFINE w == dialog.chosen
<1>1. dialog \in DialogRecord /\ w \in Seq(Sources) /\ Len(w) <= MaxMergeSessions /\ dialog.pending <= Len(jobs)
  BY DEF SeedInv, DialogRecord
<1>2. \A v \in Seq(Sources) : Len(v) <= MaxMergeSessions => DialogFits([dialog EXCEPT !.chosen = v])
  BY <1>1 DEF DialogFits, DialogRecord
<1>3. DialogFits(dialog')
  <2>1. CASE c \in Range(w)
    <3>1. PICK i \in DOMAIN w : dialog' = [dialog EXCEPT !.chosen = RemoveAt(w, i)]
      BY <2>1 DEF ChatToggled
    <3>2. i \in 1 .. Len(w) /\ Len(w) \in Nat
      BY <1>1, <3>1
    <3> HIDE DEF w
    <3>3. RemoveAt(w, i) \in Seq(Sources) /\ Len(RemoveAt(w, i)) <= Len(w)
      <4>1. SubSeq(w, 1, i - 1) \in Seq(Sources) /\ Len(SubSeq(w, 1, i - 1)) = i - 1
        BY <1>1, <3>2
      <4>2. SubSeq(w, i + 1, Len(w)) \in Seq(Sources) /\ Len(SubSeq(w, i + 1, Len(w))) = Len(w) - i
        BY <1>1, <3>2
      <4>3. RemoveAt(w, i) = SubSeq(w, 1, i - 1) \o SubSeq(w, i + 1, Len(w))
        BY DEF RemoveAt
      <4> QED BY <3>2, <4>1, <4>2, <4>3
    <3>4. Len(RemoveAt(w, i)) \in Nat /\ Len(RemoveAt(w, i)) <= MaxMergeSessions
      BY <1>1, <3>2, <3>3, SeedNumbers
    <3> QED BY <1>2, <3>1, <3>3, <3>4
  <2>2. CASE c \notin Range(w)
    <3>1. dialog' = [dialog EXCEPT !.chosen = Append(w, c)] /\ Len(w) < MaxMergeSessions
      BY <2>2 DEF ChatToggled
    <3> HIDE DEF w
    <3>2. Append(w, c) \in Seq(Sources) /\ Len(Append(w, c)) <= MaxMergeSessions
      BY <1>1, <3>1, SeedNumbers
    <3> QED BY <1>2, <3>1, <3>2
  <2> QED BY <2>1, <2>2
<1> QED BY <1>3, DialogKeeps DEF ChatToggled, SeedInv

\* A session that is asked for.
LEMMA ConfirmFits ==
    ASSUME SeedInv, NEW sources \in Seq(Sources), Len(sources) > 0, Len(sources) <= MaxMergeSessions,
           NEW close \in BOOLEAN, Confirm(sources, close)
    PROVE  SeedInv'
<1> DEFINE job == Job(dialog.kind, sources, close)
<1>1. dialog \in DialogRecord /\ jobs \in Seq(JobRecord) /\ \A j \in 1 .. Len(jobs) : JobFits(jobs[j])
  BY DEF SeedInv
<1>2. job \in JobRecord
  BY <1>1 DEF Job, JobRecord, DialogRecord, SeedStages
<1>3. JobFits(job)
  <2>1. /\ job.sources = sources /\ job.read = <<>> /\ job.stage = "creating" /\ job.summaries = <<>> /\ job.closed = {}
    BY DEF Job
  <2>2. Fair(<<>>, <<>>) /\ AllTold(<<>>, <<>>)
    BY DEF Fair, AllTold
  <2> HIDE DEF job
  <2> QED BY <2>1, <2>2, SeedNumbers DEF JobFits
<1> HIDE DEF job
<1>4. jobs' = Append(jobs, job) /\ dialog' = [dialog EXCEPT !.pending = Len(jobs) + 1, !.failed = FALSE]
  BY DEF Confirm, job
<1>5. /\ jobs' \in Seq(JobRecord) /\ Len(jobs') = Len(jobs) + 1 /\ Len(jobs) \in Nat
      /\ \A j \in 1 .. Len(jobs') : jobs'[j] = IF j = Len(jobs) + 1 THEN job ELSE jobs[j]
  BY <1>1, <1>2, <1>4
<1>6. \A j \in 1 .. Len(jobs') : JobFits(jobs'[j])
  BY <1>1, <1>3, <1>5
<1>7. dialog' \in DialogRecord /\ dialog'.chosen = dialog.chosen /\ dialog'.pending = Len(jobs) + 1
  <2> DEFINE d == [dialog EXCEPT !.pending = Len(jobs) + 1, !.failed = FALSE]
  <2>1. Len(jobs) + 1 \in Nat
    BY <1>5
  <2>2. d \in DialogRecord
    BY <1>1, <2>1 DEF DialogRecord
  <2>3. d.chosen = dialog.chosen /\ d.pending = Len(jobs) + 1
    BY <1>1 DEF DialogRecord
  <2> QED BY <1>4, <2>2, <2>3
<1> QED BY <1>5, <1>6, <1>7 DEF SeedInv, Confirm

\* A step of a session that only brings it to another stage of a kind.
LEMMA StageFits ==
    ASSUME NEW job \in JobRecord, JobFits(job), NEW stage \in SeedStages,
           \/ job.stage \in {"creating", "renaming", "asking"} /\ stage \in {"renaming", "asking", "failed"}
           \/ job.stage = "asking" /\ stage = "reading"
           \/ job.stage = "analyzing" /\ stage = "compacting"
           \/ job.stage \in {"analyzing", "compacting"} /\ stage = "failed"
    PROVE  /\ [job EXCEPT !.stage = stage] \in JobRecord /\ JobFits([job EXCEPT !.stage = stage])
<1> DEFINE new == [job EXCEPT !.stage = stage]
<1>1. /\ new \in JobRecord /\ new.stage = stage /\ new.sources = job.sources /\ new.read = job.read
      /\ new.summaries = job.summaries /\ new.closed = job.closed /\ new.sent = job.sent
  BY DEF JobRecord
<1>2. \A c : Summarised(new, c) <=> Summarised(job, c)
  BY <1>1 DEF Summarised
<1> HIDE DEF new
<1>3. JobFits(new)
  BY <1>1, <1>2, SeedNumbers DEF JobFits, SeedStages
<1> QED BY <1>1, <1>3 DEF new

\* A session on its way: what JobKeeps needs of it.
LEMMA JobKnown ==
    ASSUME SeedInv, NEW j \in DOMAIN jobs
    PROVE  j \in 1 .. Len(jobs) /\ jobs[j] \in JobRecord /\ JobFits(jobs[j]) /\ DialogFits(dialog)
BY DEF SeedInv, DialogFits

\* A session goes on to another stage.
LEMMA StageKeeps ==
    ASSUME SeedInv, NEW j \in DOMAIN jobs, NEW stage \in SeedStages, Stage(j, stage),
           \/ jobs[j].stage \in {"creating", "renaming", "asking"} /\ stage \in {"renaming", "asking", "failed"}
           \/ jobs[j].stage = "asking" /\ stage = "reading"
           \/ jobs[j].stage = "analyzing" /\ stage = "compacting"
           \/ jobs[j].stage \in {"analyzing", "compacting"} /\ stage = "failed",
           DialogFits(dialog'), UNCHANGED <<written, deleted, added>>
    PROVE  SeedInv'
<1> DEFINE job == [jobs[j] EXCEPT !.stage = stage]
<1>1. j \in 1 .. Len(jobs) /\ jobs[j] \in JobRecord /\ JobFits(jobs[j])
  BY JobKnown
<1>2. job \in JobRecord /\ JobFits(job)
  BY <1>1, StageFits
<1>3. jobs' = [jobs EXCEPT ![j] = job]
  BY DEF Stage
<1>4. deleted' \subseteq Sources
  BY DEF SeedInv
<1> HIDE DEF job
<1> QED BY <1>1, <1>2, <1>3, <1>4, JobKeeps

\* The chat of a session is created, or not.
LEMMA CreatedKeeps ==
    ASSUME SeedInv, NEW j \in DOMAIN jobs, NEW ok \in BOOLEAN, ChatCreated(j, ok)
    PROVE  SeedInv'
BY JobKnown, DialogsFit, StageKeeps DEF ChatCreated, At, SeedStages

\* It is named, or not: the dialog closes or tells the error.
LEMMA RenamedKeeps ==
    ASSUME SeedInv, NEW j \in DOMAIN jobs, NEW ok \in BOOLEAN, ChatRenamed(j, ok)
    PROVE  SeedInv'
BY JobKnown, DialogsFit, StageKeeps DEF ChatRenamed, At, SeedStages

\* The hub is asked for the prompt.
LEMMA AskedKeeps ==
    ASSUME SeedInv, NEW j \in DOMAIN jobs, PromptAsked(j)
    PROVE  SeedInv'
BY JobKnown, StageKeeps DEF PromptAsked, Bootstrap, At, SeedStages

\* What is asked for is understood.
LEMMA AnalyzedKeeps ==
    ASSUME SeedInv, NEW j \in DOMAIN jobs, IntentAnalyzed(j)
    PROVE  SeedInv'
BY JobKnown, StageKeeps DEF IntentAnalyzed, Bootstrap, At, SeedStages

\* The answer fails.
LEMMA FailedKeeps ==
    ASSUME SeedInv, NEW j \in DOMAIN jobs, GenerateFailed(j)
    PROVE  SeedInv'
BY JobKnown, StageKeeps DEF GenerateFailed, Bootstrap, At, SeedStages

\* Before anything is told, all is as it should be.
LEMMA NothingTold == \A read : Fair(<<>>, read) /\ AllTold(<<>>, read)
  BY DEF Fair, AllTold

\* A transcript is read for a session, and with the last one all of them are.
LEMMA SourceReadKeeps ==
    ASSUME SeedInv, NEW j \in DOMAIN jobs, SourceRead(j)
    PROVE  SeedInv'
<1> DEFINE old == jobs[j]
           next == Len(old.read) + 1
           log == written[old.sources[next]]
           stage == IF next = Len(old.sources) THEN "analyzing" ELSE old.stage
           job == [old EXCEPT !.read = Append(old.read, log), !.stage = stage]
<1>1. j \in 1 .. Len(jobs) /\ old \in JobRecord /\ JobFits(old) /\ DialogFits(dialog) /\ jobs \in Seq(JobRecord)
  BY JobKnown DEF SeedInv
<1>2. old.stage = "reading" /\ Bootstrap(j)
  BY DEF SourceRead, At
<1>3. jobs' = [jobs EXCEPT ![j] = job]
  BY <1>1 DEF SourceRead
<1> HIDE DEF old
<1>4. /\ old.sources \in Seq(Sources) /\ old.read \in Seq(Logged) /\ Len(old.read) < Len(old.sources)
      /\ Len(old.sources) <= MaxMergeSessions /\ old.summaries = <<>> /\ old.closed = {}
  BY <1>1, <1>2 DEF JobRecord, JobFits
<1>5. next \in 1 .. Len(old.sources)
  BY <1>4
<1>6. log \in Logged
  BY <1>4, <1>5 DEF SeedInv
<1> HIDE DEF log
<1>7. Append(old.read, log) \in Seq(Logged) /\ Len(Append(old.read, log)) = next
  BY <1>4, <1>6
<1>8. stage \in SeedStages
  BY <1>2 DEF SeedStages
<1>9. job \in JobRecord
  BY <1>1, <1>7, <1>8 DEF JobRecord
<1>10. /\ job.read = Append(old.read, log) /\ job.stage = stage /\ job.sources = old.sources
       /\ job.summaries = <<>> /\ job.closed = {}
  BY <1>1, <1>4 DEF JobRecord
<1> HIDE DEF job
<1>11. JobFits(job)
  <2>1. job.stage = IF next = Len(job.sources) THEN "analyzing" ELSE "reading"
    BY <1>2, <1>10
  <2>2. Len(job.read) = next /\ Len(job.sources) \in Nat /\ next \in 1 .. Len(job.sources)
    BY <1>4, <1>5, <1>7, <1>10
  <2> HIDE DEF next, stage
  <2> QED BY <1>4, <1>10, <2>1, <2>2, NothingTold, SeedNumbers DEF JobFits
<1>12. deleted' \subseteq Sources /\ UNCHANGED <<written, added>> /\ DialogFits(dialog')
  BY <1>1, <1>2 DEF Bootstrap, SeedInv
<1> QED BY <1>1, <1>3, <1>9, <1>11, <1>12, JobKeeps

\* What was read is told in short.
LEMMA CompactedKeeps ==
    ASSUME SeedInv, NEW j \in DOMAIN jobs, ContextCompacted(j)
    PROVE  SeedInv'
<1> DEFINE old == jobs[j]
           excerpts == SourceExcerpts(old.read)
           told(generated) == [i \in DOMAIN excerpts |->
                                  [of |-> old.sources[i], excerpt |-> excerpts[i],
                                   tells |-> TellsLines(old.read[i], excerpts[i], generated)]]
           made(summaries) == [old EXCEPT !.stage = "sending", !.summaries = summaries]
<1>1. j \in 1 .. Len(jobs) /\ old \in JobRecord /\ JobFits(old) /\ DialogFits(dialog) /\ jobs \in Seq(JobRecord)
  BY JobKnown DEF SeedInv
<1>2. old.stage = "compacting" /\ Bootstrap(j)
  BY DEF ContextCompacted, At
<1>3. PICK generated \in BOOLEAN :
          jobs' = [jobs EXCEPT ![j].stage = "sending", ![j].summaries = told(generated)]
  BY DEF ContextCompacted
<1> DEFINE summaries == told(generated)
<1>4. summaries = told(generated)
  OBVIOUS
<1>5. /\ old.sources \in Seq(Sources) /\ old.read \in Seq(Logged) /\ Len(old.read) = Len(old.sources)
      /\ Len(old.sources) > 0 /\ Len(old.sources) <= MaxMergeSessions /\ old.closed = {}
  BY <1>1, <1>2 DEF JobRecord, JobFits
<1>6. /\ DOMAIN summaries = 1 .. Len(old.read) /\ Len(summaries) = Len(old.read)
      /\ \A i \in 1 .. Len(old.read) : summaries[i] \in Summary(old.sources[i])
      /\ Fair(summaries, old.read) /\ AllTold(summaries, old.read)
  <2> HIDE DEF old
  <2>1. Len(old.read) > 0 /\ Len(old.read) <= MaxMergeSessions
    BY <1>5
  <2> QED BY <1>5, <2>1, ExcerptsTell
<1>7. summaries = [i \in 1 .. Len(old.read) |-> summaries[i]]
  BY <1>6
<1> HIDE DEF summaries, excerpts, told
<1>8. jobs' = [jobs EXCEPT ![j] = made(summaries)]
  BY <1>1, <1>3, <1>4
<1> HIDE DEF old
<1>9. \A i \in 1 .. Len(old.read) :
          summaries[i].of = old.sources[i] /\ summaries[i] \in SummaryRecord
  BY <1>5, <1>6 DEF Summary, SummaryRecord
<1>10. summaries \in Seq(SummaryRecord)
  <2>1. summaries \in [1 .. Len(old.read) -> SummaryRecord]
    BY <1>7, <1>9
  <2> QED BY <1>5, <2>1
<1>11. made(summaries) \in JobRecord
  BY <1>1, <1>10 DEF JobRecord, SeedStages
<1> DEFINE job == made(summaries)
<1>12. /\ job.read = old.read /\ job.stage = "sending" /\ job.sources = old.sources
       /\ job.summaries = summaries /\ job.closed = {}
  BY <1>1, <1>5 DEF JobRecord
<1>13. job \in JobRecord /\ jobs' = [jobs EXCEPT ![j] = job]
  BY <1>8, <1>11
<1> HIDE DEF job, made
<1>14. JobFits(job)
  BY <1>5, <1>6, <1>9, <1>12, SeedNumbers DEF Summarised, JobFits
<1>15. deleted' \subseteq Sources /\ UNCHANGED <<written, added>> /\ DialogFits(dialog')
  BY <1>1, <1>2 DEF Bootstrap, SeedInv
<1> QED BY <1>1, <1>13, <1>14, <1>15, JobKeeps

\* The prompt is sent, or not: the sources may be closed only then.
LEMMA SentKeeps ==
    ASSUME SeedInv, NEW j \in DOMAIN jobs, NEW ok \in BOOLEAN, PromptSent(j, ok)
    PROVE  SeedInv'
<1> DEFINE old == jobs[j]
           stage == IF ~ok THEN "failed" ELSE IF old.close THEN "closing" ELSE "done"
           job == [old EXCEPT !.sent = ok, !.stage = stage]
<1>1. j \in 1 .. Len(jobs) /\ old \in JobRecord /\ JobFits(old) /\ DialogFits(dialog) /\ jobs \in Seq(JobRecord)
  BY JobKnown DEF SeedInv
<1>2. old.stage = "sending" /\ Bootstrap(j)
  BY DEF PromptSent, At
<1>3. jobs' = [jobs EXCEPT ![j] = job]
  BY <1>1 DEF PromptSent
<1> HIDE DEF old
<1>4. stage \in {"failed", "closing", "done"} /\ (stage = "closing" => ok)
  OBVIOUS
<1> HIDE DEF stage
<1>5. job \in JobRecord
  BY <1>1, <1>4 DEF JobRecord, SeedStages
<1>6. /\ job.read = old.read /\ job.stage = stage /\ job.sources = old.sources /\ job.sent = ok
      /\ job.summaries = old.summaries /\ job.closed = old.closed
  BY <1>1 DEF JobRecord
<1> HIDE DEF job
<1>7. \A c : Summarised(job, c) <=> Summarised(old, c)
  BY <1>6 DEF Summarised
<1>8. JobFits(job)
  BY <1>1, <1>2, <1>4, <1>6, <1>7 DEF JobFits
<1>9. deleted' \subseteq Sources /\ UNCHANGED <<written, added>> /\ DialogFits(dialog')
  BY <1>1, <1>2 DEF Bootstrap, SeedInv
<1> QED BY <1>1, <1>3, <1>5, <1>8, <1>9, JobKeeps

\* The next source is closed, unless it is gone or that fails.
LEMMA ClosedKeeps ==
    ASSUME SeedInv, NEW j \in DOMAIN jobs, NEW ok \in BOOLEAN, SourceClosed(j, ok)
    PROVE  SeedInv'
<1> DEFINE old == jobs[j]
           rest == old.sources
           gone == IF ok THEN {Head(rest)} \ deleted ELSE {}
           stage == IF Len(rest) = 1 THEN "done" ELSE old.stage
           job == [old EXCEPT !.sources = Tail(rest), !.closed = old.closed \cup gone, !.stage = stage]
<1>1. j \in 1 .. Len(jobs) /\ old \in JobRecord /\ JobFits(old) /\ DialogFits(dialog) /\ jobs \in Seq(JobRecord)
  BY JobKnown DEF SeedInv
<1>2. old.stage = "closing" /\ UNCHANGED <<dialog, written, added>> /\ deleted' = deleted \cup gone
  BY DEF SourceClosed, At
<1>3. jobs' = [jobs EXCEPT ![j] = job]
  BY <1>1 DEF SourceClosed
<1> HIDE DEF old
<1>4. /\ rest \in Seq(Sources) /\ Len(rest) > 0 /\ Len(rest) <= MaxMergeSessions /\ old.sent
      /\ old.closed \subseteq Sources /\ \A c \in old.closed : Summarised(old, c)
      /\ \A i \in 1 .. Len(rest) : Summarised(old, rest[i])
  BY <1>1, <1>2 DEF JobRecord, JobFits
<1>5. Head(rest) = rest[1] /\ rest[1] \in Sources /\ 1 \in 1 .. Len(rest)
  BY <1>4
<1>6. gone \subseteq Sources /\ \A c \in gone : Summarised(old, c)
  BY <1>4, <1>5
<1>7. /\ Tail(rest) \in Seq(Sources) /\ Len(Tail(rest)) = Len(rest) - 1 /\ Len(rest) \in Nat
      /\ \A i \in 1 .. Len(Tail(rest)) : Tail(rest)[i] = rest[i + 1] /\ i + 1 \in 1 .. Len(rest)
  BY <1>4
<1>8. stage = IF Len(rest) = 1 THEN "done" ELSE "closing"
  BY <1>2
<1> HIDE DEF gone, stage
<1>9. job \in JobRecord
  BY <1>1, <1>6, <1>7, <1>8 DEF JobRecord, SeedStages
<1>10. /\ job.read = old.read /\ job.stage = stage /\ job.sources = Tail(rest) /\ job.sent = old.sent
       /\ job.summaries = old.summaries /\ job.closed = old.closed \cup gone
  BY <1>1 DEF JobRecord
<1> HIDE DEF job
<1>11. \A c : Summarised(job, c) <=> Summarised(old, c)
  BY <1>10 DEF Summarised
<1>12. JobFits(job)
  <2>1. \A c \in job.closed : Summarised(job, c)
    BY <1>4, <1>6, <1>10, <1>11
  <2>2. \A i \in 1 .. Len(job.sources) : Summarised(job, job.sources[i])
    BY <1>4, <1>7, <1>10, <1>11
  <2>3. Len(job.sources) <= MaxMergeSessions /\ (job.stage # "done" => Len(job.sources) > 0)
    <3>1. /\ Len(job.sources) = Len(rest) - 1 /\ Len(rest) > 0 /\ Len(rest) <= MaxMergeSessions /\ Len(rest) \in Nat
          /\ job.stage = IF Len(rest) = 1 THEN "done" ELSE "closing"
      BY <1>4, <1>7, <1>8, <1>10
    <3> DEFINE n == Len(rest)
    <3> HIDE DEF rest, n
    <3>2. n \in Nat /\ n > 0 /\ n <= MaxMergeSessions /\ Len(job.sources) = n - 1 /\ (job.stage # "done" => n # 1)
      BY <3>1 DEF n
    <3> QED BY <3>2, SeedNumbers
  <2>4. job.stage \in {"closing", "done"}
    BY <1>8, <1>10
  <2>5. /\ Len(job.read) <= MaxMergeSessions /\ job.sent
        /\ Fair(job.summaries, job.read) /\ AllTold(job.summaries, job.read)
    BY <1>1, <1>4, <1>10 DEF JobFits
  <2> QED BY <2>1, <2>2, <2>3, <2>4, <2>5 DEF JobFits
<1>13. deleted' \subseteq Sources /\ UNCHANGED <<written, added>> /\ DialogFits(dialog')
  BY <1>1, <1>2, <1>6 DEF SeedInv
<1> QED BY <1>1, <1>3, <1>9, <1>12, <1>13, JobKeeps

\* Meanwhile a source goes on, or is deleted.
LEMMA WrittenKeeps ==
    ASSUME SeedInv, NEW c \in Sources, SourceWritten(c)
    PROVE  SeedInv'
<1> DEFINE old == written[c]
<1>1. PICK entry \in {Text(LineChars), Cleared} : written' = [written EXCEPT ![c] = Append(old, entry)]
  BY DEF SourceWritten
<1>2. written \in [Sources -> Logged] /\ old \in Logged
  BY DEF SeedInv
<1> HIDE DEF old
<1>3. entry \in Entries /\ (entry.kind = "text" => entry.length > 0)
  BY SeedConstants, SeedNumbers DEF Text, Cleared, Entries
<1>4. Append(old, entry) \in Logged
  <2> DEFINE new == Append(old, entry)
  <2>1. old \in Seq(Entries) /\ \A i \in 1 .. Len(old) : old[i].kind = "text" => old[i].length > 0
    BY <1>2 DEF Logged
  <2>2. /\ new \in Seq(Entries) /\ DOMAIN new = 1 .. Len(old) + 1
        /\ \A i \in 1 .. Len(old) + 1 : new[i] = IF i = Len(old) + 1 THEN entry ELSE old[i]
    BY <1>3, <2>1
  <2> HIDE DEF new
  <2>3. \A i \in DOMAIN new : new[i].kind = "text" => new[i].length > 0
    BY <1>3, <2>1, <2>2
  <2> QED BY <2>2, <2>3 DEF Logged, new
<1>5. written' \in [Sources -> Logged]
  BY <1>1, <1>2, <1>4
<1>6. added' \in 0..MaxAdded
  BY SeedNumbers DEF SourceWritten, SeedInv
<1>7. DialogFits(dialog') /\ deleted' \subseteq Sources /\ UNCHANGED jobs
  BY DEF SourceWritten, SeedInv, DialogFits
<1> QED BY <1>5, <1>6, <1>7, DialogKeeps

\* A source that is deleted keeps its transcript.
LEMMA DeletedKeeps ==
    ASSUME SeedInv, NEW c \in Sources, SourceDeleted(c)
    PROVE  SeedInv'
BY SeedNumbers, DialogKeeps DEF SourceDeleted, SeedInv, DialogFits

\* What is done in a dialog keeps it.
LEMMA EditsKeep ==
    ASSUME SeedInv, Dismissed \/ IntentEdited \/ CloseSourcesTicked \/ \E kind \in {"fork", "merge"} : Opened(kind)
    PROVE  SeedInv'
BY DialogsFit, DialogKeeps DEF Dismissed, IntentEdited, CloseSourcesTicked, Opened, SeedInv

\* So does a session that is asked for.
LEMMA ConfirmsKeep ==
    ASSUME SeedInv, MergeConfirmed \/ \E c \in Sources : ForkConfirmed(c)
    PROVE  SeedInv'
<1>1. CASE MergeConfirmed
  BY <1>1, ConfirmFits DEF SeedInv, DialogRecord, MergeConfirmed
<1>2. CASE \E c \in Sources : ForkConfirmed(c)
  <2>1. PICK c \in Sources : Confirm(<<c>>, FALSE)
    BY <1>2 DEF ForkConfirmed
  <2> DEFINE chosen == <<c>>
  <2>2. chosen \in Seq(Sources) /\ Len(chosen) = 1 /\ Confirm(chosen, FALSE)
    <3>1. \A s \in Sources : <<s>> \in Seq(Sources) /\ Len(<<s>>) = 1
      OBVIOUS
    <3> QED BY <2>1, <3>1
  <2> HIDE DEF chosen
  <2>3. Len(chosen) > 0 /\ Len(chosen) <= MaxMergeSessions
    BY <2>2, SeedConstants, SeedNumbers
  <2> QED BY <2>2, <2>3, ConfirmFits
<1> QED BY <1>1, <1>2

\* Every step keeps it.
LEMMA SeedSteps == SeedInv /\ [SeedStep]_seedVars => SeedInv'
<1> SUFFICES ASSUME SeedInv, [SeedStep]_seedVars PROVE SeedInv'
  OBVIOUS
<1>1. CASE UNCHANGED seedVars
  BY <1>1 DEF seedVars, SeedInv
<1>2. CASE Dismissed \/ IntentEdited \/ CloseSourcesTicked \/ \E kind \in {"fork", "merge"} : Opened(kind)
  BY <1>2, EditsKeep
<1>3. CASE MergeConfirmed \/ \E c \in Sources : ForkConfirmed(c)
  BY <1>3, ConfirmsKeep
<1>4. CASE \E c \in Sources : ChatToggled(c) \/ SourceWritten(c) \/ SourceDeleted(c)
  BY <1>4, ToggledFits, WrittenKeeps, DeletedKeeps
<1>5. CASE \E j \in DOMAIN jobs : PromptAsked(j) \/ SourceRead(j) \/ IntentAnalyzed(j) \/ ContextCompacted(j) \/ GenerateFailed(j)
  BY <1>5, AskedKeeps, SourceReadKeeps, AnalyzedKeeps, CompactedKeeps, FailedKeeps
<1>6. CASE \E j \in DOMAIN jobs : \E ok \in BOOLEAN :
               ChatCreated(j, ok) \/ ChatRenamed(j, ok) \/ PromptSent(j, ok) \/ SourceClosed(j, ok)
  BY <1>6, CreatedKeeps, RenamedKeeps, SentKeeps, ClosedKeeps
<1> QED BY <1>1, <1>2, <1>3, <1>4, <1>5, <1>6 DEF SeedStep

\* It gives dialogs and sessions their types.
LEMMA SeedsTyped == SeedInv => SeedTypeOK
BY JobKnown DEF SeedInv, DialogRecord, JobFits, SeedTypeOK

\* And what is told of their sources is true.
LEMMA SeedsTold == SeedInv => SeedsAreTrue
<1> SUFFICES ASSUME SeedInv PROVE SeedsAreTrue
  OBVIOUS
<1>1. ClosedIsTold
  <2> SUFFICES ASSUME NEW j \in DOMAIN jobs, NEW c \in jobs[j].closed
               PROVE  /\ jobs[j].sent
                      /\ \E i \in DOMAIN jobs[j].summaries :
                            /\ jobs[j].summaries[i].of = c
                            /\ LinesOf(jobs[j].read[i], AfterCleared(jobs[j].read[i])) # {} => jobs[j].summaries[i].tells # {}
    BY DEF ClosedIsTold
  <2>1. JobFits(jobs[j])
    BY JobKnown
  <2> QED BY <2>1 DEF JobFits, Summarised, AllTold
<1>2. ExcerptsAreFair
  BY JobKnown DEF JobFits, ExcerptsAreFair, Fair
<1> QED BY <1>1, <1>2 DEF SeedsAreTrue

\* Dialogs and sessions have their types, as the code gives them.
THEOREM SeedsHaveTypes == SeedSpec => []SeedTypeOK
<1>1. SeedSpec => []SeedInv
  BY SeedStarts, SeedSteps, PTL DEF SeedSpec
<1> QED BY <1>1, SeedsTyped, PTL

\* A source that is closed is told in a prompt that was sent, and what the providers are given
\* of several sources is shared among them fairly (session-seed.ts, useChatCommands.ts).
THEOREM SeedsHold == SeedSpec => []SeedsAreTrue
<1>1. SeedSpec => []SeedInv
  BY SeedStarts, SeedSteps, PTL DEF SeedSpec
<1> QED BY <1>1, SeedsTold, PTL

-----------------------------------------------------------------------------
(* AgentInspector: the agent selected is shown *)

\* Types, without bounds.
Replies == {"asked", "read", "seen"}
RunRecord == [chat: Inspectable \cup {NoAgent}, by: {"effect", "button"}, cancelled: BOOLEAN, reply: Replies,
              told: Nat, consumer: BOOLEAN, untold: BOOLEAN, events: Nat, count: Nat,
              requested: BOOLEAN, done: BOOLEAN, raf: BOOLEAN, missed: BOOLEAN]
QueryRecord == [run: Nat, limit: Nat, read: BOOLEAN, units: Nat]
TreeRecord  == [own: Seq(Spawned), codex: Seq(Foreign), status: [Inspectable -> ChildStatuses]]
SessionRecord == [title: Inspectable \cup {NoAgent}, of: Inspectable \cup {NoAgent}, units: Nat,
                  state: {"empty", "loading", "shown", "error"}]
PanelRecord == [open: BOOLEAN, selected: Inspectable \cup {NoAgent}, session: SessionRecord]

\* A query is of a run.
QueriesTyped(runs, sought) ==
    /\ runs \in Seq(RunRecord) /\ sought \in Seq(QueryRecord)
    /\ \A i \in 1..Len(sought) : sought[i].run \in 1..Len(runs)

\* What the variables are, without bounds.
InspectorTyped ==
    /\ hierarchy \in TreeRecord /\ inspector \in PanelRecord
    /\ QueriesTyped(refreshes, queries)
    /\ transcripts \in [Inspectable -> Nat]

\* The runs that are not stopped.
LiveRuns(runs) == {r \in 1..Len(runs) : ~runs[r].cancelled}

\* A run whose snapshot was seen has counted or is yet to be told of all that its agent
\* has written, unless it was not told; it counts no more while it has no consumer.
RunFits(run, entries) ==
    /\ run.chat \in Inspectable /\ (run.chat \in Spawned \/ run.reply = "seen")
    /\ run.done => run.requested
    /\ run.chat \in Spawned =>
          /\ run.told <= entries[run.chat]
          /\ ~run.consumer => run.events = 0 /\ run.count <= entries[run.chat]
          /\ run.reply = "seen" /\ ~run.untold => run.count + run.events >= entries[run.chat]
RunsInv(runs, entries) == \A r \in LiveRuns(runs) : RunFits(runs[r], entries)

\* Until its first answer a run has asked at most once, and only when it says so.
AsksInv(runs, sought) == \A r \in LiveRuns(runs) :
    /\ ~runs[r].requested => \A i \in 1..Len(sought) : sought[i].run # r
    /\ ~runs[r].done => \A i, j \in 1..Len(sought) : sought[i].run = r /\ sought[j].run = r => i = j

\* Of n entries all are shown, or as many as are counted.
ShowsCounted(units, count, n) == units <= n /\ (units = n \/ units >= count)

\* What a run asked for last is what it has counted, or it will ask again or has missed to.
UpToDate(run, f, entries) ==
    \/ run.raf \/ run.events > 0 \/ run.missed
    \/ IF f.read THEN ShowsCounted(f.units, run.count, entries[run.chat]) ELSE f.limit >= run.count
LastAsked(sought, i) == \A j \in 1..Len(sought) : j > i => sought[j].run # sought[i].run
LastInv(runs, sought, entries) == \A i \in 1..Len(sought) :
    sought[i].run \in LiveRuns(runs) /\ runs[sought[i].run].chat \in Spawned /\ LastAsked(sought, i)
    => UpToDate(runs[sought[i].run], sought[i], entries)

\* The agent selected is followed.
FollowedInv(panel, runs) ==
    panel.open /\ panel.selected # NoAgent => \E r \in LiveRuns(runs) : runs[r].chat = panel.selected

\* The two properties, of any state: all of it is shown that one of the runs has counted.
Strayed(panel, runs) == \E r \in LiveRuns(runs) : runs[r].chat # panel.selected
OfSelected(panel, runs) ==
    panel.open /\ panel.selected # NoAgent /\ ~Strayed(panel, runs) =>
        panel.session.of = panel.selected /\ panel.session.title \in {NoAgent, panel.selected}
Rests(run) == ~run.raf /\ ~run.missed /\ run.events = 0
AllOfIt(panel, runs, sought, entries) ==
    /\ panel.open /\ panel.selected \in Spawned /\ ~Strayed(panel, runs) /\ panel.session.state = "shown"
    /\ \A r \in LiveRuns(runs) : Rests(runs[r])
    /\ \A i \in 1..Len(sought) : sought[i].run \notin LiveRuns(runs)
    => \E r \in LiveRuns(runs) : ShowsCounted(panel.session.units, runs[r].count, entries[panel.selected])

\* Panel, runs, queries and transcripts fit each other.
Inspects(panel, runs, sought, entries) ==
    /\ RunsInv(runs, entries) /\ AsksInv(runs, sought) /\ LastInv(runs, sought, entries) /\ FollowedInv(panel, runs)
    /\ OfSelected(panel, runs) /\ AllOfIt(panel, runs, sought, entries)

\* The inductive invariant.
InspectorInv == InspectorTyped /\ Inspects(inspector, refreshes, queries, transcripts)

\* It is what is to be shown.
LEMMA InspectorGives == InspectorInv => InspectorTells
<1> SUFFICES ASSUME InspectorInv PROVE InspectorTells
  OBVIOUS
<1>1. /\ DOMAIN refreshes = 1..Len(refreshes) /\ DOMAIN queries = 1..Len(queries)
      /\ \A i \in 1..Len(queries) : queries[i].run \in 1..Len(refreshes)
  BY DEF InspectorInv, InspectorTyped, QueriesTyped
<1>2. LiveRuns(refreshes) = Current
  BY <1>1 DEF LiveRuns, Current, Wanted
<1>3. Strayed(inspector, refreshes) <=> Astray
  BY <1>2 DEF Strayed, Astray
<1>4. InspectorShowsSelected
  BY <1>3 DEF InspectorInv, Inspects, OfSelected, InspectorShowsSelected
<1>5. \A i \in DOMAIN queries : ~Wanted(queries[i].run) => queries[i].run \notin LiveRuns(refreshes)
  BY <1>1 DEF LiveRuns, Wanted
<1>6. /\ AllOfIt(inspector, refreshes, queries, transcripts) /\ RunsInv(refreshes, transcripts)
      /\ refreshes \in Seq(RunRecord) /\ transcripts \in [Inspectable -> Nat] /\ inspector \in PanelRecord
  BY DEF InspectorInv, Inspects, InspectorTyped, QueriesTyped
<1>7. InspectorShowsAll
  <2> SUFFICES ASSUME inspector.open, inspector.selected \in Spawned, ~Astray, inspector.session.state = "shown",
                      \A r \in Current : /\ refreshes[r].reply = "seen" /\ ~refreshes[r].raf /\ refreshes[r].events = 0
                                         /\ ~refreshes[r].missed /\ ~refreshes[r].untold,
                      \A i \in DOMAIN queries : ~Wanted(queries[i].run)
               PROVE  inspector.session.units = transcripts[inspector.selected]
    BY DEF InspectorShowsAll
  <2>1. PICK r \in Current : ShowsCounted(inspector.session.units, refreshes[r].count, transcripts[inspector.selected])
    BY <1>1, <1>2, <1>3, <1>5, <1>6 DEF AllOfIt, Rests
  <2> DEFINE run == refreshes[r]
             n == transcripts[inspector.selected]
             units == inspector.session.units
  <2>2. run.chat = inspector.selected /\ RunFits(run, transcripts)
    BY <1>2, <1>6 DEF Astray, RunsInv
  <2>3. run.count \in Nat /\ n \in Nat /\ units \in Nat
    <3>1. run \in RunRecord
      BY <1>2, <1>6 DEF LiveRuns
    <3>2. n \in Nat /\ units \in Nat
      BY <1>6 DEF Inspectable, PanelRecord, SessionRecord
    <3> QED BY <3>1, <3>2 DEF RunRecord
  <2>4. run.count + run.events >= n /\ run.events = 0 /\ ShowsCounted(units, run.count, n)
    BY <2>1, <2>2 DEF RunFits
  <2> HIDE DEF run, n, units
  <2>5. units = n
    BY <2>3, <2>4 DEF ShowsCounted
  <2> QED BY <2>5 DEF n, units
<1> QED BY <1>4, <1>7 DEF InspectorTells

\* A set of numbers has a least one.
LEMMA LeastOf ==
    ASSUME NEW S \in SUBSET Nat, S # {}
    PROVE  Min(S) \in S
<1> DEFINE U == {0 .. n : n \in S}
<1>1. \A n \in Nat : 0 .. n \in FiniteSubsetsOf(Nat)
  BY FS_Interval DEF FiniteSubsetsOf
<1>2. U \subseteq FiniteSubsetsOf(Nat) /\ U # {}
  BY <1>1
<1>3. PICK T \in U : \A V \in U : <<V, T>> \notin StrictSubsetOrdering(Nat)
  <2>1. IsWellFoundedOn(StrictSubsetOrdering(Nat), FiniteSubsetsOf(Nat))
    BY FS_StrictSubsetOrderingWellFounded
  <2> HIDE DEF U
  <2> QED BY <1>2, <2>1, WFMin
<1>4. PICK x \in S : T = 0 .. x
  OBVIOUS
<1>5. ASSUME NEW y \in S PROVE x <= y
  <2> SUFFICES ASSUME y < x PROVE FALSE
    OBVIOUS
  <2>1. /\ 0 .. y \subseteq Nat /\ 0 .. x \subseteq Nat /\ 0 .. y \subseteq 0 .. x
        /\ x \in 0 .. x /\ x \notin 0 .. y
    OBVIOUS
  <2>2. <<0 .. y, 0 .. x>> \in StrictSubsetOrdering(Nat)
    BY <2>1 DEF StrictSubsetOrdering
  <2> QED BY <1>3, <1>4, <2>2
<1>6. \E z \in S : \A y \in S : z <= y
  BY <1>5
<1> QED BY <1>6 DEF Min

\* The agents of a tree, in a row.
LEMMA ListedGives ==
    ASSUME NEW tree \in TreeRecord
    PROVE  Listed(tree) \in Seq(Inspectable)
BY DEF TreeRecord, Inspectable, Listed

\* What is chosen is an agent, if there is one.
LEMMA PreferredGives ==
    ASSUME NEW order \in Seq(Inspectable), NEW status, NEW current
    PROVE  Preferred(order, status, current) \in Inspectable \cup {NoAgent}
<1> DEFINE active == {i \in DOMAIN order : IsActiveStatus(status[order[i]])}
<1>1. DOMAIN order = 1..Len(order) /\ \A i \in 1..Len(order) : order[i] \in Inspectable
  OBVIOUS
<1>2. active # {} => Min(active) \in active
  <2>1. active \subseteq Nat
    BY <1>1
  <2> QED BY <2>1, LeastOf
<1>3. active # {} => order[Min(active)] \in Inspectable
  BY <1>1, <1>2
<1>4. order # <<>> => Head(order) \in Inspectable
  OBVIOUS
<1>5. current \in Range(order) => current \in Inspectable
  BY <1>1 DEF Range
<1> QED BY <1>3, <1>4, <1>5 DEF Preferred

\* Initially there is no agent.
LEMMA InspectorStarts == InspectorInit => InspectorInv
<1> SUFFICES ASSUME InspectorInit PROVE InspectorInv
  OBVIOUS
<1>1. InspectorTyped
  BY DEF InspectorInit, TreeRecord, ChildStatuses, PanelRecord, SessionRecord, NoSession, InspectorTyped, QueriesTyped
<1>2. LiveRuns(refreshes) = {} /\ Len(queries) = 0 /\ ~inspector.open
  BY DEF LiveRuns, InspectorInit
<1> QED BY <1>1, <1>2 DEF InspectorInv, Inspects, RunsInv, AsksInv, LastInv, FollowedInv, OfSelected, AllOfIt

\* Runs that are stopped, and what they asked for.
LEMMA StoppedGives ==
    ASSUME QueriesTyped(refreshes, queries)
    PROVE  /\ QueriesTyped(StoppedRuns, StoppedQueries)
           /\ Len(StoppedRuns) = Len(refreshes) /\ Len(StoppedQueries) = Len(queries)
           /\ \A r \in LiveRuns(StoppedRuns) : r \in LiveRuns(refreshes) /\ StoppedRuns[r] = refreshes[r]
           /\ \A i \in 1..Len(queries) :
                 /\ StoppedQueries[i].run = queries[i].run
                 /\ queries[i].run \in LiveRuns(StoppedRuns) => StoppedQueries[i] = queries[i]
<1> DEFINE stopped == [Run(NoAgent, "effect") EXCEPT !.cancelled = TRUE]
           runs == [i \in DOMAIN refreshes |-> IF refreshes[i].by = "effect" THEN stopped ELSE refreshes[i]]
           sought == [i \in DOMAIN queries |->
                        IF refreshes[queries[i].run].by = "effect" THEN Query(queries[i].run, 0) ELSE queries[i]]
<1>1. runs = StoppedRuns /\ sought = StoppedQueries
  BY DEF StoppedRuns, StoppedQueries
<1>2. stopped \in RunRecord /\ stopped.cancelled
  <2> DEFINE run == Run(NoAgent, "effect")
  <2>1. run \in RunRecord
    BY InspectorConstants DEF Run, RunRecord, Replies, Inspectable
  <2>2. stopped = [run EXCEPT !.cancelled = TRUE]
    OBVIOUS
  <2> HIDE DEF run, stopped
  <2> QED BY <2>1, <2>2 DEF RunRecord
<1>3. /\ DOMAIN refreshes = 1..Len(refreshes) /\ DOMAIN queries = 1..Len(queries)
      /\ \A r \in 1..Len(refreshes) : refreshes[r] \in RunRecord
      /\ \A i \in 1..Len(queries) : queries[i] \in QueryRecord /\ queries[i].run \in 1..Len(refreshes)
      /\ Len(refreshes) \in Nat /\ Len(queries) \in Nat
  BY DEF QueriesTyped
<1>4. \A n \in Nat : Query(n, 0) \in QueryRecord /\ Query(n, 0).run = n
  BY DEF Query, QueryRecord
<1> HIDE DEF stopped
<1>5. runs \in Seq(RunRecord) /\ Len(runs) = Len(refreshes)
  <2>1. runs \in [1..Len(refreshes) -> RunRecord]
    BY <1>2, <1>3
  <2> HIDE DEF runs
  <2> QED BY <1>3, <2>1
<1>6. sought \in Seq(QueryRecord) /\ Len(sought) = Len(queries)
  <2>1. sought \in [1..Len(queries) -> QueryRecord]
    BY <1>3, <1>4
  <2> HIDE DEF sought
  <2> QED BY <1>3, <2>1
<1>7. \A i \in 1..Len(queries) :
          /\ sought[i].run = queries[i].run
          /\ refreshes[queries[i].run].by # "effect" => sought[i] = queries[i]
  BY <1>3, <1>4
<1>8. \A r \in 1..Len(refreshes) : ~runs[r].cancelled => refreshes[r].by # "effect" /\ runs[r] = refreshes[r]
  BY <1>2, <1>3
<1>9. \A r \in LiveRuns(runs) : r \in LiveRuns(refreshes) /\ runs[r] = refreshes[r] /\ refreshes[r].by # "effect"
  BY <1>5, <1>8 DEF LiveRuns
<1> HIDE DEF runs, sought
<1> QED BY <1>1, <1>3, <1>5, <1>6, <1>7, <1>9 DEF QueriesTyped

\* What is stopped fits.
LEMMA StoppedFits ==
    ASSUME InspectorInv
    PROVE  /\ RunsInv(StoppedRuns, transcripts) /\ AsksInv(StoppedRuns, StoppedQueries)
           /\ LastInv(StoppedRuns, StoppedQueries, transcripts)
<1> DEFINE runs == StoppedRuns sought == StoppedQueries
<1>1. QueriesTyped(refreshes, queries)
  BY DEF InspectorInv, InspectorTyped
<1>2. /\ Len(runs) = Len(refreshes) /\ Len(sought) = Len(queries)
      /\ \A r \in LiveRuns(runs) : r \in LiveRuns(refreshes) /\ runs[r] = refreshes[r]
      /\ \A i \in 1..Len(queries) : sought[i].run = queries[i].run
                                    /\ (queries[i].run \in LiveRuns(runs) => sought[i] = queries[i])
  BY <1>1, StoppedGives
<1>3. /\ RunsInv(refreshes, transcripts) /\ AsksInv(refreshes, queries) /\ LastInv(refreshes, queries, transcripts)
  BY DEF InspectorInv, Inspects
<1> HIDE DEF runs, sought
<1>4. RunsInv(runs, transcripts)
  BY <1>2, <1>3 DEF RunsInv
<1>5. AsksInv(runs, sought)
  BY <1>2, <1>3 DEF AsksInv
<1>6. LastInv(runs, sought, transcripts)
  BY <1>2, <1>3 DEF LastInv, LastAsked
<1> QED BY <1>4, <1>5, <1>6 DEF runs, sought

\* A run that is started has nothing to do with the others.
Started(runs, sought) ==
    /\ QueriesTyped(runs, sought)
    /\ RunsInv(runs, transcripts) /\ AsksInv(runs, sought) /\ LastInv(runs, sought, transcripts)

\* A run fits from its start.
LEMMA StartKeeps ==
    ASSUME transcripts \in [Inspectable -> Nat], NEW runs, NEW sought, Started(runs, sought),
           NEW a \in Inspectable, NEW by \in {"effect", "button"}, StartRun(runs, sought, a, by)
    PROVE  /\ Started(refreshes', queries')
           /\ LiveRuns(refreshes') = LiveRuns(runs) \cup {Len(runs) + 1}
           /\ refreshes'[Len(runs) + 1].chat = a
           /\ \A r \in LiveRuns(runs) : refreshes'[r] = runs[r]
<1> DEFINE n == Len(runs) + 1
           new == refreshes'
           more == queries'
           run == Run(a, by)
           f == Query(n, MaxNews)
<1>1. /\ runs \in Seq(RunRecord) /\ sought \in Seq(QueryRecord) /\ Len(runs) \in Nat /\ Len(sought) \in Nat
      /\ \A i \in 1..Len(sought) : sought[i].run \in 1..Len(runs)
  BY DEF Started, QueriesTyped
<1>2. /\ run \in RunRecord /\ run.chat = a /\ ~run.cancelled /\ ~run.done /\ ~run.raf
      /\ run.count = 0 /\ run.events = 0 /\ run.told = 0 /\ run.reply = IF a \in Spawned THEN "asked" ELSE "seen"
      /\ (run.requested <=> a \in Foreign)
  <2> DEFINE word == IF a \in Spawned THEN "asked" ELSE "seen"
             foreign == a \in Foreign
  <2>1. word \in Replies /\ word = (IF a \in Spawned THEN "asked" ELSE "seen") /\ foreign \in BOOLEAN /\ (foreign <=> a \in Foreign)
    BY DEF Replies
  <2>2. run = [chat |-> a, by |-> by, cancelled |-> FALSE, reply |-> word, told |-> 0, consumer |-> FALSE, untold |-> FALSE,
               events |-> 0, count |-> 0, requested |-> foreign, done |-> FALSE, raf |-> FALSE, missed |-> FALSE]
    BY DEF Run
  <2> HIDE DEF word, foreign, run
  <2>3. /\ run \in RunRecord /\ run.chat = a /\ ~run.cancelled /\ ~run.done /\ ~run.raf /\ run.told = 0
        /\ run.count = 0 /\ run.events = 0 /\ run.reply = word /\ run.requested = foreign
    BY <2>1, <2>2 DEF RunRecord
  <2> QED BY <2>1, <2>3
<1>3. f \in QueryRecord /\ f.run = n
  BY <1>1, InspectorConstants DEF Query, QueryRecord
<1>4. new = Append(runs, run) /\ more = IF a \in Foreign THEN Append(sought, f) ELSE sought
  BY DEF StartRun
<1> HIDE DEF run, f
<1>5. /\ new \in Seq(RunRecord) /\ Len(new) = n /\ new[n] = run
      /\ \A r \in 1..Len(runs) : new[r] = runs[r]
  <2> HIDE DEF new
  <2> QED BY <1>1, <1>2, <1>4
<1>6. /\ more \in Seq(QueryRecord)
      /\ \A i \in 1..Len(sought) : i \in 1..Len(more) /\ more[i] = sought[i]
      /\ \A i \in 1..Len(more) : i \in 1..Len(sought) \/ (a \in Foreign /\ i = Len(sought) + 1 /\ more[i] = f)
  <2> HIDE DEF more
  <2>1. CASE a \in Foreign
    BY <1>4, <2>1, <1>1, <1>3
  <2>2. CASE a \notin Foreign
    BY <1>4, <2>2, <1>1
  <2> QED BY <2>1, <2>2
<1> HIDE DEF new, more
<1>7. LiveRuns(new) = LiveRuns(runs) \cup {n} /\ \A r \in LiveRuns(runs) : r \in 1..Len(runs) /\ new[r] = runs[r]
  BY <1>1, <1>2, <1>5 DEF LiveRuns
<1>8. QueriesTyped(new, more)
  BY SMTT(30), <1>1, <1>3, <1>5, <1>6 DEF QueriesTyped
<1>9. RunsInv(new, transcripts)
  BY <1>2, <1>5, <1>7 DEF Inspectable, RunFits, Started, RunsInv
<1>10. AsksInv(new, more)
  <2>1. ASSUME NEW r \in LiveRuns(runs)
        PROVE  /\ ~new[r].requested => \A i \in 1..Len(more) : more[i].run # r
               /\ ~new[r].done => \A i, j \in 1..Len(more) : more[i].run = r /\ more[j].run = r => i = j
    <3>1. r \in 1..Len(runs) /\ new[r] = runs[r] /\ r # n
      BY <1>1, <1>7
    <3>2. \A i \in 1..Len(more) : more[i].run = r => i \in 1..Len(sought) /\ sought[i].run = r
      BY <1>3, <1>6, <3>1
    <3> QED BY <3>1, <3>2 DEF Started, AsksInv
  <2>2. /\ ~new[n].requested => \A i \in 1..Len(more) : more[i].run # n
        /\ \A i, j \in 1..Len(more) : more[i].run = n /\ more[j].run = n => i = j
    <3>1. \A i \in 1..Len(more) : more[i].run = n => a \in Foreign /\ i = Len(sought) + 1
      BY <1>1, <1>6
    <3> QED BY <1>2, <1>5, <3>1
  <2> QED BY <1>7, <2>1, <2>2 DEF AsksInv
<1>11. LastInv(new, more, transcripts)
  <2> SUFFICES ASSUME NEW i \in 1..Len(more), more[i].run \in LiveRuns(new),
                      new[more[i].run].chat \in Spawned, LastAsked(more, i)
               PROVE  UpToDate(new[more[i].run], more[i], transcripts)
    BY DEF LastInv
  <2>1. i \in 1..Len(sought) /\ more[i] = sought[i]
    BY <1>2, <1>3, <1>5, InspectorConstants, <1>6
  <2>2. sought[i].run \in LiveRuns(runs) /\ new[sought[i].run] = runs[sought[i].run]
    BY <1>1, <1>7, <2>1
  <2>3. LastAsked(sought, i)
    BY <1>6, <2>1 DEF LastAsked
  <2> QED BY <2>1, <2>2, <2>3 DEF Started, LastInv
<1> QED BY <1>2, <1>5, <1>7, <1>8, <1>9, <1>10, <1>11 DEF Started, new, more

\* A render keeps the invariant, whatever it is of.
LEMMA RenderKeeps ==
    ASSUME InspectorInv, NEW open \in BOOLEAN, NEW order \in Seq(Inspectable), NEW status, NEW wanted,
           Rendered(open, order, status, wanted), hierarchy' \in TreeRecord, transcripts' = transcripts
    PROVE  InspectorInv'
<1> DEFINE chosen == Preferred(order, status, wanted)
           runs == open /\ chosen # NoAgent
<1>1. chosen \in Inspectable \cup {NoAgent}
  BY PreferredGives
<1> HIDE DEF chosen
<1>2. /\ inspector \in PanelRecord /\ QueriesTyped(refreshes, queries) /\ transcripts \in [Inspectable -> Nat]
      /\ Inspects(inspector, refreshes, queries, transcripts)
  BY DEF InspectorInv, InspectorTyped
<1>3. CASE inspector' = inspector /\ refreshes' = refreshes /\ queries' = queries
  BY <1>2, <1>3 DEF InspectorInv, InspectorTyped
<1>4. CASE ~(inspector' = inspector /\ refreshes' = refreshes /\ queries' = queries)
  <2>1. /\ inspector' = [open |-> open, selected |-> chosen,
                         session |-> IF runs THEN Loading(chosen) ELSE inspector.session]
        /\ IF runs THEN StartRun(StoppedRuns, StoppedQueries, chosen, "effect")
           ELSE refreshes' = StoppedRuns /\ queries' = StoppedQueries
    BY <1>4 DEF Rendered, chosen
  <2>2. Started(StoppedRuns, StoppedQueries)
    BY <1>2, StoppedGives, StoppedFits DEF Started
  <2>3. CASE runs
    <3>1. chosen \in Inspectable
      BY <1>1, <2>3
    <3>2. StartRun(StoppedRuns, StoppedQueries, chosen, "effect") /\ "effect" \in {"effect", "button"}
      BY <2>1, <2>3
    <3>3. /\ Started(refreshes', queries')
          /\ LiveRuns(refreshes') = LiveRuns(StoppedRuns) \cup {Len(StoppedRuns) + 1}
          /\ refreshes'[Len(StoppedRuns) + 1].chat = chosen
      BY <1>2, <2>2, <3>1, <3>2, StartKeeps
    <3>4. /\ Loading(chosen) \in SessionRecord /\ Loading(chosen).state = "loading"
          /\ Loading(chosen).of = chosen /\ Loading(chosen).title = NoAgent
      BY <3>1 DEF Loading, SessionRecord
    <3>5. inspector' \in PanelRecord /\ inspector'.session = Loading(chosen) /\ inspector'.selected = chosen
      <4>1. inspector' = [open |-> open, selected |-> chosen, session |-> Loading(chosen)]
        BY <2>1, <2>3
      <4> HIDE DEF runs
      <4> QED BY <1>1, <3>4, <4>1 DEF PanelRecord
    <3>6. FollowedInv(inspector', refreshes')
      BY <3>3, <3>5 DEF FollowedInv
    <3>7. OfSelected(inspector', refreshes') /\ AllOfIt(inspector', refreshes', queries', transcripts)
      BY <3>4, <3>5 DEF OfSelected, AllOfIt
    <3> QED BY <1>2, <3>3, <3>5, <3>6, <3>7 DEF InspectorInv, InspectorTyped, Inspects, Started
  <2>4. CASE ~runs
    BY <2>1, <2>4, <1>2, <1>1, InspectorConstants, <2>2 DEF PanelRecord, FollowedInv, OfSelected, AllOfIt,
       InspectorInv, InspectorTyped, Inspects, Started
  <2> QED BY <2>3, <2>4
<1> QED BY <1>3, <1>4

\* The inspector is opened or closed.
LEMMA ToggledKeeps ==
    ASSUME InspectorInv, Toggled
    PROVE  InspectorInv'
BY ListedGives, RenderKeeps DEF InspectorInv, InspectorTyped, Toggled, PanelRecord

\* An agent is selected.
LEMMA SelectedKeeps ==
    ASSUME InspectorInv, NEW a \in Inspectable, Selected(a)
    PROVE  InspectorInv'
BY ListedGives, RenderKeeps DEF InspectorInv, InspectorTyped, Selected

\* The hierarchy is another one.
LEMMA PushedKeeps ==
    ASSUME InspectorInv, NEW a \in Inspectable, Pushed(a)
    PROVE  InspectorInv'
<1>1. PICK s \in ChildStatuses, i \in 0..Len(hierarchy.own) :
          LET new == a \notin Range(Listed(hierarchy)) IN
          /\ hierarchy' = [own    |-> IF i > 0 THEN RemoveAt(hierarchy.own, i)
                                      ELSE IF new /\ a \in Spawned THEN Append(hierarchy.own, a) ELSE hierarchy.own,
                           codex  |-> IF new /\ a \in Foreign THEN Append(hierarchy.codex, a) ELSE hierarchy.codex,
                           status |-> [hierarchy.status EXCEPT ![a] = s]]
          /\ Rendered(inspector.open, Listed(hierarchy'), hierarchy'.status, inspector.selected)
          /\ UNCHANGED transcripts
  BY DEF Pushed
<1> DEFINE new == a \notin Range(Listed(hierarchy))
           own == IF i > 0 THEN RemoveAt(hierarchy.own, i)
                  ELSE IF new /\ a \in Spawned THEN Append(hierarchy.own, a) ELSE hierarchy.own
           codex == IF new /\ a \in Foreign THEN Append(hierarchy.codex, a) ELSE hierarchy.codex
           status == [hierarchy.status EXCEPT ![a] = s]
<1>2. hierarchy.own \in Seq(Spawned) /\ hierarchy.codex \in Seq(Foreign)
      /\ hierarchy.status \in [Inspectable -> ChildStatuses]
  BY DEF InspectorInv, InspectorTyped, TreeRecord
<1>3. own \in Seq(Spawned)
  <2>1. CASE i > 0
    <3> DEFINE w == hierarchy.own
    <3>1. w \in Seq(Spawned) /\ i \in 1..Len(w)
      BY <1>2, <2>1
    <3> HIDE DEF w
    <3>2. SubSeq(w, 1, i - 1) \in Seq(Spawned) /\ SubSeq(w, i + 1, Len(w)) \in Seq(Spawned)
      BY <3>1
    <3>3. RemoveAt(w, i) \in Seq(Spawned)
      BY <3>2 DEF RemoveAt
    <3> QED BY <2>1, <3>3 DEF w
  <2>2. CASE ~(i > 0)
    BY <1>2, <2>2
  <2> QED BY <2>1, <2>2
<1>4. codex \in Seq(Foreign) /\ status \in [Inspectable -> ChildStatuses]
  BY <1>2
<1>5. hierarchy' = [own |-> own, codex |-> codex, status |-> status]
  BY <1>1
<1> HIDE DEF own, codex, status
<1>6. hierarchy' \in TreeRecord
  BY <1>3, <1>4, <1>5 DEF TreeRecord
<1>7. Listed(hierarchy') \in Seq(Inspectable)
  <2> DEFINE tree == hierarchy'
  <2>1. tree \in TreeRecord
    BY <1>6
  <2> HIDE DEF tree
  <2>2. Listed(tree) \in Seq(Inspectable)
    BY <2>1, ListedGives
  <2> QED BY <2>2 DEF tree
<1>8. inspector.open \in BOOLEAN
  BY DEF InspectorInv, InspectorTyped, PanelRecord
<1> QED BY <1>1, <1>6, <1>7, <1>8, RenderKeeps

\* The Refresh button: what is selected is loaded anew.
LEMMA RefreshedKeeps ==
    ASSUME InspectorInv, Refreshed
    PROVE  InspectorInv'
<1> DEFINE a == inspector.selected
<1>1. /\ inspector \in PanelRecord /\ QueriesTyped(refreshes, queries) /\ transcripts \in [Inspectable -> Nat]
      /\ Inspects(inspector, refreshes, queries, transcripts)
  BY DEF InspectorInv, InspectorTyped
<1>2. a \in Inspectable /\ inspector.open /\ a # NoAgent
  BY <1>1 DEF PanelRecord, Refreshed
<1>3. Started(refreshes, queries)
  BY <1>1 DEF Started, Inspects
<1>4. StartRun(refreshes, queries, a, "button") /\ "button" \in {"effect", "button"}
  BY DEF Refreshed
<1>5. inspector' = [inspector EXCEPT !.session = Loading(a)]
  BY DEF Refreshed
<1> HIDE DEF a
<1>6. /\ Started(refreshes', queries')
      /\ LiveRuns(refreshes') = LiveRuns(refreshes) \cup {Len(refreshes) + 1}
      /\ refreshes'[Len(refreshes) + 1].chat = a
  BY <1>1, <1>2, <1>3, <1>4, StartKeeps
<1>7. /\ Loading(a) \in SessionRecord /\ Loading(a).state = "loading"
      /\ Loading(a).of = a /\ Loading(a).title = NoAgent
  BY <1>2 DEF Loading, SessionRecord
<1>8. inspector' \in PanelRecord /\ inspector'.session = Loading(a) /\ inspector'.selected = a
  BY <1>1, <1>5, <1>7 DEF PanelRecord, a
<1>9. FollowedInv(inspector', refreshes')
  BY <1>6, <1>8 DEF FollowedInv
<1>10. OfSelected(inspector', refreshes') /\ AllOfIt(inspector', refreshes', queries', transcripts)
  BY <1>7, <1>8 DEF OfSelected, AllOfIt
<1>11. hierarchy' = hierarchy /\ transcripts' = transcripts
  BY DEF Refreshed
<1> QED BY <1>1, <1>6, <1>8, <1>9, <1>10, <1>11 DEF InspectorInv, InspectorTyped, Inspects, Started

\* One run is changed, and goes on for its agent.
RunChanges(r, run) ==
    /\ r \in LiveRuns(refreshes) /\ run \in RunRecord /\ run.chat = refreshes[r].chat /\ ~run.cancelled
    /\ Changed(r, run) /\ transcripts' = transcripts

\* The other runs are as they were.
LEMMA ChangedGives ==
    ASSUME InspectorInv, NEW r, NEW run, RunChanges(r, run)
    PROVE  /\ refreshes' \in Seq(RunRecord) /\ Len(refreshes') = Len(refreshes)
           /\ refreshes'[r] = run /\ LiveRuns(refreshes') = LiveRuns(refreshes)
           /\ \A s \in 1..Len(refreshes) : s # r => refreshes'[s] = refreshes[s]
           /\ \A s \in LiveRuns(refreshes) : refreshes'[s].chat = refreshes[s].chat
<1>1. /\ refreshes \in Seq(RunRecord) /\ r \in 1..Len(refreshes)
      /\ refreshes' = [refreshes EXCEPT ![r] = run] /\ run \in RunRecord
  BY DEF InspectorInv, InspectorTyped, QueriesTyped, RunChanges, LiveRuns, Changed
<1> DEFINE new == refreshes'
<1>2. /\ new \in Seq(RunRecord) /\ Len(new) = Len(refreshes) /\ new[r] = run
      /\ \A s \in 1..Len(refreshes) : s # r => new[s] = refreshes[s]
  BY <1>1
<1> HIDE DEF new
<1>3. ~refreshes[r].cancelled /\ ~run.cancelled /\ run.chat = refreshes[r].chat
  BY DEF RunChanges, LiveRuns
<1>4. LiveRuns(new) = LiveRuns(refreshes)
  BY <1>2, <1>3 DEF LiveRuns
<1>5. \A s \in LiveRuns(refreshes) : new[s].chat = refreshes[s].chat
  BY <1>2, <1>3 DEF LiveRuns
<1> QED BY <1>2, <1>4, <1>5 DEF new

\* A panel that shows no other agent, but maybe the title of one that is followed.
Titled(panel, run) ==
    /\ panel \in PanelRecord /\ panel.open = inspector.open /\ panel.selected = inspector.selected
    /\ panel.session.of = inspector.session.of /\ panel.session.title \in {inspector.session.title, run.chat}
    /\ panel.session.units = inspector.session.units /\ panel.session.state = inspector.session.state

\* What such a panel shows is still of the agent selected.
LEMMA TitledKeeps ==
    ASSUME InspectorInv, NEW r, NEW run, RunChanges(r, run), NEW panel, Titled(panel, run)
    PROVE  FollowedInv(panel, refreshes') /\ OfSelected(panel, refreshes')
BY ChangedGives DEF RunChanges, InspectorInv, Inspects, FollowedInv, Titled, Strayed, OfSelected

\* A run asks for what it has counted.
AsksAgain(r, run) ==
    /\ RunFits(run, transcripts) /\ run.requested
    /\ run.done \/ ~refreshes[r].requested
    /\ refreshes[r].done => run.done
    /\ queries' = Append(queries, Query(r, Limit(run)))

\* That is then the last it has asked for.
LEMMA AsksKeeps ==
    ASSUME InspectorInv, NEW r, NEW run, RunChanges(r, run), AsksAgain(r, run),
           NEW panel, Titled(panel, run)
    PROVE  QueriesTyped(refreshes', queries') /\ Inspects(panel, refreshes', queries', transcripts)
<1> DEFINE new == refreshes'
           more == queries'
           f == Query(r, Limit(run))
<1>1. /\ new \in Seq(RunRecord) /\ Len(new) = Len(refreshes) /\ new[r] = run /\ LiveRuns(new) = LiveRuns(refreshes)
      /\ \A s \in 1..Len(refreshes) : s # r => new[s] = refreshes[s]
  BY ChangedGives
<1>2. /\ queries \in Seq(QueryRecord) /\ Len(queries) \in Nat /\ Len(refreshes) \in Nat
      /\ \A i \in 1..Len(queries) : queries[i].run \in 1..Len(refreshes)
      /\ r \in LiveRuns(refreshes) /\ r \in 1..Len(refreshes)
  BY DEF InspectorInv, InspectorTyped, QueriesTyped, RunChanges, LiveRuns
<1>3. f \in QueryRecord /\ f.run = r /\ ~f.read /\ f.limit >= run.count
  BY <1>2 DEF RunChanges, RunRecord, Limit, Query, QueryRecord
<1>4. more = Append(queries, f)
  BY DEF AsksAgain
<1> HIDE DEF f, new
<1>5. /\ more \in Seq(QueryRecord) /\ Len(more) = Len(queries) + 1 /\ more[Len(more)] = f
      /\ \A i \in 1..Len(queries) : i \in 1..Len(more) /\ more[i] = queries[i]
      /\ \A i \in 1..Len(more) : i \in 1..Len(queries) \/ i = Len(more)
  <2> HIDE DEF more
  <2> QED BY <1>2, <1>3, <1>4
<1> HIDE DEF more
<1>6. QueriesTyped(new, more)
  BY <1>1, <1>2, <1>3, <1>5 DEF QueriesTyped
<1>7. /\ RunsInv(refreshes, transcripts) /\ AsksInv(refreshes, queries) /\ LastInv(refreshes, queries, transcripts)
  BY DEF InspectorInv, Inspects
<1>8. /\ RunFits(run, transcripts) /\ run.requested /\ (run.done \/ ~refreshes[r].requested)
      /\ (refreshes[r].done => run.done)
  BY DEF AsksAgain
<1>9. \A s \in LiveRuns(refreshes) : s \in 1..Len(refreshes)
  BY DEF LiveRuns
<1>10. RunsInv(new, transcripts)
  BY <1>1, <1>7, <1>8, <1>9 DEF RunsInv
<1>11. AsksInv(new, more)
  <2>1. ASSUME NEW s \in LiveRuns(new), s # r
        PROVE  /\ ~new[s].requested => \A i \in 1..Len(more) : more[i].run # s
               /\ ~new[s].done => \A i, j \in 1..Len(more) : more[i].run = s /\ more[j].run = s => i = j
    <3>1. s \in LiveRuns(refreshes) /\ new[s] = refreshes[s]
      BY <1>1, <1>9, <2>1
    <3>2. \A i \in 1..Len(more) : more[i].run = s => i \in 1..Len(queries) /\ queries[i].run = s
      BY <1>3, <1>5, <2>1
    <3> QED BY <1>7, <3>1, <3>2 DEF AsksInv
  <2>2. /\ ~new[r].requested => \A i \in 1..Len(more) : more[i].run # r
        /\ ~new[r].done => \A i, j \in 1..Len(more) : more[i].run = r /\ more[j].run = r => i = j
    BY <1>1, <1>8, <1>2, <1>7, <1>5 DEF AsksInv
  <2> QED BY <2>1, <2>2 DEF AsksInv
<1>12. LastInv(new, more, transcripts)
  <2> SUFFICES ASSUME NEW i \in 1..Len(more), more[i].run \in LiveRuns(new),
                      new[more[i].run].chat \in Spawned, LastAsked(more, i)
               PROVE  UpToDate(new[more[i].run], more[i], transcripts)
    BY DEF LastInv
  <2>1. CASE i = Len(more)
    BY <1>1, <1>3, <1>5, <2>1 DEF UpToDate
  <2>2. CASE i \in 1..Len(queries)
    <3>1. more[i] = queries[i] /\ queries[i].run \in 1..Len(refreshes)
      BY <1>2, <1>5, <2>2
    <3>2. queries[i].run # r
      BY <1>2, <1>3, <1>5, <2>2, <3>1 DEF LastAsked
    <3>3. new[queries[i].run] = refreshes[queries[i].run] /\ queries[i].run \in LiveRuns(refreshes)
      BY <1>1, <3>1, <3>2
    <3>4. LastAsked(queries, i)
      BY <1>5, <2>2 DEF LastAsked
    <3> QED BY <1>7, <2>2, <3>1, <3>3, <3>4 DEF LastInv
  <2> QED BY <1>5, <2>1, <2>2
<1>13. AllOfIt(panel, new, more, transcripts)
  BY <1>1, <1>2, <1>3, <1>5 DEF AllOfIt
<1>14. FollowedInv(panel, new) /\ OfSelected(panel, new)
  BY TitledKeeps DEF new
<1> QED BY <1>6, <1>10, <1>11, <1>12, <1>13, <1>14 DEF Inspects, new, more

\* A run asks for nothing: it will once a frame has come, has missed to, or has counted no more.
AsksNothing(r, run) ==
    /\ RunFits(run, transcripts) /\ run.requested = refreshes[r].requested /\ run.done = refreshes[r].done
    /\ \/ run.raf \/ run.missed
       \/ /\ run.raf = refreshes[r].raf /\ run.missed = refreshes[r].missed /\ run.events = refreshes[r].events
          /\ run.count <= refreshes[r].count
    /\ queries' = queries

\* A smaller count is as well shown.
LEMMA FewerShown ==
    ASSUME NEW units \in Nat, NEW old \in Nat, NEW count \in Nat, NEW n \in Nat, count <= old, ShowsCounted(units, old, n)
    PROVE  ShowsCounted(units, count, n)
BY DEF ShowsCounted

\* What it shows may then be old, or is what it was.
LEMMA AskingNothingKeeps ==
    ASSUME InspectorInv, NEW r, NEW run, RunChanges(r, run), AsksNothing(r, run), NEW panel, Titled(panel, run)
    PROVE  QueriesTyped(refreshes', queries') /\ Inspects(panel, refreshes', queries', transcripts)
<1> DEFINE new == refreshes'
           old == refreshes[r]
<1>1. /\ new \in Seq(RunRecord) /\ Len(new) = Len(refreshes) /\ new[r] = run /\ LiveRuns(new) = LiveRuns(refreshes)
      /\ \A s \in 1..Len(refreshes) : s # r => new[s] = refreshes[s]
      /\ \A s \in LiveRuns(refreshes) : new[s].chat = refreshes[s].chat
  BY ChangedGives
<1>2. /\ queries \in Seq(QueryRecord) /\ queries' = queries /\ transcripts \in [Inspectable -> Nat]
      /\ \A i \in 1..Len(queries) : queries[i].run \in 1..Len(refreshes) /\ queries[i].units \in Nat
                                  /\ queries[i].limit \in Nat
      /\ r \in LiveRuns(refreshes) /\ run \in RunRecord /\ old \in RunRecord /\ run.chat = old.chat
      /\ \A s \in LiveRuns(refreshes) : s \in 1..Len(refreshes)
  <2>1. /\ queries \in Seq(QueryRecord) /\ refreshes \in Seq(RunRecord) /\ transcripts \in [Inspectable -> Nat]
        /\ \A i \in 1..Len(queries) : queries[i].run \in 1..Len(refreshes)
    BY DEF InspectorInv, InspectorTyped, QueriesTyped
  <2>2. ASSUME NEW i \in 1..Len(queries) PROVE queries[i].units \in Nat /\ queries[i].limit \in Nat
    <3>1. queries[i] \in QueryRecord
      BY <2>1
    <3> QED BY <3>1 DEF QueryRecord
  <2> QED BY <2>1, <2>2 DEF RunChanges, LiveRuns, AsksNothing
<1>3. /\ RunsInv(refreshes, transcripts) /\ AsksInv(refreshes, queries) /\ LastInv(refreshes, queries, transcripts)
      /\ AllOfIt(inspector, refreshes, queries, transcripts)
  BY DEF InspectorInv, InspectorTyped, Inspects
<1>4. /\ RunFits(run, transcripts) /\ run.requested = old.requested /\ run.done = old.done
      /\ \/ run.raf \/ run.missed
         \/ run.raf = old.raf /\ run.missed = old.missed /\ run.events = old.events /\ run.count <= old.count
  BY DEF AsksNothing
<1> HIDE DEF new, old
<1>5. QueriesTyped(new, queries)
  BY <1>1, <1>2 DEF QueriesTyped
<1>6. RunsInv(new, transcripts)
  BY <1>1, <1>2, <1>3, <1>4 DEF RunsInv
<1>7. AsksInv(new, queries)
  BY <1>1, <1>2, <1>4, <1>3 DEF AsksInv, old
<1>8. run.count \in Nat /\ old.count \in Nat /\ run.chat \in Inspectable /\ transcripts[run.chat] \in Nat
  BY <1>2, <1>4 DEF RunRecord, RunFits
<1>9. LastInv(new, queries, transcripts)
  <2> SUFFICES ASSUME NEW i \in 1..Len(queries), queries[i].run \in LiveRuns(new),
                      new[queries[i].run].chat \in Spawned, LastAsked(queries, i)
               PROVE  UpToDate(new[queries[i].run], queries[i], transcripts)
    BY DEF LastInv
  <2>1. refreshes[queries[i].run].chat \in Spawned
    BY <1>1
  <2>2. UpToDate(refreshes[queries[i].run], queries[i], transcripts)
    BY <1>1, <1>3, <2>1 DEF LastInv
  <2>3. CASE queries[i].run # r
    BY <1>1, <1>2, <2>2, <2>3
  <2>4. CASE queries[i].run = r
    <3> DEFINE f == queries[i]
    <3>1. UpToDate(old, f, transcripts) /\ f.units \in Nat /\ f.limit \in Nat
      BY <1>2, <2>2, <2>4 DEF old
    <3> HIDE DEF f
    <3>2. run.raf \/ run.missed => UpToDate(run, f, transcripts)
      BY DEF UpToDate
    <3>3. ASSUME run.raf = old.raf, run.missed = old.missed, run.events = old.events, run.count <= old.count
          PROVE  UpToDate(run, f, transcripts)
      BY <3>3, <1>2, <1>8, <3>1, FewerShown DEF UpToDate
    <3>4. UpToDate(run, f, transcripts)
      BY <1>4, <3>2, <3>3
    <3> QED BY <1>1, <2>4, <3>4 DEF f
  <2> QED BY <2>3, <2>4
<1>10. AllOfIt(panel, new, queries, transcripts)
  <2> SUFFICES ASSUME panel.open, panel.selected \in Spawned, ~Strayed(panel, new), panel.session.state = "shown",
                      \A s \in LiveRuns(new) : Rests(new[s]),
                      \A i \in 1..Len(queries) : queries[i].run \notin LiveRuns(new)
               PROVE  \E s \in LiveRuns(new) : ShowsCounted(panel.session.units, new[s].count, transcripts[panel.selected])
    BY DEF AllOfIt
  <2>1. /\ run.raf = old.raf /\ run.missed = old.missed /\ run.events = old.events /\ run.count <= old.count
        /\ Rests(run)
    BY <1>1, <1>2, <1>4 DEF Rests
  <2>2. \A s \in LiveRuns(refreshes) : Rests(refreshes[s])
    BY <1>1, <1>2, <2>1 DEF Rests, old
  <2>3. ~Strayed(inspector, refreshes)
    BY <1>1 DEF Strayed, Titled
  <2>4. PICK s \in LiveRuns(refreshes) : ShowsCounted(panel.session.units, refreshes[s].count, transcripts[panel.selected])
    BY <1>1, <1>3, <2>2, <2>3 DEF AllOfIt, Titled
  <2>5. panel.session.units \in Nat /\ transcripts[panel.selected] \in Nat
    BY <1>2 DEF Titled, PanelRecord, SessionRecord, Inspectable
  <2>6. CASE s = r
    BY <1>1, <1>8, <2>1, <2>4, <2>5, <2>6, FewerShown DEF old
  <2>7. CASE s # r
    BY <1>1, <1>2, <2>4, <2>7
  <2> QED BY <2>6, <2>7
<1>11. FollowedInv(panel, new) /\ OfSelected(panel, new)
  BY TitledKeeps DEF new
<1> QED BY <1>2, <1>5, <1>6, <1>7, <1>9, <1>10, <1>11 DEF Inspects, new

\* What a run of the invariant is.
LEMMA LiveRun ==
    ASSUME InspectorInv, NEW r \in DOMAIN refreshes, Wanted(r)
    PROVE  /\ r \in LiveRuns(refreshes) /\ refreshes[r] \in RunRecord /\ ~refreshes[r].cancelled
           /\ RunFits(refreshes[r], transcripts)
BY DEF InspectorInv, InspectorTyped, QueriesTyped, LiveRuns, Wanted, Inspects, RunsInv

\* The first fetch is asked for.
LEMMA FetchKeeps ==
    ASSUME InspectorInv, NEW r \in LiveRuns(refreshes), NEW counted \in RunRecord, counted.chat = refreshes[r].chat,
           ~counted.cancelled, ~counted.requested, counted.done = refreshes[r].done, RunFits(counted, transcripts),
           ~refreshes[r].requested, FetchAll(r, counted), transcripts' = transcripts,
           NEW panel, \A run : run.chat = refreshes[r].chat => Titled(panel, run)
    PROVE  QueriesTyped(refreshes', queries') /\ Inspects(panel, refreshes', queries', transcripts)
<1> DEFINE run == [counted EXCEPT !.requested = TRUE, !.missed = FALSE]
<1>1. /\ run \in RunRecord /\ run.chat = counted.chat /\ ~run.cancelled /\ run.requested /\ run.done = counted.done
      /\ run.told = counted.told /\ run.consumer = counted.consumer /\ run.untold = counted.untold
      /\ run.reply = counted.reply /\ run.events = counted.events /\ run.count = counted.count
  BY DEF RunRecord
<1>2. Changed(r, run) /\ queries' = Append(queries, Query(r, Limit(counted)))
  BY DEF FetchAll
<1> HIDE DEF run
<1>3. Limit(run) = Limit(counted)
  BY <1>1 DEF Limit
<1>4. RunFits(run, transcripts)
  BY <1>1 DEF RunFits
<1>5. RunChanges(r, run) /\ AsksAgain(r, run) /\ Titled(panel, run)
  BY <1>1, <1>2, <1>3, <1>4 DEF RunChanges, AsksAgain
<1> QED BY <1>5, AsksKeeps

\* A snapshot comes: its count is taken, and asked for unless the first fetch was.
LEMMA SnapshotKeeps ==
    ASSUME InspectorInv, NEW r \in DOMAIN refreshes, Wanted(r), refreshes[r].chat \in Spawned,
           NEW n \in Nat, n <= transcripts[refreshes[r].chat], NEW reply \in Replies, SnapshotSeen(r, n, reply)
    PROVE  InspectorInv'
<1> DEFINE old == refreshes[r]
           untold == n + old.events < transcripts[old.chat]
           missed == old.missed \/ n > old.count
           told == IF reply = "seen" THEN 0 ELSE old.told
           counted == [old EXCEPT !.reply = reply, !.told = told, !.count = n, !.missed = missed, !.untold = untold]
           panel == [inspector EXCEPT !.session.title = old.chat]
<1>1. /\ r \in LiveRuns(refreshes) /\ old \in RunRecord /\ ~old.cancelled /\ RunFits(old, transcripts)
  BY LiveRun
<1>2. /\ old.chat \in Inspectable /\ transcripts[old.chat] \in Nat /\ old.count \in Nat /\ old.events \in Nat
      /\ old.told \in Nat /\ told \in Nat /\ told <= IF reply = "seen" THEN 0 ELSE old.told
  BY <1>1 DEF RunFits, RunRecord, InspectorInv, InspectorTyped
<1>3. /\ untold \in BOOLEAN /\ missed \in BOOLEAN /\ old.missed \in BOOLEAN /\ old.chat \in Spawned
      /\ (untold <=> n + old.events < transcripts[old.chat]) /\ (missed <=> old.missed \/ n > old.count)
  BY <1>1 DEF RunRecord
<1>4. /\ inspector' = panel /\ FetchAll(r, counted) /\ hierarchy' = hierarchy /\ transcripts' = transcripts
  BY DEF SnapshotSeen
<1> HIDE DEF untold, missed, told
<1>5. /\ counted \in RunRecord /\ counted.chat = old.chat /\ ~counted.cancelled /\ counted.reply = reply
      /\ counted.told = told /\ counted.consumer = old.consumer /\ counted.untold = untold /\ counted.events = old.events
      /\ counted.count = n /\ counted.requested = old.requested /\ counted.done = old.done /\ counted.raf = old.raf
      /\ counted.missed = missed
  BY <1>1, <1>2, <1>3 DEF RunRecord
<1>6. RunFits(counted, transcripts)
  <2> HIDE DEF old, counted
  <2>1. counted.chat \in Spawned => counted.told <= transcripts[counted.chat]
    BY <1>1, <1>2, <1>5 DEF RunFits, told
  <2>2. counted.chat \in Spawned /\ ~counted.consumer => counted.events = 0 /\ counted.count <= transcripts[counted.chat]
    BY <1>1, <1>5 DEF RunFits, old
  <2>3. ~counted.untold => counted.count + counted.events >= transcripts[counted.chat]
    BY <1>2, <1>3, <1>5
  <2>4. counted.done => counted.requested
    BY <1>1, <1>5 DEF RunFits
  <2> QED BY <1>2, <1>3, <1>5, <2>1, <2>2, <2>3, <2>4 DEF RunFits
<1>7. panel \in PanelRecord /\ \A run : run.chat = old.chat => Titled(panel, run)
  <2>1. inspector \in PanelRecord
    BY DEF InspectorInv, InspectorTyped
  <2>2. /\ panel \in PanelRecord /\ panel.open = inspector.open /\ panel.selected = inspector.selected
        /\ panel.session.of = inspector.session.of /\ panel.session.title = old.chat
        /\ panel.session.units = inspector.session.units /\ panel.session.state = inspector.session.state
    BY <1>2, <2>1 DEF PanelRecord, SessionRecord
  <2> HIDE DEF panel
  <2> QED BY <2>2 DEF Titled
<1> HIDE DEF counted, panel
<1>8. CASE old.requested
  <2>1. Changed(r, counted) /\ queries' = queries
    BY <1>4, <1>5, <1>8 DEF FetchAll
  <2>2. RunChanges(r, counted)
    BY <1>1, <1>4, <1>5, <2>1 DEF RunChanges
  <2>3. missed \/ (missed = old.missed /\ n <= old.count)
    BY <1>2, <1>3
  <2>4. AsksNothing(r, counted)
    BY <1>5, <1>6, <2>1, <2>3 DEF AsksNothing
  <2>5. QueriesTyped(refreshes', queries') /\ Inspects(panel, refreshes', queries', transcripts)
    BY <1>5, <1>7, <2>2, <2>4, AskingNothingKeeps
  <2> QED BY <1>4, <1>7, <2>5 DEF InspectorInv, InspectorTyped
<1>9. CASE ~old.requested
  BY <1>1, <1>4, <1>5, <1>6, <1>7, <1>9, FetchKeeps DEF InspectorInv, InspectorTyped
<1> QED BY <1>8, <1>9

\* The hub reads what it will tell, or the consumer starts.
LEMMA SubscribingKeeps ==
    ASSUME InspectorInv, NEW r \in DOMAIN refreshes, HubReads(r) \/ ConsumerStarts(r)
    PROVE  InspectorInv'
<1> DEFINE old == refreshes[r]
           n == transcripts[old.chat]
           read == [old EXCEPT !.reply = "read", !.told = n]
           started == [old EXCEPT !.consumer = TRUE]
<1>1. /\ r \in LiveRuns(refreshes) /\ old \in RunRecord /\ ~old.cancelled /\ RunFits(old, transcripts)
  BY LiveRun DEF HubReads, ConsumerStarts
<1>2. n \in Nat /\ old.count \in Nat /\ inspector \in PanelRecord
  BY <1>1 DEF RunFits, RunRecord, InspectorInv, InspectorTyped
<1>3. \E run \in {read, started} : Changed(r, run)
  BY DEF HubReads, ConsumerStarts
<1>4. /\ hierarchy' = hierarchy /\ inspector' = inspector /\ queries' = queries /\ transcripts' = transcripts
      /\ old.chat \in Spawned
  BY <1>1 DEF HubReads, ConsumerStarts, RunFits
<1>5. \A run \in {read, started} :
          /\ run \in RunRecord /\ run.chat = old.chat /\ ~run.cancelled /\ run.requested = old.requested
          /\ run.done = old.done /\ run.raf = old.raf /\ run.missed = old.missed /\ run.events = old.events
          /\ run.count = old.count /\ RunFits(run, transcripts)
  <2> HIDE DEF n
  <2>1. /\ read \in RunRecord /\ read.chat = old.chat /\ ~read.cancelled /\ read.requested = old.requested
        /\ read.done = old.done /\ read.raf = old.raf /\ read.missed = old.missed /\ read.events = old.events
        /\ read.count = old.count /\ read.told = n /\ read.reply = "read" /\ read.consumer = old.consumer
    BY <1>1, <1>2 DEF RunRecord, Replies
  <2>2. /\ started \in RunRecord /\ started.chat = old.chat /\ ~started.cancelled /\ started.requested = old.requested
        /\ started.done = old.done /\ started.raf = old.raf /\ started.missed = old.missed /\ started.events = old.events
        /\ started.count = old.count /\ started.told = old.told /\ started.reply = old.reply /\ started.consumer
        /\ started.untold = old.untold
    BY <1>1 DEF RunRecord
  <2> HIDE DEF read, started
  <2>3. RunFits(read, transcripts)
    BY <1>1, <1>2, <1>4, <2>1 DEF RunFits, n
  <2>4. RunFits(started, transcripts)
    BY <1>1, <2>2 DEF RunFits
  <2> QED BY <2>1, <2>2, <2>3, <2>4
<1> HIDE DEF read, started
<1>6. PICK run \in {read, started} : Changed(r, run)
  BY <1>3
<1>7. RunChanges(r, run) /\ AsksNothing(r, run) /\ Titled(inspector, run)
  BY <1>1, <1>2, <1>4, <1>5, <1>6 DEF RunChanges, AsksNothing, Titled
<1>8. QueriesTyped(refreshes', queries') /\ Inspects(inspector, refreshes', queries', transcripts)
  BY <1>7, AskingNothingKeeps
<1> QED BY <1>4, <1>8 DEF InspectorInv, InspectorTyped

\* An event is counted, and a frame is due or all is asked for.
LEMMA EventKeeps ==
    ASSUME InspectorInv, NEW r \in DOMAIN refreshes, RunEvent(r)
    PROVE  InspectorInv'
<1> DEFINE old == refreshes[r]
           less == old.events - 1
           more == old.count + 1
           counted == [old EXCEPT !.events = less, !.count = more]
           run == [counted EXCEPT !.raf = TRUE]
<1>1. /\ r \in LiveRuns(refreshes) /\ old \in RunRecord /\ ~old.cancelled /\ RunFits(old, transcripts) /\ old.events > 0
  BY LiveRun DEF RunEvent
<1>2. old.events \in Nat /\ old.count \in Nat /\ less \in Nat /\ more \in Nat /\ more + less = old.count + old.events
  BY <1>1 DEF RunRecord
<1>3. /\ hierarchy' = hierarchy /\ inspector' = inspector /\ transcripts' = transcripts
      /\ IF counted.requested THEN Changed(r, run) /\ queries' = queries ELSE FetchAll(r, counted)
  BY DEF RunEvent
<1> HIDE DEF less, more
<1>4. /\ counted \in RunRecord /\ counted.chat = old.chat /\ ~counted.cancelled /\ counted.reply = old.reply
      /\ counted.told = old.told /\ counted.consumer = old.consumer /\ counted.untold = old.untold
      /\ counted.events = less /\ counted.count = more /\ counted.requested = old.requested /\ counted.done = old.done
  BY <1>1, <1>2 DEF RunRecord
<1>5. /\ run \in RunRecord /\ run.chat = old.chat /\ ~run.cancelled /\ run.reply = old.reply
      /\ run.told = old.told /\ run.consumer = old.consumer /\ run.untold = old.untold
      /\ run.events = less /\ run.count = more /\ run.requested = old.requested /\ run.done = old.done /\ run.raf
  BY <1>1, <1>2 DEF RunRecord
<1>6. inspector \in PanelRecord /\ \A any : any.chat = old.chat => Titled(inspector, any)
  BY DEF InspectorInv, InspectorTyped, Titled
<1> HIDE DEF counted, run
<1>7. RunFits(counted, transcripts) /\ RunFits(run, transcripts)
  BY <1>1, <1>2, <1>4, <1>5 DEF RunFits
<1>8. CASE old.requested
  BY <1>1, <1>3, <1>4, <1>5, <1>7, <1>8, <1>6, AskingNothingKeeps DEF RunChanges, AsksNothing, InspectorInv,
     InspectorTyped
<1>9. CASE ~old.requested
  BY <1>1, <1>3, <1>4, <1>6, <1>7, <1>9, FetchKeeps DEF InspectorInv, InspectorTyped
<1> QED BY <1>8, <1>9

\* A frame asks for all, or comes too early.
LEMMA FrameKeeps ==
    ASSUME InspectorInv, NEW r \in DOMAIN refreshes, RunFrame(r)
    PROVE  InspectorInv'
<1> DEFINE old == refreshes[r]
           missed == ~old.done
           run == [old EXCEPT !.raf = FALSE, !.missed = missed]
<1>1. /\ r \in LiveRuns(refreshes) /\ old \in RunRecord /\ ~old.cancelled /\ RunFits(old, transcripts)
  BY LiveRun DEF RunFrame
<1>2. missed \in BOOLEAN /\ (missed <=> ~old.done)
  OBVIOUS
<1>3. /\ hierarchy' = hierarchy /\ inspector' = inspector /\ transcripts' = transcripts
      /\ Changed(r, run) /\ queries' = IF old.done THEN Append(queries, Query(r, Limit(old))) ELSE queries
  BY DEF RunFrame
<1> HIDE DEF missed
<1>4. /\ run \in RunRecord /\ run.chat = old.chat /\ ~run.cancelled /\ run.reply = old.reply /\ run.told = old.told
      /\ run.consumer = old.consumer /\ run.untold = old.untold
      /\ run.requested = old.requested /\ run.done = old.done /\ run.count = old.count /\ run.events = old.events
      /\ run.missed = missed
  BY <1>1, <1>2 DEF RunRecord
<1>5. inspector \in PanelRecord
  BY DEF InspectorInv, InspectorTyped
<1> HIDE DEF run
<1>6. RunFits(run, transcripts) /\ (old.done => old.requested) /\ Limit(run) = Limit(old)
  BY <1>1, <1>4 DEF RunFits, Limit
<1>7. RunChanges(r, run) /\ Titled(inspector, run)
  BY <1>1, <1>3, <1>4, <1>5 DEF RunChanges, Titled
<1>8. AsksAgain(r, run) \/ AsksNothing(r, run)
  BY <1>2, <1>3, <1>4, <1>6 DEF AsksAgain, AsksNothing
<1> QED BY <1>3, <1>7, <1>8, AsksKeeps, AskingNothingKeeps DEF InspectorInv, InspectorTyped

\* What a run becomes when the agent that it follows writes.
Heard(run) == IF run.consumer THEN [run EXCEPT !.events = @ + 1] ELSE [run EXCEPT !.untold = TRUE]

\* It is told, or is not.
LEMMA HeardGives ==
    ASSUME NEW old \in RunRecord, NEW run, run = Heard(old)
    PROVE  /\ run \in RunRecord /\ run.chat = old.chat /\ run.cancelled = old.cancelled /\ run.reply = old.reply
           /\ run.told = old.told /\ run.consumer = old.consumer /\ run.count = old.count
           /\ run.requested = old.requested /\ run.done = old.done /\ run.raf = old.raf /\ run.missed = old.missed
           /\ old.events \in Nat /\ old.count \in Nat /\ old.told \in Nat
           /\ (old.consumer => run.events = old.events + 1 /\ run.untold = old.untold)
           /\ (~old.consumer => run.events = old.events /\ run.untold)
<1>1. CASE old.consumer
  <2> DEFINE more == old.events + 1
  <2>1. old.events \in Nat /\ old.count \in Nat /\ old.told \in Nat /\ more \in Nat
    BY DEF RunRecord
  <2>2. run = [old EXCEPT !.events = more]
    BY <1>1 DEF Heard
  <2> HIDE DEF more
  <2>3. /\ run \in RunRecord /\ run.chat = old.chat /\ run.cancelled = old.cancelled /\ run.reply = old.reply
        /\ run.told = old.told /\ run.consumer = old.consumer /\ run.count = old.count
        /\ run.requested = old.requested /\ run.done = old.done /\ run.raf = old.raf /\ run.missed = old.missed
        /\ run.events = more /\ run.untold = old.untold
    BY <2>1, <2>2 DEF RunRecord
  <2> QED BY <1>1, <2>1, <2>3 DEF more
<1>2. CASE ~old.consumer
  BY <1>2 DEF Heard, RunRecord
<1> QED BY <1>1, <1>2

\* An agent writes: its followers are sent an event, or are not told.
LEMMA WritesKeep ==
    ASSUME InspectorInv, NEW a \in Inspectable, AgentWrites(a)
    PROVE  InspectorInv'
<1> DEFINE new == refreshes'
           entries == transcripts'
           Hears(r) == Wanted(r) /\ refreshes[r].chat = a /\ a \in Spawned
<1>1. /\ refreshes \in Seq(RunRecord) /\ transcripts \in [Inspectable -> Nat] /\ queries \in Seq(QueryRecord)
      /\ DOMAIN refreshes = 1..Len(refreshes) /\ Len(refreshes) \in Nat
      /\ \A r \in 1..Len(refreshes) : refreshes[r] \in RunRecord
      /\ \A i \in 1..Len(queries) : queries[i] \in QueryRecord /\ queries[i].run \in 1..Len(refreshes)
  BY DEF InspectorInv, InspectorTyped, QueriesTyped
<1>2. /\ entries = [transcripts EXCEPT ![a] = @ + 1] /\ hierarchy' = hierarchy /\ inspector' = inspector /\ queries' = queries
      /\ new = [r \in DOMAIN refreshes |-> IF Hears(r) THEN Heard(refreshes[r]) ELSE refreshes[r]]
  BY DEF AgentWrites, Heard
<1>3. /\ entries \in [Inspectable -> Nat] /\ entries[a] = transcripts[a] + 1
      /\ \A b \in Inspectable : b # a => entries[b] = transcripts[b]
  BY <1>1, <1>2
<1>4. \A r \in 1..Len(refreshes) : new[r] = IF Hears(r) THEN Heard(refreshes[r]) ELSE refreshes[r]
  BY <1>1, <1>2
<1>5. ASSUME NEW r \in 1..Len(refreshes)
      PROVE  LET run == new[r] old == refreshes[r] IN
             /\ run \in RunRecord /\ run.chat = old.chat /\ run.cancelled = old.cancelled /\ run.reply = old.reply
             /\ run.told = old.told /\ run.consumer = old.consumer /\ run.count = old.count
             /\ run.requested = old.requested /\ run.done = old.done /\ run.raf = old.raf /\ run.missed = old.missed
             /\ old.events \in Nat /\ old.count \in Nat /\ old.told \in Nat
             /\ (Hears(r) /\ old.consumer => run.events = old.events + 1 /\ run.untold = old.untold)
             /\ (Hears(r) /\ ~old.consumer => run.events = old.events /\ run.untold)
             /\ (~Hears(r) => run = old)
  <2> HIDE DEF new, Hears
  <2>1. CASE Hears(r)
    BY <1>1, <1>4, <2>1, HeardGives
  <2>2. CASE ~Hears(r)
    BY <1>1, <1>4, <2>2 DEF RunRecord
  <2> QED BY <2>1, <2>2
<1>6. new \in Seq(RunRecord) /\ Len(new) = Len(refreshes)
  <2>1. DOMAIN new = 1..Len(refreshes) /\ new = [r \in 1..Len(refreshes) |-> new[r]]
    BY <1>1, <1>2
  <2> HIDE DEF new
  <2>2. new \in [1..Len(refreshes) -> RunRecord]
    BY <1>5, <2>1
  <2> QED BY SMTT(30), <1>1, <2>2
<1>7. LiveRuns(new) = LiveRuns(refreshes) /\ \A r \in LiveRuns(new) : r \in 1..Len(refreshes) /\ Wanted(r)
  <2> HIDE DEF new, Hears
  <2>1. \A r \in 1..Len(refreshes) : new[r].cancelled = refreshes[r].cancelled
    BY <1>5
  <2> QED BY <1>6, <2>1 DEF LiveRuns, Wanted
<1>8. \A r \in LiveRuns(new) : Hears(r) <=> refreshes[r].chat = a /\ a \in Spawned
  BY <1>7
<1> HIDE DEF new, entries, Hears
<1>9. /\ RunsInv(refreshes, transcripts) /\ AsksInv(refreshes, queries) /\ LastInv(refreshes, queries, transcripts)
      /\ FollowedInv(inspector, refreshes) /\ OfSelected(inspector, refreshes)
      /\ AllOfIt(inspector, refreshes, queries, transcripts)
  BY DEF InspectorInv, Inspects
<1>10. ASSUME NEW r \in LiveRuns(new)
       PROVE  /\ r \in 1..Len(refreshes) /\ RunFits(refreshes[r], transcripts) /\ refreshes[r].chat \in Inspectable
              /\ transcripts[refreshes[r].chat] \in Nat
              /\ entries[new[r].chat] = transcripts[refreshes[r].chat] + IF refreshes[r].chat = a THEN 1 ELSE 0
  BY <1>7, <1>9, <1>5, <1>1, <1>3 DEF RunsInv, RunFits
<1>11. RunsInv(new, entries)
  <2> SUFFICES ASSUME NEW r \in LiveRuns(new) PROVE RunFits(new[r], entries)
    BY DEF RunsInv
  <2> DEFINE old == refreshes[r]
             run == new[r]
             n == transcripts[old.chat]
  <2>1. /\ run.chat = old.chat /\ run.reply = old.reply /\ run.told = old.told /\ run.consumer = old.consumer
        /\ run.count = old.count /\ run.requested = old.requested /\ run.done = old.done
        /\ old.events \in Nat /\ old.count \in Nat /\ old.told \in Nat /\ n \in Nat /\ RunFits(old, transcripts)
    BY <1>5, <1>10
  <2>2. CASE Hears(r)
    <3>1. entries[run.chat] = n + 1
      BY <1>8, <1>10, <2>2
    <3>2. /\ (old.consumer => run.events = old.events + 1 /\ run.untold = old.untold)
          /\ (~old.consumer => run.events = old.events /\ run.untold)
      BY <1>5, <1>10, <2>2
    <3> HIDE DEF run
    <3>3. run.chat \in Spawned /\ ~run.consumer => run.events = 0 /\ run.count <= entries[run.chat]
      <4> HIDE DEF old, n
      <4> QED BY <2>1, <3>1, <3>2 DEF RunFits, n
    <3>4. run.chat \in Spawned /\ run.reply = "seen" /\ ~run.untold => run.count + run.events >= entries[run.chat]
      <4> SUFFICES ASSUME run.chat \in Spawned, run.reply = "seen", ~run.untold
                   PROVE  run.count + run.events >= entries[run.chat]
        OBVIOUS
      <4>1. old.count + old.events >= n /\ run.events = old.events + 1
        BY <2>1, <3>2 DEF RunFits
      <4> HIDE DEF old, n
      <4> QED BY <2>1, <3>1, <4>1
    <3>5. run.chat \in Spawned => run.told <= entries[run.chat]
      <4>1. run.chat \in Spawned => old.told <= n
        BY <2>1 DEF RunFits
      <4> HIDE DEF old, n
      <4> QED BY <2>1, <3>1, <4>1
    <3>6. run.chat \in Inspectable /\ (run.chat \in Spawned \/ run.reply = "seen") /\ (run.done => run.requested)
      <4> HIDE DEF old, n
      <4> QED BY <2>1 DEF RunFits
    <3>7. RunFits(run, entries)
      BY <3>3, <3>4, <3>5, <3>6 DEF RunFits
    <3> QED BY <3>7 DEF run
  <2>3. CASE ~Hears(r)
    BY <1>5, <1>10, <2>3, <1>8, <2>1 DEF RunFits
  <2> QED BY <2>2, <2>3
<1>12. AsksInv(new, queries)
  BY <1>5, <1>7, <1>9 DEF AsksInv
\* Who follows the writer without being sent an event counts no more than there was before.
<1>13. ASSUME NEW r \in LiveRuns(new), Hears(r), new[r].events = 0
       PROVE  \A units \in Nat : ShowsCounted(units, refreshes[r].count, transcripts[a])
                                 => ShowsCounted(units, new[r].count, entries[a])
  <2>1. ~refreshes[r].consumer
    BY <1>5, <1>10, <1>13
  <2>2. new[r].count = refreshes[r].count /\ refreshes[r].count <= transcripts[a] /\ refreshes[r].count \in Nat
    BY <1>5, <1>8, <1>10, <1>13, <2>1 DEF RunFits
  <2>3. transcripts[a] \in Nat /\ entries[a] = transcripts[a] + 1
    BY <1>1, <1>3
  <2> QED BY <2>2, <2>3 DEF ShowsCounted
<1>14. LastInv(new, queries, entries)
  <2> SUFFICES ASSUME NEW i \in 1..Len(queries), queries[i].run \in LiveRuns(new),
                      new[queries[i].run].chat \in Spawned, LastAsked(queries, i)
               PROVE  UpToDate(new[queries[i].run], queries[i], entries)
    BY DEF LastInv
  <2> DEFINE r == queries[i].run
             f == queries[i]
  <2>1. /\ r \in LiveRuns(refreshes) /\ r \in LiveRuns(new) /\ new[r].chat = refreshes[r].chat /\ new[r].chat \in Spawned
        /\ new[r].raf = refreshes[r].raf /\ new[r].missed = refreshes[r].missed /\ new[r].count = refreshes[r].count
        /\ refreshes[r].events \in Nat
    BY <1>5, <1>7
  <2>2. UpToDate(refreshes[r], f, transcripts) /\ f.units \in Nat
    BY <1>1, <1>9, <2>1 DEF LastInv, QueryRecord
  <2> HIDE DEF r, f
  <2>3. ASSUME Hears(r) PROVE UpToDate(new[r], f, entries)
    <3>1. refreshes[r].chat = a
      BY <1>8, <2>1, <2>3
    <3>2. ASSUME new[r].events = 0 PROVE UpToDate(new[r], f, entries)
      <4>1. refreshes[r].events = 0
        <5>1. r \in 1..Len(refreshes) /\ new[r].events \in {refreshes[r].events, refreshes[r].events + 1}
          BY <1>5, <1>10, <2>1, <2>3
        <5> QED BY <2>1, <3>2, <5>1
      <4>2. f.read /\ ShowsCounted(f.units, refreshes[r].count, transcripts[a])
            => ShowsCounted(f.units, new[r].count, entries[a])
        BY <1>13, <2>1, <2>2, <2>3, <3>2
      <4> QED BY <2>1, <2>2, <3>1, <4>1, <4>2 DEF UpToDate
    <3>3. ASSUME new[r].events # 0 PROVE UpToDate(new[r], f, entries)
      BY <1>5, <1>10, <2>1, <3>3 DEF RunRecord, UpToDate
    <3> QED BY <3>2, <3>3
  <2>4. ASSUME ~Hears(r) PROVE UpToDate(new[r], f, entries)
    BY <1>5, <1>8, <1>10, <2>1, <2>4, <2>2 DEF UpToDate
  <2> QED BY <2>3, <2>4 DEF r, f
<1>15. FollowedInv(inspector, new)
  BY <1>5, <1>7, <1>9 DEF FollowedInv
<1>16. Strayed(inspector, new) <=> Strayed(inspector, refreshes)
  BY <1>5, <1>7 DEF Strayed
<1>17. OfSelected(inspector, new)
  BY <1>9, <1>16 DEF OfSelected
<1>18. AllOfIt(inspector, new, queries, entries)
  <2> SUFFICES ASSUME inspector.open, inspector.selected \in Spawned, ~Strayed(inspector, new),
                      inspector.session.state = "shown", \A r \in LiveRuns(new) : Rests(new[r]),
                      \A i \in 1..Len(queries) : queries[i].run \notin LiveRuns(new)
               PROVE  \E r \in LiveRuns(new) :
                          ShowsCounted(inspector.session.units, new[r].count, entries[inspector.selected])
    BY DEF AllOfIt
  <2>1. ASSUME NEW r \in LiveRuns(refreshes) PROVE Rests(refreshes[r])
    BY <1>7, <1>5 DEF Rests
  <2>2. PICK r \in LiveRuns(refreshes) :
            ShowsCounted(inspector.session.units, refreshes[r].count, transcripts[inspector.selected])
    BY <1>7, <1>9, <1>16, <2>1 DEF AllOfIt
  <2>3. /\ r \in LiveRuns(new) /\ refreshes[r].chat = inspector.selected /\ new[r].events = 0
        /\ inspector.session.units \in Nat
    BY <1>7, <1>16 DEF Strayed, Rests, InspectorInv, InspectorTyped, PanelRecord, SessionRecord
  <2>4. CASE Hears(r)
    BY <1>8, <1>13, <2>2, <2>3, <2>4
  <2>5. CASE ~Hears(r)
    BY <1>5, <1>8, <1>10, <2>3, <2>5, <2>2
  <2> QED BY <2>4, <2>5
<1>19. QueriesTyped(new, queries)
  BY <1>1, <1>6 DEF QueriesTyped
<1>20. InspectorTyped'
  BY <1>2, <1>3, <1>19 DEF InspectorInv, InspectorTyped, new, entries
<1> QED BY <1>2, <1>11, <1>12, <1>14, <1>15, <1>17, <1>18, <1>20 DEF InspectorInv, Inspects, new, entries

\* The transcript is read for what was asked first: as far as the run has counted.
LEMMA ReadKeeps ==
    ASSUME InspectorInv, QueryRead
    PROVE  InspectorInv'
<1> DEFINE due == {i \in DOMAIN queries : Wanted(queries[i].run) /\ ~queries[i].read}
           k == Min(due)
           f == queries[k]
           length == transcripts[refreshes[f.run].chat]
           units == IF length < f.limit THEN length ELSE f.limit
           more == queries'
<1>1. /\ queries \in Seq(QueryRecord) /\ DOMAIN queries = 1..Len(queries) /\ Len(queries) \in Nat
      /\ QueriesTyped(refreshes, queries)
      /\ \A i \in 1..Len(queries) : queries[i] \in QueryRecord /\ queries[i].run \in 1..Len(refreshes)
      /\ transcripts \in [Inspectable -> Nat]
      /\ \A r \in 1..Len(refreshes) : refreshes[r] \in RunRecord
  BY DEF InspectorInv, InspectorTyped, QueriesTyped
<1>2. k \in due
  <2>1. due \subseteq Nat /\ due # {}
    <3>1. due # {}
      BY DEF QueryRead
    <3>2. due \subseteq 1..Len(queries)
      BY <1>1
    <3> HIDE DEF due
    <3> QED BY <3>1, <3>2
  <2>2. ASSUME NEW S, S \subseteq Nat, S # {} PROVE Min(S) \in S
    BY <2>2, LeastOf
  <2> QED BY <2>1, <2>2
<1>3. k \in 1..Len(queries) /\ ~f.read /\ f \in QueryRecord /\ f.run \in LiveRuns(refreshes)
  BY <1>1, <1>2 DEF LiveRuns, Wanted
<1>4. /\ more = [queries EXCEPT ![k].read = TRUE, ![k].units = units]
      /\ hierarchy' = hierarchy /\ inspector' = inspector /\ refreshes' = refreshes /\ transcripts' = transcripts
  BY DEF QueryRead
<1>5. RunFits(refreshes[f.run], transcripts) /\ refreshes[f.run].requested
  BY <1>3 DEF InspectorInv, Inspects, RunsInv, AsksInv
<1> DEFINE g == [f EXCEPT !.read = TRUE, !.units = units]
<1>6. units \in Nat
  BY <1>1, <1>3, <1>5 DEF RunFits, QueryRecord
<1>7. more = [queries EXCEPT ![k] = g]
  BY <1>3, <1>4
<1> HIDE DEF k, due
<1>8. g \in QueryRecord /\ g.run = f.run /\ g.read /\ g.units = units
  <2> HIDE DEF units, f
  <2> QED BY <1>3, <1>6 DEF QueryRecord
<1> HIDE DEF more, g
<1>9. /\ more \in Seq(QueryRecord) /\ Len(more) = Len(queries) /\ more[k] = g
      /\ \A i \in 1..Len(queries) : i # k => more[i] = queries[i]
  <2> HIDE DEF units, f
  <2> QED BY <1>1, <1>3, <1>7, <1>8
<1>10. \A i \in 1..Len(queries) : more[i].run = queries[i].run
  BY <1>8, <1>9
<1>11. /\ RunsInv(refreshes, transcripts) /\ AsksInv(refreshes, queries) /\ LastInv(refreshes, queries, transcripts)
       /\ FollowedInv(inspector, refreshes) /\ OfSelected(inspector, refreshes)
       /\ AllOfIt(inspector, refreshes, queries, transcripts)
  BY DEF InspectorInv, Inspects
<1>12. QueriesTyped(refreshes, more)
  BY <1>1, <1>9, <1>10 DEF QueriesTyped
<1>13. AsksInv(refreshes, more)
  BY <1>9, <1>10, <1>11 DEF AsksInv
<1>14. LastInv(refreshes, more, transcripts)
  <2> SUFFICES ASSUME NEW i \in 1..Len(more), more[i].run \in LiveRuns(refreshes),
                      refreshes[more[i].run].chat \in Spawned, LastAsked(more, i)
               PROVE  UpToDate(refreshes[more[i].run], more[i], transcripts)
    BY DEF LastInv
  <2>1. i \in 1..Len(queries) /\ more[i].run = queries[i].run
    BY <1>9, <1>10
  <2>2. LastAsked(queries, i)
    BY <1>9, <1>10, <2>1 DEF LastAsked
  <2>3. UpToDate(refreshes[queries[i].run], queries[i], transcripts)
    BY <1>11, <2>1, <2>2 DEF LastInv
  <2>4. CASE i # k
    BY <1>9, <2>1, <2>3, <2>4
  <2>5. CASE i = k
    <3> DEFINE run == refreshes[f.run]
    <3>1. more[i] = g /\ queries[i] = f
      BY <1>9, <2>1, <2>5
    <3>2. run.count \in Nat /\ length \in Nat /\ f.limit \in Nat
      BY <1>1, <1>3, <1>5 DEF LiveRuns, RunFits, RunRecord, QueryRecord
    <3>3. UpToDate(run, f, transcripts)
      BY <2>3, <2>5
    <3>4. run.raf \/ run.events > 0 \/ run.missed \/ f.limit >= run.count
      <4> HIDE DEF f, run
      <4> QED BY <1>3, <3>3 DEF UpToDate
    <3> HIDE DEF run, f, length
    <3>5. f.limit >= run.count => ShowsCounted(units, run.count, length)
      BY <3>2 DEF ShowsCounted
    <3> HIDE DEF units
    <3>6. UpToDate(run, g, transcripts)
      BY <1>8, <3>4, <3>5 DEF UpToDate, length, run
    <3> QED BY <1>8, <3>1, <3>6 DEF run
  <2> QED BY <2>4, <2>5
<1>15. AllOfIt(inspector, refreshes, more, transcripts)
  BY <1>3, <1>8, <1>9 DEF AllOfIt
<1> QED BY <1>4, <1>11, <1>12, <1>13, <1>14, <1>15 DEF InspectorInv, InspectorTyped, Inspects, more

\* What is left when the first query is answered.
LEMMA RestGives ==
    ASSUME QueriesTyped(refreshes, queries), queries # <<>>, NEW rest, rest = Tail(queries)
    PROVE  /\ QueriesTyped(refreshes, rest)
           /\ Head(queries) = queries[1] /\ 1 \in 1..Len(queries)
           /\ \A i \in 1..Len(rest) : i + 1 \in 1..Len(queries) /\ i + 1 # 1 /\ rest[i] = queries[i + 1]
           /\ \A j \in 1..Len(queries) : j # 1 => j - 1 \in 1..Len(rest) /\ rest[j - 1] = queries[j]
           /\ \A i \in 1..Len(rest) : LastAsked(rest, i) => LastAsked(queries, i + 1)
<1>1. queries \in Seq(QueryRecord) /\ Len(queries) \in Nat /\ Len(queries) # 0
  BY DEF QueriesTyped
<1>2. /\ rest \in Seq(QueryRecord) /\ Len(rest) = Len(queries) - 1
      /\ \A i \in 1..Len(rest) : rest[i] = queries[i + 1]
      /\ Head(queries) = queries[1]
  BY <1>1
<1>3. /\ 1 \in 1..Len(queries)
      /\ \A i \in 1..Len(rest) : i + 1 \in 1..Len(queries) /\ i + 1 # 1
      /\ \A j \in 1..Len(queries) : j # 1 => j - 1 \in 1..Len(rest) /\ j - 1 + 1 = j
  BY <1>1, <1>2
<1>4. \A j \in 1..Len(queries) : j # 1 => rest[j - 1] = queries[j]
  BY <1>2, <1>3
<1>5. ASSUME NEW i \in 1..Len(rest), LastAsked(rest, i) PROVE LastAsked(queries, i + 1)
  BY <1>3, <1>2, <1>4, <1>5 DEF LastAsked
<1>6. QueriesTyped(refreshes, rest)
  BY <1>2, <1>3 DEF QueriesTyped
<1> QED BY <1>2, <1>3, <1>4, <1>5, <1>6

\* An answer to a stopped run is not looked at.
LEMMA LateKeeps ==
    ASSUME InspectorInv, LateAnswer
    PROVE  InspectorInv'
<1> DEFINE rest == Tail(queries)
<1>1. /\ QueriesTyped(refreshes, queries) /\ queries # <<>> /\ Head(queries).run \notin LiveRuns(refreshes)
      /\ RunsInv(refreshes, transcripts) /\ AsksInv(refreshes, queries) /\ LastInv(refreshes, queries, transcripts)
      /\ FollowedInv(inspector, refreshes) /\ OfSelected(inspector, refreshes)
      /\ AllOfIt(inspector, refreshes, queries, transcripts)
  BY DEF InspectorInv, InspectorTyped, Inspects, LateAnswer, LiveRuns, Wanted
<1>2. /\ QueriesTyped(refreshes, rest) /\ Head(queries) = queries[1]
      /\ \A i \in 1..Len(rest) : i + 1 \in 1..Len(queries) /\ rest[i] = queries[i + 1]
      /\ \A j \in 1..Len(queries) : j # 1 => j - 1 \in 1..Len(rest) /\ rest[j - 1] = queries[j]
      /\ \A i \in 1..Len(rest) : LastAsked(rest, i) => LastAsked(queries, i + 1)
  BY <1>1, RestGives
<1>3. /\ queries' = rest /\ hierarchy' = hierarchy /\ inspector' = inspector /\ refreshes' = refreshes
      /\ transcripts' = transcripts
  BY DEF LateAnswer
<1>4. Len(rest) \in Nat
  BY <1>2 DEF QueriesTyped
<1> HIDE DEF rest
<1>5. AsksInv(refreshes, rest)
  <2>1. ASSUME NEW r \in LiveRuns(refreshes), ~refreshes[r].requested, NEW i \in 1..Len(rest) PROVE rest[i].run # r
    BY <1>1, <1>2, <2>1 DEF AsksInv
  <2>2. ASSUME NEW r \in LiveRuns(refreshes), ~refreshes[r].done, NEW i \in 1..Len(rest), NEW j \in 1..Len(rest),
               rest[i].run = r, rest[j].run = r
        PROVE  i = j
    <3>1. i + 1 = j + 1
      BY <1>1, <1>2, <2>2 DEF AsksInv
    <3> QED BY <1>4, <3>1
  <2> QED BY <2>1, <2>2 DEF AsksInv
<1>6. LastInv(refreshes, rest, transcripts)
  BY <1>1, <1>2 DEF LastInv
<1>7. AllOfIt(inspector, refreshes, rest, transcripts)
  BY <1>1, <1>2 DEF AllOfIt
<1> QED BY <1>1, <1>2, <1>3, <1>5, <1>6, <1>7 DEF InspectorInv, InspectorTyped, Inspects

\* The run whose query was answered.
Answered(ok, run) ==
    IF ok THEN [run EXCEPT !.done = TRUE]
    ELSE [run EXCEPT !.requested = run.done, !.missed = TRUE]

\* It is as far as it was.
LEMMA AnsweredGives ==
    ASSUME NEW ok \in BOOLEAN, NEW old \in RunRecord, NEW run, run = Answered(ok, old)
    PROVE  /\ run \in RunRecord /\ run.chat = old.chat /\ run.cancelled = old.cancelled /\ run.reply = old.reply
           /\ run.told = old.told /\ run.consumer = old.consumer /\ run.untold = old.untold
           /\ run.events = old.events /\ run.count = old.count /\ run.raf = old.raf
           /\ (ok => run.done /\ run.requested = old.requested /\ run.missed = old.missed)
           /\ (~ok => run.done = old.done /\ run.requested = old.done /\ run.missed)
BY DEF Answered, RunRecord

\* What a panel shows after an answer, and without one.
ShownFor(session, run, f) ==
    [session EXCEPT !.of = run.chat, !.units = f.units, !.state = IF run.done THEN session.state ELSE "shown"]
Failed(session, run) ==
    [session EXCEPT !.state = "error", !.units = IF run.done THEN session.units ELSE 0]

\* An answer is shown, or that there was none; what is on its way may show more.
LEMMA AnswerKeeps ==
    ASSUME InspectorInv, NEW ok \in BOOLEAN, QueryAnswered(ok)
    PROVE  InspectorInv'
<1> DEFINE f == Head(queries)
           r == f.run
           old == refreshes[r]
           run == Answered(ok, old)
           rest == Tail(queries)
           new == refreshes'
           panel == inspector'
<1>1. /\ QueriesTyped(refreshes, queries) /\ queries # <<>> /\ Wanted(r) /\ (ok => f.read)
      /\ RunsInv(refreshes, transcripts) /\ AsksInv(refreshes, queries) /\ LastInv(refreshes, queries, transcripts)
      /\ FollowedInv(inspector, refreshes) /\ OfSelected(inspector, refreshes)
      /\ inspector \in PanelRecord /\ Len(queries) \in Nat
  BY DEF InspectorInv, InspectorTyped, Inspects, QueryAnswered, QueriesTyped
<1>2. /\ queries' = rest /\ hierarchy' = hierarchy /\ transcripts' = transcripts /\ Changed(r, run)
      /\ panel = IF ok
                 THEN [inspector EXCEPT !.session = ShownFor(inspector.session, old, f)]
                 ELSE [inspector EXCEPT !.session = Failed(inspector.session, old)]
  BY DEF QueryAnswered, Answered, ShownFor, Failed
<1> HIDE DEF rest, run, new, panel
<1>3. /\ QueriesTyped(refreshes, rest) /\ f = queries[1] /\ 1 \in 1..Len(queries)
      /\ \A i \in 1..Len(rest) : i + 1 \in 1..Len(queries) /\ i + 1 # 1 /\ rest[i] = queries[i + 1]
      /\ \A j \in 1..Len(queries) : j # 1 => j - 1 \in 1..Len(rest) /\ rest[j - 1] = queries[j]
      /\ \A i \in 1..Len(rest) : LastAsked(rest, i) => LastAsked(queries, i + 1)
  BY <1>1, RestGives DEF rest
<1>4. /\ r \in LiveRuns(refreshes) /\ old \in RunRecord /\ ~old.cancelled /\ RunFits(old, transcripts)
      /\ f \in QueryRecord
  BY <1>1, <1>3, LiveRun DEF QueriesTyped
<1>5. old.requested
  BY <1>1, <1>3, <1>4 DEF AsksInv
<1>6. /\ run \in RunRecord /\ run.chat = old.chat /\ run.cancelled = old.cancelled /\ run.reply = old.reply
      /\ run.told = old.told /\ run.consumer = old.consumer /\ run.untold = old.untold
      /\ run.events = old.events /\ run.count = old.count /\ run.raf = old.raf
      /\ (ok => run.done /\ run.requested = old.requested /\ run.missed = old.missed)
      /\ (~ok => run.done = old.done /\ run.requested = old.done /\ run.missed)
  BY <1>4, AnsweredGives DEF run
<1>7. RunChanges(r, run)
  BY <1>2, <1>4, <1>6 DEF RunChanges
<1>8. /\ new \in Seq(RunRecord) /\ Len(new) = Len(refreshes) /\ new[r] = run /\ LiveRuns(new) = LiveRuns(refreshes)
      /\ \A s \in 1..Len(refreshes) : s # r => new[s] = refreshes[s]
      /\ \A s \in LiveRuns(refreshes) : new[s].chat = refreshes[s].chat
  BY <1>7, ChangedGives DEF new
<1>9. \A s \in LiveRuns(refreshes) : s \in 1..Len(refreshes)
  BY DEF LiveRuns
<1>10. \A i \in 1..Len(queries) : queries[i].run = r /\ ~old.done => i = 1
  BY <1>1, <1>3, <1>4 DEF AsksInv
<1> HIDE DEF f, old, r
<1>11. QueriesTyped(new, rest)
  BY <1>3, <1>8 DEF QueriesTyped
<1>12. RunsInv(new, transcripts)
  <2>1. RunFits(run, transcripts)
    BY <1>4, <1>5, <1>6 DEF RunFits
  <2> QED BY <1>1, <1>8, <1>9, <2>1 DEF RunsInv
<1>13. AsksInv(new, rest)
  <2> ~old.done => \A i \in 1..Len(rest) : rest[i].run # r
    BY <1>3, <1>10
  <2>1. ASSUME NEW s \in LiveRuns(new), ~new[s].requested, NEW i \in 1..Len(rest) PROVE rest[i].run # s
    <3>1. CASE s = r
      BY <1>5, <1>6, <1>8, <2>1, <3>1
    <3>2. CASE s # r
      BY <1>1, <1>3, <1>8, <1>9, <2>1, <3>2 DEF AsksInv
    <3> QED BY <3>1, <3>2
  <2>2. ASSUME NEW s \in LiveRuns(new), ~new[s].done, NEW i \in 1..Len(rest), NEW j \in 1..Len(rest),
               rest[i].run = s, rest[j].run = s
        PROVE  i = j
    <3>1. CASE s = r
      BY <1>6, <1>8, <2>2, <3>1
    <3>2. CASE s # r
      <4>1. s \in LiveRuns(refreshes) /\ ~refreshes[s].done
        BY <1>8, <1>9, <2>2, <3>2
      <4>2. i + 1 = j + 1
        BY <1>1, <1>3, <2>2, <4>1 DEF AsksInv
      <4> QED BY <4>2
    <3> QED BY <3>1, <3>2
  <2> QED BY <2>1, <2>2 DEF AsksInv
<1>14. LastInv(new, rest, transcripts)
  <2> SUFFICES ASSUME NEW i \in 1..Len(rest), rest[i].run \in LiveRuns(new),
                      new[rest[i].run].chat \in Spawned, LastAsked(rest, i)
               PROVE  UpToDate(new[rest[i].run], rest[i], transcripts)
    BY DEF LastInv
  <2>1. /\ i + 1 \in 1..Len(queries) /\ i + 1 # 1 /\ rest[i] = queries[i + 1] /\ rest[i].run \in LiveRuns(refreshes)
        /\ refreshes[rest[i].run].chat \in Spawned
    BY <1>3, <1>8
  <2>2. UpToDate(refreshes[rest[i].run], rest[i], transcripts)
    BY <1>1, <1>3, <2>1 DEF LastInv
  <2>3. CASE rest[i].run # r
    BY <1>8, <1>9, <2>1, <2>2, <2>3
  <2>4. CASE rest[i].run = r
    BY <1>10, <2>1, <2>4, <2>2, <1>6, <1>8 DEF old, UpToDate
  <2> QED BY <2>3, <2>4
<1>15. /\ panel \in PanelRecord /\ panel.open = inspector.open /\ panel.selected = inspector.selected
       /\ panel.session.title = inspector.session.title
       /\ (ok => panel.session.of = old.chat /\ panel.session.units = f.units)
       /\ (~ok => panel.session.of = inspector.session.of /\ panel.session.state = "error")
  <2> DEFINE session == inspector.session
  <2>1. session \in SessionRecord
    BY <1>1 DEF PanelRecord
  <2>2. old.chat \in Inspectable \cup {NoAgent} /\ f.units \in Nat
    BY <1>4 DEF RunRecord, QueryRecord
  <2>3. CASE ok
    <3> DEFINE word == IF old.done THEN session.state ELSE "shown"
               shows == [session EXCEPT !.of = old.chat, !.units = f.units, !.state = word]
    <3>1. panel = [inspector EXCEPT !.session = shows]
      BY <1>2, <2>3 DEF ShownFor
    <3>2. word \in {"empty", "loading", "shown", "error"}
      BY <2>1 DEF SessionRecord
    <3> HIDE DEF word, session
    <3>3. /\ shows \in SessionRecord /\ shows.title = session.title /\ shows.of = old.chat /\ shows.units = f.units
      BY <2>1, <2>2, <3>2 DEF SessionRecord
    <3> HIDE DEF shows
    <3>4. /\ panel \in PanelRecord /\ panel.open = inspector.open /\ panel.selected = inspector.selected
          /\ panel.session = shows
      BY <1>1, <3>1, <3>3 DEF PanelRecord
    <3> QED BY <2>3, <3>3, <3>4 DEF session
  <2>4. CASE ~ok
    <3> DEFINE units == IF old.done THEN session.units ELSE 0
               shows == [session EXCEPT !.state = "error", !.units = units]
    <3>1. panel = [inspector EXCEPT !.session = shows]
      BY <1>2, <2>4 DEF Failed
    <3>2. units \in Nat
      BY <2>1 DEF SessionRecord
    <3> HIDE DEF units, session
    <3>3. /\ shows \in SessionRecord /\ shows.title = session.title /\ shows.of = session.of /\ shows.state = "error"
      BY <2>1, <3>2 DEF SessionRecord
    <3> HIDE DEF shows
    <3>4. /\ panel \in PanelRecord /\ panel.open = inspector.open /\ panel.selected = inspector.selected
          /\ panel.session = shows
      BY <1>1, <3>1, <3>3 DEF PanelRecord
    <3> QED BY <2>4, <3>3, <3>4 DEF session
  <2> QED BY <2>3, <2>4
<1>16. FollowedInv(panel, new)
  BY <1>1, <1>8, <1>15 DEF FollowedInv
<1>17. ~Strayed(panel, new) => ~Strayed(inspector, refreshes) /\ old.chat = panel.selected
  BY <1>4, <1>6, <1>8, <1>15 DEF Strayed
<1>18. OfSelected(panel, new)
  BY <1>1, <1>15, <1>17 DEF OfSelected
<1>19. AllOfIt(panel, new, rest, transcripts)
  <2> SUFFICES ASSUME panel.open, panel.selected \in Spawned, ~Strayed(panel, new), panel.session.state = "shown",
                      Rests(run), \A i \in 1..Len(rest) : rest[i].run \notin LiveRuns(new)
               PROVE  ShowsCounted(panel.session.units, run.count, transcripts[panel.selected])
    BY <1>4, <1>8 DEF AllOfIt
  <2>1. ok /\ panel.session.units = f.units /\ old.chat = panel.selected /\ old.chat \in Spawned
    BY <1>15, <1>17
  <2>2. LastAsked(queries, 1)
    <3> SUFFICES ASSUME NEW j \in 1..Len(queries), j > 1 PROVE queries[j].run # queries[1].run
      BY DEF LastAsked
    <3>1. j - 1 \in 1..Len(rest) /\ rest[j - 1] = queries[j]
      BY <1>3
    <3>2. queries[j].run \notin LiveRuns(new)
      BY <3>1
    <3> QED BY <1>3, <1>4, <1>8, <3>2 DEF r
  <2>3. UpToDate(old, f, transcripts)
    BY <1>1, <1>3, <1>4, <2>1, <2>2 DEF LastInv, r, old
  <2>4. ~old.raf /\ old.events = 0 /\ ~old.missed /\ f.read
    BY <1>1, <1>6, <2>1 DEF f, Rests
  <2> QED BY <1>6, <2>1, <2>3, <2>4 DEF UpToDate
<1> QED BY <1>2, <1>11, <1>12, <1>13, <1>14, <1>15, <1>16, <1>18, <1>19
        DEF InspectorInv, InspectorTyped, Inspects, new, panel

\* A reply and a broadcast tell of entries there are.
LEMMA SnapshotTells ==
    ASSUME InspectorInv, NEW r \in DOMAIN refreshes, RunSnapshot(r) \/ \E n \in 0..MaxNews : RunBroadcast(r, n)
    PROVE  /\ Wanted(r) /\ refreshes[r].chat \in Spawned
           /\ \E n \in Nat, reply \in Replies : n <= transcripts[refreshes[r].chat] /\ SnapshotSeen(r, n, reply)
BY LiveRun, InspectorConstants DEF RunSnapshot, RunBroadcast, RunRecord, Replies, RunFits

\* Every step keeps the invariant.
LEMMA InspectorSteps == InspectorInv /\ [InspectorStep]_inspectorVars => InspectorInv'
<1> SUFFICES ASSUME InspectorInv, [InspectorStep]_inspectorVars PROVE InspectorInv'
  OBVIOUS
<1>1. CASE Toggled
  BY <1>1, ToggledKeeps
<1>2. CASE Refreshed
  BY <1>2, RefreshedKeeps
<1>3. CASE QueryRead
  BY <1>3, ReadKeeps
<1>4. CASE LateAnswer
  BY <1>4, LateKeeps
<1>5. ASSUME NEW a \in Inspectable, Selected(a) \/ Pushed(a) \/ AgentWrites(a) PROVE InspectorInv'
  BY <1>5, SelectedKeeps, PushedKeeps, WritesKeep
<1>6. ASSUME NEW r \in DOMAIN refreshes, HubReads(r) \/ ConsumerStarts(r) \/ RunEvent(r) \/ RunFrame(r)
      PROVE  InspectorInv'
  BY <1>6, SubscribingKeeps, EventKeeps, FrameKeeps
<1>7. ASSUME NEW r \in DOMAIN refreshes, RunSnapshot(r) \/ \E n \in 0..MaxNews : RunBroadcast(r, n) PROVE InspectorInv'
  BY <1>7, SnapshotTells, SnapshotKeeps
<1>8. ASSUME NEW ok \in BOOLEAN, QueryAnswered(ok) PROVE InspectorInv'
  BY <1>8, AnswerKeeps
<1>9. CASE UNCHANGED inspectorVars
  BY <1>9 DEF inspectorVars, InspectorInv, InspectorTyped
<1> QED BY <1>1, <1>2, <1>3, <1>4, <1>5, <1>6, <1>7, <1>8, <1>9 DEF InspectorStep

\* The inspector shows the agent that is selected and, once nothing is on its way, all that
\* it has written, whatever of reply, consumer, broadcasts and entries comes first and but
\* for what the property lets off (SubagentIndicator.tsx, nats-socket.ts).
THEOREM InspectorIsTrue == InspectorSpec => []InspectorTells
<1> QED BY InspectorStarts, InspectorSteps, InspectorGives, PTL DEF InspectorSpec

\* No run is yet to be told of more than the agents wrote.
EventsFit == news \in 0..MaxNews /\ \A r \in 1..Len(refreshes) : refreshes[r].events <= news

\* There is no less news, which is all that is needed of it.
NewsGrows == news' \in 0..MaxNews /\ news <= news'

\* So it is when there is none, or some.
LEMMA NewsKept ==
    ASSUME EventsFit, news' = news \/ NewsComes
    PROVE  NewsGrows
BY InspectorConstants DEF EventsFit, NewsComes, NewsGrows

\* What a run is yet to be told is a number.
LEMMA EventsNatural ==
    ASSUME InspectorInv
    PROVE  /\ refreshes \in Seq(RunRecord) /\ DOMAIN refreshes = 1..Len(refreshes) /\ Len(refreshes) \in Nat
           /\ \A r \in 1..Len(refreshes) : refreshes[r] \in RunRecord /\ refreshes[r].events \in Nat
<1>1. refreshes \in Seq(RunRecord)
  BY DEF InspectorInv, InspectorTyped, QueriesTyped
<1>2. \A r \in 1..Len(refreshes) : refreshes[r] \in RunRecord
  BY <1>1
<1> QED BY <1>1, <1>2 DEF RunRecord

\* What was no more than the news is no more than it is now.
LEMMA EventsNoMore ==
    ASSUME EventsFit, NewsGrows, NEW runs, \A r \in 1..Len(runs) : runs[r].events \in Nat /\ runs[r].events <= news
    PROVE  \A r \in 1..Len(runs) : runs[r].events <= news'
<1> SUFFICES ASSUME NEW r \in 1..Len(runs) PROVE runs[r].events <= news'
  OBVIOUS
<1> DEFINE x == runs[r].events
<1>1. x \in Nat /\ x <= news /\ news \in Nat /\ news' \in Nat /\ news <= news'
  BY DEF EventsFit, NewsGrows
<1> HIDE DEF x
<1>2. x <= news'
  BY <1>1
<1> QED BY <1>2 DEF x

\* A run that is changed has no more to be told than before.
LEMMA EventsOfOne ==
    ASSUME InspectorInv, EventsFit, NEW r \in DOMAIN refreshes, NEW run, Changed(r, run),
           run.events <= refreshes[r].events, run.events \in Nat, NewsGrows
    PROVE  EventsFit'
<1> DEFINE old == refreshes[r].events
           e == run.events
<1>1. /\ refreshes \in Seq(RunRecord) /\ r \in 1..Len(refreshes)
      /\ \A s \in 1..Len(refreshes) : refreshes[s].events \in Nat
  BY EventsNatural
<1>2. refreshes' = [refreshes EXCEPT ![r] = run]
  BY DEF Changed
<1>3. /\ Len(refreshes') = Len(refreshes)
      /\ \A s \in 1..Len(refreshes) : refreshes'[s] = IF s = r THEN run ELSE refreshes[s]
  BY <1>1, <1>2
<1>4. old \in Nat /\ e \in Nat /\ e <= old /\ old <= news /\ news \in Nat /\ news' \in Nat /\ news <= news'
  BY <1>1 DEF EventsFit, NewsGrows
<1> HIDE DEF old, e
<1>5. e <= news'
  BY <1>4
<1>6. \A s \in 1..Len(refreshes) : refreshes[s].events <= news'
  BY <1>1, EventsNoMore DEF EventsFit
<1>7. \A s \in 1..Len(refreshes') : refreshes'[s].events <= news'
  BY <1>3, <1>5, <1>6 DEF e
<1> QED BY <1>7 DEF EventsFit, NewsGrows

\* Nor have those that are stopped and the one that is started.
LEMMA EventsOfStopped ==
    ASSUME InspectorInv, EventsFit
    PROVE  /\ StoppedRuns \in Seq(RunRecord)
           /\ \A r \in 1..Len(StoppedRuns) : StoppedRuns[r].events \in Nat /\ StoppedRuns[r].events <= news
<1>1. StoppedRuns \in Seq(RunRecord) /\ \A r \in 1..Len(StoppedRuns) : StoppedRuns[r].events <= news
  BY StoppedGives DEF InspectorInv, InspectorTyped, QueriesTyped, StoppedRuns, Run, EventsFit
<1>2. \A r \in 1..Len(StoppedRuns) : StoppedRuns[r] \in RunRecord
  BY <1>1
<1> QED BY <1>1, <1>2 DEF RunRecord

\* A run that starts has been told of nothing.
LEMMA EventsOfStarted ==
    ASSUME NEW runs \in Seq(RunRecord), \A r \in 1..Len(runs) : runs[r].events <= news, EventsFit,
           NEW a \in Inspectable, NEW by \in {"effect", "button"}, NEW sought, StartRun(runs, sought, a, by), NewsGrows,
           \A r \in 1..Len(runs) : runs[r].events \in Nat
    PROVE  EventsFit'
<1> DEFINE run == Run(a, by)
<1>1. run \in RunRecord /\ run.events = 0
  BY DEF Replies, Run, RunRecord
<1>2. refreshes' = Append(runs, run)
  BY DEF StartRun
<1> HIDE DEF run
<1>3. /\ Len(refreshes') = Len(runs) + 1
      /\ \A r \in 1..Len(runs) + 1 : refreshes'[r] = IF r = Len(runs) + 1 THEN run ELSE runs[r]
  BY <1>1, <1>2
<1>4. news \in Nat /\ news' \in Nat /\ news <= news'
  BY DEF EventsFit, NewsGrows
<1>5. \A r \in 1..Len(runs) : runs[r].events <= news'
  BY EventsNoMore
<1> QED BY <1>1, <1>3, <1>4, <1>5 DEF EventsFit, NewsGrows

\* A snapshot is not an event.
LEMMA EventsTold ==
    ASSUME InspectorInv, NEW r \in DOMAIN refreshes, NEW n, NEW reply, SnapshotSeen(r, n, reply)
    PROVE  \E run : Changed(r, run) /\ run.events = refreshes[r].events
<1> DEFINE old == refreshes[r]
           counted == [old EXCEPT !.reply = reply, !.told = IF reply = "seen" THEN 0 ELSE old.told, !.count = n,
                                  !.missed = old.missed \/ n > old.count, !.untold = n + old.events < transcripts[old.chat]]
           run == [counted EXCEPT !.requested = TRUE, !.missed = FALSE]
<1>1. old \in RunRecord
  BY EventsNatural
<1>2. Changed(r, counted) \/ Changed(r, run)
  BY DEF SnapshotSeen, FetchAll
<1>3. counted.events = old.events /\ run.events = old.events
  BY <1>1 DEF RunRecord
<1> HIDE DEF old, counted, run
<1> QED BY <1>2, <1>3 DEF old

\* So it is after a render,
LEMMA EventsRendered ==
    ASSUME InspectorInv, EventsFit, NEW open \in BOOLEAN, NEW order \in Seq(Inspectable), NEW status, NEW wanted,
           Rendered(open, order, status, wanted), NewsGrows
    PROVE  EventsFit'
<1> DEFINE chosen == Preferred(order, status, wanted)
<1>1. chosen \in Inspectable \cup {NoAgent}
  BY PreferredGives
<1>2. \/ refreshes' = refreshes \/ refreshes' = StoppedRuns
      \/ chosen # NoAgent /\ StartRun(StoppedRuns, StoppedQueries, chosen, "effect")
  BY DEF Rendered
<1> HIDE DEF chosen
<1>3. CASE refreshes' = refreshes
  BY <1>3, EventsNatural, EventsNoMore DEF EventsFit, NewsGrows
<1>4. CASE refreshes' = StoppedRuns
  BY <1>4, EventsOfStopped, EventsNoMore DEF NewsGrows, EventsFit
<1>5. CASE chosen # NoAgent /\ StartRun(StoppedRuns, StoppedQueries, chosen, "effect")
  BY <1>1, <1>5, EventsOfStopped, EventsOfStarted
<1> QED BY <1>2, <1>3, <1>4, <1>5

\* after what comes for a run,
LEMMA EventsOfRuns ==
    ASSUME InspectorInv, EventsFit, NEW r \in DOMAIN refreshes,
           HubReads(r) \/ ConsumerStarts(r) \/ RunSnapshot(r) \/ RunEvent(r) \/ RunFrame(r)
    PROVE  EventsFit'
<1> DEFINE old == refreshes[r]
<1>1. old \in RunRecord /\ old.events \in Nat
  BY EventsNatural
<1>2. news' = news
  BY DEF HubReads, ConsumerStarts, RunSnapshot, RunEvent, RunFrame
<1>3. \E run : Changed(r, run) /\ run.events \in Nat /\ run.events <= old.events
  <2>1. CASE HubReads(r) \/ ConsumerStarts(r)
    <3> DEFINE read == [old EXCEPT !.reply = "read", !.told = transcripts[old.chat]]
               started == [old EXCEPT !.consumer = TRUE]
    <3>1. Changed(r, read) \/ Changed(r, started)
      BY <2>1 DEF HubReads, ConsumerStarts
    <3>2. read.events = old.events /\ started.events = old.events
      BY <1>1 DEF RunRecord
    <3> HIDE DEF old, read, started
    <3> QED BY <1>1, <3>1, <3>2
  <2>2. CASE RunSnapshot(r)
    BY <1>1, <2>2, EventsTold DEF RunSnapshot
  <2>3. CASE RunEvent(r)
    <3> DEFINE run == [old EXCEPT !.events = old.events - 1, !.count = old.count + 1]
               next == [run EXCEPT !.requested = TRUE, !.missed = FALSE]
               later == [run EXCEPT !.raf = TRUE]
    <3>1. Changed(r, run) \/ Changed(r, next) \/ Changed(r, later)
      BY <2>3 DEF RunEvent, FetchAll
    <3>2. run.events = old.events - 1 /\ next.events = old.events - 1 /\ later.events = old.events - 1
      BY <1>1 DEF RunRecord
    <3>3. old.events > 0
      BY <2>3 DEF RunEvent
    <3>4. old.events - 1 \in Nat /\ old.events - 1 <= old.events
      BY <1>1, <3>3
    <3> HIDE DEF old, run, next, later
    <3> QED BY <3>1, <3>2, <3>4
  <2>4. CASE RunFrame(r)
    <3> DEFINE run == [old EXCEPT !.raf = FALSE, !.missed = ~old.done]
    <3>1. Changed(r, run)
      BY <2>4 DEF RunFrame
    <3>2. run.events = old.events
      BY <1>1 DEF RunRecord
    <3> HIDE DEF old, run
    <3> QED BY <1>1, <3>1, <3>2
  <2> QED BY <2>1, <2>2, <2>3, <2>4
<1> QED BY <1>2, <1>3, EventsOfOne, NewsKept

\* after a broadcast,
LEMMA EventsBroadcast ==
    ASSUME InspectorInv, EventsFit, NEW r \in DOMAIN refreshes, NEW n, RunBroadcast(r, n)
    PROVE  EventsFit'
BY NewsKept, EventsTold, EventsNatural, EventsOfOne DEF RunBroadcast

\* after an answer,
LEMMA EventsAnswered ==
    ASSUME InspectorInv, EventsFit, NEW ok \in BOOLEAN, QueryAnswered(ok)
    PROVE  EventsFit'
<1> DEFINE r == Head(queries).run
           old == refreshes[r]
           run == Answered(ok, old)
<1>1. r \in DOMAIN refreshes
  BY DEF QueryAnswered, InspectorInv, InspectorTyped, QueriesTyped
<1>2. old \in RunRecord /\ old.events \in Nat
  BY <1>1, EventsNatural
<1>3. Changed(r, run) /\ news' = news
  BY DEF QueryAnswered, Answered
<1>4. run.events = old.events
  BY <1>2 DEF Answered, RunRecord
<1> HIDE DEF run
<1> QED BY <1>1, <1>2, <1>3, <1>4, EventsOfOne, NewsKept

\* and after an agent wrote.
LEMMA EventsWritten ==
    ASSUME InspectorInv, EventsFit, NEW a \in Inspectable, AgentWrites(a)
    PROVE  EventsFit'
<1>1. refreshes \in Seq(RunRecord) /\ Len(refreshes) \in Nat /\ DOMAIN refreshes = 1..Len(refreshes)
  BY EventsNatural
<1>2. /\ DOMAIN refreshes' = DOMAIN refreshes
      /\ \A r \in 1..Len(refreshes) : refreshes'[r] = Heard(refreshes[r]) \/ refreshes'[r] = refreshes[r]
  BY <1>1 DEF AgentWrites, Heard
<1>3. news \in Nat /\ news' = news + 1 /\ news' \in 0..MaxNews
  BY InspectorConstants DEF EventsFit, AgentWrites, NewsComes
<1>4. Len(refreshes') = Len(refreshes)
  BY <1>1 DEF AgentWrites
<1>5. ASSUME NEW r \in 1..Len(refreshes) PROVE refreshes'[r].events <= news'
  <2> DEFINE e == refreshes[r].events
             f == refreshes'[r].events
  <2>1. refreshes[r] \in RunRecord /\ e \in Nat /\ e <= news
    BY EventsNatural DEF EventsFit
  <2>2. f = e \/ f = e + 1
    BY <1>2, <2>1, HeardGives
  <2> HIDE DEF e, f
  <2>3. f <= news'
    BY <1>3, <2>1, <2>2
  <2> QED BY <2>3 DEF f
<1> QED BY <1>3, <1>4, <1>5 DEF EventsFit

\* Every step keeps to it.
LEMMA EventsStay == InspectorInv /\ EventsFit /\ [InspectorStep]_inspectorVars => EventsFit'
<1> SUFFICES ASSUME InspectorInv, EventsFit, [InspectorStep]_inspectorVars PROVE EventsFit'
  OBVIOUS
<1>1. hierarchy \in TreeRecord /\ Listed(hierarchy) \in Seq(Inspectable)
  BY ListedGives DEF InspectorInv, InspectorTyped
<1>2. CASE Toggled
  BY <1>1, <1>2, EventsRendered, NewsKept DEF Toggled
<1>3. ASSUME NEW a \in Inspectable, Selected(a) PROVE EventsFit'
  BY <1>1, <1>3, EventsRendered, NewsKept DEF Selected
<1>4. ASSUME NEW a \in Inspectable, Pushed(a) PROVE EventsFit'
  BY <1>4, PushedKeeps, ListedGives, EventsRendered, NewsKept DEF InspectorInv, InspectorTyped, PanelRecord, Pushed
<1>5. CASE Refreshed
  BY <1>5, EventsOfStarted, EventsNatural, NewsKept DEF Refreshed, InspectorInv, InspectorTyped, PanelRecord, EventsFit
<1>6. CASE QueryRead \/ LateAnswer \/ UNCHANGED inspectorVars
  BY <1>6 DEF QueryRead, LateAnswer, inspectorVars, EventsFit
<1>7. ASSUME NEW a \in Inspectable, AgentWrites(a) PROVE EventsFit'
  BY <1>7, EventsWritten
<1>8. ASSUME NEW r \in DOMAIN refreshes,
             \/ HubReads(r) \/ ConsumerStarts(r) \/ RunSnapshot(r) \/ RunEvent(r) \/ RunFrame(r)
             \/ \E n \in 0..MaxNews : RunBroadcast(r, n)
      PROVE  EventsFit'
  BY <1>8, EventsOfRuns, EventsBroadcast
<1>9. ASSUME NEW ok \in BOOLEAN, QueryAnswered(ok) PROVE EventsFit'
  BY <1>9, EventsAnswered
<1> QED BY <1>2, <1>3, <1>4, <1>5, <1>6, <1>7, <1>8, <1>9 DEF InspectorStep

\* The tree, what is shown and the runs have their types.
LEMMA InspectorTypesHold == InspectorSpec => []InspectorTypeOK
<1>1. InspectorInit => EventsFit
  BY InspectorConstants DEF InspectorInit, EventsFit
<1>2. ASSUME InspectorInv, EventsFit PROVE InspectorTypeOK
  <2>1. hierarchy.own \in Seq(Spawned) /\ hierarchy.codex \in Seq(Foreign) /\ hierarchy.status \in [Inspectable -> ChildStatuses]
    BY <1>2 DEF InspectorInv, InspectorTyped, TreeRecord
  <2>2. /\ inspector.open \in BOOLEAN /\ inspector.selected \in Inspectable \cup {NoAgent}
        /\ inspector.session.state \in {"empty", "loading", "shown", "error"}
    BY <1>2 DEF InspectorInv, InspectorTyped, PanelRecord, SessionRecord
  <2>3. /\ refreshes \in Seq(RunRecord) /\ queries \in Seq(QueryRecord)
        /\ \A i \in 1..Len(queries) : queries[i].run \in 1..Len(refreshes)
    BY <1>2 DEF InspectorInv, InspectorTyped, QueriesTyped
  <2>4. \A r \in DOMAIN refreshes : refreshes[r].events \in 0..MaxNews /\ refreshes[r].reply \in {"asked", "read", "seen"}
    BY <2>3, <1>2, EventsNatural, InspectorConstants DEF EventsFit, RunRecord, Replies
  <2> QED BY <2>1, <2>2, <2>3, <2>4 DEF InspectorTypeOK
<1> QED BY <1>1, <1>2, EventsStay, InspectorStarts, InspectorSteps, PTL DEF InspectorSpec

-----------------------------------------------------------------------------
(* All that the hub stores *)

\* While one part of the instance runs each part takes its own steps, or none.
LEMMA PartsBehave ==
    /\ StoresSpec => StoreSpec
    /\ StoresSpec => RecordSpec
    /\ StoresSpec => ClaimSpec
    /\ StoresSpec => CacheSpec
    /\ StoresSpec => SandboxSpec
    /\ StoresSpec => SeedSpec
    /\ StoresSpec => InspectorSpec
<1>1. StoresInit => /\ StoreInit /\ RecordsInit /\ ClaimsInit /\ CacheInit /\ SandboxInit /\ SeedInit /\ InspectorInit
  BY DEF StoresInit
<1>2. [StoresNext]_storesVars =>
          /\ [StoreNext]_storeVars /\ [RecordStep]_recordVars /\ [ClaimStep]_claimVars /\ [CacheStep]_cacheVars
          /\ [SandboxStep]_sandboxVars /\ [SeedStep]_seedVars /\ [InspectorStep]_inspectorVars
  BY DEF StoresNext, OthersRest, storesVars
<1> QED BY <1>1, <1>2, PTL
        DEF StoresSpec, StoreSpec, RecordSpec, ClaimSpec, CacheSpec, SandboxSpec, SeedSpec, InspectorSpec

\* One part is in focus.
LEMMA FocusStays == StoresSpec => [](focus \in {"store", "records", "claims", "cache", "sandbox", "seed", "inspector"})
<1> DEFINE InFocus == focus \in {"store", "records", "claims", "cache", "sandbox", "seed", "inspector"}
<1>1. StoresInit => InFocus
  BY DEF StoresInit
<1>2. InFocus /\ [StoresNext]_storesVars => InFocus'
  BY DEF StoresNext, OthersRest, storesVars
<1> QED BY <1>1, <1>2, PTL DEF StoresSpec

\* A sandbox and the commands about it have their types.
LEMMA SandboxTypesHold == SandboxSpec => []SandboxTypeOK
<1>1. ASSUME SandboxInv PROVE SandboxTypeOK
  BY <1>1 DEF SandboxInv, SandboxTyped, Nobody, CallFits, SandboxCall, Steps, SandboxOps, SandboxTypeOK
<1> QED BY <1>1, SandboxInvariant, PTL

\* Claims have their types.
LEMMA ClaimTypesHold == ClaimSpec => []ClaimTypeOK
BY ClaimInvInit, ClaimInvStep, PTL DEF ClaimInv, ClaimSpec

\* Whatever part of the hub's stores runs, its variables have the shape the code gives them:
\* logs and chains, records, claims, cached transcripts, sandboxes, sessions that are made
\* from others and the inspector.
THEOREM StoresTyped == StoresSpec => []StoresTypeOK
<1>1. StoreTypeOK /\ RecordTypeOK /\ ClaimTypeOK /\ CacheTypeOK /\ SandboxTypeOK /\ SeedTypeOK /\ InspectorTypeOK
      /\ focus \in {"store", "records", "claims", "cache", "sandbox", "seed", "inspector"}
      => StoresTypeOK
  BY DEF StoresTypeOK
<1> QED BY <1>1, PartsBehave, FocusStays, StoreTypeCorrect, RecordTypesHold, ClaimTypesHold, TranscriptsAreCached,
           SandboxTypesHold, SeedsHaveTypes, InspectorTypesHold, PTL

\* What stored transcripts are read for is true of them: the cache tells all of a transcript
\* (event-store.ts), a session made from others is told of each source it closes and of all
\* of them in fair shares (session-seed.ts, useChatCommands.ts), and the inspector shows that
\* of the agent selected (SubagentIndicator.tsx).
THEOREM TranscriptsTold == StoresSpec => []TranscriptsAreTold
<1>1. CacheTypeOK /\ CacheTellsAll /\ SeedsAreTrue /\ InspectorTells => TranscriptsAreTold
  BY DEF TranscriptsAreTold
<1> QED BY <1>1, PartsBehave, TranscriptsAreCached, SeedsHold, InspectorIsTrue, PTL
=============================================================================
