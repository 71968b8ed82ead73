--------------------------- MODULE SkipListProofs ---------------------------
(***************************************************************************)
(* The skip list of a sorted set: whatever the nodes, the heights that     *)
(* were drawn and the order of the calls, insert and remove keep every     *)
(* level linked in order, a search ends in front of the right node, and    *)
(* iter and rank_of read the one order of the nodes.                       *)
(***************************************************************************)
EXTENDS SkipList, FiniteSetTheorems, WellFoundedInduction, TLAPS

-----------------------------------------------------------------------------
(* Finite ordered sets and the sequences that list them.                   *)

\* R is a strict total order of S.
Orders(R, S) ==
  /\ \A x \in S : <<x, x>> \notin R
  /\ \A x, y \in S : x = y \/ <<x, y>> \in R \/ <<y, x>> \in R
  /\ \A x, y, z \in S : <<x, y>> \in R /\ <<y, z>> \in R => <<x, z>> \in R

\* s lists S in the order R.
Lists(R, s, S) ==
  /\ s \in Seq(S)
  /\ \A x \in S : \E j \in 1..Len(s) : s[j] = x
  /\ \A i, j \in 1..Len(s) : i < j => <<s[i], s[j]>> \in R

Under(R, S, x) == {y \in S : <<y, x>> \in R}

\* The elements of S by the number of elements under each.
Line(R, S) ==
  [j \in 1..Cardinality(S) |-> CHOOSE x \in S : Cardinality(Under(R, S, x)) = j - 1]

\* An element that is under another has fewer elements under it.
LEMMA RanksRise ==
  ASSUME NEW R, NEW S, Orders(R, S), IsFiniteSet(S)
  PROVE  /\ \A x \in S : Cardinality(Under(R, S, x)) \in 0..(Cardinality(S) - 1)
         /\ \A x, y \in S : <<x, y>> \in R =>
              Cardinality(Under(R, S, x)) < Cardinality(Under(R, S, y))
  <1>1. ASSUME NEW T \in SUBSET S, NEW U \in SUBSET T, U # T
        PROVE  Cardinality(U) \in Nat /\ Cardinality(T) \in Nat /\ Cardinality(U) < Cardinality(T)
    <2>1. IsFiniteSet(T)
      BY FS_Subset
    <2>2. IsFiniteSet(U) /\ Cardinality(U) <= Cardinality(T)
          /\ (Cardinality(T) = Cardinality(U) => T = U)
      BY <2>1, FS_Subset
    <2>3. Cardinality(U) \in Nat /\ Cardinality(T) \in Nat
      BY <2>1, <2>2, FS_CardinalityType
    <2>4. QED
      BY <1>1, <2>2, <2>3
  <1>2. ASSUME NEW x \in S
        PROVE  Cardinality(Under(R, S, x)) \in 0..(Cardinality(S) - 1)
    <2>1. Under(R, S, x) \in SUBSET S /\ Under(R, S, x) # S /\ S \in SUBSET S
      BY DEF Under, Orders
    <2>2. QED
      BY <1>1, <2>1
  <1>3. ASSUME NEW x \in S, NEW y \in S, <<x, y>> \in R
        PROVE  Cardinality(Under(R, S, x)) < Cardinality(Under(R, S, y))
    <2>1. Under(R, S, y) \in SUBSET S
      BY DEF Under
    <2>2. Under(R, S, x) \in SUBSET Under(R, S, y)
      BY <1>3 DEF Under, Orders
    <2>3. x \in Under(R, S, y) /\ x \notin Under(R, S, x)
      BY <1>3 DEF Under, Orders
    <2>4. QED
      BY <1>1, <2>1, <2>2, <2>3
  <1>4. QED
    BY <1>2, <1>3

LEMMA RanksDiffer ==
  ASSUME NEW R, NEW S, Orders(R, S), IsFiniteSet(S), NEW x \in S, NEW y \in S,
         Cardinality(Under(R, S, x)) = Cardinality(Under(R, S, y))
  PROVE  x = y
  <1>1. Cardinality(Under(R, S, x)) \in Int /\ Cardinality(Under(R, S, y)) \in Int
    <2>1. Cardinality(S) \in Nat
      BY FS_CardinalityType
    <2>2. QED
      BY <2>1, RanksRise
  <1>2. ~(Cardinality(Under(R, S, x)) < Cardinality(Under(R, S, y)))
        /\ ~(Cardinality(Under(R, S, y)) < Cardinality(Under(R, S, x)))
    BY <1>1
  <1>3. <<x, y>> \notin R /\ <<y, x>> \notin R
    BY <1>2, RanksRise
  <1>4. QED
    BY <1>3 DEF Orders

\* There is an element of every rank, so the line lists the set.
LEMMA LineLists ==
  ASSUME NEW R, NEW S, Orders(R, S), IsFiniteSet(S)
  PROVE  Lists(R, Line(R, S), S) /\ Len(Line(R, S)) = Cardinality(S)
  <1> DEFINE n == Cardinality(S)
             rank == [x \in S |-> Cardinality(Under(R, S, x)) + 1]
  <1>1. n \in Nat
    BY FS_CardinalityType
  <1>2. \A x \in S : rank[x] \in 1..n /\ rank[x] = Cardinality(Under(R, S, x)) + 1
                     /\ Cardinality(Under(R, S, x)) \in Nat
    BY <1>1, RanksRise
  <1>3. rank \in Injection(S, 1..n)
    <2>1. rank \in [S -> 1..n]
      BY <1>2
    <2>2. ASSUME NEW x \in S, NEW y \in S, rank[x] = rank[y]
          PROVE  x = y
      <3>1. Cardinality(Under(R, S, x)) = Cardinality(Under(R, S, y))
        BY <1>2, <2>2
      <3>2. QED
        BY <3>1, RanksDiffer
    <2> HIDE DEF rank
    <2>3. QED
      BY <2>1, <2>2 DEF Injection, IsInjective
  <1>4. rank \in Surjection(S, 1..n)
    <2>1. IsFiniteSet(1..n) /\ Cardinality(1..n) = n
      BY <1>1, FS_Interval
    <2> HIDE DEF rank
    <2>2. QED
      BY <1>3, <2>1, FS_Injection
  <1>5. \A j \in 1..n : \E x \in S : Cardinality(Under(R, S, x)) = j - 1
    <2>1. \A j \in 1..n : \E x \in S : rank[x] = j
      <3> HIDE DEF rank
      <3>1. QED
        BY <1>4 DEF Surjection
    <2>2. QED
      BY <1>2, <2>1
  <1> HIDE DEF rank
  <1>6. \A j \in 1..n : Line(R, S)[j] \in S /\ Cardinality(Under(R, S, Line(R, S)[j])) = j - 1
    BY <1>5 DEF Line
  <1>7. Line(R, S) \in Seq(S) /\ Len(Line(R, S)) = n
    BY <1>1, <1>6 DEF Line
  <1>8. ASSUME NEW x \in S
        PROVE  \E j \in 1..n : Line(R, S)[j] = x
    <2>1. rank[x] \in 1..n /\ Cardinality(Under(R, S, x)) = rank[x] - 1
      BY <1>2
    <2>2. Line(R, S)[rank[x]] = x
      BY <1>6, <2>1, RanksDiffer
    <2>3. QED
      BY <2>1, <2>2
  <1>9. ASSUME NEW i \in 1..n, NEW j \in 1..n, i < j
        PROVE  <<Line(R, S)[i], Line(R, S)[j]>> \in R
    <2> DEFINE x == Line(R, S)[i]
               y == Line(R, S)[j]
    <2>1. x \in S /\ y \in S /\ Cardinality(Under(R, S, x)) = i - 1
          /\ Cardinality(Under(R, S, y)) = j - 1
      BY <1>6
    <2> HIDE DEF x, y
    <2>2. <<y, x>> \notin R
      BY <1>9, <2>1, RanksRise
    <2>3. x # y
      BY <1>9, <2>1
    <2>4. <<x, y>> \in R
      BY <2>1, <2>2, <2>3 DEF Orders
    <2>5. QED
      BY <2>4 DEF x, y
  <1>10. QED
    BY <1>7, <1>8, <1>9 DEF Lists

\* It is the only sequence that does.
LEMMA ListsIsLine ==
  ASSUME NEW R, NEW S, Orders(R, S), NEW s, Lists(R, s, S)
  PROVE  /\ IsFiniteSet(S) /\ Len(s) = Cardinality(S) /\ s = Line(R, S)
         /\ \A j \in 1..Len(s) : Cardinality(Under(R, S, s[j])) = j - 1
  <1> DEFINE n == Len(s)
  <1>1. s \in Seq(S) /\ n \in Nat /\ s \in [1..n -> S]
    BY DEF Lists
  <1>2. \A i, j \in 1..n : s[i] = s[j] => i = j
    <2>1. \A i \in 1..n : s[i] \in S /\ <<s[i], s[i]>> \notin R
      BY <1>1 DEF Orders
    <2>2. \A i, j \in 1..n : i < j => <<s[i], s[j]>> \in R
      BY DEF Lists
    <2>3. ASSUME NEW i \in 1..n, NEW j \in 1..n, s[i] = s[j]
          PROVE  i = j
      <3>1. ~(i < j) /\ ~(j < i)
        BY <2>1, <2>2, <2>3
      <3>2. QED
        BY <1>1, <3>1
    <2>4. QED
      BY <2>3
  <1>3. ExistsBijection(1..n, S)
    <2> HIDE DEF n
    <2>1. s \in Injection(1..n, S)
      BY <1>1, <1>2 DEF Injection, IsInjective
    <2>2. s \in Surjection(1..n, S)
      BY <1>1 DEF Lists, Surjection, n
    <2>3. QED
      BY <2>1, <2>2 DEF ExistsBijection, Bijection
  <1>4. IsFiniteSet(S) /\ Cardinality(S) = n
    BY <1>1, <1>3, FS_NatBijection, FS_CountingElements
  <1>5. ASSUME NEW j \in 1..n
        PROVE  Cardinality(Under(R, S, s[j])) = j - 1
    <2> DEFINE m == j - 1
               below == [i \in 1..m |-> s[i]]
    <2>1. m \in Nat /\ \A i \in 1..m : i \in 1..n /\ i < j /\ s[i] \in S
      BY <1>1
    <2>2. below \in [1..m -> Under(R, S, s[j])]
      BY <2>1 DEF Lists, Under
    <2>3. \A x, y \in 1..m : below[x] = below[y] => x = y
      BY <1>2, <2>1
    <2>4. \A y \in Under(R, S, s[j]) : \E i \in 1..m : below[i] = y
      <3>1. ASSUME NEW y \in Under(R, S, s[j])
            PROVE  \E i \in 1..m : below[i] = y
        <4>1. y \in S /\ <<y, s[j]>> \in R /\ s[j] \in S
          BY <1>1 DEF Under
        <4>2. PICK i \in 1..n : s[i] = y
          BY <4>1 DEF Lists
        <4>3. i # j /\ ~(j < i)
          BY <4>1, <4>2 DEF Lists, Orders
        <4>4. i \in 1..m
          BY <4>3
        <4>5. QED
          BY <4>2, <4>4
      <3>2. QED
        BY <3>1
    <2> HIDE DEF below, m
    <2>5. ExistsBijection(1..m, Under(R, S, s[j]))
      <3>1. below \in Injection(1..m, Under(R, S, s[j]))
        BY <2>2, <2>3 DEF Injection, IsInjective
      <3>2. below \in Surjection(1..m, Under(R, S, s[j]))
        BY <2>2, <2>4 DEF Surjection
      <3>3. QED
        BY <3>1, <3>2 DEF ExistsBijection, Bijection
    <2>6. Cardinality(Under(R, S, s[j])) = m
      BY <2>1, <2>5, FS_CountingElements
    <2>7. QED
      BY <2>6 DEF m
  <1>6. ASSUME NEW j \in 1..n
        PROVE  Line(R, S)[j] = s[j]
    <2>1. s[j] \in S /\ Cardinality(Under(R, S, s[j])) = j - 1
      BY <1>1, <1>5
    <2>2. Line(R, S)[j] \in S /\ Cardinality(Under(R, S, Line(R, S)[j])) = j - 1
      BY <1>4, <2>1 DEF Line
    <2>3. QED
      BY <1>4, <2>1, <2>2, RanksDiffer
  <1>7. s = Line(R, S)
    BY <1>1, <1>4, <1>6 DEF Line
  <1>8. QED
    BY <1>4, <1>5, <1>7

\* An element in front of all others goes in front of their list.
LEMMA FirstThenRest ==
  ASSUME NEW R, NEW S, NEW T \in SUBSET S, NEW s, Lists(R, s, T), NEW x \in S,
         S = T \cup {x}, \A y \in T : <<x, y>> \in R
  PROVE  Lists(R, <<x>> \o s, S)
  <1> DEFINE n == Len(s)
             t == <<x>> \o s
  <1>1. s \in Seq(T) /\ s \in Seq(S) /\ n \in Nat
    BY DEF Lists
  <1>2. t \in Seq(S) /\ Len(t) = n + 1 /\ t[1] = x /\ \A j \in 1..n : t[j + 1] = s[j] /\ s[j] \in T
    BY <1>1
  <1> HIDE DEF t, n
  <1>3. ASSUME NEW j \in 2..(n + 1)
        PROVE  j - 1 \in 1..n /\ t[j] = s[j - 1] /\ s[j - 1] \in T
    <2>1. j - 1 \in 1..n /\ (j - 1) + 1 = j
      BY <1>1
    <2>2. QED
      BY <1>2, <2>1
  <1>4. ASSUME NEW y \in S
        PROVE  \E j \in 1..Len(t) : t[j] = y
    <2>1. CASE y = x
      BY <1>1, <1>2, <2>1
    <2>2. CASE y \in T
      <3>1. PICK j \in 1..n : s[j] = y
        BY <2>2 DEF Lists, n
      <3>2. j + 1 \in 1..Len(t) /\ t[j + 1] = y
        BY <1>1, <1>2, <3>1
      <3>3. QED
        BY <3>2
    <2>3. QED
      BY <2>1, <2>2
  <1>5. ASSUME NEW i \in 1..Len(t), NEW j \in 1..Len(t), i < j
        PROVE  <<t[i], t[j]>> \in R
    <2>1. j \in 2..(n + 1) /\ (i = 1 \/ i \in 2..(n + 1))
      BY <1>1, <1>2, <1>5
    <2>2. t[j] = s[j - 1] /\ s[j - 1] \in T /\ j - 1 \in 1..n
      BY <1>3, <2>1
    <2>3. CASE i = 1
      BY <1>2, <2>2, <2>3
    <2>4. CASE i \in 2..(n + 1)
      <3>1. t[i] = s[i - 1] /\ i - 1 \in 1..n /\ i - 1 < j - 1
        BY <1>1, <1>3, <1>5, <2>1, <2>4
      <3>2. QED
        BY <2>2, <3>1 DEF Lists, n
    <2>5. QED
      BY <2>1, <2>3, <2>4
  <1>6. QED
    BY <1>2, <1>4, <1>5 DEF Lists, t

\* A finite ordered set has a last element.
LEMMA HasTop ==
  ASSUME NEW R, NEW S, Orders(R, S), IsFiniteSet(S), S # {}
  PROVE  \E m \in S : \A x \in S : x = m \/ <<x, m>> \in R
  <1> DEFINE s == Line(R, S)
             n == Len(s)
  <1>1. Lists(R, s, S)
    BY LineLists
  <1> HIDE DEF s
  <1>2. s \in Seq(S) /\ n \in Nat /\ \A x \in S : \E j \in 1..n : s[j] = x
    BY <1>1 DEF Lists
  <1>3. n \in 1..n /\ s[n] \in S
    <2>1. n # 0
      BY <1>2
    <2>2. QED
      BY <1>2, <2>1
  <1>4. ASSUME NEW x \in S
        PROVE  x = s[n] \/ <<x, s[n]>> \in R
    <2>1. PICK j \in 1..n : s[j] = x
      BY <1>2
    <2>2. CASE j = n
      BY <2>1, <2>2
    <2>3. CASE j < n
      <3>1. <<s[j], s[n]>> \in R
        BY <1>1, <1>3, <2>3 DEF Lists
      <3>2. QED
        BY <2>1, <3>1
    <2>4. QED
      BY <1>2, <2>2, <2>3
  <1>5. QED
    BY <1>3, <1>4

AllNumbers(T) == \A i \in T : i \in Nat

\* A nonempty set of levels has a highest one.
LEMMA HasHighest ==
  ASSUME NEW T, AllNumbers(T), IsFiniteSet(T), T # {}
  PROVE  \E m \in T : \A i \in T : i <= m
  <1>1. PICK R : \A i, j \in Nat : <<i, j>> \in R <=> i < j
    <2>1. \A i, j \in Nat : <<i, j>> \in {p \in Nat \X Nat : p[1] < p[2]} <=> i < j
      OBVIOUS
    <2>2. QED
      BY <2>1
  <1>2. \A i \in T : i \in Nat
    BY DEF AllNumbers
  <1>3. Orders(R, T)
    BY <1>1, <1>2 DEF Orders
  <1>4. PICK m \in T : \A i \in T : i = m \/ <<i, m>> \in R
    BY <1>3, HasTop
  <1>5. ASSUME NEW i \in T
        PROVE  i <= m
    <2>1. i \in Nat /\ m \in Nat /\ (i = m \/ i < m)
      BY <1>1, <1>2, <1>4
    <2>2. QED
      BY <2>1
  <1>6. QED
    BY <1>5

\* An element behind all others goes behind their list.
LEMMA RestThenLast ==
  ASSUME NEW R, NEW S, NEW T \in SUBSET S, NEW s, Lists(R, s, T), NEW x \in S,
         S = T \cup {x}, \A y \in T : <<y, x>> \in R
  PROVE  Lists(R, Append(s, x), S)
  <1> DEFINE n == Len(s)
             t == Append(s, x)
  <1>1. s \in Seq(T) /\ s \in Seq(S) /\ n \in Nat
    BY DEF Lists
  <1>2. t \in Seq(S) /\ Len(t) = n + 1 /\ t[n + 1] = x /\ \A j \in 1..n : t[j] = s[j] /\ s[j] \in T
    BY <1>1
  <1> HIDE DEF t, n
  <1>3. \A j \in 1..(n + 1) : j \in 1..n \/ j = n + 1
    BY <1>1
  <1>4. ASSUME NEW y \in S
        PROVE  \E j \in 1..Len(t) : t[j] = y
    <2>1. CASE y = x
      <3>1. n + 1 \in 1..Len(t)
        BY <1>1, <1>2
      <3>2. QED
        BY <1>2, <2>1, <3>1
    <2>2. CASE y \in T
      <3>1. PICK j \in 1..n : s[j] = y
        BY <2>2 DEF Lists, n
      <3>2. j \in 1..Len(t) /\ t[j] = y
        BY <1>1, <1>2, <3>1
      <3>3. QED
        BY <3>2
    <2>3. QED
      BY <2>1, <2>2
  <1>5. ASSUME NEW i \in 1..Len(t), NEW j \in 1..Len(t), i < j
        PROVE  <<t[i], t[j]>> \in R
    <2>1. i \in 1..n /\ (j \in 1..n \/ j = n + 1)
      BY <1>1, <1>2, <1>5
    <2>2. t[i] = s[i] /\ s[i] \in T
      BY <1>2, <2>1
    <2>3. CASE j = n + 1
      BY <1>2, <2>2, <2>3
    <2>4. CASE j \in 1..n
      BY <1>2, <1>5, <2>1, <2>2, <2>4 DEF Lists, n
    <2>5. QED
      BY <2>1, <2>3, <2>4
  <1>6. QED
    BY <1>2, <1>4, <1>5 DEF Lists, t

\* What holds at 0, and at every step if it holds at the one before, holds up to n.
LEMMA Climb ==
  ASSUME NEW n \in Nat, NEW G, 0 \in G, \A j \in 1..n : j - 1 \in G => j \in G
  PROVE  \A j \in 0..n : j \in G
  <1> DEFINE B == {d \in 0..n : n - d \notin G}
  <1>1. B = {}
    <2>1. SUFFICES ASSUME B # {} PROVE FALSE
      OBVIOUS
    <2>2. AllNumbers(B) /\ IsFiniteSet(B)
      <3>1. IsFiniteSet(0..n)
        BY FS_Interval
      <3>2. IsFiniteSet(B)
        BY <3>1, FS_Subset
      <3>3. AllNumbers(B)
        BY DEF AllNumbers
      <3>4. QED
        BY <3>2, <3>3
    <2>3. PICK d \in B : \A i \in B : i <= d
      <3> HIDE DEF B
      <3>1. QED
        BY <2>1, <2>2, HasHighest
    <2>4. d \in 0..n /\ n - d \notin G
      OBVIOUS
    <2>5. CASE d = n
      BY <2>4, <2>5
    <2>6. CASE d # n
      <3>1. d + 1 \in 0..n /\ ~(d + 1 <= d) /\ n - d \in 1..n /\ (n - d) - 1 = n - (d + 1)
        BY <2>4, <2>6
      <3>2. n - (d + 1) \in G
        BY <2>3, <3>1
      <3>3. QED
        BY <2>4, <3>1, <3>2
    <2>7. QED
      BY <2>5, <2>6
  <1>2. ASSUME NEW j \in 0..n
        PROVE  j \in G
    <2>1. n - j \in 0..n /\ n - (n - j) = j
      OBVIOUS
    <2>2. QED
      BY <1>1, <2>1
  <1>3. QED
    BY <1>2

Stepping(n, A, a, step, f) ==
  f \in [0..n -> A] /\ f[0] = a /\ \A j \in 1..n : f[j] = step[j][f[j - 1]]

\* n steps can be taken one after the other.
LEMMA StepByStep ==
  ASSUME NEW n \in Nat, NEW A, NEW a \in A, NEW step \in [1..n -> [A -> A]]
  PROVE  \E f : Stepping(n, A, a, step, f)
  <1> DEFINE Goes(m, f) == f[0] = a /\ \A j \in 1..m : f[j] = step[j][f[j - 1]]
             G == {m \in 0..n : \E f \in [0..m -> A] : Goes(m, f)}
  <1>1. 0 \in G
    <2> DEFINE f == [j \in 0..0 |-> a]
    <2>1. f \in [0..0 -> A]
      OBVIOUS
    <2>2. f[0] = a /\ \A j \in 1..0 : f[j] = step[j][f[j - 1]]
      OBVIOUS
    <2> HIDE DEF f
    <2>3. \E e \in [0..0 -> A] : Goes(0, e)
      BY <2>1, <2>2
    <2>4. 0 \in 0..n
      OBVIOUS
    <2> HIDE DEF Goes
    <2>5. QED
      BY <2>3, <2>4
  <1>2. ASSUME NEW m \in 1..n, m - 1 \in G
        PROVE  m \in G
    <2>1. PICK f \in [0..(m - 1) -> A] : Goes(m - 1, f)
      BY <1>2
    <2> DEFINE g == [j \in 0..m |-> IF j < m THEN f[j] ELSE step[m][f[m - 1]]]
    <2>2. \A j \in 0..m : j < m => j \in 0..(m - 1)
      OBVIOUS
    <2>3. m - 1 \in 0..(m - 1) /\ f[m - 1] \in A /\ step[m] \in [A -> A]
      BY <2>1
    <2>4. g \in [0..m -> A]
      BY <2>1, <2>2, <2>3
    <2>5. g[0] = a
      BY <2>1
    <2>6. ASSUME NEW j \in 1..m
          PROVE  g[j] = step[j][g[j - 1]]
      <3>1. CASE j < m
        <4>1. j \in 1..(m - 1) /\ j - 1 \in 0..m /\ j - 1 < m /\ j \in 0..m
          BY <3>1
        <4>2. g[j] = f[j] /\ g[j - 1] = f[j - 1]
          BY <3>1, <4>1
        <4>3. QED
          BY <2>1, <4>1, <4>2
      <3>2. CASE j = m
        <4>1. g[m - 1] = f[m - 1] /\ g[m] = step[m][f[m - 1]]
          BY <2>3
        <4>2. QED
          BY <3>2, <4>1
      <3>3. QED
        BY <3>1, <3>2
    <2> HIDE DEF g
    <2>7. Goes(m, g) /\ m \in 0..n
      BY <2>5, <2>6
    <2>8. QED
      BY <2>4, <2>7
  <1> HIDE DEF G
  <1>3. n \in G
    <2>1. \A j \in 0..n : j \in G
      BY <1>1, <1>2, Climb
    <2>2. QED
      BY <2>1
  <1>4. QED
    BY <1>3 DEF G, Stepping

LEMMA NothingToList ==
  ASSUME NEW R
  PROVE  Line(R, {}) = <<>>
  BY FS_EmptySet DEF Line

-----------------------------------------------------------------------------
(* Nodes.                                                                  *)

LEMMA Marks ==
  /\ HeadNode \notin Nodes /\ NilNode \notin Nodes /\ NoLink \notin Nodes
  /\ HeadNode # NilNode /\ HeadNode # NoLink /\ NilNode # NoLink
  BY DEF HeadNode, NilNode, NoLink, Nodes

LEMMA NodeShape ==
  /\ \A x \in Nodes : x[1] \in Scores /\ x[2] \in Chunks /\ x = <<x[1], x[2]>>
  /\ \A s \in Scores, m \in Chunks : <<s, m>> \in Nodes
  /\ Scores \subseteq Int /\ 0 \in Scores
  BY ScoreAssumption DEF Nodes, Scores

LEMMA NodesCompare ==
  /\ \A x \in Nodes : ~NodeLess(x, x)
  /\ \A x, y \in Nodes : x = y \/ NodeLess(x, y) \/ NodeLess(y, x)
  /\ \A x, y, z \in Nodes : NodeLess(x, y) /\ NodeLess(y, z) => NodeLess(x, z)
  /\ \A x, y \in Nodes : NodeLess(x, y) => ~NodeLess(y, x)
  <1>1. \A x \in Nodes : x[1] \in Int /\ x[2] \in Chunks /\ x = <<x[1], x[2]>>
    BY NodeShape
  <1>2. \A x \in Nodes : ~NodeLess(x, x)
    BY <1>1, BeforeAssumption DEF NodeLess
  <1>3. \A x, y \in Nodes : x = y \/ NodeLess(x, y) \/ NodeLess(y, x)
    <2>1. ASSUME NEW x \in Nodes, NEW y \in Nodes, x[1] = y[1], x[2] = y[2]
          PROVE  x = y
      BY <1>1, <2>1
    <2>2. QED
      BY <1>1, <2>1, BeforeAssumption DEF NodeLess
  <1>4. ASSUME NEW x \in Nodes, NEW y \in Nodes, NEW z \in Nodes,
               NodeLess(x, y), NodeLess(y, z)
        PROVE  NodeLess(x, z)
    <2>1. x[1] \in Int /\ y[1] \in Int /\ z[1] \in Int
          /\ x[2] \in Chunks /\ y[2] \in Chunks /\ z[2] \in Chunks
      BY <1>1
    <2>2. Before(x[2], y[2]) /\ Before(y[2], z[2]) => Before(x[2], z[2])
      BY <2>1, BeforeAssumption
    <2>3. QED
      BY <1>4, <2>1, <2>2 DEF NodeLess
  <1>5. \A x, y \in Nodes : NodeLess(x, y) => ~NodeLess(y, x)
    BY <1>2, <1>4
  <1>6. QED
    BY <1>2, <1>3, <1>4, <1>5

Up == {p \in Nodes \X Nodes : NodeLess(p[1], p[2])}

LEMMA UpIsNodeLess ==
  \A x, y \in Nodes : <<x, y>> \in Up <=> NodeLess(x, y)
  BY DEF Up

LEMMA UpOrders ==
  ASSUME NEW S \in SUBSET Nodes
  PROVE  Orders(Up, S)
  <1>1. \A x \in S : x \in Nodes
    OBVIOUS
  <1>2. QED
    BY <1>1, UpIsNodeLess, NodesCompare DEF Orders

\* The last of some nodes.
LEMMA HasLast ==
  ASSUME NEW S \in SUBSET Nodes, IsFiniteSet(S), S # {}
  PROVE  \E m \in S : \A x \in S : x = m \/ NodeLess(x, m)
  <1>1. PICK m \in S : \A x \in S : x = m \/ <<x, m>> \in Up
    BY UpOrders, HasTop
  <1>2. QED
    BY <1>1, UpIsNodeLess

\* The head is in front of every node.
Ahead(y, x) == y = HeadNode \/ NodeLess(y, x)

\* What holds of a place as soon as it holds of the nodes behind it holds of all.
LEMMA Backwards ==
  ASSUME NEW S \in SUBSET Nodes, IsFiniteSet(S), NEW G,
         \A y \in S \cup {HeadNode} : (\A z \in S : Ahead(y, z) => z \in G) => y \in G
  PROVE  S \cup {HeadNode} \subseteq G
  <1> DEFINE B == S \ G
  <1>1. B = {}
    <2>1. SUFFICES ASSUME B # {} PROVE FALSE
      OBVIOUS
    <2>2. B \in SUBSET Nodes /\ IsFiniteSet(B)
      BY FS_Subset
    <2>3. PICK m \in B : \A x \in B : x = m \/ NodeLess(x, m)
      BY <2>1, <2>2, HasLast
    <2>4. ASSUME NEW z \in S, Ahead(m, z)
          PROVE  z \in G
      <3>1. m \in Nodes /\ z \in Nodes /\ NodeLess(m, z)
        BY <2>4, Marks DEF Ahead
      <3>2. z # m /\ ~NodeLess(z, m)
        BY <3>1, NodesCompare
      <3>3. QED
        BY <2>3, <3>2
    <2>5. m \in G
      BY <2>4
    <2>6. QED
      BY <2>5
  <1>2. QED
    BY <1>1

-----------------------------------------------------------------------------
(* Chains.                                                                 *)

\* The chain of the nodes S goes on from y with f.
NextIn(S, y, f) ==
  \/ f = NilNode /\ \A z \in S : ~Ahead(y, z)
  \/ f \in S /\ Ahead(y, f) /\ \A z \in S : Ahead(y, z) => z = f \/ NodeLess(f, z)

\* w is the last place of the chain of S in front of x.
LastBefore(S, x, w) ==
  /\ w \in S \cup {HeadNode} /\ Ahead(w, x)
  /\ \A z \in S : NodeLess(z, x) => z = w \/ (w # HeadNode /\ NodeLess(z, w))

Place(S, x) == CHOOSE w : LastBefore(S, x, w)

LEMMA HasPlace ==
  ASSUME NEW S \in SUBSET Nodes, IsFiniteSet(S), NEW x \in Nodes
  PROVE  LastBefore(S, x, Place(S, x)) /\ \A w : LastBefore(S, x, w) => w = Place(S, x)
  <1> DEFINE B == {z \in S : NodeLess(z, x)}
  <1>1. \E w : LastBefore(S, x, w)
    <2>1. CASE B = {}
      <3>1. LastBefore(S, x, HeadNode)
        BY <2>1 DEF LastBefore, Ahead
      <3>2. QED
        BY <3>1
    <2>2. CASE B # {}
      <3>1. B \in SUBSET Nodes /\ IsFiniteSet(B)
        BY FS_Subset
      <3>2. PICK m \in B : \A z \in B : z = m \/ NodeLess(z, m)
        BY <2>2, <3>1, HasLast
      <3>3. LastBefore(S, x, m)
        BY <3>2, Marks DEF LastBefore, Ahead
      <3>4. QED
        BY <3>3
    <2>3. QED
      BY <2>1, <2>2
  <1>2. ASSUME NEW v, NEW w, LastBefore(S, x, v), LastBefore(S, x, w)
        PROVE  v = w
    <2>1. \A z \in S : z \in Nodes /\ z # HeadNode
      BY Marks
    <2>2. CASE v = HeadNode
      BY <1>2, <2>1, <2>2 DEF LastBefore, Ahead
    <2>3. CASE w = HeadNode
      BY <1>2, <2>1, <2>3 DEF LastBefore, Ahead
    <2>4. CASE v \in S /\ w \in S
      <3>1. NodeLess(v, x) /\ NodeLess(w, x)
        BY <1>2, <2>1, <2>4 DEF LastBefore, Ahead
      <3>2. (v = w \/ NodeLess(v, w)) /\ (w = v \/ NodeLess(w, v))
        BY <1>2, <2>4, <3>1 DEF LastBefore
      <3>3. QED
        BY <2>1, <2>4, <3>2, NodesCompare
    <2>5. QED
      BY <1>2, <2>2, <2>3, <2>4 DEF LastBefore
  <1>3. QED
    BY <1>1, <1>2 DEF Place

\* A place whose next node is not in front of x is the last one that is.
LEMMA PlaceByNext ==
  ASSUME NEW S \in SUBSET Nodes, IsFiniteSet(S), NEW x \in Nodes,
         NEW y \in S \cup {HeadNode}, Ahead(y, x), NEW f, NextIn(S, y, f),
         ~(f \in S /\ NodeLess(f, x))
  PROVE  y = Place(S, x)
  <1>1. \A z \in S : z \in Nodes /\ z # HeadNode
    BY Marks
  <1>2. ASSUME NEW z \in S, NodeLess(z, x)
        PROVE  z = y \/ (y # HeadNode /\ NodeLess(z, y))
    <2>1. ~Ahead(y, z)
      <3>1. SUFFICES ASSUME Ahead(y, z) PROVE FALSE
        OBVIOUS
      <3>2. f \in S /\ (z = f \/ NodeLess(f, z))
        BY <3>1 DEF NextIn
      <3>3. NodeLess(f, x)
        BY <1>1, <1>2, <3>2, NodesCompare
      <3>4. QED
        BY <3>2, <3>3
    <2>2. y # HeadNode /\ y \in S /\ ~NodeLess(y, z)
      BY <2>1 DEF Ahead
    <2>3. QED
      BY <1>1, <2>2, NodesCompare
  <1>3. LastBefore(S, x, y)
    BY <1>2 DEF LastBefore
  <1>4. QED
    BY <1>3, HasPlace

\* The chain of S goes on from there with x if x is in it.
LEMMA NextOfPlace ==
  ASSUME NEW S \in SUBSET Nodes, IsFiniteSet(S), NEW x \in Nodes, NEW f,
         NextIn(S, Place(S, x), f)
  PROVE  f = x <=> x \in S
  <1> DEFINE w == Place(S, x)
  <1>1. LastBefore(S, x, w)
    BY HasPlace
  <1> HIDE DEF w
  <1>2. NextIn(S, w, f)
    BY DEF w
  <1>3. ASSUME x \in S
        PROVE  f = x
    <2>1. f \in S /\ Ahead(w, f) /\ (x = f \/ NodeLess(f, x))
      BY <1>1, <1>2, <1>3 DEF NextIn, LastBefore
    <2>2. ~NodeLess(f, x)
      <3>1. SUFFICES ASSUME NodeLess(f, x) PROVE FALSE
        OBVIOUS
      <3>2. f = w \/ (w # HeadNode /\ NodeLess(f, w))
        BY <1>1, <2>1, <3>1 DEF LastBefore
      <3>3. w # HeadNode
        BY <2>1, <3>2, Marks
      <3>4. w \in Nodes /\ f \in Nodes /\ NodeLess(w, f)
        BY <1>1, <2>1, <3>3 DEF LastBefore, Ahead
      <3>5. QED
        BY <3>2, <3>4, NodesCompare
    <2>3. QED
      BY <2>1, <2>2
  <1>4. ASSUME f = x
        PROVE  x \in S
    BY <1>2, <1>4, Marks DEF NextIn
  <1>5. QED
    BY <1>3, <1>4

\* A node that is linked in behind its place.
LEMMA LinkIn ==
  ASSUME NEW S \in SUBSET Nodes, IsFiniteSet(S), NEW x \in Nodes, x \notin S
  PROVE  /\ NextIn(S \cup {x}, Place(S, x), x)
         /\ \A f : NextIn(S, Place(S, x), f) => NextIn(S \cup {x}, x, f)
         /\ \A y \in S \cup {HeadNode} : \A f :
              y # Place(S, x) /\ NextIn(S, y, f) => NextIn(S \cup {x}, y, f)
  <1> DEFINE w == Place(S, x)
  <1>1. LastBefore(S, x, w)
    BY HasPlace
  <1>2. \A z \in S : z \in Nodes /\ z # HeadNode /\ z # x /\ z # NilNode
    BY Marks
  <1>3. x # HeadNode /\ x # NilNode
    BY Marks
  <1>4. w = HeadNode \/ (w \in S /\ NodeLess(w, x))
    BY <1>1 DEF LastBefore, Ahead
  <1> HIDE DEF w
  <1>5. NextIn(S \cup {x}, w, x)
    <2>1. ASSUME NEW z \in S, Ahead(w, z)
          PROVE  NodeLess(x, z)
      <3>1. ~NodeLess(z, x)
        <4>1. SUFFICES ASSUME NodeLess(z, x) PROVE FALSE
          OBVIOUS
        <4>2. z = w \/ (w # HeadNode /\ NodeLess(z, w))
          BY <1>1, <4>1 DEF LastBefore
        <4>3. w \in S /\ NodeLess(w, z)
          BY <1>2, <1>4, <2>1, <4>2 DEF Ahead
        <4>4. QED
          BY <1>2, <4>2, <4>3, NodesCompare
      <3>2. QED
        BY <1>2, <3>1, NodesCompare
    <2>2. Ahead(w, x)
      BY <1>1 DEF LastBefore
    <2>3. QED
      BY <2>1, <2>2 DEF NextIn
  <1>6. ASSUME NEW f, NextIn(S, w, f)
        PROVE  NextIn(S \cup {x}, x, f)
    <2>1. \A z \in S : NodeLess(x, z) => Ahead(w, z)
      BY <1>2, <1>4, NodesCompare DEF Ahead
    <2>2. \A z \in S \cup {x} : Ahead(x, z) => z \in S /\ NodeLess(x, z)
      BY <1>3, NodesCompare DEF Ahead
    <2>3. CASE f = NilNode
      <3>1. \A z \in S : ~Ahead(w, z)
        BY <1>2, <1>6, <2>3 DEF NextIn
      <3>2. QED
        BY <2>1, <2>2, <2>3, <3>1 DEF NextIn
    <2>4. CASE f \in S /\ Ahead(w, f) /\ \A z \in S : Ahead(w, z) => z = f \/ NodeLess(f, z)
      <3>1. NodeLess(x, f)
        <4>1. x = f \/ NodeLess(x, f) \/ NodeLess(f, x)
          BY <1>2, <2>4, NodesCompare
        <4>2. ASSUME NodeLess(f, x) PROVE FALSE
          <5>1. f = w \/ (w # HeadNode /\ NodeLess(f, w))
            BY <1>1, <2>4, <4>2 DEF LastBefore
          <5>2. w \in S /\ NodeLess(w, f)
            BY <1>2, <1>4, <2>4, <5>1 DEF Ahead
          <5>3. QED
            BY <1>2, <2>4, <5>1, <5>2, NodesCompare
        <4>3. QED
          BY <1>2, <2>4, <4>1, <4>2
      <3>2. Ahead(x, f)
        BY <3>1 DEF Ahead
      <3>3. QED
        BY <2>1, <2>2, <2>4, <3>2 DEF NextIn
    <2>5. QED
      BY <1>6, <2>3, <2>4 DEF NextIn
  <1>7. ASSUME NEW y \in S \cup {HeadNode}, NEW f, y # w, NextIn(S, y, f)
        PROVE  NextIn(S \cup {x}, y, f)
    <2>1. Ahead(y, x) => f \in S /\ NodeLess(f, x)
      BY <1>7, PlaceByNext DEF w
    <2>2. CASE f = NilNode
      BY <1>2, <1>7, <2>1, <2>2 DEF NextIn
    <2>3. CASE f \in S
      <3>1. Ahead(y, f) /\ \A z \in S : Ahead(y, z) => z = f \/ NodeLess(f, z)
        BY <1>2, <1>7, <2>3 DEF NextIn
      <3>2. QED
        BY <2>1, <2>3, <3>1 DEF NextIn
    <2>4. QED
      BY <1>7, <2>2, <2>3 DEF NextIn
  <1>8. QED
    BY <1>5, <1>6, <1>7 DEF w

\* A node that is linked out.
LEMMA LinkOut ==
  ASSUME NEW S \in SUBSET Nodes, IsFiniteSet(S), NEW x \in S
  PROVE  /\ \A f : NextIn(S, x, f) => NextIn(S \ {x}, Place(S, x), f)
         /\ \A y \in (S \ {x}) \cup {HeadNode} : \A f :
              y # Place(S, x) /\ NextIn(S, y, f) => NextIn(S \ {x}, y, f)
  <1> DEFINE w == Place(S, x)
  <1>1. LastBefore(S, x, w)
    BY HasPlace
  <1>2. \A z \in S : z \in Nodes /\ z # HeadNode /\ z # NilNode
    BY Marks
  <1>3. w = HeadNode \/ (w \in S /\ NodeLess(w, x))
    BY <1>1 DEF LastBefore, Ahead
  <1> HIDE DEF w
  <1>4. ASSUME NEW f, NextIn(S, x, f)
        PROVE  NextIn(S \ {x}, w, f)
    <2>1. ASSUME NEW z \in S \ {x}, Ahead(w, z)
          PROVE  Ahead(x, z)
      <3>1. ~NodeLess(z, x)
        <4>1. SUFFICES ASSUME NodeLess(z, x) PROVE FALSE
          OBVIOUS
        <4>2. z = w \/ (w # HeadNode /\ NodeLess(z, w))
          BY <1>1, <4>1 DEF LastBefore
        <4>3. w \in S /\ NodeLess(w, z)
          BY <1>2, <1>3, <2>1, <4>2 DEF Ahead
        <4>4. QED
          BY <1>2, <4>2, <4>3, NodesCompare
      <3>2. QED
        BY <1>2, <3>1, NodesCompare DEF Ahead
    <2>2. \A z \in S : Ahead(x, z) => NodeLess(x, z) /\ z # x
      BY <1>2, NodesCompare DEF Ahead
    <2>3. \A z \in S : NodeLess(x, z) => Ahead(w, z)
      BY <1>2, <1>3, NodesCompare DEF Ahead
    <2>4. CASE f = NilNode
      <3>1. \A z \in S : ~Ahead(x, z)
        BY <1>2, <1>4, <2>4 DEF NextIn
      <3>2. QED
        BY <2>1, <2>4, <3>1 DEF NextIn
    <2>5. CASE f \in S
      <3>1. Ahead(x, f) /\ \A z \in S : Ahead(x, z) => z = f \/ NodeLess(f, z)
        BY <1>2, <1>4, <2>5 DEF NextIn
      <3>2. f # x /\ Ahead(w, f)
        BY <2>2, <2>3, <2>5, <3>1
      <3>3. QED
        BY <2>1, <2>5, <3>1, <3>2 DEF NextIn
    <2>6. QED
      BY <1>4, <2>4, <2>5 DEF NextIn
  <1>5. ASSUME NEW y \in (S \ {x}) \cup {HeadNode}, NEW f, y # w, NextIn(S, y, f)
        PROVE  NextIn(S \ {x}, y, f)
    <2>1. f # x
      <3>1. SUFFICES ASSUME f = x PROVE FALSE
        OBVIOUS
      <3>2. Ahead(y, x)
        BY <1>2, <1>5, <3>1 DEF NextIn
      <3>3. NodeLess(f, x)
        BY <1>5, <3>2, PlaceByNext DEF w
      <3>4. QED
        BY <1>2, <3>1, <3>3, NodesCompare
    <2>2. QED
      BY <1>5, <2>1 DEF NextIn
  <1>6. QED
    BY <1>4, <1>5 DEF w

-----------------------------------------------------------------------------
(* The skip list of the pairs P.                                           *)

OnLevel(sl, i) == {x \in Nodes : sl.forward[x][i] # NoLink}

\* Every level links the nodes that reach it, the lowest all of them, each higher one
\* a part of those below; the level is the height of the highest node.
Chained(sl) ==
  \A i \in 1..MaxLevel : \A y \in OnLevel(sl, i) \cup {HeadNode} :
    NextIn(OnLevel(sl, i), y, sl.forward[y][i])

SkipOK(sl, P) ==
  /\ sl \in SkipLists
  /\ P \in SUBSET Nodes /\ IsFiniteSet(P)
  /\ OnLevel(sl, 1) = P
  /\ \A i, j \in 1..MaxLevel : i < j => OnLevel(sl, j) \subseteq OnLevel(sl, i)
  /\ Chained(sl)
  /\ \A i \in 1..MaxLevel : i > sl.level => OnLevel(sl, i) = {}
  /\ sl.level > 1 => OnLevel(sl, sl.level) # {}
  /\ sl.length = Cardinality(P)

LEMMA SkipShape ==
  ASSUME NEW sl, NEW P, SkipOK(sl, P)
  PROVE  /\ MaxLevel \in Nat /\ 1 \in 1..MaxLevel
         /\ sl.level \in 1..MaxLevel /\ sl.length \in Nat
         /\ sl = [forward |-> sl.forward, level |-> sl.level, length |-> sl.length]
         /\ sl.forward \in [Nodes \cup {HeadNode} -> Links]
         /\ DOMAIN sl.forward = Nodes \cup {HeadNode}
         /\ \A y \in Nodes \cup {HeadNode}, i \in 1..MaxLevel :
              sl.forward[y][i] \in Nodes \cup {NilNode, NoLink}
         /\ \A i \in 1..MaxLevel :
              OnLevel(sl, i) \in SUBSET P /\ OnLevel(sl, i) \in SUBSET Nodes
              /\ IsFiniteSet(OnLevel(sl, i))
  <1>1. MaxLevel \in Nat /\ 1 \in 1..MaxLevel
    BY ScoreAssumption
  <1>2. sl.level \in 1..MaxLevel /\ sl.length \in Nat
        /\ sl = [forward |-> sl.forward, level |-> sl.level, length |-> sl.length]
        /\ sl.forward \in [Nodes \cup {HeadNode} -> Links]
    BY DEF SkipOK, SkipLists
  <1>3. \A y \in Nodes \cup {HeadNode}, i \in 1..MaxLevel :
          sl.forward[y][i] \in Nodes \cup {NilNode, NoLink}
    <2>1. ASSUME NEW y \in Nodes \cup {HeadNode}
          PROVE  sl.forward[y] \in [1..MaxLevel -> Nodes \cup {NilNode, NoLink}]
      BY <1>2 DEF Links
    <2>2. QED
      BY <2>1
  <1>4. ASSUME NEW i \in 1..MaxLevel
        PROVE  OnLevel(sl, i) \in SUBSET P /\ OnLevel(sl, i) \in SUBSET Nodes
               /\ IsFiniteSet(OnLevel(sl, i))
    <2>1. OnLevel(sl, i) \in SUBSET P
      <3>1. i = 1 \/ 1 < i
        BY <1>1
      <3>2. CASE i = 1
        BY <3>2 DEF SkipOK
      <3>3. CASE 1 < i
        BY <1>1, <3>3 DEF SkipOK
      <3>4. QED
        BY <3>1, <3>2, <3>3
    <2>2. P \in SUBSET Nodes /\ IsFiniteSet(P)
      BY DEF SkipOK
    <2>3. QED
      BY <2>1, <2>2, FS_Subset
  <1>5. QED
    BY <1>1, <1>2, <1>3, <1>4

LEMMA NewSkipOK == SkipOK(NewSkipList, {})
  <1> DEFINE sl == NewSkipList
  <1>1. MaxLevel \in Nat /\ 1 \in 1..MaxLevel
    BY ScoreAssumption
  <1>2. /\ sl.level = 1 /\ sl.length = 0
        /\ \A i \in 1..MaxLevel : sl.forward[HeadNode][i] = NilNode
        /\ \A x \in Nodes, i \in 1..MaxLevel : sl.forward[x][i] = NoLink
    BY Marks DEF NewSkipList
  <1>3. sl \in SkipLists
    BY <1>1 DEF SkipLists, Links, NewSkipList
  <1> HIDE DEF sl
  <1>4. \A i \in 1..MaxLevel : OnLevel(sl, i) = {}
    BY <1>2 DEF OnLevel
  <1>5. Chained(sl)
    BY <1>2, <1>4 DEF Chained, NextIn
  <1>6. QED
    BY <1>1, <1>2, <1>3, <1>4, <1>5, FS_EmptySet DEF SkipOK, sl

\* What the search on level i has to be.
Walks(sl, x, i, g) ==
  g = [y \in DOMAIN sl.forward |->
         IF sl.forward[y][i] \notin {NilNode, NoLink} /\ NodeLess(sl.forward[y][i], x)
         THEN g[sl.forward[y][i]] ELSE y]

\* On every level a search stops at the last place in front of x.
LEMMA WalkEnds ==
  ASSUME NEW sl, NEW P, SkipOK(sl, P), NEW x \in Nodes, NEW i \in 1..MaxLevel,
         NEW start \in OnLevel(sl, i) \cup {HeadNode}, Ahead(start, x)
  PROVE  Walk(sl, x, i)[start] = Place(OnLevel(sl, i), x)
  <1> DEFINE S == OnLevel(sl, i)
             next(y) == sl.forward[y][i]
             inside == S \cup {HeadNode}
             w == Place(S, x)
  <1>1. S \in SUBSET Nodes /\ IsFiniteSet(S) /\ DOMAIN sl.forward = Nodes \cup {HeadNode}
    BY SkipShape
  <1>2. \A y \in inside : NextIn(S, y, next(y))
    BY DEF SkipOK, Chained
  <1>3. \A y \in Nodes : y \notin S => next(y) = NoLink
    BY DEF OnLevel
  <1>4. \A y \in inside : next(y) = NilNode \/ (next(y) \in S /\ Ahead(y, next(y)))
    BY <1>2 DEF NextIn
  <1>5. \A z \in S : z \notin {NilNode, NoLink, HeadNode}
    BY <1>1, Marks
  <1>6. ASSUME NEW y \in inside, Ahead(y, x), ~(next(y) \in S /\ NodeLess(next(y), x))
        PROVE  y = w
    BY <1>1, <1>2, <1>6, PlaceByNext
  <1> HIDE DEF S, w, next
  <1>7. \E g : Walks(sl, x, i, g)
    <2> DEFINE f == [y \in Nodes \cup {HeadNode} |-> IF y \in inside /\ Ahead(y, x) THEN w ELSE y]
    <2>1. ASSUME NEW y \in Nodes \cup {HeadNode}
          PROVE  f[y] = IF next(y) \notin {NilNode, NoLink} /\ NodeLess(next(y), x)
                        THEN f[next(y)] ELSE y
      <3>1. CASE y \notin inside
        BY <1>3, <2>1, <3>1
      <3>2. CASE y \in inside /\ Ahead(y, x)
        <4>1. CASE next(y) \in S /\ NodeLess(next(y), x)
          BY <1>1, <1>5, <3>2, <4>1 DEF Ahead
        <4>2. CASE ~(next(y) \in S /\ NodeLess(next(y), x))
          BY <1>4, <1>6, <3>2, <4>2
        <4>3. QED
          BY <4>1, <4>2
      <3>3. CASE y \in inside /\ ~Ahead(y, x)
        <4>1. y \in Nodes /\ y \in S
          BY <1>1, <3>3 DEF Ahead
        <4>2. ~(next(y) \in S /\ NodeLess(next(y), x))
          BY <1>1, <1>4, <1>5, <3>3, <4>1, NodesCompare DEF Ahead
        <4>3. QED
          BY <1>4, <3>3, <4>2
      <3>4. QED
        BY <3>1, <3>2, <3>3
    <2>2. Walks(sl, x, i, f)
      BY <1>1, <2>1 DEF Walks, next
    <2>3. QED
      BY <2>2
  <1> DEFINE g == Walk(sl, x, i)
  <1>8. Walks(sl, x, i, g)
    BY <1>7 DEF Walk, Walks
  <1> HIDE DEF g
  <1>9. \A y \in inside : g[y] = IF next(y) \notin {NilNode, NoLink} /\ NodeLess(next(y), x)
                                 THEN g[next(y)] ELSE y
    BY <1>1, <1>8 DEF Walks, next
  <1> DEFINE G == {y \in inside : Ahead(y, x) => g[y] = w}
  <1>10. ASSUME NEW y \in inside, \A z \in S : Ahead(y, z) => z \in G
         PROVE  y \in G
    <2>1. SUFFICES ASSUME Ahead(y, x) PROVE g[y] = w
      OBVIOUS
    <2>2. CASE next(y) \in S /\ NodeLess(next(y), x)
      <3>1. next(y) \in G
        BY <1>4, <1>5, <1>10, <2>2
      <3>2. Ahead(next(y), x)
        BY <2>2 DEF Ahead
      <3>3. g[y] = g[next(y)]
        BY <1>5, <1>9, <2>2
      <3>4. QED
        BY <3>1, <3>2, <3>3
    <2>3. CASE ~(next(y) \in S /\ NodeLess(next(y), x))
      BY <1>4, <1>6, <1>9, <2>1, <2>3
    <2>4. QED
      BY <2>2, <2>3
  <1> HIDE DEF G
  <1>11. inside \subseteq G
    BY <1>1, <1>10, Backwards
  <1>12. QED
    BY <1>11 DEF G, g, w, S

\* What the array `update` has to be.
Updates(sl, x, u) ==
  u = [i \in 1..sl.level |->
         Walk(sl, x, i)[IF i = sl.level THEN HeadNode ELSE u[i + 1]]]

LEMMA UpdateIsPlaces ==
  ASSUME NEW sl, NEW P, SkipOK(sl, P), NEW x \in Nodes
  PROVE  \A i \in 1..sl.level : Update(sl, x)[i] = Place(OnLevel(sl, i), x)
  <1> DEFINE n == sl.level
             at(i) == Place(OnLevel(sl, i), x)
             u == Update(sl, x)
             walk(i, y) == Walk(sl, x, i)[y]
  <1>1. n \in 1..MaxLevel /\ n \in Nat /\ n <= MaxLevel /\ MaxLevel \in Nat
    BY SkipShape
  <1>2. \A i \in 1..n : i \in 1..MaxLevel
    BY <1>1
  <1>3. ASSUME NEW i \in 1..n
        PROVE  at(i) \in OnLevel(sl, i) \cup {HeadNode} /\ Ahead(at(i), x)
    <2>1. LastBefore(OnLevel(sl, i), x, at(i))
      BY <1>2, SkipShape, HasPlace
    <2>2. QED
      BY <2>1 DEF LastBefore
  <1>4. ASSUME NEW i \in 1..n
        PROVE  walk(i, HeadNode) = at(i)
    BY <1>2, WalkEnds DEF Ahead
  <1>5. ASSUME NEW i \in 1..n, i # n
        PROVE  walk(i, at(i + 1)) = at(i)
    <2>1. i + 1 \in 1..n /\ i < i + 1
      BY <1>1, <1>5
    <2>2. at(i + 1) \in OnLevel(sl, i) \cup {HeadNode} /\ Ahead(at(i + 1), x)
      BY <1>2, <1>3, <2>1 DEF SkipOK
    <2>3. QED
      BY <1>2, <2>2, WalkEnds
  <1> HIDE DEF n, at, walk
  <1>6. \E v : Updates(sl, x, v)
    <2> DEFINE v == [i \in 1..n |-> at(i)]
    <2>1. ASSUME NEW i \in 1..n
          PROVE  v[i] = walk(i, IF i = n THEN HeadNode ELSE v[i + 1])
      <3>1. CASE i = n
        BY <1>4, <3>1
      <3>2. CASE i # n
        <4>1. i + 1 \in 1..n
          BY <1>1, <3>2
        <4>2. QED
          BY <1>5, <3>2, <4>1
      <3>3. QED
        BY <3>1, <3>2
    <2>2. Updates(sl, x, v)
      BY <2>1 DEF Updates, n, walk
    <2>3. QED
      BY <2>2
  <1>7. Updates(sl, x, u)
    BY <1>6 DEF Update, Updates
  <1> HIDE DEF u
  <1>8. \A i \in 1..n : u[i] = walk(i, IF i = n THEN HeadNode ELSE u[i + 1])
    BY <1>7 DEF Updates, n, walk
  <1> DEFINE B == {i \in 1..n : u[i] # at(i)}
  <1>9. B = {}
    <2>1. SUFFICES ASSUME B # {} PROVE FALSE
      OBVIOUS
    <2>2. AllNumbers(B) /\ IsFiniteSet(B)
      <3>1. IsFiniteSet(1..n)
        BY <1>1, FS_Interval
      <3>2. IsFiniteSet(B)
        BY <3>1, FS_Subset
      <3>3. QED
        BY <1>1, <3>2 DEF AllNumbers
    <2>3. PICK i \in B : \A j \in B : j <= i
      <3> HIDE DEF B
      <3>1. QED
        BY <2>1, <2>2, HasHighest
    <2>4. CASE i = n
      BY <1>4, <1>8, <2>4
    <2>5. CASE i # n
      <3>1. i + 1 \in 1..n /\ ~(i + 1 <= i)
        BY <1>1, <2>5
      <3>2. u[i + 1] = at(i + 1)
        BY <2>3, <3>1
      <3>3. u[i] = walk(i, at(i + 1))
        BY <1>8, <2>5, <3>2
      <3>4. QED
        BY <1>5, <2>5, <3>3
    <2>6. QED
      BY <2>4, <2>5
  <1>10. QED
    BY <1>9 DEF n, at, u

\* The search finds x if it is there.
LEMMA FoundIfThere ==
  ASSUME NEW sl, NEW P, SkipOK(sl, P), NEW x \in Nodes
  PROVE  Found(sl, x) = x <=> x \in P
  <1>1. 1 \in 1..sl.level /\ 1 \in 1..MaxLevel
    BY SkipShape
  <1>2. Found(sl, x) = sl.forward[Place(P, x)][1]
    BY <1>1, UpdateIsPlaces DEF Found, SkipOK
  <1>3. P \in SUBSET Nodes /\ IsFiniteSet(P) /\ OnLevel(sl, 1) = P
    BY DEF SkipOK
  <1>4. Place(P, x) \in P \cup {HeadNode}
    BY <1>3, HasPlace DEF LastBefore
  <1>5. NextIn(P, Place(P, x), sl.forward[Place(P, x)][1])
    BY <1>1, <1>3, <1>4 DEF SkipOK, Chained
  <1>6. QED
    BY <1>2, <1>3, <1>5, NextOfPlace

-----------------------------------------------------------------------------
(* Insert and remove.                                                      *)

LEMMA InsertLinks ==
  ASSUME NEW sl, NEW P, SkipOK(sl, P), NEW x \in Nodes, x \notin P, NEW height \in 1..MaxLevel
  PROVE  LET new == Insert(sl, x, height)
             at(i) == Place(OnLevel(sl, i), x)
         IN  /\ new \in SkipLists
             /\ new.length = sl.length + 1
             /\ new.level = IF height > sl.level THEN height ELSE sl.level
             /\ \A i \in 1..MaxLevel :
                  new.forward[x][i] = IF i <= height THEN sl.forward[at(i)][i] ELSE NoLink
             /\ \A y \in Nodes \cup {HeadNode}, i \in 1..MaxLevel : y # x =>
                  new.forward[y][i] = IF i <= height /\ y = at(i) THEN x ELSE sl.forward[y][i]
  <1> DEFINE found == Update(sl, x)
             update == [i \in 1..height |-> IF i <= sl.level THEN found[i] ELSE HeadNode]
             tower == [i \in 1..MaxLevel |->
                         IF i <= height THEN sl.forward[update[i]][i] ELSE NoLink]
             relinked(y) == [i \in 1..MaxLevel |->
                               IF sl.forward[y][i] # NoLink /\ i <= height /\ update[i] = y
                               THEN x ELSE sl.forward[y][i]]
             forward == [y \in Nodes \cup {HeadNode} |-> IF y = x THEN tower ELSE relinked(y)]
             level == IF height > sl.level THEN height ELSE sl.level
             new == Insert(sl, x, height)
             at(i) == Place(OnLevel(sl, i), x)
  <1>1. DOMAIN sl.forward = Nodes \cup {HeadNode} /\ sl.level \in 1..MaxLevel /\ sl.length \in Nat
        /\ MaxLevel \in Nat
        /\ \A y \in Nodes \cup {HeadNode}, i \in 1..MaxLevel :
             sl.forward[y][i] \in Nodes \cup {NilNode, NoLink}
    BY SkipShape
  <1>2. Found(sl, x) # x
    BY FoundIfThere
  <1>3. new = [forward |-> forward, level |-> level, length |-> sl.length + 1]
    BY <1>1, <1>2 DEF Insert
  <1>4. \A i \in 1..MaxLevel : at(i) \in OnLevel(sl, i) \cup {HeadNode}
    <2>1. ASSUME NEW i \in 1..MaxLevel
          PROVE  at(i) \in OnLevel(sl, i) \cup {HeadNode}
      <3>1. LastBefore(OnLevel(sl, i), x, at(i))
        BY SkipShape, HasPlace
      <3>2. QED
        BY <3>1 DEF LastBefore
    <2>2. QED
      BY <2>1
  <1>5. ASSUME NEW i \in 1..height
        PROVE  update[i] = at(i) /\ i \in 1..MaxLevel
    <2>1. i \in 1..MaxLevel /\ (i <= sl.level \/ i > sl.level)
      BY <1>1
    <2>2. CASE i <= sl.level
      BY <1>1, <2>1, <2>2, UpdateIsPlaces
    <2>3. CASE i > sl.level
      <3>1. OnLevel(sl, i) = {}
        BY <2>1, <2>3 DEF SkipOK
      <3>2. at(i) = HeadNode
        BY <1>4, <2>1, <3>1
      <3>3. QED
        BY <1>1, <2>1, <2>3, <3>2
    <2>4. QED
      BY <2>1, <2>2, <2>3
  <1>6. \A i \in 1..MaxLevel : sl.forward[at(i)][i] # NoLink
                               /\ sl.forward[at(i)][i] \in Nodes \cup {NilNode, NoLink}
    <2>1. ASSUME NEW i \in 1..MaxLevel
          PROVE  sl.forward[at(i)][i] # NoLink /\ at(i) \in Nodes \cup {HeadNode}
      <3>1. NextIn(OnLevel(sl, i), at(i), sl.forward[at(i)][i])
        BY <1>4 DEF SkipOK, Chained
      <3>2. \A z \in OnLevel(sl, i) : z \in Nodes /\ z # NoLink
        BY Marks DEF OnLevel
      <3>3. sl.forward[at(i)][i] # NoLink
        BY <3>1, <3>2, Marks DEF NextIn
      <3>4. QED
        BY <1>4, <3>2, <3>3
    <2>2. QED
      BY <1>1, <2>1
  <1> HIDE DEF update, at
  <1>7. \A i \in 1..MaxLevel : i <= height <=> i \in 1..height
    BY <1>1
  <1>8. \A i \in 1..MaxLevel : tower[i] = IF i <= height THEN sl.forward[at(i)][i] ELSE NoLink
    BY <1>5, <1>7
  <1>9. ASSUME NEW y \in Nodes \cup {HeadNode}, NEW i \in 1..MaxLevel, y # x
        PROVE  forward[y][i] = IF i <= height /\ y = at(i) THEN x ELSE sl.forward[y][i]
    BY <1>5, <1>6, <1>7, <1>9
  <1>10. forward \in [Nodes \cup {HeadNode} -> Links]
    <2>1. tower \in Links
      BY <1>6, <1>8 DEF Links
    <2>2. \A y \in Nodes \cup {HeadNode} : relinked(y) \in Links
      BY <1>1 DEF Links
    <2> HIDE DEF tower, relinked
    <2>3. QED
      BY <2>1, <2>2
  <1>11. level \in 1..MaxLevel /\ sl.length + 1 \in Nat
    BY <1>1
  <1>12. \A i \in 1..MaxLevel : forward[x][i] = tower[i]
    OBVIOUS
  <1> HIDE DEF forward, level, tower
  <1>13. new \in SkipLists /\ new.forward = forward /\ new.level = level
         /\ new.length = sl.length + 1
    BY <1>3, <1>10, <1>11 DEF SkipLists
  <1> HIDE DEF new
  <1>14. QED
    BY <1>8, <1>9, <1>12, <1>13 DEF level, new, at

LEMMA InsertOK ==
  ASSUME NEW sl, NEW P, SkipOK(sl, P), NEW x \in Nodes, NEW height \in 1..MaxLevel
  PROVE  SkipOK(Insert(sl, x, height), P \cup {x})
  <1>1. CASE x \in P
    <2>1. Insert(sl, x, height) = sl
      BY <1>1, FoundIfThere DEF Insert
    <2>2. P \cup {x} = P
      BY <1>1
    <2>3. QED
      BY <2>1, <2>2
  <1>2. CASE x \notin P
    <2> DEFINE new == Insert(sl, x, height)
               S == [i \in 1..MaxLevel |-> OnLevel(sl, i)]
               at == [i \in 1..MaxLevel |-> Place(S[i], x)]
               T == [i \in 1..MaxLevel |-> IF i <= height THEN S[i] \cup {x} ELSE S[i]]
    <2>1. /\ new \in SkipLists
          /\ new.length = sl.length + 1
          /\ new.level = IF height > sl.level THEN height ELSE sl.level
          /\ \A i \in 1..MaxLevel :
               new.forward[x][i] = IF i <= height THEN sl.forward[at[i]][i] ELSE NoLink
          /\ \A y \in Nodes \cup {HeadNode}, i \in 1..MaxLevel : y # x =>
               new.forward[y][i] = IF i <= height /\ y = at[i] THEN x ELSE sl.forward[y][i]
      BY <1>2, InsertLinks
    <2>2. /\ MaxLevel \in Nat /\ 1 \in 1..MaxLevel /\ sl.level \in 1..MaxLevel
          /\ \A i \in 1..MaxLevel :
               S[i] \in SUBSET P /\ S[i] \in SUBSET Nodes /\ IsFiniteSet(S[i])
      BY SkipShape
    <2>3. \A i \in 1..MaxLevel : x \notin S[i] /\ at[i] \in S[i] \cup {HeadNode}
      <3>1. ASSUME NEW i \in 1..MaxLevel
            PROVE  at[i] \in S[i] \cup {HeadNode}
        <4>1. LastBefore(S[i], x, at[i])
          BY <2>2, HasPlace
        <4>2. QED
          BY <4>1 DEF LastBefore
      <3>2. QED
        BY <1>2, <2>2, <3>1
    <2>4. \A i \in 1..MaxLevel : \A y \in S[i] \cup {HeadNode} : NextIn(S[i], y, sl.forward[y][i])
      BY DEF SkipOK, Chained
    <2>5. \A i \in 1..MaxLevel : \A y \in Nodes : y \in S[i] <=> sl.forward[y][i] # NoLink
      BY DEF OnLevel
    <2>6. /\ \A i, j \in 1..MaxLevel : i < j => S[j] \subseteq S[i]
          /\ S[1] = P
          /\ \A i \in 1..MaxLevel : i > sl.level => S[i] = {}
          /\ sl.level > 1 => S[sl.level] # {}
          /\ P \in SUBSET Nodes /\ IsFiniteSet(P) /\ sl.length = Cardinality(P)
      BY <2>2 DEF SkipOK
    <2> HIDE DEF S, new, at
    <2>7. \A i \in 1..MaxLevel : \A y \in S[i] \cup {HeadNode} :
            sl.forward[y][i] = NilNode \/ sl.forward[y][i] \in S[i]
      BY <2>4 DEF NextIn
    <2>8. \A i \in 1..MaxLevel : OnLevel(new, i) = T[i]
      <3>1. ASSUME NEW i \in 1..MaxLevel, NEW y \in Nodes
            PROVE  new.forward[y][i] # NoLink <=> y \in T[i]
        <4>1. CASE y = x
          <5>1. sl.forward[at[i]][i] # NoLink
            BY <2>2, <2>3, <2>7, Marks
          <5>2. QED
            BY <2>1, <2>3, <4>1, <5>1
        <4>2. CASE y # x
          <5>1. y = at[i] => y \in S[i]
            BY <2>3, Marks
          <5>2. new.forward[y][i] # NoLink <=> y \in S[i]
            BY <2>1, <2>5, <4>2, <5>1, Marks
          <5>3. QED
            BY <4>2, <5>2
        <4>3. QED
          BY <4>1, <4>2
      <3>2. ASSUME NEW i \in 1..MaxLevel
            PROVE  T[i] \subseteq Nodes
        BY <2>2
      <3>3. QED
        BY <3>1, <3>2 DEF OnLevel
    <2>9. ASSUME NEW i \in 1..MaxLevel, NEW y \in T[i] \cup {HeadNode}
          PROVE  NextIn(T[i], y, new.forward[y][i])
      <3>1. CASE ~(i <= height)
        <4>1. T[i] = S[i] /\ y # x /\ y \in Nodes \cup {HeadNode}
          BY <2>2, <2>3, <3>1, Marks
        <4>2. new.forward[y][i] = sl.forward[y][i]
          BY <2>1, <3>1, <4>1
        <4>3. QED
          BY <2>4, <4>1, <4>2
      <3>2. CASE i <= height
        <4>1. T[i] = S[i] \cup {x} /\ S[i] \in SUBSET Nodes /\ IsFiniteSet(S[i]) /\ x \notin S[i]
              /\ at[i] \in S[i] \cup {HeadNode} /\ x # HeadNode
          BY <2>2, <2>3, <3>2, Marks
        <4>2. /\ NextIn(S[i] \cup {x}, at[i], x)
              /\ \A f : NextIn(S[i], at[i], f) => NextIn(S[i] \cup {x}, x, f)
              /\ \A z \in S[i] \cup {HeadNode} : \A f :
                   z # at[i] /\ NextIn(S[i], z, f) => NextIn(S[i] \cup {x}, z, f)
          BY <4>1, LinkIn DEF at
        <4>3. CASE y = x
          BY <2>1, <2>4, <3>2, <4>1, <4>2, <4>3
        <4>4. CASE y # x
          <5>1. y \in S[i] \cup {HeadNode} /\ y \in Nodes \cup {HeadNode}
            BY <4>1, <4>4
          <5>2. new.forward[y][i] = IF y = at[i] THEN x ELSE sl.forward[y][i]
            BY <2>1, <3>2, <4>4, <5>1
          <5>3. QED
            BY <2>4, <4>1, <4>2, <5>1, <5>2
        <4>5. QED
          BY <4>3, <4>4
      <3>3. QED
        BY <3>1, <3>2
    <2>10. Chained(new)
      BY <2>8, <2>9 DEF Chained
    <2>11. P \cup {x} \in SUBSET Nodes /\ IsFiniteSet(P \cup {x})
           /\ Cardinality(P \cup {x}) = Cardinality(P) + 1
      BY <1>2, <2>6, FS_AddElement
    <2>12. T[1] = P \cup {x}
      BY <2>2, <2>6
    <2>13. ASSUME NEW i \in 1..MaxLevel, NEW j \in 1..MaxLevel, i < j
           PROVE  T[j] \subseteq T[i]
      BY <2>6, <2>13
    <2>14. new.level \in 1..MaxLevel
      BY <2>1, <2>2
    <2>15. ASSUME NEW i \in 1..MaxLevel, i > new.level
           PROVE  T[i] = {}
      <3>1. i > height /\ i > sl.level
        BY <2>1, <2>2, <2>15
      <3>2. ~(i <= height)
        BY <3>1
      <3>3. QED
        BY <2>6, <3>1, <3>2
    <2>16. new.level > 1 => T[new.level] # {}
      <3>1. CASE height > sl.level
        BY <2>1, <3>1
      <3>2. CASE ~(height > sl.level)
        <4>1. new.level = sl.level
          BY <2>1, <3>2
        <4>2. T[sl.level] = S[sl.level] \/ T[sl.level] = S[sl.level] \cup {x}
          BY <2>2
        <4>3. QED
          BY <2>6, <4>1, <4>2
      <3>3. QED
        BY <3>1, <3>2
    <2> HIDE DEF T
    <2>17. QED
      BY <2>1, <2>2, <2>6, <2>8, <2>10, <2>11, <2>12, <2>13, <2>14, <2>15, <2>16
         DEF SkipOK, new
  <1>3. QED
    BY <1>1, <1>2

LEMMA LevelFound ==
  ASSUME NEW forward, NEW level \in Nat, level >= 1
  PROVE  LET top == LevelOf(forward, level)
         IN  /\ top \in 1..level
             /\ top = 1 \/ forward[HeadNode][top] # NilNode
             /\ \A j \in (top + 1)..level : forward[HeadNode][j] = NilNode
  <1> DEFINE T == {i \in 1..level : i = 1 \/ forward[HeadNode][i] # NilNode}
  <1>1. AllNumbers(T) /\ IsFiniteSet(T) /\ T # {}
    <2>1. IsFiniteSet(1..level) /\ 1 \in T
      BY FS_Interval
    <2>2. IsFiniteSet(T)
      BY <2>1, FS_Subset
    <2>3. AllNumbers(T)
      BY DEF AllNumbers
    <2>4. T # {}
      BY <2>1
    <2> HIDE DEF T
    <2>5. QED
      BY <2>2, <2>3, <2>4
  <1>2. PICK m \in T : \A i \in T : i <= m
    <2> HIDE DEF T
    <2>1. QED
      BY <1>1, HasHighest
  <1>3. ASSUME NEW j \in (m + 1)..level
        PROVE  forward[HeadNode][j] = NilNode
    <2>1. j \in 1..level /\ ~(j <= m)
      OBVIOUS
    <2>2. QED
      BY <1>2, <2>1
  <1>4. m \in 1..level /\ (m = 1 \/ forward[HeadNode][m] # NilNode)
    OBVIOUS
  <1> HIDE DEF T
  <1>5. QED
    BY <1>3, <1>4 DEF LevelOf

LEMMA RemoveLinks ==
  ASSUME NEW sl, NEW P, SkipOK(sl, P), NEW x \in P
  PROVE  LET new == Remove(sl, x)
             at(i) == Place(OnLevel(sl, i), x)
         IN  /\ new \in SkipLists
             /\ new.length = sl.length - 1
             /\ new.level = LevelOf(new.forward, sl.level)
             /\ \A i \in 1..MaxLevel : new.forward[x][i] = NoLink
             /\ \A y \in Nodes \cup {HeadNode}, i \in 1..MaxLevel : y # x =>
                  new.forward[y][i] = IF x \in OnLevel(sl, i) /\ y = at(i)
                                      THEN sl.forward[x][i] ELSE sl.forward[y][i]
  <1> DEFINE update == Update(sl, x)
             linked(i) == \A j \in 1..i : sl.forward[update[j]][j] = x
             relinked(y) == [i \in 1..MaxLevel |->
                               IF /\ sl.forward[y][i] # NoLink /\ i <= sl.level
                                  /\ update[i] = y /\ linked(i)
                               THEN sl.forward[x][i] ELSE sl.forward[y][i]]
             unlinked == [i \in 1..MaxLevel |-> NoLink]
             forward == [y \in Nodes \cup {HeadNode} |-> IF y = x THEN unlinked ELSE relinked(y)]
             new == Remove(sl, x)
             at(i) == Place(OnLevel(sl, i), x)
  <1>1. DOMAIN sl.forward = Nodes \cup {HeadNode} /\ sl.level \in 1..MaxLevel /\ sl.length \in Nat
        /\ MaxLevel \in Nat
        /\ \A y \in Nodes \cup {HeadNode}, i \in 1..MaxLevel :
             sl.forward[y][i] \in Nodes \cup {NilNode, NoLink}
    BY SkipShape
  <1>2. x \in Nodes /\ P \in SUBSET Nodes /\ IsFiniteSet(P) /\ sl.length = Cardinality(P)
    BY DEF SkipOK
  <1>3. Found(sl, x) = x
    BY <1>2, FoundIfThere
  <1>4. new = [forward |-> forward, level |-> LevelOf(forward, sl.level),
               length |-> sl.length - 1]
    BY <1>1, <1>3 DEF Remove
  <1>5. ASSUME NEW i \in 1..MaxLevel
        PROVE  /\ at(i) \in OnLevel(sl, i) \cup {HeadNode}
               /\ sl.forward[at(i)][i] # NoLink
               /\ sl.forward[at(i)][i] = x <=> x \in OnLevel(sl, i)
    <2>1. OnLevel(sl, i) \in SUBSET Nodes /\ IsFiniteSet(OnLevel(sl, i))
      BY SkipShape
    <2>2. at(i) \in OnLevel(sl, i) \cup {HeadNode}
      BY <1>2, <2>1, HasPlace DEF LastBefore
    <2>3. NextIn(OnLevel(sl, i), at(i), sl.forward[at(i)][i])
      BY <2>2 DEF SkipOK, Chained
    <2>4. sl.forward[at(i)][i] # NoLink
      BY <2>1, <2>3, Marks DEF NextIn
    <2>5. QED
      BY <1>2, <2>1, <2>2, <2>3, <2>4, NextOfPlace
  <1>6. \A i \in 1..sl.level : update[i] = at(i) /\ i \in 1..MaxLevel
    BY <1>1, <1>2, UpdateIsPlaces
  <1>7. ASSUME NEW i \in 1..sl.level
        PROVE  linked(i) <=> x \in OnLevel(sl, i)
    <2>1. \A j \in 1..i : j \in 1..sl.level /\ j \in 1..MaxLevel /\ (j = i \/ j < i)
      BY <1>1
    <2>2. i \in 1..i /\ i \in 1..MaxLevel
      BY <1>1
    <2>3. \A j \in 1..i : sl.forward[update[j]][j] = x <=> x \in OnLevel(sl, j)
      BY <1>5, <1>6, <2>1
    <2>4. \A j \in 1..i : OnLevel(sl, i) \subseteq OnLevel(sl, j)
      BY <2>1, <2>2 DEF SkipOK
    <2>5. QED
      BY <2>2, <2>3, <2>4
  <1>8. \A i \in 1..MaxLevel : x \in OnLevel(sl, i) => i \in 1..sl.level /\ i <= sl.level
    <2>1. \A i \in 1..MaxLevel : i > sl.level => OnLevel(sl, i) = {}
      BY DEF SkipOK
    <2>2. QED
      BY <1>1, <2>1
  <1>9. \A i \in 1..MaxLevel : i <= sl.level => i \in 1..sl.level
    BY <1>1
  <1> HIDE DEF update, at, linked
  <1>10. ASSUME NEW y \in Nodes \cup {HeadNode}, NEW i \in 1..MaxLevel, y # x
         PROVE  forward[y][i] = IF x \in OnLevel(sl, i) /\ y = at(i)
                                THEN sl.forward[x][i] ELSE sl.forward[y][i]
    BY <1>5, <1>6, <1>7, <1>8, <1>9, <1>10
  <1>11. \A i \in 1..MaxLevel : forward[x][i] = NoLink
    BY <1>2
  <1>12. forward \in [Nodes \cup {HeadNode} -> Links]
    <2>1. unlinked \in Links
      BY DEF Links
    <2>2. \A y \in Nodes \cup {HeadNode} : relinked(y) \in Links
      BY <1>1, <1>2 DEF Links
    <2> HIDE DEF unlinked, relinked
    <2>3. QED
      BY <2>1, <2>2
  <1>13. sl.length - 1 \in Nat
    <2>1. Cardinality(P) # 0
      BY <1>2, FS_EmptySet
    <2>2. QED
      BY <1>1, <1>2, <2>1
  <1> HIDE DEF forward
  <1>14. LevelOf(forward, sl.level) \in 1..MaxLevel
    <2>1. LevelOf(forward, sl.level) \in 1..sl.level
      BY <1>1, LevelFound
    <2>2. QED
      BY <1>1, <2>1
  <1>15. new \in SkipLists /\ new.forward = forward /\ new.length = sl.length - 1
         /\ new.level = LevelOf(forward, sl.level)
    BY <1>4, <1>12, <1>13, <1>14 DEF SkipLists
  <1> HIDE DEF new
  <1>16. QED
    BY <1>10, <1>11, <1>15 DEF new, at

LEMMA RemoveOK ==
  ASSUME NEW sl, NEW P, SkipOK(sl, P), NEW x \in Nodes
  PROVE  SkipOK(Remove(sl, x), P \ {x})
  <1>1. CASE x \notin P
    <2>1. Remove(sl, x) = sl
      BY <1>1, FoundIfThere DEF Remove
    <2>2. P \ {x} = P
      BY <1>1
    <2>3. QED
      BY <2>1, <2>2
  <1>2. CASE x \in P
    <2> DEFINE new == Remove(sl, x)
               S == [i \in 1..MaxLevel |-> OnLevel(sl, i)]
               at == [i \in 1..MaxLevel |-> Place(S[i], x)]
               T == [i \in 1..MaxLevel |-> S[i] \ {x}]
    <2>1. /\ new \in SkipLists
          /\ new.length = sl.length - 1
          /\ new.level = LevelOf(new.forward, sl.level)
          /\ \A i \in 1..MaxLevel : new.forward[x][i] = NoLink
          /\ \A y \in Nodes \cup {HeadNode}, i \in 1..MaxLevel : y # x =>
               new.forward[y][i] = IF x \in S[i] /\ y = at[i]
                                   THEN sl.forward[x][i] ELSE sl.forward[y][i]
      BY <1>2, RemoveLinks
    <2>2. /\ MaxLevel \in Nat /\ 1 \in 1..MaxLevel /\ sl.level \in 1..MaxLevel
          /\ \A i \in 1..MaxLevel :
               S[i] \in SUBSET P /\ S[i] \in SUBSET Nodes /\ IsFiniteSet(S[i])
      BY SkipShape
    <2>3. \A i \in 1..MaxLevel : at[i] \in S[i] \cup {HeadNode}
      <3>1. ASSUME NEW i \in 1..MaxLevel
            PROVE  at[i] \in S[i] \cup {HeadNode}
        <4>1. LastBefore(S[i], x, at[i])
          BY <2>2, HasPlace
        <4>2. QED
          BY <4>1 DEF LastBefore
      <3>2. QED
        BY <3>1
    <2>4. \A i \in 1..MaxLevel : \A y \in S[i] \cup {HeadNode} : NextIn(S[i], y, sl.forward[y][i])
      BY DEF SkipOK, Chained
    <2>5. \A i \in 1..MaxLevel : \A y \in Nodes : y \in S[i] <=> sl.forward[y][i] # NoLink
      BY DEF OnLevel
    <2>6. /\ \A i, j \in 1..MaxLevel : i < j => S[j] \subseteq S[i]
          /\ S[1] = P
          /\ \A i \in 1..MaxLevel : i > sl.level => S[i] = {}
          /\ P \in SUBSET Nodes /\ IsFiniteSet(P) /\ sl.length = Cardinality(P)
      BY <2>2 DEF SkipOK
    <2> HIDE DEF S, new, at
    <2>7. \A i \in 1..MaxLevel : \A y \in S[i] \cup {HeadNode} :
            sl.forward[y][i] = NilNode \/ sl.forward[y][i] \in S[i]
      BY <2>4 DEF NextIn
    <2>8. \A i \in 1..MaxLevel : OnLevel(new, i) = T[i]
      <3>1. ASSUME NEW i \in 1..MaxLevel, NEW y \in Nodes
            PROVE  new.forward[y][i] # NoLink <=> y \in T[i]
        <4>1. CASE y = x
          BY <2>1, <4>1
        <4>2. CASE y # x
          <5>1. x \in S[i] => sl.forward[x][i] # NoLink
            BY <2>2, <2>5
          <5>2. y = at[i] => y \in S[i]
            BY <2>3, Marks
          <5>3. new.forward[y][i] # NoLink <=> y \in S[i]
            BY <2>1, <2>5, <4>2, <5>1, <5>2
          <5>4. QED
            BY <4>2, <5>3
        <4>3. QED
          BY <4>1, <4>2
      <3>2. ASSUME NEW i \in 1..MaxLevel
            PROVE  T[i] \subseteq Nodes
        BY <2>2
      <3>3. QED
        BY <3>1, <3>2 DEF OnLevel
    <2>9. ASSUME NEW i \in 1..MaxLevel, NEW y \in T[i] \cup {HeadNode}
          PROVE  NextIn(T[i], y, new.forward[y][i])
      <3>0. y # x /\ y \in Nodes \cup {HeadNode} /\ y \in S[i] \cup {HeadNode}
        BY <1>2, <2>2, <2>6, Marks
      <3>1. CASE x \notin S[i]
        <4>1. T[i] = S[i]
          BY <3>1
        <4>2. new.forward[y][i] = sl.forward[y][i]
          BY <2>1, <3>0, <3>1
        <4>3. QED
          BY <2>4, <3>0, <4>1, <4>2
      <3>2. CASE x \in S[i]
        <4>1. T[i] = S[i] \ {x} /\ S[i] \in SUBSET Nodes /\ IsFiniteSet(S[i])
          BY <2>2, <3>2
        <4>2. /\ \A f : NextIn(S[i], x, f) => NextIn(S[i] \ {x}, at[i], f)
              /\ \A z \in (S[i] \ {x}) \cup {HeadNode} : \A f :
                   z # at[i] /\ NextIn(S[i], z, f) => NextIn(S[i] \ {x}, z, f)
          BY <3>2, <4>1, LinkOut DEF at
        <4>3. new.forward[y][i] = IF y = at[i] THEN sl.forward[x][i] ELSE sl.forward[y][i]
          BY <2>1, <3>0, <3>2
        <4>4. QED
          BY <2>4, <3>0, <3>2, <4>1, <4>2, <4>3
      <3>3. QED
        BY <3>1, <3>2
    <2>10. Chained(new)
      BY <2>8, <2>9 DEF Chained
    <2>11. P \ {x} \in SUBSET Nodes /\ IsFiniteSet(P \ {x})
           /\ Cardinality(P \ {x}) = Cardinality(P) - 1
      BY <1>2, <2>6, FS_RemoveElement
    <2>12. T[1] = P \ {x}
      BY <2>2, <2>6
    <2>13. ASSUME NEW i \in 1..MaxLevel, NEW j \in 1..MaxLevel, i < j
           PROVE  T[j] \subseteq T[i]
      BY <2>6, <2>13
    <2>14. /\ new.level \in 1..sl.level
           /\ new.level = 1 \/ new.forward[HeadNode][new.level] # NilNode
           /\ \A j \in (new.level + 1)..sl.level : new.forward[HeadNode][j] = NilNode
      BY <2>1, <2>2, LevelFound
    <2>15. new.level \in 1..MaxLevel
      BY <2>2, <2>14
    <2>16. \A i \in 1..MaxLevel : new.forward[HeadNode][i] = NilNode <=> T[i] = {}
      <3>1. ASSUME NEW i \in 1..MaxLevel
            PROVE  new.forward[HeadNode][i] = NilNode <=> T[i] = {}
        <4>1. NextIn(T[i], HeadNode, new.forward[HeadNode][i])
          BY <2>9
        <4>2. NilNode \notin T[i]
          BY <2>2, Marks
        <4> HIDE DEF T
        <4>3. QED
          BY <4>1, <4>2 DEF NextIn, Ahead
      <3>2. QED
        BY <3>1
    <2>17. ASSUME NEW i \in 1..MaxLevel, i > new.level
           PROVE  T[i] = {}
      <3>1. CASE i > sl.level
        BY <2>6, <3>1
      <3>2. CASE ~(i > sl.level)
        <4>1. i \in (new.level + 1)..sl.level
          BY <2>2, <2>15, <2>17, <3>2
        <4>2. QED
          BY <2>14, <2>16, <4>1
      <3>3. QED
        BY <3>1, <3>2
    <2>18. new.level > 1 => T[new.level] # {}
      <3>1. new.level > 1 => new.level # 1
        BY <2>15
      <3>2. QED
        BY <2>14, <2>15, <2>16, <3>1
    <2> HIDE DEF T
    <2>19. QED
      BY <2>1, <2>2, <2>6, <2>8, <2>10, <2>11, <2>12, <2>13, <2>15, <2>17, <2>18
         DEF SkipOK, new
  <1>3. QED
    BY <1>1, <1>2

-----------------------------------------------------------------------------
(* Readers.                                                                *)

Behind(P, y) == {z \in P : Ahead(y, z)}

\* What the walk along the lowest level has to be.
Iterates(sl, g) ==
  g = [y \in DOMAIN sl.forward |->
         IF sl.forward[y][1] \notin {NilNode, NoLink}
         THEN <<sl.forward[y][1]>> \o g[sl.forward[y][1]] ELSE <<>>]

\* iter lists the pairs in order.
LEMMA IterIsLine ==
  ASSUME NEW sl, NEW P, SkipOK(sl, P)
  PROVE  Iter(sl) = Line(Up, P)
  <1> DEFINE next(y) == sl.forward[y][1]
             rest(y) == Line(Up, Behind(P, y))
             places == P \cup {HeadNode}
  <1>1. DOMAIN sl.forward = Nodes \cup {HeadNode} /\ 1 \in 1..MaxLevel
    BY SkipShape
  <1>2. P \in SUBSET Nodes /\ IsFiniteSet(P) /\ OnLevel(sl, 1) = P
    BY DEF SkipOK
  <1>3. \A y \in places : NextIn(P, y, next(y))
    BY <1>1, <1>2 DEF SkipOK, Chained
  <1>4. \A y \in Nodes : y \notin P => next(y) = NoLink
    BY <1>2 DEF OnLevel
  <1>5. \A z \in P : z \in Nodes /\ z \notin {NilNode, NoLink, HeadNode}
    BY <1>2, Marks
  <1>6. \A y \in places : next(y) = NilNode \/ (next(y) \in P /\ Ahead(y, next(y)))
    BY <1>3 DEF NextIn
  <1>7. ASSUME NEW y \in places, next(y) \in P
        PROVE  rest(y) = <<next(y)>> \o rest(next(y))
    <2> DEFINE n == next(y)
               S == Behind(P, y)
               T == Behind(P, n)
    <2>1. n \in P /\ n \in Nodes /\ n # HeadNode
      BY <1>5, <1>7
    <2>2. Ahead(y, n) /\ \A z \in P : Ahead(y, z) => z = n \/ NodeLess(n, z)
      BY <1>3, <1>5, <1>7 DEF NextIn
    <2>3. \A z \in P : NodeLess(n, z) => Ahead(y, z)
      BY <1>5, <2>1, <2>2, NodesCompare DEF Ahead
    <2> HIDE DEF n
    <2>4. n \in S /\ T \in SUBSET S /\ S = T \cup {n}
      BY <2>1, <2>2, <2>3 DEF Behind, Ahead
    <2>5. \A z \in T : <<n, z>> \in Up
      BY <1>5, <2>1, UpIsNodeLess DEF Behind, Ahead
    <2>6. S \in SUBSET Nodes /\ T \in SUBSET Nodes /\ IsFiniteSet(T)
      <3>1. T \in SUBSET P /\ S \in SUBSET P
        BY DEF Behind
      <3>2. QED
        BY <1>2, <3>1, FS_Subset
    <2>7. Lists(Up, Line(Up, T), T) /\ Orders(Up, S)
      BY <2>6, UpOrders, LineLists
    <2> HIDE DEF S, T
    <2>8. Lists(Up, <<n>> \o Line(Up, T), S)
      BY <2>4, <2>5, <2>7, FirstThenRest
    <2>9. <<n>> \o Line(Up, T) = Line(Up, S)
      BY <2>7, <2>8, ListsIsLine
    <2>10. QED
      BY <2>9 DEF n, S, T
  <1>8. ASSUME NEW y \in places, next(y) \notin P
        PROVE  rest(y) = <<>>
    <2>1. \A z \in P : ~Ahead(y, z)
      BY <1>3, <1>8 DEF NextIn
    <2>2. Behind(P, y) = {}
      BY <2>1 DEF Behind
    <2>3. QED
      BY <2>2, NothingToList
  <1> HIDE DEF next, rest
  <1>9. \E g : Iterates(sl, g)
    <2> DEFINE f == [y \in Nodes \cup {HeadNode} |-> IF y \in places THEN rest(y) ELSE <<>>]
    <2>1. ASSUME NEW y \in Nodes \cup {HeadNode}
          PROVE  f[y] = IF next(y) \notin {NilNode, NoLink} THEN <<next(y)>> \o f[next(y)] ELSE <<>>
      <3>1. CASE y \notin places
        BY <1>4, <3>1
      <3>2. CASE y \in places /\ next(y) \in P
        BY <1>2, <1>5, <1>7, <3>2
      <3>3. CASE y \in places /\ next(y) \notin P
        BY <1>6, <1>8, <3>3
      <3>4. QED
        BY <3>1, <3>2, <3>3
    <2>2. Iterates(sl, f)
      BY <1>1, <2>1 DEF Iterates, next
    <2>3. QED
      BY <2>2
  <1> DEFINE g == CHOOSE f : Iterates(sl, f)
  <1>10. Iterates(sl, g) /\ Iter(sl) = g[HeadNode]
    BY <1>9 DEF Iter, Iterates
  <1> HIDE DEF g
  <1>11. \A y \in places : g[y] = IF next(y) \notin {NilNode, NoLink}
                                  THEN <<next(y)>> \o g[next(y)] ELSE <<>>
    BY <1>1, <1>2, <1>10 DEF Iterates, next
  <1> DEFINE G == {y \in places : g[y] = rest(y)}
  <1>12. ASSUME NEW y \in places, \A z \in P : Ahead(y, z) => z \in G
         PROVE  y \in G
    <2>1. CASE next(y) \in P
      <3>1. g[next(y)] = rest(next(y))
        BY <1>5, <1>6, <1>12, <2>1
      <3>2. QED
        BY <1>5, <1>7, <1>11, <2>1, <3>1
    <2>2. CASE next(y) \notin P
      BY <1>6, <1>8, <1>11, <2>2
    <2>3. QED
      BY <2>1, <2>2
  <1>13. HeadNode \in G
    <2> HIDE DEF G
    <2>1. places \subseteq G
      BY <1>2, <1>12, Backwards
    <2>2. QED
      BY <2>1
  <1>14. Behind(P, HeadNode) = P
    BY DEF Behind, Ahead
  <1>15. QED
    BY <1>10, <1>13, <1>14 DEF rest

\* rank_of counts the pairs in front.
LEMMA RankOfCounts ==
  ASSUME NEW sl, NEW P, SkipOK(sl, P), NEW x \in Nodes
  PROVE  RankOf(sl, x) = IF x \in P THEN Cardinality(Under(Up, P, x)) ELSE -1
  <1> DEFINE s == Line(Up, P)
             N == Len(s)
             T == {j \in 1..N : NodeLess(s[j], x)}
  <1>1. P \in SUBSET Nodes /\ IsFiniteSet(P)
    BY DEF SkipOK
  <1>2. Orders(Up, P) /\ Lists(Up, s, P)
    BY <1>1, UpOrders, LineLists
  <1>3. Iter(sl) = s
    BY IterIsLine
  <1> HIDE DEF s
  <1>4. /\ s \in Seq(P) /\ N \in Nat
        /\ \A j \in 1..N : s[j] \in P /\ s[j] \in Nodes
        /\ \A y \in P : \E j \in 1..N : s[j] = y
    BY <1>1, <1>2 DEF Lists
  <1>5. \A i, j \in 1..N : i < j => NodeLess(s[i], s[j])
    BY <1>2, <1>4, UpIsNodeLess DEF Lists
  <1> HIDE DEF N
  <1> DEFINE Stops(n) == /\ \A j \in 1..n : NodeLess(s[j], x)
                         /\ n < N => ~NodeLess(s[n + 1], x)
             rank == CHOOSE n \in 0..N : Stops(n)
  <1>6. \E n \in 0..N : Stops(n)
    <2>1. CASE T = {}
      <3>1. 0 < N => 1 \in 1..N
        BY <1>4
      <3>2. Stops(0)
        BY <2>1, <3>1
      <3>3. 0 \in 0..N
        BY <1>4
      <3>4. QED
        BY <3>2, <3>3
    <2>2. CASE T # {}
      <3>1. AllNumbers(T) /\ IsFiniteSet(T)
        <4>1. IsFiniteSet(1..N)
          BY <1>4, FS_Interval
        <4>2. IsFiniteSet(T)
          BY <4>1, FS_Subset
        <4>3. QED
          BY <1>4, <4>2 DEF AllNumbers
      <3>2. PICK m \in T : \A i \in T : i <= m
        <4> HIDE DEF T
        <4>1. QED
          BY <2>2, <3>1, HasHighest
      <3>3. m \in 1..N /\ m \in 0..N /\ NodeLess(s[m], x)
        BY <1>4
      <3>4. \A j \in 1..m : NodeLess(s[j], x)
        <4>1. ASSUME NEW j \in 1..m
              PROVE  NodeLess(s[j], x)
          <5>1. j \in 1..N /\ (j = m \/ j < m)
            BY <1>4, <3>3
          <5>2. CASE j < m
            BY <1>4, <1>5, <3>3, <5>1, <5>2, NodesCompare
          <5>3. QED
            BY <3>3, <5>1, <5>2
        <4>2. QED
          BY <4>1
      <3>5. m < N => ~NodeLess(s[m + 1], x)
        <4>1. SUFFICES ASSUME m < N, NodeLess(s[m + 1], x) PROVE FALSE
          OBVIOUS
        <4>2. m + 1 \in 1..N /\ ~(m + 1 <= m)
          BY <1>4, <3>3, <4>1
        <4>3. m + 1 \in T
          BY <4>1, <4>2
        <4>4. QED
          BY <3>2, <4>2, <4>3
      <3>6. QED
        BY <3>3, <3>4, <3>5
    <2>3. QED
      BY <2>1, <2>2
  <1>7. rank \in 0..N /\ Stops(rank)
    <2> HIDE DEF Stops
    <2>1. QED
      BY <1>6
  <1>8. RankOf(sl, x) = IF rank < N /\ s[rank + 1] = x THEN rank ELSE -1
    BY <1>3 DEF RankOf, N
  <1> HIDE DEF rank
  <1>9. CASE x \notin P
    <2>1. rank < N => rank + 1 \in 1..N
      BY <1>4, <1>7
    <2>2. QED
      BY <1>4, <1>8, <1>9, <2>1
  <1>10. CASE x \in P
    <2>1. PICK j \in 1..N : s[j] = x
      BY <1>4, <1>10
    <2>2. ~(j <= rank)
      <3>1. SUFFICES ASSUME j <= rank PROVE FALSE
        OBVIOUS
      <3>2. j \in 1..rank
        BY <1>4, <1>7, <3>1
      <3>3. QED
        BY <1>7, <2>1, <3>2, NodesCompare
    <2>3. ~(rank + 1 < j)
      <3>1. SUFFICES ASSUME rank + 1 < j PROVE FALSE
        OBVIOUS
      <3>2. rank + 1 \in 1..N /\ rank < N
        BY <1>4, <1>7, <3>1
      <3>3. NodeLess(s[rank + 1], x)
        BY <1>5, <2>1, <3>1, <3>2
      <3>4. QED
        BY <1>7, <3>2, <3>3
    <2>4. rank = j - 1 /\ rank < N /\ rank + 1 = j
      BY <1>4, <1>7, <2>2, <2>3
    <2>5. Cardinality(Under(Up, P, s[j])) = j - 1
      BY <1>2, ListsIsLine DEF N
    <2>6. QED
      BY <1>8, <1>10, <2>1, <2>4, <2>5
  <1>11. QED
    BY <1>9, <1>10

-----------------------------------------------------------------------------
(* The whole.                                                              *)

\* Whatever was inserted at whatever height and removed, in whatever order: insert and
\* remove (src/db/skiplist.rs) leave a list of exactly the pairs they should, a search
\* finds the pairs that are in it, iter lists them in order and rank_of is the number
\* of pairs in front.
THEOREM SkipListHoldsItsPairs ==
  /\ SkipOK(NewSkipList, {})
  /\ \A sl, P : SkipOK(sl, P) =>
       /\ Iter(sl) = Line(Up, P)
       /\ \A x \in Nodes :
            /\ \A height \in 1..MaxLevel : SkipOK(Insert(sl, x, height), P \cup {x})
            /\ SkipOK(Remove(sl, x), P \ {x})
            /\ Found(sl, x) = x <=> x \in P
            /\ RankOf(sl, x) = IF x \in P THEN Cardinality(Under(Up, P, x)) ELSE -1
  BY NewSkipOK, IterIsLine, InsertOK, RemoveOK, FoundIfThere, RankOfCounts
=============================================================================
