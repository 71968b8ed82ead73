----------------------------- MODULE ListsProofs -----------------------------
(***************************************************************************)
(* Lists: what the methods of ListOps do to a well-formed logical          *)
(* database, and what follows for every list command, whatever the keys,   *)
(* the elements, the indices and the order of the commands.                *)
(***************************************************************************)
EXTENDS ListsProps, EffectProofs, FiniteSetTheorems, WellFoundedInduction

-----------------------------------------------------------------------------
(* How often an element occurs.                                            *)

Places(s, v) == {p \in 1..Len(s) : s[p] = v}

Count(s, v) == Cardinality(Places(s, v))

One(x, v) == IF x = v THEN 1 ELSE 0

LEMMA PlacesFinite ==
  ASSUME NEW S, NEW s \in Seq(S), NEW v
  PROVE  IsFiniteSet(Places(s, v)) /\ Count(s, v) \in Nat
  <1>1. IsFiniteSet(1..Len(s)) /\ Places(s, v) \in SUBSET (1..Len(s))
    BY FS_Interval DEF Places
  <1>2. IsFiniteSet(Places(s, v))
    BY <1>1, FS_Subset
  <1>3. QED
    BY <1>2, FS_CardinalityType DEF Count

LEMMA CountAppend ==
  ASSUME NEW S, NEW s \in Seq(S), NEW x \in S, NEW v
  PROVE  Count(Append(s, x), v) = Count(s, v) + One(x, v)
  <1> DEFINE n == Len(s) + 1
             P == Places(s, v)
             Q == Places(Append(s, x), v)
  <1>1. Len(Append(s, x)) = n /\ n \in Nat /\ Append(s, x)[n] = x
        /\ \A p \in 1..Len(s) : Append(s, x)[p] = s[p]
    OBVIOUS
  <1>2. 1..n = (1..Len(s)) \cup {n} /\ n \notin 1..Len(s)
    OBVIOUS
  <1>3. n \notin P /\ Q = IF x = v THEN P \cup {n} ELSE P
    BY <1>1, <1>2 DEF Places
  <1>4. IsFiniteSet(P) /\ Cardinality(P) \in Nat
    BY PlacesFinite DEF Count
  <1> HIDE DEF P, Q, n
  <1>5. Cardinality(Q) = Cardinality(P) + One(x, v)
    <2>1. CASE x = v
      <3>1. Cardinality(P \cup {n}) = Cardinality(P) + 1
        BY <1>3, <1>4, FS_AddElement
      <3>2. QED
        BY <1>3, <2>1, <3>1 DEF One
    <2>2. CASE x # v
      BY <1>3, <1>4, <2>2 DEF One
    <2>3. QED
      BY <2>1, <2>2
  <1>6. QED
    BY <1>5 DEF Count, P, Q

\* The same places, one further on.
LEMMA ShiftedPlaces ==
  ASSUME NEW S \in SUBSET Nat, IsFiniteSet(S)
  PROVE  LET T == {p + 1 : p \in S}
         IN  IsFiniteSet(T) /\ Cardinality(T) = Cardinality(S)
  <1> DEFINE T == {p + 1 : p \in S}
             f == [p \in S |-> p + 1]
  <1>1. f \in [S -> T]
    OBVIOUS
  <1>2. \A p, q \in S : f[p] = f[q] => p = q
    OBVIOUS
  <1>3. \A t \in T : \E p \in S : f[p] = t
    OBVIOUS
  <1> HIDE DEF f, T
  <1>4. f \in Bijection(S, T)
    BY <1>1, <1>2, <1>3 DEF Bijection, Injection, Surjection, IsInjective
  <1>5. ExistsBijection(S, T)
    BY <1>4 DEF ExistsBijection
  <1>6. IsFiniteSet(T) /\ Cardinality(T) = Cardinality(S)
    BY <1>5, FS_Bijection
  <1>7. QED
    BY <1>6 DEF T

LEMMA CountPrepend ==
  ASSUME NEW S, NEW s \in Seq(S), NEW x \in S, NEW v
  PROVE  Count(<<x>> \o s, v) = Count(s, v) + One(x, v)
  <1> DEFINE w == <<x>> \o s
             P == Places(s, v)
             Q == Places(w, v)
             T == {p + 1 : p \in P}
  <1>1. Len(w) = Len(s) + 1 /\ Len(s) \in Nat /\ w[1] = x
        /\ \A p \in 1..Len(s) : w[p + 1] = s[p]
    OBVIOUS
  <1>2. IsFiniteSet(P) /\ P \in SUBSET Nat /\ 1 \notin T
    <2>1. IsFiniteSet(P)
      BY PlacesFinite
    <2>2. \A p \in P : p \in Nat /\ p + 1 # 1
      BY <1>1 DEF Places
    <2> HIDE DEF P
    <2>3. QED
      BY <2>1, <2>2
  <1>3. IsFiniteSet(T) /\ Cardinality(T) = Cardinality(P)
    <2> HIDE DEF P
    <2>1. QED
      BY <1>2, ShiftedPlaces
  <1>4. Q = IF x = v THEN T \cup {1} ELSE T
    <2>1. \A q \in 1..Len(w) : q = 1 \/ (q - 1 \in 1..Len(s) /\ q = (q - 1) + 1)
      BY <1>1
    <2>2. \A q \in 1..Len(w) : q # 1 => w[q] = s[q - 1]
      <3>1. SUFFICES ASSUME NEW q \in 1..Len(w), q # 1
                     PROVE  w[q] = s[q - 1]
        OBVIOUS
      <3>2. q - 1 \in 1..Len(s) /\ (q - 1) + 1 = q
        BY <2>1, <3>1
      <3> HIDE DEF w
      <3>3. QED
        BY <1>1, <3>2
    <2>3. \A q : q \in T <=> q \in 1..Len(w) /\ q # 1 /\ w[q] = v
      <3>1. ASSUME NEW q \in T
            PROVE  q \in 1..Len(w) /\ q # 1 /\ w[q] = v
        <4>1. PICK p \in P : q = p + 1
          OBVIOUS
        <4>2. p \in 1..Len(s) /\ s[p] = v
          BY DEF Places
        <4> HIDE DEF w
        <4>3. QED
          BY <1>1, <4>1, <4>2
      <3>2. ASSUME NEW q \in 1..Len(w), q # 1, w[q] = v
            PROVE  q \in T
        <4>1. q - 1 \in 1..Len(s) /\ q = (q - 1) + 1 /\ s[q - 1] = v
          BY <2>1, <2>2, <3>2
        <4>2. q - 1 \in P
          BY <4>1 DEF Places
        <4> HIDE DEF P
        <4>3. QED
          BY <4>1, <4>2
      <3>3. QED
        BY <3>1, <3>2
    <2>4. 1 \in 1..Len(w)
      BY <1>1
    <2> HIDE DEF w, T
    <2>5. QED
      BY <1>1, <2>3, <2>4 DEF Places
  <1> HIDE DEF P, Q, T
  <1>5. Cardinality(P) \in Nat
    BY <1>2, FS_CardinalityType
  <1>6. Cardinality(Q) = Cardinality(P) + One(x, v)
    <2>1. CASE x = v
      <3>1. Cardinality(T \cup {1}) = Cardinality(T) + 1
        BY <1>2, <1>3, FS_AddElement
      <3>2. QED
        BY <1>3, <1>4, <2>1, <3>1 DEF One
    <2>2. CASE x # v
      BY <1>3, <1>4, <1>5, <2>2 DEF One
    <2>3. QED
      BY <2>1, <2>2
  <1>7. QED
    BY <1>6 DEF Count, P, Q

LEMMA PushedCounts ==
  ASSUME NEW S, NEW s \in Seq(S), NEW x \in S, NEW left \in BOOLEAN, NEW v
  PROVE  /\ Pushed(s, left, x) \in Seq(S) /\ Pushed(s, left, x) # <<>>
         /\ Count(Pushed(s, left, x), v) = Count(s, v) + One(x, v)
  BY CountAppend, CountPrepend DEF Pushed

\* A list is what it becomes without an end, and that end.
LEMMA PoppedCounts ==
  ASSUME NEW S, NEW s \in Seq(S), s # <<>>, NEW left \in BOOLEAN, NEW v
  PROVE  /\ EndOf(s, left) \in S /\ Popped(s, left) \in Seq(S)
         /\ Len(Popped(s, left)) = Len(s) - 1
         /\ Count(s, v) = Count(Popped(s, left), v) + One(EndOf(s, left), v)
  <1>1. CASE left
    <2>1. s[1] \in S /\ Tail(s) \in Seq(S) /\ Len(Tail(s)) = Len(s) - 1
      OBVIOUS
    <2>2. s = <<s[1]>> \o Tail(s)
      OBVIOUS
    <2>3. QED
      BY <1>1, <2>1, <2>2, CountPrepend DEF EndOf, Popped
  <1>2. CASE ~left
    <2> DEFINE n == Len(s) - 1
               front == SubSeq(s, 1, n)
               w == Append(front, s[Len(s)])
    <2>1. n \in Nat /\ n + 1 = Len(s) /\ n <= Len(s) /\ s[Len(s)] \in S
      OBVIOUS
    <2>2. n = Len(s) - 1 /\ 1..Len(s) = (1..n) \cup {n + 1} /\ n + 1 \notin 1..n
      OBVIOUS
    <2> HIDE DEF n
    <2>3. front \in Seq(S) /\ Len(front) = n /\ \A p \in 1..n : front[p] = s[p]
      BY <2>1
    <2> HIDE DEF front
    <2>4. /\ w \in Seq(S) /\ Len(w) = n + 1 /\ w[n + 1] = s[Len(s)]
          /\ \A p \in 1..n : w[p] = front[p]
      BY <2>1, <2>3
    <2>5. \A p \in 1..Len(s) : w[p] = s[p]
      BY <2>1, <2>2, <2>3, <2>4
    <2>6. s = w
      <3> HIDE DEF w
      <3>1. QED
        BY <2>1, <2>4, <2>5, SeqEqual
    <2>7. Count(w, v) = Count(front, v) + One(s[Len(s)], v)
      BY <2>1, <2>3, CountAppend
    <2> HIDE DEF w
    <2>8. QED
      BY <1>2, <2>1, <2>2, <2>3, <2>6, <2>7 DEF EndOf, Popped, front, n
  <1>3. QED
    BY <1>1, <1>2

-----------------------------------------------------------------------------
(* A list without some of its places.                                      *)

LEMMA LeastNatural ==
  ASSUME NEW T \in SUBSET Nat, T # {}
  PROVE  \E x \in T : \A y \in T : x <= y
  <1> DEFINE R == OpToRel(<, Nat)
  <1>1. IsWellFoundedOn(R, Nat)
    BY NatLessThanWellFounded
  <1> HIDE DEF R
  <1>2. PICK x \in T : \A y \in T : ~(<<y, x>> \in R)
    BY <1>1, WFMin
  <1>3. \A y \in T : ~(y < x)
    BY <1>2 DEF OpToRel, R
  <1>4. QED
    BY <1>3

UpTo(S, i) == {h \in S : h <= i}

\* Counting the members of a set of numbers upwards passes every number up to
\* their count, and reaches it at a member.
LEMMA RankReached ==
  ASSUME NEW n \in Nat, NEW kept \in SUBSET (1..n), NEW j \in 1..Cardinality(kept)
  PROVE  \E i \in kept : Cardinality(UpTo(kept, i)) = j
  <1>0. \A h \in kept : h \in Int /\ 1 <= h /\ h <= n
    OBVIOUS
  <1>1. IsFiniteSet(kept) /\ Cardinality(kept) \in Nat
    <2>1. IsFiniteSet(1..n)
      BY FS_Interval
    <2>2. QED
      BY <2>1, FS_Subset, FS_CardinalityType
  <1>2. \A i : IsFiniteSet(UpTo(kept, i)) /\ Cardinality(UpTo(kept, i)) \in Nat
    BY <1>1, FS_Subset, FS_CardinalityType DEF UpTo
  <1> DEFINE T == {i \in 0..n : Cardinality(UpTo(kept, i)) >= j}
  <1>3. n \in T
    <2>1. UpTo(kept, n) = kept
      BY <1>0 DEF UpTo
    <2>2. QED
      BY <1>1, <2>1
  <1>4. PICK x \in T : \A y \in T : x <= y
    <2>1. T \in SUBSET Nat /\ T # {}
      BY <1>3
    <2> HIDE DEF T
    <2>2. QED
      BY <2>1, LeastNatural
  <1>5. x \in 0..n /\ Cardinality(UpTo(kept, x)) >= j
    BY <1>4
  <1>6. x # 0
    <2>1. UpTo(kept, 0) = {}
      <3>1. \A h \in kept : ~(h <= 0)
        BY <1>0
      <3>2. QED
        BY <3>1 DEF UpTo
    <2>2. Cardinality(UpTo(kept, 0)) = 0
      BY <2>1, FS_EmptySet
    <2>3. QED
      BY <1>5, <2>2
  <1>7. x - 1 \in 0..n /\ ~(x <= x - 1)
    BY <1>5, <1>6
  <1>8. Cardinality(UpTo(kept, x - 1)) < j
    <2>1. x - 1 \notin T
      BY <1>4, <1>7
    <2>2. QED
      BY <1>2, <1>7, <2>1
  <1>9. x \notin UpTo(kept, x - 1)
        /\ UpTo(kept, x) = IF x \in kept THEN UpTo(kept, x - 1) \cup {x}
                           ELSE UpTo(kept, x - 1)
    <2>1. x \in Nat
      BY <1>5
    <2>2. \A h \in kept : /\ h <= x <=> (h <= x - 1 \/ h = x)
                          /\ ~(x <= x - 1)
      BY <1>0, <2>1
    <2>3. x \notin UpTo(kept, x - 1)
      BY <2>2 DEF UpTo
    <2>4. \A h : h \in UpTo(kept, x) <=> h \in UpTo(kept, x - 1) \/ (h = x /\ x \in kept)
      BY <2>2 DEF UpTo
    <2>5. QED
      BY <2>3, <2>4
  <1>10. x \in kept
    BY <1>2, <1>5, <1>8, <1>9
  <1>11. Cardinality(UpTo(kept, x)) = Cardinality(UpTo(kept, x - 1)) + 1
    BY <1>2, <1>9, <1>10, FS_AddElement
  <1>12. Cardinality(UpTo(kept, x)) = j
    BY <1>2, <1>5, <1>8, <1>11
  <1>13. QED
    BY <1>10, <1>12

\* LREM leaves a list as long as what it keeps.
LEMMA WithoutSeq ==
  ASSUME NEW S, NEW s \in Seq(S), NEW D
  PROVE  /\ Without(s, D) \in Seq(S)
         /\ Len(Without(s, D)) = Cardinality((1..Len(s)) \ D)
  <1> DEFINE kept == (1..Len(s)) \ D
             n == Cardinality(kept)
             at(j) == CHOOSE i \in kept : Cardinality({h \in kept : h <= i}) = j
  <1>1. n \in Nat /\ kept \in SUBSET (1..Len(s)) /\ Len(s) \in Nat
    <2>1. IsFiniteSet(1..Len(s)) /\ kept \in SUBSET (1..Len(s)) /\ Len(s) \in Nat
      BY FS_Interval
    <2> HIDE DEF kept
    <2>2. QED
      BY <2>1, FS_Subset, FS_CardinalityType
  <1>2. ASSUME NEW j \in 1..n
        PROVE  s[at(j)] \in S
    <2>1. \E i \in kept : Cardinality({h \in kept : h <= i}) = j
      <3> HIDE DEF kept
      <3>1. \E i \in kept : Cardinality(UpTo(kept, i)) = j
        BY <1>1, RankReached
      <3>2. QED
        BY <3>1 DEF UpTo
    <2>2. at(j) \in kept
      BY <2>1
    <2> HIDE DEF at
    <2>3. QED
      BY <2>2
  <1>3. Without(s, D) = [j \in 1..n |-> s[at(j)]]
    BY DEF Without
  <1> HIDE DEF at, n
  <1>4. Without(s, D) \in [1..n -> S]
    BY <1>2, <1>3
  <1>5. Without(s, D) \in Seq(S) /\ Len(Without(s, D)) = n
    <2> DEFINE f == Without(s, D)
    <2>1. f \in [1..n -> S]
      BY <1>4
    <2> HIDE DEF f
    <2>2. f \in Seq(S) /\ Len(f) = IF n > 0 THEN n ELSE 0
      BY <1>1, <2>1, TableSeq
    <2>3. QED
      BY <1>1, <2>2 DEF f
  <1>6. QED
    BY <1>5 DEF n

-----------------------------------------------------------------------------
(* The list methods.                                                       *)

NoNewEmpty(l, w) == \A k \in Keys : EmptyList(w, k) => EmptyList(l, k)

\* What every list method but LREM does to a well-formed database.
Sound(l, w) == WellFormed(w) /\ Keeps(l, w) /\ NoNewEmpty(l, w)

LEMMA SoundStart ==
  ASSUME NEW l, WellFormed(l), NEW k \in Keys, NEW t
  PROVE  /\ Sound(l, l) /\ Sound(l, RemoveKey(l, k)) /\ Sound(l, GetMut(l, k, t))
         /\ Stored(GetMut(l, k, t), k) => GetMut(l, k, t) = l
  <1>1. Sound(l, l)
    BY KeepsItself DEF Sound, NoNewEmpty
  <1>2. NoNewEmpty(l, RemoveKey(l, k))
    BY DEF NoNewEmpty, EmptyList, ListStored, RemoveKey, Stored, WellFormed, LDBs
  <1>3. Sound(l, RemoveKey(l, k))
    BY <1>2, RemoveWF, RemoveKeeps DEF Sound
  <1>4. QED
    BY <1>1, <1>3 DEF GetMut, RemoveKey, Stored, WellFormed, LDBs

\* A list found under a key.
LEMMA ListFound ==
  ASSUME NEW l, WellFormed(l), NEW k \in Keys, Stored(l, k), IsList(l.data[k])
  PROVE  l.data[k].val \in Seq(Chunks)
  BY SeqObject DEF WellFormed, LDBs, Stored, IsList

\* The sequence s written in place of a list, or as a new one.
LEMMA ListWritten ==
  ASSUME NEW l, WellFormed(l), NEW k \in Keys, NEW s \in Seq(Chunks)
  PROVE  LET w == Write(l, k, ListObj(s))
         IN  /\ WellFormed(w) /\ Keeps(l, w) /\ (s # <<>> => Sound(l, w))
             /\ w.data[k] = ListObj(s)
             /\ \A j \in Keys : j # k => w.data[j] = l.data[j]
  <1> DEFINE w == Write(l, k, ListObj(s))
  <1>1. WellFormed(w) /\ Keeps(l, w)
    BY StrObject, WriteWF, WriteKeeps
  <1>2. w.data[k] = ListObj(s) /\ \A j \in Keys : j # k => w.data[j] = l.data[j]
    BY DEF Write, WellFormed, LDBs
  <1>3. ListObj(s).val = s
    BY DEF ListObj
  <1> HIDE DEF w
  <1>4. s # <<>> => NoNewEmpty(l, w)
    BY <1>2, <1>3 DEF NoNewEmpty, EmptyList, ListStored, Stored
  <1>5. QED
    BY <1>1, <1>2, <1>4 DEF Sound, w

LEMMA EntryFound ==
  ASSUME NEW l, WellFormed(l), NEW k \in Keys
  PROVE  LET e == EntryOr(l, k, ListObj(<<>>))
         IN  /\ WellFormed(e) /\ (~IsList(e.data[k]) => e = l)
             /\ IsList(e.data[k]) =>
                  /\ e.data[k].val \in Seq(Chunks)
                  /\ e.data[k].val = IF Stored(l, k) THEN l.data[k].val ELSE <<>>
             /\ \A o : Write(e, k, o) = Write(l, k, o)
  <1> DEFINE e == EntryOr(l, k, ListObj(<<>>))
  <1>1. WellFormed(e) /\ e.data[k] \in Objects
    BY Starters, EntryWF
  <1>2. ~Stored(l, k) => e.data[k] = ListObj(<<>>)
    BY DEF EntryOr, Write, WellFormed, LDBs
  <1>3. Stored(l, k) => e = l
    BY DEF EntryOr
  <1>4. \A o : Write(e, k, o) = Write(l, k, o)
    BY DEF EntryOr, Write, WellFormed, LDBs
  <1> HIDE DEF e
  <1>5. IsList(e.data[k]) => e.data[k].val \in Seq(Chunks)
    BY <1>1, SeqObject DEF IsList
  <1>6. QED
    BY <1>1, <1>2, <1>3, <1>4, <1>5, Starters DEF e

LEMMA ReversedSeq ==
  ASSUME NEW S, NEW s \in Seq(S)
  PROVE  Reversed(s) \in Seq(S) /\ Len(Reversed(s)) = Len(s)
  <1>1. \A j \in 1..Len(s) : Len(s) + 1 - j \in 1..Len(s)
    OBVIOUS
  <1>2. Reversed(s) \in [1..Len(s) -> S] /\ Len(s) \in Int /\ Len(s) >= 0
    BY <1>1 DEF Reversed
  <1> DEFINE f == Reversed(s)
  <1> HIDE DEF f
  <1>3. f \in Seq(S) /\ Len(f) = IF Len(s) > 0 THEN Len(s) ELSE 0
    BY <1>2, TableSeq DEF f
  <1>4. QED
    BY <1>2, <1>3 DEF f

LEMMA PushSound ==
  ASSUME NEW l, WellFormed(l), NEW k \in Keys, NEW v \in Seq(Chunks), v # <<>>, NEW t
  PROVE  /\ Sound(l, RPush(l, k, v).ldb) /\ Sound(l, LPush(l, k, v).ldb)
         /\ Sound(l, RPushX(l, k, v, t).ldb) /\ Sound(l, LPushX(l, k, v, t).ldb)
  <1>0. Reversed(v) \in Seq(Chunks) /\ Reversed(v) # <<>>
    BY ReversedSeq
  <1>1. Sound(l, RPush(l, k, v).ldb) /\ Sound(l, LPush(l, k, v).ldb)
    <2> DEFINE e == EntryOr(l, k, ListObj(<<>>))
               old == e.data[k].val
    <2>1. ~IsList(e.data[k]) => e = l
      BY EntryFound
    <2>2. IsList(e.data[k]) =>
            /\ old \o v \in Seq(Chunks) /\ old \o v # <<>>
            /\ Reversed(v) \o old \in Seq(Chunks) /\ Reversed(v) \o old # <<>>
      <3>1. IsList(e.data[k]) => old \in Seq(Chunks)
        BY EntryFound
      <3> HIDE DEF e
      <3>2. QED
        BY <1>0, <3>1
    <2>3. \A o : Write(e, k, o) = Write(l, k, o)
      BY EntryFound
    <2>4. IsList(e.data[k]) => /\ Sound(l, Write(e, k, ListObj(old \o v)))
                               /\ Sound(l, Write(e, k, ListObj(Reversed(v) \o old)))
      <3> HIDE DEF e
      <3>1. QED
        BY <2>2, <2>3, ListWritten
    <2>5. Sound(l, l)
      BY SoundStart
    <2>6. QED
      BY <2>1, <2>4, <2>5 DEF RPush, LPush, Out
  <1>2. Sound(l, RPushX(l, k, v, t).ldb) /\ Sound(l, LPushX(l, k, v, t).ldb)
    <2> DEFINE e == GetMut(l, k, t)
               old == e.data[k].val
    <2>1. Sound(l, e) /\ (Stored(e, k) => e = l)
      BY SoundStart
    <2>2. Stored(e, k) /\ IsList(e.data[k]) =>
            /\ old \o v \in Seq(Chunks) /\ old \o v # <<>>
            /\ Reversed(v) \o old \in Seq(Chunks) /\ Reversed(v) \o old # <<>>
      <3>1. Stored(e, k) /\ IsList(e.data[k]) => old \in Seq(Chunks)
        BY <2>1, ListFound
      <3> HIDE DEF e
      <3>2. QED
        BY <1>0, <3>1
    <2>3. Stored(e, k) /\ IsList(e.data[k]) =>
            /\ Sound(l, Write(e, k, ListObj(old \o v)))
            /\ Sound(l, Write(e, k, ListObj(Reversed(v) \o old)))
      <3> HIDE DEF e
      <3>1. QED
        BY <2>1, <2>2, ListWritten
    <2>4. QED
      BY <2>1, <2>3 DEF RPushX, LPushX, OnListMut, Out
  <1>3. QED
    BY <1>1, <1>2

LEMMA PopSound ==
  ASSUME NEW l, WellFormed(l), NEW k \in Keys, NEW n \in Nat
  PROVE  Sound(l, LPop(l, k, n).ldb) /\ Sound(l, RPop(l, k, n).ldb)
  <1> DEFINE old == l.data[k].val
             m == IF n < Len(old) THEN n ELSE Len(old)
             front == SubSeq(old, 1, Len(old) - m)
             back == SubSeq(old, m + 1, Len(old))
  <1>1. Sound(l, l) /\ Sound(l, RemoveKey(l, k))
    BY SoundStart
  <1>2. Stored(l, k) /\ IsList(l.data[k]) => front \in Seq(Chunks) /\ back \in Seq(Chunks)
    <2>1. Stored(l, k) /\ IsList(l.data[k]) => old \in Seq(Chunks)
      BY ListFound
    <2>2. old \in Seq(Chunks) => m \in 0..Len(old)
      OBVIOUS
    <2> HIDE DEF old, m
    <2>3. QED
      BY <2>1, <2>2
  <1>3. Stored(l, k) /\ IsList(l.data[k]) =>
          /\ front # <<>> => Sound(l, Write(l, k, ListObj(front)))
          /\ back # <<>> => Sound(l, Write(l, k, ListObj(back)))
    BY <1>2, ListWritten
  <1>4. LPop(l, k, n).ldb = IF ~Stored(l, k) \/ ~IsList(l.data[k]) \/ n > ReserveMax THEN l
                            ELSE IF back = <<>> THEN RemoveKey(l, k)
                            ELSE Write(l, k, ListObj(back))
    BY DEF LPop, Out
  <1>5. RPop(l, k, n).ldb = IF ~Stored(l, k) \/ ~IsList(l.data[k]) \/ n > ReserveMax THEN l
                            ELSE IF front = <<>> THEN RemoveKey(l, k)
                            ELSE Write(l, k, ListObj(front))
    BY DEF RPop, Out
  <1> HIDE DEF front, back
  <1>6. QED
    BY <1>1, <1>3, <1>4, <1>5

\* normalize_index yields a position, and one inside the list for every negative
\* index.
LEMMA NormalizedIndex ==
  ASSUME NEW i \in Int, NEW len \in Nat
  PROVE  /\ NormalizeIndex(i, len) \in Nat
         /\ len # 0 /\ i >= 0 => NormalizeIndex(i, len) = i
         /\ len # 0 /\ i < 0 => NormalizeIndex(i, len) < len
         /\ i < 0 /\ len + i >= 0 => NormalizeIndex(i, len) = len + i
  BY DEF NormalizeIndex

LEMMA SliceSeq ==
  ASSUME NEW S, NEW s \in Seq(S), NEW m \in Int, NEW n \in Int
  PROVE  Slice(s, m, n) \in Seq(S)
  <1> DEFINE len   == Len(s)
             first == NormalizeIndex(m, len)
             stop0 == NormalizeIndex(n, len)
             final == IF stop0 < len THEN stop0 ELSE len - 1
  <1>1. len \in Nat /\ first \in Nat /\ stop0 \in Nat
    <2>1. len \in Nat
      OBVIOUS
    <2> HIDE DEF len
    <2>2. QED
      BY <2>1, NormalizedIndex
  <1>2. final \in Int /\ final < len
    BY <1>1
  <1>3. ~(len = 0 \/ first > final) => SubSeq(s, first + 1, final + 1) \in Seq(S)
    <2> HIDE DEF first, final
    <2>1. QED
      BY <1>1, <1>2
  <1>4. Slice(s, m, n) = IF len = 0 \/ first > final THEN <<>>
                         ELSE SubSeq(s, first + 1, final + 1)
    BY DEF Slice
  <1> HIDE DEF len, first, final
  <1>5. QED
    BY <1>3, <1>4

LEMMA LTrimSound ==
  ASSUME NEW l, WellFormed(l), NEW k \in Keys, NEW m \in Int, NEW n \in Int
  PROVE  Sound(l, LTrim(l, k, m, n).ldb)
  <1> DEFINE w == Slice(l.data[k].val, m, n)
  <1>1. Stored(l, k) /\ IsList(l.data[k]) => w \in Seq(Chunks)
    BY ListFound, SliceSeq
  <1>2. LTrim(l, k, m, n).ldb = IF ~Stored(l, k) \/ ~IsList(l.data[k]) THEN l
                                ELSE IF w = <<>> THEN RemoveKey(l, k)
                                ELSE Write(l, k, ListObj(w))
    BY DEF LTrim, Out
  <1> HIDE DEF w
  <1>3. QED
    BY <1>1, <1>2, SoundStart, ListWritten

LEMMA LSetSound ==
  ASSUME NEW l, WellFormed(l), NEW k \in Keys, NEW n \in Int, NEW v \in Chunks, NEW t
  PROVE  Sound(l, LSet(l, k, n, v, t).ldb)
  <1> DEFINE e == GetMut(l, k, t)
             old == e.data[k].val
             i == NormalizeIndex(n, Len(old)) + 1
             w == [old EXCEPT ![i] = v]
  <1>1. Sound(l, e) /\ (Stored(e, k) => e = l)
    BY SoundStart
  <1>2. Stored(e, k) /\ IsList(e.data[k]) => old \in Seq(Chunks)
    BY <1>1, ListFound
  <1>3. Stored(e, k) /\ IsList(e.data[k]) /\ ~(i > Len(old)) => w \in Seq(Chunks) /\ w # <<>>
    <2>1. SUFFICES ASSUME old \in Seq(Chunks), ~(i > Len(old))
                   PROVE  w \in Seq(Chunks) /\ w # <<>>
      BY <1>2
    <2> HIDE DEF old
    <2>2. i \in 1..Len(old)
      <3>1. Len(old) \in Nat
        BY <2>1
      <3>2. NormalizeIndex(n, Len(old)) \in Nat
        BY <3>1, NormalizedIndex
      <3>3. QED
        BY <2>1, <3>1, <3>2
    <2> HIDE DEF i
    <2>3. QED
      BY <2>1, <2>2
  <1>4. LSet(l, k, n, v, t).ldb =
          IF Stored(e, k) /\ IsList(e.data[k]) /\ ~(i > Len(old))
          THEN Write(e, k, ListObj(w)) ELSE e
    BY DEF LSet, OnListMut, Out
  <1> HIDE DEF e, i, w
  <1>5. QED
    BY <1>1, <1>3, <1>4, ListWritten

LEMMA LInsertSound ==
  ASSUME NEW l, WellFormed(l), NEW k \in Keys, NEW before \in BOOLEAN, NEW pivot,
         NEW v \in Chunks, NEW t
  PROVE  Sound(l, LInsert(l, k, before, pivot, v, t).ldb)
  <1> DEFINE e == GetMut(l, k, t)
             old == e.data[k].val
             at == {i \in 1..Len(old) : old[i] = pivot}
             first == CHOOSE i \in at : \A j \in at : i <= j
             n == IF before THEN first - 1 ELSE first
             w == SubSeq(old, 1, n) \o <<v>> \o SubSeq(old, n + 1, Len(old))
  <1>1. Sound(l, e) /\ (Stored(e, k) => e = l)
    BY SoundStart
  <1>2. Stored(e, k) /\ IsList(e.data[k]) => old \in Seq(Chunks)
    BY <1>1, ListFound
  <1>3. Stored(e, k) /\ IsList(e.data[k]) /\ at # {} => w \in Seq(Chunks) /\ w # <<>>
    <2>1. SUFFICES ASSUME old \in Seq(Chunks), at # {}
                   PROVE  w \in Seq(Chunks) /\ w # <<>>
      BY <1>2
    <2> HIDE DEF old
    <2>2. at \in SUBSET Nat
      OBVIOUS
    <2>3. first \in at
      <3> HIDE DEF at
      <3>1. \E i \in at : \A j \in at : i <= j
        BY <2>1, <2>2, LeastNatural
      <3>2. QED
        BY <3>1
    <2>4. first \in 1..Len(old) /\ Len(old) \in Nat
      BY <2>1, <2>3
    <2> HIDE DEF first
    <2>5. n \in 0..Len(old)
      BY <2>4
    <2> HIDE DEF n
    <2>6. SubSeq(old, 1, n) \in Seq(Chunks) /\ SubSeq(old, n + 1, Len(old)) \in Seq(Chunks)
      BY <2>1, <2>4, <2>5
    <2>7. QED
      BY <2>6
  <1>4. LInsert(l, k, before, pivot, v, t).ldb =
          IF Stored(e, k) /\ IsList(e.data[k]) /\ at # {} THEN Write(e, k, ListObj(w)) ELSE e
    BY DEF LInsert, OnListMut, Out
  <1> HIDE DEF e, at, w
  <1>5. QED
    BY <1>1, <1>3, <1>4, ListWritten

\* LREM alone may leave a list without elements, under the key it is about.
LEMMA LRemEffect ==
  ASSUME NEW l, WellFormed(l), NEW k \in Keys, NEW n, NEW v, NEW t
  PROVE  LET w == LRem(l, k, n, v, t).ldb
         IN  /\ WellFormed(w) /\ Keeps(l, w)
             /\ \A j \in Keys : j # k /\ EmptyList(w, j) => EmptyList(l, j)
  <1> DEFINE e == GetMut(l, k, t)
             old == e.data[k].val
             at == {i \in 1..Len(old) : old[i] = v}
             gone == {i \in at :
                       \/ n = 0
                       \/ n > 0 /\ Cardinality({j \in at : j <= i}) <= n
                       \/ n < 0 /\ Cardinality({j \in at : j >= i}) <= -n}
             rest == Without(old, gone)
  <1>1. Sound(l, e) /\ (Stored(e, k) => e = l)
    BY SoundStart
  <1>2. LRem(l, k, n, v, t).ldb =
          IF Stored(e, k) /\ IsList(e.data[k]) THEN Write(e, k, ListObj(rest)) ELSE e
    BY DEF LRem, OnListMut, Out
  <1>3. Stored(e, k) /\ IsList(e.data[k]) => rest \in Seq(Chunks)
    <2>1. Stored(e, k) /\ IsList(e.data[k]) => old \in Seq(Chunks)
      BY <1>1, ListFound
    <2> HIDE DEF old, gone
    <2>2. QED
      BY <2>1, WithoutSeq
  <1> HIDE DEF e, rest
  <1>4. CASE ~(Stored(e, k) /\ IsList(e.data[k]))
    BY <1>1, <1>2, <1>4 DEF Sound, NoNewEmpty
  <1>5. CASE Stored(e, k) /\ IsList(e.data[k])
    <2> DEFINE w == Write(l, k, ListObj(rest))
    <2>1. /\ WellFormed(w) /\ Keeps(l, w)
          /\ \A j \in Keys : j # k => w.data[j] = l.data[j]
      BY <1>3, <1>5, ListWritten
    <2>2. LRem(l, k, n, v, t).ldb = w
      BY <1>1, <1>2, <1>5
    <2> HIDE DEF w
    <2>3. QED
      BY <2>1, <2>2 DEF EmptyList, ListStored, Stored
  <1>6. QED
    BY <1>4, <1>5

-----------------------------------------------------------------------------
(* LMOVE.                                                                  *)

LEMMA OccurrencesAt ==
  ASSUME NEW l, NEW k, NEW v
  PROVE  /\ ListStored(l, k) => Occurrences(l, k, v) = Count(l.data[k].val, v)
         /\ ~ListStored(l, k) => Occurrences(l, k, v) = 0
  BY DEF Occurrences, Count, Places

LEMMA EmptyCount ==
  ASSUME NEW S, NEW s \in Seq(S), Len(s) = 0, NEW v
  PROVE  Count(s, v) = 0
  <1>1. Places(s, v) = {}
    BY DEF Places
  <1>2. QED
    BY <1>1, FS_EmptySet DEF Count

LEMMA OccurrencesNat ==
  ASSUME NEW l, WellFormed(l), NEW k \in Keys, NEW v
  PROVE  Occurrences(l, k, v) \in Nat
  <1>1. ListStored(l, k) => Count(l.data[k].val, v) \in Nat
    BY ListFound, PlacesFinite DEF ListStored
  <1>2. QED
    BY <1>1, OccurrencesAt

\* A list written under k.
LEMMA OccurrencesWritten ==
  ASSUME NEW l, WellFormed(l), NEW k \in Keys, NEW s \in Seq(Chunks), NEW v
  PROVE  LET w == Write(l, k, ListObj(s))
         IN  /\ Occurrences(w, k, v) = Count(s, v)
             /\ \A j \in Keys : j # k => /\ Occurrences(w, j, v) = Occurrences(l, j, v)
                                         /\ w.data[j] = l.data[j] /\ w.expiry[j] = l.expiry[j]
  <1> DEFINE w == Write(l, k, ListObj(s))
  <1>1. w.data[k] = ListObj(s) /\ \A j \in Keys : j # k => w.data[j] = l.data[j]
    BY ListWritten
  <1>2. ListObj(s).val = s /\ IsList(ListObj(s)) /\ ListObj(s) # Absent
    BY StrObject, AbsentAssumption DEF ListObj, IsList
  <1>3. w.expiry = l.expiry
    BY DEF Write
  <1> HIDE DEF w
  <1>4. Occurrences(w, k, v) = Count(s, v)
    BY <1>1, <1>2, OccurrencesAt DEF ListStored, Stored
  <1>5. \A j \in Keys : j # k => Occurrences(w, j, v) = Occurrences(l, j, v)
    BY <1>1 DEF Occurrences, ListStored, Stored
  <1>6. QED
    BY <1>1, <1>3, <1>4, <1>5 DEF w

\* The source has lost one element, and nothing else has changed.
LEMMA ShortenedEffect ==
  ASSUME NEW l, WellFormed(l), NEW k \in Keys, ListStored(l, k), l.data[k].val # <<>>,
         NEW left \in BOOLEAN
  PROVE  LET w == Shortened(l, k, left)
             x == EndOf(l.data[k].val, left)
         IN  /\ x \in Chunks /\ Sound(l, w)
             /\ \A v : Occurrences(l, k, v) = Occurrences(w, k, v) + One(x, v)
             /\ \A j \in Keys : j # k => w.data[j] = l.data[j] /\ w.expiry[j] = l.expiry[j]
  <1> DEFINE old == l.data[k].val
             s == Popped(old, left)
             x == EndOf(old, left)
             w == Shortened(l, k, left)
  <1>1. old \in Seq(Chunks) /\ old # <<>>
    BY ListFound DEF ListStored
  <1>2. /\ x \in Chunks /\ s \in Seq(Chunks) /\ Len(s) = Len(old) - 1
        /\ \A v : Count(old, v) = Count(s, v) + One(x, v)
    <2> HIDE DEF old
    <2>1. QED
      BY <1>1, PoppedCounts
  <1>3. \A v : Occurrences(l, k, v) = Count(s, v) + One(x, v)
    BY <1>2, OccurrencesAt
  <1>4. CASE Len(old) <= 1
    <2>1. w = RemoveKey(l, k)
      BY <1>4 DEF Shortened
    <2>2. /\ w.data[k] = Absent
          /\ \A j \in Keys : j # k => w.data[j] = l.data[j] /\ w.expiry[j] = l.expiry[j]
      BY <2>1 DEF RemoveKey, WellFormed, LDBs
    <2>3. \A v : Occurrences(w, k, v) = 0
      BY <2>2, OccurrencesAt DEF ListStored, Stored
    <2>4. \A v : Count(s, v) = 0
      <3>1. Len(s) = 0
        <4> HIDE DEF old, s
        <4>1. QED
          BY <1>1, <1>2, <1>4
      <3>2. QED
        BY <1>2, <3>1, EmptyCount
    <2>5. Sound(l, w)
      BY <2>1, SoundStart
    <2> HIDE DEF w, s, x
    <2>6. QED
      BY <1>2, <1>3, <2>2, <2>3, <2>4, <2>5 DEF w, x
  <1>5. CASE ~(Len(old) <= 1)
    <2>1. w = Write(l, k, ListObj(s))
      BY <1>5 DEF Shortened
    <2>2. s # <<>>
      <3> HIDE DEF old, s
      <3>1. QED
        BY <1>1, <1>2, <1>5
    <2> HIDE DEF w, s
    <2>3. Sound(l, w)
      BY <1>2, <2>1, <2>2, ListWritten
    <2>4. /\ \A v : Occurrences(w, k, v) = Count(s, v)
          /\ \A j \in Keys : j # k => w.data[j] = l.data[j] /\ w.expiry[j] = l.expiry[j]
      BY <1>2, <2>1, OccurrencesWritten
    <2>5. QED
      BY <1>2, <1>3, <2>3, <2>4 DEF w
  <1>6. QED
    BY <1>4, <1>5

\* Source and destination count together, once each.
Both(l, src, dst, v) ==
  Occurrences(l, src, v) + (IF src = dst THEN 0 ELSE Occurrences(l, dst, v))

Conserved(l, w, src, dst) ==
  /\ \A v \in Chunks : Both(w, src, dst, v) = Both(l, src, dst, v)
  /\ \A k \in Keys : k # src /\ k # dst => w.data[k] = l.data[k]

LEMMA ConservedItself ==
  ASSUME NEW l, NEW src, NEW dst
  PROVE  Conserved(l, l, src, dst)
  BY DEF Conserved

\* A list moved onto itself.
LEMMA RotateEffect ==
  ASSUME NEW l, WellFormed(l), NEW k \in Keys, ListStored(l, k),
         NEW from \in BOOLEAN, NEW to \in BOOLEAN
  PROVE  LET w == LRotate(l, k, from, to).ldb IN Sound(l, w) /\ Conserved(l, w, k, k)
  <1> DEFINE old == l.data[k].val
             x == EndOf(old, from)
             s == Pushed(Popped(old, from), to, x)
             w == LRotate(l, k, from, to).ldb
  <1>1. CASE old = <<>>
    BY <1>1, SoundStart, ConservedItself DEF LRotate, Out
  <1>2. CASE old # <<>>
    <2>1. w = Write(l, k, ListObj(s))
      BY <1>2 DEF LRotate, Out
    <2>2. old \in Seq(Chunks)
      BY ListFound DEF ListStored
    <2>3. /\ x \in Chunks /\ Popped(old, from) \in Seq(Chunks)
          /\ \A v : Count(old, v) = Count(Popped(old, from), v) + One(x, v)
      <3> HIDE DEF old
      <3>1. QED
        BY <1>2, <2>2, PoppedCounts
    <2>4. /\ s \in Seq(Chunks) /\ s # <<>>
          /\ \A v : Count(s, v) = Count(Popped(old, from), v) + One(x, v)
      <3> HIDE DEF old, x
      <3>1. QED
        BY <2>3, PushedCounts
    <2>5. \A v : Occurrences(l, k, v) = Count(s, v)
      BY <2>3, <2>4, OccurrencesAt
    <2> HIDE DEF w, s
    <2>6. Sound(l, w)
      BY <2>1, <2>4, ListWritten
    <2>7. /\ \A v : Occurrences(w, k, v) = Count(s, v)
          /\ \A j \in Keys : j # k => w.data[j] = l.data[j]
      BY <2>1, <2>4, OccurrencesWritten
    <2>8. QED
      BY <2>5, <2>6, <2>7 DEF Conserved, Both, w
  <1>3. QED
    BY <1>1, <1>2

LEMMA AcrossEffect ==
  ASSUME NEW l, WellFormed(l), NEW src \in Keys, NEW dst \in Keys, src # dst,
         ListStored(l, src), NEW from \in BOOLEAN, NEW to \in BOOLEAN
  PROVE  LET out == LMoveAcross(l, src, dst, from, to)
         IN  /\ Sound(l, out.ldb)
             /\ ~IsError(out.reply) => Conserved(l, out.ldb, src, dst)
  <1> DEFINE old == l.data[src].val
             x == EndOf(old, from)
             p == Shortened(l, src, from)
             e == EntryOr(p, dst, ListObj(<<>>))
             s == Pushed(e.data[dst].val, to, x)
             out == LMoveAcross(l, src, dst, from, to)
  <1>1. CASE old = <<>>
    <2> DEFINE w == RemoveKey(l, src)
    <2>1. out.ldb = w
      BY <1>1 DEF LMoveAcross, Out
    <2>2. w.data[src] = Absent /\ \A j \in Keys : j # src => w.data[j] = l.data[j]
      BY DEF RemoveKey, WellFormed, LDBs
    <2>3. Sound(l, w)
      BY SoundStart
    <2>4. \A v : Occurrences(l, src, v) = 0
      <3>1. old \in Seq(Chunks) /\ Len(old) = 0
        BY <1>1, ListFound DEF ListStored
      <3>2. QED
        BY <3>1, EmptyCount, OccurrencesAt
    <2> HIDE DEF w
    <2>5. \A v : Occurrences(w, src, v) = 0 /\ Occurrences(w, dst, v) = Occurrences(l, dst, v)
      BY <2>2 DEF Occurrences, ListStored, Stored
    <2>6. Conserved(l, w, src, dst)
      BY <2>2, <2>4, <2>5 DEF Conserved, Both
    <2>7. QED
      BY <2>1, <2>3, <2>6
  <1>2. CASE old # <<>>
    <2>1. /\ x \in Chunks /\ Sound(l, p)
          /\ \A v : Occurrences(l, src, v) = Occurrences(p, src, v) + One(x, v)
          /\ \A j \in Keys : j # src => p.data[j] = l.data[j] /\ p.expiry[j] = l.expiry[j]
      BY <1>2, ShortenedEffect
    <2>2. /\ ~IsList(e.data[dst]) => out.ldb = e /\ IsError(out.reply)
          /\ IsList(e.data[dst]) => out.ldb = Write(e, dst, ListObj(s))
      BY <1>2, Replies DEF LMoveAcross, Out
    <2> HIDE DEF p, out
    <2>3. /\ ~IsList(e.data[dst]) => e = p
          /\ \A o : Write(e, dst, o) = Write(p, dst, o)
          /\ IsList(e.data[dst]) =>
               /\ e.data[dst].val \in Seq(Chunks)
               /\ e.data[dst].val = IF Stored(p, dst) THEN p.data[dst].val ELSE <<>>
          /\ IsList(e.data[dst]) /\ Stored(p, dst) => ListStored(p, dst)
      <3>1. Stored(p, dst) => e = p
        BY DEF EntryOr
      <3>2. QED
        BY <2>1, <3>1, EntryFound DEF Sound, ListStored
    <2>4. CASE ~IsList(e.data[dst])
      <3> HIDE DEF e
      <3>1. QED
        BY <2>1, <2>2, <2>3, <2>4 DEF out
    <2>5. CASE IsList(e.data[dst])
      <3> DEFINE d == e.data[dst].val
                 w == Write(p, dst, ListObj(s))
      <3>1. d \in Seq(Chunks) /\ out.ldb = w
        BY <2>2, <2>3, <2>5
      <3>2. \A v : Occurrences(p, dst, v) = Count(d, v)
        <4>1. CASE Stored(p, dst)
          BY <2>3, <2>5, <4>1, OccurrencesAt
        <4>2. CASE ~Stored(p, dst)
          <5>1. Len(d) = 0
            BY <2>3, <2>5, <4>2
          <5>2. QED
            BY <3>1, <4>2, <5>1, EmptyCount, OccurrencesAt DEF ListStored
        <4>3. QED
          BY <4>1, <4>2
      <3>3. /\ s \in Seq(Chunks) /\ s # <<>>
            /\ \A v : Count(s, v) = Count(d, v) + One(x, v)
        <4> HIDE DEF d, x
        <4>1. s = Pushed(d, to, x)
          BY DEF d
        <4> HIDE DEF s
        <4>2. QED
          BY <2>1, <3>1, <4>1, PushedCounts
      <3> HIDE DEF d, s, x, e
      <3>4. /\ WellFormed(w) /\ Sound(p, w)
            /\ \A v : Occurrences(w, dst, v) = Count(s, v)
            /\ \A j \in Keys : j # dst =>
                 /\ \A v : Occurrences(w, j, v) = Occurrences(p, j, v)
                 /\ w.data[j] = p.data[j] /\ w.expiry[j] = p.expiry[j]
        <4>1. WellFormed(p)
          BY <2>1 DEF Sound
        <4>2. WellFormed(w) /\ Sound(p, w)
          BY <3>3, <4>1, ListWritten DEF Sound
        <4>3. \A v : /\ Occurrences(w, dst, v) = Count(s, v)
                    /\ \A j \in Keys : j # dst =>
                         /\ Occurrences(w, j, v) = Occurrences(p, j, v)
                         /\ w.data[j] = p.data[j] /\ w.expiry[j] = p.expiry[j]
          BY <3>3, <4>1, OccurrencesWritten
        <4>4. QED
          BY <4>2, <4>3
      <3>5. w.expiry[dst] = p.expiry[dst]
        BY DEF Write
      <3> HIDE DEF w
      <3>6. Keeps(l, w)
        BY <2>1, <3>4, <3>5 DEF Keeps, Sound, Stored
      <3>7. NoNewEmpty(l, w)
        BY <2>1, <3>4 DEF NoNewEmpty, Sound
      <3>8. \A v : Occurrences(p, dst, v) = Occurrences(l, dst, v)
        BY <2>1 DEF Occurrences, ListStored, Stored
      <3>9. \A v : /\ Occurrences(w, src, v) = Occurrences(p, src, v)
                   /\ Occurrences(p, src, v) \in Nat /\ Occurrences(p, dst, v) \in Nat
        BY <2>1, <3>4, OccurrencesNat DEF Sound
      <3>10. ASSUME NEW v \in Chunks
             PROVE  Both(w, src, dst, v) = Both(l, src, dst, v)
        <4>1. /\ Occurrences(w, dst, v) = Occurrences(p, dst, v) + One(x, v)
              /\ Occurrences(w, src, v) = Occurrences(p, src, v)
              /\ Occurrences(l, src, v) = Occurrences(p, src, v) + One(x, v)
              /\ Occurrences(l, dst, v) = Occurrences(p, dst, v)
          BY <2>1, <3>2, <3>3, <3>4, <3>8, <3>9
        <4>2. One(x, v) \in Nat /\ Occurrences(p, src, v) \in Nat /\ Occurrences(p, dst, v) \in Nat
          BY <3>9 DEF One
        <4>3. QED
          BY <4>1, <4>2 DEF Both
      <3>11. Conserved(l, w, src, dst)
        BY <2>1, <3>4, <3>10 DEF Conserved
      <3>12. QED
        BY <3>1, <3>4, <3>6, <3>7, <3>11 DEF Sound, out, w
    <2>6. QED
      BY <2>4, <2>5 DEF out
  <1>3. QED
    BY <1>1, <1>2

LEMMA LMoveEffect ==
  ASSUME NEW l, WellFormed(l), NEW src \in Keys, NEW dst \in Keys,
         NEW from \in BOOLEAN, NEW to \in BOOLEAN
  PROVE  LET out == LMove(l, src, dst, from, to)
         IN  /\ Sound(l, out.ldb)
             /\ ~IsError(out.reply) => Conserved(l, out.ldb, src, dst)
  <1>1. CASE ~ListStored(l, src)
    BY <1>1, SoundStart, ConservedItself DEF LMove, ListStored, Out
  <1>2. CASE ListStored(l, src) /\ src = dst
    <2>1. LMove(l, src, dst, from, to) = LRotate(l, src, from, to)
      BY <1>2 DEF LMove, ListStored
    <2>2. QED
      BY <1>2, <2>1, RotateEffect
  <1>3. CASE ListStored(l, src) /\ src # dst
    <2>1. LMove(l, src, dst, from, to) = LMoveAcross(l, src, dst, from, to)
      BY <1>3 DEF LMove, ListStored
    <2>2. QED
      BY <1>3, <2>1, AcrossEffect
  <1>4. QED
    BY <1>1, <1>2, <1>3

-----------------------------------------------------------------------------
(* Steps of the list commands.                                             *)

\* What a list command does.
ListDone(i, op, S, out) ==
  /\ op \in ListCommands
  /\ i \in Dbs =>
       /\ WellFormed(out.ldb) /\ Keeps(dbs[i], out.ldb)
       /\ \A k \in Keys : EmptyList(out.ldb, k) =>
                            EmptyList(dbs[i], k) \/ (op = "LREM" /\ S = {k})

LEMMA SoundDone ==
  ASSUME NEW i, NEW op \in ListCommands, NEW S, NEW out, i \in Dbs => Sound(dbs[i], out.ldb)
  PROVE  ListDone(i, op, S, out)
  BY DEF ListDone, Sound, NoNewEmpty

LEMMA PushesSeq ==
  ASSUME NEW v \in Pushes
  PROVE  v \in Seq(Chunks) /\ v # <<>>
  <1>1. CASE \E x \in Elements : v = <<x>>
    BY <1>1, ElementsAssumption
  <1>2. CASE \E x, y \in Elements : v = <<x, y>>
    BY <1>2, ElementsAssumption
  <1>3. QED
    BY <1>1, <1>2 DEF Pushes

LEMMA ListSteps ==
  ASSUME IInv, NEW i \in Index, ListCommand(i) \/ MoreListCommand(i)
  PROVE  \E op, S, arg, out : Run(op, i, S, arg, out) /\ ListDone(i, op, S, out)
  <1> DEFINE Goal == \E op, S, arg, out : Run(op, i, S, arg, out) /\ ListDone(i, op, S, out)
  <1> USE DEF ListCommands
  <1>0. i \in Dbs => WellFormed(dbs[i])
    BY DEF IInv, AllWellFormed
  <1>1. ASSUME NEW k \in Keys, NEW v \in Seq(Chunks), v # <<>>,
               RPushCmd(i, k, v) \/ RPushXCmd(i, k, v) \/ LPushCmd(i, k, v) \/ LPushXCmd(i, k, v)
        PROVE  Goal
    <2>1. /\ ListDone(i, "RPUSH", {k}, RPush(dbs[i], k, v))
          /\ ListDone(i, "RPUSHX", {k}, RPushX(dbs[i], k, v, now))
          /\ ListDone(i, "LPUSH", {k}, LPush(dbs[i], k, v))
          /\ ListDone(i, "LPUSHX", {k}, LPushX(dbs[i], k, v, now))
      BY <1>0, <1>1, PushSound, SoundDone
    <2>2. CASE RPushCmd(i, k, v)
      BY <2>1, <2>2 DEF RPushCmd
    <2>3. CASE RPushXCmd(i, k, v)
      BY <2>1, <2>3 DEF RPushXCmd
    <2>4. CASE LPushCmd(i, k, v)
      BY <2>1, <2>4 DEF LPushCmd
    <2>5. CASE LPushXCmd(i, k, v)
      BY <2>1, <2>5 DEF LPushXCmd
    <2>6. QED
      BY <1>1, <2>2, <2>3, <2>4, <2>5
  <1>2. ASSUME NEW k \in Keys, NEW n \in PopCounts, LPopCmd(i, k, n) \/ RPopCmd(i, k, n)
        PROVE  Goal
    <2>1. n \in Nat
      BY BoundAssumption, ReserveAssumption DEF PopCounts
    <2>2. /\ ListDone(i, "LPOP", {k}, LPop(dbs[i], k, n))
          /\ ListDone(i, "RPOP", {k}, RPop(dbs[i], k, n))
      BY <1>0, <2>1, PopSound, SoundDone
    <2>3. CASE LPopCmd(i, k, n)
      BY <2>2, <2>3 DEF LPopCmd
    <2>4. CASE RPopCmd(i, k, n)
      BY <2>2, <2>4 DEF RPopCmd
    <2>5. QED
      BY <1>2, <2>3, <2>4
  <1>3. ASSUME NEW k \in Keys, NEW n \in Indices, NEW v \in Elements, LSetCmd(i, k, n, v)
        PROVE  Goal
    <2>1. ListDone(i, "LSET", {k}, LSet(dbs[i], k, n, v, now))
      BY <1>0, LSetSound, SoundDone, IndicesAssumption, ElementsAssumption
    <2>2. QED
      BY <1>3, <2>1 DEF LSetCmd
  <1>4. ASSUME NEW k \in Keys, NEW b \in BOOLEAN, NEW p \in Elements, NEW v \in Elements,
               LInsertCmd(i, k, b, p, v)
        PROVE  Goal
    <2>1. ListDone(i, "LINSERT", {k}, LInsert(dbs[i], k, b, p, v, now))
      BY <1>0, LInsertSound, SoundDone, ElementsAssumption
    <2>2. QED
      BY <1>4, <2>1 DEF LInsertCmd
  <1>5. ASSUME NEW k \in Keys, NEW n, NEW v, LRemCmd(i, k, n, v)
        PROVE  Goal
    <2>1. ListDone(i, "LREM", {k}, LRem(dbs[i], k, n, v, now))
      BY <1>0, LRemEffect DEF ListDone
    <2>2. QED
      BY <1>5, <2>1 DEF LRemCmd
  <1>6. ASSUME NEW k \in Keys, NEW m \in Indices, NEW n \in Indices, LTrimCmd(i, k, m, n)
        PROVE  Goal
    <2>1. ListDone(i, "LTRIM", {k}, LTrim(dbs[i], k, m, n))
      BY <1>0, LTrimSound, SoundDone, IndicesAssumption
    <2>2. QED
      BY <1>6, <2>1 DEF LTrimCmd
  <1>7. ASSUME NEW src \in Keys, NEW dst \in Keys, NEW f \in BOOLEAN, NEW t \in BOOLEAN,
               LMoveCmd(i, src, dst, f, t)
        PROVE  Goal
    <2>1. ListDone(i, "LMOVE", {src, dst}, LMove(dbs[i], src, dst, f, t))
      BY <1>0, LMoveEffect, SoundDone
    <2>2. QED
      BY <1>7, <2>1 DEF LMoveCmd
  <1>8. CASE ListCommand(i)
    BY <1>1, <1>2, <1>8, ValuesAssumption DEF ListCommand
  <1>9. CASE MoreListCommand(i)
    BY <1>1, <1>2, <1>3, <1>4, <1>5, <1>6, <1>7, <1>9, PushesSeq DEF MoreListCommand
  <1>10. QED
    BY <1>8, <1>9

LEMMA ListsInvStep == IInv /\ [ListsNext]_vars => IInv'
  <1> SUFFICES ASSUME IInv, [ListsNext]_vars
               PROVE  IInv'
    OBVIOUS
  <1>1. ASSUME NEW i \in Index, MoreListCommand(i)
        PROVE  IInv'
    <2>1. PICK op, S, arg, out : Run(op, i, S, arg, out) /\ ListDone(i, op, S, out)
      BY <1>1, ListSteps
    <2>2. QED
      BY <2>1, Install DEF Run, ListDone, IInv
  <1>2. CASE [Next]_vars
    BY <1>2, InvStep
  <1>3. QED
    BY <1>1, <1>2 DEF ListsNext

\* With all of the list commands, no deadline is left behind for a key of the same
\* name to inherit.
THEOREM ListsLeaveNoOrphan == ListsSpec => []NoOrphanDeadline
  <1>1. IInv => NoOrphanDeadline
    BY DEF IInv, AllWellFormed, WellFormed, NoOrphanDeadline, Stored
  <1>2. QED
    BY InvInit, ListsInvStep, <1>1, PTL DEF ListsSpec

\* A command of the Keyspace that bears the name of a list command is one.
LEMMA ListNames ==
  ASSUME Next, last'.op \in ListCommands
  PROVE  \E i \in Index : ListCommand(i)
  <1> USE DEF Run, ListCommands
  <1>1. ASSUME NEW i, GenericCommand(i)
        PROVE  FALSE
    BY <1>1 DEF GenericCommand, DelCmd, RenameCmd, RenamenxCmd, ExpireCmd, PExpireCmd,
         ExpireAtCmd, PExpireAtCmd, PersistCmd, FlushDbCmd, FlushAllCmd
  <1>2. ASSUME NEW i, StringCommand(i)
        PROVE  FALSE
    BY <1>2 DEF StringCommand, SetCmd, SetnxCmd, GetSetCmd, GetDelCmd, GetExCmd, MSetCmd,
         MSetNxCmd, AppendCmd, SetRangeCmd, IncrByCmd, DecrByCmd, IncrByFloatCmd
  <1>3. ~EvictCmd /\ ~Tick
    BY DEF EvictCmd, Tick
  <1>4. QED
    BY <1>1, <1>2, <1>3 DEF Next, Command

\* What a step that bears the name of a list command did.
LEMMA ListStepDone ==
  ASSUME IInv, ListsNext, last'.op \in ListCommands, NEW j \in Dbs
  PROVE  /\ Keeps(dbs[j], dbs'[j])
         /\ \A k \in Keys : EmptyList(dbs'[j], k) /\ ~EmptyList(dbs[j], k) =>
              last'.op = "LREM" /\ last'.keys = {k}
  <1>1. PICK i \in Index : ListCommand(i) \/ MoreListCommand(i)
    BY ListNames DEF ListsNext
  <1>2. PICK op, S, arg, out : Run(op, i, S, arg, out) /\ ListDone(i, op, S, out)
    BY <1>1, ListSteps
  <1>3. /\ dbs'[j] = IF i \in Dbs /\ i = j THEN out.ldb ELSE dbs[j]
        /\ last'.op = op /\ last'.keys = S
    BY <1>2 DEF Run, IInv, AllWellFormed
  <1>4. QED
    BY <1>2, <1>3, KeepsItself DEF ListDone

\* A list keeps its time to live through everything that changes its elements.
THEOREM ListsLeaveDeadlines == ListsSpec => ListsKeepDeadlines
  <1>1. IInv /\ [ListsNext]_vars =>
          [\A i \in Dbs, k \in Keys :
             last'.op \in ListCommands /\ Stored(dbs'[i], k)
             => \/ dbs'[i].expiry[k] = dbs[i].expiry[k]
                \/ ~Stored(dbs[i], k) /\ dbs'[i].expiry[k] = Never]_vars
    <2>1. CASE ListsNext
      BY <2>1, ListStepDone DEF Keeps
    <2>2. CASE UNCHANGED vars
      BY <2>2
    <2>3. QED
      BY <2>1, <2>2
  <1>2. QED
    BY InvInit, ListsInvStep, <1>1, PTL DEF ListsSpec, ListsKeepDeadlines

\* Whatever the history, no command but LREM leaves a list without elements, and
\* none but RENAME moves one.
THEOREM EmptyListsComeFromLRem == ListsSpec => EmptiedOnlyByLRem
  <1>1. ASSUME IInv, ListsNext, NEW i \in Dbs, NEW k \in Keys,
               EmptyList(dbs'[i], k), ~EmptyList(dbs[i], k)
        PROVE  \/ last'.op = "LREM" /\ last'.keys = {k}
               \/ /\ last'.op \in {"RENAME", "RENAMENX"} /\ last'.arg[2] = k
                  /\ EmptyList(dbs[i], last'.arg[1])
    <2>1. CASE last'.op \in ListCommands
      BY <1>1, <2>1, ListStepDone
    <2>2. CASE last'.op \notin ListCommands
      <3>1. Next
        <4>1. ASSUME NEW j \in Index, MoreListCommand(j)
              PROVE  FALSE
          BY <1>1, <2>2, <4>1, ListSteps DEF Run, ListDone
        <4>2. QED
          BY <1>1, <4>1 DEF ListsNext
      <3>2. /\ dbs'[i].data[k] # dbs[i].data[k] /\ dbs'[i].data[k] # Absent
            /\ ~Ordinary(dbs'[i].data[k])
        BY <1>1 DEF EmptyList, ListStored, Stored, Ordinary, IsStr, IsList
      <3>3. ~PlainStep(i)
        BY <3>2 DEF PlainStep, Plainly
      <3>4. MovingStep(i)
        BY <1>1, <3>1, <3>3, KeyspaceQuiet
      <3>5. k = last'.arg[2] /\ dbs'[i].data[k] = dbs[i].data[last'.arg[1]]
        BY <3>2, <3>4 DEF MovingStep
      <3>6. QED
        BY <1>1, <3>4, <3>5 DEF MovingStep, EmptyList, ListStored, Stored
    <2>3. QED
      BY <2>1, <2>2
  <1>2. IInv /\ [ListsNext]_vars =>
          [\A i \in Dbs, k \in Keys :
             EmptyList(dbs'[i], k) /\ ~EmptyList(dbs[i], k) =>
               \/ last'.op = "LREM" /\ last'.keys = {k}
               \/ /\ last'.op \in {"RENAME", "RENAMENX"} /\ last'.arg[2] = k
                  /\ EmptyList(dbs[i], last'.arg[1])]_vars
    <2>1. CASE ListsNext
      BY <1>1, <2>1
    <2>2. CASE UNCHANGED vars
      BY <2>2
    <2>3. QED
      BY <2>1, <2>2
  <1>3. QED
    BY InvInit, ListsInvStep, <1>2, PTL DEF ListsSpec, EmptiedOnlyByLRem

\* The one command called LMOVE.
LEMMA LMoveIsOne ==
  ASSUME ListsNext, last'.op = "LMOVE"
  PROVE  \E i \in Index, src, dst \in Keys, f, t \in BOOLEAN : LMoveCmd(i, src, dst, f, t)
  <1>1. ASSUME NEW i, ListCommand(i)
        PROVE  FALSE
    BY <1>1 DEF ListCommand, RPushCmd, RPushXCmd, LPopCmd, Run
  <1>2. ~Next
    BY <1>1, ListNames DEF ListCommands
  <1>3. PICK i \in Index : MoreListCommand(i)
    BY <1>2 DEF ListsNext
  <1>4. QED
    BY <1>3 DEF MoreListCommand, LPushCmd, LPushXCmd, RPopCmd, LSetCmd, LInsertCmd, LRemCmd,
         LTrimCmd, Run

\* LMOVE neither loses nor duplicates an element, and touches no other key.
THEOREM LMoveIsAMove == ListsSpec => MoveConserves
  <1> DEFINE
        both(l, v) == Occurrences(l, last'.arg[1], v)
                        + (IF last'.arg[1] = last'.arg[2] THEN 0
                           ELSE Occurrences(l, last'.arg[2], v))
        kept(old, new) ==
          /\ \A v \in Chunks : both(new, v) = both(old, v)
          /\ \A k \in Keys : k # last'.arg[1] /\ k # last'.arg[2] => new.data[k] = old.data[k]
  <1>1. ASSUME IInv, ListsNext, last'.op = "LMOVE", last'.db \in Dbs, ~IsError(last'.reply)
        PROVE  kept(dbs[last'.db], dbs'[last'.db])
    <2>1. PICK i \in Index, src \in Keys, dst \in Keys, f \in BOOLEAN, t \in BOOLEAN :
            LMoveCmd(i, src, dst, f, t)
      BY <1>1, LMoveIsOne
    <2> DEFINE out == LMove(dbs[i], src, dst, f, t)
    <2>2. Run("LMOVE", i, {src, dst}, <<src, dst, f, t>>, out)
      BY <2>1 DEF LMoveCmd
    <2> HIDE DEF out
    <2>3. /\ i = last'.db /\ i \in Dbs /\ last'.arg = <<src, dst, f, t>>
          /\ last'.reply = out.reply /\ dbs' = [dbs EXCEPT ![i] = out.ldb]
      BY <1>1, <2>2 DEF Run
    <2>4. WellFormed(dbs[i]) /\ dbs'[i] = out.ldb
      BY <1>1, <2>3 DEF IInv, AllWellFormed
    <2>5. Conserved(dbs[i], dbs'[i], src, dst)
      BY <1>1, <2>3, <2>4, LMoveEffect DEF out
    <2>6. last'.arg[1] = src /\ last'.arg[2] = dst
      BY <2>3
    <2>7. QED
      BY <2>3, <2>5, <2>6 DEF Conserved, Both
  <1>2. IInv /\ [ListsNext]_vars =>
          [last'.op = "LMOVE" /\ last'.db \in Dbs /\ ~IsError(last'.reply) =>
             kept(dbs[last'.db], dbs'[last'.db])]_vars
    <2>1. CASE ListsNext
      BY <1>1, <2>1
    <2>2. CASE UNCHANGED vars
      BY <2>2
    <2>3. QED
      BY <2>1, <2>2
  <1>3. QED
    BY InvInit, ListsInvStep, <1>2, PTL DEF ListsSpec, MoveConserves

-----------------------------------------------------------------------------
(* LRANGE.                                                                 *)

\* LRANGE m n is about the positions lo to hi, and slice cuts out just those.
CutAt(s, m, n, len, lo, hi) ==
  /\ hi < len
  /\ Positions(m, n, len) = lo..hi
  /\ Slice(s, m, n) = IF lo > hi THEN <<>> ELSE SubSeq(s, lo + 1, hi + 1)

LEMMA RangePositions ==
  ASSUME NEW s, NEW len \in Nat, len = Len(s), len # 0, NEW m \in Int, NEW n \in Int, n >= -len
  PROVE  \E lo \in Nat, hi \in Nat : CutAt(s, m, n, len, lo, hi)
  <1> DEFINE lo == NormalizeIndex(m, len)
             stop0 == NormalizeIndex(n, len)
             hi == IF stop0 < len THEN stop0 ELSE len - 1
  <1>1. /\ lo = IF m >= 0 THEN m ELSE IF len + m > 0 THEN len + m ELSE 0
        /\ stop0 = FromStart(n, len) /\ stop0 \in Nat
    BY DEF NormalizeIndex, FromStart
  <1>2. lo \in Nat /\ hi \in Nat /\ hi < len
    BY <1>1
  <1>3. Slice(s, m, n) = IF lo > hi THEN <<>> ELSE SubSeq(s, lo + 1, hi + 1)
    BY DEF Slice
  <1> HIDE DEF lo, stop0
  <1>4. ASSUME NEW p \in Int
        PROVE  p \in Positions(m, n, len) <=> p \in lo..hi
    <2>1. p \in Positions(m, n, len) <=>
            p >= 0 /\ p <= len - 1 /\ FromStart(m, len) <= p /\ p <= stop0
      BY <1>1 DEF Positions
    <2>2. p >= 0 => (FromStart(m, len) <= p <=> lo <= p)
      BY <1>1 DEF FromStart
    <2>3. p <= hi <=> p <= len - 1 /\ p <= stop0
      BY <1>1
    <2>4. QED
      BY <1>2, <2>1, <2>2, <2>3
  <1>5. Positions(m, n, len) \subseteq Int /\ lo..hi \subseteq Int
    BY <1>2 DEF Positions
  <1> HIDE DEF hi
  <1>6. Positions(m, n, len) = lo..hi
    BY <1>4, <1>5
  <1>7. QED
    BY <1>2, <1>3, <1>6 DEF CutAt

LEMMA SliceIsExact ==
  ASSUME NEW S, NEW s \in Seq(S), NEW m \in Int, NEW n \in Int, n >= -Len(s)
  PROVE  LET P == Positions(m, n, Len(s))
             r == Slice(s, m, n)
         IN  /\ Len(r) = Cardinality(P)
             /\ \A p \in P : r[1 + Cardinality({q \in P : q < p})] = s[p + 1]
  <1> DEFINE P == Positions(m, n, Len(s))
             r == Slice(s, m, n)
  <1>0. Len(s) \in Nat
    OBVIOUS
  <1>1. CASE Len(s) = 0
    <2>1. P = {} /\ r = <<>>
      BY <1>1 DEF Positions, Slice
    <2>2. QED
      BY <2>1, FS_EmptySet
  <1>2. CASE Len(s) # 0
    <2>1. PICK lo \in Nat, hi \in Nat :
            /\ hi < Len(s) /\ P = lo..hi
            /\ r = IF lo > hi THEN <<>> ELSE SubSeq(s, lo + 1, hi + 1)
      <3>1. \E len \in Nat : len = Len(s)
        BY <1>0
      <3>2. PICK len \in Nat : len = Len(s)
        BY <3>1
      <3>3. len # 0 /\ n >= -len
        BY <1>2, <3>2
      <3> HIDE DEF P, r
      <3>4. \E lo \in Nat, hi \in Nat : CutAt(s, m, n, len, lo, hi)
        BY <3>2, <3>3, RangePositions
      <3>5. PICK lo \in Nat, hi \in Nat : CutAt(s, m, n, len, lo, hi)
        BY <3>4
      <3>6. r = Slice(s, m, n) /\ P = Positions(m, n, len)
        BY <3>2 DEF P, r
      <3>7. QED
        BY <3>2, <3>5, <3>6 DEF CutAt
    <2> HIDE DEF P, r
    <2>2. CASE lo > hi
      <3>1. P = {} /\ r = <<>>
        BY <2>1, <2>2
      <3>2. QED
        BY <3>1, FS_EmptySet DEF P, r
    <2>3. CASE lo <= hi
      <3>1. r = SubSeq(s, lo + 1, hi + 1)
        BY <2>1, <2>3
      <3>2. Len(r) = hi - lo + 1 /\ \A j \in 1..(hi - lo + 1) : r[j] = s[lo + j]
        BY <2>1, <2>3, <3>1
      <3>3. Cardinality(P) = hi - lo + 1
        BY <2>1, <2>3, FS_Interval
      <3>4. ASSUME NEW p \in P
            PROVE  r[1 + Cardinality({q \in P : q < p})] = s[p + 1]
        <4>1. p \in Int /\ lo <= p /\ p <= hi
          BY <2>1
        <4>2. {q \in P : q < p} = lo..(p - 1)
          <5>1. \A q \in Int : q \in lo..hi /\ q < p <=> q \in lo..(p - 1)
            BY <4>1
          <5>2. P \subseteq Int /\ lo..(p - 1) \subseteq Int
            BY <2>1
          <5>3. QED
            BY <2>1, <5>1, <5>2
        <4>3. Cardinality(lo..(p - 1)) = p - lo
          <5>1. \E b \in Int : b = p - 1
            BY <4>1
          <5>2. PICK b \in Int : b = p - 1
            BY <5>1
          <5>3. Cardinality(lo..b) = IF lo > b THEN 0 ELSE b - lo + 1
            BY FS_Interval
          <5>4. (IF lo > b THEN 0 ELSE b - lo + 1) = p - lo
            BY <4>1, <5>2
          <5>5. QED
            BY <5>2, <5>3, <5>4
        <4>4. r[1 + (p - lo)] = s[lo + (1 + (p - lo))]
          BY <3>2, <4>1
        <4>5. lo + (1 + (p - lo)) = p + 1
          BY <4>1
        <4>6. QED
          BY <4>2, <4>3, <4>4, <4>5
      <3>5. QED
        BY <3>2, <3>3, <3>4 DEF P, r
    <2>4. QED
      BY <2>2, <2>3
  <1>3. QED
    BY <1>1, <1>2

\* Whatever the lists have become, LRANGE answers with the elements between the two
\* positions it is given.
THEOREM RangesAreExact == ListsSpec => []RangeIsExact
  <1>1. ASSUME IInv, NEW i \in Dbs, NEW k \in Keys, NEW m \in Indices, NEW n \in Indices,
               ListStored(dbs[i], k), Live(dbs[i], k, now)
        PROVE  /\ LRange(dbs[i], k, m, n, now)[2] = Slice(dbs[i].data[k].val, m, n)
               /\ dbs[i].data[k].val \in Seq(Chunks) /\ m \in Int /\ n \in Int
    <2>1. Get(dbs[i], k, now) = dbs[i].data[k] /\ dbs[i].data[k] # Absent
          /\ IsList(dbs[i].data[k])
      BY <1>1 DEF Live, Get, ListStored, Stored
    <2>2. LRange(dbs[i], k, m, n, now) = Bulk(Slice(dbs[i].data[k].val, m, n))
      BY <2>1 DEF LRange, ListAt, IsError, Bulk
    <2>3. dbs[i].data[k].val \in Seq(Chunks)
      BY <1>1, ListFound DEF IInv, AllWellFormed, ListStored
    <2>4. LRange(dbs[i], k, m, n, now)[2] = Slice(dbs[i].data[k].val, m, n)
      BY <2>2 DEF Bulk
    <2>5. m \in Int /\ n \in Int
      BY IndicesAssumption
    <2>6. QED
      BY <2>3, <2>4, <2>5
  <1>2. ASSUME IInv, NEW i \in Dbs, NEW k \in Keys, NEW m \in Indices, NEW n \in Indices,
               ListStored(dbs[i], k), Live(dbs[i], k, now), n >= -Len(dbs[i].data[k].val)
        PROVE  LET P == Positions(m, n, Len(dbs[i].data[k].val))
                   r == LRange(dbs[i], k, m, n, now)[2]
               IN  /\ Len(r) = Cardinality(P)
                   /\ \A p \in P : r[1 + Cardinality({q \in P : q < p})]
                                  = dbs[i].data[k].val[p + 1]
    <2> DEFINE s == dbs[i].data[k].val
               P == Positions(m, n, Len(s))
               r == Slice(s, m, n)
    <2>1. s \in Seq(Chunks) /\ m \in Int /\ n \in Int /\ n >= -Len(s)
      BY <1>1, <1>2
    <2>2. LRange(dbs[i], k, m, n, now)[2] = r
      BY <1>1, <1>2
    <2> HIDE DEF s
    <2>3. /\ Len(r) = Cardinality(P)
          /\ \A p \in P : r[1 + Cardinality({q \in P : q < p})] = s[p + 1]
      BY <2>1, SliceIsExact
    <2>4. QED
      BY <2>2, <2>3 DEF s
  <1>3. IInv => RangeIsExact
    BY <1>2 DEF RangeIsExact
  <1>4. QED
    BY InvInit, ListsInvStep, <1>3, PTL DEF ListsSpec
=============================================================================
