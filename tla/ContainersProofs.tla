-------------------------- MODULE ContainersProofs --------------------------
(***************************************************************************)
(* Hashes and sets: what the methods of HashOps and SetOps do to a         *)
(* well-formed logical database, and what follows for every command of     *)
(* Containers, whatever the keys, the fields, the members and the order.   *)
(***************************************************************************)
EXTENDS ContainersProps, EffectProofs, FiniteSetTheorems, WellFoundedInduction

-----------------------------------------------------------------------------
(* Objects.                                                                *)

\* A nonempty set of the positions in a sequence has a last one.
LEMMA LastPosition ==
  ASSUME NEW n \in Nat, NEW S \in SUBSET (1..n), S # {}
  PROVE  \E j \in S : \A i \in (j + 1)..n : i \notin S
  <1> DEFINE T == {n - j : j \in S}
             R == OpToRel(<, Nat)
  <1>1. T \subseteq Nat /\ T # {}
    <2>1. \A j \in S : n - j \in Nat
      OBVIOUS
    <2>2. QED
      BY <2>1
  <1>2. IsWellFoundedOn(R, Nat)
    BY NatLessThanWellFounded
  <1>3. PICK x \in T : \A y \in T : ~(<<y, x>> \in R)
    <2> HIDE DEF T, R
    <2>1. QED
      BY <1>1, <1>2, WFMin
  <1>4. \A y \in T : ~(y < x)
    BY <1>1, <1>3 DEF OpToRel
  <1>5. PICK j \in S : x = n - j
    OBVIOUS
  <1>6. ASSUME NEW i \in (j + 1)..n, i \in S
        PROVE  FALSE
    <2>1. n - i \in T
      BY <1>6
    <2>2. j \in 1..n /\ n - i < n - j
      BY <1>6
    <2>3. QED
      BY <1>4, <1>5, <2>1, <2>2
  <1>7. QED
    BY <1>6

LEMMA Objectify ==
  /\ \A h \in HashMaps :
       HashObj(h) \in Objects \ {Absent} /\ HashObj(h).fields = h /\ IsHash(HashObj(h))
  /\ \A S \in HashSets :
       SetObj(S) \in Objects \ {Absent} /\ SetObj(S).members = S /\ IsSet(SetObj(S))
  /\ \A o \in Objects : IsHash(o) =>
       o.fields \in HashMaps /\ o = HashObj(o.fields)
  /\ \A o \in Objects : IsSet(o) => o.members \in HashSets /\ o = SetObj(o.members)
  BY AbsentAssumption DEF Objects, SeqObjects, HashObjects, SetObjects, ZSetObjects,
       HashObj, SetObj, IsHash, IsSet

\* What is taken out of a finite map or set, and what one request adds, leaves it so.
LEMMA FiniteMaps ==
  /\ \A h \in HashMaps : h \in [Chunks -> Chunks \cup {Absent}]
  /\ \A h \in HashMaps : \A g \in [Chunks -> Chunks \cup {Absent}] : \A F \in SUBSET Chunks :
       IsFiniteSet(F) /\ (\A f \in Chunks \ F : g[f] = h[f] \/ g[f] = Absent) => g \in HashMaps
  /\ [f \in Chunks |-> Absent] \in HashMaps
  <1>1. ASSUME NEW h \in HashMaps, NEW g \in [Chunks -> Chunks \cup {Absent}],
               NEW F \in SUBSET Chunks, IsFiniteSet(F),
               \A f \in Chunks \ F : g[f] = h[f] \/ g[f] = Absent
        PROVE  g \in HashMaps
    <2> DEFINE H == {f \in Chunks : h[f] # Absent}
               G == {f \in Chunks : g[f] # Absent}
    <2>1. G \in SUBSET (H \cup F)
      BY <1>1
    <2>2. IsFiniteSet(H)
      BY DEF HashMaps
    <2> HIDE DEF H
    <2>3. IsFiniteSet(G)
      <3>1. IsFiniteSet(H \cup F)
        BY <1>1, <2>2, FS_Union
      <3> HIDE DEF G
      <3>2. QED
        BY <2>1, <3>1, FS_Subset
    <2>4. QED
      BY <2>3 DEF HashMaps
  <1>2. [f \in Chunks |-> Absent] \in HashMaps
    <2>1. {f \in Chunks : [g \in Chunks |-> Absent][f] # Absent} = {}
      OBVIOUS
    <2>2. QED
      BY <2>1, FS_EmptySet DEF HashMaps
  <1>3. QED
    BY <1>1, <1>2 DEF HashMaps

LEMMA FiniteMembers ==
  /\ {} \in HashSets
  /\ \A S \in HashSets : S \in SUBSET Chunks /\ IsFiniteSet(S)
  /\ \A S \in HashSets : \A T \in SUBSET S : T \in HashSets
  /\ \A S, T \in HashSets : S \cup T \in HashSets
  /\ \A m \in Chunks : {m} \in HashSets
  BY FS_EmptySet, FS_Subset, FS_Union, FS_Singleton DEF HashSets

\* The terms of a finite sequence, and what a function makes of the first numbers.
LEMMA FiniteRange ==
  ASSUME NEW n \in Nat, NEW s, DOMAIN s = 1..n
  PROVE  IsFiniteSet({s[j] : j \in 1..n})
  <1> DEFINE T == {s[j] : j \in 1..n}
             f == [j \in 1..n |-> s[j]]
  <1>1. f \in Surjection(1..n, T)
    BY DEF Surjection
  <1>2. IsFiniteSet(1..n)
    BY FS_Interval
  <1> HIDE DEF T, f
  <1>3. QED
    BY <1>1, <1>2, FS_Surjection DEF T

LEMMA NewContainers ==
  /\ NewHash \in Objects \ {Absent} /\ IsHash(NewHash)
  /\ NewSet \in Objects \ {Absent} /\ IsSet(NewSet) /\ NewSet.members = {}
  BY Objectify, FiniteMaps, FiniteMembers DEF NewHash, NewSet

-----------------------------------------------------------------------------
(* Outcomes.                                                               *)

\* A hash without fields, a set without members.
HollowObject(o) == (IsHash(o) /\ FieldsOf(o) = {}) \/ (IsSet(o) /\ o.members = {})

NoNewHollow(l, w) == \A k \in Keys : Hollow(w, k) => Hollow(l, k)

\* What a method may leave behind: the maps in step, every deadline where it was,
\* and no empty container that was not there.
Sound(l, w) == WellFormed(w) /\ Keeps(l, w) /\ NoNewHollow(l, w)

\* A refusal, moreover, left everything alone.
Tidy(l, out) == Sound(l, out.ldb) /\ (IsError(out.reply) => out.ldb = l)

LEMMA Untouched ==
  ASSUME NEW l, WellFormed(l), NEW r
  PROVE  Sound(l, l) /\ Tidy(l, Out(l, r))
  BY DEF Sound, Tidy, Keeps, NoNewHollow, Out

LEMMA Removed ==
  ASSUME NEW l, WellFormed(l), NEW k \in Keys
  PROVE  Sound(l, RemoveKey(l, k))
  <1>1. NoNewHollow(l, RemoveKey(l, k))
    BY DEF NoNewHollow, Hollow, Stored, RemoveKey, WellFormed, LDBs
  <1>2. QED
    BY <1>1, RemoveWF, RemoveKeeps DEF Sound

LEMMA Written ==
  ASSUME NEW l, WellFormed(l), NEW k \in Keys, NEW o \in Objects, ~HollowObject(o)
  PROVE  Sound(l, Write(l, k, o))
  <1>1. NoNewHollow(l, Write(l, k, o))
    BY DEF NoNewHollow, Hollow, HollowObject, Stored, Write, WellFormed, LDBs
  <1>2. QED
    BY <1>1, WriteWF, WriteKeeps DEF Sound

\* A lookup through data.entry(..) yields the object of the database, or d.  What
\* is written back is the new object of the key, whatever d was.
LEMMA EntryWritten ==
  ASSUME NEW l, WellFormed(l), NEW k \in Keys, NEW d \in Objects \ {Absent}
  PROVE  LET e == EntryOr(l, k, d)
         IN  /\ e.data[k] \in Objects \ {Absent}
             /\ Stored(l, k) => e = l
             /\ ~Stored(l, k) => e.data[k] = d
             /\ \A o \in Objects : ~HollowObject(o) => Sound(l, Write(e, k, o))
  <1> DEFINE e == EntryOr(l, k, d)
  <1>1. /\ e.data[k] \in Objects \ {Absent}
        /\ Stored(l, k) => e = l
        /\ ~Stored(l, k) => e.data[k] = d
    BY AbsentAssumption DEF EntryOr, Write, Stored, WellFormed, LDBs
  <1>2. \A o \in Objects : Write(e, k, o) = Write(l, k, o)
    BY DEF EntryOr, Write, WellFormed, LDBs
  <1>3. QED
    BY <1>1, <1>2, Written

\* A hash with a field and a set with a member.
LEMMA Filled ==
  /\ \A h \in HashMaps : \A f \in Chunks :
       h[f] \in Chunks => HashObj(h) \in Objects /\ ~HollowObject(HashObj(h))
  /\ \A S \in HashSets :
       S # {} => SetObj(S) \in Objects /\ ~HollowObject(SetObj(S))
  BY Objectify, AbsentAssumption DEF HollowObject, FieldsOf, HashObj, SetObj, IsHash, IsSet

LEMMA PutSetSound ==
  ASSUME NEW l, WellFormed(l), NEW k \in Keys, NEW S \in HashSets
  PROVE  Sound(l, PutSet(l, k, S))
  <1>1. S # {} => ~HollowObject(SetObj(S))
    BY DEF HollowObject, SetObj, IsHash, IsSet
  <1>2. QED
    BY <1>1, Removed, Written, Objectify DEF PutSet

-----------------------------------------------------------------------------
(* Hashes.                                                                 *)

\* One field written.
LEMMA SetFieldObject ==
  ASSUME NEW o \in Objects, IsHash(o), NEW f \in Chunks, NEW v \in Chunks
  PROVE  /\ SetField(o, f, v) \in Objects /\ ~HollowObject(SetField(o, f, v))
         /\ SetField(o, f, v).fields = [o.fields EXCEPT ![f] = v]
  <1> DEFINE h == [o.fields EXCEPT ![f] = v]
  <1>1. h \in HashMaps
    <2>1. /\ o.fields \in HashMaps /\ h \in [Chunks -> Chunks \cup {Absent}]
          /\ \A g \in Chunks \ {f} : h[g] = o.fields[g]
      BY Objectify, FiniteMaps
    <2>2. {f} \in SUBSET Chunks /\ IsFiniteSet({f})
      BY FS_Singleton
    <2> HIDE DEF h
    <2>3. QED
      BY <2>1, <2>2, FiniteMaps
  <1>2. SetField(o, f, v) = HashObj(h)
    <2>1. o = HashObj(o.fields)
      BY Objectify
    <2>2. [HashObj(o.fields) EXCEPT !.fields = [@ EXCEPT ![f] = v]] = HashObj(h)
      BY DEF HashObj
    <2>3. QED
      BY <2>1, <2>2 DEF SetField
  <1>3. h[f] \in Chunks
    BY Objectify, FiniteMaps
  <1>4. QED
    BY <1>1, <1>2, <1>3, Filled, Objectify

\* Every field a HSET names is named a last time.
LEMMA LastNamed ==
  ASSUME NEW pairs \in Seq(Chunks \X Chunks), NEW f,
         f \in {pairs[j][1] : j \in 1..Len(pairs)}
  PROVE  \E j \in 1..Len(pairs) :
           pairs[j][1] = f /\ \A i \in (j + 1)..Len(pairs) : pairs[i][1] # f
  <1> DEFINE n == Len(pairs)
             S == {j \in 1..n : pairs[j][1] = f}
  <1>1. PICK j \in S : \A i \in (j + 1)..n : i \notin S
    <2>1. n \in Nat /\ S \in SUBSET (1..n) /\ S # {}
      OBVIOUS
    <2> HIDE DEF S, n
    <2>2. QED
      BY <2>1, LastPosition
  <1>2. ASSUME NEW i \in (j + 1)..n
        PROVE  pairs[i][1] # f
    <2>1. i \in 1..n /\ i \notin S
      BY <1>1
    <2>2. QED
      BY <2>1
  <1>3. QED
    BY <1>2

LEMMA HSetTidy ==
  ASSUME NEW l, WellFormed(l), NEW k \in Keys, NEW pairs \in Seq(Chunks \X Chunks),
         pairs # <<>>
  PROVE  Tidy(l, HSet(l, k, pairs)) /\ Tidy(l, HMSet(l, k, pairs))
  <1> DEFINE e == EntryOr(l, k, NewHash)
             o == e.data[k]
             named == {pairs[j][1] : j \in 1..Len(pairs)}
             final(f) == CHOOSE j \in 1..Len(pairs) :
                           pairs[j][1] = f /\ \A i \in (j + 1)..Len(pairs) : pairs[i][1] # f
             fields == [f \in Chunks |-> IF f \in named THEN pairs[final(f)][2] ELSE o.fields[f]]
             count == Cardinality(named \ FieldsOf(o))
  <1>1. /\ o \in Objects /\ (~IsHash(o) => e = l)
        /\ \A x \in Objects : ~HollowObject(x) => Sound(l, Write(e, k, x))
    BY EntryWritten, NewContainers
  <1>2. ASSUME NEW f \in named
        PROVE  pairs[final(f)][2] \in Chunks
    <2>1. \E j \in 1..Len(pairs) :
            pairs[j][1] = f /\ \A i \in (j + 1)..Len(pairs) : pairs[i][1] # f
      BY <1>2, LastNamed
    <2>2. final(f) \in 1..Len(pairs)
      BY <2>1
    <2>3. QED
      BY <2>2
  <1>3. pairs[1][1] \in named /\ pairs[1][1] \in Chunks
    OBVIOUS
  <1>4. ASSUME IsHash(o)
        PROVE  fields \in HashMaps /\ fields[pairs[1][1]] \in Chunks
    <2>1. o.fields \in HashMaps /\ \A f \in Chunks : o.fields[f] \in Chunks \cup {Absent}
      BY <1>1, <1>4, Objectify, FiniteMaps
    <2>2. named \in SUBSET Chunks /\ IsFiniteSet(named)
      <3> DEFINE names == [j \in 1..Len(pairs) |-> pairs[j][1]]
      <3>1. DOMAIN names = 1..Len(pairs) /\ Len(pairs) \in Nat
        OBVIOUS
      <3>2. named = {names[j] : j \in 1..Len(pairs)}
        OBVIOUS
      <3>3. \A j \in 1..Len(pairs) : names[j] \in Chunks
        OBVIOUS
      <3> HIDE DEF names, named
      <3>4. QED
        BY <3>1, <3>2, <3>3, FiniteRange
    <2> HIDE DEF final, named, o
    <2>3. /\ fields \in [Chunks -> Chunks \cup {Absent}]
          /\ \A f \in Chunks \ named : fields[f] = o.fields[f]
      BY <1>2, <2>1
    <2>4. fields[pairs[1][1]] \in Chunks
      BY <1>2, <1>3
    <2> HIDE DEF fields
    <2>5. QED
      BY <2>1, <2>2, <2>3, <2>4, FiniteMaps
  <1>5. HSet(l, k, pairs) = IF ~IsHash(o) THEN Out(e, Err("WRONGTYPE"))
                            ELSE Out(Write(e, k, HashObj(fields)), Num(count))
    BY DEF HSet
  <1> HIDE DEF e, o, fields, count
  <1>6. Tidy(l, HSet(l, k, pairs))
    <2>1. CASE ~IsHash(o)
      BY <1>1, <1>5, <2>1, Untouched
    <2>2. CASE IsHash(o)
      <3>1. HashObj(fields) \in Objects /\ ~HollowObject(HashObj(fields))
        BY <1>3, <1>4, <2>2, Filled
      <3>2. QED
        BY <1>1, <1>5, <2>2, <3>1, Replies DEF Tidy, Out
    <2>3. QED
      BY <2>1, <2>2
  <1>7. QED
    BY <1>6, Replies DEF HMSet, Tidy, Out

LEMMA HSetNxTidy ==
  ASSUME NEW l, WellFormed(l), NEW k \in Keys, NEW f \in Chunks, NEW v \in Chunks
  PROVE  Tidy(l, HSetNx(l, k, f, v))
  <1> DEFINE e == EntryOr(l, k, NewHash)
             o == e.data[k]
  <1>1. /\ o \in Objects /\ (~IsHash(o) \/ f \in FieldsOf(o) => e = l)
        /\ \A x \in Objects : ~HollowObject(x) => Sound(l, Write(e, k, x))
    <2>1. IsHash(NewHash) /\ FieldsOf(NewHash) = {}
      BY DEF NewHash, HashObj, IsHash, FieldsOf
    <2>2. QED
      BY <2>1, EntryWritten, NewContainers
  <1>2. IsHash(o) => SetField(o, f, v) \in Objects /\ ~HollowObject(SetField(o, f, v))
    BY <1>1, SetFieldObject
  <1>3. HSetNx(l, k, f, v) = IF ~IsHash(o) THEN Out(e, Err("WRONGTYPE"))
                             ELSE IF f \in FieldsOf(o) THEN Out(e, BoolInt(FALSE))
                             ELSE Out(Write(e, k, SetField(o, f, v)), BoolInt(TRUE))
    BY DEF HSetNx
  <1> HIDE DEF e, o
  <1>4. CASE ~IsHash(o) \/ f \in FieldsOf(o)
    BY <1>1, <1>3, <1>4, Untouched
  <1>5. CASE IsHash(o) /\ f \notin FieldsOf(o)
    <2>1. HSetNx(l, k, f, v) = Out(Write(e, k, SetField(o, f, v)), BoolInt(TRUE))
      BY <1>3, <1>5
    <2>2. Sound(l, Write(e, k, SetField(o, f, v)))
      BY <1>1, <1>2, <1>5
    <2>3. QED
      BY <2>1, <2>2, Replies DEF Tidy, Out, BoolInt
  <1>6. QED
    BY <1>4, <1>5

LEMMA HDelTidy ==
  ASSUME NEW l, WellFormed(l), NEW k \in Keys, NEW fs
  PROVE  Tidy(l, HDel(l, k, fs))
  <1> DEFINE o == l.data[k]
             gone == {fs[j] : j \in 1..Len(fs)} \cap FieldsOf(o)
             h == [f \in Chunks |-> IF f \in gone THEN Absent ELSE o.fields[f]]
  <1>1. ASSUME Stored(l, k), IsHash(o)
        PROVE  HashObj(h) \in Objects
    <2>1. o.fields \in HashMaps
      BY <1>1, Objectify DEF WellFormed, LDBs, Stored
    <2>2. /\ h \in [Chunks -> Chunks \cup {Absent}]
          /\ \A f \in Chunks \ {} : h[f] = o.fields[f] \/ h[f] = Absent
      BY <2>1, FiniteMaps
    <2> HIDE DEF h
    <2>4. h \in HashMaps
      BY <2>1, <2>2, FS_EmptySet, FiniteMaps
    <2>3. QED
      BY <2>4, Objectify
  <1>2. HDel(l, k, fs) = IF ~Stored(l, k) THEN Out(l, Num(0))
                         ELSE IF ~IsHash(o) THEN Out(l, Err("WRONGTYPE"))
                         ELSE Out(PutHash(l, k, HashObj(h)), Num(Cardinality(gone)))
    BY DEF HDel
  <1> HIDE DEF h, gone, o
  <1>3. CASE ~Stored(l, k) \/ ~IsHash(o)
    BY <1>2, <1>3, Untouched
  <1>4. CASE Stored(l, k) /\ IsHash(o)
    <2>1. FieldsOf(HashObj(h)) # {} => ~HollowObject(HashObj(h))
      BY DEF HollowObject, HashObj, IsSet
    <2>2. Sound(l, PutHash(l, k, HashObj(h)))
      BY <1>1, <1>4, <2>1, Removed, Written DEF PutHash
    <2>3. QED
      BY <1>2, <1>4, <2>2, Replies DEF Tidy, Out
  <1>5. QED
    BY <1>3, <1>4

\* A sum that does not fit is refused for a field that was there: 0 + d fits.
LEMMA HIncrByTidy ==
  ASSUME NEW l, WellFormed(l), NEW k \in Keys, NEW f \in Chunks, NEW d \in Numbers
  PROVE  Tidy(l, HIncrBy(l, k, f, d))
  <1> DEFINE e == EntryOr(l, k, NewHash)
             o == e.data[k]
             n == CountedField(o, f)
  <1>1. /\ o \in Objects /\ (~IsHash(o) => e = l)
        /\ (IsHash(o) /\ o.fields[f] # Absent => e = l)
        /\ \A x \in Objects : ~HollowObject(x) => Sound(l, Write(e, k, x))
    <2>1. IsHash(NewHash) /\ NewHash.fields[f] = Absent
      BY DEF NewHash, HashObj, IsHash
    <2>2. QED
      BY <2>1, EntryWritten, NewContainers
  <1>2. \A v \in Numbers : IsHash(o) =>
          SetField(o, f, v) \in Objects /\ ~HollowObject(SetField(o, f, v))
    BY <1>1, SetFieldObject DEF Chunks
  <1>3. IsHash(o) /\ (n \notin Numbers \/ n + d \notin Numbers) => o.fields[f] # Absent
    <2>1. 0 \in Numbers /\ 0 + d = d
      BY IntAssumption DEF Numbers
    <2>2. QED
      BY <2>1 DEF CountedField
  <1>4. IsHash(o) /\ o.fields[f] # Absent => n = o.fields[f] /\ Write(e, k, SetField(o, f, n)) = l
    <2>1. ASSUME IsHash(o), o.fields[f] # Absent
          PROVE  Write(e, k, SetField(o, f, o.fields[f])) = l
      <3>1. e = l /\ l.data[k] \in Objects /\ o = l.data[k]
        BY <1>1, <2>1
      <3>2. SetField(o, f, o.fields[f]) = o
        <4>1. o = HashObj(o.fields) /\ o.fields \in HashMaps
          BY <1>1, <2>1, Objectify
        <4> DEFINE h == o.fields
        <4>2. [h EXCEPT ![f] = h[f]] = h
          BY <4>1, FiniteMaps
        <4>3. [HashObj(h) EXCEPT !.fields = [@ EXCEPT ![f] = h[f]]] = HashObj([h EXCEPT ![f] = h[f]])
          BY DEF HashObj
        <4> HIDE DEF h, o
        <4>4. SetField(HashObj(h), f, h[f]) = HashObj(h)
          BY <4>2, <4>3 DEF SetField
        <4>5. QED
          BY <4>1, <4>4 DEF h
      <3>3. Write(l, k, l.data[k]) = l
        BY DEF Write, WellFormed, LDBs
      <3>4. QED
        BY <3>1, <3>2, <3>3
    <2>2. QED
      BY <2>1 DEF CountedField
  <1>5. HIncrBy(l, k, f, d) =
          IF ~IsHash(o) THEN Out(e, Err("WRONGTYPE"))
          ELSE IF n \notin Numbers THEN Out(e, Err("NOTINT"))
          ELSE IF n + d \notin Numbers THEN Out(Write(e, k, SetField(o, f, n)), Err("OVERFLOW"))
          ELSE Out(Write(e, k, SetField(o, f, n + d)), Num(n + d))
    BY DEF HIncrBy
  <1> HIDE DEF e, o, n
  <1>6. CASE ~IsHash(o) \/ n \notin Numbers
    BY <1>1, <1>3, <1>5, <1>6, Untouched
  <1>7. CASE IsHash(o) /\ n \in Numbers /\ n + d \notin Numbers
    BY <1>3, <1>4, <1>5, <1>7, Untouched
  <1>8. CASE IsHash(o) /\ n \in Numbers /\ n + d \in Numbers
    BY <1>1, <1>2, <1>5, <1>8, Replies DEF Tidy, Out
  <1>9. QED
    BY <1>6, <1>7, <1>8

\* The float counter is tidy too, but for a sum that is no number.
LEMMA HIncrByFloatTidy ==
  ASSUME NEW l, WellFormed(l), NEW k \in Keys, NEW f \in Chunks, NEW d,
         d # NaN => LET e == EntryOr(l, k, NewHash)
                        n == CountedField(e.data[k], f)
                    IN  IsHash(e.data[k]) /\ n \in Numbers => n + d \in Numbers
  PROVE  LET out == HIncrByFloat(l, k, f, d)
         IN  Sound(l, out.ldb) /\ (Tidy(l, out) \/ out.reply = Err("NAN"))
  <1> DEFINE e == EntryOr(l, k, NewHash)
             o == e.data[k]
             n == CountedField(o, f)
  <1>1. /\ o \in Objects /\ (~IsHash(o) => e = l)
        /\ (IsHash(o) /\ o.fields[f] # Absent => e = l)
        /\ \A x \in Objects : ~HollowObject(x) => Sound(l, Write(e, k, x))
    <2>1. IsHash(NewHash) /\ NewHash.fields[f] = Absent
      BY DEF NewHash, HashObj, IsHash
    <2>2. QED
      BY <2>1, EntryWritten, NewContainers
  <1>2. \A v \in Numbers : IsHash(o) =>
          SetField(o, f, v) \in Objects /\ ~HollowObject(SetField(o, f, v))
    BY <1>1, SetFieldObject DEF Chunks
  <1>3. IsHash(o) /\ n \notin Numbers => o.fields[f] # Absent
    BY IntAssumption DEF CountedField, Numbers
  <1>4. d # NaN => (IsHash(o) /\ n \in Numbers => n + d \in Numbers)
    OBVIOUS
  <1>5. HIncrByFloat(l, k, f, d) =
          IF ~IsHash(o) THEN Out(e, Err("WRONGTYPE"))
          ELSE IF n \notin Numbers THEN Out(e, Err("NOTFLOAT"))
          ELSE IF d = NaN THEN Out(Write(e, k, SetField(o, f, n)), Err("NAN"))
          ELSE Out(Write(e, k, SetField(o, f, n + d)), Bulk(<<n + d>>))
    BY DEF HIncrByFloat
  <1> HIDE DEF e, o, n
  <1>6. CASE ~IsHash(o) \/ n \notin Numbers
    <2>1. \E r : HIncrByFloat(l, k, f, d) = Out(l, r)
      BY <1>1, <1>3, <1>5, <1>6
    <2>2. QED
      BY <2>1, Untouched DEF Out
  <1>7. CASE IsHash(o) /\ n \in Numbers
    BY <1>1, <1>2, <1>4, <1>5, <1>7, Replies DEF Tidy, Out
  <1>8. QED
    BY <1>6, <1>7

-----------------------------------------------------------------------------
(* Sets.                                                                   *)

\* The members of a stored set.
LEMMA StoredSet ==
  ASSUME NEW l, WellFormed(l), NEW k \in Keys, Stored(l, k), IsSet(l.data[k])
  PROVE  l.data[k].members \in HashSets
  BY Objectify DEF WellFormed, LDBs, Stored

LEMMA SAddTidy ==
  ASSUME NEW l, WellFormed(l), NEW k \in Keys, NEW ms \in Seq(Chunks), ms # <<>>
  PROVE  Tidy(l, SAdd(l, k, ms))
  <1> DEFINE e == EntryOr(l, k, NewSet)
             o == e.data[k]
             added == {ms[j] : j \in 1..Len(ms)}
             all == o.members \cup added
             count == Cardinality(added \ o.members)
  <1>1. /\ o \in Objects /\ (~IsSet(o) => e = l)
        /\ \A x \in Objects : ~HollowObject(x) => Sound(l, Write(e, k, x))
    BY EntryWritten, NewContainers
  <1>2. added \in HashSets /\ added # {}
    <2>1. Len(ms) \in Nat /\ DOMAIN ms = 1..Len(ms) /\ added \in SUBSET Chunks /\ added # {}
      OBVIOUS
    <2>2. IsFiniteSet(added)
      BY <2>1, FiniteRange
    <2>3. QED
      BY <2>1, <2>2 DEF HashSets
  <1>3. SAdd(l, k, ms) = IF ~IsSet(o) THEN Out(e, Err("WRONGTYPE"))
                         ELSE Out(Write(e, k, SetObj(all)), Num(count))
    BY DEF SAdd
  <1> HIDE DEF e, o, added, count
  <1>4. CASE ~IsSet(o)
    BY <1>1, <1>3, <1>4, Untouched
  <1>5. CASE IsSet(o)
    <2>1. all \in HashSets /\ all # {}
      BY <1>1, <1>2, <1>5, Objectify, FiniteMembers
    <2>2. SetObj(all) \in Objects /\ ~HollowObject(SetObj(all))
      BY <2>1, Filled
    <2>3. QED
      BY <1>1, <1>3, <1>5, <2>2, Replies DEF Tidy, Out
  <1>6. QED
    BY <1>4, <1>5

LEMMA SRemTidy ==
  ASSUME NEW l, WellFormed(l), NEW k \in Keys, NEW ms
  PROVE  Tidy(l, SRem(l, k, ms))
  <1> DEFINE gone == {ms[j] : j \in 1..Len(ms)}
             old == l.data[k].members
             count == Cardinality(gone \cap old)
  <1>1. SRem(l, k, ms) = IF ~Stored(l, k) THEN Out(l, Num(0))
                         ELSE IF ~IsSet(l.data[k]) THEN Out(l, Err("WRONGTYPE"))
                         ELSE Out(PutSet(l, k, old \ gone), Num(count))
    BY DEF SRem
  <1> HIDE DEF gone, count
  <1>2. CASE ~Stored(l, k) \/ ~IsSet(l.data[k])
    BY <1>1, <1>2, Untouched
  <1>3. CASE Stored(l, k) /\ IsSet(l.data[k])
    <2>1. old \ gone \in HashSets
      BY <1>3, StoredSet, FiniteMembers
    <2>2. QED
      BY <1>1, <1>3, <2>1, PutSetSound, Replies DEF Tidy, Out
  <1>4. QED
    BY <1>2, <1>3

LEMMA SPopTidy ==
  ASSUME NEW l, WellFormed(l), NEW k \in Keys, NEW n, NEW chosen
  PROVE  Tidy(l, SPop(l, k, n, chosen))
  <1>1. \A C : ~IsError(Drawn(n, C))
    BY Replies DEF Drawn
  <1>2. CASE ~Stored(l, k) \/ ~IsSet(l.data[k]) \/ n > ReserveMax
    BY <1>2, Untouched DEF SPop
  <1>3. CASE Stored(l, k) /\ IsSet(l.data[k]) /\ ~(n > ReserveMax)
    <2>1. l.data[k].members \ chosen \in HashSets
      BY <1>3, StoredSet, FiniteMembers
    <2>2. QED
      BY <1>1, <1>3, <2>1, PutSetSound DEF SPop, Tidy, Out
  <1>4. QED
    BY <1>2, <1>3

\* An operand is refused, or is what clients see in the set.
LEMMA OperandShape ==
  ASSUME NEW l, WellFormed(l), NEW k \in Keys, NEW t
  PROVE  /\ Shown(l, k, t) \in HashSets
         /\ SetAt(l, k, t) = Err("WRONGTYPE") \/ SetAt(l, k, t) = Bulk(Shown(l, k, t))
  <1>1. CASE Get(l, k, t) = Absent
    BY <1>1, FiniteMembers DEF SetAt, Shown, Live
  <1>2. CASE Get(l, k, t) # Absent
    <2>1. Get(l, k, t) = l.data[k] /\ l.data[k] \in Objects /\ Stored(l, k)
      BY <1>2 DEF Get, Stored, WellFormed, LDBs
    <2>2. Shown(l, k, t) = IF IsSet(l.data[k]) THEN l.data[k].members ELSE {}
      BY <1>2, <2>1 DEF Shown, Live, MembersAt
    <2>3. QED
      BY <1>2, <2>1, <2>2, Objectify, FiniteMembers DEF SetAt
  <1>3. QED
    BY <1>1, <1>2

Visible(l, t) == UNION {Shown(l, j, t) : j \in Keys}

\* The union, the intersection and the difference are refused or made of members
\* that clients see in the operands.
LEMMA CombinedShape ==
  ASSUME NEW l, WellFormed(l), NEW ks \in Seq(Keys), ks # <<>>, NEW t,
         NEW r \in {SUnion(l, ks, t), SInter(l, ks, t), SDiff(l, ks, t)}
  PROVE  \/ r = Err("WRONGTYPE")
         \/ \E S \in HashSets :
              r = Bulk(S) /\ S \subseteq Visible(l, t)
  <1> DEFINE sets == Operands(l, ks, t)
             seen == Visible(l, t)
  <1>1. /\ DOMAIN sets = 1..Len(ks) /\ 1 \in DOMAIN sets
        /\ \A j \in DOMAIN sets : ks[j] \in Keys /\ sets[j] = SetAt(l, ks[j], t)
    BY DEF Operands
  <1>2. \A j \in DOMAIN sets : ~IsError(sets[j]) =>
          sets[j][2] \in HashSets /\ sets[j][2] \subseteq seen
    <2>1. ASSUME NEW j \in DOMAIN sets, ~IsError(sets[j])
          PROVE  sets[j][2] \in HashSets /\ sets[j][2] \subseteq seen
      <3>1. ks[j] \in Keys /\ sets[j] = SetAt(l, ks[j], t)
        BY <1>1
      <3>2. Shown(l, ks[j], t) \in HashSets /\ sets[j] = Bulk(Shown(l, ks[j], t))
        BY <2>1, <3>1, OperandShape DEF IsError, Err
      <3>3. sets[j][2] = Shown(l, ks[j], t)
        BY <3>2 DEF Bulk
      <3>4. QED
        BY <3>1, <3>2, <3>3 DEF Visible
    <2>2. QED
      BY <2>1
  <1>3. CASE \E j \in DOMAIN sets : IsError(sets[j])
    BY <1>3 DEF SUnion, SInter, SDiff, Combined
  <1>4. CASE \A j \in DOMAIN sets : ~IsError(sets[j])
    <2> HIDE DEF sets
    <2>1. PICK S : r = Bulk(S) /\ (\/ S = UNION {sets[j][2] : j \in DOMAIN sets}
                                  \/ S \subseteq sets[1][2])
      BY <1>4 DEF SUnion, SInter, SDiff, Combined, sets
    <2>2. S \in HashSets /\ S \subseteq seen
      <3>1. sets[1][2] \in HashSets /\ sets[1][2] \subseteq seen
        BY <1>1, <1>2, <1>4
      <3>2. \A j \in DOMAIN sets : sets[j][2] \in HashSets /\ sets[j][2] \subseteq seen
        BY <1>2, <1>4
      <3> HIDE DEF seen
      <3>3. CASE S = UNION {sets[j][2] : j \in DOMAIN sets}
        <4> DEFINE part == [j \in 1..Len(ks) |-> sets[j][2]]
        <4>1. IsFiniteSet({part[j] : j \in 1..Len(ks)})
          <5>1. Len(ks) \in Nat /\ DOMAIN part = 1..Len(ks)
            OBVIOUS
          <5> HIDE DEF part
          <5>2. QED
            BY <5>1, FiniteRange
        <4>2. \A j \in 1..Len(ks) : part[j] \in HashSets /\ part[j] \subseteq seen
          BY <1>1, <3>2
        <4>3. S = UNION {part[j] : j \in 1..Len(ks)}
          BY <1>1, <3>3
        <4> HIDE DEF part
        <4>4. \A T \in {part[j] : j \in 1..Len(ks)} : IsFiniteSet(T)
          BY <4>2, FiniteMembers
        <4>5. IsFiniteSet(S)
          BY <4>1, <4>3, <4>4, FS_UNION
        <4>6. S \in SUBSET Chunks /\ S \subseteq seen
          BY <4>2, <4>3, FiniteMembers
        <4>7. QED
          BY <4>5, <4>6 DEF HashSets
      <3>4. CASE S \subseteq sets[1][2]
        BY <3>1, <3>4, FiniteMembers
      <3>5. QED
        BY <2>1, <3>3, <3>4
    <2>3. QED
      BY <2>1, <2>2
  <1>5. QED
    BY <1>3, <1>4

\* A STORE is refused and does nothing, or its result, made of members that clients
\* see, is the new object of the destination.
LEMMA StoreEffect ==
  ASSUME NEW l, WellFormed(l), NEW dst \in Keys, NEW ks \in Seq(Keys), ks # <<>>, NEW t,
         NEW out \in {SUnionStore(l, dst, ks, t), SInterStore(l, dst, ks, t),
                      SDiffStore(l, dst, ks, t)}
  PROVE  \/ out = Out(l, Err("WRONGTYPE"))
         \/ \E S \in HashSets :
              /\ out = Out(InsertKey(l, dst, SetObj(S)), Num(Cardinality(S)))
              /\ WellFormed(out.ldb)
              /\ S \subseteq Visible(l, t)
  <1>1. PICK r \in {SUnion(l, ks, t), SInter(l, ks, t), SDiff(l, ks, t)} :
          out = StoreSet(l, dst, r)
    BY DEF SUnionStore, SInterStore, SDiffStore
  <1>2. CASE r = Err("WRONGTYPE")
    BY <1>1, <1>2, Replies DEF StoreSet
  <1>3. CASE r # Err("WRONGTYPE")
    <2>1. PICK S \in HashSets :
            r = Bulk(S) /\ S \subseteq Visible(l, t)
      <3>1. \/ r = Err("WRONGTYPE")
            \/ \E S \in HashSets :
                 r = Bulk(S) /\ S \subseteq Visible(l, t)
        BY CombinedShape
      <3>2. QED
        BY <1>3, <3>1
    <2>2. out = Out(InsertKey(l, dst, SetObj(S)), Num(Cardinality(S)))
      BY <1>1, <2>1, Replies DEF StoreSet, Bulk
    <2>3. WellFormed(out.ldb)
      BY <2>2, InsertWF, Objectify DEF Out
    <2>4. QED
      BY <2>1, <2>2, <2>3
  <1>4. QED
    BY <1>2, <1>3

-----------------------------------------------------------------------------
(* SMOVE.                                                                  *)

\* A set without one of its members, then a lookup that may make the destination.
LEMMA SMoveSteps ==
  ASSUME NEW l, WellFormed(l), NEW src \in Keys, NEW dst \in Keys, NEW m \in Chunks,
         Stored(l, src), IsSet(l.data[src]), m \in l.data[src].members
  PROVE  LET p == PutSet(l, src, l.data[src].members \ {m})
             e == EntryOr(p, dst, NewSet)
             o == e.data[dst]
         IN  /\ Sound(l, p) /\ o \in Objects /\ WellFormed(e)
             /\ \A k \in Keys \ {src} : p.data[k] = l.data[k]
             /\ MembersAt(p, src) = l.data[src].members \ {m}
             /\ \A k \in Keys \ {dst} : e.data[k] = p.data[k]
             /\ Stored(p, dst) => o = p.data[dst]
             /\ ~Stored(p, dst) => o = NewSet
             /\ \A x \in Objects : ~HollowObject(x) => Sound(p, Write(e, dst, x))
             /\ ~IsSet(o) => e = p
  <1> DEFINE p == PutSet(l, src, l.data[src].members \ {m})
             e == EntryOr(p, dst, NewSet)
             o == e.data[dst]
  <1>1. l.data[src].members \in HashSets
    BY StoredSet
  <1>2. Sound(l, p)
    <2>1. l.data[src].members \ {m} \in HashSets
      BY <1>1, FiniteMembers
    <2>2. QED
      BY <2>1, PutSetSound
  <1>3. /\ \A k \in Keys \ {src} : p.data[k] = l.data[k]
        /\ MembersAt(p, src) = l.data[src].members \ {m}
    <2> DEFINE S == l.data[src].members \ {m}
    <2>1. l.data \in [Keys -> Objects \cup {Absent}]
      BY DEF WellFormed, LDBs
    <2>2. S \in HashSets
      BY <1>1, FiniteMembers
    <2>0. p = PutSet(l, src, S) /\ S = l.data[src].members \ {m}
      OBVIOUS
    <2> HIDE DEF S, p
    <2>3. CASE S = {}
      BY <2>0, <2>1, <2>3 DEF PutSet, RemoveKey, MembersAt, Stored
    <2>4. CASE S # {}
      <3>1. SetObj(S) # Absent /\ IsSet(SetObj(S)) /\ SetObj(S).members = S
        BY <2>2, Objectify
      <3>2. QED
        BY <2>0, <2>1, <2>4, <3>1, SMTT(20) DEF PutSet, Write, MembersAt, Stored
    <2>5. QED
      BY <2>3, <2>4 DEF S
  <1> HIDE DEF p
  <1>4. WellFormed(p)
    BY <1>2 DEF Sound
  <1>5. WellFormed(e) /\ o \in Objects
    BY <1>4, EntryWF, NewContainers
  <1>6. /\ Stored(p, dst) => e = p
        /\ ~Stored(p, dst) => o = NewSet
        /\ \A x \in Objects : ~HollowObject(x) => Sound(p, Write(e, dst, x))
    BY <1>4, EntryWritten, NewContainers
  <1>7. \A k \in Keys \ {dst} : e.data[k] = p.data[k]
    BY <1>4 DEF EntryOr, Write, WellFormed, LDBs
  <1>8. QED
    BY <1>2, <1>3, <1>5, <1>6, <1>7, NewContainers DEF p

\* Where SMOVE moves the member, it is in the destination, and else where it was.
Moved(l, w, src, dst, m) ==
  \A k \in Keys : MembersAt(w, k) = IF k = dst THEN MembersAt(l, k) \cup {m}
                                    ELSE IF k = src THEN MembersAt(l, k) \ {m}
                                    ELSE MembersAt(l, k)

\* The only member of a set, moved onto itself.
Remade(l, src, dst, m) == src = dst /\ MembersAt(l, src) = {m}

LEMMA SMoveEffect ==
  ASSUME NEW l, WellFormed(l), NEW src \in Keys, NEW dst \in Keys, NEW m \in Chunks
  PROVE  LET out == SMove(l, src, dst, m)
         IN  /\ WellFormed(out.ldb) /\ NoNewHollow(l, out.ldb)
             /\ Keeps(l, out.ldb) \/ Remade(l, src, dst, m)
             /\ \A k \in Keys : k # src /\ Stored(out.ldb, k) => out.ldb.expiry[k] = l.expiry[k]
             /\ \/ out = Out(l, BoolInt(FALSE)) \/ out = Out(l, Err("WRONGTYPE"))
                \/ /\ m \in MembersAt(l, src)
                   /\ \/ /\ out.reply = Err("WRONGTYPE")
                         /\ \A k \in Keys : MembersAt(out.ldb, k) \subseteq MembersAt(l, k)
                      \/ out.reply = BoolInt(TRUE) /\ Moved(l, out.ldb, src, dst, m)
  <1> DEFINE out == SMove(l, src, dst, m)
             p == PutSet(l, src, l.data[src].members \ {m})
             e == EntryOr(p, dst, NewSet)
             o == e.data[dst]
             w == Write(e, dst, SetObj(o.members \cup {m}))
  <1>1. SMove(l, src, dst, m) =
          IF ~Stored(l, src) THEN Out(l, BoolInt(FALSE))
          ELSE IF ~IsSet(l.data[src]) THEN Out(l, Err("WRONGTYPE"))
          ELSE IF m \notin l.data[src].members THEN Out(l, BoolInt(FALSE))
          ELSE IF ~IsSet(o) THEN Out(e, Err("WRONGTYPE"))
          ELSE Out(w, BoolInt(TRUE))
    BY DEF SMove
  <1>2. CASE ~(Stored(l, src) /\ IsSet(l.data[src]) /\ m \in l.data[src].members)
    <2>1. out = Out(l, BoolInt(FALSE)) \/ out = Out(l, Err("WRONGTYPE"))
      BY <1>1, <1>2
    <2> HIDE DEF out
    <2>2. out.ldb = l
      BY <2>1 DEF Out, BoolInt
    <2>3. QED
      BY <2>1, <2>2, Untouched DEF out, Sound, Keeps
  <1>3. CASE Stored(l, src) /\ IsSet(l.data[src]) /\ m \in l.data[src].members
    <2>1. /\ Sound(l, p) /\ o \in Objects /\ WellFormed(e)
          /\ \A k \in Keys \ {src} : p.data[k] = l.data[k]
          /\ MembersAt(p, src) = l.data[src].members \ {m}
          /\ \A k \in Keys \ {dst} : e.data[k] = p.data[k]
          /\ Stored(p, dst) => o = p.data[dst]
          /\ ~Stored(p, dst) => o = NewSet
          /\ \A x \in Objects : ~HollowObject(x) => Sound(p, Write(e, dst, x))
          /\ ~IsSet(o) => e = p
      BY <1>3, SMoveSteps
    <2>2. MembersAt(l, src) = l.data[src].members
      BY <1>3 DEF MembersAt
    <2>3. \A k \in Keys \ {src} : MembersAt(p, k) = MembersAt(l, k)
      BY <2>1 DEF MembersAt, Stored
    <2>4. p.expiry \in [Keys -> Nat \cup {Never}] /\ WellFormed(p) /\ WellFormed(l)
      BY <2>1 DEF Sound, WellFormed, LDBs
    <2>5. CASE ~IsSet(o)
      <3>1. out = Out(p, Err("WRONGTYPE"))
        BY <1>1, <1>3, <2>1, <2>5
      <3> HIDE DEF out, p
      <3>2. out.ldb = p /\ out.reply = Err("WRONGTYPE")
        BY <3>1 DEF Out
      <3>3. \A k \in Keys : MembersAt(p, k) \subseteq MembersAt(l, k)
        BY <2>1, <2>2, <2>3
      <3>4. QED
        BY <1>3, <2>1, <2>2, <3>2, <3>3 DEF out, Sound, Keeps
    <2>6. CASE IsSet(o)
      <3>1. out = Out(w, BoolInt(TRUE))
        BY <1>1, <1>3, <2>6
      <3>2. o.members = MembersAt(p, dst)
        BY <2>1, <2>6, NewContainers DEF MembersAt
      <3>3. o.members \in HashSets
        BY <2>1, <2>6, Objectify
      <3>4. /\ SetObj(o.members \cup {m}) \in Objects \ {Absent}
            /\ ~HollowObject(SetObj(o.members \cup {m}))
            /\ IsSet(SetObj(o.members \cup {m}))
            /\ SetObj(o.members \cup {m}).members = o.members \cup {m}
        BY <3>3, Filled, Objectify, FiniteMembers
      <3>5. Sound(p, w)
        BY <2>1, <3>4
      <3>6. /\ \A k \in Keys \ {dst} : w.data[k] = e.data[k]
            /\ w.data[dst] = SetObj(o.members \cup {m})
        BY <2>1 DEF Write, WellFormed, LDBs
      <3> DEFINE new == SetObj(o.members \cup {m})
      <3>7. /\ w.data[dst] = new /\ new # Absent /\ IsSet(new)
            /\ new.members = o.members \cup {m}
        BY <3>4, <3>6
      <3> HIDE DEF out, w, new, e, o, p
      <3>8. MembersAt(w, dst) = MembersAt(p, dst) \cup {m}
        BY <3>2, <3>7 DEF MembersAt, Stored
      <3>9. \A k \in Keys \ {dst} : MembersAt(w, k) = MembersAt(p, k)
        BY <2>1, <3>6 DEF MembersAt, Stored
      <3>10. Moved(l, w, src, dst, m)
        BY <2>1, <2>2, <2>3, <3>8, <3>9 DEF Moved
      <3>11. WellFormed(w) /\ NoNewHollow(l, w)
        BY <2>1, <3>5 DEF Sound, NoNewHollow
      <3>12. \A k \in Keys : Stored(w, k) =>
               w.expiry[k] = l.expiry[k] \/ (k = dst /\ k = src /\ MembersAt(p, src) = {})
        <4>1. ASSUME NEW k \in Keys, Stored(w, k)
              PROVE  \/ w.expiry[k] = l.expiry[k]
                     \/ k = dst /\ k = src /\ MembersAt(p, src) = {}
          <5>1. w.expiry[k] = p.expiry[k]
            BY <3>5, <4>1 DEF Sound, Keeps
          <5>2. CASE Stored(p, k)
            BY <2>1, <5>1, <5>2 DEF Sound, Keeps
          <5>3. CASE ~Stored(p, k)
            <6>1. k = dst
              BY <2>1, <3>6, <4>1, <5>3 DEF Stored
            <6>2. CASE k = src
              BY <5>3, <6>1, <6>2 DEF MembersAt
            <6>3. CASE k # src
              <7>1. ~Stored(l, k)
                BY <2>1, <5>3, <6>3 DEF Stored
              <7>2. p.expiry[k] = Never /\ l.expiry[k] = Never
                BY <2>4, <5>3, <7>1 DEF WellFormed, Stored
              <7>3. QED
                BY <5>1, <7>2
            <6>4. QED
              BY <6>2, <6>3
          <5>4. QED
            BY <5>2, <5>3
        <4>2. QED
          BY <4>1
      <3>13. Keeps(l, w) \/ Remade(l, src, dst, m)
        BY <1>3, <2>1, <2>2, <3>12 DEF Keeps, Remade
      <3>14. out.ldb = w /\ out.reply = BoolInt(TRUE)
        BY <3>1 DEF Out
      <3>15. QED
        BY <1>3, <2>2, <3>10, <3>11, <3>12, <3>13, <3>14 DEF out
    <2>7. QED
      BY <2>5, <2>6
  <1>4. QED
    BY <1>2, <1>3

-----------------------------------------------------------------------------
(* Steps of the Keyspace.                                                  *)

LEMMA PlainlyHollow ==
  ASSUME NEW l, NEW w, Plainly(l, w)
  PROVE  NoNewHollow(l, w)
  BY DEF Plainly, Ordinary, NoNewHollow, Hollow, Stored, IsHash, IsSet, IsStr, IsList

CleanStep == IsError(last'.reply) /\ ~TracesKnown(last') => dbs' = dbs

HollowKept(j) == NoNewHollow(dbs[j], dbs'[j])

HollowMoved(j) ==
  \A k \in Keys : Hollow(dbs'[j], k) /\ ~Hollow(dbs[j], k) =>
    /\ last'.op \in {"RENAME", "RENAMENX"} /\ last'.arg[2] = k
    /\ Hollow(dbs[j], last'.arg[1])

LEMMA RunHollow ==
  ASSUME IInv, NEW op, NEW i, NEW S, NEW arg, NEW out, Run(op, i, S, arg, out),
         i \in Dbs => NoNewHollow(dbs[i], out.ldb), NEW j \in Dbs
  PROVE  HollowKept(j)
  <1>1. dbs'[j] = IF i \in Dbs /\ i = j THEN out.ldb ELSE dbs[j]
    BY DEF Run, IInv, AllWellFormed
  <1>2. NoNewHollow(dbs[j], dbs[j])
    BY DEF NoNewHollow
  <1>3. QED
    BY <1>1, <1>2 DEF HollowKept

\* A command of the Keyspace makes no hash and no set; RENAME moves one.
LEMMA KeyspaceHollow ==
  ASSUME IInv, Next, NEW j \in Dbs
  PROVE  CleanStep /\ (HollowKept(j) \/ HollowMoved(j))
  <1>1. CleanStep
    BY KeyspaceQuiet DEF CleanRefusal, LateRefusal, CleanStep, TracesKnown
  <1>2. PlainStep(j) => HollowKept(j)
    BY PlainlyHollow DEF PlainStep, HollowKept
  <1>3. MovingStep(j) => HollowMoved(j)
    <2>1. SUFFICES ASSUME MovingStep(j), NEW k \in Keys, Hollow(dbs'[j], k), ~Hollow(dbs[j], k)
                   PROVE  last'.arg[2] = k /\ Hollow(dbs[j], last'.arg[1])
      BY DEF MovingStep, HollowMoved
    <2>2. dbs'[j].data[k] # dbs[j].data[k] /\ dbs'[j].data[k] # Absent
      BY <2>1 DEF Hollow, Stored
    <2>3. k = last'.arg[2] /\ dbs'[j].data[k] = dbs[j].data[last'.arg[1]]
      BY <2>1, <2>2 DEF MovingStep
    <2>4. QED
      BY <2>1, <2>3 DEF Hollow, Stored
  <1>4. QED
    BY <1>1, <1>2, <1>3, KeyspaceQuiet

-----------------------------------------------------------------------------
(* Steps of the hash and the set commands.                                 *)

LEMMA SomeSeq ==
  ASSUME NEW T, NEW U, U \subseteq T, NEW s \in Some(U)
  PROVE  s \in Seq(T) /\ s # <<>> /\ s[1] \in T /\ s[Len(s)] \in T
  <1>1. CASE \E x \in U : s = <<x>>
    BY <1>1
  <1>2. CASE \E x, y \in U : s = <<x, y>>
    BY <1>2
  <1>3. QED
    BY <1>1, <1>2 DEF Some

LEMMA PairsSeq ==
  ASSUME NEW p \in FieldPairs
  PROVE  /\ p \in Seq(Chunks \X Chunks) /\ p # <<>>
         /\ p[1][1] \in Chunks /\ p[1][2] \in Chunks
  <1>1. p \in Seq(Fields \X Chunks) /\ p # <<>>
    BY FieldsAssumption
  <1>2. \A x \in Fields \X Chunks : x \in Chunks \X Chunks
    BY FieldsAssumption
  <1>3. p \in Seq(Chunks \X Chunks)
    BY <1>1, <1>2
  <1>4. p[1] \in Chunks \X Chunks
    BY <1>1, <1>3
  <1>5. QED
    BY <1>1, <1>3, <1>4

\* What a hash command does.
HashDone(i, op, out) ==
  /\ op \in HashOpNames
  /\ i \in Dbs => /\ Sound(dbs[i], out.ldb)
                  /\ Tidy(dbs[i], out) \/ (op = "HINCRBYFLOAT" /\ out.reply = Err("NAN"))

LEMMA HashSteps ==
  ASSUME IInv, NEW i \in Index, HashCommand(i)
  PROVE  \E op, S, arg, out : Run(op, i, S, arg, out) /\ HashDone(i, op, out)
  <1>0. i \in Dbs => WellFormed(dbs[i])
    BY DEF IInv, AllWellFormed
  <1>1. ASSUME NEW k \in Keys, NEW p \in FieldPairs, HSetCmd(i, k, p)
        PROVE  \E op, S, arg, out : Run(op, i, S, arg, out) /\ HashDone(i, op, out)
    <2>1. HashDone(i, "HSET", HSet(dbs[i], k, p))
      BY <1>0, HSetTidy, PairsSeq DEF HashDone, HashOpNames, Tidy
    <2>2. QED
      BY <1>1, <2>1 DEF HSetCmd
  <1>2. ASSUME NEW k \in Keys, NEW p \in FieldPairs, HMSetCmd(i, k, p)
        PROVE  \E op, S, arg, out : Run(op, i, S, arg, out) /\ HashDone(i, op, out)
    <2>1. HashDone(i, "HMSET", HMSet(dbs[i], k, p))
      BY <1>0, HSetTidy, PairsSeq DEF HashDone, HashOpNames, Tidy
    <2>2. QED
      BY <1>2, <2>1 DEF HMSetCmd
  <1>3. ASSUME NEW k \in Keys, NEW p \in FieldPairs, HSetNxCmd(i, k, p[1][1], p[1][2])
        PROVE  \E op, S, arg, out : Run(op, i, S, arg, out) /\ HashDone(i, op, out)
    <2>1. HashDone(i, "HSETNX", HSetNx(dbs[i], k, p[1][1], p[1][2]))
      BY <1>0, HSetNxTidy, PairsSeq DEF HashDone, HashOpNames, Tidy
    <2>2. QED
      BY <1>3, <2>1 DEF HSetNxCmd
  <1>4. ASSUME NEW k \in Keys, NEW fs, HDelCmd(i, k, fs)
        PROVE  \E op, S, arg, out : Run(op, i, S, arg, out) /\ HashDone(i, op, out)
    <2>1. HashDone(i, "HDEL", HDel(dbs[i], k, fs))
      BY <1>0, HDelTidy DEF HashDone, HashOpNames, Tidy
    <2>2. QED
      BY <1>4, <2>1 DEF HDelCmd
  <1>5. ASSUME NEW k \in Keys, NEW f \in Fields, NEW d \in Amounts, HIncrByCmd(i, k, f, d)
        PROVE  \E op, S, arg, out : Run(op, i, S, arg, out) /\ HashDone(i, op, out)
    <2>1. HashDone(i, "HINCRBY", HIncrBy(dbs[i], k, f, d))
      BY <1>0, HIncrByTidy, FieldsAssumption DEF HashDone, HashOpNames, Tidy
    <2>2. QED
      BY <1>5, <2>1 DEF HIncrByCmd
  <1>6. ASSUME NEW k \in Keys, NEW f \in Fields, NEW d \in Amounts \cup {NaN},
               HIncrByFloatCmd(i, k, f, d)
        PROVE  \E op, S, arg, out : Run(op, i, S, arg, out) /\ HashDone(i, op, out)
    <2> DEFINE e == EntryOr(dbs[i], k, NewHash)
               o == e.data[k]
               n == CountedField(o, f)
    <2>1. ASSUME i \in Dbs, d # NaN, IsHash(o), n \in Numbers
          PROVE  n + d \in Numbers
      <3>1. d \in Numbers /\ f \in Chunks
        BY <2>1, FieldsAssumption
      <3>2. CASE n = 0
        BY <3>1, <3>2 DEF Numbers
      <3>3. CASE n # 0
        <4>1. n = o.fields[f] /\ o.fields[f] # Absent
          BY <3>3 DEF CountedField
        <4>2. Stored(dbs[i], k) /\ o = dbs[i].data[k]
          <5>1. ~Stored(dbs[i], k) => o = NewHash
            BY <1>0, <2>1, EntryWritten, NewContainers
          <5>2. NewHash.fields[f] = Absent
            BY <3>1 DEF NewHash, HashObj
          <5>3. Stored(dbs[i], k)
            BY <4>1, <5>1, <5>2
          <5>4. QED
            BY <5>3 DEF EntryOr
        <4> HIDE DEF o, n
        <4>3. QED
          BY <1>6, <2>1, <4>1, <4>2 DEF HIncrByFloatCmd, FieldFits
      <3>4. QED
        BY <3>2, <3>3
    <2>2. HashDone(i, "HINCRBYFLOAT", HIncrByFloat(dbs[i], k, f, d))
      BY <1>0, <2>1, HIncrByFloatTidy, FieldsAssumption DEF HashDone, HashOpNames
    <2>3. QED
      BY <1>6, <2>2 DEF HIncrByFloatCmd
  <1>7. QED
    BY <1>1, <1>2, <1>3, <1>4, <1>5, <1>6 DEF HashCommand

\* No member comes.
Shrinks(l, w) == \A k \in Keys : MembersAt(w, k) \subseteq MembersAt(l, k)

LEMMA PutSetShrinks ==
  ASSUME NEW l, WellFormed(l), NEW k \in Keys, NEW S \in HashSets, S \subseteq MembersAt(l, k)
  PROVE  Shrinks(l, PutSet(l, k, S))
  <1>1. SetObj(S).members = S
    BY DEF SetObj
  <1>2. CASE S = {}
    BY <1>2 DEF PutSet, Shrinks, MembersAt, RemoveKey, Stored, WellFormed, LDBs
  <1>3. CASE S # {}
    BY <1>1, <1>3 DEF PutSet, Shrinks, MembersAt, Write, Stored, WellFormed, LDBs
  <1>4. QED
    BY <1>2, <1>3

LEMMA LeavingShrinks ==
  ASSUME NEW l, WellFormed(l), NEW k \in Keys
  PROVE  /\ \A ms : Shrinks(l, SRem(l, k, ms).ldb)
         /\ \A n, chosen : Shrinks(l, SPop(l, k, n, chosen).ldb)
  <1>1. Shrinks(l, l)
    BY DEF Shrinks
  <1>2. ASSUME Stored(l, k), IsSet(l.data[k]), NEW gone
        PROVE  Shrinks(l, PutSet(l, k, l.data[k].members \ gone))
    <2>1. l.data[k].members \in HashSets /\ MembersAt(l, k) = l.data[k].members
      BY <1>2, StoredSet, FiniteMembers DEF MembersAt
    <2>2. /\ l.data[k].members \ gone \in HashSets
          /\ l.data[k].members \ gone \subseteq MembersAt(l, k)
      BY <2>1, FiniteMembers
    <2>3. QED
      BY <2>2, PutSetShrinks
  <1>3. QED
    BY <1>1, <1>2 DEF SRem, SPop, Out

\* What SADD, SREM and SPOP do.
SetDoneBy(i, op, out) ==
  /\ op \in {"SADD", "SREM", "SPOP"}
  /\ i \in Dbs => Tidy(dbs[i], out) /\ (op # "SADD" => Shrinks(dbs[i], out.ldb))

\* What a STORE to dst does.
StoreDone(i, op, arg, out) ==
  /\ op \in StoreOpNames /\ arg[1] \in Keys
  /\ i \in Dbs =>
      \/ out = Out(dbs[i], Err("WRONGTYPE"))
      \/ \E M \in HashSets :
           /\ out = Out(InsertKey(dbs[i], arg[1], SetObj(M)), Num(Cardinality(M)))
           /\ WellFormed(out.ldb) /\ M \subseteq Visible(dbs[i], now)

\* A set command is one of these or a SMOVE.
LEMMA SetSteps ==
  ASSUME IInv, NEW i \in Index, SetCommand(i)
  PROVE  \/ \E op, S, arg, out :
              Run(op, i, S, arg, out) /\ (SetDoneBy(i, op, out) \/ StoreDone(i, op, arg, out))
         \/ \E src, dst \in Keys, m \in Names : SMoveCmd(i, src, dst, m)
  <1> DEFINE Goal == \E op, S, arg, out :
               Run(op, i, S, arg, out) /\ (SetDoneBy(i, op, out) \/ StoreDone(i, op, arg, out))
  <1>0. i \in Dbs => WellFormed(dbs[i])
    BY DEF IInv, AllWellFormed
  <1>1. ASSUME NEW k \in Keys, NEW ms \in Some(Names), SAddCmd(i, k, ms)
        PROVE  Goal
    <2>1. ms \in Seq(Chunks) /\ ms # <<>>
      BY SomeSeq, NamesAssumption
    <2>2. SetDoneBy(i, "SADD", SAdd(dbs[i], k, ms))
      BY <1>0, <2>1, SAddTidy DEF SetDoneBy
    <2>3. QED
      BY <1>1, <2>2 DEF SAddCmd
  <1>2. ASSUME NEW k \in Keys, NEW ms, SRemCmd(i, k, ms)
        PROVE  Goal
    <2>1. SetDoneBy(i, "SREM", SRem(dbs[i], k, ms))
      BY <1>0, SRemTidy, LeavingShrinks DEF SetDoneBy
    <2>2. QED
      BY <1>2, <2>1 DEF SRemCmd
  <1>3. ASSUME NEW k \in Keys, NEW n, SPopCmd(i, k, n)
        PROVE  Goal
    <2>1. PICK chosen : Run("SPOP", i, {k}, n, SPop(dbs[i], k, n, chosen))
      BY <1>3 DEF SPopCmd
    <2>2. SetDoneBy(i, "SPOP", SPop(dbs[i], k, n, chosen))
      BY <1>0, SPopTidy, LeavingShrinks DEF SetDoneBy
    <2>3. QED
      BY <2>1, <2>2
  <1>4. ASSUME NEW dst \in Keys, NEW ks \in Some(Keys),
               SUnionStoreCmd(i, dst, ks) \/ SInterStoreCmd(i, dst, ks) \/ SDiffStoreCmd(i, dst, ks)
        PROVE  Goal
    <2>1. ks \in Seq(Keys) /\ ks # <<>>
      BY SomeSeq
    <2>2. PICK op \in StoreOpNames, out \in {SUnionStore(dbs[i], dst, ks, now),
                                            SInterStore(dbs[i], dst, ks, now),
                                            SDiffStore(dbs[i], dst, ks, now)} :
            Run(op, i, {dst, ks[1], ks[Len(ks)]}, <<dst, ks>>, out)
      BY <1>4 DEF SUnionStoreCmd, SInterStoreCmd, SDiffStoreCmd, StoreOpNames
    <2>3. i \in Dbs =>
            \/ out = Out(dbs[i], Err("WRONGTYPE"))
            \/ \E M \in HashSets :
                 /\ out = Out(InsertKey(dbs[i], dst, SetObj(M)), Num(Cardinality(M)))
                 /\ WellFormed(out.ldb) /\ M \subseteq Visible(dbs[i], now)
      BY <1>0, <2>1, StoreEffect
    <2>4. <<dst, ks>>[1] = dst
      OBVIOUS
    <2>5. StoreDone(i, op, <<dst, ks>>, out)
      BY <2>3, <2>4 DEF StoreDone
    <2>6. QED
      BY <2>2, <2>5
  <1>5. QED
    BY <1>1, <1>2, <1>3, <1>4 DEF SetCommand

-----------------------------------------------------------------------------
(* The invariant.                                                          *)

LEMMA StoreDoneWF ==
  ASSUME IInv, NEW i \in Dbs, NEW op, NEW arg, NEW out, StoreDone(i, op, arg, out)
  PROVE  WellFormed(out.ldb)
  BY DEF StoreDone, IInv, AllWellFormed, Out

LEMMA SMoveStep ==
  ASSUME IInv, NEW i, NEW src \in Keys, NEW dst \in Keys, NEW m \in Names,
         SMoveCmd(i, src, dst, m)
  PROVE  /\ Run("SMOVE", i, {src, dst}, <<src, dst, m>>, SMove(dbs[i], src, dst, m))
         /\ m \in Chunks /\ (i \in Dbs => WellFormed(dbs[i]))
  BY NamesAssumption DEF SMoveCmd, IInv, AllWellFormed

LEMMA ContainersInvStep == IInv /\ [ContainersNext]_vars => IInv'
  <1> SUFFICES ASSUME IInv, [ContainersNext]_vars
               PROVE  IInv'
    OBVIOUS
  <1>1. ASSUME NEW i \in Index, HashCommand(i)
        PROVE  IInv'
    <2>1. PICK op, S, arg, out : Run(op, i, S, arg, out) /\ HashDone(i, op, out)
      BY <1>1, HashSteps
    <2>2. QED
      BY <2>1, RunInv DEF HashDone, Sound
  <1>2. ASSUME NEW i \in Index, SetCommand(i)
        PROVE  IInv'
    <2>1. CASE \E src, dst \in Keys, m \in Names : SMoveCmd(i, src, dst, m)
      <3>1. PICK src \in Keys, dst \in Keys, m \in Names : SMoveCmd(i, src, dst, m)
        BY <2>1
      <3> DEFINE out == SMove(dbs[i], src, dst, m)
      <3>2. Run("SMOVE", i, {src, dst}, <<src, dst, m>>, out)
              /\ (i \in Dbs => WellFormed(out.ldb))
        BY <3>1, SMoveStep, SMoveEffect
      <3> HIDE DEF out
      <3>3. QED
        BY <3>2, RunInv
    <2>2. CASE ~\E src, dst \in Keys, m \in Names : SMoveCmd(i, src, dst, m)
      <3>1. PICK op, S, arg, out :
              Run(op, i, S, arg, out) /\ (SetDoneBy(i, op, out) \/ StoreDone(i, op, arg, out))
        BY <1>2, <2>2, SetSteps
      <3>2. i \in Dbs => WellFormed(out.ldb)
        BY <3>1, StoreDoneWF DEF SetDoneBy, Tidy, Sound
      <3>3. QED
        BY <3>1, <3>2, RunInv
    <2>3. QED
      BY <2>1, <2>2
  <1>3. CASE [Next]_vars
    BY <1>3, InvStep
  <1>4. QED
    BY <1>1, <1>2, <1>3 DEF ContainersNext

\* With the hash and the set commands too, no deadline is left behind for a key of
\* the same name to inherit.
THEOREM ContainersLeaveNoOrphan == ContainersSpec => []NoOrphanDeadline
  <1>1. IInv => NoOrphanDeadline
    BY DEF IInv, AllWellFormed, WellFormed, NoOrphanDeadline, Stored
  <1>2. QED
    BY InvInit, ContainersInvStep, <1>1, PTL DEF ContainersSpec

-----------------------------------------------------------------------------
(* Refusals and empty containers.                                          *)

\* A STORE makes an empty set only when it answers 0.
HollowStored(j) ==
  \A k \in Keys : Hollow(dbs'[j], k) /\ ~Hollow(dbs[j], k) =>
    last'.op \in StoreOpNames /\ last'.reply = Num(0) /\ last'.arg[1] = k

LEMMA HashQuiet ==
  ASSUME IInv, NEW i \in Index, HashCommand(i), NEW j \in Dbs
  PROVE  CleanStep /\ HollowKept(j)
  <1>1. PICK op, S, arg, out : Run(op, i, S, arg, out) /\ HashDone(i, op, out)
    BY HashSteps
  <1>2. HollowKept(j)
    BY <1>1, RunHollow DEF HashDone, Sound
  <1>3. CASE i \in Dbs /\ op = "HINCRBYFLOAT" /\ out.reply = Err("NAN")
    BY <1>1, <1>2, <1>3 DEF Run, CleanStep, TracesKnown
  <1>4. CASE ~(i \in Dbs /\ op = "HINCRBYFLOAT" /\ out.reply = Err("NAN"))
    <2>1. IsError(last'.reply) => dbs' = dbs
      BY <1>1, <1>4, RunClean DEF HashDone, Tidy
    <2>2. QED
      BY <1>2, <2>1 DEF CleanStep
  <1>5. QED
    BY <1>3, <1>4

LEMMA SMoveQuiet ==
  ASSUME IInv, NEW i, NEW src \in Keys, NEW dst \in Keys, NEW m \in Names,
         SMoveCmd(i, src, dst, m), NEW j \in Dbs
  PROVE  CleanStep /\ HollowKept(j)
  <1> DEFINE out == SMove(dbs[i], src, dst, m)
  <1>1. Run("SMOVE", i, {src, dst}, <<src, dst, m>>, out)
    BY SMoveStep
  <1>2. i \in Dbs => NoNewHollow(dbs[i], out.ldb)
    BY SMoveStep, SMoveEffect
  <1>3. i \in Dbs => out.reply \in {BoolInt(FALSE), BoolInt(TRUE), Err("WRONGTYPE")}
    <2>1. i \in Dbs => \/ out = Out(dbs[i], BoolInt(FALSE))
                       \/ out = Out(dbs[i], Err("WRONGTYPE"))
                       \/ out.reply = Err("WRONGTYPE") \/ out.reply = BoolInt(TRUE)
      BY SMoveStep, SMoveEffect, ZenonT(60)
    <2> HIDE DEF out
    <2>2. QED
      BY <2>1 DEF Out, BoolInt
  <1> HIDE DEF out
  <1>4. HollowKept(j)
    BY <1>1, <1>2, RunHollow
  <1>5. CleanStep
    BY <1>1, <1>3, Replies DEF CleanStep, TracesKnown, Run, BoolInt
  <1>6. QED
    BY <1>4, <1>5

LEMMA StoreQuiet ==
  ASSUME IInv, NEW i \in Index, NEW op, NEW S, NEW arg, NEW out,
         Run(op, i, S, arg, out), StoreDone(i, op, arg, out), NEW j \in Dbs
  PROVE  CleanStep /\ HollowStored(j)
  <1>1. i \in Dbs => (IsError(out.reply) => out.ldb = dbs[i])
    BY Replies DEF StoreDone, Out
  <1>2. IsError(last'.reply) => dbs' = dbs
    BY <1>1, RunClean
  <1>3. ASSUME NEW k \in Keys, Hollow(dbs'[j], k), ~Hollow(dbs[j], k)
        PROVE  last'.op \in StoreOpNames /\ last'.reply = Num(0) /\ last'.arg[1] = k
    <2>1. i \in Dbs /\ i = j /\ dbs'[j] = out.ldb
      BY <1>3 DEF Run, IInv, AllWellFormed
    <2>2. last'.op = op /\ last'.arg = arg /\ last'.reply = out.reply
      BY <2>1 DEF Run
    <2>3. PICK M \in HashSets :
            out = Out(InsertKey(dbs[i], arg[1], SetObj(M)), Num(Cardinality(M)))
      BY <1>3, <2>1 DEF StoreDone, Out
    <2>4. out.reply = Num(Cardinality(M)) /\ out.ldb = InsertKey(dbs[i], arg[1], SetObj(M))
      BY <2>3 DEF Out
    <2>5. k = arg[1] /\ M = {}
      <3>1. dbs[i].data \in [Keys -> Objects \cup {Absent}]
        BY <2>1 DEF IInv, AllWellFormed, WellFormed, LDBs
      <3>2. dbs'[j].data = [dbs[i].data EXCEPT ![arg[1]] = SetObj(M)]
        BY <2>1, <2>4 DEF InsertKey
      <3>3. k = arg[1]
        BY <1>3, <2>1, <3>1, <3>2 DEF Hollow, Stored
      <3>4. dbs'[j].data[k] = SetObj(M)
        BY <3>1, <3>2, <3>3
      <3>5. QED
        BY <1>3, <3>3, <3>4 DEF Hollow, SetObj, IsHash, IsSet
    <2>6. out.reply = Num(0)
      BY <2>4, <2>5, FS_EmptySet
    <2>7. QED
      BY <2>2, <2>5, <2>6 DEF StoreDone
  <1>4. QED
    BY <1>2, <1>3 DEF CleanStep, HollowStored

LEMMA ContainersQuiet ==
  ASSUME IInv, ContainersNext, NEW j \in Dbs
  PROVE  CleanStep /\ (HollowKept(j) \/ HollowMoved(j) \/ HollowStored(j))
  <1>1. ASSUME NEW i \in Index, SetCommand(i)
        PROVE  CleanStep /\ (HollowKept(j) \/ HollowStored(j))
    <2>1. CASE \E src, dst \in Keys, m \in Names : SMoveCmd(i, src, dst, m)
      BY <2>1, SMoveQuiet
    <2>2. CASE \E op, S, arg, out : Run(op, i, S, arg, out) /\ SetDoneBy(i, op, out)
      <3>1. PICK op, S, arg, out : Run(op, i, S, arg, out) /\ SetDoneBy(i, op, out)
        BY <2>2
      <3>2. HollowKept(j)
        BY <3>1, RunHollow DEF SetDoneBy, Tidy, Sound
      <3>3. IsError(last'.reply) => dbs' = dbs
        BY <3>1, RunClean DEF SetDoneBy, Tidy
      <3>4. QED
        BY <3>2, <3>3 DEF CleanStep
    <2>3. CASE \E op, S, arg, out : Run(op, i, S, arg, out) /\ StoreDone(i, op, arg, out)
      BY <2>3, StoreQuiet
    <2>4. QED
      BY <1>1, <2>1, <2>2, <2>3, SetSteps
  <1>2. QED
    BY <1>1, HashQuiet, KeyspaceHollow DEF ContainersNext

\* A command that is answered with an error changed nothing, for all commands but
\* the four that TracesKnown names.
THEOREM RefusalsLeaveNoTrace == ContainersSpec => ErrorsLeaveNoTrace
  <1>1. IInv /\ [ContainersNext]_vars =>
          [IsError(last'.reply) /\ ~TracesKnown(last') => dbs' = dbs]_vars
    <2>1. ASSUME IInv, ContainersNext
          PROVE  CleanStep
      <3>1. CASE Dbs = {}
        <4>1. dbs' = dbs
          BY <2>1, <3>1, ContainersInvStep DEF IInv, AllWellFormed
        <4>2. QED
          BY <4>1 DEF CleanStep
      <3>2. CASE Dbs # {}
        BY <2>1, <3>2, ContainersQuiet
      <3>3. QED
        BY <3>1, <3>2
    <2>2. QED
      BY <2>1 DEF CleanStep
  <1>2. QED
    BY InvInit, ContainersInvStep, <1>1, PTL DEF ContainersSpec, ErrorsLeaveNoTrace

\* Whatever the history, a hash or a set is never left empty but by a STORE, and by
\* the RENAME of an empty one.
THEOREM HollowsComeFromStores == ContainersSpec => HollowOnlyByStore
  <1>1. IInv /\ [ContainersNext]_vars =>
          [\A i \in Dbs, k \in Keys :
             Hollow(dbs'[i], k) /\ ~Hollow(dbs[i], k) =>
               \/ last'.op \in StoreOpNames /\ last'.reply = Num(0) /\ last'.arg[1] = k
               \/ /\ last'.op \in {"RENAME", "RENAMENX"} /\ last'.arg[2] = k
                  /\ Hollow(dbs[i], last'.arg[1])]_vars
    BY ContainersQuiet DEF HollowKept, NoNewHollow, HollowMoved, HollowStored
  <1>2. QED
    BY InvInit, ContainersInvStep, <1>1, PTL DEF ContainersSpec, HollowOnlyByStore

-----------------------------------------------------------------------------
(* Deadlines.                                                              *)

LEMMA KeyspaceNames ==
  ASSUME Next
  PROVE  last'.op \notin HashOpNames \cup SetOpNames
  <1> USE DEF Run, HashOpNames, SetOpNames, StoreOpNames
  <1>1. ASSUME NEW i, GenericCommand(i)
        PROVE  last'.op \notin HashOpNames \cup SetOpNames
    BY <1>1 DEF GenericCommand, DelCmd, RenameCmd, RenamenxCmd, ExpireCmd, PExpireCmd,
         ExpireAtCmd, PExpireAtCmd, PersistCmd, FlushDbCmd, FlushAllCmd
  <1>2. ASSUME NEW i, StringCommand(i)
        PROVE  last'.op \notin HashOpNames \cup SetOpNames
    BY <1>2 DEF StringCommand, SetCmd, SetnxCmd, GetSetCmd, GetDelCmd, GetExCmd, MSetCmd,
         MSetNxCmd, AppendCmd, SetRangeCmd, IncrByCmd, DecrByCmd, IncrByFloatCmd
  <1>3. ASSUME NEW i, ListCommand(i)
        PROVE  last'.op \notin HashOpNames \cup SetOpNames
    BY <1>3 DEF ListCommand, RPushCmd, RPushXCmd, LPopCmd
  <1>4. CASE EvictCmd \/ Tick
    BY <1>4 DEF EvictCmd, Tick
  <1>5. QED
    BY <1>1, <1>2, <1>3, <1>4 DEF Next, Command

\* What the property says of one step, one database and one key.
DeadlineKept(i, k) ==
  last'.op \in HashOpNames \cup SetOpNames /\ last'.db = i /\ Stored(dbs'[i], k) =>
    IF last'.op \in StoreOpNames /\ last'.arg[1] = k /\ ~IsError(last'.reply)
    THEN dbs'[i].expiry[k] = Never
    ELSE \/ dbs'[i].expiry[k] = dbs[i].expiry[k]
         \/ ~Stored(dbs[i], k) /\ dbs'[i].expiry[k] = Never
         \/ /\ last'.op = "SMOVE" /\ last'.arg[1] = k /\ last'.arg[2] = k
            /\ Pool(i, k) = {last'.arg[3]}

LEMMA KeptByKeeping ==
  ASSUME IInv, NEW op, op \notin StoreOpNames, NEW i \in Dbs, NEW S, NEW arg, NEW out, NEW j,
         Run(op, j, S, arg, out), j \in Dbs => Keeps(dbs[j], out.ldb), NEW k \in Keys
  PROVE  DeadlineKept(i, k)
  <1> SUFFICES ASSUME last'.db = i, Stored(dbs'[i], k)
               PROVE  /\ dbs'[i].expiry[k] = dbs[i].expiry[k] /\ last'.op = op
    BY DEF DeadlineKept
  <1>1. j = i /\ dbs'[i] = out.ldb /\ last'.op = op
    BY RunAt
  <1>2. QED
    BY <1>1 DEF Keeps

LEMMA KeptByStore ==
  ASSUME IInv, NEW op, NEW i \in Dbs, NEW S, NEW arg, NEW out, NEW j,
         Run(op, j, S, arg, out), StoreDone(j, op, arg, out), NEW k \in Keys
  PROVE  DeadlineKept(i, k)
  <1> SUFFICES ASSUME last'.db = i, Stored(dbs'[i], k)
               PROVE  DeadlineKept(i, k)
    BY DEF DeadlineKept
  <1>1. /\ j = i /\ dbs'[i] = out.ldb
        /\ last'.op = op /\ last'.arg = arg /\ last'.reply = out.reply
    BY RunAt
  <1>2. op \in StoreOpNames /\ op # "SMOVE" /\ arg[1] \in Keys
    BY DEF StoreDone, StoreOpNames
  <1>3. CASE out = Out(dbs[i], Err("WRONGTYPE"))
    <2>1. dbs'[i] = dbs[i] /\ IsError(last'.reply)
      BY <1>1, <1>3, Replies DEF Out
    <2>2. QED
      BY <2>1 DEF DeadlineKept
  <1>4. CASE out # Out(dbs[i], Err("WRONGTYPE"))
    <2>1. PICK M : out = Out(InsertKey(dbs[i], arg[1], SetObj(M)), Num(Cardinality(M)))
      BY <1>1, <1>4 DEF StoreDone
    <2>2. dbs'[i] = InsertKey(dbs[i], arg[1], SetObj(M)) /\ ~IsError(last'.reply)
      BY <1>1, <2>1, Replies DEF Out
    <2>3. dbs[i].expiry \in [Keys -> Nat \cup {Never}]
      BY DEF IInv, AllWellFormed, LDBs
    <2>4. dbs'[i].expiry[k] = IF k = arg[1] THEN Never ELSE dbs[i].expiry[k]
      BY <1>2, <2>2, <2>3 DEF InsertKey
    <2>5. QED
      BY <1>1, <1>2, <2>2, <2>4 DEF DeadlineKept
  <1>5. QED
    BY <1>3, <1>4

LEMMA KeptBySMove ==
  ASSUME IInv, NEW i \in Dbs, NEW src \in Keys, NEW dst \in Keys, NEW m \in Names, NEW j,
         SMoveCmd(j, src, dst, m), NEW k \in Keys
  PROVE  DeadlineKept(i, k)
  <1> DEFINE out == SMove(dbs[j], src, dst, m)
             arg == <<src, dst, m>>
  <1> SUFFICES ASSUME last'.db = i, Stored(dbs'[i], k)
               PROVE  DeadlineKept(i, k)
    BY DEF DeadlineKept
  <1>1. Run("SMOVE", j, {src, dst}, arg, out)
    BY SMoveStep
  <1>2. arg[1] = src /\ arg[2] = dst /\ arg[3] = m
    OBVIOUS
  <1>3. j \in Dbs =>
          /\ Keeps(dbs[j], out.ldb) \/ Remade(dbs[j], src, dst, m)
          /\ k # src => (Stored(out.ldb, k) => out.ldb.expiry[k] = dbs[j].expiry[k])
    <2>1. ASSUME j \in Dbs
          PROVE  /\ Keeps(dbs[j], out.ldb) \/ Remade(dbs[j], src, dst, m)
                 /\ \A x \in Keys : x # src /\ Stored(out.ldb, x) =>
                      out.ldb.expiry[x] = dbs[j].expiry[x]
      <3>1. WellFormed(dbs[j]) /\ m \in Chunks
        BY <2>1, SMoveStep
      <3>2. QED
        BY <3>1, SMoveEffect, ZenonT(60)
    <2> HIDE DEF out
    <2>2. QED
      BY <2>1
  <1> HIDE DEF out, arg
  <1>4. j = i /\ dbs'[i] = out.ldb /\ last'.op = "SMOVE" /\ last'.arg = arg
    BY <1>1, RunAt
  <1>5. CASE k # src \/ Keeps(dbs[j], out.ldb)
    <2>1. dbs'[i].expiry[k] = dbs[i].expiry[k]
      BY <1>3, <1>4, <1>5 DEF Keeps
    <2>2. QED
      BY <1>4, <2>1 DEF DeadlineKept, StoreOpNames
  <1>6. CASE k = src /\ ~Keeps(dbs[j], out.ldb)
    <2>1. src = dst /\ MembersAt(dbs[i], k) = {m}
      BY <1>3, <1>4, <1>6 DEF Remade
    <2>2. Pool(i, k) = {m}
      BY <2>1 DEF Pool, MembersAt
    <2>3. QED
      BY <1>2, <1>4, <1>6, <2>1, <2>2 DEF DeadlineKept, StoreOpNames
  <1>7. QED
    BY <1>5, <1>6

\* Of the hash and set commands, a STORE alone changes the time to live of a key that
\* goes on existing, and SMOVE of an only member onto itself.
THEOREM ContainersLeaveDeadlines == ContainersSpec => ContainersKeepDeadlines
  <1>1. ASSUME IInv, ContainersNext, NEW i \in Dbs, NEW k \in Keys
        PROVE  DeadlineKept(i, k)
    <2>1. CASE Next
      BY <2>1, KeyspaceNames DEF DeadlineKept
    <2>2. ASSUME NEW j \in Index, HashCommand(j)
          PROVE  DeadlineKept(i, k)
      <3>1. PICK op, S, arg, out : Run(op, j, S, arg, out) /\ HashDone(j, op, out)
        BY <1>1, <2>2, HashSteps
      <3>2. op \notin StoreOpNames /\ (j \in Dbs => Keeps(dbs[j], out.ldb))
        BY <3>1 DEF HashDone, HashOpNames, StoreOpNames, Sound
      <3>3. QED
        BY <1>1, <3>1, <3>2, KeptByKeeping
    <2>3. ASSUME NEW j \in Index, SetCommand(j)
          PROVE  DeadlineKept(i, k)
      <3>1. CASE \E src, dst \in Keys, m \in Names : SMoveCmd(j, src, dst, m)
        BY <1>1, <3>1, KeptBySMove
      <3>2. CASE \E op, S, arg, out : Run(op, j, S, arg, out) /\ SetDoneBy(j, op, out)
        <4>1. PICK op, S, arg, out : Run(op, j, S, arg, out) /\ SetDoneBy(j, op, out)
          BY <3>2
        <4>2. op \notin StoreOpNames /\ (j \in Dbs => Keeps(dbs[j], out.ldb))
          BY <4>1 DEF SetDoneBy, StoreOpNames, Tidy, Sound
        <4>3. QED
          BY <1>1, <4>1, <4>2, KeptByKeeping
      <3>3. CASE \E op, S, arg, out : Run(op, j, S, arg, out) /\ StoreDone(j, op, arg, out)
        BY <1>1, <3>3, KeptByStore
      <3>4. QED
        BY <1>1, <2>3, <3>1, <3>2, <3>3, SetSteps
    <2>4. QED
      BY <1>1, <2>1, <2>2, <2>3 DEF ContainersNext
  <1>2. IInv /\ [ContainersNext]_vars =>
          [\A i \in Dbs, k \in Keys :
             last'.op \in HashOpNames \cup SetOpNames /\ last'.db = i /\ Stored(dbs'[i], k) =>
               IF last'.op \in StoreOpNames /\ last'.arg[1] = k /\ ~IsError(last'.reply)
               THEN dbs'[i].expiry[k] = Never
               ELSE \/ dbs'[i].expiry[k] = dbs[i].expiry[k]
                    \/ ~Stored(dbs[i], k) /\ dbs'[i].expiry[k] = Never
                    \/ /\ last'.op = "SMOVE" /\ last'.arg[1] = k /\ last'.arg[2] = k
                       /\ Pool(i, k) = {last'.arg[3]}]_vars
    <2>1. CASE ContainersNext
      BY <1>1, <2>1 DEF DeadlineKept
    <2>2. CASE UNCHANGED vars
      BY <2>2
    <2>3. QED
      BY <2>1, <2>2
  <1>3. QED
    BY InvInit, ContainersInvStep, <1>2, PTL DEF ContainersSpec, ContainersKeepDeadlines

-----------------------------------------------------------------------------
(* Members.                                                                *)

\* A step that says it is a SMOVE is one.
LEMMA SMoveOnly ==
  ASSUME IInv, ContainersNext, last'.op = "SMOVE"
  PROVE  \E i \in Index, src, dst \in Keys, m \in Names : SMoveCmd(i, src, dst, m)
  <1>1. ~Next
    BY KeyspaceNames DEF SetOpNames
  <1>2. ASSUME NEW i \in Index, HashCommand(i)
        PROVE  FALSE
    <2>1. PICK op, S, arg, out : Run(op, i, S, arg, out) /\ HashDone(i, op, out)
      BY <1>2, HashSteps
    <2>2. QED
      BY <2>1 DEF Run, HashDone, HashOpNames
  <1>3. PICK i \in Index : SetCommand(i)
    BY <1>1, <1>2 DEF ContainersNext
  <1>4. ASSUME NEW op, NEW S, NEW arg, NEW out, Run(op, i, S, arg, out),
               SetDoneBy(i, op, out) \/ StoreDone(i, op, arg, out)
        PROVE  FALSE
    BY <1>4 DEF Run, SetDoneBy, StoreDone, StoreOpNames
  <1>5. QED
    BY <1>3, <1>4, SetSteps

\* SMOVE, from any state, loses no member and invents none.
THEOREM SMoveIsAMove == ContainersSpec => SMoveConserves
  <1> DEFINE old == dbs[last'.db]
             new == dbs'[last'.db]
             src == last'.arg[1]
             dst == last'.arg[2]
             m == last'.arg[3]
  <1>1. ASSUME IInv, ContainersNext, last'.op = "SMOVE", last'.db \in Dbs,
               ~IsError(last'.reply), NEW k \in Keys
        PROVE  MembersAt(new, k) = IF last'.reply = BoolInt(FALSE) THEN MembersAt(old, k)
                                   ELSE IF k = dst THEN MembersAt(old, k) \cup {m}
                                   ELSE IF k = src THEN MembersAt(old, k) \ {m}
                                   ELSE MembersAt(old, k)
    <2>1. PICK i \in Index, s \in Keys, d \in Keys, x \in Names : SMoveCmd(i, s, d, x)
      BY <1>1, SMoveOnly
    <2> DEFINE out == SMove(dbs[i], s, d, x)
               arg == <<s, d, x>>
    <2>2. Run("SMOVE", i, {s, d}, arg, out)
      BY <1>1, <2>1, SMoveStep
    <2>3. arg[1] = s /\ arg[2] = d /\ arg[3] = x
      OBVIOUS
    <2>4. i \in Dbs => \/ out = Out(dbs[i], BoolInt(FALSE))
                       \/ out = Out(dbs[i], Err("WRONGTYPE"))
                       \/ out.reply = Err("WRONGTYPE")
                       \/ out.reply = BoolInt(TRUE) /\ Moved(dbs[i], out.ldb, s, d, x)
      BY <1>1, <2>1, SMoveStep, SMoveEffect
    <2> HIDE DEF out, arg
    <2>5. /\ i = last'.db /\ new = out.ldb
          /\ last'.arg = arg /\ last'.reply = out.reply
      BY <1>1, <2>2, RunAt
    <2>6. ~IsError(out.reply) /\ src = s /\ dst = d /\ m = x /\ old = dbs[i]
      BY <1>1, <2>3, <2>5
    <2>7. CASE out = Out(dbs[i], BoolInt(FALSE))
      <3>1. new = old /\ last'.reply = BoolInt(FALSE)
        BY <2>5, <2>6, <2>7 DEF Out, BoolInt
      <3>2. QED
        BY <3>1
    <2>8. CASE out.reply = BoolInt(TRUE) /\ Moved(dbs[i], out.ldb, s, d, x)
      <3>1. last'.reply # BoolInt(FALSE)
        BY <2>5, <2>8 DEF BoolInt, Num
      <3>2. MembersAt(new, k) = IF k = d THEN MembersAt(old, k) \cup {x}
                                ELSE IF k = s THEN MembersAt(old, k) \ {x}
                                ELSE MembersAt(old, k)
        BY <2>5, <2>6, <2>8 DEF Moved
      <3>3. QED
        BY <2>6, <3>1, <3>2
    <2>9. out # Out(dbs[i], Err("WRONGTYPE")) /\ out.reply # Err("WRONGTYPE")
      BY <2>6, Replies DEF Out
    <2>10. QED
      BY <2>1, <2>4, <2>5, <2>7, <2>8, <2>9, <1>1
  <1>2. IInv /\ [ContainersNext]_vars =>
          [last'.op = "SMOVE" /\ last'.db \in Dbs /\ ~IsError(last'.reply) =>
             \A k \in Keys :
               MembersAt(new, k) =
                 IF last'.reply = BoolInt(FALSE) THEN MembersAt(old, k)
                 ELSE IF k = dst THEN MembersAt(old, k) \cup {m}
                 ELSE IF k = src THEN MembersAt(old, k) \ {m}
                 ELSE MembersAt(old, k)]_vars
    <2>1. CASE ContainersNext
      BY <1>1, <2>1
    <2>2. CASE UNCHANGED vars
      BY <2>2
    <2>3. QED
      BY <2>1, <2>2
  <1>3. QED
    BY InvInit, ContainersInvStep, <1>2, PTL DEF ContainersSpec, SMoveConserves

\* A member clients see in w was there in l, for keys that keep their deadlines.
LEMMA ShrinkingShows ==
  ASSUME NEW l, NEW w, Keeps(l, w), NEW t, NEW k \in Keys, NEW x \in Shown(w, k, t),
         x \in MembersAt(l, k)
  PROVE  x \in Shown(l, k, t)
  <1>1. Live(w, k, t) /\ Stored(l, k)
    BY DEF Shown, MembersAt
  <1>2. ~Dead(l, k, t)
    BY <1>1, DeadStaysDead
  <1>3. Live(l, k, t)
    BY <1>1, <1>2 DEF Dead, Live, Get, Stored
  <1>4. QED
    BY <1>3 DEF Shown

LEMMA StoreShows ==
  ASSUME NEW l, WellFormed(l), NEW dst \in Keys, NEW M \in HashSets, NEW t,
         M \subseteq Visible(l, t), NEW k \in Keys
  PROVE  Shown(InsertKey(l, dst, SetObj(M)), k, t) \subseteq Visible(l, t)
  <1> DEFINE w == InsertKey(l, dst, SetObj(M))
  <1>1. CASE k = dst
    <2>1. w.data[k] = SetObj(M)
      BY <1>1 DEF InsertKey, WellFormed, LDBs
    <2>2. MembersAt(w, k) \subseteq M
      BY <2>1 DEF MembersAt, SetObj
    <2>3. QED
      BY <2>2 DEF Shown
  <1>2. CASE k # dst
    <2>1. w.data[k] = l.data[k] /\ w.expiry[k] = l.expiry[k]
      BY <1>2 DEF InsertKey, WellFormed, LDBs
    <2>2. Shown(w, k, t) = Shown(l, k, t)
      BY <2>1 DEF Shown, Live, Get, IsExpired, MembersAt, Stored
    <2>3. QED
      BY <2>2 DEF Visible
  <1>3. QED
    BY <1>1, <1>2

LEMMA SMoveShows ==
  ASSUME NEW l, WellFormed(l), NEW src \in Keys, NEW dst \in Keys, NEW m \in Chunks, NEW t,
         ~Dead(l, src, t), NEW k \in Keys
  PROVE  Shown(SMove(l, src, dst, m).ldb, k, t) \subseteq Visible(l, t)
  <1> DEFINE out == SMove(l, src, dst, m)
             w == out.ldb
  <1>1. \A j \in Keys : j # src /\ Stored(w, j) => w.expiry[j] = l.expiry[j]
    BY SMoveEffect, ZenonT(60)
  <1>2. \/ out = Out(l, BoolInt(FALSE)) \/ out = Out(l, Err("WRONGTYPE"))
        \/ /\ m \in MembersAt(l, src)
           /\ Shrinks(l, w) \/ Moved(l, w, src, dst, m)
    BY SMoveEffect DEF Shrinks
  <1>3. out = Out(l, BoolInt(FALSE)) \/ out = Out(l, Err("WRONGTYPE")) => w = l
    BY DEF Out, BoolInt
  <1> HIDE DEF out, w
  <1>4. CASE w = l
    BY <1>4 DEF Visible, w, out
  <1>5. CASE m \in MembersAt(l, src) /\ (Shrinks(l, w) \/ Moved(l, w, src, dst, m))
    <2>1. Stored(l, src) /\ Live(l, src, t)
      BY <1>5 DEF MembersAt, Dead, Live, Get, Stored
    <2>2. m \in Shown(l, src, t)
      BY <1>5, <2>1 DEF Shown
    <2>3. m \in Visible(l, t)
      BY <2>2 DEF Visible
    <2>4. MembersAt(w, k) \subseteq MembersAt(l, k) \cup {m}
      BY <1>5 DEF Shrinks, Moved
    <2>5. ASSUME NEW x \in Shown(w, k, t), x \in MembersAt(l, k)
          PROVE  x \in Shown(l, k, t)
      <3>1. CASE k = src
        BY <2>1, <2>5, <3>1 DEF Shown
      <3>2. CASE k # src
        <4>1. Live(w, k, t) /\ Stored(w, k) /\ Stored(l, k)
          BY <2>5 DEF Shown, MembersAt, Live, Get, Stored
        <4>2. w.expiry[k] = l.expiry[k]
          BY <1>1, <3>2, <4>1
        <4>3. Live(l, k, t)
          BY <4>1, <4>2 DEF Live, Get, IsExpired, Stored
        <4>4. QED
          BY <2>5, <4>3 DEF Shown
      <3>3. QED
        BY <3>1, <3>2
    <2>6. ASSUME NEW x \in Shown(w, k, t)
          PROVE  x \in Visible(l, t)
      <3>1. x \in MembersAt(w, k)
        BY <2>6 DEF Shown
      <3>2. CASE x = m
        BY <2>3, <3>2
      <3>3. CASE x # m
        <4>1. x \in Shown(l, k, t)
          BY <2>4, <2>5, <2>6, <3>1, <3>3
        <4>2. QED
          BY <4>1 DEF Visible
      <3>4. QED
        BY <3>2, <3>3
    <2>7. QED
      BY <2>6 DEF w, out
  <1>6. QED
    BY <1>2, <1>3, <1>4, <1>5

\* What a step from l to w with the request's name and arguments leaves to be seen.
NothingRises(op, arg, l, w, t) ==
  op \in SetOpNames \ {"SADD"} =>
    \/ op = "SMOVE" /\ Dead(l, arg[1], t)
    \/ \A k \in Keys : Shown(w, k, t) \subseteq Visible(l, t)

LEMMA UnchangedRaisesNothing ==
  ASSUME NEW l, NEW op, NEW arg, NEW t
  PROVE  NothingRises(op, arg, l, l, t)
  BY DEF NothingRises, Visible

LEMMA SetsRaiseNothing ==
  ASSUME IInv, NEW i \in Dbs, NEW op, NEW arg, NEW out, SetDoneBy(i, op, out)
  PROVE  NothingRises(op, arg, dbs[i], out.ldb, now)
  <1> DEFINE l == dbs[i]
             w == out.ldb
  <1>1. SUFFICES ASSUME op # "SADD", NEW k \in Keys, NEW x \in Shown(w, k, now)
                 PROVE  x \in Visible(l, now)
    BY DEF NothingRises
  <1>2. Keeps(l, w) /\ Shrinks(l, w)
    BY <1>1 DEF SetDoneBy, Tidy, Sound
  <1>3. x \in MembersAt(l, k)
    BY <1>1, <1>2 DEF Shown, Shrinks
  <1>4. x \in Shown(l, k, now)
    BY <1>1, <1>2, <1>3, ShrinkingShows
  <1>5. QED
    BY <1>4 DEF Visible

LEMMA StoresRaiseNothing ==
  ASSUME IInv, NEW i \in Dbs, NEW op, NEW arg, NEW out, StoreDone(i, op, arg, out)
  PROVE  NothingRises(op, arg, dbs[i], out.ldb, now)
  <1> DEFINE l == dbs[i]
  <1>1. WellFormed(l)
    BY DEF IInv, AllWellFormed
  <1>2. CASE out = Out(l, Err("WRONGTYPE"))
    <2>1. out.ldb = l
      BY <1>2 DEF Out
    <2>2. QED
      BY <2>1, UnchangedRaisesNothing
  <1>3. ASSUME NEW M \in HashSets, M \subseteq Visible(l, now),
               out = Out(InsertKey(l, arg[1], SetObj(M)), Num(Cardinality(M)))
        PROVE  NothingRises(op, arg, l, out.ldb, now)
    <2>1. out.ldb = InsertKey(l, arg[1], SetObj(M)) /\ arg[1] \in Keys
      BY <1>3 DEF Out, StoreDone
    <2>2. \A k \in Keys : Shown(out.ldb, k, now) \subseteq Visible(l, now)
      BY <1>1, <1>3, <2>1, StoreShows
    <2>3. QED
      BY <2>2 DEF NothingRises
  <1>4. QED
    BY <1>2, <1>3 DEF StoreDone

LEMMA SMoveRaisesNothing ==
  ASSUME IInv, NEW i \in Dbs, NEW src \in Keys, NEW dst \in Keys, NEW m \in Chunks
  PROVE  NothingRises("SMOVE", <<src, dst, m>>, dbs[i], SMove(dbs[i], src, dst, m).ldb, now)
  <1>1. WellFormed(dbs[i])
    BY DEF IInv, AllWellFormed
  <1>2. <<src, dst, m>>[1] = src
    OBVIOUS
  <1>3. QED
    BY <1>1, <1>2, SMoveShows DEF NothingRises

\* What a dead set still holds does not come back through the operands or the
\* destination of another command, in any instance.
THEOREM NothingRisesFromTheDead == ContainersSpec => NoMemberFromTheDead
  <1>1. ASSUME IInv, ContainersNext, last'.db \in Dbs, last'.op \in SetOpNames \ {"SADD"}
        PROVE  NothingRises(last'.op, last'.arg, dbs[last'.db], dbs'[last'.db], now) /\ now' = now
    <2>1. ~Next
      BY <1>1, KeyspaceNames
    <2>2. ASSUME NEW i \in Index, HashCommand(i)
          PROVE  FALSE
      <3>1. PICK op, S, arg, out : Run(op, i, S, arg, out) /\ HashDone(i, op, out)
        BY <1>1, <2>2, HashSteps
      <3>2. QED
        BY <1>1, <3>1 DEF Run, HashDone, HashOpNames, SetOpNames, StoreOpNames
    <2>3. PICK i \in Index : SetCommand(i)
      BY <1>1, <2>1, <2>2 DEF ContainersNext
    <2>4. ASSUME NEW op, NEW S, NEW arg, NEW out, Run(op, i, S, arg, out),
                 SetDoneBy(i, op, out) \/ StoreDone(i, op, arg, out)
          PROVE  NothingRises(last'.op, last'.arg, dbs[last'.db], dbs'[last'.db], now) /\ now' = now
      <3>1. /\ i = last'.db /\ dbs'[last'.db] = out.ldb /\ now' = now
            /\ last'.op = op /\ last'.arg = arg
        BY <1>1, <2>4, RunAt
      <3>2. NothingRises(op, arg, dbs[i], out.ldb, now)
        BY <1>1, <2>4, <3>1, SetsRaiseNothing, StoresRaiseNothing
      <3>3. QED
        BY <3>1, <3>2
    <2>5. ASSUME NEW src \in Keys, NEW dst \in Keys, NEW m \in Names, SMoveCmd(i, src, dst, m)
          PROVE  NothingRises(last'.op, last'.arg, dbs[last'.db], dbs'[last'.db], now) /\ now' = now
      <3> DEFINE out == SMove(dbs[i], src, dst, m)
                 arg == <<src, dst, m>>
      <3>1. Run("SMOVE", i, {src, dst}, arg, out) /\ m \in Chunks
        BY <1>1, <2>5, SMoveStep, NamesAssumption
      <3>2. /\ i = last'.db /\ dbs'[last'.db] = out.ldb /\ now' = now
            /\ last'.op = "SMOVE" /\ last'.arg = arg
        BY <1>1, <3>1, RunAt
      <3>3. NothingRises("SMOVE", arg, dbs[i], out.ldb, now)
        BY <1>1, <3>1, <3>2, SMoveRaisesNothing
      <3>4. QED
        BY <3>2, <3>3
    <2>6. QED
      BY <1>1, <2>3, <2>4, <2>5, SetSteps
  <1>2. IInv /\ [ContainersNext]_vars =>
          [last'.op \in SetOpNames \ {"SADD"} /\ last'.db \in Dbs =>
             \/ last'.op = "SMOVE" /\ Dead(dbs[last'.db], last'.arg[1], now)
             \/ \A k \in Keys :
                  Shown(dbs'[last'.db], k, now')
                    \subseteq UNION {Shown(dbs[last'.db], j, now) : j \in Keys}]_vars
    <2>1. CASE ContainersNext
      BY <1>1, <2>1 DEF NothingRises, Visible
    <2>2. CASE UNCHANGED vars
      BY <2>2
    <2>3. QED
      BY <2>1, <2>2
  <1>3. QED
    BY InvInit, ContainersInvStep, <1>2, PTL DEF ContainersSpec, NoMemberFromTheDead

-----------------------------------------------------------------------------
(* Readers.                                                                *)

\* What a reader finds: nothing, or an object of one of the five types.
LEMMA FoundObject ==
  ASSUME NEW l, WellFormed(l), NEW k \in Keys, NEW t, Get(l, k, t) # Absent
  PROVE  /\ Get(l, k, t) \in Objects
         /\ TypeOf(l, k, t) = Get(l, k, t).type
         /\ TypeOf(l, k, t) # "none"
  <1>1. Get(l, k, t) \in Objects
    BY DEF Get, WellFormed, LDBs
  <1>2. \A o \in Objects : o.type # "none"
    BY DEF Objects, SeqObjects, HashObjects, SetObjects, ZSetObjects
  <1>3. QED
    BY <1>1, <1>2 DEF TypeOf

LEMMA NullOrValue ==
  /\ \A v : OrNull(v) # Nil <=> v # Absent
  /\ \A e : Err(e) # Nil
  BY DEF OrNull, Nil, Bulk, Err

\* The fields that hold a value are as many as the pairs that end in it.
LEMMA AsManyPairs ==
  ASSUME NEW h \in HashMaps, NEW v \in Chunks
  PROVE  LET F == {f \in Chunks : h[f] # Absent}
         IN  Cardinality({f \in Chunks : h[f] = v})
               = Cardinality({p \in {<<f, h[f]>> : f \in F} : p[2] = v})
  <1> DEFINE F == {f \in Chunks : h[f] # Absent}
             S == {f \in Chunks : h[f] = v}
             T == {p \in {<<f, h[f]>> : f \in F} : p[2] = v}
             g == [f \in S |-> <<f, v>>]
  <1>1. S \in SUBSET F
    BY AbsentAssumption
  <1>2. IsFiniteSet(F)
    BY DEF HashMaps
  <1>3. IsFiniteSet(S)
    <2> HIDE DEF S, F
    <2>1. QED
      BY <1>1, <1>2, FS_Subset
  <1>4. T = {<<f, v>> : f \in S}
    BY AbsentAssumption
  <1>5. g \in Bijection(S, T)
    <2>1. g \in [S -> T] /\ \A y \in T : \E f \in S : g[f] = y
      <3> HIDE DEF S, T
      <3>1. QED
        BY <1>4
    <2>2. \A f, f2 \in S : g[f] = g[f2] => f = f2
      <3> HIDE DEF S, T
      <3>1. QED
        OBVIOUS
    <2> HIDE DEF S, T, g
    <2>3. QED
      BY <2>1, <2>2 DEF Bijection, Injection, Surjection, IsInjective
  <1>6. Cardinality(T) = Cardinality(S)
    <2> HIDE DEF S, T, g
    <2>1. QED
      BY <1>3, <1>5, FS_Bijection DEF ExistsBijection
  <1>7. QED
    BY <1>6

LEMMA HashesReadAlike ==
  ASSUME NEW l, WellFormed(l), NEW k \in Keys
  PROVE  LET fields == {f \in Chunks : HGet(l, k, f, now) # Nil}
         IN  IF ~NoneOr("hash", l, k)
             THEN \A r \in {HLen(l, k, now), HKeys(l, k, now), HVals(l, k, now),
                            HGetAll(l, k, now)} : r = Err("WRONGTYPE")
             ELSE /\ HLen(l, k, now) = Num(Cardinality(fields))
                  /\ HKeys(l, k, now) = Bulk(fields)
                  /\ \A v \in Chunks :
                       HVals(l, k, now)[2][v]
                         = Cardinality({p \in HGetAll(l, k, now)[2] : p[2] = v})
                  /\ \A f \in Chunks : HExists(l, k, f, now) = BoolInt(f \in fields)
                  /\ \A fs \in Some(Fields) : \A j \in 1..Len(fs) :
                       HMGet(l, k, fs, now)[2][j] = HGet(l, k, fs[j], now)
  <1> DEFINE o == Get(l, k, now)
             fields == {f \in Chunks : HGet(l, k, f, now) # Nil}
  <1>1. CASE o = Absent
    <2>1. NoneOr("hash", l, k)
      BY <1>1 DEF NoneOr, TypeOf
    <2>2. /\ HLen(l, k, now) = Num(0) /\ HKeys(l, k, now) = Bulk({})
          /\ HVals(l, k, now) = Bulk([v \in Chunks |-> 0]) /\ HGetAll(l, k, now) = Bulk({})
          /\ \A f : HExists(l, k, f, now) = Num(0) /\ HGet(l, k, f, now) = Nil
          /\ \A fs : HMGet(l, k, fs, now) = Bulk([j \in 1..Len(fs) |-> Nil])
      BY <1>1 DEF HLen, HKeys, HVals, HGetAll, HExists, HGet, HMGet, ReadHash
    <2>3. fields = {} /\ Cardinality(fields) = 0
      BY <2>2, FS_EmptySet
    <2>4. \A v \in Chunks : /\ HVals(l, k, now)[2][v] = 0
                            /\ {p \in HGetAll(l, k, now)[2] : p[2] = v} = {}
      BY <2>2 DEF Bulk
    <2>5. \A fs \in Some(Fields) : \A j \in 1..Len(fs) :
            HMGet(l, k, fs, now)[2][j] = HGet(l, k, fs[j], now)
      BY <2>2 DEF Bulk
    <2> HIDE DEF fields
    <2>6. QED
      BY <2>1, <2>2, <2>3, <2>4, <2>5, FS_EmptySet DEF BoolInt, fields
  <1>2. CASE o # Absent /\ IsHash(o)
    <2> DEFINE h == o.fields
    <2>1. NoneOr("hash", l, k) /\ h \in HashMaps
      BY <1>2, FoundObject, Objectify DEF NoneOr, IsHash
    <2>2. /\ HLen(l, k, now) = Num(Cardinality(FieldsOf(o)))
          /\ HKeys(l, k, now) = Bulk(FieldsOf(o))
          /\ HVals(l, k, now) = Bulk([v \in Chunks |-> Cardinality({f \in Chunks : h[f] = v})])
          /\ HGetAll(l, k, now) = Bulk({<<f, h[f]>> : f \in FieldsOf(o)})
          /\ \A f : /\ HExists(l, k, f, now) = BoolInt(h[f] # Absent)
                    /\ HGet(l, k, f, now) = OrNull(h[f])
          /\ \A fs : HMGet(l, k, fs, now) = Bulk([j \in 1..Len(fs) |-> OrNull(h[fs[j]])])
      BY <1>2 DEF HLen, HKeys, HVals, HGetAll, HExists, HGet, HMGet, ReadHash
    <2>3. fields = FieldsOf(o)
      BY <2>2, NullOrValue DEF FieldsOf
    <2>4. \A v \in Chunks :
            HVals(l, k, now)[2][v] = Cardinality({p \in HGetAll(l, k, now)[2] : p[2] = v})
      <3>1. ASSUME NEW v \in Chunks
            PROVE  HVals(l, k, now)[2][v] = Cardinality({p \in HGetAll(l, k, now)[2] : p[2] = v})
        <4>1. /\ HVals(l, k, now)[2][v] = Cardinality({f \in Chunks : h[f] = v})
              /\ HGetAll(l, k, now)[2] = {<<f, h[f]>> : f \in {f \in Chunks : h[f] # Absent}}
          BY <2>2 DEF Bulk, FieldsOf
        <4> HIDE DEF h
        <4>2. QED
          BY <2>1, <4>1, AsManyPairs
      <3>2. QED
        BY <3>1
    <2>5. \A fs \in Some(Fields) : \A j \in 1..Len(fs) :
            HMGet(l, k, fs, now)[2][j] = HGet(l, k, fs[j], now)
      <3>1. ASSUME NEW fs \in Some(Fields), NEW j \in 1..Len(fs)
            PROVE  HMGet(l, k, fs, now)[2][j] = HGet(l, k, fs[j], now)
        <4> DEFINE values == [x \in 1..Len(fs) |-> OrNull(h[fs[x]])]
        <4>0. HMGet(l, k, fs, now) = Bulk(values)
          BY <1>2 DEF HMGet, ReadHash
        <4>1. HMGet(l, k, fs, now)[2] = values
          BY <4>0 DEF Bulk
        <4>2. HGet(l, k, fs[j], now) = OrNull(h[fs[j]])
          BY <2>2
        <4> HIDE DEF h, o
        <4>3. QED
          BY <4>1, <4>2
      <3>2. QED
        BY <3>1
    <2>6. \A f \in Chunks : HExists(l, k, f, now) = BoolInt(f \in fields)
      BY <2>2, <2>3 DEF FieldsOf
    <2> HIDE DEF fields, h, o
    <2>7. QED
      BY <2>1, <2>2, <2>3, <2>4, <2>5, <2>6 DEF fields
  <1>3. CASE o # Absent /\ ~IsHash(o)
    <2>1. ~NoneOr("hash", l, k)
      BY <1>3, FoundObject DEF NoneOr, IsHash
    <2>2. QED
      BY <1>3, <2>1 DEF HLen, HKeys, HVals, HGetAll, ReadHash
  <1>4. QED
    BY <1>1, <1>2, <1>3

\* HLEN, HKEYS, HVALS, HGETALL, HGET, HMGET and HEXISTS agree on the fields of every
\* hash, in any instance.
THEOREM HashReadersNeverDisagree == ContainersSpec => []HashReadersAgree
  <1>1. IInv => HashReadersAgree
    BY HashesReadAlike DEF HashReadersAgree, IInv, AllWellFormed
  <1>2. QED
    BY InvInit, ContainersInvStep, <1>1, PTL DEF ContainersSpec

\* An operand that is a set or missing shows what SMEMBERS does.
LEMMA SetReaders ==
  ASSUME NEW l, WellFormed(l), NEW k \in Keys
  PROVE  /\ NoneOr("set", l, k) =>
              /\ SMembers(l, k, now)[2] \in HashSets
              /\ SetAt(l, k, now) = Bulk(SMembers(l, k, now)[2])
              /\ SCard(l, k, now) = Num(Cardinality(SMembers(l, k, now)[2]))
              /\ \A m : SIsMember(l, k, m, now) = BoolInt(m \in SMembers(l, k, now)[2])
              /\ \A ms : \A h \in 1..Len(ms) :
                   SMIsMember(l, k, ms, now)[2][h] = SIsMember(l, k, ms[h], now)
         /\ ~NoneOr("set", l, k) => SetAt(l, k, now) = Err("WRONGTYPE")
  <1> DEFINE o == Get(l, k, now)
             S == SMembers(l, k, now)[2]
  <1>1. CASE o = Absent
    <2>1. S = {}
      BY <1>1 DEF SMembers, ReadSet, Bulk
    <2>2. SetAt(l, k, now) = Bulk({}) /\ NoneOr("set", l, k)
      BY <1>1 DEF SetAt, NoneOr, TypeOf
    <2>3. SCard(l, k, now) = Num(0) /\ \A m : SIsMember(l, k, m, now) = Num(0)
      BY <1>1 DEF SCard, SIsMember, ReadSet
    <2>4. \A ms : \A h \in 1..Len(ms) : SMIsMember(l, k, ms, now)[2][h] = Num(0)
      BY <1>1 DEF SMIsMember, ReadSet, Bulk
    <2> HIDE DEF S
    <2>5. QED
      BY <2>1, <2>2, <2>3, <2>4, FS_EmptySet, FiniteMembers DEF BoolInt, S
  <1>2. CASE o # Absent /\ IsSet(o)
    <2> DEFINE M == o.members
    <2>1. NoneOr("set", l, k) /\ M \in HashSets
      BY <1>2, FoundObject, Objectify DEF NoneOr, IsSet
    <2>2. S = M
      BY <1>2 DEF SMembers, ReadSet, Bulk
    <2>3. SetAt(l, k, now) = Bulk(M) /\ SCard(l, k, now) = Num(Cardinality(M))
      BY <1>2 DEF SetAt, SCard, ReadSet
    <2>4. \A m : SIsMember(l, k, m, now) = BoolInt(m \in M)
      BY <1>2 DEF SIsMember, ReadSet
    <2>5. ASSUME NEW ms, NEW h \in 1..Len(ms)
          PROVE  SMIsMember(l, k, ms, now)[2][h] = SIsMember(l, k, ms[h], now)
      <3> DEFINE answers == [j \in 1..Len(ms) |-> BoolInt(ms[j] \in M)]
      <3>1. SMIsMember(l, k, ms, now) = Bulk(answers)
        BY <1>2 DEF SMIsMember, ReadSet
      <3>2. SMIsMember(l, k, ms, now)[2] = answers
        BY <3>1 DEF Bulk
      <3>3. SIsMember(l, k, ms[h], now) = BoolInt(ms[h] \in M)
        BY <2>4
      <3> HIDE DEF M
      <3>4. QED
        BY <3>2, <3>3
    <2> HIDE DEF S, M, o
    <2>6. QED
      BY <2>1, <2>2, <2>3, <2>4, <2>5 DEF S
  <1>3. CASE o # Absent /\ ~IsSet(o)
    <2>1. ~NoneOr("set", l, k)
      BY <1>3, FoundObject DEF NoneOr, IsSet
    <2>2. QED
      BY <1>3, <2>1 DEF SetAt
  <1>4. QED
    BY <1>1, <1>2, <1>3

\* Both operands in sight, or one of another type.
LEMMA TwoOperands ==
  ASSUME NEW l, WellFormed(l), NEW j \in Keys, NEW k \in Keys
  PROVE  IF ~NoneOr("set", l, j) \/ ~NoneOr("set", l, k)
         THEN \A r \in {SUnion(l, <<j, k>>, now), SInter(l, <<j, k>>, now),
                        SDiff(l, <<j, k>>, now)} : r = Err("WRONGTYPE")
         ELSE LET S == SMembers(l, j, now)[2]
                  R == SMembers(l, k, now)[2]
              IN  /\ SUnion(l, <<j, k>>, now) = Bulk(S \cup R)
                  /\ SInter(l, <<j, k>>, now) = Bulk(S \cap R)
                  /\ SDiff(l, <<j, k>>, now) = Bulk(S \ R)
  <1> DEFINE sets == Operands(l, <<j, k>>, now)
             S == SMembers(l, j, now)[2]
             R == SMembers(l, k, now)[2]
  <1>1. /\ DOMAIN sets = {1, 2} /\ Len(sets) = 2
        /\ sets[1] = SetAt(l, j, now) /\ sets[2] = SetAt(l, k, now)
    BY DEF Operands
  <1>2. /\ SUnion(l, <<j, k>>, now) = Combined(sets, UNION {sets[n][2] : n \in DOMAIN sets})
        /\ SInter(l, <<j, k>>, now)
             = Combined(sets, {m \in sets[1][2] : \A n \in DOMAIN sets : m \in sets[n][2]})
        /\ SDiff(l, <<j, k>>, now)
             = Combined(sets, {m \in sets[1][2] : \A n \in 2..Len(sets) : m \notin sets[n][2]})
    BY DEF SUnion, SInter, SDiff
  <1> HIDE DEF sets, S, R
  <1>3. CASE ~NoneOr("set", l, j) \/ ~NoneOr("set", l, k)
    <2>1. \E n \in DOMAIN sets : IsError(sets[n])
      BY <1>1, <1>3, SetReaders, Replies
    <2>2. QED
      BY <1>2, <1>3, <2>1 DEF Combined
  <1>4. CASE NoneOr("set", l, j) /\ NoneOr("set", l, k)
    <2>1. sets[1] = Bulk(S) /\ sets[2] = Bulk(R)
      BY <1>1, <1>4, SetReaders DEF S, R
    <2>2. \A n \in DOMAIN sets : ~IsError(sets[n])
      BY <1>1, <2>1, Replies
    <2>3. sets[1][2] = S /\ sets[2][2] = R
      BY <2>1 DEF Bulk
    <2>4. UNION {sets[n][2] : n \in DOMAIN sets} = S \cup R
      BY <1>1, <2>3
    <2>5. {m \in sets[1][2] : \A n \in DOMAIN sets : m \in sets[n][2]} = S \cap R
      BY <1>1, <2>3
    <2>6. {m \in sets[1][2] : \A n \in 2..Len(sets) : m \notin sets[n][2]} = S \ R
      <3>1. 2..Len(sets) = {2}
        BY <1>1
      <3>2. QED
        BY <2>3, <3>1
    <2>7. QED
      BY <1>2, <1>4, <2>2, <2>4, <2>5, <2>6 DEF Combined, S, R
  <1>5. QED
    BY <1>3, <1>4

\* SRANDMEMBER answers with members, and with one at least if there is one.
LEMMA DrawnFromSet ==
  ASSUME NEW l, WellFormed(l), NEW k \in Keys, NoneOr("set", l, k),
         NEW n \in -2..2, NEW r \in SRandMember(l, k, n, now)
  PROVE  LET S == SMembers(l, k, now)[2]
         IN  IF r = Nil THEN n = 1 /\ S = {}
             ELSE r[2] \subseteq S /\ (S # {} /\ n # 0 => r[2] # {})
  <1> DEFINE o == Get(l, k, now)
             S == SMembers(l, k, now)[2]
  <1>1. \A C : Bulk(C) # Nil /\ Bulk(C)[2] = C
    BY DEF Bulk, Nil
  <1>2. CASE o = Absent
    <2>1. S = {} /\ r = Drawn(n, {})
      BY <1>2 DEF SMembers, ReadSet, Bulk, SRandMember
    <2>2. QED
      BY <1>1, <2>1 DEF Drawn
  <1>3. CASE o # Absent
    <2>1. IsSet(o) /\ S = o.members /\ S \in HashSets
      <3>1. IsSet(o)
        BY <1>3, FoundObject DEF NoneOr, IsSet
      <3>2. QED
        BY <1>3, <3>1, FoundObject, Objectify DEF SMembers, ReadSet, Bulk
    <2>2. r \in IF n >= 0 THEN {Drawn(n, C) : C \in Choices(S, n)}
                ELSE IF S = {} THEN {Bulk({})}
                ELSE {Bulk({draw[j] : j \in 1..(-n)}) : draw \in [1..(-n) -> S]}
      <3>1. ~(n > ReserveMax) /\ ~(-n > ReserveMax)
        BY ReserveAssumption
      <3>2. QED
        BY <1>3, <2>1, <3>1 DEF SRandMember
    <2>3. IsFiniteSet(S) /\ Cardinality(S) \in Nat /\ (Cardinality(S) = 0 <=> S = {})
      BY <2>1, FiniteMembers, FS_CardinalityType, FS_EmptySet
    <2> HIDE DEF S, o
    <2>4. CASE n >= 0
      <3>1. PICK C \in Choices(S, n) : r = Drawn(n, C)
        BY <2>2, <2>4
      <3>2. C \subseteq S /\ Cardinality(C) = IF n < Cardinality(S) THEN n ELSE Cardinality(S)
        BY DEF Choices
      <3>3. C = {} => n = 0 \/ S = {}
        BY <2>3, <2>4, <3>2, FS_EmptySet
      <3>4. CASE n = 1 /\ C = {}
        BY <3>1, <3>3, <3>4 DEF Drawn, S
      <3>5. CASE ~(n = 1 /\ C = {})
        <4>1. r = Bulk(C)
          BY <3>1, <3>5 DEF Drawn
        <4>2. QED
          BY <1>1, <3>2, <3>3, <4>1 DEF S
      <3>6. QED
        BY <3>4, <3>5
    <2>5. CASE n < 0 /\ S = {}
      <3>1. r = Bulk({})
        BY <2>2, <2>5
      <3>2. QED
        BY <1>1, <2>5, <3>1 DEF S
    <2>6. CASE n < 0 /\ S # {}
      <3>1. PICK draw \in [1..(-n) -> S] : r = Bulk({draw[j] : j \in 1..(-n)})
        <4>1. r \in {Bulk({draw[j] : j \in 1..(-n)}) : draw \in [1..(-n) -> S]}
          <5>1. ~(n >= 0)
            BY <2>6
          <5>2. QED
            BY <2>2, <2>6, <5>1
        <4>2. QED
          BY <4>1
      <3>2. 1 \in 1..(-n)
        BY <2>6
      <3> DEFINE C == {draw[j] : j \in 1..(-n)}
      <3>3. draw[1] \in C /\ C \subseteq S
        BY <3>1, <3>2
      <3>4. r = Bulk(C)
        BY <3>1
      <3> HIDE DEF C
      <3>5. QED
        BY <1>1, <3>3, <3>4 DEF S
    <2>7. QED
      BY <2>4, <2>5, <2>6
  <1>4. QED
    BY <1>2, <1>3

LEMMA SetsReadAlike ==
  ASSUME NEW l, WellFormed(l), NEW j \in Keys, NEW k \in Keys
  PROVE  SetsAgree(l, j, k)
  <1> DEFINE S == SMembers(l, j, now)[2]
             R == SMembers(l, k, now)[2]
  <1>1. CASE ~NoneOr("set", l, j) \/ ~NoneOr("set", l, k)
    BY <1>1, TwoOperands DEF SetsAgree
  <1>2. CASE NoneOr("set", l, j) /\ NoneOr("set", l, k)
    <2>1. /\ SUnion(l, <<j, k>>, now) = Bulk(S \cup R)
          /\ SInter(l, <<j, k>>, now) = Bulk(S \cap R)
          /\ SDiff(l, <<j, k>>, now) = Bulk(S \ R)
      BY <1>2, TwoOperands
    <2>2. /\ SCard(l, j, now) = Num(Cardinality(S))
          /\ \A m \in Names : SIsMember(l, j, m, now) = BoolInt(m \in S)
          /\ \A ms \in Some(Names) : \A h \in 1..Len(ms) :
               SMIsMember(l, j, ms, now)[2][h] = SIsMember(l, j, ms[h], now)
      BY <1>2, SetReaders
    <2>3. ASSUME NEW n \in -2..2, NEW r \in SRandMember(l, j, n, now)
          PROVE  IF r = Nil THEN n = 1 /\ S = {}
                 ELSE r[2] \subseteq S /\ (S # {} /\ n # 0 => r[2] # {})
      BY <1>2, DrawnFromSet
    <2>4. QED
      BY <1>2, <2>1, <2>2, <2>3 DEF SetsAgree
  <1>3. QED
    BY <1>1, <1>2

\* The set readers agree on the members of every set, and SUNION, SINTER and SDIFF
\* find in each operand what SMEMBERS shows, in any instance.
THEOREM SetReadersNeverDisagree == ContainersSpec => []SetReadersAgree
  <1>1. IInv => SetReadersAgree
    BY SetsReadAlike DEF SetReadersAgree, IInv, AllWellFormed
  <1>2. QED
    BY InvInit, ContainersInvStep, <1>1, PTL DEF ContainersSpec
=============================================================================
