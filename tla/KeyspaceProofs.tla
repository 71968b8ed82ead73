--------------------------- MODULE KeyspaceProofs ---------------------------
(***************************************************************************)
(* The two maps of every logical database stay in step for every set of    *)
(* keys, every argument and every interleaving of commands, evictions and  *)
(* the clock.  What the methods of Database do to a well-formed logical    *)
(* database comes first: they keep it well formed.  The inductive          *)
(* invariant is that every database is well formed and the clock a natural *)
(* number; each command preserves it by the lemma about the method it      *)
(* calls.                                                                  *)
(***************************************************************************)
EXTENDS KeyspaceProps, SequenceTheorems, TLAPS

\* A logical database with its two maps in step: no deadline without an object.
WellFormed(l) ==
  /\ l \in LDBs
  /\ \A k \in Keys : l.expiry[k] # Never => l.data[k] # Absent

-----------------------------------------------------------------------------
(* Sequences.                                                              *)

\* A function on 1..n is a sequence, also when n is negative.
LEMMA TableSeq ==
  ASSUME NEW S, NEW n \in Int, NEW f \in [1..n -> S]
  PROVE  f \in Seq(S) /\ Len(f) = IF n > 0 THEN n ELSE 0
  <1>1. CASE n > 0
    BY <1>1
  <1>2. CASE n <= 0
    <2>1. 1..n = 1..0
      BY <1>2
    <2>2. QED
      BY <1>2, <2>1
  <1>3. QED
    BY <1>1, <1>2

\* A range that lies inside a sequence is cut out as it is.
LEMMA SliceInside ==
  ASSUME NEW S, NEW s \in Seq(S), NEW m \in Nat, NEW n \in Int, m <= n, n < Len(s)
  PROVE  Slice(s, m, n) = SubSeq(s, m + 1, n + 1)
  <1>1. Len(s) \in Nat /\ Len(s) # 0 /\ n >= 0
    OBVIOUS
  <1>2. NormalizeIndex(m, Len(s)) = m /\ NormalizeIndex(n, Len(s)) = n
    BY <1>1 DEF NormalizeIndex
  <1>3. QED
    BY <1>1, <1>2 DEF Slice

\* -1 is the last element.
LEMMA SliceToEnd ==
  ASSUME NEW S, NEW s \in Seq(S), NEW m \in Nat, m < Len(s)
  PROVE  Slice(s, m, -1) = SubSeq(s, m + 1, Len(s))
  <1>1. Len(s) \in Nat /\ Len(s) # 0
    OBVIOUS
  <1> DEFINE len == Len(s)
  <1> HIDE DEF len
  <1>2. NormalizeIndex(m, len) = m /\ NormalizeIndex(-1, len) = len - 1
    <2>1. len \in Nat /\ len # 0
      BY <1>1 DEF len
    <2>2. len + (-1) = len - 1 /\ (~(len + (-1) > 0) => len - 1 = 0)
      BY <2>1
    <2>3. QED
      BY <2>1, <2>2 DEF NormalizeIndex
  <1>3. (Len(s) - 1) + 1 = Len(s) /\ ~(m > Len(s) - 1) /\ Len(s) - 1 < Len(s)
    BY <1>1
  <1>4. QED
    BY <1>1, <1>2, <1>3 DEF Slice, len

\* The string SETRANGE writes over `old`, element by element.
PatchSize(old, off, v) == IF Len(old) < off + Len(v) THEN off + Len(v) ELSE Len(old)

Patch(old, off, v) ==
  [j \in 1..PatchSize(old, off, v) |->
     IF j \in (off + 1)..(off + Len(v)) THEN v[j - off]
     ELSE IF j <= Len(old) THEN old[j] ELSE Nul]

LEMMA PatchSeq ==
  ASSUME NEW old \in Seq(Chunks), NEW v \in Seq(Chunks), NEW off \in Nat
  PROVE  LET m == Len(old)
             n == Len(v)
             size == PatchSize(old, off, v)
             w == Patch(old, off, v)
         IN  /\ size = IF m < off + n THEN off + n ELSE m
             /\ size \in Nat /\ size >= off + n /\ size >= m
             /\ w \in Seq(Chunks) /\ Len(w) = size
             /\ \A j \in 1..size : w[j] = IF j \in (off + 1)..(off + n) THEN v[j - off]
                                          ELSE IF j <= m THEN old[j] ELSE Nul
  <1> DEFINE m == Len(old)
             n == Len(v)
             size == PatchSize(old, off, v)
             w == Patch(old, off, v)
  <1>1. /\ m \in Nat /\ n \in Nat
        /\ \A j \in 1..m : old[j] \in Chunks
        /\ \A j \in 1..n : v[j] \in Chunks
    OBVIOUS
  <1>2. size = IF m < off + n THEN off + n ELSE m
    BY DEF PatchSize
  <1>3. w = [j \in 1..size |-> IF j \in (off + 1)..(off + n) THEN v[j - off]
                               ELSE IF j <= m THEN old[j] ELSE Nul]
    BY DEF Patch
  <1> HIDE DEF m, n, size, w
  <1>4. size \in Nat /\ size >= off + n /\ size >= m
    BY <1>1, <1>2
  <1>5. ASSUME NEW j \in 1..size
        PROVE  w[j] \in Chunks
    <2>1. j \in (off + 1)..(off + n) => j - off \in 1..n
      BY <1>1
    <2>2. ~(j \in (off + 1)..(off + n)) /\ j <= m => j \in 1..m
      BY <1>1, <1>4
    <2>3. QED
      BY <1>1, <1>3, <2>1, <2>2, NulAssumption DEF Chunks
  <1>6. w \in Seq(Chunks) /\ Len(w) = size
    <2>1. w \in [1..size -> Chunks]
      BY <1>3, <1>5
    <2>2. QED
      BY <1>4, <2>1, TableSeq
  <1>7. QED
    BY <1>2, <1>3, <1>4, <1>6 DEF m, n, size, w

\* SETRANGE, element by element, is the string cut open at off, with v in the
\* middle and NULs in front of it where the string was too short.
LEMMA Patched ==
  ASSUME NEW old \in Seq(Chunks), NEW v \in Seq(Chunks), NEW off \in Nat
  PROVE  LET padded == old \o [j \in 1..(off - Len(old)) |-> Nul]
         IN  Patch(old, off, v) = SubSeq(padded, 1, off) \o v
                                    \o SubSeq(padded, off + Len(v) + 1, Len(padded))
  <1> DEFINE m == Len(old)
             n == Len(v)
             size == PatchSize(old, off, v)
             w == Patch(old, off, v)
             pad == [j \in 1..(off - m) |-> Nul]
             padded == old \o pad
             p == Len(padded)
             front == SubSeq(padded, 1, off)
             back == SubSeq(padded, off + n + 1, p)
  <1>1. /\ m = Len(old) /\ n = Len(v) /\ m \in Nat /\ n \in Nat
        /\ \A j \in 1..m : old[j] \in Chunks
        /\ \A j \in 1..n : v[j] \in Chunks
    OBVIOUS
  <1>2. /\ size = IF m < off + n THEN off + n ELSE m
        /\ size \in Nat /\ size >= off + n /\ size >= m
    BY PatchSeq
  <1>3. /\ w \in Seq(Chunks) /\ Len(w) = size
        /\ \A j \in 1..size : w[j] = IF j \in (off + 1)..(off + n) THEN v[j - off]
                                     ELSE IF j <= m THEN old[j] ELSE Nul
    BY PatchSeq
  <1> HIDE DEF m, n, size, w
  <1>4. /\ pad \in Seq(Chunks) /\ Len(pad) = IF off > m THEN off - m ELSE 0
        /\ \A j \in 1..(off - m) : pad[j] = Nul
    <2>1. pad \in [1..(off - m) -> Chunks] /\ off - m \in Int
      BY <1>1, NulAssumption DEF Chunks
    <2>2. \A j \in 1..(off - m) : pad[j] = Nul
      OBVIOUS
    <2> HIDE DEF pad
    <2>3. pad \in Seq(Chunks) /\ Len(pad) = IF off - m > 0 THEN off - m ELSE 0
      BY <2>1, TableSeq
    <2>4. QED
      BY <1>1, <2>2, <2>3
  <1> HIDE DEF pad
  <1>5. /\ padded \in Seq(Chunks) /\ p = IF off > m THEN off ELSE m
        /\ \A j \in 1..p : padded[j] = IF j <= m THEN old[j] ELSE Nul
    <2>1. /\ padded \in Seq(Chunks) /\ p = m + Len(pad)
          /\ \A j \in 1..(m + Len(pad)) :
               padded[j] = IF j <= m THEN old[j] ELSE pad[j - m]
      BY <1>1, <1>4, ConcatProperties
    <2> HIDE DEF padded, p
    <2>2. p = IF off > m THEN off ELSE m
      BY <1>1, <1>4, <2>1
    <2>3. ASSUME NEW j \in 1..p
          PROVE  padded[j] = IF j <= m THEN old[j] ELSE Nul
      <3>1. ~(j <= m) => j - m \in 1..(off - m)
        BY <1>1, <2>2
      <3>2. QED
        BY <1>1, <1>4, <2>1, <3>1
    <2>4. QED
      BY <2>1, <2>2, <2>3
  <1> HIDE DEF padded, p
  <1>6. \A j \in 1..p : padded[j] \in Chunks
    BY <1>1, <1>5, NulAssumption DEF Chunks
  <1>7. /\ front \in Seq(Chunks) /\ Len(front) = off
        /\ \A j \in 1..off : front[j] = padded[j]
    <2>1. \A j \in 1..off : padded[j] \in Chunks
      BY <1>1, <1>5, <1>6
    <2>2. QED
      BY <2>1, SubSeqProperties
  <1>8. /\ back \in Seq(Chunks)
        /\ Len(back) = IF off + n + 1 <= p THEN p - (off + n) ELSE 0
        /\ \A j \in 1..(p - (off + n)) : back[j] = padded[off + n + j]
    <2>1. \A j \in (off + n + 1)..p : padded[j] \in Chunks
      BY <1>1, <1>5, <1>6
    <2>2. off + n + 1 \in Int /\ p \in Int
      BY <1>1, <1>5
    <2>3. /\ back \in Seq(Chunks)
          /\ Len(back) = IF off + n + 1 <= p THEN p - (off + n + 1) + 1 ELSE 0
          /\ \A j \in 1..(p - (off + n + 1) + 1) : back[j] = padded[(off + n + 1) + j - 1]
      BY <2>1, <2>2, SubSeqProperties
    <2> HIDE DEF back
    <2>4. QED
      BY <1>1, <2>2, <2>3
  <1> HIDE DEF front, back
  <1> DEFINE both == front \o v
             all == both \o back
  <1>9. /\ both \in Seq(Chunks) /\ Len(both) = off + n
        /\ \A j \in 1..(off + n) : both[j] = IF j <= off THEN front[j] ELSE v[j - off]
    BY <1>1, <1>7, ConcatProperties
  <1> HIDE DEF both
  <1>10. /\ all \in Seq(Chunks) /\ Len(all) = off + n + Len(back)
         /\ \A j \in 1..(off + n + Len(back)) :
              all[j] = IF j <= off + n THEN both[j] ELSE back[j - (off + n)]
    <2>1. /\ all \in Seq(Chunks) /\ Len(all) = Len(both) + Len(back)
          /\ \A j \in 1..(Len(both) + Len(back)) :
               all[j] = IF j <= Len(both) THEN both[j] ELSE back[j - Len(both)]
      BY <1>8, <1>9, ConcatProperties
    <2> HIDE DEF all
    <2>2. QED
      BY <1>9, <2>1
  <1> HIDE DEF all
  <1>11. off + n + Len(back) = size
    <2>1. m \in Nat /\ n \in Nat
      BY <1>1
    <2>2. /\ p = IF off > m THEN off ELSE m
          /\ Len(back) = IF off + n + 1 <= p THEN p - (off + n) ELSE 0
      BY <1>5, <1>8
    <2>3. QED
      BY <1>2, <2>1, <2>2
  <1>12. ASSUME NEW j \in 1..size
         PROVE  w[j] = all[j]
    <2>0. w[j] = IF j \in (off + 1)..(off + n) THEN v[j - off]
                 ELSE IF j <= m THEN old[j] ELSE Nul
      BY <1>3
    <2>1. CASE j <= off
      <3>0. j \in 1..p /\ j \in 1..off /\ j \in 1..(off + n)
              /\ j \in 1..(off + n + Len(back))
        <4>1. m \in Nat /\ n \in Nat /\ p = IF off > m THEN off ELSE m
          BY <1>1, <1>5
        <4>2. QED
          BY <1>2, <1>11, <2>1, <4>1
      <3>1. all[j] = padded[j] /\ j \in 1..p
        BY <1>7, <1>9, <1>10, <2>1, <3>0
      <3>2. QED
        BY <1>1, <1>2, <1>5, <2>0, <2>1, <3>1
    <2>2. CASE off < j /\ j <= off + n
      <3>0. j \in 1..(off + n) /\ j \in 1..(off + n + Len(back)) /\ ~(j <= off)
        BY <1>1, <1>2, <1>11, <2>2
      <3>1. all[j] = v[j - off]
        BY <1>9, <1>10, <2>2, <3>0
      <3>2. QED
        BY <1>1, <1>2, <2>0, <2>2, <3>1
    <2>3. CASE j > off + n
      <3>1. j <= m /\ p = m /\ j \in 1..p /\ j - (off + n) \in 1..(p - (off + n))
        BY <1>1, <1>2, <1>5, <2>3
      <3>2. all[j] = back[j - (off + n)]
        BY <1>1, <1>2, <1>10, <1>11, <2>3
      <3>3. back[j - (off + n)] = padded[off + n + (j - (off + n))]
        BY <1>8, <3>1
      <3>4. off + n + (j - (off + n)) = j
        BY <1>1, <1>2
      <3>5. padded[j] = old[j]
        BY <1>5, <3>1
      <3>6. w[j] = old[j]
        BY <1>1, <1>2, <2>0, <2>3, <3>1
      <3>7. QED
        BY <3>2, <3>3, <3>4, <3>5, <3>6
    <2>4. QED
      BY <1>1, <1>2, <2>1, <2>2, <2>3
  <1>13. w = all
    BY <1>3, <1>10, <1>11, <1>12, SeqEqual
  <1>14. QED
    BY <1>13 DEF w, all, both, padded, front, back, pad, p, m, n

\* What GETRANGE cuts out of such a string: what was written, what was in front of it,
\* what was behind it.
LEMMA PatchedReads ==
  ASSUME NEW old \in Seq(Chunks), NEW v \in Seq(Chunks), NEW off \in Nat, v # <<>>
  PROVE  LET w == Patch(old, off, v)
             at == [j \in 1..off |-> IF j <= Len(old) THEN old[j] ELSE Nul]
         IN  /\ Slice(w, off, off + Len(v) - 1) = v
             /\ off > 0 => Slice(w, 0, off - 1) = at
             /\ off + Len(v) < Len(old) =>
                  Slice(w, off + Len(v), -1) = SubSeq(old, off + Len(v) + 1, Len(old))
  <1> DEFINE m == Len(old)
             n == Len(v)
             size == PatchSize(old, off, v)
             w == Patch(old, off, v)
             at == [j \in 1..off |-> IF j <= m THEN old[j] ELSE Nul]
  <1>1. /\ m = Len(old) /\ n = Len(v) /\ m \in Nat /\ n \in Nat /\ n > 0
        /\ \A j \in 1..m : old[j] \in Chunks
    OBVIOUS
  <1>2. w \in Seq(Chunks) /\ Len(w) = size
    BY PatchSeq
  <1>3. \A j \in 1..size : w[j] = IF j \in (off + 1)..(off + n) THEN v[j - off]
                                  ELSE IF j <= m THEN old[j] ELSE Nul
    BY PatchSeq
  <1>4. size = IF m < off + n THEN off + n ELSE m
    BY PatchSeq
  <1> HIDE DEF w, m, n, size
  <1>5. size \in Nat /\ size >= off + n /\ size >= m
    BY <1>1, <1>4
  <1>6. \A j \in 1..size : w[j] \in Chunks
    BY <1>2
  <1>7. Slice(w, off, off + n - 1) = v
    <2>1. Slice(w, off, off + n - 1) = SubSeq(w, off + 1, off + n)
      <3>1. off <= off + n - 1 /\ off + n - 1 < Len(w) /\ off + n - 1 \in Int
              /\ (off + n - 1) + 1 = off + n
        BY <1>1, <1>2, <1>5
      <3>2. QED
        BY <1>2, <3>1, SliceInside
    <2> DEFINE cut == SubSeq(w, off + 1, off + n)
    <2>2. /\ cut \in Seq(Chunks) /\ Len(cut) = n
          /\ \A j \in 1..n : cut[j] = w[off + j]
      <3>1. \A j \in (off + 1)..(off + n) : w[j] \in Chunks
        BY <1>1, <1>5, <1>6
      <3>2. /\ cut \in Seq(Chunks)
            /\ Len(cut) = IF off + 1 <= off + n THEN off + n - (off + 1) + 1 ELSE 0
            /\ \A j \in 1..(off + n - (off + 1) + 1) : cut[j] = w[off + 1 + j - 1]
        BY <1>1, <3>1, SubSeqProperties
      <3> HIDE DEF cut
      <3>3. QED
        BY <1>1, <3>2
    <2> HIDE DEF cut
    <2>3. ASSUME NEW j \in 1..n
          PROVE  cut[j] = v[j]
      <3>1. off + j \in 1..size /\ off + j \in (off + 1)..(off + n) /\ off + j - off = j
        BY <1>1, <1>5
      <3>2. QED
        BY <1>3, <2>2, <3>1
    <2>4. cut = v
      BY <1>1, <2>2, <2>3, SeqEqual
    <2>5. QED
      BY <2>1, <2>4 DEF cut
  <1>8. ASSUME off > 0
        PROVE  Slice(w, 0, off - 1) = at
    <2>1. Slice(w, 0, off - 1) = SubSeq(w, 1, off)
      <3>1. 0 <= off - 1 /\ off - 1 < Len(w) /\ off - 1 \in Int
              /\ (off - 1) + 1 = off /\ 0 + 1 = 1
        BY <1>1, <1>2, <1>5, <1>8
      <3>2. QED
        BY <1>2, <3>1, SliceInside
    <2> DEFINE cut == SubSeq(w, 1, off)
    <2>2. cut \in Seq(Chunks) /\ Len(cut) = off /\ \A j \in 1..off : cut[j] = w[j]
      <3>1. \A j \in 1..off : w[j] \in Chunks
        BY <1>1, <1>5, <1>6
      <3>2. QED
        BY <3>1, SubSeqProperties
    <2> HIDE DEF cut
    <2>3. at \in Seq(Chunks) /\ Len(at) = off
      <3>1. at \in [1..off -> Chunks]
        BY <1>1, NulAssumption DEF Chunks
      <3> HIDE DEF at
      <3>2. QED
        BY <1>8, <3>1, TableSeq
    <2>4. ASSUME NEW j \in 1..off
          PROVE  cut[j] = at[j]
      <3>1. j \in 1..size /\ j \notin (off + 1)..(off + n)
        BY <1>1, <1>5
      <3>2. QED
        BY <1>3, <2>2, <3>1
    <2> HIDE DEF at
    <2>5. cut = at
      BY <2>2, <2>3, <2>4, SeqEqual
    <2>6. QED
      BY <2>1, <2>5 DEF cut
  <1>9. ASSUME off + n < m
        PROVE  Slice(w, off + n, -1) = SubSeq(old, off + n + 1, m)
    <2>1. size = m
      BY <1>1, <1>4, <1>9
    <2>2. Slice(w, off + n, -1) = SubSeq(w, off + n + 1, m)
      BY <1>1, <1>2, <1>9, <2>1, SliceToEnd
    <2> DEFINE cut == SubSeq(w, off + n + 1, m)
               rest == SubSeq(old, off + n + 1, m)
    <2>3. off + n + 1 \in Int /\ m \in Int /\ off + n + 1 <= m
      BY <1>1, <1>9
    <2>4. /\ cut \in Seq(Chunks) /\ Len(cut) = m - (off + n + 1) + 1
          /\ \A j \in 1..(m - (off + n + 1) + 1) : cut[j] = w[off + n + 1 + j - 1]
      <3>1. \A j \in (off + n + 1)..m : w[j] \in Chunks
        BY <1>1, <1>6, <2>1
      <3>2. QED
        BY <2>3, <3>1, SubSeqProperties
    <2>5. /\ rest \in Seq(Chunks) /\ Len(rest) = m - (off + n + 1) + 1
          /\ \A j \in 1..(m - (off + n + 1) + 1) : rest[j] = old[off + n + 1 + j - 1]
      <3>1. \A j \in (off + n + 1)..m : old[j] \in Chunks
        BY <1>1
      <3>2. QED
        BY <2>3, <3>1, SubSeqProperties
    <2> HIDE DEF cut, rest
    <2>6. ASSUME NEW j \in 1..(m - (off + n + 1) + 1)
          PROVE  cut[j] = rest[j]
      <3>1. /\ off + n + 1 + j - 1 \in 1..size
            /\ off + n + 1 + j - 1 \notin (off + 1)..(off + n)
            /\ off + n + 1 + j - 1 <= m
        BY <1>1, <1>9, <2>1
      <3>2. QED
        BY <1>3, <2>4, <2>5, <3>1
    <2>7. cut = rest
      BY <2>4, <2>5, <2>6, SeqEqual
    <2>8. QED
      BY <2>2, <2>7 DEF cut, rest
  <1>10. QED
    BY <1>7, <1>8, <1>9 DEF w, m, n

-----------------------------------------------------------------------------
(* The primitives of LogicalDb.                                            *)

\* A new database is well formed.
LEMMA EmptyWF == WellFormed(EmptyDb)
  BY DEF WellFormed, LDBs, EmptyDb

\* Removing a key takes it out of both maps.
LEMMA RemoveWF ==
  ASSUME NEW l, WellFormed(l), NEW k \in Keys
  PROVE  WellFormed(RemoveKey(l, k))
  BY DEF WellFormed, LDBs, RemoveKey

\* Inserting a key clears its deadline.
LEMMA InsertWF ==
  ASSUME NEW l, WellFormed(l), NEW k \in Keys, NEW o \in Objects
  PROVE  /\ WellFormed(InsertKey(l, k, o))
         /\ InsertKey(l, k, o).data[k] = o
  BY AbsentAssumption DEF WellFormed, LDBs, InsertKey

\* Writing an object through a reference never orphans a deadline.
LEMMA WriteWF ==
  ASSUME NEW l, WellFormed(l), NEW k \in Keys, NEW o \in Objects
  PROVE  WellFormed(Write(l, k, o))
  BY AbsentAssumption DEF WellFormed, LDBs, Write

\* The entry API yields an object, the stored one if there is one.
LEMMA EntryWF ==
  ASSUME NEW l, WellFormed(l), NEW k \in Keys, NEW o \in Objects
  PROVE  /\ WellFormed(EntryOr(l, k, o))
         /\ EntryOr(l, k, o).data[k] \in Objects
  BY AbsentAssumption DEF WellFormed, LDBs, EntryOr, Write, Stored

\* get_mut removes an expired key from both maps.
LEMMA GetMutWF ==
  ASSUME NEW l, WellFormed(l), NEW k \in Keys, NEW t
  PROVE  WellFormed(GetMut(l, k, t))
  BY RemoveWF DEF GetMut

\* A deadline is only ever given to a stored key.
LEMMA SetExpiryAtWF ==
  ASSUME NEW l, WellFormed(l), NEW k \in Keys, NEW at \in Nat
  PROVE  WellFormed(SetExpiryAt(l, k, at).ldb)
  BY DEF WellFormed, LDBs, SetExpiryAt, Stored, Out

LEMMA SetExpiryWF ==
  ASSUME NEW l, WellFormed(l), NEW k \in Keys, NEW d \in Nat, NEW t \in Nat
  PROVE  WellFormed(SetExpiry(l, k, d, t).ldb)
  <1>1. t + d \in Nat
    OBVIOUS
  <1>2. WellFormed(SetExpiryAt(l, k, t + d).ldb)
    BY <1>1, SetExpiryAtWF
  <1>3. QED
    BY <1>2 DEF SetExpiry, Out

LEMMA DropExpiryWF ==
  ASSUME NEW l, WellFormed(l), NEW k \in Keys
  PROVE  WellFormed(DropExpiry(l, k))
  BY DEF WellFormed, LDBs, DropExpiry

\* The eviction task drops the object together with the deadline.
LEMMA EvictWF ==
  ASSUME NEW l, WellFormed(l), NEW t
  PROVE  WellFormed(EvictExpired(l, t))
  BY DEF WellFormed, LDBs, EvictExpired, IsExpired

\* AndReply changes the reply, never the database.
LEMMA AndReplyLdb ==
  ASSUME NEW l, NEW q, NEW r
  PROVE  AndReply(Out(l, q), r).ldb = l
  BY DEF AndReply, Out

-----------------------------------------------------------------------------
(* Generic commands.                                                       *)

LEMMA DelWF ==
  ASSUME NEW l, WellFormed(l), NEW S \in SUBSET Keys
  PROVE  WellFormed(Del(l, S).ldb)
  BY DEF WellFormed, LDBs, Del, Out

LEMMA MoveObjectWF ==
  ASSUME NEW l, WellFormed(l), NEW src \in Keys, NEW dst \in Keys, NEW r
  PROVE  WellFormed(MoveObject(l, src, dst, r).ldb)
  <1>1. WellFormed(RemoveKey(l, src))
    BY RemoveWF
  <1>2. Stored(l, src) => l.data[src] \in Objects
    BY DEF WellFormed, LDBs, Stored
  <1>3. Stored(l, src) => WellFormed(InsertKey(RemoveKey(l, src), dst, l.data[src]))
    BY <1>1, <1>2, InsertWF
  <1>4. QED
    BY <1>1, <1>3 DEF MoveObject, Out

LEMMA RenameWF ==
  ASSUME NEW l, WellFormed(l), NEW src \in Keys, NEW dst \in Keys, NEW t
  PROVE  /\ WellFormed(Rename(l, src, dst).ldb)
         /\ WellFormed(Renamenx(l, src, dst, t).ldb)
  BY MoveObjectWF DEF Rename, Renamenx, Out

LEMMA DeleteNowWF ==
  ASSUME NEW l, WellFormed(l), NEW k \in Keys
  PROVE  WellFormed(DeleteNow(l, k).ldb)
  BY RemoveWF DEF DeleteNow, Out

LEMMA ExpireWF ==
  ASSUME NEW l, WellFormed(l), NEW k \in Keys, NEW s \in Int, NEW t \in Nat
  PROVE  WellFormed(Expire(l, k, s, t).ldb)
  <1>1. CASE s < 0
    BY <1>1, DeleteNowWF DEF Expire
  <1>2. CASE ~(s < 0)
    <2>1. s * Sec \in Nat
      BY <1>2, SecAssumption
    <2>2. QED
      BY <1>2, <2>1, SetExpiryWF DEF Expire
  <1>3. QED
    BY <1>1, <1>2

LEMMA PExpireWF ==
  ASSUME NEW l, WellFormed(l), NEW k \in Keys, NEW ms \in Int, NEW t \in Nat
  PROVE  WellFormed(PExpire(l, k, ms, t).ldb)
  <1>1. CASE ms < 0
    BY <1>1, DeleteNowWF DEF PExpire
  <1>2. CASE ~(ms < 0)
    <2>1. ms \in Nat
      BY <1>2
    <2>2. QED
      BY <1>2, <2>1, SetExpiryWF DEF PExpire
  <1>3. QED
    BY <1>1, <1>2

LEMMA PExpireAtWF ==
  ASSUME NEW l, WellFormed(l), NEW k \in Keys, NEW ts, AsU64(ts) \in Nat, NEW t
  PROVE  WellFormed(PExpireAt(l, k, ts, t).ldb)
  BY DeleteNowWF, SetExpiryAtWF DEF PExpireAt

LEMMA PersistWF ==
  ASSUME NEW l, WellFormed(l), NEW k \in Keys
  PROVE  WellFormed(Persist(l, k).ldb)
  BY DropExpiryWF DEF Persist, Out

-----------------------------------------------------------------------------
(* String commands.                                                        *)

LEMMA StrObject ==
  ASSUME NEW v \in Seq(Chunks)
  PROVE  Str(v) \in Objects /\ ListObj(v) \in Objects
  BY DEF Str, ListObj, Objects, SeqObjects

\* A string or a list holds chunks.
LEMMA SeqObject ==
  ASSUME NEW o \in Objects, o.type \in {"string", "list"}
  PROVE  o.val \in Seq(Chunks)
  BY DEF Objects, SeqObjects, HashObjects, SetObjects, ZSetObjects

\* What the entry API creates a string or a list with.
LEMMA Defaults ==
  Str(<<>>) \in Objects /\ ListObj(<<>>) \in Objects /\ Str(<<0>>) \in Objects
  <1>1. 0 \in Chunks
    BY IntAssumption DEF Chunks, Numbers
  <1>2. <<>> \in Seq(Chunks) /\ <<0>> \in Seq(Chunks)
    BY <1>1
  <1>3. QED
    BY <1>2, StrObject

LEMMA StrSetWF ==
  ASSUME NEW l, WellFormed(l), NEW k \in Keys, NEW v \in Seq(Chunks),
         NEW d \in Nat \cup {Never}, NEW t \in Nat
  PROVE  WellFormed(StrSet(l, k, v, d, t).ldb)
  <1> DEFINE w == InsertKey(l, k, Str(v))
  <1>1. WellFormed(w)
    BY StrObject, InsertWF
  <1>2. d # Never => WellFormed(SetExpiry(w, k, d, t).ldb)
    BY <1>1, SetExpiryWF
  <1>3. QED
    BY <1>1, <1>2 DEF StrSet, AndReply, Out

LEMMA StrSetNxWF ==
  ASSUME NEW l, WellFormed(l), NEW k \in Keys, NEW v \in Seq(Chunks), NEW t
  PROVE  WellFormed(StrSetNx(l, k, v, t).ldb)
  BY StrObject, InsertWF DEF StrSetNx, Out

LEMMA StrGetSetWF ==
  ASSUME NEW l, WellFormed(l), NEW k \in Keys, NEW v \in Seq(Chunks), NEW t \in Nat
  PROVE  WellFormed(StrGetSet(l, k, v, t).ldb)
  BY StrSetWF DEF StrGetSet, Out

LEMMA StrGetDelWF ==
  ASSUME NEW l, WellFormed(l), NEW k \in Keys
  PROVE  WellFormed(StrGetDel(l, k).ldb)
  <1>1. WellFormed(RemoveKey(l, k))
    BY RemoveWF
  <1>2. Stored(l, k) => l.data[k] \in Objects
    BY DEF WellFormed, LDBs, Stored
  <1>3. Stored(l, k) => WellFormed(InsertKey(RemoveKey(l, k), k, l.data[k]))
    BY <1>1, <1>2, InsertWF
  <1>4. QED
    BY <1>1, <1>3 DEF StrGetDel, Out

LEMMA StrAppendWF ==
  ASSUME NEW l, WellFormed(l), NEW k \in Keys, NEW v \in Seq(Chunks)
  PROVE  WellFormed(StrAppend(l, k, v).ldb)
  <1> DEFINE e == EntryOr(l, k, Str(<<>>))
  <1>2. WellFormed(e) /\ e.data[k] \in Objects
    BY Defaults, EntryWF
  <1>3. IsStr(e.data[k]) => e.data[k].val \o v \in Seq(Chunks)
    BY <1>2, SeqObject DEF IsStr
  <1>4. IsStr(e.data[k]) => WellFormed(Write(e, k, Str(e.data[k].val \o v)))
    BY <1>2, <1>3, StrObject, WriteWF
  <1>5. QED
    BY <1>2, <1>4 DEF StrAppend, Out

LEMMA StrIncrWF ==
  ASSUME NEW l, WellFormed(l), NEW k \in Keys, NEW n
  PROVE  WellFormed(StrIncr(l, k, n).ldb)
  <1> DEFINE e == EntryOr(l, k, Str(<<0>>))
             sum == e.data[k].val[1] + n
  <1>2. WellFormed(e)
    BY Defaults, EntryWF
  <1>3. sum \in Numbers => WellFormed(Write(e, k, Str(<<sum>>)))
    BY <1>2, StrObject, WriteWF DEF Chunks
  <1>4. QED
    BY <1>2, <1>3 DEF StrIncr, Out

LEMMA StrIncrFloatWF ==
  ASSUME NEW l, WellFormed(l), NEW k \in Keys, NEW n
  PROVE  \/ EntryOr(l, k, Str(<<0>>)).data[k].val[1] + n \in Numbers
         \/ n = Inf
         \/ ~IsStr(EntryOr(l, k, Str(<<0>>)).data[k])
         \/ ~IsNumeral(EntryOr(l, k, Str(<<0>>)).data[k].val)
         => WellFormed(StrIncrFloat(l, k, n).ldb)
  <1> DEFINE e == EntryOr(l, k, Str(<<0>>))
             sum == e.data[k].val[1] + n
  <1>1. WellFormed(e)
    BY Defaults, EntryWF
  <1>2. sum \in Numbers => WellFormed(Write(e, k, Str(<<sum>>)))
    BY <1>1, StrObject, WriteWF DEF Chunks
  <1>3. QED
    BY <1>1, <1>2 DEF StrIncrFloat, Out

LEMMA StrSetRangeWF ==
  ASSUME NEW l, WellFormed(l), NEW k \in Keys, NEW off \in Nat,
         NEW v \in Seq(Chunks)
  PROVE  WellFormed(StrSetRange(l, k, off, v).ldb)
  <1> DEFINE e == EntryOr(l, k, Str(<<>>))
             old == e.data[k].val
             size == IF Len(old) < off + Len(v) THEN off + Len(v) ELSE Len(old)
             w == [j \in 1..size |->
                     IF j \in (off + 1)..(off + Len(v)) THEN v[j - off]
                     ELSE IF j <= Len(old) THEN old[j] ELSE Nul]
  <1>0. WellFormed(e) /\ e.data[k] \in Objects
    BY Defaults, EntryWF
  <1> SUFFICES ASSUME IsStr(e.data[k])
               PROVE  WellFormed(StrSetRange(l, k, off, v).ldb)
    BY <1>0 DEF StrSetRange, Out
  <1>1. old \in Seq(Chunks)
    BY <1>0, SeqObject DEF IsStr
  <1>2. size \in Nat
    BY <1>1
  <1>3. ASSUME NEW j \in 1..size
        PROVE  w[j] \in Chunks
    <2>1. CASE j \in (off + 1)..(off + Len(v))
      <3>1. j - off \in 1..Len(v)
        BY <2>1
      <3>2. QED
        BY <2>1, <3>1
    <2>2. CASE j \notin (off + 1)..(off + Len(v))
      BY <1>1, <2>2, NulAssumption DEF Chunks
    <2>3. QED
      BY <2>1, <2>2
  <1>4. w \in Seq(Chunks)
    <2>1. w \in [1..size -> Chunks]
      BY <1>3
    <2> HIDE DEF w, size
    <2>2. QED
      BY <1>2, <2>1
  <1>5. WellFormed(Write(e, k, Str(w)))
    BY <1>0, <1>4, StrObject, WriteWF
  <1>6. QED
    BY <1>5 DEF StrSetRange, Out

LEMMA MSetWF ==
  ASSUME NEW l, WellFormed(l), NEW S \in SUBSET Keys, NEW kv \in [S -> Seq(Chunks)]
  PROVE  WellFormed(MSet(l, kv).ldb)
  <1>1. \A k \in S : Str(kv[k]) \in Objects /\ Str(kv[k]) # Absent
    BY StrObject, AbsentAssumption
  <1>2. QED
    BY <1>1 DEF MSet, WellFormed, LDBs, Out

LEMMA MSetNxWF ==
  ASSUME NEW l, WellFormed(l), NEW S \in SUBSET Keys, NEW kv \in [S -> Seq(Chunks)],
         NEW t
  PROVE  WellFormed(MSetNx(l, kv, t).ldb)
  BY MSetWF DEF MSetNx, AndReply, Out

LEMMA SetNxThenExpireWF ==
  ASSUME NEW l, WellFormed(l), NEW k \in Keys, NEW v \in Seq(Chunks),
         NEW d \in Nat \cup {Never}, NEW t \in Nat
  PROVE  WellFormed(SetNxThenExpire(l, k, v, d, t).ldb)
  <1> DEFINE set == StrSetNx(l, k, v, t)
  <1>1. WellFormed(set.ldb)
    BY StrSetNxWF
  <1>2. d # Never => d \div Sec \in Int
    BY SecAssumption
  <1>3. d # Never => WellFormed(Expire(set.ldb, k, d \div Sec, t).ldb)
    BY <1>1, <1>2, ExpireWF
  <1>4. QED
    BY <1>1, <1>3 DEF SetNxThenExpire, AndReply, Out

LEMMA ExecSetWF ==
  ASSUME NEW l, WellFormed(l), NEW k \in Keys, NEW v \in Seq(Chunks),
         NEW o, o.expire \in Nat \cup {Never}, NEW t \in Nat
  PROVE  WellFormed(ExecSet(l, k, v, o, t).ldb)
  <1>1. WellFormed(SetNxThenExpire(l, k, v, o.expire, t).ldb)
    BY SetNxThenExpireWF
  <1>2. WellFormed(StrSet(l, k, v, o.expire, t).ldb)
    BY StrSetWF
  <1>3. WellFormed(StrSetXx(l, k, v, o.expire, t).ldb)
    BY <1>2 DEF StrSetXx, Out
  <1>4. QED
    BY <1>1, <1>2, <1>3 DEF ExecSet, Out

LEMMA AsI64Type ==
  ASSUME NEW n \in Int
  PROVE  AsI64(n) \in Int
  BY WrapAssumption DEF AsI64

LEMMA GetExTimesType == GetExTimes \subseteq Int \cup {Never}
  <1>1. \A s \in Seconds : s * Sec \in Int
    BY TimesAssumption, SecAssumption
  <1>2. QED
    BY <1>1, TimesAssumption DEF GetExTimes

LEMMA ExecGetExWF ==
  ASSUME NEW l, WellFormed(l), NEW k \in Keys, NEW p, NEW ms \in Int \cup {Never},
         NEW t \in Nat
  PROVE  WellFormed(ExecGetEx(l, k, p, ms, t).ldb)
  <1>1. WellFormed(Persist(l, k).ldb)
    BY PersistWF
  <1>2. ms # Never => WellFormed(PExpire(l, k, AsI64(ms), t).ldb)
    BY PExpireWF, AsI64Type
  <1>3. QED
    BY <1>1, <1>2 DEF ExecGetEx, AndReply, Out

-----------------------------------------------------------------------------
(* List commands.                                                          *)

LEMMA RPushWF ==
  ASSUME NEW l, WellFormed(l), NEW k \in Keys, NEW vs \in Seq(Chunks)
  PROVE  WellFormed(RPush(l, k, vs).ldb)
  <1> DEFINE e == EntryOr(l, k, ListObj(<<>>))
  <1>1. WellFormed(e) /\ e.data[k] \in Objects
    BY Defaults, EntryWF
  <1>2. IsList(e.data[k]) => e.data[k].val \o vs \in Seq(Chunks)
    BY <1>1, SeqObject DEF IsList
  <1>3. IsList(e.data[k]) => WellFormed(Write(e, k, ListObj(e.data[k].val \o vs)))
    BY <1>1, <1>2, StrObject, WriteWF
  <1>4. QED
    BY <1>1, <1>3 DEF RPush, Out

LEMMA RPushXWF ==
  ASSUME NEW l, WellFormed(l), NEW k \in Keys, NEW vs \in Seq(Chunks), NEW t
  PROVE  WellFormed(RPushX(l, k, vs, t).ldb)
  <1> DEFINE e == GetMut(l, k, t)
  <1>1. WellFormed(e)
    BY GetMutWF
  <1>2. Stored(e, k) /\ IsList(e.data[k]) => e.data[k].val \o vs \in Seq(Chunks)
    BY <1>1, SeqObject DEF WellFormed, LDBs, Stored, IsList
  <1>3. Stored(e, k) /\ IsList(e.data[k]) => WellFormed(Write(e, k, ListObj(e.data[k].val \o vs)))
    BY <1>1, <1>2, StrObject, WriteWF
  <1>4. QED
    BY <1>1, <1>3 DEF RPushX, Out

LEMMA LPopWF ==
  ASSUME NEW l, WellFormed(l), NEW k \in Keys, NEW n \in Nat
  PROVE  WellFormed(LPop(l, k, n).ldb)
  <1> DEFINE old == l.data[k].val
             m == IF n < Len(old) THEN n ELSE Len(old)
             rest == SubSeq(old, m + 1, Len(old))
  <1>1. WellFormed(RemoveKey(l, k))
    BY RemoveWF
  <1>2. Stored(l, k) /\ IsList(l.data[k]) => old \in Seq(Chunks)
    BY SeqObject DEF WellFormed, LDBs, Stored, IsList
  <1>3. Stored(l, k) /\ IsList(l.data[k]) => rest \in Seq(Chunks)
    BY <1>2
  <1>4. Stored(l, k) /\ IsList(l.data[k]) => WellFormed(Write(l, k, ListObj(rest)))
    BY <1>3, StrObject, WriteWF
  <1>5. QED
    BY <1>1, <1>4 DEF LPop, Out

-----------------------------------------------------------------------------
(* The Keyspace.                                                           *)

AllWellFormed(D) == D \in [Dbs -> LDBs] /\ \A i \in Dbs : WellFormed(D[i])

IInv == now \in Nat /\ AllWellFormed(dbs)

\* Replacing one database by a well-formed one.
LEMMA Install ==
  ASSUME NEW D, AllWellFormed(D), NEW i, NEW l, i \in Dbs => WellFormed(l)
  PROVE  i \in Dbs => AllWellFormed([D EXCEPT ![i] = l])
  BY DEF AllWellFormed, WellFormed

LEMMA InvInit == Init => IInv
  BY EmptyWF DEF Init, IInv, AllWellFormed, WellFormed

LEMMA GenericStep ==
  ASSUME IInv, NEW i \in Index, GenericCommand(i)
  PROVE  IInv'
  <1> USE DEF IInv
  <1>0. i \in Dbs => WellFormed(dbs[i])
    BY DEF AllWellFormed
  <1>1. ASSUME NEW S \in SUBSET Keys, DelCmd(i, S)
        PROVE  IInv'
    <2>1. i \in Dbs => WellFormed(Del(dbs[i], S).ldb)
      BY <1>0, DelWF
    <2>2. QED
      BY <1>1, <2>1, Install DEF DelCmd, Run
  <1>2. ASSUME NEW src \in Keys, NEW dst \in Keys, RenameCmd(i, src, dst)
        PROVE  IInv'
    <2>1. i \in Dbs => WellFormed(Rename(dbs[i], src, dst).ldb)
      BY <1>0, RenameWF
    <2>2. QED
      BY <1>2, <2>1, Install DEF RenameCmd, Run
  <1>3. ASSUME NEW src \in Keys, NEW dst \in Keys, RenamenxCmd(i, src, dst)
        PROVE  IInv'
    <2>1. i \in Dbs => WellFormed(Renamenx(dbs[i], src, dst, now).ldb)
      BY <1>0, RenameWF
    <2>2. QED
      BY <1>3, <2>1, Install DEF RenamenxCmd, Run
  <1>4. ASSUME NEW k \in Keys, NEW s \in Seconds, ExpireCmd(i, k, s)
        PROVE  IInv'
    <2>1. i \in Dbs => WellFormed(Expire(dbs[i], k, s, now).ldb)
      BY <1>0, ExpireWF, TimesAssumption
    <2>2. QED
      BY <1>4, <2>1, Install DEF ExpireCmd, Run
  <1>5. ASSUME NEW k \in Keys, NEW ms \in Millis, PExpireCmd(i, k, ms)
        PROVE  IInv'
    <2>1. i \in Dbs => WellFormed(PExpire(dbs[i], k, ms, now).ldb)
      BY <1>0, PExpireWF, TimesAssumption
    <2>2. QED
      BY <1>5, <2>1, Install DEF PExpireCmd, Run
  <1>6. ASSUME NEW k \in Keys, NEW ts \in Seconds, ExpireAtCmd(i, k, ts)
        PROVE  IInv'
    <2>1. i \in Dbs => WellFormed(ExpireAtCommand(dbs[i], k, ts, now).ldb)
      BY <1>0, ExpireWF, TimesAssumption DEF ExpireAtCommand
    <2>2. QED
      BY <1>6, <2>1, Install DEF ExpireAtCmd, Run
  <1>7. ASSUME NEW k \in Keys, NEW ts \in Stamps, PExpireAtCmd(i, k, ts)
        PROVE  IInv'
    <2>1. i \in Dbs => WellFormed(PExpireAt(dbs[i], k, ts, now).ldb)
      BY <1>0, PExpireAtWF, StampsAssumption
    <2>2. QED
      BY <1>7, <2>1, Install DEF PExpireAtCmd, Run
  <1>8. ASSUME NEW k \in Keys, PersistCmd(i, k)
        PROVE  IInv'
    <2>1. i \in Dbs => WellFormed(Persist(dbs[i], k).ldb)
      BY <1>0, PersistWF
    <2>2. QED
      BY <1>8, <2>1, Install DEF PersistCmd, Run
  <1>9. CASE FlushDbCmd(i)
    <2>1. WellFormed(FlushDb(dbs[i]).ldb)
      BY EmptyWF DEF FlushDb, Out
    <2>2. QED
      BY <1>9, <2>1, Install DEF FlushDbCmd, Run
  <1>10. CASE FlushAllCmd(i)
    BY <1>10, EmptyWF DEF FlushAllCmd, AllWellFormed, WellFormed
  <1>11. QED
    BY <1>1, <1>2, <1>3, <1>4, <1>5, <1>6, <1>7, <1>8, <1>9, <1>10
       DEF GenericCommand

LEMMA StringStep ==
  ASSUME IInv, NEW i \in Index, StringCommand(i)
  PROVE  IInv'
  <1> USE DEF IInv
  <1>0. i \in Dbs => WellFormed(dbs[i])
    BY DEF AllWellFormed
  <1>1. ASSUME NEW k \in Keys, NEW v \in Values, NEW o \in SetOptions,
               SetCmd(i, k, v, o)
        PROVE  IInv'
    <2>1. o.expire \in Nat \cup {Never}
      BY OptionsAssumption
    <2>2. i \in Dbs => WellFormed(ExecSet(dbs[i], k, v, o, now).ldb)
      BY <1>0, <2>1, ExecSetWF, ValuesAssumption
    <2>3. QED
      BY <1>1, <2>2, Install DEF SetCmd, Run
  <1>2. ASSUME NEW k \in Keys, NEW v \in Values, SetnxCmd(i, k, v)
        PROVE  IInv'
    <2>1. i \in Dbs => WellFormed(StrSetNx(dbs[i], k, v, now).ldb)
      BY <1>0, StrSetNxWF, ValuesAssumption
    <2>2. QED
      BY <1>2, <2>1, Install DEF SetnxCmd, Run
  <1>3. ASSUME NEW k \in Keys, NEW v \in Values, GetSetCmd(i, k, v)
        PROVE  IInv'
    <2>1. i \in Dbs => WellFormed(StrGetSet(dbs[i], k, v, now).ldb)
      BY <1>0, StrGetSetWF, ValuesAssumption
    <2>2. QED
      BY <1>3, <2>1, Install DEF GetSetCmd, Run
  <1>4. ASSUME NEW k \in Keys, GetDelCmd(i, k)
        PROVE  IInv'
    <2>1. i \in Dbs => WellFormed(StrGetDel(dbs[i], k).ldb)
      BY <1>0, StrGetDelWF
    <2>2. QED
      BY <1>4, <2>1, Install DEF GetDelCmd, Run
  <1>5. ASSUME NEW k \in Keys, NEW p \in BOOLEAN, NEW ms \in GetExTimes,
               GetExCmd(i, k, p, ms)
        PROVE  IInv'
    <2>1. i \in Dbs => WellFormed(ExecGetEx(dbs[i], k, p, ms, now).ldb)
      BY <1>0, ExecGetExWF, GetExTimesType
    <2>2. QED
      BY <1>5, <2>1, Install DEF GetExCmd, Run
  <1>6. ASSUME NEW kv \in KeyValues, MSetCmd(i, kv) \/ MSetNxCmd(i, kv)
        PROVE  IInv'
    <2>1. PICK S \in SUBSET Keys : kv \in [S -> Seq(Chunks)]
      BY <1>6, ValuesAssumption DEF KeyValues
    <2>2. i \in Dbs => /\ WellFormed(MSet(dbs[i], kv).ldb)
                       /\ WellFormed(MSetNx(dbs[i], kv, now).ldb)
      BY <1>0, <2>1, MSetWF, MSetNxWF
    <2>3. QED
      BY <1>6, <2>2, Install DEF MSetCmd, MSetNxCmd, Run
  <1>7. ASSUME NEW k \in Keys, NEW v \in TextValues, AppendCmd(i, k, v)
        PROVE  IInv'
    <2>1. i \in Dbs => WellFormed(StrAppend(dbs[i], k, v).ldb)
      BY <1>0, StrAppendWF, ValuesAssumption DEF TextValues
    <2>2. QED
      BY <1>7, <2>1, Install DEF AppendCmd, Run
  <1>8. ASSUME NEW k \in Keys, NEW off \in 0..MaxLen, NEW v \in TextValues,
               SetRangeCmd(i, k, off, v)
        PROVE  IInv'
    <2>1. off \in Nat
      BY BoundAssumption
    <2>2. i \in Dbs => WellFormed(StrSetRange(dbs[i], k, off, v).ldb)
      BY <1>0, <2>1, StrSetRangeWF, ValuesAssumption DEF TextValues
    <2>3. QED
      BY <1>8, <2>2, Install DEF SetRangeCmd, Run
  <1>9. ASSUME NEW k \in Keys, NEW n \in Deltas, IncrByCmd(i, k, n)
        PROVE  IInv'
    <2>1. i \in Dbs => WellFormed(StrIncr(dbs[i], k, n).ldb)
      BY <1>0, StrIncrWF
    <2>2. QED
      BY <1>9, <2>1, Install DEF IncrByCmd, Run
  <1>10. ASSUME NEW k \in Keys, NEW n \in Deltas, DecrByCmd(i, k, n)
         PROVE  IInv'
    <2>1. i \in Dbs => /\ WellFormed(StrIncr(dbs[i], k, Negated(n)).ldb)
                       /\ WellFormed(Out(dbs[i], Panic).ldb)
      BY <1>0, StrIncrWF DEF Out
    <2>2. QED
      BY <1>10, <2>1, Install DEF DecrByCmd, Run
  <1>11. ASSUME NEW k \in Keys, NEW n \in Deltas \cup {Inf}, IncrByFloatCmd(i, k, n)
         PROVE  IInv'
    <2> DEFINE e == EntryOr(dbs[i], k, Str(<<0>>))
    <2>1. ASSUME i \in Dbs, n # Inf, IsStr(e.data[k]), IsNumeral(e.data[k].val)
          PROVE  e.data[k].val[1] + n \in Numbers
      <3>1. n \in Numbers
        BY <2>1, TimesAssumption
      <3>2. CASE Stored(dbs[i], k)
        BY <1>11, <2>1, <3>2 DEF IncrByFloatCmd, FloatFits, EntryOr
      <3>3. CASE ~Stored(dbs[i], k)
        <4>1. e.data[k] = Str(<<0>>)
          BY <1>0, <2>1, <3>3 DEF EntryOr, Write, WellFormed, LDBs
        <4>2. QED
          BY <3>1, <4>1 DEF Str, Numbers
      <3>4. QED
        BY <3>2, <3>3
    <2>2. i \in Dbs => WellFormed(StrIncrFloat(dbs[i], k, n).ldb)
      BY <1>0, <2>1, StrIncrFloatWF
    <2>3. QED
      BY <1>11, <2>2, Install DEF IncrByFloatCmd, Run
  <1>12. QED
    BY <1>1, <1>2, <1>3, <1>4, <1>5, <1>6, <1>7, <1>8, <1>9, <1>10, <1>11
       DEF StringCommand

LEMMA ListStep ==
  ASSUME IInv, NEW i \in Index, ListCommand(i)
  PROVE  IInv'
  <1> USE DEF IInv
  <1>0. i \in Dbs => WellFormed(dbs[i])
    BY DEF AllWellFormed
  <1>1. ASSUME NEW k \in Keys, NEW v \in Values, RPushCmd(i, k, v)
        PROVE  IInv'
    <2>1. i \in Dbs => WellFormed(RPush(dbs[i], k, v).ldb)
      BY <1>0, RPushWF, ValuesAssumption
    <2>2. QED
      BY <1>1, <2>1, Install DEF RPushCmd, Run
  <1>2. ASSUME NEW k \in Keys, NEW v \in Values, RPushXCmd(i, k, v)
        PROVE  IInv'
    <2>1. i \in Dbs => WellFormed(RPushX(dbs[i], k, v, now).ldb)
      BY <1>0, RPushXWF, ValuesAssumption
    <2>2. QED
      BY <1>2, <2>1, Install DEF RPushXCmd, Run
  <1>3. ASSUME NEW k \in Keys, NEW n \in PopCounts, LPopCmd(i, k, n)
        PROVE  IInv'
    <2>1. n \in Nat
      BY BoundAssumption, ReserveAssumption DEF PopCounts
    <2>2. i \in Dbs => WellFormed(LPop(dbs[i], k, n).ldb)
      BY <1>0, <2>1, LPopWF
    <2>3. QED
      BY <1>3, <2>2, Install DEF LPopCmd, Run
  <1>4. QED
    BY <1>1, <1>2, <1>3 DEF ListCommand

LEMMA InvStep == IInv /\ [Next]_vars => IInv'
  <1> SUFFICES ASSUME IInv, [Next]_vars
               PROVE  IInv'
    OBVIOUS
  <1>1. ASSUME NEW i \in Index, Command(i)
        PROVE  IInv'
    BY <1>1, GenericStep, StringStep, ListStep DEF Command
  <1>2. CASE EvictCmd
    BY <1>2, EvictWF DEF EvictCmd, IInv, AllWellFormed, WellFormed
  <1>3. CASE Tick
    BY <1>3 DEF Tick, IInv
  <1>4. CASE UNCHANGED vars
    BY <1>4 DEF vars, IInv
  <1>5. QED
    BY <1>1, <1>2, <1>3, <1>4 DEF Next

-----------------------------------------------------------------------------
\* Every database keeps its type, whatever the commands and their arguments.
THEOREM TypeInvariant == Spec => []TypeOK
  <1>1. IInv => TypeOK
    BY DEF IInv, AllWellFormed, TypeOK
  <1>2. QED
    BY InvInit, InvStep, <1>1, PTL DEF Spec

\* No command, in any order and at any moment, leaves a deadline behind for a
\* key of the same name to inherit.
THEOREM NoDeadlineIsOrphaned == Spec => []NoOrphanDeadline
  <1>1. IInv => NoOrphanDeadline
    BY DEF IInv, AllWellFormed, WellFormed, NoOrphanDeadline, Stored
  <1>2. QED
    BY InvInit, InvStep, <1>1, PTL DEF Spec

-----------------------------------------------------------------------------
(* The readers.                                                            *)

\* A key is live when it is stored and its deadline, if any, is still ahead.
LEMMA LiveMeans ==
  ASSUME NEW l, WellFormed(l), NEW k \in Keys, NEW t \in Nat
  PROVE  Live(l, k, t) <=> Stored(l, k) /\ (l.expiry[k] # Never => t < l.expiry[k])
  BY NeverAssumption DEF WellFormed, LDBs, Live, Get, IsExpired, Stored

\* TTL and PTTL answer -2 exactly for the keys that are not live, -1 exactly for
\* the live ones without a deadline.
LEMMA TtlMeans ==
  ASSUME NEW l, WellFormed(l), NEW k \in Keys, NEW t \in Nat
  PROVE  /\ (Pttl(l, k, t) # -2) <=> Live(l, k, t)
         /\ (Ttl(l, k, t) # -2) <=> Live(l, k, t)
         /\ (Pttl(l, k, t) = -1) <=> (Live(l, k, t) /\ l.expiry[k] = Never)
  <1> DEFINE e == l.expiry[k]
  <1>1. e \in Nat \cup {Never} /\ Never \notin Nat
    BY NeverAssumption DEF WellFormed, LDBs
  <1>2. CASE ~Stored(l, k)
    BY <1>2, LiveMeans DEF Pttl, Ttl, TtlMs
  <1>3. CASE Stored(l, k) /\ e = Never
    BY <1>3, LiveMeans DEF Pttl, Ttl, TtlMs
  <1>4. CASE Stored(l, k) /\ e # Never /\ t >= e
    BY <1>1, <1>4, LiveMeans DEF Pttl, Ttl, TtlMs
  <1>5. CASE Stored(l, k) /\ e # Never /\ t < e
    <2>1. TtlMs(l, k, t) = e - t /\ e - t \in Nat /\ e - t > 0
      BY <1>1, <1>5 DEF TtlMs
    <2>2. (e - t) \div Sec \in Nat
      BY <2>1, SecAssumption
    <2>3. QED
      BY <1>5, <2>1, <2>2, LiveMeans DEF Pttl, Ttl
  <1>6. QED
    BY <1>1, <1>2, <1>3, <1>4, <1>5

LEMMA StrGetMeans ==
  ASSUME NEW l, WellFormed(l), NEW k \in Keys, NEW t \in Nat
  PROVE  /\ (TypeOf(l, k, t) # "none") <=> Live(l, k, t)
         /\ (StrGet(l, k, t) = Nil) <=> ~Live(l, k, t)
         /\ (MGet(l, {k}, t)[k] = Nil) <=> (TypeOf(l, k, t) # "string")
  <1> DEFINE o == Get(l, k, t)
  <1>1. o = Absent \/ o \in Objects
    BY DEF WellFormed, LDBs, Get
  <1>2. \A v : Bulk(v) # Nil /\ ~IsError(Bulk(v))
    BY DEF Bulk, Nil, IsError
  <1>3. IsError(Err("WRONGTYPE")) /\ Err("WRONGTYPE") # Nil /\ ~IsError(Nil)
    BY DEF Err, Nil, IsError
  <1>4. CASE o = Absent
    BY <1>3, <1>4 DEF TypeOf, StrGet, MGet, Live
  <1>5. CASE o # Absent /\ o.type = "string"
    BY <1>2, <1>5 DEF TypeOf, StrGet, MGet, Live, IsStr
  <1>6. CASE o # Absent /\ o.type \in {"list", "hash", "set", "zset"}
    BY <1>3, <1>6 DEF TypeOf, StrGet, MGet, Live, IsStr
  <1>7. QED
    BY <1>1, <1>4, <1>5, <1>6 DEF Objects, SeqObjects, HashObjects, SetObjects, ZSetObjects

\* EXISTS, TYPE, GET, MGET, KEYS, DBSIZE, RANDOMKEY, TTL and PTTL never disagree
\* on which keys exist, at whatever moment each of them looks at the clock.
THEOREM ReadersNeverDisagree == Spec => []ReadersAgree
  <1>1. ASSUME IInv, NEW i \in Dbs
        PROVE  LET l == dbs[i]
                   live == {k \in Keys : Live(l, k, now)}
               IN  Unexpired(l, now) = live
    BY <1>1, LiveMeans DEF IInv, AllWellFormed, Unexpired
  <1>2. IInv => ReadersAgree
    <2> SUFFICES ASSUME IInv, NEW i \in Dbs
                 PROVE  LET l == dbs[i]
                            live == {k \in Keys : Live(l, k, now)}
                        IN  /\ KeysMatching(l, Keys, now) = live
                            /\ DbSize(l, now) = Cardinality(live)
                            /\ RandomKeys(l, now) = live
                            /\ Exists(l, Keys, now) = Cardinality(live)
                            /\ \A k \in Keys :
                                 /\ (TypeOf(l, k, now) # "none") = (k \in live)
                                 /\ (Pttl(l, k, now) # -2) = (k \in live)
                                 /\ (Ttl(l, k, now) # -2) = (k \in live)
                                 /\ (Pttl(l, k, now) = -1)
                                      = (k \in live /\ l.expiry[k] = Never)
                                 /\ (MGet(l, {k}, now)[k] = Nil)
                                      = (TypeOf(l, k, now) # "string")
                                 /\ (StrGet(l, k, now) = Nil) = (k \notin live)
      BY DEF ReadersAgree
    <2> DEFINE l == dbs[i]
               live == {k \in Keys : Live(l, k, now)}
    <2>1. WellFormed(l) /\ now \in Nat
      BY DEF IInv, AllWellFormed
    <2>2. Unexpired(l, now) = live
      BY <1>1
    <2>3. Exists(l, Keys, now) = Cardinality(live)
      BY DEF Exists, Live
    <2>4. KeysMatching(l, Keys, now) = live
      BY <2>2 DEF KeysMatching
    <2>5. DbSize(l, now) = Cardinality(live) /\ RandomKeys(l, now) = live
      BY <2>2 DEF DbSize, RandomKeys
    <2>6. ASSUME NEW k \in Keys
          PROVE  /\ (TypeOf(l, k, now) # "none") = (k \in live)
                 /\ (Pttl(l, k, now) # -2) = (k \in live)
                 /\ (Ttl(l, k, now) # -2) = (k \in live)
                 /\ (Pttl(l, k, now) = -1) = (k \in live /\ l.expiry[k] = Never)
                 /\ (MGet(l, {k}, now)[k] = Nil) = (TypeOf(l, k, now) # "string")
                 /\ (StrGet(l, k, now) = Nil) = (k \notin live)
      <3>1. k \in live <=> Live(l, k, now)
        OBVIOUS
      <3>2. QED
        BY <2>1, <3>1, TtlMeans, StrGetMeans
    <2>7. QED
      BY <2>3, <2>4, <2>5, <2>6
  <1>3. QED
    BY InvInit, InvStep, <1>2, PTL DEF Spec

-----------------------------------------------------------------------------
(* A patched string.                                                       *)

\* The three answers of GETRANGE after SETRANGE has made w of l.
ReadsBack(l, w, k, off, v, t) ==
  LET size == Len(v)
      was == IF Stored(l, k) THEN l.data[k].val ELSE <<>>
      at(j) == IF j <= Len(was) THEN was[j] ELSE Nul
      Read(m, n) == StrGetRange(w, k, m, n, t)
  IN  /\ Read(off, off + size - 1) = Bulk(v)
      /\ off > 0 => Read(0, off - 1) = Bulk([j \in 1..off |-> at(j)])
      /\ off + size < Len(was) =>
           Read(off + size, -1) = Bulk(SubSeq(was, off + size + 1, Len(was)))

\* GETRANGE of a live key that SETRANGE has written.
LEMMA SetRangeReads ==
  ASSUME NEW l, WellFormed(l), NEW k \in Keys, NEW off \in Nat, NEW v \in Seq(Chunks),
         v # <<>>, NEW t, ~IsError(StrSetRange(l, k, off, v).reply),
         Live(StrSetRange(l, k, off, v).ldb, k, t)
  PROVE  ReadsBack(l, StrSetRange(l, k, off, v).ldb, k, off, v, t)
  <1> DEFINE d == Str(<<>>)
             e == EntryOr(l, k, d)
             was == IF Stored(l, k) THEN l.data[k].val ELSE <<>>
             p == Patch(was, off, v)
             w == StrSetRange(l, k, off, v).ldb
  <1>1. WellFormed(e) /\ e.data[k] \in Objects
    BY Defaults, EntryWF
  <1>2. e.data[k].val = was
    BY DEF EntryOr, Write, WellFormed, LDBs, Str
  <1>3. IsStr(e.data[k])
    <2>1. IsError(Err("WRONGTYPE"))
      BY DEF IsError, Err
    <2>2. QED
      BY <2>1 DEF StrSetRange, Out
  <1>4. was \in Seq(Chunks)
    BY <1>1, <1>2, <1>3, SeqObject DEF IsStr
  <1>5. w = Write(e, k, Str(p))
    <2> HIDE DEF was
    <2>1. QED
      BY <1>2, <1>3 DEF StrSetRange, Out, Patch, PatchSize
  <1> HIDE DEF was, p
  <1>6. Get(w, k, t) = Str(p) /\ Str(p) # Absent
    <2>1. w.data[k] = Str(p)
      BY <1>1, <1>5 DEF Write, WellFormed, LDBs
    <2>2. QED
      BY <2>1 DEF Live, Get
  <1>7. \A m, n : StrGetRange(w, k, m, n, t) = Bulk(Slice(p, m, n))
    BY <1>6 DEF StrGetRange, IsStr, Str
  <1> HIDE DEF w
  <1>8. /\ Slice(p, off, off + Len(v) - 1) = v
        /\ off > 0 => Slice(p, 0, off - 1)
                        = [j \in 1..off |-> IF j <= Len(was) THEN was[j] ELSE Nul]
        /\ off + Len(v) < Len(was) =>
             Slice(p, off + Len(v), -1) = SubSeq(was, off + Len(v) + 1, Len(was))
    BY <1>4, PatchedReads DEF p
  <1>9. QED
    BY <1>7, <1>8 DEF ReadsBack, w, was

\* No command but SETRANGE calls itself SETRANGE.
LEMMA OnlySetRange ==
  ASSUME NEW i, Command(i), last'.op = "SETRANGE"
  PROVE  \E k \in Keys, off \in 0..MaxLen, v \in TextValues : SetRangeCmd(i, k, off, v)
  <1>1. ~GenericCommand(i)
    BY DEF GenericCommand, DelCmd, RenameCmd, RenamenxCmd, ExpireCmd, PExpireCmd,
           ExpireAtCmd, PExpireAtCmd, PersistCmd, FlushDbCmd, FlushAllCmd, Run
  <1>2. ~ListCommand(i)
    BY DEF ListCommand, RPushCmd, RPushXCmd, LPopCmd, Run
  <1>3. QED
    BY <1>1, <1>2
       DEF Command, StringCommand, SetCmd, SetnxCmd, GetSetCmd, GetDelCmd, GetExCmd,
           MSetCmd, MSetNxCmd, AppendCmd, IncrByCmd, DecrByCmd, IncrByFloatCmd, Run

\* Whatever a string was, and wherever it is patched, GETRANGE finds the patch, what
\* was in front of it and what was behind it, each at its place.
THEOREM SetRangeReadsBack == Spec => WritesReadBack
  <1> DEFINE P(i, k) ==
        /\ last'.op = "SETRANGE" /\ last'.db = i /\ k \in last'.keys
        /\ ~IsError(last'.reply) /\ last'.arg[2] # <<>> /\ Live(dbs'[i], k, now')
        => ReadsBack(dbs[i], dbs'[i], k, last'.arg[1], last'.arg[2], now')
  <1>1. ASSUME IInv, NEW i \in Dbs, NEW k \in Keys, NEW off \in 0..MaxLen,
               NEW v \in TextValues, SetRangeCmd(i, k, off, v), ~IsError(last'.reply),
               v # <<>>, Live(dbs'[i], k, now')
        PROVE  P(i, k)
    <2> DEFINE out == StrSetRange(dbs[i], k, off, v)
    <2>1. WellFormed(dbs[i]) /\ v \in Seq(Chunks) /\ off \in Nat
      BY <1>1, ValuesAssumption, BoundAssumption DEF IInv, AllWellFormed, TextValues
    <2>2. dbs'[i] = out.ldb /\ last'.arg = <<off, v>> /\ last'.reply = out.reply
      BY <1>1 DEF SetRangeCmd, Run, IInv, AllWellFormed
    <2>3. last'.arg[1] = off /\ last'.arg[2] = v
      BY <2>2
    <2> HIDE DEF out
    <2>4. ~IsError(out.reply) /\ Live(out.ldb, k, now')
      BY <1>1, <2>2
    <2>5. ReadsBack(dbs[i], out.ldb, k, off, v, now')
      BY <1>1, <2>1, <2>4, SetRangeReads DEF out
    <2>6. QED
      BY <2>2, <2>3, <2>5
  <1> HIDE DEF P
  <1>2. ASSUME IInv, Next, NEW i \in Dbs, NEW k \in Keys
        PROVE  P(i, k)
    <2> SUFFICES ASSUME last'.op = "SETRANGE", last'.db = i, k \in last'.keys,
                        ~IsError(last'.reply), last'.arg[2] # <<>>, Live(dbs'[i], k, now')
                 PROVE  P(i, k)
      BY DEF P
    <2>1. PICK j \in Index : Command(j)
      BY <1>2 DEF Next, EvictCmd, Tick
    <2>2. PICK h \in Keys, off \in 0..MaxLen, v \in TextValues : SetRangeCmd(j, h, off, v)
      BY <2>1, OnlySetRange
    <2>3. j = i /\ h = k /\ last'.arg[2] = v
      BY <2>2 DEF SetRangeCmd, Run
    <2>4. QED
      BY <1>1, <1>2, <2>2, <2>3
  <1>3. IInv /\ [Next]_vars => [\A i \in Dbs, k \in Keys : P(i, k)]_vars
    <2>1. CASE Next
      BY <1>2, <2>1
    <2>2. CASE UNCHANGED vars
      BY <2>2
    <2>3. QED
      BY <2>1, <2>2
  <1>4. QED
    BY InvInit, InvStep, <1>3, PTL DEF Spec, WritesReadBack, ReadsBack, P
=============================================================================
