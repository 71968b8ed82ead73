------------------------------ MODULE HashOps ------------------------------
(***************************************************************************)
(* The hash methods of Database (src/db/mod.rs).  The writers look the key *)
(* up in the data map, the readers with the clock.                         *)
(***************************************************************************)
EXTENDS ListOps

NewHash == HashObj([f \in Chunks |-> Absent])

FieldsOf(o) == {f \in Chunks : o.fields[f] # Absent}

SetField(o, f, v) == [o EXCEPT !.fields = [@ EXCEPT ![f] = v]]

\* Faulty variant: the emptied key stays.
PutHashAny(l, k, o) == Write(l, k, o)

\* A hash is removed with its last field.
PutHash(l, k, o) == IF FieldsOf(o) = {} THEN RemoveKey(l, k) ELSE Write(l, k, o)

-----------------------------------------------------------------------------
(* Readers.                                                                *)

\* What a reader that has found o answers: none for a missing key.
ReadHash(o, none, answer) ==
  IF o = Absent THEN none
  ELSE IF ~IsHash(o) THEN Err("WRONGTYPE")
  ELSE answer

OrNull(v) == IF v = Absent THEN Nil ELSE Bulk(<<v>>)

HGet(l, k, f, t) ==
  LET o == Get(l, k, t) IN ReadHash(o, Nil, OrNull(o.fields[f]))

HMGet(l, k, fs, t) ==
  LET o == Get(l, k, t)
  IN  ReadHash(o, Bulk([j \in 1..Len(fs) |-> Nil]),
                  Bulk([j \in 1..Len(fs) |-> OrNull(o.fields[fs[j]])]))

HExists(l, k, f, t) ==
  LET o == Get(l, k, t) IN ReadHash(o, Num(0), BoolInt(o.fields[f] # Absent))

\* The map iterates in any order: the pairs, the fields, and for each value the
\* number of its occurrences.
HGetAll(l, k, t) ==
  LET o == Get(l, k, t)
  IN  ReadHash(o, Bulk({}), Bulk({<<f, o.fields[f]>> : f \in FieldsOf(o)}))

HKeys(l, k, t) ==
  LET o == Get(l, k, t) IN ReadHash(o, Bulk({}), Bulk(FieldsOf(o)))

HVals(l, k, t) ==
  LET o == Get(l, k, t)
  IN  ReadHash(o, Bulk([v \in Chunks |-> 0]),
                  Bulk([v \in Chunks |-> Cardinality({f \in Chunks : o.fields[f] = v})]))

\* Faulty variant: the lookup skips the clock.
HLenUnchecked(l, k, t) ==
  IF ~Stored(l, k) THEN Num(0)
  ELSE IF ~IsHash(l.data[k]) THEN Err("WRONGTYPE")
  ELSE Num(Cardinality(FieldsOf(l.data[k])))

HLen(l, k, t) ==
  LET o == Get(l, k, t) IN ReadHash(o, Num(0), Num(Cardinality(FieldsOf(o))))

-----------------------------------------------------------------------------
(* Writers.                                                                *)

\* A field that the request names twice gets the later value.
HSet(l, k, pairs) ==
  LET e == EntryOr(l, k, NewHash)
      o == e.data[k]
      named == {pairs[j][1] : j \in 1..Len(pairs)}
      final(f) == CHOOSE j \in 1..Len(pairs) :
                    pairs[j][1] = f /\ \A i \in (j + 1)..Len(pairs) : pairs[i][1] # f
      fields == [f \in Chunks |-> IF f \in named THEN pairs[final(f)][2] ELSE o.fields[f]]
  IN  IF ~IsHash(o) THEN Out(e, Err("WRONGTYPE"))
      ELSE Out(Write(e, k, HashObj(fields)), Num(Cardinality(named \ FieldsOf(o))))

HMSet(l, k, pairs) ==
  LET set == HSet(l, k, pairs)
  IN  IF IsError(set.reply) THEN set ELSE Out(set.ldb, Ok)

HSetNx(l, k, f, v) ==
  LET e == EntryOr(l, k, NewHash)
      o == e.data[k]
  IN  IF ~IsHash(o) THEN Out(e, Err("WRONGTYPE"))
      ELSE IF f \in FieldsOf(o) THEN Out(e, BoolInt(FALSE))
      ELSE Out(Write(e, k, SetField(o, f, v)), BoolInt(TRUE))

HDel(l, k, fs) ==
  LET o == l.data[k]
      gone == {fs[j] : j \in 1..Len(fs)} \cap FieldsOf(o)
      rest == HashObj([f \in Chunks |-> IF f \in gone THEN Absent ELSE o.fields[f]])
  IN  IF ~Stored(l, k) THEN Out(l, Num(0))
      ELSE IF ~IsHash(o) THEN Out(l, Err("WRONGTYPE"))
      ELSE Out(PutHash(l, k, rest), Num(Cardinality(gone)))

\* A missing field counts as 0.
CountedField(o, f) == IF o.fields[f] = Absent THEN 0 ELSE o.fields[f]

HIncrBy(l, k, f, delta) ==
  LET e == EntryOr(l, k, NewHash)
      o == e.data[k]
      n == CountedField(o, f)
  IN  IF ~IsHash(o) THEN Out(e, Err("WRONGTYPE"))
      ELSE IF n \notin Numbers THEN Out(e, Err("NOTINT"))
      ELSE IF n + delta \notin Numbers THEN Out(Write(e, k, SetField(o, f, n)), Err("OVERFLOW"))
      ELSE Out(Write(e, k, SetField(o, f, n + delta)), Num(n + delta))

\* The sum is checked after the hash and the field were created.
HIncrByFloat(l, k, f, delta) ==
  LET e == EntryOr(l, k, NewHash)
      o == e.data[k]
      n == CountedField(o, f)
  IN  IF ~IsHash(o) THEN Out(e, Err("WRONGTYPE"))
      ELSE IF n \notin Numbers THEN Out(e, Err("NOTFLOAT"))
      ELSE IF delta = NaN THEN Out(Write(e, k, SetField(o, f, n)), Err("NAN"))
      ELSE Out(Write(e, k, SetField(o, f, n + delta)), Bulk(<<n + delta>>))
=============================================================================
