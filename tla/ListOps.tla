------------------------------- MODULE ListOps -------------------------------
(***************************************************************************)
(* The list methods of Database (src/db/mod.rs).  Some look the key up     *)
(* with the clock (get_list, get_list_mut), some in the data map directly. *)
(***************************************************************************)
EXTENDS StringOps

CONSTANT ReserveMax    \* Vec::with_capacity panics for more elements

ASSUME ReserveAssumption == ReserveMax \in Nat /\ ReserveMax >= 2

\* get_or_create_list, then push_back of each value.
RPush(l, k, vs) ==
  LET e == EntryOr(l, k, ListObj(<<>>))
      w == e.data[k].val \o vs
  IN  IF IsList(e.data[k]) THEN Out(Write(e, k, ListObj(w)), Num(Len(w)))
      ELSE Out(e, Err("WRONGTYPE"))

\* rpushx goes through get_list_mut, which consults the clock.
RPushX(l, k, vs, t) ==
  LET e == GetMut(l, k, t)
      w == e.data[k].val \o vs
  IN  IF ~Stored(e, k) THEN Out(e, Num(0))
      ELSE IF IsList(e.data[k]) THEN Out(Write(e, k, ListObj(w)), Num(Len(w)))
      ELSE Out(e, Err("WRONGTYPE"))

\* lpop: up to n elements off the front; a list left empty is removed.  The room for
\* n elements is reserved before the list is touched.
LPop(l, k, n) ==
  LET old == l.data[k].val
      m == IF n < Len(old) THEN n ELSE Len(old)
      rest == SubSeq(old, m + 1, Len(old))
      reply == IF m = 0 THEN Nil ELSE Bulk(SubSeq(old, 1, m))
  IN  IF ~Stored(l, k) THEN Out(l, Nil)
      ELSE IF ~IsList(l.data[k]) THEN Out(l, Err("WRONGTYPE"))
      ELSE IF n > ReserveMax THEN Out(l, Panic)
      ELSE IF rest = <<>> THEN Out(RemoveKey(l, k), reply)
      ELSE Out(Write(l, k, ListObj(rest)), reply)

Reversed(s) == [j \in 1..Len(s) |-> s[Len(s) + 1 - j]]

\* The list s without the positions D.
Without(s, D) ==
  LET kept == (1..Len(s)) \ D
  IN  [j \in 1..Cardinality(kept) |->
         s[CHOOSE i \in kept : Cardinality({h \in kept : h <= i}) = j]]

\* Faulty variant: -1 is the place behind the last element.
NormalizeOffByOne(i, len) ==
  IF len = 0 THEN 0 ELSE IF i >= 0 THEN i
  ELSE IF len + i + 1 > 0 THEN len + i + 1 ELSE 0

\* normalize_index: 0-based; a negative index counts from the end and stops at 0.
NormalizeIndex(i, len) ==
  IF len = 0 THEN 0
  ELSE IF i >= 0 THEN i
  ELSE IF len + i > 0 THEN len + i ELSE 0

\* The slice lrange answers with and ltrim keeps.
Slice(s, start, stop) ==
  LET len   == Len(s)
      first == NormalizeIndex(start, len)
      stop0 == NormalizeIndex(stop, len)
      final == IF stop0 < len THEN stop0 ELSE len - 1
  IN  IF len = 0 \/ first > final THEN <<>> ELSE SubSeq(s, first + 1, final + 1)

\* str_getrange: the same range of a string.
StrGetRange(l, k, start, stop, t) ==
  LET o == Get(l, k, t)
  IN  IF o = Absent THEN Bulk(<<>>)
      ELSE IF IsStr(o) THEN Bulk(Slice(o.val, start, stop)) ELSE Err("WRONGTYPE")

-----------------------------------------------------------------------------
(* Readers.                                                                *)

\* get_list: the list, an error, or no list (here: an empty one).
ListAt(l, k, t) ==
  LET o == Get(l, k, t)
  IN  IF o = Absent THEN Bulk(<<>>)
      ELSE IF IsList(o) THEN Bulk(o.val) ELSE Err("WRONGTYPE")

LLen(l, k, t) ==
  LET r == ListAt(l, k, t) IN IF IsError(r) THEN r ELSE Num(Len(r[2]))

LRange(l, k, start, stop, t) ==
  LET r == ListAt(l, k, t)
  IN  IF IsError(r) THEN r ELSE Bulk(Slice(r[2], start, stop))

LIndex(l, k, index, t) ==
  LET r == ListAt(l, k, t)
      i == NormalizeIndex(index, Len(r[2])) + 1
  IN  IF IsError(r) THEN r ELSE IF i <= Len(r[2]) THEN Bulk(<<r[2][i]>>) ELSE Nil

-----------------------------------------------------------------------------
(* Writers.                                                                *)

\* push_front of each value in turn: the last one ends up first.
LPush(l, k, vs) ==
  LET e == EntryOr(l, k, ListObj(<<>>))
      w == Reversed(vs) \o e.data[k].val
  IN  IF IsList(e.data[k]) THEN Out(Write(e, k, ListObj(w)), Num(Len(w)))
      ELSE Out(e, Err("WRONGTYPE"))

\* What follows get_list_mut: the answer if there is no list, and `done`, the
\* outcome computed from the list, if there is one.
OnListMut(e, k, missing, done) ==
  IF ~Stored(e, k) THEN Out(e, missing)
  ELSE IF IsList(e.data[k]) THEN done ELSE Out(e, Err("WRONGTYPE"))

LPushX(l, k, vs, t) ==
  LET e == GetMut(l, k, t)
      w == Reversed(vs) \o e.data[k].val
  IN  OnListMut(e, k, Num(0), Out(Write(e, k, ListObj(w)), Num(Len(w))))

\* Faulty variant: an emptied list stays.
RPopKeeping(l, k, n) ==
  LET old == l.data[k].val
      m == IF n < Len(old) THEN n ELSE Len(old)
  IN  IF ~Stored(l, k) THEN Out(l, Nil)
      ELSE IF ~IsList(l.data[k]) THEN Out(l, Err("WRONGTYPE"))
      ELSE Out(Write(l, k, ListObj(SubSeq(old, 1, Len(old) - m))), Nil)

RPop(l, k, n) ==
  LET old == l.data[k].val
      m == IF n < Len(old) THEN n ELSE Len(old)
      rest == SubSeq(old, 1, Len(old) - m)
      reply == IF m = 0 THEN Nil ELSE Bulk(Reversed(SubSeq(old, Len(old) - m + 1, Len(old))))
  IN  IF ~Stored(l, k) THEN Out(l, Nil)
      ELSE IF ~IsList(l.data[k]) THEN Out(l, Err("WRONGTYPE"))
      ELSE IF n > ReserveMax THEN Out(l, Panic)
      ELSE IF rest = <<>> THEN Out(RemoveKey(l, k), reply)
      ELSE Out(Write(l, k, ListObj(rest)), reply)

LSet(l, k, index, v, t) ==
  LET e == GetMut(l, k, t)
      old == e.data[k].val
      i == NormalizeIndex(index, Len(old)) + 1
  IN  OnListMut(e, k, Err("NOSUCHKEY"),
        IF i > Len(old) THEN Out(e, Err("INDEX"))
        ELSE Out(Write(e, k, ListObj([old EXCEPT ![i] = v])), Ok))

\* The new element goes beside the first one equal to pivot.
LInsert(l, k, before, pivot, v, t) ==
  LET e == GetMut(l, k, t)
      old == e.data[k].val
      at == {i \in 1..Len(old) : old[i] = pivot}
      first == CHOOSE i \in at : \A j \in at : i <= j
      n == IF before THEN first - 1 ELSE first
      w == SubSeq(old, 1, n) \o <<v>> \o SubSeq(old, n + 1, Len(old))
  IN  OnListMut(e, k, Num(-1),
        IF at = {} THEN Out(e, Num(-1))
        ELSE Out(Write(e, k, ListObj(w)), Num(Len(w))))

\* count = 0: all; count > 0: that many from the head; count < 0: from the tail.
\* A list left empty stays.
LRem(l, k, count, v, t) ==
  LET e == GetMut(l, k, t)
      old == e.data[k].val
      at == {i \in 1..Len(old) : old[i] = v}
      gone == {i \in at :
                \/ count = 0
                \/ count > 0 /\ Cardinality({j \in at : j <= i}) <= count
                \/ count < 0 /\ Cardinality({j \in at : j >= i}) <= -count}
  IN  OnListMut(e, k, Num(0),
        Out(Write(e, k, ListObj(Without(old, gone))), Num(Cardinality(gone))))

LTrim(l, k, start, stop) ==
  LET w == Slice(l.data[k].val, start, stop)
  IN  IF ~Stored(l, k) THEN Out(l, Ok)
      ELSE IF ~IsList(l.data[k]) THEN Out(l, Err("WRONGTYPE"))
      ELSE IF w = <<>> THEN Out(RemoveKey(l, k), Ok)
      ELSE Out(Write(l, k, ListObj(w)), Ok)

\* The ends of a list.
EndOf(s, left) == IF left THEN s[1] ELSE s[Len(s)]
Popped(s, left) == IF left THEN Tail(s) ELSE SubSeq(s, 1, Len(s) - 1)
Pushed(s, left, v) == IF left THEN <<v>> \o s ELSE Append(s, v)

\* Source and destination are one list: it is never removed, even for a moment.
LRotate(l, k, fromLeft, toLeft) ==
  LET old == l.data[k].val
      v == EndOf(old, fromLeft)
  IN  IF old = <<>> THEN Out(l, Nil)
      ELSE Out(Write(l, k, ListObj(Pushed(Popped(old, fromLeft), toLeft, v))), Bulk(<<v>>))

\* Faulty variant: always pops the head.
ShortenedHead(l, k, left) ==
  LET old == l.data[k].val
  IN  IF Len(old) <= 1 THEN RemoveKey(l, k) ELSE Write(l, k, ListObj(Tail(old)))

\* The source without one element; an emptied one is removed.
Shortened(l, k, left) ==
  LET old == l.data[k].val
  IN  IF Len(old) <= 1 THEN RemoveKey(l, k) ELSE Write(l, k, ListObj(Popped(old, left)))

\* The element leaves the source before the destination is looked up: if that is
\* no list, the error comes too late.
LMoveAcross(l, src, dst, fromLeft, toLeft) ==
  LET old == l.data[src].val
      v == EndOf(old, fromLeft)
      e == EntryOr(Shortened(l, src, fromLeft), dst, ListObj(<<>>))
  IN  IF old = <<>> THEN Out(RemoveKey(l, src), Nil)
      ELSE IF ~IsList(e.data[dst]) THEN Out(e, Err("WRONGTYPE"))
      ELSE Out(Write(e, dst, ListObj(Pushed(e.data[dst].val, toLeft, v))), Bulk(<<v>>))

\* Faulty variant: no case of its own for a list moved onto itself.
LMoveOneCase(l, src, dst, fromLeft, toLeft) ==
  IF ~Stored(l, src) THEN Out(l, Nil)
  ELSE IF ~IsList(l.data[src]) THEN Out(l, Err("WRONGTYPE"))
  ELSE LMoveAcross(l, src, dst, fromLeft, toLeft)

LMove(l, src, dst, fromLeft, toLeft) ==
  IF ~Stored(l, src) THEN Out(l, Nil)
  ELSE IF ~IsList(l.data[src]) THEN Out(l, Err("WRONGTYPE"))
  ELSE IF src = dst THEN LRotate(l, src, fromLeft, toLeft)
  ELSE LMoveAcross(l, src, dst, fromLeft, toLeft)
=============================================================================
