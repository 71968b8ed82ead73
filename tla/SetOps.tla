------------------------------- MODULE SetOps -------------------------------
(***************************************************************************)
(* The set methods of Database (src/db/mod.rs).  An array of members comes *)
(* in any order, so an answer shows a set of members.                      *)
(***************************************************************************)
EXTENDS ListOps

NewSet == SetObj({})

\* A set is removed with its last member.
PutSet(l, k, S) == IF S = {} THEN RemoveKey(l, k) ELSE Write(l, k, SetObj(S))

-----------------------------------------------------------------------------
(* Readers.                                                                *)

\* What a reader that has found o answers: none for a missing key.
ReadSet(o, none, answer) ==
  IF o = Absent THEN none
  ELSE IF ~IsSet(o) THEN Err("WRONGTYPE")
  ELSE answer

SMembers(l, k, t) ==
  LET o == Get(l, k, t) IN ReadSet(o, Bulk({}), Bulk(o.members))

SIsMember(l, k, m, t) ==
  LET o == Get(l, k, t) IN ReadSet(o, Num(0), BoolInt(m \in o.members))

SMIsMember(l, k, ms, t) ==
  LET o == Get(l, k, t)
  IN  ReadSet(o, Bulk([j \in 1..Len(ms) |-> Num(0)]),
                 Bulk([j \in 1..Len(ms) |-> BoolInt(ms[j] \in o.members)]))

SCard(l, k, t) ==
  LET o == Get(l, k, t) IN ReadSet(o, Num(0), Num(Cardinality(o.members)))

\* choose_multiple: n members at random, or all of them.
Choices(S, n) ==
  {C \in SUBSET S : Cardinality(C) = IF n < Cardinality(S) THEN n ELSE Cardinality(S)}

\* The answer to SPOP and SRANDMEMBER: an array, or the member itself if the
\* count is 1.
Drawn(n, C) == IF n = 1 /\ C = {} THEN Nil ELSE Bulk(C)

\* The answers SRANDMEMBER can give: different members, or for a negative
\* count that many draws of one member.  Either way the room for them is reserved.
SRandMember(l, k, n, t) ==
  LET o == Get(l, k, t)
  IN  IF o = Absent THEN {Drawn(n, {})}
      ELSE IF ~IsSet(o) THEN {Err("WRONGTYPE")}
      ELSE IF n > ReserveMax THEN {Panic}
      ELSE IF n >= 0 THEN {Drawn(n, C) : C \in Choices(o.members, n)}
      ELSE IF o.members = {} THEN {Bulk({})}
      ELSE IF -n > ReserveMax THEN {Panic}
      ELSE {Bulk({draw[j] : j \in 1..(-n)}) : draw \in [1..(-n) -> o.members]}

\* Faulty variant: the lookup skips the clock.
SetAtUnchecked(l, k, t) ==
  IF ~Stored(l, k) THEN Bulk({})
  ELSE IF IsSet(l.data[k]) THEN Bulk(l.data[k].members) ELSE Err("WRONGTYPE")

\* get_set_clone
SetAt(l, k, t) ==
  LET o == Get(l, k, t)
  IN  IF o = Absent THEN Bulk({})
      ELSE IF IsSet(o) THEN Bulk(o.members) ELSE Err("WRONGTYPE")

\* Every operand is looked up, and a single one of another type is an error.
Operands(l, ks, t) == [j \in 1..Len(ks) |-> SetAt(l, ks[j], t)]

Combined(sets, result) ==
  IF \E j \in DOMAIN sets : IsError(sets[j]) THEN Err("WRONGTYPE") ELSE Bulk(result)

SUnion(l, ks, t) ==
  LET S == Operands(l, ks, t) IN Combined(S, UNION {S[j][2] : j \in DOMAIN S})

SInter(l, ks, t) ==
  LET S == Operands(l, ks, t)
  IN  Combined(S, {m \in S[1][2] : \A j \in DOMAIN S : m \in S[j][2]})

SDiff(l, ks, t) ==
  LET S == Operands(l, ks, t)
  IN  Combined(S, {m \in S[1][2] : \A j \in 2..Len(S) : m \notin S[j][2]})

-----------------------------------------------------------------------------
(* Writers.                                                                *)

SAdd(l, k, ms) ==
  LET e == EntryOr(l, k, NewSet)
      added == {ms[j] : j \in 1..Len(ms)}
      old == e.data[k].members
  IN  IF ~IsSet(e.data[k]) THEN Out(e, Err("WRONGTYPE"))
      ELSE Out(Write(e, k, SetObj(old \cup added)), Num(Cardinality(added \ old)))

SRem(l, k, ms) ==
  LET gone == {ms[j] : j \in 1..Len(ms)}
      old == l.data[k].members
  IN  IF ~Stored(l, k) THEN Out(l, Num(0))
      ELSE IF ~IsSet(l.data[k]) THEN Out(l, Err("WRONGTYPE"))
      ELSE Out(PutSet(l, k, old \ gone), Num(Cardinality(gone \cap old)))

\* Faulty variant: the result is written over the object that was there.
StoreSetInPlace(l, dst, r) ==
  IF IsError(r) THEN Out(l, r) ELSE Out(Write(l, dst, SetObj(r[2])), Num(Cardinality(r[2])))

\* Faulty variant: the destination is removed before the operands are looked at.
StoreSetRemoved(l, dst, r) ==
  IF IsError(r) THEN Out(RemoveKey(l, dst), r)
  ELSE Out(InsertKey(l, dst, SetObj(r[2])), Num(Cardinality(r[2])))

\* Faulty variant: the result joins the members of the old object.
StoreSetJoined(l, dst, r) ==
  LET old == IF Stored(l, dst) /\ IsSet(l.data[dst]) THEN l.data[dst].members ELSE {}
  IN  IF IsError(r) THEN Out(l, r)
      ELSE Out(InsertKey(l, dst, SetObj(r[2] \cup old)), Num(Cardinality(r[2])))

\* The result replaces whatever was there, its deadline too; an empty result is
\* stored like any other.
StoreSet(l, dst, r) ==
  IF IsError(r) THEN Out(l, r) ELSE Out(InsertKey(l, dst, SetObj(r[2])), Num(Cardinality(r[2])))

SUnionStore(l, dst, ks, t) == StoreSet(l, dst, SUnion(l, ks, t))
SInterStore(l, dst, ks, t) == StoreSet(l, dst, SInter(l, ks, t))
SDiffStore(l, dst, ks, t)  == StoreSet(l, dst, SDiff(l, ks, t))

\* SPOP of n members; `chosen` are drawn at random, with room for n reserved first.
SPop(l, k, n, chosen) ==
  IF ~Stored(l, k) THEN Out(l, Drawn(n, {}))
  ELSE IF ~IsSet(l.data[k]) THEN Out(l, Err("WRONGTYPE"))
  ELSE IF n > ReserveMax THEN Out(l, Panic)
  ELSE Out(PutSet(l, k, l.data[k].members \ chosen), Drawn(n, chosen))

\* Faulty variant: the member joins the destination before it leaves the source.
SMoveAddFirst(l, src, dst, m) ==
  LET e == EntryOr(l, dst, NewSet)
      w == Write(e, dst, SetObj(e.data[dst].members \cup {m}))
  IN  IF ~Stored(l, src) THEN Out(l, BoolInt(FALSE))
      ELSE IF ~IsSet(l.data[src]) THEN Out(l, Err("WRONGTYPE"))
      ELSE IF m \notin l.data[src].members THEN Out(l, BoolInt(FALSE))
      ELSE IF ~IsSet(e.data[dst]) THEN Out(e, Err("WRONGTYPE"))
      ELSE Out(PutSet(w, src, w.data[src].members \ {m}), BoolInt(TRUE))

\* The member leaves the source before the destination is looked up.
SMove(l, src, dst, m) ==
  LET e == EntryOr(PutSet(l, src, l.data[src].members \ {m}), dst, NewSet)
  IN  IF ~Stored(l, src) THEN Out(l, BoolInt(FALSE))
      ELSE IF ~IsSet(l.data[src]) THEN Out(l, Err("WRONGTYPE"))
      ELSE IF m \notin l.data[src].members THEN Out(l, BoolInt(FALSE))
      ELSE IF ~IsSet(e.data[dst]) THEN Out(e, Err("WRONGTYPE"))
      ELSE Out(Write(e, dst, SetObj(e.data[dst].members \cup {m})), BoolInt(TRUE))
=============================================================================
