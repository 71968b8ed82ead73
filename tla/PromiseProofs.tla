---------------------------- MODULE PromiseProofs ----------------------------
(***************************************************************************)
(* The two maps keep the promise of TtlStore: every step of the Keyspace,  *)
(* for any keys, arguments and interleaving, is a step of the promised     *)
(* store or one of the departures KeyspaceProps names.                     *)
(*                                                                         *)
(* First, what a client sees of the primitives of LogicalDb; then one      *)
(* lemma per command; then the theorems.                                   *)
(***************************************************************************)
EXTENDS KeyspaceProofs

-----------------------------------------------------------------------------
(* The vocabulary of Objects is the same in the promise.                   *)

LEMMA Shared ==
  /\ Promise!Ok = Ok /\ Promise!Nil = Nil
  /\ \A x : /\ Promise!Num(x) = Num(x) /\ Promise!Bulk(x) = Bulk(x)
            /\ Promise!Err(x) = Err(x) /\ Promise!IsError(x) = IsError(x)
            /\ Promise!BoolInt(x) = BoolInt(x)
            /\ Promise!Str(x) = Str(x) /\ Promise!ListObj(x) = ListObj(x)
            /\ Promise!IsNumeral(x) = IsNumeral(x)
            /\ Promise!Cardinality(x) = Cardinality(x)
  /\ Promise!Numbers = Numbers
  BY DEF Promise!Ok, Ok, Promise!Nil, Nil, Promise!Num, Num, Promise!Bulk, Bulk,
         Promise!Err, Err, Promise!IsError, IsError, Promise!BoolInt, BoolInt,
         Promise!Str, Str, Promise!ListObj, ListObj, Promise!IsNumeral, IsNumeral,
         Promise!Numbers, Numbers, Promise!Cardinality, Cardinality

\* No two of the replies can be taken for each other.
LEMMA Distinct ==
  /\ Nil # Ok /\ Ok # Panic /\ Nil # Panic
  /\ BoolInt(TRUE) = Num(1) /\ BoolInt(FALSE) = Num(0) /\ Num(0) # Num(1)
  /\ ~IsError(Nil) /\ ~IsError(Ok)
  /\ \A x : /\ Num(x) # Panic /\ Num(x) # Ok /\ Num(x) # Nil /\ ~IsError(Num(x))
            /\ Bulk(x) # Nil /\ Bulk(x) # Panic /\ Bulk(x) # Ok /\ ~IsError(Bulk(x))
            /\ IsError(Err(x)) /\ Err(x) # Nil /\ Err(x) # Panic
  BY DEF Nil, Ok, Panic, BoolInt, Num, Bulk, Err, IsError

-----------------------------------------------------------------------------
(* What a client sees of the primitives.                                   *)

\* A client sees exactly the live keys, each with its object and its deadline.
LEMMA ViewAt ==
  ASSUME NEW l, WellFormed(l), NEW t \in Nat, NEW k \in Keys
  PROVE  /\ Promise!Present(ViewOf(l, t), k) <=> Live(l, k, t)
         /\ Live(l, k, t) => /\ ViewOf(l, t)[k] = Promise!Entry(l.data[k], l.expiry[k])
                             /\ Get(l, k, t) = l.data[k]
                             /\ Stored(l, k)
                             /\ l.data[k] \in Objects
         /\ ~Live(l, k, t) => ViewOf(l, t)[k] = Absent /\ Get(l, k, t) = Absent
  <1> DEFINE e == [obj |-> l.data[k], at |-> l.expiry[k]]
  <1>1. Live(l, k, t) => l.data[k] \in Objects /\ Stored(l, k) /\ Get(l, k, t) = l.data[k]
    BY AbsentAssumption DEF WellFormed, LDBs, Live, Get, Stored
  <1>2. Live(l, k, t) => e \in [obj: Objects, at: Nat \cup {Never}]
    BY <1>1 DEF WellFormed, LDBs
  <1>3. Live(l, k, t) => e # Absent
    BY <1>2, EntryAssumption
  <1>4. ViewOf(l, t)[k] = IF Live(l, k, t) THEN e ELSE Absent
    BY DEF ViewOf
  <1>5. QED
    BY <1>1, <1>3, <1>4 DEF Promise!Present, Promise!Entry, Live

\* A removed key is gone for clients, and nothing else is.
LEMMA ViewRemove ==
  ASSUME NEW l, WellFormed(l), NEW t \in Nat, NEW k \in Keys
  PROVE  ViewOf(RemoveKey(l, k), t) = [ViewOf(l, t) EXCEPT ![k] = Absent]
  BY DEF ViewOf, RemoveKey, WellFormed, LDBs, Live, Get, IsExpired

\* An inserted object is there for good.
LEMMA ViewInsert ==
  ASSUME NEW l, WellFormed(l), NEW t \in Nat, NEW k \in Keys, NEW o \in Objects
  PROVE  ViewOf(InsertKey(l, k, o), t)
           = [ViewOf(l, t) EXCEPT ![k] = Promise!Entry(o, Never)]
  BY AbsentAssumption
     DEF ViewOf, InsertKey, WellFormed, LDBs, Live, Get, IsExpired, Promise!Entry

\* A write in place keeps the deadline; a dead key would stay invisible.
LEMMA ViewWrite ==
  ASSUME NEW l, WellFormed(l), NEW t \in Nat, NEW k \in Keys, NEW o \in Objects,
         ~IsExpired(l, k, t)
  PROVE  ViewOf(Write(l, k, o), t)
           = [ViewOf(l, t) EXCEPT ![k] = Promise!Entry(o, l.expiry[k])]
  BY AbsentAssumption
     DEF ViewOf, Write, WellFormed, LDBs, Live, Get, IsExpired, Promise!Entry

\* A new deadline shows at once, and hides the key when it has passed.
LEMMA ViewRetime ==
  ASSUME NEW l, WellFormed(l), now \in Nat, NEW k \in Keys, Live(l, k, now),
         NEW at \in Nat \cup {Never}
  PROVE  ViewOf([l EXCEPT !.expiry = [@ EXCEPT ![k] = at]], now)
           = [ViewOf(l, now) EXCEPT ![k] = Promise!Keep(l.data[k], at)]
  BY NeverAssumption
     DEF ViewOf, WellFormed, LDBs, Live, Get, IsExpired, Promise!Entry,
         Promise!Keep, Promise!Gone

\* Clients never notice a lookup that drops an expired key, nor an eviction.
LEMMA ViewGetMut ==
  ASSUME NEW l, WellFormed(l), NEW t \in Nat, NEW k \in Keys
  PROVE  ViewOf(GetMut(l, k, t), t) = ViewOf(l, t)
  BY DEF ViewOf, GetMut, RemoveKey, WellFormed, LDBs, Live, Get, IsExpired

LEMMA ViewEvict ==
  ASSUME NEW l, WellFormed(l), NEW t \in Nat
  PROVE  ViewOf(EvictExpired(l, t), t) = ViewOf(l, t)
  BY DEF ViewOf, EvictExpired, WellFormed, LDBs, Live, Get, IsExpired

LEMMA ViewEmpty ==
  ASSUME NEW t
  PROVE  ViewOf(EmptyDb, t) = Promise!Empty
  BY DEF ViewOf, EmptyDb, Live, Get, IsExpired, Promise!Empty

\* As the clock moves on, a client loses the keys whose deadline it reaches.
LEMMA ViewTick ==
  ASSUME NEW l, WellFormed(l), NEW t \in Nat
  PROVE  ViewOf(l, t + 1)
           = [k \in Keys |-> IF Promise!Present(ViewOf(l, t), k)
                                  /\ ViewOf(l, t)[k].at = t + 1
                             THEN Absent ELSE ViewOf(l, t)[k]]
  <1>1. ASSUME NEW k \in Keys
        PROVE  ViewOf(l, t + 1)[k]
                 = IF Promise!Present(ViewOf(l, t), k) /\ ViewOf(l, t)[k].at = t + 1
                   THEN Absent ELSE ViewOf(l, t)[k]
    <2>1. l.expiry[k] = Never \/ (l.expiry[k] \in Nat /\ l.expiry[k] # Never)
      BY NeverAssumption DEF WellFormed, LDBs
    <2>2. CASE Live(l, k, t) /\ l.expiry[k] = t + 1
      <3>1. ~Live(l, k, t + 1)
        BY <2>1, <2>2, NeverAssumption DEF Live, Get, IsExpired
      <3>2. QED
        BY <2>2, <3>1, ViewAt DEF ViewOf, Promise!Entry
    <2>3. CASE Live(l, k, t) /\ l.expiry[k] # t + 1
      <3>1. Live(l, k, t + 1)
        BY <2>1, <2>3 DEF Live, Get, IsExpired
      <3>2. QED
        BY <2>3, <3>1, ViewAt DEF ViewOf, Promise!Entry
    <2>4. CASE ~Live(l, k, t)
      <3>1. ~Live(l, k, t + 1)
        BY <2>1, <2>4 DEF Live, Get, IsExpired
      <3>2. QED
        BY <2>4, <3>1, ViewAt DEF ViewOf
    <2>5. QED
      BY <2>2, <2>3, <2>4
  <1>2. QED
    BY <1>1 DEF ViewOf

\* A key that is not dead is stored exactly when clients see it.
LEMMA NotDead ==
  ASSUME NEW l, WellFormed(l), NEW t \in Nat, NEW k \in Keys, ~Dead(l, k, t)
  PROVE  /\ ~IsExpired(l, k, t)
         /\ Stored(l, k) <=> Live(l, k, t)
         /\ Promise!Present(ViewOf(l, t), k) <=> Stored(l, k)
         /\ ~Stored(l, k) => l.expiry[k] = Never /\ ViewOf(l, t)[k] = Absent
  <1>1. ~IsExpired(l, k, t)
    BY DEF Dead, IsExpired, WellFormed, Stored
  <1>2. Stored(l, k) <=> Live(l, k, t)
    BY <1>1 DEF Live, Get, Stored
  <1>3. QED
    BY <1>1, <1>2, ViewAt DEF WellFormed, Stored

\* What data.entry(..) and get_mut hand out is what a client sees, and a write to
\* it is an update of what the client sees.
LEMMA ViewUpdate ==
  ASSUME NEW l, WellFormed(l), now \in Nat, NEW k \in Keys, ~Dead(l, k, now),
         NEW d \in Objects
  PROVE  LET e == EntryOr(l, k, d)
             s == ViewOf(l, now)
         IN  /\ e.data[k] = IF Promise!Present(s, k) THEN s[k].obj ELSE d
             /\ Promise!Present(s, k) => e = l /\ s[k].obj \in Objects
             /\ \A o \in Objects :
                  ViewOf(Write(e, k, o), now)
                    = [s EXCEPT ![k] =
                         Promise!Entry(o, IF Promise!Present(s, k) THEN s[k].at ELSE Never)]
  <1> DEFINE e == EntryOr(l, k, d)
             s == ViewOf(l, now)
  <1>1. CASE Stored(l, k)
    <2>1. /\ Promise!Present(s, k) /\ ~IsExpired(l, k, now)
          /\ s[k] = Promise!Entry(l.data[k], l.expiry[k]) /\ l.data[k] \in Objects
      BY <1>1, NotDead, ViewAt
    <2>2. e = l
      BY <1>1 DEF EntryOr
    <2>3. s[k].obj = l.data[k] /\ s[k].at = l.expiry[k]
      BY <2>1 DEF Promise!Entry
    <2>4. QED
      BY <2>1, <2>2, <2>3, ViewWrite
  <1>2. CASE ~Stored(l, k)
    <2>1. ~Promise!Present(s, k) /\ l.expiry[k] = Never /\ ~IsExpired(l, k, now)
      BY <1>2, NotDead
    <2>2. e = Write(l, k, d) /\ e.data[k] = d
      BY <1>2 DEF EntryOr, Write, WellFormed, LDBs
    <2>3. \A o : Write(e, k, o) = Write(l, k, o)
      BY <2>2 DEF Write, WellFormed, LDBs
    <2>4. QED
      BY <2>1, <2>2, <2>3, ViewWrite
  <1>3. QED
    BY <1>1, <1>2

-----------------------------------------------------------------------------
(* A step of the Keyspace, seen from the promised store.                   *)

\* A command on a database the server has serves its request there, and leaves
\* every other database as clients saw it.
LEMMA Served ==
  ASSUME IInv, NEW op, NEW i \in Dbs, NEW S, NEW arg, NEW out, Run(op, i, S, arg, out)
  PROVE  /\ last' = [op |-> op, db |-> i, keys |-> S, arg |-> arg, reply |-> out.reply]
         /\ Promise!s0 = ViewOf(dbs[i], now)
         /\ Promise!Serve(op, ViewOf(out.ldb, now), out.reply)
         /\ WellFormed(dbs[i]) /\ now \in Nat
  <1>1. /\ last' = [op |-> op, db |-> i, keys |-> S, arg |-> arg, reply |-> out.reply]
        /\ dbs' = [dbs EXCEPT ![i] = out.ldb] /\ now' = now
    BY DEF Run
  <1>2. dbs \in [Dbs -> LDBs] /\ WellFormed(dbs[i]) /\ now \in Nat
    BY DEF IInv, AllWellFormed
  <1>3. View[i] = ViewOf(dbs[i], now)
    BY DEF View
  <1>4. View' = [j \in Dbs |-> ViewOf(dbs'[j], now')]
    BY DEF View
  <1>5. View' = [View EXCEPT ![i] = ViewOf(out.ldb, now)]
    BY <1>1, <1>2, <1>4 DEF View
  <1>6. QED
    BY <1>1, <1>2, <1>3, <1>5 DEF Promise!s0, Promise!Serve

\* A database the server does not have refuses the request.
LEMMA NotServed ==
  ASSUME NEW op, NEW i, i \notin Dbs, NEW S, NEW arg, NEW out, Run(op, i, S, arg, out)
  PROVE  Promise!Next
  <1>1. dbs' = dbs /\ now' = now
    BY DEF Run
  <1>2. View' = View
    BY <1>1 DEF View
  <1>3. QED
    BY <1>1, <1>2, Shared DEF Run, Promise!NoSuchDb, Promise!Next

\* The commands that skip the clock keep the promise about keys that are not dead.
LEMMA MetNoDeadKey ==
  ASSUME NEW op \in ClocklessOps, NEW i \in Dbs, NEW S, NEW arg, NEW out,
         Run(op, i, S, arg, out), ~MeetsDeadKey(last')
  PROVE  \A k \in S : ~Dead(dbs[i], k, now)
  BY DEF Run, MeetsDeadKey

-----------------------------------------------------------------------------
(* Generic commands.                                                       *)

LEMMA DelKeeps ==
  ASSUME IInv, NEW i \in Dbs, NEW S \in SUBSET Keys, DelCmd(i, S),
         ~MeetsDeadKey(last')
  PROVE  Promise!Next
  <1> DEFINE l == dbs[i]
             out == Del(l, S)
             s == ViewOf(l, now)
  <1>1. /\ last'.db = i /\ last'.keys = S /\ Promise!s0 = s
        /\ Promise!Serve("DEL", ViewOf(out.ldb, now), out.reply)
        /\ WellFormed(l) /\ now \in Nat
    BY Served DEF DelCmd
  <1>2. \A k \in S : ~Dead(l, k, now)
    BY MetNoDeadKey DEF DelCmd, ClocklessOps
  <1>3. {k \in S : Stored(l, k)} = {k \in S : Promise!Present(s, k)}
    BY <1>1, <1>2, NotDead
  <1>4. ViewOf(out.ldb, now) = [k \in Keys |-> IF k \in S THEN Absent ELSE s[k]]
    <2>1. ASSUME NEW k \in Keys
          PROVE  ViewOf(out.ldb, now)[k] = IF k \in S THEN Absent ELSE s[k]
      BY DEF ViewOf, Del, Out, Live, Get, IsExpired
    <2>2. QED
      BY <2>1 DEF ViewOf
  <1>5. Promise!DelPromise
    <2>1. out.reply = Num(Cardinality({k \in S : Promise!Present(s, k)}))
      BY <1>3 DEF Del, Out
    <2>2. {k \in last'.keys : Promise!Present(Promise!s0, k)}
            = {k \in S : Promise!Present(s, k)}
      BY <1>1
    <2>3. [k \in Keys |-> IF k \in last'.keys THEN Absent ELSE Promise!s0[k]]
            = [k \in Keys |-> IF k \in S THEN Absent ELSE s[k]]
      BY <1>1
    <2>4. QED
      BY <1>1, <1>4, <2>1, <2>2, <2>3, Shared DEF Promise!DelPromise
  <1>6. QED
    BY <1>1, <1>5 DEF Promise!Next

\* The object of a key that is not dead moves without its deadline.
LEMMA ViewMove ==
  ASSUME NEW l, WellFormed(l), now \in Nat, NEW src \in Keys, NEW dst \in Keys,
         ~Dead(l, src, now), NEW r
  PROVE  LET s == ViewOf(l, now)
             out == MoveObject(l, src, dst, r)
         IN  /\ Promise!Present(s, src) =>
                  /\ out.reply = r
                  /\ ViewOf(out.ldb, now)
                       = [s EXCEPT ![src] = Absent,
                                   ![dst] = Promise!Entry(s[src].obj, Never)]
             /\ ~Promise!Present(s, src) =>
                  out.reply = Err("NOSUCHKEY") /\ ViewOf(out.ldb, now) = s
  <1> DEFINE s == ViewOf(l, now)
             gone == RemoveKey(l, src)
  <1>0. WellFormed(gone)
    BY RemoveWF
  <1>1. ViewOf(gone, now) = [s EXCEPT ![src] = Absent]
    BY ViewRemove
  <1>2. CASE Stored(l, src)
    <2>1. /\ Promise!Present(s, src) /\ l.data[src] \in Objects
          /\ s[src] = Promise!Entry(l.data[src], l.expiry[src])
      BY <1>2, NotDead, ViewAt
    <2>2. s[src].obj = l.data[src]
      BY <2>1 DEF Promise!Entry
    <2>3. ViewOf(InsertKey(gone, dst, l.data[src]), now)
            = [ViewOf(gone, now) EXCEPT ![dst] = Promise!Entry(l.data[src], Never)]
      <3>1. \A o \in Objects : ViewOf(InsertKey(gone, dst, o), now)
              = [ViewOf(gone, now) EXCEPT ![dst] = Promise!Entry(o, Never)]
        BY <1>0, ViewInsert
      <3>2. QED
        BY <2>1, <3>1
    <2>4. QED
      BY <1>1, <1>2, <2>1, <2>2, <2>3 DEF MoveObject, Out
  <1>3. CASE ~Stored(l, src)
    <2>1. ~Promise!Present(s, src) /\ s[src] = Absent
      BY <1>3, NotDead
    <2>2. [s EXCEPT ![src] = Absent] = s
      BY <2>1 DEF ViewOf
    <2>3. QED
      BY <1>1, <1>3, <2>1, <2>2 DEF MoveObject, Out
  <1>4. QED
    BY <1>2, <1>3

LEMMA RenameKeeps ==
  ASSUME IInv, NEW i \in Dbs, NEW src \in Keys, NEW dst \in Keys,
         RenameCmd(i, src, dst), ~MeetsDeadKey(last')
  PROVE  Promise!Next
  <1> DEFINE l == dbs[i]
             out == MoveObject(l, src, dst, Ok)
             s == ViewOf(l, now)
  <1>1. /\ last' = [op |-> "RENAME", db |-> i, keys |-> {src, dst},
                    arg |-> <<src, dst>>, reply |-> out.reply]
        /\ Promise!s0 = s
        /\ Promise!Serve("RENAME", ViewOf(out.ldb, now), out.reply)
        /\ WellFormed(l) /\ now \in Nat
    BY Served DEF RenameCmd, Rename
  <1>2. ~Dead(l, src, now)
    <2>1. \A k \in {src, dst} : ~Dead(l, k, now)
      BY MetNoDeadKey DEF RenameCmd, ClocklessOps
    <2>2. QED
      BY <2>1
  <1>3. Promise!RenamePromise
    BY <1>1, <1>2, ViewMove, Shared DEF Promise!RenamePromise, Promise!Refuse, Promise!s0
  <1>4. QED
    BY <1>1, <1>3 DEF Promise!Next

LEMMA RenamenxKeeps ==
  ASSUME IInv, NEW i \in Dbs, NEW src \in Keys, NEW dst \in Keys,
         RenamenxCmd(i, src, dst), ~MeetsDeadKey(last')
  PROVE  Promise!Next
  <1> DEFINE l == dbs[i]
             out == Renamenx(l, src, dst, now)
             s == ViewOf(l, now)
  <1>1. /\ last' = [op |-> "RENAMENX", db |-> i, keys |-> {src, dst},
                    arg |-> <<src, dst>>, reply |-> out.reply]
        /\ Promise!s0 = s
        /\ Promise!Serve("RENAMENX", ViewOf(out.ldb, now), out.reply)
        /\ WellFormed(l) /\ now \in Nat
    BY Served DEF RenamenxCmd
  <1>2. ~Dead(l, src, now)
    BY MetNoDeadKey DEF RenamenxCmd, ClocklessOps
  <1>3. CASE Get(l, dst, now) # Absent
    <2>1. Promise!Present(s, dst) /\ out = Out(l, Num(0))
      <3>1. Live(l, dst, now)
        BY <1>3 DEF Live
      <3>2. QED
        BY <1>1, <1>3, <3>1, ViewAt DEF Renamenx, BoolInt
    <2>2. Promise!RenamePromise
      BY <1>1, <2>1, Shared DEF Promise!RenamePromise, Promise!Refuse, Promise!s0, Out
    <2>3. QED
      BY <1>1, <2>2 DEF Promise!Next
  <1>4. CASE Get(l, dst, now) = Absent
    <2>1. ~Promise!Present(s, dst) /\ out = MoveObject(l, src, dst, Num(1))
      <3>1. ~Live(l, dst, now)
        BY <1>4 DEF Live
      <3>2. QED
        BY <1>1, <1>4, <3>1, ViewAt DEF Renamenx, BoolInt
    <2>2. Promise!RenamePromise
      BY <1>1, <1>2, <2>1, ViewMove, Shared DEF Promise!RenamePromise, Promise!Refuse, Promise!s0
    <2>3. QED
      BY <1>1, <2>2 DEF Promise!Next
  <1>5. QED
    BY <1>3, <1>4

\* What is promised of a command that gives k the deadline `at`.
Retimed(l, k, out, at) ==
  LET s == ViewOf(l, now)
  IN  /\ Promise!Present(s, k) =>
           /\ out.reply = Num(1)
           /\ ViewOf(out.ldb, now) = [s EXCEPT ![k] = Promise!Keep(s[k].obj, at)]
      /\ ~Promise!Present(s, k) => out.reply = Num(0) /\ ViewOf(out.ldb, now) = s

\* A deadline that has passed deletes the key ...
LEMMA RetimedByDelete ==
  ASSUME NEW l, WellFormed(l), now \in Nat, NEW k \in Keys, ~Dead(l, k, now),
         NEW at \in Int, at <= now
  PROVE  Retimed(l, k, DeleteNow(l, k), at)
  <1> DEFINE s == ViewOf(l, now)
  <1>1. ViewOf(RemoveKey(l, k), now) = [s EXCEPT ![k] = Absent]
    BY ViewRemove
  <1>2. \A o : Promise!Keep(o, at) = Absent
    BY NeverAssumption DEF Promise!Keep, Promise!Gone
  <1>3. ~Promise!Present(s, k) => [s EXCEPT ![k] = Absent] = s
    BY DEF ViewOf, Promise!Present
  <1>4. Promise!Present(s, k) <=> Stored(l, k)
    BY NotDead
  <1>5. QED
    BY <1>1, <1>2, <1>3, <1>4 DEF Retimed, DeleteNow, Out, BoolInt

\* ... and any other is set.
LEMMA RetimedBySet ==
  ASSUME NEW l, WellFormed(l), now \in Nat, NEW k \in Keys, ~Dead(l, k, now),
         NEW at \in Nat
  PROVE  Retimed(l, k, SetExpiryAt(l, k, at), at)
  <1> DEFINE s == ViewOf(l, now)
             w == [l EXCEPT !.expiry = [@ EXCEPT ![k] = at]]
  <1>1. CASE Stored(l, k)
    <2>1. Promise!Present(s, k) /\ Live(l, k, now) /\ s[k] = Promise!Entry(l.data[k], l.expiry[k])
      BY <1>1, NotDead, ViewAt
    <2>2. s[k].obj = l.data[k]
      BY <2>1 DEF Promise!Entry
    <2>3. ViewOf(w, now) = [s EXCEPT ![k] = Promise!Keep(l.data[k], at)]
      BY <2>1, ViewRetime
    <2>4. SetExpiryAt(l, k, at) = Out(w, Num(1))
      BY <1>1 DEF SetExpiryAt, BoolInt
    <2>5. QED
      BY <2>1, <2>2, <2>3, <2>4 DEF Retimed, Out
  <1>2. CASE ~Stored(l, k)
    <2>1. ~Promise!Present(s, k)
      BY <1>2, NotDead
    <2>2. QED
      BY <1>2, <2>1 DEF Retimed, SetExpiryAt, Out, BoolInt
  <1>3. QED
    BY <1>1, <1>2

LEMMA RetimedAfter ==
  ASSUME NEW l, WellFormed(l), now \in Nat, NEW k \in Keys, ~Dead(l, k, now),
         NEW d \in Int
  PROVE  /\ d < 0 => Retimed(l, k, DeleteNow(l, k), now + d)
         /\ ~(d < 0) => \/ SetExpiry(l, k, d, now).reply = Panic
                        \/ Retimed(l, k, SetExpiry(l, k, d, now), now + d)
  <1>1. CASE d < 0
    BY <1>1, RetimedByDelete
  <1>2. CASE ~(d < 0)
    <2>1. now + d \in Nat
      BY <1>2
    <2>2. Retimed(l, k, SetExpiryAt(l, k, now + d), now + d)
      BY <2>1, RetimedBySet
    <2>3. QED
      BY <1>2, <2>2 DEF SetExpiry, Out
  <1>3. QED
    BY <1>1, <1>2

LEMMA RetimeKept ==
  ASSUME NEW op, NEW l, NEW k, NEW out, NEW at, Retimed(l, k, out, at),
         Promise!s0 = ViewOf(l, now), Promise!Serve(op, ViewOf(out.ldb, now), out.reply)
  PROVE  Promise!Retime(op, k, at)
  BY Shared DEF Retimed, Promise!Retime, Promise!Refuse, Promise!s0

LEMMA ExpireKeeps ==
  ASSUME IInv, NEW i \in Dbs, NEW k \in Keys, NEW n \in Seconds, ExpireCmd(i, k, n),
         ~MeetsDeadKey(last'), ~KnownDeparture(last')
  PROVE  Promise!Next
  <1> DEFINE l == dbs[i]
             out == Expire(l, k, n, now)
  <1>1. /\ last' = [op |-> "EXPIRE", db |-> i, keys |-> {k}, arg |-> n, reply |-> out.reply]
        /\ Promise!s0 = ViewOf(l, now)
        /\ Promise!Serve("EXPIRE", ViewOf(out.ldb, now), out.reply)
        /\ WellFormed(l) /\ now \in Nat
    BY Served DEF ExpireCmd
  <1>2. ~Dead(l, k, now)
    BY MetNoDeadKey DEF ExpireCmd, ClocklessOps
  <1>3. /\ n \in Int /\ n * Sec \in Int /\ (n < 0 <=> n * Sec < 0)
    BY TimesAssumption, SecAssumption
  <1>4. out.reply # Panic
    BY <1>1 DEF KnownDeparture
  <1>5. Retimed(l, k, out, now + n * Sec)
    BY <1>1, <1>2, <1>3, <1>4, RetimedAfter DEF Expire
  <1>6. Promise!TtlPromise(k)
    BY <1>1, <1>5, RetimeKept DEF Promise!TtlPromise
  <1>7. QED
    BY <1>1, <1>6 DEF Promise!KeyPromise, Promise!Next, Promise!IsFor

LEMMA PExpireKeeps ==
  ASSUME IInv, NEW i \in Dbs, NEW k \in Keys, NEW n \in Millis, PExpireCmd(i, k, n),
         ~MeetsDeadKey(last'), ~KnownDeparture(last')
  PROVE  Promise!Next
  <1> DEFINE l == dbs[i]
             out == PExpire(l, k, n, now)
  <1>1. /\ last' = [op |-> "PEXPIRE", db |-> i, keys |-> {k}, arg |-> n, reply |-> out.reply]
        /\ Promise!s0 = ViewOf(l, now)
        /\ Promise!Serve("PEXPIRE", ViewOf(out.ldb, now), out.reply)
        /\ WellFormed(l) /\ now \in Nat
    BY Served DEF PExpireCmd
  <1>2. ~Dead(l, k, now)
    BY MetNoDeadKey DEF PExpireCmd, ClocklessOps
  <1>3. n \in Int
    BY TimesAssumption
  <1>4. out.reply # Panic
    BY <1>1 DEF KnownDeparture
  <1>5. Retimed(l, k, out, now + n)
    BY <1>1, <1>2, <1>3, <1>4, RetimedAfter DEF PExpire
  <1>6. Promise!TtlPromise(k)
    BY <1>1, <1>5, RetimeKept DEF Promise!TtlPromise
  <1>7. QED
    BY <1>1, <1>6 DEF Promise!KeyPromise, Promise!Next, Promise!IsFor

LEMMA PExpireAtKeeps ==
  ASSUME IInv, NEW i \in Dbs, NEW k \in Keys, NEW ts \in Stamps, PExpireAtCmd(i, k, ts),
         ~MeetsDeadKey(last'), ~KnownDeparture(last')
  PROVE  Promise!Next
  <1> DEFINE l == dbs[i]
             out == PExpireAt(l, k, ts, now)
  <1>1. /\ last' = [op |-> "PEXPIREAT", db |-> i, keys |-> {k}, arg |-> ts,
                    reply |-> out.reply]
        /\ Promise!s0 = ViewOf(l, now)
        /\ Promise!Serve("PEXPIREAT", ViewOf(out.ldb, now), out.reply)
        /\ WellFormed(l) /\ now \in Nat
    BY Served DEF PExpireAtCmd
  <1>2. ~Dead(l, k, now)
    BY MetNoDeadKey DEF PExpireAtCmd, ClocklessOps
  <1>3. ts \in Nat /\ AsU64(ts) = ts
    BY <1>1, StampsAssumption DEF KnownDeparture, AsU64
  <1>4. Retimed(l, k, out, ts)
    BY <1>1, <1>2, <1>3, RetimedByDelete, RetimedBySet DEF PExpireAt
  <1>5. Promise!TtlPromise(k)
    BY <1>1, <1>4, RetimeKept DEF Promise!TtlPromise
  <1>6. QED
    BY <1>1, <1>5 DEF Promise!KeyPromise, Promise!Next, Promise!IsFor

LEMMA PersistKeeps ==
  ASSUME IInv, NEW i \in Dbs, NEW k \in Keys, PersistCmd(i, k), ~MeetsDeadKey(last')
  PROVE  Promise!Next
  <1> DEFINE l == dbs[i]
             out == Persist(l, k)
             s == ViewOf(l, now)
  <1>1. /\ last'.db = i /\ last'.keys = {k}
        /\ Promise!s0 = s
        /\ Promise!Serve("PERSIST", ViewOf(out.ldb, now), out.reply)
        /\ WellFormed(l) /\ now \in Nat
    BY Served DEF PersistCmd
  <1>2. ~Dead(l, k, now)
    BY MetNoDeadKey DEF PersistCmd, ClocklessOps
  <1>3. CASE Stored(l, k)
    <2>1. /\ Promise!Present(s, k) /\ Live(l, k, now)
          /\ s[k] = Promise!Entry(l.data[k], l.expiry[k])
      BY <1>1, <1>2, <1>3, NotDead, ViewAt
    <2>2. ViewOf(DropExpiry(l, k), now) = [s EXCEPT ![k] = Promise!Keep(l.data[k], Never)]
      BY <1>1, <2>1, ViewRetime DEF DropExpiry
    <2>3. [s[k] EXCEPT !.at = Never] = Promise!Keep(l.data[k], Never) /\ s[k].at = l.expiry[k]
      BY <2>1 DEF Promise!Keep, Promise!Gone, Promise!Entry
    <2>4. ViewOf(out.ldb, now) = [s EXCEPT ![k].at = Never]
      BY <2>2, <2>3 DEF Persist, Out
    <2>5. out.reply = BoolInt(s[k].at # Never)
      BY <2>3 DEF Persist, Out
    <2>6. Promise!TtlPromise(k)
      BY <1>1, <2>1, <2>4, <2>5, Shared DEF Promise!TtlPromise
    <2>7. QED
      BY <1>1, <2>6 DEF Promise!KeyPromise, Promise!Next, Promise!IsFor
  <1>4. CASE ~Stored(l, k)
    <2>1. ~Promise!Present(s, k) /\ l.expiry[k] = Never
      BY <1>1, <1>2, <1>4, NotDead
    <2>2. DropExpiry(l, k) = l
      BY <1>1, <2>1 DEF DropExpiry, WellFormed, LDBs
    <2>3. ViewOf(out.ldb, now) = s /\ out.reply = Num(0)
      BY <2>1, <2>2 DEF Persist, Out, BoolInt
    <2>4. Promise!TtlPromise(k)
      BY <1>1, <2>1, <2>3, Shared DEF Promise!TtlPromise, Promise!Refuse, Promise!s0
    <2>5. QED
      BY <1>1, <2>4 DEF Promise!KeyPromise, Promise!Next, Promise!IsFor
  <1>5. QED
    BY <1>3, <1>4

LEMMA FlushDbKeeps ==
  ASSUME IInv, NEW i \in Dbs, FlushDbCmd(i)
  PROVE  Promise!Next
  <1>1. /\ last'.db = i
        /\ Promise!Serve("FLUSHDB", ViewOf(FlushDb(dbs[i]).ldb, now), FlushDb(dbs[i]).reply)
    BY Served DEF FlushDbCmd
  <1>2. QED
    BY <1>1, ViewEmpty, Shared DEF FlushDb, Out, Promise!Next

LEMMA FlushAllKeeps ==
  ASSUME NEW i, FlushAllCmd(i)
  PROVE  Promise!Next
  <1>1. View' = [j \in Dbs |-> ViewOf(dbs'[j], now')]
    BY DEF View
  <1>2. View' = [j \in Dbs |-> Promise!Empty]
    BY <1>1, ViewEmpty DEF FlushAllCmd
  <1>3. QED
    BY <1>2, Shared DEF FlushAllCmd, Promise!FlushAllPromise, Promise!Next

-----------------------------------------------------------------------------
(* String commands.                                                        *)

\* GET is what the promise shows.
LEMMA ShownIsGet ==
  ASSUME NEW l, WellFormed(l), now \in Nat, NEW k \in Keys
  PROVE  LET s == ViewOf(l, now)
         IN  /\ Promise!Shown(s, k) = StrGet(l, k, now)
             /\ StrGet(l, k, now) = Nil <=> ~Promise!Present(s, k)
             /\ IsError(StrGet(l, k, now)) <=>
                  Promise!Present(s, k) /\ ~Promise!OfType(s, k, "string")
             /\ IsError(StrGet(l, k, now)) => StrGet(l, k, now) = Err("WRONGTYPE")
  <1> DEFINE s == ViewOf(l, now)
  <1>1. CASE Live(l, k, now)
    <2>1. /\ Promise!Present(s, k) /\ s[k] = Promise!Entry(l.data[k], l.expiry[k])
          /\ Get(l, k, now) = l.data[k] /\ l.data[k] # Absent
      BY <1>1, ViewAt DEF Stored
    <2>2. s[k].obj = l.data[k]
      BY <2>1 DEF Promise!Entry
    <2>3. QED
      BY <2>1, <2>2, Distinct, Shared DEF Promise!Shown, Promise!OfType, StrGet, IsStr
  <1>2. CASE ~Live(l, k, now)
    <2>1. ~Promise!Present(s, k) /\ Get(l, k, now) = Absent
      BY <1>2, ViewAt
    <2>2. QED
      BY <2>1, Distinct, Shared DEF Promise!Shown, Promise!OfType, StrGet
  <1>3. QED
    BY <1>1, <1>2

\* str_set: the new object, with its deadline; SET EXAT of the past leaves nothing.
LEMMA ViewStrSet ==
  ASSUME NEW l, WellFormed(l), now \in Nat, NEW k \in Keys, NEW v \in Seq(Chunks),
         NEW d \in Nat \cup {Never}, StrSet(l, k, v, d, now).reply # Panic
  PROVE  /\ StrSet(l, k, v, d, now).reply = Ok
         /\ ViewOf(StrSet(l, k, v, d, now).ldb, now)
              = [ViewOf(l, now) EXCEPT ![k] = Promise!Keep(Str(v), Promise!Deadline(d))]
  <1> DEFINE w == InsertKey(l, k, Str(v))
             s == ViewOf(l, now)
  <1>1. Str(v) \in Objects /\ WellFormed(w) /\ w.data[k] = Str(v)
    BY StrObject, InsertWF
  <1>2. ViewOf(w, now) = [s EXCEPT ![k] = Promise!Entry(Str(v), Never)]
    BY <1>1, ViewInsert
  <1>3. CASE d = Never
    BY <1>2, <1>3 DEF StrSet, Out, Promise!Keep, Promise!Gone, Promise!Deadline
  <1>4. CASE d # Never
    <2> DEFINE x == [w EXCEPT !.expiry = [@ EXCEPT ![k] = now + d]]
    <2>1. now + d \in Nat
      BY <1>4
    <2>2. Stored(w, k) /\ Live(w, k, now)
      BY <1>1, AbsentAssumption DEF Stored, Live, Get, IsExpired, InsertKey, WellFormed, LDBs
    <2>3. SetExpiryAt(w, k, now + d) = Out(x, Num(1))
      BY <2>2, Distinct DEF SetExpiryAt
    <2>4. SetExpiry(w, k, d, now).reply # Panic
      BY <1>4 DEF StrSet, AndReply
    <2>5. SetExpiry(w, k, d, now) = Out(x, Num(1))
      BY <2>2, <2>3, <2>4 DEF SetExpiry, Out
    <2>6. StrSet(l, k, v, d, now) = Out(x, Ok)
      BY <1>4, <2>5, Distinct DEF StrSet, AndReply, Out
    <2>7. ViewOf(x, now) = [ViewOf(w, now) EXCEPT ![k] = Promise!Keep(w.data[k], now + d)]
      BY <1>1, <2>1, <2>2, ViewRetime
    <2>8. ViewOf(x, now) = [s EXCEPT ![k] = Promise!Keep(Str(v), now + d)]
      BY <1>1, <1>2, <2>7 DEF ViewOf
    <2>9. QED
      BY <1>4, <2>6, <2>8 DEF Out, Promise!Deadline
  <1>5. QED
    BY <1>3, <1>4

LEMMA SetKeeps ==
  ASSUME IInv, NEW i \in Dbs, NEW k \in Keys, NEW v \in Values, NEW o \in SetOptions,
         SetCmd(i, k, v, o), ~KnownDeparture(last')
  PROVE  Promise!Next
  <1> DEFINE l == dbs[i]
             out == ExecSet(l, k, v, o, now)
             s == ViewOf(l, now)
             old == StrGet(l, k, now)
             set == StrSet(l, k, v, o.expire, now)
             new == [s EXCEPT ![k] = Promise!Keep(Str(v), Promise!Deadline(o.expire))]
  <1>0. WellFormed(l) /\ now \in Nat /\ v \in Seq(Chunks)
    BY ValuesAssumption DEF IInv, AllWellFormed
  <1>1. /\ last' = [op |-> "SET", db |-> i, keys |-> {k},
                    arg |-> [val |-> v, opt |-> o], reply |-> out.reply]
        /\ Promise!s0 = s
        /\ Promise!Serve("SET", ViewOf(out.ldb, now), out.reply)
    BY Served DEF SetCmd
  <1>2. /\ ~o.keepttl /\ ~(o.nx /\ o.xx) /\ (o.nx => o.expire = Never)
        /\ o.expire \in Nat \cup {Never} /\ o.nx \in BOOLEAN /\ o.xx \in BOOLEAN
        /\ o.get \in BOOLEAN /\ out.reply # Panic
    BY <1>1, OptionsAssumption DEF KnownDeparture
  <1>3. /\ Promise!Shown(s, k) = old
        /\ Get(l, k, now) # Absent <=> Promise!Present(s, k)
    BY <1>0, ShownIsGet, ViewAt DEF Live
  <1>4. set.reply = Panic \/ (set.reply = Ok /\ ViewOf(set.ldb, now) = new)
    <2>1. \A d \in Nat \cup {Never} : StrSet(l, k, v, d, now).reply # Panic =>
            /\ StrSet(l, k, v, d, now).reply = Ok
            /\ ViewOf(StrSet(l, k, v, d, now).ldb, now)
                 = [s EXCEPT ![k] = Promise!Keep(Str(v), Promise!Deadline(d))]
      BY <1>0, ViewStrSet
    <2>2. QED
      BY <1>2, <2>1
  <1>5. Promise!SetPromise(k)
    <2>1. CASE o.get /\ IsError(old)
      <3>1. out = Out(l, old)
        BY <2>1 DEF ExecSet
      <3>2. QED
        BY <1>1, <1>3, <2>1, <3>1, Shared
           DEF Promise!SetPromise, Promise!Refuse, Promise!s0, Out
    <2>2. CASE /\ ~(o.get /\ IsError(old))
               /\ (o.nx /\ Promise!Present(s, k)) \/ (o.xx /\ ~Promise!Present(s, k))
      <3>1. o.nx /\ Promise!Present(s, k) => out = Out(l, Nil)
        BY <1>3, <2>2, Distinct DEF ExecSet, SetNxThenExpire, StrSetNx, Out
      <3>2. ~o.nx /\ o.xx /\ ~Promise!Present(s, k) => out = Out(l, Nil)
        BY <1>3, <2>2, Distinct DEF ExecSet, StrSetXx, Out
      <3>3. out = Out(l, Nil)
        BY <1>2, <2>2, <3>1, <3>2
      <3>4. QED
        BY <1>1, <1>3, <2>2, <3>3, Shared
           DEF Promise!SetPromise, Promise!Refuse, Promise!s0, Out
    <2>3. CASE /\ ~(o.get /\ IsError(old))
               /\ ~(o.nx /\ Promise!Present(s, k)) /\ ~(o.xx /\ ~Promise!Present(s, k))
      <3>1. o.nx => SetNxThenExpire(l, k, v, o.expire, now) = set
        BY <1>2, <1>3, <2>3, Distinct DEF SetNxThenExpire, StrSetNx, StrSet, Out
      <3>2. ~o.nx /\ o.xx => StrSetXx(l, k, v, o.expire, now) = set
        BY <1>3, <2>3 DEF StrSetXx
      <3>3. out = IF o.get /\ set.reply = Ok THEN Out(set.ldb, old) ELSE set
        BY <2>3, <3>1, <3>2 DEF ExecSet
      <3>4. ViewOf(out.ldb, now) = new /\ out.reply = IF o.get THEN old ELSE Ok
        BY <1>2, <1>4, <3>3, Distinct DEF Out
      <3>5. QED
        BY <1>1, <1>2, <1>3, <2>3, <3>4, Shared DEF Promise!SetPromise
    <2>4. QED
      BY <1>2, <2>1, <2>2, <2>3
  <1>6. QED
    BY <1>1, <1>5 DEF Promise!KeyPromise, Promise!Next, Promise!IsFor

LEMMA SetnxKeeps ==
  ASSUME IInv, NEW i \in Dbs, NEW k \in Keys, NEW v \in Values, SetnxCmd(i, k, v)
  PROVE  Promise!Next
  <1> DEFINE l == dbs[i]
             out == StrSetNx(l, k, v, now)
             s == ViewOf(l, now)
  <1>0. WellFormed(l) /\ now \in Nat /\ Str(v) \in Objects
    BY ValuesAssumption, StrObject DEF IInv, AllWellFormed
  <1>1. /\ last' = [op |-> "SETNX", db |-> i, keys |-> {k}, arg |-> v, reply |-> out.reply]
        /\ Promise!s0 = s
        /\ Promise!Serve("SETNX", ViewOf(out.ldb, now), out.reply)
    BY Served DEF SetnxCmd
  <1>2. Get(l, k, now) # Absent <=> Promise!Present(s, k)
    BY <1>0, ViewAt DEF Live
  <1>3. ViewOf(InsertKey(l, k, Str(v)), now) = [s EXCEPT ![k] = Promise!Entry(Str(v), Never)]
    BY <1>0, ViewInsert
  <1>4. Promise!SetnxPromise(k)
    BY <1>1, <1>2, <1>3, Shared, Distinct
       DEF Promise!SetnxPromise, Promise!Refuse, Promise!s0, StrSetNx, Out
  <1>5. QED
    BY <1>1, <1>4 DEF Promise!KeyPromise, Promise!Next, Promise!IsFor

LEMMA GetSetKeeps ==
  ASSUME IInv, NEW i \in Dbs, NEW k \in Keys, NEW v \in Values, GetSetCmd(i, k, v)
  PROVE  Promise!Next
  <1> DEFINE l == dbs[i]
             out == StrGetSet(l, k, v, now)
             s == ViewOf(l, now)
             old == StrGet(l, k, now)
  <1>0. WellFormed(l) /\ now \in Nat /\ Str(v) \in Objects
    BY ValuesAssumption, StrObject DEF IInv, AllWellFormed
  <1>1. /\ last' = [op |-> "GETSET", db |-> i, keys |-> {k}, arg |-> v, reply |-> out.reply]
        /\ Promise!s0 = s
        /\ Promise!Serve("GETSET", ViewOf(out.ldb, now), out.reply)
    BY Served DEF GetSetCmd
  <1>2. Promise!Shown(s, k) = old
    BY <1>0, ShownIsGet
  <1>3. ViewOf(InsertKey(l, k, Str(v)), now) = [s EXCEPT ![k] = Promise!Entry(Str(v), Never)]
    BY <1>0, ViewInsert
  <1>4. Promise!GetSetPromise(k)
    BY <1>1, <1>2, <1>3, Shared
       DEF Promise!GetSetPromise, Promise!Refuse, Promise!s0, StrGetSet, StrSet, Out
  <1>5. QED
    BY <1>1, <1>4 DEF Promise!KeyPromise, Promise!Next, Promise!IsFor

LEMMA GetDelKeeps ==
  ASSUME IInv, NEW i \in Dbs, NEW k \in Keys, GetDelCmd(i, k),
         ~MeetsDeadKey(last'), ~KnownDeparture(last')
  PROVE  Promise!Next
  <1> DEFINE l == dbs[i]
             out == StrGetDel(l, k)
             s == ViewOf(l, now)
  <1>0. WellFormed(l) /\ now \in Nat
    BY DEF IInv, AllWellFormed
  <1>1. /\ last' = [op |-> "GETDEL", db |-> i, keys |-> {k}, arg |-> {}, reply |-> out.reply]
        /\ Promise!s0 = s
        /\ Promise!Serve("GETDEL", ViewOf(out.ldb, now), out.reply)
    BY Served DEF GetDelCmd
  <1>2. ~Dead(l, k, now)
    BY MetNoDeadKey DEF GetDelCmd, ClocklessOps
  <1>3. out.reply # Err("WRONGTYPE")
    BY <1>1 DEF KnownDeparture
  <1>4. ViewOf(RemoveKey(l, k), now) = [s EXCEPT ![k] = Absent]
    BY <1>0, ViewRemove
  <1>5. out.ldb = RemoveKey(l, k)
    BY <1>3 DEF StrGetDel, Out
  <1>6. out.reply = StrGet(l, k, now)
    <2>1. Stored(l, k) <=> Live(l, k, now)
      BY <1>0, <1>2, NotDead
    <2>2. Get(l, k, now) = l.data[k]
      BY <1>0, <1>2, NotDead DEF Get
    <2>3. QED
      BY <1>3, <2>2 DEF StrGetDel, StrGet, Stored, Out
  <1>7. Promise!Shown(s, k) = out.reply /\ ~IsError(out.reply)
    BY <1>0, <1>3, <1>6, ShownIsGet
  <1>8. Promise!GetDelPromise(k)
    BY <1>1, <1>4, <1>5, <1>7, Shared DEF Promise!GetDelPromise
  <1>9. QED
    BY <1>1, <1>8 DEF Promise!KeyPromise, Promise!Next, Promise!IsFor

\* A lookup with a new deadline: PERSIST drops it, an expiry replaces it.
LEMMA GetExKeeps ==
  ASSUME IInv, NEW i \in Dbs, NEW k \in Keys, NEW p \in BOOLEAN,
         NEW ms \in GetExTimes, GetExCmd(i, k, p, ms), ~KnownDeparture(last')
  PROVE  Promise!Next
  <1> DEFINE l == dbs[i]
             out == ExecGetEx(l, k, p, ms, now)
             s == ViewOf(l, now)
             old == StrGet(l, k, now)
  <1>0. WellFormed(l) /\ now \in Nat /\ ms \in Int \cup {Never}
    BY GetExTimesType DEF IInv, AllWellFormed
  <1>1. /\ last' = [op |-> "GETEX", db |-> i, keys |-> {k}, arg |-> <<p, ms>>,
                    reply |-> out.reply]
        /\ Promise!s0 = s
        /\ Promise!Serve("GETEX", ViewOf(out.ldb, now), out.reply)
    BY Served DEF GetExCmd
  <1>2. out.reply # Panic /\ (ms # Never => AsI64(ms) = ms)
    BY <1>1 DEF KnownDeparture
  <1>3. /\ Promise!Shown(s, k) = old
        /\ old = Nil <=> ~Promise!Present(s, k)
        /\ IsError(old) <=> Promise!Present(s, k) /\ ~Promise!OfType(s, k, "string")
    BY <1>0, ShownIsGet
  <1>4. CASE ~Promise!OfType(s, k, "string")
    <2>1. out = Out(l, old)
      BY <1>3, <1>4 DEF ExecGetEx
    <2>2. Promise!GetExPromise(k)
      BY <1>1, <1>3, <1>4, <2>1
         DEF Promise!GetExPromise, Promise!Refuse, Promise!s0, Out
    <2>3. QED
      BY <1>1, <2>2 DEF Promise!KeyPromise, Promise!Next, Promise!IsFor
  <1>5. CASE Promise!OfType(s, k, "string")
    <2> DEFINE at == IF p THEN Never ELSE IF ms = Never THEN s[k].at ELSE now + ms
               retime == IF p THEN Persist(l, k)
                         ELSE IF ms = Never THEN Out(l, Nil) ELSE PExpire(l, k, ms, now)
    <2>1. Promise!Present(s, k) /\ old # Nil /\ ~IsError(old)
      BY <1>3, <1>5 DEF Promise!OfType
    <2>2. /\ Live(l, k, now) /\ s[k] = Promise!Entry(l.data[k], l.expiry[k])
          /\ ~IsExpired(l, k, now) /\ ~Dead(l, k, now)
      BY <1>0, <2>1, ViewAt DEF Live, Get, Dead
    <2>3. s[k].obj = l.data[k] /\ s[k].at = l.expiry[k]
      BY <2>2 DEF Promise!Entry
    <2>4. out = AndReply(retime, old)
      BY <1>2, <2>1 DEF ExecGetEx
    <2>5. retime.reply # Panic
      BY <1>2, <2>4 DEF AndReply
    <2>6. out.ldb = retime.ldb /\ out.reply = old
      BY <2>4, <2>5 DEF AndReply, Out
    <2>7. ViewOf(retime.ldb, now) = [s EXCEPT ![k] = Promise!Keep(s[k].obj, at)]
      <3>1. CASE p
        <4>1. ViewOf(DropExpiry(l, k), now) = [s EXCEPT ![k] = Promise!Keep(l.data[k], Never)]
          BY <1>0, <2>2, ViewRetime DEF DropExpiry
        <4>2. QED
          BY <2>3, <3>1, <4>1 DEF Persist, Out
      <3>2. CASE ~p /\ ms = Never
        <4>1. Promise!Keep(s[k].obj, s[k].at) = s[k]
          BY <1>0, <2>2, <2>3 DEF Promise!Keep, Promise!Gone, IsExpired, WellFormed, LDBs
        <4>2. [s EXCEPT ![k] = s[k]] = s
          BY DEF ViewOf
        <4>3. QED
          BY <3>2, <4>1, <4>2 DEF Out
      <3>3. CASE ~p /\ ms # Never
        <4>1. ms \in Int
          BY <1>0, <3>3
        <4>2. Retimed(l, k, PExpire(l, k, ms, now), now + ms)
          BY <1>0, <2>2, <2>5, <3>3, <4>1, RetimedAfter DEF PExpire
        <4>3. QED
          BY <2>1, <3>3, <4>2 DEF Retimed
      <3>4. QED
        BY <3>1, <3>2, <3>3
    <2>8. Promise!GetExPromise(k)
      BY <1>1, <1>3, <1>5, <2>6, <2>7 DEF Promise!GetExPromise
    <2>9. QED
      BY <1>1, <2>8 DEF Promise!KeyPromise, Promise!Next, Promise!IsFor
  <1>6. QED
    BY <1>4, <1>5

LEMMA MSetKeeps ==
  ASSUME IInv, NEW i \in Dbs, NEW kv \in KeyValues, MSetCmd(i, kv) \/ MSetNxCmd(i, kv)
  PROVE  Promise!Next
  <1> DEFINE l == dbs[i]
             s == ViewOf(l, now)
             w == MSet(l, kv).ldb
             new == [k \in Keys |-> IF k \in DOMAIN kv
                                    THEN Promise!Entry(Str(kv[k]), Never) ELSE s[k]]
  <1>0. WellFormed(l) /\ now \in Nat
    BY DEF IInv, AllWellFormed
  <1>1. PICK S \in SUBSET Keys : kv \in [S -> Seq(Chunks)]
    BY ValuesAssumption DEF KeyValues
  <1>2. \A k \in S : Str(kv[k]) # Absent
    BY <1>1, StrObject, AbsentAssumption
  <1>3. ViewOf(w, now) = new
    <2>1. ASSUME NEW k \in Keys
          PROVE  ViewOf(w, now)[k] = new[k]
      BY <1>1, <1>2 DEF ViewOf, MSet, Out, Live, Get, IsExpired, Promise!Entry
    <2>2. QED
      BY <2>1 DEF ViewOf
  <1>4. \A k \in Keys : Get(l, k, now) # Absent <=> Promise!Present(s, k)
    BY <1>0, ViewAt DEF Live
  <1>5. CASE MSetCmd(i, kv)
    <2>1. /\ last' = [op |-> "MSET", db |-> i, keys |-> DOMAIN kv, arg |-> kv,
                      reply |-> Ok]
          /\ Promise!s0 = s /\ Promise!Serve("MSET", ViewOf(w, now), Ok)
      BY <1>5, Served DEF MSetCmd, MSet, Out
    <2>2. Promise!MSetPromise
      BY <1>3, <2>1, Shared DEF Promise!MSetPromise
    <2>3. QED
      BY <2>1, <2>2 DEF Promise!Next
  <1>6. CASE MSetNxCmd(i, kv)
    <2> DEFINE out == MSetNx(l, kv, now)
    <2>1. /\ last' = [op |-> "MSETNX", db |-> i, keys |-> DOMAIN kv, arg |-> kv,
                      reply |-> out.reply]
          /\ Promise!s0 = s /\ Promise!Serve("MSETNX", ViewOf(out.ldb, now), out.reply)
      BY <1>6, Served DEF MSetNxCmd
    <2>2. out = IF \E k \in DOMAIN kv : Promise!Present(s, k) THEN Out(l, Num(0))
                ELSE Out(w, Num(1))
      BY <1>1, <1>4, Distinct DEF MSetNx, MSet, AndReply, Out
    <2>3. Promise!MSetPromise
      BY <1>3, <2>1, <2>2, Shared DEF Promise!MSetPromise, Promise!Refuse, Promise!s0, Out
    <2>4. QED
      BY <2>1, <2>3 DEF Promise!Next
  <1>7. QED
    BY <1>5, <1>6

-----------------------------------------------------------------------------
(* Updates in place.                                                       *)

\* What the entry API yields is what the promise updates.
LEMMA EntrySeen ==
  ASSUME NEW l, WellFormed(l), now \in Nat, NEW k \in Keys, ~Dead(l, k, now),
         NEW d \in Objects, NEW type, d.type = type, Promise!s0 = ViewOf(l, now)
  PROVE  LET e == EntryOr(l, k, d)
         IN  /\ e.data[k].type = type <=> ~Promise!WrongType(k, type)
             /\ e.data[k].val = Promise!ValueOr(k, d.val)
             /\ e.data[k] \in Objects
             /\ Promise!WrongType(k, type) => e = l
  <1> DEFINE e == EntryOr(l, k, d)
             s == ViewOf(l, now)
  <1>1. /\ e.data[k] = IF Promise!Present(s, k) THEN s[k].obj ELSE d
        /\ Promise!Present(s, k) => e = l /\ s[k].obj \in Objects
    BY ViewUpdate
  <1>2. QED
    BY <1>1 DEF Promise!WrongType, Promise!OfType, Promise!ValueOr

LEMMA UpdateKept ==
  ASSUME NEW l, WellFormed(l), now \in Nat, NEW k \in Keys, ~Dead(l, k, now),
         NEW d \in Objects, NEW o \in Objects, NEW op, NEW r,
         Promise!s0 = ViewOf(l, now),
         Promise!Serve(op, ViewOf(Write(EntryOr(l, k, d), k, o), now), r)
  PROVE  Promise!Update(op, k, o, r)
  <1> DEFINE s == ViewOf(l, now)
  <1>1. ViewOf(Write(EntryOr(l, k, d), k, o), now)
          = [s EXCEPT ![k] =
               Promise!Entry(o, IF Promise!Present(s, k) THEN s[k].at ELSE Never)]
    BY ViewUpdate
  <1>2. QED
    BY <1>1 DEF Promise!Update

LEMMA AppendKeeps ==
  ASSUME IInv, NEW i \in Dbs, NEW k \in Keys, NEW v \in TextValues, AppendCmd(i, k, v),
         ~MeetsDeadKey(last')
  PROVE  Promise!Next
  <1> DEFINE l == dbs[i]
             out == StrAppend(l, k, v)
             d == Str(<<>>)
             e == EntryOr(l, k, d)
             w == e.data[k].val \o v
  <1>0. WellFormed(l) /\ now \in Nat /\ v \in Seq(Chunks)
    BY ValuesAssumption DEF IInv, AllWellFormed, TextValues
  <1>1. /\ last' = [op |-> "APPEND", db |-> i, keys |-> {k}, arg |-> v, reply |-> out.reply]
        /\ Promise!s0 = ViewOf(l, now)
        /\ Promise!Serve("APPEND", ViewOf(out.ldb, now), out.reply)
    BY Served DEF AppendCmd
  <1>2. ~Dead(l, k, now)
    BY MetNoDeadKey DEF AppendCmd, ClocklessOps
  <1>3. d \in Objects /\ d.type = "string" /\ d.val = <<>>
    BY Defaults DEF Str
  <1>4. /\ IsStr(e.data[k]) <=> ~Promise!WrongType(k, "string")
        /\ e.data[k].val = Promise!ValueOr(k, <<>>)
        /\ e.data[k] \in Objects
        /\ Promise!WrongType(k, "string") => e = l
    BY <1>0, <1>1, <1>2, <1>3, EntrySeen DEF IsStr
  <1>5. CASE IsStr(e.data[k])
    <2>1. Str(w) \in Objects
      <3>1. e.data[k].val \in Seq(Chunks)
        BY <1>4, <1>5, SeqObject DEF IsStr
      <3>2. w \in Seq(Chunks)
        BY <1>0, <3>1
      <3>3. QED
        BY <3>2, StrObject
    <2>2. Promise!Serve("APPEND", ViewOf(Write(e, k, Str(w)), now), Num(Len(w)))
      BY <1>1, <1>5 DEF StrAppend, Out
    <2>3. Promise!Update("APPEND", k, Str(w), Num(Len(w)))
      BY <1>0, <1>1, <1>2, <1>3, <2>1, <2>2, UpdateKept
    <2>4. Promise!AppendPromise(k)
      BY <1>1, <1>4, <1>5, <2>3, Shared DEF Promise!AppendPromise
    <2>5. QED
      BY <1>1, <2>4 DEF Promise!KeyPromise, Promise!Next, Promise!IsFor
  <1>6. CASE ~IsStr(e.data[k])
    <2>1. Promise!AppendPromise(k)
      BY <1>1, <1>4, <1>6, Shared
         DEF Promise!AppendPromise, Promise!Refuse, Promise!s0, StrAppend, Out
    <2>2. QED
      BY <1>1, <2>1 DEF Promise!KeyPromise, Promise!Next, Promise!IsFor
  <1>7. QED
    BY <1>5, <1>6

LEMMA RPushKeeps ==
  ASSUME IInv, NEW i \in Dbs, NEW k \in Keys, NEW v \in Values, RPushCmd(i, k, v),
         ~MeetsDeadKey(last')
  PROVE  Promise!Next
  <1> DEFINE l == dbs[i]
             out == RPush(l, k, v)
             d == ListObj(<<>>)
             e == EntryOr(l, k, d)
             w == e.data[k].val \o v
  <1>0. WellFormed(l) /\ now \in Nat /\ v \in Seq(Chunks)
    BY ValuesAssumption DEF IInv, AllWellFormed
  <1>1. /\ last' = [op |-> "RPUSH", db |-> i, keys |-> {k}, arg |-> v, reply |-> out.reply]
        /\ Promise!s0 = ViewOf(l, now)
        /\ Promise!Serve("RPUSH", ViewOf(out.ldb, now), out.reply)
    BY Served DEF RPushCmd
  <1>2. ~Dead(l, k, now)
    BY MetNoDeadKey DEF RPushCmd, ClocklessOps
  <1>3. d \in Objects /\ d.type = "list" /\ d.val = <<>>
    BY Defaults DEF ListObj
  <1>4. /\ IsList(e.data[k]) <=> ~Promise!WrongType(k, "list")
        /\ e.data[k].val = Promise!ValueOr(k, <<>>)
        /\ e.data[k] \in Objects
        /\ Promise!WrongType(k, "list") => e = l
    BY <1>0, <1>1, <1>2, <1>3, EntrySeen DEF IsList
  <1>5. CASE IsList(e.data[k])
    <2>1. ListObj(w) \in Objects
      <3>1. e.data[k].val \in Seq(Chunks)
        BY <1>4, <1>5, SeqObject DEF IsList
      <3>2. w \in Seq(Chunks)
        BY <1>0, <3>1
      <3>3. QED
        BY <3>2, StrObject
    <2>2. Promise!Serve("RPUSH", ViewOf(Write(e, k, ListObj(w)), now), Num(Len(w)))
      BY <1>1, <1>5 DEF RPush, Out
    <2>3. Promise!Update("RPUSH", k, ListObj(w), Num(Len(w)))
      BY <1>0, <1>1, <1>2, <1>3, <2>1, <2>2, UpdateKept
    <2>4. Promise!PushPromise(k)
      BY <1>1, <1>4, <1>5, <2>3, Shared DEF Promise!PushPromise
    <2>5. QED
      BY <1>1, <2>4 DEF Promise!KeyPromise, Promise!Next, Promise!IsFor
  <1>6. CASE ~IsList(e.data[k])
    <2>1. Promise!PushPromise(k)
      BY <1>1, <1>4, <1>6, Shared
         DEF Promise!PushPromise, Promise!Refuse, Promise!s0, RPush, Out
    <2>2. QED
      BY <1>1, <2>1 DEF Promise!KeyPromise, Promise!Next, Promise!IsFor
  <1>7. QED
    BY <1>5, <1>6

\* The counters: what the promise says of n and what StrIncr does about it.
LEMMA CountKeeps ==
  ASSUME NEW l, WellFormed(l), now \in Nat, NEW k \in Keys, ~Dead(l, k, now),
         NEW n \in Numbers, NEW op \in {"INCRBY", "DECRBY"},
         Promise!s0 = ViewOf(l, now), last'.db \in Dbs,
         Promise!Serve(op, ViewOf(StrIncr(l, k, n).ldb, now), StrIncr(l, k, n).reply)
  PROVE  Promise!CountPromise(op, k, n, Promise!Num)
  <1> DEFINE out == StrIncr(l, k, n)
             d == Str(<<0>>)
             e == EntryOr(l, k, d)
             v == Promise!ValueOr(k, <<0>>)
             sum == v[1] + n
  <1>1. d \in Objects /\ d.type = "string" /\ d.val = <<0>>
    BY Defaults DEF Str
  <1>2. /\ IsStr(e.data[k]) <=> ~Promise!WrongType(k, "string")
        /\ e.data[k].val = v
        /\ Promise!WrongType(k, "string") => e = l
    BY <1>1, EntrySeen DEF IsStr
  <1>3. n # Inf
    BY InfAssumption, IntAssumption DEF Numbers
  <1>4. ~Stored(l, k) => IsStr(e.data[k]) /\ IsNumeral(v) /\ sum = n
    <2>1. ~Stored(l, k) => e.data[k] = d
      BY DEF EntryOr, Write, WellFormed, LDBs
    <2>2. IsNumeral(<<0>>)
      BY IntAssumption DEF IsNumeral, Numbers
    <2>3. 0 + n = n
      BY IntAssumption DEF Numbers
    <2>4. QED
      BY <1>1, <1>2, <2>1, <2>2, <2>3 DEF IsStr
  <1>5. Stored(l, k) => e = l
    BY DEF EntryOr
  <1>6. CASE ~IsStr(e.data[k])
    <2>1. out = Out(l, Err("WRONGTYPE"))
      BY <1>2, <1>6 DEF StrIncr
    <2>2. QED
      BY <1>2, <1>6, <2>1, Shared
         DEF Promise!CountPromise, Promise!Refuse, Promise!s0, Out
  <1>7. CASE IsStr(e.data[k]) /\ ~IsNumeral(v)
    <2>1. out = Out(l, Err("NOTINT"))
      BY <1>2, <1>4, <1>5, <1>7 DEF StrIncr
    <2>2. QED
      BY <1>2, <1>7, <2>1, Shared
         DEF Promise!CountPromise, Promise!Refuse, Promise!s0, Out
  <1>8. CASE IsStr(e.data[k]) /\ IsNumeral(v) /\ sum \notin Numbers
    <2>1. out = Out(l, Err("OVERFLOW"))
      BY <1>2, <1>4, <1>5, <1>8 DEF StrIncr
    <2>2. QED
      BY <1>2, <1>3, <1>8, <2>1, Shared
         DEF Promise!CountPromise, Promise!Refuse, Promise!s0, Out
  <1>9. CASE IsStr(e.data[k]) /\ IsNumeral(v) /\ sum \in Numbers
    <2>1. out = Out(Write(e, k, Str(<<sum>>)), Num(sum))
      BY <1>2, <1>9 DEF StrIncr
    <2>2. Str(<<sum>>) \in Objects
      <3>1. <<sum>> \in Seq(Chunks)
        BY <1>9 DEF Chunks
      <3>2. QED
        BY <3>1, StrObject
    <2>3. Promise!Update(op, k, Str(<<sum>>), Num(sum))
      BY <1>1, <2>1, <2>2, UpdateKept DEF Out
    <2>4. QED
      BY <1>2, <1>3, <1>9, <2>3, Shared DEF Promise!CountPromise
  <1>10. QED
    BY <1>6, <1>7, <1>8, <1>9

LEMMA IncrByKeeps ==
  ASSUME IInv, NEW i \in Dbs, NEW k \in Keys, NEW n \in Deltas, IncrByCmd(i, k, n),
         ~MeetsDeadKey(last')
  PROVE  Promise!Next
  <1> DEFINE l == dbs[i]
             out == StrIncr(l, k, n)
  <1>0. WellFormed(l) /\ now \in Nat /\ n \in Numbers
    BY TimesAssumption DEF IInv, AllWellFormed
  <1>1. /\ last' = [op |-> "INCRBY", db |-> i, keys |-> {k}, arg |-> n, reply |-> out.reply]
        /\ Promise!s0 = ViewOf(l, now)
        /\ Promise!Serve("INCRBY", ViewOf(out.ldb, now), out.reply)
    BY Served DEF IncrByCmd
  <1>2. ~Dead(l, k, now)
    BY MetNoDeadKey DEF IncrByCmd, ClocklessOps
  <1>3. Promise!CountPromise("INCRBY", k, n, Promise!Num)
    BY <1>0, <1>1, <1>2, CountKeeps
  <1>4. Promise!CounterPromise(k)
    BY <1>1, <1>3 DEF Promise!CounterPromise
  <1>5. QED
    BY <1>1, <1>4 DEF Promise!KeyPromise, Promise!Next, Promise!IsFor

\* DECRBY of the smallest number is a known departure; every other number has a
\* negation.
LEMMA DecrByKeeps ==
  ASSUME IInv, NEW i \in Dbs, NEW k \in Keys, NEW n \in Deltas, DecrByCmd(i, k, n),
         ~MeetsDeadKey(last'), ~KnownDeparture(last')
  PROVE  Promise!Next
  <1> DEFINE l == dbs[i]
             out == StrIncr(l, k, -n)
  <1>0. WellFormed(l) /\ now \in Nat /\ n \in Numbers
    BY TimesAssumption DEF IInv, AllWellFormed
  <1>1. n # IntMin
    <2>1. last'.op = "DECRBY" /\ last'.arg = n
      BY DEF DecrByCmd, Run
    <2>2. QED
      BY <2>1 DEF KnownDeparture
  <1>2. Negated(n) = -n /\ -n \in Numbers
    BY <1>0, <1>1, IntAssumption DEF Negated, Numbers
  <1>3. Run("DECRBY", i, {k}, n, out)
    BY <1>1, <1>2 DEF DecrByCmd
  <1>4. /\ last' = [op |-> "DECRBY", db |-> i, keys |-> {k}, arg |-> n, reply |-> out.reply]
        /\ Promise!s0 = ViewOf(l, now)
        /\ Promise!Serve("DECRBY", ViewOf(out.ldb, now), out.reply)
    BY <1>3, Served
  <1>5. ~Dead(l, k, now)
    BY <1>3, MetNoDeadKey DEF ClocklessOps
  <1>6. Promise!CountPromise("DECRBY", k, -n, Promise!Num)
    BY <1>0, <1>2, <1>4, <1>5, CountKeeps
  <1>7. Promise!CounterPromise(k)
    BY <1>4, <1>6 DEF Promise!CounterPromise
  <1>8. QED
    BY <1>4, <1>7 DEF Promise!KeyPromise, Promise!Next, Promise!IsFor

LEMMA IncrByFloatKeeps ==
  ASSUME IInv, NEW i \in Dbs, NEW k \in Keys, NEW n \in Deltas \cup {Inf},
         IncrByFloatCmd(i, k, n), ~MeetsDeadKey(last'), ~KnownDeparture(last')
  PROVE  Promise!Next
  <1> DEFINE l == dbs[i]
             out == StrIncrFloat(l, k, n)
             d == Str(<<0>>)
             e == EntryOr(l, k, d)
             v == Promise!ValueOr(k, <<0>>)
             sum == v[1] + n
  <1>0. WellFormed(l) /\ now \in Nat
    BY DEF IInv, AllWellFormed
  <1>1. /\ last' = [op |-> "INCRBYFLOAT", db |-> i, keys |-> {k}, arg |-> n,
                    reply |-> out.reply]
        /\ Promise!s0 = ViewOf(l, now)
        /\ Promise!Serve("INCRBYFLOAT", ViewOf(out.ldb, now), out.reply)
    BY Served DEF IncrByFloatCmd
  <1>2. ~Dead(l, k, now)
    BY MetNoDeadKey DEF IncrByFloatCmd, ClocklessOps
  <1>3. n # Inf /\ n \in Numbers
    BY <1>1, TimesAssumption DEF KnownDeparture
  <1>4. d \in Objects /\ d.type = "string" /\ d.val = <<0>>
    BY Defaults DEF Str
  <1>5. /\ IsStr(e.data[k]) <=> ~Promise!WrongType(k, "string")
        /\ e.data[k].val = v
        /\ Promise!WrongType(k, "string") => e = l
    BY <1>0, <1>1, <1>2, <1>4, EntrySeen DEF IsStr
  <1>6. Stored(l, k) => e = l
    BY DEF EntryOr
  <1>7. ~Stored(l, k) => IsStr(e.data[k]) /\ IsNumeral(v) /\ sum = n
    <2>1. ~Stored(l, k) => e.data[k] = d
      BY <1>0 DEF EntryOr, Write, WellFormed, LDBs
    <2>2. IsNumeral(<<0>>) /\ 0 + n = n
      BY <1>3, IntAssumption DEF IsNumeral, Numbers
    <2>3. QED
      BY <1>4, <1>5, <2>1, <2>2 DEF IsStr
  <1>8. IsStr(e.data[k]) /\ IsNumeral(v) => sum \in Numbers
    BY <1>3, <1>5, <1>6, <1>7 DEF IncrByFloatCmd, FloatFits
  <1>9. Promise!CountPromise("INCRBYFLOAT", k, n, Promise!Digits)
    <2>1. CASE ~IsStr(e.data[k])
      <3>1. out = Out(l, Err("WRONGTYPE"))
        BY <1>5, <2>1 DEF StrIncrFloat
      <3>2. QED
        BY <1>1, <1>5, <2>1, <3>1, Shared
           DEF Promise!CountPromise, Promise!Refuse, Promise!s0, Out
    <2>2. CASE IsStr(e.data[k]) /\ ~IsNumeral(v)
      <3>1. out = Out(l, Err("NOTFLOAT"))
        BY <1>5, <1>6, <1>7, <2>2 DEF StrIncrFloat
      <3>2. QED
        BY <1>1, <1>5, <2>2, <3>1, Shared
           DEF Promise!CountPromise, Promise!Refuse, Promise!s0, Out
    <2>3. CASE IsStr(e.data[k]) /\ IsNumeral(v)
      <3>1. out = Out(Write(e, k, Str(<<sum>>)), Bulk(<<sum>>))
        BY <1>3, <1>5, <2>3 DEF StrIncrFloat
      <3>2. Str(<<sum>>) \in Objects
        <4>1. <<sum>> \in Seq(Chunks)
          BY <1>8, <2>3 DEF Chunks
        <4>2. QED
          BY <4>1, StrObject
      <3>3. Promise!Update("INCRBYFLOAT", k, Str(<<sum>>), Bulk(<<sum>>))
        BY <1>0, <1>1, <1>2, <1>4, <3>1, <3>2, UpdateKept DEF Out
      <3>4. QED
        BY <1>3, <1>5, <1>8, <2>3, <3>3, Shared DEF Promise!CountPromise, Promise!Digits
    <2>4. QED
      BY <2>1, <2>2, <2>3
  <1>10. Promise!CounterPromise(k)
    BY <1>1, <1>9 DEF Promise!CounterPromise
  <1>11. QED
    BY <1>1, <1>10 DEF Promise!KeyPromise, Promise!Next, Promise!IsFor

\* rpushx consults the clock: an expired list is as good as none.
LEMMA RPushXKeeps ==
  ASSUME IInv, NEW i \in Dbs, NEW k \in Keys, NEW v \in Values, RPushXCmd(i, k, v)
  PROVE  Promise!Next
  <1> DEFINE l == dbs[i]
             out == RPushX(l, k, v, now)
             e == GetMut(l, k, now)
             s == ViewOf(l, now)
             w == l.data[k].val \o v
  <1>0. WellFormed(l) /\ now \in Nat /\ v \in Seq(Chunks)
    BY ValuesAssumption DEF IInv, AllWellFormed
  <1>1. /\ last' = [op |-> "RPUSHX", db |-> i, keys |-> {k}, arg |-> v, reply |-> out.reply]
        /\ Promise!s0 = s
        /\ Promise!Serve("RPUSHX", ViewOf(out.ldb, now), out.reply)
    BY Served DEF RPushXCmd
  <1>2. Promise!PushPromise(k)
    <2>1. CASE ~Live(l, k, now)
      <3>1. ~Promise!Present(s, k)
        BY <1>0, <2>1, ViewAt
      <3>2. ~Stored(e, k)
        BY <1>0, <2>1 DEF GetMut, RemoveKey, Stored, Live, Get, WellFormed, LDBs
      <3>3. out = Out(e, Num(0))
        BY <3>2 DEF RPushX
      <3>4. ViewOf(e, now) = s
        BY <1>0, ViewGetMut
      <3>5. QED
        BY <1>1, <3>1, <3>3, <3>4, Shared
           DEF Promise!PushPromise, Promise!Refuse, Promise!s0, Out
    <2>2. CASE Live(l, k, now)
      <3>1. /\ Promise!Present(s, k) /\ s[k] = Promise!Entry(l.data[k], l.expiry[k])
            /\ Stored(l, k) /\ l.data[k] \in Objects
        BY <1>0, <2>2, ViewAt
      <3>2. s[k].obj = l.data[k]
        BY <3>1 DEF Promise!Entry
      <3>3. e = l /\ ~Dead(l, k, now)
        BY <2>2 DEF GetMut, Dead, Live, Get
      <3>4. IsList(l.data[k]) <=> Promise!OfType(s, k, "list")
        BY <3>1, <3>2 DEF IsList, Promise!OfType
      <3>5. CASE ~IsList(l.data[k])
        <4>1. out = Out(l, Err("WRONGTYPE"))
          BY <3>1, <3>3, <3>5 DEF RPushX
        <4>2. QED
          BY <1>1, <3>1, <3>4, <3>5, <4>1, Shared
             DEF Promise!PushPromise, Promise!WrongType, Promise!Refuse, Promise!s0, Out
      <3>6. CASE IsList(l.data[k])
        <4>1. out = Out(Write(l, k, ListObj(w)), Num(Len(w)))
          BY <3>1, <3>3, <3>6 DEF RPushX
        <4>2. ListObj(w) \in Objects
          <5>1. l.data[k].val \in Seq(Chunks)
            BY <3>1, <3>6, SeqObject DEF IsList
          <5>2. w \in Seq(Chunks)
            BY <1>0, <5>1
          <5>3. QED
            BY <5>2, StrObject
        <4>3. EntryOr(l, k, ListObj(w)) = l
          BY <3>1 DEF EntryOr
        <4>4. Promise!Serve("RPUSHX", ViewOf(Write(l, k, ListObj(w)), now), Num(Len(w)))
          BY <1>1, <4>1 DEF Out
        <4>5. Promise!Update("RPUSHX", k, ListObj(w), Num(Len(w)))
          BY <1>0, <1>1, <3>3, <4>2, <4>3, <4>4, UpdateKept
        <4>6. Promise!ValueOr(k, <<>>) = l.data[k].val
          BY <1>1, <3>1, <3>2 DEF Promise!ValueOr
        <4>7. QED
          BY <1>1, <3>4, <3>6, <4>5, <4>6, Shared DEF Promise!PushPromise
      <3>7. QED
        BY <3>5, <3>6
    <2>3. QED
      BY <2>1, <2>2
  <1>3. QED
    BY <1>1, <1>2 DEF Promise!KeyPromise, Promise!Next, Promise!IsFor

LEMMA LPopKeeps ==
  ASSUME IInv, NEW i \in Dbs, NEW k \in Keys, NEW n \in PopCounts, LPopCmd(i, k, n),
         ~MeetsDeadKey(last'), ~KnownDeparture(last')
  PROVE  Promise!Next
  <1> DEFINE l == dbs[i]
             out == LPop(l, k, n)
             s == ViewOf(l, now)
             old == l.data[k].val
             m == IF n < Len(old) THEN n ELSE Len(old)
             rest == SubSeq(old, m + 1, Len(old))
             taken == SubSeq(old, 1, m)
             reply == IF m = 0 THEN Nil ELSE Bulk(taken)
  <1>0. WellFormed(l) /\ now \in Nat /\ n \in Nat
    BY BoundAssumption, ReserveAssumption DEF IInv, AllWellFormed, PopCounts
  <1>1. /\ last' = [op |-> "LPOP", db |-> i, keys |-> {k}, arg |-> n, reply |-> out.reply]
        /\ Promise!s0 = s
        /\ Promise!Serve("LPOP", ViewOf(out.ldb, now), out.reply)
    BY Served DEF LPopCmd
  <1>2. ~Dead(l, k, now)
    BY MetNoDeadKey DEF LPopCmd, ClocklessOps
  <1>3. Promise!PopPromise(k)
    <2>1. CASE ~Stored(l, k)
      <3>1. ~Promise!Present(s, k) /\ out = Out(l, Nil)
        BY <1>0, <1>2, <2>1, NotDead DEF LPop
      <3>2. Promise!Refuse("LPOP", Promise!Nil)
        BY <1>1, <3>1, Shared DEF Promise!Refuse, Promise!s0, Out
      <3>3. QED
        BY <1>1, <3>1, <3>2 DEF Promise!PopPromise
    <2>2. CASE Stored(l, k)
      <3>1. /\ Promise!Present(s, k) /\ s[k] = Promise!Entry(l.data[k], l.expiry[k])
            /\ l.data[k] \in Objects
        BY <1>0, <1>2, <2>2, NotDead, ViewAt
      <3>2. s[k].obj = l.data[k]
        BY <3>1 DEF Promise!Entry
      <3>3. IsList(l.data[k]) <=> Promise!OfType(s, k, "list")
        BY <3>1, <3>2 DEF IsList, Promise!OfType
      <3>4. CASE ~IsList(l.data[k])
        <4>1. out = Out(l, Err("WRONGTYPE"))
          BY <2>2, <3>4 DEF LPop
        <4>2. QED
          BY <1>1, <3>1, <3>3, <3>4, <4>1, Shared
             DEF Promise!PopPromise, Promise!WrongType, Promise!Refuse, Promise!s0, Out
      <3>5. CASE IsList(l.data[k])
        <4>1. ~(n > ReserveMax)
          BY <1>1, <2>2, <3>5 DEF LPop, Out, KnownDeparture
        <4>2. old \in Seq(Chunks)
          BY <3>1, <3>5, SeqObject DEF IsList
        <4>3. /\ rest \in Seq(Chunks) /\ m \in 0..Len(old)
              /\ Len(taken) = m /\ (taken = <<>> <=> m = 0)
          <5>1. m \in 0..Len(old)
            BY <1>0, <4>2
          <5> HIDE DEF m
          <5>2. taken \in Seq(Chunks) /\ Len(taken) = m
            BY <4>2, <5>1
          <5>3. rest \in Seq(Chunks)
            BY <4>2, <5>1
          <5>4. taken = <<>> <=> m = 0
            <6>1. \A q \in Seq(Chunks) : q = <<>> <=> Len(q) = 0
              OBVIOUS
            <6>2. QED
              BY <5>2, <6>1
          <5>5. QED
            BY <5>1, <5>2, <5>3, <5>4
        <4>4. Promise!ValueOr(k, <<>>) = old
          BY <1>1, <3>1, <3>2 DEF Promise!ValueOr
        <4>5. CASE rest = <<>>
          <5>1. out = Out(RemoveKey(l, k), reply)
            BY <2>2, <3>5, <4>1, <4>5 DEF LPop
          <5>2. ViewOf(RemoveKey(l, k), now) = [s EXCEPT ![k] = Absent]
            BY <1>0, ViewRemove
          <5>3. Promise!Serve("LPOP", [s EXCEPT ![k] = Absent], reply)
            BY <1>1, <5>1, <5>2 DEF Out
          <5>4. QED
            BY <1>1, <3>3, <3>5, <4>3, <4>4, <4>5, <5>3, Shared DEF Promise!PopPromise
        <4>6. CASE rest # <<>>
          <5>1. out = Out(Write(l, k, ListObj(rest)), reply)
            BY <2>2, <3>5, <4>1, <4>6 DEF LPop
          <5>2. ListObj(rest) \in Objects
            BY <4>3, StrObject
          <5>3. EntryOr(l, k, ListObj(rest)) = l
            BY <2>2 DEF EntryOr
          <5>4. Promise!Serve("LPOP", ViewOf(Write(l, k, ListObj(rest)), now), reply)
            BY <1>1, <5>1 DEF Out
          <5>5. Promise!Update("LPOP", k, ListObj(rest), reply)
            BY <1>0, <1>1, <1>2, <5>2, <5>3, <5>4, UpdateKept
          <5>6. QED
            BY <1>1, <3>3, <3>5, <4>3, <4>4, <4>6, <5>5, Shared DEF Promise!PopPromise
        <4>7. QED
          BY <4>5, <4>6
      <3>6. QED
        BY <3>4, <3>5
    <2>3. QED
      BY <2>1, <2>2
  <1>4. QED
    BY <1>1, <1>3 DEF Promise!KeyPromise, Promise!Next, Promise!IsFor

LEMMA SetRangeKeeps ==
  ASSUME IInv, NEW i \in Dbs, NEW k \in Keys, NEW off \in 0..MaxLen, NEW v \in TextValues,
         SetRangeCmd(i, k, off, v), ~MeetsDeadKey(last')
  PROVE  Promise!Next
  <1> DEFINE l == dbs[i]
             out == StrSetRange(l, k, off, v)
             d == Str(<<>>)
             e == EntryOr(l, k, d)
             old == e.data[k].val
             size == PatchSize(old, off, v)
             w == Patch(old, off, v)
             padded == old \o [j \in 1..(off - Len(old)) |-> Nul]
             p == SubSeq(padded, 1, off) \o v
                    \o SubSeq(padded, off + Len(v) + 1, Len(padded))
  <1>0. WellFormed(l) /\ now \in Nat /\ v \in Seq(Chunks) /\ off \in Nat
    BY ValuesAssumption, BoundAssumption DEF IInv, AllWellFormed, TextValues
  <1>1. /\ last' = [op |-> "SETRANGE", db |-> i, keys |-> {k}, arg |-> <<off, v>>,
                    reply |-> out.reply]
        /\ Promise!s0 = ViewOf(l, now)
        /\ Promise!Serve("SETRANGE", ViewOf(out.ldb, now), out.reply)
    BY Served DEF SetRangeCmd
  <1>2. ~Dead(l, k, now)
    BY MetNoDeadKey DEF SetRangeCmd, ClocklessOps
  <1>3. d \in Objects /\ d.type = "string" /\ d.val = <<>>
    BY Defaults DEF Str
  <1>4. /\ IsStr(e.data[k]) <=> ~Promise!WrongType(k, "string")
        /\ e.data[k].val = Promise!ValueOr(k, <<>>)
        /\ e.data[k] \in Objects
        /\ Promise!WrongType(k, "string") => e = l
    BY <1>0, <1>1, <1>2, <1>3, EntrySeen DEF IsStr
  <1>5. CASE IsStr(e.data[k])
    <2>0. old \in Seq(Chunks)
      BY <1>4, <1>5, SeqObject DEF IsStr
    <2>1. out = Out(Write(e, k, Str(w)), Num(size))
      BY <1>5 DEF StrSetRange, Patch, PatchSize
    <2>2. w \in Seq(Chunks) /\ Len(w) = size /\ w = p
      <3> HIDE DEF old
      <3>1. QED
        BY <1>0, <2>0, PatchSeq, Patched
    <2>3. Promise!Serve("SETRANGE", ViewOf(Write(e, k, Str(w)), now), Num(size))
      BY <1>1, <2>1 DEF Out
    <2> HIDE DEF w, size
    <2>4. Promise!Serve("SETRANGE", ViewOf(Write(e, k, Str(p)), now), Num(Len(p)))
      BY <2>2, <2>3
    <2>5. Str(p) \in Objects
      BY <2>2, StrObject
    <2> HIDE DEF p
    <2>6. Promise!Update("SETRANGE", k, Str(p), Num(Len(p)))
      BY <1>0, <1>1, <1>2, <1>3, <2>4, <2>5, UpdateKept
    <2>7. Promise!SetRangePromise(k)
      <3>1. last'.arg[1] = off /\ last'.arg[2] = v /\ old = Promise!ValueOr(k, <<>>)
        BY <1>1, <1>4
      <3> HIDE DEF old
      <3>2. QED
        BY <1>4, <1>5, <2>6, <3>1, Shared DEF Promise!SetRangePromise, p, padded
    <2>8. QED
      BY <1>1, <2>7 DEF Promise!KeyPromise, Promise!Next, Promise!IsFor
  <1>6. CASE ~IsStr(e.data[k])
    <2>1. out = Out(e, Err("WRONGTYPE"))
      BY <1>6 DEF StrSetRange
    <2>2. Promise!SetRangePromise(k)
      BY <1>1, <1>4, <1>6, <2>1, Shared
         DEF Promise!SetRangePromise, Promise!Refuse, Promise!s0, Out
    <2>3. QED
      BY <1>1, <2>2 DEF Promise!KeyPromise, Promise!Next, Promise!IsFor
  <1>7. QED
    BY <1>5, <1>6

-----------------------------------------------------------------------------
(* The background task and the clock.                                      *)

\* No client notices the eviction task.
LEMMA EvictKeeps ==
  ASSUME IInv, EvictCmd
  PROVE  Promise!Next
  <1>1. /\ dbs' = [i \in Dbs |-> EvictExpired(dbs[i], now)] /\ now' = now
        /\ last'.op = "EVICT"
    BY DEF EvictCmd
  <1>2. \A i \in Dbs : WellFormed(dbs[i]) /\ now \in Nat
    BY DEF IInv, AllWellFormed
  <1>3. \A i \in Dbs : ViewOf(dbs'[i], now') = ViewOf(dbs[i], now)
    BY <1>1, <1>2, ViewEvict
  <1>4. View' = View
    BY <1>3 DEF View
  <1>5. QED
    BY <1>1, <1>4 DEF Promise!Housekeeping, Promise!Next

LEMMA TickKeeps ==
  ASSUME IInv, Tick
  PROVE  Promise!Next
  <1>1. dbs' = dbs /\ now' = now + 1 /\ last'.op = "TICK"
    BY DEF Tick
  <1>2. \A i \in Dbs : WellFormed(dbs[i]) /\ now \in Nat
    BY DEF IInv, AllWellFormed
  <1>3. \A i \in Dbs :
          ViewOf(dbs'[i], now')
            = [k \in Keys |-> IF Promise!Present(ViewOf(dbs[i], now), k)
                                   /\ ViewOf(dbs[i], now)[k].at = now + 1
                              THEN Absent ELSE ViewOf(dbs[i], now)[k]]
    BY <1>1, <1>2, ViewTick
  <1>4. \A i \in Dbs : View[i] = ViewOf(dbs[i], now)
    BY DEF View
  <1>5. View' = [i \in Dbs |-> ViewOf(dbs'[i], now')]
    BY DEF View
  <1>6. View' = [i \in Dbs |-> [k \in Keys |->
                   IF Promise!Present(View[i], k) /\ View[i][k].at = now + 1
                   THEN Absent ELSE View[i][k]]]
    BY <1>3, <1>4, <1>5
  <1>7. QED
    BY <1>1, <1>6 DEF Promise!Pass, Promise!Next

-----------------------------------------------------------------------------
(* The promise.                                                            *)

\* The step is promised unless it is one of the departures.
Departs == MeetsDeadKey(last') \/ KnownDeparture(last')

LEMMA GenericKeeps ==
  ASSUME IInv, NEW i \in Dbs, GenericCommand(i), ~Departs
  PROVE  Promise!Next
  <1>0. ~MeetsDeadKey(last') /\ ~KnownDeparture(last')
    BY DEF Departs
  <1>1. ASSUME NEW S \in SUBSET Keys, DelCmd(i, S) PROVE Promise!Next
    BY <1>0, <1>1, DelKeeps
  <1>2. ASSUME NEW src \in Keys, NEW dst \in Keys, RenameCmd(i, src, dst)
        PROVE  Promise!Next
    BY <1>0, <1>2, RenameKeeps
  <1>3. ASSUME NEW src \in Keys, NEW dst \in Keys, RenamenxCmd(i, src, dst)
        PROVE  Promise!Next
    BY <1>0, <1>3, RenamenxKeeps
  <1>4. ASSUME NEW k \in Keys, NEW s \in Seconds, ExpireCmd(i, k, s)
        PROVE  Promise!Next
    BY <1>0, <1>4, ExpireKeeps
  <1>5. ASSUME NEW k \in Keys, NEW ms \in Millis, PExpireCmd(i, k, ms)
        PROVE  Promise!Next
    BY <1>0, <1>5, PExpireKeeps
  <1>6. ASSUME NEW k \in Keys, NEW ts \in Seconds, ExpireAtCmd(i, k, ts)
        PROVE  Promise!Next
    <2>1. last'.op = "EXPIREAT"
      BY <1>6 DEF ExpireAtCmd, Run
    <2>2. QED
      BY <1>0, <2>1 DEF KnownDeparture
  <1>7. ASSUME NEW k \in Keys, NEW ts \in Stamps, PExpireAtCmd(i, k, ts)
        PROVE  Promise!Next
    BY <1>0, <1>7, PExpireAtKeeps
  <1>8. ASSUME NEW k \in Keys, PersistCmd(i, k) PROVE Promise!Next
    BY <1>0, <1>8, PersistKeeps
  <1>9. CASE FlushDbCmd(i)
    BY <1>9, FlushDbKeeps
  <1>10. CASE FlushAllCmd(i)
    BY <1>10, FlushAllKeeps
  <1>11. QED
    BY <1>1, <1>2, <1>3, <1>4, <1>5, <1>6, <1>7, <1>8, <1>9, <1>10
       DEF GenericCommand

LEMMA StringKeeps ==
  ASSUME IInv, NEW i \in Dbs, StringCommand(i), ~Departs
  PROVE  Promise!Next
  <1>0. ~MeetsDeadKey(last') /\ ~KnownDeparture(last')
    BY DEF Departs
  <1>1. ASSUME NEW k \in Keys, NEW v \in Values, NEW o \in SetOptions, SetCmd(i, k, v, o)
        PROVE  Promise!Next
    BY <1>0, <1>1, SetKeeps
  <1>2. ASSUME NEW k \in Keys, NEW v \in Values, SetnxCmd(i, k, v) PROVE Promise!Next
    BY <1>0, <1>2, SetnxKeeps
  <1>3. ASSUME NEW k \in Keys, NEW v \in Values, GetSetCmd(i, k, v) PROVE Promise!Next
    BY <1>0, <1>3, GetSetKeeps
  <1>4. ASSUME NEW k \in Keys, GetDelCmd(i, k) PROVE Promise!Next
    BY <1>0, <1>4, GetDelKeeps
  <1>5. ASSUME NEW k \in Keys, NEW p \in BOOLEAN, NEW ms \in GetExTimes,
               GetExCmd(i, k, p, ms)
        PROVE  Promise!Next
    BY <1>0, <1>5, GetExKeeps
  <1>6. ASSUME NEW kv \in KeyValues, MSetCmd(i, kv) \/ MSetNxCmd(i, kv)
        PROVE  Promise!Next
    BY <1>0, <1>6, MSetKeeps
  <1>7. ASSUME NEW k \in Keys, NEW v \in TextValues, AppendCmd(i, k, v)
        PROVE  Promise!Next
    BY <1>0, <1>7, AppendKeeps
  <1>8. ASSUME NEW k \in Keys, NEW off \in 0..MaxLen, NEW v \in TextValues,
               SetRangeCmd(i, k, off, v)
        PROVE  Promise!Next
    BY <1>0, <1>8, SetRangeKeeps
  <1>9. ASSUME NEW k \in Keys, NEW n \in Deltas, IncrByCmd(i, k, n) PROVE Promise!Next
    BY <1>0, <1>9, IncrByKeeps
  <1>10. ASSUME NEW k \in Keys, NEW n \in Deltas, DecrByCmd(i, k, n) PROVE Promise!Next
    BY <1>0, <1>10, DecrByKeeps
  <1>11. ASSUME NEW k \in Keys, NEW n \in Deltas \cup {Inf}, IncrByFloatCmd(i, k, n)
         PROVE  Promise!Next
    BY <1>0, <1>11, IncrByFloatKeeps
  <1>12. QED
    BY <1>1, <1>2, <1>3, <1>4, <1>5, <1>6, <1>7, <1>8, <1>9, <1>10, <1>11
       DEF StringCommand

LEMMA ListKeeps ==
  ASSUME IInv, NEW i \in Dbs, ListCommand(i), ~Departs
  PROVE  Promise!Next
  <1>0. ~MeetsDeadKey(last') /\ ~KnownDeparture(last')
    BY DEF Departs
  <1>1. ASSUME NEW k \in Keys, NEW v \in Values, RPushCmd(i, k, v) PROVE Promise!Next
    BY <1>0, <1>1, RPushKeeps
  <1>2. ASSUME NEW k \in Keys, NEW v \in Values, RPushXCmd(i, k, v) PROVE Promise!Next
    BY <1>0, <1>2, RPushXKeeps
  <1>3. ASSUME NEW k \in Keys, NEW n \in PopCounts, LPopCmd(i, k, n) PROVE Promise!Next
    BY <1>0, <1>3, LPopKeeps
  <1>4. QED
    BY <1>1, <1>2, <1>3 DEF ListCommand

\* Every command but FLUSHALL is refused where there is no such database.
LEMMA RefusedKeeps ==
  ASSUME NEW i, i \notin Dbs, Command(i)
  PROVE  Promise!Next
  <1>1. CASE FlushAllCmd(i)
    BY <1>1, FlushAllKeeps
  <1>2. CASE GenericCommand(i) /\ ~FlushAllCmd(i)
    BY <1>2, NotServed
       DEF GenericCommand, DelCmd, RenameCmd, RenamenxCmd, ExpireCmd, PExpireCmd,
           ExpireAtCmd, PExpireAtCmd, PersistCmd, FlushDbCmd
  <1>3. CASE StringCommand(i)
    BY <1>3, NotServed
       DEF StringCommand, SetCmd, SetnxCmd, GetSetCmd, GetDelCmd, GetExCmd, MSetCmd,
           MSetNxCmd, AppendCmd, SetRangeCmd, IncrByCmd, DecrByCmd, IncrByFloatCmd
  <1>4. CASE ListCommand(i)
    BY <1>4, NotServed DEF ListCommand, RPushCmd, RPushXCmd, LPopCmd
  <1>5. QED
    BY <1>1, <1>2, <1>3, <1>4 DEF Command

LEMMA StepKeeps ==
  ASSUME IInv, Next, ~Departs
  PROVE  Promise!Next
  <1>1. ASSUME NEW i \in Index, Command(i)
        PROVE  Promise!Next
    <2>1. CASE i \in Dbs
      BY <1>1, <2>1, GenericKeeps, StringKeeps, ListKeeps DEF Command
    <2>2. CASE i \notin Dbs
      BY <1>1, <2>2, RefusedKeeps
    <2>3. QED
      BY <2>1, <2>2
  <1>2. QED
    BY <1>1, EvictKeeps, TickKeeps DEF Next

\* On any history, of any clients, every step of the server does to what clients
\* see, and answers, what TtlStore says, unless the request is one of the
\* departures the model names.
THEOREM EveryStepKeepsPromise == Spec => StepsKeepPromise
  <1>1. IInv /\ [Next]_vars => [MeetsDeadKey(last') \/ KnownDeparture(last')
                                  \/ Promise!Next]_vars
    <2>1. CASE Next
      BY <2>1, StepKeeps DEF Departs
    <2>2. CASE UNCHANGED vars
      BY <2>2
    <2>3. QED
      BY <2>1, <2>2
  <1>2. QED
    BY InvInit, InvStep, <1>1, PTL DEF Spec, StepsKeepPromise

-----------------------------------------------------------------------------
(* The refinement, for clients that stay clear of the departures.          *)

\* Clients that issue only commands that look at the clock, that ask SET for
\* nothing it gets wrong, and whose deadlines the clock type can represent.
WellBehaved ==
  /\ Issued \cap ClocklessOps = {}
  /\ \A o \in SetOptions : /\ ~o.keepttl
                           /\ o.nx => o.expire = Never
                           /\ o.expire # Never => MaxTime + o.expire <= InstantMax
  /\ \A ms \in GetExTimes \ {Never} : AsI64(ms) = ms /\ MaxTime + ms <= InstantMax

\* What such a client is answered, and asks for, is no departure.
Regular(req) == req.reply # Panic /\ req.op \notin ClocklessOps
                  /\ (req.op = "SET" => ~req.arg.opt.keepttl
                                          /\ (req.arg.opt.nx => req.arg.opt.expire = Never))
                  /\ (req.op = "GETEX" => req.arg[2] = Never \/ AsI64(req.arg[2]) = req.arg[2])

LEMMA RegularStays ==
  ASSUME Regular(last')
  PROVE  ~Departs
  BY DEF Regular, Departs, MeetsDeadKey, KnownDeparture, ClocklessOps

\* A command is regular when it does not panic where its database exists.
LEMMA RunIsRegular ==
  ASSUME WellBehaved, NEW op, op # "SET", NEW i, NEW S, NEW arg, NEW out,
         op = "GETEX" => arg[2] = Never \/ AsI64(arg[2]) = arg[2],
         Run(op, i, S, arg, out), i \in Dbs => out.reply # Panic
  PROVE  Regular(last')
  <1>1. op \notin ClocklessOps
    BY DEF WellBehaved, Run
  <1>2. Err("DBINDEX") # Panic
    BY Distinct
  <1>3. QED
    BY <1>1, <1>2 DEF Regular, Run

\* These commands are not in the vocabulary of such a client.
LEMMA NotIssued ==
  ASSUME WellBehaved, NEW op \in ClocklessOps, NEW i, NEW S, NEW arg, NEW out,
         Run(op, i, S, arg, out)
  PROVE  FALSE
  BY DEF WellBehaved, Run

LEMMA StrGetReplies ==
  ASSUME NEW l, NEW k, NEW t
  PROVE  StrGet(l, k, t) # Panic /\ StrGet(l, k, t) # Ok
  BY Distinct DEF StrGet, Err, Ok

LEMMA SetIsRegular ==
  ASSUME WellBehaved, now \in Nat, now <= MaxTime, NEW i, NEW k \in Keys, NEW v,
         NEW o \in SetOptions, SetCmd(i, k, v, o)
  PROVE  Regular(last')
  <1> DEFINE l == dbs[i]
             d == o.expire
             out == ExecSet(l, k, v, o, now)
             set == StrSet(l, k, v, d, now)
  <1>1. /\ ~o.keepttl /\ (o.nx => d = Never) /\ d \in Nat \cup {Never}
        /\ d # Never => MaxTime + d <= InstantMax
    BY OptionsAssumption DEF WellBehaved
  <1>2. d # Never => now + d <= InstantMax
    BY <1>1, BoundAssumption, InstantAssumption
  <1> HIDE DEF d
  <1>3. set.reply # Panic
    <2>1. d # Never => ~(now + d > InstantMax)
      BY <1>1, <1>2, InstantAssumption
    <2>2. \A w, at : SetExpiryAt(w, k, at).reply # Panic
      BY Distinct DEF SetExpiryAt, Out
    <2>3. \A w : d # Never => SetExpiry(w, k, d, now).reply # Panic
      BY <2>1, <2>2 DEF SetExpiry
    <2>4. QED
      BY <2>3, Distinct DEF StrSet, AndReply, Out
  <1>4. StrSetXx(l, k, v, d, now).reply # Panic
    BY <1>3, Distinct DEF StrSetXx, Out
  <1>5. o.nx => SetNxThenExpire(l, k, v, d, now).reply # Panic
    BY <1>1, Distinct DEF SetNxThenExpire, StrSetNx, Out
  <1>6. out.reply # Panic
    <2> DEFINE did == IF o.nx THEN SetNxThenExpire(l, k, v, d, now)
                      ELSE IF o.xx THEN StrSetXx(l, k, v, d, now) ELSE set
               old == StrGet(l, k, now)
    <2>1. did.reply # Panic
      BY <1>3, <1>4, <1>5
    <2>2. old # Panic
      BY StrGetReplies
    <2>3. out = IF o.get /\ IsError(old) THEN Out(l, old)
                ELSE IF o.get /\ did.reply = Ok THEN Out(did.ldb, old) ELSE did
      BY DEF ExecSet, d
    <2> HIDE DEF did, old, out
    <2>4. QED
      BY <2>1, <2>2, <2>3 DEF Out
  <1>7. /\ last'.op = "SET" /\ last'.arg = [val |-> v, opt |-> o]
        /\ last'.reply = IF i \in Dbs THEN out.reply ELSE Err("DBINDEX")
    BY DEF SetCmd, Run
  <1> HIDE DEF out
  <1>8. "SET" \notin ClocklessOps
    BY DEF ClocklessOps
  <1>9. last'.reply # Panic
    BY <1>6, <1>7, Distinct
  <1>10. last'.arg.opt = o
    BY <1>7
  <1>11. QED
    BY <1>1, <1>7, <1>8, <1>9, <1>10 DEF Regular, d

LEMMA StringIsRegular ==
  ASSUME WellBehaved, now \in Nat, now <= MaxTime, NEW i, StringCommand(i)
  PROVE  Regular(last')
  <1>1. ASSUME NEW k \in Keys, NEW v \in Values, NEW o \in SetOptions, SetCmd(i, k, v, o)
        PROVE  Regular(last')
    BY <1>1, SetIsRegular
  <1>2. ASSUME NEW k \in Keys, NEW v \in Values, SetnxCmd(i, k, v)
        PROVE  Regular(last')
    <2>1. StrSetNx(dbs[i], k, v, now).reply # Panic
      BY Distinct DEF StrSetNx, Out
    <2>2. QED
      BY <1>2, <2>1, RunIsRegular DEF SetnxCmd
  <1>3. ASSUME NEW k \in Keys, NEW v \in Values, GetSetCmd(i, k, v)
        PROVE  Regular(last')
    <2>1. StrGetSet(dbs[i], k, v, now).reply # Panic
      BY StrGetReplies DEF StrGetSet, Out
    <2>2. QED
      BY <1>3, <2>1, RunIsRegular DEF GetSetCmd
  <1>4. ASSUME NEW k \in Keys, NEW p \in BOOLEAN, NEW ms \in GetExTimes,
               GetExCmd(i, k, p, ms)
        PROVE  Regular(last')
    <2>1. ms # Never => ms \in Int /\ AsI64(ms) = ms /\ now + ms <= InstantMax
      BY GetExTimesType, BoundAssumption, InstantAssumption DEF WellBehaved
    <2>2. ms # Never => PExpire(dbs[i], k, AsI64(ms), now).reply # Panic
      BY <2>1, InstantAssumption, Distinct
         DEF PExpire, DeleteNow, SetExpiry, SetExpiryAt, BoolInt, Out
    <2>3. Persist(dbs[i], k).reply # Panic
      BY Distinct DEF Persist, BoolInt, Out
    <2>4. ExecGetEx(dbs[i], k, p, ms, now).reply # Panic
      BY <2>2, <2>3, StrGetReplies, Distinct DEF ExecGetEx, AndReply, Out
    <2>5. QED
      BY <1>4, <2>1, <2>4, RunIsRegular DEF GetExCmd
  <1>5. ASSUME NEW kv, MSetCmd(i, kv) \/ MSetNxCmd(i, kv)
        PROVE  Regular(last')
    <2>1. MSet(dbs[i], kv).reply # Panic /\ MSetNx(dbs[i], kv, now).reply # Panic
      BY Distinct DEF MSetNx, MSet, AndReply, Out
    <2>2. QED
      BY <1>5, <2>1, RunIsRegular DEF MSetCmd, MSetNxCmd
  <1>6. ASSUME NEW k \in Keys,
               \/ \E v \in TextValues : AppendCmd(i, k, v)
               \/ \E off \in 0..MaxLen, v \in TextValues : SetRangeCmd(i, k, off, v)
               \/ \E n \in Deltas \cup {Inf} : \/ IncrByCmd(i, k, n)
                                               \/ DecrByCmd(i, k, n)
                                               \/ IncrByFloatCmd(i, k, n)
               \/ GetDelCmd(i, k)
        PROVE  FALSE
    BY <1>6, NotIssued DEF ClocklessOps, AppendCmd, SetRangeCmd, IncrByCmd, DecrByCmd,
                           IncrByFloatCmd, GetDelCmd
  <1>7. QED
    BY <1>1, <1>2, <1>3, <1>4, <1>5, <1>6 DEF StringCommand

LEMMA GenericIsRegular ==
  ASSUME WellBehaved, NEW i, GenericCommand(i)
  PROVE  Regular(last')
  <1>1. CASE FlushDbCmd(i)
    <2>1. FlushDb(dbs[i]).reply # Panic
      BY Distinct DEF FlushDb, Out
    <2>2. QED
      BY <1>1, <2>1, RunIsRegular DEF FlushDbCmd
  <1>2. CASE FlushAllCmd(i)
    BY <1>2, Distinct DEF FlushAllCmd, Regular, ClocklessOps
  <1>3. CASE ~FlushDbCmd(i) /\ ~FlushAllCmd(i)
    BY <1>3, NotIssued
       DEF GenericCommand, ClocklessOps, DelCmd, RenameCmd, RenamenxCmd, ExpireCmd,
           PExpireCmd, ExpireAtCmd, PExpireAtCmd, PersistCmd
  <1>4. QED
    BY <1>1, <1>2, <1>3

LEMMA ListIsRegular ==
  ASSUME WellBehaved, NEW i, ListCommand(i)
  PROVE  Regular(last')
  <1>1. ASSUME NEW k \in Keys, NEW v \in Values, RPushXCmd(i, k, v)
        PROVE  Regular(last')
    <2>1. RPushX(dbs[i], k, v, now).reply # Panic
      BY Distinct DEF RPushX, Out
    <2>2. QED
      BY <1>1, <2>1, RunIsRegular DEF RPushXCmd
  <1>2. ASSUME NEW k \in Keys, NEW n, RPushCmd(i, k, n) \/ LPopCmd(i, k, n)
        PROVE  FALSE
    BY <1>2, NotIssued DEF ClocklessOps, RPushCmd, LPopCmd
  <1>3. QED
    BY <1>1, <1>2 DEF ListCommand

\* The clock stays within its bound.
TimedInv == IInv /\ now <= MaxTime

LEMMA TimedInvariance == Spec => []TimedInv
  <1>1. Init => TimedInv
    BY InvInit, BoundAssumption DEF TimedInv, Init
  <1>2. TimedInv /\ [Next]_vars => TimedInv'
    <2>1. TimedInv /\ [Next]_vars => IInv'
      BY InvStep DEF TimedInv
    <2>2. ASSUME TimedInv, [Next]_vars
          PROVE  (now <= MaxTime)'
      <3>1. CASE Tick
        BY <2>2, <3>1, BoundAssumption DEF TimedInv, IInv, Tick
      <3>2. CASE EvictCmd
        BY <2>2, <3>2 DEF TimedInv, EvictCmd
      <3>3. ASSUME NEW i \in Index, Command(i)
            PROVE  now' = now
        BY <3>3 DEF Command, GenericCommand, StringCommand, ListCommand, FlushAllCmd, Run,
             DelCmd, RenameCmd, RenamenxCmd, ExpireCmd, PExpireCmd, ExpireAtCmd,
             PExpireAtCmd, PersistCmd, FlushDbCmd, SetCmd, SetnxCmd, GetSetCmd, GetDelCmd,
             GetExCmd, MSetCmd, MSetNxCmd, AppendCmd, SetRangeCmd, IncrByCmd, DecrByCmd,
             IncrByFloatCmd, RPushCmd, RPushXCmd, LPopCmd
      <3>4. QED
        BY <2>2, <3>1, <3>2, <3>3 DEF TimedInv, Next, vars
    <2>3. QED
      BY <2>1, <2>2 DEF TimedInv
  <1>3. QED
    BY <1>1, <1>2, PTL DEF Spec

\* For such clients the two maps, the lazy expiry and the eviction task together
\* implement the promised store: initial states map to initial states and every
\* step to a step of TtlStore or to a stutter.
THEOREM KeyspaceRefinesTtlStore ==
  ASSUME WellBehaved
  PROVE  Spec => KeepsPromise
  <1>1. Init => Promise!Init
    <2>1. ASSUME Init
          PROVE  View = [i \in Dbs |-> Promise!Empty]
      BY <2>1, ViewEmpty DEF Init, View
    <2>2. QED
      BY <2>1 DEF Init, Promise!Init
  <1>2. TimedInv /\ [Next]_vars => [Promise!Next]_(Promise!promised)
    <2>1. ASSUME TimedInv, Next
          PROVE  Promise!Next
      <3>1. ASSUME NEW i \in Index, Command(i)
            PROVE  ~Departs
        BY <2>1, <3>1, GenericIsRegular, StringIsRegular, ListIsRegular, RegularStays
           DEF Command, TimedInv, IInv
      <3>2. CASE EvictCmd
        BY <2>1, <3>2, EvictKeeps DEF TimedInv
      <3>3. CASE Tick
        BY <2>1, <3>3, TickKeeps DEF TimedInv
      <3>4. QED
        BY <2>1, <3>1, <3>2, <3>3, StepKeeps DEF Next, TimedInv
    <2>2. ASSUME UNCHANGED vars
          PROVE  UNCHANGED Promise!promised
      BY <2>2 DEF vars, Promise!promised, View
    <2>3. QED
      BY <2>1, <2>2
  <1>3. QED
    BY <1>1, <1>2, TimedInvariance, PTL DEF Spec, KeepsPromise, Promise!Spec
=============================================================================
