------------------------------ MODULE TtlStore ------------------------------
(***************************************************************************)
(* What the database promises its clients, without the machinery that      *)
(* keeps the promise: a store in which a key with a time to live is gone   *)
(* the instant that time is over.  There is no second map, no dead entry   *)
(* waiting to be evicted, and no eviction a client could notice.           *)
(*                                                                         *)
(* `last` is the request the implementation has just served, with its      *)
(* reply; each action says which store and which reply that request calls  *)
(* for.  It is what clients of Redis expect, but for RENAME.               *)
(***************************************************************************)
EXTENDS Objects

CONSTANTS Keys, Dbs

VARIABLES store,   \* store[i][k]: Absent, or an object and its deadline
          clock, last

promised == <<store, clock, last>>

Entry(o, at) == [obj |-> o, at |-> at]

Gone(at) == at # Never /\ at <= clock

Keep(o, at) == IF Gone(at) THEN Absent ELSE Entry(o, at)

Present(s, k)   == s[k] # Absent
OfType(s, k, t) == Present(s, k) /\ s[k].obj.type = t
Deadline(d)     == IF d = Never THEN Never ELSE clock + d

\* The reply that shows the string at k.
Shown(s, k) == IF ~Present(s, k) THEN Nil
               ELSE IF OfType(s, k, "string") THEN Bulk(s[k].obj.val)
               ELSE Err("WRONGTYPE")

\* The request op, about the one key k, turns the database into s with reply r.
Serve(op, s, r) ==
  /\ last'.op = op
  /\ last'.reply = r
  /\ store' = [store EXCEPT ![last'.db] = s]
  /\ UNCHANGED clock

Refuse(op, r) == Serve(op, store[last'.db], r)

\* The database and the key a request is about.
s0 == store[last'.db]
IsFor(k) == last'.keys = {k}

-----------------------------------------------------------------------------
SetPromise(k) ==
  LET o == last'.arg.opt
      at == IF o.keepttl /\ Present(s0, k) THEN s0[k].at ELSE Deadline(o.expire)
      old == Shown(s0, k)
      new == [s0 EXCEPT ![k] = Keep(Str(last'.arg.val), at)]
  IN  \/ o.get /\ IsError(old) /\ Refuse("SET", old)
      \/ /\ ~(o.get /\ IsError(old))
         /\ (o.nx /\ Present(s0, k)) \/ (o.xx /\ ~Present(s0, k))
         /\ Refuse("SET", Nil)
      \/ /\ ~(o.get /\ IsError(old))
         /\ ~(o.nx /\ Present(s0, k)) /\ ~(o.xx /\ ~Present(s0, k))
         /\ Serve("SET", new, IF o.get THEN old ELSE Ok)

SetnxPromise(k) ==
  \/ Present(s0, k) /\ Refuse("SETNX", Num(0))
  \/ /\ ~Present(s0, k)
     /\ Serve("SETNX", [s0 EXCEPT ![k] = Entry(Str(last'.arg), Never)], Num(1))

GetSetPromise(k) ==
  \/ IsError(Shown(s0, k)) /\ Refuse("GETSET", Shown(s0, k))
  \/ /\ ~IsError(Shown(s0, k))
     /\ Serve("GETSET", [s0 EXCEPT ![k] = Entry(Str(last'.arg), Never)], Shown(s0, k))

GetDelPromise(k) ==
  \/ IsError(Shown(s0, k)) /\ Refuse("GETDEL", Shown(s0, k))
  \/ /\ ~IsError(Shown(s0, k))
     /\ Serve("GETDEL", [s0 EXCEPT ![k] = Absent], Shown(s0, k))

GetExPromise(k) ==
  LET persist == last'.arg[1]
      ms == last'.arg[2]
      at == IF persist THEN Never ELSE IF ms = Never THEN s0[k].at ELSE clock + ms
  IN  \/ ~OfType(s0, k, "string") /\ Refuse("GETEX", Shown(s0, k))
      \/ /\ OfType(s0, k, "string")
         /\ Serve("GETEX", [s0 EXCEPT ![k] = Keep(s0[k].obj, at)], Shown(s0, k))

\* The pairs of an MSET or MSETNX are written together or not at all.
MSetPromise ==
  LET kv == last'.arg
      new == [k \in Keys |-> IF k \in DOMAIN kv THEN Entry(Str(kv[k]), Never) ELSE s0[k]]
      free == \A k \in DOMAIN kv : ~Present(s0, k)
  IN  \/ Serve("MSET", new, Ok)
      \/ free /\ Serve("MSETNX", new, Num(1))
      \/ ~free /\ Refuse("MSETNX", Num(0))

\* A command that updates a value in place: the object becomes o, the deadline
\* stays.
Update(op, k, o, r) ==
  Serve(op, [s0 EXCEPT ![k] = Entry(o, IF Present(s0, k) THEN s0[k].at ELSE Never)], r)

ValueOr(k, default) == IF Present(s0, k) THEN s0[k].obj.val ELSE default

WrongType(k, t) == Present(s0, k) /\ ~OfType(s0, k, t)

AppendPromise(k) ==
  LET w == ValueOr(k, <<>>) \o last'.arg
  IN  \/ WrongType(k, "string") /\ Refuse("APPEND", Err("WRONGTYPE"))
      \/ ~WrongType(k, "string") /\ Update("APPEND", k, Str(w), Num(Len(w)))

SetRangePromise(k) ==
  LET off == last'.arg[1]
      v == last'.arg[2]
      old == ValueOr(k, <<>>)
      padded == old \o [j \in 1..(off - Len(old)) |-> Nul]
      w == SubSeq(padded, 1, off) \o v \o SubSeq(padded, off + Len(v) + 1, Len(padded))
  IN  \/ WrongType(k, "string") /\ Refuse("SETRANGE", Err("WRONGTYPE"))
      \/ ~WrongType(k, "string") /\ Update("SETRANGE", k, Str(w), Num(Len(w)))

\* The counter moves by n exactly, or the command says why it cannot.
CountPromise(op, k, n, show(_)) ==
  LET v == ValueOr(k, <<0>>)
      error == IF op = "INCRBYFLOAT" THEN "NOTFLOAT" ELSE "NOTINT"
  IN  \/ WrongType(k, "string") /\ Refuse(op, Err("WRONGTYPE"))
      \/ ~WrongType(k, "string") /\ ~IsNumeral(v) /\ Refuse(op, Err(error))
      \/ /\ ~WrongType(k, "string") /\ IsNumeral(v) /\ n = Inf
         /\ Refuse(op, Err("NANORINF"))
      \/ /\ ~WrongType(k, "string") /\ IsNumeral(v) /\ n # Inf
         /\ \/ /\ v[1] + n \in Numbers
               /\ Update(op, k, Str(<<v[1] + n>>), show(v[1] + n))
            \/ v[1] + n \notin Numbers /\ Refuse(op, Err("OVERFLOW"))

Digits(n) == Bulk(<<n>>)

CounterPromise(k) ==
  \/ last'.op = "INCRBY" /\ CountPromise("INCRBY", k, last'.arg, Num)
  \/ last'.op = "DECRBY" /\ CountPromise("DECRBY", k, -last'.arg, Num)
  \/ last'.op = "INCRBYFLOAT" /\ CountPromise("INCRBYFLOAT", k, last'.arg, Digits)

-----------------------------------------------------------------------------
DelPromise ==
  Serve("DEL", [k \in Keys |-> IF k \in last'.keys THEN Absent ELSE s0[k]],
        Num(Cardinality({k \in last'.keys : Present(s0, k)})))

\* The object moves and replaces what was there.  It arrives without a deadline, as
\* in the code; Redis hands the deadline of the source on.
RenamePromise ==
  LET src == last'.arg[1]
      dst == last'.arg[2]
      moved == [s0 EXCEPT ![src] = Absent, ![dst] = Entry(s0[src].obj, Never)]
  IN  \/ Present(s0, src) /\ Serve("RENAME", moved, Ok)
      \/ ~Present(s0, src) /\ Refuse("RENAME", Err("NOSUCHKEY"))
      \/ Present(s0, dst) /\ Refuse("RENAMENX", Num(0))
      \/ ~Present(s0, dst) /\ Present(s0, src) /\ Serve("RENAMENX", moved, Num(1))
      \/ /\ ~Present(s0, dst) /\ ~Present(s0, src)
         /\ Refuse("RENAMENX", Err("NOSUCHKEY"))

\* A present key gets the deadline `at`, which deletes it when it has passed.
Retime(op, k, at) ==
  \/ ~Present(s0, k) /\ Refuse(op, Num(0))
  \/ Present(s0, k) /\ Serve(op, [s0 EXCEPT ![k] = Keep(s0[k].obj, at)], Num(1))

TtlPromise(k) ==
  \/ last'.op = "EXPIRE" /\ Retime("EXPIRE", k, clock + last'.arg * Sec)
  \/ last'.op = "PEXPIRE" /\ Retime("PEXPIRE", k, clock + last'.arg)
  \/ last'.op = "EXPIREAT" /\ Retime("EXPIREAT", k, last'.arg * Sec)
  \/ last'.op = "PEXPIREAT" /\ Retime("PEXPIREAT", k, last'.arg)
  \/ /\ Present(s0, k)
     /\ Serve("PERSIST", [s0 EXCEPT ![k].at = Never], BoolInt(s0[k].at # Never))
  \/ ~Present(s0, k) /\ Refuse("PERSIST", Num(0))

PushPromise(k) ==
  LET w == ValueOr(k, <<>>) \o last'.arg
  IN  \/ WrongType(k, "list") /\ last'.op \in {"RPUSH", "RPUSHX"}
         /\ Refuse(last'.op, Err("WRONGTYPE"))
      \/ ~WrongType(k, "list") /\ Update("RPUSH", k, ListObj(w), Num(Len(w)))
      \/ OfType(s0, k, "list") /\ Update("RPUSHX", k, ListObj(w), Num(Len(w)))
      \/ ~Present(s0, k) /\ Refuse("RPUSHX", Num(0))

\* A list is never empty: popping the last element deletes the key.
PopPromise(k) ==
  LET v == ValueOr(k, <<>>)
      taken == SubSeq(v, 1, IF last'.arg < Len(v) THEN last'.arg ELSE Len(v))
      rest == SubSeq(v, Len(taken) + 1, Len(v))
      r == IF taken = <<>> THEN Nil ELSE Bulk(taken)
  IN  \/ WrongType(k, "list") /\ Refuse("LPOP", Err("WRONGTYPE"))
      \/ ~Present(s0, k) /\ Refuse("LPOP", Nil)
      \/ OfType(s0, k, "list") /\ rest = <<>> /\ Serve("LPOP", [s0 EXCEPT ![k] = Absent], r)
      \/ OfType(s0, k, "list") /\ rest # <<>> /\ Update("LPOP", k, ListObj(rest), r)

KeyPromise(k) ==
  \/ last'.op = "SET" /\ SetPromise(k)
  \/ last'.op = "GETEX" /\ GetExPromise(k)
  \/ last'.op = "LPOP" /\ PopPromise(k)
  \/ SetnxPromise(k) \/ GetSetPromise(k) \/ GetDelPromise(k)
  \/ AppendPromise(k) \/ SetRangePromise(k) \/ CounterPromise(k)
  \/ TtlPromise(k) \/ PushPromise(k)

-----------------------------------------------------------------------------
Empty == [k \in Keys |-> Absent]

FlushAllPromise ==
  /\ last'.op = "FLUSHALL" /\ last'.reply = Ok
  /\ store' = [i \in Dbs |-> Empty]
  /\ UNCHANGED clock

\* A database the server does not have holds nothing and accepts nothing.
NoSuchDb ==
  /\ last'.db \notin Dbs
  /\ last'.reply = Err("DBINDEX")
  /\ UNCHANGED <<store, clock>>

\* Time passes, and takes with it every key whose time is over.
Pass ==
  /\ last'.op = "TICK"
  /\ clock' = clock + 1
  /\ store' = [i \in Dbs |-> [k \in Keys |->
                 IF Present(store[i], k) /\ store[i][k].at = clock + 1
                 THEN Absent ELSE store[i][k]]]

\* Background work a client cannot observe.
Housekeeping == last'.op = "EVICT" /\ UNCHANGED <<store, clock>>

Init ==
  /\ store = [i \in Dbs |-> Empty]
  /\ clock = 0

Next ==
  \/ /\ last'.db \in Dbs
     /\ \/ \E k \in Keys : IsFor(k) /\ KeyPromise(k)
        \/ last'.op \in {"MSET", "MSETNX"} /\ MSetPromise
        \/ last'.op \in {"RENAME", "RENAMENX"} /\ RenamePromise
        \/ DelPromise
        \/ Serve("FLUSHDB", Empty, Ok)
  \/ FlushAllPromise \/ NoSuchDb \/ Pass \/ Housekeeping

Spec == Init /\ [][Next]_promised
=============================================================================
