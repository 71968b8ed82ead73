------------------------------- MODULE Objects -------------------------------
(***************************************************************************)
(* What mini-rudis stores and what it answers.                             *)
(*                                                                         *)
(* An object (enum RudisObject, src/db/mod.rs) is a type and a value.  The *)
(* bytes of a string are a sequence of chunks: a chunk is a decimal        *)
(* numeral, represented by its number, or a text that no number parser     *)
(* accepts; lengths and offsets count chunks.  The elements of a list, the *)
(* fields and values of a hash and the members of a set are one chunk      *)
(* each.  A hash is a total function that maps the fields it does not have *)
(* to Absent.  A sorted set is two indices of the same members (SkipList). *)
(***************************************************************************)
EXTENDS Integers, Sequences, FiniteSets

CONSTANTS Absent,           \* no object
          Never,            \* no deadline
          IntMin, IntMax,   \* the range of i64
          Texts,            \* non-numeric chunks
          Nul,              \* the chunk of zero bytes SETRANGE pads with
          Inf,              \* the float argument that is infinite
          NaN,              \* the float argument that is no number
          Sec,              \* milliseconds in a second
          ScoreInf,         \* infinity: the finite scores lie strictly between
          MaxLevel          \* MAX_LEVEL (32 in the code)

\* As in two's complement, every number but IntMin has its negation in range.
ASSUME IntAssumption ==
  /\ IntMin \in Int /\ IntMax \in Int /\ IntMin <= -1 /\ IntMax >= 1
  /\ -(IntMin + 1) <= IntMax /\ IntMax <= -IntMin
ASSUME NulAssumption == Nul \in Texts
ASSUME InfAssumption == Inf \notin Int
ASSUME NaNAssumption == NaN \notin Int
ASSUME SecAssumption == Sec \in Nat \ {0}
ASSUME NeverAssumption == Never \notin Int

Numbers == IntMin..IntMax
Chunks  == Numbers \cup Texts

\* The scores of a sorted set are small integers; the two ends stand for the
\* infinities.
Scores == (-ScoreInf)..ScoreInf

\* A node of a skip list is the pair <<score, member>> it holds, which is what the
\* list is sorted by.  forward[x][i] is the next node on level i, NilNode at the end
\* of the level and NoLink where x does not reach it, as a pair that is not in the
\* list does nowhere.
HeadNode == <<"head">>
NilNode  == <<"nil">>
NoLink   == <<"none">>
Nodes    == Scores \X Chunks

Links    == [1..MaxLevel -> Nodes \cup {NilNode, NoLink}]

SkipLists == [forward: [Nodes \cup {HeadNode} -> Links],
              level: 1..MaxLevel, length: Nat]

\* The HashMap of a hash and the HashSet of a set hold finitely many.
HashMaps == {h \in [Chunks -> Chunks \cup {Absent}] :
               IsFiniteSet({f \in Chunks : h[f] # Absent})}
HashSets == {S \in SUBSET Chunks : IsFiniteSet(S)}

SeqObjects  == [type: {"string", "list"}, val: Seq(Chunks)]
HashObjects == [type: {"hash"}, fields: HashMaps]
SetObjects  == [type: {"set"}, members: HashSets]
\* struct ZSetInner: two indices of the same members.
ZSetObjects == [type: {"zset"}, scores: [Chunks -> Scores \cup {Absent}], sl: SkipLists]

Objects == SeqObjects \cup HashObjects \cup SetObjects \cup ZSetObjects

ASSUME ScoreAssumption == ScoreInf \in Nat \ {0} /\ MaxLevel \in Nat \ {0}
ASSUME AbsentAssumption == Absent \notin Objects /\ Absent \notin Chunks /\ Absent \notin Scores

Str(v)     == [type |-> "string", val |-> v]
ListObj(v) == [type |-> "list", val |-> v]
HashObj(h) == [type |-> "hash", fields |-> h]
SetObj(S)  == [type |-> "set", members |-> S]
IsStr(o)   == o.type = "string"
IsList(o)  == o.type = "list"
IsHash(o)  == o.type = "hash"
IsSet(o)   == o.type = "set"
IsZSet(o)  == o.type = "zset"

\* trim().parse::<i64>() succeeds on these strings.
IsNumeral(v) == Len(v) = 1 /\ v[1] \in Numbers

-----------------------------------------------------------------------------
(* A RESP frame, cut down to what the properties tell apart.  Panic is no  *)
(* frame at all: the command panicked, the task of its connection died     *)
(* with it and the client sees the socket close.                           *)

Ok      == <<"ok">>
Nil     == <<"nil">>
Panic   == <<"closed">>
Num(n)  == <<"int", n>>
Bulk(v) == <<"bulk", v>>
Err(e)  == <<"err", e>>

IsError(r) == r[1] = "err"

\* bool_int_result: a Result<bool> as 0 or 1.
BoolInt(b) == Num(IF b THEN 1 ELSE 0)
=============================================================================
