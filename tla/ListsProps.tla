----------------------------- MODULE ListsProps -----------------------------
(***************************************************************************)
(* What should be true of the lists.                                       *)
(***************************************************************************)
EXTENDS Lists

ListStored(l, k) == Stored(l, k) /\ IsList(l.data[k])

\* The 0-based positions a LRANGE start stop is about: a negative index counts
\* from the end.
FromStart(i, len) == IF i < 0 THEN len + i ELSE i
Positions(start, stop, len) ==
  {p \in 0..(len - 1) : FromStart(start, len) <= p /\ p <= FromStart(stop, len)}

\* lrange, with its clamping and its -1s, answers with exactly the elements between
\* the two positions, for all signs and sizes of the indices.  One case is left
\* out: a stop before the head is clamped to the head, and the first element is
\* answered although it is beyond the end of the range.
RangeIsExact ==
  \A i \in Dbs, k \in Keys :
    LET l == dbs[i]
        s == l.data[k].val
    IN  ListStored(l, k) /\ Live(l, k, now) =>
          \A m, n \in Indices : n >= -Len(s) =>
            LET P == Positions(m, n, Len(s))
                r == LRange(l, k, m, n, now)[2]
            IN  /\ Len(r) = Cardinality(P)
                /\ \A p \in P : r[1 + Cardinality({q \in P : q < p})] = s[p + 1]

\* How often v occurs in the list under k.
Occurrences(l, k, v) ==
  IF ListStored(l, k)
  THEN Cardinality({p \in 1..Len(l.data[k].val) : l.data[k].val[p] = v})
  ELSE 0

\* LMOVE takes an element from one list and puts it into the other: no element is
\* lost or duplicated, whichever ends, whether or not the two are one list, and
\* whether the destination exists, and no other key is touched.  Left out: a
\* destination of another type, where lmove has popped the element before it finds
\* that out and the element is lost.
MoveConserves ==
  [][last'.op = "LMOVE" /\ last'.db \in Dbs /\ ~IsError(last'.reply) =>
       LET old == dbs[last'.db]
           new == dbs'[last'.db]
           src == last'.arg[1]
           dst == last'.arg[2]
           both(l, v) == Occurrences(l, src, v)
                           + (IF src = dst THEN 0 ELSE Occurrences(l, dst, v))
       IN  /\ \A v \in Chunks : both(new, v) = both(old, v)
           /\ \A k \in Keys : k # src /\ k # dst => new.data[k] = old.data[k]]_vars

EmptyList(l, k) == ListStored(l, k) /\ l.data[k].val = <<>>

\* A command that takes elements out of a list removes the key with the last one,
\* at both ends and in the middle; LREM is the one that leaves an empty list, under
\* its own key, and RENAME moves it.
EmptiedOnlyByLRem ==
  [][\A i \in Dbs, k \in Keys :
       EmptyList(dbs'[i], k) /\ ~EmptyList(dbs[i], k) =>
         \/ last'.op = "LREM" /\ last'.keys = {k}
         \/ /\ last'.op \in {"RENAME", "RENAMENX"} /\ last'.arg[2] = k
            /\ EmptyList(dbs[i], last'.arg[1])]_vars

ListCommands == {"LPUSH", "RPUSH", "LPUSHX", "RPUSHX", "LPOP", "RPOP", "LSET",
                 "LINSERT", "LREM", "LTRIM", "LMOVE"}

\* A list keeps its time to live through everything that changes its elements, and
\* loses it with its last element: a list command changes no deadline but that of
\* a key it removes, nor does it give one to a key it creates.
ListsKeepDeadlines ==
  [][\A i \in Dbs, k \in Keys :
       last'.op \in ListCommands /\ Stored(dbs'[i], k)
       => \/ dbs'[i].expiry[k] = dbs[i].expiry[k]
          \/ ~Stored(dbs[i], k) /\ dbs'[i].expiry[k] = Never]_vars

=============================================================================
