---------------------------- MODULE ScriptsProps ----------------------------
(***************************************************************************)
(* What should be true of the commands and scripts connections run on      *)
(* their shared server: the selected database, the script cache, and what  *)
(* a script amounts to.                                                    *)
(***************************************************************************)
EXTENDS Scripts, ServerProps, Functions

\* Positions of the SELECTs among the first n answers of c that were accepted.
Selects(c, n) ==
  {j \in 1..n : /\ conn[c].got[j].req # <<>>
                /\ conn[c].got[j].req[1] = "SELECT"
                /\ conn[c].got[j].reply = Ok}

\* The database that the first n answers of c leave selected.
SelectedAfter(c, n) ==
  LET S == Selects(c, n)
      latest == CHOOSE j \in S : \A i \in S : i <= j
  IN  IF S = {} THEN 0 ELSE Decimal[conn[c].got[latest].req[2]]

\* db_index belongs to the connection: a command runs on the database its own
\* connection selected last, database 0 before that, and SELECT accepts that one.
SelectionIsOwn ==
  \A c \in Clients :
    /\ \A n \in 1..Len(conn[c].got) : conn[c].got[n].db = SelectedAfter(c, n - 1)
    /\ conn[c].index \in Index

-----------------------------------------------------------------------------
(* Scripts.                                                                *)

\* The requests connection c has taken from its buffer, where no protocol error
\* has cleared it.
Executed(c) ==
  Range(Requests(SubSeq(conn[c].stream, 1, conn[c].taken - Len(conn[c].buf))))

\* A request and, for a script, the requests its calls make.
RunsScript(req) == Len(req) > 2 /\ req[1] \in {"EVAL", "EVALSHA"}
Made(req) ==
  {req} \cup (IF RunsScript(req) THEN {call.args : call \in Range(Body[req[2]])} ELSE {})

Somebody(did(_)) == \E c \in Clients : \E req \in Executed(c) : \E q \in Made(req) : did(q)
Loads(s, q) == Len(q) > 2 /\ SubSeq(q, 1, 3) = <<"SCRIPT", "LOAD", s>>
Flushes(q)  == Len(q) > 1 /\ SubSeq(q, 1, 2) = <<"SCRIPT", "FLUSH">>

\* The script cache is the server's.  A client that has loaded a script can run it
\* by its SHA1 any number of times, until some connection, or a script of one,
\* flushes the cache; and EVALSHA runs only what some connection has loaded: EVAL
\* does not load.
ScriptsStayLoaded ==
  \A c \in Clients : \A n \in 1..Len(conn[c].got) :
    LET req   == conn[c].got[n].req
        found == conn[c].got[n].reply # Err("NOSCRIPT")
    IN  RunsScript(req) /\ req[1] = "EVALSHA" =>
          /\ found => Somebody(LAMBDA q : Loads(req[2], q))
          /\ (\E m \in 1..(n - 1) : Loads(req[2], conn[c].got[m].req)) /\ ~found
               => Somebody(Flushes)

\* Connection c runs a script in this step.
ScriptRuns(c) ==
  /\ conn[c].pc = "parsing" /\ conn'[c].buf # conn[c].buf
  /\ HasRequest(c) /\ Accepted(Args(c))
  /\ \/ Args(c)[1] = "EVAL"
     \/ Args(c)[1] = "EVALSHA" /\ Args(c)[2] \in cache

\* sent[n]: the first n calls of the script, issued as requests of a connection
\* with nothing in between, each on the database selected when the script began.
Sent(c) ==
  LET req   == Args(c)
      calls == Body[req[2]]
      sent[n \in 0..Len(calls)] ==
        IF n = 0 THEN Answer(World(dbs, cache, conn[c].index), Nil)
        ELSE LET w == [sent[n - 1].world EXCEPT !.index = conn[c].index]
                 q == Filled(calls[n].args, KeysOf(req), ArgvOf(req))
             IN  IF Unbound \notin Range(q) /\ Accepted(q) THEN Execute(w, q, now)
                 ELSE Answer(w, Err("PARSE"))
  IN  sent

\* A script does what the same requests would do one after the other, or a prefix
\* of them: nothing is rolled back.  The prefix ends with the first call that may end
\* a script, and then the script says so, or takes its connection down: a request
\* that is refused when it is parsed, in redis.call and in redis.pcall; one that is
\* answered with an error, in redis.call only; one that panics.  A script in which
\* there is none makes all its calls, also behind a redis.pcall that failed.
ScriptIsPipeline ==
  [][\A c \in Clients : ScriptRuns(c) =>
       LET calls == Body[Args(c)[2]]
           sent  == Sent(c)
           reply == conn'[c].out[1].reply
           ends(j) == \/ sent[j].reply \in {Panic, Err("PARSE")}
                      \/ IsError(sent[j].reply) /\ calls[j].how = "call"
       IN  \E n \in 0..Len(calls) :
             /\ dbs' = sent[n].world.dbs /\ cache' = sent[n].world.cache
             /\ \A j \in 1..n : ends(j) => j = n /\ (IsError(reply) \/ reply = Panic)
             /\ n < Len(calls) => n > 0 /\ ends(n)]_svars
=============================================================================
