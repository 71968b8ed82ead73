------------------------------ MODULE MCServer ------------------------------
(***************************************************************************)
(* Small instances of the Server for TLC.                                  *)
(***************************************************************************)
EXTENDS ScriptsProps, SequencesExt

CONSTANTS c1, c2, k1, a, b, nul, inf, nan, absent, never

MCTexts   == {a, b, nul}
MinusTwo  == -2

Numeral == [zero |-> 0, one |-> 1, two |-> 2, forty |-> 40]

\* Lines.
Array(n)  == [t |-> "array", n |-> n]
Length    == [t |-> "bulk"]
Text(ws)  == [t |-> "text", words |-> ws]
NullLine  == [t |-> "null"]
IntLine   == [t |-> "int"]
BadLine   == [t |-> "bad"]
Simple(w) == [t |-> "simple", words |-> <<w>>]

Bulks(words) ==
  FlattenSeq([j \in 1..Len(words) |-> <<Length, Text(<<words[j]>>)>>])
Request(words) == <<Array(Len(words))>> \o Bulks(words)
Pipeline(requests) == FlattenSeq(requests)

\* What clients send.
Selecting ==
  Pipeline(<<Request(<<"SELECT", "one">>), Request(<<"SET", k1, a>>), Request(<<"GET", k1>>)>>)
OtherDb ==
  Pipeline(<<Request(<<"SELECT", "two">>), Request(<<"SET", k1, b>>), Request(<<"GET", k1>>)>>)
BadLength ==
  Pipeline(<<Request(<<"ECHO", a>>), <<Array(2), BadLine>>, Request(<<"ECHO", b>>), Request(<<"PING">>)>>)
BadFrames ==
  <<NullLine, Array(0), Array(1), IntLine, Text(<<>>)>> \o Request(<<"ECHO", a>>)
Nested ==
  <<Array(2), Length, Text(<<"ECHO">>), Array(1), Simple(a)>>
    \o <<Array(2), Simple("ECHO"), Length, Text(<<a>>)>>
BadRequests ==
  Pipeline(<<Request(<<"NOPE">>), Request(<<"SELECT", a>>), Request(<<"DBSIZE">>), <<Text(<<"ECHO", b, b>>)>>, <<Text(<<"PING">>)>>>>)
Leaving ==
  Pipeline(<<Request(<<"SET", k1, a>>), Request(<<"QUIT">>), Request(<<"PING">>)>>)
TooLong ==
  Pipeline(<<Request(<<"SET", k1, a, "NX">>), Request(<<"EXPIRE", k1, "forty">>), Request(<<"PING">>)>>)
Overlong ==
  Request(<<"ECHO", a>>) \o <<Array(99)>> \o Request(<<"PING">>)
Expiring ==
  Pipeline(<<Request(<<"EXPIRE", k1, "zero">>), Request(<<"GET", k1>>), Request(<<"FLUSHALL">>)>>)
Cut == Request(<<"GET", k1>>) \o <<Array(2), Length>>
\* Inline commands, a line each.
Crashing ==
  <<Text(<<"SET", k1, a>>), Text(<<"SET", k1, b, "EX">>), Text(<<"PING">>)>>

\* Scripts.
call(args)  == [how |-> "call", args |-> args]
pcall(args) == [how |-> "pcall", args |-> args]
Programs ==
  [put    |-> <<call(<<"SET", "KEYS[1]", "ARGV[1]">>), call(<<"GET", "KEYS[1]">>)>>,
   jump   |-> <<call(<<"SELECT", "one">>), call(<<"SET", k1, b>>)>>,
   tail   |-> <<call(<<"DEL", k1>>), pcall(<<"SELECT", "forty">>), call(<<"SET", k1, b>>)>>,
   mixed  |-> <<pcall(<<"RPUSH", k1, a>>), call(<<"SET", k1, b>>), call(<<"RPUSH", k1, a>>),
                call(<<"FLUSHDB">>)>>,
   late   |-> <<call(<<"SET", k1, a>>), call(<<"EXPIRE", k1, "forty">>)>>,
   clear  |-> <<call(<<"SCRIPT", "FLUSH">>), call(<<"QUIT">>)>>,
   nested |-> <<pcall(<<"EVALSHA", "jump", "zero">>), call(<<"SCRIPT", "LOAD", "jump">>)>>]

Script(s) == Request(<<"EVAL", s, "zero">>)
Loading ==
  Pipeline(<<Request(<<"SCRIPT", "LOAD", "jump">>), Request(<<"EVALSHA", "jump", "zero">>), Request(<<"GET", k1>>),
             Request(<<"EVALSHA", "jump", "zero">>)>>)
Clearing == Pipeline(<<Script("clear"), Request(<<"EVAL", "put", "one", k1, a>>)>>)
Nesting  == Pipeline(<<Script("jump"), Script("nested")>>)
Failing  == Pipeline(<<Script("mixed"), Script("tail"), Script("put")>>)
Refused  == Pipeline(<<Request(<<"EVAL", "put", "two", k1>>), Request(<<"SCRIPT", "LOAD">>), Script("late")>>)

Sharing == [c \in {c1, c2} |->
             IF c = c1 THEN {Selecting, Loading, Refused}
             ELSE {OtherDb, Expiring, Clearing, Nesting, Failing}]
NoScripts == [s \in {} |-> <<>>]

\* Parses and Performs, with their arguments evaluated once.
MCParses(args) == \A x \in {args} : Accepted(x)
MCPerforms(w, args, t) ==
  CHOOSE done \in {Execute(x[1], x[2], x[3]) : x \in {<<w, args, t>>}} : TRUE

Seen == <<dbs, now, conn, cache>>

Odd == [c \in {c1, c2} |->
             IF c = c1 THEN {BadLength, BadFrames, Nested, BadRequests, Leaving, TooLong, Overlong,
                            Cut}
             ELSE {Crashing}]
=============================================================================
