------------------------------- MODULE Scripts -------------------------------
(***************************************************************************)
(* What one request does to the server: cmd::parse and cmd::execute        *)
(* (src/cmd/mod.rs) for a choice of the commands, and the Lua scripts      *)
(* (src/script/mod.rs) that issue requests of their own.  Accepted and     *)
(* Execute are what the Server takes for Parses and Performs.              *)
(*                                                                         *)
(* A request is its arguments, a sequence of words.  Of a Lua program the  *)
(* redis.call and redis.pcall it makes are kept, in order; it returns what *)
(* the last of them did.  A script stands for its SHA1 too.                *)
(***************************************************************************)
EXTENDS Server

CONSTANTS Decimal,   \* the numeral arguments, mapped to their values
          Body       \* the scripts, mapped to the calls they make

ASSUME DecimalAssumption == \A w \in DOMAIN Decimal : Decimal[w] \in Int
ASSUME BodyAssumption ==
  \A s \in DOMAIN Body : \A j \in 1..Len(Body[s]) :
    Body[s][j].how \in {"call", "pcall"} /\ Len(Body[s][j].args) > 0

-----------------------------------------------------------------------------
(* parse.                                                                  *)

\* The numbers of arguments a command takes; DBSIZE and the like ignore theirs.
Arity == [PING |-> {0, 1}, ECHO |-> {1}, SELECT |-> {1}, GET |-> {1}, SET |-> {2, 3},
          EXPIRE |-> {2}, DEL |-> Nat \ {0}, RPUSH |-> Nat \ {0, 1}, DBSIZE |-> Nat,
          FLUSHDB |-> Nat, FLUSHALL |-> Nat, QUIT |-> Nat, EVAL |-> Nat \ {0, 1},
          EVALSHA |-> Nat \ {0, 1}, SCRIPT |-> Nat \ {0}]

\* EVAL and EVALSHA: script numkeys key ... arg ...; the keys have to be there.
NumKeys(args) == Decimal[args[3]]
KeysOf(args) == SubSeq(args, 4, 3 + NumKeys(args))
ArgvOf(args) == SubSeq(args, 4 + NumKeys(args), Len(args))
EvalParses(args) ==
  args[3] \in DOMAIN Decimal /\ NumKeys(args) \in 0..(Len(args) - 3)

\* SCRIPT LOAD script and SCRIPT FLUSH.
ScriptParses(args) == args[2] = "FLUSH" \/ (args[2] = "LOAD" /\ Len(args) > 2)

\* SET key value option: a flag, or the name of a time with no time behind it.
Flags == {"NX", "XX", "GET", "KEEPTTL"}
Timed == {"EX", "PX", "EXAT", "PXAT"}

\* Faulty variant: parse_select without its range check.
SelectParsesAny(args) == args[2] \in DOMAIN Decimal

SelectParses(args) == args[2] \in DOMAIN Decimal /\ Decimal[args[2]] \in Index

\* parse() succeeds: a known command, a number of arguments it takes, numbers that
\* are some, a database SELECT accepts.
Accepted(args) ==
  /\ args[1] \in DOMAIN Arity
  /\ Len(args) - 1 \in Arity[args[1]]
  /\ args[1] = "SELECT" => SelectParses(args)
  /\ args[1] = "SET" /\ Len(args) = 4 => args[4] \in Flags \cup Timed
  /\ args[1] = "EXPIRE" => args[3] \in DOMAIN Decimal
  /\ args[1] \in {"EVAL", "EVALSHA"} => EvalParses(args)
  /\ args[1] = "SCRIPT" => ScriptParses(args)

-----------------------------------------------------------------------------
(* execute, for the commands that are no scripts.                          *)

SetArgs(args) ==
  LET given(flag) == Len(args) = 4 /\ args[4] = flag
  IN  [nx |-> given("NX"), xx |-> given("XX"), get |-> given("GET"),
       keepttl |-> given("KEEPTTL"), expire |-> Never]

\* A method of Database on the selected database; SELECT accepts databases the
\* server does not have.
OnDb(w, out) ==
  IF w.index \notin Dbs THEN Answer(w, Err("DBINDEX"))
  ELSE Answer([w EXCEPT !.dbs = [@ EXCEPT ![w.index] = out.ldb]], out.reply)

\* What follows parse for one command.  A SET whose last argument is the name of a
\* time never gets there: parse_set indexes behind the arguments and panics, which
\* nothing between the two tells from a panic of execute.
ExecuteCommand(w, args, t) ==
  LET l == w.dbs[w.index]
      name == args[1]
  IN  CASE name = "PING"     -> Answer(w, IF Len(args) = 1 THEN <<"pong">> ELSE Bulk(<<args[2]>>))
        [] name = "ECHO"     -> Answer(w, Bulk(<<args[2]>>))
        [] name = "SELECT"   -> Answer([w EXCEPT !.index = Decimal[args[2]]], Ok)
        [] name = "QUIT"     -> Answer(w, Ok)
        [] name = "GET"      -> OnDb(w, Out(l, StrGet(l, args[2], t)))
        [] name = "DBSIZE"   -> OnDb(w, Out(l, Num(DbSize(l, t))))
        [] name = "SET"      -> IF Len(args) = 4 /\ args[4] \in Timed THEN Answer(w, Panic)
                                ELSE OnDb(w, ExecSet(l, args[2], <<args[3]>>, SetArgs(args), t))
        [] name = "EXPIRE"   -> OnDb(w, Expire(l, args[2], Decimal[args[3]], t))
        [] name = "DEL"      -> OnDb(w, Del(l, {args[j] : j \in 2..Len(args)}))
        [] name = "RPUSH"    -> OnDb(w, RPush(l, args[2], SubSeq(args, 3, Len(args))))
        [] name = "FLUSHDB"  -> OnDb(w, FlushDb(l))
        [] name = "FLUSHALL" -> Answer([w EXCEPT !.dbs = [j \in Dbs |-> EmptyDb]], Ok)

\* SCRIPT LOAD answers with the SHA1.
ScriptCommand(w, args) ==
  IF args[2] = "FLUSH" THEN Answer([w EXCEPT !.cache = {}], Ok)
  ELSE Answer([w EXCEPT !.cache = @ \cup {args[3]}], Bulk(<<args[3]>>))

-----------------------------------------------------------------------------
(* Scripts.                                                                *)

RECURSIVE Execute(_, _, _)

\* The arguments of a call, with the KEYS and ARGV of the script; Unbound is the
\* nil of a key or an argument the script was not given.
Unbound == "nil"
Filled(args, keys, argv) ==
  [j \in 1..Len(args) |->
     CASE args[j] = "KEYS[1]" -> IF Len(keys) > 0 THEN keys[1] ELSE Unbound
       [] args[j] = "KEYS[2]" -> IF Len(keys) > 1 THEN keys[2] ELSE Unbound
       [] args[j] = "ARGV[1]" -> IF Len(argv) > 0 THEN argv[1] ELSE Unbound
       [] OTHER               -> args[j]]

\* frame_to_lua_value and, when the script returns it, lua_value_to_frame: a
\* simple string comes back as a bulk string; Null, integers and errors survive.
ThroughLua(r) == IF r \in {Ok, <<"pong">>} THEN Bulk(r) ELSE r

\* How far a script has come: ran the world, reply what its last call returned,
\* raised whether a Lua error, or a panic on its way through Lua, has ended it.
At(w, r, raised) == [world |-> w, reply |-> r, raised |-> raised]

\* Faulty variant: the calls share the db_index of the connection.
OwnIndexShared(w, u) == u

\* The command of a call selects on a copy of db_index.
OwnIndex(w, u) == [u EXCEPT !.index = w.index]

\* Faulty variant: redis.call hands an error reply to the script, as redis.pcall
\* does.
RaisesNever(call, reply) == reply = Panic

\* An error reply raises a Lua error in redis.call, not in redis.pcall.
Raises(call, reply) == reply = Panic \/ (IsError(reply) /\ call.how = "call")

\* exec_redis_call: an argument that is nil, and a command parse refuses, raise a
\* Lua error in redis.pcall too.
Call(w, call, keys, argv, t) ==
  LET args == Filled(call.args, keys, argv)
      done == Execute(w, args, t)
      own  == OwnIndex(w, done.world)
  IN  IF (\E j \in 1..Len(args) : args[j] = Unbound) \/ ~Accepted(args)
      THEN At(w, Err("SCRIPT"), TRUE)
      ELSE IF Raises(call, done.reply)
      THEN At(own, IF done.reply = Panic THEN Panic ELSE Err("SCRIPT"), TRUE)
      ELSE At(own, ThroughLua(done.reply), FALSE)

\* ScriptEngine::eval: one call after the other; what ran before an error stays.
Eval(w, calls, keys, argv, t) ==
  LET upto[n \in 0..Len(calls)] ==
        IF n = 0 THEN At(w, Nil, FALSE)
        ELSE LET before == upto[n - 1]
             IN  IF before.raised THEN before
                 ELSE Call(before.world, calls[n], keys, argv, t)
      end == upto[Len(calls)]
  IN  Answer(end.world, end.reply)

\* Faulty variant: EVALSHA takes the script out of the cache.
EvalShaOnce(w, args, t) ==
  IF args[2] \notin w.cache THEN Answer(w, Err("NOSCRIPT"))
  ELSE Eval([w EXCEPT !.cache = @ \ {args[2]}], Body[args[2]], KeysOf(args), ArgvOf(args), t)

\* EVAL leaves the script out of the cache EVALSHA looks in.
EvalSha(w, args, t) ==
  IF args[2] \notin w.cache THEN Answer(w, Err("NOSCRIPT"))
  ELSE Eval(w, Body[args[2]], KeysOf(args), ArgvOf(args), t)

\* execute, for a request parse accepts.
Execute(w, args, t) ==
  CASE args[1] = "EVAL"    -> Eval(w, Body[args[2]], KeysOf(args), ArgvOf(args), t)
    [] args[1] = "EVALSHA" -> EvalSha(w, args, t)
    [] args[1] = "SCRIPT"  -> ScriptCommand(w, args)
    [] OTHER               -> ExecuteCommand(w, args, t)
=============================================================================
