-------------------------------- MODULE Resp --------------------------------
(***************************************************************************)
(* The request side of the protocol (src/proto/mod.rs).                    *)
(*                                                                         *)
(* The bytes of a connection are a sequence of lines, each up to its CRLF: *)
(*   [t |-> "array", n]  *n     [t |-> "simple", words]  +word             *)
(*   [t |-> "bulk"]      $n     [t |-> "null"]           $-1 and *-1       *)
(*   [t |-> "int"]       :n     [t |-> "bad"]            *x, $x and :x     *)
(*   [t |-> "text", words]      anything else: the data of a bulk string   *)
(*                              (one word), or an inline command           *)
(* A cut inside a line is one before it to parse_frame, which finds no     *)
(* CRLF.  A bulk string is as long as its header says, and arrays nest     *)
(* only as deep as the stack allows.                                       *)
(***************************************************************************)
EXTENDS Integers, Sequences

CONSTANT ArrayMax   \* Vec::with_capacity panics for an array of more frames

ASSUME ArrayMaxAssumption == ArrayMax \in Nat

\* The outcome of decode_frame: the lines up to pos are one frame, or there is
\* none for this reason.
Complete(pos) == [st |-> "ok", pos |-> pos]
Incomplete    == [st |-> "incomplete"]
Malformed     == [st |-> "error"]
Fatal         == [st |-> "panic"]

\* ... or there may be one: the next frame begins at p, and the frame read so far
\* contains n others.
GoOn(p, n) == [st |-> "more", next |-> p, frames |-> n]

\* One call of decode_frame, at the line p of b, up to its recursive calls.  The
\* frames of an array are allotted their room before the first of them is read.
DecodeLine(b, p) ==
  CASE b[p].t = "array" -> IF b[p].n > ArrayMax THEN Fatal ELSE GoOn(p + 1, b[p].n)
    [] b[p].t = "bulk"  -> IF p = Len(b) THEN Incomplete ELSE GoOn(p + 2, 0)
    [] b[p].t = "text" /\ b[p].words # <<>> -> GoOn(p + 1, 0)
    [] b[p].t \in {"simple", "int", "null"} -> GoOn(p + 1, 0)
    [] OTHER -> Malformed

\* Where a reader of b can be: at the line at[1], with at[2] frames to go.
Readers(b) == (1..(Len(b) + 1)) \X Nat

\* decode_frame at the start of b.
DecodeFrame(b) ==
  LET more[at \in Readers(b)] ==
        LET line == DecodeLine(b, at[1])
        IN  IF at[2] = 0 THEN Complete(at[1] - 1)
            ELSE IF at[1] > Len(b) THEN Incomplete
            ELSE IF line.st = "more" THEN more[<<line.next, line.frames + at[2] - 1>>]
            ELSE line
  IN  more[<<1, 1>>]

FrameOf(b, d) == SubSeq(b, 1, d.pos)

\* Faulty variant: the buffer is cleared instead of advanced.
AfterClear(b, d) == <<>>

\* What parse_frame leaves in the buffer.
After(b, d) == SubSeq(b, d.pos + 1, Len(b))

\* frame_to_cmd_args accepts an array of bulk and simple strings; an inline
\* command has been made one.  A text inside an array is data, or a nested inline
\* command.
IsRequest(f) ==
  \/ f[1].t = "text"
  \/ /\ f[1].t = "array"
     /\ \A j \in 2..Len(f) : \/ f[j].t \in {"bulk", "simple"}
                             \/ f[j].t = "text" /\ f[j - 1].t = "bulk"

CmdArgs(f) ==
  LET strings == SelectSeq(f, LAMBDA line : line.t \in {"simple", "text"})
  IN  IF f[1].t = "text" THEN f[1].words
      ELSE [j \in 1..Len(strings) |-> strings[j].words[1]]
=============================================================================
