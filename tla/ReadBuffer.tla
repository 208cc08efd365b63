------------------------------ MODULE ReadBuffer ------------------------------
(***************************************************************************)
(* AsyncReadBuffer of epoller.py: a stream that the kernel delivers in     *)
(* pieces of any size is parsed into structs, prefixed strings, lines and  *)
(* netstrings.  A call may be cancelled and made again.  Each call is      *)
(* compared with a definition over the whole stream.                       *)
(*                                                                         *)
(* A byte of the stream is a digit, a colon or a comma.  A size_t is one   *)
(* byte; the length of a netstring is a decimal number.                   *)
(***************************************************************************)
EXTENDS Integers, Sequences, SequencesExt

CONSTANTS
    Digits,           \* a set of digits: a subset of DOMAIN Val
    MaxStream,        \* bound: bytes in the stream
    MaxCalls,         \* bound: calls
    Ops               \* which operations are called

Val == [d \in {"0", "1", "2"} |-> CASE d = "0" -> 0 [] d = "1" -> 1 [] d = "2" -> 2]

\* The size_t that a byte stands for.
SizeT(b) == IF b \in DOMAIN Val THEN Val[b] ELSE 3

ReadBufferAssumption ==
    /\ Digits \subseteq DOMAIN Val /\ MaxStream \in Nat /\ MaxCalls \in Nat
    /\ Ops \subseteq {"length2", "string", "line", "netstring"}

VARIABLES
    stream,           \* what the other side writes before it closes
    pos,              \* how many bytes the kernel has given out
    unread,           \* unread_ptr: <<bytes>> of the last read, or << >>
    buf,              \* self.buf
    place,            \* how many bytes calls have consumed
    op,               \* the call that runs, or "none"
    stage,            \* which part of it it is in
    need,             \* the length the current part asks for
    part,             \* what earlier parts returned that is needed later
    start,            \* the place in the stream at which the call began
    ret,              \* how the last call ended
    calls             \* how many calls were made

vars == <<stream, pos, unread, buf, place, op, stage, need, part, start, ret, calls>>

Bytes == Digits \cup {":", ","}
Unread == IF unread = << >> THEN << >> ELSE unread[1]

NoReturn == [kind |-> "none", data |-> << >>]

Init ==
    /\ stream \in UNION {[1..n -> Bytes] : n \in 0..MaxStream}
    /\ pos = 0 /\ unread = << >> /\ buf = << >> /\ place = 0
    /\ op = "none" /\ stage = "idle" /\ need = 0 /\ part = << >> /\ start = 0
    /\ ret = NoReturn /\ calls = 0

-----------------------------------------------------------------------------
\* How a call begins: with a length, or with a search for a delimiter.
FirstStage(o) == CASE o = "length2" -> [stage |-> "length", need |-> 2]
                   [] o = "string" -> [stage |-> "size", need |-> 1]
                   [] o = "line" -> [stage |-> "delim", need |-> 0]
                   [] o = "netstring" -> [stage |-> "colon", need |-> 0]

Call(o) ==
    /\ op = "none" /\ calls < MaxCalls
    /\ op' = o /\ stage' = FirstStage(o).stage /\ need' = FirstStage(o).need
    /\ calls' = calls + 1 /\ start' = place /\ part' = << >> /\ ret' = NoReturn
    /\ UNCHANGED <<stream, pos, unread, buf, place>>

Delim == IF stage = "colon" THEN ":" ELSE ","

\* Whether the part that runs has to read more.
Lacking == IF stage \in {"delim", "colon"} THEN ~Contains(buf, Delim) ELSE Len(buf) < need

\* _read: the kernel's part.  The pointer is kept until its bytes are fetched.
KernelRead(n) ==
    /\ op # "none" /\ Lacking /\ unread = << >>
    /\ n <= Len(stream) - pos /\ (n = 0 => pos = Len(stream))
    /\ unread' = << SubSeq(stream, pos + 1, pos + n) >> /\ pos' = pos + n
    /\ UNCHANGED <<stream, buf, place, op, stage, need, part, start, ret, calls>>

\* _read: the bytes are read from the other process' memory.
Fetch ==
    /\ op # "none" /\ Lacking /\ Unread # << >>
    /\ buf' = buf \o Unread /\ unread' = << >>
    /\ UNCHANGED <<stream, pos, place, op, stage, need, part, start, ret, calls>>

Return(kind, data) ==
    /\ ret' = [kind |-> kind, data |-> data]
    /\ op' = "none" /\ stage' = "idle" /\ need' = 0 /\ part' = << >>
    /\ UNCHANGED <<stream, start, calls>>

\* A read of no bytes raises EOFError.  read_length_prefixed_string catches it
\* and goes on without its result.
Eof ==
    /\ op # "none" /\ Lacking /\ unread # << >> /\ Unread = << >>
    /\ unread' = << >>
    /\ Return(IF op = "string" /\ stage = "data" THEN "unbound" ELSE "eof", << >>)
    /\ UNCHANGED <<pos, buf, place>>

\* int() of the bytes before the colon.
Number(digits) == FoldLeft(LAMBDA n, d : 10 * n + Val[d], 0, digits)

\* Mutant of NextStage: the comma is not looked at.
NextStageShort == IF stage \in {"size", "colon"} THEN "data" ELSE "end"

\* The part that follows.
NextStage == CASE stage \in {"size", "colon"} -> "data"
               [] stage = "data" /\ op = "netstring" -> "comma"
               [] OTHER -> "end"

\* The buffer holds what the part that runs asks for.
Take ==
    LET i     == IF stage \in {"delim", "colon"} THEN SelectInSeq(buf, LAMBDA b : b = Delim) ELSE need + 1
        taken == SubSeq(buf, 1, i - 1)
        size  == IF stage \in {"delim", "colon"} THEN i ELSE need
    IN
    /\ op # "none" /\ ~Lacking
    /\ buf' = SubSeq(buf, size + 1, Len(buf)) /\ place' = place + size
    /\ UNCHANGED <<pos, unread>>
    /\ IF stage = "colon" /\ (taken = << >> \/ ~(ToSet(taken) \subseteq Digits))
       THEN Return("bad", << >>)
       ELSE IF stage = "comma" /\ taken # <<",">>
       THEN Return("bad", << >>)
       ELSE IF NextStage = "end"
       THEN Return("ok", IF stage = "comma" THEN part ELSE taken)
       ELSE /\ stage' = NextStage
            /\ need' = IF stage = "size" THEN SizeT(taken[1])
                       ELSE IF stage = "colon" THEN Number(taken) ELSE 1
            /\ part' = taken
            /\ UNCHANGED <<stream, op, start, ret, calls>>

\* The caller is cancelled, or fails, while the bytes are fetched; what was
\* read stays in unread_ptr.
Cancel ==
    /\ op # "none" /\ Lacking /\ Unread # << >>
    /\ Return("cancelled", << >>)
    /\ UNCHANGED <<pos, unread, buf, place>>

Next ==
    \/ \E o \in Ops : Call(o)
    \/ \E n \in 0..MaxStream : KernelRead(n)
    \/ Fetch \/ Eof \/ Take \/ Cancel

Spec == Init /\ [][Next]_vars

-----------------------------------------------------------------------------
(* Properties *)

\* The buffer and the pointer hold what the kernel gave out and no call took:
\* no byte is lost, doubled or moved, even when a call is cancelled.
NoByteLost == buf \o Unread = SubSeq(stream, place + 1, pos)

Good(data, n) == [kind |-> "ok", data |-> data, size |-> n]
Fail(kind) == [kind |-> kind, data |-> << >>, size |-> 0]

\* What a call returns for a whole stream s.
Whole(o, s) ==
    LET upTo(d) == SelectInSeq(s, LAMBDA b : b = d)
        len     == IF o = "string" THEN IF s = << >> THEN 0 ELSE SizeT(s[1])
                   ELSE Number(SelectSeq(SubSeq(s, 1, upTo(":") - 1), LAMBDA b : b \in Digits))
        from    == IF o = "string" THEN 1 ELSE upTo(":")
        wanted  == from + len + (IF o = "netstring" THEN 1 ELSE 0)
    IN
    CASE o = "length2" -> IF Len(s) >= 2 THEN Good(SubSeq(s, 1, 2), 2) ELSE Fail("eof")
      [] o = "line" -> IF upTo(",") = 0 THEN Fail("eof") ELSE Good(SubSeq(s, 1, upTo(",") - 1), upTo(","))
      [] o = "netstring" /\ (upTo(":") = 1 \/ \E i \in 1..(upTo(":") - 1) : s[i] \notin Digits) -> Fail("bad")
      [] o \in {"string", "netstring"} /\ (Len(s) < from + len \/ from = 0 \/ Len(s) < wanted) -> Fail("eof")
      [] o = "netstring" /\ s[wanted] # "," -> Fail("bad")
      [] OTHER -> Good(SubSeq(s, from + 1, from + len), wanted)

Expected == [o \in Ops |-> Whole(o, SubSeq(stream, start + 1, Len(stream)))]

(***************************************************************************)
(* However the stream is cut, whatever calls went before: a call that      *)
(* returns, returns what the whole stream says and consumes exactly that,  *)
(* and one that raises does so because the stream is short or malformed.   *)
(***************************************************************************)
ParsedAsWhole ==
    [][op # "none" /\ op' = "none" /\ ret'.kind # "cancelled" =>
         LET w == Expected[op] IN
         /\ ret'.kind = "ok" <=> w.kind = "ok"
         /\ ret'.kind = "ok" => ret'.data = w.data /\ place' = start + w.size
         /\ ret'.kind = "bad" <=> w.kind = "bad"]_vars

\* "raises on EOF": a stream that ends early is an EOFError for the caller.
EndIsEOFError == ret.kind # "unbound"

\* read_until_delimiter: "on EOF, return None", which read_line tests for.
LineEndIsNone == [][op = "line" /\ op' = "none" => ret'.kind # "eof"]_vars
=============================================================================
