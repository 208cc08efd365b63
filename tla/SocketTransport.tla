---------------------------- MODULE SocketTransport ----------------------------
(***************************************************************************)
(* memory/socket_transport.py: memory of another address space is written  *)
(* by a local write to a socket and a remote recv, and read by a remote    *)
(* write and a local read.  All coroutines share the socket, and nothing   *)
(* in its bytes says whose they are.                                       *)
(*                                                                         *)
(* The remote server performs system calls in the order they were          *)
(* submitted, and results return in that order (module SyscallConnection). *)
(* A byte is the operation it belongs to.                                  *)
(***************************************************************************)
EXTENDS Naturals, Sequences, FiniteSets

CONSTANTS
    Procs,            \* coroutines
    Sizes,            \* how many bytes they move
    MaxOps,           \* bound: operations started
    Capacity,         \* bytes the socket holds in each direction
    Faults            \* "cancel", "delay": bytes for us arrive later than the
                      \* result of the write, as over ssh

TransportAssumption ==
    /\ Sizes \subseteq Nat /\ MaxOps \in Nat /\ Capacity \in Nat
    /\ Faults \subseteq {"cancel", "delay"}

VARIABLES
    procs,            \* what each coroutine does
    count,            \* operations started
    toRemote,         \* bytes in the socket, from local to remote
    toLocal,          \* and back, as far as they have arrived
    wire,             \* and those that have not
    remote,           \* system calls of the remote server not performed yet
    written,          \* results of local writes on their way to the coroutines
    results,          \* and those of remote system calls, in order
    wrong             \* operations that moved bytes of another one

vars == <<procs, count, toRemote, toLocal, wire, remote, written, results, wrong>>

Idle == [pc |-> "idle"]

Init ==
    /\ procs = [c \in Procs |-> Idle] /\ count = 0
    /\ toRemote = << >> /\ toLocal = << >> /\ wire = << >>
    /\ remote = << >> /\ written = << >> /\ results = << >> /\ wrong = {}

-----------------------------------------------------------------------------
Bytes(op, n) == [k \in 1..n |-> op]
Take(s, n) == SubSeq(s, 1, n)
Drop(s, n) == SubSeq(s, n + 1, Len(s))

\* Bytes that op received and that are not its own.
Note(op, bytes) ==
    wrong' = IF \A k \in 1..Len(bytes) : bytes[k] = op THEN wrong ELSE wrong \cup {op}

\* The result of op is for a coroutine that still waits for it.
Waits(c, op) == procs[c] # Idle /\ procs[c].op = op
Ended(c) == procs' = [procs EXCEPT ![c] = Idle]

\* write and read; there is nothing to do for no bytes.
Begin(c, size, pc) ==
    /\ procs[c] = Idle /\ count < MaxOps
    /\ count' = count + 1
    /\ procs' = [procs EXCEPT ![c] =
                   IF size = 0 THEN Idle ELSE [pc |-> pc, op |-> count, size |-> size]]

Write(c, size) ==
    /\ Begin(c, size, "write")
    /\ UNCHANGED <<toRemote, toLocal, wire, remote, written, results, wrong>>

\* Mutant of LocalWrite: the remote recv is submitted in whatever order.
LocalWriteUnordered(c) ==
    LET op == procs[c].op  n == procs[c].size IN
    /\ procs[c].pc = "write" /\ Len(toRemote) + n <= Capacity
    /\ toRemote' = toRemote \o Bytes(op, n)
    /\ written' = <<[proc |-> c, op |-> op, call |-> "write", n |-> n]>> \o written
    /\ procs' = [procs EXCEPT ![c].pc = "wrote"]
    /\ UNCHANGED <<count, toLocal, wire, remote, results, wrong>>

\* The local write is performed when the socket has room, perhaps not for all.
LocalWrite(c) ==
    LET op == procs[c].op
        room == Capacity - Len(toRemote)
        n == IF procs[c].size <= room THEN procs[c].size ELSE room
    IN  /\ procs[c].pc = "write" /\ room > 0
        /\ toRemote' = toRemote \o Bytes(op, n)
        /\ written' = Append(written, [proc |-> c, op |-> op, call |-> "write", n |-> n])
        /\ procs' = [procs EXCEPT ![c].pc = "wrote"]
        /\ UNCHANGED <<count, toLocal, wire, remote, results, wrong>>

\* Its result: the recv of what was written is submitted at once.
WriteReturns ==
    LET r == Head(written)  c == r.proc IN
    /\ written # << >>
    /\ written' = Tail(written)
    /\ IF ~Waits(c, r.op) THEN UNCHANGED <<procs, remote>>
       ELSE IF r.n # procs[c].size           \* partial write: NotImplementedError
       THEN Ended(c) /\ UNCHANGED remote
       ELSE /\ remote' = Append(remote, [proc |-> c, op |-> r.op, call |-> "recv", n |-> r.n])
            /\ procs' = [procs EXCEPT ![c].pc = "recv"]
    /\ UNCHANGED <<count, toRemote, toLocal, wire, results, wrong>>

\* The server's recv with MSG_WAITALL blocks until it has all its bytes.
RemoteRecv ==
    LET r == Head(remote) IN
    /\ remote # << >> /\ r.call = "recv" /\ Len(toRemote) >= r.n
    /\ Note(r.op, Take(toRemote, r.n))
    /\ toRemote' = Drop(toRemote, r.n)
    /\ remote' = Tail(remote)
    /\ results' = Append(results, r)
    /\ UNCHANGED <<procs, count, toLocal, wire, written>>

RecvReturns ==
    LET r == Head(results) IN
    /\ results # << >> /\ r.call = "recv"
    /\ results' = Tail(results)
    /\ IF Waits(r.proc, r.op) THEN Ended(r.proc) ELSE UNCHANGED procs
    /\ UNCHANGED <<count, toRemote, toLocal, wire, remote, written, wrong>>

-----------------------------------------------------------------------------
\* read submits the remote write first.
Read(c, size) ==
    /\ Begin(c, size, "rwrite")
    /\ remote' = IF size = 0 THEN remote
                 ELSE Append(remote, [proc |-> c, op |-> count, call |-> "rwrite", n |-> size])
    /\ UNCHANGED <<toRemote, toLocal, wire, written, results, wrong>>

\* The server's write blocks until there is room for all its bytes.
RemoteWrite ==
    LET r == Head(remote) IN
    /\ remote # << >> /\ r.call = "rwrite"
    /\ Len(toLocal) + Len(wire) + r.n <= Capacity
    /\ IF "delay" \in Faults
       THEN wire' = wire \o Bytes(r.op, r.n) /\ UNCHANGED toLocal
       ELSE toLocal' = toLocal \o Bytes(r.op, r.n) /\ UNCHANGED wire
    /\ remote' = Tail(remote)
    /\ results' = Append(results, r)
    /\ UNCHANGED <<procs, count, toRemote, written, wrong>>

Arrive ==
    /\ wire # << >>
    /\ toLocal' = Append(toLocal, Head(wire)) /\ wire' = Tail(wire)
    /\ UNCHANGED <<procs, count, toRemote, remote, written, results, wrong>>

\* Its result: the coroutine's local read is submitted at once, and performed
\* with those of the others in that order (place).
RemoteWriteReturns ==
    LET r == Head(results) IN
    /\ results # << >> /\ r.call = "rwrite"
    /\ results' = Tail(results)
    /\ procs' = IF Waits(r.proc, r.op)
                THEN [procs EXCEPT ![r.proc].pc = "read"] ELSE procs
    /\ UNCHANGED <<count, toRemote, toLocal, wire, remote, written, wrong>>

\* The first of the reads that wait for bytes; results came in the order of ops.
IsNext(c) == \A d \in Procs : procs[d].pc = "read" => procs[c].op <= procs[d].op

(***************************************************************************)
(* The local read takes what is there, up to the size; fewer bytes than    *)
(* asked for raise NotImplementedError.  It finds nothing only when bytes  *)
(* can be late; then it waits for the next event of the socket, and        *)
(* another coroutine's read may be performed before its own second try.    *)
(***************************************************************************)
LocalRead(c) ==
    LET op == procs[c].op
        n == IF procs[c].size <= Len(toLocal) THEN procs[c].size ELSE Len(toLocal)
    IN  /\ procs[c].pc = "read" /\ toLocal # << >>
        /\ "delay" \in Faults \/ IsNext(c)
        /\ Note(op, Take(toLocal, n))
        /\ toLocal' = Drop(toLocal, n)
        /\ Ended(c)
        /\ UNCHANGED <<count, toRemote, wire, remote, written, results>>

\* trio cancels a coroutine; its system calls go on.
Cancel(c) ==
    /\ "cancel" \in Faults /\ procs[c] # Idle
    /\ Ended(c)
    /\ UNCHANGED <<count, toRemote, toLocal, wire, remote, written, results, wrong>>

-----------------------------------------------------------------------------
System == WriteReturns \/ RemoteRecv \/ RecvReturns \/ RemoteWrite \/ Arrive
          \/ RemoteWriteReturns \/ \E c \in Procs : LocalWrite(c) \/ LocalRead(c)

Finished == /\ count = MaxOps /\ \A c \in Procs : procs[c] = Idle
            /\ remote = << >> /\ written = << >> /\ results = << >>
            /\ UNCHANGED vars

Next ==
    \/ System
    \/ \E c \in Procs : Cancel(c) \/ \E n \in Sizes : Write(c, n) \/ Read(c, n)
    \/ Finished

Spec == Init /\ [][Next]_vars

\* The two threads and the network go on by themselves.
FairSpec == Spec /\ WF_vars(WriteReturns) /\ WF_vars(RemoteRecv) /\ WF_vars(RecvReturns)
                 /\ WF_vars(RemoteWrite) /\ WF_vars(Arrive) /\ WF_vars(RemoteWriteReturns)
                 /\ \A c \in Procs : WF_vars(LocalWrite(c)) /\ WF_vars(LocalRead(c))

-----------------------------------------------------------------------------
(* Properties *)

Op == 0..(MaxOps - 1)
Calls == [proc : Procs, op : Op, call : {"write", "recv", "rwrite"}, n : Nat]

\* Every variable has a value the code can give it.
TypeOK ==
    /\ \A c \in Procs : procs[c] = Idle
         \/ procs[c] \in [pc : {"write", "wrote", "recv", "rwrite", "read"}, op : Op, size : Sizes]
    /\ count \in 0..MaxOps /\ wrong \subseteq Op
    /\ {toRemote, toLocal, wire} \subseteq Seq(Op)
    /\ Len(toRemote) <= Capacity /\ Len(toLocal) + Len(wire) <= Capacity
    /\ {remote, written, results} \subseteq Seq(Calls)

(***************************************************************************)
(* "we rely on the corresponding write or read on the other end of the     *)
(* socketpair to be submitted immediately, so that the data is processed   *)
(* in order": each operation moves its own bytes.                          *)
(***************************************************************************)
OwnBytes == wrong = {}

\* Every write and read of memory ends, "and return[s] its contents".
EveryOpEnds == \A c \in Procs : procs[c] # Idle ~> procs[c] = Idle
=============================================================================
