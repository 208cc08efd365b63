------------------------------ MODULE Bootstrap ------------------------------
(***************************************************************************)
(* tasks/stdin_bootstrap.py and tasks/stub.py with the C programs they     *)
(* talk to: a new process gets its end of a system call socket and of a    *)
(* data socket in a message, describes itself on the data socket, and then *)
(* serves system calls; from its description a Thread is built.            *)
(*                                                                         *)
(* With stdin, we start the process and the message goes over its stdin.   *)
(* A stub is started by somebody else and connects to our listening        *)
(* socket; several may do so at once.  A process may die at any time.      *)
(***************************************************************************)
EXTENDS Naturals, Sequences, FiniteSets

CONSTANTS
    Procs,            \* the new processes
    Calls,            \* calls of stdin_bootstrap, or of StubServer.accept
    Kind,             \* "stdin" or "stub"
    Args, Envs,       \* how many arguments and environment variables there are
    Nobody            \* no process

BootstrapAssumption ==
    /\ Kind \in {"stdin", "stub"} /\ Args \in Nat /\ Envs \in Nat
    /\ Nobody \notin Procs

Socks == {"syscall", "data"}

VARIABLES
    us,               \* what each call does
    peer,             \* the process it talks to
    conn,             \* who has the process' end of the bootstrap socket open
    ours,             \* we have our end of the bootstrap socket open
    hold,             \* for each call and passed socket: who has it open
    backlog,          \* stubs that connected and were not accepted
    them,             \* what each process does
    wrote,            \* how many things each process has written
    wire,             \* for each call, what is written to its data socket and not read
    buf,              \* AsyncReadBuffer: what is read and not parsed
    parsed            \* what each call got out of it

vars == <<us, peer, conn, ours, hold, backlog, them, wrote, wire, buf, parsed>>

\* What a process writes: the struct with the counts, then the arrays.
Description(p) ==
    LET strings(kind, n) == [i \in 1..n |-> [of |-> p, item |-> kind, nr |-> i]] IN
    <<[of |-> p, item |-> "describe", nr |-> 1]>>
        \o (IF Kind = "stub" THEN strings("arg", Args) ELSE << >>) \o strings("env", Envs)

Init ==
    /\ us = [c \in Calls |-> "start"] /\ peer = [c \in Calls |-> Nobody]
    /\ conn = [p \in Procs |-> {}] /\ ours = {}
    /\ hold = [c \in Calls |-> [s \in Socks |-> {}]]
    /\ backlog = << >> /\ them = [p \in Procs |-> "absent"] /\ wrote = [p \in Procs |-> 0]
    /\ wire = [c \in Calls |-> << >>] /\ buf = [c \in Calls |-> << >>] /\ parsed = [c \in Calls |-> << >>]

-----------------------------------------------------------------------------
(* Our side *)

\* stdin_bootstrap: the socket pair is made, the child is cloned and gets one
\* end as its stdin; our copy of that end is still open.
Spawn(c, p) ==
    /\ Kind = "stdin" /\ us[c] = "start" /\ them[p] = "absent"
    /\ us' = [us EXCEPT ![c] = "spawned"] /\ peer' = [peer EXCEPT ![c] = p]
    /\ ours' = ours \cup {c} /\ conn' = [conn EXCEPT ![p] = {"us", "them"}]
    /\ them' = [them EXCEPT ![p] = "command"]
    /\ UNCHANGED <<hold, backlog, wrote, wire, buf, parsed>>

\* stdin_pair.second.close(), and child.exec.
CloseTheirEnd(c) ==
    /\ us[c] = "spawned"
    /\ us' = [us EXCEPT ![c] = "channels"] /\ conn' = [conn EXCEPT ![peer[c]] = @ \ {"us"}]
    /\ UNCHANGED <<peer, ours, hold, backlog, them, wrote, wire, buf, parsed>>

\* StubServer.accept: the connection that waits longest.
Accept(c) ==
    /\ Kind = "stub" /\ us[c] = "start" /\ backlog # << >>
    /\ us' = [us EXCEPT ![c] = "channels"] /\ peer' = [peer EXCEPT ![c] = Head(backlog)]
    /\ ours' = ours \cup {c} /\ backlog' = Tail(backlog)
    /\ UNCHANGED <<conn, hold, them, wrote, wire, buf, parsed>>

\* open_async_channels: two socket pairs.
Channels(c) ==
    /\ us[c] = "channels"
    /\ us' = [us EXCEPT ![c] = "send"] /\ hold' = [hold EXCEPT ![c] = [s \in Socks |-> {"us"}]]
    /\ UNCHANGED <<peer, conn, ours, backlog, them, wrote, wire, buf, parsed>>

\* sendmsg with the sockets; EPIPE when nobody has the other end open.
Send(c) ==
    /\ us[c] = "send"
    /\ IF conn[peer[c]] = {}
       THEN us' = [us EXCEPT ![c] = "failed"] /\ UNCHANGED hold
       ELSE /\ us' = [us EXCEPT ![c] = "sent"]
            /\ hold' = [hold EXCEPT ![c] = [s \in Socks |-> @[s] \cup {"flight"}]]
    /\ UNCHANGED <<peer, conn, ours, backlog, them, wrote, wire, buf, parsed>>

\* Our copies of the passed sockets are closed, and the bootstrap socket.
ClosePassed(c) ==
    /\ us[c] = "sent"
    /\ us' = [us EXCEPT ![c] = "describe"] /\ ours' = ours \ {c}
    /\ hold' = [hold EXCEPT ![c] = [s \in Socks |-> @[s] \ {"us"}]]
    /\ UNCHANGED <<peer, conn, backlog, them, wrote, wire, buf, parsed>>

\* A read of the data socket: some of what is there, or EOF.
ReadData(c, n) ==
    /\ us[c] = "describe" /\ buf[c] = << >>
    /\ \/ /\ n \in 1..Len(wire[c])
          /\ buf' = [buf EXCEPT ![c] = SubSeq(wire[c], 1, n)]
          /\ wire' = [wire EXCEPT ![c] = SubSeq(@, n + 1, Len(@))]
          /\ UNCHANGED us
       \/ /\ n = 0 /\ wire[c] = << >> /\ hold[c]["data"] = {}
          /\ us' = [us EXCEPT ![c] = "failed"]
          /\ UNCHANGED <<buf, wire>>
    /\ UNCHANGED <<peer, conn, ours, hold, backlog, them, wrote, parsed>>

\* Mutant of Expected: one too few.
ExpectedShort == (IF Kind = "stub" THEN Args ELSE 0) + Envs

\* How many things are read: the struct, argc arguments, envp_count variables.
Expected == 1 + (IF Kind = "stub" THEN Args ELSE 0) + Envs

\* read_cffi, read_length_prefixed_array, read_envp.
Parse(c) ==
    /\ us[c] = "describe" /\ buf[c] # << >>
    /\ parsed' = [parsed EXCEPT ![c] = Append(@, Head(buf[c]))] /\ buf' = [buf EXCEPT ![c] = Tail(@)]
    /\ us' = [us EXCEPT ![c] = IF Len(parsed'[c]) = Expected THEN "build" ELSE @]
    /\ UNCHANGED <<peer, conn, ours, hold, backlog, them, wrote, wire>>

\* The Task and the Thread are built: the allocator, the epoller and the child
\* monitor make system calls in the process, over these sockets.
BuildThread(c) ==
    /\ us[c] = "build" /\ them[peer[c]] \in {"serve", "dead"}
    /\ us' = [us EXCEPT ![c] = IF them[peer[c]] = "serve" THEN "thread" ELSE "failed"]
    /\ UNCHANGED <<peer, conn, ours, hold, backlog, them, wrote, wire, buf, parsed>>

-----------------------------------------------------------------------------
(* The process *)

\* The command execs the program; or a stub starts and connects.
Exec(p) ==
    /\ \/ /\ them[p] = "command" /\ them' = [them EXCEPT ![p] = "recv"] /\ UNCHANGED <<conn, backlog>>
       \/ /\ Kind = "stub" /\ them[p] = "absent"
          /\ them' = [them EXCEPT ![p] = "recv"]
          /\ conn' = [conn EXCEPT ![p] = {"them"}] /\ backlog' = Append(backlog, p)
    /\ UNCHANGED <<us, peer, ours, hold, wrote, wire, buf, parsed>>

CallOf(p) == {c \in Calls : peer[c] = p}

\* receive_fds: the sockets.
ReceiveFds(p) ==
    /\ them[p] = "recv" /\ \E c \in CallOf(p) :
         /\ "flight" \in hold[c]["data"]
         /\ hold' = [hold EXCEPT ![c] = [s \in Socks |-> (@[s] \ {"flight"}) \cup {"them"}]]
    /\ them' = [them EXCEPT ![p] = "write"]
    /\ UNCHANGED <<us, peer, conn, ours, backlog, wrote, wire, buf, parsed>>

\* The struct and the strings are written; after the last, rsyscall_server.
Write(p) ==
    /\ them[p] = "write" /\ \E c \in CallOf(p) :
         /\ wire' = [wire EXCEPT ![c] = Append(@, Description(p)[wrote[p] + 1])]
         /\ wrote' = [wrote EXCEPT ![p] = @ + 1]
         /\ them' = [them EXCEPT ![p] = IF wrote'[p] = Len(Description(p)) THEN "serve" ELSE @]
    /\ UNCHANGED <<us, peer, conn, ours, hold, backlog, buf, parsed>>

\* The process ends: it is killed, or the command fails.  What was sent to it
\* and not received is closed as well, once its end has no other owner.
Die(p) ==
    /\ them[p] \in {"command", "recv", "write", "serve"}
    /\ them' = [them EXCEPT ![p] = "dead"] /\ conn' = [conn EXCEPT ![p] = @ \ {"them"}]
    /\ hold' = [c \in Calls |-> [s \in Socks |->
                  IF peer[c] = p THEN hold[c][s] \ ({"them"} \cup IF conn'[p] = {} THEN {"flight"} ELSE {})
                  ELSE hold[c][s]]]
    /\ UNCHANGED <<us, peer, ours, backlog, wrote, wire, buf, parsed>>

-----------------------------------------------------------------------------
OurStep(c) ==
    \/ CloseTheirEnd(c) \/ Accept(c) \/ Channels(c) \/ Send(c) \/ ClosePassed(c) \/ Parse(c) \/ BuildThread(c)
    \/ \E n \in 0..Len(wire[c]) : ReadData(c, n)
    \/ \E p \in Procs : Spawn(c, p)

TheirStep(p) == Exec(p) \/ ReceiveFds(p) \/ Write(p)

Next == (\E c \in Calls : OurStep(c)) \/ (\E p \in Procs : TheirStep(p) \/ Die(p))

\* Our coroutines and the processes go on when they can.
Fairness == (\A c \in Calls : WF_vars(OurStep(c))) /\ (\A p \in Procs : WF_vars(TheirStep(p)))

Spec == Init /\ [][Next]_vars /\ Fairness

-----------------------------------------------------------------------------
(* Properties *)

\* Every variable has a value the code can give it; a process talks to one call.
TypeOK ==
    /\ \A c \in Calls : us[c] \in {"start", "spawned", "channels", "send", "sent", "describe", "build", "thread", "failed"}
    /\ \A p \in Procs :
         /\ them[p] \in {"absent", "command", "recv", "write", "serve", "dead"}
         /\ Cardinality(CallOf(p)) <= 1 /\ conn[p] \subseteq {"us", "them"}
         /\ wrote[p] \in 0..Len(Description(p))

(***************************************************************************)
(* The thread that is returned is of one process: arguments and            *)
(* environment are those of the process that serves its system calls, in   *)
(* order, whatever other processes connect meanwhile.                      *)
(***************************************************************************)
ThreadIsOfProcess ==
    \A c \in Calls : us[c] \in {"build", "thread"} => parsed[c] = Description(peer[c])

(***************************************************************************)
(* When the Thread is built nothing of the description is left in the      *)
(* buffer, which is thrown away, or in the data socket, which now carries  *)
(* the contents of memory.                                                 *)
(***************************************************************************)
DataSocketIsClean ==
    \A c \in Calls : us[c] \in {"build", "thread"} => buf[c] = << >> /\ wire[c] = << >>

(***************************************************************************)
(* A call that found its process ends: in a thread, or in an exception     *)
(* when the process died, at whatever point it did.                        *)
(***************************************************************************)
BootstrapEnds == \A c \in Calls : us[c] # "start" ~> us[c] \in {"thread", "failed"}
=============================================================================
