----------------------------- MODULE SshBootstrap -----------------------------
(***************************************************************************)
(* tasks/ssh.py with rsyscall_bootstrap.c: a thread on another host.       *)
(*                                                                         *)
(* One ssh runs the script that starts the binder, which listens on two    *)
(* sockets, "data" and "pass".  A second ssh forwards a local path to      *)
(* "data".  A third starts the bootstrap process, which gets the listening *)
(* data socket from the binder over "pass", accepts the connections that   *)
(* we make through the tunnel, describes itself and serves system calls.   *)
(* ssh itself is external: a tunnel opens connections in the order in      *)
(* which they are made, and goes down a minute after it came up if none is *)
(* open then.                                                              *)
(***************************************************************************)
EXTENDS Naturals, Sequences

CONSTANTS
    Describes,        \* how many things the process writes: struct and variables
    Slow              \* whether a minute may pass before we have connected

SshAssumption == Describes \in Nat \ {0} /\ Slow \in BOOLEAN

VARIABLES
    us,               \* what SSHHost.ssh does
    lines,            \* the binder's stdout
    binder,           \* what the script and socket_binder do
    tunnel,           \* ssh_forward: "none", "up" or "down"
    bound,            \* which sockets exist on the host
    passing,          \* "pass": whether a connection waits, and what was sent on it
    transit,          \* connections that the tunnel has accepted and not opened
    backlog,          \* connections that wait at the data socket
    boot,             \* what the bootstrap process does
    accepted,         \* the connections it has accepted, in order
    written, parsed   \* what it wrote to its second connection; what we read

vars == <<us, lines, binder, tunnel, bound, passing, transit, backlog, boot, accepted, written, parsed>>

Init ==
    /\ us = "start" /\ lines = << >> /\ binder = "absent" /\ tunnel = "none"
    /\ bound = {} /\ passing = "none" /\ transit = << >> /\ backlog = << >>
    /\ boot = "absent" /\ accepted = << >> /\ written = 0 /\ parsed = 0

-----------------------------------------------------------------------------
(* The binder, and the script that starts it *)

\* make_bootstrap_dir: clone and exec of the first ssh.
MakeBootstrapDir ==
    /\ us = "start" /\ us' = "path" /\ binder' = "script"
    /\ UNCHANGED <<lines, tunnel, bound, passing, transit, backlog, boot, accepted, written, parsed>>

\* The script: the directory's name is printed, the binder started.
Script ==
    /\ binder = "script" /\ binder' = "data" /\ lines' = Append(lines, "dir")
    /\ UNCHANGED <<us, tunnel, bound, passing, transit, backlog, boot, accepted, written, parsed>>

\* Mutant of Listen: "done" comes before the second socket.
ListenEarly ==
    /\ \/ binder = "data" /\ bound' = bound \cup {"data"} /\ binder' = "pass" /\ lines' = Append(lines, "done")
       \/ binder = "pass" /\ bound' = bound \cup {"pass"} /\ binder' = "accept" /\ UNCHANGED lines
    /\ UNCHANGED <<us, tunnel, passing, transit, backlog, boot, accepted, written, parsed>>

\* socket_binder: both sockets listen, then "done".
Listen ==
    /\ \/ binder = "data" /\ bound' = bound \cup {"data"} /\ binder' = "pass" /\ UNCHANGED lines
       \/ binder = "pass" /\ bound' = bound \cup {"pass"} /\ binder' = "done" /\ UNCHANGED lines
       \/ binder = "done" /\ lines' = Append(lines, "done") /\ binder' = "accept" /\ UNCHANGED bound
    /\ UNCHANGED <<us, tunnel, passing, transit, backlog, boot, accepted, written, parsed>>

\* accept, unlink, sendmsg with the data socket, exit.
PassSocket ==
    /\ binder = "accept" /\ passing = "waits"
    /\ binder' = "exited" /\ bound' = bound \ {"pass"} /\ passing' = "sent"
    /\ UNCHANGED <<us, lines, tunnel, transit, backlog, boot, accepted, written, parsed>>

-----------------------------------------------------------------------------
(* Our side *)

\* Two lines are read: the directory, and "done", or there is an exception.
ReadLine ==
    /\ us \in {"path", "done"} /\ lines # << >>
    /\ lines' = Tail(lines)
    /\ us' = IF us = "path" THEN "done" ELSE IF Head(lines) = "done" THEN "forward" ELSE "failed"
    /\ UNCHANGED <<binder, tunnel, bound, passing, transit, backlog, boot, accepted, written, parsed>>

\* ssh_forward: the second ssh listens locally and then runs "echo forwarded".
Forward ==
    /\ us = "forward" /\ tunnel' = "up" /\ us' = "exec"
    /\ UNCHANGED <<lines, binder, bound, passing, transit, backlog, boot, accepted, written, parsed>>

\* ssh_bootstrap: the third ssh is started, with a shell that runs bootstrap.
ExecBootstrap ==
    /\ us = "exec" /\ us' = "syscall" /\ boot' = "connect"
    /\ UNCHANGED <<lines, binder, tunnel, bound, passing, transit, backlog, accepted, written, parsed>>

\* make_async_connection: first for system calls, then for data.
ConnectSock ==
    /\ us \in {"syscall", "data"}
    /\ IF tunnel = "up"
       THEN transit' = Append(transit, us) /\ us' = IF us = "syscall" THEN "data" ELSE "describe"
       ELSE us' = "failed" /\ UNCHANGED transit
    /\ UNCHANGED <<lines, binder, tunnel, bound, passing, backlog, boot, accepted, written, parsed>>

\* Whether the struct and envp_count variables are read.
Complete(n) == n = Describes

\* The description is read from our data connection: what the process wrote to
\* its second one.  With the last of it the Thread is built.  A process that
\* died closed the connection, accepted or not.
ReadDescription ==
    /\ us = "describe"
    /\ \/ /\ Len(accepted) = 2 /\ accepted[2] = "data" /\ parsed < written
          /\ parsed' = parsed + 1 /\ us' = IF Complete(parsed + 1) THEN "check" ELSE us
       \/ boot = "killed" /\ parsed = written /\ us' = "failed" /\ UNCHANGED parsed
    /\ UNCHANGED <<lines, binder, tunnel, bound, passing, transit, backlog, boot, accepted, written>>

\* The end of make_bootstrap_dir: the binder must have exited.
Check ==
    /\ us = "check" /\ binder = "exited" /\ us' = "thread"
    /\ UNCHANGED <<lines, binder, tunnel, bound, passing, transit, backlog, boot, accepted, written, parsed>>

\* "sleep 60" ends, and no connection goes through the tunnel.
TunnelEnds ==
    /\ Slow /\ tunnel = "up" /\ us \in {"exec", "syscall"}
    /\ tunnel' = "down"
    /\ UNCHANGED <<us, lines, binder, bound, passing, transit, backlog, boot, accepted, written, parsed>>

\* The tunnel opens the connection on the host.
TunnelOpens ==
    /\ transit # << >>
    /\ transit' = Tail(transit) /\ backlog' = Append(backlog, Head(transit))
    /\ UNCHANGED <<us, lines, binder, tunnel, bound, passing, boot, accepted, written, parsed>>

-----------------------------------------------------------------------------
(* bootstrap *)

\* connect to "pass", or err(1).
ConnectPass ==
    /\ boot = "connect"
    /\ IF "pass" \in bound THEN boot' = "recv" /\ passing' = "waits" ELSE boot' = "dead" /\ UNCHANGED passing
    /\ UNCHANGED <<us, lines, binder, tunnel, bound, transit, backlog, accepted, written, parsed>>

\* recvmsg: the listening socket.
ReceiveSocket ==
    /\ boot = "recv" /\ passing = "sent" /\ boot' = "accept"
    /\ UNCHANGED <<us, lines, binder, tunnel, bound, passing, transit, backlog, accepted, written, parsed>>

\* accept_on, twice.
AcceptOn ==
    /\ boot = "accept" /\ backlog # << >>
    /\ accepted' = Append(accepted, Head(backlog)) /\ backlog' = Tail(backlog)
    /\ boot' = IF Len(accepted) = 1 THEN "write" ELSE "accept"
    /\ UNCHANGED <<us, lines, binder, tunnel, bound, passing, transit, written, parsed>>

\* The struct and the environment are written; then rsyscall_server.
WriteDescription ==
    /\ boot = "write" /\ written' = written + 1
    /\ boot' = IF written + 1 = Describes THEN "serve" ELSE "write"
    /\ UNCHANGED <<us, lines, binder, tunnel, bound, passing, transit, backlog, accepted, parsed>>

\* It is killed once it has the listening socket, which is closed with it.
Killed ==
    /\ boot \in {"accept", "write"} /\ boot' = "killed"
    /\ UNCHANGED <<us, lines, binder, tunnel, bound, passing, transit, backlog, accepted, written, parsed>>

-----------------------------------------------------------------------------
OurStep == MakeBootstrapDir \/ ReadLine \/ Forward \/ ExecBootstrap \/ ConnectSock \/ ReadDescription \/ Check
BinderStep == Script \/ Listen \/ PassSocket
BootStep == ConnectPass \/ ReceiveSocket \/ AcceptOn \/ WriteDescription

Next == OurStep \/ BinderStep \/ BootStep \/ TunnelOpens \/ TunnelEnds \/ Killed

\* The processes run, and the tunnel forwards.
Fairness == WF_vars(TunnelOpens) /\ WF_vars(OurStep) /\ WF_vars(BinderStep) /\ WF_vars(BootStep)

Spec == Init /\ [][Next]_vars /\ Fairness

-----------------------------------------------------------------------------
(* Properties *)

(***************************************************************************)
(* The sockets are there when somebody connects to them, whoever is fast:  *)
(* neither the bootstrap process nor ours fails on a name that does not    *)
(* exist yet, and the tunnel never forwards to a missing socket.           *)
(***************************************************************************)
SocketsAreThere ==
    /\ boot # "dead"
    /\ backlog # << >> => "data" \in bound

\* The process serves system calls on the connection that our SyscallConnection
\* has, and describes itself on the one of our memory transport.
SocksMatch ==
    /\ Len(accepted) >= 1 => accepted[1] = "syscall"
    /\ Len(accepted) = 2 => accepted[2] = "data"

\* When the thread is returned the process serves it, and later connections
\* through the tunnel start from an empty backlog.
ThreadIsServed ==
    us = "thread" => boot = "serve" /\ transit \o backlog = << >> /\ parsed = written

\* ssh ends, in a thread, or in an exception when the tunnel was too slow or the
\* process was killed after it had got the listening socket.
SshEnds == <>(us \in {"thread", "failed"})
=============================================================================
