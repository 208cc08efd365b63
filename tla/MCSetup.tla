------------------------------- MODULE MCSetup -------------------------------
(***************************************************************************)
(* How threads and the sockets to them come to be, for TLC: the bootstraps *)
(* from stdin, from a stub and over ssh, the channels between threads, the *)
(* clone of a child.  The components stand side by side, and in a          *)
(* behaviour one of them runs; where one is checked with several values of *)
(* its constants, its instances have the same variables.                   *)
(***************************************************************************)
EXTENDS Naturals, Sequences

CONSTANTS
    Calls, Procs, Args, Envs, Nobody,        \* of the bootstraps from stdin and from a stub
    Describes, Slow,                         \* of the one over ssh
    Users, SameTable, Count, MaxChannels,    \* of the channels
    Children, SharesFiles                    \* of the clone

VARIABLES
    running,
    us, peer, conn, ours, hold, backlog, them, wrote, wire, buf, parsed,
    ssh_us, lines, binder, tunnel, bound, passing, transit, ssh_backlog, boot, accepted, written, ssh_parsed,
    next, left, right, pc, chan_wire, access, remote,
    clone_us, watcher, child, futex, helper, cont, parentHolds, shut, call, freed, parent

bootstrap == <<us, peer, conn, ours, hold, backlog, them, wrote, wire, buf, parsed>>
ssh       == <<ssh_us, lines, binder, tunnel, bound, passing, transit, ssh_backlog, boot, accepted, written, ssh_parsed>>
channels  == <<next, left, right, pc, chan_wire, access, remote>>
clone     == <<clone_us, watcher, child, futex, helper, cont, parentHolds, shut, call, freed, parent>>
vars      == <<running, bootstrap, ssh, channels, clone>>

\* the channels: one call after the other, as the code needs it; or overlapping, and
\* abandoned.  The clone: with a parent that lives on, or one that may die.
Boot(kind)                == INSTANCE Bootstrap WITH Kind <- kind
Ssh                       == INSTANCE SshBootstrap
                               WITH us <- ssh_us, backlog <- ssh_backlog, parsed <- ssh_parsed
Chan(kind, overlap, fail) == INSTANCE Channels
                               WITH Kind <- kind, Overlap <- overlap, MayFail <- fail, wire <- chan_wire
Clone(mayDie)             == INSTANCE CloneChild WITH ParentMayDie <- mayDie, us <- clone_us

ASSUME SetupAssumption ==
    /\ Boot("stdin")!BootstrapAssumption /\ Boot("stub")!BootstrapAssumption /\ Ssh!SshAssumption
    /\ Chan("fdpass", FALSE, FALSE)!ChannelsAssumption /\ Chan("listen", FALSE, FALSE)!ChannelsAssumption
    /\ Chan("fdpass", TRUE, TRUE)!ChannelsAssumption
    /\ Clone(FALSE)!CloneAssumption /\ Clone(TRUE)!CloneAssumption

Init == /\ running \in {"stdin", "stub", "ssh", "fdpass", "listen", "faults", "lives", "dies"}
        /\ Boot("stub")!Init /\ Ssh!Init /\ Chan("fdpass", TRUE, TRUE)!Init /\ Clone(TRUE)!Init

Next == \/ running = "stdin" /\ Boot("stdin")!Next /\ UNCHANGED <<running, ssh, channels, clone>>
        \/ running = "stub" /\ Boot("stub")!Next /\ UNCHANGED <<running, ssh, channels, clone>>
        \/ running = "ssh" /\ Ssh!Next /\ UNCHANGED <<running, bootstrap, channels, clone>>
        \/ running = "fdpass" /\ Chan("fdpass", FALSE, FALSE)!Next
           /\ UNCHANGED <<running, bootstrap, ssh, clone>>
        \/ running = "listen" /\ Chan("listen", FALSE, FALSE)!Next
           /\ UNCHANGED <<running, bootstrap, ssh, clone>>
        \/ running = "faults" /\ Chan("fdpass", TRUE, TRUE)!Next
           /\ UNCHANGED <<running, bootstrap, ssh, clone>>
        \/ running = "lives" /\ Clone(FALSE)!Next /\ UNCHANGED <<running, bootstrap, ssh, channels>>
        \/ running = "dies" /\ Clone(TRUE)!Next /\ UNCHANGED <<running, bootstrap, ssh, channels>>

\* The fairness of each component, for the one that runs.
ChannelsFairness(name, kind, faulty) ==
    \A u \in Users :
        /\ WF_channels(/\ running = name
                       /\ \/ Chan(kind, faulty, faulty)!Move(u)
                          \/ Chan(kind, faulty, faulty)!SendFds(u)
                          \/ Chan(kind, faulty, faulty)!CloseFds(u)
                          \/ Chan(kind, faulty, faulty)!Connect(u))
        /\ WF_channels(running = name /\ Chan(kind, faulty, faulty)!RecvFds(u))
        /\ WF_channels(running = name /\ Chan(kind, faulty, faulty)!AcceptConn(u))

CloneFairness(name, mayDie) ==
    \A c \in Children :
        /\ WF_clone(running = name /\ Clone(mayDie)!OurStep(c))
        /\ WF_clone(running = name /\ Clone(mayDie)!HelperStep(c))
        /\ WF_clone(running = name /\ Clone(mayDie)!Watch(c))
        /\ WF_clone(running = name /\ c \in shut /\ Clone(mayDie)!Hangup(c))
        /\ WF_clone(running = name /\ (Clone(mayDie)!Answer(c) \/ Clone(mayDie)!Exec(c)))

Fairness ==
    /\ \A kind \in {"stdin", "stub"} :
         /\ \A c \in Calls : WF_bootstrap(running = kind /\ Boot(kind)!OurStep(c))
         /\ \A p \in Procs : WF_bootstrap(running = kind /\ Boot(kind)!TheirStep(p))
    /\ WF_ssh(running = "ssh" /\ Ssh!TunnelOpens)
    /\ WF_ssh(running = "ssh" /\ Ssh!OurStep)
    /\ WF_ssh(running = "ssh" /\ Ssh!BinderStep)
    /\ WF_ssh(running = "ssh" /\ Ssh!BootStep)
    /\ ChannelsFairness("fdpass", "fdpass", FALSE) /\ ChannelsFairness("listen", "listen", FALSE)
    /\ ChannelsFairness("faults", "fdpass", TRUE)
    /\ CloneFairness("lives", FALSE) /\ CloneFairness("dies", TRUE)

Spec == Init /\ [][Next]_vars /\ Fairness

-----------------------------------------------------------------------------
(***************************************************************************)
(* A bootstrapped thread is of one process, the one that serves its system *)
(* calls, whatever other processes connect meanwhile; nothing of that      *)
(* process' description is left in the socket that now carries memory.     *)
(***************************************************************************)
ThreadIsOfProcess ==
    /\ running = "stdin" => Boot("stdin")!ThreadIsOfProcess /\ Boot("stdin")!DataSocketIsClean
    /\ running = "stub"  => Boot("stub")!ThreadIsOfProcess /\ Boot("stub")!DataSocketIsClean

(***************************************************************************)
(* Over ssh, the process serves system calls on the connection that our    *)
(* SyscallConnection has and copies memory on the other one; nobody        *)
(* connects to a socket that is not there yet; the thread that is returned *)
(* is served.                                                              *)
(***************************************************************************)
SocksMatch == running = "ssh" => Ssh!SocksMatch /\ Ssh!SocketsAreThere /\ Ssh!ThreadIsServed

(***************************************************************************)
(* The two ends of a pair that is returned are ends of one channel, and    *)
(* the right one is open in the task it is for and in no other.  When      *)
(* calls overlap and are abandoned no two tasks are given the same end.    *)
(***************************************************************************)
ChannelsMatch ==
    /\ running = "fdpass" => /\ Chan("fdpass", FALSE, FALSE)!ChannelsMatch
                             /\ Chan("fdpass", FALSE, FALSE)!OneHolder
    /\ running = "listen" => Chan("listen", FALSE, FALSE)!ChannelsMatch
    /\ running = "faults" => Chan("fdpass", TRUE, TRUE)!EndsDistinct

(***************************************************************************)
(* A child's stack is freed only when the child is out of it, and its      *)
(* socket is shut down only when nobody reads it: it is not cut off while  *)
(* it lives.                                                               *)
(***************************************************************************)
FreedWhenUnused ==
    running = "lives" => Clone(FALSE)!FreedWhenUnused /\ Clone(FALSE)!LiveChildIsReachable

\* Number i is under way: a bootstrap that found its process, ssh, a call of
\* open_channels, a system call in a child.
UnderWay(i) ==
    CASE running \in {"stdin", "stub"} -> i \in Calls /\ us[i] \notin {"start", "thread", "failed"}
      [] running = "ssh"               -> i = 1 /\ ssh_us \notin {"thread", "failed"}
      [] running \in {"fdpass", "listen", "faults"} -> i \in Users /\ pc[i] \notin {"idle", "done"}
      [] running \in {"lives", "dies"} -> i \in Children /\ call[i] \in {"plain", "exec"}

(***************************************************************************)
(* A bootstrap ends, in a thread or an exception, whenever the process     *)
(* dies; a channel is opened also when another call was abandoned half     *)
(* way; a system call in a child returns or hangs up whenever the child    *)
(* dies or execs, and when its parent dies.  (BootstrapEnds, SshEnds,      *)
(* OpenEnds and CallEnds, in one formula.)                                 *)
(***************************************************************************)
SetupEnds == \A i \in Calls \cup Users \cup Children : UnderWay(i) ~> ~UnderWay(i)
=============================================================================
