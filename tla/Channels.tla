------------------------------- MODULE Channels -------------------------------
(***************************************************************************)
(* network/connection.py: opening channels between the thread that gives   *)
(* access and other threads.  FDPassConnection makes socket pairs and      *)
(* sends one end of each in a message over a socket; all connections that  *)
(* were inherited from one another share that socket.  ListeningConnection *)
(* connects to an address and accepts.  A channel is a number; its left    *)
(* end is kept, its right end goes to the other thread.                    *)
(***************************************************************************)
EXTENDS Naturals, Sequences, FiniteSets

CONSTANTS
    Users,            \* the threads whose Connection is used, one coroutine each
    SameTable,        \* those whose task has the access task's fd table
    Kind,             \* "fdpass" or "listen"
    Count,            \* how many channels a call opens
    MaxChannels,      \* bound: channels made in all
    Overlap,          \* whether calls may overlap
    MayFail           \* whether a call may be abandoned half way

ChannelsAssumption ==
    /\ SameTable \subseteq Users /\ Kind \in {"fdpass", "listen"}
    /\ Count \in Nat \ {0} /\ MaxChannels \in Nat
    /\ Overlap \in BOOLEAN /\ MayFail \in BOOLEAN

VARIABLES
    next,             \* the next channel
    left, right,      \* the ends each call has so far
    pc,               \* what each coroutine does
    wire,             \* messages in the socket, or connections in the backlog
    access,           \* right ends that the access task has open
    remote            \* right ends that each user's task has open

vars == <<next, left, right, pc, wire, access, remote>>

Init ==
    /\ next = 1 /\ left = [u \in Users |-> << >>] /\ right = [u \in Users |-> << >>]
    /\ pc = [u \in Users |-> "idle"] /\ wire = << >> /\ access = {} /\ remote = [u \in Users |-> {}]

-----------------------------------------------------------------------------
Room == next + Count <= MaxChannels + 1
MayStart(u) == pc[u] = "idle" /\ Room /\ (Overlap \/ \A v \in Users \ {u} : pc[v] = "idle")

\* open_channels: the socket pairs; both ends are the access task's.
MakePairs(u) ==
    /\ Kind = "fdpass" /\ MayStart(u)
    /\ left' = [left EXCEPT ![u] = [i \in 1..Count |-> next + i - 1]]
    /\ next' = next + Count /\ access' = access \cup {next + i - 1 : i \in 1..Count}
    /\ pc' = [pc EXCEPT ![u] = IF u \in SameTable THEN "move" ELSE "send"]
    /\ UNCHANGED <<right, wire, remote>>

\* move_fds within one fd table: the handles change owner.
Move(u) ==
    /\ pc[u] = "move"
    /\ right' = [right EXCEPT ![u] = left[u]]
    /\ access' = access \ {left[u][i] : i \in 1..Count}
    /\ remote' = [remote EXCEPT ![u] = @ \cup {left[u][i] : i \in 1..Count}]
    /\ pc' = [pc EXCEPT ![u] = "done"]
    /\ UNCHANGED <<next, left, wire>>

\* sendmsg: one message with all right ends.
SendFds(u) ==
    /\ pc[u] = "send"
    /\ wire' = Append(wire, left[u])
    /\ pc' = [pc EXCEPT ![u] = "recv"]
    /\ UNCHANGED <<next, left, right, access, remote>>

\* recvmsg in the user's task: the message that waits longest.
RecvFds(u) ==
    /\ pc[u] = "recv" /\ wire # << >>
    /\ right' = [right EXCEPT ![u] = Head(wire)]
    /\ remote' = [remote EXCEPT ![u] = @ \cup {Head(wire)[i] : i \in 1..Count}]
    /\ wire' = Tail(wire) /\ pc' = [pc EXCEPT ![u] = "close"]
    /\ UNCHANGED <<next, left, access>>

\* The access task's copies are closed.
CloseFds(u) ==
    /\ pc[u] = "close"
    /\ access' = access \ {left[u][i] : i \in 1..Count}
    /\ pc' = [pc EXCEPT ![u] = "done"]
    /\ UNCHANGED <<next, left, right, wire, remote>>

\* ListeningConnection.open_async_channel, open_channel: connect; the
\* connection is in the backlog.
Connect(u) ==
    /\ Kind = "listen"
    /\ \/ MayStart(u) /\ left' = [left EXCEPT ![u] = <<next>>] /\ right' = [right EXCEPT ![u] = << >>]
       \/ /\ pc[u] = "more"
          /\ left' = [left EXCEPT ![u] = Append(@, next)] /\ UNCHANGED right
    /\ next' = next + 1 /\ wire' = Append(wire, next)
    /\ pc' = [pc EXCEPT ![u] = "accept"]
    /\ UNCHANGED <<access, remote>>

\* Mutant of AcceptConn: the newest end is put first.
AcceptConnFront(u) ==
    /\ pc[u] = "accept" /\ wire # << >>
    /\ right' = [right EXCEPT ![u] = <<Head(wire)>> \o @]
    /\ remote' = [remote EXCEPT ![u] = @ \cup {Head(wire)}] /\ wire' = Tail(wire)
    /\ pc' = [pc EXCEPT ![u] = IF Len(left[u]) = Count THEN "done" ELSE "more"]
    /\ UNCHANGED <<next, left, access>>

\* accept; then the next channel of the call, if there is one.
AcceptConn(u) ==
    /\ pc[u] = "accept" /\ wire # << >>
    /\ right' = [right EXCEPT ![u] = Append(@, Head(wire))]
    /\ remote' = [remote EXCEPT ![u] = @ \cup {Head(wire)}] /\ wire' = Tail(wire)
    /\ pc' = [pc EXCEPT ![u] = IF Len(left[u]) = Count THEN "done" ELSE "more"]
    /\ UNCHANGED <<next, left, access>>

\* The caller uses the channels, and later closes its right ends.
Finish(u) ==
    /\ pc[u] = "done"
    /\ pc' = [pc EXCEPT ![u] = "idle"]
    /\ remote' = [remote EXCEPT ![u] = @ \ {right[u][i] : i \in 1..Count}]
    /\ UNCHANGED <<next, left, right, wire, access>>

\* The call fails or is cancelled while the other task's part is awaited.
Abandon(u) ==
    /\ MayFail /\ pc[u] \in {"recv", "accept"}
    /\ pc' = [pc EXCEPT ![u] = "idle"]
    /\ UNCHANGED <<next, left, right, wire, access, remote>>

Next == \E u \in Users :
    \/ MakePairs(u) \/ Move(u) \/ SendFds(u) \/ RecvFds(u) \/ CloseFds(u)
    \/ Connect(u) \/ AcceptConn(u) \/ Finish(u) \/ Abandon(u)

\* The system calls of every thread are served.
Fairness == \A u \in Users : /\ WF_vars(Move(u) \/ SendFds(u) \/ CloseFds(u) \/ Connect(u))
                             /\ WF_vars(RecvFds(u)) /\ WF_vars(AcceptConn(u))

Spec == Init /\ [][Next]_vars /\ Fairness

-----------------------------------------------------------------------------
(* Properties *)

\* Every variable has a value the code can give it.
TypeOK ==
    /\ access \subseteq 1..(next - 1)
    /\ \A u \in Users :
         /\ pc[u] \in {"idle", "move", "send", "recv", "close", "accept", "more", "done"}
         /\ Len(left[u]) <= Count /\ Len(right[u]) <= Count /\ remote[u] \subseteq 1..(next - 1)

(***************************************************************************)
(* "Open a bidirectional channel between the two threads": the two ends of *)
(* each pair that a call returns are ends of one channel.                  *)
(***************************************************************************)
ChannelsMatch == \A u \in Users : pc[u] = "done" => left[u] = right[u]

(***************************************************************************)
(* The right end of a channel that is in use is open in the one task it is *)
(* for, so that the left end sees a hangup when that task dies.            *)
(***************************************************************************)
OneHolder ==
    \A u \in Users : pc[u] = "done" =>
        \A i \in 1..Count : /\ right[u][i] \in remote[u] /\ right[u][i] \notin access
                            /\ \A v \in Users \ {u} : right[u][i] \notin remote[v]

(***************************************************************************)
(* Even when calls overlap and are abandoned, a right end is never given   *)
(* to two tasks: whoever gets a channel, has it alone.                     *)
(***************************************************************************)
EndsDistinct == \A u, v \in Users : u # v => remote[u] \cap remote[v] = {}

\* A call that was begun ends, also when another call was abandoned after its
\* message was sent.
OpenEnds == \A u \in Users : pc[u] # "idle" ~> pc[u] \in {"done", "idle"}
=============================================================================
