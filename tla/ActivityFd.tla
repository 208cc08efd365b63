------------------------------ MODULE ActivityFd ------------------------------
(***************************************************************************)
(* The root epoller of a thread blocks the whole thread in epoll_wait.     *)
(* EpollWaiter._run registers the activity fd, the one the server reads    *)
(* system calls from, so that epoll_wait returns when others want to use   *)
(* the thread.  In a persistent thread the activity fd changes with the    *)
(* connection.                                                             *)
(*                                                                         *)
(* Connection k is served after k - 1.  Writing a request is one step;     *)
(* one on a connection that was shut down raises SyscallSendError and is   *)
(* made again on the next connection (PersistentConnection has the detail).*)
(***************************************************************************)
EXTENDS Naturals, Sequences, FiniteSets

CONSTANTS
    Coroutines,       \* those that make system calls, besides the waiter
    MaxConns          \* how often the thread is connected to

ActivityAssumption == "w" \notin Coroutines /\ MaxConns \in Nat \ {0}

Callers == Coroutines \cup {"w"}
Conns == 1..MaxConns

VARIABLES
    call,             \* each caller: "none", "parked", "sent" or "answered"
    step,             \* what the waiter does: "top", "del", "add", "wait", "dead"
    target,           \* its activity_fd, by connection, or 0
    registered,       \* its registered_activity_fd, or 0
    conn,             \* PersistentSyscallConnection.conn, or 0
    activityConn,     \* its _activity_fd_conn, or 0
    sock,             \* the requests the server has not read, by connection
    shut,             \* the connections we have shut down
    serving,          \* the connection the server reads
    inWait,           \* the server is in epoll_wait
    epoll,            \* the activity fds in the epoll set
    event             \* an event for others: "none", "ready" or "taken"

vars == <<call, step, target, registered, conn, activityConn, sock, shut, serving, inWait, epoll, event>>

Init ==
    /\ call = [x \in Callers |-> "none"] /\ step = "top" /\ target = 0 /\ registered = 0
    /\ conn = 1 /\ activityConn = 1 /\ sock = [k \in Conns |-> <<>>] /\ shut = {} /\ serving = 1
    /\ inWait = FALSE /\ epoll = {} /\ event = "none"

\* PersistentSyscallConnection.syscall of x.
Send(x) ==
    IF conn # 0 /\ conn \notin shut
    THEN /\ sock' = [sock EXCEPT ![conn] = Append(@, x)] /\ call' = [call EXCEPT ![x] = "sent"]
         /\ UNCHANGED <<conn, activityConn>>
    ELSE /\ call' = [call EXCEPT ![x] = "parked"] /\ conn' = 0 /\ UNCHANGED sock
         /\ activityConn' = IF conn # 0 THEN 0 ELSE activityConn

MakeCall(c) ==
    /\ call[c] = "none" /\ Send(c)
    /\ UNCHANGED <<step, target, registered, shut, serving, inWait, epoll, event>>

CallReturns(c) ==
    /\ call[c] = "answered" /\ call' = [call EXCEPT ![c] = "none"]
    /\ UNCHANGED <<step, target, registered, conn, activityConn, sock, shut, serving, inWait, epoll, event>>

-----------------------------------------------------------------------------
(* EpollWaiter._run *)

\* get_activity_fd raises while disconnected, and nothing catches that.
Disconnected ==
    /\ step = "top" /\ activityConn = 0 /\ step' = "dead"
    /\ UNCHANGED <<call, target, registered, conn, activityConn, sock, shut, serving, inWait, epoll, event>>

\* Whether an old activity fd is deleted, a new one added, or neither.
FirstStep ==
    IF activityConn = registered THEN "wait" ELSE IF registered # 0 THEN "del" ELSE "add"

Top ==
    /\ step = "top" /\ activityConn # 0
    /\ step' = FirstStep /\ target' = activityConn /\ Send("w")
    /\ UNCHANGED <<registered, shut, serving, inWait, epoll, event>>

Deleted ==
    /\ step = "del" /\ call["w"] = "answered" /\ step' = "add" /\ Send("w")
    /\ UNCHANGED <<target, registered, shut, serving, inWait, epoll, event>>

Added ==
    /\ step = "add" /\ call["w"] = "answered" /\ step' = "wait" /\ registered' = target /\ Send("w")
    /\ UNCHANGED <<target, shut, serving, inWait, epoll, event>>

\* epoll_wait returned: the events are handed out; devnull takes those of the
\* activity fd.
Waited ==
    /\ step = "wait" /\ call["w"] = "answered"
    /\ step' = "top" /\ call' = [call EXCEPT !["w"] = "none"]
    /\ event' = IF event = "taken" THEN "none" ELSE event
    /\ UNCHANGED <<target, registered, conn, activityConn, sock, shut, serving, inWait, epoll>>

-----------------------------------------------------------------------------
(* The server and the kernel *)

Readable(k) == sock[k] # <<>> \/ k \in shut

\* Level triggered: an activity fd with something to read is ready.
Ready == event = "ready" \/ \E k \in epoll : Readable(k)

\* The server reads a request and performs it; epoll_wait may block.
Serve ==
    /\ ~inWait /\ sock[serving] # <<>>
    /\ LET x == Head(sock[serving])
           blocks == x = "w" /\ step = "wait"
       IN /\ sock' = [sock EXCEPT ![serving] = Tail(@)]
          /\ inWait' = blocks
          /\ call' = IF blocks THEN call ELSE [call EXCEPT ![x] = "answered"]
          /\ epoll' = IF x # "w" \/ blocks THEN epoll
                      ELSE IF step = "del" THEN epoll \ {registered} ELSE epoll \cup {target}
    /\ UNCHANGED <<step, target, registered, conn, activityConn, shut, serving, event>>

WaitEnds ==
    /\ inWait /\ Ready /\ inWait' = FALSE /\ call' = [call EXCEPT !["w"] = "answered"]
    /\ event' = IF event = "ready" THEN "taken" ELSE event
    /\ UNCHANGED <<step, target, registered, conn, activityConn, sock, shut, serving, epoll>>

Arrive ==
    /\ event = "none" /\ event' = "ready"
    /\ UNCHANGED <<call, step, target, registered, conn, activityConn, sock, shut, serving, inWait, epoll>>

\* reconnect shuts our end of the connection down.
Shutdown ==
    /\ serving \notin shut /\ serving < MaxConns /\ shut' = shut \cup {serving}
    /\ UNCHANGED <<call, step, target, registered, conn, activityConn, sock, serving, inWait, epoll, event>>

\* The server has read everything, sees EOF, and accepts the next connection;
\* set_new_conn resumes the callers that wait for it, in some order.
SetNewConn(order) ==
    /\ ~inWait /\ serving \in shut /\ sock[serving] = <<>>
    /\ serving' = serving + 1 /\ conn' = serving + 1 /\ activityConn' = serving + 1
    /\ {order[i] : i \in DOMAIN order} = {x \in Callers : call[x] = "parked"}
    /\ \A i, j \in DOMAIN order : i # j => order[i] # order[j]
    /\ sock' = [sock EXCEPT ![serving + 1] = order]
    /\ call' = [x \in Callers |-> IF call[x] = "parked" THEN "sent" ELSE call[x]]
    /\ UNCHANGED <<step, target, registered, shut, inWait, epoll, event>>

-----------------------------------------------------------------------------
Waiter == Disconnected \/ Top \/ Deleted \/ Added \/ Waited
Server == Serve \/ WaitEnds \/ \E n \in 0..Cardinality(Callers) : \E order \in [1..n -> Callers] : SetNewConn(order)

Next ==
    \/ \E c \in Coroutines : MakeCall(c) \/ CallReturns(c)
    \/ Waiter \/ Server \/ Arrive \/ Shutdown

\* Coroutines that can go on do, the server and the kernel too, and a reconnect
\* that was begun ends.
Spec == Init /\ [][Next]_vars /\ WF_vars(Waiter) /\ WF_vars(Server)

-----------------------------------------------------------------------------
(* Properties *)

\* The waiter has at most the old activity fd registered, and only it blocks.
TypeOK ==
    /\ conn \in 0..MaxConns /\ epoll \subseteq Conns /\ Cardinality(epoll) <= 1
    /\ inWait => step = "wait" /\ call["w"] = "sent"
    /\ \A k \in Conns : \A i \in DOMAIN sock[k] : call[sock[k][i]] = "sent"

(***************************************************************************)
(* "The activity_fd is readable whenever some other component in the       *)
(* thread wants to work on the thread": a system call is performed         *)
(* although the thread waits in epoll_wait with nothing else to come, also *)
(* after the connection was replaced.                                      *)
(***************************************************************************)
EveryCallAnswered == \A c \in Coroutines : call[c] = "sent" ~> call[c] = "answered"

\* Events for other fds are handed out, as long as the thread is connected.
EventsHandedOut == event = "ready" ~> event = "none" \/ step = "dead"

\* The waiter outlives a reconnect: "some callback might use get_activity_fd".
WaiterSurvives == step # "dead"
=============================================================================
