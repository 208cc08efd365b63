------------------------------- MODULE MCCalls -------------------------------
(***************************************************************************)
(* What must come back, for TLC: a syscall over a connection, over one     *)
(* that is shut down, over a persistent one, in a thread that blocks in    *)
(* epoll_wait; a transfer of memory, or of a list of buffers; run_all; a   *)
(* wait for the epollfd; a shift.  The components stand side by side, and  *)
(* in a behaviour one of them runs.                                        *)
(***************************************************************************)
EXTENDS Naturals, Sequences

CONSTANTS a, b,                     \* coroutines
          MaxSyscalls, RequestSize, ResponseSize, ToFdCapacity, FromFdCapacity,
                                    \* of the connection that is shut down
          N, MaxRequests,           \* callables of run_all, and requests of each
          MaxRuns, MaxEvents,       \* of trio.run, and of the epollfd
          Native, Trio, MaxShifts   \* coroutines, trio tasks, and calls of shift of each

Co == <<a, b>>
Coroutines == {a, b}

VARIABLES
    running,
    issued, status, value, request_queue, writer, requests, wreq, wbyte, response_queue, current,
    buf, tofd, tofd_open, fromfd, fromfd_open, srv, request, sbyte, executed,
    made_calls, call_status, behind, conn, activity_fd_conn, new_conn_cbs, cbs, setting, break_exc,
    break_cb, queue, stream, responses, expecting, up, made, reconnect, backlog, server, serving,
    performed,
    call, step, target, registered, act_conn, activityConn, sock, shut, act_serving, inWait, epoll,
    event,
    procs, count, toRemote, toLocal, wire, remote, written, results, wrong,
    stack, pc, next, made_requests, outcome, result, result_cb, collected, request_cbs, receiver_cb,
    final_exn, batch,
    trio, runs, events, runRunning, systemTask, channel, epoller, readable,
    transfer, list, iov, firstIov, piece, used, transferred, addr,
    co_status, co_stack, runner, shifts, conts, cancelled, saved, answered

connection == <<issued, status, value, request_queue, writer, requests, wreq, wbyte, response_queue,
                current, buf, tofd, tofd_open, fromfd, fromfd_open, srv, request, sbyte, executed>>
persistent == <<made_calls, call_status, behind, conn, activity_fd_conn, new_conn_cbs, cbs, setting,
                break_exc, break_cb, queue, stream, responses, expecting, up, made, reconnect,
                backlog, server, serving, performed>>
activity   == <<call, step, target, registered, act_conn, activityConn, sock, shut, act_serving,
                inWait, epoll, event>>
transport  == <<procs, count, toRemote, toLocal, wire, remote, written, results, wrong>>
concur     == <<stack, pc, next, made_requests, outcome, result, result_cb, collected, request_cbs,
                receiver_cb, final_exn, batch>>
waiting    == <<trio, runs, events, runRunning, systemTask, channel, epoller, readable>>
buffers    == <<transfer, list, iov, firstIov, piece, used, transferred, addr>>
coros      == <<co_status, co_stack, runner, shifts, conts, cancelled, saved, answered>>
vars       == <<running, connection, persistent, activity, transport, concur, waiting, buffers, coros>>

Conn == INSTANCE SyscallConnection
          WITH ResponseSize <- 2, ToFdCapacity <- 3, FromFdCapacity <- 4,
               Faults <- {"close_interface", "die", "lost"}
Shut == INSTANCE SyscallConnection WITH Faults <- {"shutdown"}
Pers == INSTANCE PersistentConnection
          WITH MaxCalls <- 2, MaxConns <- 3, Faults <- {"break", "partial"},
               issued <- made_calls, status <- call_status
Act  == INSTANCE ActivityFd WITH Coroutines <- {a, b}, MaxConns <- 3, conn <- act_conn, serving <- act_serving
Sock == INSTANCE SocketTransport
          WITH Procs <- Coroutines, Sizes <- {2}, MaxOps <- 3, Capacity <- 6,
               Faults <- {"cancel", "delay"}

Run  == INSTANCE Concur
          WITH Fails <- TRUE, k <- next, requests <- made_requests, value <- outcome
Wait == INSTANCE WaitReadable
Bufs == INSTANCE Transfers
          WITH Calls <- {"writev", "sendmsg"}, Sizes <- {1, 3}, MaxBufs <- 3, NameSize <- 2,
               SockLens <- {1, 2, 3}, NameLens <- {0, 2}, call <- transfer, stream <- transferred
Conts == INSTANCE Continuations WITH status <- co_status, stack <- co_stack

ASSUME CallsAssumption ==
    /\ MaxSyscalls \in Nat /\ RequestSize \in Nat \ {0} /\ ResponseSize \in Nat \ {0}
    /\ ToFdCapacity \in Nat \ {0} /\ FromFdCapacity \in Nat \ {0}
    /\ Pers!PersistentAssumption /\ Act!ActivityAssumption /\ Sock!TransportAssumption
    /\ Run!ConcurAssumption /\ Wait!WaitAssumption /\ Conts!ContinuationsAssumption

Init == /\ running \in {"connection", "shutdown", "persistent", "activity", "transport", "concur",
                        "waiting", "buffers", "coros"}
        /\ running # "shutdown" => Conn!Init
        /\ running = "shutdown" => Shut!Init
        /\ Pers!Init /\ Act!Init /\ Sock!Init /\ Run!Init /\ Wait!Init /\ Bufs!Init /\ Conts!Init
        /\ running # "buffers" => transfer = "writev" /\ Len(list) = 1 /\ list[1].to = 1

Next == \/ running = "connection" /\ Conn!Next
           /\ UNCHANGED <<running, persistent, activity, transport, concur, waiting, buffers, coros>>
        \/ running = "shutdown" /\ Shut!Next
           /\ UNCHANGED <<running, persistent, activity, transport, concur, waiting, buffers, coros>>
        \/ running = "persistent" /\ Pers!Next
           /\ UNCHANGED <<running, connection, activity, transport, concur, waiting, buffers, coros>>
        \/ running = "activity" /\ Act!Next
           /\ UNCHANGED <<running, connection, persistent, transport, concur, waiting, buffers, coros>>
        \/ running = "transport" /\ Sock!Next
           /\ UNCHANGED <<running, connection, persistent, activity, concur, waiting, buffers, coros>>
        \/ running = "concur" /\ Run!Next
           /\ UNCHANGED <<running, connection, persistent, activity, transport, waiting, buffers, coros>>
        \/ running = "waiting" /\ Wait!Next
           /\ UNCHANGED <<running, connection, persistent, activity, transport, concur, buffers, coros>>
        \/ running = "buffers" /\ Bufs!Next
           /\ UNCHANGED <<running, connection, persistent, activity, transport, concur, waiting, coros>>
        \/ running = "coros" /\ Conts!Next
           /\ UNCHANGED <<running, connection, persistent, activity, transport, concur, waiting, buffers>>

\* The fairness of each component, for the one that runs.
Fairness ==
    /\ WF_connection(running = "connection" /\ Conn!RunRequests)
    /\ WF_connection(running = "connection" /\ Conn!RunResponses)
    /\ WF_connection(running = "connection" /\ Conn!RunServer)
    /\ WF_connection(running = "connection" /\ Conn!ServerCloseInfd)
    /\ WF_connection(running = "connection" /\ Conn!ServerCloseOutfd)
    /\ WF_connection(running = "shutdown" /\ Shut!RunRequests)
    /\ WF_connection(running = "shutdown" /\ Shut!RunResponses)
    /\ WF_connection(running = "shutdown" /\ Shut!RunServer)
    /\ WF_connection(running = "shutdown" /\ Shut!ServerCloseInfd)
    /\ WF_connection(running = "shutdown" /\ Shut!ServerCloseOutfd)
    /\ WF_persistent(running = "persistent" /\ Pers!Server) /\ WF_persistent(running = "persistent" /\ Pers!Setting)
    /\ \A k \in 1..3 : WF_persistent(running = "persistent" /\ Pers!Connection(k))
    /\ WF_persistent(running = "persistent" /\ Pers!ConnectAndSend)
    /\ WF_persistent(running = "persistent" /\ Pers!SetNewConn)
    /\ WF_persistent(running = "persistent" /\ conn = 0 /\ Pers!Reconnect)
    /\ WF_activity(running = "activity" /\ Act!Waiter) /\ WF_activity(running = "activity" /\ Act!Server)
    /\ WF_transport(running = "transport" /\ Sock!WriteReturns) /\ WF_transport(running = "transport" /\ Sock!RemoteRecv)
    /\ WF_transport(running = "transport" /\ Sock!RecvReturns) /\ WF_transport(running = "transport" /\ Sock!RemoteWrite)
    /\ WF_transport(running = "transport" /\ Sock!Arrive) /\ WF_transport(running = "transport" /\ Sock!RemoteWriteReturns)
    /\ \A c \in Coroutines : /\ WF_transport(running = "transport" /\ Sock!LocalWrite(c))
                             /\ WF_transport(running = "transport" /\ Sock!LocalRead(c))
    /\ WF_concur(running = "concur" /\ Run!Next)
    /\ WF_waiting(running = "waiting" /\ Wait!Wait) /\ WF_waiting(running = "waiting" /\ Wait!Receive)
    /\ WF_waiting(running = "waiting" /\ Wait!Resume) /\ WF_waiting(running = "waiting" /\ Wait!Shift)
    /\ WF_buffers(running = "buffers" /\ (Bufs!Vectored \/ Bufs!Single \/ Bufs!Message))

Spec == Init /\ [][Next]_vars /\ Fairness

-----------------------------------------------------------------------------
(***************************************************************************)
(* shutdown_current_connection says that a shutdown of the writing side    *)
(* lets the syscalls that were written return: none of them hangs up.      *)
(***************************************************************************)
WrittenCallsReturn == running = "shutdown" => Shut!WrittenCallsReturn

(***************************************************************************)
(* A request of run_all's callables is in one place: the queue, the        *)
(* server's batch, or answered, also when the server fails; the server     *)
(* waits when the queue says so; the results are in the order of the       *)
(* callables.  The epoller's continuation is in one place too, however     *)
(* often trio.run ends around it.                                          *)
(***************************************************************************)
HeldOnce == /\ running = "concur" => Run!HeldOnce /\ Run!ReceiverOnce /\ Run!ResultsInOrder
            /\ running = "waiting" => Wait!OneWaiter

(***************************************************************************)
(* Of a list of buffers every byte is either transferred, and in a buffer  *)
(* that was returned as used, or in the rest, in order, whatever the       *)
(* kernel does of each call; the array of iovecs that describes the rest   *)
(* holds it, and the parts of an address are inside its buffer.            *)
(***************************************************************************)
Accounted ==
    running = "buffers" => Bufs!Accounted /\ Bufs!RestIsWritten /\ Bufs!InsideBuffer

(***************************************************************************)
(* Every shift returns once, with what was sent to its own continuation,   *)
(* however coroutines and trio tasks resume each other and are cancelled;  *)
(* none is entered while it runs, and one that waits is held by somebody.  *)
(***************************************************************************)
OwnAnswer == running = "coros" => /\ Conts!TypeOK /\ Conts!RunnerIsOurs /\ Conts!NotReentered
                                  /\ Conts!OwnAnswer /\ Conts!WaitersAreHeld

\* Number i waits: a syscall of a connection or of a persistent one, reconnect (3),
\* a coroutine's syscall in a thread that blocks, an event of that thread's
\* epoller (3), a coroutine that writes or reads remote memory; run_all; the
\* epoller, in a trio.run that goes on; who transfers a list of buffers.  When
\* a continuation is resumed is for its holder to say.
Waits(i) ==
    CASE running \in {"connection", "shutdown"} -> status[i] = "pending"
      [] running = "persistent" -> IF i = 3 THEN reconnect = "response" ELSE call_status[i] = "pending"
      [] running = "activity"   -> IF i = 3 THEN event # "none" /\ step # "dead" ELSE call[Co[i]] = "sent"
      [] running = "transport"  -> i # 3 /\ procs[Co[i]] # Sock!Idle
      [] running = "concur"     -> i = 1 /\ pc[Run!main] # "done"
      [] running = "waiting"    -> i = 1 /\ readable /\ trio
      [] running = "buffers"    -> i = 1 /\ transferred # Bufs!BytesOf(list)
      [] running = "coros"      -> FALSE

(***************************************************************************)
(* Whatever happens to the connection that carries it, a syscall is        *)
(* answered, with its result or an error: over a persistent one as long as *)
(* somebody reconnects, in a thread that blocks in epoll_wait because its  *)
(* activity fd wakes it.  reconnect ends; a write or read of remote memory *)
(* ends, also when others are cancelled half way; events are handed out;   *)
(* run_all returns although the server fails; who goes on with the rest of *)
(* a list transfers all of it.  (EveryCallAnswered of three modules,       *)
(* ReconnectEnds, EventsHandedOut, EveryOpEnds, RunAllEnds, ReadableSeen   *)
(* and AllTransferred, in one formula.)                                    *)
(***************************************************************************)
EveryCallAnswered == \A i \in 1..3 : Waits(i) ~> ~Waits(i)
=============================================================================
