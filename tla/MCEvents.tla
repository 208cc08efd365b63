------------------------------ MODULE MCEvents ------------------------------
(***************************************************************************)
(* What is told to whom and in which order, for TLC: readiness of files,   *)
(* events of inotify watches, syscalls over connections that break.  The   *)
(* components stand side by side, and in a behaviour one of them runs;     *)
(* where one is checked with several values of its constants, its          *)
(* instances have the same variables.                                      *)
(***************************************************************************)
EXTENDS Naturals, Sequences, TLC

CONSTANTS
    Coroutines,
    d,                                        \* a coroutine
    r1, Regs, Fd, MaxArrivals, MaxReported,   \* of the epollers: registrations, their fd number
    Wds, MaxHappen, MaxLossy, BufEvents,      \* of the inotify fd
    MaxCalls, MaxConns                        \* of the persistent connection

VARIABLES
    running,
    level, rdlist, conn, arrivals, reg, number, pending_remove, waiter, received, callback, mask,
    total, consumed, queue, waiters, call, answers, done,
    watched, kqueue, events, results, reader, watch, registered, pending, wd_waiters, pc, on, got,
    skipped,
    issued, status, behind, pers_conn, activity_fd_conn, new_conn_cbs, cbs, setting, break_exc,
    break_cb, requests, stream, responses, expecting, up, made, reconnect, backlog, server,
    serving, performed

epolls     == <<level, rdlist, conn, arrivals, reg, number, pending_remove, waiter, received,
                callback, mask, total, consumed, queue, waiters, call, answers, done>>
inotify    == <<watched, kqueue, events, results, reader, watch, registered, pending, wd_waiters,
                pc, on, got, skipped>>
persistent == <<issued, status, behind, pers_conn, activity_fd_conn, new_conn_cbs, cbs, setting,
                break_exc, break_cb, requests, stream, responses, expecting, up, made, reconnect,
                backlog, server, serving, performed>>
vars       == <<running, epolls, inotify, persistent>>

Poll(c)   == INSTANCE Epoller
               WITH Regs <- c.regs, FdNumber <- c.numbers, Unconnected <- c.unconnected,
                    Clients <- c.clients, Ops <- c.ops, Arrivals <- c.arrivals,
                    MaxArrivals <- c.maxArrivals, MaxEvents <- MaxReported, Faults <- c.faults
Notify(c) == INSTANCE InotifyWatch
               WITH Users <- Coroutines, MaxEvents <- c.events, Faults <- c.faults, waiters <- wd_waiters
Pers      == INSTANCE PersistentConnection
               WITH Faults <- {"break", "nested", "close", "die"}, conn <- pers_conn, queue <- requests

\* The configurations that run: one file that becomes ready; registrations of one fd number,
\* one after the other, which is when allocate_number has something to do; an inotify fd
\* without and with what makes events get lost.
Io     == [regs |-> {r1}, numbers |-> [r \in {r1} |-> Fd], unconnected |-> {},
           clients |-> Coroutines, ops |-> {"read", "write", "rdhup"},
           arrivals |-> {"IN", "OUT", "RDHUP", "HUP"}, maxArrivals |-> MaxArrivals,
           faults |-> {"cancel"}]
Delete == [regs |-> Regs, numbers |-> [r \in Regs |-> Fd], unconnected |-> {r1},
           clients |-> {d}, ops |-> {"accept", "connect"},
           arrivals |-> {"IN"}, maxArrivals |-> 0,
           faults |-> {"delete", "epoll_wait", "connect"}]
Watch  == [events |-> MaxHappen, faults |-> {"until"}]
Lossy  == [events |-> MaxLossy, faults |-> {"until", "overflow", "cancel"}]

ASSUME EventsAssumption ==
    /\ Poll(Io)!EpollerAssumption /\ Poll(Delete)!EpollerAssumption
    /\ Notify(Watch)!InotifyAssumption /\ Notify(Lossy)!InotifyAssumption /\ Pers!PersistentAssumption

Init == /\ running \in {"io", "delete", "watch", "lossy", "persistent"}
        /\ running # "delete" => Poll(Io)!Init
        /\ running = "delete" => Poll(Delete)!Init
        /\ Notify(Watch)!Init /\ Pers!Init

Next == \/ running = "io" /\ Poll(Io)!Next /\ UNCHANGED <<running, inotify, persistent>>
        \/ running = "delete" /\ Poll(Delete)!Next /\ UNCHANGED <<running, inotify, persistent>>
        \/ running = "watch" /\ Notify(Watch)!Next /\ UNCHANGED <<running, epolls, persistent>>
        \/ running = "lossy" /\ Notify(Lossy)!Next /\ UNCHANGED <<running, epolls, persistent>>
        \/ running = "persistent" /\ Pers!Next /\ UNCHANGED <<running, epolls, inotify>>

Spec == Init /\ [][Next]_vars

\* The coroutines are alike.
CoroutineSymmetry == Permutations(Coroutines)

-----------------------------------------------------------------------------
(***************************************************************************)
(* A file that is ready is never taken for one that is not: an EAGAIN that *)
(* was produced before an event, and is processed after it, does not take  *)
(* back what the event said.                                               *)
(***************************************************************************)
NoLostReadiness == running = "io" => Poll(Io)!TypeOK /\ Poll(Io)!NoLostReadiness

(***************************************************************************)
(* An event is for the callback that asked for it: a number is not given   *)
(* to another fd while events for it may be on their way, and the events   *)
(* of an inotify fd find their Watch.                                      *)
(***************************************************************************)
EventsFindTheirCallback ==
    /\ running = "delete" => Poll(Delete)!EventsFindTheirCallback
    /\ running = "watch"  => Notify(Watch)!EventsFindWatch

(***************************************************************************)
(* The coroutines that wait for events of one watch get each event once,   *)
(* in the order it happened.                                               *)
(***************************************************************************)
EventsOnceInOrder == /\ running = "watch" => Notify(Watch)!EventsOnceInOrder
                     /\ running = "lossy" => Notify(Lossy)!TypeOK

(***************************************************************************)
(* Syscalls that waited for a connection are not overtaken by those that   *)
(* were made meanwhile or are made when it is there.                       *)
(***************************************************************************)
WaitersNotOvertaken == running = "persistent" => Pers!TypeOK /\ Pers!WaitersNotOvertaken

(***************************************************************************)
(* PersistentSyscallConnection does what PersistentInterface says of it,   *)
(* whenever its connections break.                                         *)
(***************************************************************************)
ImplementsInterface == Pers!ImplementsInterface
=============================================================================
