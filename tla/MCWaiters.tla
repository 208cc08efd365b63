------------------------------ MODULE MCWaiters ------------------------------
(***************************************************************************)
(* Who waits is resumed, for TLC: a coroutine that waits for a file to be  *)
(* ready, for events of an inotify watch, for the death of a child.  The   *)
(* components stand side by side, and in a behaviour one of them runs.     *)
(***************************************************************************)
EXTENDS Integers, Sequences

CONSTANTS Coroutines,
          r1       \* a registration

VARIABLES
    running,
    level, rdlist, conn, arrivals, reg, number, pending_remove, waiter, received, callback, mask,
    total, consumed, queue, waiters, call, answers, done,
    watched, kqueue, events, results, reader, watch, registered, pending, wd_waiters, user_pc, on,
    got, skipped,
    child, event, changes, unseen_death, sigchld, sigfd, next_signal, death_state, unread_siginfo, in_use,
    next_sigchld, pc, options, saved_sigchld, siginfo

epolls   == <<level, rdlist, conn, arrivals, reg, number, pending_remove, waiter, received, callback,
              mask, total, consumed, queue, waiters, call, answers, done>>
inotify  == <<watched, kqueue, events, results, reader, watch, registered, pending, wd_waiters,
              user_pc, on, got, skipped>>
children == <<child, event, changes, unseen_death, sigchld, sigfd, next_signal, death_state, unread_siginfo,
              in_use, next_sigchld, pc, options, saved_sigchld, siginfo>>
vars     == <<running, epolls, inotify, children>>

Ep == INSTANCE Epoller
        WITH Regs <- {r1}, FdNumber <- [r \in {r1} |-> 3], Unconnected <- {}, Clients <- Coroutines,
             Ops <- {"read", "write"}, Arrivals <- {"IN", "OUT"}, MaxArrivals <- 1, MaxEvents <- 1,
             Faults <- {}
In == INSTANCE InotifyWatch
        WITH Users <- Coroutines, Wds <- {1, 2}, MaxEvents <- 2, BufEvents <- 2, Faults <- {},
             waiters <- wd_waiters, pc <- user_pc
Ch == INSTANCE ChildMonitor
        WITH OptionSets <- {{"dead"}}, MaxChanges <- 1, ReadsFirst <- TRUE,
             Faults <- {"cancel", "hangup", "sigfd"}

ASSUME Ep!EpollerAssumption /\ In!InotifyAssumption

Init == running \in {"epolls", "inotify", "children"} /\ Ep!Init /\ In!Init /\ Ch!Init

Next == \/ running = "epolls" /\ Ep!Next /\ UNCHANGED <<running, inotify, children>>
        \/ running = "inotify" /\ In!Next /\ UNCHANGED <<running, epolls, children>>
        \/ running = "children" /\ Ch!Next /\ UNCHANGED <<running, epolls, inotify>>

\* The fairness of each component, for the one that runs.
Fairness ==
    /\ WF_epolls(running = "epolls" /\ Ep!Waiter)
    /\ WF_inotify(running = "inotify" /\ In!Read) /\ WF_inotify(running = "inotify" /\ In!Result)
    /\ WF_children(running = "children" /\ Ch!SigfdRead)
    /\ WF_children(running = "children" /\ Ch!SigfdSet)
    /\ \A c \in Coroutines : /\ WF_epolls(running = "epolls" /\ Ep!Step(c))
                             /\ WF_children(running = "children" /\ Ch!Step(c))

Spec == Init /\ [][Next]_vars /\ Fairness

-----------------------------------------------------------------------------
\* What the coroutine waits for has happened: the file is ready, the watch was
\* removed, the child is dead.
Due(c) == CASE running = "epolls"   -> Ep!WaitsReady(c)
            [] running = "inotify"  -> user_pc[c] = "waiting" /\ on[c] \notin watched
            [] running = "children" -> Ch!InWaitpid(c) /\ child \in {"zombie", "reaped"}

(***************************************************************************)
(* Nobody waits for ever for what has happened: the file stays ready, the  *)
(* watch was removed, the child is dead.  (ReadyWaiterResumes of Epoller,  *)
(* WaiterLearns of InotifyWatch and WaitersLearnOfDeath of ChildMonitor,   *)
(* in one formula.)                                                        *)
(***************************************************************************)
WaitersResume == \A c \in Coroutines : Due(c) ~> ~Due(c)
=============================================================================
