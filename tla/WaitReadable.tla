----------------------------- MODULE WaitReadable -----------------------------
(***************************************************************************)
(* dneio's TrioSystemWaitReadable: the epoller of the local thread must    *)
(* not block trio, so a trio system task waits for its epollfd.  System    *)
(* tasks end with trio.run, while the epoller's coroutine, which is not a  *)
(* trio task, lives on; trio.run may be called again later.                *)
(***************************************************************************)
EXTENDS Naturals

CONSTANTS
    MaxRuns,          \* how often trio.run is called
    MaxEvents         \* how often the epollfd becomes readable

WaitAssumption == MaxRuns \in Nat /\ MaxEvents \in Nat

VARIABLES
    trio,             \* trio.run is in progress
    runs, events,
    runRunning,       \* _run_running
    systemTask,       \* "none", "receive" or "wait_readable"
    channel,          \* the continuations in the memory channel
    epoller,          \* "waits" or "runs": EpollWaiter._run
    readable          \* the epollfd is readable

vars == <<trio, runs, events, runRunning, systemTask, channel, epoller, readable>>

Init ==
    /\ trio = FALSE /\ runs = 0 /\ events = 0 /\ runRunning = FALSE /\ systemTask = "none"
    /\ channel = 0 /\ epoller = "runs" /\ readable = FALSE

TrioRun ==
    /\ ~trio /\ runs < MaxRuns /\ trio' = TRUE /\ runs' = runs + 1
    /\ UNCHANGED <<events, runRunning, systemTask, channel, epoller, readable>>

\* The except clause of run: the continuation goes back to the channel.
PutBack == IF systemTask = "wait_readable" THEN 1 ELSE 0

\* The finally clause of run.
Stopped == FALSE

\* trio.run returns: the system task is cancelled where it waits.
TrioEnds ==
    /\ trio /\ trio' = FALSE
    /\ systemTask' = "none" /\ runRunning' = Stopped /\ channel' = channel + PutBack
    /\ UNCHANGED <<runs, events, epoller, readable>>

\* ensure_running, in every shift.
Ensured ==
    /\ runRunning' = TRUE
    /\ systemTask' = IF runRunning THEN systemTask ELSE "receive"

\* Some trio task calls shift.
Shift ==
    /\ trio /\ Ensured /\ UNCHANGED <<trio, runs, events, channel, epoller, readable>>

\* The epoller has handled the events, or starts, and waits.
Wait ==
    /\ trio /\ epoller = "runs" /\ epoller' = "waits" /\ channel' = channel + 1 /\ Ensured
    /\ UNCHANGED <<trio, runs, events, readable>>

Receive ==
    /\ systemTask = "receive" /\ channel > 0
    /\ channel' = channel - 1 /\ systemTask' = "wait_readable"
    /\ UNCHANGED <<trio, runs, events, runRunning, epoller, readable>>

\* wait_readable returns and the epoller is resumed; its epoll_wait takes the
\* events.
Resume ==
    /\ systemTask = "wait_readable" /\ readable
    /\ systemTask' = "receive" /\ epoller' = "runs" /\ readable' = FALSE
    /\ UNCHANGED <<trio, runs, events, runRunning, channel>>

Readable ==
    /\ ~readable /\ events < MaxEvents /\ readable' = TRUE /\ events' = events + 1
    /\ UNCHANGED <<trio, runs, runRunning, systemTask, channel, epoller>>

Next == TrioRun \/ TrioEnds \/ Shift \/ Wait \/ Receive \/ Resume \/ Readable

\* Within a trio.run the system task and the epoller go on, and trio tasks call
\* shift, if only to wait for what the epoller is to tell them.
Spec == Init /\ [][Next]_vars /\ WF_vars(Wait) /\ WF_vars(Receive) /\ WF_vars(Resume) /\ WF_vars(Shift)

-----------------------------------------------------------------------------
(* Properties *)

(***************************************************************************)
(* "we shouldn't ever get more than one waiter", or send_nowait raises;    *)
(* and a waiting epoller's continuation is in exactly one place, however   *)
(* often trio.run ends around it.                                          *)
(***************************************************************************)
OneWaiter ==
    channel + (IF systemTask = "wait_readable" THEN 1 ELSE 0) = (IF epoller = "waits" THEN 1 ELSE 0)

\* "a coroutine may have already called that in a previous call to trio.run":
\* in a trio.run that goes on, the epoller sees a readable epollfd.
ReadableSeen == readable ~> ~readable \/ ~trio
=============================================================================
