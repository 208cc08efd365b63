----------------------------- MODULE ChildMonitor -----------------------------
(***************************************************************************)
(* One child process as monitor.py and handle/process.py see it: the       *)
(* kernel's view of the child, the signalfd on which SIGCHLD arrives, the  *)
(* ChildProcess that remembers what waitid said, and any number of         *)
(* coroutines that call waitpid, kill or killpg on the AsyncChildProcess.  *)
(*                                                                         *)
(* A step is what happens up to the next await: a syscall or a read of     *)
(* memory is one step to ask for and another to get, and what the kernel   *)
(* does lies in between.                                                   *)
(*                                                                         *)
(* A Siginfo buffer is abstracted to the state change it holds, "none" for *)
(* the buffer of a waitid(NOHANG) that found nothing; an Event of the      *)
(* signalfd to its number: the Events before next_signal have been set.    *)
(***************************************************************************)
EXTENDS Integers

CONSTANTS
    Coroutines,       \* the coroutines that use the AsyncChildProcess
    OptionSets,       \* the state changes a waitpid may be called for
    MaxChanges,       \* bound: how often a child, this or another, changes state
    ReadsFirst,       \* memory reads come back before syscalls made after them
    Faults            \* what may go wrong in this run

Changes == {"stopped", "continued", "dead"}

ASSUME MonitorAssumption ==
    /\ OptionSets \subseteq SUBSET Changes
    /\ MaxChanges \in Nat
    /\ ReadsFirst \in BOOLEAN
    /\ Faults \subseteq {"cancel", "hangup", "sigfd"}

VARIABLES
    child,            \* the kernel's state of the process
    event,            \* the stop or continue waitid has not yet reported
    changes,          \* how many state changes there have been
    unseen_death,     \* history: the answer that reported the death hung up
    sigchld,          \* SIGCHLD is pending for the signalfd
    sigfd,            \* where AsyncSignalfd._run is
    next_signal,      \* the number of the Event that the next SIGCHLD sets
    death_state,      \* ChildProcess knows that the child died
    unread_siginfo,   \* what the last waitid said, "unset" once that is read
    in_use,           \* a waitid or kill of this child is under way
    next_sigchld,     \* the Event to wait for before the next waitid; 0: none
    pc,               \* where each coroutine is
    options,          \* what its waitpid waits for
    saved_sigchld,    \* the Event it saved before waitid, or is waiting for
    siginfo           \* what its waitid, or the read it waits for, gives

kernel  == <<child, event, changes, unseen_death>>
signals == <<sigchld, sigfd, next_signal>>
process == <<death_state, unread_siginfo, in_use>>
locals  == <<options, saved_sigchld, siginfo>>
vars    == <<kernel, signals, process, next_sigchld, pc, locals>>

Reading  == {"read_old", "read_new", "kill_read"}
InFlight == {"waitid", "waitid_reply", "kill", "kill_reply"}
Places   == Reading \cup InFlight \cup {"idle", "sigchld", "malloc"}

Init ==
    /\ child = "running" /\ event = "none" /\ changes = 0 /\ unseen_death = FALSE
    /\ sigchld = FALSE /\ sigfd = "reading" /\ next_signal = 1
    /\ death_state = FALSE /\ unread_siginfo = "unset" /\ in_use = FALSE
    /\ next_sigchld = 0
    /\ pc = [p \in Coroutines |-> "idle"]
    /\ options = [p \in Coroutines |-> {}]
    /\ saved_sigchld = [p \in Coroutines |-> 0]
    /\ siginfo = [p \in Coroutines |-> "none"]

Goto(p, place) == pc' = [pc EXCEPT ![p] = place]

-----------------------------------------------------------------------------
(* The kernel and AsyncSignalfd *)

\* The child is stopped or continued, or dies; whoever reaps it gets SIGCHLD.
ChildChanges(change) ==
    /\ changes < MaxChanges
    /\ changes' = changes + 1
    /\ \/ change = "stopped" /\ child = "running" /\ child' = "stopped" /\ event' = change
       \/ change = "continued" /\ child = "stopped" /\ child' = "running" /\ event' = change
       \/ change = "dead" /\ child \in {"running", "stopped"}
          /\ child' = "zombie" /\ event' = "none"
    /\ sigchld' = TRUE
    /\ UNCHANGED <<unseen_death, sigfd, next_signal, process, next_sigchld, pc, locals>>

\* Another child of the same task changes state.
OtherChildChanges ==
    /\ changes < MaxChanges
    /\ changes' = changes + 1
    /\ sigchld' = TRUE
    /\ UNCHANGED <<child, event, unseen_death, sigfd, next_signal, process, next_sigchld, pc, locals>>

\* AsyncSignalfd._run: the read takes the signal from the kernel ...
SigfdRead ==
    /\ sigfd = "reading" /\ sigchld
    /\ sigchld' = FALSE /\ sigfd' = "got"
    /\ UNCHANGED <<kernel, next_signal, process, next_sigchld, pc, locals>>

\* ... and when it comes back, a new Event takes the place of the one it sets.
SigfdSet ==
    /\ sigfd = "got"
    /\ next_signal' = next_signal + 1 /\ sigfd' = "reading"
    /\ UNCHANGED <<kernel, sigchld, process, next_sigchld, pc, locals>>

\* The read raises SyscallError: the Event is closed, and never replaced.
SigfdFails ==
    /\ "sigfd" \in Faults
    /\ sigfd # "failed"
    /\ sigfd' = "failed"
    /\ UNCHANGED <<kernel, sigchld, next_signal, process, next_sigchld, pc, locals>>

-----------------------------------------------------------------------------
(* AsyncChildProcess.waitpid *)

(***************************************************************************)
(* One turn of the loop up to its first await.  next is next_sigchld and   *)
(* unread is unread_siginfo at this point.                                 *)
(***************************************************************************)
Poll(p, unread) ==
    /\ saved_sigchld' = [saved_sigchld EXCEPT ![p] = next_signal]
    /\ \/ unread = "unset" /\ Goto(p, "malloc") /\ UNCHANGED siginfo
       \/ /\ unread # "unset"
          /\ Goto(p, "read_old") /\ siginfo' = [siginfo EXCEPT ![p] = unread]

Loop(p, next, unread) ==
    /\ next_sigchld' = next
    /\ \/ /\ next # 0
          /\ Goto(p, "sigchld")
          /\ saved_sigchld' = [saved_sigchld EXCEPT ![p] = next]
          /\ UNCHANGED siginfo
       \/ next = 0 /\ Poll(p, unread)

Waitpid(p, opts) ==
    /\ pc[p] = "idle"
    /\ ~("dead" \in opts /\ death_state)
    /\ options' = [options EXCEPT ![p] = opts]
    /\ Loop(p, next_sigchld, unread_siginfo)
    /\ UNCHANGED <<kernel, signals, process>>

\* The Event was set: poll, and let nobody wait for it again.
SigchldWake(p) ==
    /\ pc[p] = "sigchld" /\ saved_sigchld[p] < next_signal
    /\ next_sigchld' = 0
    /\ Poll(p, unread_siginfo)
    /\ UNCHANGED <<kernel, signals, process, options>>

\* The Event was closed: waitpid raises the SyscallError.
SigchldRaise(p) ==
    /\ pc[p] = "sigchld" /\ saved_sigchld[p] = next_signal /\ sigfd = "failed"
    /\ Goto(p, "idle")
    /\ UNCHANGED <<kernel, signals, process, next_sigchld, locals>>

\* ChildProcess.borrow lets a waitid or a kill begin.
CanBorrow == ~death_state /\ unread_siginfo = "unset" /\ ~in_use

WaitidSend(p) ==
    /\ pc[p] = "malloc" /\ CanBorrow
    /\ in_use' = TRUE
    /\ Goto(p, "waitid")
    /\ UNCHANGED <<kernel, signals, death_state, unread_siginfo, next_sigchld, locals>>

BorrowRaises(p) ==
    /\ pc[p] = "malloc" /\ ~CanBorrow
    /\ Goto(p, "idle")
    /\ UNCHANGED <<kernel, signals, process, next_sigchld, locals>>

\* The kernel performs waitid(NOHANG); to report a death is to reap the child.
WaitidPerform(p) ==
    /\ pc[p] = "waitid" /\ child # "reaped"
    /\ siginfo' = [siginfo EXCEPT ![p] = IF child = "zombie" THEN "dead" ELSE event]
    /\ child' = IF child = "zombie" THEN "reaped" ELSE child
    /\ event' = "none"
    /\ Goto(p, "waitid_reply")
    /\ UNCHANGED <<changes, unseen_death, signals, process, next_sigchld, options, saved_sigchld>>

\* There is no such child any more: waitid raises ChildProcessError.
WaitidEchild(p) ==
    /\ pc[p] = "waitid" /\ child = "reaped"
    /\ in_use' = FALSE
    /\ Goto(p, "idle")
    /\ UNCHANGED <<kernel, signals, death_state, unread_siginfo, next_sigchld, locals>>

\* Mutant: the siginfo buffer is forgotten until it has been read.
WaitidReplyForgets(p) ==
    /\ pc[p] = "waitid_reply"
    /\ ReadsFirst => \A q \in Coroutines : pc[q] \notin Reading
    /\ in_use' = FALSE
    /\ Goto(p, "read_new")
    /\ UNCHANGED <<kernel, signals, death_state, unread_siginfo, next_sigchld, locals>>

\* waitid returns, and read_siginfo starts to read the buffer.
WaitidReply(p) ==
    /\ pc[p] = "waitid_reply"
    /\ ReadsFirst => \A q \in Coroutines : pc[q] \notin Reading
    /\ in_use' = FALSE
    /\ unread_siginfo' = siginfo[p]
    /\ Goto(p, "read_new")
    /\ UNCHANGED <<kernel, signals, death_state, next_sigchld, locals>>

\* parse_waitid_siginfo
Parse(info) ==
    /\ unread_siginfo' = "unset"
    /\ death_state' = (death_state \/ info = "dead")

\* What waitpid does with a state change: return it, or drop it and go on.
Report(p, change) ==
    \/ change \in options[p] /\ Goto(p, "idle")
       /\ UNCHANGED <<next_sigchld, saved_sigchld, siginfo>>
    \/ change \notin options[p] /\ Loop(p, next_sigchld, "unset")

\* The buffer of an earlier waitid: if it holds nothing, waitid is called now.
ReadOld(p) ==
    /\ pc[p] = "read_old"
    /\ Parse(siginfo[p])
    /\ \/ /\ siginfo[p] = "none"
          /\ Goto(p, "malloc") /\ UNCHANGED <<next_sigchld, saved_sigchld, siginfo>>
       \/ siginfo[p] # "none" /\ Report(p, siginfo[p])
    /\ UNCHANGED <<kernel, signals, in_use, options>>

\* Mutant: the Event is taken from the signalfd after the waitid, not before.
ReadNewLate(p) ==
    /\ pc[p] = "read_new"
    /\ Parse(siginfo[p])
    /\ \/ siginfo[p] = "none" /\ Loop(p, next_signal, "unset")
       \/ siginfo[p] # "none" /\ Report(p, siginfo[p])
    /\ UNCHANGED <<kernel, signals, in_use, options>>

\* The buffer of this waitid: if it holds nothing, the saved Event comes next.
ReadNew(p) ==
    /\ pc[p] = "read_new"
    /\ Parse(siginfo[p])
    /\ \/ siginfo[p] = "none" /\ Loop(p, saved_sigchld[p], "unset")
       \/ siginfo[p] # "none" /\ Report(p, siginfo[p])
    /\ UNCHANGED <<kernel, signals, in_use, options>>

-----------------------------------------------------------------------------
(* AsyncChildProcess.kill and killpg *)

\* Mutant: kill does not look whether a waitid is under way.
KillUnborrowed(p) ==
    /\ pc[p] = "idle" /\ ~death_state /\ unread_siginfo = "unset"
    /\ in_use' = TRUE
    /\ Goto(p, "kill")
    /\ UNCHANGED <<kernel, signals, death_state, unread_siginfo, next_sigchld, locals>>

Kill(p) ==
    /\ pc[p] = "idle" /\ CanBorrow
    /\ in_use' = TRUE
    /\ Goto(p, "kill")
    /\ UNCHANGED <<kernel, signals, death_state, unread_siginfo, next_sigchld, locals>>

\* Mutant: kill reads the siginfo whether or not there is one.
KillReadsAnyway(p) ==
    /\ pc[p] = "idle"
    /\ siginfo' = [siginfo EXCEPT ![p] = unread_siginfo]
    /\ Goto(p, "kill_read")
    /\ UNCHANGED <<kernel, signals, process, next_sigchld, options, saved_sigchld>>

\* A siginfo is unread: kill reads it first, and drops what it says.
KillReads(p) ==
    /\ pc[p] = "idle" /\ unread_siginfo # "unset"
    /\ siginfo' = [siginfo EXCEPT ![p] = unread_siginfo]
    /\ Goto(p, "kill_read")
    /\ UNCHANGED <<kernel, signals, process, next_sigchld, options, saved_sigchld>>

KillRead(p) ==
    /\ pc[p] = "kill_read"
    /\ Parse(siginfo[p])
    /\ IF death_state' \/ in_use
       THEN Goto(p, "idle") /\ UNCHANGED in_use
       ELSE Goto(p, "kill") /\ in_use' = TRUE
    /\ UNCHANGED <<kernel, signals, next_sigchld, locals>>

\* The kernel delivers the signal, of which the child may die.
KillPerform(p) ==
    /\ pc[p] = "kill"
    /\ Goto(p, "kill_reply")
    /\ \/ UNCHANGED <<child, event, sigchld>>
       \/ child \in {"running", "stopped"}
          /\ child' = "zombie" /\ event' = "none" /\ sigchld' = TRUE
    /\ UNCHANGED <<changes, unseen_death, sigfd, next_signal, process, next_sigchld, locals>>

KillReply(p) ==
    /\ pc[p] = "kill_reply"
    /\ in_use' = FALSE
    /\ Goto(p, "idle")
    /\ UNCHANGED <<kernel, signals, death_state, unread_siginfo, next_sigchld, locals>>

-----------------------------------------------------------------------------
(* Faults *)

\* trio cancels the coroutine; a syscall is shielded, any other await is not.
Cancel(p) ==
    /\ "cancel" \in Faults
    /\ pc[p] \in Reading \cup {"sigchld", "malloc"}
    /\ Goto(p, "idle")
    /\ UNCHANGED <<kernel, signals, process, next_sigchld, locals>>

(***************************************************************************)
(* The syscall raises SyscallHangup, whether it was performed or not.  The *)
(* task can be used again if its connection is a persistent one.           *)
(***************************************************************************)
Hangup(p) ==
    /\ "hangup" \in Faults
    /\ pc[p] \in InFlight
    /\ unseen_death' = (unseen_death \/ (pc[p] = "waitid_reply" /\ siginfo[p] = "dead"))
    /\ in_use' = FALSE
    /\ Goto(p, "idle")
    /\ UNCHANGED <<child, event, changes, signals, death_state, unread_siginfo, next_sigchld, locals>>

-----------------------------------------------------------------------------
\* What a coroutine goes on to do by itself.
Step(p) ==
    \/ SigchldWake(p) \/ SigchldRaise(p)
    \/ WaitidSend(p) \/ BorrowRaises(p)
    \/ WaitidPerform(p) \/ WaitidEchild(p) \/ WaitidReply(p)
    \/ ReadOld(p) \/ ReadNew(p)
    \/ KillRead(p) \/ KillPerform(p) \/ KillReply(p)

Call(p) == (\E opts \in OptionSets : Waitpid(p, opts)) \/ Kill(p) \/ KillReads(p)

Environment ==
    \/ \E change \in Changes : ChildChanges(change)
    \/ OtherChildChanges

Next ==
    \/ Environment
    \/ SigfdRead \/ SigfdSet \/ SigfdFails
    \/ \E p \in Coroutines : Step(p) \/ Call(p) \/ Cancel(p) \/ Hangup(p)

Spec == Init /\ [][Next]_vars

(***************************************************************************)
(* The event loop resumes every coroutine whose await is over, the reader  *)
(* of the signalfd included.  Nobody is forced to call waitpid or kill,    *)
(* and a child need not change.                                            *)
(***************************************************************************)
Fairness ==
    /\ WF_vars(SigfdRead) /\ WF_vars(SigfdSet)
    /\ \A p \in Coroutines : WF_vars(Step(p))

FairSpec == Spec /\ Fairness

-----------------------------------------------------------------------------
(* Properties *)

\* Every variable has a value its code or the kernel can give it.
TypeOK ==
    /\ child \in {"running", "stopped", "zombie", "reaped"}
    /\ event \in {"none", "stopped", "continued"}
    /\ changes \in 0..MaxChanges
    /\ unseen_death \in BOOLEAN
    /\ sigchld \in BOOLEAN /\ sigfd \in {"reading", "got", "failed"}
    /\ next_signal \in Nat /\ next_sigchld \in Nat
    /\ death_state \in BOOLEAN /\ in_use \in BOOLEAN
    /\ unread_siginfo \in Changes \cup {"none", "unset"}
    /\ pc \in [Coroutines -> Places]
    /\ options \in [Coroutines -> SUBSET Changes]
    /\ saved_sigchld \in [Coroutines -> Nat]
    /\ siginfo \in [Coroutines -> Changes \cup {"none"}]

(***************************************************************************)
(* The docstring of ChildProcess: a kill or waitid that is on its way to   *)
(* the kernel names a pid that is still our child's, never one that was    *)
(* freed by reaping it and that an unrelated process may have by now.      *)
(* One thing breaks this: a waitid that reaped the child and hung up.      *)
(***************************************************************************)
PidIsOurs ==
    ~unseen_death =>
        \A p \in Coroutines : pc[p] \in {"waitid", "kill"} => child # "reaped"

(***************************************************************************)
(* The kernel reports a death once.  From then on the ChildProcess knows   *)
(* it, or the answer that says so is unread or on its way, unless that     *)
(* answer itself hung up: no cancellation, no other hangup and no second   *)
(* reader of the siginfo buffer loses it.                                  *)
(***************************************************************************)
DeathNotLost ==
    child = "reaped" =>
        \/ unseen_death \/ death_state
        \/ unread_siginfo = "dead"
        \/ \E p \in Coroutines : pc[p] = "waitid_reply" /\ siginfo[p] = "dead"

Waitable == child = "zombie" \/ event # "none"

(***************************************************************************)
(* The comments in waitpid: while there is a state change to fetch, the    *)
(* Event that the next waitpid waits for is set already, or a SIGCHLD that *)
(* will set it is pending or being read.  A SIGCHLD that comes during the  *)
(* waitid is not missed.                                                   *)
(***************************************************************************)
NoLostWakeup ==
    Waitable /\ next_sigchld = next_signal => sigchld \/ sigfd # "reading"

InWaitpid(p) == pc[p] \in {"sigchld", "malloc", "waitid", "waitid_reply",
                           "read_old", "read_new"}

\* Whoever is in waitpid when the child is dead comes out of it.
WaitersLearnOfDeath ==
    \A p \in Coroutines :
        InWaitpid(p) /\ child \in {"zombie", "reaped"} ~> ~InWaitpid(p)
===============================================================================
