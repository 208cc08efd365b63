------------------------------ MODULE CloneChild ------------------------------
(***************************************************************************)
(* tasks/clone.py, with ProcessTask.clone and ThreadProcess of             *)
(* handle/process.py and the futex helper: how a child thread is made, and *)
(* how it is found out that it died or called exec.                        *)
(*                                                                         *)
(* The child may share its fd table with others, so its end of the system  *)
(* call socket need not be closed when it goes.  Instead the kernel clears *)
(* the ctid futex; a helper process that waits for the futex exits; a      *)
(* coroutine that waits for the helper shuts our end of the socket down.   *)
(* That state changes of our child processes are seen is what ChildMonitor *)
(* is about.                                                               *)
(***************************************************************************)
EXTENDS Naturals, FiniteSets

CONSTANTS
    Children,         \* the child threads that are made, concurrently
    SharesFiles,      \* those that are cloned with CLONE_FILES
    ParentMayDie      \* whether the process that clones may die

CloneAssumption == SharesFiles \subseteq Children /\ ParentMayDie \in BOOLEAN

VARIABLES
    us,               \* what clone_child_task does, for each child
    watcher,          \* the background coroutine: "none", "waiting", "done"
    child,            \* each child: "absent", "running", "execd" or "dead"
    futex,            \* the word at ctid
    helper,           \* the helper of each child
    cont,             \* SIGCONT was sent to it
    parentHolds,      \* our task has the child's end of the socket open
    shut,             \* our end is shut down
    call,             \* the last system call made in each child
    freed,            \* the child's stack and futex are free
    parent            \* whether the cloning process lives

vars == <<us, watcher, child, futex, helper, cont, parentHolds, shut, call, freed, parent>>

Init ==
    /\ us = [c \in Children |-> "start"] /\ watcher = [c \in Children |-> "none"]
    /\ child = [c \in Children |-> "absent"] /\ futex = [c \in Children |-> 1]
    /\ helper = [c \in Children |-> "absent"] /\ cont = {}
    /\ parentHolds = {} /\ shut = {} /\ call = [c \in Children |-> "none"]
    /\ freed = {} /\ parent = TRUE

Gone(c) == child[c] \in {"execd", "dead"}

-----------------------------------------------------------------------------
(* clone_child_task *)

\* The channel, the arena with the stack, and the futex with value 1.
Prepare(c) ==
    /\ us[c] = "start" /\ parent
    /\ us' = [us EXCEPT ![c] = "clone"] /\ parentHolds' = parentHolds \cup {c}
    /\ UNCHANGED <<watcher, child, futex, helper, cont, shut, call, freed, parent>>

\* monitor.clone: ProcessTask.clone with CLONE_VM and CLONE_CHILD_CLEARTID.
CloneProcess(c) ==
    /\ us[c] = "clone" /\ parent
    /\ us' = [us EXCEPT ![c] = "helper"] /\ child' = [child EXCEPT ![c] = "running"]
    /\ UNCHANGED <<watcher, futex, helper, cont, parentHolds, shut, call, freed, parent>>

\* launch_futex_monitor: the helper is cloned.
CloneHelper(c) ==
    /\ us[c] = "helper" /\ parent
    /\ us' = [us EXCEPT ![c] = "stopped"] /\ helper' = [helper EXCEPT ![c] = "started"]
    /\ UNCHANGED <<watcher, child, futex, cont, parentHolds, shut, call, freed, parent>>

\* The helper is seen to have stopped, and SIGCONT is sent.
SeeStopped(c) ==
    /\ us[c] = "stopped" /\ parent /\ helper[c] = "stopped"
    /\ us' = [us EXCEPT ![c] = "watch"] /\ cont' = cont \cup {c}
    /\ UNCHANGED <<watcher, child, futex, helper, parentHolds, shut, call, freed, parent>>

\* The background coroutine is started; the Task is made, the child's handle of
\* its end of the socket, and our own is given up.
FinishTask(c) ==
    /\ us[c] = "watch"
    /\ us' = [us EXCEPT ![c] = "done"] /\ watcher' = [watcher EXCEPT ![c] = "waiting"]
    /\ parentHolds' = IF c \in SharesFiles THEN parentHolds ELSE parentHolds \ {c}
    /\ UNCHANGED <<child, futex, helper, cont, shut, call, freed, parent>>

\* A system call of clone_child_task fails: the parent is dead.
CloneFails(c) ==
    /\ ~parent /\ us[c] \in {"start", "clone", "helper", "stopped"}
    /\ us' = [us EXCEPT ![c] = "failed"]
    /\ UNCHANGED <<watcher, child, futex, helper, cont, parentHolds, shut, call, freed, parent>>

\* Mutant of Watch: an error of waitpid ends the coroutine.
WatchOnly(c) ==
    /\ watcher[c] = "waiting" /\ parent /\ helper[c] = "exited"
    /\ watcher' = [watcher EXCEPT ![c] = "done"] /\ shut' = shut \cup {c}
    /\ UNCHANGED <<us, child, futex, helper, cont, parentHolds, call, freed, parent>>

\* shutdown_access_sock_on_futex_process_exit: waitpid returns, or raises a
\* SyscallError because the parent is dead.
Watch(c) ==
    /\ watcher[c] = "waiting" /\ (helper[c] = "exited" \/ ~parent)
    /\ watcher' = [watcher EXCEPT ![c] = "done"] /\ shut' = shut \cup {c}
    /\ UNCHANGED <<us, child, futex, helper, cont, parentHolds, call, freed, parent>>

-----------------------------------------------------------------------------
(* The helper *)

HelperStops(c) ==
    /\ helper[c] = "started" /\ helper' = [helper EXCEPT ![c] = "stopped"]
    /\ UNCHANGED <<us, watcher, child, futex, cont, parentHolds, shut, call, freed, parent>>

\* Mutant of FutexWait: the values are compared the wrong way round.
FutexWaitSwapped(c) == IF futex[c] = 1 THEN "exited" ELSE "waiting"

\* FUTEX_WAIT compares the futex with the value it was given.
FutexWait(c) == IF futex[c] = 1 THEN "waiting" ELSE "exited"

HelperContinues(c) ==
    /\ helper[c] = "stopped" /\ c \in cont
    /\ helper' = [helper EXCEPT ![c] = FutexWait(c)]
    /\ UNCHANGED <<us, watcher, child, futex, cont, parentHolds, shut, call, freed, parent>>

-----------------------------------------------------------------------------
(* The child *)

\* CLONE_CHILD_CLEARTID: the kernel clears the futex and wakes who waits.
Clear(c) ==
    /\ futex' = [futex EXCEPT ![c] = 0]
    /\ helper' = [helper EXCEPT ![c] = IF @ = "waiting" THEN "exited" ELSE @]

\* The child is killed, or exits.
Die(c) ==
    /\ child[c] \in {"running", "execd"}
    /\ child' = [child EXCEPT ![c] = "dead"]
    /\ IF child[c] = "running" THEN Clear(c) ELSE UNCHANGED <<futex, helper>>
    /\ UNCHANGED <<us, watcher, cont, parentHolds, shut, call, freed, parent>>

\* A system call is made in the child: "plain", or "exec".
MakeCall(c, kind) ==
    /\ us[c] = "done" /\ call[c] \in {"none", "answered"} /\ c \notin freed
    /\ call' = [call EXCEPT ![c] = kind]
    /\ UNCHANGED <<us, watcher, child, futex, helper, cont, parentHolds, shut, freed, parent>>

\* The child's server answers; an exec is answered only when it fails.
Answer(c) ==
    /\ child[c] = "running" /\ call[c] \in {"plain", "exec"}
    /\ call' = [call EXCEPT ![c] = "answered"]
    /\ UNCHANGED <<us, watcher, child, futex, helper, cont, parentHolds, shut, freed, parent>>

Exec(c) ==
    /\ child[c] = "running" /\ call[c] = "exec"
    /\ child' = [child EXCEPT ![c] = "execd"] /\ Clear(c)
    /\ UNCHANGED <<us, watcher, cont, parentHolds, shut, call, freed, parent>>

\* free_everything: did_exec after the exec hung up.
Frees(c) == call[c] = "exec"

\* The reader of the socket sees EOF: after the shutdown, or when all copies of
\* the other end happen to be closed.  exec takes that for success.
Hangup(c) ==
    /\ call[c] \in {"plain", "exec"}
    /\ c \in shut \/ (Gone(c) /\ c \notin parentHolds)
    /\ call' = [call EXCEPT ![c] = "hungup"]
    /\ freed' = IF Frees(c) THEN freed \cup {c} ELSE freed
    /\ UNCHANGED <<us, watcher, child, futex, helper, cont, parentHolds, shut, parent>>

\* waitpid of the child sees that it died: mark_dead.
MarkDead(c) ==
    /\ us[c] = "done" /\ parent /\ child[c] = "dead" /\ c \notin freed
    /\ freed' = freed \cup {c}
    /\ UNCHANGED <<us, watcher, child, futex, helper, cont, parentHolds, shut, call, parent>>

\* The parent dies; PR_SET_PDEATHSIG kills its children and helpers.
ParentDies ==
    /\ ParentMayDie /\ parent /\ parent' = FALSE
    /\ child' = [c \in Children |-> IF child[c] = "running" THEN "dead" ELSE child[c]]
    /\ futex' = [c \in Children |-> IF child[c] = "running" THEN 0 ELSE futex[c]]
    /\ helper' = [c \in Children |-> IF helper[c] = "absent" THEN "absent" ELSE "exited"]
    /\ UNCHANGED <<us, watcher, cont, parentHolds, shut, call, freed>>

-----------------------------------------------------------------------------
OurStep(c) ==
    \/ Prepare(c) \/ CloneProcess(c) \/ CloneHelper(c) \/ SeeStopped(c) \/ FinishTask(c) \/ CloneFails(c)
HelperStep(c) == HelperStops(c) \/ HelperContinues(c)

Next ==
    \/ \E c \in Children :
         \/ OurStep(c) \/ HelperStep(c) \/ Watch(c) \/ Die(c) \/ Exec(c) \/ Answer(c) \/ Hangup(c)
         \/ MarkDead(c) \/ MakeCall(c, "plain") \/ MakeCall(c, "exec")
    \/ ParentDies

\* Coroutines go on, processes run, and a reader sees EOF after a shutdown.
Fairness == \A c \in Children :
    /\ WF_vars(OurStep(c)) /\ WF_vars(HelperStep(c)) /\ WF_vars(Watch(c))
    /\ WF_vars(c \in shut /\ Hangup(c)) /\ WF_vars(Answer(c) \/ Exec(c))

Spec == Init /\ [][Next]_vars /\ Fairness

-----------------------------------------------------------------------------
(* Properties *)

\* Every variable has a value the code can give it; the helper is there when
\* the coroutine waits for it.
TypeOK ==
    \A c \in Children :
        /\ us[c] \in {"start", "clone", "helper", "stopped", "watch", "done", "failed"}
        /\ child[c] \in {"absent", "running", "execd", "dead"} /\ futex[c] \in {0, 1}
        /\ watcher[c] = "waiting" => helper[c] \in {"stopped", "waiting", "exited"}
        /\ call[c] \in {"none", "plain", "exec", "answered", "hungup"}

(***************************************************************************)
(* "We want to see EOF on our local socket if that remote socket is no     *)
(* longer being read": a system call made in a child returns or hangs up,  *)
(* whenever the child dies or execs, before or after the helper waits.     *)
(***************************************************************************)
CallEnds == \A c \in Children : call[c] \in {"plain", "exec"} ~> call[c] \in {"answered", "hungup"}

(***************************************************************************)
(* The other way round: the socket is shut down only when nobody reads it, *)
(* while the parent lives.  A live child is never cut off.                 *)
(***************************************************************************)
LiveChildIsReachable == \A c \in Children : parent /\ c \in shut => Gone(c)

(***************************************************************************)
(* The stack and the futex are freed only when the child is out of that    *)
(* memory, while the parent lives, and the helper will not wait for it.    *)
(***************************************************************************)
FreedWhenUnused == \A c \in Children : parent /\ c \in freed => Gone(c) /\ futex[c] = 0
=============================================================================
