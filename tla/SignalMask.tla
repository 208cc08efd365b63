------------------------------ MODULE SignalMask ------------------------------
(***************************************************************************)
(* signal.py and its users: the signal mask of a task, what SignalTask     *)
(* believes it to be, and the SignalBlocks that witness blocked signals.   *)
(*                                                                         *)
(* Task "p" has a ChildProcessMonitor and so a block of SIGCHLD; task "c"  *)
(* is cloned from it, makes a monitor of its own from the inherited block, *)
(* and may exec.  Several coroutines use both tasks.                       *)
(***************************************************************************)
EXTENDS Naturals

CONSTANTS
    Signals,           \* besides SIGCHLD
    CHLD,
    Coroutines,
    Hangups,           \* how many system calls may hang up
    ExecFails,         \* whether an exec may fail
    CloneOverlaps,     \* whether p changes its mask while c is made
    MaxCalls           \* bound on the calls of sigprocmask

SignalAssumption ==
    /\ CHLD \notin Signals /\ Hangups \in Nat /\ MaxCalls \in Nat
    /\ ExecFails \in BOOLEAN /\ CloneOverlaps \in BOOLEAN

Tasks == {"p", "c"}
All == Signals \cup {CHLD}
\* A coroutine that makes no call.
Idle == [at |-> "idle"]

VARIABLES
    kernel,            \* the mask of each task in the kernel
    sigmask,           \* SignalTask.sigmask
    oldSigmask,        \* SignalTask.old_sigmask
    oldset,            \* what is in the buffer of sigmask_oldset_ptr: a set of at most one mask
    running,           \* the tasks with sigprocmask_running
    blocks,            \* the SignalBlocks: <<task, mask>>
    co,                \* what each coroutine does
    clone,             \* "none", "cloned" or "made": task c
    life,              \* "alive" or "execd": task c
    execMask,          \* the signals the new program inherits
    outOfSync,         \* read_oldset_and_check raised
    refused,           \* a call was refused while no other was in progress
    calls, hangups

vars == <<kernel, sigmask, oldSigmask, oldset, running, blocks, co, clone, life, execMask,
          outOfSync, refused, calls, hangups>>

Init ==
    /\ kernel = [t \in Tasks |-> IF t = "p" THEN {CHLD} ELSE {}]
    /\ sigmask = [t \in Tasks |-> IF t = "p" THEN {CHLD} ELSE {}]
    /\ oldSigmask = [t \in Tasks |-> {}] /\ oldset = [t \in Tasks |-> {}]
    /\ running = {} /\ blocks = {<<"p", {CHLD}>>}
    /\ co = [x \in Coroutines |-> Idle] /\ clone = "none" /\ life = "alive" /\ execMask = {}
    /\ outOfSync = FALSE /\ refused = FALSE /\ calls = 0 /\ hangups = 0

Usable(t) == t = "p" \/ (clone = "made" /\ life = "alive")

\* Nobody else may call sigprocmask in a thread that execs, nor in p while it
\* clones, unless CloneOverlaps.
MayCall(x, t) ==
    /\ Usable(t) /\ \A y \in Coroutines : co[y].at = "exec" => (co[y].t # t \/ x = y)
    /\ t = "p" /\ clone = "cloned" => CloneOverlaps

-----------------------------------------------------------------------------
(* SignalTask.sigprocmask *)

\* What sigprocmask makes of a mask; the kernel and the code agree on it.
Apply(mask, how, set) ==
    CASE how = "BLOCK" -> mask \cup set
      [] how = "UNBLOCK" -> mask \ set
      [] how = "SETMASK" -> set

\* The call is refused while another one runs; the new mask is computed before
\* the system call is made.
Start(x, t, how, set, old, next) ==
    IF t \in running
    THEN /\ refused' = (refused \/ \A y \in Coroutines : co[y].at = "call" => co[y].t # t)
         /\ UNCHANGED running /\ co' = [co EXCEPT ![x] = Idle]
    ELSE /\ running' = running \cup {t} /\ UNCHANGED refused
         /\ co' = [co EXCEPT ![x] = [at |-> "call", t |-> t, how |-> how, set |-> set, old |-> old,
                                     new |-> Apply(sigmask[t], how, set), next |-> next, done |-> FALSE]]

AlreadyBlocked(t, set) == set \cap sigmask[t] # {}

\* sigmask_block: it is refused for a signal that is blocked already.
Block(x, t, set, old) ==
    /\ co[x] = Idle /\ calls < MaxCalls /\ MayCall(x, t) /\ ~AlreadyBlocked(t, set)
    /\ Start(x, t, "BLOCK", set, old, "block") /\ calls' = calls + 1
    /\ UNCHANGED <<kernel, sigmask, oldSigmask, oldset, blocks, clone, life, execMask, outOfSync, hangups>>

\* SignalBlock.unblock, by the owner of the block, who gives it up.
Unblock(x, b) ==
    /\ co[x] = Idle /\ calls < MaxCalls /\ b \in blocks /\ CHLD \notin b[2] /\ MayCall(x, b[1])
    /\ Start(x, b[1], "UNBLOCK", b[2], FALSE, "unblock") /\ calls' = calls + 1
    /\ blocks' = IF b[1] \in running THEN blocks ELSE blocks \ {b}
    /\ UNCHANGED <<kernel, sigmask, oldSigmask, oldset, clone, life, execMask, outOfSync, hangups>>

\* sigprocmask(None, oldset) only asks for the mask.
Ask(x, t) ==
    /\ co[x] = Idle /\ calls < MaxCalls /\ MayCall(x, t)
    /\ Start(x, t, "BLOCK", {}, FALSE, "ask") /\ calls' = calls + 1
    /\ UNCHANGED <<kernel, sigmask, oldSigmask, oldset, blocks, clone, life, execMask, outOfSync, hangups>>

\* rt_sigprocmask in the kernel: the old mask is written to the buffer.
Perform(x) ==
    /\ co[x].at = "call" /\ ~co[x].done
    /\ LET c == co[x] IN
         /\ kernel' = [kernel EXCEPT ![c.t] = Apply(@, c.how, c.set)]
         /\ co' = [co EXCEPT ![x].done = TRUE]
         /\ oldset' = IF c.old THEN [oldset EXCEPT ![c.t] = {kernel[c.t]}] ELSE oldset
    /\ UNCHANGED <<sigmask, oldSigmask, running, blocks, clone, life, execMask, outOfSync, refused, calls, hangups>>

\* Mutant of NewMask: the mask is left as it was.
NewMaskKept(c) == sigmask

NewMask(c) == IF c.next = "ask" THEN sigmask ELSE [sigmask EXCEPT ![c.t] = c.new]

OldMask(c) == sigmask[c.t]

Finished(c) == running \ {c.t}

\* The call returns: running is cleared and the mask is stored; the caller makes
\* the SignalBlock, or goes on to exec.
Return(x) ==
    /\ co[x].at = "call" /\ co[x].done
    /\ LET c == co[x] IN
         /\ running' = Finished(c)
         /\ oldSigmask' = IF c.old THEN [oldSigmask EXCEPT ![c.t] = OldMask(c)] ELSE oldSigmask
         /\ sigmask' = NewMask(c)
         /\ blocks' = IF c.next = "block" THEN blocks \cup {<<c.t, c.set>>} ELSE blocks
         /\ co' = [co EXCEPT ![x] = IF c.next = "exec" THEN [at |-> "exec", t |-> c.t, keep |-> c.set] ELSE Idle]
    /\ UNCHANGED <<kernel, oldset, clone, life, execMask, outOfSync, refused, calls, hangups>>

\* The connection breaks while the call is in progress, performed or not, and
\* is made anew: the exception leaves running set.
Hangup(x) ==
    /\ co[x].at = "call" /\ hangups < Hangups /\ hangups' = hangups + 1
    /\ co' = [co EXCEPT ![x] = Idle]
    /\ UNCHANGED <<kernel, sigmask, oldSigmask, oldset, running, blocks, clone, life, execMask, outOfSync, refused, calls>>

\* read_oldset_and_check, when no call is in progress that writes the buffer.
ReadOldset(t) ==
    /\ Usable(t) /\ oldset[t] # {} /\ t \notin running
    /\ outOfSync' = (outOfSync \/ \E mask \in oldset[t] : ~(oldSigmask[t] \subseteq mask))
    /\ oldset' = [oldset EXCEPT ![t] = {}]
    /\ UNCHANGED <<kernel, sigmask, oldSigmask, running, blocks, co, clone, life, execMask, refused, calls, hangups>>

-----------------------------------------------------------------------------
(* Threads *)

\* clone: the kernel copies the mask.
Clone ==
    /\ clone = "none" /\ (CloneOverlaps \/ "p" \notin running)
    /\ clone' = "cloned" /\ kernel' = [kernel EXCEPT !["c"] = kernel["p"]]
    /\ UNCHANGED <<sigmask, oldSigmask, oldset, running, blocks, co, life, execMask, outOfSync, refused, calls, hangups>>

\* clone_child_task, after the futex helper was launched: the Task gets the mask
\* of the parent as it is now; Thread.clone with NEWPID assumes the block.
MakeTask ==
    /\ clone = "cloned" /\ clone' = "made"
    /\ sigmask' = [sigmask EXCEPT !["c"] = sigmask["p"]] /\ blocks' = blocks \cup {<<"c", {CHLD}>>}
    /\ UNCHANGED <<kernel, oldSigmask, oldset, running, co, life, execMask, outOfSync, refused, calls, hangups>>

\* The mask of the blocks in inherited_signal_blocks.
Inherited(keep) == UNION {b[2] : b \in keep}

\* ChildThread.execve begins: the mask is set to what is to be inherited.
ExecBegin(x, keep) ==
    /\ co[x] = Idle /\ calls < MaxCalls /\ keep \subseteq {b \in blocks : b[1] = "c"}
    /\ MayCall(x, "c") /\ \A y \in Coroutines : co[y].at = "call" => co[y].t # "c"
    /\ Start(x, "c", "SETMASK", Inherited(keep), FALSE, "exec") /\ calls' = calls + 1
    /\ execMask' = UNION {b[2] : b \in keep}
    /\ UNCHANGED <<kernel, sigmask, oldSigmask, oldset, blocks, clone, life, outOfSync, hangups>>

\* The exec succeeds: the task and its blocks are no more.
ExecDone(x) ==
    /\ co[x].at = "exec" /\ life' = "execd"
    /\ co' = [co EXCEPT ![x] = Idle] /\ blocks' = {b \in blocks : b[1] # "c"}
    /\ UNCHANGED <<kernel, sigmask, oldSigmask, oldset, running, clone, execMask, outOfSync, refused, calls, hangups>>

\* The exec fails: the OSError is raised, the mask stays.
ExecError(x) ==
    /\ co[x].at = "exec" /\ ExecFails
    /\ co' = [co EXCEPT ![x] = Idle]
    /\ UNCHANGED <<kernel, sigmask, oldSigmask, oldset, running, blocks, clone, life, execMask, outOfSync, refused, calls, hangups>>

-----------------------------------------------------------------------------
Next ==
    \/ \E x \in Coroutines :
         \/ \E t \in Tasks, set \in (SUBSET Signals) \ {{}}, old \in BOOLEAN : Block(x, t, set, old)
         \/ \E b \in blocks : Unblock(x, b)
         \/ \E t \in Tasks : Ask(x, t)
         \/ Perform(x) \/ Return(x) \/ Hangup(x)
         \/ \E keep \in SUBSET blocks : ExecBegin(x, keep)
         \/ ExecDone(x) \/ ExecError(x)
    \/ \E t \in Tasks : ReadOldset(t)
    \/ Clone \/ MakeTask

Spec == Init /\ [][Next]_vars

-----------------------------------------------------------------------------
(* Properties *)

Execing(t) == \E x \in Coroutines :
    \/ co[x].at = "exec" /\ co[x].t = t
    \/ co[x].at = "call" /\ co[x].t = t /\ co[x].next = "exec"

\* Masks hold signals, and a coroutine is idle, in a call or in an exec.
TypeOK ==
    /\ \A t \in Tasks : kernel[t] \subseteq All /\ sigmask[t] \subseteq All
    /\ \A t \in Tasks : oldset[t] \subseteq SUBSET All /\ \A m, n \in oldset[t] : m = n
    /\ \A t \in running : Usable(t)
    /\ \A x, y \in Coroutines : x # y /\ co[x].at = "call" /\ co[y].at = "call" => co[x].t # co[y].t

(***************************************************************************)
(* "sigprocmask, with additional tracking of what we believe our sigmask   *)
(* is": when no call is in progress the belief is right.                   *)
(***************************************************************************)
TrackedIsTrue == \A t \in Tasks : Usable(t) /\ t \notin running => sigmask[t] = kernel[t]

(***************************************************************************)
(* A SignalBlock "serves as both a witness that we have indeed blocked     *)
(* these signals": as long as it is held they are blocked in the kernel,   *)
(* or signalfd and with it the child monitor get nothing; but for a task   *)
(* that is about to exec.                                                  *)
(***************************************************************************)
BlockWitness == \A b \in blocks : b[2] \subseteq kernel[b[1]] \/ Execing(b[1])

(***************************************************************************)
(* ... "and an owner": unblocking one block unblocks no signal of another. *)
(***************************************************************************)
BlocksDisjoint == \A a, b \in blocks : a[1] = b[1] /\ a # b => a[2] \cap b[2] = {}

\* What is read back from the kernel includes the signals we blocked.
InSync == ~outOfSync

\* "default to clearing the signal mask before exec": a program starts with no
\* signal blocked but those of the blocks it was given.
ExecMask == life = "execd" => kernel["c"] = execMask

\* "sigprocmask is currently being called" is said only when that is so.
RefusedWhileRunning == ~refused
=============================================================================
