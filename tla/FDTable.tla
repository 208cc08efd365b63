-------------------------------- MODULE FDTable --------------------------------
(***************************************************************************)
(* handle/fd.py and the parts of handle/__init__.py and tasks/clone.py     *)
(* that change file descriptor tables.  Tasks share a table; handles are   *)
(* reference counted per table, closed through a task when the last one is *)
(* invalidated, or by a garbage collection when all of them are dropped.   *)
(*                                                                         *)
(* System calls are asynchronous: a task's calls are performed in order,   *)
(* the calls of different tasks in any order, and the coroutine that made  *)
(* a call goes on when its result is handled.                              *)
(*                                                                         *)
(* A file is a number that no other open of the run gets.  A table is      *)
(* named 0 (the one all start with) or after the task that made it.        *)
(***************************************************************************)
EXTENDS Naturals, Sequences, FiniteSets

CONSTANTS
    Tasks,            \* tasks that share table 0 at first: numbers from 1
    Child,            \* the task a clone without CLONE.FILES makes; 0: none
    Fds,              \* fd numbers
    Handles,          \* FileDescriptor objects that exist at once
    MaxFiles,         \* bound: how many files are opened
    MaxCalls,         \* bound: calls of a task under way at once
    Ops,              \* what the users of the tasks do
    Faults            \* what may go wrong or overlap

FDTableAssumption ==
    /\ Tasks \subseteq Nat \ {0} /\ Child \in Nat \ Tasks /\ Fds \subseteq Nat \ {0} /\ IsFiniteSet(Fds)
    /\ MaxFiles \in Nat /\ MaxCalls \in Nat
    /\ Ops \subseteq {"open", "share", "gc", "use", "use_own", "unshare", "exec", "clone"}
    /\ Faults \subseteq {"hangup", "unshare", "exec", "overlap", "late", "again", "drop"}

AllTasks == Tasks \cup ({Child} \ {0})
Tables   == {0} \cup AllTasks

VARIABLES
    ktable,           \* kernel: the table of each task
    kfile,            \* kernel: the file open at each fd of each table; 0: closed
    opened,           \* how many files were opened
    alive,            \* tasks whose process still serves system calls
    broken,           \* tasks whose connection was lost
    calls,            \* the calls of each task under way
    fd_table,         \* Task.fd_table
    known,            \* the keys of FDTable.near_to_handles
    tracked,          \* the handles in it
    inherited,        \* FDTable.inherited, of Child's table
    handle,           \* every handle's task, near, the file it stands for, and state
    manipulating,     \* tasks with manipulating_fd_table
    stage,            \* where each task's unshare_files, execve or clone is
    leaked,           \* fds copied into a table without being tracked there
    wrong             \* what the checks of the code, or the kernel, found wrong

kernel == <<ktable, kfile, opened>>
client == <<fd_table, known, tracked, inherited, handle>>
vars   == <<kernel, alive, broken, calls, client, manipulating, stage, leaked, wrong>>

Free == [task |-> 0, near |-> 0, file |-> 0, state |-> "free"]

Init ==
    /\ ktable = [t \in AllTasks |-> 0]
    /\ kfile = [k \in Tables |-> [f \in Fds |-> 0]] /\ opened = 0
    /\ alive = Tasks /\ broken = {}
    /\ calls = [t \in AllTasks |-> << >>]
    /\ fd_table = [t \in AllTasks |-> IF t = Child THEN Child ELSE 0]
    /\ known = [k \in Tables |-> {}] /\ tracked = [k \in Tables |-> {}]
    /\ inherited = {}
    /\ handle = [h \in Handles |-> Free]
    /\ manipulating = {} /\ stage = [t \in AllTasks |-> "none"]
    /\ leaked = [k \in Tables |-> {}] /\ wrong = {}

Valid(h) == handle[h].state = "valid"
Live(h)  == handle[h].state \in {"valid", "borrowed"}
Ready(t) == t \in alive \ broken

\* Task.fd_handles
HandlesBy(t) == {h \in Handles : Live(h) /\ handle[h].task = t}

\* near_to_handles[fd] of table k.
HandlesOf(k, fd) == {h \in tracked[k] : handle[h].near = fd}

\* What a call is made with: the fd and the file it means, the FDTable, the
\* handles it holds; ret is 0 until the kernel performs it.
Call(op, fd, file, k, hs) ==
    [op |-> op, fd |-> fd, file |-> file, table |-> k, handles |-> hs, ret |-> 0]

Send(t, call) ==
    /\ Len(calls[t]) < MaxCalls
    /\ calls' = [calls EXCEPT ![t] = Append(@, call)]

-----------------------------------------------------------------------------
(* The kernel *)

\* Replace the i-th call of t by one that returned.
Returned(t, i, ret) == calls' = [calls EXCEPT ![t][i].ret = ret]

OpenFds(k) == {f \in Fds : kfile[k][f] # 0}

PerformOpen(t, i) ==
    LET k == ktable[t]  fd == CHOOSE f \in Fds \ OpenFds(k) : \A g \in Fds \ OpenFds(k) : f <= g IN
    /\ calls[t][i].op = "open"
    /\ opened < MaxFiles /\ Fds \ OpenFds(k) # {}
    /\ opened' = opened + 1
    /\ kfile' = [kfile EXCEPT ![k][fd] = opened + 1]
    /\ Returned(t, i, fd)
    /\ UNCHANGED <<ktable, alive, leaked, wrong>>

PerformClose(t, i) ==
    LET c == calls[t][i]  k == ktable[t] IN
    /\ c.op = "close"
    /\ kfile' = [kfile EXCEPT ![k][c.fd] = 0]
    /\ leaked' = [leaked EXCEPT ![k] = @ \ {c.fd}]
    /\ wrong' = IF kfile[k][c.fd] = c.file THEN wrong ELSE wrong \cup {"closed another file"}
    /\ Returned(t, i, 1)
    /\ UNCHANGED <<ktable, opened, alive>>

PerformUse(t, i) ==
    LET c == calls[t][i] IN
    /\ c.op \in {"use", "use_own"}
    /\ wrong' = IF kfile[ktable[t]][c.fd] = c.file THEN wrong ELSE wrong \cup {c.op}
    /\ Returned(t, i, 1)
    /\ UNCHANGED <<kernel, alive, leaked>>

\* unshare, or an exec, which unshares too and ends the server.
PerformUnshare(t, i) ==
    LET op == calls[t][i].op  k == ktable[t] IN
    /\ op \in {"unshare", "exec"}
    /\ \/ /\ ktable' = [ktable EXCEPT ![t] = t]
          /\ kfile' = [kfile EXCEPT ![t] = kfile[k]]
          /\ leaked' = [leaked EXCEPT ![t] = OpenFds(k) \ known[t]]
          /\ alive' = IF op = "exec" THEN alive \ {t} ELSE alive
          /\ Returned(t, i, 1)
       \/ op \in Faults /\ Returned(t, i, 2) /\ UNCHANGED <<ktable, kfile, leaked, alive>>
    /\ UNCHANGED <<opened, wrong>>

\* clone without CLONE.FILES: the child gets a copy of the table.
PerformClone(t, i) ==
    /\ calls[t][i].op = "clone"
    /\ ktable' = [ktable EXCEPT ![Child] = Child]
    /\ kfile' = [kfile EXCEPT ![Child] = kfile[ktable[t]]]
    /\ leaked' = [leaked EXCEPT ![Child] = OpenFds(ktable[t])]
    /\ Returned(t, i, 1)
    /\ UNCHANGED <<opened, alive, wrong>>

Perform(t) ==
    /\ Ready(t)
    /\ \E i \in 1..Len(calls[t]) :
         /\ calls[t][i].ret = 0 /\ (i > 1 => calls[t][i - 1].ret # 0)
         /\ \/ PerformOpen(t, i) \/ PerformClose(t, i) \/ PerformUse(t, i)
            \/ PerformUnshare(t, i) \/ PerformClone(t, i)
    /\ UNCHANGED <<client, broken, manipulating, stage>>

\* The connection to a task's server is lost.
Hangup(t) ==
    /\ "hangup" \in Faults /\ Ready(t)
    /\ broken' = broken \cup {t}
    /\ UNCHANGED <<kernel, alive, calls, client, manipulating, stage, leaked, wrong>>

-----------------------------------------------------------------------------
(* Handles *)

\* _make_fd_handle_from_near
MakeHandle(t, fd, file) ==
    \E h \in Handles :
        /\ handle[h].state = "free"
        /\ handle' = [handle EXCEPT ![h] = [task |-> t, near |-> fd, file |-> file, state |-> "valid"]]
        /\ tracked' = [tracked EXCEPT ![fd_table[t]] = @ \cup {h}]
        /\ known' = [known EXCEPT ![fd_table[t]] = @ \cup {fd}]

\* Any system call that opens a file.
Open(t) ==
    /\ "open" \in Ops /\ Ready(t)
    /\ "overlap" \in Faults \/ stage[t] \notin {"unsharing", "exec"}
    /\ Send(t, Call("open", 0, 0, 0, {}))
    /\ UNCHANGED <<kernel, alive, broken, client, manipulating, stage, leaked, wrong>>

(***************************************************************************)
(* invalidate (and close, which insists on being the only handle): the     *)
(* last handle of its table closes the fd, through its own task.           *)
(***************************************************************************)
Invalidate(h) ==
    LET t == handle[h].task  fd == handle[h].near  k == fd_table[t] IN
    /\ Valid(h) /\ Ready(t)
    /\ handle' = [handle EXCEPT ![h].state = "invalid"]
    /\ tracked' = [tracked EXCEPT ![k] = @ \ {h}]
    /\ IF HandlesOf(k, fd) = {h}
       THEN /\ known' = [known EXCEPT ![k] = @ \ {fd}]
            /\ Send(t, Call("close", fd, handle[h].file, k, {}))
       ELSE UNCHANGED <<known, calls>>
    /\ UNCHANGED <<kernel, alive, broken, fd_table, inherited, manipulating, stage, leaked, wrong>>

\* for_task: another handle for a task in the same table.
ForTask(h, t) ==
    /\ "share" \in Ops
    /\ Valid(h) /\ Ready(t) /\ t \notin manipulating /\ fd_table[handle[h].task] = fd_table[t]
    /\ MakeHandle(t, handle[h].near, handle[h].file)
    /\ UNCHANGED <<kernel, alive, broken, calls, fd_table, inherited, manipulating, stage, leaked, wrong>>

\* inherit_fd, in a task that was cloned; once per fd unless "again".
Inherit(h, t) ==
    /\ t = Child /\ t \in alive /\ Valid(h) /\ h \in inherited
    /\ "again" \in Faults \/ handle[h].near \in leaked[t]
    /\ MakeHandle(t, handle[h].near, handle[h].file)
    /\ leaked' = [leaked EXCEPT ![t] = @ \ {handle[h].near}]
    /\ UNCHANGED <<kernel, alive, broken, calls, fd_table, inherited, manipulating, stage, wrong>>

\* The last reference to the object goes: it leaves all WeakSets.  Not while
\* its task unshares the table, unless "drop".
Drop(h) ==
    /\ "drop" \in Faults \/ handle[h].task \notin {t \in AllTasks : stage[t] = "unsharing"}
    /\ handle[h].state \in {"valid", "invalid"}
    /\ \A t \in AllTasks : \A i \in 1..Len(calls[t]) : h \notin calls[t][i].handles
    /\ handle' = [handle EXCEPT ![h] = Free]
    /\ tracked' = [k \in Tables |-> tracked[k] \ {h}]
    /\ inherited' = inherited \ {h}
    /\ UNCHANGED <<kernel, alive, broken, calls, fd_table, known, manipulating, stage, leaked, wrong>>

\* A system call of t on a handle of its own.
UseOwn(h) ==
    LET t == handle[h].task IN
    /\ "use_own" \in Ops /\ Valid(h) /\ Ready(t)
    /\ Send(t, Call("use_own", handle[h].near, handle[h].file, fd_table[t], {h}))
    /\ UNCHANGED <<kernel, alive, broken, client, manipulating, stage, leaked, wrong>>

\* borrow, by a call of another task: a handle of that task pins the fd.
Borrow(h, t) ==
    /\ "use" \in Ops
    /\ Valid(h) /\ t # handle[h].task /\ fd_table[handle[h].task] = fd_table[t]
    /\ Ready(t) /\ t \notin manipulating
    /\ \E b \in Handles :
         /\ handle[b].state = "free"
         /\ handle' = [handle EXCEPT ![b] = [handle[h] EXCEPT !.task = t, !.state = "borrowed"]]
         /\ tracked' = [tracked EXCEPT ![fd_table[t]] = @ \cup {b}]
         /\ Send(t, Call("use", handle[h].near, handle[h].file, fd_table[t], {b}))
    /\ UNCHANGED <<kernel, alive, broken, fd_table, known, inherited, manipulating, stage, leaked, wrong>>

-----------------------------------------------------------------------------
(* Garbage collection and changes of table *)

\* The file whose close the entry without handles stands for.
FileAt(k, fd) == kfile[IF k \in {ktable[t] : t \in AllTasks} THEN k ELSE 0][fd]

Garbage(k) == {fd \in known[k] : HandlesOf(k, fd) = {}}

\* The closes of a garbage collection, in the order of the numbers.
Closes(k, fds) ==
    LET n == Cardinality(fds)
        nth(i) == CHOOSE f \in fds : Cardinality({g \in fds : g < f}) = i - 1
    IN [i \in 1..n |-> Call("close", nth(i), FileAt(k, nth(i)), k, {})]

\* gc_using_task: "we immediately take responsibility for closing this fd".
GcUsing(k, t) ==
    /\ Len(calls[t]) + Cardinality(Garbage(k)) <= MaxCalls
    /\ known' = [known EXCEPT ![k] = @ \ Garbage(k)]
    /\ calls' = [calls EXCEPT ![t] = @ \o Closes(k, Garbage(k))]

\* run_fd_table_gc
Gc(t) ==
    /\ "gc" \in Ops /\ Ready(t) /\ Garbage(fd_table[t]) # {}
    /\ GcUsing(fd_table[t], t)
    /\ UNCHANGED <<kernel, alive, broken, fd_table, tracked, inherited, handle, manipulating, stage, leaked, wrong>>

\* Mutant of UnshareFiles: the handles leave the old table at once.
UnshareFilesEarly(t) ==
    /\ "unshare" \in Ops /\ Ready(t) /\ stage[t] = "none" /\ t \notin manipulating
    /\ Garbage(fd_table[t]) = {}
    /\ "overlap" \in Faults \/ calls[t] = << >>
    /\ LET mine == HandlesBy(t) IN
       /\ tracked' = [tracked EXCEPT ![t] = mine, ![0] = @ \ mine]
       /\ known' = [known EXCEPT ![t] = {handle[h].near : h \in mine}]
    /\ fd_table' = [fd_table EXCEPT ![t] = t] /\ manipulating' = manipulating \cup {t}
    /\ stage' = [stage EXCEPT ![t] = "unsharing"]
    /\ Send(t, Call("unshare", 0, 0, 0, {}))
    /\ UNCHANGED <<kernel, alive, broken, inherited, handle, leaked, wrong>>

(***************************************************************************)
(* unshare_files, up to the unshare: its first garbage collection has left *)
(* nothing (Gc), and the task's handles are put into a fresh table as well.*)
(* A table is unshared once in the model.                                  *)
(***************************************************************************)
UnshareFiles(t) ==
    /\ "unshare" \in Ops /\ Ready(t) /\ stage[t] = "none" /\ t \notin manipulating
    /\ Garbage(fd_table[t]) = {}
    /\ "overlap" \in Faults \/ calls[t] = << >>
    /\ LET mine == HandlesBy(t) IN
       /\ tracked' = [tracked EXCEPT ![t] = mine]
       /\ known' = [known EXCEPT ![t] = {handle[h].near : h \in mine}]
    /\ fd_table' = [fd_table EXCEPT ![t] = t] /\ manipulating' = manipulating \cup {t}
    /\ stage' = [stage EXCEPT ![t] = "unsharing"]
    /\ Send(t, Call("unshare", 0, 0, 0, {}))
    /\ UNCHANGED <<kernel, alive, broken, inherited, handle, leaked, wrong>>

\* execve, exit: only when the server hangs up is the table replaced.
Exec(t) ==
    /\ "exec" \in Ops /\ Ready(t) /\ stage[t] = "none"
    /\ "overlap" \in Faults \/ calls[t] = << >>
    /\ manipulating' = manipulating \cup {t} /\ stage' = [stage EXCEPT ![t] = "exec"]
    /\ Send(t, Call("exec", 0, 0, 0, {}))
    /\ UNCHANGED <<kernel, alive, broken, client, leaked, wrong>>

\* clone_child_task, without CLONE.FILES.
Clone(t) ==
    /\ "clone" \in Ops /\ Ready(t) /\ stage[t] = "none" /\ Child \notin {0, t}
    /\ stage' = [stage EXCEPT ![t] = "clone"]
    /\ Send(t, Call("clone", 0, 0, 0, {}))
    /\ UNCHANGED <<kernel, alive, broken, client, manipulating, leaked, wrong>>

-----------------------------------------------------------------------------
(* Results, in the order of a task's calls *)

\* The result of a call that opens: make_fd_handle.
OpenReturns(t, c) ==
    \/ /\ t \in manipulating
       /\ wrong' = wrong \cup {"opened while manipulating"} /\ UNCHANGED <<handle, tracked, known>>
    \/ /\ t \notin manipulating /\ c.ret \in known[fd_table[t]]
       /\ wrong' = wrong \cup {"already known"} /\ UNCHANGED <<handle, tracked, known>>
    \/ /\ t \notin manipulating /\ c.ret \notin known[fd_table[t]]
       /\ MakeHandle(t, c.ret, kfile[ktable[t]][c.ret]) /\ UNCHANGED wrong

\* borrow's end: the borrowed handle goes; it must not have been the last.
UseReturns(t, c) ==
    IF c.op = "use"
    THEN /\ handle' = [h \in Handles |-> IF h \in c.handles THEN Free ELSE handle[h]]
         /\ tracked' = [k \in Tables |-> tracked[k] \ c.handles]
         /\ wrong' = IF HandlesOf(fd_table[t], c.fd) = c.handles
                     THEN wrong \cup {"borrowed fd freed from under us"} ELSE wrong
    ELSE UNCHANGED <<handle, tracked, wrong>>

\* Nobody else opens files between a clone and the child's table, unless "late".
Quiet == "late" \in Faults \/ \A t \in AllTasks : stage[t] # "cloned"

Reply(t) ==
    LET c == Head(calls[t]) IN
    /\ Quiet
    /\ calls[t] # << >> /\ c.ret # 0 /\ t \notin broken
    /\ c.op \in {"open", "close", "use", "use_own"}
    /\ calls' = [calls EXCEPT ![t] = Tail(@)]
    /\ \/ c.op = "open" /\ OpenReturns(t, c)
       \/ c.op = "close" /\ UNCHANGED <<handle, tracked, known, wrong>>
       \/ c.op \in {"use", "use_own"} /\ UseReturns(t, c) /\ UNCHANGED known
    /\ UNCHANGED <<kernel, alive, broken, fd_table, inherited, manipulating, stage, leaked>>

\* _get_task_in_table, of the old table
GcTask == {u \in AllTasks : fd_table[u] = 0 /\ u \notin manipulating}

(***************************************************************************)
(* unshare_files, after the unshare: the handles leave the old table,      *)
(* which is collected by a task that is still in it.  An error leaves      *)
(* everything as it is.                                                    *)
(***************************************************************************)
UnshareReturns(t) ==
    LET c == Head(calls[t])  mine == HandlesBy(t)
        old == tracked[0] \ mine
        junk == {fd \in known[0] : \A h \in old : handle[h].near # fd} IN
    /\ calls[t] # << >> /\ c.ret # 0 /\ c.op = "unshare" /\ Ready(t)
    /\ IF c.ret = 2
       THEN /\ calls' = [calls EXCEPT ![t] = Tail(@)] /\ stage' = [stage EXCEPT ![t] = "done"]
            /\ UNCHANGED <<manipulating, tracked, known>>
       ELSE /\ stage' = [stage EXCEPT ![t] = "unshared"]
            /\ manipulating' = manipulating \ {t}
            /\ tracked' = [tracked EXCEPT ![0] = old]
            /\ \/ /\ GcTask = {} /\ calls' = [calls EXCEPT ![t] = Tail(@)]
                  /\ UNCHANGED known
               \/ \E u \in GcTask :
                    /\ Len(calls[u]) + Cardinality(junk) <= MaxCalls
                    /\ calls' = [calls EXCEPT ![t] = Tail(@), ![u] = @ \o Closes(0, junk)]
                    /\ known' = [known EXCEPT ![0] = @ \ junk]
    /\ UNCHANGED <<kernel, alive, broken, fd_table, inherited, handle, leaked, wrong>>

\* unshare_files ends with a collection of the new table, "just to make sure".
GcNew(t) ==
    /\ Ready(t) /\ stage[t] = "unshared"
    /\ GcUsing(fd_table[t], t)
    /\ stage' = [stage EXCEPT ![t] = "done"]
    /\ UNCHANGED <<kernel, alive, broken, fd_table, tracked, inherited, handle, manipulating, leaked, wrong>>

\* execve: success shows as a hangup, and makes a fresh table; an error does
\* not even clear manipulating_fd_table.
ExecReturns(t) ==
    LET mine == HandlesBy(t) IN
    /\ calls[t] # << >> /\ Head(calls[t]).op = "exec" /\ Head(calls[t]).ret # 0
    /\ calls' = [calls EXCEPT ![t] = Tail(@)]
    /\ stage' = [stage EXCEPT ![t] = "done"]
    /\ IF Head(calls[t]).ret = 2
       THEN UNCHANGED <<manipulating, fd_table, tracked, known>>
       ELSE /\ manipulating' = manipulating \ {t}
            /\ fd_table' = [fd_table EXCEPT ![t] = t]
            /\ tracked' = [tracked EXCEPT ![t] = mine]
            /\ known' = [known EXCEPT ![t] = {handle[h].near : h \in mine}]
    /\ UNCHANGED <<kernel, alive, broken, inherited, handle, leaked, wrong>>

\* FDTable(pid, parent): all handles of the parent's table.
Snapshot == {h \in Handles : Valid(h) /\ h \in tracked[0]}

\* clone returned; launch_futex_monitor follows ...
CloneReturns(t) ==
    /\ calls[t] # << >> /\ Head(calls[t]).op = "clone" /\ Head(calls[t]).ret # 0
    /\ t \notin broken
    /\ calls' = [calls EXCEPT ![t] = Tail(@)]
    /\ stage' = [stage EXCEPT ![t] = "cloned"]
    /\ UNCHANGED <<kernel, alive, broken, client, manipulating, leaked, wrong>>

\* ... and only then is the child's FDTable made.
MakeTable(t) ==
    /\ stage[t] = "cloned"
    /\ stage' = [stage EXCEPT ![t] = "done"] /\ alive' = alive \cup {Child}
    /\ inherited' = Snapshot
    /\ UNCHANGED <<kernel, broken, calls, fd_table, known, tracked, handle, manipulating, leaked, wrong>>

\* A lost connection, or a process that is gone: a close that got
\* SyscallHangup puts the fd back.
ReplyHangup(t) ==
    LET c == Head(calls[t])  k == c.table IN
    /\ calls[t] # << >> /\ (t \in broken \/ (t \notin alive /\ c.op # "exec"))
    /\ calls' = [calls EXCEPT ![t] = Tail(@)]
    /\ IF c.op # "close" THEN UNCHANGED <<known, wrong>>
       ELSE IF c.fd \in known[k]
       THEN wrong' = wrong \cup {"somehow reopened"} /\ UNCHANGED known
       ELSE known' = [known EXCEPT ![k] = @ \cup {c.fd}] /\ UNCHANGED wrong
    /\ UNCHANGED <<kernel, alive, broken, fd_table, tracked, inherited, handle, manipulating, stage, leaked>>

-----------------------------------------------------------------------------
Next ==
    \/ \E t \in AllTasks :
        \/ Perform(t) \/ Reply(t) \/ Hangup(t) \/ ReplyHangup(t)
        \/ Open(t) \/ Gc(t)
        \/ UnshareFiles(t) \/ UnshareReturns(t) \/ GcNew(t)
        \/ Exec(t) \/ ExecReturns(t)
        \/ Clone(t) \/ CloneReturns(t) \/ MakeTable(t)
        \/ \E h \in Handles : ForTask(h, t) \/ Inherit(h, t) \/ Borrow(h, t)
    \/ \E h \in Handles : Invalidate(h) \/ Drop(h) \/ UseOwn(h)

Spec == Init /\ [][Next]_vars

-----------------------------------------------------------------------------
(* Properties *)

\* Every variable has a value the code can give it; a valid handle is in the
\* table of its task, under a key that is there.
TypeOK ==
    /\ \A h \in Handles : handle[h].state \in {"free", "valid", "borrowed", "invalid"}
    /\ \A h \in Handles : Live(h) =>
         h \in tracked[fd_table[handle[h].task]] /\ handle[h].near \in known[fd_table[handle[h].task]]
    /\ \A t \in AllTasks : ktable[t] \in Tables /\ fd_table[t] \in Tables /\ Len(calls[t]) <= MaxCalls

(***************************************************************************)
(* A valid FileDescriptor of a task that still serves names the file it    *)
(* was made for, whatever the tasks that share or shared its table close,  *)
(* collect and reopen ("All the FileDescriptors which access files through *)
(* the task will remain valid").                                           *)
(***************************************************************************)
HandleHasFile ==
    \A h \in Handles : Live(h) /\ Ready(handle[h].task) =>
        kfile[ktable[handle[h].task]][handle[h].near] = handle[h].file

\* A close never meets a number that is closed already or stands for a file
\* that was opened since ("so our close attempts don't collide with others").
CloseHitsOwnFile == "closed another file" \notin wrong

(***************************************************************************)
(* Every open fd is tracked, or its open or close is under way; except     *)
(* those that unshare or clone copied without need, which exec closes.     *)
(***************************************************************************)
OpenFdsAccounted ==
    \A t \in AllTasks \cap alive :
        \A fd \in OpenFds(ktable[t]) \ leaked[ktable[t]] :
            LET tables == {ktable[t]} \cup {fd_table[u] : u \in {v \in AllTasks : ktable[v] = ktable[t]}} IN
            \/ \E k \in tables : fd \in known[k]
            \/ \E u \in AllTasks : \E i \in 1..Len(calls[u]) :
                  LET c == calls[u][i] IN
                  \/ c.op = "close" /\ c.fd = fd /\ c.table \in tables
                  \/ c.op = "open" /\ c.ret = fd

\* A call on a file descriptor borrowed from another task reaches its file.
BorrowedUseHits == "use" \notin wrong

\* borrow: "the point of this that we won't be freed during a syscall"; also
\* for a task's own handles.
OwnUseHits == "use_own" \notin wrong

\* What is thrown at the end of a borrow says the truth: the fd was freed.
BorrowNotFreed == "borrowed fd freed from under us" \notin wrong \/
                  \E h \in Handles : handle[h].state = "invalid"

\* _close_fd: "put the fd back, some other task will close it"; who opens a
\* file gets a handle for it.
OpenGivesHandle == "already known" \notin wrong

\* A call that was made before unshare_files returns its fd to the caller.
OpensReturn == "opened while manipulating" \notin wrong

\* manipulating_fd_table is set just while the table is being changed.
ManipulatingEnds == \A t \in manipulating : stage[t] # "done"
=============================================================================
