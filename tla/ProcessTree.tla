---------------------------- MODULE ProcessTree ----------------------------
(***************************************************************************)
(* handle/process.py, ChildProcessMonitor of monitor.py, the parts of      *)
(* Thread.clone that give a child its monitor, and setpgid: which process  *)
(* the handles of many threads stand for.  A thread either has a monitor   *)
(* of its own, or shares its parent's and clones with CLONE_PARENT so that *)
(* its children are its siblings.  A handle is a number in the pid         *)
(* namespace of the task that owns it; processes die, orphans are given to *)
(* others, numbers are used again.                                         *)
(*                                                                         *)
(* Waits and kills are steps here; that they exclude each other while they *)
(* are in flight is shown in ChildMonitor.  The kernel is external.        *)
(***************************************************************************)
EXTENDS Naturals, FiniteSets

CONSTANTS Root,       \* the process with the first monitor
          Others,     \* bound: the processes that are cloned
          MaxPid,     \* bound: numbers of a namespace
          NewPid,     \* BOOLEAN: are there calls with CLONE_NEWPID?
          Groups,     \* BOOLEAN: are there process groups?
          RootMayDie  \* BOOLEAN

Procs == Others \cup {Root}
None == "none"
Outside == "outside"   \* the init of the system, which reaps what it gets

ProcessTreeAssumption == /\ Root \notin Others /\ None \notin Procs /\ Outside \notin Procs
                         /\ MaxPid \in Nat \ {0} /\ RootMayDie \in BOOLEAN

VARIABLES st,         \* each process: "none", "live", "zombie" or "gone"
          parent,     \* its parent: a process or Outside
          ns,         \* its pid namespace, named by the namespace's init
          pid,        \* its number in each namespace it is in, 0 in others
          group,      \* its process group, named by the process that made it
          owner,      \* ChildProcess.task, or None while there is no handle
          dead,       \* processes whose handle has a death_state
          monitor,    \* of each thread: [sigfd, use_clone_parent], or NoMonitor
          last        \* the last step, if it was a call: [op, on, hit]

kernel == <<st, parent, ns, pid, group>>
vars == <<st, parent, ns, pid, group, owner, dead, monitor, last>>

NoMonitor == [sigfd |-> None, use_clone_parent |-> FALSE]
IsThread(t) == st[t] = "live" /\ monitor[t] # NoMonitor
There(p) == st[p] \in {"live", "zombie"}
Call(op, on, hit) == [op |-> op, on |-> on, hit |-> hit]
Idle == Call("none", Root, {})

Init ==
    /\ st = [p \in Procs |-> IF p = Root THEN "live" ELSE "none"]
    /\ parent = [p \in Procs |-> Outside] /\ ns = [p \in Procs |-> Root]
    /\ pid = [p \in Procs |-> [n \in Procs |-> IF p = Root /\ n = Root THEN 1 ELSE 0]]
    /\ group = [p \in Procs |-> Root]
    /\ owner = [p \in Procs |-> None] /\ dead = {}
    /\ monitor = [p \in Procs |-> IF p = Root THEN [sigfd |-> Root, use_clone_parent |-> FALSE] ELSE NoMonitor]
    /\ last = Idle

-----------------------------------------------------------------------------
(* The kernel's processes.                                                 *)

\* numbers in use: by processes, and by the groups that still have a member
Taken(n) == {pid[p][n] : p \in {q \in Procs : There(q) \/ \E m \in Procs : There(m) /\ group[m] = q}}
FreePids(n) == (1..MaxPid) \ Taken(n)
Ancestors(n) == {a \in Procs : pid[n][a] # 0} \cup {n}   \* the namespaces around n, and n
\* the process with a number, in a namespace
Find(n, number) == {q \in Procs : There(q) /\ pid[q][n] = number}
Members(n, number) == {q \in Procs : st[q] = "live" /\ pid[group[q]][n] = number}

\* Root is not the init of the namespace that is named after it
IsInit(p) == p # Root /\ ns[p] = p
Killed(p) == {q \in Procs : st[q] = "live" /\ (q = p \/ (IsInit(p) /\ p \in Ancestors(ns[q])))}
\* p dies; an init takes the processes of its namespace with it; orphans get another parent
Die(p) ==
    /\ st[p] = "live" /\ (p = Root => RootMayDie)
    /\ LET victims == Killed(p)
           reaper(c) == IF ns[c] # Root /\ ns[c] \notin victims /\ st[ns[c]] = "live" THEN ns[c] ELSE Outside
       IN /\ st' = [q \in Procs |-> IF q \in victims THEN "zombie" ELSE st[q]]
          /\ parent' = [q \in Procs |-> IF There(q) /\ parent[q] \in victims THEN reaper(q) ELSE parent[q]]
    /\ last' = Idle /\ UNCHANGED <<ns, pid, group, owner, dead, monitor>>

\* the init of the system reaps
OutsideReaps(p) ==
    /\ st[p] = "zombie" /\ parent[p] = Outside
    /\ st' = [st EXCEPT ![p] = "gone"]
    /\ last' = Idle /\ UNCHANGED <<parent, ns, pid, group, owner, dead, monitor>>

-----------------------------------------------------------------------------
(* Cloning.                                                                *)

\* Mutant of UseCloneParent: the flag is not passed on.
UseCloneParentNever(t) == FALSE
UseCloneParent(t) == monitor[t].use_clone_parent

\* ProcessTask.clone: the handle belongs to the parent with CLONE_PARENT, else to us.
\* parent_task is the task of the handle we were cloned into.
OwningTask(t) == IF UseCloneParent(t) THEN owner[t] ELSE t

\* make for a new init, inherit_to_child, which checks, for the others
ChildMonitorOf(t, p, newpid, owning) ==
    IF newpid THEN [sigfd |-> p, use_clone_parent |-> FALSE]
    ELSE IF owning = monitor[t].sigfd THEN [sigfd |-> monitor[t].sigfd, use_clone_parent |-> TRUE]
    ELSE NoMonitor

Clone(t, p, newpid) ==
    /\ IsThread(t) /\ st[p] = "none" /\ (newpid => NewPid)
    /\ OwningTask(t) # None                       \* "we don't know our parent task"
    /\ UseCloneParent(t) => ~IsInit(t)           \* EINVAL
    /\ \E numbers \in [Ancestors(ns[t]) -> 1..MaxPid] :
          /\ \A n \in Ancestors(ns[t]) : numbers[n] \in FreePids(n)
          /\ pid' = [pid EXCEPT ![p] = [n \in Procs |-> IF n \in Ancestors(ns[t]) THEN numbers[n]
                                                        ELSE IF newpid /\ n = p THEN 1 ELSE 0]]
    /\ st' = [st EXCEPT ![p] = "live"]
    /\ parent' = [parent EXCEPT ![p] = IF UseCloneParent(t) THEN parent[t] ELSE t]
    /\ ns' = [ns EXCEPT ![p] = IF newpid THEN p ELSE ns[t]]
    /\ group' = [group EXCEPT ![p] = group[t]]
    \* add_child_process refuses a process that is not its child
    /\ owner' = [owner EXCEPT ![p] = IF OwningTask(t) = monitor[t].sigfd THEN OwningTask(t) ELSE None]
    /\ monitor' = [monitor EXCEPT ![p] = ChildMonitorOf(t, p, newpid, owner'[p])]
    /\ last' = Call("clone", p, {}) /\ UNCHANGED dead

\* the thread's process becomes another program; the handle stays
Exec(t) ==
    /\ IsThread(t) /\ t # Root
    /\ monitor' = [monitor EXCEPT ![t] = NoMonitor]
    /\ last' = Idle /\ UNCHANGED <<st, parent, ns, pid, group, owner, dead>>

-----------------------------------------------------------------------------
(* Calls on the handle of p, made by the task that owns it.                *)

Near(p) == pid[p][ns[owner[p]]]
\* the owner's thread answers, and borrow finds the process alive
CanBorrow(p) == owner[p] # None /\ IsThread(owner[p]) /\ p \notin dead

\* waitid and parse_waitid_siginfo: one of the owner's own children, with that number
Waitid(p) ==
    /\ CanBorrow(p)
    /\ LET hit == {q \in Find(ns[owner[p]], Near(p)) : parent[q] = owner[p] /\ st[q] = "zombie"}
       IN /\ hit # {}
          /\ st' = [q \in Procs |-> IF q \in hit THEN "gone" ELSE st[q]]
          /\ dead' = dead \cup {p} /\ last' = Call("waitid", p, hit)
    /\ UNCHANGED <<parent, ns, pid, group, owner, monitor>>

Kill(p) ==
    /\ CanBorrow(p)
    /\ last' = Call("kill", p, Find(ns[owner[p]], Near(p)))
    /\ UNCHANGED <<st, parent, ns, pid, group, owner, dead, monitor>>

Killpg(p) ==
    /\ Groups /\ CanBorrow(p)
    /\ last' = Call("killpg", p, Members(ns[owner[p]], Near(p)))
    /\ UNCHANGED <<st, parent, ns, pid, group, owner, dead, monitor>>

\* setpgid of the kernel: p joins the group with a number that a member of its namespace
\* has, or makes its own; without one it is EPERM
Join(p, n, number) ==
    LET named == {q \in Procs : There(q) /\ pid[group[q]][n] = number}
    IN IF pid[p][n] = number THEN [group EXCEPT ![p] = p]
       ELSE IF named = {} THEN group
       ELSE [group EXCEPT ![p] = group[CHOOSE q \in named : TRUE]]

SamePidns(a, b) == ns[a] = ns[b]

\* CredentialsTask.setpgid: of the thread itself
TaskSetpgid(t, q) ==
    /\ Groups /\ IsThread(t)
    /\ IF q = t THEN group' = [group EXCEPT ![t] = t]
       ELSE CanBorrow(q) /\ SamePidns(owner[q], t) /\ group' = Join(t, ns[t], Near(q))
    /\ last' = Call("setpgid", t, IF group'[t] = group[t] THEN {} ELSE {q})
    /\ UNCHANGED <<st, parent, ns, pid, owner, dead, monitor>>

\* ChildProcess.setpgid: of a child, to the group of q - or so it is meant; what is
\* passed is our own number
ChildSetpgid(p, q) ==
    /\ Groups /\ CanBorrow(p) /\ CanBorrow(q) /\ p # q
    /\ SamePidns(owner[q], owner[p])
    /\ st[p] = "live" /\ monitor[p] # NoMonitor /\ parent[p] = owner[p]
    /\ group' = Join(p, ns[owner[p]], Near(p))
    /\ last' = Call("child_setpgid", p, IF group[q] = q THEN {q} ELSE {})
    /\ UNCHANGED <<st, parent, ns, pid, owner, dead, monitor>>

Next ==
    \/ \E p \in Procs : Die(p) \/ OutsideReaps(p) \/ Exec(p) \/ Waitid(p) \/ Kill(p) \/ Killpg(p)
    \/ \E t \in Procs, p \in Others, newpid \in BOOLEAN : Clone(t, p, newpid)
    \/ \E p, q \in Procs : TaskSetpgid(p, q) \/ ChildSetpgid(p, q)

Spec == Init /\ [][Next]_vars

-----------------------------------------------------------------------------

\* A call on a handle reaches the process the handle was made for and no other, although
\* numbers are used again and mean different processes in different namespaces; killpg
\* reaches the group that process made, and no other.
HitsOwn ==
    /\ last.op \in {"kill", "waitid"} => last.hit \subseteq {last.on}
    /\ last.op = "killpg" => \A q \in last.hit : group[q] = last.on

\* Every process that was cloned has a handle, and as long as its owner lives and has
\* not reaped it, the owner is its parent in the kernel: SIGCHLD comes to the signalfd the
\* handle's monitor listens to, and waitid finds it.
OwnerIsParent ==
    \A p \in Others : st[p] # "none" =>
        /\ owner[p] # None
        /\ There(p) /\ st[owner[p]] = "live" => parent[p] = owner[p]

\* What monitor.clone returns can be monitored.
CloneIsMonitorable == last.op = "clone" => st[owner[last.on]] = "live" /\ parent[last.on] = owner[last.on]

\* A thread that joins the group of a child is in the group that child is in.
JoinsGroupAsked ==
    last.op = "setpgid" => \A q \in last.hit : group[last.on] = q

\* The same of a child that is put into the group that another has made.
ChildJoinsGroupAsked ==
    last.op = "child_setpgid" => \A q \in last.hit : group[last.on] = q
=============================================================================
