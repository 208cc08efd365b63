------------------------------ MODULE MCThreads ------------------------------
(***************************************************************************)
(* What a thread knows of its kernel state, for TLC: its file descriptor   *)
(* table, its children and process group, its signal mask, its             *)
(* environment.  The components stand side by side, and in a behaviour one *)
(* of them runs; where one is checked with several values of its           *)
(* constants, its instances have the same variables.                       *)
(***************************************************************************)
EXTENDS Naturals, Sequences, TLC

CONSTANTS
    Sharers, Cloners, ChildTask, Handles, Fds,      \* of the file descriptor tables: tasks that
    MaxFiles, SharedCalls, OwnCalls,                \* share one, who clones, and the child
    Root, third, Others, MaxPid, NewPid,            \* processes: the first, and its descendants
    CHLD, Signals, Coroutines, MaxCalls, Hangups,   \* of the signal masks
    Threads, First, Names, Values, NewValues,       \* of the environments,
    Lookups, NDirs, ChunkSize                       \* and of which

VARIABLES
    running,
    ktable, kfile, opened, alive, broken, calls, fd_table, known, tracked, inherited, handle,
    manipulating, stage, leaked, wrong,
    st, parent, ns, pid, group, owner, dead, monitor, last,
    kernel, sigmask, oldSigmask, oldset, sigprocmask_running, blocks, co, clone, life, execMask,
    outOfSync, refused, sig_calls, hangups,
    env_alive, data, arglist, exec, meant, got, exists, holds, fds, path_cache, which

fdtable   == <<ktable, kfile, opened, alive, broken, calls, fd_table, known, tracked, inherited,
               handle, manipulating, stage, leaked, wrong>>
processes == <<st, parent, ns, pid, group, owner, dead, monitor, last>>
signals   == <<kernel, sigmask, oldSigmask, oldset, sigprocmask_running, blocks, co, clone, life,
               execMask, outOfSync, refused, sig_calls, hangups>>
environ   == <<env_alive, data, arglist, exec, meant, got, exists, holds, fds, path_cache, which>>
vars      == <<running, fdtable, processes, signals, environ>>

\* two tasks that share a table; one of them unshares it or execs; a child is cloned
Share   == INSTANCE FDTable
             WITH Tasks <- Sharers, Child <- 0, MaxCalls <- SharedCalls,
                  Ops <- {"open", "share", "gc", "use"}, Faults <- {}
Unshare == INSTANCE FDTable
             WITH Tasks <- Sharers, Child <- 0, MaxCalls <- OwnCalls,
                  Ops <- {"open", "share", "gc", "unshare", "exec"}, Faults <- {}
Cloned  == INSTANCE FDTable
             WITH Tasks <- Cloners, Child <- ChildTask, MaxCalls <- OwnCalls,
                  Ops <- {"open", "gc", "clone", "exec", "use_own"}, Faults <- {"hangup", "exec"}
Tree(c) == INSTANCE ProcessTree
             WITH Others <- c.others, Groups <- c.groups, RootMayDie <- c.mayDie
Mask(c) == INSTANCE SignalMask
             WITH Hangups <- c.hangups, ExecFails <- c.execFails, CloneOverlaps <- c.overlaps,
                  calls <- sig_calls, running <- sigprocmask_running
Env(c)  == INSTANCE Environ
             WITH Threads <- c.threads, Envs <- c.envs, Updates <- c.updates, ChangeAfter <- c.changeAfter,
                  Prepare <- c.prepare, Lookups <- c.lookups, NDirs <- c.dirs, OpenFails <- c.openFails,
                  alive <- env_alive

\* The configurations that run.
Orphans   == [others |-> Others \cup {third}, groups |-> FALSE, mayDie |-> TRUE]
Sessions  == [others |-> Others, groups |-> TRUE, mayDie |-> FALSE]
Failing   == [hangups |-> Hangups, execFails |-> TRUE, overlaps |-> FALSE]
Overlaps  == [hangups |-> 0, execFails |-> FALSE, overlaps |-> TRUE]
Executing == [threads |-> Threads, envs |-> [Names -> Values],
              updates |-> {[none |-> TRUE]} \cup [none : {FALSE}, val : UNION {[{n} -> NewValues] : n \in Names}],
              changeAfter |-> FALSE, prepare |-> TRUE, lookups |-> {}, dirs |-> 0, openFails |-> FALSE]
Looking   == [threads |-> {First}, envs |-> [{} -> Values], updates |-> {}, changeAfter |-> FALSE,
              prepare |-> FALSE, lookups |-> Lookups, dirs |-> NDirs, openFails |-> FALSE]

ASSUME ThreadsAssumption ==
    /\ Share!FDTableAssumption /\ Unshare!FDTableAssumption /\ Cloned!FDTableAssumption
    /\ \A t, u \in Cloners : t = u
    /\ Tree(Orphans)!ProcessTreeAssumption /\ Tree(Sessions)!ProcessTreeAssumption
    /\ Mask(Failing)!SignalAssumption /\ Mask(Overlaps)!SignalAssumption
    /\ Env(Executing)!EnvironAssumption /\ Env(Looking)!EnvironAssumption

Init == /\ running \in {"share", "unshare", "cloned", "tree", "groups", "mask", "block", "exec", "which"}
        /\ running # "cloned" => Share!Init
        /\ running = "cloned" => Cloned!Init
        /\ running # "tree" => Tree(Sessions)!Init
        /\ running = "tree" => Tree(Orphans)!Init
        /\ Mask(Failing)!Init
        /\ running # "which" => Env(Executing)!Init
        /\ running = "which" => Env(Looking)!Init
        /\ running \in {"exec", "which"} \/ data[First] = CHOOSE e \in [Names -> Values] : TRUE

Next == \/ running = "share" /\ Share!Next /\ UNCHANGED <<running, processes, signals, environ>>
        \/ running = "unshare" /\ Unshare!Next /\ UNCHANGED <<running, processes, signals, environ>>
        \/ running = "cloned" /\ Cloned!Next /\ UNCHANGED <<running, processes, signals, environ>>
        \/ running = "tree" /\ Tree(Orphans)!Next /\ UNCHANGED <<running, fdtable, signals, environ>>
        \/ running = "groups" /\ Tree(Sessions)!Next /\ UNCHANGED <<running, fdtable, signals, environ>>
        \/ running = "mask" /\ Mask(Failing)!Next /\ UNCHANGED <<running, fdtable, processes, environ>>
        \/ running = "block" /\ Mask(Overlaps)!Next /\ UNCHANGED <<running, fdtable, processes, environ>>
        \/ running = "exec" /\ Env(Executing)!Next /\ UNCHANGED <<running, fdtable, processes, signals>>
        \/ running = "which" /\ Env(Looking)!Next /\ UNCHANGED <<running, fdtable, processes, signals>>

Spec == Init /\ [][Next]_vars

\* Handles are alike, and so are processes other than the first.
Symmetry == Permutations(Handles) \cup Permutations(Others)

-----------------------------------------------------------------------------
(***************************************************************************)
(* A valid FileDescriptor stands for the file it was made for, whoever     *)
(* closes, unshares, execs or clones around it; the garbage collector      *)
(* closes no file that somebody has a handle for, borrowed ones included;  *)
(* an open fd of a table has a handle, or somebody about to close it.      *)
(***************************************************************************)
HandleHasFile ==
    /\ running = "share"   => Share!TypeOK /\ Share!CloseHitsOwnFile /\ Share!BorrowedUseHits
    /\ running = "unshare" => Unshare!HandleHasFile /\ Unshare!OpenFdsAccounted
    /\ running = "cloned"  => Cloned!HandleHasFile

(***************************************************************************)
(* kill, waitid, killpg and setpgid reach the process they are meant for,  *)
(* in whatever pid namespaces; a child's handle is with the task that is   *)
(* its parent, so that waitid finds it, whatever flags it was cloned with. *)
(***************************************************************************)
HitsOwn == /\ running = "tree"   => Tree(Orphans)!HitsOwn /\ Tree(Orphans)!OwnerIsParent
           /\ running = "groups" => Tree(Sessions)!HitsOwn /\ Tree(Sessions)!JoinsGroupAsked

(***************************************************************************)
(* The signal mask a task tracks is the kernel's, and the old mask that is *)
(* read back agrees; a program is executed with the mask that is asked     *)
(* for.  Blocks are disjoint, each one's signals are blocked, and a call   *)
(* is refused only while another one runs.                                 *)
(***************************************************************************)
TrackedIsTrue ==
    /\ running = "mask"  => /\ Mask(Failing)!TypeOK /\ Mask(Failing)!TrackedIsTrue
                           /\ Mask(Failing)!InSync /\ Mask(Failing)!ExecMask
    /\ running = "block" => /\ Mask(Overlaps)!BlocksDisjoint /\ Mask(Overlaps)!BlockWitness
                           /\ Mask(Overlaps)!RefusedWhileRunning

(***************************************************************************)
(* An executed program gets the environment of its thread at the time,     *)
(* with the command's updates.                                             *)
(***************************************************************************)
ProgramGetsEnviron == running = "exec" => Env(Executing)!ProgramGetsEnviron

(***************************************************************************)
(* which finds the executable in the first directory of PATH that has it,  *)
(* although several are looked at a time and coroutines share the cache.   *)
(***************************************************************************)
FindsFirst == running = "which" => Env(Looking)!FindsFirst
=============================================================================
