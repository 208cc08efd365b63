------------------------------ MODULE Environ ------------------------------
(***************************************************************************)
(* environ.py and the exec methods of ChildThread.  A thread's Environment *)
(* holds its variables and, once one was made, the array of strings in     *)
(* memory that execve takes; a child thread gets a copy of both.  All      *)
(* threads share one cache of the directories on PATH and of what was      *)
(* found in them.                                                          *)
(*                                                                         *)
(* Each method awaits system calls and batches, and other coroutines run   *)
(* meanwhile.  An environment is a set of variable-value pairs.            *)
(***************************************************************************)
EXTENDS Naturals, FiniteSets

CONSTANTS Threads,    \* threads, each cloned from another or there from the start
          First,      \* the one that is there from the start
          Envs,       \* the variables environments may have: a set of functions
          Updates,    \* env_updates of commands: functions on some of the variables
          ChangeAfter,\* BOOLEAN: do variables change once there is an array, or while it is made?
          Prepare,    \* BOOLEAN: is as_arglist called by itself, to save time later?
          Lookups,    \* coroutines that call which
          NDirs,      \* the directories of PATH are 1..NDirs
          ChunkSize,  \* how many are tried at a time
          OpenFails   \* BOOLEAN: may opening a directory that is there fail?

EnvironAssumption ==
    /\ First \in Threads /\ {ChangeAfter, Prepare, OpenFails} \subseteq BOOLEAN
    /\ NDirs \in Nat /\ ChunkSize \in Nat \ {0}

Dirs == 1..NDirs
None == [none |-> TRUE]
Some(x) == [none |-> FALSE, val |-> x]

VARIABLES alive,      \* threads that exist
          data,       \* Environment.data of each
          arglist,    \* arglist_ptr of each: what the array holds
          exec,       \* the exec in progress of each: [pc, updates, envp]
          meant,      \* the environments each program in progress may be given
          got,        \* the environment each executed program was given
          exists,     \* the directories that exist
          holds,      \* those with the executable that is looked for
          fds,        \* the cache: each directory "unset", "fd" or "none"
          path_cache, \* the directory the executable was found in, or 0
          which       \* the lookups: [pc, chunk, tried]

envVars == <<alive, data, arglist, exec, meant, got>>
pathVars == <<exists, holds, fds, path_cache, which>>
vars == <<envVars, pathVars>>

Idle == [pc |-> "idle", updates |-> None, envp |-> None]
Untried == [d \in Dirs |-> "start"]
NotAsked == [pc |-> "idle", chunk |-> 0, tried |-> Untried, found |-> 0]

Init ==
    /\ alive = {First} /\ data \in [Threads -> Envs] /\ (\A t \in Threads : data[t] = data[First])
    /\ arglist = [t \in Threads |-> None] /\ exec = [t \in Threads |-> Idle]
    /\ meant = [t \in Threads |-> {}] /\ got = [t \in Threads |-> None]
    /\ exists \in SUBSET Dirs /\ holds \in SUBSET exists
    /\ fds = [d \in Dirs |-> "unset"] /\ path_cache = 0
    /\ which = [w \in Lookups |-> NotAsked]

-----------------------------------------------------------------------------
(* Environment                                                             *)

Updated(e, u) == IF u.none THEN e ELSE [k \in DOMAIN e |-> IF k \in DOMAIN u.val THEN u.val[k] ELSE e[k]]

\* __setitem__ and __delitem__; programs being started may be given the one or the other
SetData(t, e) ==
    /\ t \in alive /\ e # data[t] /\ got[t].none
    /\ ChangeAfter \/ (arglist[t].none /\ exec[t].pc # "batch")
    /\ data' = [data EXCEPT ![t] = e]
    /\ meant' = [meant EXCEPT ![t] = IF exec[t].pc = "idle" THEN @ ELSE @ \cup {Updated(e, exec[t].updates)}]
    /\ UNCHANGED <<alive, arglist, exec, got, pathVars>>

\* a copy of the variables and the same array
Inherit(p, c) ==
    /\ p \in alive /\ c \notin alive /\ exec[p].pc = "idle" /\ got[p].none
    /\ alive' = alive \cup {c} /\ data' = [data EXCEPT ![c] = data[p]]
    /\ arglist' = [arglist EXCEPT ![c] = arglist[p]]
    /\ UNCHANGED <<exec, meant, got, pathVars>>

\* execve: the signal mask is set first, which awaits
Exec(t, u) ==
    /\ t \in alive /\ exec[t].pc = "idle" /\ got[t].none
    /\ exec' = [exec EXCEPT ![t] = [pc |-> "sigmask", updates |-> u, envp |-> None]]
    /\ meant' = [meant EXCEPT ![t] = {Updated(data[t], u)}]
    /\ UNCHANGED <<alive, data, arglist, got, pathVars>>

\* with updates the array is made of data and the updates, and not kept; without, execv
\* takes the array that was kept, or makes one of data
Masked(t) ==
    /\ exec[t].pc = "sigmask"
    /\ exec' = [exec EXCEPT ![t].pc = IF exec[t].updates.none /\ ~arglist[t].none THEN "execve" ELSE "batch",
                            ![t].envp = IF exec[t].updates.none /\ ~arglist[t].none THEN arglist[t]
                                        ELSE Some(Updated(data[t], exec[t].updates))]
    /\ UNCHANGED <<alive, data, arglist, meant, got, pathVars>>

\* Mutant of Keeps: an array with updates is kept as well.
KeepsAny(t) == TRUE
Keeps(t) == exec[t].updates.none

\* the strings and the array are in memory
Batched(t) ==
    /\ exec[t].pc = "batch"
    /\ arglist' = [arglist EXCEPT ![t] = IF Keeps(t) THEN exec[t].envp ELSE @]
    /\ exec' = [exec EXCEPT ![t].pc = "execve"]
    /\ UNCHANGED <<alive, data, meant, got, pathVars>>

\* as_arglist called for its own sake
AsArglist(t) ==
    /\ Prepare /\ t \in alive /\ got[t].none /\ arglist[t].none
    /\ arglist' = [arglist EXCEPT ![t] = Some(data[t])]
    /\ UNCHANGED <<alive, data, exec, meant, got, pathVars>>

\* execve fails, and the thread goes on, or the program starts
ExecReturns(t) ==
    /\ exec[t].pc = "execve"
    /\ \/ exec' = [exec EXCEPT ![t] = Idle] /\ meant' = [meant EXCEPT ![t] = {}] /\ UNCHANGED got
       \/ got' = [got EXCEPT ![t] = exec[t].envp] /\ exec' = [exec EXCEPT ![t].pc = "done"] /\ UNCHANGED meant
    /\ UNCHANGED <<alive, data, arglist, pathVars>>

-----------------------------------------------------------------------------
(* ExecutablePathCache                                                     *)

Chunk(n) == {d \in Dirs : (d - 1) \div ChunkSize = n}
Step(w, d, s) == which' = [which EXCEPT ![w].tried[d] = s]
Here(w, d) == which[w].pc = "try" /\ d \in Chunk(which[w].chunk)

Which(w) ==
    /\ which[w].pc = "idle"
    /\ which' = [which EXCEPT ![w] = IF path_cache # 0 THEN [NotAsked EXCEPT !.pc = "found", !.found = path_cache]
                                     ELSE [NotAsked EXCEPT !.pc = "try"]]
    /\ UNCHANGED <<envVars, exists, holds, fds, path_cache>>

\* _get_fd_for_path, up to its await
Look(w, d) ==
    /\ Here(w, d) /\ which[w].tried[d] = "start"
    /\ Step(w, d, IF fds[d] = "unset" THEN "opening" ELSE fds[d])
    /\ UNCHANGED <<envVars, exists, holds, fds, path_cache>>
\* open returns: what another coroutine stored meanwhile is replaced
Opened(w, d) ==
    /\ Here(w, d) /\ which[w].tried[d] = "opening"
    /\ \E fd \in {"fd", "none"} :
          /\ (fd = "fd" => d \in exists) /\ (fd = "none" => d \notin exists \/ OpenFails)
          /\ fds' = [fds EXCEPT ![d] = fd] /\ Step(w, d, fd)
    /\ UNCHANGED <<envVars, exists, holds, path_cache>>
\* _check: no directory, or faccessat
Check(w, d) ==
    /\ Here(w, d) /\ which[w].tried[d] \in {"fd", "none"}
    /\ Step(w, d, IF which[w].tried[d] = "fd" /\ d \in holds THEN "yes" ELSE "no")
    /\ UNCHANGED <<envVars, exists, holds, fds, path_cache>>

\* Mutant of Choose: the last directory that has it.
ChooseLast(S) == CHOOSE d \in S : \A e \in S : e <= d
\* for path, result in zip(paths, results): if result: break
Choose(S) == CHOOSE d \in S : \A e \in S : d <= e
\* all of a chunk have answered
Results(w) ==
    /\ which[w].pc = "try" /\ \A d \in Chunk(which[w].chunk) : which[w].tried[d] \in {"yes", "no"}
    /\ LET yes == {d \in Chunk(which[w].chunk) : which[w].tried[d] = "yes"}
       IN IF yes # {}
          THEN /\ path_cache' = Choose(yes)
               /\ which' = [which EXCEPT ![w].pc = "found", ![w].found = Choose(yes)]
          ELSE /\ which' = IF Chunk(which[w].chunk + 1) = {} THEN [which EXCEPT ![w].pc = "not_found"]
                           ELSE [which EXCEPT ![w].chunk = @ + 1]
               /\ UNCHANGED path_cache
    /\ UNCHANGED <<envVars, exists, holds, fds>>

Again(w) ==
    /\ which[w].pc \in {"found", "not_found"}
    /\ which' = [which EXCEPT ![w] = NotAsked] /\ UNCHANGED <<envVars, exists, holds, fds, path_cache>>

Next ==
    \/ \E t \in Threads : (\E e \in Envs : SetData(t, e)) \/ (\E u \in Updates : Exec(t, u))
                          \/ Masked(t) \/ Batched(t) \/ AsArglist(t) \/ ExecReturns(t)
    \/ \E p, c \in Threads : Inherit(p, c)
    \/ \E w \in Lookups : Which(w) \/ Results(w) \/ Again(w) \/ \E d \in Dirs : Look(w, d) \/ Opened(w, d) \/ Check(w, d)

Spec == Init /\ [][Next]_vars

-----------------------------------------------------------------------------

\* A program is given the variables its thread had, at some time from the call of exec to
\* the system call, with the updates of its command; what other programs were given
\* before, in this thread or in the one it was cloned from, leaves no trace.
ProgramGetsEnviron == \A t \in Threads : ~got[t].none => got[t].val \in meant[t]

\* which finds the first directory of PATH that has the executable, also when others look
\* for it at the same time, and reports that there is none only if none has it.
FindsFirst ==
    \A w \in Lookups :
        /\ which[w].pc = "found" => which[w].found \in holds /\ \A d \in holds : which[w].found <= d
        /\ which[w].pc = "not_found" => holds = {}
=============================================================================
