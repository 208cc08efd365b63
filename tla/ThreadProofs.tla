----------------------------- MODULE ThreadProofs -----------------------------
(***************************************************************************)
(* Proofs about what is kept in a thread: the signal mask, the environment *)
(* and the paths of executables, and the handles of its processes; and     *)
(* about the behaviours of MCThreads, for every value of its constants.    *)
(* The parameter cfg is what a run of a component is about.                *)
(*                                                                         *)
(* SignalMask, without sigprocmask calls of p that overlap its clone:      *)
(* MaskInv says that at most one coroutine is in a call or an exec of a    *)
(* task (Alone); that a task without a call has the mask we believe        *)
(* (TaskInv); and what a call in progress knows: the belief is what the    *)
(* kernel had before it, and what it will put there is computed from that  *)
(* (CallInv).  The mask alone is not inductive: it is true when a call     *)
(* returns because running kept others out since it began.  For            *)
(* SignalBlocks (BlockInv) hangups and execs that fail are excluded, and   *)
(* overlapping calls are not.                                              *)
(*                                                                         *)
(* Environ: the array of variables that is kept holds the thread's         *)
(* variables (ArrayInv), unless they are assigned to after it was made.  A *)
(* lookup on PATH knows the truth about each directory it tried, and no    *)
(* earlier chunk has the executable (LookupInv).                           *)
(*                                                                         *)
(* ProcessTree: no two numbers in use of a namespace are the same, where   *)
(* the group of a dead leader keeps its number in use (NumbersDiffer,      *)
(* Held); and as long as the owner of a handle lives it is the parent, so  *)
(* nobody else reaps the process and lets its number be used again         *)
(* (OwnedInv).                                                             *)
(*                                                                         *)
(* Of file descriptor tables FDProofs shows what is needed.                *)
(***************************************************************************)
EXTENDS MCThreads, FiniteSets, WellFoundedInduction, TLAPS

-----------------------------------------------------------------------------
(* The signal mask *)

Masks(cfg) == SUBSET Mask(cfg)!All

Call(cfg) == [at : {"call"}, t : Mask(cfg)!Tasks, how : {"BLOCK", "UNBLOCK", "SETMASK"}, set : Masks(cfg),
         old : BOOLEAN, new : Masks(cfg), next : {"block", "unblock", "ask", "exec"},
         done : BOOLEAN]
Exec(cfg) == [at : {"exec"}, t : Mask(cfg)!Tasks, keep : Masks(cfg)]

MaskTypes(cfg) ==
    /\ kernel \in [Mask(cfg)!Tasks -> Masks(cfg)] /\ sigmask \in [Mask(cfg)!Tasks -> Masks(cfg)]
    /\ oldSigmask \in [Mask(cfg)!Tasks -> Masks(cfg)] /\ oldset \in [Mask(cfg)!Tasks -> SUBSET Masks(cfg)]
    /\ sigprocmask_running \subseteq Mask(cfg)!Tasks /\ blocks \subseteq Mask(cfg)!Tasks \X Masks(cfg)
    /\ co \in [Coroutines -> {Mask(cfg)!Idle} \cup Call(cfg) \cup Exec(cfg)]
    /\ clone \in {"none", "cloned", "made"} /\ life \in {"alive", "execd"}
    /\ execMask \in Masks(cfg)

\* At most one coroutine is in a call, or about to exec, in a task.
Alone ==
    \A x, y \in Coroutines :
        x # y /\ co[x].at # "idle" /\ co[y].at # "idle" => co[x].t # co[y].t

\* A task without a call in progress: what is read back includes what we believe.
Synced(t) == \A mask \in oldset[t] : oldSigmask[t] \subseteq mask

\* A call in progress: the belief is what the kernel had before the call.
CallInv(cfg, x) ==
    co[x].at = "call" =>
        /\ co[x].t \in sigprocmask_running
        /\ co[x].new = Mask(cfg)!Apply(sigmask[co[x].t], co[x].how, co[x].set)
        /\ kernel[co[x].t] = IF co[x].done THEN co[x].new ELSE sigmask[co[x].t]
        /\ co[x].next = "ask" => co[x].new = sigmask[co[x].t]
        /\ co[x].next = "exec" => co[x].t = "c" /\ co[x].new = execMask
        /\ IF co[x].old /\ co[x].done THEN oldset[co[x].t] = {sigmask[co[x].t]}
                                      ELSE Synced(co[x].t)

ExecInv(cfg, x) ==
    co[x].at = "exec" =>
        /\ co[x].t = "c" /\ "c" \notin sigprocmask_running /\ Mask(cfg)!Usable("c")
        /\ kernel["c"] = execMask

TaskInv(cfg) ==
    \A t \in Mask(cfg)!Tasks :
        /\ t \in sigprocmask_running => Mask(cfg)!Usable(t)
        /\ t \notin sigprocmask_running => Synced(t) /\ (Mask(cfg)!Usable(t) => sigmask[t] = kernel[t])

CloneInv ==
    /\ clone = "cloned" => "p" \notin sigprocmask_running /\ kernel["c"] = sigmask["p"]
    /\ life = "execd" => clone = "made" /\ kernel["c"] = execMask

MaskInv(cfg) ==
    /\ MaskTypes(cfg) /\ Alone /\ TaskInv(cfg) /\ CloneInv
    /\ \A x \in Coroutines : CallInv(cfg, x) /\ ExecInv(cfg, x)
    /\ ~outOfSync

\* Applying a call to a mask of signals gives one.
LEMMA ApplyMask ==
    ASSUME NEW cfg, NEW m \in Masks(cfg), NEW how \in {"BLOCK", "UNBLOCK", "SETMASK"}, NEW set \in Masks(cfg)
    PROVE  /\ Mask(cfg)!Apply(m, how, set) \in Masks(cfg)
           /\ how = "BLOCK" => Mask(cfg)!Apply(m, how, set) = m \cup set
           /\ how = "UNBLOCK" => Mask(cfg)!Apply(m, how, set) = m \ set
           /\ how = "SETMASK" => Mask(cfg)!Apply(m, how, set) = set
  BY DEF Masks, Mask!Apply

\* What is known of a coroutine's state.
LEMMA CoTyped ==
    ASSUME NEW cfg, MaskTypes(cfg), NEW x \in Coroutines
    PROVE  /\ co[x].at \in {"idle", "call", "exec"}
           /\ co[x] = Mask(cfg)!Idle <=> co[x].at = "idle"
           /\ co[x].at = "call" => co[x] \in Call(cfg)
           /\ co[x].at = "exec" => co[x] \in Exec(cfg)
           /\ co[x].at # "idle" => co[x].t \in Mask(cfg)!Tasks
  BY DEF MaskTypes, Mask!Idle, Call, Exec

\* Nothing is called yet, and the masks are those that we believe in.
LEMMA MaskInit ==
    ASSUME NEW cfg, Mask(cfg)!SignalAssumption, Mask(cfg)!Init
    PROVE  MaskInv(cfg)
  <1> USE DEF Mask!Init
  <1>1. /\ kernel["p"] = {CHLD} /\ kernel["c"] = {} /\ sigmask = kernel
        /\ \A x \in Coroutines : co[x].at = "idle"
    BY DEF Mask!Tasks, Mask!Idle
  <1>2. MaskTypes(cfg)
    BY DEF MaskTypes, Masks, Mask!All, Mask!Tasks
  <1>3. TaskInv(cfg) /\ CloneInv /\ Alone /\ ~outOfSync
    BY <1>1 DEF TaskInv, CloneInv, Alone, Synced, Mask!Usable, Mask!Tasks
  <1> QED BY <1>1, <1>2, <1>3 DEF MaskInv, CallInv, ExecInv

\* sigprocmask is called: refused, or the only call in progress in its task.
LEMMA StartInv ==
    ASSUME NEW cfg, ~cfg.overlaps, MaskInv(cfg), NEW x \in Coroutines, co[x] = Mask(cfg)!Idle,
           NEW t \in Mask(cfg)!Tasks, NEW how \in {"BLOCK", "UNBLOCK", "SETMASK"},
           NEW set \in Masks(cfg), NEW old \in BOOLEAN,
           NEW next \in {"block", "unblock", "ask", "exec"},
           Mask(cfg)!MayCall(x, t), Mask(cfg)!Start(x, t, how, set, old, next),
           next = "ask" => how = "BLOCK" /\ set = {},
           IF next = "exec"
           THEN /\ t = "c" /\ how = "SETMASK" /\ execMask' = set
                /\ \A y \in Coroutines : co[y].at = "call" => co[y].t # "c"
           ELSE execMask' = execMask,
           blocks' \subseteq Mask(cfg)!Tasks \X Masks(cfg),
           UNCHANGED <<kernel, sigmask, oldSigmask, oldset, clone, life, outOfSync>>
    PROVE  MaskInv(cfg)'
  <1>0. MaskTypes(cfg) /\ Alone /\ TaskInv(cfg) /\ CloneInv
    BY DEF MaskInv
  <1>a. \A y \in Coroutines : CallInv(cfg, y) /\ ExecInv(cfg, y)
    BY DEF MaskInv
  <1>b. /\ Mask(cfg)!Usable(t) /\ (t = "p" => clone # "cloned")
        /\ \A y \in Coroutines : co[y].at = "exec" => co[y].t # t
    <2>1. co[x].at = "idle"
      BY DEF Mask!Idle
    <2> QED BY <2>1 DEF Mask!MayCall
  <1>c. \A y \in Coroutines :
          /\ co[y].at \in {"idle", "call", "exec"}
          /\ co[y].at = "call" => co[y] \in Call(cfg)
          /\ co[y].at = "exec" => co[y] \in Exec(cfg)
    BY <1>0, CoTyped
  <1>d. \A y \in Coroutines : co[y].at = "exec" => co[y].t = "c"
    BY <1>a DEF ExecInv
  <1>e. next = "exec" => \A y \in Coroutines : co[y].at = "idle" \/ co[y].t # "c"
    BY <1>b, <1>c
  <1>f. next = "exec" => life = "alive"
    BY <1>b DEF Mask!Usable
  <1>1. CASE t \in sigprocmask_running
    <2>1. sigprocmask_running' = sigprocmask_running /\ co' = [co EXCEPT ![x] = Mask(cfg)!Idle]
      BY <1>1 DEF Mask!Start
    <2>2. co' = co
      BY <1>0, <2>1 DEF MaskTypes
    <2>3. execMask' \in Masks(cfg)
      BY <1>0 DEF MaskTypes
    <2>4. MaskTypes(cfg)'
      BY <1>0, <2>1, <2>2, <2>3 DEF MaskTypes
    <2>5. Alone' /\ TaskInv(cfg)'
      BY <1>0, <2>1, <2>2 DEF Alone, TaskInv, Synced, Mask!Usable
    <2>6. CloneInv'
      BY <1>0, <1>f, <2>1 DEF CloneInv
    <2>7. \A y \in Coroutines : CallInv(cfg, y)'
      <3> SUFFICES ASSUME NEW y \in Coroutines PROVE CallInv(cfg, y)'
        OBVIOUS
      <3>1. co[y].at = "call" /\ co[y].next = "exec" => execMask' = execMask
        BY <1>a, <1>e DEF CallInv
      <3> QED BY <1>a, <2>1, <2>2, <3>1 DEF CallInv, Synced
    <2>8. \A y \in Coroutines : ExecInv(cfg, y)'
      <3> SUFFICES ASSUME NEW y \in Coroutines PROVE ExecInv(cfg, y)'
        OBVIOUS
      <3>1. co[y].at = "exec" => execMask' = execMask
        BY <1>d, <1>e
      <3> QED BY <1>a, <2>1, <2>2, <3>1 DEF ExecInv, Mask!Usable
    <2> QED BY <2>4, <2>5, <2>6, <2>7, <2>8 DEF MaskInv
  <1>2. CASE t \notin sigprocmask_running
    <2> DEFINE new == Mask(cfg)!Apply(sigmask[t], how, set)
               c == [at |-> "call", t |-> t, how |-> how, set |-> set, old |-> old,
                     new |-> new, next |-> next, done |-> FALSE]
    <2>1. sigprocmask_running' = sigprocmask_running \cup {t} /\ co' = [co EXCEPT ![x] = c]
      BY <1>2 DEF Mask!Start
    <2>2. /\ new \in Masks(cfg)
          /\ how = "BLOCK" => new = sigmask[t] \cup set
          /\ how = "SETMASK" => new = set
      <3>1. sigmask[t] \in Masks(cfg)
        BY <1>0 DEF MaskTypes
      <3> QED BY <3>1, ApplyMask
    <2> HIDE DEF new
    <2>3. c \in Call(cfg)
      BY <2>2 DEF Call
    <2>4. /\ c.at = "call" /\ c.t = t /\ c.how = how /\ c.set = set /\ c.old = old
          /\ c.new = new /\ c.next = next /\ c.done = FALSE
      OBVIOUS
    <2> HIDE DEF c
    <2>5. /\ co'[x] = c
          /\ \A y \in Coroutines : y # x => co'[y] = co[y]
      BY <1>0, <2>1 DEF MaskTypes
    <2>6. \A y \in Coroutines : co[y].at = "call" => co[y].t # t
      BY <1>2, <1>a DEF CallInv
    <2>7. execMask' \in Masks(cfg)
      BY <1>0 DEF MaskTypes
    <2>8. co' \in [Coroutines -> {Mask(cfg)!Idle} \cup Call(cfg) \cup Exec(cfg)]
          /\ sigprocmask_running' \subseteq Mask(cfg)!Tasks
      BY <1>0, <2>1, <2>3 DEF MaskTypes
    <2>9. MaskTypes(cfg)'
      BY <1>0, <2>7, <2>8 DEF MaskTypes
    <2>10. Alone'
      <3>1. \A y \in Coroutines : co[y].at = "idle" \/ co[y].t # t
        BY <1>b, <1>c, <2>6
      <3> QED BY <1>0, <2>4, <2>5, <3>1 DEF Alone
    <2>11. TaskInv(cfg)'
      BY <1>0, <1>b, <2>1 DEF TaskInv, Synced, Mask!Usable
    <2>12. CloneInv'
      BY <1>0, <1>b, <1>f, <2>1 DEF CloneInv
    <2>13. \A y \in Coroutines : CallInv(cfg, y)'
      <3> SUFFICES ASSUME NEW y \in Coroutines PROVE CallInv(cfg, y)'
        OBVIOUS
      <3>1. CASE y = x
        <4>1. kernel[t] = sigmask[t] /\ Synced(t)
          BY <1>0, <1>2, <1>b DEF TaskInv
        <4>2. next = "ask" => new = sigmask[t]
          BY <2>2
        <4>3. next = "exec" => t = "c" /\ new = execMask'
          BY <2>2
        <4> QED BY <2>1, <2>4, <2>5, <3>1, <4>1, <4>2, <4>3 DEF CallInv, Synced, new
      <3>2. CASE y # x
        <4>1. co'[y] = co[y]
          BY <2>5, <3>2
        <4>2. co[y].at = "call" /\ co[y].next = "exec" => execMask' = execMask
          BY <1>a, <1>e DEF CallInv
        <4> QED BY <1>a, <2>1, <4>1, <4>2 DEF CallInv, Synced
      <3> QED BY <3>1, <3>2
    <2>14. \A y \in Coroutines : ExecInv(cfg, y)'
      <3> SUFFICES ASSUME NEW y \in Coroutines, co'[y].at = "exec" PROVE ExecInv(cfg, y)'
        BY DEF ExecInv
      <3>1. y # x
        BY <2>4, <2>5
      <3>2. co'[y] = co[y] /\ co[y].t # t /\ co[y].t = "c"
        BY <1>b, <1>d, <2>5, <3>1
      <3>3. execMask' = execMask
        BY <1>e, <3>2
      <3> QED BY <1>a, <2>1, <3>2, <3>3 DEF ExecInv, Mask!Usable
    <2> QED BY <2>9, <2>10, <2>11, <2>12, <2>13, <2>14 DEF MaskInv
  <1> QED BY <1>1, <1>2

\* The sig_calls that are made to block, to unblock, to ask, and before an exec.
LEMMA CallsInv ==
    ASSUME NEW cfg, ~cfg.overlaps, MaskInv(cfg), NEW x \in Coroutines,
           \/ \E t \in Mask(cfg)!Tasks, set \in (SUBSET Signals) \ {{}}, old \in BOOLEAN :
                 Mask(cfg)!Block(x, t, set, old)
           \/ \E b \in blocks : Mask(cfg)!Unblock(x, b)
           \/ \E t \in Mask(cfg)!Tasks : Mask(cfg)!Ask(x, t)
           \/ \E keep \in SUBSET blocks : Mask(cfg)!ExecBegin(x, keep)
    PROVE  MaskInv(cfg)'
  <1>0. blocks \subseteq Mask(cfg)!Tasks \X Masks(cfg)
    BY DEF MaskInv, MaskTypes
  <1>1. ASSUME NEW t \in Mask(cfg)!Tasks, NEW set \in SUBSET Signals, NEW old \in BOOLEAN,
               Mask(cfg)!Block(x, t, set, old)
        PROVE  MaskInv(cfg)'
    <2>1. set \in Masks(cfg)
      BY DEF Masks, Mask!All
    <2>2. /\ co[x] = Mask(cfg)!Idle /\ Mask(cfg)!MayCall(x, t)
          /\ Mask(cfg)!Start(x, t, "BLOCK", set, old, "block")
          /\ UNCHANGED <<kernel, sigmask, oldSigmask, oldset, blocks, clone, life, execMask,
                         outOfSync>>
      BY <1>1 DEF Mask!Block
    <2>3. blocks' \subseteq Mask(cfg)!Tasks \X Masks(cfg)
      BY <1>0, <2>2
    <2> QED BY <2>1, <2>2, <2>3, StartInv
  <1>2. ASSUME NEW b \in blocks, Mask(cfg)!Unblock(x, b)
        PROVE  MaskInv(cfg)'
    <2>1. b[1] \in Mask(cfg)!Tasks /\ b[2] \in Masks(cfg)
      BY <1>0
    <2>2. /\ co[x] = Mask(cfg)!Idle /\ Mask(cfg)!MayCall(x, b[1])
          /\ Mask(cfg)!Start(x, b[1], "UNBLOCK", b[2], FALSE, "unblock")
          /\ UNCHANGED <<kernel, sigmask, oldSigmask, oldset, clone, life, execMask, outOfSync>>
      BY <1>2 DEF Mask!Unblock
    <2>3. blocks' \subseteq Mask(cfg)!Tasks \X Masks(cfg)
      BY <1>0, <1>2 DEF Mask!Unblock
    <2> QED BY <2>1, <2>2, <2>3, StartInv
  <1>3. ASSUME NEW t \in Mask(cfg)!Tasks, Mask(cfg)!Ask(x, t)
        PROVE  MaskInv(cfg)'
    <2>1. {} \in Masks(cfg)
      BY DEF Masks
    <2>2. /\ co[x] = Mask(cfg)!Idle /\ Mask(cfg)!MayCall(x, t)
          /\ Mask(cfg)!Start(x, t, "BLOCK", {}, FALSE, "ask")
          /\ UNCHANGED <<kernel, sigmask, oldSigmask, oldset, blocks, clone, life, execMask,
                         outOfSync>>
      BY <1>3 DEF Mask!Ask
    <2>3. blocks' \subseteq Mask(cfg)!Tasks \X Masks(cfg)
      BY <1>0, <2>2
    <2> QED BY <2>1, <2>2, <2>3, StartInv
  <1>4. ASSUME NEW keep \in SUBSET blocks, Mask(cfg)!ExecBegin(x, keep)
        PROVE  MaskInv(cfg)'
    <2>1. Mask(cfg)!Inherited(keep) \in Masks(cfg) /\ "c" \in Mask(cfg)!Tasks
      BY <1>0 DEF Masks, Mask!Inherited, Mask!Tasks
    <2>2. /\ co[x] = Mask(cfg)!Idle /\ Mask(cfg)!MayCall(x, "c")
          /\ Mask(cfg)!Start(x, "c", "SETMASK", Mask(cfg)!Inherited(keep), FALSE, "exec")
          /\ execMask' = Mask(cfg)!Inherited(keep)
          /\ \A y \in Coroutines : co[y].at = "call" => co[y].t # "c"
          /\ UNCHANGED <<kernel, sigmask, oldSigmask, oldset, blocks, clone, life, outOfSync>>
      BY <1>4 DEF Mask!ExecBegin, Mask!Inherited
    <2>3. blocks' \subseteq Mask(cfg)!Tasks \X Masks(cfg)
      BY <1>0, <2>2
    <2> QED BY <2>1, <2>2, <2>3, StartInv
  <1> QED BY <1>1, <1>2, <1>3, <1>4

\* A call that the kernel has performed is the same call.
LEMMA DoneCall ==
    ASSUME NEW cfg, NEW c \in Call(cfg), NEW d, d = [c EXCEPT !.done = TRUE]
    PROVE  /\ d \in Call(cfg) /\ d.done = TRUE
           /\ d.at = c.at /\ d.t = c.t /\ d.how = c.how /\ d.set = c.set
           /\ d.old = c.old /\ d.new = c.new /\ d.next = c.next
  <1>1. d.at = c.at /\ d.t = c.t /\ d.how = c.how /\ d.set = c.set
    BY DEF Call
  <1>2. d.old = c.old /\ d.new = c.new /\ d.next = c.next /\ d.done = TRUE
    BY DEF Call
  <1>3. d \in Call(cfg)
    BY DEF Call
  <1> QED BY <1>1, <1>2, <1>3

\* rt_sigprocmask in the kernel.
LEMMA PerformInv ==
    ASSUME NEW cfg, MaskInv(cfg), NEW x \in Coroutines, Mask(cfg)!Perform(x)
    PROVE  MaskInv(cfg)'
  <1> PICK c : c = co[x]
    OBVIOUS
  <1> PICK t : t = co[x].t
    OBVIOUS
  <1>0. MaskTypes(cfg) /\ Alone /\ TaskInv(cfg) /\ CloneInv /\ ~outOfSync
    BY DEF MaskInv
  <1>a. \A y \in Coroutines : CallInv(cfg, y) /\ ExecInv(cfg, y)
    BY DEF MaskInv
  <1>1. /\ co[x].at = "call" /\ ~co[x].done
        /\ kernel' = [kernel EXCEPT ![t] = Mask(cfg)!Apply(kernel[t], c.how, c.set)]
        /\ co' = [co EXCEPT ![x].done = TRUE]
        /\ oldset' = IF c.old THEN [oldset EXCEPT ![t] = {kernel[t]}] ELSE oldset
        /\ UNCHANGED <<sigmask, oldSigmask, sigprocmask_running, blocks, clone, life, execMask, outOfSync>>
    BY DEF Mask!Perform
  <1>2. c \in Call(cfg)
    BY <1>0, <1>1, CoTyped
  <1>3. t \in Mask(cfg)!Tasks /\ t \in sigprocmask_running /\ Mask(cfg)!Usable(t) /\ t = co[x].t
    BY <1>0, <1>1, <1>2, <1>a DEF CallInv, TaskInv, Call
  <1>4. kernel[t] = sigmask[t] /\ Synced(t) /\ c.new = Mask(cfg)!Apply(sigmask[t], c.how, c.set)
    BY <1>1, <1>a DEF CallInv
  <1>5. c.new \in Masks(cfg)
    BY <1>2 DEF Call
  <1>6. /\ kernel'[t] = c.new
        /\ \A u \in Mask(cfg)!Tasks : u # t => kernel'[u] = kernel[u] /\ oldset'[u] = oldset[u]
        /\ oldset'[t] = IF c.old THEN {sigmask[t]} ELSE oldset[t]
    BY <1>0, <1>1, <1>3, <1>4 DEF MaskTypes
  <1>7. co'[x] = [c EXCEPT !.done = TRUE] /\ \A y \in Coroutines : y # x => co'[y] = co[y]
    BY <1>0, <1>1 DEF MaskTypes
  <1>8. /\ co'[x].at = "call" /\ co'[x].t = t /\ co'[x].how = c.how /\ co'[x].set = c.set
        /\ co'[x].old = c.old /\ co'[x].new = c.new /\ co'[x].next = c.next
        /\ co'[x].done = TRUE /\ co'[x] \in Call(cfg)
    <2> PICK d : d = co'[x]
      OBVIOUS
    <2>1. d = [c EXCEPT !.done = TRUE]
      BY <1>7
    <2>2. /\ d \in Call(cfg) /\ d.done = TRUE
          /\ d.at = c.at /\ d.t = c.t /\ d.how = c.how /\ d.set = c.set
          /\ d.old = c.old /\ d.new = c.new /\ d.next = c.next
      BY <1>2, <2>1 DEF Call
    <2>3. c.at = "call" /\ c.t = t
      BY <1>1
    <2> QED BY <2>2, <2>3
  <1>9. \A y \in Coroutines : y # x /\ co[y].at # "idle" => co[y].t # t
    BY <1>0, <1>1 DEF Alone
  <1>k. kernel' \in [Mask(cfg)!Tasks -> Masks(cfg)] /\ oldset' \in [Mask(cfg)!Tasks -> SUBSET Masks(cfg)]
    <2>1. kernel' = [kernel EXCEPT ![t] = c.new]
      BY <1>1, <1>4
    <2>2. kernel[t] \in Masks(cfg)
      BY <1>0, <1>3 DEF MaskTypes
    <2>3. kernel' \in [Mask(cfg)!Tasks -> Masks(cfg)]
      BY <1>0, <1>5, <2>1 DEF MaskTypes
    <2>4. oldset' \in [Mask(cfg)!Tasks -> SUBSET Masks(cfg)]
      <3>1. oldset' = IF c.old THEN [oldset EXCEPT ![t] = {kernel[t]}] ELSE oldset
        BY <1>1
      <3>2. {kernel[t]} \in SUBSET Masks(cfg) /\ oldset \in [Mask(cfg)!Tasks -> SUBSET Masks(cfg)]
        BY <1>0, <2>2 DEF MaskTypes
      <3> QED BY <3>1, <3>2
    <2> QED BY <2>3, <2>4
  <1>o. co' \in [Coroutines -> {Mask(cfg)!Idle} \cup Call(cfg) \cup Exec(cfg)]
    BY <1>0, <1>1, <1>7, <1>8 DEF MaskTypes
  <1>10. MaskTypes(cfg)'
    BY <1>0, <1>1, <1>k, <1>o DEF MaskTypes
  <1>11. Alone'
    <2>1. /\ co'[x].t = t
          /\ \A y \in Coroutines : y # x => co'[y] = co[y]
      BY <1>7, <1>8
    <2>2. \A y, z \in Coroutines :
              y # z /\ co[y].at # "idle" /\ co[z].at # "idle" => co[y].t # co[z].t
      BY <1>0 DEF Alone
    <2>3. \A y, z \in Coroutines :
              y # z /\ co'[y].at # "idle" /\ co'[z].at # "idle" => co'[y].t # co'[z].t
      BY <1>9, <2>1, <2>2
    <2> QED BY <2>3 DEF Alone
  <1>12. TaskInv(cfg)'
    BY <1>0, <1>1, <1>3, <1>6 DEF TaskInv, Synced, Mask!Usable
  <1>13. CloneInv'
    <2>1. clone = "cloned" => t # "p" /\ t # "c"
      BY <1>0, <1>3 DEF CloneInv, Mask!Usable
    <2>2. t = "c" => life = "alive" /\ clone = "made"
      BY <1>3 DEF Mask!Usable
    <2> QED BY <1>0, <1>1, <1>6, <2>1, <2>2 DEF CloneInv, Mask!Tasks
  <1>14. \A y \in Coroutines : CallInv(cfg, y)'
    <2> SUFFICES ASSUME NEW y \in Coroutines, co'[y].at = "call" PROVE CallInv(cfg, y)'
      BY DEF CallInv
    <2>1. CASE y = x
      <3>1. /\ c.next = "ask" => c.new = sigmask[t]
            /\ c.next = "exec" => t = "c" /\ c.new = execMask
        BY <1>1, <1>a DEF CallInv
      <3>2. Synced(t)' \/ c.old
        BY <1>1, <1>4, <1>6 DEF Synced
      <3> QED BY <1>1, <1>3, <1>4, <1>6, <1>8, <2>1, <3>1, <3>2 DEF CallInv
    <2>2. CASE y # x
      <3>1. co'[y] = co[y] /\ co[y].t # t /\ co[y].t \in Mask(cfg)!Tasks
        <4>1. co'[y] = co[y]
          BY <1>7, <2>2
        <4> QED BY <1>0, <1>9, <2>2, <4>1, CoTyped
      <3>2. kernel'[co[y].t] = kernel[co[y].t] /\ oldset'[co[y].t] = oldset[co[y].t]
        BY <1>6, <3>1
      <3> QED BY <1>1, <1>a, <3>1, <3>2 DEF CallInv, Synced
    <2> QED BY <2>1, <2>2
  <1>15. \A y \in Coroutines : ExecInv(cfg, y)'
    <2> SUFFICES ASSUME NEW y \in Coroutines, co'[y].at = "exec" PROVE ExecInv(cfg, y)'
      BY DEF ExecInv
    <2>1. y # x /\ co'[y] = co[y]
      BY <1>7, <1>8
    <2>2. co[y].t # t /\ co[y].t = "c"
      BY <1>9, <1>a, <2>1 DEF ExecInv
    <2>3. kernel'["c"] = kernel["c"]
      BY <1>6, <2>2 DEF Mask!Tasks
    <2> QED BY <1>1, <1>a, <2>1, <2>3 DEF ExecInv, Mask!Usable
  <1> QED BY <1>0, <1>1, <1>10, <1>11, <1>12, <1>13, <1>14, <1>15 DEF MaskInv

\* The call returns and its mask becomes the belief; before an exec the task stays taken.
LEMMA ReturnInv ==
    ASSUME NEW cfg, MaskInv(cfg), NEW x \in Coroutines, Mask(cfg)!Return(x)
    PROVE  MaskInv(cfg)'
  <1> PICK c : c = co[x]
    OBVIOUS
  <1> PICK t : t = co[x].t
    OBVIOUS
  <1> DEFINE d == IF c.next = "exec" THEN [at |-> "exec", t |-> c.t, keep |-> c.set]
                  ELSE Mask(cfg)!Idle
  <1>0. MaskTypes(cfg) /\ Alone /\ TaskInv(cfg) /\ CloneInv /\ ~outOfSync
    BY DEF MaskInv
  <1>a. \A y \in Coroutines : CallInv(cfg, y) /\ ExecInv(cfg, y)
    BY DEF MaskInv
  <1>1. /\ co[x].at = "call" /\ co[x].done
        /\ sigprocmask_running' = sigprocmask_running \ {t}
        /\ oldSigmask' = IF c.old THEN [oldSigmask EXCEPT ![t] = sigmask[t]] ELSE oldSigmask
        /\ sigmask' = IF c.next = "ask" THEN sigmask ELSE [sigmask EXCEPT ![t] = c.new]
        /\ blocks' = IF c.next = "block" THEN blocks \cup {<<t, c.set>>} ELSE blocks
        /\ co' = [co EXCEPT ![x] = d]
        /\ UNCHANGED <<kernel, oldset, clone, life, execMask, outOfSync>>
    BY DEF Mask!Return, Mask!Finished, Mask!OldMask, Mask!NewMask
  <1>2. c \in Call(cfg) /\ c.set \in Masks(cfg) /\ c.new \in Masks(cfg)
    <2>1. c \in Call(cfg)
      BY <1>0, <1>1, CoTyped
    <2> QED BY <2>1 DEF Call
  <1>3. t \in Mask(cfg)!Tasks /\ t \in sigprocmask_running /\ Mask(cfg)!Usable(t)
    BY <1>0, <1>1, <1>2, <1>a DEF CallInv, TaskInv, Call
  <1>4. /\ kernel[t] = c.new
        /\ c.next = "ask" => c.new = sigmask[t]
        /\ c.next = "exec" => t = "c" /\ c.new = execMask
        /\ IF c.old THEN oldset[t] = {sigmask[t]} ELSE Synced(t)
    BY <1>1, <1>a DEF CallInv
  <1>5. /\ sigmask'[t] = kernel[t]
        /\ \A u \in Mask(cfg)!Tasks : u # t => sigmask'[u] = sigmask[u] /\ oldSigmask'[u] = oldSigmask[u]
        /\ oldSigmask'[t] = IF c.old THEN sigmask[t] ELSE oldSigmask[t]
    BY <1>0, <1>1, <1>3, <1>4 DEF MaskTypes
  <1>6. \A mask \in oldset'[t] : oldSigmask'[t] \subseteq mask
    BY <1>1, <1>4, <1>5 DEF Synced
  <1>d. /\ d \in {Mask(cfg)!Idle} \cup Exec(cfg)
        /\ d.at \in {"idle", "exec"}
        /\ d.at = "exec" => c.next = "exec" /\ d.t = t
    <2>1. CASE c.next = "exec"
      BY <1>2, <1>3, <2>1 DEF Exec
    <2>2. CASE c.next # "exec"
      BY <2>2 DEF Mask!Idle
    <2> QED BY <2>1, <2>2
  <1> HIDE DEF d
  <1>7. co'[x] = d /\ \A y \in Coroutines : y # x => co'[y] = co[y]
    BY <1>0, <1>1 DEF MaskTypes
  <1>9. \A y \in Coroutines : y # x /\ co[y].at # "idle" => co[y].t # t
    BY <1>0, <1>1 DEF Alone
  <1>k. sigmask' \in [Mask(cfg)!Tasks -> Masks(cfg)] /\ oldSigmask' \in [Mask(cfg)!Tasks -> Masks(cfg)]
    <2>1. sigmask[t] \in Masks(cfg)
      BY <1>0, <1>3 DEF MaskTypes
    <2> QED BY <1>0, <1>1, <1>2, <2>1 DEF MaskTypes
  <1>o. co' \in [Coroutines -> {Mask(cfg)!Idle} \cup Call(cfg) \cup Exec(cfg)]
    BY <1>0, <1>1, <1>d DEF MaskTypes
  <1>b. blocks' \subseteq Mask(cfg)!Tasks \X Masks(cfg) /\ sigprocmask_running' \subseteq Mask(cfg)!Tasks
    BY <1>0, <1>1, <1>2, <1>3 DEF MaskTypes
  <1>10. MaskTypes(cfg)'
    BY <1>0, <1>1, <1>k, <1>o, <1>b DEF MaskTypes
  <1>11. Alone'
    <2>2. \A y, z \in Coroutines :
              y # z /\ co[y].at # "idle" /\ co[z].at # "idle" => co[y].t # co[z].t
      BY <1>0 DEF Alone
    <2>3. \A y, z \in Coroutines :
              y # z /\ co'[y].at # "idle" /\ co'[z].at # "idle" => co'[y].t # co'[z].t
      BY <1>7, <1>9, <1>d, <2>2
    <2> QED BY <2>3 DEF Alone
  <1>12. TaskInv(cfg)'
    <2> SUFFICES ASSUME NEW u \in Mask(cfg)!Tasks
                 PROVE  /\ u \in sigprocmask_running' => Mask(cfg)!Usable(u)'
                        /\ u \notin sigprocmask_running' => /\ \A mask \in oldset'[u] : oldSigmask'[u] \subseteq mask
                                                            /\ Mask(cfg)!Usable(u)' => sigmask'[u] = kernel'[u]
      BY DEF TaskInv, Synced
    <2>1. CASE u = t
      BY <1>1, <1>5, <1>6, <2>1
    <2>2. CASE u # t
      BY <1>0, <1>1, <1>5, <2>2 DEF TaskInv, Synced, Mask!Usable
    <2> QED BY <2>1, <2>2
  <1>13. CloneInv'
    <2>1. clone = "cloned" => t # "p"
      BY <1>0, <1>3 DEF CloneInv
    <2> QED BY <1>0, <1>1, <1>5, <2>1 DEF CloneInv, Mask!Tasks
  <1>14. \A y \in Coroutines : CallInv(cfg, y)'
    <2> SUFFICES ASSUME NEW y \in Coroutines, co'[y].at = "call" PROVE CallInv(cfg, y)'
      BY DEF CallInv
    <2>1. y # x /\ co'[y] = co[y]
      BY <1>7, <1>d
    <2>2. co[y].t # t /\ co[y].t \in Mask(cfg)!Tasks /\ co[y].at = "call"
      BY <1>0, <1>9, <2>1, CoTyped
    <2>3. /\ sigmask'[co[y].t] = sigmask[co[y].t]
          /\ oldSigmask'[co[y].t] = oldSigmask[co[y].t]
          /\ co[y].t \in sigprocmask_running => co[y].t \in sigprocmask_running'
      BY <1>1, <1>5, <2>2
    <2> QED BY <1>1, <1>a, <2>1, <2>3 DEF CallInv, Synced
  <1>15. \A y \in Coroutines : ExecInv(cfg, y)'
    <2> SUFFICES ASSUME NEW y \in Coroutines, co'[y].at = "exec" PROVE ExecInv(cfg, y)'
      BY DEF ExecInv
    <2>1. CASE y = x
      <3>1. t = "c" /\ kernel[t] = execMask /\ co'[y].t = t
        BY <1>4, <1>7, <1>d, <2>1
      <3> QED BY <1>1, <1>3, <3>1 DEF ExecInv, Mask!Usable
    <2>2. CASE y # x
      <3>1. co'[y] = co[y]
        BY <1>7, <2>2
      <3> QED BY <1>1, <1>a, <3>1 DEF ExecInv, Mask!Usable
    <2> QED BY <2>1, <2>2
  <1> QED BY <1>0, <1>1, <1>10, <1>11, <1>12, <1>13, <1>14, <1>15 DEF MaskInv

\* A coroutine that is done with its task lets go of it.
LEMMA LetGoInv ==
    ASSUME NEW cfg, MaskInv(cfg), NEW x \in Coroutines, co' = [co EXCEPT ![x] = Mask(cfg)!Idle],
           blocks' \subseteq blocks,
           UNCHANGED <<kernel, sigmask, oldSigmask, oldset, sigprocmask_running, clone, life, execMask,
                       outOfSync>>
    PROVE  MaskInv(cfg)'
  <1>0. MaskTypes(cfg) /\ Alone /\ TaskInv(cfg) /\ CloneInv /\ ~outOfSync
    BY DEF MaskInv
  <1>a. \A y \in Coroutines : CallInv(cfg, y) /\ ExecInv(cfg, y)
    BY DEF MaskInv
  <1>1. co'[x].at = "idle" /\ \A y \in Coroutines : y # x => co'[y] = co[y]
    BY <1>0 DEF MaskTypes, Mask!Idle
  <1>2. MaskTypes(cfg)'
    <2>1. co' \in [Coroutines -> {Mask(cfg)!Idle} \cup Call(cfg) \cup Exec(cfg)]
      BY <1>0 DEF MaskTypes
    <2>2. blocks' \subseteq Mask(cfg)!Tasks \X Masks(cfg)
      BY <1>0 DEF MaskTypes
    <2> QED BY <1>0, <2>1, <2>2 DEF MaskTypes
  <1>3. Alone'
    <2>2. \A y, z \in Coroutines :
              y # z /\ co[y].at # "idle" /\ co[z].at # "idle" => co[y].t # co[z].t
      BY <1>0 DEF Alone
    <2>3. \A y, z \in Coroutines :
              y # z /\ co'[y].at # "idle" /\ co'[z].at # "idle" => co'[y].t # co'[z].t
      BY <1>1, <2>2
    <2> QED BY <2>3 DEF Alone
  <1>4. TaskInv(cfg)' /\ CloneInv'
    BY <1>0 DEF TaskInv, CloneInv, Synced, Mask!Usable
  <1>5. \A y \in Coroutines : CallInv(cfg, y)'
    BY <1>1, <1>a DEF CallInv, Synced
  <1>6. \A y \in Coroutines : ExecInv(cfg, y)'
    BY <1>1, <1>a DEF ExecInv, Mask!Usable
  <1> QED BY <1>0, <1>2, <1>3, <1>4, <1>5, <1>6 DEF MaskInv

\* The exec succeeds: nobody uses the task any more.
LEMMA ExecDoneInv ==
    ASSUME NEW cfg, MaskInv(cfg), NEW x \in Coroutines, Mask(cfg)!ExecDone(x)
    PROVE  MaskInv(cfg)'
  <1>0. MaskTypes(cfg) /\ Alone /\ TaskInv(cfg) /\ CloneInv /\ ~outOfSync
    BY DEF MaskInv
  <1>a. \A y \in Coroutines : CallInv(cfg, y) /\ ExecInv(cfg, y)
    BY DEF MaskInv
  <1>1. /\ co[x].at = "exec" /\ life' = "execd" /\ co' = [co EXCEPT ![x] = Mask(cfg)!Idle]
        /\ blocks' \subseteq blocks
        /\ UNCHANGED <<kernel, sigmask, oldSigmask, oldset, sigprocmask_running, clone, execMask, outOfSync>>
    BY DEF Mask!ExecDone
  <1>2. /\ co[x].t = "c" /\ "c" \notin sigprocmask_running /\ clone = "made" /\ kernel["c"] = execMask
    BY <1>1, <1>a DEF ExecInv, Mask!Usable
  <1>3. co'[x].at = "idle" /\ \A y \in Coroutines : y # x => co'[y] = co[y]
    BY <1>0, <1>1 DEF MaskTypes, Mask!Idle
  <1>4. \A y \in Coroutines : co'[y].at # "idle" => co'[y] = co[y] /\ co[y].t # "c"
    BY <1>0, <1>1, <1>2, <1>3 DEF Alone
  <1>5. MaskTypes(cfg)'
    <2>1. co' \in [Coroutines -> {Mask(cfg)!Idle} \cup Call(cfg) \cup Exec(cfg)]
      BY <1>0, <1>1 DEF MaskTypes
    <2>2. blocks' \subseteq Mask(cfg)!Tasks \X Masks(cfg)
      BY <1>0, <1>1 DEF MaskTypes
    <2> QED BY <1>0, <1>1, <2>1, <2>2 DEF MaskTypes
  <1>6. Alone'
    <2>2. \A y, z \in Coroutines :
              y # z /\ co[y].at # "idle" /\ co[z].at # "idle" => co[y].t # co[z].t
      BY <1>0 DEF Alone
    <2>3. \A y, z \in Coroutines :
              y # z /\ co'[y].at # "idle" /\ co'[z].at # "idle" => co'[y].t # co'[z].t
      BY <1>3, <2>2
    <2> QED BY <2>3 DEF Alone
  <1>7. TaskInv(cfg)'
    BY <1>0, <1>1, <1>2 DEF TaskInv, Synced, Mask!Usable, Mask!Tasks
  <1>8. CloneInv'
    BY <1>0, <1>1, <1>2 DEF CloneInv
  <1>9. \A y \in Coroutines : CallInv(cfg, y)'
    BY <1>1, <1>4, <1>a DEF CallInv, Synced
  <1>10. \A y \in Coroutines : ExecInv(cfg, y)'
    BY <1>1, <1>3, <1>4, <1>a DEF ExecInv
  <1> QED BY <1>0, <1>1, <1>5, <1>6, <1>7, <1>8, <1>9, <1>10 DEF MaskInv

\* read_oldset_and_check finds what we believed.
LEMMA ReadOldsetInv ==
    ASSUME NEW cfg, MaskInv(cfg), NEW t \in Mask(cfg)!Tasks, Mask(cfg)!ReadOldset(t)
    PROVE  MaskInv(cfg)'
  <1>0. MaskTypes(cfg) /\ Alone /\ TaskInv(cfg) /\ CloneInv /\ ~outOfSync
    BY DEF MaskInv
  <1>a. \A y \in Coroutines : CallInv(cfg, y) /\ ExecInv(cfg, y)
    BY DEF MaskInv
  <1>1. /\ t \notin sigprocmask_running
        /\ oldset' = [oldset EXCEPT ![t] = {}]
        /\ UNCHANGED <<kernel, sigmask, oldSigmask, sigprocmask_running, blocks, co, clone, life, execMask>>
    BY DEF Mask!ReadOldset
  <1>2. ~outOfSync'
    BY <1>0, <1>1 DEF Mask!ReadOldset, TaskInv, Synced
  <1>3. oldset'[t] = {} /\ \A u \in Mask(cfg)!Tasks : u # t => oldset'[u] = oldset[u]
    BY <1>0, <1>1 DEF MaskTypes
  <1>4. MaskTypes(cfg)' /\ Alone' /\ CloneInv'
    BY <1>0, <1>1 DEF MaskTypes, Alone, CloneInv
  <1>5. TaskInv(cfg)'
    BY <1>0, <1>1, <1>3 DEF TaskInv, Synced, Mask!Usable
  <1>6. \A y \in Coroutines : CallInv(cfg, y)'
    <2> SUFFICES ASSUME NEW y \in Coroutines, co[y].at = "call" PROVE CallInv(cfg, y)'
      BY <1>1 DEF CallInv
    <2>1. co[y].t \in sigprocmask_running /\ co[y].t \in Mask(cfg)!Tasks
      BY <1>0, <1>a, CoTyped DEF CallInv
    <2>2. oldset'[co[y].t] = oldset[co[y].t]
      BY <1>1, <1>3, <2>1
    <2> QED BY <1>1, <1>a, <2>2 DEF CallInv, Synced
  <1>7. \A y \in Coroutines : ExecInv(cfg, y)'
    BY <1>1, <1>a DEF ExecInv, Mask!Usable
  <1> QED BY <1>2, <1>4, <1>5, <1>6, <1>7 DEF MaskInv

\* The kernel copies the mask, and then the Task is made with what p believes.
LEMMA CloneStepsInv ==
    ASSUME NEW cfg, ~cfg.overlaps, MaskInv(cfg), Mask(cfg)!Clone \/ Mask(cfg)!MakeTask
    PROVE  MaskInv(cfg)'
  <1>0. MaskTypes(cfg) /\ Alone /\ TaskInv(cfg) /\ CloneInv /\ ~outOfSync
    BY DEF MaskInv
  <1>a. \A y \in Coroutines : CallInv(cfg, y) /\ ExecInv(cfg, y)
    BY DEF MaskInv
  <1>n. clone # "made" => \A y \in Coroutines : co[y].at # "idle" =>
                              co[y].at = "call" /\ co[y].t # "c" /\ co[y].t \in Mask(cfg)!Tasks
    BY <1>0, <1>a, CoTyped DEF CallInv, ExecInv, TaskInv, Mask!Usable
  <1>1. CASE Mask(cfg)!Clone
    <2>1. /\ clone = "none" /\ "p" \notin sigprocmask_running
          /\ clone' = "cloned" /\ kernel' = [kernel EXCEPT !["c"] = kernel["p"]]
          /\ UNCHANGED <<sigmask, oldSigmask, oldset, sigprocmask_running, blocks, co, life, execMask, outOfSync>>
      BY <1>1 DEF Mask!Clone
    <2>2. kernel'["c"] = kernel["p"] /\ kernel'["p"] = kernel["p"] /\ kernel["p"] \in Masks(cfg)
      BY <1>0, <2>1 DEF MaskTypes, Mask!Tasks
    <2>3. sigmask["p"] = kernel["p"] /\ life # "execd"
      BY <1>0, <2>1 DEF TaskInv, CloneInv, Mask!Usable, Mask!Tasks
    <2>4. MaskTypes(cfg)'
      BY <1>0, <2>1, <2>2 DEF MaskTypes
    <2>5. Alone'
      BY <1>0, <2>1 DEF Alone
    <2>6. TaskInv(cfg)'
      BY <1>0, <2>1, <2>2, <2>3 DEF TaskInv, Synced, Mask!Usable, Mask!Tasks
    <2>7. CloneInv'
      BY <2>1, <2>2, <2>3 DEF CloneInv
    <2>8. \A y \in Coroutines : CallInv(cfg, y)'
      <3> SUFFICES ASSUME NEW y \in Coroutines, co[y].at = "call" PROVE CallInv(cfg, y)'
        BY <2>1 DEF CallInv
      <3>1. co[y].t # "c" /\ co[y].t \in Mask(cfg)!Tasks
        BY <1>n, <2>1
      <3>2. kernel'[co[y].t] = kernel[co[y].t]
        BY <1>0, <2>1, <3>1 DEF MaskTypes
      <3> QED BY <1>a, <2>1, <3>2 DEF CallInv, Synced
    <2>9. \A y \in Coroutines : ExecInv(cfg, y)'
      BY <1>n, <2>1 DEF ExecInv
    <2> QED BY <1>0, <2>1, <2>4, <2>5, <2>6, <2>7, <2>8, <2>9 DEF MaskInv
  <1>2. CASE Mask(cfg)!MakeTask
    <2>1. /\ clone = "cloned" /\ clone' = "made"
          /\ sigmask' = [sigmask EXCEPT !["c"] = sigmask["p"]]
          /\ blocks' = blocks \cup {<<"c", {CHLD}>>}
          /\ UNCHANGED <<kernel, oldSigmask, oldset, sigprocmask_running, co, life, execMask, outOfSync>>
      BY <1>2 DEF Mask!MakeTask
    <2>2. sigmask'["c"] = sigmask["p"] /\ sigmask'["p"] = sigmask["p"] /\ sigmask["p"] \in Masks(cfg)
      BY <1>0, <2>1 DEF MaskTypes, Mask!Tasks
    <2>3. kernel["c"] = sigmask["p"] /\ life # "execd"
      BY <1>0, <2>1 DEF CloneInv
    <2>4. MaskTypes(cfg)'
      <3>1. blocks' \subseteq Mask(cfg)!Tasks \X Masks(cfg)
        BY <1>0, <2>1 DEF MaskTypes, Masks, Mask!Tasks, Mask!All
      <3> QED BY <1>0, <2>1, <2>2, <3>1 DEF MaskTypes
    <2>5. Alone'
      BY <1>0, <2>1 DEF Alone
    <2>6. TaskInv(cfg)'
      BY <1>0, <2>1, <2>2, <2>3 DEF TaskInv, Synced, Mask!Usable, Mask!Tasks
    <2>7. CloneInv'
      BY <2>1, <2>3 DEF CloneInv
    <2>8. \A y \in Coroutines : CallInv(cfg, y)'
      <3> SUFFICES ASSUME NEW y \in Coroutines, co[y].at = "call" PROVE CallInv(cfg, y)'
        BY <2>1 DEF CallInv
      <3>1. co[y].t # "c" /\ co[y].t \in Mask(cfg)!Tasks
        BY <1>n, <2>1
      <3>2. sigmask'[co[y].t] = sigmask[co[y].t]
        BY <1>0, <2>1, <3>1 DEF MaskTypes
      <3> QED BY <1>a, <2>1, <3>2 DEF CallInv, Synced
    <2>9. \A y \in Coroutines : ExecInv(cfg, y)'
      BY <1>n, <2>1 DEF ExecInv
    <2> QED BY <1>0, <2>1, <2>4, <2>5, <2>6, <2>7, <2>8, <2>9 DEF MaskInv
  <1> QED BY <1>1, <1>2

\* Every step keeps the invariant of the masks.
LEMMA MaskNext ==
    ASSUME NEW cfg, ~cfg.overlaps, MaskInv(cfg), [Mask(cfg)!Next]_(Mask(cfg)!vars)
    PROVE  MaskInv(cfg)'
  <1>1. CASE UNCHANGED Mask(cfg)!vars
    <2>1. UNCHANGED <<kernel, sigmask, oldSigmask, oldset, sigprocmask_running, blocks, co, clone, life,
                      execMask, outOfSync>>
      BY <1>1 DEF Mask!vars
    <2>2. MaskTypes(cfg)' /\ Alone' /\ TaskInv(cfg)' /\ CloneInv' /\ ~outOfSync'
      BY <2>1 DEF MaskInv, MaskTypes, Alone, TaskInv, CloneInv, Synced, Mask!Usable
    <2>3. \A y \in Coroutines : CallInv(cfg, y)' /\ ExecInv(cfg, y)'
      BY <2>1 DEF MaskInv, CallInv, ExecInv, Synced, Mask!Usable
    <2> QED BY <2>2, <2>3 DEF MaskInv
  <1>2. ASSUME NEW x \in Coroutines, Mask(cfg)!Hangup(x) \/ Mask(cfg)!ExecError(x)
        PROVE  MaskInv(cfg)'
    <2>1. /\ co' = [co EXCEPT ![x] = Mask(cfg)!Idle] /\ blocks' \subseteq blocks
          /\ UNCHANGED <<kernel, sigmask, oldSigmask, oldset, sigprocmask_running, clone, life, execMask,
                         outOfSync>>
      BY <1>2 DEF Mask!Hangup, Mask!ExecError
    <2> QED BY <2>1, LetGoInv
  <1> QED BY <1>1, <1>2, CallsInv, PerformInv, ReturnInv, ExecDoneInv, ReadOldsetInv,
             CloneStepsInv DEF Mask!Next

(***************************************************************************)
(* SignalTask.sigprocmask tracks the truth: whenever no call is in         *)
(* progress in a task, its sigmask is the kernel's, whatever coroutines    *)
(* call, hang up, clone and exec.  Only a call by the parent while it      *)
(* clones is excluded: clone_child_task would copy a newer mask.           *)
(***************************************************************************)
THEOREM MaskTracked ==
    ASSUME NEW cfg, Mask(cfg)!SignalAssumption, ~cfg.overlaps
    PROVE  Mask(cfg)!Spec => []Mask(cfg)!TrackedIsTrue
  <1>1. Mask(cfg)!Init => MaskInv(cfg)
    BY MaskInit
  <1>2. MaskInv(cfg) /\ [Mask(cfg)!Next]_(Mask(cfg)!vars) => MaskInv(cfg)'
    BY MaskNext
  <1>3. MaskInv(cfg) => Mask(cfg)!TrackedIsTrue
    BY DEF MaskInv, TaskInv, Mask!TrackedIsTrue
  <1> QED BY <1>1, <1>2, <1>3, PTL DEF Mask!Spec

\* read_oldset_and_check never finds the mask out of sync, and a program is
\* executed with exactly the signals blocked that it is to inherit.
THEOREM MaskReadBack ==
    ASSUME NEW cfg, Mask(cfg)!SignalAssumption, ~cfg.overlaps
    PROVE  Mask(cfg)!Spec => [](Mask(cfg)!InSync /\ Mask(cfg)!ExecMask)
  <1>1. Mask(cfg)!Init => MaskInv(cfg)
    BY MaskInit
  <1>2. MaskInv(cfg) /\ [Mask(cfg)!Next]_(Mask(cfg)!vars) => MaskInv(cfg)'
    BY MaskNext
  <1>3. MaskInv(cfg) => Mask(cfg)!InSync /\ Mask(cfg)!ExecMask
    BY DEF MaskInv, CloneInv, Mask!InSync, Mask!ExecMask
  <1> QED BY <1>1, <1>2, <1>3, PTL DEF Mask!Spec

-----------------------------------------------------------------------------
(***************************************************************************)
(* SignalBlocks.  A block is a witness only while the mask is not replaced *)
(* behind its back, so the calls of an exec must not be cut off: hangups   *)
(* and execs that fail are excluded, calls while p clones are not.         *)
(***************************************************************************)
Steady(cfg) == cfg.hangups = 0 /\ ~cfg.execFails

\* A coroutine is about to exec in the task.
Going(x, t) == /\ co[x].at \in {"call", "exec"} /\ co[x].t = t
               /\ co[x].at = "call" => co[x].next = "exec"

\* sigprocmask_running is set exactly while there is a call.
RunningInv(cfg) ==
    /\ \A x \in Coroutines : co[x].at = "call" => co[x].t \in sigprocmask_running /\ Mask(cfg)!Usable(co[x].t)
    /\ \A t \in sigprocmask_running : \E x \in Coroutines : co[x].at = "call" /\ co[x].t = t
    /\ \A x \in Coroutines : co[x].at = "exec" => co[x].t = "c" /\ Mask(cfg)!Usable("c")

\* What a call in progress will do to the masks and the blocks.
PendingInv(cfg, x) ==
    co[x].at = "call" =>
        /\ co[x].new = Mask(cfg)!Apply(sigmask[co[x].t], co[x].how, co[x].set)
        /\ co[x].next = "block" => /\ co[x].how = "BLOCK"
                                   /\ co[x].set \cap sigmask[co[x].t] = {}
                                   /\ co[x].done => co[x].set \subseteq kernel[co[x].t]
        /\ co[x].next = "unblock" => /\ co[x].how = "UNBLOCK"
                                     /\ \A b \in blocks : b[1] = co[x].t => b[2] \cap co[x].set = {}
        /\ co[x].next = "ask" => co[x].how = "BLOCK"
        /\ co[x].next = "exec" => co[x].t = "c"

\* A block's signals are blocked, and believed to be, but where an exec is near.
WitnessInv ==
    \A b \in blocks : \/ b[2] \subseteq kernel[b[1]] \cap sigmask[b[1]]
                      \/ \E x \in Coroutines : Going(x, b[1])

\* SIGCHLD of p is never unblocked, and c has blocks once it is made.
InheritInv(cfg) ==
    /\ <<"p", {CHLD}>> \in blocks
    /\ clone # "none" => CHLD \in kernel["c"] \/ clone = "made"
    /\ life = "execd" => clone = "made"
    /\ \A b \in blocks : b[1] = "c" => Mask(cfg)!Usable("c")

BlockInv(cfg) ==
    /\ MaskTypes(cfg) /\ Alone /\ RunningInv(cfg) /\ WitnessInv /\ InheritInv(cfg)
    /\ \A x \in Coroutines : PendingInv(cfg, x)
    /\ Mask(cfg)!BlocksDisjoint
    /\ hangups = 0 /\ ~refused

\* The coroutines are idle, and p has its block of SIGCHLD.
LEMMA BlockInit ==
    ASSUME NEW cfg, Mask(cfg)!SignalAssumption, Mask(cfg)!Init
    PROVE  BlockInv(cfg)
  <1> USE DEF Mask!Init
  <1>1. /\ kernel["p"] = {CHLD} /\ sigmask = kernel
        /\ \A x \in Coroutines : co[x].at = "idle"
    BY DEF Mask!Tasks, Mask!Idle
  <1>2. MaskTypes(cfg)
    BY DEF MaskTypes, Masks, Mask!All, Mask!Tasks
  <1>3. Alone /\ RunningInv(cfg) /\ InheritInv(cfg) /\ \A x \in Coroutines : PendingInv(cfg, x)
    BY <1>1 DEF Alone, RunningInv, InheritInv, PendingInv
  <1>4. WitnessInv
    BY <1>1 DEF WitnessInv
  <1>5. Mask(cfg)!BlocksDisjoint
    BY DEF Mask!BlocksDisjoint
  <1> QED BY <1>2, <1>3, <1>4, <1>5 DEF BlockInv

\* A call is made: it is alone in its task and goes on from what is believed.
LEMMA StartBlocks ==
    ASSUME NEW cfg, BlockInv(cfg), NEW x \in Coroutines, co[x] = Mask(cfg)!Idle,
           NEW t \in Mask(cfg)!Tasks, NEW how \in {"BLOCK", "UNBLOCK", "SETMASK"},
           NEW set \in Masks(cfg), NEW old \in BOOLEAN,
           NEW next \in {"block", "unblock", "ask", "exec"},
           Mask(cfg)!MayCall(x, t), Mask(cfg)!Start(x, t, how, set, old, next),
           next = "block" => how = "BLOCK" /\ set \cap sigmask[t] = {},
           next = "unblock" => how = "UNBLOCK",
           next = "ask" => how = "BLOCK",
           next = "exec" => t = "c",
           execMask' \in Masks(cfg), blocks' \subseteq blocks, <<"p", {CHLD}>> \in blocks',
           t \notin sigprocmask_running /\ next = "unblock" =>
               \A b \in blocks' : b[1] = t => b[2] \cap set = {},
           UNCHANGED <<kernel, sigmask, oldSigmask, oldset, clone, life, hangups>>
    PROVE  BlockInv(cfg)'
  <1>0. /\ MaskTypes(cfg) /\ Alone /\ RunningInv(cfg) /\ WitnessInv /\ InheritInv(cfg)
        /\ Mask(cfg)!BlocksDisjoint /\ hangups = 0 /\ ~refused
    BY DEF BlockInv
  <1>a. \A y \in Coroutines : PendingInv(cfg, y)
    BY DEF BlockInv
  <1>b. /\ Mask(cfg)!Usable(t)
        /\ \A y \in Coroutines : co[y].at = "exec" => co[y].t # t
        /\ co[x].at = "idle"
    <2>1. co[x].at = "idle"
      BY DEF Mask!Idle
    <2> QED BY <2>1 DEF Mask!MayCall
  <1>c. Mask(cfg)!BlocksDisjoint' /\ InheritInv(cfg)'
    BY <1>0 DEF Mask!BlocksDisjoint, InheritInv, Mask!Usable
  <1>d. blocks' \subseteq Mask(cfg)!Tasks \X Masks(cfg)
    BY <1>0 DEF MaskTypes
  <1>1. CASE t \in sigprocmask_running
    <2>1. sigprocmask_running' = sigprocmask_running /\ co' = [co EXCEPT ![x] = Mask(cfg)!Idle]
      BY <1>1 DEF Mask!Start
    <2>2. co' = co
      BY <1>0, <2>1 DEF MaskTypes
    <2>3. ~refused'
      BY <1>0, <1>1 DEF RunningInv, Mask!Start
    <2>4. MaskTypes(cfg)'
      BY <1>0, <1>d, <2>1, <2>2 DEF MaskTypes
    <2>5. Alone' /\ RunningInv(cfg)'
      BY <1>0, <2>1, <2>2 DEF Alone, RunningInv, Mask!Usable
    <2>6. WitnessInv'
      BY <1>0, <2>2 DEF WitnessInv, Going
    <2>7. \A y \in Coroutines : PendingInv(cfg, y)'
      BY <1>a, <2>2 DEF PendingInv
    <2> QED BY <1>0, <1>c, <2>3, <2>4, <2>5, <2>6, <2>7 DEF BlockInv
  <1>2. CASE t \notin sigprocmask_running
    <2> DEFINE new == Mask(cfg)!Apply(sigmask[t], how, set)
               c == [at |-> "call", t |-> t, how |-> how, set |-> set, old |-> old,
                     new |-> new, next |-> next, done |-> FALSE]
    <2>1. sigprocmask_running' = sigprocmask_running \cup {t} /\ co' = [co EXCEPT ![x] = c] /\ refused' = refused
      BY <1>2 DEF Mask!Start
    <2>2. new \in Masks(cfg)
      <3>1. sigmask[t] \in Masks(cfg)
        BY <1>0 DEF MaskTypes
      <3> QED BY <3>1, ApplyMask
    <2> HIDE DEF new
    <2>3. c \in Call(cfg)
      BY <2>2 DEF Call
    <2>4. /\ c.at = "call" /\ c.t = t /\ c.how = how /\ c.set = set
          /\ c.new = new /\ c.next = next /\ c.done = FALSE
      OBVIOUS
    <2> HIDE DEF c
    <2>5. /\ co'[x] = c
          /\ \A y \in Coroutines : y # x => co'[y] = co[y]
      BY <1>0, <2>1 DEF MaskTypes
    <2>6. \A y \in Coroutines : co[y].at = "idle" \/ co[y].t # t
      <3>1. \A y \in Coroutines : co[y].at \in {"idle", "call", "exec"}
        BY <1>0, CoTyped
      <3> QED BY <1>0, <1>2, <1>b, <3>1 DEF RunningInv
    <2>8. MaskTypes(cfg)'
      <3>1. co' \in [Coroutines -> {Mask(cfg)!Idle} \cup Call(cfg) \cup Exec(cfg)]
            /\ sigprocmask_running' \subseteq Mask(cfg)!Tasks
        BY <1>0, <2>1, <2>3 DEF MaskTypes
      <3> QED BY <1>0, <1>d, <3>1 DEF MaskTypes
    <2>9. Alone'
      BY <1>0, <2>4, <2>5, <2>6 DEF Alone
    <2>10. RunningInv(cfg)'
      <3>1. \A y \in Coroutines : co'[y].at = "call" => co'[y].t \in sigprocmask_running' /\ Mask(cfg)!Usable(co'[y].t)
        BY <1>0, <1>b, <2>1, <2>4, <2>5 DEF RunningInv
      <3>2. \A u \in sigprocmask_running' : \E y \in Coroutines : co'[y].at = "call" /\ co'[y].t = u
        <4> SUFFICES ASSUME NEW u \in sigprocmask_running'
                     PROVE  \E y \in Coroutines : co'[y].at = "call" /\ co'[y].t = u
          OBVIOUS
        <4>1. CASE u = t
          BY <2>4, <2>5, <4>1
        <4>2. CASE u # t
          <5>1. PICK y \in Coroutines : co[y].at = "call" /\ co[y].t = u
            BY <1>0, <2>1, <4>2 DEF RunningInv
          <5> QED BY <1>b, <2>5, <5>1
        <4> QED BY <4>1, <4>2
      <3>3. \A y \in Coroutines : co'[y].at = "exec" => co'[y].t = "c" /\ Mask(cfg)!Usable("c")
        BY <1>0, <2>4, <2>5 DEF RunningInv
      <3> QED BY <3>1, <3>2, <3>3 DEF RunningInv, Mask!Usable
    <2>11. WitnessInv'
      <3> SUFFICES ASSUME NEW b \in blocks',
                          ~(b[2] \subseteq kernel[b[1]] \cap sigmask[b[1]])
                   PROVE  \E y \in Coroutines : Going(y, b[1])'
        BY DEF WitnessInv
      <3>1. PICK y \in Coroutines : Going(y, b[1])
        BY <1>0 DEF WitnessInv
      <3>2. y # x
        BY <1>b, <3>1 DEF Going
      <3>3. co'[y] = co[y]
        BY <2>5, <3>2
      <3> QED BY <3>1, <3>3 DEF Going
    <2>12. \A y \in Coroutines : PendingInv(cfg, y)'
      <3> SUFFICES ASSUME NEW y \in Coroutines PROVE PendingInv(cfg, y)'
        OBVIOUS
      <3>1. CASE y = x
        BY <1>2, <2>4, <2>5, <3>1 DEF PendingInv, new
      <3>2. CASE y # x
        <4>1. co'[y] = co[y]
          BY <2>5, <3>2
        <4> QED BY <1>a, <4>1 DEF PendingInv
      <3> QED BY <3>1, <3>2
    <2> QED BY <1>0, <1>c, <2>1, <2>8, <2>9, <2>10, <2>11, <2>12 DEF BlockInv
  <1> QED BY <1>1, <1>2

\* The sig_calls that are made to block, to unblock, to ask, and before an exec.
LEMMA CallsBlocks ==
    ASSUME NEW cfg, Mask(cfg)!SignalAssumption, BlockInv(cfg), NEW x \in Coroutines,
           \/ \E t \in Mask(cfg)!Tasks, set \in (SUBSET Signals) \ {{}}, old \in BOOLEAN :
                 Mask(cfg)!Block(x, t, set, old)
           \/ \E b \in blocks : Mask(cfg)!Unblock(x, b)
           \/ \E t \in Mask(cfg)!Tasks : Mask(cfg)!Ask(x, t)
           \/ \E keep \in SUBSET blocks : Mask(cfg)!ExecBegin(x, keep)
    PROVE  BlockInv(cfg)'
  <1>0. blocks \subseteq Mask(cfg)!Tasks \X Masks(cfg) /\ <<"p", {CHLD}>> \in blocks /\ execMask \in Masks(cfg)
    BY DEF BlockInv, MaskTypes, InheritInv
  <1>1. ASSUME NEW t \in Mask(cfg)!Tasks, NEW set \in SUBSET Signals, NEW old \in BOOLEAN,
               Mask(cfg)!Block(x, t, set, old)
        PROVE  BlockInv(cfg)'
    <2>1. set \in Masks(cfg)
      BY DEF Masks, Mask!All
    <2>2. /\ co[x] = Mask(cfg)!Idle /\ Mask(cfg)!MayCall(x, t)
          /\ Mask(cfg)!Start(x, t, "BLOCK", set, old, "block") /\ set \cap sigmask[t] = {}
          /\ UNCHANGED <<kernel, sigmask, oldSigmask, oldset, blocks, clone, life, execMask,
                         hangups>>
      BY <1>1 DEF Mask!Block, Mask!AlreadyBlocked
    <2> QED BY <1>0, <2>1, <2>2, StartBlocks
  <1>2. ASSUME NEW b \in blocks, Mask(cfg)!Unblock(x, b)
        PROVE  BlockInv(cfg)'
    <2>1. b[1] \in Mask(cfg)!Tasks /\ b[2] \in Masks(cfg)
      BY <1>0
    <2>2. /\ co[x] = Mask(cfg)!Idle /\ Mask(cfg)!MayCall(x, b[1])
          /\ Mask(cfg)!Start(x, b[1], "UNBLOCK", b[2], FALSE, "unblock") /\ CHLD \notin b[2]
          /\ blocks' = IF b[1] \in sigprocmask_running THEN blocks ELSE blocks \ {b}
          /\ UNCHANGED <<kernel, sigmask, oldSigmask, oldset, clone, life, execMask, hangups>>
      BY <1>2 DEF Mask!Unblock
    <2>3. blocks' \subseteq blocks /\ <<"p", {CHLD}>> \in blocks'
      BY <1>0, <2>2
    <2>4. b[1] \notin sigprocmask_running => \A a \in blocks' : a[1] = b[1] => a[2] \cap b[2] = {}
      BY <2>2 DEF BlockInv, Mask!BlocksDisjoint
    <2> QED BY <1>0, <2>1, <2>2, <2>3, <2>4, StartBlocks
  <1>3. ASSUME NEW t \in Mask(cfg)!Tasks, Mask(cfg)!Ask(x, t)
        PROVE  BlockInv(cfg)'
    <2>1. {} \in Masks(cfg)
      BY DEF Masks
    <2>2. /\ co[x] = Mask(cfg)!Idle /\ Mask(cfg)!MayCall(x, t)
          /\ Mask(cfg)!Start(x, t, "BLOCK", {}, FALSE, "ask")
          /\ UNCHANGED <<kernel, sigmask, oldSigmask, oldset, blocks, clone, life, execMask,
                         hangups>>
      BY <1>3 DEF Mask!Ask
    <2> QED BY <1>0, <2>1, <2>2, StartBlocks
  <1>4. ASSUME NEW keep \in SUBSET blocks, Mask(cfg)!ExecBegin(x, keep)
        PROVE  BlockInv(cfg)'
    <2>1. Mask(cfg)!Inherited(keep) \in Masks(cfg) /\ "c" \in Mask(cfg)!Tasks
      BY <1>0 DEF Masks, Mask!Inherited, Mask!Tasks
    <2>2. /\ co[x] = Mask(cfg)!Idle /\ Mask(cfg)!MayCall(x, "c")
          /\ Mask(cfg)!Start(x, "c", "SETMASK", Mask(cfg)!Inherited(keep), FALSE, "exec")
          /\ execMask' = Mask(cfg)!Inherited(keep)
          /\ UNCHANGED <<kernel, sigmask, oldSigmask, oldset, blocks, clone, life, hangups>>
      BY <1>4 DEF Mask!ExecBegin, Mask!Inherited
    <2> QED BY <1>0, <2>1, <2>2, StartBlocks
  <1> QED BY <1>1, <1>2, <1>3, <1>4

\* While a call is in progress nobody else is about to exec in its task.
LEMMA OnlyGoing ==
    ASSUME NEW cfg, BlockInv(cfg), NEW x \in Coroutines, co[x].at = "call"
    PROVE  \A b \in blocks : b[1] = co[x].t /\ co[x].next # "exec" =>
              b[2] \subseteq kernel[b[1]] \cap sigmask[b[1]]
  <1> SUFFICES ASSUME NEW b \in blocks, b[1] = co[x].t, co[x].next # "exec",
                      NEW y \in Coroutines, Going(y, b[1])
               PROVE  FALSE
    BY DEF BlockInv, WitnessInv
  <1>1. y # x
    BY DEF Going
  <1>2. co[y].at # "idle" /\ co[y].t = co[x].t
    BY DEF Going
  <1> QED BY <1>1, <1>2 DEF BlockInv, Alone

\* rt_sigprocmask in the kernel: the signals of blocks stay blocked.
LEMMA PerformBlocks ==
    ASSUME NEW cfg, BlockInv(cfg), NEW x \in Coroutines, Mask(cfg)!Perform(x)
    PROVE  BlockInv(cfg)'
  <1> PICK c : c = co[x]
    OBVIOUS
  <1> PICK t : t = co[x].t
    OBVIOUS
  <1>0. /\ MaskTypes(cfg) /\ Alone /\ RunningInv(cfg) /\ WitnessInv /\ InheritInv(cfg)
        /\ Mask(cfg)!BlocksDisjoint /\ hangups = 0 /\ ~refused
    BY DEF BlockInv
  <1>a. \A y \in Coroutines : PendingInv(cfg, y)
    BY DEF BlockInv
  <1>1. /\ co[x].at = "call" /\ ~co[x].done
        /\ kernel' = [kernel EXCEPT ![t] = Mask(cfg)!Apply(kernel[t], c.how, c.set)]
        /\ co' = [co EXCEPT ![x].done = TRUE]
        /\ oldset' = IF c.old THEN [oldset EXCEPT ![t] = {kernel[t]}] ELSE oldset
        /\ UNCHANGED <<sigmask, oldSigmask, sigprocmask_running, blocks, clone, life, execMask, refused,
                       hangups>>
    BY DEF Mask!Perform
  <1>2. c \in Call(cfg)
    BY <1>0, <1>1, CoTyped
  <1>3. t \in Mask(cfg)!Tasks /\ t \in sigprocmask_running /\ Mask(cfg)!Usable(t)
    BY <1>0, <1>1, <1>2 DEF RunningInv, Call
  <1>4. kernel[t] \in Masks(cfg) /\ c.how \in {"BLOCK", "UNBLOCK", "SETMASK"} /\ c.set \in Masks(cfg)
    BY <1>0, <1>2, <1>3 DEF MaskTypes, Call
  <1>5. /\ Mask(cfg)!Apply(kernel[t], c.how, c.set) \in Masks(cfg)
        /\ c.how = "BLOCK" => Mask(cfg)!Apply(kernel[t], c.how, c.set) = kernel[t] \cup c.set
        /\ c.how = "UNBLOCK" => Mask(cfg)!Apply(kernel[t], c.how, c.set) = kernel[t] \ c.set
    BY <1>4, ApplyMask
  <1>6. /\ kernel'[t] = Mask(cfg)!Apply(kernel[t], c.how, c.set)
        /\ \A u \in Mask(cfg)!Tasks : u # t => kernel'[u] = kernel[u]
    BY <1>0, <1>1, <1>3 DEF MaskTypes
  <1>7. co'[x] = [c EXCEPT !.done = TRUE] /\ \A y \in Coroutines : y # x => co'[y] = co[y]
    BY <1>0, <1>1 DEF MaskTypes
  <1>8. /\ co'[x].at = "call" /\ co'[x].t = t /\ co'[x].how = c.how /\ co'[x].set = c.set
        /\ co'[x].new = c.new /\ co'[x].next = c.next /\ co'[x] \in Call(cfg)
    <2> PICK d : d = co'[x]
      OBVIOUS
    <2>1. d = [c EXCEPT !.done = TRUE]
      BY <1>7
    <2>2. /\ d \in Call(cfg) /\ d.at = c.at /\ d.t = c.t /\ d.how = c.how /\ d.set = c.set
          /\ d.new = c.new /\ d.next = c.next
      BY <1>2, <2>1 DEF Call
    <2>3. c.at = "call" /\ c.t = t
      BY <1>1
    <2> QED BY <2>2, <2>3
  <1>9. \A y \in Coroutines : y # x /\ co[y].at # "idle" => co[y].t # t
    BY <1>0, <1>1 DEF Alone
  <1>m. \A b \in blocks : b[1] \in Mask(cfg)!Tasks
    BY <1>0 DEF MaskTypes
  <1>10. MaskTypes(cfg)'
    <2>1. kernel' \in [Mask(cfg)!Tasks -> Masks(cfg)] /\ oldset' \in [Mask(cfg)!Tasks -> SUBSET Masks(cfg)]
      BY <1>0, <1>1, <1>4, <1>5 DEF MaskTypes
    <2>2. co' \in [Coroutines -> {Mask(cfg)!Idle} \cup Call(cfg) \cup Exec(cfg)]
      BY <1>0, <1>1, <1>7, <1>8 DEF MaskTypes
    <2> QED BY <1>0, <1>1, <2>1, <2>2 DEF MaskTypes
  <1>11. Alone'
    <2>1. /\ co'[x].t = t
          /\ \A y \in Coroutines : y # x => co'[y] = co[y]
      BY <1>7, <1>8
    <2>2. \A y, z \in Coroutines :
              y # z /\ co[y].at # "idle" /\ co[z].at # "idle" => co[y].t # co[z].t
      BY <1>0 DEF Alone
    <2>3. \A y, z \in Coroutines :
              y # z /\ co'[y].at # "idle" /\ co'[z].at # "idle" => co'[y].t # co'[z].t
      BY <1>9, <2>1, <2>2
    <2> QED BY <2>3 DEF Alone
  <1>p. /\ \A y \in Coroutines : co'[y].at = co[y].at /\ co'[y].t = co[y].t
        /\ \A y \in Coroutines : co[y].at = "call" => co'[y].next = co[y].next
    BY <1>1, <1>7, <1>8
  <1>12. RunningInv(cfg)'
    BY <1>0, <1>1, <1>p DEF RunningInv, Mask!Usable
  <1>13. WitnessInv'
    <2> SUFFICES ASSUME NEW b \in blocks
                 PROVE  \/ b[2] \subseteq kernel'[b[1]] \cap sigmask[b[1]]
                        \/ \E y \in Coroutines : Going(y, b[1])'
      BY <1>1 DEF WitnessInv
    <2>1. CASE \E y \in Coroutines : Going(y, b[1])
      BY <1>p, <2>1 DEF Going
    <2>2. CASE b[1] = t /\ c.next # "exec"
      <3>1. b[2] \subseteq kernel[t] \cap sigmask[t]
        BY <1>1, <2>2, OnlyGoing
      <3>2. \/ c.how = "BLOCK"
            \/ c.how = "UNBLOCK" /\ b[2] \cap c.set = {}
        BY <1>1, <1>2, <1>a, <2>2 DEF PendingInv, Call
      <3>3. b[2] \subseteq kernel'[t]
        BY <1>5, <1>6, <3>1, <3>2
      <3> QED BY <2>2, <3>1, <3>3
    <2>3. CASE b[1] = t /\ c.next = "exec"
      <3>1. Going(x, b[1])
        BY <1>1, <2>3 DEF Going
      <3> QED BY <2>1, <3>1
    <2>4. CASE b[1] # t
      BY <1>0, <1>6, <1>m, <2>1, <2>4 DEF WitnessInv
    <2> QED BY <2>2, <2>3, <2>4
  <1>14. InheritInv(cfg)'
    <2>1. t = "c" => clone = "made"
      BY <1>3 DEF Mask!Usable
    <2>2. clone # "none" => CHLD \in kernel'["c"] \/ clone = "made"
      BY <1>0, <1>6, <2>1 DEF InheritInv, Mask!Tasks
    <2> QED BY <1>0, <1>1, <2>2 DEF InheritInv, Mask!Usable
  <1>15. \A y \in Coroutines : PendingInv(cfg, y)'
    <2> SUFFICES ASSUME NEW y \in Coroutines, co'[y].at = "call" PROVE PendingInv(cfg, y)'
      BY DEF PendingInv
    <2>1. CASE y = x
      <3>1. c.how = "BLOCK" => c.set \subseteq kernel'[t]
        BY <1>5, <1>6
      <3>2. /\ c.new = Mask(cfg)!Apply(sigmask[t], c.how, c.set)
            /\ c.next = "block" => c.how = "BLOCK" /\ c.set \cap sigmask[t] = {}
            /\ c.next = "unblock" => /\ c.how = "UNBLOCK"
                                     /\ \A b \in blocks : b[1] = t => b[2] \cap c.set = {}
            /\ c.next = "ask" => c.how = "BLOCK"
            /\ c.next = "exec" => t = "c"
        BY <1>1, <1>a DEF PendingInv
      <3> QED BY <1>1, <1>8, <2>1, <3>1, <3>2 DEF PendingInv
    <2>2. CASE y # x
      <3>1. co'[y] = co[y]
        BY <1>7, <2>2
      <3>2. co[y].t # t /\ co[y].t \in Mask(cfg)!Tasks
        BY <1>0, <1>9, <2>2, <3>1, CoTyped
      <3>3. kernel'[co[y].t] = kernel[co[y].t]
        BY <1>6, <3>2
      <3> QED BY <1>1, <1>a, <3>1, <3>3 DEF PendingInv
    <2> QED BY <2>1, <2>2
  <1>16. Mask(cfg)!BlocksDisjoint'
    BY <1>0, <1>1 DEF Mask!BlocksDisjoint
  <1> QED BY <1>0, <1>1, <1>10, <1>11, <1>12, <1>13, <1>14, <1>15, <1>16 DEF BlockInv

\* The call returns: a new block's signals are blocked and no other block's.
LEMMA ReturnBlocks ==
    ASSUME NEW cfg, BlockInv(cfg), NEW x \in Coroutines, Mask(cfg)!Return(x)
    PROVE  BlockInv(cfg)'
  <1> PICK c : c = co[x]
    OBVIOUS
  <1> PICK t : t = co[x].t
    OBVIOUS
  <1> DEFINE d == IF c.next = "exec" THEN [at |-> "exec", t |-> c.t, keep |-> c.set]
                  ELSE Mask(cfg)!Idle
  <1>0. /\ MaskTypes(cfg) /\ Alone /\ RunningInv(cfg) /\ WitnessInv /\ InheritInv(cfg)
        /\ Mask(cfg)!BlocksDisjoint /\ hangups = 0 /\ ~refused
    BY DEF BlockInv
  <1>a. \A y \in Coroutines : PendingInv(cfg, y)
    BY DEF BlockInv
  <1>1. /\ co[x].at = "call" /\ co[x].done
        /\ sigprocmask_running' = sigprocmask_running \ {t}
        /\ oldSigmask' = IF c.old THEN [oldSigmask EXCEPT ![t] = sigmask[t]] ELSE oldSigmask
        /\ sigmask' = IF c.next = "ask" THEN sigmask ELSE [sigmask EXCEPT ![t] = c.new]
        /\ blocks' = IF c.next = "block" THEN blocks \cup {<<t, c.set>>} ELSE blocks
        /\ co' = [co EXCEPT ![x] = d]
        /\ UNCHANGED <<kernel, oldset, clone, life, execMask, refused, hangups>>
    BY DEF Mask!Return, Mask!Finished, Mask!OldMask, Mask!NewMask
  <1>2. c \in Call(cfg) /\ c.set \in Masks(cfg) /\ c.new \in Masks(cfg) /\ c.how \in {"BLOCK", "UNBLOCK", "SETMASK"}
    <2>1. c \in Call(cfg)
      BY <1>0, <1>1, CoTyped
    <2> QED BY <2>1 DEF Call
  <1>3. t \in Mask(cfg)!Tasks /\ t \in sigprocmask_running /\ Mask(cfg)!Usable(t) /\ sigmask[t] \in Masks(cfg)
    BY <1>0, <1>1, <1>2 DEF RunningInv, Call, MaskTypes
  <1>4. /\ c.new = Mask(cfg)!Apply(sigmask[t], c.how, c.set)
        /\ c.next = "block" => /\ c.how = "BLOCK" /\ c.set \cap sigmask[t] = {}
                               /\ c.set \subseteq kernel[t]
        /\ c.next = "unblock" => /\ c.how = "UNBLOCK"
                                 /\ \A b \in blocks : b[1] = t => b[2] \cap c.set = {}
        /\ c.next = "exec" => t = "c"
    BY <1>1, <1>a DEF PendingInv
  <1>5. /\ c.next = "block" => sigmask'[t] = sigmask[t] \cup c.set
        /\ c.next = "unblock" => sigmask'[t] = sigmask[t] \ c.set
        /\ c.next = "ask" => sigmask'[t] = sigmask[t]
        /\ \A u \in Mask(cfg)!Tasks : u # t => sigmask'[u] = sigmask[u]
    <2>1. /\ c.next # "ask" => sigmask'[t] = c.new
          /\ c.next = "ask" => sigmask'[t] = sigmask[t]
          /\ \A u \in Mask(cfg)!Tasks : u # t => sigmask'[u] = sigmask[u]
      BY <1>0, <1>1, <1>3 DEF MaskTypes
    <2>2. /\ c.how = "BLOCK" => c.new = sigmask[t] \cup c.set
          /\ c.how = "UNBLOCK" => c.new = sigmask[t] \ c.set
      BY <1>2, <1>3, <1>4, ApplyMask
    <2> QED BY <1>4, <2>1, <2>2
  <1>d. /\ d \in {Mask(cfg)!Idle} \cup Exec(cfg)
        /\ d.at \in {"idle", "exec"}
        /\ d.at = "exec" => d.t = t
        /\ d.at = "exec" <=> c.next = "exec"
    <2>1. CASE c.next = "exec"
      BY <1>2, <1>3, <2>1 DEF Exec
    <2>2. CASE c.next # "exec"
      BY <2>2 DEF Mask!Idle
    <2> QED BY <2>1, <2>2
  <1> HIDE DEF d
  <1>7. co'[x] = d /\ \A y \in Coroutines : y # x => co'[y] = co[y]
    BY <1>0, <1>1 DEF MaskTypes
  <1>9. \A y \in Coroutines : y # x /\ co[y].at # "idle" => co[y].t # t
    BY <1>0, <1>1 DEF Alone
  <1>10. MaskTypes(cfg)'
    <2>1. sigmask' \in [Mask(cfg)!Tasks -> Masks(cfg)] /\ oldSigmask' \in [Mask(cfg)!Tasks -> Masks(cfg)]
      BY <1>0, <1>1, <1>2, <1>3 DEF MaskTypes
    <2>2. co' \in [Coroutines -> {Mask(cfg)!Idle} \cup Call(cfg) \cup Exec(cfg)]
      BY <1>0, <1>1, <1>d DEF MaskTypes
    <2>3. blocks' \subseteq Mask(cfg)!Tasks \X Masks(cfg) /\ sigprocmask_running' \subseteq Mask(cfg)!Tasks
      BY <1>0, <1>1, <1>2, <1>3 DEF MaskTypes
    <2> QED BY <1>0, <1>1, <2>1, <2>2, <2>3 DEF MaskTypes
  <1>11. Alone'
    <2>2. \A y, z \in Coroutines :
              y # z /\ co[y].at # "idle" /\ co[z].at # "idle" => co[y].t # co[z].t
      BY <1>0 DEF Alone
    <2>3. \A y, z \in Coroutines :
              y # z /\ co'[y].at # "idle" /\ co'[z].at # "idle" => co'[y].t # co'[z].t
      BY <1>7, <1>9, <1>d, <2>2
    <2> QED BY <2>3 DEF Alone
  <1>12. RunningInv(cfg)'
    <2>1. \A y \in Coroutines : co'[y].at = "call" => co'[y].t \in sigprocmask_running' /\ Mask(cfg)!Usable(co'[y].t)
      BY <1>0, <1>1, <1>7, <1>9, <1>d DEF RunningInv
    <2>2. \A u \in sigprocmask_running' : \E y \in Coroutines : co'[y].at = "call" /\ co'[y].t = u
      <3> SUFFICES ASSUME NEW u \in sigprocmask_running'
                   PROVE  \E y \in Coroutines : co'[y].at = "call" /\ co'[y].t = u
        OBVIOUS
      <3>1. u \in sigprocmask_running /\ u # t
        BY <1>1
      <3>2. PICK y \in Coroutines : co[y].at = "call" /\ co[y].t = u
        BY <1>0, <3>1 DEF RunningInv
      <3> QED BY <1>7, <3>1, <3>2
    <2>3. \A y \in Coroutines : co'[y].at = "exec" => co'[y].t = "c" /\ Mask(cfg)!Usable("c")
      BY <1>0, <1>3, <1>4, <1>7, <1>d DEF RunningInv
    <2> QED BY <1>1, <2>1, <2>2, <2>3 DEF RunningInv, Mask!Usable
  <1>o. \A b \in blocks : b[1] = t /\ c.next # "exec" => b[2] \subseteq kernel[t] \cap sigmask[t]
    BY <1>1, OnlyGoing
  <1>n. c.next \in {"block", "unblock", "ask", "exec"}
    BY <1>2 DEF Call
  <1>13. WitnessInv'
    <2> SUFFICES ASSUME NEW b \in blocks'
                 PROVE  \/ b[2] \subseteq kernel[b[1]] \cap sigmask'[b[1]]
                        \/ \E y \in Coroutines : Going(y, b[1])'
      BY <1>1 DEF WitnessInv
    <2>1. CASE b \in blocks /\ b[1] = t /\ c.next # "exec"
      BY <1>4, <1>5, <1>n, <1>o, <2>1
    <2>2. CASE b \in blocks /\ b[1] = t /\ c.next = "exec"
      <3>1. co'[x].at = "exec" /\ co'[x].t = b[1]
        BY <1>7, <1>d, <2>2
      <3> QED BY <3>1 DEF Going
    <2>3. CASE b \in blocks /\ b[1] # t
      <3>1. b[1] \in Mask(cfg)!Tasks
        BY <1>0, <2>3 DEF MaskTypes
      <3>2. CASE b[2] \subseteq kernel[b[1]] \cap sigmask[b[1]]
        BY <1>5, <2>3, <3>1, <3>2
      <3>3. CASE \E y \in Coroutines : Going(y, b[1])
        <4>1. PICK y \in Coroutines : Going(y, b[1])
          BY <3>3
        <4>2. y # x
          BY <2>3, <4>1 DEF Going
        <4>3. co'[y] = co[y]
          BY <1>7, <4>2
        <4> QED BY <4>1, <4>3 DEF Going
      <3> QED BY <1>0, <2>3, <3>2, <3>3 DEF WitnessInv
    <2>4. CASE b \notin blocks
      <3>1. c.next = "block" /\ b = <<t, c.set>>
        BY <1>1, <2>4
      <3> QED BY <1>4, <1>5, <3>1
    <2> QED BY <2>1, <2>2, <2>3, <2>4
  <1>14. InheritInv(cfg)'
    <2>1. <<"p", {CHLD}>> \in blocks'
      BY <1>0, <1>1 DEF InheritInv
    <2>2. \A b \in blocks' : b[1] = "c" => Mask(cfg)!Usable("c")
      BY <1>0, <1>1, <1>3 DEF InheritInv
    <2> QED BY <1>0, <1>1, <2>1, <2>2 DEF InheritInv, Mask!Usable
  <1>15. \A y \in Coroutines : PendingInv(cfg, y)'
    <2> SUFFICES ASSUME NEW y \in Coroutines, co'[y].at = "call" PROVE PendingInv(cfg, y)'
      BY DEF PendingInv
    <2>1. y # x /\ co'[y] = co[y]
      BY <1>7, <1>d
    <2>2. co[y].t # t /\ co[y].t \in Mask(cfg)!Tasks
      BY <1>0, <1>9, <2>1, CoTyped
    <2>3. sigmask'[co[y].t] = sigmask[co[y].t]
      BY <1>5, <2>2
    <2>4. \A b \in blocks' : b[1] = co[y].t => b \in blocks
      BY <1>1, <2>2
    <2> QED BY <1>1, <1>a, <2>1, <2>3, <2>4 DEF PendingInv
  <1>16. Mask(cfg)!BlocksDisjoint'
    <2> SUFFICES ASSUME NEW a \in blocks', NEW b \in blocks', a[1] = b[1], a # b
                 PROVE  a[2] \cap b[2] = {}
      BY DEF Mask!BlocksDisjoint
    <2>1. \A e \in blocks : c.next = "block" /\ e[1] = t => e[2] \cap c.set = {}
      BY <1>4, <1>o
    <2>2. CASE a \in blocks /\ b \in blocks
      BY <1>0, <2>2 DEF Mask!BlocksDisjoint
    <2>3. CASE a \notin blocks \/ b \notin blocks
      <3>1. c.next = "block" /\ (a = <<t, c.set>> \/ b = <<t, c.set>>)
            /\ (a = <<t, c.set>> \/ a \in blocks) /\ (b = <<t, c.set>> \/ b \in blocks)
        BY <1>1, <2>3
      <3> QED BY <2>1, <3>1
    <2> QED BY <2>2, <2>3
  <1> QED BY <1>0, <1>1, <1>10, <1>11, <1>12, <1>13, <1>14, <1>15, <1>16 DEF BlockInv

\* The exec succeeds: the blocks of the task go with it.
LEMMA ExecDoneBlocks ==
    ASSUME NEW cfg, BlockInv(cfg), NEW x \in Coroutines, Mask(cfg)!ExecDone(x)
    PROVE  BlockInv(cfg)'
  <1>0. /\ MaskTypes(cfg) /\ Alone /\ RunningInv(cfg) /\ WitnessInv /\ InheritInv(cfg)
        /\ Mask(cfg)!BlocksDisjoint /\ hangups = 0 /\ ~refused
    BY DEF BlockInv
  <1>a. \A y \in Coroutines : PendingInv(cfg, y)
    BY DEF BlockInv
  <1>1. /\ co[x].at = "exec" /\ life' = "execd" /\ co' = [co EXCEPT ![x] = Mask(cfg)!Idle]
        /\ blocks' = {b \in blocks : b[1] # "c"}
        /\ UNCHANGED <<kernel, sigmask, oldSigmask, oldset, sigprocmask_running, clone, execMask, refused,
                       hangups>>
    BY DEF Mask!ExecDone
  <1>2. co[x].t = "c" /\ clone = "made"
    BY <1>0, <1>1 DEF RunningInv, Mask!Usable
  <1>3. co'[x].at = "idle" /\ \A y \in Coroutines : y # x => co'[y] = co[y]
    BY <1>0, <1>1 DEF MaskTypes, Mask!Idle
  <1>4. \A y \in Coroutines : co'[y].at # "idle" => co'[y] = co[y] /\ co[y].t # "c"
    BY <1>0, <1>1, <1>2, <1>3 DEF Alone
  <1>5. MaskTypes(cfg)'
    <2>1. co' \in [Coroutines -> {Mask(cfg)!Idle} \cup Call(cfg) \cup Exec(cfg)]
      BY <1>0, <1>1 DEF MaskTypes
    <2>2. blocks' \subseteq Mask(cfg)!Tasks \X Masks(cfg)
      BY <1>0, <1>1 DEF MaskTypes
    <2> QED BY <1>0, <1>1, <2>1, <2>2 DEF MaskTypes
  <1>6. Alone'
    <2>2. \A y, z \in Coroutines :
              y # z /\ co[y].at # "idle" /\ co[z].at # "idle" => co[y].t # co[z].t
      BY <1>0 DEF Alone
    <2>3. \A y, z \in Coroutines :
              y # z /\ co'[y].at # "idle" /\ co'[z].at # "idle" => co'[y].t # co'[z].t
      BY <1>3, <2>2
    <2> QED BY <2>3 DEF Alone
  <1>7. RunningInv(cfg)'
    <2>1. \A y \in Coroutines :
              co'[y].at = "call" => co'[y].t \in sigprocmask_running /\ co'[y].t = "p"
      <3> SUFFICES ASSUME NEW y \in Coroutines, co'[y].at = "call"
                   PROVE  co'[y].t \in sigprocmask_running /\ co'[y].t = "p"
        OBVIOUS
      <3>1. co'[y] = co[y] /\ co[y].t # "c" /\ co[y].t \in Mask(cfg)!Tasks /\ co[y].t \in sigprocmask_running
        BY <1>0, <1>4, CoTyped DEF RunningInv
      <3> QED BY <3>1 DEF Mask!Tasks
    <2>2. \A u \in sigprocmask_running : \E y \in Coroutines : co'[y].at = "call" /\ co'[y].t = u
      BY <1>0, <1>1, <1>3 DEF RunningInv
    <2>3. \A y \in Coroutines : co'[y].at # "exec"
      BY <1>0, <1>4 DEF RunningInv
    <2> QED BY <1>1, <2>1, <2>2, <2>3 DEF RunningInv, Mask!Usable
  <1>8. WitnessInv'
    <2> SUFFICES ASSUME NEW b \in blocks'
                 PROVE  \/ b[2] \subseteq kernel[b[1]] \cap sigmask[b[1]]
                        \/ \E y \in Coroutines : Going(y, b[1])'
      BY <1>1 DEF WitnessInv
    <2>1. b \in blocks /\ b[1] # "c"
      BY <1>1
    <2>2. ASSUME NEW y \in Coroutines, Going(y, b[1]) PROVE Going(y, b[1])'
      <3>1. y # x
        BY <1>2, <2>1, <2>2 DEF Going
      <3>2. co'[y] = co[y]
        BY <1>3, <3>1
      <3> QED BY <2>2, <3>2 DEF Going
    <2> QED BY <1>0, <2>1, <2>2 DEF WitnessInv
  <1>9. InheritInv(cfg)'
    BY <1>0, <1>1, <1>2 DEF InheritInv
  <1>10. \A y \in Coroutines : PendingInv(cfg, y)'
    BY <1>1, <1>4, <1>a DEF PendingInv
  <1>11. Mask(cfg)!BlocksDisjoint'
    BY <1>0, <1>1 DEF Mask!BlocksDisjoint
  <1> QED BY <1>0, <1>1, <1>5, <1>6, <1>7, <1>8, <1>9, <1>10, <1>11 DEF BlockInv

\* The child starts with the mask of p, in which SIGCHLD is blocked.
LEMMA CloneBlocks ==
    ASSUME NEW cfg, BlockInv(cfg), Mask(cfg)!Clone \/ Mask(cfg)!MakeTask
    PROVE  BlockInv(cfg)'
  <1>0. /\ MaskTypes(cfg) /\ Alone /\ RunningInv(cfg) /\ WitnessInv /\ InheritInv(cfg)
        /\ Mask(cfg)!BlocksDisjoint /\ hangups = 0 /\ ~refused
    BY DEF BlockInv
  <1>a. \A y \in Coroutines : PendingInv(cfg, y)
    BY DEF BlockInv
  <1>m. clone # "made"
    BY DEF Mask!Clone, Mask!MakeTask
  <1>n. \A y \in Coroutines : co[y].at # "idle" =>
             co[y].at = "call" /\ co[y].t # "c" /\ co[y].t \in Mask(cfg)!Tasks
    BY <1>0, <1>m, CoTyped DEF RunningInv, Mask!Usable
  <1>b. \A b \in blocks : b[1] # "c" /\ b[1] \in Mask(cfg)!Tasks
    BY <1>0, <1>m DEF InheritInv, Mask!Usable, MaskTypes
  <1>c. CHLD \in kernel["p"] /\ CHLD \in sigmask["p"]
    <2>1. \A y \in Coroutines : ~Going(y, "p")
      <3> SUFFICES ASSUME NEW y \in Coroutines, Going(y, "p") PROVE FALSE
        OBVIOUS
      <3>1. co[y].at = "call" /\ co[y].next = "exec" /\ co[y].t = "p"
        BY <1>n DEF Going
      <3> QED BY <1>a, <3>1 DEF PendingInv
    <2>2. <<"p", {CHLD}>> \in blocks
      BY <1>0 DEF InheritInv
    <2>3. {CHLD} \subseteq kernel["p"] \cap sigmask["p"]
      BY <1>0, <2>1, <2>2 DEF WitnessInv
    <2> QED BY <2>3
  <1>1. CASE Mask(cfg)!Clone
    <2>1. /\ clone = "none" /\ clone' = "cloned" /\ kernel' = [kernel EXCEPT !["c"] = kernel["p"]]
          /\ UNCHANGED <<sigmask, oldSigmask, oldset, sigprocmask_running, blocks, co, life, execMask,
                         refused, hangups>>
      BY <1>1 DEF Mask!Clone
    <2>2. kernel'["c"] = kernel["p"] /\ kernel["p"] \in Masks(cfg)
      BY <1>0, <2>1 DEF MaskTypes, Mask!Tasks
    <2>3. \A u \in Mask(cfg)!Tasks : u # "c" => kernel'[u] = kernel[u]
      BY <1>0, <2>1 DEF MaskTypes
    <2>4. MaskTypes(cfg)' /\ Alone'
      BY <1>0, <2>1, <2>2 DEF MaskTypes, Alone
    <2>5. RunningInv(cfg)'
      <3>1. \A y \in Coroutines : co[y].at = "call" =>
                 co[y].t \in sigprocmask_running /\ co[y].t = "p" /\ co[y].at # "exec"
        BY <1>0, <1>n DEF RunningInv, Mask!Tasks
      <3>2. \A y \in Coroutines : co[y].at # "exec"
        BY <1>n
      <3> QED BY <1>0, <2>1, <3>1, <3>2 DEF RunningInv, Mask!Usable
    <2>6. WitnessInv'
      BY <1>0, <1>b, <2>1, <2>3 DEF WitnessInv, Going
    <2>7. InheritInv(cfg)'
      BY <1>0, <1>b, <1>c, <2>1, <2>2 DEF InheritInv
    <2>8. \A y \in Coroutines : PendingInv(cfg, y)'
      BY <1>a, <1>n, <2>1, <2>3 DEF PendingInv
    <2>9. Mask(cfg)!BlocksDisjoint'
      BY <1>0, <2>1 DEF Mask!BlocksDisjoint
    <2> QED BY <1>0, <2>1, <2>4, <2>5, <2>6, <2>7, <2>8, <2>9 DEF BlockInv
  <1>2. CASE Mask(cfg)!MakeTask
    <2>1. /\ clone = "cloned" /\ clone' = "made"
          /\ sigmask' = [sigmask EXCEPT !["c"] = sigmask["p"]]
          /\ blocks' = blocks \cup {<<"c", {CHLD}>>}
          /\ UNCHANGED <<kernel, oldSigmask, oldset, sigprocmask_running, co, life, execMask, refused, hangups>>
      BY <1>2 DEF Mask!MakeTask
    <2>2. sigmask'["c"] = sigmask["p"] /\ sigmask["p"] \in Masks(cfg)
      BY <1>0, <2>1 DEF MaskTypes, Mask!Tasks
    <2>3. \A u \in Mask(cfg)!Tasks : u # "c" => sigmask'[u] = sigmask[u]
      BY <1>0, <2>1 DEF MaskTypes
    <2>4. MaskTypes(cfg)' /\ Alone'
      <3>1. blocks' \subseteq Mask(cfg)!Tasks \X Masks(cfg)
        BY <1>0, <2>1 DEF MaskTypes, Masks, Mask!Tasks, Mask!All
      <3> QED BY <1>0, <2>1, <2>2, <3>1 DEF MaskTypes, Alone
    <2>5. RunningInv(cfg)' /\ life = "alive"
      <3>1. life = "alive"
        BY <1>0, <1>m DEF InheritInv, MaskTypes
      <3>2. \A y \in Coroutines : co[y].at = "call" => co[y].t \in sigprocmask_running /\ co[y].t = "p"
        BY <1>0, <1>n DEF RunningInv, Mask!Tasks
      <3>3. \A y \in Coroutines : co[y].at # "exec"
        BY <1>n
      <3> QED BY <1>0, <2>1, <3>1, <3>2, <3>3 DEF RunningInv, Mask!Usable
    <2>6. WitnessInv'
      <3> SUFFICES ASSUME NEW b \in blocks'
                   PROVE  \/ b[2] \subseteq kernel[b[1]] \cap sigmask'[b[1]]
                          \/ \E y \in Coroutines : Going(y, b[1])'
        BY <2>1 DEF WitnessInv
      <3>1. CASE b \in blocks
        BY <1>0, <1>b, <2>1, <2>3, <3>1 DEF WitnessInv, Going
      <3>2. CASE b = <<"c", {CHLD}>>
        <4>1. CHLD \in kernel["c"]
          BY <1>0, <1>m, <2>1 DEF InheritInv
        <4> QED BY <1>c, <2>2, <3>2, <4>1
      <3> QED BY <2>1, <3>1, <3>2
    <2>7. InheritInv(cfg)'
      BY <1>0, <2>1, <2>5 DEF InheritInv, Mask!Usable
    <2>8. \A y \in Coroutines : PendingInv(cfg, y)'
      <3> SUFFICES ASSUME NEW y \in Coroutines, co[y].at = "call" PROVE PendingInv(cfg, y)'
        BY <2>1 DEF PendingInv
      <3>1. co[y].t # "c" /\ sigmask'[co[y].t] = sigmask[co[y].t]
        BY <1>n, <2>3
      <3>2. \A b \in blocks' : b[1] = co[y].t => b \in blocks
        BY <2>1, <3>1
      <3> QED BY <1>a, <2>1, <3>1, <3>2 DEF PendingInv
    <2>9. Mask(cfg)!BlocksDisjoint'
      <3> SUFFICES ASSUME NEW a \in blocks', NEW b \in blocks', a[1] = b[1], a # b
                   PROVE  a[2] \cap b[2] = {}
        BY DEF Mask!BlocksDisjoint
      <3>1. PICK n : n = <<"c", {CHLD}>> /\ n[1] = "c" /\ blocks' = blocks \cup {n}
        BY <2>1
      <3>2. a \in blocks /\ b \in blocks
        BY <1>b, <3>1
      <3> QED BY <1>0, <3>2 DEF Mask!BlocksDisjoint
    <2> QED BY <1>0, <2>1, <2>4, <2>5, <2>6, <2>7, <2>8, <2>9 DEF BlockInv
  <1> QED BY <1>1, <1>2

\* Every step keeps the invariant of the blocks.
LEMMA BlockNext ==
    ASSUME NEW cfg, Mask(cfg)!SignalAssumption, Steady(cfg), BlockInv(cfg), [Mask(cfg)!Next]_(Mask(cfg)!vars)
    PROVE  BlockInv(cfg)'
  <1>1. CASE \/ UNCHANGED Mask(cfg)!vars
             \/ \E t \in Mask(cfg)!Tasks : Mask(cfg)!ReadOldset(t)
    <2>1. /\ UNCHANGED <<kernel, sigmask, oldSigmask, sigprocmask_running, blocks, co, clone, life,
                         execMask, refused, hangups>>
          /\ oldset' \in [Mask(cfg)!Tasks -> SUBSET Masks(cfg)]
      BY <1>1 DEF Mask!vars, Mask!ReadOldset, BlockInv, MaskTypes
    <2>2. MaskTypes(cfg)' /\ Alone' /\ RunningInv(cfg)' /\ InheritInv(cfg)'
      BY <2>1 DEF BlockInv, MaskTypes, Alone, RunningInv, InheritInv, Mask!Usable
    <2>3. WitnessInv' /\ Mask(cfg)!BlocksDisjoint'
      BY <2>1 DEF BlockInv, WitnessInv, Going, Mask!BlocksDisjoint
    <2>4. \A y \in Coroutines : PendingInv(cfg, y)'
      BY <2>1 DEF BlockInv, PendingInv
    <2> QED BY <2>1, <2>2, <2>3, <2>4 DEF BlockInv
  <1>2. ASSUME NEW x \in Coroutines, Mask(cfg)!Hangup(x) \/ Mask(cfg)!ExecError(x)
        PROVE  FALSE
    BY <1>2 DEF Mask!Hangup, Mask!ExecError, Steady, BlockInv
  <1> QED BY <1>1, <1>2, CallsBlocks, PerformBlocks, ReturnBlocks, ExecDoneBlocks,
             CloneBlocks DEF Mask!Next

\* The invariant gives the properties.
LEMMA BlockSafe ==
    ASSUME NEW cfg
    PROVE  BlockInv(cfg) => Mask(cfg)!BlockWitness /\ Mask(cfg)!BlocksDisjoint /\ Mask(cfg)!RefusedWhileRunning
  <1> SUFFICES ASSUME BlockInv(cfg)
               PROVE  Mask(cfg)!BlockWitness /\ Mask(cfg)!BlocksDisjoint /\ Mask(cfg)!RefusedWhileRunning
    OBVIOUS
  <1>1. Mask(cfg)!BlockWitness
    BY DEF BlockInv, WitnessInv, Going, Mask!BlockWitness, Mask!Execing
  <1> QED BY <1>1 DEF BlockInv, Mask!RefusedWhileRunning

(***************************************************************************)
(* A SignalBlock is the witness and the owner it claims to be: its signals *)
(* are blocked in the kernel as long as it is held, but in a task about to *)
(* exec; two blocks of a task share no signal; and sigprocmask refuses     *)
(* only while another call runs.  This does hold while p calls sigprocmask *)
(* and clones.                                                             *)
(***************************************************************************)
THEOREM BlocksWitness ==
    ASSUME NEW cfg, Mask(cfg)!SignalAssumption, Steady(cfg)
    PROVE  Mask(cfg)!Spec => [](Mask(cfg)!BlockWitness /\ Mask(cfg)!BlocksDisjoint /\ Mask(cfg)!RefusedWhileRunning)
  <1>1. Mask(cfg)!Init => BlockInv(cfg)
    BY BlockInit
  <1>2. BlockInv(cfg) /\ [Mask(cfg)!Next]_(Mask(cfg)!vars) => BlockInv(cfg)'
    BY BlockNext
  <1> QED BY <1>1, <1>2, BlockSafe, PTL DEF Mask!Spec

-----------------------------------------------------------------------------
(* The environment of a program                                            *)

\* What a program may be given: the variables of a thread, updated.
Given(cfg) == cfg.envs \cup {Env(cfg)!Updated(e, u) : e \in cfg.envs, u \in cfg.updates}
Arrays(cfg) == {Env(cfg)!None} \cup [none : {FALSE}, val : Given(cfg)]

EnvExecs(cfg) == [pc : {"idle", "sigmask", "batch", "execve", "done"},
          updates : {Env(cfg)!None} \cup cfg.updates, envp : Arrays(cfg)]

EnvTypes(cfg) ==
    /\ data \in [cfg.threads -> cfg.envs] /\ arglist \in [cfg.threads -> Arrays(cfg)]
    /\ exec \in [cfg.threads -> EnvExecs(cfg)]
    /\ meant \in [cfg.threads -> SUBSET Given(cfg)] /\ got \in [cfg.threads -> Arrays(cfg)]

\* The array that is kept holds the variables the thread has.
ArrayInv(cfg, t) ==
    /\ ~arglist[t].none => arglist[t].val = data[t]
    /\ exec[t].pc = "batch" =>
           /\ ~exec[t].envp.none
           /\ exec[t].envp.val = Env(cfg)!Updated(data[t], exec[t].updates)

\* A program being started may be given what its thread has now, and what it will be
\* given, once that is fixed, is among what it may be given.
EnvExecInv(cfg, t) ==
    /\ exec[t].pc # "idle" =>
           t \in env_alive /\ Env(cfg)!Updated(data[t], exec[t].updates) \in meant[t]
    /\ exec[t].pc \in {"batch", "execve", "done"} =>
           ~exec[t].envp.none /\ exec[t].envp.val \in meant[t]
    /\ ~got[t].none => exec[t].pc = "done" /\ got[t] = exec[t].envp

EnvInv(cfg) == EnvTypes(cfg) /\ \A t \in cfg.threads : ArrayInv(cfg, t) /\ EnvExecInv(cfg, t)

\* The steps of the other half of the module leave the environments alone.
LEMMA PathKeepsEnv ==
    ASSUME NEW cfg, UNCHANGED Env(cfg)!envVars, EnvInv(cfg)
    PROVE  EnvInv(cfg)'
  BY DEF EnvInv, EnvTypes, ArrayInv, EnvExecInv, Env!envVars

\* An exec in progress goes on to pc, with envp; the others stay where they are.
ExecGoes(cfg, t, pc, envp) ==
    /\ exec' \in [cfg.threads -> EnvExecs(cfg)]
    /\ exec'[t].pc = pc /\ exec'[t].updates = exec[t].updates /\ exec'[t].envp = envp
    /\ \A u \in cfg.threads \ {t} : exec'[u] = exec[u]

\* Nothing is executed yet, and no array of variables is kept.
LEMMA InitEnv ==
    ASSUME NEW cfg
    PROVE  Env(cfg)!EnvironAssumption /\ Env(cfg)!Init => EnvInv(cfg)
  <1> SUFFICES ASSUME Env(cfg)!EnvironAssumption, Env(cfg)!Init PROVE EnvInv(cfg)
    OBVIOUS
  <1>1. Env(cfg)!None.none
    BY DEF Env!None
  <1>2. EnvTypes(cfg)
    BY DEF EnvTypes, Env!Init, Env!Idle, Arrays, EnvExecs
  <1>3. ASSUME NEW t \in cfg.threads PROVE ArrayInv(cfg, t) /\ EnvExecInv(cfg, t)
    BY <1>1 DEF Env!Init, ArrayInv, EnvExecInv, Env!Idle
  <1> QED BY <1>2, <1>3 DEF EnvInv

\* Updating with nothing changes nothing.
LEMMA UpdatedByNone ==
    ASSUME NEW cfg, NEW e, NEW u, u.none PROVE Env(cfg)!Updated(e, u) = e
  BY DEF Env!Updated

\* Updating the variables of a thread gives what a program may be given.
LEMMA GivenType ==
    ASSUME NEW cfg, NEW e \in cfg.envs, NEW u \in {Env(cfg)!None} \cup cfg.updates
    PROVE  Env(cfg)!Updated(e, u) \in Given(cfg) /\ Env(cfg)!Some(Env(cfg)!Updated(e, u)) \in Arrays(cfg)
           /\ ~Env(cfg)!Some(Env(cfg)!Updated(e, u)).none
           /\ Env(cfg)!Some(Env(cfg)!Updated(e, u)).val = Env(cfg)!Updated(e, u)
  <1>1. Env(cfg)!Updated(e, u) \in Given(cfg)
    <2>1. CASE u \in cfg.updates
      BY <2>1 DEF Given
    <2>2. CASE u = Env(cfg)!None
      BY <2>2, UpdatedByNone DEF Given, Env!None
    <2> QED BY <2>1, <2>2
  <1> QED BY <1>1 DEF Env!Some, Arrays

\* data is assigned to: only before the array was made or an exec has one.
LEMMA SetDataEnv ==
    ASSUME NEW cfg, EnvInv(cfg), ~cfg.changeAfter, NEW t \in cfg.threads, NEW e \in cfg.envs, Env(cfg)!SetData(t, e)
    PROVE  EnvInv(cfg)'
  <1>1. /\ t \in env_alive /\ got[t].none /\ arglist[t].none /\ exec[t].pc # "batch"
        /\ data' = [data EXCEPT ![t] = e]
        /\ meant' = [meant EXCEPT ![t] = IF exec[t].pc = "idle" THEN meant[t]
                                         ELSE meant[t] \cup {Env(cfg)!Updated(e, exec[t].updates)}]
        /\ UNCHANGED <<env_alive, arglist, exec, got>>
    BY DEF Env!SetData, EnvInv, EnvTypes
  <1>2. exec[t].updates \in {Env(cfg)!None} \cup cfg.updates
    BY DEF EnvInv, EnvTypes, EnvExecs
  <1>3. EnvTypes(cfg)'
    BY <1>1, <1>2, GivenType DEF EnvInv, EnvTypes
  <1>4. ASSUME NEW u \in cfg.threads PROVE ArrayInv(cfg, u)' /\ EnvExecInv(cfg, u)'
    <2>1. CASE u = t
      BY <1>1, <2>1 DEF EnvInv, EnvTypes, ArrayInv, EnvExecInv
    <2>2. CASE u # t
      BY <1>1, <2>2 DEF EnvInv, EnvTypes, ArrayInv, EnvExecInv
    <2> QED BY <2>1, <2>2
  <1> QED BY <1>3, <1>4 DEF EnvInv

\* A new thread has its own copy of the variables, and the array they make.
LEMMA InheritEnv ==
    ASSUME NEW cfg, EnvInv(cfg), NEW p \in cfg.threads, NEW c \in cfg.threads, Env(cfg)!Inherit(p, c)
    PROVE  EnvInv(cfg)'
  <1>1. /\ p \in env_alive /\ c \notin env_alive
        /\ env_alive' = env_alive \cup {c} /\ data' = [data EXCEPT ![c] = data[p]]
        /\ arglist' = [arglist EXCEPT ![c] = arglist[p]]
        /\ UNCHANGED <<exec, meant, got>>
    BY DEF Env!Inherit
  <1>3. EnvTypes(cfg)'
    BY <1>1 DEF EnvInv, EnvTypes
  <1>4. ASSUME NEW u \in cfg.threads PROVE ArrayInv(cfg, u)' /\ EnvExecInv(cfg, u)'
    BY <1>1 DEF EnvInv, EnvTypes, ArrayInv, EnvExecInv
  <1> QED BY <1>3, <1>4 DEF EnvInv

\* exec begins, with updates of the variables.
LEMMA ExecEnv ==
    ASSUME NEW cfg, EnvInv(cfg), NEW t \in cfg.threads, NEW u \in cfg.updates, Env(cfg)!Exec(t, u)
    PROVE  EnvInv(cfg)'
  <1>1. /\ t \in env_alive /\ exec[t].pc = "idle" /\ got[t].none
        /\ exec' = [exec EXCEPT ![t] = [pc |-> "sigmask", updates |-> u, envp |-> Env(cfg)!None]]
        /\ meant' = [meant EXCEPT ![t] = {Env(cfg)!Updated(data[t], u)}]
        /\ UNCHANGED <<env_alive, data, arglist, got>>
    BY DEF Env!Exec
  <1>3. EnvTypes(cfg)'
    <2>1. data[t] \in cfg.envs
      BY DEF EnvInv, EnvTypes
    <2>2. Env(cfg)!Updated(data[t], u) \in Given(cfg)
      BY <2>1, GivenType
    <2>3. meant' \in [cfg.threads -> SUBSET Given(cfg)]
      BY <1>1, <2>2 DEF EnvInv, EnvTypes
    <2>4. exec' \in [cfg.threads -> EnvExecs(cfg)]
      BY <1>1 DEF EnvInv, EnvTypes, Arrays, EnvExecs
    <2> QED BY <1>1, <2>3, <2>4 DEF EnvInv, EnvTypes
  <1>4. ASSUME NEW v \in cfg.threads PROVE ArrayInv(cfg, v)' /\ EnvExecInv(cfg, v)'
    BY <1>1 DEF EnvInv, EnvTypes, ArrayInv, EnvExecInv
  <1> QED BY <1>3, <1>4 DEF EnvInv

\* After the signal mask: the array that is kept is taken, or a new one is written.
LEMMA MaskedEnv ==
    ASSUME NEW cfg, EnvInv(cfg), NEW t \in cfg.threads, Env(cfg)!Masked(t)
    PROVE  EnvInv(cfg)'
  <1>0. /\ exec[t] \in EnvExecs(cfg) /\ exec[t].updates \in {Env(cfg)!None} \cup cfg.updates
           /\ exec[t].envp \in Arrays(cfg)
        /\ data[t] \in cfg.envs /\ arglist[t] \in Arrays(cfg)
    BY DEF EnvInv, EnvTypes, EnvExecs
  <1>1. PICK pc \in {"batch", "execve"}, envp \in Arrays(cfg) :
            /\ ExecGoes(cfg, t, pc, envp)
            /\ ~envp.none /\ envp.val = Env(cfg)!Updated(data[t], exec[t].updates)
    <2>1. CASE exec[t].updates.none /\ ~arglist[t].none
      <3>1. arglist[t].val = Env(cfg)!Updated(data[t], exec[t].updates)
        BY <2>1, UpdatedByNone DEF EnvInv, ArrayInv
      <3>2. exec' = [exec EXCEPT ![t].pc = "execve", ![t].envp = arglist[t]]
        BY <2>1 DEF Env!Masked
      <3>3. ExecGoes(cfg, t, "execve", arglist[t])
        BY <3>2, <1>0 DEF EnvInv, EnvTypes, ExecGoes, EnvExecs
      <3> QED BY <2>1, <3>1, <3>3, <1>0
    <2>2. CASE ~(exec[t].updates.none /\ ~arglist[t].none)
      <3>1. PICK a : a = Env(cfg)!Some(Env(cfg)!Updated(data[t], exec[t].updates))
        OBVIOUS
      <3>2. a \in Arrays(cfg) /\ ~a.none /\ a.val = Env(cfg)!Updated(data[t], exec[t].updates)
        BY <3>1, <1>0, GivenType
      <3>3. exec' = [exec EXCEPT ![t].pc = "batch", ![t].envp = a]
        BY <2>2, <3>1 DEF Env!Masked
      <3>4. ExecGoes(cfg, t, "batch", a)
        BY <3>2, <3>3, <1>0 DEF EnvInv, EnvTypes, ExecGoes, EnvExecs
      <3> QED BY <3>2, <3>4
    <2> QED BY <2>1, <2>2
  <1>2. exec[t].pc = "sigmask" /\ UNCHANGED <<env_alive, data, arglist, meant, got>>
    BY DEF Env!Masked
  <1>3. EnvTypes(cfg)'
    BY <1>0, <1>1, <1>2 DEF EnvInv, EnvTypes, ExecGoes
  <1>4. ASSUME NEW v \in cfg.threads PROVE ArrayInv(cfg, v)' /\ EnvExecInv(cfg, v)'
    BY <1>0, <1>1, <1>2 DEF EnvInv, EnvTypes, ArrayInv, EnvExecInv, ExecGoes
  <1> QED BY <1>3, <1>4 DEF EnvInv

\* The batch that writes the array is done.
LEMMA BatchedEnv ==
    ASSUME NEW cfg, EnvInv(cfg), NEW t \in cfg.threads, Env(cfg)!Batched(t)
    PROVE  EnvInv(cfg)'
  <1>0. /\ exec[t] \in EnvExecs(cfg) /\ exec[t].updates \in {Env(cfg)!None} \cup cfg.updates
           /\ exec[t].envp \in Arrays(cfg)
        /\ data[t] \in cfg.envs /\ arglist[t] \in Arrays(cfg)
    BY DEF EnvInv, EnvTypes, EnvExecs
  <1>1. ExecGoes(cfg, t, "execve", exec[t].envp)
    BY <1>0 DEF Env!Batched, EnvInv, EnvTypes, ExecGoes, EnvExecs
  <1>2. exec[t].pc = "batch" /\ UNCHANGED <<env_alive, data, meant, got>>
    BY DEF Env!Batched
  <1>3. PICK a \in Arrays(cfg) :
            /\ arglist' = [arglist EXCEPT ![t] = a]
            /\ ~a.none => a.val = data[t]
    <2>1. CASE exec[t].updates.none
      <3>1. exec[t].envp.val = data[t]
        BY <1>2, <2>1, UpdatedByNone DEF EnvInv, ArrayInv
      <3> QED BY <2>1, <3>1, <1>0 DEF Env!Batched, Env!Keeps
    <2>2. CASE ~exec[t].updates.none
      BY <2>2, <1>0 DEF Env!Batched, Env!Keeps, EnvInv, EnvTypes, ArrayInv
    <2> QED BY <2>1, <2>2
  <1>4. EnvTypes(cfg)'
    BY <1>0, <1>1, <1>2, <1>3 DEF EnvInv, EnvTypes, ExecGoes
  <1>5. ASSUME NEW v \in cfg.threads PROVE ArrayInv(cfg, v)' /\ EnvExecInv(cfg, v)'
    BY <1>0, <1>1, <1>2, <1>3 DEF EnvInv, EnvTypes, ArrayInv, EnvExecInv, ExecGoes
  <1> QED BY <1>4, <1>5 DEF EnvInv

\* as_arglist writes the array and keeps it.
LEMMA AsArglistEnv ==
    ASSUME NEW cfg, EnvInv(cfg), NEW t \in cfg.threads, Env(cfg)!AsArglist(t)
    PROVE  EnvInv(cfg)'
  <1>0. data[t] \in cfg.envs
    BY DEF EnvInv, EnvTypes, ExecGoes
  <1>1. PICK a \in Arrays(cfg) : arglist' = [arglist EXCEPT ![t] = a] /\ a.val = data[t]
    <2>1. Env(cfg)!Some(data[t]) \in Arrays(cfg) /\ Env(cfg)!Some(data[t]).val = data[t]
      BY <1>0 DEF Env!Some, Arrays, Given
    <2> QED BY <2>1 DEF Env!AsArglist
  <1>2. UNCHANGED <<env_alive, data, exec, meant, got>>
    BY DEF Env!AsArglist
  <1>4. EnvTypes(cfg)'
    BY <1>1, <1>2 DEF EnvInv, EnvTypes, ExecGoes
  <1>5. ASSUME NEW v \in cfg.threads PROVE ArrayInv(cfg, v)' /\ EnvExecInv(cfg, v)'
    BY <1>1, <1>2 DEF EnvInv, EnvTypes, ArrayInv, EnvExecInv, ExecGoes
  <1> QED BY <1>4, <1>5 DEF EnvInv

\* execve: the program gets the array, or the call fails.
LEMMA ExecReturnsEnv ==
    ASSUME NEW cfg, EnvInv(cfg), NEW t \in cfg.threads, Env(cfg)!ExecReturns(t)
    PROVE  EnvInv(cfg)'
  <1>0. /\ exec[t] \in EnvExecs(cfg) /\ exec[t].envp \in Arrays(cfg)
        /\ got[t].none /\ exec[t].pc = "execve" /\ Env(cfg)!None \in Arrays(cfg)
        /\ UNCHANGED <<env_alive, data, arglist>>
    BY DEF EnvInv, EnvTypes, EnvExecs, EnvExecInv, Env!ExecReturns, Arrays
  <1>1. CASE /\ exec' = [exec EXCEPT ![t] = Env(cfg)!Idle] /\ meant' = [meant EXCEPT ![t] = {}]
             /\ UNCHANGED got
    <2>1. EnvTypes(cfg)'
      BY <1>0, <1>1 DEF EnvInv, EnvTypes, Env!Idle, EnvExecs
    <2>2. ASSUME NEW v \in cfg.threads PROVE ArrayInv(cfg, v)' /\ EnvExecInv(cfg, v)'
      BY <1>0, <1>1 DEF EnvInv, EnvTypes, ArrayInv, EnvExecInv, Env!Idle
    <2> QED BY <2>1, <2>2 DEF EnvInv
  <1>2. CASE /\ got' = [got EXCEPT ![t] = exec[t].envp] /\ exec' = [exec EXCEPT ![t].pc = "done"]
             /\ UNCHANGED meant
    <2>0. ExecGoes(cfg, t, "done", exec[t].envp)
      BY <1>0, <1>2 DEF EnvInv, EnvTypes, ExecGoes, EnvExecs
    <2>1. EnvTypes(cfg)'
      BY <1>0, <1>2, <2>0 DEF EnvInv, EnvTypes, ExecGoes
    <2>2. ASSUME NEW v \in cfg.threads PROVE ArrayInv(cfg, v)' /\ EnvExecInv(cfg, v)'
      BY <1>0, <1>2, <2>0 DEF EnvInv, EnvTypes, ArrayInv, EnvExecInv, ExecGoes
    <2> QED BY <2>1, <2>2 DEF EnvInv
  <1> QED BY <1>1, <1>2 DEF Env!ExecReturns

\* Any step keeps the invariant.
LEMMA NextEnv ==
    ASSUME NEW cfg, Env(cfg)!EnvironAssumption, ~cfg.changeAfter
    PROVE  EnvInv(cfg) /\ [Env(cfg)!Next]_(Env(cfg)!vars) => EnvInv(cfg)'
  <1> SUFFICES ASSUME EnvInv(cfg), [Env(cfg)!Next]_(Env(cfg)!vars) PROVE EnvInv(cfg)'
    OBVIOUS
  <1>1. CASE UNCHANGED Env(cfg)!envVars
    BY <1>1, PathKeepsEnv
  <1>2. ASSUME NEW t \in cfg.threads, NEW e \in cfg.envs, Env(cfg)!SetData(t, e) PROVE EnvInv(cfg)'
    BY <1>2, SetDataEnv
  <1>3. ASSUME NEW t \in cfg.threads, NEW u \in cfg.updates, Env(cfg)!Exec(t, u) PROVE EnvInv(cfg)'
    BY <1>3, ExecEnv
  <1>4. ASSUME NEW t \in cfg.threads, Env(cfg)!Masked(t) \/ Env(cfg)!Batched(t) \/ Env(cfg)!AsArglist(t)
               \/ Env(cfg)!ExecReturns(t)
        PROVE  EnvInv(cfg)'
    BY <1>4, MaskedEnv, BatchedEnv, AsArglistEnv, ExecReturnsEnv
  <1>5. ASSUME NEW p \in cfg.threads, NEW c \in cfg.threads, Env(cfg)!Inherit(p, c) PROVE EnvInv(cfg)'
    BY <1>5, InheritEnv
  <1>6. ASSUME NEW w \in cfg.lookups,
               Env(cfg)!Which(w) \/ Env(cfg)!Results(w) \/ Env(cfg)!Again(w)
               \/ \E d \in Env(cfg)!Dirs : Env(cfg)!Look(w, d) \/ Env(cfg)!Opened(w, d) \/ Env(cfg)!Check(w, d)
        PROVE  UNCHANGED Env(cfg)!envVars
    BY <1>6 DEF Env!Which, Env!Results, Env!Again, Env!Look, Env!Opened, Env!Check
  <1>7. CASE UNCHANGED Env(cfg)!vars
    BY <1>7, <1>1 DEF Env!vars
  <1> QED BY <1>1, <1>2, <1>3, <1>4, <1>5, <1>6, <1>7 DEF Env!Next

\* Provided that no variable changes once there is an array, an executed program is given
\* its thread's environment with the updates of its command, and nothing that an earlier
\* command or the parent thread had.
THEOREM ProgramEnvironment ==
    ASSUME NEW cfg, Env(cfg)!EnvironAssumption, ~cfg.changeAfter
    PROVE  Env(cfg)!Spec => []Env(cfg)!ProgramGetsEnviron
  <1>3. EnvInv(cfg) => Env(cfg)!ProgramGetsEnviron
    BY DEF EnvInv, EnvExecInv, Env!ProgramGetsEnviron
  <1> QED BY <1>3, InitEnv, NextEnv, PTL DEF Env!Spec

-----------------------------------------------------------------------------
(* Looking for an executable on PATH                                       *)

\* The first directory that has the executable.
FirstHolding(d) == d \in holds /\ \A e \in holds : d <= e

Tries == {"start", "opening", "fd", "none", "yes", "no"}
Lookup(cfg) == [pc : {"idle", "try", "found", "not_found"}, chunk : Nat,
           tried : [Env(cfg)!Dirs -> Tries], found : Nat]

\* The cache of opened directories is right, and so is what was found before.
CacheInv(cfg) ==
    /\ exists \subseteq Env(cfg)!Dirs /\ holds \subseteq exists
    /\ fds \in [Env(cfg)!Dirs -> {"unset", "fd", "none"}]
    /\ \A d \in Env(cfg)!Dirs : /\ fds[d] = "fd" => d \in exists
                                /\ fds[d] = "none" => d \notin exists
    /\ path_cache \in Nat /\ (path_cache # 0 => FirstHolding(path_cache))

\* What a lookup knows of the directories is so, and those of earlier chunks have nothing.
LookupInv(cfg, w) ==
    /\ which[w] \in Lookup(cfg)
    /\ \A d \in Env(cfg)!Dirs : /\ which[w].tried[d] = "fd" => d \in exists
                                /\ which[w].tried[d] = "none" => d \notin exists
                                /\ which[w].tried[d] = "yes" => d \in holds
                                /\ which[w].tried[d] = "no" => d \notin holds
    /\ which[w].pc = "try" => \A d \in holds : which[w].chunk <= (d - 1) \div ChunkSize
    /\ which[w].pc = "found" => FirstHolding(which[w].found)
    /\ which[w].pc = "not_found" => holds = {}

WhichInv(cfg) ==
    /\ CacheInv(cfg)
    /\ DOMAIN which = cfg.lookups /\ \A w \in cfg.lookups : LookupInv(cfg, w)

\* A set of numbers that has a member has a least one.
LEMMA HasLeast ==
    ASSUME NEW S \in SUBSET Nat, S # {}
    PROVE  \E d \in S : \A e \in S : d <= e
  <1> DEFINE R == OpToRel(<, Nat)
  <1>1. IsWellFoundedOn(R, Nat)
    BY NatLessThanWellFounded
  <1>2. R = {ss \in Nat \X Nat : ss[1] < ss[2]}
    BY DEF OpToRel
  <1> HIDE DEF R
  <1>3. PICK d \in S : \A y \in S : ~ (<<y, d>> \in R)
    BY <1>1, WFMin
  <1>4. ASSUME NEW e \in S PROVE d <= e
    <2>1. ~ (<<e, d>> \in R) /\ <<e, d>> \in Nat \X Nat /\ e \in Nat /\ d \in Nat
      BY <1>3
    <2>2. ~ (e < d)
      BY <2>1, <1>2
    <2> QED BY <2>1, <2>2
  <1> QED BY <1>4

\* Choose takes the least of a set.
LEMMA ChooseLeast ==
    ASSUME NEW cfg, NEW S \in SUBSET Nat, S # {}
    PROVE  Env(cfg)!Choose(S) \in S /\ \A e \in S : Env(cfg)!Choose(S) <= e
  BY HasLeast DEF Env!Choose

\* The chunks follow each other: what is in a later one is later on PATH.
LEMMA ChunksOrdered ==
    ASSUME NEW n \in Nat, NEW d \in Nat, NEW e \in Nat, ChunkSize \in Nat \ {0},
           d \div ChunkSize = n, n < e \div ChunkSize
    PROVE  d < e
  OBVIOUS

\* If a chunk is empty, so are those that follow.
LEMMA EmptyChunkIsLast ==
    ASSUME NEW cfg, Env(cfg)!EnvironAssumption, NEW n \in Nat, Env(cfg)!Chunk(n) = {}, NEW d \in Env(cfg)!Dirs
    PROVE  (d - 1) \div ChunkSize < n
  <1>1. ChunkSize \in Nat \ {0} /\ cfg.dirs \in Nat
    BY DEF Env!EnvironAssumption
  <1> SUFFICES ASSUME n <= (d - 1) \div ChunkSize PROVE FALSE
    BY <1>1 DEF Env!Dirs
  <1>2. PICK e \in Nat : e = d - 1
    BY DEF Env!Dirs
  <1>3. n * ChunkSize <= e
    BY <1>1, <1>2
  <1>4. (n * ChunkSize) \div ChunkSize = n /\ n * ChunkSize \in Nat
    BY <1>1
  <1>5. PICK m \in Nat : m = n * ChunkSize
    BY <1>4
  <1>6. m + 1 \in Env(cfg)!Dirs /\ (m + 1) - 1 = m
    BY <1>1, <1>2, <1>3, <1>5 DEF Env!Dirs
  <1>7. m + 1 \in Env(cfg)!Chunk(n)
    BY <1>4, <1>5, <1>6 DEF Env!Chunk
  <1> QED BY <1>7

\* No directory is opened, and nothing is looked for.
LEMMA InitWhich ==
    ASSUME NEW cfg
    PROVE  Env(cfg)!EnvironAssumption /\ Env(cfg)!Init => WhichInv(cfg)
  <1> SUFFICES ASSUME Env(cfg)!EnvironAssumption, Env(cfg)!Init PROVE WhichInv(cfg)
    OBVIOUS
  <1>1. CacheInv(cfg)
    BY DEF CacheInv, Env!Init
  <1>2. Env(cfg)!NotAsked \in Lookup(cfg) /\ Env(cfg)!NotAsked.pc = "idle"
        /\ \A d \in Env(cfg)!Dirs : Env(cfg)!NotAsked.tried[d] = "start"
    BY DEF Env!NotAsked, Lookup, Env!Untried, Tries
  <1>3. which = [w \in cfg.lookups |-> Env(cfg)!NotAsked]
    BY DEF Env!Init
  <1>4. ASSUME NEW w \in cfg.lookups PROVE LookupInv(cfg, w)
    BY <1>2, <1>3 DEF LookupInv
  <1> QED BY <1>1, <1>3, <1>4 DEF WhichInv

\* A step of one lookup that only changes its own record, to one that satisfies the
\* invariant.
LEMMA OneLookup ==
    ASSUME NEW cfg, WhichInv(cfg), CacheInv(cfg)', UNCHANGED <<exists, holds>>,
           NEW w \in cfg.lookups, NEW r \in Lookup(cfg), which' = [which EXCEPT ![w] = r],
           \A d \in Env(cfg)!Dirs : /\ r.tried[d] = "fd" => d \in exists
                                    /\ r.tried[d] = "none" => d \notin exists
                                    /\ r.tried[d] = "yes" => d \in holds
                                    /\ r.tried[d] = "no" => d \notin holds,
           r.pc = "try" => \A d \in holds : r.chunk <= (d - 1) \div ChunkSize,
           r.pc = "found" => FirstHolding(r.found),
           r.pc = "not_found" => holds = {}
    PROVE  WhichInv(cfg)'
  <1>1. DOMAIN which' = cfg.lookups
    BY DEF WhichInv
  <1>2. ASSUME NEW v \in cfg.lookups PROVE LookupInv(cfg, v)'
    <2>1. CASE v = w
      <3>1. which'[v] = r
        BY <2>1 DEF WhichInv
      <3> QED BY <3>1 DEF LookupInv, FirstHolding
    <2>2. CASE v # w
      <3>1. which'[v] = which[v] /\ LookupInv(cfg, v)
        BY <2>2 DEF WhichInv
      <3> QED BY <3>1 DEF LookupInv, FirstHolding
    <2> QED BY <2>1, <2>2
  <1> QED BY <1>1, <1>2 DEF WhichInv

\* A lookup that learns s of the directory d.
LEMMA OneTry ==
    ASSUME NEW cfg, WhichInv(cfg), CacheInv(cfg)', UNCHANGED <<exists, holds>>, NEW w \in cfg.lookups,
           NEW d \in Env(cfg)!Dirs, NEW s \in Tries, Env(cfg)!Here(w, d), Env(cfg)!Step(w, d, s),
           s = "fd" => d \in exists, s = "none" => d \notin exists,
           s = "yes" => d \in holds, s = "no" => d \notin holds
    PROVE  WhichInv(cfg)'
  <1>1. LookupInv(cfg, w) /\ which[w] \in Lookup(cfg) /\ which[w].pc = "try"
    BY DEF WhichInv, LookupInv, Env!Here
  <1>2. PICK r : r = [which[w] EXCEPT !.tried[d] = s]
    OBVIOUS
  <1>3. r \in Lookup(cfg) /\ r.pc = "try" /\ r.chunk = which[w].chunk
        /\ r.tried = [which[w].tried EXCEPT ![d] = s]
    BY <1>1, <1>2 DEF Lookup
  <1>4. which' = [which EXCEPT ![w] = r]
    BY <1>2 DEF Env!Step
  <1>5. \A e \in Env(cfg)!Dirs : r.tried[e] = IF e = d THEN s ELSE which[w].tried[e]
    BY <1>1, <1>3 DEF Lookup
  <1>6. \A e \in Env(cfg)!Dirs : /\ r.tried[e] = "fd" => e \in exists
                                 /\ r.tried[e] = "none" => e \notin exists
                                 /\ r.tried[e] = "yes" => e \in holds
                                 /\ r.tried[e] = "no" => e \notin holds
    BY <1>1, <1>5 DEF LookupInv
  <1>7. \A e \in holds : r.chunk <= (e - 1) \div ChunkSize
    BY <1>1, <1>3 DEF LookupInv
  <1> QED BY <1>3, <1>4, <1>6, <1>7, OneLookup

\* A lookup begins: from the cache, or with the first chunk.
LEMMA WhichWhich ==
    ASSUME NEW cfg, Env(cfg)!EnvironAssumption, WhichInv(cfg), NEW w \in cfg.lookups, Env(cfg)!Which(w)
    PROVE WhichInv(cfg)'
  <1>1. CacheInv(cfg)' /\ UNCHANGED <<exists, holds>>
    BY DEF WhichInv, CacheInv, FirstHolding, Env!Which
  <1>2. PICK r : r = IF path_cache # 0 THEN [Env(cfg)!NotAsked EXCEPT !.pc = "found", !.found = path_cache]
                                       ELSE [Env(cfg)!NotAsked EXCEPT !.pc = "try"]
    OBVIOUS
  <1>3. which' = [which EXCEPT ![w] = r]
    BY <1>2 DEF Env!Which
  <1>4. /\ r \in Lookup(cfg) /\ r.chunk = 0 /\ (\A d \in Env(cfg)!Dirs : r.tried[d] = "start")
        /\ r.pc = (IF path_cache # 0 THEN "found" ELSE "try")
        /\ path_cache # 0 => r.found = path_cache
    BY <1>2 DEF WhichInv, CacheInv, Env!NotAsked, Env!Untried, Lookup, Tries
  <1>5. \A d \in holds : r.chunk <= (d - 1) \div ChunkSize
    <2>1. ASSUME NEW d \in holds PROVE 0 <= (d - 1) \div ChunkSize
      <3>1. d \in 1..cfg.dirs /\ cfg.dirs \in Nat /\ ChunkSize \in Nat \ {0}
        BY DEF WhichInv, CacheInv, Env!Dirs, Env!EnvironAssumption
      <3> QED BY <3>1
    <2> QED BY <2>1, <1>4
  <1>6. path_cache # 0 => FirstHolding(path_cache)
    BY DEF WhichInv, CacheInv
  <1> QED BY <1>1, <1>3, <1>4, <1>5, <1>6, OneLookup

\* A directory of the chunk is opened, unless the cache has it.
LEMMA LookWhich ==
    ASSUME NEW cfg, WhichInv(cfg), NEW w \in cfg.lookups, NEW d \in Env(cfg)!Dirs, Env(cfg)!Look(w, d)
    PROVE WhichInv(cfg)'
  <1>1. CacheInv(cfg)' /\ UNCHANGED <<exists, holds>>
    BY DEF WhichInv, CacheInv, FirstHolding, Env!Look
  <1>2. PICK s : s = IF fds[d] = "unset" THEN "opening" ELSE fds[d]
    OBVIOUS
  <1>3. Env(cfg)!Here(w, d) /\ Env(cfg)!Step(w, d, s)
    BY <1>2 DEF Env!Look
  <1>4. s \in Tries /\ (s = "fd" => d \in exists) /\ (s = "none" => d \notin exists)
        /\ s # "yes" /\ s # "no"
    BY <1>2 DEF WhichInv, CacheInv, Tries
  <1> QED BY <1>1, <1>3, <1>4, OneTry

\* The open returns; the directory, or that there is none, is put into the cache.
LEMMA OpenedWhich ==
    ASSUME NEW cfg, WhichInv(cfg), ~cfg.openFails, NEW w \in cfg.lookups, NEW d \in Env(cfg)!Dirs, Env(cfg)!Opened(w, d)
    PROVE  WhichInv(cfg)'
  <1>1. PICK fd \in {"fd", "none"} :
            /\ (fd = "fd" => d \in exists) /\ (fd = "none" => d \notin exists)
            /\ fds' = [fds EXCEPT ![d] = fd] /\ Env(cfg)!Step(w, d, fd)
    BY DEF Env!Opened
  <1>2. Env(cfg)!Here(w, d) /\ UNCHANGED <<exists, holds, path_cache>>
    BY DEF Env!Opened
  <1>3. CacheInv(cfg)'
    BY <1>1, <1>2 DEF WhichInv, CacheInv, FirstHolding
  <1>4. fd \in Tries /\ fd # "yes" /\ fd # "no"
    BY DEF Tries
  <1> QED BY <1>1, <1>2, <1>3, <1>4, OneTry

\* The executable is looked for in an opened directory.
LEMMA CheckWhich ==
    ASSUME NEW cfg, WhichInv(cfg), NEW w \in cfg.lookups, NEW d \in Env(cfg)!Dirs, Env(cfg)!Check(w, d)
    PROVE WhichInv(cfg)'
  <1>1. CacheInv(cfg)' /\ UNCHANGED <<exists, holds>>
    BY DEF WhichInv, CacheInv, FirstHolding, Env!Check
  <1>2. PICK s : s = IF which[w].tried[d] = "fd" /\ d \in holds THEN "yes" ELSE "no"
    OBVIOUS
  <1>3. Env(cfg)!Here(w, d) /\ Env(cfg)!Step(w, d, s) /\ which[w].tried[d] \in {"fd", "none"}
    BY <1>2 DEF Env!Check
  <1>4. s \in Tries /\ s # "fd" /\ s # "none"
    BY <1>2 DEF Tries
  <1>5. (s = "yes" => d \in holds) /\ (s = "no" => d \notin holds)
    BY <1>2, <1>3 DEF WhichInv, LookupInv, CacheInv
  <1> QED BY <1>1, <1>3, <1>4, <1>5, OneTry

\* All of a chunk were tried: the first that has the executable, or the next chunk.
LEMMA ResultsWhich ==
    ASSUME NEW cfg, Env(cfg)!EnvironAssumption, WhichInv(cfg), NEW w \in cfg.lookups, Env(cfg)!Results(w)
    PROVE WhichInv(cfg)'
  <1>0. /\ LookupInv(cfg, w) /\ which[w] \in Lookup(cfg) /\ which[w].pc = "try" /\ UNCHANGED <<exists, holds, fds>>
        /\ \A d \in Env(cfg)!Chunk(which[w].chunk) : which[w].tried[d] \in {"yes", "no"}
        /\ which[w].chunk \in Nat /\ ChunkSize \in Nat \ {0} /\ cfg.dirs \in Nat
    BY DEF WhichInv, LookupInv, Lookup, Env!Results, Env!EnvironAssumption
  <1>1. PICK n \in Nat : n = which[w].chunk
    BY <1>0
  <1>2. PICK yes : yes = {d \in Env(cfg)!Chunk(n) : which[w].tried[d] = "yes"}
    OBVIOUS
  <1>3. \A d \in holds : d \in Env(cfg)!Dirs /\ d \in Nat /\ d - 1 \in Nat /\ n <= (d - 1) \div ChunkSize
    <2> SUFFICES ASSUME NEW d \in holds
                 PROVE  d \in Env(cfg)!Dirs /\ d \in Nat /\ d - 1 \in Nat /\ n <= (d - 1) \div ChunkSize
      OBVIOUS
    <2>1. d \in Env(cfg)!Dirs
      BY DEF WhichInv, CacheInv
    <2>2. d \in Nat /\ d - 1 \in Nat
      BY <1>0, <2>1 DEF Env!Dirs
    <2>3. n <= (d - 1) \div ChunkSize
      BY <1>0, <1>1 DEF LookupInv
    <2> QED BY <2>1, <2>2, <2>3
  <1>4. \A d \in holds : (d - 1) \div ChunkSize = n => d \in yes
    <2> SUFFICES ASSUME NEW d \in holds, (d - 1) \div ChunkSize = n PROVE d \in yes
      OBVIOUS
    <2>1. d \in Env(cfg)!Chunk(n) /\ d \in Env(cfg)!Dirs
      BY <1>3 DEF Env!Chunk
    <2>2. which[w].tried[d] # "no"
      BY <1>0, <2>1 DEF LookupInv
    <2> QED BY <1>0, <1>1, <1>2, <2>1, <2>2
  <1>5. yes \subseteq holds /\ yes \in SUBSET Nat /\ \A d \in yes : (d - 1) \div ChunkSize = n
    BY <1>0, <1>2 DEF LookupInv, Env!Chunk, Env!Dirs
  <1>6. CASE yes # {}
    <2>1. PICK f : f = Env(cfg)!Choose(yes)
      OBVIOUS
    <2>2. /\ path_cache' = f
          /\ which' = [which EXCEPT ![w].pc = "found", ![w].found = f]
      BY <1>1, <1>2, <1>6, <2>1 DEF Env!Results
    <2>3. f \in yes /\ f \in holds /\ f \in Nat /\ f # 0 /\ \A e \in yes : f <= e
      <3>1. f \in yes /\ \A e \in yes : f <= e
        BY <1>5, <1>6, <2>1, ChooseLeast
      <3>2. f \in holds /\ f \in Nat /\ f - 1 \in Nat
        BY <1>3, <1>5, <3>1
      <3> QED BY <3>1, <3>2
    <2>4. FirstHolding(f)
      <3>1. ASSUME NEW e \in holds PROVE f <= e
        <4>1. CASE e \in yes
          BY <4>1, <2>3
        <4>2. CASE e \notin yes
          <5>1. e \in Nat /\ e - 1 \in Nat /\ f - 1 \in Nat /\ (f - 1) \div ChunkSize = n
            BY <1>3, <1>5, <2>3
          <5>2. n # (e - 1) \div ChunkSize /\ n <= (e - 1) \div ChunkSize /\ (e - 1) \div ChunkSize \in Int
            BY <1>0, <1>3, <1>4, <4>2, <5>1
          <5>3. f - 1 < e - 1
            <6>1. n < (e - 1) \div ChunkSize
              BY <5>2
            <6> QED BY <1>0, <5>1, <6>1, ChunksOrdered
          <5> QED BY <5>1, <5>3, <2>3
        <4> QED BY <4>1, <4>2
      <3> QED BY <3>1, <2>3 DEF FirstHolding
    <2>5. CacheInv(cfg)'
      BY <1>0, <2>2, <2>3, <2>4 DEF WhichInv, CacheInv, FirstHolding
    <2>6. PICK r : r = [which[w] EXCEPT !.pc = "found", !.found = f]
      OBVIOUS
    <2>7. r \in Lookup(cfg) /\ r.pc = "found" /\ r.found = f /\ r.tried = which[w].tried
      BY <1>0, <2>3, <2>6 DEF Lookup
    <2>8. which' = [which EXCEPT ![w] = r]
      BY <2>2, <2>6 DEF WhichInv
    <2>9. \A d \in Env(cfg)!Dirs : /\ r.tried[d] = "fd" => d \in exists
                                   /\ r.tried[d] = "none" => d \notin exists
                                   /\ r.tried[d] = "yes" => d \in holds
                                   /\ r.tried[d] = "no" => d \notin holds
      BY <1>0, <2>7 DEF LookupInv
    <2> QED BY <1>0, <2>4, <2>5, <2>7, <2>8, <2>9, OneLookup
  <1>7. CASE yes = {} /\ Env(cfg)!Chunk(n + 1) = {}
    <2>1. /\ UNCHANGED path_cache
          /\ which' = [which EXCEPT ![w].pc = "not_found"]
      BY <1>1, <1>2, <1>7 DEF Env!Results
    <2>2. holds = {}
      <3> SUFFICES ASSUME NEW d \in holds PROVE FALSE
        OBVIOUS
      <3>1. (d - 1) \div ChunkSize < n + 1 /\ (d - 1) \div ChunkSize # n
        BY <1>3, <1>4, <1>7, EmptyChunkIsLast
      <3>2. (d - 1) \div ChunkSize \in Int
        BY <1>0, <1>3
      <3> QED BY <1>3, <3>1, <3>2
    <2>5. CacheInv(cfg)'
      BY <1>0, <2>1 DEF WhichInv, CacheInv, FirstHolding
    <2>6. PICK r : r = [which[w] EXCEPT !.pc = "not_found"]
      OBVIOUS
    <2>7. r \in Lookup(cfg) /\ r.pc = "not_found" /\ r.tried = which[w].tried
      BY <1>0, <2>6 DEF Lookup
    <2>8. which' = [which EXCEPT ![w] = r]
      BY <2>1, <2>6
    <2>9. \A d \in Env(cfg)!Dirs : /\ r.tried[d] = "fd" => d \in exists
                                   /\ r.tried[d] = "none" => d \notin exists
                                   /\ r.tried[d] = "yes" => d \in holds
                                   /\ r.tried[d] = "no" => d \notin holds
      BY <1>0, <2>7 DEF LookupInv
    <2> QED BY <1>0, <2>2, <2>5, <2>7, <2>8, <2>9, OneLookup
  <1>8. CASE yes = {} /\ Env(cfg)!Chunk(n + 1) # {}
    <2>1. /\ UNCHANGED path_cache
          /\ which' = [which EXCEPT ![w].chunk = n + 1]
      BY <1>1, <1>2, <1>8 DEF Env!Results
    <2>2. \A d \in holds : n + 1 <= (d - 1) \div ChunkSize
      <3> SUFFICES ASSUME NEW d \in holds PROVE n + 1 <= (d - 1) \div ChunkSize
        OBVIOUS
      <3>1. (d - 1) \div ChunkSize # n /\ n <= (d - 1) \div ChunkSize /\ (d - 1) \div ChunkSize \in Int
        BY <1>0, <1>3, <1>4, <1>8
      <3> QED BY <3>1
    <2>5. CacheInv(cfg)'
      BY <1>0, <2>1 DEF WhichInv, CacheInv, FirstHolding
    <2>6. PICK r : r = [which[w] EXCEPT !.chunk = n + 1]
      OBVIOUS
    <2>7. r \in Lookup(cfg) /\ r.pc = "try" /\ r.chunk = n + 1 /\ r.tried = which[w].tried
      BY <1>0, <2>6 DEF Lookup
    <2>8. which' = [which EXCEPT ![w] = r]
      BY <2>1, <2>6
    <2>9. \A d \in Env(cfg)!Dirs : /\ r.tried[d] = "fd" => d \in exists
                                   /\ r.tried[d] = "none" => d \notin exists
                                   /\ r.tried[d] = "yes" => d \in holds
                                   /\ r.tried[d] = "no" => d \notin holds
      BY <1>0, <2>7 DEF LookupInv
    <2> QED BY <1>0, <2>2, <2>5, <2>7, <2>8, <2>9, OneLookup
  <1> QED BY <1>6, <1>7, <1>8

\* A lookup that ended is made again.
LEMMA AgainWhich ==
    ASSUME NEW cfg, WhichInv(cfg), NEW w \in cfg.lookups, Env(cfg)!Again(w) PROVE WhichInv(cfg)'
  <1>1. CacheInv(cfg)' /\ UNCHANGED <<exists, holds>> /\ which' = [which EXCEPT ![w] = Env(cfg)!NotAsked]
    BY DEF WhichInv, CacheInv, FirstHolding, Env!Again
  <1>2. Env(cfg)!NotAsked \in Lookup(cfg) /\ Env(cfg)!NotAsked.pc = "idle"
        /\ \A d \in Env(cfg)!Dirs : Env(cfg)!NotAsked.tried[d] = "start"
    BY DEF Env!NotAsked, Lookup, Env!Untried, Tries
  <1> QED BY <1>1, <1>2, OneLookup

\* Any step keeps the invariant.
LEMMA NextWhich ==
    ASSUME NEW cfg, Env(cfg)!EnvironAssumption, ~cfg.openFails
    PROVE  WhichInv(cfg) /\ [Env(cfg)!Next]_(Env(cfg)!vars) => WhichInv(cfg)'
  <1> SUFFICES ASSUME WhichInv(cfg), [Env(cfg)!Next]_(Env(cfg)!vars) PROVE WhichInv(cfg)'
    OBVIOUS
  <1>1. CASE UNCHANGED Env(cfg)!pathVars
    BY <1>1 DEF Env!pathVars, WhichInv, CacheInv, LookupInv, FirstHolding
  <1>2. ASSUME NEW t \in cfg.threads,
               \/ \E e \in cfg.envs : Env(cfg)!SetData(t, e)
               \/ \E u \in cfg.updates : Env(cfg)!Exec(t, u)
               \/ Env(cfg)!Masked(t) \/ Env(cfg)!Batched(t) \/ Env(cfg)!AsArglist(t) \/ Env(cfg)!ExecReturns(t)
        PROVE  UNCHANGED Env(cfg)!pathVars
    BY <1>2 DEF Env!SetData, Env!Exec, Env!Masked, Env!Batched, Env!AsArglist, Env!ExecReturns
  <1>3. ASSUME NEW p \in cfg.threads, NEW c \in cfg.threads, Env(cfg)!Inherit(p, c)
        PROVE  UNCHANGED Env(cfg)!pathVars
    BY <1>3 DEF Env!Inherit
  <1>4. ASSUME NEW w \in cfg.lookups, Env(cfg)!Which(w) \/ Env(cfg)!Results(w) \/ Env(cfg)!Again(w)
        PROVE  WhichInv(cfg)'
    BY <1>4, WhichWhich, ResultsWhich, AgainWhich
  <1>5. ASSUME NEW w \in cfg.lookups, NEW d \in Env(cfg)!Dirs,
               Env(cfg)!Look(w, d) \/ Env(cfg)!Opened(w, d) \/ Env(cfg)!Check(w, d)
        PROVE  WhichInv(cfg)'
    BY <1>5, LookWhich, OpenedWhich, CheckWhich
  <1>6. CASE UNCHANGED Env(cfg)!vars
    BY <1>6, <1>1 DEF Env!vars
  <1> QED BY <1>1, <1>2, <1>3, <1>4, <1>5, <1>6 DEF Env!Next

\* As long as a directory that is there can be opened, which finds the first directory on
\* PATH that has the executable, whatever other lookups leave in the cache meanwhile, and
\* says that there is none only if there is none.
THEOREM WhichFindsFirst ==
    ASSUME NEW cfg, Env(cfg)!EnvironAssumption, ~cfg.openFails
    PROVE  Env(cfg)!Spec => []Env(cfg)!FindsFirst
  <1>3. WhichInv(cfg) => Env(cfg)!FindsFirst
    BY DEF WhichInv, LookupInv, FirstHolding, Env!FindsFirst
  <1> QED BY <1>3, InitWhich, NextWhich, PTL DEF Env!Spec

-----------------------------------------------------------------------------
(* The process tree                                                        *)

\* Its number is in use: by a process, or by a group that has a member.
Held(cfg, q) == Tree(cfg)!There(q) \/ \E m \in Tree(cfg)!Procs : Tree(cfg)!There(m) /\ group[m] = q

TreeTypes(cfg) ==
    /\ st \in [Tree(cfg)!Procs -> {"none", "live", "zombie", "gone"}]
    /\ parent \in [Tree(cfg)!Procs -> Tree(cfg)!Procs \cup {Tree(cfg)!Outside}]
    /\ ns \in [Tree(cfg)!Procs -> Tree(cfg)!Procs] /\ pid \in [Tree(cfg)!Procs -> [Tree(cfg)!Procs -> Nat]]
    /\ group \in [Tree(cfg)!Procs -> Tree(cfg)!Procs] /\ owner \in [Tree(cfg)!Procs -> Tree(cfg)!Procs \cup {Tree(cfg)!None}]
    /\ monitor \in [Tree(cfg)!Procs -> [sigfd : Tree(cfg)!Procs \cup {Tree(cfg)!None}, use_clone_parent : BOOLEAN]]

\* No two that hold a number of a namespace hold the same one.
NumbersDiffer(cfg) ==
    \A q, r \in Tree(cfg)!Procs : Held(cfg, q) /\ Held(cfg, r) =>
        \A n \in Tree(cfg)!Procs : pid[q][n] = pid[r][n] /\ pid[q][n] # 0 => q = r

\* Processes that were not cloned yet are nobody's namespace, group or owner.
NotCloned(cfg) ==
    \A q \in Tree(cfg)!Procs :
        /\ st[q] = "none" => owner[q] = Tree(cfg)!None /\ monitor[q] = Tree(cfg)!NoMonitor
        /\ st[ns[q]] # "none" /\ st[group[q]] # "none"
        /\ \A n \in Tree(cfg)!Procs : pid[q][n] # 0 => st[q] # "none" /\ st[n] # "none"

\* A handle has a number in its owner's namespace, and while the owner lives it is the
\* parent, and the only one to reap the process.
OwnedInv(cfg, p) ==
    /\ p \in cfg.others /\ st[p] # "none" => owner[p] # Tree(cfg)!None
    /\ owner[p] # Tree(cfg)!None =>
           /\ st[owner[p]] # "none" /\ pid[p][ns[owner[p]]] # 0
           /\ Tree(cfg)!There(p) /\ st[owner[p]] = "live" => parent[p] = owner[p]
           /\ st[p] = "gone" /\ st[owner[p]] = "live" => p \in dead

\* A thread that shares its parent's monitor is in its parent's namespace.
MonitorInv(cfg, t) ==
    monitor[t] # Tree(cfg)!NoMonitor =>
        IF monitor[t].use_clone_parent
        THEN owner[t] # Tree(cfg)!None /\ monitor[t].sigfd = owner[t] /\ ns[t] = ns[owner[t]]
        ELSE monitor[t].sigfd = t

TreeInv(cfg) ==
    /\ TreeTypes(cfg) /\ NumbersDiffer(cfg) /\ NotCloned(cfg)
    /\ \A p \in Tree(cfg)!Procs : OwnedInv(cfg, p) /\ MonitorInv(cfg, p)

\* There is the first process alone, with its own monitor.
LEMMA InitTree ==
    ASSUME NEW cfg
    PROVE  Tree(cfg)!ProcessTreeAssumption /\ Tree(cfg)!Init => TreeInv(cfg)
  <1> SUFFICES ASSUME Tree(cfg)!ProcessTreeAssumption, Tree(cfg)!Init PROVE TreeInv(cfg)
    OBVIOUS
  <1>1. TreeTypes(cfg)
    BY DEF TreeTypes, Tree!Init, Tree!NoMonitor, Tree!Procs
  <1>2. NumbersDiffer(cfg)
    BY DEF NumbersDiffer, Tree!Init, Tree!Procs
  <1>3. NotCloned(cfg)
    BY DEF NotCloned, Tree!Init, Tree!Procs
  <1>4. ASSUME NEW p \in Tree(cfg)!Procs PROVE OwnedInv(cfg, p) /\ MonitorInv(cfg, p)
    BY DEF OwnedInv, MonitorInv, Tree!Init, Tree!NoMonitor, Tree!Procs, Tree!ProcessTreeAssumption
  <1> QED BY <1>1, <1>2, <1>3, <1>4 DEF TreeInv

\* The process of a handle that can be borrowed is there, and the number is its own.
LEMMA Borrowed ==
    ASSUME NEW cfg, TreeInv(cfg), NEW p \in Tree(cfg)!Procs, Tree(cfg)!CanBorrow(p)
    PROVE  /\ owner[p] \in Tree(cfg)!Procs /\ ns[owner[p]] \in Tree(cfg)!Procs /\ Tree(cfg)!There(p)
              /\ Tree(cfg)!Near(p) # 0
           /\ \A q \in Tree(cfg)!Procs : Held(cfg, q) /\ pid[q][ns[owner[p]]] = Tree(cfg)!Near(p) => q = p
  <1>1. owner[p] # Tree(cfg)!None /\ st[owner[p]] = "live" /\ p \notin dead
    BY DEF Tree!CanBorrow, Tree!IsThread
  <1>2. owner[p] \in Tree(cfg)!Procs /\ ns[owner[p]] \in Tree(cfg)!Procs
    BY <1>1 DEF TreeInv, TreeTypes
  <1>3. st[p] # "none" /\ st[p] # "gone" /\ st[p] \in {"none", "live", "zombie", "gone"}
    BY <1>1 DEF TreeInv, TreeTypes, NotCloned, OwnedInv
  <1>4. Tree(cfg)!There(p) /\ Held(cfg, p)
    BY <1>3 DEF Tree!There, Held
  <1>5. Tree(cfg)!Near(p) # 0 /\ Tree(cfg)!Near(p) = pid[p][ns[owner[p]]]
    BY <1>1 DEF TreeInv, OwnedInv, Tree!Near
  <1> QED BY <1>2, <1>4, <1>5 DEF TreeInv, NumbersDiffer

\* A step that ends no reaping, changes no number, and keeps who is in use.
LEMMA KeepsNumbers ==
    ASSUME NEW cfg, TreeInv(cfg), UNCHANGED pid,
           \A q \in Tree(cfg)!Procs : Held(cfg, q)' => Held(cfg, q)
    PROVE  NumbersDiffer(cfg)'
  BY DEF TreeInv, NumbersDiffer

\* A process dies: a zombie until it is reaped; its children have another parent.
LEMMA DieTree ==
    ASSUME NEW cfg, Tree(cfg)!ProcessTreeAssumption, TreeInv(cfg), NEW p \in Tree(cfg)!Procs, Tree(cfg)!Die(p)
    PROVE  TreeInv(cfg)'
  <1>1. PICK victims \in SUBSET Tree(cfg)!Procs :
            /\ \A q \in victims : st[q] = "live"
            /\ st' = [q \in Tree(cfg)!Procs |-> IF q \in victims THEN "zombie" ELSE st[q]]
            /\ parent' \in [Tree(cfg)!Procs -> Tree(cfg)!Procs \cup {Tree(cfg)!Outside}]
            /\ \A q \in Tree(cfg)!Procs : parent[q] \notin victims => parent'[q] = parent[q]
    <2>1. Tree(cfg)!Killed(p) \in SUBSET Tree(cfg)!Procs /\ \A q \in Tree(cfg)!Killed(p) : st[q] = "live"
      BY DEF Tree!Killed
    <2>2. PICK victims : victims = Tree(cfg)!Killed(p)
      OBVIOUS
    <2>3. st' = [q \in Tree(cfg)!Procs |-> IF q \in victims THEN "zombie" ELSE st[q]]
      BY <2>2 DEF Tree!Die
    <2>4. /\ parent' \in [Tree(cfg)!Procs -> Tree(cfg)!Procs \cup {Tree(cfg)!Outside}]
          /\ \A q \in Tree(cfg)!Procs : parent[q] \notin victims => parent'[q] = parent[q]
      BY <2>2 DEF Tree!Die, TreeInv, TreeTypes
    <2> QED BY <2>1, <2>2, <2>3, <2>4
  <1>2. UNCHANGED <<ns, pid, group, owner, dead, monitor>>
    BY DEF Tree!Die
  <1>3. \A q \in Tree(cfg)!Procs : /\ st'[q] = "none" <=> st[q] = "none"
                                   /\ st'[q] = "gone" <=> st[q] = "gone"
                                   /\ st'[q] = "live" => st[q] = "live" /\ q \notin victims
                                   /\ Tree(cfg)!There(q)' <=> Tree(cfg)!There(q)
    BY <1>1 DEF Tree!There
  <1>4. TreeTypes(cfg)'
    BY <1>1, <1>2 DEF TreeInv, TreeTypes
  <1>5. NumbersDiffer(cfg)'
    BY <1>2, <1>3, KeepsNumbers DEF Held
  <1>6. NotCloned(cfg)'
    <2>1. \A q \in Tree(cfg)!Procs : ns[q] \in Tree(cfg)!Procs /\ group[q] \in Tree(cfg)!Procs
      BY DEF TreeInv, TreeTypes
    <2> QED BY <1>2, <1>3, <2>1 DEF TreeInv, NotCloned
  <1>7. ASSUME NEW q \in Tree(cfg)!Procs PROVE OwnedInv(cfg, q)' /\ MonitorInv(cfg, q)'
    <2>1. OwnedInv(cfg, q) /\ (owner[q] = Tree(cfg)!None \/ owner[q] \in Tree(cfg)!Procs)
      BY DEF TreeInv, TreeTypes
    <2>2. OwnedInv(cfg, q)'
      BY <1>1, <1>2, <1>3, <2>1 DEF OwnedInv
    <2>3. MonitorInv(cfg, q)'
      BY <1>2 DEF TreeInv, MonitorInv
    <2> QED BY <2>2, <2>3
  <1> QED BY <1>4, <1>5, <1>6, <1>7 DEF TreeInv

\* A process that is reaped: by its owner, if that lives.
LEMMA ReapTree ==
    ASSUME NEW cfg, TreeInv(cfg), NEW p \in Tree(cfg)!Procs, st[p] = "zombie",
           st' = [st EXCEPT ![p] = "gone"], UNCHANGED <<parent, ns, pid, group, owner, monitor>>,
           dead \subseteq dead',
           owner[p] # Tree(cfg)!None /\ st[owner[p]] = "live" => p \in dead'
    PROVE  TreeInv(cfg)'
  <1>1. \A q \in Tree(cfg)!Procs : /\ st'[q] = "none" <=> st[q] = "none"
                                   /\ q # p => st'[q] = st[q]
                                   /\ st'[q] = "live" <=> st[q] = "live"
                                   /\ Tree(cfg)!There(q)' => Tree(cfg)!There(q)
    BY DEF Tree!There, TreeInv, TreeTypes
  <1>2. TreeTypes(cfg)'
    BY DEF TreeInv, TreeTypes
  <1>3. NumbersDiffer(cfg)'
    BY <1>1, KeepsNumbers DEF Held
  <1>4. NotCloned(cfg)'
    <2>1. \A q \in Tree(cfg)!Procs : ns[q] \in Tree(cfg)!Procs /\ group[q] \in Tree(cfg)!Procs
      BY DEF TreeInv, TreeTypes
    <2> QED BY <1>1, <2>1 DEF TreeInv, NotCloned
  <1>5. ASSUME NEW q \in Tree(cfg)!Procs PROVE OwnedInv(cfg, q)' /\ MonitorInv(cfg, q)'
    <2>1. OwnedInv(cfg, q) /\ (owner[q] = Tree(cfg)!None \/ owner[q] \in Tree(cfg)!Procs)
      BY DEF TreeInv, TreeTypes
    <2>2. OwnedInv(cfg, q)'
      BY <1>1, <2>1 DEF OwnedInv
    <2>3. MonitorInv(cfg, q)'
      BY DEF TreeInv, MonitorInv
    <2> QED BY <2>2, <2>3
  <1> QED BY <1>2, <1>3, <1>4, <1>5 DEF TreeInv

\* An orphan is reaped by a process outside.
LEMMA OutsideReapsTree ==
    ASSUME NEW cfg, Tree(cfg)!ProcessTreeAssumption, TreeInv(cfg), NEW p \in Tree(cfg)!Procs, Tree(cfg)!OutsideReaps(p)
    PROVE  TreeInv(cfg)'
  <1>1. ~(owner[p] # Tree(cfg)!None /\ st[owner[p]] = "live")
    <2>1. st[p] = "zombie" /\ parent[p] = Tree(cfg)!Outside
      BY DEF Tree!OutsideReaps
    <2>2. owner[p] # Tree(cfg)!None => owner[p] # Tree(cfg)!Outside
      BY DEF TreeInv, TreeTypes, Tree!ProcessTreeAssumption
    <2> QED BY <2>1, <2>2 DEF TreeInv, OwnedInv, Tree!There
  <1> QED BY <1>1, ReapTree DEF Tree!OutsideReaps

\* waitid of the owner finds its child, reaps it and marks the handle dead.
LEMMA WaitidTree ==
    ASSUME NEW cfg, TreeInv(cfg), NEW p \in Tree(cfg)!Procs, Tree(cfg)!Waitid(p)
    PROVE  TreeInv(cfg)' /\ last' = Tree(cfg)!Call("waitid", p, {p})
  <1>1. PICK hit : /\ hit = {q \in Tree(cfg)!Find(ns[owner[p]], Tree(cfg)!Near(p)) : parent[q] = owner[p]
                      /\ st[q] = "zombie"}
                   /\ hit # {}
                   /\ st' = [q \in Tree(cfg)!Procs |-> IF q \in hit THEN "gone" ELSE st[q]]
                   /\ dead' = dead \cup {p} /\ last' = Tree(cfg)!Call("waitid", p, hit)
    BY DEF Tree!Waitid
  <1>2. hit = {p} /\ st[p] = "zombie"
    <2>1. ASSUME NEW q \in hit PROVE q = p /\ st[q] = "zombie"
      <3>1. q \in Tree(cfg)!Procs /\ Tree(cfg)!There(q) /\ pid[q][ns[owner[p]]] = Tree(cfg)!Near(p) /\ st[q] = "zombie"
        BY <1>1, <2>1 DEF Tree!Find
      <3>2. Held(cfg, q) /\ Tree(cfg)!CanBorrow(p)
        BY <3>1 DEF Held, Tree!Waitid
      <3> QED BY <3>1, <3>2, Borrowed
    <2> QED BY <1>1, <2>1
  <1>3. st' = [st EXCEPT ![p] = "gone"]
    BY <1>1, <1>2 DEF TreeInv, TreeTypes
  <1>4. UNCHANGED <<parent, ns, pid, group, owner, monitor>>
    BY DEF Tree!Waitid
  <1> QED BY <1>1, <1>2, <1>3, <1>4, ReapTree

\* A thread that executes a program is a process without a monitor.
LEMMA ExecTree ==
    ASSUME NEW cfg, TreeInv(cfg), NEW t \in Tree(cfg)!Procs, Tree(cfg)!Exec(t)
    PROVE  TreeInv(cfg)'
  <1>1. /\ monitor' = [monitor EXCEPT ![t] = Tree(cfg)!NoMonitor]
        /\ UNCHANGED <<st, parent, ns, pid, group, owner, dead>>
    BY DEF Tree!Exec
  <1>2. TreeTypes(cfg)'
    BY <1>1 DEF TreeInv, TreeTypes, Tree!NoMonitor
  <1>3. NumbersDiffer(cfg)'
    BY <1>1, KeepsNumbers DEF Held, Tree!There
  <1>4. NotCloned(cfg)'
    BY <1>1 DEF TreeInv, TreeTypes, NotCloned, Tree!NoMonitor
  <1>5. ASSUME NEW q \in Tree(cfg)!Procs PROVE OwnedInv(cfg, q)' /\ MonitorInv(cfg, q)'
    <2>1. OwnedInv(cfg, q)'
      BY <1>1 DEF TreeInv, OwnedInv, Tree!There
    <2>2. MonitorInv(cfg, q)'
      BY <1>1 DEF TreeInv, TreeTypes, MonitorInv, Tree!NoMonitor
    <2> QED BY <2>1, <2>2
  <1> QED BY <1>2, <1>3, <1>4, <1>5 DEF TreeInv

\* A step that at most moves one process to a group whose number is in use.
LEMMA GroupTree ==
    ASSUME NEW cfg, TreeInv(cfg), UNCHANGED <<st, parent, ns, pid, owner, dead, monitor>>,
           NEW p \in Tree(cfg)!Procs, NEW g \in Tree(cfg)!Procs, Held(cfg, g),
           group' = [group EXCEPT ![p] = g]
    PROVE  TreeInv(cfg)'
  <1>1. TreeTypes(cfg)'
    BY DEF TreeInv, TreeTypes
  <1>2. \A m \in Tree(cfg)!Procs : group'[m] = IF m = p THEN g ELSE group[m]
    BY DEF TreeInv, TreeTypes
  <1>3. NumbersDiffer(cfg)'
    <2>1. ASSUME NEW q \in Tree(cfg)!Procs, Held(cfg, q)' PROVE Held(cfg, q)
      BY <1>2, <2>1 DEF Held, Tree!There
    <2> QED BY <2>1, KeepsNumbers
  <1>4. NotCloned(cfg)'
    <2>1. st[g] # "none"
      BY DEF Held, Tree!There, TreeInv, NotCloned
    <2> QED BY <1>2, <2>1 DEF TreeInv, NotCloned
  <1>5. ASSUME NEW q \in Tree(cfg)!Procs PROVE OwnedInv(cfg, q)' /\ MonitorInv(cfg, q)'
    BY DEF TreeInv, OwnedInv, MonitorInv, Tree!There
  <1> QED BY <1>1, <1>3, <1>4, <1>5 DEF TreeInv

\* What Join makes of the groups, when the number is the handle's of q.
LEMMA JoinTree ==
    ASSUME NEW cfg, TreeInv(cfg), NEW p \in Tree(cfg)!Procs, st[p] = "live", NEW q \in Tree(cfg)!Procs,
           Tree(cfg)!CanBorrow(q),
           group' = Tree(cfg)!Join(p, ns[owner[q]], Tree(cfg)!Near(q))
    PROVE  /\ \E g \in Tree(cfg)!Procs : Held(cfg, g) /\ group' = [group EXCEPT ![p] = g]
           /\ p # q => group'[p] \in {group[p], q}
  <1>0. group \in [Tree(cfg)!Procs -> Tree(cfg)!Procs] /\ Tree(cfg)!There(p) /\ Held(cfg, p)
        /\ group[p] \in Tree(cfg)!Procs /\ Held(cfg, group[p])
    BY DEF TreeInv, TreeTypes, Held, Tree!There
  <1>1. PICK n \in Tree(cfg)!Procs : n = ns[owner[q]]
    BY Borrowed
  <1>2. PICK named : named = {m \in Tree(cfg)!Procs : Tree(cfg)!There(m) /\ pid[group[m]][n] = Tree(cfg)!Near(q)}
    OBVIOUS
  <1>3. CASE pid[p][n] = Tree(cfg)!Near(q)
    <2>1. group' = [group EXCEPT ![p] = p]
      BY <1>1, <1>3 DEF Tree!Join
    <2>2. p = q
      BY <1>0, <1>1, <1>3, Borrowed
    <2> QED BY <1>0, <2>1, <2>2
  <1>4. CASE pid[p][n] # Tree(cfg)!Near(q) /\ named = {}
    <2>1. group' = group
      BY <1>1, <1>2, <1>4 DEF Tree!Join
    <2>2. group' = [group EXCEPT ![p] = group[p]]
      BY <1>0, <2>1
    <2> QED BY <1>0, <2>1, <2>2
  <1>5. CASE pid[p][n] # Tree(cfg)!Near(q) /\ named # {}
    <2>1. PICK m \in named : group' = [group EXCEPT ![p] = group[m]]
      BY <1>1, <1>2, <1>5 DEF Tree!Join
    <2>2. m \in Tree(cfg)!Procs /\ Tree(cfg)!There(m) /\ pid[group[m]][n] = Tree(cfg)!Near(q)
      BY <1>2, <2>1
    <2>3. group[m] \in Tree(cfg)!Procs /\ Held(cfg, group[m])
      BY <1>0, <2>2 DEF Held
    <2>4. group[m] = q
      BY <1>1, <2>2, <2>3, Borrowed
    <2> QED BY <1>0, <2>1, <2>3, <2>4
  <1> QED BY <1>3, <1>4, <1>5

\* setpgid of a thread, of its own or of the group of a child it may borrow.
LEMMA TaskSetpgidTree ==
    ASSUME NEW cfg, TreeInv(cfg), NEW t \in Tree(cfg)!Procs, NEW q \in Tree(cfg)!Procs, Tree(cfg)!TaskSetpgid(t, q)
    PROVE  TreeInv(cfg)' /\ Tree(cfg)!JoinsGroupAsked'
  <1>1. /\ st[t] = "live" /\ UNCHANGED <<st, parent, ns, pid, owner, dead, monitor>>
        /\ last' = Tree(cfg)!Call("setpgid", t, IF group'[t] = group[t] THEN {} ELSE {q})
    BY DEF Tree!TaskSetpgid, Tree!IsThread
  <1>2. Held(cfg, t) /\ group \in [Tree(cfg)!Procs -> Tree(cfg)!Procs]
    BY <1>1 DEF Held, Tree!There, TreeInv, TreeTypes
  <1>3. /\ \E g \in Tree(cfg)!Procs : Held(cfg, g) /\ group' = [group EXCEPT ![t] = g]
        /\ group'[t] \in {group[t], q}
    <2>1. CASE q = t
      <3>1. group' = [group EXCEPT ![t] = t]
        BY <2>1 DEF Tree!TaskSetpgid
      <3> QED BY <1>2, <2>1, <3>1
    <2>2. CASE q # t
      <3>1. Tree(cfg)!CanBorrow(q) /\ ns[owner[q]] = ns[t] /\ group' = Tree(cfg)!Join(t, ns[t], Tree(cfg)!Near(q))
        BY <2>2 DEF Tree!TaskSetpgid, Tree!SamePidns
      <3>2. group' = Tree(cfg)!Join(t, ns[owner[q]], Tree(cfg)!Near(q))
        BY <3>1
      <3> QED BY <1>1, <2>2, <3>1, <3>2, JoinTree
    <2> QED BY <2>1, <2>2
  <1>4. TreeInv(cfg)'
    BY <1>1, <1>3, GroupTree
  <1>5. Tree(cfg)!JoinsGroupAsked'
    BY <1>1, <1>3 DEF Tree!JoinsGroupAsked, Tree!Call
  <1> QED BY <1>4, <1>5

\* setpgid of a child, by its parent.
LEMMA ChildSetpgidTree ==
    ASSUME NEW cfg, TreeInv(cfg), NEW p \in Tree(cfg)!Procs, NEW q \in Tree(cfg)!Procs, Tree(cfg)!ChildSetpgid(p, q)
    PROVE  TreeInv(cfg)'
  <1>1. /\ st[p] = "live" /\ UNCHANGED <<st, parent, ns, pid, owner, dead, monitor>>
        /\ Tree(cfg)!CanBorrow(p) /\ group' = Tree(cfg)!Join(p, ns[owner[p]], Tree(cfg)!Near(p))
    BY DEF Tree!ChildSetpgid
  <1> QED BY <1>1, JoinTree, GroupTree

\* clone: the number is free, and the handle goes to the task that will be the parent.
LEMMA CloneTree ==
    ASSUME NEW cfg, Tree(cfg)!ProcessTreeAssumption, TreeInv(cfg), NEW t \in Tree(cfg)!Procs, NEW p \in cfg.others,
           NEW newpid \in BOOLEAN, Tree(cfg)!Clone(t, p, newpid)
    PROVE  TreeInv(cfg)'
  <1>0. /\ st[t] = "live" /\ monitor[t] # Tree(cfg)!NoMonitor /\ st[p] = "none" /\ p # t /\ p \in Tree(cfg)!Procs
        /\ p # Root /\ UNCHANGED dead
    BY DEF Tree!Clone, Tree!IsThread, Tree!Procs, Tree!ProcessTreeAssumption
  <1>1. PICK o : o = Tree(cfg)!OwningTask(t)
    OBVIOUS
  <1>2. /\ o \in Tree(cfg)!Procs /\ o = monitor[t].sigfd /\ ns[o] = ns[t] /\ st[o] # "none"
        /\ IF monitor[t].use_clone_parent THEN o = owner[t] ELSE o = t
    <2>1. CASE monitor[t].use_clone_parent
      BY <1>0, <1>1, <2>1 DEF Tree!OwningTask, Tree!UseCloneParent, TreeInv, TreeTypes, MonitorInv, OwnedInv
    <2>2. CASE ~monitor[t].use_clone_parent
      BY <1>0, <1>1, <2>2 DEF Tree!OwningTask, Tree!UseCloneParent, TreeInv, MonitorInv
    <2> QED BY <2>1, <2>2
  <1>3. PICK anc \in SUBSET Tree(cfg)!Procs : anc = Tree(cfg)!Ancestors(ns[t])
    BY DEF Tree!Ancestors, TreeInv, TreeTypes
  <1>4. ns[t] \in anc /\ p \notin anc /\ \A a \in anc : st[a] # "none"
    <2>1. ns[t] \in Tree(cfg)!Procs /\ st[ns[t]] # "none"
      BY DEF TreeInv, TreeTypes, NotCloned
    <2> QED BY <1>0, <1>3, <2>1 DEF Tree!Ancestors, TreeInv, NotCloned
  <1>5. PICK numbers \in [anc -> 1..MaxPid] :
            /\ \A n \in anc : numbers[n] \in Tree(cfg)!FreePids(n)
            /\ pid' = [pid EXCEPT ![p] = [n \in Tree(cfg)!Procs |-> IF n \in anc THEN numbers[n]
                                                        ELSE IF newpid /\ n = p THEN 1 ELSE 0]]
    <2>1. PICK numbers \in [Tree(cfg)!Ancestors(ns[t]) -> 1..MaxPid] :
            /\ \A n \in Tree(cfg)!Ancestors(ns[t]) : numbers[n] \in Tree(cfg)!FreePids(n)
            /\ pid' = [pid EXCEPT ![p] = [n \in Tree(cfg)!Procs |-> IF n \in Tree(cfg)!Ancestors(ns[t]) THEN numbers[n]
                                                        ELSE IF newpid /\ n = p THEN 1 ELSE 0]]
      BY DEF Tree!Clone
    <2>2. pid' = [pid EXCEPT ![p] = [n \in Tree(cfg)!Procs |-> IF n \in anc THEN numbers[n]
                                                        ELSE IF newpid /\ n = p THEN 1 ELSE 0]]
      BY <2>1, <1>3, Zenon
    <2> QED BY <2>1, <2>2, <1>3, Zenon
  <1>6. /\ st' = [st EXCEPT ![p] = "live"]
        /\ parent' = [parent EXCEPT ![p] = IF monitor[t].use_clone_parent THEN parent[t] ELSE t]
        /\ ns' = [ns EXCEPT ![p] = IF newpid THEN p ELSE ns[t]]
        /\ group' = [group EXCEPT ![p] = group[t]]
        /\ owner' = [owner EXCEPT ![p] = o]
    BY <1>1, <1>2 DEF Tree!Clone, Tree!UseCloneParent
  <1>7. monitor' = [monitor EXCEPT ![p] = IF newpid THEN [sigfd |-> p, use_clone_parent |-> FALSE]
                                          ELSE [sigfd |-> o, use_clone_parent |-> TRUE]]
    <2>1. owner'[p] = o
      BY <1>0, <1>6 DEF TreeInv, TreeTypes
    <2> QED BY <1>2, <2>1 DEF Tree!Clone, Tree!ChildMonitorOf
  <1>8. TreeTypes(cfg)'
    <2>1. MaxPid \in Nat /\ \A n \in anc : numbers[n] \in Nat
      BY <1>5 DEF Tree!ProcessTreeAssumption
    <2>2. pid' \in [Tree(cfg)!Procs -> [Tree(cfg)!Procs -> Nat]]
      BY <1>5, <2>1 DEF TreeInv, TreeTypes
    <2>3. monitor' \in [Tree(cfg)!Procs -> [sigfd : Tree(cfg)!Procs \cup {Tree(cfg)!None}, use_clone_parent : BOOLEAN]]
      BY <1>0, <1>2, <1>7 DEF TreeInv, TreeTypes
    <2> QED BY <1>0, <1>2, <1>6, <2>2, <2>3 DEF TreeInv, TreeTypes
  <1>9. /\ \A q \in Tree(cfg)!Procs : q # p => /\ st'[q] = st[q] /\ parent'[q] = parent[q] /\ ns'[q] = ns[q]
                                               /\ group'[q] = group[q] /\ owner'[q] = owner[q]
                                               /\ monitor'[q] = monitor[q] /\ pid'[q] = pid[q]
        /\ st'[p] = "live" /\ ns'[p] = (IF newpid THEN p ELSE ns[t]) /\ group'[p] = group[t] /\ owner'[p] = o
        /\ parent'[p] = (IF monitor[t].use_clone_parent THEN parent[t] ELSE t)
        /\ monitor'[p] = (IF newpid THEN [sigfd |-> p, use_clone_parent |-> FALSE]
                                    ELSE [sigfd |-> o, use_clone_parent |-> TRUE])
        /\ \A n \in Tree(cfg)!Procs : pid'[p][n] = IF n \in anc THEN numbers[n] ELSE IF newpid /\ n = p THEN 1 ELSE 0
    BY <1>0, <1>5, <1>6, <1>7 DEF TreeInv, TreeTypes
  <1>10. NumbersDiffer(cfg)'
    <2>1. ASSUME NEW q \in Tree(cfg)!Procs, Held(cfg, q)', q # p PROVE Held(cfg, q)
      <3>1. CASE Tree(cfg)!There(q)'
        BY <1>9, <2>1, <3>1 DEF Held, Tree!There
      <3>2. ASSUME NEW m \in Tree(cfg)!Procs, Tree(cfg)!There(m)', group'[m] = q PROVE Held(cfg, q)
        <4>1. CASE m = p
          BY <1>0, <1>9, <3>2, <4>1 DEF Held, Tree!There
        <4>2. CASE m # p
          BY <1>9, <3>2, <4>2 DEF Held, Tree!There
        <4> QED BY <4>1, <4>2
      <3> QED BY <2>1, <3>1, <3>2 DEF Held
    <2>2. ASSUME NEW q \in Tree(cfg)!Procs, Held(cfg, q), q # p, NEW n \in Tree(cfg)!Procs, pid'[p][n] # 0
          PROVE  pid[q][n] # pid'[p][n]
      <3>1. CASE n \in anc
        <4>1. pid'[p][n] = numbers[n] /\ numbers[n] \notin Tree(cfg)!Taken(n)
          BY <1>5, <1>9, <3>1 DEF Tree!FreePids
        <4>2. pid[q][n] \in Tree(cfg)!Taken(n)
          BY <2>2 DEF Tree!Taken, Held
        <4> QED BY <4>1, <4>2
      <3>2. CASE n \notin anc
        <4>1. n = p
          BY <1>9, <2>2, <3>2
        <4>2. pid[q][n] = 0
          BY <1>0, <4>1 DEF TreeInv, NotCloned
        <4> QED BY <4>2, <2>2
      <3> QED BY <3>1, <3>2
    <2>3. ASSUME NEW q \in Tree(cfg)!Procs, NEW r \in Tree(cfg)!Procs, Held(cfg, q)', Held(cfg, r)',
                 NEW n \in Tree(cfg)!Procs, pid'[q][n] = pid'[r][n], pid'[q][n] # 0
          PROVE  q = r
      <3>1. CASE q # p /\ r # p
        BY <1>9, <2>1, <2>3, <3>1 DEF TreeInv, NumbersDiffer
      <3>2. CASE q = p /\ r # p
        BY <1>9, <2>1, <2>2, <2>3, <3>2
      <3>3. CASE q # p /\ r = p
        BY <1>9, <2>1, <2>2, <2>3, <3>3
      <3> QED BY <3>1, <3>2, <3>3
    <2> QED BY <2>3 DEF NumbersDiffer
  <1>11. NotCloned(cfg)'
    <2>1. ASSUME NEW q \in Tree(cfg)!Procs, st'[q] = "none"
          PROVE  owner'[q] = Tree(cfg)!None /\ monitor'[q] = Tree(cfg)!NoMonitor
      <3>1. q # p /\ st[q] = "none" /\ owner'[q] = owner[q] /\ monitor'[q] = monitor[q]
        BY <1>9, <2>1
      <3> QED BY <3>1 DEF TreeInv, NotCloned
    <2>2. ASSUME NEW q \in Tree(cfg)!Procs PROVE st'[ns'[q]] # "none" /\ st'[group'[q]] # "none"
      <3>1. \A u \in Tree(cfg)!Procs : ns[u] \in Tree(cfg)!Procs /\ group[u] \in Tree(cfg)!Procs /\ st[ns[u]] # "none"
            /\ st[group[u]] # "none"
        BY DEF TreeInv, TreeTypes, NotCloned
      <3>2. \A u \in Tree(cfg)!Procs : st[u] # "none" => st'[u] # "none"
        BY <1>9
      <3> QED BY <1>0, <1>9, <3>1, <3>2
    <2>3. ASSUME NEW q \in Tree(cfg)!Procs, NEW n \in Tree(cfg)!Procs, pid'[q][n] # 0
          PROVE  st'[q] # "none" /\ st'[n] # "none"
      <3>1. CASE q = p
        BY <1>4, <1>9, <2>3, <3>1
      <3>2. CASE q # p
        BY <1>9, <2>3, <3>2 DEF TreeInv, NotCloned
      <3> QED BY <3>1, <3>2
    <2> QED BY <2>1, <2>2, <2>3 DEF NotCloned, Tree!NoMonitor
  <1>12. ASSUME NEW q \in Tree(cfg)!Procs PROVE OwnedInv(cfg, q)' /\ MonitorInv(cfg, q)'
    <2>1. CASE q = p
      <3>1. o # Tree(cfg)!None /\ o # p
        BY <1>0, <1>2 DEF Tree!ProcessTreeAssumption
      <3>2. ns'[o] = ns[t] /\ ns[t] \in Tree(cfg)!Procs /\ pid'[p][ns[t]] # 0
        BY <1>2, <1>3, <1>4, <1>5, <1>9, <3>1 DEF Tree!ProcessTreeAssumption
      <3>3. st'[o] = "live" => parent'[p] = o
        <4>1. CASE monitor[t].use_clone_parent
          BY <1>0, <1>2, <1>9, <3>1, <4>1 DEF TreeInv, OwnedInv, Tree!There
        <4>2. CASE ~monitor[t].use_clone_parent
          BY <1>2, <1>9, <4>2
        <4> QED BY <4>1, <4>2
      <3>4. OwnedInv(cfg, p)'
        BY <1>2, <1>9, <3>1, <3>2, <3>3 DEF OwnedInv
      <3>5. MonitorInv(cfg, p)'
        BY <1>2, <1>9, <3>1, <3>2 DEF MonitorInv
      <3> QED BY <2>1, <3>4, <3>5
    <2>2. CASE q # p
      <3>1. OwnedInv(cfg, q) /\ MonitorInv(cfg, q) /\ (owner[q] = Tree(cfg)!None \/ owner[q] \in Tree(cfg)!Procs)
        BY DEF TreeInv, TreeTypes
      <3>2. owner[q] # Tree(cfg)!None => owner[q] # p
        BY <1>0, <3>1 DEF OwnedInv
      <3>3. OwnedInv(cfg, q)'
        BY <1>0, <1>9, <2>2, <3>1, <3>2 DEF OwnedInv, Tree!There
      <3>4. MonitorInv(cfg, q)'
        BY <1>9, <2>2, <3>1, <3>2 DEF MonitorInv, Tree!NoMonitor
      <3> QED BY <3>3, <3>4
    <2> QED BY <2>1, <2>2
  <1> QED BY <1>8, <1>10, <1>11, <1>12 DEF TreeInv

\* A step that changes none of the processes and handles.
LEMMA StillTree ==
    ASSUME NEW cfg, TreeInv(cfg), UNCHANGED <<st, parent, ns, pid, group, owner, dead, monitor>>
    PROVE  TreeInv(cfg)'
  <1>1. TreeTypes(cfg)'
    BY DEF TreeInv, TreeTypes
  <1>2. NumbersDiffer(cfg)'
    BY KeepsNumbers DEF Held, Tree!There
  <1>3. NotCloned(cfg)'
    BY DEF TreeInv, NotCloned, Tree!NoMonitor
  <1>4. ASSUME NEW q \in Tree(cfg)!Procs PROVE OwnedInv(cfg, q)' /\ MonitorInv(cfg, q)'
    BY DEF TreeInv, OwnedInv, MonitorInv, Tree!There, Tree!NoMonitor
  <1> QED BY <1>1, <1>2, <1>3, <1>4 DEF TreeInv

\* What the sig_calls on handles hit.
LEMMA HitsTree ==
    ASSUME NEW cfg, TreeInv(cfg), NEW p \in Tree(cfg)!Procs, Tree(cfg)!Kill(p) \/ Tree(cfg)!Killpg(p)
    PROVE  TreeInv(cfg)' /\ Tree(cfg)!HitsOwn' /\ Tree(cfg)!JoinsGroupAsked'
  <1>1. UNCHANGED <<st, parent, ns, pid, group, owner, dead, monitor>> /\ Tree(cfg)!CanBorrow(p)
    BY DEF Tree!Kill, Tree!Killpg
  <1>2. TreeInv(cfg)'
    BY <1>1, StillTree
  <1>3. CASE Tree(cfg)!Kill(p)
    <2>1. last' = Tree(cfg)!Call("kill", p, Tree(cfg)!Find(ns[owner[p]], Tree(cfg)!Near(p)))
      BY <1>3 DEF Tree!Kill
    <2>2. ASSUME NEW q \in Tree(cfg)!Find(ns[owner[p]], Tree(cfg)!Near(p)) PROVE q = p
      <3>1. q \in Tree(cfg)!Procs /\ Held(cfg, q) /\ pid[q][ns[owner[p]]] = Tree(cfg)!Near(p)
        BY <2>2 DEF Tree!Find, Held
      <3> QED BY <1>1, <3>1, Borrowed
    <2>3. last'.op = "kill" /\ last'.hit \subseteq {p} /\ last'.on = p
      BY <2>1, <2>2 DEF Tree!Call
    <2> QED BY <1>2, <2>3 DEF Tree!HitsOwn, Tree!JoinsGroupAsked
  <1>4. CASE Tree(cfg)!Killpg(p)
    <2>1. last' = Tree(cfg)!Call("killpg", p, Tree(cfg)!Members(ns[owner[p]], Tree(cfg)!Near(p)))
      BY <1>4 DEF Tree!Killpg
    <2>2. ASSUME NEW q \in Tree(cfg)!Members(ns[owner[p]], Tree(cfg)!Near(p)) PROVE group[q] = p
      <3>1. q \in Tree(cfg)!Procs /\ st[q] = "live" /\ pid[group[q]][ns[owner[p]]] = Tree(cfg)!Near(p)
        BY <2>2 DEF Tree!Members
      <3>2. group[q] \in Tree(cfg)!Procs /\ Held(cfg, group[q])
        BY <3>1 DEF Held, Tree!There, TreeInv, TreeTypes
      <3> QED BY <1>1, <3>1, <3>2, Borrowed
    <2>3. last'.op = "killpg" /\ (\A q \in last'.hit : group'[q] = p) /\ last'.on = p
      BY <1>1, <2>1, <2>2 DEF Tree!Call
    <2> QED BY <1>2, <2>3 DEF Tree!HitsOwn, Tree!JoinsGroupAsked
  <1> QED BY <1>3, <1>4

\* The invariant, and what is said of the last step.
TreeSafe(cfg) == TreeInv(cfg) /\ Tree(cfg)!HitsOwn /\ Tree(cfg)!JoinsGroupAsked

\* There is the first process, and no step yet.
LEMMA InitSafe ==
    ASSUME NEW cfg, Tree(cfg)!ProcessTreeAssumption
    PROVE  Tree(cfg)!Init => TreeSafe(cfg)
  <1>1. Tree(cfg)!Init => Tree(cfg)!HitsOwn /\ Tree(cfg)!JoinsGroupAsked
    BY DEF Tree!Init, Tree!HitsOwn, Tree!JoinsGroupAsked, Tree!Idle, Tree!Call
  <1> QED BY <1>1, InitTree DEF TreeSafe

\* Any step keeps the invariant and does what it is meant to.
LEMMA NextSafe ==
    ASSUME NEW cfg, Tree(cfg)!ProcessTreeAssumption
    PROVE  TreeSafe(cfg) /\ [Tree(cfg)!Next]_(Tree(cfg)!vars) => TreeSafe(cfg)'
  <1> SUFFICES ASSUME TreeSafe(cfg), [Tree(cfg)!Next]_(Tree(cfg)!vars) PROVE TreeSafe(cfg)'
    OBVIOUS
  <1>0. TreeInv(cfg)
    BY DEF TreeSafe
  <1>1. ASSUME last'.op \notin {"kill", "waitid", "killpg", "setpgid"}
        PROVE  Tree(cfg)!HitsOwn' /\ Tree(cfg)!JoinsGroupAsked'
    BY <1>1 DEF Tree!HitsOwn, Tree!JoinsGroupAsked
  <1>2. ASSUME NEW p \in Tree(cfg)!Procs, Tree(cfg)!Die(p) PROVE TreeSafe(cfg)'
    <2>1. last'.op = "none"
      BY <1>2 DEF Tree!Die, Tree!Idle, Tree!Call
    <2> QED BY <1>0, <1>1, <1>2, <2>1, DieTree DEF TreeSafe
  <1>3. ASSUME NEW p \in Tree(cfg)!Procs, Tree(cfg)!OutsideReaps(p) PROVE TreeSafe(cfg)'
    <2>1. last'.op = "none"
      BY <1>3 DEF Tree!OutsideReaps, Tree!Idle, Tree!Call
    <2> QED BY <1>0, <1>1, <1>3, <2>1, OutsideReapsTree DEF TreeSafe
  <1>4. ASSUME NEW p \in Tree(cfg)!Procs, Tree(cfg)!Exec(p) PROVE TreeSafe(cfg)'
    <2>1. last'.op = "none"
      BY <1>4 DEF Tree!Exec, Tree!Idle, Tree!Call
    <2> QED BY <1>0, <1>1, <1>4, <2>1, ExecTree DEF TreeSafe
  <1>5. ASSUME NEW p \in Tree(cfg)!Procs, Tree(cfg)!Waitid(p) PROVE TreeSafe(cfg)'
    <2>1. TreeInv(cfg)' /\ last' = Tree(cfg)!Call("waitid", p, {p})
      BY <1>0, <1>5, WaitidTree
    <2> QED BY <2>1 DEF TreeSafe, Tree!HitsOwn, Tree!JoinsGroupAsked, Tree!Call
  <1>6. ASSUME NEW p \in Tree(cfg)!Procs, Tree(cfg)!Kill(p) \/ Tree(cfg)!Killpg(p) PROVE TreeSafe(cfg)'
    BY <1>0, <1>6, HitsTree DEF TreeSafe
  <1>7. ASSUME NEW t \in Tree(cfg)!Procs, NEW p \in cfg.others, NEW newpid \in BOOLEAN, Tree(cfg)!Clone(t, p, newpid)
        PROVE  TreeSafe(cfg)'
    <2>1. last'.op = "clone"
      BY <1>7 DEF Tree!Clone, Tree!Call
    <2> QED BY <1>0, <1>1, <1>7, <2>1, CloneTree DEF TreeSafe
  <1>8. ASSUME NEW p \in Tree(cfg)!Procs, NEW q \in Tree(cfg)!Procs, Tree(cfg)!TaskSetpgid(p, q) PROVE TreeSafe(cfg)'
    <2>1. last'.op = "setpgid"
      BY <1>8 DEF Tree!TaskSetpgid, Tree!Call
    <2>2. Tree(cfg)!HitsOwn'
      BY <2>1 DEF Tree!HitsOwn
    <2> QED BY <1>0, <1>8, <2>2, TaskSetpgidTree DEF TreeSafe
  <1>9. ASSUME NEW p \in Tree(cfg)!Procs, NEW q \in Tree(cfg)!Procs, Tree(cfg)!ChildSetpgid(p, q) PROVE TreeSafe(cfg)'
    <2>1. last'.op = "child_setpgid"
      BY <1>9 DEF Tree!ChildSetpgid, Tree!Call
    <2> QED BY <1>0, <1>1, <1>9, <2>1, ChildSetpgidTree DEF TreeSafe
  <1>10. CASE UNCHANGED Tree(cfg)!vars
    BY <1>0, <1>10, StillTree DEF TreeSafe, Tree!vars, Tree!HitsOwn, Tree!JoinsGroupAsked
  <1> QED BY <1>2, <1>3, <1>4, <1>5, <1>6, <1>7, <1>8, <1>9, <1>10 DEF Tree!Next

\* The invariant gives the properties.
LEMMA SafeTree ==
    ASSUME NEW cfg, Tree(cfg)!ProcessTreeAssumption
    PROVE  TreeSafe(cfg) => Tree(cfg)!HitsOwn /\ Tree(cfg)!OwnerIsParent /\ Tree(cfg)!JoinsGroupAsked
  <1>1. TreeInv(cfg) => Tree(cfg)!OwnerIsParent
    BY DEF TreeInv, OwnedInv, Tree!OwnerIsParent, Tree!Procs
  <1> QED BY <1>1 DEF TreeSafe

\* In whatever pid namespaces the threads are and however often numbers are used again,
\* kill, waitid and killpg through a handle reach the process, or the group, that the
\* handle was made for; a thread that joins a child's group joins that group; and a
\* handle is with the task that is the parent of its process.
THEOREM HandlesHitTheirOwn ==
    ASSUME NEW cfg, Tree(cfg)!ProcessTreeAssumption
    PROVE  Tree(cfg)!Spec => [](Tree(cfg)!HitsOwn /\ Tree(cfg)!OwnerIsParent /\ Tree(cfg)!JoinsGroupAsked)
  BY InitSafe, NextSafe, SafeTree, PTL DEF Tree!Spec

-----------------------------------------------------------------------------
(* The specification in which any of them runs *)

\* The buffer for the old mask holds one mask at most.
OldsetInv(cfg) == \A t \in Mask(cfg)!Tasks : \E m : oldset[t] \subseteq {m}

\* Only the call that performs and read_oldset_and_check write to it.
LEMMA OldsetNext ==
    ASSUME NEW cfg, MaskInv(cfg), OldsetInv(cfg), [Mask(cfg)!Next]_(Mask(cfg)!vars)
    PROVE  OldsetInv(cfg)'
  <1>1. CASE UNCHANGED oldset
    BY <1>1 DEF OldsetInv
  <1>2. ASSUME NEW t \in Mask(cfg)!Tasks, NEW m, oldset' = [oldset EXCEPT ![t] = m], m = {} \/ \E k : m = {k}
        PROVE  OldsetInv(cfg)'
    <2>1. \A u \in Mask(cfg)!Tasks : oldset'[u] = IF u = t THEN m ELSE oldset[u]
      BY <1>2 DEF MaskInv, MaskTypes
    <2> QED BY <1>2, <2>1 DEF OldsetInv
  <1>3. ASSUME NEW x \in Coroutines, Mask(cfg)!Perform(x) PROVE OldsetInv(cfg)'
    <2>1. co[x] \in Call(cfg)
      BY <1>3, CoTyped DEF MaskInv, Mask!Perform
    <2>2. co[x].t \in Mask(cfg)!Tasks
      BY <2>1 DEF Call
    <2> QED BY <1>1, <1>2, <1>3, <2>2 DEF Mask!Perform
  <1>4. ASSUME NEW t \in Mask(cfg)!Tasks, Mask(cfg)!ReadOldset(t) PROVE OldsetInv(cfg)'
    BY <1>2, <1>4 DEF Mask!ReadOldset
  <1>5. CASE \/ Mask(cfg)!Clone \/ Mask(cfg)!MakeTask \/ UNCHANGED Mask(cfg)!vars
            \/ \E x \in Coroutines : \/ Mask(cfg)!Return(x) \/ Mask(cfg)!Hangup(x)
                                     \/ Mask(cfg)!ExecDone(x) \/ Mask(cfg)!ExecError(x)
    BY <1>1, <1>5 DEF Mask!Clone, Mask!MakeTask, Mask!vars, Mask!Return, Mask!Hangup, Mask!ExecDone, Mask!ExecError
  <1>6. ASSUME NEW x \in Coroutines,
               \/ \E t \in Mask(cfg)!Tasks, set \in (SUBSET Signals) \ {{}},
                  old \in BOOLEAN : Mask(cfg)!Block(x, t, set, old)
               \/ \E b \in blocks : Mask(cfg)!Unblock(x, b)
               \/ \E t \in Mask(cfg)!Tasks : Mask(cfg)!Ask(x, t)
               \/ \E keep \in SUBSET blocks : Mask(cfg)!ExecBegin(x, keep)
        PROVE  OldsetInv(cfg)'
    BY <1>1, <1>6 DEF Mask!Block, Mask!Unblock, Mask!Ask, Mask!ExecBegin
  <1> QED BY <1>3, <1>4, <1>5, <1>6 DEF Mask!Next

\* The invariants give all that is said of a mask.
LEMMA MaskSafe ==
    ASSUME NEW cfg, MaskInv(cfg), OldsetInv(cfg)
    PROVE  Mask(cfg)!TypeOK /\ Mask(cfg)!TrackedIsTrue /\ Mask(cfg)!InSync /\ Mask(cfg)!ExecMask
  <1>1. Mask(cfg)!TrackedIsTrue
    BY DEF MaskInv, TaskInv, Mask!TrackedIsTrue
  <1>2. Mask(cfg)!InSync /\ Mask(cfg)!ExecMask
    BY DEF MaskInv, CloneInv, Mask!InSync, Mask!ExecMask
  <1>3. \A t \in Mask(cfg)!Tasks : \A m, n \in oldset[t] : m = n
    BY DEF OldsetInv
  <1>4. \A t \in Mask(cfg)!Tasks : /\ kernel[t] \in Masks(cfg) /\ sigmask[t] \in Masks(cfg)
                                  /\ oldset[t] \in SUBSET Masks(cfg)
    BY DEF MaskInv, MaskTypes
  <1>5. \A t \in sigprocmask_running : Mask(cfg)!Usable(t)
    BY DEF MaskInv, MaskTypes, TaskInv
  <1>6. \A x, y \in Coroutines : x # y /\ co[x].at = "call" /\ co[y].at = "call" => co[x].t # co[y].t
    BY DEF MaskInv, Alone
  <1>7. Mask(cfg)!TypeOK
    BY <1>3, <1>4, <1>5, <1>6 DEF Masks, Mask!TypeOK
  <1> QED BY <1>1, <1>2, <1>7

MasksInv ==
    /\ running = "mask" => MaskInv(Failing) /\ OldsetInv(Failing)
    /\ running = "block" => BlockInv(Overlaps)

(***************************************************************************)
(* Whatever is called, refused, broken off or fails to be executed: the    *)
(* tracked mask is the kernel's and a program gets the mask it was meant   *)
(* to have; blocks are disjoint, and each is a witness of what it blocks.  *)
(***************************************************************************)
THEOREM MasksTracked == Spec => []TrackedIsTrue
  <1>0. /\ Mask(Failing)!SignalAssumption /\ Mask(Overlaps)!SignalAssumption
        /\ ~Failing.overlaps /\ Steady(Overlaps)
    BY ThreadsAssumption DEF Failing, Overlaps, Steady
  <1>1. Init => MasksInv
    <2> SUFFICES ASSUME Init PROVE MasksInv
      OBVIOUS
    <2>1. Mask(Failing)!Init /\ Mask(Overlaps)!Init
      BY DEF Init, Mask!Init, Mask!Tasks, Mask!Idle
    <2>2. MaskInv(Failing)
      BY <1>0, <2>1, MaskInit
    <2>3. OldsetInv(Failing)
      BY <2>1 DEF Mask!Init, OldsetInv
    <2>4. BlockInv(Overlaps)
      BY <1>0, <2>1, BlockInit
    <2> QED BY <2>2, <2>3, <2>4 DEF MasksInv
  <1>2. MasksInv /\ [Next]_vars => MasksInv'
    <2> SUFFICES ASSUME MasksInv, [Next]_vars PROVE MasksInv'
      OBVIOUS
    <2>1. running' = running
      BY DEF Next, vars
    <2>2. ASSUME running = "mask" PROVE MaskInv(Failing)' /\ OldsetInv(Failing)'
      <3>1. [Mask(Failing)!Next]_(Mask(Failing)!vars)
        <4>1. CASE Next
          BY <2>2, <4>1 DEF Next
        <4>2. CASE UNCHANGED vars
          BY <4>2 DEF vars, signals, Mask!vars
        <4> QED BY <4>1, <4>2
      <3>2. MaskInv(Failing) /\ OldsetInv(Failing)
        BY <2>2 DEF MasksInv
      <3> QED BY <1>0, <3>1, <3>2, MaskNext, OldsetNext
    <2>3. ASSUME running = "block" PROVE BlockInv(Overlaps)'
      <3>1. [Mask(Overlaps)!Next]_(Mask(Overlaps)!vars)
        <4>1. CASE Next
          BY <2>3, <4>1 DEF Next
        <4>2. CASE UNCHANGED vars
          BY <4>2 DEF vars, signals, Mask!vars
        <4> QED BY <4>1, <4>2
      <3>2. BlockInv(Overlaps)
        BY <2>3 DEF MasksInv
      <3> QED BY <1>0, <3>1, <3>2, BlockNext
    <2> QED BY <2>1, <2>2, <2>3 DEF MasksInv
  <1>3. MasksInv => TrackedIsTrue
    BY MaskSafe, BlockSafe DEF MasksInv, TrackedIsTrue
  <1> QED BY <1>1, <1>2, <1>3, PTL DEF Spec

(***************************************************************************)
(* A program that a thread executes gets the environment of the thread at  *)
(* the time, with the updates of the command, for any environments.        *)
(***************************************************************************)
THEOREM ProgramsGetEnviron == Spec => []ProgramGetsEnviron
  <1>0. Env(Executing)!EnvironAssumption /\ ~Executing.changeAfter
    BY ThreadsAssumption DEF Executing
  <1>1. Init => (running = "exec" => EnvInv(Executing))
    BY <1>0, InitEnv DEF Init
  <1>2. (running = "exec" => EnvInv(Executing)) /\ [Next]_vars => (running = "exec" => EnvInv(Executing))'
    <2> SUFFICES ASSUME running = "exec" => EnvInv(Executing), [Next]_vars, running' = "exec"
                 PROVE  EnvInv(Executing)'
      OBVIOUS
    <2>1. running = "exec"
      BY DEF Next, vars
    <2>2. [Env(Executing)!Next]_(Env(Executing)!vars)
      <3>1. CASE Next
        BY <2>1, <3>1 DEF Next
      <3>2. CASE UNCHANGED vars
        BY <3>2 DEF vars, environ, Env!vars, Env!envVars, Env!pathVars
      <3> QED BY <3>1, <3>2
    <2> QED BY <1>0, <2>1, <2>2, NextEnv
  <1>3. (running = "exec" => EnvInv(Executing)) => ProgramGetsEnviron
    BY DEF EnvInv, EnvExecInv, Env!ProgramGetsEnviron, ProgramGetsEnviron
  <1> QED BY <1>1, <1>2, <1>3, PTL DEF Spec

(***************************************************************************)
(* which returns the first directory that has the executable, for any      *)
(* number of directories, chunk size and coroutines that look at once.     *)
(***************************************************************************)
THEOREM LookupsFindFirst == Spec => []FindsFirst
  <1>0. Env(Looking)!EnvironAssumption /\ ~Looking.openFails
    BY ThreadsAssumption DEF Looking
  <1>1. Init => (running = "which" => WhichInv(Looking))
    BY <1>0, InitWhich DEF Init
  <1>2. (running = "which" => WhichInv(Looking)) /\ [Next]_vars => (running = "which" => WhichInv(Looking))'
    <2> SUFFICES ASSUME running = "which" => WhichInv(Looking), [Next]_vars, running' = "which"
                 PROVE  WhichInv(Looking)'
      OBVIOUS
    <2>1. running = "which"
      BY DEF Next, vars
    <2>2. [Env(Looking)!Next]_(Env(Looking)!vars)
      <3>1. CASE Next
        BY <2>1, <3>1 DEF Next
      <3>2. CASE UNCHANGED vars
        BY <3>2 DEF vars, environ, Env!vars, Env!envVars, Env!pathVars
      <3> QED BY <3>1, <3>2
    <2> QED BY <1>0, <2>1, <2>2, NextWhich
  <1>3. (running = "which" => WhichInv(Looking)) => FindsFirst
    BY DEF WhichInv, LookupInv, FirstHolding, Env!FindsFirst, FindsFirst
  <1> QED BY <1>1, <1>2, <1>3, PTL DEF Spec

TreesInv ==
    /\ running = "tree" => TreeSafe(Orphans)
    /\ running = "groups" => TreeSafe(Sessions)

(***************************************************************************)
(* kill, waitid, killpg and setpgid reach the process they are meant for,  *)
(* and a child's handle is with its parent, for any number of processes,   *)
(* numbers and namespaces.                                                 *)
(***************************************************************************)
THEOREM ProcessesHit == Spec => []HitsOwn
  <1>0. Tree(Orphans)!ProcessTreeAssumption /\ Tree(Sessions)!ProcessTreeAssumption
    BY ThreadsAssumption
  <1>1. Init => TreesInv
    BY <1>0, InitSafe DEF Init, TreesInv
  <1>2. TreesInv /\ [Next]_vars => TreesInv'
    <2> SUFFICES ASSUME TreesInv, [Next]_vars PROVE TreesInv'
      OBVIOUS
    <2>1. running' = running
      BY DEF Next, vars
    <2>2. ASSUME running = "tree" PROVE TreeSafe(Orphans)'
      <3>1. [Tree(Orphans)!Next]_(Tree(Orphans)!vars)
        <4>1. CASE Next
          BY <2>2, <4>1 DEF Next
        <4>2. CASE UNCHANGED vars
          BY <4>2 DEF vars, processes, Tree!vars
        <4> QED BY <4>1, <4>2
      <3> QED BY <1>0, <2>2, <3>1, NextSafe DEF TreesInv
    <2>3. ASSUME running = "groups" PROVE TreeSafe(Sessions)'
      <3>1. [Tree(Sessions)!Next]_(Tree(Sessions)!vars)
        <4>1. CASE Next
          BY <2>3, <4>1 DEF Next
        <4>2. CASE UNCHANGED vars
          BY <4>2 DEF vars, processes, Tree!vars
        <4> QED BY <4>1, <4>2
      <3> QED BY <1>0, <2>3, <3>1, NextSafe DEF TreesInv
    <2> QED BY <2>1, <2>2, <2>3 DEF TreesInv
  <1>3. TreesInv => HitsOwn
    BY <1>0, SafeTree DEF TreesInv, HitsOwn
  <1> QED BY <1>1, <1>2, <1>3, PTL DEF Spec

-----------------------------------------------------------------------------
(* File descriptor tables                                                  *)

\* FDProofs, for the values of its constants with which the tables run.
Sharing   == INSTANCE FDProofs
               WITH Tasks <- Sharers, Child <- 0, MaxCalls <- SharedCalls,
                    Ops <- {"open", "share", "gc", "use"}, Faults <- {}
Unsharing == INSTANCE FDProofs
               WITH Tasks <- Sharers, Child <- 0, MaxCalls <- OwnCalls,
                    Ops <- {"open", "share", "gc", "unshare", "exec"}, Faults <- {}
Cloning   == INSTANCE FDProofs
               WITH Tasks <- Cloners, Child <- ChildTask, MaxCalls <- OwnCalls,
                    Ops <- {"open", "gc", "clone", "exec", "use_own"}, Faults <- {"hangup", "exec"}

\* FDProofs, for the tasks that share a table: the two instances are one specification.
LEMMA SharingSame ==
    /\ Share!Init <=> Sharing!Init
    /\ Share!Next <=> Sharing!Next
    /\ Share!vars = Sharing!vars
    /\ Share!TypeOK <=> Sharing!TypeOK
    /\ Share!CloseHitsOwnFile <=> Sharing!CloseHitsOwnFile
    /\ Share!BorrowedUseHits <=> Sharing!BorrowedUseHits
  <1>1. Share!Init <=> Sharing!Init
    BY DEF
         Share!Init, Sharing!Init, Share!AllTasks, Sharing!AllTasks, Share!Tables, Sharing!Tables,
         Share!Free, Sharing!Free
  <1>2. Share!Next <=> Sharing!Next
    BY Zenon DEF
         Share!AllTasks, Sharing!AllTasks, Share!Tables, Sharing!Tables, Share!kernel,
         Sharing!kernel, Share!client, Sharing!client, Share!Free, Sharing!Free, Share!Valid,
         Sharing!Valid, Share!Live, Sharing!Live, Share!Ready, Sharing!Ready, Share!HandlesBy,
         Sharing!HandlesBy, Share!HandlesOf, Sharing!HandlesOf, Share!Call, Sharing!Call,
         Share!Send, Sharing!Send, Share!Returned, Sharing!Returned, Share!OpenFds, Sharing!OpenFds,
         Share!PerformOpen, Sharing!PerformOpen, Share!PerformClose, Sharing!PerformClose,
         Share!PerformUse, Sharing!PerformUse, Share!PerformUnshare, Sharing!PerformUnshare,
         Share!PerformClone, Sharing!PerformClone, Share!Perform, Sharing!Perform, Share!Hangup,
         Sharing!Hangup, Share!MakeHandle, Sharing!MakeHandle, Share!Open, Sharing!Open,
         Share!Invalidate, Sharing!Invalidate, Share!ForTask, Sharing!ForTask, Share!Inherit,
         Sharing!Inherit, Share!Drop, Sharing!Drop, Share!UseOwn, Sharing!UseOwn, Share!Borrow,
         Sharing!Borrow, Share!FileAt, Sharing!FileAt, Share!Garbage, Sharing!Garbage, Share!Closes,
         Sharing!Closes, Share!GcUsing, Sharing!GcUsing, Share!Gc, Sharing!Gc, Share!UnshareFiles,
         Sharing!UnshareFiles, Share!Exec, Sharing!Exec, Share!Clone, Sharing!Clone,
         Share!OpenReturns, Sharing!OpenReturns, Share!UseReturns, Sharing!UseReturns, Share!Quiet,
         Sharing!Quiet, Share!Reply, Sharing!Reply, Share!GcTask, Sharing!GcTask,
         Share!UnshareReturns, Sharing!UnshareReturns, Share!GcNew, Sharing!GcNew,
         Share!ExecReturns, Sharing!ExecReturns, Share!Snapshot, Sharing!Snapshot,
         Share!CloneReturns, Sharing!CloneReturns, Share!MakeTable, Sharing!MakeTable,
         Share!ReplyHangup, Sharing!ReplyHangup, Share!Cardinality, Sharing!Cardinality, Share!Next,
         Sharing!Next
  <1>3. Share!vars = Sharing!vars
    BY DEF
         Share!vars, Sharing!vars, Share!kernel, Sharing!kernel, Share!client, Sharing!client
  <1>4. Share!TypeOK <=> Sharing!TypeOK
    BY DEF
         Share!TypeOK, Sharing!TypeOK, Share!AllTasks, Sharing!AllTasks, Share!Tables,
         Sharing!Tables, Share!Live, Sharing!Live
  <1>5. Share!CloseHitsOwnFile <=> Sharing!CloseHitsOwnFile
    BY DEF
         Share!CloseHitsOwnFile, Sharing!CloseHitsOwnFile
  <1>6. Share!BorrowedUseHits <=> Sharing!BorrowedUseHits
    BY DEF
         Share!BorrowedUseHits, Sharing!BorrowedUseHits
  <1> QED BY <1>1, <1>2, <1>3, <1>4, <1>5, <1>6

\* FDProofs, for the tasks of which one unshares or execs: the two instances are one specification.
LEMMA UnsharingSame ==
    /\ Unshare!Init <=> Unsharing!Init
    /\ Unshare!Next <=> Unsharing!Next
    /\ Unshare!vars = Unsharing!vars
    /\ Unshare!HandleHasFile <=> Unsharing!HandleHasFile
    /\ Unshare!OpenFdsAccounted <=> Unsharing!OpenFdsAccounted
  <1>1. Unshare!Init <=> Unsharing!Init
    BY DEF
         Unshare!Init, Unsharing!Init, Unshare!AllTasks, Unsharing!AllTasks, Unshare!Tables,
         Unsharing!Tables, Unshare!Free, Unsharing!Free
  <1>2. Unshare!Next <=> Unsharing!Next
    BY Zenon DEF
         Unshare!AllTasks, Unsharing!AllTasks, Unshare!Tables, Unsharing!Tables, Unshare!kernel,
         Unsharing!kernel, Unshare!client, Unsharing!client, Unshare!Free, Unsharing!Free,
         Unshare!Valid, Unsharing!Valid, Unshare!Live, Unsharing!Live, Unshare!Ready,
         Unsharing!Ready, Unshare!HandlesBy, Unsharing!HandlesBy, Unshare!HandlesOf,
         Unsharing!HandlesOf, Unshare!Call, Unsharing!Call, Unshare!Send, Unsharing!Send,
         Unshare!Returned, Unsharing!Returned, Unshare!OpenFds, Unsharing!OpenFds,
         Unshare!PerformOpen, Unsharing!PerformOpen, Unshare!PerformClose, Unsharing!PerformClose,
         Unshare!PerformUse, Unsharing!PerformUse, Unshare!PerformUnshare, Unsharing!PerformUnshare,
         Unshare!PerformClone, Unsharing!PerformClone, Unshare!Perform, Unsharing!Perform,
         Unshare!Hangup, Unsharing!Hangup, Unshare!MakeHandle, Unsharing!MakeHandle, Unshare!Open,
         Unsharing!Open, Unshare!Invalidate, Unsharing!Invalidate, Unshare!ForTask,
         Unsharing!ForTask, Unshare!Inherit, Unsharing!Inherit, Unshare!Drop, Unsharing!Drop,
         Unshare!UseOwn, Unsharing!UseOwn, Unshare!Borrow, Unsharing!Borrow, Unshare!FileAt,
         Unsharing!FileAt, Unshare!Garbage, Unsharing!Garbage, Unshare!Closes, Unsharing!Closes,
         Unshare!GcUsing, Unsharing!GcUsing, Unshare!Gc, Unsharing!Gc, Unshare!UnshareFiles,
         Unsharing!UnshareFiles, Unshare!Exec, Unsharing!Exec, Unshare!Clone, Unsharing!Clone,
         Unshare!OpenReturns, Unsharing!OpenReturns, Unshare!UseReturns, Unsharing!UseReturns,
         Unshare!Quiet, Unsharing!Quiet, Unshare!Reply, Unsharing!Reply, Unshare!GcTask,
         Unsharing!GcTask, Unshare!UnshareReturns, Unsharing!UnshareReturns, Unshare!GcNew,
         Unsharing!GcNew, Unshare!ExecReturns, Unsharing!ExecReturns, Unshare!Snapshot,
         Unsharing!Snapshot, Unshare!CloneReturns, Unsharing!CloneReturns, Unshare!MakeTable,
         Unsharing!MakeTable, Unshare!ReplyHangup, Unsharing!ReplyHangup, Unshare!Cardinality,
         Unsharing!Cardinality, Unshare!Next, Unsharing!Next
  <1>3. Unshare!vars = Unsharing!vars
    BY DEF
         Unshare!vars, Unsharing!vars, Unshare!kernel, Unsharing!kernel, Unshare!client,
         Unsharing!client
  <1>4. Unshare!HandleHasFile <=> Unsharing!HandleHasFile
    BY DEF
         Unshare!HandleHasFile, Unsharing!HandleHasFile, Unshare!Live, Unsharing!Live,
         Unshare!Ready, Unsharing!Ready
  <1>5. Unshare!OpenFdsAccounted <=> Unsharing!OpenFdsAccounted
    BY DEF
         Unshare!OpenFdsAccounted, Unsharing!OpenFdsAccounted, Unshare!AllTasks, Unsharing!AllTasks,
         Unshare!OpenFds, Unsharing!OpenFds
  <1> QED BY <1>1, <1>2, <1>3, <1>4, <1>5

\* FDProofs, for the task that clones a child: the two instances are one specification.
LEMMA CloningSame ==
    /\ Cloned!Init <=> Cloning!Init
    /\ Cloned!Next <=> Cloning!Next
    /\ Cloned!vars = Cloning!vars
    /\ Cloned!HandleHasFile <=> Cloning!HandleHasFile
  <1>1. Cloned!Init <=> Cloning!Init
    BY DEF
         Cloned!Init, Cloning!Init, Cloned!AllTasks, Cloning!AllTasks, Cloned!Tables,
         Cloning!Tables, Cloned!Free, Cloning!Free
  <1>2. Cloned!Next <=> Cloning!Next
    BY Zenon DEF
         Cloned!AllTasks, Cloning!AllTasks, Cloned!Tables, Cloning!Tables, Cloned!kernel,
         Cloning!kernel, Cloned!client, Cloning!client, Cloned!Free, Cloning!Free, Cloned!Valid,
         Cloning!Valid, Cloned!Live, Cloning!Live, Cloned!Ready, Cloning!Ready, Cloned!HandlesBy,
         Cloning!HandlesBy, Cloned!HandlesOf, Cloning!HandlesOf, Cloned!Call, Cloning!Call,
         Cloned!Send, Cloning!Send, Cloned!Returned, Cloning!Returned, Cloned!OpenFds,
         Cloning!OpenFds, Cloned!PerformOpen, Cloning!PerformOpen, Cloned!PerformClose,
         Cloning!PerformClose, Cloned!PerformUse, Cloning!PerformUse, Cloned!PerformUnshare,
         Cloning!PerformUnshare, Cloned!PerformClone, Cloning!PerformClone, Cloned!Perform,
         Cloning!Perform, Cloned!Hangup, Cloning!Hangup, Cloned!MakeHandle, Cloning!MakeHandle,
         Cloned!Open, Cloning!Open, Cloned!Invalidate, Cloning!Invalidate, Cloned!ForTask,
         Cloning!ForTask, Cloned!Inherit, Cloning!Inherit, Cloned!Drop, Cloning!Drop, Cloned!UseOwn,
         Cloning!UseOwn, Cloned!Borrow, Cloning!Borrow, Cloned!FileAt, Cloning!FileAt,
         Cloned!Garbage, Cloning!Garbage, Cloned!Closes, Cloning!Closes, Cloned!GcUsing,
         Cloning!GcUsing, Cloned!Gc, Cloning!Gc, Cloned!UnshareFiles, Cloning!UnshareFiles,
         Cloned!Exec, Cloning!Exec, Cloned!Clone, Cloning!Clone, Cloned!OpenReturns,
         Cloning!OpenReturns, Cloned!UseReturns, Cloning!UseReturns, Cloned!Quiet, Cloning!Quiet,
         Cloned!Reply, Cloning!Reply, Cloned!GcTask, Cloning!GcTask, Cloned!UnshareReturns,
         Cloning!UnshareReturns, Cloned!GcNew, Cloning!GcNew, Cloned!ExecReturns,
         Cloning!ExecReturns, Cloned!Snapshot, Cloning!Snapshot, Cloned!CloneReturns,
         Cloning!CloneReturns, Cloned!MakeTable, Cloning!MakeTable, Cloned!ReplyHangup,
         Cloning!ReplyHangup, Cloned!Cardinality, Cloning!Cardinality, Cloned!Next, Cloning!Next
  <1>3. Cloned!vars = Cloning!vars
    BY DEF
         Cloned!vars, Cloning!vars, Cloned!kernel, Cloning!kernel, Cloned!client, Cloning!client
  <1>4. Cloned!HandleHasFile <=> Cloning!HandleHasFile
    BY DEF
         Cloned!HandleHasFile, Cloning!HandleHasFile, Cloned!Live, Cloning!Live, Cloned!Ready,
         Cloning!Ready
  <1> QED BY <1>1, <1>2, <1>3, <1>4

\* The assumptions on the constants are what the proofs about the tables need.
LEMMA TablesCfg ==
    /\ Sharing!FDTableAssumption /\ Unsharing!FDTableAssumption /\ Cloning!FDTableAssumption
    /\ Sharing!TableCfg /\ Unsharing!TableCfg /\ Cloning!TableCfg
  <1>1. Sharing!FDTableAssumption
    BY ThreadsAssumption
       DEF Share!FDTableAssumption, Sharing!FDTableAssumption, Share!IsFiniteSet, Sharing!IsFiniteSet
  <1>2. Unsharing!FDTableAssumption
    BY ThreadsAssumption
       DEF Unshare!FDTableAssumption, Unsharing!FDTableAssumption, Unshare!IsFiniteSet, Unsharing!IsFiniteSet
  <1>3. Cloning!FDTableAssumption
    BY ThreadsAssumption
       DEF Cloned!FDTableAssumption, Cloning!FDTableAssumption, Cloned!IsFiniteSet, Cloning!IsFiniteSet
  <1>4. \A t, u \in Cloners : t = u
    BY ThreadsAssumption
  <1> QED BY <1>1, <1>2, <1>3, <1>4 DEF Sharing!TableCfg, Unsharing!TableCfg, Cloning!TableCfg

\* The tables of each behaviour.
TableRunsInv ==
    /\ running = "share" => Sharing!FilesInv
    /\ running = "unshare" => Unsharing!FilesInv
    /\ running = "cloned" => Cloning!FilesInv

(***************************************************************************)
(* A valid FileDescriptor stands for the file it was made for, whoever     *)
(* closes, unshares, execs or clones around it; the garbage collector      *)
(* closes no file that somebody has a handle for; an open fd has a handle, *)
(* or somebody about to close it: for any number of tasks, fds, handles    *)
(* and calls under way.                                                    *)
(***************************************************************************)
THEOREM HandlesHaveFiles == Spec => []HandleHasFile
  <1>1. Init => TableRunsInv
    <2> SUFFICES ASSUME Init PROVE TableRunsInv
      OBVIOUS
    <2>1. running = "share" => Sharing!Init
      BY SharingSame DEF Init
    <2>2. running = "unshare" => Unsharing!Init
      <3>1. Share!Init <=> Unshare!Init
        BY DEF Share!Init, Unshare!Init, Share!AllTasks, Unshare!AllTasks, Share!Tables, Unshare!Tables,
               Share!Free, Unshare!Free
      <3> QED BY <3>1, UnsharingSame DEF Init
    <2>3. running = "cloned" => Cloning!Init
      BY CloningSame DEF Init
    <2> QED BY <2>1, <2>2, <2>3, TablesCfg, Sharing!FilesBegin, Unsharing!FilesBegin, Cloning!FilesBegin
            DEF TableRunsInv
  <1>2. TableRunsInv /\ [Next]_vars => TableRunsInv'
    <2> SUFFICES ASSUME TableRunsInv, [Next]_vars PROVE TableRunsInv'
      OBVIOUS
    <2>1. running' = running
      BY DEF Next, vars
    <2>2. ASSUME running = "share" PROVE Sharing!FilesInv'
      <3>1. [Sharing!Next]_(Sharing!vars)
        <4>1. CASE Next
          BY <2>2, <4>1, SharingSame DEF Next
        <4>2. CASE UNCHANGED vars
          BY <4>2 DEF vars, fdtable, Sharing!vars, Sharing!kernel, Sharing!client
        <4> QED BY <4>1, <4>2
      <3> QED BY <2>2, <3>1, TablesCfg, Sharing!FilesStep DEF TableRunsInv
    <2>3. ASSUME running = "unshare" PROVE Unsharing!FilesInv'
      <3>1. [Unsharing!Next]_(Unsharing!vars)
        <4>1. CASE Next
          BY <2>3, <4>1, UnsharingSame DEF Next
        <4>2. CASE UNCHANGED vars
          BY <4>2 DEF vars, fdtable, Unsharing!vars, Unsharing!kernel, Unsharing!client
        <4> QED BY <4>1, <4>2
      <3> QED BY <2>3, <3>1, TablesCfg, Unsharing!FilesStep DEF TableRunsInv
    <2>4. ASSUME running = "cloned" PROVE Cloning!FilesInv'
      <3>1. [Cloning!Next]_(Cloning!vars)
        <4>1. CASE Next
          BY <2>4, <4>1, CloningSame DEF Next
        <4>2. CASE UNCHANGED vars
          BY <4>2 DEF vars, fdtable, Cloning!vars, Cloning!kernel, Cloning!client
        <4> QED BY <4>1, <4>2
      <3> QED BY <2>4, <3>1, TablesCfg, Cloning!FilesStep DEF TableRunsInv
    <2> QED BY <2>1, <2>2, <2>3, <2>4 DEF TableRunsInv
  <1>3. TableRunsInv => HandleHasFile
    <2>1. Sharing!FilesInv => Share!TypeOK /\ Share!CloseHitsOwnFile /\ Share!BorrowedUseHits
      BY TablesCfg, Sharing!FilesMean, SharingSame
    <2>2. Unsharing!FilesInv => Unshare!HandleHasFile /\ Unshare!OpenFdsAccounted
      BY TablesCfg, Unsharing!FilesMean, UnsharingSame
    <2>3. Cloning!FilesInv => Cloned!HandleHasFile
      BY TablesCfg, Cloning!FilesMean, CloningSame
    <2> QED BY <2>1, <2>2, <2>3 DEF TableRunsInv, HandleHasFile
  <1> QED BY <1>1, <1>2, <1>3, PTL DEF Spec
=============================================================================
