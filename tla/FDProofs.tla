------------------------------- MODULE FDProofs -------------------------------
(***************************************************************************)
(* Proofs about file descriptor tables, for every number of tasks, fds,    *)
(* handles, files and calls under way.                                     *)
(*                                                                         *)
(* That a handle names its file is not inductive: a close, a collection or *)
(* an unshare under way may take the number from under it.  What is, is    *)
(* TableInv: in a table that is in use every number is tracked, or belongs *)
(* to one call that closes or returns it, and never both; what is tracked, *)
(* or about to be closed, is open; and a handle, and a close, mean the     *)
(* file that the number stands for.  A table is in use (Served) until the  *)
(* connection of one of its tasks is lost.  While unshare_files waits for  *)
(* its unshare, the client's new table stands for the kernel's old one,    *)
(* where the handles stay, too, so that no other task closes their numbers *)
(* (Kept, TrackedInv).  PhaseInv and CallsInv say how far the calls of a   *)
(* task are, UseInv that a borrowed fd is pinned, ChildInv and InheritInv  *)
(* that a child's copy has the files of the handles that it may inherit.   *)
(* FreshInv adds that only one clone is under way, AccountInv that no open *)
(* number is forgotten.                                                    *)
(*                                                                         *)
(* A step changes the calls, the keys and the files; TableStep says what   *)
(* such a change must be for a table to stay as described, and there is a  *)
(* lemma for each action that shows that it is.                            *)
(***************************************************************************)
EXTENDS FDTable, FiniteSetTheorems, SequenceTheorems, WellFoundedInduction, TLAPS

\* What is assumed of the constants: no fault beyond a lost connection and a failing
\* execve; one task in the first table when connections are lost, since a task whose
\* close was performed but not answered puts the number back for the others to close
\* again; and, as one clone is modelled, one task that clones, and that does not
\* unshare.
TableCfg ==
    /\ FDTableAssumption /\ Faults \subseteq {"hangup", "exec"}
    /\ Child # 0 \/ "hangup" \in Faults => \A t, u \in Tasks : t = u
    /\ Child # 0 => "unshare" \notin Ops

\* A call under way.
SysCall == [op : {"open", "close", "use", "use_own", "unshare", "exec", "clone"},
            fd : Nat, file : Nat, table : Tables, handles : SUBSET Handles, ret : Nat]

\* A FileDescriptor object, free or of a task.
HandleRec == [task : AllTasks \cup {0}, near : Fds \cup {0}, file : Nat,
              state : {"free", "valid", "borrowed", "invalid"}]

\* Types; connections are lost only under that fault, and only a child inherits.
FdTypes ==
    /\ ktable \in [AllTasks -> Tables] /\ fd_table \in [AllTasks -> Tables]
    /\ kfile \in [Tables -> [Fds -> Nat]] /\ opened \in Nat
    /\ alive \subseteq AllTasks /\ broken \subseteq AllTasks
    /\ calls \in [AllTasks -> Seq(SysCall)]
    /\ known \in [Tables -> SUBSET Fds] /\ tracked \in [Tables -> SUBSET Handles]
    /\ inherited \subseteq Handles /\ handle \in [Handles -> HandleRec]
    /\ manipulating \subseteq AllTasks
    /\ stage \in [AllTasks -> {"none", "unsharing", "unshared", "exec", "clone", "cloned", "done"}]
    /\ leaked \in [Tables -> SUBSET Fds]
    /\ "hangup" \in Faults \/ broken = {}
    /\ Child = 0 => inherited = {}
    /\ \A h \in Handles : handle[h].state # "free" => handle[h].task \in AllTasks /\ handle[h].near \in Fds

\* The table that t had first.
Home(t) == IF t = Child THEN Child ELSE 0

\* t's unshare is under way and not performed: its client table is t already.
Waiting(t) == t # 0 /\ stage[t] = "unsharing" /\ t \notin broken /\ ktable[t] = 0

\* Somebody may still change table k, and nobody lost track of it.
Served(k) == IF k = 0 THEN Tasks \cap broken = {} ELSE Ready(k) /\ fd_table[k] = k

\* A handle of task k, in the table that it is about to leave, has the number.
Kept(k, fd) == \E h \in tracked[0] : handle[h].near = fd /\ handle[h].task = k
Kernel(k)   == IF Waiting(k) THEN 0 ELSE k

\* The file at a number of client table k.
File(k, fd) == kfile[Kernel(k)][fd]

\* The number is open in table k, and nobody closes it under the one that unshares.
Safe(k, fd) == fd \in Fds /\ File(k, fd) # 0 /\ (Waiting(k) => Kept(k, fd))

\* A close that is not performed; an open that is, and gave a number.
IsClosing(c) == c.op = "close" /\ c.ret = 0
IsGiven(c)   == c.op = "open" /\ c.ret # 0

\* The call c of t decides the number fd of table k: it closes it, or returns it.
Claims(t, c, k, fd) == \/ IsClosing(c) /\ c.table = k /\ c.fd = fd
                       \/ IsGiven(c) /\ fd_table[t] = k /\ c.ret = fd

\* The handles in a table are of its tasks and under a key; who is live is in its
\* task's table, and in the old one, too, during an unshare.
TrackedInv ==
    /\ \A k \in Tables : \A h \in tracked[k] :
        /\ handle[h].state # "free" /\ handle[h].near \in known[k]
        /\ IF k = 0 THEN handle[h].task \in Tasks ELSE handle[h].task = k
    /\ \A h \in Handles : Live(h) =>
        /\ h \in tracked[fd_table[handle[h].task]]
        /\ Waiting(handle[h].task) => h \in tracked[0]

\* Where a task is in unshare_files, execve or clone fixes its tables and its first
\* call.
PhaseInv ==
    \A t \in AllTasks :
    /\ fd_table[t] \in {Home(t), t} /\ ktable[t] \in {0, t}
    /\ Ready(t) => ktable[t] = IF Waiting(t) THEN 0 ELSE fd_table[t]
    /\ stage[t] \in {"none", "clone", "cloned", "exec"} => fd_table[t] = Home(t)
    /\ stage[t] \in {"unsharing", "unshared"} => t \in alive /\ fd_table[t] = t /\ t \in Tasks /\ Child = 0
    /\ stage[t] \in {"clone", "cloned"} => t \in alive /\ t \in Tasks /\ Child # 0
    /\ stage[t] = "unsharing" /\ t \notin broken => calls[t] # << >> /\ calls[t][1].op = "unshare"
    /\ stage[t] = "exec" => t \in alive \/ (calls[t] # << >> /\ calls[t][1].op = "exec" /\ calls[t][1].ret # 0)
    /\ stage[t] = "exec" /\ t \notin broken => calls[t] # << >> /\ calls[t][1].op = "exec"
    /\ stage[t] \in {"unsharing", "exec"} => t \in manipulating
    /\ stage[t] = "none" => t \notin manipulating /\ (t \in Tasks => t \in alive)
    /\ t \in broken => t \in alive
    /\ t \in manipulating => stage[t] \in {"unsharing", "exec"} \/ Faults # {}

\* The i-th call of t fits what t is doing.
CallOK(t, i, c) ==
    /\ c.op = "unshare" =>
         i = 1 /\ stage[t] = "unsharing" /\ c.ret \in {0, 1} /\ (t \notin broken => (c.ret = 0 <=> Waiting(t)))
    /\ c.op = "exec" => i = 1 /\ stage[t] = "exec" /\ (c.ret = 1 <=> t \notin alive) /\ c.ret \in {0, 1, 2} /\ (c.ret = 2 => Faults # {})
    /\ c.op = "clone" => (t \in broken \/ stage[t] = "clone") /\ t \in Tasks /\ Child # 0
    /\ c.op = "open" => stage[t] \notin {"unsharing", "exec"} /\ t \in alive
    /\ c.op = "use" => Child = 0
    /\ c.op = "close" => c.fd \in Fds /\ c.table \in {Home(t), t} /\ (Ready(t) => c.table = fd_table[t])
    /\ t \notin alive /\ c.op # "exec" => c.ret = 0

\* The calls of a task are performed in order, and each fits.
CallsInv ==
    \A t \in AllTasks :
    /\ Len(calls[t]) <= MaxCalls
    /\ \A i, j \in 1..Len(calls[t]) : i < j /\ calls[t][j].ret # 0 => calls[t][i].ret # 0
    /\ \A i \in 1..Len(calls[t]) : CallOK(t, i, calls[t][i])

\* A call on a borrowed fd holds one borrowed handle, its own.
UseInv ==
    /\ \A t \in AllTasks : \A i \in 1..Len(calls[t]) : calls[t][i].op = "use" =>
        \E b \in Handles : /\ calls[t][i].handles = {b} /\ handle[b].state = "borrowed" /\ handle[b].task = t
                           /\ handle[b].near = calls[t][i].fd /\ handle[b].file = calls[t][i].file
    /\ \A t, u \in AllTasks : \A i \in 1..Len(calls[t]), j \in 1..Len(calls[u]) :
        calls[t][i].op = "use" /\ calls[u][j].op = "use" /\ calls[t][i].handles = calls[u][j].handles => t = u /\ i = j

\* The child has not been made; the kernel has copied a table for it.
NewChild == Child # 0 /\ Child \notin alive /\ stage[Child] = "none"

\* A clone was performed, whose child's FDTable is still to be made.
Copied == NewChild /\ ktable[Child] = Child

\* A clone was performed after call i, and its result is still to be handled.
HasClone(t, i, j) == i < j /\ calls[t][j].op = "clone" /\ calls[t][j].ret # 0

\* Nothing refers to a child that is not there.
NewInv ==
    NewChild => /\ calls[Child] = << >> /\ known[Child] = {} /\ tracked[Child] = {} /\ Child \notin broken
                /\ inherited = {} /\ \A h \in Handles : handle[h].task # Child

\* The child's table has the files of the parent's handles, and of what the parent was
\* given before the clone.
CopyInv ==
    Copied =>
        /\ \A h \in tracked[0] : Live(h) => kfile[Child][handle[h].near] = handle[h].file
        /\ \A t \in Tasks \ broken : \A i, j \in 1..Len(calls[t]) : IsGiven(calls[t][i]) /\ HasClone(t, i, j) =>
             kfile[Child][calls[t][i].ret] = kfile[0][calls[t][i].ret]
        /\ \A fd \in leaked[Child] : kfile[Child][fd] # 0

\* Who cloned, and whether it was performed.
CloneInv ==
    /\ Copied => \A t \in Tasks \ broken : stage[t] = "cloned" \/ \E j \in 1..Len(calls[t]) : calls[t][j].op = "clone" /\ calls[t][j].ret # 0
    /\ \A t \in AllTasks : stage[t] = "cloned" => Copied
    /\ \A t \in AllTasks \ broken : \A j \in 1..Len(calls[t]) : calls[t][j].op = "clone" =>
          (calls[t][j].ret # 0 <=> Copied) /\ NewChild /\ \A i \in 1..Len(calls[t]) : calls[t][i].op = "clone" => i = j

\* What holds between a clone and the child's FDTable.
ChildInv == NewInv /\ CopyInv /\ CloneInv

\* What the child may still inherit is open in its table, and nobody in the child has
\* the number.
InheritInv ==
    /\ \A h \in inherited : handle[h].state \in {"valid", "invalid"}
    /\ Child # 0 /\ Ready(Child) =>
        /\ \A h \in inherited : handle[h].near \in leaked[Child] => kfile[Child][handle[h].near] = handle[h].file
        /\ \A fd \in leaked[Child] : fd \notin known[Child] /\ kfile[Child][fd] # 0
        /\ \A i \in 1..Len(calls[Child]) : \A fd \in leaked[Child] : ~Claims(Child, calls[Child][i], Child, fd)

\* Table k tracks the number, or a call that makes or closes it is under way.
Accounted(k, fd) ==
    fd \in known[k] \/ \E t \in AllTasks : \E i \in 1..Len(calls[t]) : Claims(t, calls[t][i], k, fd)

\* Without faults and children, an open number of a table that is in use is tracked, or
\* a call decides it, unless it was copied in vain.
AccountInv ==
    Faults = {} /\ Child = 0 => \A k \in Tables : Served(k) /\ ~Waiting(k) => \A fd \in Fds \ leaked[k] :
        kfile[k][fd] # 0 => Accounted(k, fd)

\* No close and no borrowed use met another file.
WrongInv == "closed another file" \notin wrong /\ "use" \notin wrong

\* The numbers of a table that is in use: each is tracked or belongs to one call, is
\* open, and stands for the file that its handles and its close mean.
TableInv(k) ==
    Served(k) =>
    /\ \A fd \in known[k] : Safe(k, fd)
    /\ \A t \in AllTasks : \A i \in 1..Len(calls[t]) : \A fd \in Nat :
         Claims(t, calls[t][i], k, fd) => Safe(k, fd) /\ fd \notin known[k]
    /\ \A t, u \in AllTasks : \A i \in 1..Len(calls[t]), j \in 1..Len(calls[u]) : \A fd \in Nat :
         Claims(t, calls[t][i], k, fd) /\ Claims(u, calls[u][j], k, fd) => t = u /\ i = j
    /\ \A t \in AllTasks : \A i \in 1..Len(calls[t]) :
         IsClosing(calls[t][i]) /\ calls[t][i].table = k => File(k, calls[t][i].fd) = calls[t][i].file
    /\ \A h \in Handles : Live(h) /\ fd_table[handle[h].task] = k =>
         Safe(k, handle[h].near) /\ File(k, handle[h].near) = handle[h].file

\* It holds of every table.
TablesInv == \A k \in Tables : TableInv(k)

\* The inductive invariant.
FdInv == FdTypes /\ PhaseInv /\ CallsInv /\ TrackedInv /\ TablesInv /\ UseInv /\ ChildInv /\ InheritInv

-----------------------------------------------------------------------------
(* Steps of a table                                                        *)

\* Where the numbers of table k go in a step: calls move by d, those of N are new, those of G go
OldCalls(k, d, G, N) ==
    \A t \in AllTasks : \A i \in 1..Len(calls'[t]) : \A fd \in Nat :
        <<t, i>> \notin N /\ Claims(t, calls[t][i], k, fd)' =>
            /\ i + d[t] \in 1..Len(calls[t]) /\ <<t, i + d[t]>> \notin G
            /\ Claims(t, calls[t][i + d[t]], k, fd)
            /\ IsClosing(calls'[t][i]) => IsClosing(calls[t][i + d[t]]) /\ calls'[t][i].file = calls[t][i + d[t]].file

\* A new call claims a number that just left the table, or that just was opened.
NewCalls(k, N) ==
    /\ \A t \in AllTasks : \A i \in 1..Len(calls'[t]) : \A fd \in Nat :
        <<t, i>> \in N /\ Claims(t, calls[t][i], k, fd)' =>
            \/ /\ fd \in known[k] /\ fd \notin known'[k]
               /\ IsClosing(calls'[t][i]) => calls'[t][i].file = File(k, fd)
            \/ ~Safe(k, fd) /\ Safe(k, fd)' /\ ~IsClosing(calls'[t][i])
    /\ \A t, u \in AllTasks : \A i \in 1..Len(calls'[t]), j \in 1..Len(calls'[u]) : \A fd \in Nat :
        /\ <<t, i>> \in N /\ <<u, j>> \in N
        /\ Claims(t, calls[t][i], k, fd)' /\ Claims(u, calls[u][j], k, fd)'
        => t = u /\ i = j

\* A call of G claimed the number.
Gone(k, G, fd) == \E t \in AllTasks : \E i \in 1..Len(calls[t]) : <<t, i>> \in G /\ Claims(t, calls[t][i], k, fd)

\* Who is new in the table was claimed by a call that goes.
KnownStep(k, G) == \A fd \in known'[k] : fd \in known[k] \/ Gone(k, G, fd)

\* The numbers outside X stay open, with their files.
SafeStep(k, X) == \A fd \in Fds \ X : Safe(k, fd) => Safe(k, fd)' /\ File(k, fd)' = File(k, fd)

\* The numbers of X are closed by a call that goes.
ClosedStep(k, G, X) == \A fd \in X : fd \notin known'[k] /\ Gone(k, G, fd)

\* Live handles name what is in the table and open.
HandleStep(k) ==
    \A h \in Handles : Live(h)' /\ fd_table'[handle'[h].task] = k =>
        handle'[h].near \in known'[k] /\ Safe(k, handle'[h].near) /\ File(k, handle'[h].near) = handle'[h].file

\* What a step does to the numbers of table k keeps its invariant.
LEMMA TableStep ==
    ASSUME NEW k \in Tables, TableInv(k), Served(k), FdTypes, FdTypes', NEW d \in [AllTasks -> Nat], NEW G, NEW N, NEW X,
           Fds \subseteq Nat,
           OldCalls(k, d, G, N), NewCalls(k, N), KnownStep(k, G), SafeStep(k, X), ClosedStep(k, G, X), HandleStep(k)
    PROVE  TableInv(k)'
  <1> DEFINE C(t, i, fd) == Claims(t, calls[t][i], k, fd)
             D(t, i, fd) == Claims(t, calls[t][i], k, fd)'
  <1>0. known[k] \subseteq Fds /\ known'[k] \subseteq Fds
    BY DEF FdTypes
  <1>1. \A t \in AllTasks : \A i \in 1..Len(calls[t]) : \A fd \in Nat : C(t, i, fd) => Safe(k, fd) /\ fd \notin known[k]
    BY DEF TableInv
  <1>2. \A t, u \in AllTasks : \A i \in 1..Len(calls[t]), j \in 1..Len(calls[u]) : \A fd \in Nat :
           C(t, i, fd) /\ C(u, j, fd) => t = u /\ i = j
    BY DEF TableInv
  <1>3. \A t \in AllTasks : \A i \in 1..Len(calls'[t]) : \A fd \in Nat : <<t, i>> \notin N /\ D(t, i, fd) =>
              /\ i + d[t] \in 1..Len(calls[t]) /\ <<t, i + d[t]>> \notin G /\ C(t, i + d[t], fd)
    BY DEF OldCalls
  <1>4. \A fd \in Nat : Gone(k, G, fd) => \E t \in AllTasks : \E i \in 1..Len(calls[t]) : <<t, i>> \in G /\ C(t, i, fd)
    BY DEF Gone
  <1>5. \A t \in AllTasks : \A i \in 1..Len(calls'[t]) : \A fd \in Nat : <<t, i>> \in N /\ D(t, i, fd) =>
              \/ fd \in known[k] /\ fd \notin known'[k]
              \/ ~Safe(k, fd) /\ Safe(k, fd)'
    BY DEF NewCalls
  <1> HIDE DEF C, D
  <1>6. \A fd \in Fds : fd \in known[k] => Safe(k, fd)
    BY DEF TableInv
  <1>7. \A fd \in Fds : fd \in known'[k] => Safe(k, fd) /\ Safe(k, fd)'
    <2> SUFFICES ASSUME NEW fd \in Fds, fd \in known'[k] PROVE Safe(k, fd) /\ Safe(k, fd)'
      OBVIOUS
    <2>1. fd \notin X
      BY DEF ClosedStep
    <2>2. Safe(k, fd)
      BY <1>1, <1>4, <1>6 DEF KnownStep
    <2> QED BY <2>1, <2>2 DEF SafeStep
  <1>8. \A t \in AllTasks : \A i \in 1..Len(calls'[t]) : \A fd \in Nat : D(t, i, fd) =>
          Safe(k, fd)' /\ fd \notin known'[k] /\ (<<t, i>> \notin N => fd \notin X)
    <2> SUFFICES ASSUME NEW t \in AllTasks, NEW i \in 1..Len(calls'[t]), NEW fd \in Nat, D(t, i, fd)
        PROVE Safe(k, fd)' /\ fd \notin known'[k] /\ (<<t, i>> \notin N => fd \notin X)
      OBVIOUS
    <2>1. CASE <<t, i>> \notin N
      <3>1. i + d[t] \in 1..Len(calls[t]) /\ <<t, i + d[t]>> \notin G /\ C(t, i + d[t], fd)
        BY <2>1, <1>3
      <3>2. Safe(k, fd) /\ fd \notin known[k]
        BY <3>1, <1>1
      <3>3. ~Gone(k, G, fd)
        BY <3>1, <1>2, <1>4
      <3>4. fd \in Fds
        BY <3>2 DEF Safe
      <3> QED BY <3>2, <3>3, <3>4 DEF KnownStep, ClosedStep, SafeStep
    <2>2. CASE <<t, i>> \in N
      <3>1. CASE fd \in known[k] /\ fd \notin known'[k]
        <4>1. Safe(k, fd) /\ fd \in Fds
          BY <3>1, <1>0, <1>6
        <4>2. ~Gone(k, G, fd)
          BY <3>1, <1>1, <1>4
        <4> QED BY <4>1, <4>2, <3>1, <2>2 DEF ClosedStep, SafeStep
      <3>2. CASE ~Safe(k, fd) /\ Safe(k, fd)'
        <4>1. fd \notin known'[k]
          BY <3>2, <1>1, <1>0, <1>4, <1>6 DEF KnownStep
        <4> QED BY <4>1, <3>2, <2>2
      <3> QED BY <3>1, <3>2, <2>2, <1>5
    <2> QED BY <2>1, <2>2
  <1>9. \A t, u \in AllTasks : \A i \in 1..Len(calls'[t]), j \in 1..Len(calls'[u]) : \A fd \in Nat :
           D(t, i, fd) /\ D(u, j, fd) => t = u /\ i = j
    <2> SUFFICES ASSUME NEW t \in AllTasks, NEW u \in AllTasks, NEW i \in 1..Len(calls'[t]), NEW j \in 1..Len(calls'[u]),
                        NEW fd \in Nat, D(t, i, fd), D(u, j, fd)
        PROVE t = u /\ i = j
      OBVIOUS
    <2>1. CASE <<t, i>> \notin N /\ <<u, j>> \notin N
      <3>1. /\ i + d[t] \in 1..Len(calls[t]) /\ C(t, i + d[t], fd)
            /\ j + d[u] \in 1..Len(calls[u]) /\ C(u, j + d[u], fd)
        BY <2>1, <1>3
      <3>2. t = u /\ i + d[t] = j + d[u]
        BY <3>1, <1>2
      <3> QED BY <3>2
    <2>2. CASE <<t, i>> \in N /\ <<u, j>> \in N
      BY <2>2 DEF NewCalls, D
    <2>3. ASSUME NEW a \in AllTasks, NEW m \in 1..Len(calls'[a]), NEW b \in AllTasks, NEW n \in 1..Len(calls'[b]),
                 D(a, m, fd), D(b, n, fd), <<a, m>> \in N, <<b, n>> \notin N
          PROVE FALSE
      <3>1. C(b, n + d[b], fd) /\ n + d[b] \in 1..Len(calls[b])
        BY <2>3, <1>3
      <3>2. Safe(k, fd) /\ fd \notin known[k]
        BY <3>1, <1>1
      <3> QED BY <3>2, <2>3, <1>5
    <2> QED BY <2>1, <2>2, <2>3
  <1>10. ASSUME Served(k)', NEW t \in AllTasks, NEW i \in 1..Len(calls'[t]), IsClosing(calls'[t][i]), calls'[t][i].table = k
         PROVE File(k, calls[t][i].fd)' = calls'[t][i].file
    <2>0. PICK fd \in Nat : fd = calls'[t][i].fd
      <3>1. calls'[t][i] \in SysCall
        BY DEF FdTypes
      <3> QED BY <3>1 DEF SysCall
    <2>1. D(t, i, fd)
      BY <2>0, <1>10 DEF D, Claims, IsClosing
    <2>2. CASE <<t, i>> \notin N
      <3>1. /\ i + d[t] \in 1..Len(calls[t]) /\ C(t, i + d[t], fd)
            /\ IsClosing(calls[t][i + d[t]]) /\ calls'[t][i].file = calls[t][i + d[t]].file
        BY <2>1, <2>2, <1>10, <1>3 DEF OldCalls, C, D
      <3>2. calls[t][i + d[t]].table = k /\ calls[t][i + d[t]].fd = fd
        BY <3>1 DEF C, Claims, IsClosing, IsGiven
      <3>3. File(k, fd) = calls'[t][i].file
        BY <3>1, <3>2 DEF TableInv
      <3>4. Safe(k, fd) /\ fd \notin X
        BY <3>1, <2>1, <2>2, <1>1, <1>8
      <3> QED BY <3>3, <3>4, <2>0 DEF SafeStep, Safe, File, Kernel, Waiting
    <2>3. CASE <<t, i>> \in N
      <3>1. fd \in known[k] /\ fd \notin known'[k] /\ calls'[t][i].file = File(k, fd)
        BY <2>1, <2>3, <1>10 DEF NewCalls, D
      <3>2. Safe(k, fd) /\ ~Gone(k, G, fd)
        BY <3>1, <1>0, <1>6, <1>1, <1>4, <2>1
      <3> QED BY <3>1, <3>2, <1>0, <2>0 DEF SafeStep, ClosedStep, Safe, File, Kernel, Waiting
    <2> QED BY <2>2, <2>3
  <1>11. ASSUME NEW h \in Handles, Live(h)', fd_table'[handle'[h].task] = k
         PROVE Safe(k, handle[h].near)' /\ File(k, handle[h].near)' = handle'[h].file
    <2>1. handle'[h].near \in known'[k] /\ Safe(k, handle'[h].near) /\ File(k, handle'[h].near) = handle'[h].file
      BY <1>11 DEF HandleStep
    <2> QED BY <2>1, <1>0 DEF SafeStep, ClosedStep
  <1> QED BY <1>7, <1>0, <1>8, <1>9, <1>10, <1>11 DEF TableInv, D

\* The names of tasks and tables.
LEMMA TableFacts ==
    ASSUME TableCfg
    PROVE  /\ 0 \in Tables /\ AllTasks \subseteq Tables /\ 0 \notin AllTasks /\ AllTasks \subseteq Nat
           /\ Tasks \subseteq AllTasks /\ Child \notin Tasks /\ (Child # 0 => Child \in AllTasks)
           /\ \A t \in AllTasks : t \in Tasks \/ (t = Child /\ Child # 0)
           /\ \A t \in AllTasks : Home(t) \in {0, t} /\ (Home(t) = 0 <=> t \in Tasks)
           /\ \A k \in Tables : k = 0 \/ k \in AllTasks
           /\ Fds \subseteq Nat /\ 0 \notin Fds
  BY DEF TableCfg, FDTableAssumption, Tables, AllTasks, Home

\* The table of a task that serves is in use; that of one that lost its connection is
\* not.
LEMMA TaskServed ==
    ASSUME TableCfg, FdTypes, PhaseInv, NEW t \in AllTasks
    PROVE  /\ t \notin broken /\ t \in Tasks => Served(0)
           /\ Ready(t) => Served(fd_table[t])
           /\ t \in broken => ~Served(Home(t)) /\ ~Served(t)
  <1>1. t \notin broken /\ t \in Tasks => Served(0)
    BY TableFacts DEF FdTypes, Served, TableCfg
  <1>2. Ready(t) => Served(fd_table[t])
    BY <1>1, TableFacts DEF Served, PhaseInv, FdTypes, Ready
  <1>3. t \in broken => ~Served(Home(t)) /\ ~Served(t)
    BY TableFacts DEF Served, Ready
  <1> QED BY <1>1, <1>2, <1>3

-----------------------------------------------------------------------------
(* Calls                                                                   *)

\* A call is added to those of t.
LEMMA Sent ==
    ASSUME FdTypes, NEW t \in AllTasks, NEW c \in SysCall, calls' = [calls EXCEPT ![t] = Append(@, c)]
    PROVE  /\ calls' \in [AllTasks -> Seq(SysCall)]
           /\ \A u \in AllTasks : Len(calls'[u]) = IF u = t THEN Len(calls[u]) + 1 ELSE Len(calls[u])
           /\ \A u \in AllTasks : \A i \in 1..Len(calls[u]) : calls'[u][i] = calls[u][i]
           /\ calls'[t][Len(calls[t]) + 1] = c
           /\ \A u \in AllTasks \ {t} : calls'[u] = calls[u]
  <1> DEFINE q == calls[t]
  <1>0. c \in SysCall
    OBVIOUS
  <1>1. q \in Seq(SysCall)
    BY DEF FdTypes
  <1>2. Append(q, c) \in Seq(SysCall) /\ Len(Append(q, c)) = Len(q) + 1 /\ Append(q, c)[Len(q) + 1] = c
        /\ \A i \in 1..Len(q) : Append(q, c)[i] = q[i]
    BY ONLY <1>0, <1>1
  <1>3. DOMAIN calls = AllTasks
    BY DEF FdTypes
  <1>4. calls'[t] = Append(q, c) /\ \A u \in AllTasks \ {t} : calls'[u] = calls[u]
    BY <1>3
  <1>5. calls' \in [AllTasks -> Seq(SysCall)]
    BY <1>2 DEF FdTypes
  <1> QED BY <1>2, <1>4, <1>5

\* The first call of t is handled.
Popped(t) == calls' = [calls EXCEPT ![t] = Tail(@)]

\* How far the calls of u move when the first call of t is handled.
Before(t, u) == IF u = t THEN 1 ELSE 0

\* The calls of t without the first.
LEMMA PoppedCalls ==
    ASSUME FdTypes, NEW t \in AllTasks, calls[t] # << >>, Popped(t)
    PROVE  /\ calls' \in [AllTasks -> Seq(SysCall)]
           /\ \A u \in AllTasks : Len(calls'[u]) = Len(calls[u]) - Before(t, u)
           /\ \A u \in AllTasks : \A i \in 1..Len(calls'[u]) :
                i + Before(t, u) \in 1..Len(calls[u]) /\ calls'[u][i] = calls[u][i + Before(t, u)]
           /\ 1 \in 1..Len(calls[t]) /\ Head(calls[t]) = calls[t][1] /\ calls[t][1] \in SysCall
           /\ \A u \in AllTasks \ {t} : calls'[u] = calls[u]
  <1> DEFINE q == calls[t]
  <1>1. q \in Seq(SysCall) /\ q # << >>
    BY DEF FdTypes
  <1>2. /\ Tail(q) \in Seq(SysCall) /\ Len(Tail(q)) = Len(q) - 1 /\ Head(q) = q[1] /\ 1 \in 1..Len(q) /\ q[1] \in SysCall
        /\ \A i \in 1..Len(Tail(q)) : i + 1 \in 1..Len(q) /\ Tail(q)[i] = q[i + 1]
    BY ONLY <1>1
  <1>3. DOMAIN calls = AllTasks
    BY DEF FdTypes
  <1>4. calls'[t] = Tail(q) /\ \A u \in AllTasks \ {t} : calls'[u] = calls[u]
    BY <1>3 DEF Popped
  <1>5. calls' \in [AllTasks -> Seq(SysCall)]
    BY <1>2 DEF FdTypes, Popped
  <1>6. \A u \in AllTasks : \A i \in 1..Len(calls[u]) : i + 0 = i
    BY DEF FdTypes
  <1>7. \A u \in AllTasks : calls[u] \in Seq(SysCall) /\ Len(calls[u]) \in Nat
    BY DEF FdTypes
  <1>8. ASSUME NEW u \in AllTasks PROVE Len(calls'[u]) = Len(calls[u]) - Before(t, u)
    <2>1. CASE u = t
      BY <2>1, <1>2, <1>4 DEF Before
    <2>2. CASE u # t
      <3>1. Len(calls'[u]) = Len(calls[u]) /\ Len(calls[u]) \in Nat /\ Before(t, u) = 0
        BY <2>2, <1>4, <1>7 DEF Before
      <3> QED BY <3>1
    <2> QED BY <2>1, <2>2
  <1>9. ASSUME NEW u \in AllTasks, NEW i \in 1..Len(calls'[u])
        PROVE i + Before(t, u) \in 1..Len(calls[u]) /\ calls'[u][i] = calls[u][i + Before(t, u)]
    BY <1>2, <1>4, <1>6, <1>9 DEF Before
  <1> QED BY <1>2, <1>4, <1>5, <1>8, <1>9

\* The calls when one of t returned.
LEMMA ReturnedCalls ==
    ASSUME FdTypes, NEW t \in AllTasks, NEW i \in 1..Len(calls[t]), NEW r \in Nat, Returned(t, i, r)
    PROVE  /\ calls' \in [AllTasks -> Seq(SysCall)]
           /\ \A u \in AllTasks : Len(calls'[u]) = Len(calls[u])
           /\ \A u \in AllTasks : \A j \in 1..Len(calls[u]) : <<u, j>> # <<t, i>> => calls'[u][j] = calls[u][j]
           /\ calls'[t][i] = [calls[t][i] EXCEPT !.ret = r]
           /\ \A u \in AllTasks \ {t} : calls'[u] = calls[u]
  <1> DEFINE q == calls[t]  c == [q[i] EXCEPT !.ret = r]  p == [q EXCEPT ![i] = c]
  <1>1. q \in Seq(SysCall) /\ q[i] \in SysCall /\ i \in 1..Len(q)
    BY DEF FdTypes
  <1>2. c \in SysCall
    BY <1>1 DEF SysCall
  <1> HIDE DEF c
  <1>3. p \in Seq(SysCall) /\ Len(p) = Len(q) /\ p[i] = c /\ \A j \in 1..Len(q) : j # i => p[j] = q[j]
    BY ONLY <1>1, <1>2
  <1>4. DOMAIN calls = AllTasks
    BY DEF FdTypes
  <1>5. calls' = [calls EXCEPT ![t] = p]
    BY DEF Returned, c
  <1>6. calls'[t] = p /\ \A u \in AllTasks \ {t} : calls'[u] = calls[u]
    BY <1>4, <1>5
  <1>7. calls' \in [AllTasks -> Seq(SysCall)]
    BY <1>3, <1>5 DEF FdTypes
  <1>8. \A u \in AllTasks : \A j \in 1..Len(calls[u]) : <<u, j>> # <<t, i>> => calls'[u][j] = calls[u][j]
    BY <1>3, <1>6
  <1> QED BY <1>3, <1>6, <1>7, <1>8 DEF c

\* In a finite set of numbers each is the i-th for exactly one i.
LEMMA Ranks ==
    ASSUME NEW S \in SUBSET Nat, IsFiniteSet(S), NEW n \in Nat, n = Cardinality(S)
    PROVE  /\ \A i \in 1..n : \E f \in S : Cardinality({g \in S : g < f}) = i - 1
           /\ \A f \in S : \E i \in 1..n : Cardinality({g \in S : g < f}) = i - 1
           /\ \A f, e \in S : Cardinality({g \in S : g < f}) = Cardinality({g \in S : g < e}) => f = e
  <1> DEFINE Less(f) == {g \in S : g < f}
             rank == [f \in S |-> Cardinality(Less(f)) + 1]
  <1>1. ASSUME NEW f \in S PROVE IsFiniteSet(Less(f)) /\ Cardinality(Less(f)) \in Nat /\ Cardinality(Less(f)) < n
    <2>1. Less(f) \subseteq S /\ f \notin Less(f)
      OBVIOUS
    <2>2. IsFiniteSet(Less(f)) /\ Cardinality(Less(f)) <= n /\ Less(f) # S /\ (Cardinality(S) = Cardinality(Less(f)) => S = Less(f))
      BY <2>1, FS_Subset
    <2>3. Cardinality(Less(f)) \in Nat
      BY <2>2, FS_CardinalityType
    <2> QED BY <2>2, <2>3
  <1>2. ASSUME NEW f \in S, NEW e \in S, f < e PROVE Cardinality(Less(f)) < Cardinality(Less(e))
    <2>0. \A g \in S : g \in Nat
      OBVIOUS
    <2>5. f \in Nat /\ e \in Nat /\ f < e
      BY <1>2, <2>0
    <2>6. \A g \in S : g < f => g < e
      BY <2>0, <2>5
    <2>1. Less(f) \subseteq Less(e)
      BY <2>6
    <2>4. f \in Less(e) /\ f \notin Less(f)
      BY <1>2, <2>0
    <2>2. Cardinality(Less(f)) <= Cardinality(Less(e)) /\ (Cardinality(Less(e)) = Cardinality(Less(f)) => Less(e) = Less(f))
      BY <2>1, <1>1, FS_Subset
    <2>3. Cardinality(Less(f)) \in Nat /\ Cardinality(Less(e)) \in Nat
      BY <1>1
    <2> QED BY <2>4, <2>2, <2>3
  <1>3. \A f, e \in S : Cardinality(Less(f)) = Cardinality(Less(e)) => f = e
    <2> SUFFICES ASSUME NEW f \in S, NEW e \in S, Cardinality(Less(f)) = Cardinality(Less(e)) PROVE f = e
      OBVIOUS
    <2>1. ~(f < e) /\ ~(e < f)
      BY <1>1, <1>2
    <2> QED BY <2>1
  <1> HIDE DEF Less
  <1>4. rank \in Injection(S, 1..n)
    <2>1. \A f \in S : Cardinality(Less(f)) + 1 \in 1..n
      BY <1>1
    <2>2. rank \in [S -> 1..n]
      BY <2>1
    <2>3. \A f, e \in S : rank[f] = rank[e] => f = e
      BY <1>1, <1>3
    <2> QED BY <2>2, <2>3 DEF Injection, IsInjective
  <1>5. IsFiniteSet(1..n) /\ Cardinality(1..n) = n
    BY FS_Interval
  <1>6. rank \in Surjection(S, 1..n)
    BY <1>4, <1>5, FS_Injection
  <1>7. \A i \in 1..n : \E f \in S : rank[f] = i
    BY <1>6 DEF Surjection
  <1>8. \A i \in 1..n : \E f \in S : Cardinality(Less(f)) = i - 1
    BY <1>7, <1>1
  <1>9. \A f \in S : \E i \in 1..n : Cardinality(Less(f)) = i - 1
    <2> SUFFICES ASSUME NEW f \in S PROVE \E i \in 1..n : Cardinality(Less(f)) = i - 1
      OBVIOUS
    <2>1. Cardinality(Less(f)) \in Nat /\ Cardinality(Less(f)) < n
      BY <1>1
    <2> QED BY <2>1
  <1> QED BY <1>3, <1>8, <1>9 DEF Less

\* Closes makes one close of each of the numbers.
LEMMA ClosesCalls ==
    ASSUME TableCfg, FdTypes, PhaseInv, NEW k \in Tables, NEW fds \in SUBSET Fds
    PROVE  /\ Closes(k, fds) \in Seq(SysCall) /\ Len(Closes(k, fds)) = Cardinality(fds)
           /\ \A i \in 1..Cardinality(fds) : \E fd \in fds : Closes(k, fds)[i] = Call("close", fd, FileAt(k, fd), k, {})
           /\ \A fd \in fds : \E i \in 1..Cardinality(fds) : Closes(k, fds)[i] = Call("close", fd, FileAt(k, fd), k, {})
           /\ \A i, j \in 1..Cardinality(fds) : Closes(k, fds)[i].fd = Closes(k, fds)[j].fd => i = j
           /\ Cardinality(fds) \in Nat
  <1> DEFINE n == Cardinality(fds)
             Less(f) == {g \in fds : g < f}
             nth(i) == CHOOSE f \in fds : Cardinality(Less(f)) = i - 1
             c(fd) == Call("close", fd, FileAt(k, fd), k, {})
             q == [i \in 1..n |-> c(nth(i))]
  <1>1. fds \in SUBSET Nat /\ IsFiniteSet(fds) /\ n \in Nat
    BY TableFacts, FS_Subset, FS_CardinalityType DEF TableCfg, FDTableAssumption
  <1>2. /\ \A i \in 1..n : \E f \in fds : Cardinality(Less(f)) = i - 1
        /\ \A f \in fds : \E i \in 1..n : Cardinality(Less(f)) = i - 1
        /\ \A f, e \in fds : Cardinality(Less(f)) = Cardinality(Less(e)) => f = e
    BY <1>1, Ranks
  <1>3. Closes(k, fds) = q
    BY DEF Closes
  <1> HIDE DEF Less, n
  <1>4. \A i \in 1..n : nth(i) \in fds /\ Cardinality(Less(nth(i))) = i - 1
    BY <1>2
  <1>5. \A f \in fds : \E i \in 1..n : nth(i) = f
    <2> SUFFICES ASSUME NEW f \in fds PROVE \E i \in 1..n : nth(i) = f
      OBVIOUS
    <2>1. PICK i \in 1..n : Cardinality(Less(f)) = i - 1
      BY <1>2
    <2> QED BY <2>1, <1>2, <1>4
  <1>6. \A i, j \in 1..n : nth(i) = nth(j) => i = j
    BY <1>4, <1>1
  <1> HIDE DEF nth
  <1>7. \A fd \in Fds : FileAt(k, fd) \in Nat
    BY TableFacts DEF FileAt, FdTypes
  <1>8. \A fd \in fds : c(fd) \in SysCall /\ c(fd).fd = fd
    BY <1>1, <1>7 DEF Call, SysCall
  <1> HIDE DEF c
  <1>9. q \in Seq(SysCall) /\ Len(q) = n
    <2>1. \A i \in 1..n : c(nth(i)) \in SysCall
      BY <1>4, <1>8
    <2>2. q \in [1..n -> SysCall]
      BY <2>1
    <2> HIDE DEF q
    <2>3. q \in Seq(SysCall)
      BY <2>2, <1>1
    <2>4. DOMAIN q = 1..n
      BY <2>2
    <2>5. Len(q) = n
      BY <2>3, <2>4, <1>1
    <2> QED BY <2>3, <2>5
  <1>10. \A i \in 1..n : q[i] = c(nth(i))
    OBVIOUS
  <1> HIDE DEF q
  <1>11. \A i, j \in 1..n : q[i].fd = q[j].fd => i = j
    BY <1>4, <1>6, <1>8, <1>10
  <1>12. \A i \in 1..n : \E fd \in fds : q[i] = c(fd)
    BY <1>4, <1>10
  <1>13. \A fd \in fds : \E i \in 1..n : q[i] = c(fd)
    <2> SUFFICES ASSUME NEW fd \in fds PROVE \E i \in 1..n : q[i] = c(fd)
      OBVIOUS
    <2> PICK i \in 1..n : nth(i) = fd
      BY <1>5
    <2> QED BY <1>10
  <1> QED BY <1>1, <1>3, <1>9, <1>11, <1>12, <1>13 DEF n, c

\* Send adds a call of the right type.
LEMMA SendTypes ==
    ASSUME TableCfg, FdTypes, NEW t \in AllTasks, NEW op \in {"open", "close", "use", "use_own", "unshare", "exec", "clone"},
           NEW fd \in Nat, NEW file \in Nat, NEW k \in Tables, NEW hs \in SUBSET Handles, Send(t, Call(op, fd, file, k, hs))
    PROVE  /\ Call(op, fd, file, k, hs) \in SysCall /\ Len(calls[t]) < MaxCalls
           /\ Call(op, fd, file, k, hs).ret = 0 /\ Call(op, fd, file, k, hs).op = op
           /\ calls' = [calls EXCEPT ![t] = Append(@, Call(op, fd, file, k, hs))]
           /\ calls' \in [AllTasks -> Seq(SysCall)]
  <1> DEFINE c == Call(op, fd, file, k, hs)
  <1>1. c \in SysCall /\ c.ret = 0 /\ c.op = op
    BY DEF Call, SysCall
  <1>2. calls' = [calls EXCEPT ![t] = Append(@, c)] /\ Len(calls[t]) < MaxCalls
    BY DEF Send
  <1> HIDE DEF c
  <1>3. calls' \in [AllTasks -> Seq(SysCall)]
    BY <1>1, <1>2, Sent
  <1> QED BY <1>1, <1>2, <1>3 DEF c

-----------------------------------------------------------------------------
(* Handles                                                                 *)

\* h becomes a handle of t.
Makes(h, t, fd, file) ==
    /\ handle[h].state = "free"
    /\ handle' = [handle EXCEPT ![h] = [task |-> t, near |-> fd, file |-> file, state |-> "valid"]]
    /\ tracked' = [tracked EXCEPT ![fd_table[t]] = @ \cup {h}]
    /\ known' = [known EXCEPT ![fd_table[t]] = @ \cup {fd}]

\* A new handle has the right type, and changes no other.
LEMMA MakeTypes ==
    ASSUME TableCfg, FdTypes, NEW t \in AllTasks, NEW fd \in Fds, NEW file \in Nat, NEW h \in Handles, Makes(h, t, fd, file)
    PROVE  /\ known' \in [Tables -> SUBSET Fds] /\ tracked' \in [Tables -> SUBSET Handles] /\ handle' \in [Handles -> HandleRec]
           /\ \A g \in Handles : handle'[g].state # "free" => handle'[g].task \in AllTasks /\ handle'[g].near \in Fds
           /\ handle'[h] = [task |-> t, near |-> fd, file |-> file, state |-> "valid"]
           /\ \A g \in Handles \ {h} : handle'[g] = handle[g]
           /\ \A k \in Tables : tracked'[k] = IF k = fd_table[t] THEN tracked[k] \cup {h} ELSE tracked[k]
           /\ \A k \in Tables : known'[k] = IF k = fd_table[t] THEN known[k] \cup {fd} ELSE known[k]
  <1> DEFINE r == [task |-> t, near |-> fd, file |-> file, state |-> "valid"]
  <1>1. r \in HandleRec /\ r.near \in Fds /\ r.task \in AllTasks
    BY DEF HandleRec
  <1> HIDE DEF r
  <1>2. handle' = [handle EXCEPT ![h] = r]
    BY DEF Makes, r
  <1>3. handle'[h] = r /\ \A g \in Handles \ {h} : handle'[g] = handle[g]
    BY <1>2 DEF FdTypes
  <1>4. handle' \in [Handles -> HandleRec]
    BY <1>1, <1>2 DEF FdTypes
  <1>5. \A g \in Handles : handle'[g].state # "free" => handle'[g].task \in AllTasks /\ handle'[g].near \in Fds
    BY <1>1, <1>3 DEF FdTypes
  <1>6. fd_table[t] \in Tables
    BY DEF FdTypes
  <1>7. known' \in [Tables -> SUBSET Fds] /\ \A k \in Tables : known'[k] = IF k = fd_table[t] THEN known[k] \cup {fd} ELSE known[k]
    BY <1>6 DEF Makes, FdTypes
  <1>8. tracked' \in [Tables -> SUBSET Handles] /\ \A k \in Tables : tracked'[k] = IF k = fd_table[t] THEN tracked[k] \cup {h} ELSE tracked[k]
    BY <1>6 DEF Makes, FdTypes
  <1> QED BY <1>3, <1>4, <1>5, <1>7, <1>8 DEF r

\* Calls keep their order and move by d; those of N are new or changed.
Moved(d, N) ==
    \A t \in AllTasks : \A i \in 1..Len(calls'[t]) : <<t, i>> \notin N =>
        i + d[t] \in 1..Len(calls[t]) /\ calls'[t][i] = calls[t][i + d[t]]

phase == <<ktable, fd_table, stage, alive, broken>>

\* Nothing but the end of an unshare.
Steady ==
    /\ UNCHANGED <<ktable, fd_table, alive, broken>>
    /\ \A u \in AllTasks : stage'[u] = stage[u] \/ (stage[u] = "unshared" /\ stage'[u] = "done")

\* The calls stay in order when some move and the new ones fit.
LEMMA CallsSteady ==
    ASSUME FdTypes, CallsInv, Steady, NEW d \in [AllTasks -> Nat], NEW N, Moved(d, N),
           \A t \in AllTasks : Len(calls'[t]) <= MaxCalls,
           \A t \in AllTasks : \A i \in 1..Len(calls'[t]) : <<t, i>> \in N => CallOK(t, i, calls'[t][i]),
           \A t \in AllTasks : \A i, j \in 1..Len(calls'[t]) :
              i < j /\ calls'[t][j].ret # 0 /\ (<<t, i>> \in N \/ <<t, j>> \in N) => calls'[t][i].ret # 0
    PROVE  CallsInv'
  <1>1. ASSUME NEW t \in AllTasks, NEW i \in 1..Len(calls'[t]) PROVE CallOK(t, i, calls'[t][i])
    <2>1. CASE <<t, i>> \notin N
      <3>1. i + d[t] \in 1..Len(calls[t]) /\ calls'[t][i] = calls[t][i + d[t]]
        BY <2>1 DEF Moved
      <3>2. CallOK(t, i + d[t], calls'[t][i])
        BY <3>1 DEF CallsInv
      <3>3. i + d[t] = 1 => i = 1
        OBVIOUS
      <3> QED BY <3>2, <3>3 DEF CallOK
    <2> QED BY <2>1
  <1>2. ASSUME NEW t \in AllTasks, NEW i \in 1..Len(calls'[t]), NEW j \in 1..Len(calls'[t]), i < j, calls'[t][j].ret # 0
        PROVE  calls'[t][i].ret # 0
    <2>1. CASE <<t, i>> \notin N /\ <<t, j>> \notin N
      <3>1. /\ i + d[t] \in 1..Len(calls[t]) /\ calls'[t][i] = calls[t][i + d[t]]
            /\ j + d[t] \in 1..Len(calls[t]) /\ calls'[t][j] = calls[t][j + d[t]]
            /\ i + d[t] < j + d[t]
        BY SMTT(30), <2>1, <1>2 DEF Moved
      <3> QED BY <3>1, <1>2 DEF CallsInv
    <2> QED BY <2>1, <1>2
  <1>3. ASSUME NEW t \in AllTasks, NEW i \in 1..Len(calls'[t]) PROVE CallOK(t, i, calls[t][i])'
    BY <1>1 DEF CallOK, Steady, Waiting, Ready
  <1> QED BY <1>2, <1>3 DEF CallsInv

\* The same, for a step that changes no phase.
LEMMA CallsKept ==
    ASSUME FdTypes, CallsInv, UNCHANGED phase, NEW d \in [AllTasks -> Nat], NEW N, Moved(d, N),
           \A t \in AllTasks : Len(calls'[t]) <= MaxCalls,
           \A t \in AllTasks : \A i \in 1..Len(calls'[t]) : <<t, i>> \in N => CallOK(t, i, calls'[t][i]),
           \A t \in AllTasks : \A i, j \in 1..Len(calls'[t]) :
              i < j /\ calls'[t][j].ret # 0 /\ (<<t, i>> \in N \/ <<t, j>> \in N) => calls'[t][i].ret # 0
    PROVE  CallsInv'
  <1>1. Steady
    BY DEF Steady, phase
  <1> QED BY <1>1, CallsSteady

\* A call that moved claims what it claimed.
LEMMA OldKept ==
    ASSUME NEW k, fd_table' = fd_table, NEW d \in [AllTasks -> Nat], NEW N, NEW G, Moved(d, N),
           \A t \in AllTasks : \A i \in 1..Len(calls'[t]) : <<t, i + d[t]>> \notin G
    PROVE  OldCalls(k, d, G, N)
  <1> SUFFICES ASSUME NEW t \in AllTasks, NEW i \in 1..Len(calls'[t]), NEW fd \in Nat, <<t, i>> \notin N, Claims(t, calls[t][i], k, fd)'
      PROVE  /\ i + d[t] \in 1..Len(calls[t]) /\ <<t, i + d[t]>> \notin G
             /\ Claims(t, calls[t][i + d[t]], k, fd)
             /\ IsClosing(calls'[t][i]) => IsClosing(calls[t][i + d[t]]) /\ calls'[t][i].file = calls[t][i + d[t]].file
    BY DEF OldCalls
  <1>1. i + d[t] \in 1..Len(calls[t]) /\ calls'[t][i] = calls[t][i + d[t]]
    BY DEF Moved
  <1> QED BY <1>1 DEF Claims, IsClosing, IsGiven

\* The phases stay as they are when the first call of who unshares or execs stays the
\* first.
LEMMA PhaseSteady ==
    ASSUME FdTypes, PhaseInv, Steady, manipulating' = manipulating,
           \A t \in AllTasks : calls[t] # << >> /\ calls[t][1].op \in {"unshare", "exec"} /\ (t \notin broken \/ t \notin alive) =>
              calls'[t] # << >> /\ calls'[t][1].op = calls[t][1].op /\ (calls[t][1].ret # 0 => calls'[t][1].ret # 0)
    PROVE  PhaseInv'
  BY DEF PhaseInv, Steady, Waiting, Ready

\* The same, for a step that changes no phase.
LEMMA PhaseKept ==
    ASSUME FdTypes, PhaseInv, UNCHANGED phase, manipulating' = manipulating,
           \A t \in AllTasks : calls[t] # << >> /\ calls[t][1].op \in {"unshare", "exec"} /\ (t \notin broken \/ t \notin alive) =>
              calls'[t] # << >> /\ calls'[t][1].op = calls[t][1].op /\ (calls[t][1].ret # 0 => calls'[t][1].ret # 0)
    PROVE  PhaseInv'
  <1>1. Steady
    BY DEF Steady, phase
  <1> QED BY <1>1, PhaseSteady

\* Without a child there is nothing to say of it.
LEMMA NoChild ==
    ASSUME TableCfg, Child = 0, FdTypes', PhaseInv', CallsInv'
    PROVE  ChildInv' /\ InheritInv'
  <1>1. \A t \in AllTasks : stage'[t] # "cloned"
    BY DEF PhaseInv
  <1>2. \A t \in AllTasks : \A i \in 1..Len(calls'[t]) : calls'[t][i].op # "clone"
    BY DEF CallsInv, CallOK
  <1> QED BY <1>1, <1>2 DEF ChildInv, NewInv, CopyInv, CloneInv, InheritInv, Copied, NewChild, FdTypes

\* No call moves.
Still == [u \in AllTasks |-> 0]

\* The child knows the number, or a call of it is about to make or close it.
Taken(fd) ==
    \/ fd \in known[Child]
    \/ \E i \in 1..Len(calls[Child]) : Claims(Child, calls[Child][i], Child, fd)

\* Who takes a number in the child after a step took it before.
LEMMA TakenMoved ==
    ASSUME TableCfg, Child # 0, fd_table' = fd_table, NEW d \in [AllTasks -> Nat], NEW N, Moved(d, N), NEW fd,
           \A i \in 1..Len(calls'[Child]) : <<Child, i>> \in N /\ Claims(Child, calls[Child][i], Child, fd)' => Taken(fd),
           fd \in known'[Child] => Taken(fd), Taken(fd)'
    PROVE  Taken(fd)
  <1>1. Child \in AllTasks
    BY TableFacts
  <1>2. CASE fd \in known'[Child]
    BY <1>2
  <1>3. ASSUME NEW i \in 1..Len(calls'[Child]), Claims(Child, calls[Child][i], Child, fd)' PROVE Taken(fd)
    <2>1. CASE <<Child, i>> \in N
      BY <2>1, <1>3
    <2>2. CASE <<Child, i>> \notin N
      <3>1. i + d[Child] \in 1..Len(calls[Child]) /\ calls'[Child][i] = calls[Child][i + d[Child]]
        BY <1>1, <2>2 DEF Moved
      <3> QED BY <3>1, <1>3 DEF Taken, Claims, IsClosing, IsGiven
    <2> QED BY <2>1, <2>2
  <1> QED BY <1>2, <1>3 DEF Taken

\* What may be inherited stays so while the child's numbers are not taken.
LEMMA InheritKept ==
    ASSUME Child # 0, InheritInv, kfile' = kfile, Ready(Child)' => Ready(Child), inherited' \subseteq inherited,
           \A h \in inherited' : handle'[h].state \in {"valid", "invalid"} /\ handle'[h].near = handle[h].near
                                 /\ handle'[h].file = handle[h].file,
           leaked'[Child] \subseteq leaked[Child],
           \A fd \in leaked'[Child] : ~Taken(fd)' \/ (Ready(Child) => Taken(fd))
    PROVE  InheritInv'
  <1>1. Ready(Child) => \A fd \in leaked[Child] : ~Taken(fd)
    BY DEF InheritInv, Taken
  <1>2. Ready(Child)' => \A fd \in leaked'[Child] : ~Taken(fd)'
    BY <1>1
  <1>3. Ready(Child)' => /\ \A h \in inherited' : handle'[h].near \in leaked'[Child] => kfile'[Child][handle'[h].near] = handle'[h].file
                         /\ \A fd \in leaked'[Child] : kfile'[Child][fd] # 0
    BY DEF InheritInv
  <1>4. Ready(Child)' => \A fd \in leaked'[Child] : fd \notin known'[Child]
    BY <1>2 DEF Taken
  <1>5. ASSUME Ready(Child)', NEW i \in 1..Len(calls'[Child]), NEW fd \in leaked'[Child]
        PROVE  ~Claims(Child, calls[Child][i], Child, fd)'
    BY <1>2, <1>5 DEF Taken
  <1> QED BY <1>3, <1>4, <1>5 DEF InheritInv

\* A clone under way stays as it is when no clone is new or gone.
LEMMA CloneKept ==
    ASSUME CloneInv, UNCHANGED phase, NEW d \in [AllTasks -> Nat], NEW N, Moved(d, N), Tasks \subseteq AllTasks,
           \A t \in AllTasks : \A i \in 1..Len(calls'[t]) : <<t, i>> \in N => calls'[t][i].op # "clone",
           \A t \in Tasks \ broken : \A j \in 1..Len(calls[t]) : calls[t][j].op = "clone" =>
              \E i \in 1..Len(calls'[t]) : calls'[t][i] = calls[t][j]
    PROVE  CloneInv'
  <1>1. (Copied' <=> Copied) /\ (NewChild' <=> NewChild) /\ stage' = stage /\ broken' = broken
    BY DEF Copied, NewChild, phase
  <1>2. Copied => \A t \in Tasks \ broken : stage[t] = "cloned" \/ \E j \in 1..Len(calls'[t]) : calls'[t][j].op = "clone" /\ calls'[t][j].ret # 0
    <2> SUFFICES ASSUME Copied, NEW t \in Tasks \ broken, stage[t] # "cloned"
        PROVE \E j \in 1..Len(calls'[t]) : calls'[t][j].op = "clone" /\ calls'[t][j].ret # 0
      OBVIOUS
    <2>1. PICK j \in 1..Len(calls[t]) : calls[t][j].op = "clone" /\ calls[t][j].ret # 0
      BY DEF CloneInv
    <2>2. PICK i \in 1..Len(calls'[t]) : calls'[t][i] = calls[t][j]
      BY <2>1
    <2> QED BY <2>1, <2>2
  <1>3. ASSUME NEW t \in AllTasks, NEW j \in 1..Len(calls'[t]), calls'[t][j].op = "clone"
        PROVE  j + d[t] \in 1..Len(calls[t]) /\ calls'[t][j] = calls[t][j + d[t]]
    BY <1>3 DEF Moved
  <1>a. \A t \in AllTasks \ broken : \A j \in 1..Len(calls[t]) : calls[t][j].op = "clone" => (calls[t][j].ret # 0 <=> Copied) /\ NewChild
    BY DEF CloneInv
  <1>b. \A t \in AllTasks \ broken : \A i, j \in 1..Len(calls[t]) : calls[t][i].op = "clone" /\ calls[t][j].op = "clone" => i = j
    BY DEF CloneInv
  <1>4. ASSUME NEW t \in AllTasks \ broken, NEW j \in 1..Len(calls'[t]), calls'[t][j].op = "clone"
        PROVE  (calls'[t][j].ret # 0 <=> Copied) /\ NewChild
    <2>1. j + d[t] \in 1..Len(calls[t]) /\ calls'[t][j] = calls[t][j + d[t]]
      BY <1>3, <1>4
    <2> QED BY <2>1, <1>4, <1>a
  <1>5. ASSUME NEW t \in AllTasks \ broken, NEW i \in 1..Len(calls'[t]), NEW j \in 1..Len(calls'[t]),
               calls'[t][i].op = "clone", calls'[t][j].op = "clone"
        PROVE  i = j
    <2>0. /\ i + d[t] \in 1..Len(calls[t]) /\ calls'[t][i] = calls[t][i + d[t]]
          /\ j + d[t] \in 1..Len(calls[t]) /\ calls'[t][j] = calls[t][j + d[t]]
      BY <1>3, <1>5
    <2>1. i + d[t] = j + d[t]
      BY SMTT(30), <2>0, <1>5, <1>b
    <2>2. d[t] \in Nat /\ i \in Int /\ j \in Int
      OBVIOUS
    <2> QED BY <2>1, <2>2
  <1> QED BY <1>1, <1>2, <1>4, <1>5 DEF CloneInv

\* The copy for the child stays good when no handle is new in the first table but for
\* its files.
LEMMA CopyKept ==
    ASSUME CopyInv, CallsInv, UNCHANGED phase, kfile' = kfile, leaked'[Child] \subseteq leaked[Child],
           NEW d \in [AllTasks -> Nat], NEW N, Moved(d, N), Tasks \subseteq AllTasks,
           \A t \in Tasks : \A i, j \in 1..Len(calls'[t]) : IsGiven(calls'[t][i]) /\ HasClone(t, i, j)' => <<t, i>> \notin N /\ <<t, j>> \notin N,
           Copied => \A h \in tracked'[0] : Live(h)' => \/ h \in tracked[0] /\ handle'[h] = handle[h]
                                                        \/ kfile[Child][handle'[h].near] = handle'[h].file
    PROVE  CopyInv'
  <1>1. (Copied' <=> Copied) /\ broken' = broken
    BY DEF Copied, NewChild, phase
  <1> SUFFICES ASSUME Copied PROVE
          /\ \A h \in tracked'[0] : Live(h)' => kfile[Child][handle'[h].near] = handle'[h].file
          /\ \A t \in Tasks \ broken : \A i, j \in 1..Len(calls'[t]) : IsGiven(calls'[t][i]) /\ HasClone(t, i, j)' =>
               kfile[Child][calls'[t][i].ret] = kfile[0][calls'[t][i].ret]
          /\ \A fd \in leaked'[Child] : kfile[Child][fd] # 0
    BY <1>1 DEF CopyInv, IsGiven
  <1>2. \A h \in tracked'[0] : Live(h)' => kfile[Child][handle'[h].near] = handle'[h].file
    BY DEF CopyInv, Live
  <1>3. ASSUME NEW t \in Tasks \ broken, NEW i \in 1..Len(calls'[t]), NEW j \in 1..Len(calls'[t]), IsGiven(calls'[t][i]), HasClone(t, i, j)'
        PROVE  kfile[Child][calls'[t][i].ret] = kfile[0][calls'[t][i].ret]
    <2>1. /\ i + d[t] \in 1..Len(calls[t]) /\ calls'[t][i] = calls[t][i + d[t]]
          /\ j + d[t] \in 1..Len(calls[t]) /\ calls'[t][j] = calls[t][j + d[t]]
      BY <1>3 DEF Moved
    <2>2. HasClone(t, i + d[t], j + d[t])
      BY <2>1, <1>3 DEF HasClone
    <2>3. IsGiven(calls[t][i + d[t]])
      BY <2>1, <1>3
    <2> HIDE DEF HasClone, IsGiven
    <2>4. kfile[Child][calls[t][i + d[t]].ret] = kfile[0][calls[t][i + d[t]].ret]
      BY <2>1, <2>2, <2>3, <1>3 DEF CopyInv
    <2> QED BY <2>1, <2>4
  <1>4. \A fd \in leaked'[Child] : kfile[Child][fd] # 0
    BY DEF CopyInv
  <1> QED BY <1>2, <1>3, <1>4

\* The calls on borrowed fds keep their handles.
LEMMA UseKept ==
    ASSUME UseInv, NEW d \in [AllTasks -> Nat], NEW N, Moved(d, N),
           \A t \in AllTasks : \A i \in 1..Len(calls'[t]) : <<t, i>> \in N => calls'[t][i].op # "use",
           \A t \in AllTasks : \A i \in 1..Len(calls'[t]) : calls'[t][i].op = "use" =>
              \A b \in Handles : calls'[t][i].handles = {b} /\ handle[b].state = "borrowed" => handle'[b] = handle[b]
    PROVE  UseInv'
  <1>1. ASSUME NEW t \in AllTasks, NEW i \in 1..Len(calls'[t]), calls'[t][i].op = "use"
        PROVE  i + d[t] \in 1..Len(calls[t]) /\ calls'[t][i] = calls[t][i + d[t]] /\ calls[t][i + d[t]].op = "use"
    BY <1>1 DEF Moved
  <1>2. ASSUME NEW t \in AllTasks, NEW i \in 1..Len(calls'[t]), calls'[t][i].op = "use"
        PROVE  \E b \in Handles : /\ calls'[t][i].handles = {b} /\ handle'[b].state = "borrowed" /\ handle'[b].task = t
                                  /\ handle'[b].near = calls'[t][i].fd /\ handle'[b].file = calls'[t][i].file
    <2>1. PICK b \in Handles : /\ calls'[t][i].handles = {b} /\ handle[b].state = "borrowed" /\ handle[b].task = t
                               /\ handle[b].near = calls'[t][i].fd /\ handle[b].file = calls'[t][i].file
      <3> DEFINE c == calls[t][i + d[t]]
      <3>1. c.op = "use" /\ calls'[t][i] = c /\ i + d[t] \in 1..Len(calls[t])
        BY <1>1, <1>2
      <3>2. \E b \in Handles : /\ c.handles = {b} /\ handle[b].state = "borrowed" /\ handle[b].task = t
                               /\ handle[b].near = c.fd /\ handle[b].file = c.file
        BY SMTT(30), <3>1 DEF UseInv
      <3> QED BY <3>1, <3>2
    <2>2. handle'[b] = handle[b]
      BY <1>2, <2>1
    <2> QED BY <2>1, <2>2
  <1>3. ASSUME NEW t \in AllTasks, NEW u \in AllTasks, NEW i \in 1..Len(calls'[t]), NEW j \in 1..Len(calls'[u]),
               calls'[t][i].op = "use", calls'[u][j].op = "use", calls'[t][i].handles = calls'[u][j].handles
        PROVE  t = u /\ i = j
    <2>1. /\ i + d[t] \in 1..Len(calls[t]) /\ calls'[t][i] = calls[t][i + d[t]] /\ calls[t][i + d[t]].op = "use"
          /\ j + d[u] \in 1..Len(calls[u]) /\ calls'[u][j] = calls[u][j + d[u]] /\ calls[u][j + d[u]].op = "use"
      BY <1>1, <1>3
    <2> DEFINE m == i + d[t]  n == j + d[u]
    <2>a. /\ m \in 1..Len(calls[t]) /\ calls[t][m].op = "use" /\ n \in 1..Len(calls[u]) /\ calls[u][n].op = "use"
          /\ calls[t][m].handles = calls[u][n].handles
      BY <2>1, <1>3
    <2> HIDE DEF m, n
    <2>b. t = u /\ m = n
      BY SMTT(30), <2>a DEF UseInv
    <2>2. t = u /\ i + d[t] = j + d[u]
      BY <2>b DEF m, n
    <2>3. d[t] \in Nat /\ i \in Int /\ j \in Int
      OBVIOUS
    <2> QED BY <2>2, <2>3
  <1> QED BY <1>2, <1>3 DEF UseInv

\* When a call is added, the others stay where they are and it is not performed yet.
LEMMA SentMoved ==
    ASSUME FdTypes, CallsInv, NEW t \in AllTasks, NEW c \in SysCall, calls' = [calls EXCEPT ![t] = Append(@, c)],
           Len(calls[t]) < MaxCalls, MaxCalls \in Nat, c.ret = 0
    PROVE  /\ Moved(Still, {<<t, Len(calls[t]) + 1>>})
           /\ \A u \in AllTasks : Len(calls'[u]) <= MaxCalls
           /\ \A u \in AllTasks : \A i, j \in 1..Len(calls'[u]) :
                i < j /\ calls'[u][j].ret # 0 /\ (<<u, i>> \in {<<t, Len(calls[t]) + 1>>} \/ <<u, j>> \in {<<t, Len(calls[t]) + 1>>})
                => calls'[u][i].ret # 0
           /\ Still \in [AllTasks -> Nat]
  <1> DEFINE n == Len(calls[t])
  <1>0. n \in Nat /\ \A u \in AllTasks : Len(calls[u]) \in Nat
    BY DEF FdTypes
  <1>1. /\ \A u \in AllTasks : Len(calls'[u]) = IF u = t THEN Len(calls[u]) + 1 ELSE Len(calls[u])
        /\ \A u \in AllTasks : \A i \in 1..Len(calls[u]) : calls'[u][i] = calls[u][i]
        /\ calls'[t][n + 1] = c
    BY Sent
  <1>2. \A u \in AllTasks : \A i \in 1..Len(calls'[u]) : <<u, i>> # <<t, n + 1>> =>
           i + Still[u] \in 1..Len(calls[u]) /\ calls'[u][i] = calls[u][i + Still[u]]
    BY <1>0, <1>1 DEF Still
  <1>3. \A u \in AllTasks : Len(calls[u]) <= MaxCalls
    BY DEF CallsInv
  <1>4. \A u \in AllTasks : Len(calls'[u]) <= MaxCalls
    BY <1>0, <1>1, <1>3
  <1>5. ASSUME NEW u \in AllTasks, NEW i \in 1..Len(calls'[u]), NEW j \in 1..Len(calls'[u]), i < j, calls'[u][j].ret # 0,
               <<u, i>> = <<t, n + 1>> \/ <<u, j>> = <<t, n + 1>>
        PROVE  FALSE
    <2>1. u = t /\ Len(calls'[u]) = n + 1
      BY <1>5, <1>1
    <2>2. j = n + 1
      BY <2>1, <1>5, <1>0
    <2> QED BY <2>1, <2>2, <1>1, <1>5
  <1> QED BY <1>2, <1>4, <1>5 DEF Moved, Still

-----------------------------------------------------------------------------
(* Calls are made, results are handled                                     *)

\* Nothing but the calls is changed.
Quietly == UNCHANGED <<phase, manipulating, kfile, opened, known, tracked, inherited, handle, leaked>>

\* A new call that claims no number keeps the invariant.
LEMMA SentKeeps ==
    ASSUME TableCfg, FdInv, NEW t \in AllTasks, t \in alive, NEW c \in SysCall, calls' = [calls EXCEPT ![t] = Append(@, c)],
           Len(calls[t]) < MaxCalls, c.ret = 0, c.op \in {"open", "use_own"}, CallOK(t, Len(calls[t]) + 1, c), Quietly
    PROVE  FdInv'
  <1> DEFINE n == Len(calls[t])  N == {<<t, n + 1>>}
  <1> USE DEF FdInv
  <1>0. n \in Nat /\ \A u \in AllTasks : Len(calls[u]) \in Nat
    BY DEF FdTypes
  <1>a. UNCHANGED phase /\ MaxCalls \in Nat
    BY DEF Quietly, TableCfg, FDTableAssumption
  <1>1. /\ calls' \in [AllTasks -> Seq(SysCall)]
        /\ \A u \in AllTasks : Len(calls'[u]) = IF u = t THEN Len(calls[u]) + 1 ELSE Len(calls[u])
        /\ \A u \in AllTasks : \A i \in 1..Len(calls[u]) : calls'[u][i] = calls[u][i]
        /\ calls'[t][n + 1] = c
        /\ \A u \in AllTasks \ {t} : calls'[u] = calls[u]
    BY Sent
  <1>2. FdTypes'
    BY <1>1 DEF FdTypes, Quietly, phase
  <1>3. /\ Moved(Still, N) /\ Still \in [AllTasks -> Nat] /\ \A u \in AllTasks : Len(calls'[u]) <= MaxCalls
        /\ \A u \in AllTasks : \A i, j \in 1..Len(calls'[u]) :
              i < j /\ calls'[u][j].ret # 0 /\ (<<u, i>> \in N \/ <<u, j>> \in N) => calls'[u][i].ret # 0
    BY SentMoved, <1>a
  <1>4. PhaseInv'
    <2>1. \A u \in AllTasks : calls[u] # << >> => calls'[u] # << >> /\ calls'[u][1] = calls[u][1]
      <3> SUFFICES ASSUME NEW u \in AllTasks, calls[u] # << >> PROVE calls'[u] # << >> /\ calls'[u][1] = calls[u][1]
        OBVIOUS
      <3>1. calls[u] \in Seq(SysCall) /\ calls'[u] \in Seq(SysCall)
        BY <1>1 DEF FdTypes
      <3>2. 1 \in 1..Len(calls[u])
        BY <3>1
      <3> QED BY <3>1, <3>2, <1>1
    <2> QED BY <2>1, <1>a, PhaseKept DEF Quietly
  <1>5. CallsInv'
    <2>1. \A u \in AllTasks : \A i \in 1..Len(calls'[u]) : <<u, i>> \in N => CallOK(u, i, calls'[u][i])
      BY <1>1
    <2> HIDE DEF N
    <2> QED BY ZenonT(60), <2>1, <1>3, <1>a, CallsKept
  <1>6. TrackedInv'
    BY DEF TrackedInv, Live, Waiting, Quietly, phase
  <1>7. TablesInv'
    <2> SUFFICES ASSUME NEW k \in Tables, Served(k)' PROVE TableInv(k)'
      BY DEF TablesInv, TableInv
    <2>1. Served(k) /\ TableInv(k) /\ Fds \subseteq Nat
      BY TableFacts DEF Served, Ready, TablesInv, Quietly, phase
    <2>2. OldCalls(k, Still, {}, N)
      BY <1>3, OldKept DEF Quietly, phase
    <2>3. NewCalls(k, N)
      BY <1>1 DEF NewCalls, Claims, IsClosing, IsGiven
    <2>4. KnownStep(k, {}) /\ SafeStep(k, {}) /\ ClosedStep(k, {}, {})
      BY DEF KnownStep, SafeStep, ClosedStep, Safe, File, Kept, Kernel, Waiting, Quietly, phase
    <2>5. HandleStep(k)
      BY <2>1 DEF HandleStep, TableInv, TrackedInv, Quietly, phase, Live
    <2> QED BY <2>1, <2>2, <2>3, <2>4, <2>5, <1>2, <1>3, TableStep
  <1>8. \A u \in AllTasks : \A i \in 1..Len(calls'[u]) : <<u, i>> \in N => u = t /\ i = n + 1 /\ calls'[u][i] = c
    BY <1>1
  <1>9. Child # 0 => Child \in AllTasks
    BY TableFacts
  <1>10. \A u \in AllTasks : \A i \in 1..Len(calls[u]) : i \in 1..Len(calls'[u])
    BY <1>0, <1>1
  <1>11. Tasks \subseteq AllTasks
    BY TableFacts
  <1>12. NewInv'
    BY <1>1, <1>9 DEF ChildInv, NewInv, NewChild, Quietly, phase
  <1>13. CloneInv'
    <2>1. \A u \in Tasks \ broken : \A j \in 1..Len(calls[u]) : calls[u][j].op = "clone" => \E i \in 1..Len(calls'[u]) : calls'[u][i] = calls[u][j]
      BY <1>1, <1>10, <1>11
    <2>2. \A u \in AllTasks : \A i \in 1..Len(calls'[u]) : <<u, i>> \in N => calls'[u][i].op # "clone"
      BY <1>8
    <2> HIDE DEF N
    <2> QED BY <2>1, <2>2, <1>3, <1>11, <1>a, CloneKept DEF ChildInv
  <1>14. CopyInv'
    <2>1. \A u \in Tasks : \A i, j \in 1..Len(calls'[u]) : IsGiven(calls'[u][i]) /\ HasClone(u, i, j)' => <<u, i>> \notin N /\ <<u, j>> \notin N
      BY <1>8, <1>11 DEF IsGiven, HasClone
    <2>2. kfile' = kfile /\ leaked' = leaked /\ tracked' = tracked /\ handle' = handle
      BY DEF Quietly
    <2> HIDE DEF N
    <2> QED BY <2>1, <2>2, <1>3, <1>11, <1>a, CopyKept DEF ChildInv, Live
  <1>15. InheritInv'
    <2>1. CASE Child = 0
      BY <2>1, <1>2, <1>4, <1>5, NoChild
    <2>2. CASE Child # 0
      <3>1. \A i \in 1..Len(calls'[Child]) : <<Child, i>> \in N => calls'[Child][i] = c
        BY <2>2, <1>8, <1>9
      <3>2. \A fd : \A i \in 1..Len(calls'[Child]) : <<Child, i>> \in N => ~Claims(Child, calls[Child][i], Child, fd)'
        BY <3>1 DEF Claims, IsClosing, IsGiven
      <3>3. known' = known /\ fd_table' = fd_table
        BY DEF Quietly, phase
      <3>4. \A fd : Taken(fd)' => Taken(fd)
        <4> HIDE DEF N
        <4> QED BY <2>2, <3>2, <3>3, <1>3, TakenMoved DEF Taken
      <3>5. \A h \in inherited : handle[h].state \in {"valid", "invalid"}
        BY DEF InheritInv
      <3> QED BY <2>2, <3>4, <3>5, InheritKept DEF Quietly, phase, Ready
    <2> QED BY <2>1, <2>2
  <1>16. UseInv'
    <2>1. \A u \in AllTasks : \A i \in 1..Len(calls'[u]) : <<u, i>> \in N => calls'[u][i].op # "use"
      BY <1>8
    <2> HIDE DEF N
    <2> QED BY <2>1, <1>3, UseKept DEF Quietly
  <1> QED BY <1>2, <1>4, <1>5, <1>6, <1>7, <1>12, <1>13, <1>14, <1>15, <1>16 DEF ChildInv

\* A system call that opens a file is made.
LEMMA OpenStep ==
    ASSUME TableCfg, FdInv, NEW t \in AllTasks, Open(t)
    PROVE  FdInv'
  <1> DEFINE c == Call("open", 0, 0, 0, {})
  <1>1. c \in SysCall /\ c.op = "open" /\ c.ret = 0 /\ calls' = [calls EXCEPT ![t] = Append(@, c)] /\ Len(calls[t]) < MaxCalls
    BY SendTypes, TableFacts DEF Open, FdInv
  <1>2. Quietly /\ t \in alive
    BY DEF Quietly, Open, client, kernel, Ready, phase
  <1>3. stage[t] \notin {"unsharing", "exec"}
    BY DEF Open, TableCfg
  <1> HIDE DEF c
  <1>4. CallOK(t, Len(calls[t]) + 1, c)
    BY <1>1, <1>2, <1>3 DEF CallOK
  <1> QED BY <1>1, <1>2, <1>4, SentKeeps

\* A task uses a handle of its own.
LEMMA UseOwnStep ==
    ASSUME TableCfg, FdInv, NEW h \in Handles, UseOwn(h)
    PROVE  FdInv'
  <1> DEFINE t == handle[h].task  c == Call("use_own", handle[h].near, handle[h].file, fd_table[t], {h})
  <1>1. t \in AllTasks /\ handle[h].near \in Nat /\ handle[h].file \in Nat /\ fd_table[t] \in Tables
    <2>1. t \in AllTasks /\ handle[h].near \in Fds
      BY DEF UseOwn, Valid, FdInv, FdTypes
    <2>2. handle[h] \in HandleRec
      BY DEF FdInv, FdTypes
    <2> QED BY <2>1, <2>2, TableFacts DEF FdInv, FdTypes, HandleRec
  <1>2. Send(t, c)
    BY DEF UseOwn
  <1>a. FdTypes /\ {h} \in SUBSET Handles
    BY DEF FdInv
  <1>3. c \in SysCall /\ c.op = "use_own" /\ c.ret = 0 /\ calls' = [calls EXCEPT ![t] = Append(@, c)] /\ Len(calls[t]) < MaxCalls
    <2>1. c \in SysCall /\ c.op = "use_own" /\ c.ret = 0
      BY <1>1, <1>a DEF Call, SysCall
    <2> HIDE DEF c
    <2> QED BY <1>2, <2>1 DEF Send
  <1>4. Quietly /\ t \in alive
    BY DEF Quietly, UseOwn, client, kernel, Ready, phase
  <1> HIDE DEF c
  <1>5. CallOK(t, Len(calls[t]) + 1, c)
    BY <1>3, <1>4 DEF CallOK
  <1> QED BY <1>1, <1>3, <1>4, <1>5, SentKeeps

\* Before, as a function.
Shift(t) == [u \in AllTasks |-> Before(t, u)]

\* When the first call is handled, the others move by one.
LEMMA PopMoved ==
    ASSUME FdTypes, CallsInv, MaxCalls \in Nat, NEW t \in AllTasks, calls[t] # << >>, Popped(t)
    PROVE  /\ Moved(Shift(t), {}) /\ Shift(t) \in [AllTasks -> Nat]
           /\ \A u \in AllTasks : Len(calls'[u]) <= MaxCalls
           /\ \A u \in AllTasks : \A i \in 1..Len(calls'[u]) : <<u, i + Shift(t)[u]>> # <<t, 1>>
           /\ \A u \in AllTasks : \A j \in 1..Len(calls[u]) : <<u, j>> # <<t, 1>> => \E i \in 1..Len(calls'[u]) : calls'[u][i] = calls[u][j]
  <1>1. /\ \A u \in AllTasks : Len(calls'[u]) = Len(calls[u]) - Before(t, u)
        /\ \A u \in AllTasks : \A i \in 1..Len(calls'[u]) :
             i + Before(t, u) \in 1..Len(calls[u]) /\ calls'[u][i] = calls[u][i + Before(t, u)]
    BY PoppedCalls
  <1>2. \A u \in AllTasks : Before(t, u) \in Nat /\ (u = t => Before(t, u) = 1) /\ (u # t => Before(t, u) = 0)
    BY DEF Before
  <1>3. \A u \in AllTasks : Len(calls[u]) \in Nat /\ Len(calls[u]) <= MaxCalls
    BY DEF FdTypes, CallsInv
  <1>4. \A u \in AllTasks : Len(calls'[u]) <= MaxCalls
    BY <1>1, <1>2, <1>3
  <1>5. ASSUME NEW u \in AllTasks, NEW i \in 1..Len(calls'[u]) PROVE <<u, i + Shift(t)[u]>> # <<t, 1>>
    BY <1>2 DEF Shift
  <1>6. ASSUME NEW u \in AllTasks, NEW j \in 1..Len(calls[u]), <<u, j>> # <<t, 1>>
        PROVE  \E i \in 1..Len(calls'[u]) : calls'[u][i] = calls[u][j]
    <2>1. j - Before(t, u) \in 1..Len(calls'[u]) /\ (j - Before(t, u)) + Before(t, u) = j
      BY <1>1, <1>2, <1>3, <1>6
    <2>2. calls'[u][j - Before(t, u)] = calls[u][j]
      BY <2>1, <1>1
    <2> QED BY <2>1, <2>2
  <1>7. Shift(t) \in [AllTasks -> Nat]
    BY <1>2 DEF Shift
  <1>8. Moved(Shift(t), {})
    BY <1>1 DEF Moved, Shift
  <1> QED BY <1>4, <1>5, <1>6, <1>7, <1>8

\* Handling a call that ends no phase keeps the phases, the calls and the clone.
LEMMA PopKeeps ==
    ASSUME TableCfg, FdInv, NEW t \in AllTasks, calls[t] # << >>, Popped(t), UNCHANGED phase, manipulating' = manipulating,
           calls[t][1].op \notin {"unshare", "exec", "clone"} \/ t \in broken
    PROVE  /\ PhaseInv' /\ CallsInv' /\ CloneInv' /\ Moved(Shift(t), {}) /\ Shift(t) \in [AllTasks -> Nat]
           /\ \A k \in Tables : OldCalls(k, Shift(t), {<<t, 1>>}, {}) /\ NewCalls(k, {})
           /\ calls' \in [AllTasks -> Seq(SysCall)] /\ calls[t][1] \in SysCall
  <1> DEFINE d == Shift(t)
  <1>0. MaxCalls \in Nat /\ fd_table' = fd_table
    BY DEF TableCfg, FDTableAssumption, phase
  <1>1. /\ Moved(d, {}) /\ d \in [AllTasks -> Nat]
        /\ \A u \in AllTasks : Len(calls'[u]) <= MaxCalls
        /\ \A u \in AllTasks : \A i \in 1..Len(calls'[u]) : <<u, i + d[u]>> \notin {<<t, 1>>}
        /\ \A u \in AllTasks : \A j \in 1..Len(calls[u]) : <<u, j>> # <<t, 1>> => \E i \in 1..Len(calls'[u]) : calls'[u][i] = calls[u][j]
    BY <1>0, PopMoved DEF FdInv
  <1>2. /\ calls' \in [AllTasks -> Seq(SysCall)] /\ calls[t][1] \in SysCall /\ 1 \in 1..Len(calls[t])
        /\ \A u \in AllTasks \ {t} : calls'[u] = calls[u]
    BY PoppedCalls DEF FdInv
  <1> HIDE DEF d
  <1>3. PhaseInv'
    <2>1. \A u \in AllTasks : u # t => calls'[u] = calls[u]
      BY <1>2
    <2>2. \A u \in AllTasks : u \in broken => u \in alive
      BY DEF FdInv, PhaseInv
    <2>3. ASSUME NEW u \in AllTasks, calls[u] # << >>, calls[u][1].op \in {"unshare", "exec"}, u \notin broken \/ u \notin alive
          PROVE  calls'[u] # << >> /\ calls'[u][1].op = calls[u][1].op /\ (calls[u][1].ret # 0 => calls'[u][1].ret # 0)
      BY <2>1, <2>2, <2>3
    <2> QED BY <2>3, PhaseKept DEF FdInv
  <1>4. CallsInv'
    <2> DEFINE N == {}
    <2>1. Moved(d, N) /\ \A e : e \notin N
      BY <1>1
    <2> HIDE DEF N
    <2> QED BY <1>1, <2>1, CallsKept DEF FdInv
  <1>5. CloneInv'
    <2>1. \A u \in Tasks \ broken : \A j \in 1..Len(calls[u]) : calls[u][j].op = "clone" =>
                \E i \in 1..Len(calls'[u]) : calls'[u][i] = calls[u][j]
      BY <1>1, TableFacts
    <2> DEFINE N == {}
    <2>2. Moved(d, N) /\ \A e : e \notin N
      BY <1>1
    <2> HIDE DEF N
    <2> QED BY <2>1, <2>2, <1>1, TableFacts, CloneKept DEF FdInv, ChildInv
  <1>6. ASSUME NEW k \in Tables PROVE OldCalls(k, d, {<<t, 1>>}, {})
    BY <1>0, <1>1, OldKept
  <1>7. ASSUME NEW k \in Tables PROVE NewCalls(k, {})
    BY DEF NewCalls
  <1> QED BY <1>1, <1>2, <1>3, <1>4, <1>5, <1>6, <1>7 DEF d

\* A result that changes nothing but the keys keeps the invariant: a close, or a
\* hangup.
LEMMA PopQuiet ==
    ASSUME TableCfg, FdInv, NEW t \in AllTasks, calls[t] # << >>, Popped(t),
           UNCHANGED <<phase, manipulating, kfile, opened, tracked, inherited, handle, leaked>>,
           calls[t][1].op \notin {"unshare", "exec", "clone"} \/ t \in broken,
           known' = known \/ (/\ t \in broken \/ t \notin alive
                              /\ calls[t][1].op = "close"
                              /\ known' = [known EXCEPT ![calls[t][1].table] = @ \cup {calls[t][1].fd}])
    PROVE  FdInv'
  <1> DEFINE c == calls[t][1]  d == Shift(t)
  <1>1. /\ PhaseInv' /\ CallsInv' /\ CloneInv' /\ Moved(d, {}) /\ d \in [AllTasks -> Nat]
        /\ \A k \in Tables : OldCalls(k, d, {<<t, 1>>}, {}) /\ NewCalls(k, {})
        /\ calls' \in [AllTasks -> Seq(SysCall)] /\ c \in SysCall
    BY PopKeeps
  <1> HIDE DEF d
  <1>2. 1 \in 1..Len(calls[t]) /\ \A u \in AllTasks \ {t} : calls'[u] = calls[u]
    BY PoppedCalls DEF FdInv
  <1>3. CallOK(t, 1, c) /\ c.table \in Tables
    BY <1>1, <1>2 DEF FdInv, CallsInv, SysCall
  <1>4. \A k \in Tables : \A fd \in known'[k] \ known[k] :
          c.op = "close" /\ k = c.table /\ fd = c.fd /\ (t \in broken \/ t \notin alive) /\ fd \in Fds /\ k \in {Home(t), t}
    BY <1>3 DEF FdInv, FdTypes, CallOK
  <1>5. known' \in [Tables -> SUBSET Fds] /\ \A k \in Tables : known[k] \subseteq known'[k]
    <2>1. known \in [Tables -> SUBSET Fds]
      BY DEF FdInv, FdTypes
    <2>2. CASE known' = known
      BY <2>1, <2>2
    <2>3. CASE c.op = "close" /\ known' = [known EXCEPT ![c.table] = @ \cup {c.fd}]
      <3>1. c.fd \in Fds
        BY <2>3, <1>3 DEF CallOK
      <3> HIDE DEF c
      <3> QED BY <3>1, <2>1, <2>3, <1>3
    <2> QED BY <2>2, <2>3
  <1> HIDE DEF c
  <1>6. FdTypes'
    BY <1>1, <1>5 DEF FdTypes, FdInv, phase
  <1>7. TrackedInv'
    BY <1>5 DEF TrackedInv, FdInv, FdTypes, Live, Waiting, phase
  <1>8. TablesInv'
    <2> SUFFICES ASSUME NEW k \in Tables, Served(k)' PROVE TableInv(k)'
      BY DEF TablesInv, TableInv
    <2>1. Served(k) /\ TableInv(k) /\ Fds \subseteq Nat
      BY TableFacts DEF Served, Ready, TablesInv, phase, FdInv
    <2>2. KnownStep(k, {<<t, 1>>})
      <3> SUFFICES ASSUME NEW fd \in known'[k], fd \notin known[k] PROVE Gone(k, {<<t, 1>>}, fd)
        BY DEF KnownStep
      <3>1. c.op = "close" /\ k = c.table /\ fd = c.fd /\ (t \in broken \/ t \notin alive) /\ fd \in Fds /\ k \in {Home(t), t}
        BY <1>4
      <3>2. t \notin broken
        BY <2>1, <3>1, TaskServed DEF FdInv
      <3>3. c.ret = 0
        BY <3>1, <3>2, <1>3 DEF CallOK
      <3> QED BY <3>1, <3>3, <1>2 DEF Gone, Claims, IsClosing, c
    <2>3. SafeStep(k, {}) /\ ClosedStep(k, {<<t, 1>>}, {})
      BY DEF SafeStep, ClosedStep, Safe, File, Kept, Kernel, Waiting, phase
    <2>4. HandleStep(k)
      BY <1>5, <2>1 DEF HandleStep, TableInv, TrackedInv, FdInv, phase, Live
    <2> QED BY <2>1, <2>2, <2>3, <2>4, <1>1, <1>6, TableStep DEF FdInv
  <1>9. Child # 0 => Child \in AllTasks /\ Child \notin Tasks
    BY TableFacts
  <1>10. Child # 0 /\ Child # t => known'[Child] = known[Child] /\ calls'[Child] = calls[Child]
    <2> SUFFICES ASSUME Child # 0, Child # t PROVE known'[Child] = known[Child]
      BY <1>2, <1>9
    <2>1. Child \in Tables /\ Home(t) # Child
      BY <1>9, TableFacts
    <2> QED BY <2>1, <1>4, <1>5
  <1>11. NewInv'
    <2> SUFFICES ASSUME NewChild PROVE NewInv'
      BY DEF NewInv, NewChild, phase
    <2>1. t # Child
      BY DEF FdInv, ChildInv, NewInv
    <2> QED BY <2>1, <1>10 DEF FdInv, ChildInv, NewInv, NewChild, phase
  <1>12. CopyInv'
    <2> DEFINE N == {}
    <2>1. Moved(d, N) /\ \A e : e \notin N
      BY <1>1
    <2> HIDE DEF N
    <2> QED BY <2>1, <1>1, TableFacts, CopyKept DEF FdInv, ChildInv, Live
  <1>13. InheritInv'
    <2>1. CASE Child = 0
      BY <2>1, <1>1, <1>6, NoChild
    <2>2. CASE Child # 0
      <3>1. ASSUME NEW fd, Taken(fd)', Ready(Child) PROVE Taken(fd)
        <4> DEFINE N == {}
        <4>1. Moved(d, N) /\ \A e : e \notin N
          BY <1>1
        <4>2. known'[Child] = known[Child]
          <5>1. t = Child => ~(t \in broken \/ t \notin alive)
            BY <3>1 DEF Ready
          <5>2. Child \in Tables
            BY <2>2, TableFacts
          <5> QED BY <5>1, <5>2, <1>4, <1>5, <1>10, <2>2
        <4> HIDE DEF N
        <4> QED BY <4>1, <4>2, <3>1, <2>2, <1>1, TakenMoved DEF Taken, phase
      <3>2. \A h \in inherited : handle[h].state \in {"valid", "invalid"}
        BY DEF FdInv, InheritInv
      <3> QED BY <3>1, <3>2, <2>2, InheritKept DEF FdInv, phase, Ready
    <2> QED BY <2>1, <2>2
  <1>14. UseInv'
    <2> DEFINE N == {}
    <2>1. Moved(d, N) /\ \A e : e \notin N
      BY <1>1
    <2> HIDE DEF N
    <2> QED BY <2>1, <1>1, UseKept DEF FdInv
  <1> QED BY <1>1, <1>6, <1>7, <1>8, <1>11, <1>12, <1>13, <1>14 DEF FdInv, ChildInv

\* A call of a task that is gone gets SyscallHangup, and _close_fd puts the fd back.
LEMMA ReplyHangupStep ==
    ASSUME TableCfg, FdInv, NEW t \in AllTasks, ReplyHangup(t)
    PROVE  FdInv'
  <1> DEFINE c == calls[t][1]
  <1>1. /\ calls[t] # << >> /\ Popped(t) /\ Head(calls[t]) = c
        /\ UNCHANGED <<phase, manipulating, kfile, opened, tracked, inherited, handle, leaked>>
    <2>1. calls[t] # << >> /\ Popped(t)
      BY DEF ReplyHangup, Popped
    <2>2. UNCHANGED <<phase, manipulating, kfile, opened, tracked, inherited, handle, leaked>>
      BY DEF ReplyHangup, phase, kernel
    <2>3. Head(calls[t]) = c
      BY <2>1, PoppedCalls DEF FdInv
    <2> QED BY <2>1, <2>2, <2>3
  <1>2. CallOK(t, 1, c)
    BY <1>1, PoppedCalls DEF FdInv, CallsInv
  <1>3. t \in broken \/ (t \notin alive /\ c.op # "exec")
    BY <1>1 DEF ReplyHangup
  <1>4. c.op \notin {"unshare", "exec", "clone"} \/ t \in broken
    <2>1. ASSUME t \notin broken, c.op \in {"unshare", "clone"} PROVE t \in alive
      BY <2>1, <1>2 DEF CallOK, FdInv, PhaseInv
    <2> QED BY <2>1, <1>3
  <1>5. known' = known \/ (c.op = "close" /\ known' = [known EXCEPT ![c.table] = @ \cup {c.fd}])
    BY <1>1 DEF ReplyHangup
  <1> QED BY <1>1, <1>3, <1>4, <1>5, PopQuiet

\* Handles that nobody refers to leave their tables.
LEMMA FreedParts ==
    ASSUME TableCfg, FdInv, NEW hs \in SUBSET Handles, UNCHANGED <<phase, kfile, known>>,
           handle' = [h \in Handles |-> IF h \in hs THEN Free ELSE handle[h]],
           tracked' = [k \in Tables |-> tracked[k] \ hs], \A h \in hs : ~Waiting(handle[h].task)
    PROVE  /\ handle' \in [Handles -> HandleRec] /\ tracked' \in [Tables -> SUBSET Handles]
           /\ \A h \in Handles : handle'[h].state # "free" => handle'[h].task \in AllTasks /\ handle'[h].near \in Fds
           /\ TrackedInv' /\ \A k \in Tables : Served(k) => HandleStep(k) /\ SafeStep(k, {})
  <1>1. \A h \in Handles : IF h \in hs THEN handle'[h] = Free ELSE handle'[h] = handle[h]
    OBVIOUS
  <1>2. \A k \in Tables : tracked'[k] = tracked[k] \ hs
    OBVIOUS
  <1>3. Free \in HandleRec /\ Free.state = "free"
    BY TableFacts DEF HandleRec, Free
  <1>4. handle' \in [Handles -> HandleRec]
    <2>1. \A h \in Handles : handle[h] \in HandleRec
      BY DEF FdInv, FdTypes
    <2> QED BY <2>1, <1>3
  <1>5. tracked' \in [Tables -> SUBSET Handles]
    <2>1. \A k \in Tables : tracked[k] \in SUBSET Handles
      BY DEF FdInv, FdTypes
    <2> QED BY <2>1
  <1>6. \A h \in Handles : handle'[h].state # "free" => handle'[h].task \in AllTasks /\ handle'[h].near \in Fds
    BY <1>1, <1>3 DEF FdInv, FdTypes
  <1>7. \A h \in Handles : Live(h)' => h \notin hs /\ handle'[h] = handle[h] /\ Live(h)
    BY <1>1, <1>3 DEF Live
  <1>8. \A k \in Tables : \A h \in tracked'[k] : h \in tracked[k] /\ handle'[h] = handle[h]
    BY <1>1, <1>5, <1>2
  <1>9. \A t : Waiting(t)' <=> Waiting(t)
    BY DEF Waiting, phase
  <1>10. 0 \in Tables /\ \A t \in AllTasks : fd_table[t] \in Tables
    BY TableFacts DEF FdInv, FdTypes
  <1>11. TrackedInv'
    <2>1. \A k \in Tables : \A h \in tracked'[k] :
          /\ handle'[h].state # "free" /\ handle'[h].near \in known'[k]
          /\ IF k = 0 THEN handle'[h].task \in Tasks ELSE handle'[h].task = k
      BY <1>8 DEF FdInv, TrackedInv
    <2>2. \A h \in Handles : Live(h)' =>
          /\ h \in tracked'[fd_table'[handle'[h].task]]
          /\ Waiting(handle'[h].task) => h \in tracked'[0]
      <3> SUFFICES ASSUME NEW h \in Handles, Live(h)' PROVE
            /\ h \in tracked'[fd_table'[handle'[h].task]]
            /\ Waiting(handle'[h].task) => h \in tracked'[0]
        OBVIOUS
      <3>1. h \notin hs /\ handle'[h] = handle[h] /\ Live(h) /\ fd_table' = fd_table
        BY <1>7 DEF phase
      <3>2. handle[h].task \in AllTasks
        BY <3>1 DEF FdInv, FdTypes, Live
      <3>3. h \in tracked[fd_table[handle[h].task]] /\ (Waiting(handle[h].task) => h \in tracked[0])
        BY <3>1 DEF FdInv, TrackedInv
      <3> QED BY <3>1, <3>2, <3>3, <1>2, <1>10
    <2> QED BY <2>1, <2>2, <1>9 DEF TrackedInv
  <1>12. ASSUME NEW k \in Tables PROVE SafeStep(k, {})
    <2>1. ASSUME NEW fd, Waiting(k), Kept(k, fd) PROVE Kept(k, fd)'
      <3>1. PICK h \in tracked[0] : handle[h].near = fd /\ handle[h].task = k
        BY <2>1 DEF Kept
      <3>2. h \in Handles
        BY <1>10 DEF FdInv, FdTypes
      <3> QED BY <3>1, <3>2, <2>1, <1>1, <1>2, <1>10 DEF Kept
    <2> QED BY <2>1, <1>9 DEF SafeStep, Safe, File, Kernel
  <1>13. ASSUME NEW k \in Tables, Served(k) PROVE HandleStep(k)
    <2> SUFFICES ASSUME NEW h \in Handles, Live(h)', fd_table'[handle'[h].task] = k
        PROVE  handle'[h].near \in known'[k] /\ Safe(k, handle'[h].near) /\ File(k, handle'[h].near) = handle'[h].file
      BY DEF HandleStep
    <2>1. handle'[h] = handle[h] /\ Live(h) /\ fd_table[handle[h].task] = k
      BY <1>7 DEF phase
    <2>2. Safe(k, handle[h].near) /\ File(k, handle[h].near) = handle[h].file
      BY <2>1, <1>13 DEF FdInv, TablesInv, TableInv
    <2>3. handle[h].near \in known[k]
      BY <2>1 DEF FdInv, TrackedInv
    <2> QED BY <2>1, <2>2, <2>3
  <1> QED BY <1>4, <1>5, <1>6, <1>11, <1>12, <1>13

-----------------------------------------------------------------------------
(* Handles are made and dropped                                            *)

\* The free object h becomes a handle of t.
Gains(h, t, fd, file) ==
    /\ handle[h].state = "free" /\ tracked' \in [Tables -> SUBSET Handles]
    /\ handle'[h].task = t /\ handle'[h].near = fd /\ handle'[h].file = file /\ handle'[h].state \in {"valid", "borrowed"}
    /\ \A g \in Handles \ {h} : handle'[g] = handle[g]
    /\ \A k \in Tables : tracked'[k] = IF k = fd_table[t] THEN tracked[k] \cup {h} ELSE tracked[k]
    /\ \A k \in Tables : known'[k] = IF k = fd_table[t] THEN known[k] \cup {fd} ELSE known[k]

\* A new handle, for a number that is open, is in its task's table.
LEMMA MadeParts ==
    ASSUME TableCfg, FdInv, NEW t \in AllTasks, NEW fd \in Fds, NEW file \in Nat, NEW h \in Handles,
           Gains(h, t, fd, file),
           UNCHANGED <<phase, kfile>>, ~Waiting(t),
           Served(fd_table[t]) => Safe(fd_table[t], fd) /\ File(fd_table[t], fd) = file
    PROVE  TrackedInv' /\ \A k \in Tables : Served(k) => HandleStep(k) /\ SafeStep(k, {})
  <1>1. /\ \A g \in Handles \ {h} : handle'[g] = handle[g]
        /\ \A k \in Tables : tracked'[k] = IF k = fd_table[t] THEN tracked[k] \cup {h} ELSE tracked[k]
        /\ \A k \in Tables : known'[k] = IF k = fd_table[t] THEN known[k] \cup {fd} ELSE known[k]
        /\ handle[h].state = "free" /\ tracked' \in [Tables -> SUBSET Handles]
    BY DEF Gains
  <1>2. 0 \in Tables /\ fd_table' = fd_table /\ (\A u \in AllTasks : fd_table[u] \in Tables) /\ (\A u : Waiting(u)' <=> Waiting(u))
    BY TableFacts DEF FdInv, FdTypes, phase, Waiting
  <1>3. handle'[h].task = t /\ handle'[h].near = fd /\ handle'[h].file = file /\ handle'[h].state # "free"
    BY DEF Gains
  <1>4. \A k \in Tables : tracked[k] \subseteq Handles \ {h}
    BY <1>1 DEF FdInv, FdTypes, TrackedInv
  <1>5. TrackedInv'
    <2>1. ASSUME NEW k \in Tables, NEW g \in tracked'[k]
          PROVE  /\ handle'[g].state # "free" /\ handle'[g].near \in known'[k]
                 /\ IF k = 0 THEN handle'[g].task \in Tasks ELSE handle'[g].task = k
      <3>1. CASE g \in tracked[k]
        <4>1. handle'[g] = handle[g]
          BY <3>1, <1>1, <1>4
        <4>2. handle[g].state # "free" /\ handle[g].near \in known[k]
                 /\ IF k = 0 THEN handle[g].task \in Tasks ELSE handle[g].task = k
          BY <3>1 DEF FdInv, TrackedInv
        <4>3. known[k] \subseteq known'[k]
          BY <1>1
        <4> QED BY <4>1, <4>2, <4>3
      <3>2. CASE g = h /\ k = fd_table[t]
        <4>1. k \in {Home(t), t} /\ Home(t) \in {0, t} /\ (Home(t) = 0 => t \in Tasks) /\ t # 0
          BY <3>2, TableFacts DEF FdInv, PhaseInv
        <4> QED BY <3>2, <4>1, <1>1, <1>3
      <3> QED BY <3>1, <3>2, <1>1
    <2>2. ASSUME NEW g \in Handles, Live(g)'
          PROVE  /\ g \in tracked'[fd_table'[handle'[g].task]]
                 /\ Waiting(handle'[g].task) => g \in tracked'[0]
      <3>1. CASE g = h
        BY <3>1, <1>1, <1>2, <1>3
      <3>2. CASE g # h
        <4>1. handle'[g] = handle[g] /\ Live(g) /\ handle[g].task \in AllTasks
          BY <3>2, <2>2, <1>1 DEF Live, FdInv, FdTypes
        <4>2. g \in tracked[fd_table[handle[g].task]] /\ (Waiting(handle[g].task) => g \in tracked[0])
          BY <4>1 DEF FdInv, TrackedInv
        <4> QED BY <4>1, <4>2, <1>1, <1>2
      <3> QED BY <3>1, <3>2
    <2> QED BY <2>1, <2>2, <1>2 DEF TrackedInv
  <1>6. ASSUME NEW k \in Tables PROVE SafeStep(k, {})
    <2>1. ASSUME NEW e, Kept(k, e) PROVE Kept(k, e)'
      <3>1. PICK g \in tracked[0] : handle[g].near = e /\ handle[g].task = k
        BY <2>1 DEF Kept
      <3> QED BY <3>1, <1>1, <1>2, <1>4 DEF Kept
    <2> QED BY <2>1, <1>2 DEF SafeStep, Safe, File, Kernel
  <1>7. ASSUME NEW k \in Tables, Served(k) PROVE HandleStep(k)
    <2> SUFFICES ASSUME NEW g \in Handles, Live(g)', fd_table'[handle'[g].task] = k
        PROVE  handle'[g].near \in known'[k] /\ Safe(k, handle'[g].near) /\ File(k, handle'[g].near) = handle'[g].file
      BY DEF HandleStep
    <2>1. CASE g = h
      BY <2>1, <1>1, <1>2, <1>3, <1>7
    <2>2. CASE g # h
      <3>1. handle'[g] = handle[g] /\ Live(g) /\ fd_table[handle[g].task] = k
        BY <2>2, <1>1, <1>2 DEF Live
      <3>2. Safe(k, handle[g].near) /\ File(k, handle[g].near) = handle[g].file
        BY <3>1, <1>7 DEF FdInv, TablesInv, TableInv
      <3>3. handle[g].near \in known[k]
        BY <3>1 DEF FdInv, TrackedInv
      <3> QED BY <3>1, <3>2, <3>3, <1>1
    <2> QED BY <2>1, <2>2
  <1> QED BY <1>5, <1>6, <1>7

\* A step that makes and handles no call keeps what is said of the calls.
LEMMA CallsStill ==
    ASSUME TableCfg, FdInv, UNCHANGED <<phase, calls, manipulating>>
    PROVE  /\ PhaseInv' /\ CallsInv' /\ CloneInv' /\ Moved(Still, {}) /\ Still \in [AllTasks -> Nat]
           /\ \A k \in Tables : OldCalls(k, Still, {}, {}) /\ NewCalls(k, {})
  <1> DEFINE N == {}
  <1>1. Still \in [AllTasks -> Nat] /\ \A t \in AllTasks : Still[t] = 0
    BY DEF Still
  <1>2. \A t \in AllTasks : \A i \in 1..Len(calls'[t]) : i + 0 = i
    OBVIOUS
  <1>3. Moved(Still, N) /\ (\A e : e \notin N) /\ UNCHANGED phase /\ calls' = calls /\ manipulating' = manipulating
    BY <1>1, <1>2 DEF Moved
  <1>4. \A t \in AllTasks : Len(calls'[t]) <= MaxCalls
    BY <1>3 DEF FdInv, CallsInv
  <1>5. NewCalls(0, N) /\ \A k \in Tables : NewCalls(k, N)
    BY <1>3 DEF NewCalls
  <1> HIDE DEF N
  <1>6. CallsInv'
    BY <1>1, <1>3, <1>4, CallsKept DEF FdInv
  <1>7. PhaseInv'
    BY <1>3, PhaseKept DEF FdInv
  <1>8. CloneInv'
    BY <1>1, <1>3, TableFacts, CloneKept DEF FdInv, ChildInv
  <1>9. ASSUME NEW k \in Tables PROVE OldCalls(k, Still, {}, N)
    BY <1>1, <1>3, OldKept DEF phase
  <1> QED BY <1>1, <1>3, <1>5, <1>6, <1>7, <1>8, <1>9 DEF N

\* The last reference to a handle goes.
LEMMA DropStep ==
    ASSUME TableCfg, FdInv, NEW h \in Handles, Drop(h)
    PROVE  FdInv'
  <1>1. /\ UNCHANGED <<phase, calls, manipulating, kfile, known, opened, leaked>>
        /\ handle[h].state \in {"valid", "invalid"} /\ inherited' = inherited \ {h}
        /\ \A t \in AllTasks : \A i \in 1..Len(calls[t]) : h \notin calls[t][i].handles
    BY DEF Drop, phase, kernel
  <1>2. /\ handle' = [g \in Handles |-> IF g \in {h} THEN Free ELSE handle[g]] /\ tracked' = [k \in Tables |-> tracked[k] \ {h}]
        /\ {h} \in SUBSET Handles /\ \A g \in {h} : ~Waiting(handle[g].task)
    <2>1. handle' = [g \in Handles |-> IF g \in {h} THEN Free ELSE handle[g]]
      BY DEF Drop, FdInv, FdTypes
    <2>2. handle[h].task \in AllTasks
      BY <1>1 DEF FdInv, FdTypes
    <2>3. ~Waiting(handle[h].task)
      BY <2>2 DEF Drop, Waiting, TableCfg
    <2> QED BY <2>1, <2>3 DEF Drop
  <1>3. /\ handle' \in [Handles -> HandleRec] /\ tracked' \in [Tables -> SUBSET Handles]
        /\ \A g \in Handles : handle'[g].state # "free" => handle'[g].task \in AllTasks /\ handle'[g].near \in Fds
        /\ TrackedInv' /\ \A k \in Tables : Served(k) => HandleStep(k) /\ SafeStep(k, {})
    BY <1>1, <1>2, FreedParts
  <1>4. /\ PhaseInv' /\ CallsInv' /\ CloneInv' /\ Moved(Still, {}) /\ Still \in [AllTasks -> Nat]
        /\ \A k \in Tables : OldCalls(k, Still, {}, {}) /\ NewCalls(k, {})
    BY <1>1, CallsStill
  <1>5. FdTypes'
    BY <1>1, <1>3 DEF FdInv, FdTypes, phase
  <1>6. TablesInv'
    <2> SUFFICES ASSUME NEW k \in Tables, Served(k)' PROVE TableInv(k)'
      BY DEF TablesInv, TableInv
    <2>1. Served(k) /\ TableInv(k) /\ Fds \subseteq Nat
      BY <1>1, TableFacts DEF Served, Ready, TablesInv, phase, FdInv
    <2>2. KnownStep(k, {}) /\ ClosedStep(k, {}, {})
      BY <1>1 DEF KnownStep, ClosedStep
    <2> QED BY <2>1, <2>2, <1>3, <1>4, <1>5, TableStep DEF FdInv
  <1>7. \A g \in Handles : g # h => handle'[g] = handle[g]
    BY <1>2
  <1>8. \A g \in Handles : handle[g].state = "borrowed" => handle'[g] = handle[g]
    BY <1>1, <1>7
  <1>9. handle'[h].task = 0 /\ handle'[h].state = "free"
    BY <1>2 DEF Free
  <1> DEFINE N == {}
  <1>10. Moved(Still, N) /\ (\A e : e \notin N)
    BY <1>4
  <1> HIDE DEF N
  <1>11. UseInv'
    BY <1>4, <1>8, <1>10, UseKept DEF FdInv
  <1>12. NewInv'
    BY <1>1, <1>7, <1>9, <1>2, TableFacts DEF FdInv, ChildInv, NewInv, NewChild, phase
  <1>13. CopyInv'
    <2>1. \A g \in tracked'[0] : Live(g)' => g \in tracked[0] /\ handle'[g] = handle[g]
      <3>1. tracked'[0] \subseteq tracked[0] /\ tracked[0] \subseteq Handles
        BY <1>2, TableFacts DEF FdInv, FdTypes
      <3> QED BY <3>1, <1>7, <1>9 DEF Live
    <2> QED BY <2>1, <1>1, <1>4, <1>10, TableFacts, CopyKept DEF FdInv, ChildInv
  <1>14. InheritInv'
    <2>1. CASE Child = 0
      BY <2>1, <1>4, <1>5, NoChild
    <2>2. CASE Child # 0
      <3>1. \A fd : Taken(fd)' => Taken(fd)
        BY <1>1 DEF Taken, Claims, phase
      <3>2. \A g \in inherited' : g \in inherited /\ handle[g].state \in {"valid", "invalid"} /\ handle'[g] = handle[g]
        BY <1>1, <1>7 DEF FdInv, InheritInv, FdTypes
      <3> QED BY <3>1, <3>2, <1>1, <2>2, InheritKept DEF FdInv, phase, Ready
    <2> QED BY <2>1, <2>2
  <1> QED BY <1>3, <1>4, <1>5, <1>6, <1>11, <1>12, <1>13, <1>14 DEF FdInv, ChildInv

\* A borrowed handle goes when the call that used it returns.
LEMMA UseReply ==
    ASSUME TableCfg, FdInv, NEW t \in AllTasks, calls[t] # << >>, Popped(t), calls[t][1].op = "use", t \notin broken,
           UNCHANGED <<phase, manipulating, kfile, known, opened, leaked, inherited>>,
           handle' = [h \in Handles |-> IF h \in calls[t][1].handles THEN Free ELSE handle[h]],
           tracked' = [k \in Tables |-> tracked[k] \ calls[t][1].handles]
    PROVE  FdInv'
  <1>1. 1 \in 1..Len(calls[t])
    BY PoppedCalls DEF FdInv
  <1>2. Child = 0
    BY <1>1 DEF FdInv, CallsInv, CallOK
  <1>3. PICK b \in Handles : /\ calls[t][1].handles = {b} /\ handle[b].state = "borrowed" /\ handle[b].task = t
                             /\ handle[b].near = calls[t][1].fd /\ handle[b].file = calls[t][1].file
    BY <1>1 DEF FdInv, UseInv
  <1>4. /\ {b} \in SUBSET Handles /\ handle' = [h \in Handles |-> IF h \in {b} THEN Free ELSE handle[h]]
        /\ tracked' = [k \in Tables |-> tracked[k] \ {b}]
    BY <1>3
  <1>5. ~Waiting(t)
    BY DEF Waiting, FdInv, PhaseInv
  <1>6. /\ handle' \in [Handles -> HandleRec] /\ tracked' \in [Tables -> SUBSET Handles]
        /\ \A g \in Handles : handle'[g].state # "free" => handle'[g].task \in AllTasks /\ handle'[g].near \in Fds
        /\ TrackedInv' /\ \A k \in Tables : Served(k) => HandleStep(k) /\ SafeStep(k, {})
    BY <1>3, <1>4, <1>5, FreedParts
  <1>7. /\ PhaseInv' /\ CallsInv' /\ CloneInv' /\ Moved(Shift(t), {}) /\ Shift(t) \in [AllTasks -> Nat]
        /\ \A k \in Tables : OldCalls(k, Shift(t), {<<t, 1>>}, {}) /\ NewCalls(k, {})
        /\ calls' \in [AllTasks -> Seq(SysCall)]
    BY PopKeeps
  <1>8. FdTypes'
    BY <1>6, <1>7 DEF FdInv, FdTypes, phase
  <1>9. TablesInv'
    <2> SUFFICES ASSUME NEW k \in Tables, Served(k)' PROVE TableInv(k)'
      BY DEF TablesInv, TableInv
    <2>1. Served(k) /\ TableInv(k) /\ Fds \subseteq Nat
      BY TableFacts DEF Served, Ready, TablesInv, phase, FdInv
    <2>2. KnownStep(k, {<<t, 1>>}) /\ ClosedStep(k, {<<t, 1>>}, {})
      BY DEF KnownStep, ClosedStep
    <2> QED BY <2>1, <2>2, <1>6, <1>7, <1>8, TableStep DEF FdInv
  <1>10. UseInv'
    <2>1. ASSUME NEW u \in AllTasks, NEW i \in 1..Len(calls'[u]), calls'[u][i].op = "use", NEW a \in Handles, calls'[u][i].handles = {a}
          PROVE  a # b
      <3> DEFINE j == i + Shift(t)[u]
      <3>1. j \in 1..Len(calls[u]) /\ calls'[u][i] = calls[u][j]
        BY <1>7 DEF Moved
      <3>2. <<u, j>> # <<t, 1>>
        BY PopMoved DEF FdInv, TableCfg, FDTableAssumption
      <3> HIDE DEF j
      <3>3. calls[u][j].op = "use" /\ calls[u][j].handles = {a}
        BY <2>1, <3>1
      <3>4. a = b => calls[u][j].handles = calls[t][1].handles
        BY <3>3, <1>3
      <3>5. ~(u = t /\ j = 1)
        BY <3>2
      <3>6. \A v, w \in AllTasks : \A m \in 1..Len(calls[v]), n \in 1..Len(calls[w]) :
              calls[v][m].op = "use" /\ calls[w][n].op = "use" /\ calls[v][m].handles = calls[w][n].handles => v = w /\ m = n
        BY DEF FdInv, UseInv
      <3> QED BY <3>1, <3>3, <3>4, <3>5, <3>6, <1>1
    <2>2. \A a \in Handles : a # b => handle'[a] = handle[a]
      BY <1>4
    <2> DEFINE N == {}
    <2>3. Moved(Shift(t), N) /\ (\A e : e \notin N)
      BY <1>7
    <2> HIDE DEF N
    <2>4. \A u \in AllTasks : \A i \in 1..Len(calls'[u]) : calls'[u][i].op = "use" =>
                \A a \in Handles : calls'[u][i].handles = {a} /\ handle[a].state = "borrowed" => handle'[a] = handle[a]
      BY <2>1, <2>2
    <2> QED BY <2>3, <2>4, <1>7, UseKept DEF FdInv
  <1>11. ChildInv' /\ InheritInv'
    BY <1>2, <1>7, <1>8, NoChild
  <1> QED BY <1>6, <1>7, <1>8, <1>9, <1>10, <1>11 DEF FdInv

\* A new handle keeps the rest of the invariant.
LEMMA MadeRest ==
    ASSUME TableCfg, FdInv, NEW t \in AllTasks, NEW fd \in Fds, NEW file \in Nat, NEW h \in Handles, Makes(h, t, fd, file),
           UNCHANGED <<phase, kfile, manipulating, opened, inherited>>, ~Waiting(t), t # Child \/ Child \in alive,
           leaked' \in [Tables -> SUBSET Fds], Child # 0 => leaked'[Child] \subseteq leaked[Child],
           Served(fd_table[t]) => Safe(fd_table[t], fd) /\ File(fd_table[t], fd) = file,
           Copied /\ fd_table[t] = 0 => kfile[Child][fd] = file,
           NEW d \in [AllTasks -> Nat], Moved(d, {}), PhaseInv', CallsInv', CloneInv', calls' \in [AllTasks -> Seq(SysCall)],
           NewChild => calls'[Child] = << >>,
           Child # 0 /\ Ready(Child) => \A e \in leaked'[Child] : e \in known'[Child] => Taken(e)
    PROVE  FdTypes' /\ TrackedInv' /\ UseInv' /\ ChildInv' /\ InheritInv' /\ \A k \in Tables : Served(k) => HandleStep(k) /\ SafeStep(k, {})
  <1>0. FdTypes
    BY DEF FdInv
  <1>2. /\ known' \in [Tables -> SUBSET Fds] /\ tracked' \in [Tables -> SUBSET Handles] /\ handle' \in [Handles -> HandleRec]
        /\ \A g \in Handles : handle'[g].state # "free" => handle'[g].task \in AllTasks /\ handle'[g].near \in Fds
        /\ handle'[h] = [task |-> t, near |-> fd, file |-> file, state |-> "valid"]
        /\ \A g \in Handles \ {h} : handle'[g] = handle[g]
        /\ \A k \in Tables : tracked'[k] = IF k = fd_table[t] THEN tracked[k] \cup {h} ELSE tracked[k]
        /\ \A k \in Tables : known'[k] = IF k = fd_table[t] THEN known[k] \cup {fd} ELSE known[k]
    BY ZenonT(60), <1>0, MakeTypes
  <1>3. handle[h].state = "free"
    BY DEF Makes
  <1>1. TrackedInv' /\ \A k \in Tables : Served(k) => HandleStep(k) /\ SafeStep(k, {})
    <2>1. Gains(h, t, fd, file)
      BY <1>2, <1>3 DEF Gains
    <2> QED BY <2>1, MadeParts
  <1>4. FdTypes'
    BY <1>2 DEF FdInv, FdTypes, phase
  <1> DEFINE N == {}
  <1>5. Moved(d, N) /\ (\A e : e \notin N)
    OBVIOUS
  <1> HIDE DEF N
  <1>6. UseInv'
    <2>1. \A g \in Handles : handle[g].state = "borrowed" => handle'[g] = handle[g]
      BY <1>2, <1>3
    <2> QED BY <2>1, <1>5, UseKept DEF FdInv
  <1>7. handle'[h].task = t /\ handle'[h].near = fd /\ handle'[h].file = file
    BY <1>2
  <1>8. NewInv'
    <2> SUFFICES ASSUME NewChild PROVE NewInv'
      BY DEF NewInv, NewChild, phase
    <2>1. t # Child /\ Child # 0 /\ Child \in Tables
      BY TableFacts DEF NewChild
    <2>2. fd_table[t] # Child
      BY <2>1, TableFacts DEF FdInv, PhaseInv
    <2>3. known'[Child] = known[Child] /\ tracked'[Child] = tracked[Child]
      BY <1>2, <2>1, <2>2
    <2>4. \A g \in Handles : handle'[g].task # Child
      BY <1>2, <1>7, <2>1 DEF FdInv, ChildInv, NewInv
    <2> QED BY <2>3, <2>4 DEF FdInv, ChildInv, NewInv, phase
  <1>9. CopyInv'
    <2> SUFFICES ASSUME Copied PROVE CopyInv'
      BY DEF CopyInv, Copied, NewChild, phase
    <2>1. ASSUME NEW g \in tracked'[0]
          PROVE  \/ g \in tracked[0] /\ handle'[g] = handle[g]
                 \/ kfile[Child][handle'[g].near] = handle'[g].file
      <3>1. CASE g \in tracked[0]
        <4>1. g # h /\ g \in Handles
          BY <3>1, <1>3, TableFacts DEF FdInv, TrackedInv, FdTypes
        <4> QED BY <4>1, <3>1, <1>2
      <3>2. CASE g \notin tracked[0]
        <4>1. g = h /\ fd_table[t] = 0
          BY <3>2, <1>2, <2>1, TableFacts
        <4> QED BY <4>1, <1>7
      <3> QED BY <3>1, <3>2
    <2>2. leaked'[Child] \subseteq leaked[Child]
      BY DEF Copied, NewChild
    <2> QED BY <2>1, <2>2, <1>5, TableFacts, CopyKept DEF FdInv, ChildInv
  <1>10. InheritInv'
    <2>1. CASE Child = 0
      BY <2>1, <1>4, NoChild
    <2>2. CASE Child # 0
      <3>1. \A g \in inherited : g \in Handles \ {h} /\ handle[g].state \in {"valid", "invalid"}
        BY <1>3 DEF FdInv, FdTypes, InheritInv
      <3>2. \A g \in inherited : handle'[g] = handle[g]
        BY <3>1, <1>2
      <3>3. ASSUME NEW e \in leaked'[Child], Taken(e)', Ready(Child) PROVE Taken(e)
        <4>1. e \in known'[Child] => Taken(e)
          BY <3>3, <2>2
        <4>2. fd_table' = fd_table /\ \A i \in 1..Len(calls'[Child]) : <<Child, i>> \notin N
          BY <1>5 DEF phase
        <4> QED BY <4>1, <4>2, <3>3, <2>2, <1>5, TakenMoved
      <3>4. kfile' = kfile /\ (Ready(Child)' <=> Ready(Child)) /\ inherited' = inherited
        BY DEF phase, Ready
      <3> QED BY <3>1, <3>2, <3>3, <3>4, <2>2, InheritKept DEF FdInv
    <2> QED BY <2>1, <2>2
  <1> QED BY <1>1, <1>4, <1>6, <1>8, <1>9, <1>10 DEF ChildInv

\* The result of a call that opens becomes a handle.
LEMMA OpenReply ==
    ASSUME TableCfg, FdInv, NEW t \in AllTasks, calls[t] # << >>, Popped(t), calls[t][1].op = "open", calls[t][1].ret # 0, t \notin broken,
           UNCHANGED <<phase, manipulating, kfile, opened, leaked, inherited>>, t \notin manipulating, stage[t] # "cloned",
           NEW h \in Handles, Makes(h, t, calls[t][1].ret, kfile[ktable[t]][calls[t][1].ret])
    PROVE  FdInv'
  <1> DEFINE c == calls[t][1]  k == fd_table[t]  d == Shift(t)
  <1>1. 1 \in 1..Len(calls[t]) /\ c \in SysCall /\ \A u \in AllTasks \ {t} : calls'[u] = calls[u]
    BY PoppedCalls DEF FdInv
  <1>2. CallOK(t, 1, c)
    BY <1>1 DEF FdInv, CallsInv
  <1>3. Ready(t) /\ ~Waiting(t) /\ ktable[t] = k
    BY <1>2 DEF CallOK, Ready, FdInv, PhaseInv, Waiting
  <1>4. k \in Tables /\ Served(k) /\ k \in {Home(t), t}
    BY <1>3, TaskServed DEF FdInv, FdTypes, PhaseInv
  <1>5. Claims(t, c, k, c.ret) /\ c.ret \in Nat
    BY <1>1 DEF Claims, IsGiven, SysCall
  <1>6. Safe(k, c.ret) /\ c.ret \in Fds
    BY <1>1, <1>4, <1>5 DEF FdInv, TablesInv, TableInv, Safe
  <1>7. ~Waiting(k)
    BY <1>3, <1>4, TableFacts DEF Waiting
  <1>8. File(k, c.ret) = kfile[ktable[t]][c.ret] /\ kfile[ktable[t]][c.ret] \in Nat
    BY <1>3, <1>4, <1>6, <1>7 DEF File, Kernel, FdInv, FdTypes
  <1>9. /\ PhaseInv' /\ CallsInv' /\ CloneInv' /\ Moved(d, {}) /\ d \in [AllTasks -> Nat]
        /\ \A l \in Tables : OldCalls(l, d, {<<t, 1>>}, {}) /\ NewCalls(l, {})
        /\ calls' \in [AllTasks -> Seq(SysCall)]
    BY PopKeeps
  <1>10. \A l \in Tables : known'[l] = IF l = k THEN known[l] \cup {c.ret} ELSE known[l]
    <2>1. FdTypes /\ c.ret \in Fds /\ kfile[ktable[t]][c.ret] \in Nat /\ Makes(h, t, c.ret, kfile[ktable[t]][c.ret])
      BY <1>6, <1>8 DEF FdInv
    <2> HIDE DEF c
    <2> QED BY ZenonT(60), <2>1, MakeTypes
  <1> HIDE DEF d, c
  <1>11. t # Child \/ Child \in alive
    BY <1>3 DEF Ready
  <1>12. Copied /\ k = 0 => kfile[Child][c.ret] = kfile[ktable[t]][c.ret]
    <2> SUFFICES ASSUME Copied, k = 0 PROVE kfile[Child][c.ret] = kfile[0][c.ret]
      BY <1>3
    <2>1. t \in Tasks \ broken
      BY <1>4, TableFacts
    <2>2. PICK j \in 1..Len(calls[t]) : calls[t][j].op = "clone" /\ calls[t][j].ret # 0
      BY <2>1 DEF FdInv, ChildInv, CloneInv
    <2>3. HasClone(t, 1, j)
      BY <2>2 DEF HasClone
    <2>4. IsGiven(calls[t][1])
      BY DEF IsGiven
    <2> QED BY <2>1, <2>3, <2>4, <1>1 DEF FdInv, ChildInv, CopyInv, c
  <1>13. NewChild => calls'[Child] = << >>
    <2> SUFFICES ASSUME NewChild PROVE calls'[Child] = << >>
      OBVIOUS
    <2>1. Child # t /\ Child \in AllTasks
      BY <1>11, TableFacts DEF NewChild
    <2> QED BY <2>1, <1>1 DEF FdInv, ChildInv, NewInv
  <1>14. Child # 0 => \A e \in known'[Child] : Taken(e)
    <2> SUFFICES ASSUME Child # 0, NEW e \in known'[Child], e \notin known[Child] PROVE Taken(e)
      BY DEF Taken
    <2>a. Child \in Tables
      BY TableFacts
    <2>b. known'[Child] = IF Child = k THEN known[Child] \cup {c.ret} ELSE known[Child]
      BY <2>a, <1>10
    <2>1. Child = k /\ e = c.ret
      BY <2>b
    <2>2. t = Child
      BY <2>1, <1>4, TableFacts
    <2> QED BY <2>1, <2>2, <1>1, <1>5 DEF Taken, c
  <1>15. FdTypes' /\ TrackedInv' /\ UseInv' /\ ChildInv' /\ InheritInv' /\ \A l \in Tables : Served(l) => HandleStep(l) /\ SafeStep(l, {})
    <2>1. leaked' = leaked /\ leaked' \in [Tables -> SUBSET Fds]
      BY DEF FdInv, FdTypes
    <2> QED BY <2>1, <1>3, <1>4, <1>6, <1>8, <1>9, <1>11, <1>12, <1>13, <1>14, MadeRest DEF c
  <1>16. TablesInv'
    <2> SUFFICES ASSUME NEW l \in Tables, Served(l)' PROVE TableInv(l)'
      BY DEF TablesInv, TableInv
    <2>1. Served(l) /\ TableInv(l) /\ Fds \subseteq Nat
      BY TableFacts DEF Served, Ready, TablesInv, phase, FdInv
    <2>2. KnownStep(l, {<<t, 1>>}) /\ ClosedStep(l, {<<t, 1>>}, {})
      BY <1>1, <1>5, <1>10 DEF KnownStep, ClosedStep, Gone, c
    <2> QED BY <2>1, <2>2, <1>15, <1>9, TableStep DEF FdInv
  <1> QED BY <1>9, <1>15, <1>16 DEF FdInv

\* A result is handled.
LEMMA ReplyStep ==
    ASSUME TableCfg, FdInv, NEW t \in AllTasks, Reply(t)
    PROVE  FdInv'
  <1> DEFINE c == calls[t][1]
  <1>1. calls[t] # << >> /\ Popped(t)
    BY DEF Reply, Popped
  <1>2. Head(calls[t]) = c
    BY <1>1, PoppedCalls DEF FdInv
  <1>3. /\ UNCHANGED <<phase, manipulating, kfile, opened, leaked, inherited>> /\ c.ret # 0 /\ t \notin broken
        /\ c.op \in {"open", "close", "use", "use_own"}
    BY <1>2 DEF Reply, phase, kernel
  <1>4. stage[t] # "cloned"
    BY DEF Reply, Quiet, TableCfg
  <1>5. CASE c.op \in {"close", "use_own"}
    <2>1. UNCHANGED <<tracked, handle, known>>
      BY <1>2, <1>5 DEF Reply, UseReturns
    <2> QED BY <1>1, <1>3, <1>5, <2>1, PopQuiet
  <1>6. CASE c.op = "use"
    <2>1. /\ handle' = [h \in Handles |-> IF h \in c.handles THEN Free ELSE handle[h]]
          /\ tracked' = [k \in Tables |-> tracked[k] \ c.handles] /\ known' = known
      BY <1>2, <1>6 DEF Reply, UseReturns
    <2> QED BY <1>1, <1>3, <1>6, <2>1, UseReply
  <1>7. CASE c.op = "open"
    <2>1. OpenReturns(t, c)
      BY <1>2, <1>7 DEF Reply
    <2>2. CASE UNCHANGED <<handle, tracked, known>>
      BY <1>1, <1>3, <1>7, <2>2, PopQuiet
    <2>3. CASE t \notin manipulating /\ MakeHandle(t, c.ret, kfile[ktable[t]][c.ret])
      <3>1. PICK h \in Handles : Makes(h, t, c.ret, kfile[ktable[t]][c.ret])
        BY <2>3 DEF MakeHandle, Makes
      <3> QED BY <3>1, <1>1, <1>3, <1>4, <1>7, <2>3, OpenReply
    <2> QED BY <2>1, <2>2, <2>3 DEF OpenReturns
  <1> QED BY <1>3, <1>5, <1>6, <1>7

\* for_task makes a handle for another task of the table.
LEMMA ForTaskStep ==
    ASSUME TableCfg, FdInv, NEW h \in Handles, NEW t \in AllTasks, ForTask(h, t)
    PROVE  FdInv'
  <1> DEFINE k == fd_table[t]  fd == handle[h].near  file == handle[h].file
  <1>1. /\ Valid(h) /\ Ready(t) /\ t \notin manipulating /\ fd_table[handle[h].task] = k
        /\ UNCHANGED <<phase, calls, manipulating, kfile, opened, leaked, inherited>>
    BY DEF ForTask, phase, kernel
  <1>2. PICK g \in Handles : Makes(g, t, fd, file)
    BY DEF ForTask, MakeHandle, Makes
  <1>3. Live(h) /\ fd \in Fds /\ file \in Nat /\ handle[h].task \in AllTasks
    <2>1. handle[h] \in HandleRec /\ handle[h].state = "valid"
      BY <1>1 DEF FdInv, FdTypes, Valid
    <2>2. fd \in Fds /\ handle[h].task \in AllTasks
      BY <2>1 DEF FdInv, FdTypes
    <2> QED BY <2>1, <2>2 DEF HandleRec, Live
  <1>4. k \in Tables /\ Served(k)
    BY <1>1, TaskServed DEF FdInv, FdTypes
  <1>5. Safe(k, fd) /\ File(k, fd) = file
    BY <1>1, <1>3, <1>4 DEF FdInv, TablesInv, TableInv
  <1>6. ~Waiting(t) /\ (t # Child \/ Child \in alive)
    BY <1>1 DEF Waiting, FdInv, PhaseInv, Ready
  <1>7. h \in tracked[k] /\ fd \in known[k]
    <2>1. h \in tracked[k]
      BY <1>1, <1>3 DEF FdInv, TrackedInv
    <2> QED BY <2>1, <1>4 DEF FdInv, TrackedInv
  <1>8. known' = known
    <2>1. \A l \in Tables : known'[l] = IF l = k THEN known[l] \cup {fd} ELSE known[l]
      BY ZenonT(60), <1>2, <1>3, MakeTypes DEF FdInv
    <2>2. known' = [known EXCEPT ![k] = @ \cup {fd}]
      BY <1>2 DEF Makes
    <2>3. known[k] \cup {fd} = known[k]
      BY <1>7
    <2> HIDE DEF k, fd
    <2> QED BY <2>2, <2>3 DEF FdInv, FdTypes
  <1>9. Copied /\ k = 0 => kfile[Child][fd] = file
    BY <1>3, <1>7 DEF FdInv, ChildInv, CopyInv
  <1>10. /\ PhaseInv' /\ CallsInv' /\ CloneInv' /\ Moved(Still, {}) /\ Still \in [AllTasks -> Nat]
        /\ \A l \in Tables : OldCalls(l, Still, {}, {}) /\ NewCalls(l, {})
    BY <1>1, CallsStill
  <1>11. NewChild => calls'[Child] = << >>
    BY <1>1 DEF FdInv, ChildInv, NewInv
  <1>12. leaked' \in [Tables -> SUBSET Fds] /\ leaked' = leaked /\ calls' \in [AllTasks -> Seq(SysCall)]
    BY <1>1 DEF FdInv, FdTypes
  <1>13. \A e \in known'[Child] : Taken(e)
    BY <1>8 DEF Taken
  <1> HIDE DEF fd, file, k
  <1>14. FdTypes' /\ TrackedInv' /\ UseInv' /\ ChildInv' /\ InheritInv' /\ \A l \in Tables : Served(l) => HandleStep(l) /\ SafeStep(l, {})
    BY <1>1, <1>2, <1>3, <1>5, <1>6, <1>9, <1>10, <1>11, <1>12, <1>13, MadeRest DEF k
  <1>15. TablesInv'
    <2> SUFFICES ASSUME NEW l \in Tables, Served(l)' PROVE TableInv(l)'
      BY DEF TablesInv, TableInv
    <2>1. Served(l) /\ TableInv(l) /\ Fds \subseteq Nat
      BY <1>1, TableFacts DEF Served, Ready, TablesInv, phase, FdInv
    <2>2. KnownStep(l, {}) /\ ClosedStep(l, {}, {})
      BY <1>8 DEF KnownStep, ClosedStep
    <2> QED BY <2>1, <2>2, <1>14, <1>10, TableStep DEF FdInv
  <1> QED BY <1>10, <1>14, <1>15 DEF FdInv

\* inherit_fd makes a handle for the child.
LEMMA InheritStep ==
    ASSUME TableCfg, FdInv, NEW h \in Handles, NEW t \in AllTasks, Inherit(h, t)
    PROVE  FdInv'
  <1> DEFINE fd == handle[h].near  file == handle[h].file
  <1>1. /\ Valid(h) /\ t = Child /\ Child \in alive /\ h \in inherited /\ fd \in leaked[Child]
        /\ leaked' = [leaked EXCEPT ![Child] = @ \ {fd}]
        /\ UNCHANGED <<phase, calls, manipulating, kfile, opened, inherited>>
    BY DEF Inherit, TableCfg, phase, kernel
  <1>2. PICK g \in Handles : Makes(g, Child, fd, file)
    BY <1>1 DEF Inherit, MakeHandle, Makes
  <1>3. fd \in Fds /\ file \in Nat
    <2>1. handle[h] \in HandleRec /\ handle[h].state = "valid"
      BY <1>1 DEF FdInv, FdTypes, Valid
    <2> QED BY <2>1 DEF HandleRec, FdInv, FdTypes
  <1>4. Child \in AllTasks /\ Child \in Tables /\ Child # 0 /\ Child \notin Tasks
    BY <1>1, TableFacts
  <1>5. fd_table[Child] = Child /\ ~Waiting(Child)
    BY <1>4 DEF FdInv, PhaseInv, Waiting, Home
  <1>6. Served(Child) => Safe(Child, fd) /\ File(Child, fd) = file /\ ~Taken(fd)
    <2> SUFFICES ASSUME Served(Child) PROVE Safe(Child, fd) /\ File(Child, fd) = file /\ ~Taken(fd)
      OBVIOUS
    <2>1. Ready(Child)
      BY <1>4 DEF Served
    <2>2. kfile[Child][fd] = file /\ kfile[Child][fd] # 0 /\ ~Taken(fd)
      BY <2>1, <1>1, <1>4 DEF FdInv, InheritInv, Taken
    <2> QED BY <2>2, <1>3, <1>5 DEF Safe, File, Kernel
  <1>7. /\ PhaseInv' /\ CallsInv' /\ CloneInv' /\ Moved(Still, {}) /\ Still \in [AllTasks -> Nat]
        /\ \A l \in Tables : OldCalls(l, Still, {}, {}) /\ NewCalls(l, {})
    BY <1>1, CallsStill
  <1>8. leaked' \in [Tables -> SUBSET Fds] /\ leaked'[Child] = leaked[Child] \ {fd} /\ calls' \in [AllTasks -> Seq(SysCall)]
    BY <1>1, <1>4 DEF FdInv, FdTypes
  <1>9. /\ known' \in [Tables -> SUBSET Fds] /\ tracked' \in [Tables -> SUBSET Handles]
        /\ \A l \in Tables : known'[l] = IF l = Child THEN known[l] \cup {fd} ELSE known[l]
    <2>1. FdTypes /\ Child \in AllTasks /\ fd \in Fds /\ file \in Nat /\ Makes(g, Child, fd, file)
      BY <1>2, <1>3, <1>4 DEF FdInv
    <2> HIDE DEF fd, file
    <2>2. /\ known' \in [Tables -> SUBSET Fds] /\ tracked' \in [Tables -> SUBSET Handles]
          /\ \A l \in Tables : known'[l] = IF l = fd_table[Child] THEN known[l] \cup {fd} ELSE known[l]
      BY ZenonT(60), <2>1, MakeTypes
    <2> QED BY <2>2, <1>5
  <1>10. \A e \in leaked'[Child] : e \in known'[Child] => Taken(e)
    BY <1>4, <1>8, <1>9 DEF Taken
  <1>11. ~Copied /\ ~NewChild
    BY <1>1 DEF Copied, NewChild
  <1> HIDE DEF fd, file
  <1>12. FdTypes' /\ TrackedInv' /\ UseInv' /\ ChildInv' /\ InheritInv' /\ \A l \in Tables : Served(l) => HandleStep(l) /\ SafeStep(l, {})
    <2>1. leaked'[Child] \subseteq leaked[Child]
      BY <1>8
    <2> QED BY <2>1, <1>1, <1>2, <1>3, <1>4, <1>5, <1>6, <1>7, <1>8, <1>10, <1>11, MadeRest
  <1>13. TablesInv'
    <2> SUFFICES ASSUME NEW l \in Tables, Served(l)' PROVE TableInv(l)'
      BY DEF TablesInv, TableInv
    <2>1. Served(l) /\ TableInv(l) /\ Fds \subseteq Nat
      BY <1>1, TableFacts DEF Served, Ready, TablesInv, phase, FdInv
    <2>2. CASE l # Child
      <3>1. KnownStep(l, {}) /\ ClosedStep(l, {}, {})
        BY <1>9, <2>2 DEF KnownStep, ClosedStep
      <3> QED BY <2>1, <3>1, <1>12, <1>7, TableStep DEF FdInv
    <2>3. CASE l = Child
      <3>0. Safe(l, fd) /\ File(l, fd) = file /\ ~Taken(fd) /\ known'[l] = known[l] \cup {fd}
        BY <2>1, <2>3, <1>4, <1>6, <1>9
      <3>1. \A e : Safe(l, e)' <=> Safe(l, e)
        BY <1>1, <1>5, <2>3 DEF Safe, File, Kernel, Waiting, phase
      <3>2. \A e : File(l, e)' = File(l, e)
        BY <1>1, <1>5, <2>3 DEF File, Kernel, Waiting, phase
      <3>3. \A u \in AllTasks : \A i \in 1..Len(calls[u]) : \A e \in Nat : Claims(u, calls[u][i], l, e)' <=> Claims(u, calls[u][i], l, e)
        BY <1>1 DEF Claims, phase
      <3>4. \A u \in AllTasks : \A i \in 1..Len(calls[u]) : ~Claims(u, calls[u][i], l, fd)
        <4> SUFFICES ASSUME NEW u \in AllTasks, NEW i \in 1..Len(calls[u]), Claims(u, calls[u][i], l, fd) PROVE FALSE
          OBVIOUS
        <4>1. u = Child
          <5>1. CallOK(u, i, calls[u][i])
            BY DEF FdInv, CallsInv
          <5>2. Child \in {Home(u), fd_table[u], u}
            BY <5>1, <2>3 DEF Claims, IsClosing, CallOK
          <5>3. fd_table[u] \in {Home(u), u} /\ Home(u) \in {0, u}
            BY TableFacts DEF FdInv, PhaseInv
          <5> QED BY <5>2, <5>3, <1>4
        <4> QED BY <4>1, <2>3, <3>0 DEF Taken
      <3>5. calls' = calls /\ fd \in Nat
        BY <1>1, <1>3, TableFacts
      <3>6. \A e \in known'[l] : Safe(l, e)'
        BY <2>1, <3>0, <3>1 DEF TableInv
      <3>7. \A u \in AllTasks : \A i \in 1..Len(calls'[u]) : \A e \in Nat :
              Claims(u, calls[u][i], l, e)' => Safe(l, e)' /\ e \notin known'[l]
        BY <2>1, <3>0, <3>1, <3>3, <3>4, <3>5 DEF TableInv
      <3>8. \A u, v \in AllTasks : \A i \in 1..Len(calls'[u]), j \in 1..Len(calls'[v]) : \A e \in Nat :
              Claims(u, calls[u][i], l, e)' /\ Claims(v, calls[v][j], l, e)' => u = v /\ i = j
        <4> SUFFICES ASSUME NEW u \in AllTasks, NEW v \in AllTasks, NEW i \in 1..Len(calls'[u]), NEW j \in 1..Len(calls'[v]), NEW e \in Nat,
                            Claims(u, calls[u][i], l, e)', Claims(v, calls[v][j], l, e)'
            PROVE  u = v /\ i = j
          OBVIOUS
        <4>1. i \in 1..Len(calls[u]) /\ j \in 1..Len(calls[v])
          BY <3>5
        <4>2. Claims(u, calls[u][i], l, e) /\ Claims(v, calls[v][j], l, e)
          BY <3>3, <4>1
        <4> QED BY <2>1, <4>1, <4>2 DEF TableInv
      <3>9. \A u \in AllTasks : \A i \in 1..Len(calls'[u]) :
              IsClosing(calls'[u][i]) /\ calls'[u][i].table = l => File(l, calls[u][i].fd)' = calls'[u][i].file
        BY <2>1, <3>2, <3>5 DEF TableInv
      <3>10. HandleStep(l)
        BY <2>1, <1>12
      <3>11. \A a \in Handles : Live(a)' /\ fd_table'[handle'[a].task] = l =>
              Safe(l, handle[a].near)' /\ File(l, handle[a].near)' = handle'[a].file
        <4> SUFFICES ASSUME NEW a \in Handles, Live(a)', fd_table'[handle'[a].task] = l
            PROVE  Safe(l, handle[a].near)' /\ File(l, handle[a].near)' = handle'[a].file
          OBVIOUS
        <4>1. Safe(l, handle'[a].near) /\ File(l, handle'[a].near) = handle'[a].file
          BY <3>10 DEF HandleStep
        <4> QED BY <4>1, <1>1, <1>5, <2>3 DEF Safe, File, Kernel, Waiting, phase
      <3> QED BY <3>6, <3>7, <3>8, <3>9, <3>11 DEF TableInv, IsClosing
    <2> QED BY <2>2, <2>3
  <1> QED BY <1>7, <1>12, <1>13 DEF FdInv

-----------------------------------------------------------------------------
(* Collections                                                             *)

\* The calls of q follow those of t.
Follows(t, q) == calls' = [calls EXCEPT ![t] = @ \o q]

\* The places of n new calls of t.
Added(t, n) == {<<t, i>> : i \in (Len(calls[t]) + 1)..(Len(calls[t]) + n)}

\* The calls when those of q follow those of t.
LEMMA FollowsCalls ==
    ASSUME FdTypes, NEW t \in AllTasks, NEW q \in Seq(SysCall), Follows(t, q)
    PROVE  /\ calls' \in [AllTasks -> Seq(SysCall)] /\ Still \in [AllTasks -> Nat] /\ Moved(Still, Added(t, Len(q)))
           /\ \A u \in AllTasks : Len(calls'[u]) = IF u = t THEN Len(calls[u]) + Len(q) ELSE Len(calls[u])
           /\ \A u \in AllTasks : \A i \in 1..Len(calls[u]) : i \in 1..Len(calls'[u]) /\ calls'[u][i] = calls[u][i]
           /\ \A u \in AllTasks : \A i \in 1..Len(calls'[u]) : <<u, i>> \in Added(t, Len(q)) =>
                u = t /\ i - Len(calls[t]) \in 1..Len(q) /\ calls'[u][i] = q[i - Len(calls[t])]
           /\ \A u \in AllTasks \ {t} : calls'[u] = calls[u]
  <1> DEFINE p == calls[t]  r == p \o q  m == Len(p)  n == Len(q)
  <1>0. \A u \in AllTasks : calls[u] \in Seq(SysCall) /\ Len(calls[u]) \in Nat
    BY DEF FdTypes
  <1>1. p \in Seq(SysCall) /\ q \in Seq(SysCall) /\ m \in Nat /\ n \in Nat
    BY <1>0
  <1>2. r \in Seq(SysCall) /\ Len(r) = m + n
    BY ONLY <1>1
  <1>3. \A i \in 1..m : r[i] = p[i]
    BY ONLY <1>1
  <1>4. \A i \in (m + 1)..(m + n) : r[i] = q[i - m] /\ i - m \in 1..n
    BY ONLY <1>1
  <1>5. calls'[t] = r /\ \A u \in AllTasks \ {t} : calls'[u] = calls[u]
    BY DEF Follows, FdTypes
  <1>6. calls' \in [AllTasks -> Seq(SysCall)]
    BY <1>2 DEF Follows, FdTypes
  <1> HIDE DEF r
  <1>7. \A u \in AllTasks : Len(calls'[u]) = IF u = t THEN Len(calls[u]) + n ELSE Len(calls[u])
    BY <1>2, <1>5
  <1>8. \A u \in AllTasks : \A i \in 1..Len(calls[u]) : i \in 1..Len(calls'[u]) /\ calls'[u][i] = calls[u][i]
    BY <1>0, <1>1, <1>3, <1>5, <1>7
  <1>9. ASSUME NEW u \in AllTasks, NEW i \in 1..Len(calls'[u]), <<u, i>> \in Added(t, n)
        PROVE  u = t /\ i - m \in 1..n /\ calls'[u][i] = q[i - m]
    BY <1>4, <1>5, <1>9 DEF Added
  <1>10. ASSUME NEW u \in AllTasks, NEW i \in 1..Len(calls'[u]), <<u, i>> \notin Added(t, n)
         PROVE  i + Still[u] \in 1..Len(calls[u]) /\ calls'[u][i] = calls[u][i + Still[u]]
    <2>1. i \in 1..Len(calls[u])
      BY <1>0, <1>1, <1>7, <1>10 DEF Added
    <2> QED BY <2>1, <1>8 DEF Still
  <1>11. Still \in [AllTasks -> Nat]
    BY DEF Still
  <1> QED BY <1>5, <1>6, <1>7, <1>8, <1>9, <1>10, <1>11 DEF Moved

\* The numbers that q closes leave table k.
Leaves(k, q) ==
    /\ \A j \in 1..Len(q) : /\ q[j].op = "close" /\ q[j].ret = 0 /\ q[j].table = k
                            /\ q[j].fd \in known[k] /\ q[j].fd \notin known'[k]
                            /\ Served(k) => q[j].file = File(k, q[j].fd)
    /\ \A i, j \in 1..Len(q) : q[i].fd = q[j].fd => i = j

\* Closes of numbers that leave table k keep its claims apart, and touch no other
\* table.
LEMMA LeavesTables ==
    ASSUME FdTypes, NEW t \in AllTasks, NEW q \in Seq(SysCall), Follows(t, q), NEW k \in Tables, Leaves(k, q), fd_table' = fd_table,
           \A l \in Tables : known'[l] \subseteq known[l], NEW l \in Tables, Served(l)
    PROVE  /\ OldCalls(l, Still, {}, Added(t, Len(q))) /\ NewCalls(l, Added(t, Len(q)))
           /\ KnownStep(l, {}) /\ ClosedStep(l, {}, {})
  <1> DEFINE N == Added(t, Len(q))
  <1>1. /\ Still \in [AllTasks -> Nat] /\ Moved(Still, N)
        /\ \A u \in AllTasks : \A i \in 1..Len(calls'[u]) : <<u, i>> \in N =>
             u = t /\ i - Len(calls[t]) \in 1..Len(q) /\ calls'[u][i] = q[i - Len(calls[t])]
    BY FollowsCalls
  <1> HIDE DEF N
  <1>2. OldCalls(l, Still, {}, N)
    BY <1>1, OldKept
  <1>3. ASSUME NEW u \in AllTasks, NEW i \in 1..Len(calls'[u]), NEW fd \in Nat, <<u, i>> \in N, Claims(u, calls[u][i], l, fd)'
        PROVE  LET j == i - Len(calls[t]) IN
               /\ u = t /\ j \in 1..Len(q) /\ calls'[u][i] = q[j] /\ l = k /\ fd = q[j].fd
               /\ fd \in known[l] /\ fd \notin known'[l] /\ calls'[u][i].file = File(l, fd)
    <2> DEFINE j == i - Len(calls[t])
    <2>1. u = t /\ j \in 1..Len(q) /\ calls'[u][i] = q[j]
      BY <1>1, <1>3
    <2> HIDE DEF j
    <2>2. q[j].op = "close" /\ q[j].ret = 0 /\ q[j].table = k
      BY <2>1 DEF Leaves
    <2>3. l = k /\ fd = q[j].fd
      BY <2>1, <2>2, <1>3 DEF Claims, IsClosing, IsGiven
    <2>4. fd \in known[l] /\ fd \notin known'[l] /\ q[j].file = File(l, fd)
      BY <2>1, <2>3 DEF Leaves
    <2> QED BY <2>1, <2>3, <2>4 DEF j
  <1>4. ASSUME NEW u \in AllTasks, NEW v \in AllTasks, NEW i \in 1..Len(calls'[u]), NEW j \in 1..Len(calls'[v]), NEW fd \in Nat,
               <<u, i>> \in N, <<v, j>> \in N, Claims(u, calls[u][i], l, fd)', Claims(v, calls[v][j], l, fd)'
        PROVE  u = v /\ i = j
    <2> DEFINE m == i - Len(calls[t])  n == j - Len(calls[t])
    <2>1. u = t /\ m \in 1..Len(q) /\ q[m].fd = fd
      BY <1>3, <1>4
    <2>2. v = t /\ n \in 1..Len(q) /\ q[n].fd = fd
      BY <1>3, <1>4
    <2> HIDE DEF m, n
    <2>3. m = n
      BY <2>1, <2>2 DEF Leaves
    <2>4. Len(calls[t]) \in Int /\ i \in Int /\ j \in Int
      BY DEF FdTypes
    <2> QED BY <2>1, <2>2, <2>3, <2>4 DEF m, n
  <1>5. NewCalls(l, N)
    BY <1>3, <1>4 DEF NewCalls
  <1>6. KnownStep(l, {}) /\ ClosedStep(l, {}, {})
    BY DEF KnownStep, ClosedStep
  <1> QED BY <1>2, <1>5, <1>6 DEF N

\* The file that a collection's close means is the one at that number of the table.
LEMMA Files ==
    ASSUME TableCfg, FdTypes, PhaseInv, NEW k \in Tables, Served(k), NEW fd
    PROVE  FileAt(k, fd) = File(k, fd)
  <1>1. CASE k = 0
    BY <1>1 DEF FileAt, File, Kernel, Waiting
  <1>2. CASE k # 0
    <2>1. k \in AllTasks /\ Ready(k) /\ fd_table[k] = k
      BY <1>2, TableFacts DEF Served
    <2>2. ktable[k] = IF Waiting(k) THEN 0 ELSE k
      BY <2>1 DEF PhaseInv
    <2>3. \A u \in AllTasks : u # k => ktable[u] # k
      BY <2>1, <1>2 DEF PhaseInv
    <2> QED BY <2>1, <2>2, <2>3, <1>2 DEF FileAt, File, Kernel
  <1> QED BY <1>1, <1>2

\* Handles of tracked tables that are no longer valid go.
Fades ==
    /\ handle' \in [Handles -> HandleRec] /\ tracked' \in [Tables -> SUBSET Handles] /\ known' \in [Tables -> SUBSET Fds]
    /\ \A g \in Handles : \/ handle'[g] = handle[g]
                          \/ handle[g].state = "valid" /\ handle'[g] = [handle[g] EXCEPT !.state = "invalid"]
    /\ \A l \in Tables : tracked'[l] \subseteq tracked[l] /\ known'[l] \subseteq known[l]
    /\ \A g \in tracked[0] : Waiting(handle[g].task) => g \in tracked'[0]
    /\ \A l \in Tables : \A g \in tracked'[l] : handle[g].near \in known'[l]
    /\ \A g \in Handles : Live(g)' => g \in tracked'[fd_table[handle[g].task]]

\* Handles that become invalid, or leave the tables, keep what is said of handles.
LEMMA FadeParts ==
    ASSUME TableCfg, FdInv, Fades, UNCHANGED <<ktable, fd_table, kfile>>, \A u \in AllTasks : Waiting(u)' <=> Waiting(u)
    PROVE  /\ TrackedInv' /\ \A l \in Tables : Served(l) => HandleStep(l) /\ SafeStep(l, {})
           /\ \A g \in Handles : handle'[g].state # "free" => handle'[g].task \in AllTasks /\ handle'[g].near \in Fds
           /\ \A g \in Handles : handle[g].state \in {"borrowed", "free"} => handle'[g] = handle[g]
           /\ \A g \in Handles : Live(g)' => Live(g) /\ handle'[g] = handle[g]
           /\ \A g \in Handles : handle'[g].task = handle[g].task /\ handle'[g].near = handle[g].near /\ handle'[g].file = handle[g].file
           /\ \A g \in inherited : handle'[g].state \in {"valid", "invalid"}
  <1> DEFINE W(u) == u # 0 /\ stage'[u] = "unsharing" /\ u \notin broken' /\ ktable'[u] = 0
  <1>w. \A u \in AllTasks : W(u) <=> Waiting(u)
    BY DEF Waiting
  <1> HIDE DEF W
  <1>1. \A g \in Handles : handle[g].state \in {"borrowed", "free"} => handle'[g] = handle[g]
    BY DEF Fades
  <1>2. \A g \in Handles : Live(g)' => Live(g) /\ handle'[g] = handle[g]
    <2> SUFFICES ASSUME NEW g \in Handles, Live(g)' PROVE Live(g) /\ handle'[g] = handle[g]
      OBVIOUS
    <2>1. CASE handle'[g] = handle[g]
      BY <2>1 DEF Live
    <2>2. CASE handle'[g] = [handle[g] EXCEPT !.state = "invalid"]
      <3>1. handle[g] \in HandleRec
        BY DEF FdInv, FdTypes
      <3>2. handle'[g].state = "invalid"
        BY <2>2, <3>1 DEF HandleRec
      <3> QED BY <3>2 DEF Live
    <2> QED BY <2>1, <2>2 DEF Fades
  <1>3. \A g \in Handles : /\ handle'[g].task = handle[g].task /\ handle'[g].near = handle[g].near /\ handle'[g].file = handle[g].file
                           /\ handle'[g].state \in {handle[g].state, "invalid"} /\ (handle'[g].state # "free" <=> handle[g].state # "free")
    <2> SUFFICES ASSUME NEW g \in Handles, handle[g].state = "valid", handle'[g] = [handle[g] EXCEPT !.state = "invalid"]
        PROVE /\ handle'[g].task = handle[g].task /\ handle'[g].near = handle[g].near /\ handle'[g].file = handle[g].file
              /\ handle'[g].state \in {handle[g].state, "invalid"} /\ (handle'[g].state # "free" <=> handle[g].state # "free")
      BY DEF Fades
    <2>1. handle[g] \in HandleRec
      BY DEF FdInv, FdTypes
    <2> QED BY <2>1 DEF HandleRec
  <1>4. \A g \in Handles : handle'[g].state # "free" => handle'[g].task \in AllTasks /\ handle'[g].near \in Fds
    BY <1>3 DEF FdInv, FdTypes
  <1>5. \A g \in inherited : handle'[g].state \in {"valid", "invalid"}
    BY <1>3 DEF FdInv, FdTypes, InheritInv
  <1>6. \A l \in Tables : tracked'[l] \subseteq tracked[l] /\ tracked[l] \subseteq Handles
    BY DEF Fades, FdInv, FdTypes
  <1>7. 0 \in Tables
    BY TableFacts
  <1>8. \A g \in Handles : Live(g) => handle[g].task \in AllTasks
    BY DEF FdInv, FdTypes, Live
  <1>9. TrackedInv'
    <2>1. ASSUME NEW k \in Tables, NEW g \in tracked'[k]
          PROVE  /\ handle'[g].state # "free" /\ handle'[g].near \in known'[k]
                 /\ IF k = 0 THEN handle'[g].task \in Tasks ELSE handle'[g].task = k
      <3>1. g \in tracked[k] /\ g \in Handles
        BY <1>6
      <3>2. handle[g].state # "free" /\ IF k = 0 THEN handle[g].task \in Tasks ELSE handle[g].task = k
        BY <3>1 DEF FdInv, TrackedInv
      <3>3. handle[g].near \in known'[k]
        BY DEF Fades
      <3> QED BY <3>1, <3>2, <3>3, <1>3
    <2>2. ASSUME NEW g \in Handles, Live(g)'
          PROVE  /\ g \in tracked'[fd_table'[handle'[g].task]]
                 /\ W(handle'[g].task) => g \in tracked'[0]
      <3>1. handle'[g] = handle[g] /\ Live(g) /\ handle[g].task \in AllTasks
        BY <2>2, <1>2, <1>8
      <3>2. Waiting(handle[g].task) => g \in tracked[0]
        BY <3>1 DEF FdInv, TrackedInv
      <3>3. Waiting(handle[g].task) => g \in tracked'[0]
        BY <3>2 DEF Fades
      <3>4. g \in tracked'[fd_table[handle[g].task]]
        BY <2>2 DEF Fades
      <3>5. W(handle'[g].task) => Waiting(handle[g].task)
        BY <3>1, <1>w
      <3> QED BY <3>1, <3>3, <3>4, <3>5
    <2> QED BY <2>1, <2>2 DEF TrackedInv, Waiting, W
  <1>10. \A l \in Tables : Waiting(l)' <=> Waiting(l)
    BY TableFacts DEF Waiting
  <1>11. ASSUME NEW l \in Tables PROVE SafeStep(l, {})
    <2>1. ASSUME NEW e, Waiting(l), Kept(l, e) PROVE Kept(l, e)'
      <3>1. PICK g \in tracked[0] : handle[g].near = e /\ handle[g].task = l
        BY <2>1 DEF Kept
      <3>2. g \in tracked'[0] /\ g \in Handles
        BY <3>1, <2>1, <1>6, <1>7 DEF Fades
      <3> QED BY <3>1, <3>2, <1>3 DEF Kept
    <2> QED BY <2>1, <1>10 DEF SafeStep, Safe, File, Kernel
  <1>12. ASSUME NEW l \in Tables, Served(l) PROVE HandleStep(l)
    <2> SUFFICES ASSUME NEW g \in Handles, Live(g)', fd_table'[handle'[g].task] = l
        PROVE  handle'[g].near \in known'[l] /\ Safe(l, handle'[g].near) /\ File(l, handle'[g].near) = handle'[g].file
      BY DEF HandleStep
    <2>1. handle'[g] = handle[g] /\ Live(g) /\ fd_table[handle[g].task] = l
      BY <1>2
    <2>2. Safe(l, handle[g].near) /\ File(l, handle[g].near) = handle[g].file
      BY <2>1, <1>12 DEF FdInv, TablesInv, TableInv
    <2>3. handle[g].near \in known'[l]
      BY <2>1 DEF Fades
    <2> QED BY <2>1, <2>2, <2>3
  <1> QED BY <1>1, <1>2, <1>3, <1>4, <1>5, <1>9, <1>11, <1>12

\* Closes that follow the calls of t keep the phases, the calls and the clone.
LEMMA CollectCalls ==
    ASSUME TableCfg, FdInv, NEW t \in AllTasks, t \in alive, NEW q \in Seq(SysCall), Follows(t, q),
           NEW k \in {Home(t), t}, Ready(t) => k = fd_table[t],
           \A j \in 1..Len(q) : q[j].op = "close" /\ q[j].ret = 0 /\ q[j].table = k /\ q[j].fd \in Fds,
           Len(calls[t]) + Len(q) <= MaxCalls, Steady, manipulating' = manipulating
    PROVE  PhaseInv' /\ CallsInv' /\ (UNCHANGED phase => CloneInv')
  <1> DEFINE N == Added(t, Len(q))  n == Len(calls[t])
  <1>1. /\ calls' \in [AllTasks -> Seq(SysCall)] /\ Still \in [AllTasks -> Nat] /\ Moved(Still, N)
        /\ \A u \in AllTasks : Len(calls'[u]) = IF u = t THEN Len(calls[u]) + Len(q) ELSE Len(calls[u])
        /\ \A u \in AllTasks : \A i \in 1..Len(calls[u]) : i \in 1..Len(calls'[u]) /\ calls'[u][i] = calls[u][i]
        /\ \A u \in AllTasks : \A i \in 1..Len(calls'[u]) : <<u, i>> \in N =>
             u = t /\ i - n \in 1..Len(q) /\ calls'[u][i] = q[i - n]
    BY FollowsCalls DEF FdInv
  <1>2. \A u \in AllTasks : Len(calls'[u]) <= MaxCalls
    BY ZenonT(60), <1>1 DEF FdInv, CallsInv
  <1>3. \A u \in AllTasks : \A i \in 1..Len(calls'[u]) : <<u, i>> \in N => CallOK(u, i, calls'[u][i]) /\ calls'[u][i].op = "close" /\ calls'[u][i].ret = 0
    <2> SUFFICES ASSUME NEW u \in AllTasks, NEW i \in 1..Len(calls'[u]), <<u, i>> \in N
        PROVE  CallOK(u, i, calls'[u][i]) /\ calls'[u][i].op = "close" /\ calls'[u][i].ret = 0
      OBVIOUS
    <2> DEFINE c == calls'[u][i]  m == i - n
    <2>a. u = t /\ m \in 1..Len(q) /\ c = q[m]
      BY <1>1
    <2> HIDE DEF m
    <2>1. u = t /\ c.op = "close" /\ c.ret = 0 /\ c.table = k /\ c.fd \in Fds
      BY <2>a
    <2> HIDE DEF c
    <2>2. CallOK(t, i, c)
      BY <2>1 DEF CallOK
    <2> QED BY <2>1, <2>2 DEF c
  <1>4. \A u \in AllTasks : \A i, j \in 1..Len(calls'[u]) :
           i < j /\ calls'[u][j].ret # 0 /\ (<<u, i>> \in N \/ <<u, j>> \in N) => calls'[u][i].ret # 0
    <2> SUFFICES ASSUME NEW u \in AllTasks, NEW i \in 1..Len(calls'[u]), NEW j \in 1..Len(calls'[u]),
                        i < j, calls'[u][j].ret # 0, <<u, i>> \in N
        PROVE  FALSE
      BY <1>3
    <2>1. u = t /\ i - n \in 1..Len(q) /\ Len(calls'[u]) = n + Len(q) /\ n \in Nat /\ Len(q) \in Nat
      BY <1>1 DEF FdInv, FdTypes
    <2>2. j \in (n + 1)..(n + Len(q))
      BY <2>1
    <2>3. <<u, j>> \in N
      BY <2>1, <2>2 DEF Added
    <2> QED BY <2>3, <1>3
  <1>5. \A u \in AllTasks : calls[u] # << >> => calls'[u] # << >> /\ calls'[u][1] = calls[u][1]
    <2> SUFFICES ASSUME NEW u \in AllTasks, calls[u] # << >> PROVE calls'[u] # << >> /\ calls'[u][1] = calls[u][1]
      OBVIOUS
    <2>1. calls[u] \in Seq(SysCall) /\ calls'[u] \in Seq(SysCall)
      BY <1>1 DEF FdInv, FdTypes
    <2>2. 1 \in 1..Len(calls[u])
      BY <2>1
    <2>3. 1 \in 1..Len(calls'[u]) /\ calls'[u][1] = calls[u][1]
      BY <2>2, <1>1
    <2> QED BY <2>1, <2>3
  <1>6. \A u \in Tasks \ broken : \A j \in 1..Len(calls[u]) : calls[u][j].op = "clone" => \E i \in 1..Len(calls'[u]) : calls'[u][i] = calls[u][j]
    BY <1>1, TableFacts
  <1>7. \A u \in AllTasks : \A i \in 1..Len(calls'[u]) : <<u, i>> \in N => calls'[u][i].op # "clone"
    BY <1>3
  <1> HIDE DEF N
  <1>8. PhaseInv'
    BY <1>5, PhaseSteady DEF FdInv
  <1>9. CallsInv'
    BY <1>1, <1>2, <1>3, <1>4, CallsSteady DEF FdInv
  <1>10. UNCHANGED phase => CloneInv'
    BY <1>1, <1>6, <1>7, TableFacts, CloneKept DEF FdInv, ChildInv
  <1> QED BY <1>8, <1>9, <1>10

\* They are no use of a borrowed fd.
LEMMA CollectUse ==
    ASSUME TableCfg, FdInv, NEW t \in AllTasks, NEW q \in Seq(SysCall), Follows(t, q), \A j \in 1..Len(q) : q[j].op = "close",
           \A g \in Handles : handle[g].state = "borrowed" => handle'[g] = handle[g]
    PROVE  UseInv'
  <1> DEFINE N == Added(t, Len(q))
  <1>1. /\ Still \in [AllTasks -> Nat] /\ Moved(Still, N)
        /\ \A u \in AllTasks : \A i \in 1..Len(calls'[u]) : <<u, i>> \in N => calls'[u][i].op # "use"
    BY ZenonT(60), FollowsCalls DEF FdInv
  <1> HIDE DEF N
  <1> QED BY <1>1, UseKept DEF FdInv

\* Numbers without a handle leave the table of t, and t closes them.
LEMMA CollectStep ==
    ASSUME TableCfg, FdInv, NEW t \in AllTasks, Ready(t), NEW q \in Seq(SysCall), Follows(t, q), Leaves(fd_table[t], q),
           Len(calls[t]) + Len(q) <= MaxCalls, UNCHANGED <<phase, manipulating, kfile, opened, leaked, inherited>>, Fades
    PROVE  FdInv'
  <1> DEFINE N == Added(t, Len(q))  k == fd_table[t]  n == Len(calls[t])
  <1>1. t \in alive /\ k \in {Home(t), t} /\ k \in Tables
    BY DEF Ready, FdInv, FdTypes, PhaseInv
  <1>2. \A j \in 1..Len(q) : q[j].op = "close" /\ q[j].ret = 0 /\ q[j].table = k /\ q[j].fd \in Fds /\ q[j].fd \in known[k]
    BY <1>1 DEF Leaves, FdInv, FdTypes
  <1>3. PhaseInv' /\ CallsInv' /\ CloneInv'
    <2> HIDE DEF k
    <2>1. Steady
      BY DEF Steady, phase
    <2> QED BY <1>1, <1>2, <2>1, CollectCalls DEF k
  <1>4. /\ TrackedInv' /\ \A l \in Tables : Served(l) => HandleStep(l) /\ SafeStep(l, {})
        /\ \A g \in Handles : handle'[g].state # "free" => handle'[g].task \in AllTasks /\ handle'[g].near \in Fds
        /\ \A g \in Handles : handle[g].state \in {"borrowed", "free"} => handle'[g] = handle[g]
        /\ \A g \in Handles : Live(g)' => Live(g) /\ handle'[g] = handle[g]
        /\ \A g \in Handles : handle'[g].task = handle[g].task /\ handle'[g].near = handle[g].near /\ handle'[g].file = handle[g].file
        /\ \A g \in inherited : handle'[g].state \in {"valid", "invalid"}
    BY FadeParts DEF phase, Waiting
  <1>5. /\ calls' \in [AllTasks -> Seq(SysCall)] /\ Still \in [AllTasks -> Nat] /\ Moved(Still, N)
        /\ \A u \in AllTasks : \A i \in 1..Len(calls'[u]) : <<u, i>> \in N =>
             u = t /\ i - n \in 1..Len(q) /\ calls'[u][i] = q[i - n]
        /\ \A u \in AllTasks \ {t} : calls'[u] = calls[u]
    BY FollowsCalls DEF FdInv
  <1>6. UseInv'
    BY <1>2, <1>4, CollectUse
  <1>7. FdTypes'
    BY <1>4, <1>5 DEF FdInv, FdTypes, phase, Fades
  <1>8. TablesInv'
    <2> SUFFICES ASSUME NEW l \in Tables, Served(l)' PROVE TableInv(l)'
      BY DEF TablesInv, TableInv
    <2>1. Served(l) /\ TableInv(l) /\ Fds \subseteq Nat
      BY TableFacts DEF Served, Ready, TablesInv, phase, FdInv
    <2>2. OldCalls(l, Still, {}, N) /\ NewCalls(l, N) /\ KnownStep(l, {}) /\ ClosedStep(l, {}, {})
      BY <1>1, <2>1, LeavesTables DEF FdInv, Fades, phase
    <2> QED BY <2>1, <2>2, <1>4, <1>5, <1>7, TableStep DEF FdInv
  <1>9. Child # 0 => Child \in AllTasks /\ Child \in Tables /\ Child \notin Tasks
    BY TableFacts
  <1>10. NewInv'
    <2> SUFFICES ASSUME NewChild PROVE NewInv'
      BY DEF NewInv, NewChild, phase
    <2>1. t # Child /\ Child \in AllTasks /\ Child \in Tables
      BY <1>1, <1>9 DEF NewChild
    <2>2. known'[Child] = {} /\ tracked'[Child] = {}
      BY <2>1 DEF FdInv, ChildInv, NewInv, Fades
    <2>3. calls'[Child] = << >>
      BY <2>1, <1>5 DEF FdInv, ChildInv, NewInv
    <2> QED BY <2>2, <2>3, <1>4 DEF FdInv, ChildInv, NewInv, phase
  <1>11. \A u \in AllTasks : \A i \in 1..Len(calls'[u]) : <<u, i>> \in N => u = t /\ calls'[u][i].op = "close" /\ calls'[u][i].ret = 0
            /\ calls'[u][i].table = k /\ calls'[u][i].fd \in known[k]
    BY SMTT(30), <1>2, <1>5
  <1> HIDE DEF N
  <1>12. CopyInv'
    <2>1. \A u \in Tasks : \A i, j \in 1..Len(calls'[u]) : IsGiven(calls'[u][i]) /\ HasClone(u, i, j)' => <<u, i>> \notin N /\ <<u, j>> \notin N
      BY <1>11, TableFacts DEF IsGiven, HasClone
    <2>2. \A g \in tracked'[0] : Live(g)' => g \in tracked[0] /\ handle'[g] = handle[g]
      BY <1>4, TableFacts DEF Fades, FdInv, FdTypes
    <2>3. kfile' = kfile /\ leaked' = leaked
      OBVIOUS
    <2> QED BY <2>1, <2>2, <2>3, <1>5, TableFacts, CopyKept DEF FdInv, ChildInv
  <1>13. InheritInv'
    <2>1. CASE Child = 0
      BY <2>1, <1>3, <1>7, NoChild
    <2>2. CASE Child # 0
      <3>1. \A g \in inherited : g \in Handles
        BY DEF FdInv, FdTypes
      <3>2. \A fd : \A i \in 1..Len(calls'[Child]) : <<Child, i>> \in N /\ Claims(Child, calls[Child][i], Child, fd)' => Taken(fd)
        BY <2>2, <1>9, <1>11 DEF Claims, IsClosing, IsGiven, Taken
      <3>3. \A fd \in known'[Child] : Taken(fd)
        BY <2>2, <1>9 DEF Fades, Taken
      <3>4. ASSUME NEW fd, Taken(fd)' PROVE Taken(fd)
        <4>1. fd_table' = fd_table
          BY DEF phase
        <4> QED BY <3>2, <3>3, <3>4, <4>1, <2>2, <1>5, TakenMoved
      <3>5. kfile' = kfile /\ inherited' = inherited /\ leaked' = leaked /\ (Ready(Child)' <=> Ready(Child))
        BY DEF phase, Ready
      <3> QED BY <3>1, <3>4, <3>5, <1>4, <2>2, InheritKept DEF FdInv
    <2> QED BY <2>1, <2>2
  <1> QED BY <1>3, <1>4, <1>6, <1>7, <1>8, <1>10, <1>12, <1>13 DEF FdInv, ChildInv

\* invalidate: the last handle of its table closes the fd.
LEMMA InvalidateStep ==
    ASSUME TableCfg, FdInv, NEW h \in Handles, Invalidate(h)
    PROVE  FdInv'
  <1> DEFINE t == handle[h].task  fd == handle[h].near  k == fd_table[t]
             c == Call("close", fd, handle[h].file, k, {})
  <1>1. /\ Valid(h) /\ Ready(t) /\ handle' = [handle EXCEPT ![h].state = "invalid"]
        /\ tracked' = [tracked EXCEPT ![k] = @ \ {h}]
        /\ UNCHANGED <<phase, manipulating, kfile, opened, leaked, inherited>>
    BY DEF Invalidate, phase, kernel
  <1>2. t \in AllTasks /\ fd \in Fds /\ handle[h] \in HandleRec /\ k \in Tables
    BY <1>1 DEF FdInv, FdTypes, Valid
  <1>3. h \in tracked[k] /\ fd \in known[k]
    <2>1. h \in tracked[k]
      BY <1>1, <1>2 DEF FdInv, TrackedInv, Live, Valid
    <2> QED BY <2>1, <1>2 DEF FdInv, TrackedInv
  <1>4. Served(k) => File(k, fd) = handle[h].file
    BY <1>1, <1>2 DEF FdInv, TablesInv, TableInv, Live, Valid
  <1>5. c \in SysCall /\ c.op = "close" /\ c.ret = 0 /\ c.table = k /\ c.fd = fd /\ c.file = handle[h].file
    <2>1. fd \in Nat /\ handle[h].file \in Nat
      BY <1>2, TableFacts DEF HandleRec
    <2> QED BY <2>1, <1>2 DEF Call, SysCall
  <1>6. \E q \in Seq(SysCall) : Follows(t, q) /\ Leaves(k, q) /\ Len(calls[t]) + Len(q) <= MaxCalls
          /\ known' \in [Tables -> SUBSET Fds] /\ (\A l \in Tables : known'[l] \subseteq known[l])
          /\ (\A g \in tracked[k] \ {h} : handle[g].near \in known'[k])
          /\ \A l \in Tables \ {k} : known'[l] = known[l]
    <2>0. /\ calls[t] \in Seq(SysCall) /\ Len(calls[t]) <= MaxCalls /\ known \in [Tables -> SUBSET Fds] /\ MaxCalls \in Nat
          /\ calls \in [AllTasks -> Seq(SysCall)]
      BY <1>2 DEF FdInv, FdTypes, CallsInv, TableCfg, FDTableAssumption
    <2>1. CASE HandlesOf(k, fd) = {h}
      <3>1. known' = [known EXCEPT ![k] = @ \ {fd}] /\ calls' = [calls EXCEPT ![t] = Append(@, c)] /\ Len(calls[t]) < MaxCalls
        BY <2>1 DEF Invalidate, Send
      <3> DEFINE q == <<c>>
      <3>2. q \in Seq(SysCall) /\ Len(q) = 1 /\ q[1] = c
        BY <1>5
      <3>3. Append(calls[t], c) = calls[t] \o q
        <4> HIDE DEF c
        <4> QED BY <2>0, <1>5, AppendIsConcat
      <3>4. Follows(t, q)
        BY <3>1, <3>3 DEF Follows
      <3>5. known' \in [Tables -> SUBSET Fds] /\ known'[k] = known[k] \ {fd} /\ \A l \in Tables \ {k} : known'[l] = known[l]
        BY <3>1, <2>0, <1>2
      <3> HIDE DEF q, c
      <3>6. \A i \in 1..Len(q) : q[i] = c /\ i = 1
        BY <3>2
      <3>7. Leaves(k, q)
        BY <3>5, <3>6, <1>3, <1>4, <1>5 DEF Leaves
      <3>8. Len(calls[t]) + Len(q) <= MaxCalls
        BY <3>1, <3>2, <2>0
      <3>9. \A g \in tracked[k] \ {h} : handle[g].near # fd
        BY <2>1 DEF HandlesOf
      <3>10. \A g \in tracked[k] : handle[g].near \in known[k]
        BY <1>2 DEF FdInv, TrackedInv
      <3> QED BY <3>2, <3>4, <3>5, <3>7, <3>8, <3>9, <3>10
    <2>2. CASE HandlesOf(k, fd) # {h}
      <3>1. known' = known /\ calls' = calls
        BY <2>2 DEF Invalidate
      <3> DEFINE q == << >>
      <3>2. q \in Seq(SysCall) /\ Len(q) = 0
        OBVIOUS
      <3>3. calls[t] \o q = calls[t]
        BY <2>0
      <3>4. Follows(t, q)
        BY <3>1, <3>3, <2>0 DEF Follows
      <3> HIDE DEF q
      <3>5. Leaves(k, q)
        BY <3>2 DEF Leaves
      <3>6. Len(calls[t]) + Len(q) <= MaxCalls
        BY <3>2, <2>0
      <3>7. \A g \in tracked[k] : handle[g].near \in known[k]
        BY <1>2 DEF FdInv, TrackedInv
      <3> QED BY <3>1, <3>2, <3>4, <3>5, <3>6, <3>7, <2>0
    <2> QED BY <2>1, <2>2
  <1>7. PICK q \in Seq(SysCall) : Follows(t, q) /\ Leaves(k, q) /\ Len(calls[t]) + Len(q) <= MaxCalls
          /\ known' \in [Tables -> SUBSET Fds] /\ (\A l \in Tables : known'[l] \subseteq known[l])
          /\ (\A g \in tracked[k] \ {h} : handle[g].near \in known'[k])
          /\ \A l \in Tables \ {k} : known'[l] = known[l]
    BY <1>6
  <1>8. handle' \in [Handles -> HandleRec] /\ handle'[h] = [handle[h] EXCEPT !.state = "invalid"] /\ \A g \in Handles : g # h => handle'[g] = handle[g]
    <2> DEFINE r == [handle[h] EXCEPT !.state = "invalid"]
    <2>1. r \in HandleRec
      BY <1>2 DEF HandleRec
    <2>2. handle \in [Handles -> HandleRec] /\ handle' = [handle EXCEPT ![h] = r]
      BY <1>1 DEF FdInv, FdTypes
    <2> HIDE DEF r
    <2>3. handle' \in [Handles -> HandleRec] /\ handle'[h] = r /\ \A g \in Handles : g # h => handle'[g] = handle[g]
      BY <2>1, <2>2
    <2> QED BY <2>3 DEF r
  <1>9. tracked' \in [Tables -> SUBSET Handles] /\ tracked'[k] = tracked[k] \ {h} /\ \A l \in Tables : l # k => tracked'[l] = tracked[l]
    BY <1>1, <1>2 DEF FdInv, FdTypes
  <1>10. ~Live(h)'
    BY <1>2, <1>8 DEF Live, HandleRec
  <1>11. \A l \in Tables : tracked'[l] \subseteq tracked[l]
    BY <1>9
  <1>12. \A g \in tracked[0] : Waiting(handle[g].task) => g \in tracked'[0]
    <2> SUFFICES ASSUME NEW g \in tracked[0], Waiting(handle[g].task), g \notin tracked'[0] PROVE FALSE
      OBVIOUS
    <2>1. k = 0 /\ g = h
      BY <1>9, TableFacts
    <2>2. fd_table[t] = t /\ t # 0
      BY <2>1, <1>2 DEF Waiting, FdInv, PhaseInv
    <2> QED BY <2>1, <2>2
  <1>13. \A l \in Tables : \A g \in tracked'[l] : handle[g].near \in known'[l]
    <2> SUFFICES ASSUME NEW l \in Tables, NEW g \in tracked'[l] PROVE handle[g].near \in known'[l]
      OBVIOUS
    <2>1. CASE l = k
      BY <2>1, <1>7, <1>9
    <2>2. CASE l # k
      BY <2>2, <1>7, <1>9 DEF FdInv, TrackedInv
    <2> QED BY <2>1, <2>2
  <1>14. \A g \in Handles : Live(g)' => g \in tracked'[fd_table[handle[g].task]]
    <2> SUFFICES ASSUME NEW g \in Handles, Live(g)' PROVE g \in tracked'[fd_table[handle[g].task]]
      OBVIOUS
    <2>1. g # h /\ handle'[g] = handle[g]
      BY <1>8, <1>10
    <2>2. Live(g)
      BY <2>1 DEF Live
    <2>3. g \in tracked[fd_table[handle[g].task]] /\ handle[g].task \in AllTasks
      BY <2>2 DEF FdInv, TrackedInv, FdTypes, Live
    <2>4. fd_table[handle[g].task] \in Tables
      BY <2>3 DEF FdInv, FdTypes
    <2> QED BY <2>1, <2>3, <2>4, <1>9
  <1>15. Fades
    BY <1>1, <1>7, <1>8, <1>9, <1>11, <1>12, <1>13, <1>14 DEF Fades, Valid
  <1> HIDE DEF c, k, fd, t
  <1> QED BY <1>1, <1>2, <1>7, <1>15, CollectStep DEF k

\* The closes q take the numbers fds out of table k.
Closing(k, fds, q) ==
    /\ q \in Seq(SysCall) /\ Len(q) = Cardinality(fds) /\ Leaves(k, q)
    /\ known' \in [Tables -> SUBSET Fds] /\ known'[k] = known[k] \ fds /\ \A l \in Tables : l # k => known'[l] = known[l]
    /\ \A j \in 1..Len(q) : q[j].op = "close" /\ q[j].ret = 0 /\ q[j].table = k /\ q[j].fd \in Fds

\* The closes of a collection take their numbers out of the table.
LEMMA ClosesLeave ==
    ASSUME TableCfg, FdInv, NEW k \in Tables, NEW fds \in SUBSET known[k], known' = [known EXCEPT ![k] = @ \ fds]
    PROVE  Closing(k, fds, Closes(k, fds))
  <1> DEFINE q == Closes(k, fds)
  <1>1. FdTypes /\ PhaseInv /\ fds \in SUBSET Fds /\ known \in [Tables -> SUBSET Fds]
    BY DEF FdInv, FdTypes
  <1>2. /\ q \in Seq(SysCall) /\ Len(q) = Cardinality(fds)
        /\ \A i \in 1..Cardinality(fds) : \E fd \in fds : q[i] = Call("close", fd, FileAt(k, fd), k, {})
        /\ \A i, j \in 1..Cardinality(fds) : q[i].fd = q[j].fd => i = j
    BY <1>1, ClosesCalls
  <1>3. known' \in [Tables -> SUBSET Fds] /\ known'[k] = known[k] \ fds /\ \A l \in Tables : l # k => known'[l] = known[l]
    BY <1>1
  <1> HIDE DEF q
  <1>4. ASSUME NEW j \in 1..Len(q)
        PROVE  /\ q[j].op = "close" /\ q[j].ret = 0 /\ q[j].table = k /\ q[j].fd \in fds
               /\ Served(k) => q[j].file = File(k, q[j].fd)
    <2>1. PICK fd \in fds : q[j] = Call("close", fd, FileAt(k, fd), k, {})
      BY <1>2
    <2>2. q[j].op = "close" /\ q[j].ret = 0 /\ q[j].table = k /\ q[j].fd = fd /\ q[j].file = FileAt(k, fd)
      BY <2>1 DEF Call
    <2> QED BY <2>2, <1>1, Files
  <1>5. \A j \in 1..Len(q) : q[j].fd \in known[k] /\ q[j].fd \notin known'[k] /\ q[j].fd \in Fds
    BY <1>1, <1>3, <1>4
  <1>6. Leaves(k, q)
    BY <1>2, <1>4, <1>5 DEF Leaves
  <1> QED BY <1>2, <1>3, <1>4, <1>5, <1>6 DEF q, Closing

\* gc_using_task is such a collection.
LEMMA Collected ==
    ASSUME TableCfg, FdInv, NEW t \in AllTasks, NEW k \in Tables, GcUsing(k, t), handle' = handle, tracked' = tracked
    PROVE  \E q \in Seq(SysCall) : /\ Follows(t, q) /\ Leaves(k, q) /\ Len(calls[t]) + Len(q) <= MaxCalls /\ Fades
                                   /\ \A j \in 1..Len(q) : q[j].op = "close" /\ q[j].ret = 0 /\ q[j].table = k /\ q[j].fd \in Fds
  <1> DEFINE fds == Garbage(k)  q == Closes(k, fds)
  <1>1. fds \in SUBSET known[k] /\ \A fd \in fds : HandlesOf(k, fd) = {}
    BY DEF Garbage
  <1>2. known' = [known EXCEPT ![k] = @ \ fds] /\ Follows(t, q) /\ Len(calls[t]) + Cardinality(fds) <= MaxCalls
    BY DEF GcUsing, Follows
  <1> HIDE DEF fds
  <1>3. /\ q \in Seq(SysCall) /\ Len(q) = Cardinality(fds) /\ Leaves(k, q)
        /\ known' \in [Tables -> SUBSET Fds] /\ known'[k] = known[k] \ fds /\ \A l \in Tables : l # k => known'[l] = known[l]
        /\ \A j \in 1..Len(q) : q[j].op = "close" /\ q[j].ret = 0 /\ q[j].table = k /\ q[j].fd \in Fds
    <2>1. fds \in SUBSET known[k] /\ known' = [known EXCEPT ![k] = known[k] \ fds]
      BY <1>1, <1>2
    <2>2. Closing(k, fds, Closes(k, fds))
      BY <2>1, ClosesLeave
    <2> QED BY <2>2 DEF Closing
  <1> HIDE DEF q
  <1>4. \A l \in Tables : \A g \in tracked[l] : handle[g].near \in known'[l]
    <2> SUFFICES ASSUME NEW l \in Tables, NEW g \in tracked[l] PROVE handle[g].near \in known'[l]
      OBVIOUS
    <2>1. handle[g].near \in known[l]
      BY DEF FdInv, TrackedInv
    <2>2. l = k => g \in HandlesOf(k, handle[g].near)
      BY DEF HandlesOf
    <2> QED BY <2>1, <2>2, <1>1, <1>3
  <1>5. \A g \in Handles : Live(g)' => g \in tracked'[fd_table[handle[g].task]]
    BY DEF FdInv, TrackedInv, Live
  <1>6. \A l \in Tables : tracked'[l] \subseteq tracked[l] /\ known'[l] \subseteq known[l]
    BY <1>3
  <1>7. handle' \in [Handles -> HandleRec] /\ tracked' \in [Tables -> SUBSET Handles]
    BY DEF FdInv, FdTypes
  <1>8. Fades
    BY <1>3, <1>4, <1>5, <1>6, <1>7 DEF Fades
  <1> QED BY <1>2, <1>3, <1>8

\* run_fd_table_gc.
LEMMA GcStep ==
    ASSUME TableCfg, FdInv, NEW t \in AllTasks, Gc(t)
    PROVE  FdInv'
  <1>1. fd_table[t] \in Tables
    BY DEF FdInv, FdTypes
  <1>2. /\ UNCHANGED <<phase, manipulating, kfile, opened, leaked, inherited, handle, tracked>> /\ Ready(t) /\ GcUsing(fd_table[t], t)
    BY DEF Gc, phase, kernel
  <1>3. PICK q \in Seq(SysCall) : Follows(t, q) /\ Leaves(fd_table[t], q) /\ Len(calls[t]) + Len(q) <= MaxCalls /\ Fades
    BY <1>1, <1>2, Collected
  <1> QED BY <1>2, <1>3, CollectStep

\* unshare_files ends with a collection of the new table.
LEMMA GcNewStep ==
    ASSUME TableCfg, FdInv, NEW t \in AllTasks, GcNew(t)
    PROVE  FdInv'
  <1> DEFINE k == fd_table[t]
  <1>0. k \in Tables /\ k \in {Home(t), t} /\ Child = 0 /\ stage[t] = "unshared" /\ t \in alive
    BY DEF FdInv, FdTypes, GcNew, PhaseInv
  <1>1. /\ UNCHANGED <<ktable, fd_table, alive, broken, manipulating, kfile, opened, leaked, inherited, handle, tracked>>
        /\ Ready(t) /\ GcUsing(k, t) /\ stage' = [stage EXCEPT ![t] = "done"]
    BY DEF GcNew, kernel
  <1>2. PICK q \in Seq(SysCall) : /\ Follows(t, q) /\ Leaves(k, q) /\ Len(calls[t]) + Len(q) <= MaxCalls /\ Fades
                                  /\ \A j \in 1..Len(q) : q[j].op = "close" /\ q[j].ret = 0 /\ q[j].table = k /\ q[j].fd \in Fds
    <2>1. k \in Tables /\ GcUsing(k, t) /\ handle' = handle /\ tracked' = tracked
      BY <1>0, <1>1
    <2> HIDE DEF k
    <2> QED BY ZenonT(60), <2>1, Collected
  <1>3. Steady /\ stage' \in [AllTasks -> {"none", "unsharing", "unshared", "exec", "clone", "cloned", "done"}]
    BY <1>0, <1>1 DEF Steady, FdInv, FdTypes
  <1> DEFINE N == Added(t, Len(q))
  <1>4. PhaseInv' /\ CallsInv'
    <2> HIDE DEF k
    <2> QED BY <1>0, <1>1, <1>2, <1>3, CollectCalls DEF k
  <1>5. \A u \in AllTasks : Waiting(u)' <=> Waiting(u)
    BY <1>3 DEF Waiting, Steady
  <1>6. /\ TrackedInv' /\ \A l \in Tables : Served(l) => HandleStep(l) /\ SafeStep(l, {})
        /\ \A g \in Handles : handle'[g].state # "free" => handle'[g].task \in AllTasks /\ handle'[g].near \in Fds
        /\ \A g \in Handles : handle[g].state \in {"borrowed", "free"} => handle'[g] = handle[g]
    BY <1>1, <1>2, <1>5, FadeParts
  <1>7. calls' \in [AllTasks -> Seq(SysCall)] /\ Still \in [AllTasks -> Nat]
    BY <1>2, FollowsCalls DEF FdInv
  <1>8. UseInv'
    BY <1>2, <1>6, CollectUse
  <1>9. FdTypes'
    BY <1>0, <1>1, <1>2, <1>3, <1>6, <1>7 DEF FdInv, FdTypes, Fades
  <1>10. TablesInv'
    <2> SUFFICES ASSUME NEW l \in Tables, Served(l)' PROVE TableInv(l)'
      BY DEF TablesInv, TableInv
    <2>1. Served(l) /\ TableInv(l) /\ Fds \subseteq Nat
      BY <1>1, TableFacts DEF Served, Ready, TablesInv, FdInv
    <2>2. OldCalls(l, Still, {}, N) /\ NewCalls(l, N) /\ KnownStep(l, {}) /\ ClosedStep(l, {}, {})
      BY <1>0, <1>1, <1>2, <2>1, LeavesTables DEF FdInv, Fades
    <2> HIDE DEF N
    <2> QED BY <2>1, <2>2, <1>6, <1>7, <1>9, TableStep DEF FdInv
  <1>11. ChildInv' /\ InheritInv'
    BY <1>0, <1>4, <1>9, NoChild
  <1> QED BY <1>4, <1>6, <1>8, <1>9, <1>10, <1>11 DEF FdInv

-----------------------------------------------------------------------------
(* Borrowed handles, lost connections                                      *)

\* borrow: another task's call pins the fd with a handle of its own.
LEMMA BorrowStep ==
    ASSUME TableCfg, FdInv, NEW h \in Handles, NEW t \in AllTasks, Borrow(h, t)
    PROVE  FdInv'
  <1> DEFINE k == fd_table[t]  fd == handle[h].near  file == handle[h].file  n == Len(calls[t])  N == {<<t, n + 1>>}
  <1>1. /\ Valid(h) /\ Ready(t) /\ t \notin manipulating /\ t # handle[h].task /\ fd_table[handle[h].task] = k
        /\ UNCHANGED <<phase, manipulating, kfile, opened, known, leaked, inherited>>
    BY DEF Borrow, phase, kernel
  <1>2. PICK b \in Handles :
          /\ handle[b].state = "free"
          /\ handle' = [handle EXCEPT ![b] = [handle[h] EXCEPT !.task = t, !.state = "borrowed"]]
          /\ tracked' = [tracked EXCEPT ![k] = @ \cup {b}]
          /\ Send(t, Call("use", fd, file, k, {b}))
    BY DEF Borrow
  <1>3. /\ Live(h) /\ fd \in Fds /\ file \in Nat /\ handle[h].task \in AllTasks
    <2>1. handle[h] \in HandleRec /\ handle[h].state = "valid"
      BY <1>1 DEF FdInv, FdTypes, Valid
    <2>2. fd \in Fds /\ handle[h].task \in AllTasks
      BY <2>1 DEF FdInv, FdTypes
    <2> QED BY <2>1, <2>2 DEF HandleRec, Live
  <1>4. k \in Tables /\ Served(k) /\ k \in {Home(t), t} /\ Child = 0
    <2>1. k \in Tables /\ Served(k) /\ k \in {Home(t), t} /\ fd_table[handle[h].task] \in {Home(handle[h].task), handle[h].task}
      BY <1>1, <1>3, TaskServed DEF FdInv, FdTypes, PhaseInv
    <2>2. CASE Child # 0
      <3>1. \A u \in Tasks : u = t \/ u = handle[h].task \/ TRUE
        OBVIOUS
      <3>2. t \in Tasks \/ t = Child
        BY TableFacts
      <3>3. handle[h].task \in Tasks \/ handle[h].task = Child
        BY <1>3, TableFacts
      <3>4. \A u \in Tasks : u # Child /\ Home(u) = 0
        BY TableFacts DEF Home
      <3> QED BY <1>1, <2>1, <2>2, <3>2, <3>3, <3>4 DEF Home, TableCfg
    <2> QED BY <2>1, <2>2
  <1>5. Safe(k, fd) /\ File(k, fd) = file
    BY <1>1, <1>3, <1>4 DEF FdInv, TablesInv, TableInv
  <1>6. ~Waiting(t)
    BY <1>1 DEF Waiting, FdInv, PhaseInv
  <1>7. h \in tracked[k] /\ fd \in known[k]
    <2>1. h \in tracked[k]
      BY <1>1, <1>3 DEF FdInv, TrackedInv
    <2> QED BY <2>1, <1>4 DEF FdInv, TrackedInv
  <1> DEFINE c == Call("use", fd, file, k, {b})
  <1>8. c \in SysCall /\ c.op = "use" /\ c.ret = 0 /\ c.handles = {b} /\ c.fd = fd /\ c.file = file
    <2>1. fd \in Nat /\ {b} \in SUBSET Handles
      BY <1>3, TableFacts
    <2> QED BY <1>3, <1>4, <2>1 DEF Call, SysCall
  <1>9. calls' = [calls EXCEPT ![t] = Append(@, c)] /\ n < MaxCalls
    BY <1>2 DEF Send
  <1>10. /\ handle' \in [Handles -> HandleRec] /\ tracked' \in [Tables -> SUBSET Handles]
         /\ handle'[b].task = t /\ handle'[b].near = fd /\ handle'[b].file = file /\ handle'[b].state = "borrowed"
         /\ \A g \in Handles \ {b} : handle'[g] = handle[g]
         /\ \A l \in Tables : tracked'[l] = IF l = k THEN tracked[l] \cup {b} ELSE tracked[l]
    <2> DEFINE r == [handle[h] EXCEPT !.task = t, !.state = "borrowed"]
    <2>0. handle[h] \in HandleRec
      BY DEF FdInv, FdTypes
    <2>1. r \in HandleRec /\ r.task = t /\ r.near = fd /\ r.file = file /\ r.state = "borrowed"
      BY <2>0 DEF HandleRec
    <2>2. handle' = [handle EXCEPT ![b] = r] /\ tracked' = [tracked EXCEPT ![k] = @ \cup {b}]
      BY <1>2, <1>3
    <2>3. handle \in [Handles -> HandleRec] /\ tracked \in [Tables -> SUBSET Handles]
      BY DEF FdInv, FdTypes
    <2> HIDE DEF r, k
    <2>4. handle' \in [Handles -> HandleRec] /\ handle'[b] = r /\ \A g \in Handles \ {b} : handle'[g] = handle[g]
      BY <2>1, <2>2, <2>3
    <2>5. /\ tracked' \in [Tables -> SUBSET Handles]
          /\ \A l \in Tables : tracked'[l] = IF l = k THEN tracked[l] \cup {b} ELSE tracked[l]
      BY <1>4, <2>2, <2>3
    <2> QED BY <2>1, <2>4, <2>5
  <1> HIDE DEF c
  <1>11. /\ calls' \in [AllTasks -> Seq(SysCall)] /\ calls'[t][n + 1] = c
         /\ \A u \in AllTasks : Len(calls'[u]) = IF u = t THEN Len(calls[u]) + 1 ELSE Len(calls[u])
         /\ \A u \in AllTasks : \A i \in 1..Len(calls[u]) : calls'[u][i] = calls[u][i]
    BY <1>8, <1>9, Sent DEF FdInv
  <1>12. /\ Moved(Still, N) /\ Still \in [AllTasks -> Nat] /\ \A u \in AllTasks : Len(calls'[u]) <= MaxCalls
         /\ \A u \in AllTasks : \A i, j \in 1..Len(calls'[u]) :
              i < j /\ calls'[u][j].ret # 0 /\ (<<u, i>> \in N \/ <<u, j>> \in N) => calls'[u][i].ret # 0
    BY <1>8, <1>9, SentMoved DEF FdInv, TableCfg, FDTableAssumption
  <1>13. \A u \in AllTasks : \A i \in 1..Len(calls'[u]) : <<u, i>> \in N => u = t /\ i = n + 1 /\ calls'[u][i] = c
    BY <1>11
  <1>14. TrackedInv' /\ \A l \in Tables : Served(l) => HandleStep(l) /\ SafeStep(l, {})
    <2>1. known[k] \cup {fd} = known[k]
      BY <1>7
    <2>2. \A l \in Tables : known'[l] = IF l = k THEN known[l] \cup {fd} ELSE known[l]
      BY <1>1, <2>1
    <2>3. Gains(b, t, fd, file)
      BY <1>2, <1>10, <2>2 DEF Gains
    <2> HIDE DEF fd, file
    <2> QED BY <1>1, <1>3, <1>5, <1>6, <2>3, MadeParts
  <1>15. PhaseInv'
    <2>1. \A u \in AllTasks : calls[u] # << >> => calls'[u] # << >> /\ calls'[u][1] = calls[u][1]
      <3> SUFFICES ASSUME NEW u \in AllTasks, calls[u] # << >> PROVE calls'[u] # << >> /\ calls'[u][1] = calls[u][1]
        OBVIOUS
      <3>1. calls[u] \in Seq(SysCall) /\ calls'[u] \in Seq(SysCall)
        BY <1>11 DEF FdInv, FdTypes
      <3>2. 1 \in 1..Len(calls[u])
        BY <3>1
      <3> QED BY <3>1, <3>2, <1>11
    <2> QED BY <2>1, <1>1, PhaseKept DEF FdInv
  <1>16. CallsInv'
    <2>1. CallOK(t, n + 1, c)
      BY <1>1, <1>4, <1>8 DEF CallOK, Ready
    <2>2. \A u \in AllTasks : \A i \in 1..Len(calls'[u]) : <<u, i>> \in N => CallOK(u, i, calls'[u][i])
      BY <1>13, <2>1
    <2> HIDE DEF N
    <2> QED BY <2>2, <1>12, <1>1, CallsKept DEF FdInv
  <1>17. FdTypes'
    <2>1. \A g \in Handles : handle[g].state # "free" => handle[g].task \in AllTasks /\ handle[g].near \in Fds
      BY DEF FdInv, FdTypes
    <2>2. handle'[b].task = t /\ handle'[b].near = fd
      BY <1>10
    <2>3. \A g \in Handles : handle'[g].state # "free" => handle'[g].task \in AllTasks /\ handle'[g].near \in Fds
      BY <1>3, <1>10, <2>1, <2>2
    <2> HIDE DEF fd, file
    <2> QED BY <2>3, <1>1, <1>10, <1>11 DEF FdInv, FdTypes, phase
  <1>18. TablesInv'
    <2> SUFFICES ASSUME NEW l \in Tables, Served(l)' PROVE TableInv(l)'
      BY DEF TablesInv, TableInv
    <2>1. Served(l) /\ TableInv(l) /\ Fds \subseteq Nat
      BY <1>1, TableFacts DEF Served, Ready, TablesInv, phase, FdInv
    <2>2. OldCalls(l, Still, {}, N)
      BY <1>1, <1>12, OldKept DEF phase
    <2>3. NewCalls(l, N)
      <3>1. \A u \in AllTasks : \A i \in 1..Len(calls'[u]) : \A e : <<u, i>> \in N => ~Claims(u, calls[u][i], l, e)'
        BY <1>8, <1>13 DEF Claims, IsClosing, IsGiven
      <3> HIDE DEF N
      <3> QED BY <3>1 DEF NewCalls
    <2>4. KnownStep(l, {}) /\ ClosedStep(l, {}, {})
      BY <1>1 DEF KnownStep, ClosedStep
    <2> HIDE DEF N
    <2> QED BY <2>1, <2>2, <2>3, <2>4, <1>12, <1>14, <1>17, TableStep DEF FdInv
  <1>19. ChildInv' /\ InheritInv'
    BY <1>4, <1>15, <1>16, <1>17, NoChild
  <1>20. ASSUME NEW u \in AllTasks, NEW i \in 1..Len(calls'[u]), <<u, i>> \notin N
         PROVE  i \in 1..Len(calls[u]) /\ calls'[u][i] = calls[u][i]
    <2>1. i + 0 = i
      OBVIOUS
    <2> QED BY <1>20, <2>1, <1>12 DEF Moved, Still
  <1>21. ASSUME NEW u \in AllTasks, NEW i \in 1..Len(calls'[u]), calls'[u][i].op = "use"
         PROVE  \E g \in Handles : /\ calls'[u][i].handles = {g} /\ handle'[g].state = "borrowed" /\ handle'[g].task = u
                                   /\ handle'[g].near = calls'[u][i].fd /\ handle'[g].file = calls'[u][i].file
                                   /\ (<<u, i>> \notin N => g # b) /\ (<<u, i>> \in N => g = b)
    <2>1. CASE <<u, i>> \in N
      BY <2>1, <1>8, <1>10, <1>13
    <2>2. CASE <<u, i>> \notin N
      <3>1. i \in 1..Len(calls[u]) /\ calls'[u][i] = calls[u][i]
        BY <2>2, <1>20
      <3>2. PICK g \in Handles : /\ calls[u][i].handles = {g} /\ handle[g].state = "borrowed" /\ handle[g].task = u
                                 /\ handle[g].near = calls[u][i].fd /\ handle[g].file = calls[u][i].file
        BY <3>1, <1>21 DEF FdInv, UseInv
      <3>3. g # b
        BY <3>2, <1>2
      <3> QED BY <3>1, <3>2, <3>3, <1>10, <2>2
    <2> QED BY <2>1, <2>2
  <1>22. ASSUME NEW u \in AllTasks, NEW v \in AllTasks, NEW i \in 1..Len(calls'[u]), NEW j \in 1..Len(calls'[v]),
                calls'[u][i].op = "use", calls'[v][j].op = "use", calls'[u][i].handles = calls'[v][j].handles
         PROVE  u = v /\ i = j
    <2>1. PICK g \in Handles : calls'[u][i].handles = {g} /\ (<<u, i>> \notin N => g # b) /\ (<<u, i>> \in N => g = b)
      BY <1>21, <1>22
    <2>2. PICK e \in Handles : calls'[v][j].handles = {e} /\ (<<v, j>> \notin N => e # b) /\ (<<v, j>> \in N => e = b)
      BY <1>21, <1>22
    <2>3. g = e
      BY <2>1, <2>2, <1>22
    <2>4. CASE g = b
      BY <2>1, <2>2, <2>3, <2>4, <1>13
    <2>5. CASE g # b
      <3>1. i \in 1..Len(calls[u]) /\ calls'[u][i] = calls[u][i] /\ j \in 1..Len(calls[v]) /\ calls'[v][j] = calls[v][j]
        BY <2>1, <2>2, <2>3, <2>5, <1>20
      <3> QED BY <3>1, <1>22 DEF FdInv, UseInv
    <2> QED BY <2>4, <2>5
  <1>23. UseInv'
    BY <1>21, <1>22 DEF UseInv
  <1> QED BY <1>14, <1>15, <1>16, <1>17, <1>18, <1>19, <1>23 DEF FdInv

\* The connection to a task's server is lost.
LEMMA HangupStep ==
    ASSUME TableCfg, FdInv, NEW t \in AllTasks, Hangup(t)
    PROVE  FdInv'
  <1>1. /\ "hangup" \in Faults /\ Ready(t) /\ broken' = broken \cup {t}
        /\ UNCHANGED <<ktable, kfile, opened, alive, calls, fd_table, known, tracked, inherited, handle, manipulating, stage, leaked>>
    BY DEF Hangup, kernel, client
  <1>2. \A u \in AllTasks : Waiting(u)' => Waiting(u)
    BY <1>1 DEF Waiting
  <1>3. \A u \in AllTasks : u # t => (u \in broken' <=> u \in broken) /\ (Waiting(u)' <=> Waiting(u)) /\ (Ready(u)' <=> Ready(u))
    BY <1>1 DEF Waiting, Ready
  <1>4. t \in broken' /\ t \in alive /\ t \notin broken /\ ~Ready(t)' /\ ~Waiting(t)'
    BY <1>1 DEF Ready, Waiting
  <1>5. FdTypes'
    BY <1>1 DEF FdInv, FdTypes
  <1>6. PhaseInv'
    <2> SUFFICES ASSUME NEW u \in AllTasks
        PROVE  /\ fd_table[u] \in {Home(u), u} /\ ktable[u] \in {0, u}
               /\ Ready(u)' => ktable[u] = IF Waiting(u)' THEN 0 ELSE fd_table[u]
               /\ stage[u] \in {"none", "clone", "cloned", "exec"} => fd_table[u] = Home(u)
               /\ stage[u] \in {"unsharing", "unshared"} => u \in alive /\ fd_table[u] = u /\ u \in Tasks /\ Child = 0
               /\ stage[u] \in {"clone", "cloned"} => u \in alive /\ u \in Tasks /\ Child # 0
               /\ stage[u] = "unsharing" /\ u \notin broken' => calls[u] # << >> /\ calls[u][1].op = "unshare"
               /\ stage[u] = "exec" => u \in alive \/ (calls[u] # << >> /\ calls[u][1].op = "exec" /\ calls[u][1].ret # 0)
               /\ stage[u] = "exec" /\ u \notin broken' => calls[u] # << >> /\ calls[u][1].op = "exec"
               /\ stage[u] \in {"unsharing", "exec"} => u \in manipulating
               /\ stage[u] = "none" => u \notin manipulating /\ (u \in Tasks => u \in alive)
               /\ u \in broken' => u \in alive
               /\ u \in manipulating => stage[u] \in {"unsharing", "exec"} \/ Faults # {}
      BY <1>1 DEF PhaseInv
    <2>1. u \notin broken' => u \notin broken
      BY <1>1
    <2>2. u \in broken' => u \in alive
      BY <1>1, <1>4 DEF FdInv, PhaseInv
    <2>3. Ready(u)' => ktable[u] = IF Waiting(u)' THEN 0 ELSE fd_table[u]
      BY <1>3, <1>4 DEF FdInv, PhaseInv
    <2> QED BY <2>1, <2>2, <2>3 DEF FdInv, PhaseInv
  <1>7. CallsInv'
    <2>1. ASSUME NEW u \in AllTasks, NEW i \in 1..Len(calls[u]) PROVE CallOK(u, i, calls[u][i])'
      <3>1. CallOK(u, i, calls[u][i])
        BY DEF FdInv, CallsInv
      <3> HIDE DEF FdInv
      <3> QED BY <3>1, <1>1, <1>3, <1>4 DEF CallOK
    <2> QED BY <2>1, <1>1 DEF FdInv, CallsInv
  <1>8. TrackedInv'
    <2>1. \A g \in Handles : Live(g) => handle[g].task \in AllTasks
      BY DEF FdInv, FdTypes, Live
    <2>2. ASSUME NEW k \in Tables, NEW g \in tracked[k]
          PROVE  /\ handle[g].state # "free" /\ handle[g].near \in known[k]
                 /\ IF k = 0 THEN handle[g].task \in Tasks ELSE handle[g].task = k
      BY DEF FdInv, TrackedInv
    <2>3. ASSUME NEW g \in Handles, Live(g)
          PROVE  g \in tracked[fd_table[handle[g].task]] /\ (Waiting(handle[g].task)' => g \in tracked[0])
      <3>1. g \in tracked[fd_table[handle[g].task]] /\ (Waiting(handle[g].task) => g \in tracked[0])
        BY <2>3 DEF FdInv, TrackedInv
      <3> QED BY <3>1, <2>1, <2>3, <1>1 DEF Waiting
    <2> QED BY <2>2, <2>3, <1>1 DEF TrackedInv, Live, Waiting
  <1>9. TablesInv'
    <2> SUFFICES ASSUME NEW k \in Tables, Served(k)' PROVE TableInv(k)'
      BY DEF TablesInv, TableInv
    <2>1. Served(k) /\ k # t
      BY <1>1, <1>4, TableFacts DEF Served, Ready
    <2>2. Waiting(k)' <=> Waiting(k)
      BY <1>1, <2>1 DEF Waiting
    <2>3. TableInv(k)
      BY DEF FdInv, TablesInv
    <2>4. \A fd : (Safe(k, fd)' <=> Safe(k, fd)) /\ File(k, fd)' = File(k, fd)
      BY <1>1, <2>2 DEF Safe, File, Kept, Kernel
    <2> DEFINE N == {}
    <2>5. Moved(Still, N) /\ Still \in [AllTasks -> Nat] /\ \A e : e \notin N
      <3>1. \A u \in AllTasks : \A i \in 1..Len(calls[u]) : i + 0 = i
        OBVIOUS
      <3> QED BY <3>1, <1>1 DEF Moved, Still
    <2> HIDE DEF N
    <2>6. OldCalls(k, Still, N, N)
      BY <1>1, <2>5, OldKept
    <2>7. NewCalls(k, N)
      BY <2>5 DEF NewCalls
    <2>8. KnownStep(k, N) /\ SafeStep(k, N) /\ ClosedStep(k, N, N)
      BY <1>1, <2>4, <2>5 DEF KnownStep, SafeStep, ClosedStep
    <2>9. HandleStep(k)
      <3> SUFFICES ASSUME NEW h \in Handles, Live(h), fd_table[handle[h].task] = k
          PROVE  handle[h].near \in known[k] /\ Safe(k, handle[h].near) /\ File(k, handle[h].near) = handle[h].file
        BY <1>1 DEF HandleStep, Live
      <3>1. h \in tracked[k]
        BY DEF FdInv, TrackedInv
      <3> QED BY <3>1, <2>1, <2>3 DEF FdInv, TrackedInv, TableInv
    <2> QED BY <2>1, <2>3, <2>5, <2>6, <2>7, <2>8, <2>9, <1>5, TableFacts, TableStep DEF FdInv
  <1>10. UseInv'
    BY <1>1 DEF FdInv, UseInv
  <1>11. t # Child \/ ~NewChild
    BY <1>4 DEF NewChild
  <1>12. NewInv' /\ CopyInv' /\ CloneInv'
    <2>1. (NewChild' <=> NewChild) /\ (Copied' <=> Copied)
      BY <1>1 DEF NewChild, Copied
    <2>2. \A u : u \notin broken' => u \notin broken
      BY <1>1
    <2>3. NewInv'
      BY <1>1, <1>11, <2>1 DEF FdInv, ChildInv, NewInv
    <2>4. CopyInv'
      BY <1>1, <2>1, <2>2 DEF FdInv, ChildInv, CopyInv, Live, IsGiven, HasClone
    <2>5. CloneInv'
      BY <1>1, <2>1, <2>2 DEF FdInv, ChildInv, CloneInv
    <2> QED BY <2>3, <2>4, <2>5
  <1>13. InheritInv'
    <2>1. Ready(Child)' => Ready(Child)
      BY <1>1 DEF Ready
    <2>2. \A i, fd : Claims(Child, calls[Child][i], Child, fd)' <=> Claims(Child, calls[Child][i], Child, fd)
      BY <1>1 DEF Claims, IsClosing, IsGiven
    <2> QED BY <1>1, <2>1, <2>2 DEF FdInv, InheritInv
  <1> QED BY <1>5, <1>6, <1>7, <1>8, <1>9, <1>10, <1>12, <1>13 DEF FdInv, ChildInv

-----------------------------------------------------------------------------
(* unshare_files, execve and clone                                         *)

\* unshare_files puts the task's handles into a fresh table, and makes the call.
LEMMA UnshareFilesStep ==
    ASSUME TableCfg, FdInv, NEW t \in AllTasks, UnshareFiles(t)
    PROVE  FdInv'
  <1> DEFINE mine == HandlesBy(t)  c == Call("unshare", 0, 0, 0, {})  N == {<<t, 1>>}
  <1>1. /\ Ready(t) /\ stage[t] = "none" /\ t \notin manipulating /\ calls[t] = << >> /\ Child = 0
        /\ tracked' = [tracked EXCEPT ![t] = mine] /\ known' = [known EXCEPT ![t] = {handle[h].near : h \in mine}]
        /\ fd_table' = [fd_table EXCEPT ![t] = t] /\ manipulating' = manipulating \cup {t}
        /\ stage' = [stage EXCEPT ![t] = "unsharing"]
        /\ UNCHANGED <<ktable, kfile, opened, alive, broken, inherited, handle, leaked>>
    BY DEF UnshareFiles, kernel, TableCfg
  <1>2. /\ t \in Tasks /\ t # 0 /\ t \in Tables /\ 0 \in Tables /\ AllTasks \subseteq Tables /\ 0 \notin AllTasks
        /\ \A u \in AllTasks : u \in Tasks /\ Home(u) = 0
    BY <1>1, TableFacts
  <1>3. fd_table[t] = 0 /\ ktable[t] = 0 /\ ~Waiting(t) /\ t \in alive /\ t \notin broken
    BY <1>1, <1>2 DEF FdInv, PhaseInv, Waiting, Ready
  <1>4. Served(0) /\ Served(0)'
    BY <1>1, <1>2, <1>3, TaskServed DEF Served, FdInv
  <1>5. c \in SysCall /\ c.op = "unshare" /\ c.ret = 0 /\ calls' = [calls EXCEPT ![t] = Append(@, c)] /\ Len(calls[t]) < MaxCalls
    BY <1>2, SendTypes, TableFacts DEF UnshareFiles, FdInv
  <1> HIDE DEF c
  <1>6. /\ calls' \in [AllTasks -> Seq(SysCall)] /\ calls'[t][1] = c /\ Len(calls'[t]) = 1
        /\ \A u \in AllTasks \ {t} : calls'[u] = calls[u]
        /\ Moved(Still, N) /\ Still \in [AllTasks -> Nat] /\ \A u \in AllTasks : Len(calls'[u]) <= MaxCalls
    <2>1. Len(calls[t]) = 0 /\ FdTypes /\ CallsInv /\ MaxCalls \in Nat
      BY <1>1 DEF FdInv, TableCfg, FDTableAssumption
    <2>2. /\ calls' \in [AllTasks -> Seq(SysCall)] /\ calls'[t][Len(calls[t]) + 1] = c
          /\ \A u \in AllTasks : Len(calls'[u]) = IF u = t THEN Len(calls[u]) + 1 ELSE Len(calls[u])
          /\ \A u \in AllTasks \ {t} : calls'[u] = calls[u]
      BY <1>5, <2>1, Sent
    <2>3. /\ Moved(Still, {<<t, Len(calls[t]) + 1>>}) /\ Still \in [AllTasks -> Nat] /\ \A u \in AllTasks : Len(calls'[u]) <= MaxCalls
      BY <1>5, <2>1, SentMoved
    <2>4. Len(calls[t]) + 1 = 1
      BY <2>1
    <2> QED BY <2>2, <2>3, <2>4
  <1>7. /\ \A u \in AllTasks : fd_table'[u] = IF u = t THEN t ELSE fd_table[u]
        /\ \A u \in AllTasks : stage'[u] = IF u = t THEN "unsharing" ELSE stage[u]
        /\ \A k \in Tables : tracked'[k] = IF k = t THEN mine ELSE tracked[k]
        /\ \A k \in Tables : known'[k] = IF k = t THEN {handle[h].near : h \in mine} ELSE known[k]
    BY <1>1, <1>2 DEF FdInv, FdTypes
  <1>8. Waiting(t)' /\ \A u \in AllTasks : u # t => (Waiting(u)' <=> Waiting(u))
    BY <1>1, <1>2, <1>3, <1>7 DEF Waiting
  <1>9. \A h \in mine : h \in Handles /\ Live(h) /\ handle[h].task = t /\ handle[h].near \in Fds /\ handle[h].state # "free"
          /\ h \in tracked[0] /\ Safe(0, handle[h].near) /\ File(0, handle[h].near) = handle[h].file
    <2> SUFFICES ASSUME NEW h \in mine
        PROVE  h \in Handles /\ Live(h) /\ handle[h].task = t /\ handle[h].near \in Fds /\ handle[h].state # "free"
               /\ h \in tracked[0] /\ Safe(0, handle[h].near) /\ File(0, handle[h].near) = handle[h].file
      OBVIOUS
    <2>1. h \in Handles /\ Live(h) /\ handle[h].task = t
      BY DEF HandlesBy
    <2>2. handle[h].near \in Fds /\ handle[h].state # "free"
      BY <2>1 DEF FdInv, FdTypes, Live
    <2>3. h \in tracked[0]
      BY <2>1, <1>3 DEF FdInv, TrackedInv
    <2>4. Safe(0, handle[h].near) /\ File(0, handle[h].near) = handle[h].file
      BY <2>1, <1>2, <1>3, <1>4 DEF FdInv, TablesInv, TableInv
    <2> QED BY <2>1, <2>2, <2>3, <2>4
  <1>10. \A h \in Handles : Live(h) /\ handle[h].task = t => h \in mine
    BY DEF HandlesBy
  <1> HIDE DEF mine
  <1>11. FdTypes'
    <2>1. {handle[h].near : h \in mine} \in SUBSET Fds /\ mine \in SUBSET Handles
      BY <1>9
    <2>2. known' \in [Tables -> SUBSET Fds] /\ tracked' \in [Tables -> SUBSET Handles]
      BY <2>1, <1>1 DEF FdInv, FdTypes
    <2> QED BY <2>2, <1>1, <1>2, <1>6 DEF FdInv, FdTypes
  <1>12. PhaseInv'
    <2> SUFFICES ASSUME NEW u \in AllTasks
        PROVE  /\ fd_table'[u] \in {Home(u), u} /\ ktable[u] \in {0, u}
               /\ Ready(u)' => ktable[u] = IF Waiting(u)' THEN 0 ELSE fd_table'[u]
               /\ stage'[u] \in {"none", "clone", "cloned", "exec"} => fd_table'[u] = Home(u)
               /\ stage'[u] \in {"unsharing", "unshared"} => u \in alive /\ fd_table'[u] = u /\ u \in Tasks /\ Child = 0
               /\ stage'[u] \in {"clone", "cloned"} => u \in alive /\ u \in Tasks /\ Child # 0
               /\ stage'[u] = "unsharing" /\ u \notin broken => calls'[u] # << >> /\ calls'[u][1].op = "unshare"
               /\ stage'[u] = "exec" => u \in alive \/ (calls'[u] # << >> /\ calls'[u][1].op = "exec" /\ calls'[u][1].ret # 0)
               /\ stage'[u] = "exec" /\ u \notin broken => calls'[u] # << >> /\ calls'[u][1].op = "exec"
               /\ stage'[u] \in {"unsharing", "exec"} => u \in manipulating'
               /\ stage'[u] = "none" => u \notin manipulating' /\ (u \in Tasks => u \in alive)
               /\ u \in broken => u \in alive
               /\ u \in manipulating' => stage'[u] \in {"unsharing", "exec"} \/ Faults # {}
      BY <1>1 DEF PhaseInv
    <2>1. CASE u = t
      <3>1. calls'[t] # << >> /\ calls'[t][1].op = "unshare"
        <4>1. calls'[t] \in Seq(SysCall)
          BY <1>6
        <4> QED BY <4>1, <1>5, <1>6
      <3> QED BY <3>1, <2>1, <1>1, <1>2, <1>3, <1>7, <1>8
    <2>2. CASE u # t
      <3>1. /\ fd_table'[u] = fd_table[u] /\ stage'[u] = stage[u] /\ calls'[u] = calls[u] /\ (Waiting(u)' <=> Waiting(u))
            /\ (u \in manipulating' <=> u \in manipulating) /\ (Ready(u)' <=> Ready(u))
        BY <2>2, <1>1, <1>6, <1>7, <1>8 DEF Ready
      <3> QED BY <3>1 DEF FdInv, PhaseInv
    <2> QED BY <2>1, <2>2
  <1>13. CallsInv'
    <2>1. ASSUME NEW u \in AllTasks, u # t, NEW i \in 1..Len(calls[u]) PROVE CallOK(u, i, calls[u][i])'
      <3>1. CallOK(u, i, calls[u][i])
        BY DEF FdInv, CallsInv
      <3>2. calls'[u] = calls[u] /\ fd_table'[u] = fd_table[u] /\ stage'[u] = stage[u] /\ (Waiting(u)' <=> Waiting(u)) /\ (Ready(u)' <=> Ready(u))
        BY <2>1, <1>1, <1>6, <1>7, <1>8 DEF Ready
      <3> QED BY <3>1, <3>2, <1>1 DEF CallOK
    <2>2. ASSUME NEW i \in 1..Len(calls'[t]) PROVE CallOK(t, i, calls[t][i])'
      <3>1. i = 1
        BY <1>6
      <3> QED BY <3>1, <1>1, <1>3, <1>5, <1>6, <1>7, <1>8 DEF CallOK
    <2>3. ASSUME NEW u \in AllTasks, NEW i \in 1..Len(calls'[u]), NEW j \in 1..Len(calls'[u]), i < j, calls'[u][j].ret # 0
          PROVE  calls'[u][i].ret # 0
      <3>1. u # t /\ calls'[u] = calls[u]
        BY <2>3, <1>6
      <3> QED BY <3>1, <2>3 DEF FdInv, CallsInv
    <2> QED BY <2>1, <2>2, <2>3, <1>6 DEF CallsInv
  <1>14. TrackedInv'
    <2>1. ASSUME NEW k \in Tables, NEW h \in tracked'[k]
          PROVE  /\ handle[h].state # "free" /\ handle[h].near \in known'[k]
                 /\ IF k = 0 THEN handle[h].task \in Tasks ELSE handle[h].task = k
      <3>1. CASE k = t
        BY <3>1, <1>2, <1>7, <1>9
      <3>2. CASE k # t
        BY <3>2, <1>7 DEF FdInv, TrackedInv
      <3> QED BY <3>1, <3>2
    <2>2. ASSUME NEW h \in Handles, Live(h)
          PROVE  h \in tracked'[fd_table'[handle[h].task]] /\ (Waiting(handle[h].task)' => h \in tracked'[0])
      <3>1. handle[h].task \in AllTasks
        BY <2>2 DEF FdInv, FdTypes, Live
      <3>2. CASE handle[h].task = t
        BY <3>2, <2>2, <1>2, <1>7, <1>9, <1>10
      <3>3. CASE handle[h].task # t
        <4>1. fd_table'[handle[h].task] = fd_table[handle[h].task] /\ fd_table[handle[h].task] \in Tables
          BY <3>1, <3>3, <1>7 DEF FdInv, FdTypes
        <4>2. fd_table[handle[h].task] # t
          BY <3>1, <3>3, <1>2 DEF FdInv, PhaseInv
        <4>3. h \in tracked[fd_table[handle[h].task]] /\ (Waiting(handle[h].task) => h \in tracked[0])
          BY <2>2 DEF FdInv, TrackedInv
        <4>4. Waiting(handle[h].task)' => Waiting(handle[h].task)
          BY <3>1, <3>3, <1>1, <1>7 DEF Waiting
        <4> QED BY <4>1, <4>2, <4>3, <4>4, <1>2, <1>7
      <3> QED BY <3>2, <3>3
    <2> QED BY <2>1, <2>2, <1>1 DEF TrackedInv, Live, Waiting
  <1>15. UseInv'
    <2>1. \A u \in AllTasks : \A i \in 1..Len(calls'[u]) : <<u, i>> \in N => calls'[u][i].op # "use"
      BY <1>5, <1>6
    <2> HIDE DEF N
    <2> QED BY <2>1, <1>1, <1>6, UseKept DEF FdInv
  <1>16. ChildInv' /\ InheritInv'
    BY <1>1, <1>11, <1>12, <1>13, NoChild
  <1>17. \A u \in AllTasks : \A i \in 1..Len(calls'[u]) : \A fd : ~Claims(u, calls[u][i], t, fd)'
    <2> SUFFICES ASSUME NEW u \in AllTasks, NEW i \in 1..Len(calls'[u]), NEW fd, Claims(u, calls[u][i], t, fd)' PROVE FALSE
      OBVIOUS
    <2>1. CASE u = t
      <3>1. i = 1
        BY <2>1, <1>6
      <3> QED BY <2>1, <3>1, <1>5, <1>6 DEF Claims, IsClosing, IsGiven
    <2>2. CASE u # t
      <3>1. calls'[u] = calls[u] /\ fd_table'[u] = fd_table[u] /\ fd_table[u] # t
        BY <2>2, <1>2, <1>6, <1>7 DEF FdInv, PhaseInv
      <3>2. calls[u][i].op = "close" => calls[u][i].table \in {0, u}
        BY <3>1, <1>2 DEF FdInv, CallsInv, CallOK
      <3> QED BY <3>1, <3>2, <2>2, <1>2 DEF Claims, IsClosing, IsGiven
    <2> QED BY <2>1, <2>2
  <1>18. TableInv(t)'
    <2>1. \A h \in mine : Safe(t, handle[h].near)' /\ File(t, handle[h].near)' = handle[h].file
      <3> SUFFICES ASSUME NEW h \in mine PROVE Safe(t, handle[h].near)' /\ File(t, handle[h].near)' = handle[h].file
        OBVIOUS
      <3>1. Kernel(t)' = 0 /\ Kernel(0) = 0
        BY <1>8 DEF Kernel, Waiting
      <3>2. handle[h].near \in Fds /\ kfile[0][handle[h].near] # 0 /\ kfile[0][handle[h].near] = handle[h].file
        BY <3>1, <1>9 DEF Safe, File
      <3>3. Kept(t, handle[h].near)'
        BY <1>1, <1>2, <1>7, <1>9 DEF Kept
      <3> QED BY <3>1, <3>2, <3>3, <1>1 DEF Safe, File
    <2>2. \A fd \in known'[t] : Safe(t, fd)'
      <3> SUFFICES ASSUME NEW fd \in known'[t] PROVE Safe(t, fd)'
        OBVIOUS
      <3>0. known'[t] = {handle[h].near : h \in mine}
        BY <1>2, <1>7
      <3>1. PICK h \in mine : fd = handle[h].near
        BY <3>0
      <3>2. Safe(t, handle[h].near)' /\ handle' = handle
        BY <2>1, <1>1
      <3> QED BY <3>1, <3>2 DEF Safe, File, Kept
    <2>3. \A h \in Handles : Live(h)' /\ fd_table'[handle'[h].task] = t => h \in mine
      <3> SUFFICES ASSUME NEW h \in Handles, Live(h), fd_table'[handle[h].task] = t PROVE h \in mine
        BY <1>1 DEF Live
      <3>1. handle[h].task \in AllTasks
        BY DEF FdInv, FdTypes, Live
      <3>2. handle[h].task = t
        BY <3>1, <1>2, <1>7 DEF FdInv, PhaseInv
      <3> QED BY <3>2, <1>10
    <2>4. \A u \in AllTasks : \A i \in 1..Len(calls'[u]) : ~(IsClosing(calls'[u][i]) /\ calls'[u][i].table = t)
      BY <1>17 DEF Claims, IsClosing
    <2> QED BY <2>1, <2>2, <2>3, <2>4, <1>1, <1>17 DEF TableInv
  <1>19. ASSUME NEW k \in Tables, k # t, Served(k)' PROVE TableInv(k)'
    <2>1. Served(k) /\ TableInv(k) /\ Fds \subseteq Nat
      BY <1>1, <1>19, <1>7, TableFacts DEF Served, Ready, FdInv, TablesInv
    <2>2. tracked'[k] = tracked[k] /\ known'[k] = known[k] /\ tracked'[0] = tracked[0] /\ (Waiting(k)' <=> Waiting(k))
      <3>1. k = 0 \/ k \in AllTasks
        BY TableFacts
      <3> QED BY <3>1, <1>2, <1>7, <1>8, <1>19 DEF Waiting
    <2>3. \A fd : (Safe(k, fd)' <=> Safe(k, fd)) /\ File(k, fd)' = File(k, fd)
      BY <1>1, <2>2 DEF Safe, File, Kept, Kernel
    <2>4. OldCalls(k, Still, {}, N)
      <3> SUFFICES ASSUME NEW u \in AllTasks, NEW i \in 1..Len(calls'[u]), NEW fd \in Nat, <<u, i>> \notin N, Claims(u, calls[u][i], k, fd)'
          PROVE  /\ i + Still[u] \in 1..Len(calls[u])
                 /\ Claims(u, calls[u][i + Still[u]], k, fd)
                 /\ IsClosing(calls'[u][i]) => IsClosing(calls[u][i + Still[u]]) /\ calls'[u][i].file = calls[u][i + Still[u]].file
        BY DEF OldCalls
      <3>1. i + Still[u] \in 1..Len(calls[u]) /\ calls'[u][i] = calls[u][i + Still[u]]
        BY <1>6 DEF Moved
      <3>2. u # t
        BY <3>1, <1>1
      <3> QED BY <3>1, <3>2, <1>7 DEF Claims, IsClosing, IsGiven
    <2>5. NewCalls(k, N)
      <3>1. \A u \in AllTasks : \A i \in 1..Len(calls'[u]) : \A e : <<u, i>> \in N => ~Claims(u, calls[u][i], k, e)'
        BY <1>5, <1>6 DEF Claims, IsClosing, IsGiven
      <3> HIDE DEF N
      <3> QED BY <3>1 DEF NewCalls
    <2>6. KnownStep(k, {}) /\ ClosedStep(k, {}, {}) /\ SafeStep(k, {})
      BY <2>2, <2>3 DEF KnownStep, ClosedStep, SafeStep
    <2>7. HandleStep(k)
      <3> SUFFICES ASSUME NEW h \in Handles, Live(h), fd_table'[handle[h].task] = k
          PROVE  handle[h].near \in known[k] /\ Safe(k, handle[h].near) /\ File(k, handle[h].near) = handle[h].file
        BY <1>1, <2>2 DEF HandleStep, Live
      <3>1. handle[h].task \in AllTasks
        BY DEF FdInv, FdTypes, Live
      <3>2. fd_table[handle[h].task] = k
        BY <3>1, <1>7, <1>19
      <3>3. h \in tracked[k]
        BY <3>2 DEF FdInv, TrackedInv
      <3> QED BY <2>1, <3>2, <3>3 DEF FdInv, TrackedInv, TableInv
    <2> HIDE DEF N
    <2> QED BY <2>1, <2>4, <2>5, <2>6, <2>7, <1>6, <1>11, TableStep DEF FdInv
  <1>20. TablesInv'
    BY <1>18, <1>19 DEF TablesInv, TableInv
  <1> QED BY <1>11, <1>12, <1>13, <1>14, <1>15, <1>16, <1>20 DEF FdInv

\* The clone that the stage of a task waits for has not made the child yet.
FreshInv == Child # 0 => \A t \in Tasks : stage[t] \in {"none", "clone", "cloned"} => NewChild

\* An execve or a clone starts.
LEMMA StartStep ==
    ASSUME TableCfg, FdInv, NEW t \in AllTasks, NEW op \in {"exec", "clone"}, Ready(t), stage[t] = "none", ~Copied,
           Send(t, Call(op, 0, 0, 0, {})), stage' = [stage EXCEPT ![t] = op],
           op = "exec" => calls[t] = << >> /\ manipulating' = manipulating \cup {t},
           op = "clone" => t \in Tasks /\ NewChild /\ manipulating' = manipulating,
           UNCHANGED <<ktable, kfile, opened, alive, broken, fd_table, known, tracked, inherited, handle, leaked>>
    PROVE  FdInv'
  <1> DEFINE c == Call(op, 0, 0, 0, {})  n == Len(calls[t])  N == {<<t, n + 1>>}
  <1>1. t \in alive /\ t \notin broken
    BY DEF Ready
  <1>2. c \in SysCall /\ c.op = op /\ c.ret = 0 /\ calls' = [calls EXCEPT ![t] = Append(@, c)] /\ n < MaxCalls
    <2>1. op \in {"open", "close", "use", "use_own", "unshare", "exec", "clone"}
      OBVIOUS
    <2> QED BY <2>1, SendTypes, TableFacts DEF FdInv
  <1> HIDE DEF c
  <1>3. /\ calls' \in [AllTasks -> Seq(SysCall)] /\ calls'[t][n + 1] = c
        /\ \A u \in AllTasks : Len(calls'[u]) = IF u = t THEN Len(calls[u]) + 1 ELSE Len(calls[u])
        /\ \A u \in AllTasks : \A i \in 1..Len(calls[u]) : calls'[u][i] = calls[u][i]
        /\ \A u \in AllTasks \ {t} : calls'[u] = calls[u]
    BY <1>2, Sent DEF FdInv
  <1>4. /\ Moved(Still, N) /\ Still \in [AllTasks -> Nat] /\ \A u \in AllTasks : Len(calls'[u]) <= MaxCalls
        /\ \A u \in AllTasks : \A i, j \in 1..Len(calls'[u]) :
             i < j /\ calls'[u][j].ret # 0 /\ (<<u, i>> \in N \/ <<u, j>> \in N) => calls'[u][i].ret # 0
    BY <1>2, SentMoved DEF FdInv, TableCfg, FDTableAssumption
  <1>5. /\ \A u \in AllTasks : stage'[u] = IF u = t THEN op ELSE stage[u]
        /\ stage' \in [AllTasks -> {"none", "unsharing", "unshared", "exec", "clone", "cloned", "done"}]
        /\ n \in Nat
    BY DEF FdInv, FdTypes
  <1>6. \A u \in AllTasks : Waiting(u)' <=> Waiting(u)
    BY <1>5 DEF Waiting
  <1>7. \A u : Ready(u)' <=> Ready(u)
    BY DEF Ready
  <1>8. FdTypes'
    BY <1>3, <1>5 DEF FdInv, FdTypes
  <1>9. ASSUME NEW u \in AllTasks, NEW i \in 1..Len(calls'[u]), <<u, i>> \notin N
        PROVE  i \in 1..Len(calls[u]) /\ calls'[u][i] = calls[u][i]
    <2>1. i + 0 = i
      OBVIOUS
    <2> QED BY <1>9, <2>1, <1>4 DEF Moved, Still
  <1>10. ASSUME NEW u \in AllTasks, NEW i \in 1..Len(calls'[u]), <<u, i>> \in N
         PROVE  u = t /\ i = n + 1 /\ calls'[u][i] = c
    BY <1>3, <1>10
  <1>11. PhaseInv'
    <2> SUFFICES ASSUME NEW u \in AllTasks
        PROVE  /\ fd_table[u] \in {Home(u), u} /\ ktable[u] \in {0, u}
               /\ Ready(u)' => ktable[u] = IF Waiting(u)' THEN 0 ELSE fd_table[u]
               /\ stage'[u] \in {"none", "clone", "cloned", "exec"} => fd_table[u] = Home(u)
               /\ stage'[u] \in {"unsharing", "unshared"} => u \in alive /\ fd_table[u] = u /\ u \in Tasks /\ Child = 0
               /\ stage'[u] \in {"clone", "cloned"} => u \in alive /\ u \in Tasks /\ Child # 0
               /\ stage'[u] = "unsharing" /\ u \notin broken => calls'[u] # << >> /\ calls'[u][1].op = "unshare"
               /\ stage'[u] = "exec" => u \in alive \/ (calls'[u] # << >> /\ calls'[u][1].op = "exec" /\ calls'[u][1].ret # 0)
               /\ stage'[u] = "exec" /\ u \notin broken => calls'[u] # << >> /\ calls'[u][1].op = "exec"
               /\ stage'[u] \in {"unsharing", "exec"} => u \in manipulating'
               /\ stage'[u] = "none" => u \notin manipulating' /\ (u \in Tasks => u \in alive)
               /\ u \in broken => u \in alive
               /\ u \in manipulating' => stage'[u] \in {"unsharing", "exec"} \/ Faults # {}
      BY DEF PhaseInv
    <2>0. /\ fd_table[u] \in {Home(u), u} /\ ktable[u] \in {0, u} /\ (stage[u] = "none" => fd_table[u] = Home(u) /\ u \notin manipulating)
          /\ (Ready(u)' => ktable[u] = IF Waiting(u)' THEN 0 ELSE fd_table[u])
      BY <1>6, <1>7 DEF FdInv, PhaseInv
    <2>1. CASE u = t /\ op = "exec"
      <3>1. calls'[t] # << >> /\ calls'[t][1].op = "exec"
        <4>0. n = 0
          BY <2>1
        <4>a. calls'[t] \in Seq(SysCall) /\ Len(calls'[t]) = n + 1 /\ calls'[t][n + 1] = c
          BY <1>3
        <4> HIDE DEF n
        <4>1. calls'[t] \in Seq(SysCall) /\ Len(calls'[t]) = 1 /\ n + 1 = 1
          BY <4>0, <4>a
        <4> QED BY <4>1, <4>a, <1>2, <2>1
      <3> QED BY <3>1, <2>0, <2>1, <1>1, <1>5
    <2>2. CASE u = t /\ op = "clone"
      BY <2>0, <2>2, <1>1, <1>5 DEF NewChild
    <2>3. CASE u # t
      <3>1. /\ stage'[u] = stage[u] /\ calls'[u] = calls[u] /\ (u \in manipulating' <=> u \in manipulating)
        BY <2>3, <1>3, <1>5
      <3> QED BY <3>1, <2>0 DEF FdInv, PhaseInv
    <2> QED BY <2>1, <2>2, <2>3
  <1>12. CallsInv'
    <2>1. ASSUME NEW u \in AllTasks, NEW i \in 1..Len(calls'[u]) PROVE CallOK(u, i, calls[u][i])'
      <3>1. CASE <<u, i>> \in N
        <4>1. u = t /\ i = n + 1 /\ calls'[u][i] = c
          BY <3>1, <1>10
        <4>2. op = "exec" => i = 1
          BY <4>1
        <4> QED BY <4>1, <4>2, <1>1, <1>2, <1>5 DEF CallOK, NewChild
      <3>2. CASE <<u, i>> \notin N
        <4>1. i \in 1..Len(calls[u]) /\ calls'[u][i] = calls[u][i]
          BY <3>2, <1>9
        <4>2. CallOK(u, i, calls[u][i])
          BY <4>1 DEF FdInv, CallsInv
        <4>3. u = t => op = "clone"
          BY <4>1
        <4>4. u = t => calls[u][i].op \notin {"unshare", "exec"}
          BY <4>2 DEF CallOK
        <4> HIDE DEF FdInv
        <4> QED BY <4>1, <4>2, <4>3, <4>4, <1>5, <1>6, <1>7 DEF CallOK
      <3> QED BY <3>1, <3>2
    <2>2. ASSUME NEW u \in AllTasks, NEW i \in 1..Len(calls'[u]), NEW j \in 1..Len(calls'[u]), i < j, calls'[u][j].ret # 0
          PROVE  calls'[u][i].ret # 0
      <3>1. CASE <<u, i>> \in N \/ <<u, j>> \in N
        BY <2>2, <3>1, <1>4
      <3>2. CASE <<u, i>> \notin N /\ <<u, j>> \notin N
        <4>1. i \in 1..Len(calls[u]) /\ calls'[u][i] = calls[u][i] /\ j \in 1..Len(calls[u]) /\ calls'[u][j] = calls[u][j]
          BY <3>2, <1>9
        <4> QED BY <4>1, <2>2 DEF FdInv, CallsInv
      <3> QED BY <3>1, <3>2
    <2> QED BY <2>1, <2>2, <1>4 DEF CallsInv
  <1>13. TrackedInv'
    <2>1. \A h \in Handles : Live(h) => handle[h].task \in AllTasks
      BY DEF FdInv, FdTypes, Live
    <2>2. ASSUME NEW h \in Handles, Live(h)
          PROVE  h \in tracked[fd_table[handle[h].task]] /\ (Waiting(handle[h].task)' => h \in tracked[0])
      <3>1. h \in tracked[fd_table[handle[h].task]] /\ (Waiting(handle[h].task) => h \in tracked[0])
        BY <2>2 DEF FdInv, TrackedInv
      <3>2. handle[h].task \in AllTasks
        BY <2>1, <2>2
      <3> QED BY <3>1, <3>2, <1>5 DEF Waiting
    <2> QED BY <2>2 DEF FdInv, TrackedInv, Live, Waiting
  <1>14. UseInv'
    <2>1. \A u \in AllTasks : \A i \in 1..Len(calls'[u]) : <<u, i>> \in N => calls'[u][i].op # "use"
      BY <1>10, <1>2
    <2> HIDE DEF N
    <2> QED BY <2>1, <1>4, UseKept DEF FdInv
  <1>15. TablesInv'
    <2> SUFFICES ASSUME NEW k \in Tables, Served(k)' PROVE TableInv(k)'
      BY DEF TablesInv, TableInv
    <2>1. Served(k) /\ TableInv(k) /\ Fds \subseteq Nat
      BY <1>7, TableFacts DEF Served, FdInv, TablesInv
    <2>2. OldCalls(k, Still, {}, N)
      BY <1>4, OldKept
    <2>3. NewCalls(k, N)
      <3>1. \A u \in AllTasks : \A i \in 1..Len(calls'[u]) : \A e : <<u, i>> \in N => ~Claims(u, calls[u][i], k, e)'
        BY <1>2, <1>10 DEF Claims, IsClosing, IsGiven
      <3> HIDE DEF N
      <3> QED BY <3>1 DEF NewCalls
    <2>4. Waiting(k)' <=> Waiting(k)
      <3>1. k = 0 \/ k \in AllTasks
        BY TableFacts
      <3> QED BY <3>1, <1>6 DEF Waiting
    <2>5. KnownStep(k, {}) /\ ClosedStep(k, {}, {}) /\ SafeStep(k, {})
      BY <2>4 DEF KnownStep, ClosedStep, SafeStep, Safe, File, Kept, Kernel
    <2>6. HandleStep(k)
      <3> SUFFICES ASSUME NEW h \in Handles, Live(h), fd_table[handle[h].task] = k
          PROVE  handle[h].near \in known[k] /\ Safe(k, handle[h].near) /\ File(k, handle[h].near) = handle[h].file
        BY DEF HandleStep, Live
      <3>1. h \in tracked[k]
        BY DEF FdInv, TrackedInv
      <3> QED BY <3>1, <2>1 DEF FdInv, TrackedInv, TableInv
    <2> HIDE DEF N
    <2> QED BY <2>1, <2>2, <2>3, <2>5, <2>6, <1>4, <1>8, TableStep DEF FdInv
  <1>16. Child # 0 => Child \in AllTasks
    BY TableFacts
  <1>17. (NewChild' <=> NewChild) /\ ~Copied'
    BY <1>1, <1>5, <1>16 DEF NewChild, Copied
  <1>18. NewInv'
    <2> SUFFICES ASSUME NewChild PROVE NewInv'
      BY <1>17 DEF NewInv
    <2>1. Child # t
      BY <1>1 DEF NewChild
    <2>2. calls'[Child] = calls[Child]
      BY <2>1, <1>3, <1>16 DEF NewChild
    <2> QED BY <2>2 DEF FdInv, ChildInv, NewInv
  <1>19. CopyInv'
    BY <1>17 DEF CopyInv
  <1>20. CloneInv'
    <2>1. \A u \in AllTasks : stage'[u] # "cloned"
      BY <1>5 DEF FdInv, ChildInv, CloneInv
    <2>2. ASSUME NEW u \in AllTasks \ broken, NEW j \in 1..Len(calls'[u]), calls'[u][j].op = "clone"
          PROVE  /\ calls'[u][j].ret = 0 /\ NewChild
                 /\ \A i \in 1..Len(calls'[u]) : calls'[u][i].op = "clone" => i = j
      <3>1. CASE <<u, j>> \in N
        <4>1. u = t /\ j = n + 1 /\ calls'[u][j] = c /\ op = "clone"
          BY <3>1, <2>2, <1>2, <1>10
        <4>2. ASSUME NEW i \in 1..Len(calls'[u]), calls'[u][i].op = "clone", <<u, i>> \notin N PROVE FALSE
          <5>1. i \in 1..Len(calls[u]) /\ calls'[u][i] = calls[u][i]
            BY <4>2, <1>9
          <5>2. CallOK(u, i, calls[u][i])
            BY <5>1 DEF FdInv, CallsInv
          <5> QED BY <5>1, <5>2, <4>1, <4>2, <1>1 DEF CallOK
        <4> QED BY <4>1, <4>2, <1>2, <1>10
      <3>2. CASE <<u, j>> \notin N
        <4>1. j \in 1..Len(calls[u]) /\ calls'[u][j] = calls[u][j]
          BY <3>2, <1>9
        <4>2. calls[u][j].ret = 0 /\ NewChild /\ \A i \in 1..Len(calls[u]) : calls[u][i].op = "clone" => i = j
          BY <4>1, <2>2 DEF FdInv, ChildInv, CloneInv
        <4>3. CallOK(u, j, calls[u][j])
          BY <4>1 DEF FdInv, CallsInv
        <4>4. u # t
          BY <4>1, <4>3, <2>2, <1>1 DEF CallOK
        <4> QED BY <4>1, <4>2, <4>4, <1>3
      <3> QED BY <3>1, <3>2
    <2> QED BY <2>1, <2>2, <1>17 DEF CloneInv
  <1>21. InheritInv'
    <2>1. CASE Child = 0
      BY <2>1, <1>8, <1>11, <1>12, NoChild
    <2>2. CASE Child # 0
      <3>1. \A fd : \A i \in 1..Len(calls'[Child]) : <<Child, i>> \in N => ~Claims(Child, calls[Child][i], Child, fd)'
        BY <2>2, <1>2, <1>10, <1>16 DEF Claims, IsClosing, IsGiven
      <3>2. \A fd : Taken(fd)' => Taken(fd)
        <4> HIDE DEF N
        <4> QED BY <2>2, <3>1, <1>4, TakenMoved DEF Taken
      <3>3. \A h \in inherited : handle[h].state \in {"valid", "invalid"}
        BY DEF FdInv, InheritInv
      <3> QED BY <2>2, <3>2, <3>3, <1>7, InheritKept DEF FdInv
    <2> QED BY <2>1, <2>2
  <1> QED BY <1>8, <1>11, <1>12, <1>13, <1>14, <1>15, <1>18, <1>19, <1>20, <1>21 DEF FdInv, ChildInv

\* execve.
LEMMA ExecStep ==
    ASSUME TableCfg, FdInv, NEW t \in AllTasks, Exec(t)
    PROVE  FdInv'
  <1>1. /\ Ready(t) /\ stage[t] = "none" /\ calls[t] = << >> /\ manipulating' = manipulating \cup {t}
        /\ stage' = [stage EXCEPT ![t] = "exec"] /\ Send(t, Call("exec", 0, 0, 0, {}))
        /\ UNCHANGED <<ktable, kfile, opened, alive, broken, fd_table, known, tracked, inherited, handle, leaked>>
    BY DEF Exec, kernel, client, TableCfg
  <1>2. ~Copied
    <2>1. CASE t \in Tasks
      BY <2>1, <1>1 DEF FdInv, ChildInv, CloneInv, Ready
    <2>2. CASE t \notin Tasks
      BY <2>2, <1>1, TableFacts DEF Copied, NewChild, Ready
    <2> QED BY <2>1, <2>2
  <1> DEFINE op == "exec"
  <1>3. /\ op \in {"exec", "clone"} /\ stage' = [stage EXCEPT ![t] = op] /\ Send(t, Call(op, 0, 0, 0, {})) /\ op # "clone"
    BY <1>1
  <1> HIDE DEF op
  <1> QED BY <1>1, <1>2, <1>3, StartStep

\* clone_child_task.
LEMMA CloneStep ==
    ASSUME TableCfg, FdInv, FreshInv, NEW t \in AllTasks, Clone(t)
    PROVE  FdInv'
  <1>1. /\ Ready(t) /\ stage[t] = "none" /\ manipulating' = manipulating /\ Child # 0 /\ t # Child
        /\ stage' = [stage EXCEPT ![t] = "clone"] /\ Send(t, Call("clone", 0, 0, 0, {}))
        /\ UNCHANGED <<ktable, kfile, opened, alive, broken, fd_table, known, tracked, inherited, handle, leaked>>
    BY DEF Clone, kernel, client
  <1>2. t \in Tasks /\ NewChild
    BY <1>1, TableFacts DEF FreshInv
  <1>3. ~Copied
    <2> SUFFICES ASSUME Copied PROVE FALSE
      OBVIOUS
    <2>1. t \in Tasks \ broken
      BY <1>1, <1>2 DEF Ready
    <2>2. PICK j \in 1..Len(calls[t]) : calls[t][j].op = "clone"
      BY <2>1, <1>1 DEF FdInv, ChildInv, CloneInv
    <2>3. CallOK(t, j, calls[t][j])
      BY <2>2 DEF FdInv, CallsInv
    <2> QED BY <2>1, <2>2, <2>3, <1>1 DEF CallOK
  <1> DEFINE op == "clone"
  <1>4. /\ op \in {"exec", "clone"} /\ stage' = [stage EXCEPT ![t] = op] /\ Send(t, Call(op, 0, 0, 0, {})) /\ op # "exec"
    BY <1>1
  <1> HIDE DEF op
  <1> QED BY <1>1, <1>2, <1>3, <1>4, StartStep

\* execve returned: an error, or a fresh table for who hung up.
LEMMA ExecReturnsStep ==
    ASSUME TableCfg, FdInv, NEW t \in AllTasks, ExecReturns(t)
    PROVE  FdInv'
  <1> DEFINE mine == HandlesBy(t)  d == Shift(t)  N == {}  c == calls[t][1]
  <1>1. /\ calls[t] # << >> /\ Popped(t) /\ stage' = [stage EXCEPT ![t] = "done"]
        /\ UNCHANGED <<ktable, kfile, opened, alive, broken, inherited, handle, leaked>>
    BY DEF ExecReturns, kernel, Popped
  <1>2. /\ calls' \in [AllTasks -> Seq(SysCall)] /\ c \in SysCall /\ 1 \in 1..Len(calls[t]) /\ Head(calls[t]) = c
        /\ \A u \in AllTasks \ {t} : calls'[u] = calls[u]
    BY <1>1, PoppedCalls DEF FdInv
  <1>3. c.op = "exec" /\ c.ret # 0
    BY <1>2 DEF ExecReturns
  <1>4. CallOK(t, 1, c)
    BY <1>2 DEF FdInv, CallsInv
  <1>5. stage[t] = "exec" /\ (c.ret = 1 <=> t \notin alive) /\ c.ret \in {1, 2} /\ (c.ret = 2 => Faults # {})
    BY <1>3, <1>4 DEF CallOK
  <1>6. /\ Moved(d, N) /\ d \in [AllTasks -> Nat] /\ (\A e : e \notin N)
        /\ \A u \in AllTasks : Len(calls'[u]) <= MaxCalls
        /\ \A u \in AllTasks : \A i \in 1..Len(calls'[u]) : <<u, i + d[u]>> # <<t, 1>>
    BY <1>1, PopMoved DEF FdInv, TableCfg, FDTableAssumption
  <1> HIDE DEF d, N
  <1>7. t \in Tables /\ t # 0 /\ 0 \in Tables /\ (Child # 0 => Child \in AllTasks /\ Child \in Tables)
    BY TableFacts
  <1>8. c.ret = 2 => t \in alive /\ UNCHANGED <<manipulating, fd_table, tracked, known>>
    BY <1>2, <1>5 DEF ExecReturns
  <1>9. c.ret = 1 => /\ t \notin alive /\ manipulating' = manipulating \ {t} /\ fd_table' = [fd_table EXCEPT ![t] = t]
                     /\ tracked' = [tracked EXCEPT ![t] = mine] /\ known' = [known EXCEPT ![t] = {handle[h].near : h \in mine}]
    BY <1>2, <1>5 DEF ExecReturns
  <1>10. /\ \A u \in AllTasks : fd_table'[u] = IF u = t /\ c.ret = 1 THEN t ELSE fd_table[u]
         /\ \A u \in AllTasks : stage'[u] = IF u = t THEN "done" ELSE stage[u]
         /\ \A k \in Tables : tracked'[k] = IF k = t /\ c.ret = 1 THEN mine ELSE tracked[k]
         /\ \A k \in Tables : known'[k] = IF k = t /\ c.ret = 1 THEN {handle[h].near : h \in mine} ELSE known[k]
         /\ \A u \in AllTasks : u \in manipulating' <=> u \in manipulating /\ (u = t => c.ret = 2)
    <2>1. CASE c.ret = 1
      BY <2>1, <1>1, <1>7, <1>9 DEF FdInv, FdTypes
    <2>2. CASE c.ret = 2
      BY <2>2, <1>1, <1>8 DEF FdInv, FdTypes
    <2> QED BY <2>1, <2>2, <1>5
  <1>11. /\ \A h \in mine : h \in Handles /\ Live(h) /\ handle[h].task = t /\ handle[h].near \in Fds /\ handle[h].state # "free"
         /\ \A h \in Handles : Live(h) /\ handle[h].task = t => h \in mine
    BY DEF HandlesBy, FdInv, FdTypes, Live
  <1> HIDE DEF mine, c
  <1>12. FdTypes'
    <2>1. {handle[h].near : h \in mine} \in SUBSET Fds /\ mine \in SUBSET Handles
      BY <1>11
    <2>2. CASE c.ret = 1
      <3> DEFINE S == {handle[h].near : h \in mine}
      <3>1. tracked' = [tracked EXCEPT ![t] = mine] /\ known' = [known EXCEPT ![t] = S] /\ S \in SUBSET Fds
        BY <2>1, <2>2, <1>9
      <3> HIDE DEF S
      <3>2. known \in [Tables -> SUBSET Fds] /\ tracked \in [Tables -> SUBSET Handles] /\ fd_table \in [AllTasks -> Tables]
            /\ manipulating \subseteq AllTasks
        BY DEF FdInv, FdTypes
      <3>3. known' \in [Tables -> SUBSET Fds] /\ tracked' \in [Tables -> SUBSET Handles]
        BY <2>1, <3>1, <3>2
      <3>4. fd_table' \in [AllTasks -> Tables] /\ manipulating' \subseteq AllTasks
        BY <2>2, <3>2, <1>7, <1>9
      <3>5. stage' \in [AllTasks -> {"none", "unsharing", "unshared", "exec", "clone", "cloned", "done"}]
        BY <1>1 DEF FdInv, FdTypes
      <3> QED BY <3>3, <3>4, <3>5, <1>1, <1>2 DEF FdInv, FdTypes
    <2>3. CASE c.ret = 2
      BY <2>3, <1>1, <1>2, <1>8 DEF FdInv, FdTypes
    <2> QED BY <2>2, <2>3, <1>5
  <1>13. /\ \A u \in AllTasks : (Waiting(u)' <=> Waiting(u)) /\ (Ready(u)' <=> Ready(u))
         /\ Ready(t) => c.ret = 2
    BY <1>1, <1>5, <1>10 DEF Waiting, Ready
  <1>14. PhaseInv'
    <2> SUFFICES ASSUME NEW u \in AllTasks
        PROVE  /\ fd_table'[u] \in {Home(u), u} /\ ktable[u] \in {0, u}
               /\ Ready(u)' => ktable[u] = IF Waiting(u)' THEN 0 ELSE fd_table'[u]
               /\ stage'[u] \in {"none", "clone", "cloned", "exec"} => fd_table'[u] = Home(u)
               /\ stage'[u] \in {"unsharing", "unshared"} => u \in alive /\ fd_table'[u] = u /\ u \in Tasks /\ Child = 0
               /\ stage'[u] \in {"clone", "cloned"} => u \in alive /\ u \in Tasks /\ Child # 0
               /\ stage'[u] = "unsharing" /\ u \notin broken => calls'[u] # << >> /\ calls'[u][1].op = "unshare"
               /\ stage'[u] = "exec" => u \in alive \/ (calls'[u] # << >> /\ calls'[u][1].op = "exec" /\ calls'[u][1].ret # 0)
               /\ stage'[u] = "exec" /\ u \notin broken => calls'[u] # << >> /\ calls'[u][1].op = "exec"
               /\ stage'[u] \in {"unsharing", "exec"} => u \in manipulating'
               /\ stage'[u] = "none" => u \notin manipulating' /\ (u \in Tasks => u \in alive)
               /\ u \in broken => u \in alive
               /\ u \in manipulating' => stage'[u] \in {"unsharing", "exec"} \/ Faults # {}
      BY <1>1 DEF PhaseInv
    <2>1. CASE u = t
      <3>1. fd_table[t] \in {Home(t), t} /\ ktable[t] \in {0, t} /\ (t \in broken => t \in alive)
            /\ (Ready(t) => ktable[t] = IF Waiting(t) THEN 0 ELSE fd_table[t])
        BY DEF FdInv, PhaseInv
      <3> QED BY <3>1, <2>1, <1>5, <1>10, <1>13
    <2>2. CASE u # t
      <3>1. /\ fd_table'[u] = fd_table[u] /\ stage'[u] = stage[u] /\ calls'[u] = calls[u] /\ (Waiting(u)' <=> Waiting(u))
            /\ (u \in manipulating' <=> u \in manipulating) /\ (Ready(u)' <=> Ready(u))
        BY <2>2, <1>2, <1>10, <1>13
      <3> QED BY <3>1 DEF FdInv, PhaseInv
    <2> QED BY <2>1, <2>2
  <1>15. ASSUME NEW u \in AllTasks, NEW i \in 1..Len(calls'[u])
         PROVE  /\ i + d[u] \in 1..Len(calls[u]) /\ calls'[u][i] = calls[u][i + d[u]] /\ CallOK(u, i + d[u], calls[u][i + d[u]])
                /\ u = t => calls[u][i + d[u]].op \notin {"unshare", "exec", "open"} /\ (calls[u][i + d[u]].op = "clone" => t \in broken)
    <2>1. i + d[u] \in 1..Len(calls[u]) /\ calls'[u][i] = calls[u][i + d[u]]
      BY <1>6 DEF Moved
    <2>2. CallOK(u, i + d[u], calls[u][i + d[u]])
      BY <2>1 DEF FdInv, CallsInv
    <2>3. u = t => i + d[u] # 1
      BY <1>6
    <2> QED BY <2>1, <2>2, <2>3, <1>5 DEF CallOK
  <1>16. CallsInv'
    <2>1. ASSUME NEW u \in AllTasks, NEW i \in 1..Len(calls'[u]) PROVE CallOK(u, i, calls[u][i])'
      <3> DEFINE m == i + d[u]  q == calls[u][m]
      <3>1. m \in 1..Len(calls[u]) /\ calls'[u][i] = q /\ CallOK(u, m, q)
            /\ (u = t => q.op \notin {"unshare", "exec", "open"} /\ (q.op = "clone" => t \in broken)) /\ (m = 1 => i = 1)
        <4>1. d[u] \in Nat
          BY <1>6
        <4> QED BY <4>1, <1>15
      <3> HIDE DEF m, q
      <3>2. CASE u = t
        <4>1. Ready(t)' => fd_table'[t] = fd_table[t]
          BY <1>5, <1>10, <1>13
        <4> QED BY <3>1, <3>2, <4>1, <1>1, <1>13 DEF CallOK
      <3>3. CASE u # t
        BY <3>1, <3>3, <1>1, <1>10, <1>13 DEF CallOK
      <3> QED BY <3>2, <3>3
    <2>2. ASSUME NEW u \in AllTasks, NEW i \in 1..Len(calls'[u]), NEW j \in 1..Len(calls'[u]), i < j, calls'[u][j].ret # 0
          PROVE  calls'[u][i].ret # 0
      <3>1. /\ i + d[u] \in 1..Len(calls[u]) /\ calls'[u][i] = calls[u][i + d[u]]
            /\ j + d[u] \in 1..Len(calls[u]) /\ calls'[u][j] = calls[u][j + d[u]] /\ i + d[u] < j + d[u]
        BY <2>2, <1>6, <1>15
      <3> QED BY <3>1, <2>2 DEF FdInv, CallsInv
    <2> QED BY <2>1, <2>2, <1>6 DEF CallsInv
  <1>17. TrackedInv'
    <2>1. ASSUME NEW k \in Tables, NEW h \in tracked'[k]
          PROVE  /\ handle[h].state # "free" /\ handle[h].near \in known'[k]
                 /\ IF k = 0 THEN handle[h].task \in Tasks ELSE handle[h].task = k
      <3>1. CASE k = t /\ c.ret = 1
        BY <3>1, <1>7, <1>10, <1>11
      <3>2. CASE ~(k = t /\ c.ret = 1)
        BY <3>2, <1>10 DEF FdInv, TrackedInv
      <3> QED BY <3>1, <3>2
    <2>2. ASSUME NEW h \in Handles, Live(h)
          PROVE  h \in tracked'[fd_table'[handle[h].task]] /\ (Waiting(handle[h].task)' => h \in tracked'[0])
      <3>1. handle[h].task \in AllTasks
        BY <2>2 DEF FdInv, FdTypes, Live
      <3>2. h \in tracked[fd_table[handle[h].task]] /\ (Waiting(handle[h].task) => h \in tracked[0])
        BY <2>2 DEF FdInv, TrackedInv
      <3>3. Waiting(handle[h].task)' => Waiting(handle[h].task)
        BY <3>1, <1>1, <1>5, <1>10 DEF Waiting
      <3>4. tracked'[0] = tracked[0]
        BY <1>7, <1>10
      <3>5. h \in tracked'[fd_table'[handle[h].task]]
        <4>1. CASE handle[h].task = t /\ c.ret = 1
          BY <4>1, <2>2, <1>7, <1>10, <1>11
        <4>2. CASE handle[h].task # t \/ c.ret # 1
          <5>1. fd_table'[handle[h].task] = fd_table[handle[h].task] /\ fd_table[handle[h].task] \in Tables
            BY <3>1, <4>2, <1>10 DEF FdInv, FdTypes
          <5>2. fd_table[handle[h].task] = t => c.ret # 1
            <6>1. handle[h].task # t => fd_table[handle[h].task] # t
              BY <3>1, <1>7, TableFacts DEF FdInv, PhaseInv
            <6> QED BY <6>1, <4>2
          <5> QED BY <3>2, <5>1, <5>2, <1>10
        <4> QED BY <4>1, <4>2
      <3> QED BY <3>2, <3>3, <3>4, <3>5
    <2> QED BY <2>1, <2>2, <1>1 DEF TrackedInv, Live, Waiting
  <1>18. UseInv'
    BY <1>1, <1>6, UseKept DEF FdInv
  <1>19. TablesInv'
    <2> SUFFICES ASSUME NEW k \in Tables, Served(k)' PROVE TableInv(k)'
      BY DEF TablesInv, TableInv
    <2>0. k = 0 \/ k \in AllTasks
      BY TableFacts
    <2>1. k = t => c.ret = 2
      BY <1>1, <1>5, <1>7 DEF Served, Ready
    <2>2. Served(k) /\ TableInv(k) /\ Fds \subseteq Nat
      <3>1. k # 0 => fd_table'[k] = fd_table[k]
        BY <2>0, <2>1, <1>5, <1>10
      <3> QED BY <3>1, <1>1, TableFacts DEF Served, Ready, FdInv, TablesInv
    <2>a. c.ret # 1 \/ k # t
      BY <2>1
    <2>b. Waiting(k)' <=> Waiting(k)
      <3>1. CASE k = 0
        BY <3>1 DEF Waiting
      <3>2. CASE k \in AllTasks
        BY <3>2, <1>13
      <3> QED BY <2>0, <3>1, <3>2
    <2>3. tracked'[k] = tracked[k] /\ known'[k] = known[k] /\ tracked'[0] = tracked[0] /\ (Waiting(k)' <=> Waiting(k))
      BY <2>a, <2>b, <1>7, <1>10
    <2>4. \A fd : (Safe(k, fd)' <=> Safe(k, fd)) /\ File(k, fd)' = File(k, fd)
      BY <1>1, <2>3 DEF Safe, File, Kept, Kernel
    <2>5. \A u \in AllTasks : fd_table'[u] = k => fd_table[u] = k
      BY <2>1, <1>5, <1>10
    <2>6. OldCalls(k, d, {}, N)
      <3> SUFFICES ASSUME NEW u \in AllTasks, NEW i \in 1..Len(calls'[u]), NEW fd \in Nat, Claims(u, calls[u][i], k, fd)'
          PROVE  /\ i + d[u] \in 1..Len(calls[u])
                 /\ Claims(u, calls[u][i + d[u]], k, fd)
                 /\ IsClosing(calls'[u][i]) => IsClosing(calls[u][i + d[u]]) /\ calls'[u][i].file = calls[u][i + d[u]].file
        BY DEF OldCalls
      <3>1. i + d[u] \in 1..Len(calls[u]) /\ calls'[u][i] = calls[u][i + d[u]]
        BY <1>15
      <3> QED BY <3>1, <2>5 DEF Claims, IsClosing, IsGiven
    <2>7. NewCalls(k, N)
      BY <1>6 DEF NewCalls
    <2>8. KnownStep(k, {}) /\ ClosedStep(k, {}, {}) /\ SafeStep(k, {})
      BY <2>3, <2>4 DEF KnownStep, ClosedStep, SafeStep
    <2>9. HandleStep(k)
      <3> SUFFICES ASSUME NEW h \in Handles, Live(h), fd_table'[handle[h].task] = k
          PROVE  handle[h].near \in known[k] /\ Safe(k, handle[h].near) /\ File(k, handle[h].near) = handle[h].file
        BY <1>1, <2>3 DEF HandleStep, Live
      <3>1. handle[h].task \in AllTasks
        BY DEF FdInv, FdTypes, Live
      <3>2. fd_table[handle[h].task] = k
        BY <3>1, <2>5
      <3>3. h \in tracked[k]
        BY <3>2 DEF FdInv, TrackedInv
      <3> QED BY <2>2, <3>2, <3>3 DEF FdInv, TrackedInv, TableInv
    <2> QED BY <2>2, <2>6, <2>7, <2>8, <2>9, <1>6, <1>12, TableStep DEF FdInv
  <1>20. (NewChild' <=> NewChild) /\ (Copied' <=> Copied) /\ (NewChild => Child # t)
    BY <1>1, <1>5, <1>7, <1>10 DEF NewChild, Copied
  <1>21. NewInv'
    <2> SUFFICES ASSUME NewChild PROVE NewInv'
      BY <1>20 DEF NewInv
    <2>1. calls'[Child] = calls[Child] /\ known'[Child] = known[Child] /\ tracked'[Child] = tracked[Child]
      BY <1>2, <1>7, <1>10, <1>20 DEF NewChild
    <2> QED BY <2>1, <1>1 DEF FdInv, ChildInv, NewInv
  <1>22. Copied => t \notin Tasks \ broken
    <2> SUFFICES ASSUME Copied, t \in Tasks \ broken PROVE FALSE
      OBVIOUS
    <2>1. PICK j \in 1..Len(calls[t]) : calls[t][j].op = "clone"
      BY <1>5 DEF FdInv, ChildInv, CloneInv
    <2>2. CallOK(t, j, calls[t][j])
      BY <2>1 DEF FdInv, CallsInv
    <2> QED BY <2>1, <2>2, <1>5 DEF CallOK
  <1>23. CopyInv'
    <2> SUFFICES ASSUME Copied PROVE CopyInv'
      BY <1>20 DEF CopyInv
    <2>1. \A u \in Tasks \ broken : calls'[u] = calls[u]
      BY <1>2, <1>22, TableFacts
    <2>2. tracked'[0] = tracked[0]
      BY <1>7, <1>10
    <2> QED BY <2>1, <2>2, <1>1 DEF FdInv, ChildInv, CopyInv, Live, IsGiven, HasClone
  <1>24. CloneInv'
    <2>1. Copied => \A u \in Tasks \ broken : stage'[u] = "cloned" \/ \E j \in 1..Len(calls'[u]) : calls'[u][j].op = "clone" /\ calls'[u][j].ret # 0
      <3> SUFFICES ASSUME Copied, NEW u \in Tasks \ broken
          PROVE stage'[u] = "cloned" \/ \E j \in 1..Len(calls'[u]) : calls'[u][j].op = "clone" /\ calls'[u][j].ret # 0
        OBVIOUS
      <3>1. u # t /\ u \in AllTasks
        BY <1>22, TableFacts
      <3>2. stage'[u] = stage[u] /\ calls'[u] = calls[u]
        BY <3>1, <1>2, <1>10
      <3> QED BY <3>2 DEF FdInv, ChildInv, CloneInv
    <2>2. \A u \in AllTasks : stage'[u] = "cloned" => Copied
      BY <1>10 DEF FdInv, ChildInv, CloneInv
    <2>3. ASSUME NEW u \in AllTasks \ broken, NEW j \in 1..Len(calls'[u]), calls'[u][j].op = "clone"
          PROVE  /\ (calls'[u][j].ret # 0 <=> Copied) /\ NewChild
                 /\ \A i \in 1..Len(calls'[u]) : calls'[u][i].op = "clone" => i = j
      <3>1. u # t
        BY <2>3, <1>15
      <3>2. calls'[u] = calls[u]
        BY <3>1, <1>2
      <3> QED BY <3>2, <2>3 DEF FdInv, ChildInv, CloneInv
    <2> QED BY <2>1, <2>2, <2>3, <1>1, <1>20 DEF CloneInv
  <1>25. InheritInv'
    <2>1. CASE Child = 0
      BY <2>1, <1>12, <1>14, <1>16, NoChild
    <2>2. CASE Child # 0
      <3>1. \A h \in inherited : handle[h].state \in {"valid", "invalid"}
        BY DEF FdInv, InheritInv
      <3>2. CASE ~Ready(Child)'
        BY <3>1, <3>2, <1>1 DEF InheritInv
      <3>3. CASE Ready(Child)'
        <4>0. Child \in AllTasks /\ Child \in Tables /\ Ready(Child)
          BY <3>3, <2>2, <1>7, <1>13
        <4>a. ~(Child = t /\ c.ret = 1)
          BY <4>0, <1>13
        <4>1. Ready(Child) /\ fd_table'[Child] = fd_table[Child] /\ known'[Child] = known[Child]
          BY <4>0, <4>a, <1>10
        <4>2. ASSUME NEW fd, Taken(fd)' PROVE Taken(fd)
          <5>1. CASE fd \in known'[Child]
            BY <5>1, <4>1 DEF Taken
          <5>2. CASE fd \notin known'[Child]
            <6>1. PICK i \in 1..Len(calls'[Child]) : Claims(Child, calls[Child][i], Child, fd)'
              BY <4>2, <5>2 DEF Taken
            <6>2. i + d[Child] \in 1..Len(calls[Child]) /\ calls'[Child][i] = calls[Child][i + d[Child]]
              BY <2>2, <1>7, <1>15
            <6> QED BY <4>1, <6>1, <6>2 DEF Taken, Claims, IsClosing, IsGiven
          <5> QED BY <5>1, <5>2
        <4> QED BY <2>2, <3>1, <4>1, <4>2, <1>1, InheritKept DEF FdInv
      <3> QED BY <3>2, <3>3
    <2> QED BY <2>1, <2>2
  <1> QED BY <1>12, <1>14, <1>16, <1>17, <1>18, <1>19, <1>21, <1>23, <1>24, <1>25 DEF FdInv, ChildInv

\* clone returned.
LEMMA CloneReturnsStep ==
    ASSUME TableCfg, FdInv, NEW t \in AllTasks, CloneReturns(t)
    PROVE  FdInv'
  <1> DEFINE d == Shift(t)  N == {}  c == calls[t][1]
  <1>1. /\ calls[t] # << >> /\ Popped(t) /\ stage' = [stage EXCEPT ![t] = "cloned"] /\ t \notin broken
        /\ UNCHANGED <<ktable, kfile, opened, alive, broken, fd_table, known, tracked, inherited, handle, leaked, manipulating>>
    BY DEF CloneReturns, kernel, client, Popped
  <1>2. /\ calls' \in [AllTasks -> Seq(SysCall)] /\ c \in SysCall /\ 1 \in 1..Len(calls[t]) /\ Head(calls[t]) = c
        /\ \A u \in AllTasks \ {t} : calls'[u] = calls[u]
    BY <1>1, PoppedCalls DEF FdInv
  <1>3. c.op = "clone" /\ c.ret # 0
    BY <1>2 DEF CloneReturns
  <1>4. CallOK(t, 1, c)
    BY <1>2 DEF FdInv, CallsInv
  <1>5. stage[t] = "clone" /\ t \in Tasks /\ Child # 0 /\ t \in alive
    BY <1>1, <1>3, <1>4 DEF CallOK, FdInv, PhaseInv
  <1>a. Copied /\ NewChild /\ \A i \in 1..Len(calls[t]) : calls[t][i].op = "clone" => i = 1
    BY <1>1, <1>2, <1>3 DEF FdInv, ChildInv, CloneInv
  <1>6. /\ Moved(d, N) /\ d \in [AllTasks -> Nat] /\ (\A e : e \notin N)
        /\ \A u \in AllTasks : Len(calls'[u]) <= MaxCalls
        /\ \A u \in AllTasks : \A i \in 1..Len(calls'[u]) : <<u, i + d[u]>> # <<t, 1>>
    BY <1>1, PopMoved DEF FdInv, TableCfg, FDTableAssumption
  <1> HIDE DEF d, N
  <1>7. t \in Tables /\ t # 0 /\ Child # t /\ Child \in AllTasks /\ Child \in Tables /\ \A u \in Tasks : u = t
    BY <1>5, TableFacts DEF TableCfg
  <1>10. \A u \in AllTasks : stage'[u] = IF u = t THEN "cloned" ELSE stage[u]
    BY <1>1 DEF FdInv, FdTypes
  <1> HIDE DEF c
  <1>12. FdTypes'
    <2>1. stage' \in [AllTasks -> {"none", "unsharing", "unshared", "exec", "clone", "cloned", "done"}]
      BY <1>1 DEF FdInv, FdTypes
    <2> QED BY <2>1, <1>1, <1>2 DEF FdInv, FdTypes
  <1>13. \A u \in AllTasks : (Waiting(u)' <=> Waiting(u)) /\ (Ready(u)' <=> Ready(u))
    BY <1>1, <1>5, <1>10 DEF Waiting, Ready
  <1>14. PhaseInv'
    <2> SUFFICES ASSUME NEW u \in AllTasks
        PROVE  /\ fd_table[u] \in {Home(u), u} /\ ktable[u] \in {0, u}
               /\ Ready(u)' => ktable[u] = IF Waiting(u)' THEN 0 ELSE fd_table[u]
               /\ stage'[u] \in {"none", "clone", "cloned", "exec"} => fd_table[u] = Home(u)
               /\ stage'[u] \in {"unsharing", "unshared"} => u \in alive /\ fd_table[u] = u /\ u \in Tasks /\ Child = 0
               /\ stage'[u] \in {"clone", "cloned"} => u \in alive /\ u \in Tasks /\ Child # 0
               /\ stage'[u] = "unsharing" /\ u \notin broken => calls'[u] # << >> /\ calls'[u][1].op = "unshare"
               /\ stage'[u] = "exec" => u \in alive \/ (calls'[u] # << >> /\ calls'[u][1].op = "exec" /\ calls'[u][1].ret # 0)
               /\ stage'[u] = "exec" /\ u \notin broken => calls'[u] # << >> /\ calls'[u][1].op = "exec"
               /\ stage'[u] \in {"unsharing", "exec"} => u \in manipulating
               /\ stage'[u] = "none" => u \notin manipulating /\ (u \in Tasks => u \in alive)
               /\ u \in broken => u \in alive
               /\ u \in manipulating => stage'[u] \in {"unsharing", "exec"} \/ Faults # {}
      BY <1>1 DEF PhaseInv
    <2>1. CASE u = t
      <3>1. fd_table[t] \in {Home(t), t} /\ ktable[t] \in {0, t} /\ (t \in broken => t \in alive)
            /\ (Ready(t) => ktable[t] = IF Waiting(t) THEN 0 ELSE fd_table[t]) /\ fd_table[t] = Home(t)
            /\ (t \in manipulating => Faults # {})
        BY <1>5 DEF FdInv, PhaseInv
      <3> QED BY <3>1, <2>1, <1>5, <1>10, <1>13
    <2>2. CASE u # t
      <3>1. /\ stage'[u] = stage[u] /\ calls'[u] = calls[u] /\ (Waiting(u)' <=> Waiting(u)) /\ (Ready(u)' <=> Ready(u))
        BY <2>2, <1>2, <1>10, <1>13
      <3> QED BY <3>1 DEF FdInv, PhaseInv
    <2> QED BY <2>1, <2>2
  <1>15. ASSUME NEW u \in AllTasks, NEW i \in 1..Len(calls'[u])
         PROVE  /\ i + d[u] \in 1..Len(calls[u]) /\ calls'[u][i] = calls[u][i + d[u]] /\ CallOK(u, i + d[u], calls[u][i + d[u]])
                /\ u = t => calls[u][i + d[u]].op \notin {"unshare", "exec", "clone"}
    <2>1. i + d[u] \in 1..Len(calls[u]) /\ calls'[u][i] = calls[u][i + d[u]]
      BY <1>6 DEF Moved
    <2>2. CallOK(u, i + d[u], calls[u][i + d[u]])
      BY <2>1 DEF FdInv, CallsInv
    <2>3. u = t => i + d[u] # 1
      BY <1>6
    <2> QED BY <2>1, <2>2, <2>3, <1>5, <1>a DEF CallOK
  <1>16. CallsInv'
    <2>1. ASSUME NEW u \in AllTasks, NEW i \in 1..Len(calls'[u]) PROVE CallOK(u, i, calls[u][i])'
      <3> DEFINE m == i + d[u]  q == calls[u][m]
      <3>1. m \in 1..Len(calls[u]) /\ calls'[u][i] = q /\ CallOK(u, m, q)
            /\ (u = t => q.op \notin {"unshare", "exec", "clone"}) /\ (m = 1 => i = 1)
        <4>1. d[u] \in Nat
          BY <1>6
        <4> QED BY <4>1, <1>15
      <3> HIDE DEF m, q
      <3>2. CASE u = t
        BY <3>1, <3>2, <1>1, <1>10, <1>13 DEF CallOK
      <3>3. CASE u # t
        BY <3>1, <3>3, <1>1, <1>10, <1>13 DEF CallOK
      <3> QED BY <3>2, <3>3
    <2>2. ASSUME NEW u \in AllTasks, NEW i \in 1..Len(calls'[u]), NEW j \in 1..Len(calls'[u]), i < j, calls'[u][j].ret # 0
          PROVE  calls'[u][i].ret # 0
      <3>1. /\ i + d[u] \in 1..Len(calls[u]) /\ calls'[u][i] = calls[u][i + d[u]]
            /\ j + d[u] \in 1..Len(calls[u]) /\ calls'[u][j] = calls[u][j + d[u]] /\ i + d[u] < j + d[u]
        BY SMTT(30), <2>2, <1>6, <1>15
      <3> QED BY <3>1, <2>2 DEF FdInv, CallsInv
    <2> QED BY <2>1, <2>2, <1>6 DEF CallsInv
  <1>17. TrackedInv'
    <2>1. \A h \in Handles : Live(h) => (Waiting(handle[h].task)' <=> Waiting(handle[h].task))
      <3>1. \A h \in Handles : Live(h) => handle[h].task \in AllTasks
        BY DEF FdInv, FdTypes, Live
      <3> QED BY <3>1, <1>1, <1>13 DEF Waiting
    <2> QED BY <2>1, <1>1 DEF FdInv, TrackedInv, Live, Waiting
  <1>18. UseInv'
    BY <1>1, <1>6, UseKept DEF FdInv
  <1>19. TablesInv'
    <2> SUFFICES ASSUME NEW k \in Tables, Served(k)' PROVE TableInv(k)'
      BY DEF TablesInv, TableInv
    <2>0. k = 0 \/ k \in AllTasks
      BY TableFacts
    <2>2. Served(k) /\ TableInv(k) /\ Fds \subseteq Nat
      BY <1>1, TableFacts DEF Served, Ready, FdInv, TablesInv
    <2>3. Waiting(k)' <=> Waiting(k)
      <3>1. CASE k = 0
        BY <3>1 DEF Waiting
      <3>2. CASE k \in AllTasks
        BY <3>2, <1>13
      <3> QED BY <2>0, <3>1, <3>2
    <2>4. \A fd : (Safe(k, fd)' <=> Safe(k, fd)) /\ File(k, fd)' = File(k, fd)
      BY <1>1, <2>3 DEF Safe, File, Kept, Kernel
    <2>6. OldCalls(k, d, {}, N)
      BY <1>1, <1>6, OldKept
    <2>7. NewCalls(k, N)
      BY <1>6 DEF NewCalls
    <2>8. KnownStep(k, {}) /\ ClosedStep(k, {}, {}) /\ SafeStep(k, {})
      BY <1>1, <2>4 DEF KnownStep, ClosedStep, SafeStep
    <2>9. HandleStep(k)
      <3> SUFFICES ASSUME NEW h \in Handles, Live(h), fd_table[handle[h].task] = k
          PROVE  handle[h].near \in known[k] /\ Safe(k, handle[h].near) /\ File(k, handle[h].near) = handle[h].file
        BY <1>1 DEF HandleStep, Live
      <3>3. h \in tracked[k]
        BY DEF FdInv, TrackedInv
      <3> QED BY <2>2, <3>3 DEF FdInv, TrackedInv, TableInv
    <2> QED BY <2>2, <2>6, <2>7, <2>8, <2>9, <1>6, <1>12, TableStep DEF FdInv
  <1>20. (NewChild' <=> NewChild) /\ (Copied' <=> Copied)
    BY <1>1, <1>7, <1>10 DEF NewChild, Copied
  <1>21. NewInv'
    <2>1. calls'[Child] = calls[Child]
      BY <1>2, <1>7
    <2> QED BY <2>1, <1>1, <1>a DEF FdInv, ChildInv, NewInv
  <1>23. CopyInv'
    <2>1. \A u \in Tasks : \A i, j \in 1..Len(calls'[u]) : ~HasClone(u, i, j)'
      <3>1. ASSUME NEW u \in Tasks, NEW j \in 1..Len(calls'[u]) PROVE calls'[u][j].op # "clone"
        BY <3>1, <1>7, <1>15, TableFacts
      <3> QED BY <3>1 DEF HasClone
    <2> QED BY <2>1, <1>1, <1>a DEF FdInv, ChildInv, CopyInv, Live
  <1>24. CloneInv'
    <2>1. \A u \in Tasks \ broken : stage'[u] = "cloned"
      BY <1>7, <1>10, TableFacts
    <2>3. \A u \in AllTasks \ broken : \A j \in 1..Len(calls'[u]) : calls'[u][j].op # "clone"
      <3> SUFFICES ASSUME NEW u \in AllTasks, NEW j \in 1..Len(calls'[u]), calls'[u][j].op = "clone" PROVE FALSE
        OBVIOUS
      <3>1. CallOK(u, j, calls[u][j])'
        BY <1>16 DEF CallsInv
      <3>2. u \in Tasks
        BY <3>1 DEF CallOK
      <3> QED BY <3>2, <1>7, <1>15
    <2> QED BY <2>1, <2>3, <1>1, <1>a, <1>20 DEF CloneInv
  <1>25. InheritInv'
    <2>1. inherited = {} /\ ~Ready(Child)'
      BY <1>1, <1>a DEF FdInv, ChildInv, NewInv, NewChild, Ready
    <2> QED BY <2>1, <1>1 DEF InheritInv
  <1> QED BY <1>12, <1>14, <1>16, <1>17, <1>18, <1>19, <1>21, <1>23, <1>24, <1>25 DEF FdInv, ChildInv

\* The child's FDTable is made, with what it may inherit.
LEMMA MakeTableStep ==
    ASSUME TableCfg, FdInv, NEW t \in AllTasks, MakeTable(t)
    PROVE  FdInv'
  <1>1. /\ stage[t] = "cloned" /\ stage' = [stage EXCEPT ![t] = "done"] /\ alive' = alive \cup {Child} /\ inherited' = Snapshot
        /\ UNCHANGED <<ktable, kfile, opened, broken, calls, fd_table, known, tracked, handle, leaked, manipulating>>
    BY DEF MakeTable, kernel
  <1>2. Copied /\ NewChild /\ t \in Tasks /\ Child # 0 /\ t \in alive
    BY <1>1 DEF FdInv, ChildInv, CloneInv, Copied, PhaseInv
  <1>3. t # Child /\ Child \in AllTasks /\ Child \in Tables /\ Child \notin Tasks /\ (\A u \in Tasks : u = t) /\ Tasks \subseteq AllTasks
        /\ \A u \in AllTasks : u = t \/ u = Child
    BY <1>2, TableFacts DEF TableCfg
  <1>4. /\ calls[Child] = << >> /\ known[Child] = {} /\ tracked[Child] = {} /\ Child \notin broken /\ inherited = {}
        /\ \A h \in Handles : handle[h].task # Child
    BY <1>2 DEF FdInv, ChildInv, NewInv
  <1>5. /\ \A u \in AllTasks : stage'[u] = IF u = t THEN "done" ELSE stage[u]
        /\ stage[Child] = "none" /\ ktable[Child] = Child /\ Child \notin alive
    BY <1>1, <1>2 DEF FdInv, FdTypes, Copied, NewChild
  <1>6. \A u \in AllTasks : (Waiting(u)' <=> Waiting(u)) /\ (u # Child => (Ready(u)' <=> Ready(u)))
    BY <1>1, <1>5 DEF Waiting, Ready
  <1>7. FdTypes'
    <2>1. stage' \in [AllTasks -> {"none", "unsharing", "unshared", "exec", "clone", "cloned", "done"}]
      BY <1>1 DEF FdInv, FdTypes
    <2>2. alive' \subseteq AllTasks /\ inherited' \subseteq Handles
      BY <1>1, <1>3 DEF Snapshot, FdInv, FdTypes
    <2> QED BY <2>1, <2>2, <1>1, <1>2 DEF FdInv, FdTypes
  <1>8. PhaseInv'
    <2> SUFFICES ASSUME NEW u \in AllTasks
        PROVE  /\ fd_table[u] \in {Home(u), u} /\ ktable[u] \in {0, u}
               /\ Ready(u)' => ktable[u] = IF Waiting(u)' THEN 0 ELSE fd_table[u]
               /\ stage'[u] \in {"none", "clone", "cloned", "exec"} => fd_table[u] = Home(u)
               /\ stage'[u] \in {"unsharing", "unshared"} => u \in alive' /\ fd_table[u] = u /\ u \in Tasks /\ Child = 0
               /\ stage'[u] \in {"clone", "cloned"} => u \in alive' /\ u \in Tasks /\ Child # 0
               /\ stage'[u] = "unsharing" /\ u \notin broken => calls[u] # << >> /\ calls[u][1].op = "unshare"
               /\ stage'[u] = "exec" => u \in alive' \/ (calls[u] # << >> /\ calls[u][1].op = "exec" /\ calls[u][1].ret # 0)
               /\ stage'[u] = "exec" /\ u \notin broken => calls[u] # << >> /\ calls[u][1].op = "exec"
               /\ stage'[u] \in {"unsharing", "exec"} => u \in manipulating
               /\ stage'[u] = "none" => u \notin manipulating /\ (u \in Tasks => u \in alive')
               /\ u \in broken => u \in alive'
               /\ u \in manipulating => stage'[u] \in {"unsharing", "exec"} \/ Faults # {}
      BY <1>1 DEF PhaseInv
    <2>1. CASE u = t
      <3>1. fd_table[t] \in {Home(t), t} /\ ktable[t] \in {0, t} /\ (t \in broken => t \in alive)
            /\ (Ready(t) => ktable[t] = IF Waiting(t) THEN 0 ELSE fd_table[t]) /\ (t \in manipulating => Faults # {})
        BY <1>1 DEF FdInv, PhaseInv
      <3> QED BY <3>1, <2>1, <1>1, <1>3, <1>5, <1>6
    <2>2. CASE u = Child
      <3>1. fd_table[Child] = Home(Child) /\ Home(Child) = Child /\ Child \notin manipulating
        BY <1>3, <1>5 DEF FdInv, PhaseInv, Home
      <3>2. ~Waiting(Child)' /\ stage'[Child] = "none"
        BY <1>3, <1>5, <1>6 DEF Waiting
      <3> QED BY <3>1, <3>2, <2>2, <1>3, <1>4, <1>5
    <2> QED BY <2>1, <2>2, <1>3
  <1>9. ASSUME NEW u \in AllTasks, NEW i \in 1..Len(calls[u]) PROVE u = t /\ CallOK(u, i, calls[u][i]) /\ (calls[u][i].op = "clone" => t \in broken)
    <2>1. u = t
      BY <1>3, <1>4
    <2>2. CallOK(u, i, calls[u][i])
      BY DEF FdInv, CallsInv
    <2>3. calls[u][i].op = "clone" => t \in broken
      BY <2>1, <2>2, <1>1 DEF CallOK
    <2> QED BY <2>1, <2>2, <2>3
  <1>10. CallsInv'
    <2>1. ASSUME NEW u \in AllTasks, NEW i \in 1..Len(calls[u]) PROVE CallOK(u, i, calls[u][i])'
      <3> DEFINE q == calls[u][i]
      <3>1. u = t /\ CallOK(t, i, q) /\ (q.op = "clone" => t \in broken)
        BY <1>9
      <3>2. q = calls'[u][i]
        BY <1>1
      <3> HIDE DEF q
      <3> QED BY <3>1, <3>2, <1>1, <1>2, <1>3, <1>5, <1>6 DEF CallOK
    <2> QED BY <2>1, <1>1 DEF FdInv, CallsInv
  <1>11. TrackedInv'
    <2>1. ASSUME NEW h \in Handles, Live(h), Waiting(handle[h].task)' PROVE Waiting(handle[h].task)
      <3>1. handle[h].task \in AllTasks
        BY <2>1 DEF FdInv, FdTypes, Live
      <3> QED BY <3>1, <2>1, <1>1, <1>6 DEF Waiting
    <2> QED BY <2>1, <1>1 DEF FdInv, TrackedInv, Live, Waiting
  <1>12. UseInv'
    BY <1>1 DEF FdInv, UseInv
  <1>13. TablesInv'
    <2> SUFFICES ASSUME NEW k \in Tables, Served(k)' PROVE TableInv(k)'
      BY DEF TablesInv, TableInv
    <2>1. CASE k = Child
      <3>1. \A u \in AllTasks : \A i \in 1..Len(calls[u]) : \A fd : ~Claims(u, calls[u][i], Child, fd)
        <4> SUFFICES ASSUME NEW u \in AllTasks, NEW i \in 1..Len(calls[u]), NEW fd, Claims(u, calls[u][i], Child, fd) PROVE FALSE
          OBVIOUS
        <4>1. u = t /\ CallOK(t, i, calls[u][i]) /\ Home(t) # Child
          BY <1>2, <1>3, <1>9, TableFacts
        <4>2. fd_table[t] # Child
          BY <4>1, <1>3 DEF FdInv, PhaseInv
        <4> QED BY <4>1, <4>2, <1>3 DEF Claims, CallOK, IsClosing
      <3>2. \A h \in Handles : Live(h) => fd_table[handle[h].task] # Child
        <4> SUFFICES ASSUME NEW h \in Handles, Live(h) PROVE fd_table[handle[h].task] # Child
          OBVIOUS
        <4>1. handle[h].task \in AllTasks
          BY DEF FdInv, FdTypes, Live
        <4>2. handle[h].task = t /\ Home(t) # Child
          BY <4>1, <1>2, <1>3, <1>4, TableFacts
        <4> QED BY <4>2, <1>3 DEF FdInv, PhaseInv
      <3>3. \A u \in AllTasks : \A i \in 1..Len(calls[u]) : ~(IsClosing(calls[u][i]) /\ calls[u][i].table = Child)
        BY <3>1 DEF Claims
      <3>4. \A u \in AllTasks : \A i \in 1..Len(calls'[u]) : \A fd : ~Claims(u, calls[u][i], Child, fd)'
        BY <3>1, <1>1 DEF Claims, IsClosing, IsGiven
      <3>5. \A u \in AllTasks : \A i \in 1..Len(calls'[u]) : ~(IsClosing(calls'[u][i]) /\ calls'[u][i].table = Child)
        BY <3>3, <1>1
      <3>6. known'[Child] = {} /\ \A h \in Handles : Live(h)' => fd_table'[handle'[h].task] # Child
        BY <3>2, <1>1, <1>4 DEF Live
      <3> QED BY <3>4, <3>5, <3>6, <2>1 DEF TableInv
    <2>2. CASE k # Child
      <3>1. Waiting(k)' <=> Waiting(k)
        <4>1. CASE k = 0
          BY <4>1 DEF Waiting
        <4>2. CASE k \in AllTasks
          BY <4>2, <1>6
        <4> QED BY <4>1, <4>2, TableFacts
      <3>2. \A fd : (Safe(k, fd)' <=> Safe(k, fd)) /\ File(k, fd)' = File(k, fd)
        BY <3>1, <1>1 DEF Safe, File, Kept, Kernel
      <3>3. Served(k)
        BY <2>2, <1>1 DEF Served, Ready
      <3>4. TableInv(k) /\ Fds \subseteq Nat
        BY TableFacts DEF FdInv, TablesInv
      <3> DEFINE N == {}
      <3>a. \A e : e \notin N
        OBVIOUS
      <3>b. Moved(Still, N) /\ Still \in [AllTasks -> Nat] /\ \A u \in AllTasks : Still[u] = 0
        <4>1. Still \in [AllTasks -> Nat] /\ \A u \in AllTasks : Still[u] = 0
          BY DEF Still
        <4>2. \A u \in AllTasks : \A i \in 1..Len(calls'[u]) : i + Still[u] = i
          BY <4>1
        <4> QED BY <4>1, <4>2, <1>1 DEF Moved
      <3> HIDE DEF N
      <3>5. OldCalls(k, Still, {}, N)
        BY <3>b, <1>1, OldKept
      <3>6. NewCalls(k, N)
        BY <3>a DEF NewCalls
      <3>8. KnownStep(k, {}) /\ ClosedStep(k, {}, {}) /\ SafeStep(k, {})
        BY <3>2, <1>1 DEF KnownStep, ClosedStep, SafeStep
      <3>9. HandleStep(k)
        <4> SUFFICES ASSUME NEW h \in Handles, Live(h), fd_table[handle[h].task] = k
            PROVE  handle[h].near \in known[k] /\ Safe(k, handle[h].near) /\ File(k, handle[h].near) = handle[h].file
          BY <1>1 DEF HandleStep, Live
        <4>1. h \in tracked[k]
          BY DEF FdInv, TrackedInv
        <4> QED BY <3>3, <3>4, <4>1 DEF FdInv, TrackedInv, TableInv
      <3> QED BY <3>3, <3>4, <3>5, <3>6, <3>8, <3>9, <3>b, <1>7, TableStep DEF FdInv
    <2> QED BY <2>1, <2>2
  <1>14. ~NewChild' /\ ~Copied'
    BY <1>1 DEF NewChild, Copied
  <1>15. NewInv' /\ CopyInv'
    BY <1>14 DEF NewInv, CopyInv
  <1>16. CloneInv'
    <2>1. \A u \in AllTasks : stage'[u] # "cloned"
      BY <1>3, <1>5
    <2> QED BY <2>1, <1>1, <1>9, <1>14 DEF CloneInv
  <1>17. InheritInv'
    <2>1. \A h \in Snapshot : h \in tracked[0] /\ Live(h) /\ handle[h].state = "valid"
      BY DEF Snapshot, Live, Valid
    <2>2. /\ \A h \in tracked[0] : Live(h) => kfile[Child][handle[h].near] = handle[h].file
          /\ \A fd \in leaked[Child] : kfile[Child][fd] # 0
      BY <1>2 DEF FdInv, ChildInv, CopyInv
    <2> QED BY <2>1, <2>2, <1>1, <1>4 DEF InheritInv
  <1> QED BY <1>7, <1>8, <1>10, <1>11, <1>12, <1>13, <1>15, <1>16, <1>17 DEF FdInv, ChildInv

\* The calls after unshare_files: the unshare is gone, those of N close what table 0 has no handle for.
UnsharedCalls(t, N) ==
    /\ calls' \in [AllTasks -> Seq(SysCall)] /\ Moved(Shift(t), N)
    /\ \A u \in AllTasks : Len(calls'[u]) <= MaxCalls
    /\ \A u \in AllTasks \ {t} : \A i \in 1..Len(calls[u]) : i \in 1..Len(calls'[u]) /\ calls'[u][i] = calls[u][i]
    /\ \A u \in AllTasks : \A i \in 1..Len(calls'[u]) : <<u, i>> \in N =>
         /\ u \in GcTask /\ IsClosing(calls'[u][i]) /\ calls'[u][i].table = 0
         /\ calls'[u][i].fd \in known[0] /\ calls'[u][i].fd \notin known'[0]
         /\ Served(0) => calls'[u][i].file = File(0, calls'[u][i].fd)
    /\ \A u, v \in AllTasks : \A i \in 1..Len(calls'[u]), j \in 1..Len(calls'[v]) :
         <<u, i>> \in N /\ <<v, j>> \in N /\ calls'[u][i].fd = calls'[v][j].fd => u = v /\ i = j
    /\ \A u \in AllTasks : \A i, j \in 1..Len(calls'[u]) : <<u, i>> \in N /\ i < j => <<u, j>> \in N

\* The numbers of table 0 after it.
UnsharedKnown(old) ==
    /\ known' \in [Tables -> SUBSET Fds] /\ \A l \in Tables : known'[l] \subseteq known[l] /\ (l # 0 => known'[l] = known[l])
    /\ \A h \in old : handle[h].near \in known'[0]

\* The unshare returned, and nobody is left to collect the old table.
LEMMA UnshareAlone ==
    ASSUME TableCfg, FdInv, NEW t \in AllTasks, calls[t] # << >>, Popped(t)
    PROVE  UnsharedCalls(t, {})
  <1>1. /\ Moved(Shift(t), {}) /\ \A u \in AllTasks : Len(calls'[u]) <= MaxCalls
    BY PopMoved DEF FdInv, TableCfg, FDTableAssumption
  <1>2. calls' \in [AllTasks -> Seq(SysCall)] /\ \A u \in AllTasks \ {t} : calls'[u] = calls[u]
    BY PoppedCalls DEF FdInv
  <1> QED BY <1>1, <1>2 DEF UnsharedCalls

\* The unshare returned, and u collects what was left in the old table.
LEMMA UnshareCollects ==
    ASSUME TableCfg, FdInv, NEW t \in AllTasks, NEW u \in GcTask, u # t, calls[t] # << >>, NEW q \in Seq(SysCall), Leaves(0, q),
           calls' = [calls EXCEPT ![t] = Tail(@), ![u] = @ \o q], Len(calls[u]) + Len(q) <= MaxCalls
    PROVE  UnsharedCalls(t, Added(u, Len(q)))
  <1> DEFINE N == Added(u, Len(q))  p == calls[u]  r == p \o q  m == Len(p)  n == Len(q)  s == calls[t]  e == Tail(s)
  <1>0. \A v \in AllTasks : calls[v] \in Seq(SysCall) /\ Len(calls[v]) \in Nat /\ Len(calls[v]) <= MaxCalls
    BY DEF FdInv, FdTypes, CallsInv
  <1>1. u \in AllTasks /\ p \in Seq(SysCall) /\ q \in Seq(SysCall) /\ m \in Nat /\ n \in Nat /\ s \in Seq(SysCall) /\ s # << >>
    BY <1>0 DEF GcTask
  <1>2. r \in Seq(SysCall) /\ Len(r) = m + n
    BY ONLY <1>1
  <1>3. \A i \in 1..m : r[i] = p[i]
    BY ONLY <1>1
  <1>4. \A i \in (m + 1)..(m + n) : r[i] = q[i - m] /\ i - m \in 1..n
    BY ONLY <1>1
  <1>5. e \in Seq(SysCall) /\ Len(e) = Len(s) - 1 /\ Len(s) \in Nat /\ \A i \in 1..Len(e) : i + 1 \in 1..Len(s) /\ e[i] = s[i + 1]
    BY ONLY <1>1
  <1>6. calls'[t] = e /\ calls'[u] = r /\ \A v \in AllTasks \ {t, u} : calls'[v] = calls[v]
    BY <1>1 DEF FdInv, FdTypes
  <1>7. calls' \in [AllTasks -> Seq(SysCall)]
    BY <1>1, <1>2, <1>5 DEF FdInv, FdTypes
  <1> HIDE DEF r, e, s, p
  <1>8. \A v \in AllTasks : Len(calls'[v]) <= MaxCalls
    <2>1. Len(calls'[t]) = Len(s) - 1 /\ Len(s) <= MaxCalls /\ MaxCalls \in Nat
      BY <1>0, <1>5, <1>6 DEF s, TableCfg, FDTableAssumption
    <2>2. Len(calls'[u]) <= MaxCalls
      BY <1>2, <1>6 DEF p
    <2>3. Len(calls'[t]) <= MaxCalls
      BY <2>1, <1>5
    <2>4. \A v \in AllTasks \ {t, u} : Len(calls'[v]) <= MaxCalls
      BY <1>0, <1>6
    <2> QED BY <2>2, <2>3, <2>4
  <1>9. \A v \in AllTasks \ {t} : \A i \in 1..Len(calls[v]) : i \in 1..Len(calls'[v]) /\ calls'[v][i] = calls[v][i]
    <2>1. \A i \in 1..m : i \in 1..Len(r) /\ r[i] = p[i]
      BY <1>1, <1>2, <1>3
    <2> QED BY <2>1, <1>6 DEF p
  <1>10. ASSUME NEW v \in AllTasks, NEW i \in 1..Len(calls'[v]), <<v, i>> \in N
         PROVE  v = u /\ i - m \in 1..n /\ calls'[v][i] = q[i - m]
    BY <1>4, <1>6, <1>10 DEF Added, p
  <1>11. ASSUME NEW v \in AllTasks, NEW i \in 1..Len(calls'[v]), <<v, i>> \notin N
         PROVE  i + Shift(t)[v] \in 1..Len(calls[v]) /\ calls'[v][i] = calls[v][i + Shift(t)[v]]
    <2>1. CASE v = t
      <3>1. Shift(t)[v] = 1
        BY <2>1 DEF Shift, Before
      <3> QED BY <3>1, <2>1, <1>5, <1>6 DEF s
    <2>2. CASE v # t
      <3>1. Shift(t)[v] = 0
        BY <2>2 DEF Shift, Before
      <3>2. i \in 1..Len(calls[v])
        <4>1. CASE v = u
          BY <4>1, <1>1, <1>2, <1>6, <1>11 DEF Added, p
        <4>2. CASE v # u
          BY <4>2, <2>2, <1>6
        <4> QED BY <4>1, <4>2
      <3>3. calls'[v][i] = calls[v][i]
        BY <3>2, <2>2, <1>9
      <3>4. i + 0 = i
        OBVIOUS
      <3> QED BY <3>1, <3>2, <3>3, <3>4
    <2> QED BY <2>1, <2>2
  <1>12. Moved(Shift(t), N)
    BY <1>11 DEF Moved
  <1>13. ASSUME NEW v \in AllTasks, NEW i \in 1..Len(calls'[v]), <<v, i>> \in N
         PROVE  /\ v \in GcTask /\ IsClosing(calls'[v][i]) /\ calls'[v][i].table = 0
                /\ calls'[v][i].fd \in known[0] /\ calls'[v][i].fd \notin known'[0]
                /\ Served(0) => calls'[v][i].file = File(0, calls'[v][i].fd)
    <2> DEFINE j == i - m
    <2>1. v = u /\ j \in 1..n /\ calls'[v][i] = q[j]
      BY <1>10, <1>13
    <2> HIDE DEF j
    <2> QED BY <2>1 DEF Leaves, IsClosing
  <1>14. \A v, w \in AllTasks : \A i \in 1..Len(calls'[v]), j \in 1..Len(calls'[w]) :
           <<v, i>> \in N /\ <<w, j>> \in N /\ calls'[v][i].fd = calls'[w][j].fd => v = w /\ i = j
    <2> HIDE DEF N
    <2> TAKE v \in AllTasks, w \in AllTasks
    <2> TAKE i \in 1..Len(calls'[v]), j \in 1..Len(calls'[w])
    <2> HAVE <<v, i>> \in N /\ <<w, j>> \in N /\ calls'[v][i].fd = calls'[w][j].fd
    <2> DEFINE a == i - m  b == j - m
    <2>1. v = u /\ a \in 1..n /\ calls'[v][i] = q[a] /\ w = u /\ b \in 1..n /\ calls'[w][j] = q[b]
      BY <1>10
    <2> HIDE DEF a, b
    <2>2. a = b
      BY <2>1 DEF Leaves
    <2> QED BY <2>1, <2>2, <1>1 DEF a, b
  <1>15. ASSUME NEW v \in AllTasks, NEW i \in 1..Len(calls'[v]), NEW j \in 1..Len(calls'[v]), <<v, i>> \in N, i < j
         PROVE  <<v, j>> \in N
    <2>1. v = u /\ i - m \in 1..n /\ j \in 1..(m + n)
      BY <1>2, <1>6, <1>10, <1>15
    <2>2. j \in (m + 1)..(m + n)
      BY <2>1, <1>1, <1>15
    <2> QED BY <2>1, <2>2 DEF Added, p
  <1> HIDE DEF N
  <1>16. UnsharedCalls(t, N)
    <2>1. \A v \in AllTasks : \A i \in 1..Len(calls'[v]) : <<v, i>> \in N =>
           /\ v \in GcTask /\ IsClosing(calls'[v][i]) /\ calls'[v][i].table = 0
           /\ calls'[v][i].fd \in known[0] /\ calls'[v][i].fd \notin known'[0]
           /\ Served(0) => calls'[v][i].file = File(0, calls'[v][i].fd)
      BY <1>13
    <2>3. \A v \in AllTasks : \A i, j \in 1..Len(calls'[v]) : <<v, i>> \in N /\ i < j => <<v, j>> \in N
      BY <1>15
    <2> QED BY <2>1, <2>3, <1>7, <1>8, <1>9, <1>12, <1>14, Zenon DEF UnsharedCalls
  <1> QED BY <1>16 DEF N

\* unshare_files goes on after the unshare.
LEMMA UnshareReturnsStep ==
    ASSUME TableCfg, FdInv, NEW t \in AllTasks, UnshareReturns(t)
    PROVE  FdInv'
  <1> DEFINE d == Shift(t)  c == calls[t][1]  mine == HandlesBy(t)  old == tracked[0] \ mine
             junk == {fd \in known[0] : \A h \in old : handle[h].near # fd}
  <1>1. /\ calls[t] # << >> /\ Ready(t) /\ Head(calls[t]).op = "unshare" /\ Head(calls[t]).ret # 0
        /\ UNCHANGED <<ktable, kfile, opened, alive, broken, fd_table, inherited, handle, leaked>>
    BY DEF UnshareReturns, kernel
  <1>2. c \in SysCall /\ 1 \in 1..Len(calls[t]) /\ Head(calls[t]) = c
    <2>1. calls[t] \in Seq(SysCall)
      BY DEF FdInv, FdTypes
    <2> QED BY <2>1, <1>1
  <1>3. c.op = "unshare" /\ c.ret # 0
    BY <1>1, <1>2
  <1>4. CallOK(t, 1, c)
    BY <1>2 DEF FdInv, CallsInv
  <1>5. stage[t] = "unsharing" /\ c.ret # 2 /\ ~Waiting(t) /\ t \in alive /\ t \notin broken
    BY <1>1, <1>3, <1>4 DEF CallOK, Ready
  <1>6. fd_table[t] = t /\ t \in Tasks /\ Child = 0 /\ ktable[t] = t
    BY <1>1, <1>5 DEF FdInv, PhaseInv
  <1>7. t \in Tables /\ t # 0 /\ 0 \in Tables /\ Tasks = AllTasks
    BY <1>6, TableFacts
  <1>8. /\ stage' = [stage EXCEPT ![t] = "unshared"] /\ manipulating' = manipulating \ {t} /\ tracked' = [tracked EXCEPT ![0] = old]
        /\ \/ Popped(t) /\ UNCHANGED known
           \/ \E u \in GcTask :
                /\ Len(calls[u]) + Cardinality(junk) <= MaxCalls
                /\ calls' = [calls EXCEPT ![t] = Tail(@), ![u] = @ \o Closes(0, junk)]
                /\ known' = [known EXCEPT ![0] = @ \ junk]
    BY <1>2, <1>5 DEF UnshareReturns, Popped
  <1>9. /\ \A h \in mine : handle[h].task = t
        /\ \A h \in Handles : Live(h) /\ handle[h].task = t => h \in mine
    BY DEF HandlesBy
  <1> HIDE DEF mine, c
  <1>10. \A h \in old : handle[h].near \in known[0]
    BY <1>7 DEF FdInv, TrackedInv
  <1>11. \E N : UnsharedCalls(t, N) /\ UnsharedKnown(old)
    <2>1. CASE Popped(t) /\ UNCHANGED known
      <3>1. UnsharedKnown(old)
        BY <2>1, <1>10 DEF UnsharedKnown, FdInv, FdTypes
      <3> HIDE DEF old
      <3> QED BY <3>1, <2>1, <1>1, UnshareAlone
    <2>2. CASE \E u \in GcTask :
                /\ Len(calls[u]) + Cardinality(junk) <= MaxCalls
                /\ calls' = [calls EXCEPT ![t] = Tail(@), ![u] = @ \o Closes(0, junk)]
                /\ known' = [known EXCEPT ![0] = @ \ junk]
      <3> DEFINE q == Closes(0, junk)
      <3>0. PICK u \in GcTask :
                /\ Len(calls[u]) + Cardinality(junk) <= MaxCalls
                /\ calls' = [calls EXCEPT ![t] = Tail(@), ![u] = @ \o q]
                /\ known' = [known EXCEPT ![0] = @ \ junk]
        BY <2>2
      <3>1. u # t
        BY <1>6, <1>7 DEF GcTask
      <3>2. junk \in SUBSET known[0] /\ (\A h \in old : handle[h].near \notin junk) /\ known' = [known EXCEPT ![0] = known[0] \ junk]
        BY <3>0
      <3> HIDE DEF junk
      <3>3. Closing(0, junk, q)
        BY <3>2, <1>7, ClosesLeave
      <3> HIDE DEF q
      <3>4. q \in Seq(SysCall) /\ Len(q) = Cardinality(junk) /\ Leaves(0, q)
            /\ known' \in [Tables -> SUBSET Fds] /\ known'[0] = known[0] \ junk /\ \A l \in Tables : l # 0 => known'[l] = known[l]
        BY <3>3 DEF Closing
      <3>5. UnsharedKnown(old)
        BY <3>2, <3>4, <1>10 DEF UnsharedKnown
      <3>6. UnsharedCalls(t, Added(u, Len(q)))
        BY <3>0, <3>1, <3>4, <1>1, UnshareCollects
      <3> HIDE DEF old
      <3> QED BY <3>5, <3>6
    <2> QED BY <2>1, <2>2, <1>8
  <1>12. PICK N : UnsharedCalls(t, N) /\ UnsharedKnown(old)
    BY <1>11
  <1> HIDE DEF junk
  <1>13. d \in [AllTasks -> Nat] /\ (\A u \in AllTasks : u # t => d[u] = 0) /\ d[t] = 1
    BY DEF Shift, Before
  <1> HIDE DEF d
  <1>14. calls' \in [AllTasks -> Seq(SysCall)] /\ Moved(d, N) /\ \A u \in AllTasks : Len(calls'[u]) <= MaxCalls
    BY <1>12 DEF UnsharedCalls, d
  <1>15. \A u \in AllTasks \ {t} : \A i \in 1..Len(calls[u]) : i \in 1..Len(calls'[u]) /\ calls'[u][i] = calls[u][i]
    BY <1>12 DEF UnsharedCalls
  <1>16. \A u \in AllTasks : \A i \in 1..Len(calls'[u]) : <<u, i>> \in N =>
           /\ u \in GcTask /\ calls'[u][i].op = "close" /\ calls'[u][i].ret = 0 /\ calls'[u][i].table = 0
           /\ calls'[u][i].fd \in known[0] /\ calls'[u][i].fd \notin known'[0]
           /\ Served(0) => calls'[u][i].file = File(0, calls'[u][i].fd)
    BY <1>12 DEF UnsharedCalls, IsClosing
  <1>17. /\ known' \in [Tables -> SUBSET Fds] /\ \A l \in Tables : known'[l] \subseteq known[l] /\ (l # 0 => known'[l] = known[l])
         /\ \A h \in old : handle[h].near \in known'[0]
    BY <1>12 DEF UnsharedKnown
  <1>18. /\ \A u \in AllTasks : stage'[u] = IF u = t THEN "unshared" ELSE stage[u]
         /\ \A k \in Tables : tracked'[k] = IF k = 0 THEN old ELSE tracked[k]
         /\ \A u \in AllTasks : u \in manipulating' <=> u \in manipulating /\ u # t
         /\ tracked' \in [Tables -> SUBSET Handles] /\ old \in SUBSET tracked[0] /\ tracked[0] \in SUBSET Handles
         /\ stage' \in [AllTasks -> {"none", "unsharing", "unshared", "exec", "clone", "cloned", "done"}]
    BY <1>7, <1>8 DEF FdInv, FdTypes
  <1>19. \A u \in AllTasks : (Waiting(u)' <=> Waiting(u)) /\ (Ready(u)' <=> Ready(u))
    BY <1>1, <1>5, <1>18 DEF Waiting, Ready
  <1>20. FdTypes'
    <2>1. manipulating' \subseteq AllTasks
      BY <1>8 DEF FdInv, FdTypes
    <2> QED BY <2>1, <1>1, <1>14, <1>17, <1>18 DEF FdInv, FdTypes
  <1>21. PhaseInv'
    <2> SUFFICES ASSUME NEW u \in AllTasks
        PROVE  /\ fd_table[u] \in {Home(u), u} /\ ktable[u] \in {0, u}
               /\ Ready(u)' => ktable[u] = IF Waiting(u)' THEN 0 ELSE fd_table[u]
               /\ stage'[u] \in {"none", "clone", "cloned", "exec"} => fd_table[u] = Home(u)
               /\ stage'[u] \in {"unsharing", "unshared"} => u \in alive /\ fd_table[u] = u /\ u \in Tasks /\ Child = 0
               /\ stage'[u] \in {"clone", "cloned"} => u \in alive /\ u \in Tasks /\ Child # 0
               /\ stage'[u] = "unsharing" /\ u \notin broken => calls'[u] # << >> /\ calls'[u][1].op = "unshare"
               /\ stage'[u] = "exec" => u \in alive \/ (calls'[u] # << >> /\ calls'[u][1].op = "exec" /\ calls'[u][1].ret # 0)
               /\ stage'[u] = "exec" /\ u \notin broken => calls'[u] # << >> /\ calls'[u][1].op = "exec"
               /\ stage'[u] \in {"unsharing", "exec"} => u \in manipulating'
               /\ stage'[u] = "none" => u \notin manipulating' /\ (u \in Tasks => u \in alive)
               /\ u \in broken => u \in alive
               /\ u \in manipulating' => stage'[u] \in {"unsharing", "exec"} \/ Faults # {}
      BY <1>1 DEF PhaseInv
    <2>1. CASE u = t
      BY <2>1, <1>5, <1>6, <1>18, <1>19
    <2>2. CASE u # t
      <3>1. /\ stage'[u] = stage[u] /\ (Waiting(u)' <=> Waiting(u)) /\ (Ready(u)' <=> Ready(u)) /\ (u \in manipulating' <=> u \in manipulating)
        BY <2>2, <1>18, <1>19
      <3>2. calls[u] # << >> => calls'[u] # << >> /\ calls'[u][1] = calls[u][1]
        <4> SUFFICES ASSUME calls[u] # << >> PROVE calls'[u] # << >> /\ calls'[u][1] = calls[u][1]
          OBVIOUS
        <4>1. calls[u] \in Seq(SysCall) /\ calls'[u] \in Seq(SysCall)
          BY <1>14 DEF FdInv, FdTypes
        <4>2. 1 \in 1..Len(calls[u])
          BY <4>1
        <4> QED BY <4>1, <4>2, <2>2, <1>15
      <3> QED BY <3>1, <3>2 DEF FdInv, PhaseInv
    <2> QED BY <2>1, <2>2
  <1>22. ASSUME NEW u \in AllTasks, NEW i \in 1..Len(calls'[u]), <<u, i>> \notin N
         PROVE  /\ i + d[u] \in 1..Len(calls[u]) /\ calls'[u][i] = calls[u][i + d[u]] /\ CallOK(u, i + d[u], calls[u][i + d[u]])
                /\ u = t => calls[u][i + d[u]].op \notin {"unshare", "exec", "open"}
    <2>1. i + d[u] \in 1..Len(calls[u]) /\ calls'[u][i] = calls[u][i + d[u]]
      BY <1>14, <1>22 DEF Moved
    <2>2. CallOK(u, i + d[u], calls[u][i + d[u]])
      BY <2>1 DEF FdInv, CallsInv
    <2>3. u = t => i + d[u] # 1
      BY <1>13
    <2> QED BY <2>1, <2>2, <2>3, <1>5 DEF CallOK
  <1>23. CallsInv'
    <2>1. ASSUME NEW u \in AllTasks, NEW i \in 1..Len(calls'[u]) PROVE CallOK(u, i, calls[u][i])'
      <3>1. CASE <<u, i>> \notin N
        <4> DEFINE m == i + d[u]  q == calls[u][m]
        <4>1. m \in 1..Len(calls[u]) /\ calls'[u][i] = q /\ CallOK(u, m, q)
              /\ (u = t => q.op \notin {"unshare", "exec", "open"}) /\ (m = 1 => i = 1)
          <5>1. d[u] \in Nat
            BY <1>13
          <5> QED BY <3>1, <5>1, <1>22
        <4> HIDE DEF m, q
        <4>2. CASE u = t
          BY <4>1, <4>2, <1>1, <1>6, <1>18, <1>19 DEF CallOK
        <4>3. CASE u # t
          BY <4>1, <4>3, <1>1, <1>18, <1>19 DEF CallOK
        <4> QED BY <4>2, <4>3
      <3>2. CASE <<u, i>> \in N
        <4>1. u \in GcTask /\ calls'[u][i].op = "close" /\ calls'[u][i].ret = 0 /\ calls'[u][i].table = 0 /\ calls'[u][i].fd \in Fds
          BY <3>2, <1>7, <1>16 DEF FdInv, FdTypes
        <4>2. fd_table[u] = 0 /\ Home(u) = 0
          BY <4>1, <1>7, TableFacts DEF GcTask
        <4> QED BY <4>1, <4>2, <1>1 DEF CallOK
      <3> QED BY <3>1, <3>2
    <2>2. ASSUME NEW u \in AllTasks, NEW i \in 1..Len(calls'[u]), NEW j \in 1..Len(calls'[u]), i < j, calls'[u][j].ret # 0
          PROVE  calls'[u][i].ret # 0
      <3>1. <<u, j>> \notin N /\ <<u, i>> \notin N
        BY <2>2, <1>12, <1>16 DEF UnsharedCalls
      <3>2. /\ i + d[u] \in 1..Len(calls[u]) /\ calls'[u][i] = calls[u][i + d[u]]
            /\ j + d[u] \in 1..Len(calls[u]) /\ calls'[u][j] = calls[u][j + d[u]] /\ i + d[u] < j + d[u]
        BY SMTT(30), <2>2, <3>1, <1>13, <1>22
      <3> QED BY <3>2, <2>2 DEF FdInv, CallsInv
    <2> QED BY <2>1, <2>2, <1>14 DEF CallsInv
  <1>24. TrackedInv'
    <2>1. ASSUME NEW k \in Tables, NEW h \in tracked'[k]
          PROVE  /\ handle[h].state # "free" /\ handle[h].near \in known'[k]
                 /\ IF k = 0 THEN handle[h].task \in Tasks ELSE handle[h].task = k
      <3>1. h \in tracked[k]
        BY <1>18
      <3>2. handle[h].near \in known'[k]
        BY <3>1, <1>17, <1>18 DEF FdInv, TrackedInv
      <3> QED BY <3>1, <3>2 DEF FdInv, TrackedInv
    <2>2. ASSUME NEW h \in Handles, Live(h)
          PROVE  h \in tracked'[fd_table[handle[h].task]] /\ (Waiting(handle[h].task)' => h \in tracked'[0])
      <3>1. handle[h].task \in AllTasks
        BY <2>2 DEF FdInv, FdTypes, Live
      <3>2. h \in tracked[fd_table[handle[h].task]] /\ (Waiting(handle[h].task) => h \in tracked[0]) /\ fd_table[handle[h].task] \in Tables
        BY <2>2, <3>1 DEF FdInv, TrackedInv, FdTypes
      <3>3. Waiting(handle[h].task)' => Waiting(handle[h].task) /\ handle[h].task # t
        BY <3>1, <1>1, <1>5, <1>18 DEF Waiting
      <3>4. fd_table[handle[h].task] = 0 => handle[h].task # t
        BY <1>6, <1>7
      <3>5. Waiting(handle[h].task)' => h \in tracked'[0]
        BY <3>2, <3>3, <1>7, <1>9, <1>18
      <3>6. h \in tracked'[fd_table[handle[h].task]]
        BY <3>2, <3>4, <1>7, <1>9, <1>18
      <3> QED BY <3>5, <3>6
    <2> QED BY <2>1, <2>2, <1>1 DEF TrackedInv, Live, Waiting
  <1>25. UseInv'
    <2>1. \A u \in AllTasks : \A i \in 1..Len(calls'[u]) : <<u, i>> \in N => calls'[u][i].op # "use"
      BY <1>16
    <2> QED BY <2>1, <1>1, <1>13, <1>14, UseKept DEF FdInv
  <1>26. TablesInv'
    <2> SUFFICES ASSUME NEW k \in Tables, Served(k)' PROVE TableInv(k)'
      BY DEF TablesInv, TableInv
    <2>0. k = 0 \/ k \in AllTasks
      BY TableFacts
    <2>1. Served(k) /\ TableInv(k) /\ Fds \subseteq Nat
      BY <1>1, TableFacts DEF Served, Ready, FdInv, TablesInv
    <2>2. Waiting(k)' <=> Waiting(k)
      <3>1. CASE k = 0
        BY <3>1 DEF Waiting
      <3>2. CASE k \in AllTasks
        BY <3>2, <1>19
      <3> QED BY <2>0, <3>1, <3>2
    <2>3. ASSUME NEW fd, Waiting(k), Kept(k, fd) PROVE Kept(k, fd)'
      <3>1. PICK h \in tracked[0] : handle[h].near = fd /\ handle[h].task = k
        BY <2>3 DEF Kept
      <3>2. k # t
        BY <2>3, <1>5
      <3>3. h \in tracked'[0]
        BY <3>1, <3>2, <1>7, <1>9, <1>18
      <3> QED BY <3>1, <3>3, <1>1 DEF Kept
    <2>4. \A fd : (Safe(k, fd) => Safe(k, fd)') /\ File(k, fd)' = File(k, fd)
      BY <2>2, <2>3, <1>1 DEF Safe, File, Kernel
    <2>6. OldCalls(k, d, {}, N)
      BY <1>1, <1>13, <1>14, OldKept
    <2>7. NewCalls(k, N)
      <3>1. ASSUME NEW u \in AllTasks, NEW i \in 1..Len(calls'[u]), NEW fd \in Nat, <<u, i>> \in N, Claims(u, calls[u][i], k, fd)'
            PROVE  k = 0 /\ fd = calls'[u][i].fd /\ fd \in known[k] /\ fd \notin known'[k] /\ calls'[u][i].file = File(k, fd)
        <4>1. calls'[u][i].op = "close" /\ calls'[u][i].table = 0
          BY <3>1, <1>16
        <4>2. k = 0 /\ fd = calls'[u][i].fd
          BY <4>1, <3>1 DEF Claims, IsClosing, IsGiven
        <4> QED BY <4>2, <2>1, <3>1, <1>16
      <3>2. \A u, v \in AllTasks : \A i \in 1..Len(calls'[u]), j \in 1..Len(calls'[v]) : \A fd \in Nat :
              /\ <<u, i>> \in N /\ <<v, j>> \in N
              /\ Claims(u, calls[u][i], k, fd)' /\ Claims(v, calls[v][j], k, fd)'
              => u = v /\ i = j
        <4> TAKE u \in AllTasks, v \in AllTasks
        <4> TAKE i \in 1..Len(calls'[u]), j \in 1..Len(calls'[v])
        <4> TAKE fd \in Nat
        <4> HAVE /\ <<u, i>> \in N /\ <<v, j>> \in N
                 /\ Claims(u, calls[u][i], k, fd)' /\ Claims(v, calls[v][j], k, fd)'
        <4>1. fd = calls'[u][i].fd /\ fd = calls'[v][j].fd
          BY <3>1
        <4>2. \A a, b \in AllTasks : \A m \in 1..Len(calls'[a]), n \in 1..Len(calls'[b]) :
                <<a, m>> \in N /\ <<b, n>> \in N /\ calls'[a][m].fd = calls'[b][n].fd => a = b /\ m = n
          BY <1>12, Zenon DEF UnsharedCalls
        <4> QED BY <4>1, <4>2
      <3> QED BY <3>1, <3>2 DEF NewCalls
    <2>8. KnownStep(k, {}) /\ ClosedStep(k, {}, {}) /\ SafeStep(k, {})
      BY <2>4, <1>17 DEF KnownStep, ClosedStep, SafeStep
    <2>9. HandleStep(k)
      <3> SUFFICES ASSUME NEW h \in Handles, Live(h), fd_table[handle[h].task] = k
          PROVE  handle[h].near \in known'[k] /\ Safe(k, handle[h].near) /\ File(k, handle[h].near) = handle[h].file
        BY <1>1 DEF HandleStep, Live
      <3>1. h \in tracked[k]
        BY DEF FdInv, TrackedInv
      <3>2. k = 0 => handle[h].task # t
        BY <1>6, <1>7
      <3>3. handle[h].near \in known'[k]
        BY <3>1, <3>2, <1>9, <1>17 DEF FdInv, TrackedInv
      <3> QED BY <2>1, <3>3 DEF TableInv
    <2> HIDE DEF old
    <2> QED BY <2>1, <2>6, <2>7, <2>8, <2>9, <1>13, <1>14, <1>20, TableStep DEF FdInv
  <1>27. ChildInv' /\ InheritInv'
    BY <1>6, <1>20, <1>21, <1>23, NoChild
  <1> QED BY <1>20, <1>21, <1>23, <1>24, <1>25, <1>26, <1>27 DEF FdInv

\* The kernel performed the i-th call of t; it returns r.
Performs(t, i, r) ==
    /\ Ready(t) /\ i \in 1..Len(calls[t]) /\ calls[t][i].ret = 0 /\ (i > 1 => calls[t][i - 1].ret # 0)
    /\ r \in Nat \ {0} /\ Returned(t, i, r)

-----------------------------------------------------------------------------
(* The kernel performs a call                                              *)

\* The kernel performed the i-th call of t; it returns r.
Performed(t, i, r) ==
    /\ calls' \in [AllTasks -> Seq(SysCall)] /\ \A u \in AllTasks : Len(calls'[u]) = Len(calls[u])
    /\ \A u \in AllTasks : \A j \in 1..Len(calls[u]) :
         /\ <<u, j>> # <<t, i>> => calls'[u][j] = calls[u][j]
         /\ calls'[u][j].op = calls[u][j].op /\ calls'[u][j].fd = calls[u][j].fd /\ calls'[u][j].file = calls[u][j].file
         /\ calls'[u][j].table = calls[u][j].table /\ calls'[u][j].handles = calls[u][j].handles
    /\ calls'[t][i].ret = r

\* The call that the kernel performs is the first that it has not, and the only one
\* that changes.
LEMMA PerformCalls ==
    ASSUME TableCfg, FdInv, NEW t \in AllTasks, NEW i, NEW r, Performs(t, i, r)
    PROVE  /\ Performed(t, i, r) /\ Still \in [AllTasks -> Nat] /\ Moved(Still, {<<t, i>>}) /\ calls[t][i] \in SysCall
           /\ \A u \in AllTasks : \A a, b \in 1..Len(calls'[u]) : a < b /\ calls'[u][b].ret # 0 => calls'[u][a].ret # 0
           /\ \A j \in 1..Len(calls[t]) : i < j => calls[t][j].ret = 0
           /\ \A u \in AllTasks : calls[u] # << >> =>
                calls'[u] # << >> /\ calls'[u][1].op = calls[u][1].op /\ (calls[u][1].ret # 0 => calls'[u][1].ret # 0)
           /\ calls[t][1].ret = 0 => i = 1
           /\ Waiting(t) => calls[t][i].op = "unshare"
  <1>0. /\ i \in 1..Len(calls[t]) /\ calls[t][i].ret = 0 /\ (i > 1 => calls[t][i - 1].ret # 0) /\ r \in Nat \ {0} /\ Returned(t, i, r) /\ Ready(t)
    BY DEF Performs
  <1>1. /\ calls' \in [AllTasks -> Seq(SysCall)]
        /\ \A u \in AllTasks : Len(calls'[u]) = Len(calls[u])
        /\ \A u \in AllTasks : \A j \in 1..Len(calls[u]) : <<u, j>> # <<t, i>> => calls'[u][j] = calls[u][j]
        /\ calls'[t][i] = [calls[t][i] EXCEPT !.ret = r]
        /\ \A u \in AllTasks \ {t} : calls'[u] = calls[u]
    BY <1>0, ReturnedCalls DEF FdInv
  <1> DEFINE c == calls[t][i]  e == calls'[t][i]
  <1>2. c \in SysCall
    BY <1>0 DEF FdInv, FdTypes
  <1>3. e.op = c.op /\ e.fd = c.fd /\ e.file = c.file /\ e.table = c.table /\ e.handles = c.handles /\ e.ret = r
    BY <1>1, <1>2 DEF SysCall
  <1> HIDE DEF c, e
  <1>4. ASSUME NEW u \in AllTasks, NEW j \in 1..Len(calls[u])
        PROVE  /\ <<u, j>> # <<t, i>> => calls'[u][j] = calls[u][j]
               /\ calls'[u][j].op = calls[u][j].op /\ calls'[u][j].fd = calls[u][j].fd /\ calls'[u][j].file = calls[u][j].file
               /\ calls'[u][j].table = calls[u][j].table /\ calls'[u][j].handles = calls[u][j].handles
    <2>1. CASE <<u, j>> # <<t, i>>
      BY <2>1, <1>1
    <2>2. CASE u = t /\ j = i
      BY <2>2, <1>3 DEF c, e
    <2> QED BY <2>1, <2>2
  <1>5. Performed(t, i, r)
    BY <1>1, <1>3, <1>4 DEF Performed, e
  <1>6. Still \in [AllTasks -> Nat] /\ Moved(Still, {<<t, i>>})
    <2>1. Still \in [AllTasks -> Nat] /\ \A u \in AllTasks : Still[u] = 0
      BY DEF Still
    <2>2. \A u \in AllTasks : \A j \in 1..Len(calls[u]) : j + Still[u] = j
      BY <2>1
    <2> QED BY <2>1, <2>2, <1>1 DEF Moved
  <1>7. \A u \in AllTasks : \A a, b \in 1..Len(calls[u]) : a < b /\ calls[u][b].ret # 0 => calls[u][a].ret # 0
    BY DEF FdInv, CallsInv
  <1>8. \A j \in 1..Len(calls[t]) : i < j => calls[t][j].ret = 0
    BY <1>0, <1>7
  <1>9. \A j \in 1..Len(calls[t]) : j < i => calls[t][j].ret # 0
    <2> SUFFICES ASSUME NEW j \in 1..Len(calls[t]), j < i PROVE calls[t][j].ret # 0
      OBVIOUS
    <2> DEFINE m == i - 1
    <2>1. m \in 1..Len(calls[t]) /\ calls[t][m].ret # 0 /\ (j = m \/ j < m)
      BY <1>0
    <2> HIDE DEF m
    <2> QED BY <2>1, <1>7
  <1>10. ASSUME NEW u \in AllTasks, NEW a \in 1..Len(calls'[u]), NEW b \in 1..Len(calls'[u]), a < b, calls'[u][b].ret # 0
         PROVE  calls'[u][a].ret # 0
    <2>0. a \in 1..Len(calls[u]) /\ b \in 1..Len(calls[u])
      BY <1>1
    <2>1. CASE u = t /\ a = i
      BY <2>1, <1>0, <1>3 DEF e
    <2>2. CASE u = t /\ b = i
      BY <2>0, <2>2, <1>1, <1>9, <1>10
    <2>3. CASE u # t \/ (a # i /\ b # i)
      <3>1. calls'[u][a] = calls[u][a] /\ calls'[u][b] = calls[u][b]
        BY <2>0, <2>3, <1>1
      <3> QED BY <3>1, <2>0, <1>7, <1>10
    <2> QED BY <2>1, <2>2, <2>3
  <1>11. ASSUME NEW u \in AllTasks, calls[u] # << >>
         PROVE  calls'[u] # << >> /\ calls'[u][1].op = calls[u][1].op /\ (calls[u][1].ret # 0 => calls'[u][1].ret # 0)
    <2>1. calls[u] \in Seq(SysCall) /\ calls'[u] \in Seq(SysCall)
      BY <1>1 DEF FdInv, FdTypes
    <2>2. 1 \in 1..Len(calls[u]) /\ calls'[u] # << >>
      BY <2>1, <1>1, <1>11
    <2>3. calls'[u][1].op = calls[u][1].op
      BY <2>2, <1>4
    <2>4. CASE u = t /\ i = 1
      BY <2>2, <2>3, <2>4, <1>0, <1>3 DEF e
    <2>5. CASE ~(u = t /\ i = 1)
      BY <2>2, <2>3, <2>5, <1>1
    <2> QED BY <2>4, <2>5
  <1>12. calls[t][1].ret = 0 => i = 1
    <2>1. 1 \in 1..Len(calls[t]) /\ (i # 1 => 1 < i)
      BY <1>0
    <2> QED BY <2>1, <1>9
  <1>13. Waiting(t) => c.op = "unshare"
    <2> SUFFICES ASSUME Waiting(t) PROVE c.op = "unshare"
      OBVIOUS
    <2>1. calls[t] # << >> /\ calls[t][1].op = "unshare" /\ t \notin broken
      BY DEF Waiting, FdInv, PhaseInv
    <2>2. 1 \in 1..Len(calls[t])
      BY <1>0
    <2>3. calls[t][1].ret = 0
      BY <2>1, <2>2 DEF FdInv, CallsInv, CallOK
    <2> QED BY <2>1, <2>3, <1>12 DEF c
  <1> QED BY <1>2, <1>5, <1>6, <1>8, <1>10, <1>11, <1>12, <1>13 DEF c

\* Performing a call keeps the handles that calls hold.
LEMMA PerformedUse ==
    ASSUME FdInv, NEW t, NEW i, NEW r, Performed(t, i, r), handle' = handle
    PROVE  UseInv'
  <1>1. \A u \in AllTasks : Len(calls'[u]) = Len(calls[u])
    BY DEF Performed
  <1>2. \A u \in AllTasks : \A j \in 1..Len(calls[u]) :
           /\ calls'[u][j].op = calls[u][j].op /\ calls'[u][j].fd = calls[u][j].fd /\ calls'[u][j].file = calls[u][j].file
           /\ calls'[u][j].handles = calls[u][j].handles
    BY DEF Performed
  <1>3. ASSUME NEW u \in AllTasks, NEW j \in 1..Len(calls'[u]), calls'[u][j].op = "use"
        PROVE  \E b \in Handles : /\ calls'[u][j].handles = {b} /\ handle[b].state = "borrowed" /\ handle[b].task = u
                                  /\ handle[b].near = calls'[u][j].fd /\ handle[b].file = calls'[u][j].file
    <2>1. j \in 1..Len(calls[u]) /\ calls[u][j].op = "use"
      BY <1>1, <1>2, <1>3
    <2>2. PICK b \in Handles : /\ calls[u][j].handles = {b} /\ handle[b].state = "borrowed" /\ handle[b].task = u
                               /\ handle[b].near = calls[u][j].fd /\ handle[b].file = calls[u][j].file
      BY <2>1 DEF FdInv, UseInv
    <2> QED BY <2>1, <2>2, <1>2
  <1>4. ASSUME NEW u \in AllTasks, NEW v \in AllTasks, NEW j \in 1..Len(calls'[u]), NEW m \in 1..Len(calls'[v]),
               calls'[u][j].op = "use", calls'[v][m].op = "use", calls'[u][j].handles = calls'[v][m].handles
        PROVE  u = v /\ j = m
    <2>1. j \in 1..Len(calls[u]) /\ m \in 1..Len(calls[v])
      BY <1>1
    <2>2. calls[u][j].op = "use" /\ calls[v][m].op = "use" /\ calls[u][j].handles = calls[v][m].handles
      BY <2>1, <1>2, <1>4
    <2> QED BY <2>1, <2>2 DEF FdInv, UseInv
  <1> QED BY <1>3, <1>4 DEF UseInv

\* Performing a call keeps the client's side, and the phase of its task.
LEMMA PerformKeeps ==
    ASSUME TableCfg, FdInv, NEW t \in AllTasks, NEW i, NEW r, Performs(t, i, r),
           UNCHANGED <<phase, manipulating, known, tracked, inherited, handle>>,
           CallOK(t, i, calls'[t][i]), calls[t][i].op # "clone"
    PROVE  PhaseInv' /\ CallsInv' /\ CloneInv' /\ UseInv' /\ TrackedInv' /\ NewInv'
  <1> DEFINE N == {<<t, i>>}
  <1>1. /\ Performed(t, i, r) /\ Still \in [AllTasks -> Nat] /\ Moved(Still, N) /\ calls[t][i] \in SysCall
        /\ \A u \in AllTasks : \A a, b \in 1..Len(calls'[u]) : a < b /\ calls'[u][b].ret # 0 => calls'[u][a].ret # 0
        /\ \A u \in AllTasks : calls[u] # << >> =>
             calls'[u] # << >> /\ calls'[u][1].op = calls[u][1].op /\ (calls[u][1].ret # 0 => calls'[u][1].ret # 0)
    BY PerformCalls
  <1>2. /\ calls' \in [AllTasks -> Seq(SysCall)] /\ \A u \in AllTasks : Len(calls'[u]) = Len(calls[u])
        /\ \A u \in AllTasks : \A j \in 1..Len(calls[u]) : calls'[u][j].op = calls[u][j].op
        /\ \A u \in AllTasks : \A j \in 1..Len(calls[u]) : <<u, j>> # <<t, i>> => calls'[u][j] = calls[u][j]
    BY <1>1 DEF Performed
  <1>3. \A u \in AllTasks : \A j \in 1..Len(calls'[u]) : <<u, j>> \in N => u = t /\ j = i
    OBVIOUS
  <1>4. i \in 1..Len(calls[t]) /\ Ready(t)
    BY DEF Performs
  <1>5. \A u \in AllTasks : Len(calls'[u]) <= MaxCalls
    BY <1>2 DEF FdInv, CallsInv
  <1>6. \A u \in AllTasks : \A j \in 1..Len(calls[u]) : <<u, j>> \notin N => calls'[u][j] = calls[u][j]
    BY <1>2
  <1> HIDE DEF N
  <1>7. PhaseInv'
    BY <1>1, PhaseKept DEF FdInv
  <1>8. CallsInv'
    <2>1. \A u \in AllTasks : \A j \in 1..Len(calls'[u]) : <<u, j>> \in N => CallOK(u, j, calls'[u][j])
      BY <1>3
    <2> QED BY <2>1, <1>1, <1>5, CallsKept DEF FdInv
  <1>9. CloneInv'
    <2>1. \A u \in AllTasks : \A j \in 1..Len(calls'[u]) : <<u, j>> \in N => calls'[u][j].op # "clone"
      BY <1>2, <1>3, <1>4
    <2>2. \A u \in Tasks \ broken : \A j \in 1..Len(calls[u]) : calls[u][j].op = "clone" => \E m \in 1..Len(calls'[u]) : calls'[u][m] = calls[u][j]
      <3> SUFFICES ASSUME NEW u \in Tasks \ broken, NEW j \in 1..Len(calls[u]), calls[u][j].op = "clone"
          PROVE  \E m \in 1..Len(calls'[u]) : calls'[u][m] = calls[u][j]
        OBVIOUS
      <3>1. u \in AllTasks /\ <<u, j>> # <<t, i>>
        BY TableFacts
      <3>2. calls'[u][j] = calls[u][j] /\ j \in 1..Len(calls'[u])
        BY <3>1, <1>2
      <3> QED BY <3>2
    <2> QED BY <2>1, <2>2, <1>1, TableFacts, CloneKept DEF FdInv, ChildInv
  <1>10. UseInv'
    BY <1>1, PerformedUse
  <1>11. TrackedInv'
    BY DEF FdInv, TrackedInv, Live, Waiting, phase
  <1>12. NewInv'
    <2> SUFFICES ASSUME NewChild PROVE NewInv'
      BY DEF NewInv, NewChild, phase
    <2>1. Child \in AllTasks
      BY TableFacts DEF NewChild
    <2>2. Len(calls'[Child]) = 0 /\ calls'[Child] \in Seq(SysCall)
      BY <2>1, <1>2 DEF FdInv, ChildInv, NewInv
    <2>3. calls'[Child] = << >>
      BY <2>2
    <2> QED BY <2>3 DEF FdInv, ChildInv, NewInv, phase
  <1> QED BY <1>7, <1>8, <1>9, <1>10, <1>11, <1>12

\* A set of numbers that has a member has a least one.
LEMMA HasLeast ==
    ASSUME NEW S \in SUBSET Nat, S # {}
    PROVE  \E d \in S : \A e \in S : d <= e
  <1> DEFINE R == OpToRel(<, Nat)
  <1>1. IsWellFoundedOn(R, Nat)
    BY NatLessThanWellFounded
  <1>2. R = {ss \in Nat \X Nat : ss[1] < ss[2]}
    BY DEF OpToRel
  <1> HIDE DEF R
  <1>3. PICK d \in S : \A y \in S : ~ (<<y, d>> \in R)
    BY <1>1, WFMin
  <1>4. ASSUME NEW e \in S PROVE d <= e
    <2>1. ~ (<<e, d>> \in R) /\ <<e, d>> \in Nat \X Nat /\ e \in Nat /\ d \in Nat
      BY <1>3
    <2>2. ~ (e < d)
      BY <2>1, <1>2
    <2> QED BY <2>1, <2>2
  <1> QED BY <1>4

\* The table that the calls of t meet.
LEMMA OwnTable ==
    ASSUME TableCfg, FdInv, NEW t \in AllTasks, Ready(t), ~Waiting(t)
    PROVE  /\ ktable[t] = fd_table[t] /\ fd_table[t] \in Tables /\ ~Waiting(fd_table[t]) /\ Kernel(fd_table[t]) = fd_table[t]
           /\ Served(fd_table[t]) /\ (fd_table[t] = 0 => t \in Tasks)
           /\ \A l \in Tables : Kernel(l) = fd_table[t] /\ l # fd_table[t] => Waiting(l) /\ fd_table[t] = 0
           /\ NewChild => fd_table[t] # Child /\ t # Child
  <1>1. ktable[t] = fd_table[t] /\ fd_table[t] \in Tables /\ fd_table[t] \in {Home(t), t}
    BY DEF FdInv, FdTypes, PhaseInv
  <1>2. Home(t) \in {0, t} /\ (Home(t) = 0 <=> t \in Tasks) /\ t # 0
    BY TableFacts
  <1>3. ~Waiting(fd_table[t])
    BY <1>1, <1>2 DEF Waiting
  <1>4. Served(fd_table[t])
    BY TaskServed DEF FdInv
  <1>5. \A l \in Tables : Kernel(l) = fd_table[t] /\ l # fd_table[t] => Waiting(l) /\ fd_table[t] = 0
    BY DEF Kernel
  <1>6. NewChild => t # Child
    BY DEF NewChild, Ready
  <1>7. NewChild => fd_table[t] # Child
    BY <1>1, <1>2, <1>6 DEF NewChild
  <1> QED BY <1>1, <1>2, <1>3, <1>4, <1>5, <1>6, <1>7 DEF Kernel

\* The kernel opens a file, at the lowest number that is free.
LEMMA PerformOpenStep ==
    ASSUME TableCfg, FdInv, NEW t \in AllTasks, Ready(t), NEW i \in 1..Len(calls[t]), calls[t][i].ret = 0,
           i > 1 => calls[t][i - 1].ret # 0, PerformOpen(t, i), UNCHANGED <<client, broken, manipulating, stage>>
    PROVE  FdInv'
  <1> DEFINE k == ktable[t]  free == Fds \ OpenFds(k)  fd == CHOOSE f \in free : \A g \in free : f <= g
             c == calls[t][i]  e == calls'[t][i]  N == {<<t, i>>}
  <1>1. /\ c.op = "open" /\ free # {} /\ opened' = opened + 1 /\ kfile' = [kfile EXCEPT ![k][fd] = opened + 1] /\ Returned(t, i, fd)
        /\ UNCHANGED <<phase, manipulating, known, tracked, inherited, handle, leaked>>
    BY DEF PerformOpen, phase, client
  <1>2. fd \in Fds /\ kfile[k][fd] = 0 /\ fd \in Nat \ {0}
    <2>1. free \in SUBSET Nat
      BY TableFacts
    <2>2. \E f \in free : \A g \in free : f <= g
      BY <2>1, <1>1, HasLeast
    <2>3. fd \in free
      BY <2>2
    <2> HIDE DEF fd
    <2> QED BY <2>3, TableFacts DEF OpenFds
  <1> HIDE DEF free, fd
  <1>3. Performs(t, i, fd)
    BY <1>1, <1>2 DEF Performs
  <1>4. /\ Performed(t, i, fd) /\ Still \in [AllTasks -> Nat] /\ Moved(Still, N) /\ c \in SysCall
        /\ \A u \in AllTasks : \A a, b \in 1..Len(calls'[u]) : a < b /\ calls'[u][b].ret # 0 => calls'[u][a].ret # 0
        /\ \A j \in 1..Len(calls[t]) : i < j => calls[t][j].ret = 0
        /\ Waiting(t) => c.op = "unshare"
    BY <1>3, PerformCalls
  <1>5. /\ calls' \in [AllTasks -> Seq(SysCall)] /\ \A u \in AllTasks : Len(calls'[u]) = Len(calls[u])
        /\ e.op = c.op /\ e.fd = c.fd /\ e.file = c.file /\ e.table = c.table /\ e.handles = c.handles /\ e.ret = fd
        /\ \A u \in AllTasks : \A j \in 1..Len(calls[u]) : <<u, j>> # <<t, i>> => calls'[u][j] = calls[u][j]
    BY <1>4 DEF Performed
  <1>6. CallOK(t, i, c)
    BY DEF FdInv, CallsInv
  <1> HIDE DEF c, e
  <1>7. /\ k = fd_table[t] /\ k \in Tables /\ ~Waiting(k) /\ Kernel(k) = k /\ Served(k) /\ (k = 0 => t \in Tasks)
        /\ \A l \in Tables : Kernel(l) = k /\ l # k => Waiting(l) /\ k = 0
        /\ NewChild => k # Child /\ t # Child
    BY <1>1, <1>4, OwnTable
  <1>8. CallOK(t, i, e)
    BY <1>1, <1>5, <1>6 DEF CallOK, Ready
  <1>9. PhaseInv' /\ CallsInv' /\ CloneInv' /\ UseInv' /\ TrackedInv' /\ NewInv'
    BY <1>1, <1>3, <1>8, PerformKeeps DEF c, e
  <1> HIDE DEF k
  <1>10. kfile' \in [Tables -> [Fds -> Nat]] /\ kfile'[k][fd] # 0
         /\ \A l \in Tables : \A f \in Fds : ~(l = k /\ f = fd) => kfile'[l][f] = kfile[l][f]
    BY <1>1, <1>2, <1>7 DEF FdInv, FdTypes
  <1>11. FdTypes'
    BY <1>1, <1>5, <1>10 DEF FdInv, FdTypes, phase
  <1>12. \A l \in Tables : Waiting(l)' <=> Waiting(l)
    BY <1>1 DEF Waiting, phase
  <1>13. \A l \in Tables : Kernel(l)' = Kernel(l) /\ Kernel(l) \in Tables
    BY <1>12, TableFacts DEF Kernel
  <1>14. TablesInv'
    <2> SUFFICES ASSUME NEW l \in Tables, Served(l)' PROVE TableInv(l)'
      BY DEF TablesInv, TableInv
    <2>1. Served(l) /\ TableInv(l) /\ Fds \subseteq Nat
      BY <1>1, TableFacts DEF Served, Ready, FdInv, TablesInv, phase
    <2>2. OldCalls(l, Still, {}, N)
      BY <1>1, <1>4, OldKept DEF phase
    <2>3. SafeStep(l, {})
      <3> SUFFICES ASSUME NEW f \in Fds, Safe(l, f) PROVE Safe(l, f)' /\ File(l, f)' = File(l, f)
        BY DEF SafeStep
      <3>1. kfile[Kernel(l)][f] # 0
        BY DEF Safe, File
      <3>2. kfile'[Kernel(l)][f] = kfile[Kernel(l)][f]
        BY <3>1, <1>2, <1>10, <1>13
      <3>3. File(l, f)' = File(l, f)
        BY <3>2, <1>13 DEF File
      <3> QED BY <3>3, <1>1, <1>12 DEF Safe, Kept
    <2>4. ASSUME NEW m \in Tables, NEW f \in Nat, m = k, f = fd PROVE ~Safe(m, f) /\ Safe(m, f)'
      <3>1. Kernel(m) = m /\ Kernel(m)' = m /\ ~Waiting(m) /\ ~Waiting(m)'
        BY <2>4, <1>7, <1>12, <1>13
      <3>2. kfile[m][f] = 0 /\ kfile'[m][f] # 0 /\ f \in Fds
        BY <2>4, <1>2, <1>10
      <3>3. kfile[Kernel(m)][f] = 0 /\ kfile'[Kernel(m)'][f] # 0
        BY <3>1, <3>2
      <3> QED BY <3>1, <3>2, <3>3 DEF Safe, File
    <2>5. NewCalls(l, N)
      <3>1. ASSUME NEW u \in AllTasks, NEW j \in 1..Len(calls'[u]), NEW f \in Nat, <<u, j>> \in N, Claims(u, calls[u][j], l, f)'
            PROVE  u = t /\ j = i /\ ~Safe(l, f) /\ Safe(l, f)' /\ ~IsClosing(calls'[u][j])
        <4>1. u = t /\ j = i /\ calls'[u][j] = e
          BY <3>1 DEF e
        <4>2. l = k /\ f = fd /\ ~IsClosing(e)
          BY <4>1, <3>1, <1>1, <1>5, <1>7 DEF Claims, IsClosing, IsGiven, phase
        <4> QED BY <4>1, <4>2, <2>4
      <3> HIDE DEF N
      <3>2. \A u, v \in AllTasks : \A a \in 1..Len(calls'[u]), b \in 1..Len(calls'[v]) : \A f \in Nat :
              /\ <<u, a>> \in N /\ <<v, b>> \in N
              /\ Claims(u, calls[u][a], l, f)' /\ Claims(v, calls[v][b], l, f)'
              => u = v /\ a = b
        BY <3>1
      <3> QED BY <3>1, <3>2 DEF NewCalls
    <2>6. KnownStep(l, {}) /\ ClosedStep(l, {}, {})
      BY <1>1 DEF KnownStep, ClosedStep
    <2>7. HandleStep(l)
      <3> SUFFICES ASSUME NEW h \in Handles, Live(h), fd_table[handle[h].task] = l
          PROVE  handle[h].near \in known[l] /\ Safe(l, handle[h].near) /\ File(l, handle[h].near) = handle[h].file
        BY <1>1 DEF HandleStep, Live, phase
      <3>1. h \in tracked[l]
        BY DEF FdInv, TrackedInv
      <3> QED BY <3>1, <2>1 DEF FdInv, TrackedInv, TableInv
    <2> HIDE DEF N
    <2> QED BY <2>1, <2>2, <2>3, <2>5, <2>6, <2>7, <1>4, <1>11, TableStep DEF FdInv
  <1>15. (Copied' <=> Copied) /\ (NewChild' <=> NewChild) /\ (Child # 0 => Child \in Tables /\ Child \in AllTasks) /\ 0 \in Tables
    BY <1>1, TableFacts DEF Copied, NewChild, phase
  <1>16. CopyInv'
    <2> SUFFICES ASSUME Copied
        PROVE  /\ \A h \in tracked[0] : Live(h) => kfile'[Child][handle[h].near] = handle[h].file
               /\ \A u \in Tasks \ broken : \A a, b \in 1..Len(calls'[u]) : IsGiven(calls'[u][a]) /\ HasClone(u, a, b)' =>
                    kfile'[Child][calls'[u][a].ret] = kfile'[0][calls'[u][a].ret]
               /\ \A f \in leaked[Child] : kfile'[Child][f] # 0
      BY <1>1, <1>15 DEF CopyInv, IsGiven, Live, phase
    <2>1. Child \in Tables /\ kfile'[Child] = kfile[Child]
      BY <1>1, <1>7, <1>15 DEF Copied, NewChild, FdInv, FdTypes
    <2>2. ASSUME NEW u \in Tasks \ broken, NEW a \in 1..Len(calls'[u]), NEW b \in 1..Len(calls'[u]),
                 IsGiven(calls'[u][a]), HasClone(u, a, b)'
          PROVE  kfile[Child][calls'[u][a].ret] = kfile'[0][calls'[u][a].ret]
      <3>1. u \in AllTasks /\ a \in 1..Len(calls[u]) /\ b \in 1..Len(calls[u]) /\ a < b /\ calls'[u][b].ret # 0 /\ calls'[u][b].op = "clone"
        BY <2>2, <1>5, TableFacts DEF HasClone
      <3>2. <<u, b>> # <<t, i>> /\ calls'[u][b] = calls[u][b]
        BY <3>1, <1>1, <1>5 DEF e
      <3>3. <<u, a>> # <<t, i>>
        BY <3>1, <3>2, <1>4
      <3>4. calls'[u][a] = calls[u][a] /\ HasClone(u, a, b) /\ IsGiven(calls[u][a])
        BY <2>2, <3>1, <3>2, <3>3, <1>5 DEF HasClone
      <3> DEFINE r == calls[u][a].ret
      <3>5. kfile[Child][r] = kfile[0][r]
        BY <3>1, <3>4, <2>2 DEF FdInv, ChildInv, CopyInv
      <3>6. stage[u] = "clone"
        <4>1. CallOK(u, b, calls[u][b])
          BY <3>1 DEF FdInv, CallsInv
        <4> QED BY <4>1, <3>1, <3>2 DEF CallOK
      <3>7. fd_table[u] = 0 /\ Served(0)
        <4>1. Home(u) = 0 /\ fd_table[u] = Home(u)
          BY <3>1, <3>6, TableFacts DEF FdInv, PhaseInv
        <4>2. FdTypes /\ PhaseInv
          BY DEF FdInv
        <4> QED BY <4>1, <4>2, <3>1, TaskServed
      <3>8. Claims(u, calls[u][a], 0, r) /\ r \in Nat
        <4>1. calls[u][a] \in SysCall
          BY <3>1 DEF FdInv, FdTypes
        <4> QED BY <4>1, <3>4, <3>7 DEF Claims, SysCall
      <3>9. Safe(0, r)
        BY <3>1, <3>7, <3>8, <1>15 DEF FdInv, TablesInv, TableInv
      <3>10. kfile[0][r] # 0 /\ r \in Fds
        BY <3>9 DEF Safe, File, Kernel, Waiting
      <3> HIDE DEF r
      <3>11. kfile'[0][r] = kfile[0][r]
        BY <3>10, <1>2, <1>10, <1>15
      <3> QED BY <3>4, <3>5, <3>11 DEF r
    <2> QED BY <2>1, <2>2 DEF FdInv, ChildInv, CopyInv
  <1>17. InheritInv'
    <2>1. CASE Child = 0
      BY <2>1, <1>9, <1>11, NoChild
    <2>2. CASE Child # 0
      <3>1. \A h \in inherited : handle[h].state \in {"valid", "invalid"}
        BY DEF FdInv, InheritInv
      <3>2. CASE ~Ready(Child)
        BY <3>1, <3>2, <1>1 DEF InheritInv, Ready, phase
      <3>3. CASE Ready(Child)
        <4>1. /\ \A h \in inherited : handle[h].near \in leaked[Child] => kfile[Child][handle[h].near] = handle[h].file
              /\ \A f \in leaked[Child] : f \notin known[Child] /\ kfile[Child][f] # 0
              /\ \A j \in 1..Len(calls[Child]) : \A f \in leaked[Child] : ~Claims(Child, calls[Child][j], Child, f)
          BY <2>2, <3>3 DEF FdInv, InheritInv
        <4>2. \A f \in leaked[Child] : f \in Fds /\ kfile'[Child][f] = kfile[Child][f] /\ (k = Child => f # fd)
          BY <2>2, <4>1, <1>2, <1>10, <1>15 DEF FdInv, FdTypes
        <4>3. ASSUME NEW j \in 1..Len(calls'[Child]), NEW f \in leaked[Child], Claims(Child, calls[Child][j], Child, f)' PROVE FALSE
          <5>1. j \in 1..Len(calls[Child])
            BY <2>2, <1>5, <1>15
          <5>2. CASE Child = t /\ j = i
            <6>1. calls'[Child][j] = e
              BY <5>2 DEF e
            <6>2. k = Child /\ f = fd
              BY <6>1, <5>2, <4>3, <1>1, <1>5, <1>7 DEF Claims, IsClosing, IsGiven, phase
            <6> QED BY <6>2, <4>2
          <5>3. CASE <<Child, j>> # <<t, i>>
            <6>1. calls'[Child][j] = calls[Child][j]
              BY <5>1, <5>3, <2>2, <1>5, <1>15
            <6> QED BY <6>1, <5>1, <4>1, <4>3, <1>1 DEF Claims, IsClosing, IsGiven, phase
          <5> QED BY <5>2, <5>3
        <4> QED BY <3>1, <4>1, <4>2, <4>3, <1>1 DEF InheritInv
      <3> QED BY <3>2, <3>3
    <2> QED BY <2>1, <2>2
  <1> QED BY <1>9, <1>11, <1>14, <1>16, <1>17 DEF FdInv, ChildInv

\* The kernel closes a number.
LEMMA PerformCloseStep ==
    ASSUME TableCfg, FdInv, NEW t \in AllTasks, Ready(t), NEW i \in 1..Len(calls[t]), calls[t][i].ret = 0,
           i > 1 => calls[t][i - 1].ret # 0, PerformClose(t, i), UNCHANGED <<client, broken, manipulating, stage>>
    PROVE  FdInv'
  <1> DEFINE k == ktable[t]  c == calls[t][i]  e == calls'[t][i]  N == {<<t, i>>}  fd == c.fd
  <1>1. /\ c.op = "close" /\ kfile' = [kfile EXCEPT ![k][fd] = 0] /\ leaked' = [leaked EXCEPT ![k] = @ \ {fd}] /\ Returned(t, i, 1)
        /\ UNCHANGED <<phase, manipulating, known, tracked, inherited, handle, opened>>
    BY DEF PerformClose, phase, client
  <1>3. Performs(t, i, 1)
    BY <1>1 DEF Performs
  <1>4. /\ Performed(t, i, 1) /\ Still \in [AllTasks -> Nat] /\ Moved(Still, N) /\ c \in SysCall
        /\ \A u \in AllTasks : \A a, b \in 1..Len(calls'[u]) : a < b /\ calls'[u][b].ret # 0 => calls'[u][a].ret # 0
        /\ Waiting(t) => c.op = "unshare"
    BY <1>3, PerformCalls
  <1>5. /\ calls' \in [AllTasks -> Seq(SysCall)] /\ \A u \in AllTasks : Len(calls'[u]) = Len(calls[u])
        /\ e.op = c.op /\ e.fd = c.fd /\ e.file = c.file /\ e.table = c.table /\ e.handles = c.handles /\ e.ret = 1
        /\ \A u \in AllTasks : \A j \in 1..Len(calls[u]) : <<u, j>> # <<t, i>> => calls'[u][j] = calls[u][j]
    BY <1>4 DEF Performed
  <1>6. CallOK(t, i, c) /\ IsClosing(c)
    BY <1>1 DEF FdInv, CallsInv, IsClosing
  <1> HIDE DEF c, e
  <1>7. /\ k = fd_table[t] /\ k \in Tables /\ ~Waiting(k) /\ Kernel(k) = k /\ Served(k) /\ (k = 0 => t \in Tasks)
        /\ \A l \in Tables : Kernel(l) = k /\ l # k => Waiting(l) /\ k = 0
        /\ NewChild => k # Child /\ t # Child
    BY <1>1, <1>4, OwnTable
  <1>8. CallOK(t, i, e)
    BY <1>1, <1>5, <1>6 DEF CallOK, Ready
  <1>9. PhaseInv' /\ CallsInv' /\ CloneInv' /\ UseInv' /\ TrackedInv' /\ NewInv'
    BY <1>1, <1>3, <1>8, PerformKeeps DEF c, e
  <1>2. fd \in Fds /\ fd \in Nat /\ c.table = k
    BY <1>1, <1>6, <1>7, TableFacts DEF CallOK
  <1>a. Claims(t, c, k, fd)
    BY <1>2, <1>6 DEF Claims
  <1> HIDE DEF k, fd
  <1>b. fd \notin known[k]
    BY <1>2, <1>7, <1>a DEF FdInv, TablesInv, TableInv, c
  <1>c. \A u \in AllTasks : \A j \in 1..Len(calls[u]) : Claims(u, calls[u][j], k, fd) => u = t /\ j = i
    BY <1>2, <1>7, <1>a DEF FdInv, TablesInv, TableInv, c
  <1>10. /\ kfile' \in [Tables -> [Fds -> Nat]] /\ leaked' \in [Tables -> SUBSET Fds]
         /\ \A l \in Tables : \A f \in Fds : ~(l = k /\ f = fd) => kfile'[l][f] = kfile[l][f]
         /\ \A l \in Tables : leaked'[l] \subseteq leaked[l] /\ (l = k => fd \notin leaked'[l]) /\ (l # k => leaked'[l] = leaked[l])
    BY <1>1, <1>2, <1>7 DEF FdInv, FdTypes
  <1>11. FdTypes'
    BY <1>1, <1>5, <1>10 DEF FdInv, FdTypes, phase
  <1>12. \A l \in Tables : Waiting(l)' <=> Waiting(l)
    BY <1>1 DEF Waiting, phase
  <1>13. \A l \in Tables : Kernel(l)' = Kernel(l) /\ Kernel(l) \in Tables
    BY <1>12, TableFacts DEF Kernel
  <1>14. TablesInv'
    <2> SUFFICES ASSUME NEW l \in Tables, Served(l)' PROVE TableInv(l)'
      BY DEF TablesInv, TableInv
    <2> DEFINE X == IF l = k THEN {fd} ELSE {}
    <2>1. Served(l) /\ TableInv(l) /\ Fds \subseteq Nat
      BY <1>1, TableFacts DEF Served, Ready, FdInv, TablesInv, phase
    <2>2. OldCalls(l, Still, N, N)
      <3> SUFFICES ASSUME NEW u \in AllTasks, NEW j \in 1..Len(calls'[u]), NEW f \in Nat, <<u, j>> \notin N, Claims(u, calls[u][j], l, f)'
          PROVE  /\ j + Still[u] \in 1..Len(calls[u]) /\ <<u, j + Still[u]>> \notin N
                 /\ Claims(u, calls[u][j + Still[u]], l, f)
                 /\ IsClosing(calls'[u][j]) => IsClosing(calls[u][j + Still[u]]) /\ calls'[u][j].file = calls[u][j + Still[u]].file
        BY DEF OldCalls
      <3>1. j + Still[u] = j
        BY DEF Still
      <3>2. j \in 1..Len(calls[u]) /\ calls'[u][j] = calls[u][j]
        BY <1>5
      <3> QED BY <3>1, <3>2, <1>1 DEF Claims, IsClosing, IsGiven, phase
    <2>3. SafeStep(l, X)
      <3> SUFFICES ASSUME NEW f \in Fds, f \notin X, Safe(l, f) PROVE Safe(l, f)' /\ File(l, f)' = File(l, f)
        BY DEF SafeStep
      <3>1. ~(Kernel(l) = k /\ f = fd)
        <4> SUFFICES ASSUME Kernel(l) = k, f = fd PROVE FALSE
          OBVIOUS
        <4>1. Waiting(l) /\ k = 0 /\ Kept(l, f)
          BY <1>7 DEF Safe
        <4>2. f \in known[0]
          BY <4>1, TableFacts DEF Kept, FdInv, TrackedInv
        <4> QED BY <4>1, <4>2, <1>b
      <3>2. kfile'[Kernel(l)][f] = kfile[Kernel(l)][f]
        BY <3>1, <1>10, <1>13
      <3>3. File(l, f)' = File(l, f)
        BY <3>2, <1>13 DEF File
      <3> QED BY <3>3, <1>1, <1>12 DEF Safe, Kept
    <2>4. NewCalls(l, N)
      <3>1. ASSUME NEW u \in AllTasks, NEW j \in 1..Len(calls'[u]), NEW f \in Nat, <<u, j>> \in N, Claims(u, calls[u][j], l, f)'
            PROVE  FALSE
        <4>1. u = t /\ j = i /\ calls'[u][j] = e
          BY <3>1 DEF e
        <4> QED BY <4>1, <3>1, <1>1, <1>5 DEF Claims, IsClosing, IsGiven
      <3> HIDE DEF N
      <3> QED BY <3>1 DEF NewCalls
    <2>5. KnownStep(l, N)
      BY <1>1 DEF KnownStep
    <2>6. ClosedStep(l, N, X)
      <3> SUFFICES ASSUME l = k PROVE fd \notin known'[l] /\ Gone(l, N, fd)
        BY DEF ClosedStep
      <3>1. <<t, i>> \in N
        OBVIOUS
      <3> HIDE DEF N
      <3> QED BY <3>1, <1>1, <1>a, <1>b DEF Gone, c
    <2>7. HandleStep(l)
      <3> SUFFICES ASSUME NEW h \in Handles, Live(h), fd_table[handle[h].task] = l
          PROVE  handle[h].near \in known[l] /\ Safe(l, handle[h].near) /\ File(l, handle[h].near) = handle[h].file
        BY <1>1 DEF HandleStep, Live, phase
      <3>1. h \in tracked[l]
        BY DEF FdInv, TrackedInv
      <3> QED BY <3>1, <2>1 DEF FdInv, TrackedInv, TableInv
    <2> HIDE DEF N, X
    <2> QED BY <2>1, <2>2, <2>3, <2>4, <2>5, <2>6, <2>7, <1>4, <1>11, TableStep DEF FdInv
  <1>15. (Copied' <=> Copied) /\ (NewChild' <=> NewChild) /\ (Child # 0 => Child \in Tables /\ Child \in AllTasks) /\ 0 \in Tables
    BY <1>1, TableFacts DEF Copied, NewChild, phase
  <1>16. CopyInv'
    <2> SUFFICES ASSUME Copied
        PROVE  /\ \A h \in tracked[0] : Live(h) => kfile'[Child][handle[h].near] = handle[h].file
               /\ \A u \in Tasks \ broken : \A a, b \in 1..Len(calls'[u]) : IsGiven(calls'[u][a]) /\ HasClone(u, a, b)' =>
                    kfile'[Child][calls'[u][a].ret] = kfile'[0][calls'[u][a].ret]
               /\ \A f \in leaked'[Child] : kfile'[Child][f] # 0
      BY <1>1, <1>15 DEF CopyInv, IsGiven, Live, phase
    <2>1. Child \in Tables /\ Child # k /\ leaked'[Child] = leaked[Child]
      BY <1>7, <1>10, <1>15 DEF Copied, NewChild
    <2>0. kfile'[Child] = kfile[Child]
      BY <2>1, <1>1, <1>7 DEF FdInv, FdTypes
    <2>2. ASSUME NEW u \in Tasks \ broken, NEW a \in 1..Len(calls'[u]), NEW b \in 1..Len(calls'[u]),
                 IsGiven(calls'[u][a]), HasClone(u, a, b)'
          PROVE  kfile[Child][calls'[u][a].ret] = kfile'[0][calls'[u][a].ret]
      <3>1. u \in AllTasks /\ a \in 1..Len(calls[u]) /\ b \in 1..Len(calls[u]) /\ a < b /\ calls'[u][b].ret # 0 /\ calls'[u][b].op = "clone"
        BY <2>2, <1>5, TableFacts DEF HasClone
      <3>2. <<u, b>> # <<t, i>> /\ calls'[u][b] = calls[u][b]
        BY <3>1, <1>1, <1>5 DEF e
      <3>3. <<u, a>> # <<t, i>>
        BY <2>2, <1>1, <1>5 DEF e, IsGiven
      <3>4. calls'[u][a] = calls[u][a] /\ HasClone(u, a, b) /\ IsGiven(calls[u][a])
        BY <2>2, <3>1, <3>2, <3>3, <1>5 DEF HasClone
      <3> DEFINE r == calls[u][a].ret
      <3>5. kfile[Child][r] = kfile[0][r]
        BY <3>1, <3>4, <2>2 DEF FdInv, ChildInv, CopyInv
      <3>6. stage[u] = "clone"
        <4>1. CallOK(u, b, calls[u][b])
          BY <3>1 DEF FdInv, CallsInv
        <4> QED BY <4>1, <3>1, <3>2 DEF CallOK
      <3>7. fd_table[u] = 0 /\ Served(0)
        <4>1. Home(u) = 0 /\ fd_table[u] = Home(u)
          BY <3>1, <3>6, TableFacts DEF FdInv, PhaseInv
        <4>2. FdTypes /\ PhaseInv
          BY DEF FdInv
        <4> QED BY <4>1, <4>2, <3>1, TaskServed
      <3>8. Claims(u, calls[u][a], 0, r) /\ r \in Nat
        <4>1. calls[u][a] \in SysCall
          BY <3>1 DEF FdInv, FdTypes
        <4> QED BY <4>1, <3>4, <3>7 DEF Claims, SysCall
      <3>9. Safe(0, r)
        BY <3>1, <3>7, <3>8, <1>15 DEF FdInv, TablesInv, TableInv
      <3> HIDE DEF r
      <3>10. ~(k = 0 /\ r = fd) /\ r \in Fds
        BY <3>1, <3>3, <3>8, <3>9, <1>c DEF Safe
      <3>11. kfile'[0][r] = kfile[0][r]
        BY <3>10, <1>10, <1>15
      <3> QED BY <3>4, <3>5, <3>11 DEF r
    <2> QED BY <2>1, <2>0, <2>2 DEF FdInv, ChildInv, CopyInv
  <1>17. InheritInv'
    <2>1. CASE Child = 0
      BY <2>1, <1>9, <1>11, NoChild
    <2>2. CASE Child # 0
      <3>1. \A h \in inherited : handle[h].state \in {"valid", "invalid"}
        BY DEF FdInv, InheritInv
      <3>2. CASE ~Ready(Child)
        BY <3>1, <3>2, <1>1 DEF InheritInv, Ready, phase
      <3>3. CASE Ready(Child)
        <4>1. /\ \A h \in inherited : handle[h].near \in leaked[Child] => kfile[Child][handle[h].near] = handle[h].file
              /\ \A f \in leaked[Child] : f \notin known[Child] /\ kfile[Child][f] # 0
              /\ \A j \in 1..Len(calls[Child]) : \A f \in leaked[Child] : ~Claims(Child, calls[Child][j], Child, f)
          BY <2>2, <3>3 DEF FdInv, InheritInv
        <4>2. \A f \in leaked'[Child] : f \in leaked[Child] /\ f \in Fds /\ kfile'[Child][f] = kfile[Child][f]
          BY <2>2, <1>10, <1>15
        <4>3. ASSUME NEW j \in 1..Len(calls'[Child]), NEW f \in leaked'[Child], Claims(Child, calls[Child][j], Child, f)' PROVE FALSE
          <5>1. j \in 1..Len(calls[Child])
            BY <2>2, <1>5, <1>15
          <5>2. CASE Child = t /\ j = i
            <6>1. calls'[Child][j] = e
              BY <5>2 DEF e
            <6> QED BY <6>1, <4>3, <1>1, <1>5 DEF Claims, IsClosing, IsGiven
          <5>3. CASE <<Child, j>> # <<t, i>>
            <6>1. calls'[Child][j] = calls[Child][j]
              BY <5>1, <5>3, <2>2, <1>5, <1>15
            <6> QED BY <6>1, <5>1, <4>1, <4>2, <4>3, <1>1 DEF Claims, IsClosing, IsGiven, phase
          <5> QED BY <5>2, <5>3
        <4> QED BY <3>1, <4>1, <4>2, <4>3, <1>1 DEF InheritInv
      <3> QED BY <3>2, <3>3
    <2> QED BY <2>1, <2>2
  <1> QED BY <1>9, <1>11, <1>14, <1>16, <1>17 DEF FdInv, ChildInv

\* A call that changes nothing in the kernel: a use, or an exec that fails.
LEMMA PerformIdleStep ==
    ASSUME TableCfg, FdInv, NEW t \in AllTasks, NEW i, NEW r, Performs(t, i, r),
           UNCHANGED <<kernel, client, alive, broken, manipulating, stage, leaked>>,
           calls[t][i].op \in {"use", "use_own", "exec"}, CallOK(t, i, calls'[t][i])
    PROVE  FdInv'
  <1> DEFINE c == calls[t][i]  e == calls'[t][i]  N == {<<t, i>>}
  <1>1. /\ Performed(t, i, r) /\ Still \in [AllTasks -> Nat] /\ Moved(Still, N) /\ i \in 1..Len(calls[t])
        /\ UNCHANGED <<phase, kfile, leaked, opened, manipulating, known, tracked, inherited, handle>>
    BY PerformCalls DEF kernel, client, phase, Performs
  <1>2. /\ calls' \in [AllTasks -> Seq(SysCall)] /\ \A u \in AllTasks : Len(calls'[u]) = Len(calls[u])
        /\ e.op = c.op /\ \A u \in AllTasks : \A j \in 1..Len(calls[u]) : <<u, j>> # <<t, i>> => calls'[u][j] = calls[u][j]
    BY <1>1 DEF Performed
  <1>3. c.op # "clone"
    OBVIOUS
  <1>4. PhaseInv' /\ CallsInv' /\ CloneInv' /\ UseInv' /\ TrackedInv' /\ NewInv'
    BY <1>1, <1>3, PerformKeeps
  <1>5. e.op \in {"use", "use_own", "exec"}
    BY <1>2
  <1> HIDE DEF c, e
  <1>6. FdTypes'
    BY <1>1, <1>2 DEF FdInv, FdTypes, phase
  <1>7. \A u \in AllTasks : \A j \in 1..Len(calls'[u]) : <<u, j>> \in N => u = t /\ j = i /\ calls'[u][j].op \in {"use", "use_own", "exec"}
    BY <1>5 DEF e
  <1> HIDE DEF N
  <1>8. ASSUME NEW u \in AllTasks, NEW j \in 1..Len(calls'[u]), <<u, j>> \in N, NEW l, NEW f
        PROVE  ~IsGiven(calls'[u][j]) /\ ~Claims(u, calls[u][j], l, f)'
    BY <1>7, <1>8 DEF Claims, IsClosing, IsGiven
  <1>9. TablesInv'
    <2> SUFFICES ASSUME NEW l \in Tables, Served(l)' PROVE TableInv(l)'
      BY DEF TablesInv, TableInv
    <2>1. Served(l) /\ TableInv(l) /\ Fds \subseteq Nat
      BY <1>1, TableFacts DEF Served, Ready, FdInv, TablesInv, phase
    <2> DEFINE G == {}
    <2>2. \A u \in AllTasks : \A j \in 1..Len(calls'[u]) : <<u, j + Still[u]>> \notin G
      OBVIOUS
    <2>3. KnownStep(l, G) /\ ClosedStep(l, G, {})
      BY <1>1 DEF KnownStep, ClosedStep
    <2> HIDE DEF G
    <2>4. OldCalls(l, Still, G, N)
      BY <1>1, <2>2, OldKept DEF phase
    <2>5. SafeStep(l, {})
      <3>1. \A k \in Tables : Waiting(k)' <=> Waiting(k)
        BY <1>1 DEF Waiting, phase
      <3> QED BY <3>1, <1>1 DEF SafeStep, Safe, File, Kernel, Kept
    <2>6. NewCalls(l, N)
      BY <1>8 DEF NewCalls
    <2>7. HandleStep(l)
      <3> SUFFICES ASSUME NEW h \in Handles, Live(h), fd_table[handle[h].task] = l
          PROVE  handle[h].near \in known[l] /\ Safe(l, handle[h].near) /\ File(l, handle[h].near) = handle[h].file
        BY <1>1 DEF HandleStep, Live, phase
      <3>1. h \in tracked[l]
        BY DEF FdInv, TrackedInv
      <3> QED BY <3>1, <2>1 DEF FdInv, TrackedInv, TableInv
    <2> QED BY <2>1, <2>3, <2>4, <2>5, <2>6, <2>7, <1>1, <1>6, TableStep DEF FdInv
  <1>10. CopyInv'
    <2>1. ASSUME NEW u \in Tasks, NEW a \in 1..Len(calls'[u]), NEW b \in 1..Len(calls'[u]), IsGiven(calls'[u][a]), HasClone(u, a, b)'
          PROVE  <<u, a>> \notin N /\ <<u, b>> \notin N
      <3>1. u \in AllTasks /\ calls'[u][b].op = "clone"
        BY <2>1, TableFacts DEF HasClone
      <3> QED BY <3>1, <2>1, <1>7 DEF IsGiven
    <2>2. \A h \in tracked'[0] : h \in tracked[0] /\ handle'[h] = handle[h]
      BY <1>1
    <2>3. CopyInv /\ CallsInv
      BY DEF FdInv, ChildInv
    <2> QED BY <2>1, <2>2, <2>3, <1>1, TableFacts, CopyKept
  <1>11. InheritInv'
    <2>1. CASE Child = 0
      BY <2>1, <1>4, <1>6, NoChild
    <2>2. CASE Child # 0
      <3>1. Child \in AllTasks /\ (Ready(Child)' => Ready(Child))
        BY <2>2, <1>1, TableFacts DEF Ready, phase
      <3>2. ASSUME NEW f \in leaked'[Child], Taken(f)' PROVE Taken(f)
        <4>1. fd_table' = fd_table /\ known' = known
          BY <1>1 DEF phase
        <4>2. \A j \in 1..Len(calls'[Child]) : <<Child, j>> \in N /\ Claims(Child, calls[Child][j], Child, f)' => Taken(f)
          BY <3>1, <1>8
        <4>3. f \in known'[Child] => Taken(f)
          BY <4>1 DEF Taken
        <4> QED BY <3>2, <4>1, <4>2, <4>3, <2>2, <1>1, TakenMoved
      <3>3. InheritInv
        BY DEF FdInv
      <3>4. \A h \in inherited : handle[h].state \in {"valid", "invalid"}
        BY DEF FdInv, InheritInv
      <3> QED BY <2>2, <3>1, <3>2, <3>3, <3>4, <1>1, InheritKept
    <2> QED BY <2>1, <2>2
  <1> QED BY <1>4, <1>6, <1>9, <1>10, <1>11 DEF FdInv, ChildInv

\* The kernel performs a call on an open file.
LEMMA PerformUseStep ==
    ASSUME TableCfg, FdInv, NEW t \in AllTasks, Ready(t), NEW i \in 1..Len(calls[t]), calls[t][i].ret = 0,
           i > 1 => calls[t][i - 1].ret # 0, PerformUse(t, i), UNCHANGED <<client, broken, manipulating, stage>>
    PROVE  FdInv'
  <1>1. /\ calls[t][i].op \in {"use", "use_own"} /\ Returned(t, i, 1) /\ UNCHANGED <<kernel, client, alive, broken, manipulating, stage, leaked>>
    BY DEF PerformUse
  <1>2. Performs(t, i, 1)
    BY <1>1 DEF Performs
  <1>3. Performed(t, i, 1)
    BY <1>2, PerformCalls
  <1>4. calls'[t][i].op = calls[t][i].op /\ calls'[t][i].ret = 1
    BY <1>3 DEF Performed
  <1>5. CallOK(t, i, calls[t][i])
    BY DEF FdInv, CallsInv
  <1>6. CallOK(t, i, calls'[t][i])
    BY <1>1, <1>4, <1>5 DEF CallOK, Ready
  <1> QED BY <1>1, <1>2, <1>6, PerformIdleStep

\* A call that neither opens nor closes, and leaves the tables in use their files.
LEMMA PerformTables ==
    ASSUME TableCfg, FdInv, FdTypes', NEW t \in AllTasks, NEW i, NEW r, Performs(t, i, r),
           UNCHANGED <<fd_table, known, tracked, handle>>, calls[t][i].op \in {"unshare", "exec", "clone"},
           \A l \in Tables : Served(l)' => Served(l) /\ (Waiting(l)' => Waiting(l)),
           \A l \in Tables : Served(l)' => \A f \in Fds : File(l, f)' = File(l, f)
    PROVE  TablesInv'
  <1> DEFINE c == calls[t][i]  e == calls'[t][i]  N == {<<t, i>>}
  <1>1. /\ Performed(t, i, r) /\ Still \in [AllTasks -> Nat] /\ Moved(Still, N) /\ i \in 1..Len(calls[t])
    BY PerformCalls DEF Performs
  <1>5. e.op \in {"unshare", "exec", "clone"}
    BY <1>1 DEF Performed
  <1> HIDE DEF c, e
  <1>7. \A u \in AllTasks : \A j \in 1..Len(calls'[u]) : <<u, j>> \in N => u = t /\ j = i /\ calls'[u][j].op \in {"unshare", "exec", "clone"}
    BY <1>5 DEF e
  <1> HIDE DEF N
  <1>8. ASSUME NEW u \in AllTasks, NEW j \in 1..Len(calls'[u]), <<u, j>> \in N, NEW l, NEW f
        PROVE  ~Claims(u, calls[u][j], l, f)'
    BY <1>7, <1>8 DEF Claims, IsClosing, IsGiven
  <1> SUFFICES ASSUME NEW l \in Tables, Served(l)' PROVE TableInv(l)'
    BY DEF TablesInv, TableInv
  <1>9. Served(l) /\ TableInv(l) /\ Fds \subseteq Nat
    BY TableFacts DEF FdInv, TablesInv
  <1> DEFINE G == {}
  <1>10. \A u \in AllTasks : \A j \in 1..Len(calls'[u]) : <<u, j + Still[u]>> \notin G
    OBVIOUS
  <1>11. KnownStep(l, G) /\ ClosedStep(l, G, {})
    BY DEF KnownStep, ClosedStep
  <1> HIDE DEF G
  <1>12. OldCalls(l, Still, G, N)
    BY <1>1, <1>10, OldKept
  <1>13. SafeStep(l, {})
    <2> SUFFICES ASSUME NEW f \in Fds, Safe(l, f) PROVE Safe(l, f)' /\ File(l, f)' = File(l, f)
      BY DEF SafeStep
    <2>1. File(l, f)' = File(l, f) /\ (Waiting(l)' => Waiting(l))
      OBVIOUS
    <2>2. Kept(l, f) => Kept(l, f)'
      BY DEF Kept
    <2>3. File(l, f) # 0 /\ (Waiting(l) => Kept(l, f))
      BY DEF Safe
    <2> QED BY <2>1, <2>2, <2>3 DEF Safe
  <1>14. NewCalls(l, N)
    BY <1>8 DEF NewCalls
  <1>15. HandleStep(l)
    <2> SUFFICES ASSUME NEW h \in Handles, Live(h), fd_table[handle[h].task] = l
        PROVE  handle[h].near \in known[l] /\ Safe(l, handle[h].near) /\ File(l, handle[h].near) = handle[h].file
      BY DEF HandleStep, Live
    <2>1. h \in tracked[l]
      BY DEF FdInv, TrackedInv
    <2> QED BY <2>1, <1>9 DEF FdInv, TrackedInv, TableInv
  <1> QED BY <1>9, <1>11, <1>12, <1>13, <1>14, <1>15, <1>1, TableStep DEF FdInv

\* The kernel unshares the table of t.
LEMMA PerformUnshared ==
    ASSUME TableCfg, FdInv, NEW t \in AllTasks, NEW i, Performs(t, i, 1), calls[t][i].op = "unshare",
           ktable' = [ktable EXCEPT ![t] = t], kfile' = [kfile EXCEPT ![t] = kfile[ktable[t]]],
           leaked' = [leaked EXCEPT ![t] = OpenFds(ktable[t]) \ known[t]],
           UNCHANGED <<opened, alive, client, broken, manipulating, stage>>
    PROVE  FdInv'
  <1> DEFINE c == calls[t][i]  e == calls'[t][i]
  <1>1. /\ Performed(t, i, 1) /\ i \in 1..Len(calls[t]) /\ c.ret = 0 /\ Ready(t)
        /\ UNCHANGED <<fd_table, stage, alive, broken, manipulating, known, tracked, inherited, handle>>
        /\ \A u \in AllTasks : \A a, b \in 1..Len(calls'[u]) : a < b /\ calls'[u][b].ret # 0 => calls'[u][a].ret # 0
        /\ \A u \in AllTasks : calls[u] # << >> =>
             calls'[u] # << >> /\ calls'[u][1].op = calls[u][1].op /\ (calls[u][1].ret # 0 => calls'[u][1].ret # 0)
    BY PerformCalls DEF client, Performs
  <1>2. /\ calls' \in [AllTasks -> Seq(SysCall)] /\ \A u \in AllTasks : Len(calls'[u]) = Len(calls[u])
        /\ e.op = "unshare" /\ e.ret = 1 /\ \A u \in AllTasks : \A j \in 1..Len(calls[u]) : <<u, j>> # <<t, i>> => calls'[u][j] = calls[u][j]
    BY <1>1 DEF Performed
  <1>3. i = 1 /\ stage[t] = "unsharing" /\ Waiting(t) /\ ktable[t] = 0 /\ fd_table[t] = t /\ t \in Tasks /\ Child = 0 /\ t # 0
    <2>1. CallOK(t, i, c)
      BY <1>1 DEF FdInv, CallsInv
    <2>2. i = 1 /\ stage[t] = "unsharing" /\ Waiting(t)
      BY <2>1, <1>1 DEF CallOK, Ready
    <2> QED BY <2>2, TableFacts DEF Waiting, FdInv, PhaseInv
  <1> HIDE DEF c, e
  <1>4. /\ ktable' \in [AllTasks -> Tables] /\ ktable'[t] = t /\ \A u \in AllTasks \ {t} : ktable'[u] = ktable[u]
        /\ kfile' \in [Tables -> [Fds -> Nat]] /\ kfile'[t] = kfile[0] /\ \A l \in Tables \ {t} : kfile'[l] = kfile[l]
        /\ leaked' \in [Tables -> SUBSET Fds]
    BY <1>3, TableFacts DEF FdInv, FdTypes, OpenFds
  <1>5. FdTypes'
    BY <1>1, <1>2, <1>4 DEF FdInv, FdTypes
  <1>6. ~Waiting(t)' /\ \A u \in Tables \ {t} : Waiting(u)' <=> Waiting(u)
    BY <1>1, <1>3, <1>4, TableFacts DEF Waiting
  <1>7. \A u \in AllTasks : Ready(u)' <=> Ready(u)
    BY <1>1 DEF Ready
  <1>8. PhaseInv'
    <2> SUFFICES ASSUME NEW u \in AllTasks PROVE PhaseInv!(u)'
      BY DEF PhaseInv
    <2>1. PhaseInv!(u)
      BY DEF FdInv, PhaseInv
    <2>2. Waiting(u)' => Waiting(u)
      BY <1>6, TableFacts
    <2>3. CASE u = t
      BY <2>1, <2>3, <1>1, <1>3, <1>4, <1>6, <1>7
    <2>4. CASE u # t
      BY <2>1, <2>4, <1>1, <1>4, <1>6, <1>7, TableFacts
    <2> QED BY <2>3, <2>4
  <1>9. CallsInv'
    <2>1. ASSUME NEW u \in AllTasks, NEW j \in 1..Len(calls'[u]) PROVE CallOK(u, j, calls[u][j])'
      <3>1. j \in 1..Len(calls[u]) /\ CallOK(u, j, calls[u][j])
        BY <1>2 DEF FdInv, CallsInv
      <3>2. CASE u = t /\ j = i
        <4>1. calls'[u][j] = e
          BY <3>2 DEF e
        <4>2. t \in alive
          BY <1>1 DEF Ready
        <4> QED BY <3>2, <4>1, <4>2, <1>1, <1>2, <1>3, <1>6 DEF CallOK
      <3>3. CASE <<u, j>> # <<t, i>>
        <4>1. calls'[u][j] = calls[u][j]
          BY <3>1, <3>3, <1>2
        <4>2. calls[u][j].op = "unshare" => u # t
          BY <3>1, <3>3, <1>3 DEF CallOK
        <4>3. u # t => (Waiting(u)' <=> Waiting(u))
          BY <1>6, TableFacts
        <4> QED BY <3>1, <4>1, <4>2, <4>3, <1>1, <1>7 DEF CallOK
      <3> QED BY <3>2, <3>3
    <2>2. \A u \in AllTasks : Len(calls'[u]) <= MaxCalls
      BY <1>2 DEF FdInv, CallsInv
    <2> QED BY <2>1, <2>2, <1>1 DEF CallsInv
  <1>10. TrackedInv'
    <2>1. \A u \in Tables : Waiting(u)' => Waiting(u)
      BY <1>6
    <2>2. \A h \in Handles : Live(h) => handle[h].task \in Tables
      BY TableFacts DEF Live, FdInv, FdTypes
    <2>3. \A h \in Handles : Live(h) => (Waiting(handle[h].task)' => Waiting(handle[h].task))
      <3> SUFFICES ASSUME NEW h \in Handles, Live(h), Waiting(handle[h].task)' PROVE Waiting(handle[h].task)
        OBVIOUS
      <3> DEFINE q == handle[h].task
      <3>1. q \in Tables /\ handle'[h].task = q
        BY <2>2, <1>1
      <3>2. Waiting(handle[h].task)' <=> (q # 0 /\ stage'[q] = "unsharing" /\ q \notin broken' /\ ktable'[q] = 0)
        BY <3>1, <1>1 DEF Waiting
      <3> HIDE DEF q
      <3> QED BY <3>1, <3>2, <1>1, <1>3, <1>4, TableFacts DEF Waiting, q
    <2> QED BY <2>3, <1>1 DEF FdInv, TrackedInv, Live
  <1>11. UseInv'
    BY <1>1, PerformedUse
  <1>12. TablesInv'
    <2>1. ASSUME NEW l \in Tables, Served(l)' PROVE Served(l) /\ (Waiting(l)' => Waiting(l))
      BY <2>1, <1>1, <1>6 DEF Served, Ready
    <2>2. ASSUME NEW l \in Tables, NEW f \in Fds PROVE File(l, f)' = File(l, f)
      <3>1. CASE l = t
        BY <3>1, <1>3, <1>4, <1>6 DEF File, Kernel
      <3>2. CASE l # t
        <4>1. (Waiting(l)' <=> Waiting(l)) /\ 0 \in Tables
          BY <3>2, <1>6, TableFacts
        <4>2. Kernel(l)' = Kernel(l) /\ Kernel(l) \in Tables \ {t}
          BY <3>2, <4>1, <1>3 DEF Kernel
        <4> QED BY <4>2, <1>4 DEF File
      <3> QED BY <3>1, <3>2
    <2>3. c.op = "unshare"
      BY DEF c
    <2> QED BY <2>1, <2>2, <2>3, <1>1, <1>5, PerformTables
  <1> QED BY <1>3, <1>5, <1>8, <1>9, <1>10, <1>11, <1>12, NoChild DEF FdInv

\* The kernel execs t, which unshares and ends the server.
LEMMA PerformExec ==
    ASSUME TableCfg, FdInv, NEW t \in AllTasks, NEW i, Performs(t, i, 1), calls[t][i].op = "exec",
           ktable' = [ktable EXCEPT ![t] = t], kfile' = [kfile EXCEPT ![t] = kfile[ktable[t]]],
           leaked' = [leaked EXCEPT ![t] = OpenFds(ktable[t]) \ known[t]], alive' = alive \ {t},
           UNCHANGED <<opened, client, broken, manipulating, stage>>
    PROVE  FdInv'
  <1> DEFINE c == calls[t][i]  e == calls'[t][i]
  <1>1. /\ Performed(t, i, 1) /\ i \in 1..Len(calls[t]) /\ c.ret = 0 /\ Ready(t)
        /\ UNCHANGED <<fd_table, stage, broken, manipulating, known, tracked, inherited, handle>>
        /\ \A u \in AllTasks : \A a, b \in 1..Len(calls'[u]) : a < b /\ calls'[u][b].ret # 0 => calls'[u][a].ret # 0
        /\ \A u \in AllTasks : calls[u] # << >> =>
             calls'[u] # << >> /\ calls'[u][1].op = calls[u][1].op /\ (calls[u][1].ret # 0 => calls'[u][1].ret # 0)
        /\ \A j \in 1..Len(calls[t]) : i < j => calls[t][j].ret = 0
    BY PerformCalls DEF client, Performs
  <1>2. /\ calls' \in [AllTasks -> Seq(SysCall)] /\ \A u \in AllTasks : Len(calls'[u]) = Len(calls[u])
        /\ e.op = "exec" /\ e.ret = 1 /\ \A u \in AllTasks : \A j \in 1..Len(calls[u]) : <<u, j>> # <<t, i>> => calls'[u][j] = calls[u][j]
    BY <1>1 DEF Performed
  <1>3. i = 1 /\ stage[t] = "exec" /\ t \in alive /\ t \notin broken /\ t # 0 /\ ktable[t] \in Tables /\ ~Waiting(t)
    <2>1. CallOK(t, i, c)
      BY <1>1 DEF FdInv, CallsInv
    <2>2. i = 1 /\ stage[t] = "exec" /\ t \in alive /\ t \notin broken
      BY <2>1, <1>1 DEF CallOK, Ready
    <2> QED BY <2>2, TableFacts DEF Waiting, FdInv, FdTypes
  <1>a. \A j \in 1..Len(calls[t]) : calls[t][j].op # "clone"
    BY <1>3 DEF FdInv, CallsInv, CallOK
  <1> HIDE DEF c, e
  <1>4. /\ ktable' \in [AllTasks -> Tables] /\ ktable'[t] = t /\ \A u \in AllTasks \ {t} : ktable'[u] = ktable[u]
        /\ kfile' \in [Tables -> [Fds -> Nat]] /\ \A l \in Tables \ {t} : kfile'[l] = kfile[l]
        /\ leaked' \in [Tables -> SUBSET Fds] /\ \A l \in Tables \ {t} : leaked'[l] = leaked[l]
    BY <1>3, TableFacts DEF FdInv, FdTypes, OpenFds
  <1>5. FdTypes'
    BY <1>1, <1>2, <1>4 DEF FdInv, FdTypes
  <1>6. ~Waiting(t)' /\ \A u \in Tables : Waiting(u)' <=> Waiting(u)
    BY <1>1, <1>3, <1>4, TableFacts DEF Waiting
  <1>7. ~Ready(t)' /\ t \notin alive' /\ \A u \in AllTasks \ {t} : (Ready(u)' <=> Ready(u)) /\ (u \in alive' <=> u \in alive)
    BY <1>1 DEF Ready
  <1>8. PhaseInv'
    <2> SUFFICES ASSUME NEW u \in AllTasks PROVE PhaseInv!(u)'
      BY DEF PhaseInv
    <2>1. PhaseInv!(u)
      BY DEF FdInv, PhaseInv
    <2>2. Waiting(u)' <=> Waiting(u)
      BY <1>6, TableFacts
    <2>3. CASE u = t
      <3>1. calls'[t] # << >> /\ calls'[t][1].op = "exec" /\ calls'[t][1].ret # 0
        <4>1. calls[t] # << >>
          BY <1>1, <1>3
        <4>2. calls'[t] # << >>
          BY <4>1, <1>1
        <4> QED BY <4>2, <1>2, <1>3 DEF e
      <3> QED BY <2>1, <2>3, <3>1, <1>1, <1>3, <1>4, <1>6, <1>7
    <2>4. CASE u # t
      BY <2>1, <2>2, <2>4, <1>1, <1>4, <1>7, TableFacts
    <2> QED BY <2>3, <2>4
  <1>9. CallsInv'
    <2>1. ASSUME NEW u \in AllTasks, NEW j \in 1..Len(calls'[u]) PROVE CallOK(u, j, calls[u][j])'
      <3>1. j \in 1..Len(calls[u]) /\ CallOK(u, j, calls[u][j])
        BY <1>2 DEF FdInv, CallsInv
      <3>2. CASE u = t /\ j = i
        <4>1. calls'[u][j] = e
          BY <3>2 DEF e
        <4> QED BY <3>2, <4>1, <1>1, <1>2, <1>3, <1>7 DEF CallOK
      <3>3. CASE u = t /\ j # i
        <4>1. calls'[u][j] = calls[u][j] /\ calls[u][j].ret = 0
          BY <3>1, <3>3, <1>1, <1>2, <1>3
        <4> QED BY <3>1, <3>3, <4>1, <1>1, <1>3, <1>7, <1>a DEF CallOK
      <3>4. CASE u # t
        <4>1. calls'[u][j] = calls[u][j]
          BY <3>1, <3>4, <1>2
        <4>2. Waiting(u)' <=> Waiting(u)
          BY <1>6, TableFacts
        <4> QED BY <3>1, <3>4, <4>1, <4>2, <1>1, <1>7 DEF CallOK
      <3> QED BY <3>2, <3>3, <3>4
    <2>2. \A u \in AllTasks : Len(calls'[u]) <= MaxCalls
      BY <1>2 DEF FdInv, CallsInv
    <2> QED BY <2>1, <2>2, <1>1 DEF CallsInv
  <1>10. TrackedInv'
    <2>1. \A h \in Handles : Live(h) => (Waiting(handle[h].task)' => Waiting(handle[h].task))
      <3> SUFFICES ASSUME NEW h \in Handles, Live(h), Waiting(handle[h].task)' PROVE Waiting(handle[h].task)
        OBVIOUS
      <3> DEFINE q == handle[h].task
      <3>1. q \in AllTasks /\ handle'[h].task = q
        BY <1>1 DEF Live, FdInv, FdTypes
      <3>2. Waiting(handle[h].task)' <=> (q # 0 /\ stage'[q] = "unsharing" /\ q \notin broken' /\ ktable'[q] = 0)
        BY <3>1, <1>1 DEF Waiting
      <3> HIDE DEF q
      <3> QED BY <3>1, <3>2, <1>1, <1>3, <1>4, TableFacts DEF Waiting, q
    <2> QED BY <2>1, <1>1 DEF FdInv, TrackedInv, Live
  <1>11. UseInv'
    BY <1>1, PerformedUse
  <1>12. TablesInv'
    <2>1. ASSUME NEW l \in Tables, Served(l)' PROVE Served(l) /\ (Waiting(l)' => Waiting(l)) /\ l # t
      BY <2>1, <1>1, <1>3, <1>6 DEF Served, Ready
    <2>2. ASSUME NEW l \in Tables, Served(l)', NEW f \in Fds PROVE File(l, f)' = File(l, f)
      <3>1. (Waiting(l)' <=> Waiting(l)) /\ 0 \in Tables /\ l # t
        BY <2>1, <2>2, <1>6, TableFacts
      <3>2. Kernel(l)' = Kernel(l) /\ Kernel(l) \in Tables \ {t}
        BY <3>1, <1>3 DEF Kernel
      <3> QED BY <3>2, <1>4 DEF File
    <2>3. c.op = "exec"
      BY DEF c
    <2> QED BY <2>1, <2>2, <2>3, <1>1, <1>5, PerformTables
  <1>13. CASE Child = 0
    BY <1>5, <1>8, <1>9, <1>10, <1>11, <1>12, <1>13, NoChild DEF FdInv
  <1>14. CASE Child # 0
    <2>0. Child \in AllTasks /\ Child \in Tables
      BY <1>14, TableFacts
    <2>1. NewChild => t # Child /\ t \in Tasks
      BY <1>3, TableFacts DEF NewChild
    <2>2. ~Copied
      <3> SUFFICES ASSUME Copied PROVE FALSE
        OBVIOUS
      <3>1. t \in Tasks \ broken
        BY <2>1, <1>3 DEF Copied
      <3>2. \E j \in 1..Len(calls[t]) : calls[t][j].op = "clone" /\ calls[t][j].ret # 0
        BY <3>1, <1>3 DEF FdInv, ChildInv, CloneInv
      <3> QED BY <3>2, <1>a
    <2>3. NewChild' => t # Child
      BY <1>1, <1>3 DEF NewChild
    <2>4. NewChild' <=> NewChild
      BY <2>0, <2>1, <2>3, <1>1, <1>7 DEF NewChild
    <2>5. ~Copied'
      BY <2>0, <2>1, <2>2, <2>4, <1>4 DEF Copied
    <2>6. t # Child => calls'[Child] = calls[Child]
      <3> SUFFICES ASSUME t # Child PROVE calls'[Child] = calls[Child]
        OBVIOUS
      <3>1. calls'[Child] \in Seq(SysCall) /\ calls[Child] \in Seq(SysCall) /\ Len(calls'[Child]) = Len(calls[Child])
        BY <2>0, <1>2 DEF FdInv, FdTypes
      <3>2. \A j \in 1..Len(calls[Child]) : calls'[Child][j] = calls[Child][j]
        BY <2>0, <1>2
      <3> QED BY <3>1, <3>2
    <2>7. NewInv'
      BY <2>1, <2>4, <2>6, <1>1 DEF FdInv, ChildInv, NewInv
    <2>8. CopyInv'
      BY <2>5 DEF CopyInv
    <2>9. CloneInv'
      <3>1. \A u \in AllTasks : stage'[u] # "cloned"
        BY <2>2, <1>1 DEF FdInv, ChildInv, CloneInv
      <3>2. ASSUME NEW u \in AllTasks \ broken, NEW j \in 1..Len(calls'[u]), calls'[u][j].op = "clone"
            PROVE  /\ u # t /\ j \in 1..Len(calls[u]) /\ calls'[u][j] = calls[u][j]
                   /\ (calls'[u][j].ret # 0 <=> Copied') /\ NewChild'
        <4>1. j \in 1..Len(calls[u])
          BY <1>2
        <4>2. u # t
          BY <3>2, <4>1, <1>2, <1>a DEF e
        <4>3. calls'[u][j] = calls[u][j]
          BY <4>1, <4>2, <1>2
        <4> QED BY <3>2, <4>1, <4>2, <4>3, <2>2, <2>4, <2>5 DEF FdInv, ChildInv, CloneInv
      <3>3. ASSUME NEW u \in AllTasks \ broken, NEW a \in 1..Len(calls'[u]), NEW b \in 1..Len(calls'[u]),
                   calls'[u][a].op = "clone", calls'[u][b].op = "clone"
            PROVE  a = b
        <4>1. /\ a \in 1..Len(calls[u]) /\ calls[u][a].op = "clone" /\ b \in 1..Len(calls[u]) /\ calls[u][b].op = "clone"
          BY <3>2, <3>3
        <4> QED BY <4>1 DEF FdInv, ChildInv, CloneInv
      <3> QED BY <3>1, <3>2, <3>3, <2>5, <1>1 DEF CloneInv
    <2>10. InheritInv'
      <3>1. CASE t = Child
        BY <3>1, <1>1, <1>7 DEF FdInv, InheritInv
      <3>2. CASE t # Child
        <4>1. kfile'[Child] = kfile[Child] /\ leaked'[Child] = leaked[Child] /\ calls'[Child] = calls[Child]
          BY <3>2, <2>0, <2>6, <1>4
        <4>2. Ready(Child)' <=> Ready(Child)
          BY <3>2, <2>0, <1>7
        <4>3. \A j \in 1..Len(calls[Child]) : \A f : Claims(Child, calls[Child][j], Child, f)' <=> Claims(Child, calls[Child][j], Child, f)
          BY <4>1, <1>1 DEF Claims, IsClosing, IsGiven
        <4>4. UNCHANGED <<inherited, handle, known, fd_table>>
          BY <1>1
        <4>5. InheritInv
          BY DEF FdInv
        <4> HIDE DEF c, e
        <4> QED BY <4>1, <4>2, <4>3, <4>4, <4>5 DEF InheritInv
      <3> QED BY <3>1, <3>2
    <2> QED BY <1>5, <1>8, <1>9, <1>10, <1>11, <1>12, <2>7, <2>8, <2>9, <2>10 DEF FdInv, ChildInv
  <1> QED BY <1>13, <1>14

\* The kernel performs an unshare or an exec, or the exec fails.
LEMMA PerformUnshareStep ==
    ASSUME TableCfg, FdInv, NEW t \in AllTasks, Ready(t), NEW i \in 1..Len(calls[t]), calls[t][i].ret = 0,
           i > 1 => calls[t][i - 1].ret # 0, PerformUnshare(t, i), UNCHANGED <<client, broken, manipulating, stage>>
    PROVE  FdInv'
  <1>1. CASE calls[t][i].op \in Faults /\ Returned(t, i, 2) /\ UNCHANGED <<ktable, kfile, leaked, alive>>
    <2>1. calls[t][i].op = "exec" /\ Faults # {} /\ UNCHANGED <<kernel, client, alive, broken, manipulating, stage, leaked>>
      BY <1>1 DEF PerformUnshare, TableCfg, kernel
    <2>2. Performs(t, i, 2)
      BY <1>1 DEF Performs
    <2>3. Performed(t, i, 2)
      BY <2>2, PerformCalls
    <2>4. calls'[t][i].op = calls[t][i].op /\ calls'[t][i].ret = 2
      BY <2>3 DEF Performed
    <2>5. CallOK(t, i, calls[t][i])
      BY DEF FdInv, CallsInv
    <2>6. CallOK(t, i, calls'[t][i])
      BY <2>1, <2>4, <2>5 DEF CallOK, Ready
    <2> QED BY <2>1, <2>2, <2>6, PerformIdleStep
  <1>2. CASE /\ ktable' = [ktable EXCEPT ![t] = t] /\ kfile' = [kfile EXCEPT ![t] = kfile[ktable[t]]]
             /\ leaked' = [leaked EXCEPT ![t] = OpenFds(ktable[t]) \ known[t]]
             /\ alive' = IF calls[t][i].op = "exec" THEN alive \ {t} ELSE alive
             /\ Returned(t, i, 1)
    <2>1. Performs(t, i, 1) /\ opened' = opened
      BY <1>2 DEF Performs, PerformUnshare
    <2>2. CASE calls[t][i].op = "unshare"
      BY <2>1, <2>2, <1>2, PerformUnshared
    <2>3. CASE calls[t][i].op = "exec"
      BY <2>1, <2>3, <1>2, PerformExec
    <2> QED BY <2>2, <2>3 DEF PerformUnshare
  <1> QED BY <1>1, <1>2 DEF PerformUnshare

\* The kernel copies a table for the child.
LEMMA PerformCloneStep ==
    ASSUME TableCfg, FdInv, NEW t \in AllTasks, Ready(t), NEW i \in 1..Len(calls[t]), calls[t][i].ret = 0,
           i > 1 => calls[t][i - 1].ret # 0, PerformClone(t, i), UNCHANGED <<client, broken, manipulating, stage>>
    PROVE  FdInv'
  <1> DEFINE c == calls[t][i]  e == calls'[t][i]
  <1>0. Performs(t, i, 1) /\ c.op = "clone"
    BY DEF PerformClone, Performs
  <1>1. /\ Performed(t, i, 1)
        /\ UNCHANGED <<fd_table, stage, alive, broken, opened, manipulating, known, tracked, inherited, handle>>
        /\ \A u \in AllTasks : \A a, b \in 1..Len(calls'[u]) : a < b /\ calls'[u][b].ret # 0 => calls'[u][a].ret # 0
        /\ \A u \in AllTasks : calls[u] # << >> =>
             calls'[u] # << >> /\ calls'[u][1].op = calls[u][1].op /\ (calls[u][1].ret # 0 => calls'[u][1].ret # 0)
    BY <1>0, PerformCalls DEF client, PerformClone
  <1>2. /\ calls' \in [AllTasks -> Seq(SysCall)] /\ \A u \in AllTasks : Len(calls'[u]) = Len(calls[u])
        /\ e.op = "clone" /\ e.ret = 1 /\ \A u \in AllTasks : \A j \in 1..Len(calls[u]) : <<u, j>> # <<t, i>> => calls'[u][j] = calls[u][j]
    BY <1>0, <1>1 DEF Performed
  <1>3. stage[t] = "clone" /\ t \in Tasks /\ Child # 0 /\ t \in alive /\ t \notin broken /\ Child \in AllTasks /\ 0 \in Tables /\ Child \in Tables
    <2>1. CallOK(t, i, c)
      BY DEF FdInv, CallsInv
    <2> QED BY <1>0, <2>1, TableFacts DEF CallOK, Ready
  <1>4. ~Copied /\ NewChild /\ \A j \in 1..Len(calls[t]) : calls[t][j].op = "clone" => j = i
    BY <1>0, <1>3 DEF FdInv, ChildInv, CloneInv
  <1>5. t # Child /\ Child \notin alive /\ stage[Child] = "none" /\ ktable[Child] = 0
    BY <1>3, <1>4 DEF NewChild, Copied, FdInv, PhaseInv
  <1>6. fd_table[t] = 0 /\ ktable[t] = 0
    BY <1>3, TableFacts DEF FdInv, PhaseInv, Waiting, Ready
  <1>7. \A u \in Tasks : u = t
    BY <1>3 DEF TableCfg
  <1> HIDE DEF c, e
  <1>8. /\ ktable' \in [AllTasks -> Tables] /\ ktable'[Child] = Child /\ \A u \in AllTasks \ {Child} : ktable'[u] = ktable[u]
        /\ kfile' \in [Tables -> [Fds -> Nat]] /\ kfile'[Child] = kfile[0] /\ \A l \in Tables \ {Child} : kfile'[l] = kfile[l]
        /\ leaked' \in [Tables -> SUBSET Fds] /\ leaked'[Child] = OpenFds(0)
    BY <1>3, <1>6 DEF FdInv, FdTypes, OpenFds, PerformClone
  <1>9. FdTypes'
    BY <1>1, <1>2, <1>8 DEF FdInv, FdTypes
  <1>10. \A u \in Tables : Waiting(u)' <=> Waiting(u)
    BY <1>1, <1>5, <1>8, TableFacts DEF Waiting
  <1>11. \A u \in AllTasks : Ready(u)' <=> Ready(u)
    BY <1>1 DEF Ready
  <1>12. PhaseInv'
    <2> SUFFICES ASSUME NEW u \in AllTasks PROVE PhaseInv!(u)'
      BY DEF PhaseInv
    <2>1. PhaseInv!(u)
      BY DEF FdInv, PhaseInv
    <2>2. Waiting(u)' <=> Waiting(u)
      BY <1>10, TableFacts
    <2>3. CASE u = Child
      BY <2>1, <2>2, <2>3, <1>1, <1>5, <1>8, <1>11 DEF Ready
    <2>4. CASE u # Child
      BY <2>1, <2>2, <2>4, <1>1, <1>8, <1>11
    <2> QED BY <2>3, <2>4
  <1>13. CallsInv'
    <2>1. ASSUME NEW u \in AllTasks, NEW j \in 1..Len(calls'[u]) PROVE CallOK(u, j, calls[u][j])'
      <3>1. j \in 1..Len(calls[u]) /\ CallOK(u, j, calls[u][j])
        BY <1>2 DEF FdInv, CallsInv
      <3>2. CASE u = t /\ j = i
        <4>1. calls'[u][j] = e
          BY <3>2 DEF e
        <4> QED BY <3>2, <4>1, <1>1, <1>2, <1>3 DEF CallOK
      <3>3. CASE <<u, j>> # <<t, i>>
        <4>1. calls'[u][j] = calls[u][j]
          BY <3>1, <3>3, <1>2
        <4>2. Waiting(u)' <=> Waiting(u)
          BY <1>10, TableFacts
        <4> QED BY <3>1, <4>1, <4>2, <1>1, <1>11 DEF CallOK
      <3> QED BY <3>2, <3>3
    <2>2. \A u \in AllTasks : Len(calls'[u]) <= MaxCalls
      BY <1>2 DEF FdInv, CallsInv
    <2> QED BY <2>1, <2>2, <1>1 DEF CallsInv
  <1>14. TrackedInv'
    <2>1. \A h \in Handles : Live(h) => (Waiting(handle[h].task)' => Waiting(handle[h].task))
      <3> SUFFICES ASSUME NEW h \in Handles, Live(h), Waiting(handle[h].task)' PROVE Waiting(handle[h].task)
        OBVIOUS
      <3> DEFINE q == handle[h].task
      <3>1. q \in AllTasks /\ handle'[h].task = q
        BY <1>1 DEF Live, FdInv, FdTypes
      <3>2. Waiting(handle[h].task)' <=> (q # 0 /\ stage'[q] = "unsharing" /\ q \notin broken' /\ ktable'[q] = 0)
        BY <3>1, <1>1 DEF Waiting
      <3> HIDE DEF q
      <3> QED BY <3>1, <3>2, <1>1, <1>3, <1>5, <1>8, TableFacts DEF Waiting, q
    <2> QED BY <2>1, <1>1 DEF FdInv, TrackedInv, Live
  <1>15. UseInv'
    BY <1>1, PerformedUse
  <1>16. TablesInv'
    <2>1. ASSUME NEW l \in Tables, Served(l)' PROVE Served(l) /\ (Waiting(l)' => Waiting(l)) /\ l # Child
      BY <2>1, <1>1, <1>3, <1>5, <1>10 DEF Served, Ready
    <2>2. ASSUME NEW l \in Tables, Served(l)', NEW f \in Fds PROVE File(l, f)' = File(l, f)
      <3>1. (Waiting(l)' <=> Waiting(l)) /\ 0 \in Tables /\ l # Child
        BY <2>1, <2>2, <1>10, TableFacts
      <3>2. Kernel(l)' = Kernel(l) /\ Kernel(l) \in Tables \ {Child}
        BY <3>1, <1>3 DEF Kernel
      <3> QED BY <3>2, <1>8 DEF File
    <2>3. c.op = "clone"
      BY <1>0
    <2> QED BY <2>1, <2>2, <2>3, <1>0, <1>1, <1>9, PerformTables DEF c
  <1>17. NewChild' /\ Copied' /\ inherited = {}
    BY <1>1, <1>3, <1>4, <1>5, <1>8 DEF NewChild, Copied, FdInv, ChildInv, NewInv
  <1>18. NewInv'
    <2>1. Len(calls'[Child]) = 0 /\ calls'[Child] \in Seq(SysCall)
      BY <1>2, <1>3, <1>4 DEF FdInv, ChildInv, NewInv
    <2>2. calls'[Child] = << >>
      BY <2>1
    <2> QED BY <2>2, <1>1, <1>4 DEF FdInv, ChildInv, NewInv
  <1>19. CopyInv'
    <2>1. ASSUME NEW h \in tracked[0], Live(h) PROVE kfile[0][handle[h].near] = handle[h].file
      <3>1. h \in Handles /\ handle[h].task = t
        BY <1>3, <1>7 DEF FdInv, FdTypes, TrackedInv
      <3>2. FdTypes /\ PhaseInv /\ TableInv(0)
        BY <1>3 DEF FdInv, TablesInv
      <3>3. Served(0)
        BY <3>2, <1>3, TaskServed
      <3> QED BY <2>1, <3>1, <3>2, <3>3, <1>6 DEF TableInv, File, Kernel
    <2>2. \A f \in leaked'[Child] : kfile[0][f] # 0
      BY <1>8 DEF OpenFds
    <2>3. kfile'[0] = kfile[0]
      BY <1>3, <1>8
    <2> QED BY <2>1, <2>2, <2>3, <1>1, <1>8 DEF CopyInv, Live
  <1>20. CloneInv'
    <2>1. ASSUME NEW u \in AllTasks \ broken, NEW j \in 1..Len(calls'[u]), calls'[u][j].op = "clone" PROVE u = t /\ j = i
      <3>1. CallOK(u, j, calls[u][j])'
        BY <1>13 DEF CallsInv
      <3>2. u \in Tasks
        BY <2>1, <3>1, <1>1 DEF CallOK
      <3>3. u = t
        BY <3>2, <1>7
      <3> QED BY <2>1, <3>3, <1>2, <1>4
    <2>2. i \in 1..Len(calls'[t]) /\ calls'[t][i].op = "clone" /\ calls'[t][i].ret # 0
      BY <1>2 DEF e
    <2>3. \A u \in Tasks \ broken : \E j \in 1..Len(calls'[u]) : calls'[u][j].op = "clone" /\ calls'[u][j].ret # 0
      BY <2>2, <1>7
    <2> QED BY <2>1, <2>2, <2>3, <1>1, <1>17 DEF CloneInv
  <1>21. InheritInv'
    BY <1>1, <1>5, <1>17 DEF InheritInv, Ready
  <1> QED BY <1>9, <1>12, <1>13, <1>14, <1>15, <1>16, <1>18, <1>19, <1>20, <1>21 DEF FdInv, ChildInv

\* The kernel performs a call.
LEMMA PerformStep ==
    ASSUME TableCfg, FdInv, NEW t \in AllTasks, Perform(t)
    PROVE  FdInv'
  <1>1. Ready(t) /\ UNCHANGED <<client, broken, manipulating, stage>>
    BY DEF Perform
  <1>2. PICK i \in 1..Len(calls[t]) :
          /\ calls[t][i].ret = 0 /\ (i > 1 => calls[t][i - 1].ret # 0)
          /\ \/ PerformOpen(t, i) \/ PerformClose(t, i) \/ PerformUse(t, i)
             \/ PerformUnshare(t, i) \/ PerformClone(t, i)
    BY DEF Perform
  <1>3. CASE PerformOpen(t, i)
    BY <1>1, <1>2, <1>3, PerformOpenStep
  <1>4. CASE PerformClose(t, i)
    BY <1>1, <1>2, <1>4, PerformCloseStep
  <1>5. CASE PerformUse(t, i)
    BY <1>1, <1>2, <1>5, PerformUseStep
  <1>6. CASE PerformUnshare(t, i)
    BY <1>1, <1>2, <1>6, PerformUnshareStep
  <1>7. CASE PerformClone(t, i)
    BY <1>1, <1>2, <1>7, PerformCloneStep
  <1> QED BY <1>2, <1>3, <1>4, <1>5, <1>6, <1>7

-----------------------------------------------------------------------------
(* All steps                                                               *)

\* Every step keeps the invariant.
LEMMA FdStep ==
    ASSUME TableCfg, FdInv, FreshInv, Next
    PROVE  FdInv'
  <1>1. CASE \E h \in Handles : Invalidate(h) \/ Drop(h) \/ UseOwn(h)
    BY <1>1, InvalidateStep, DropStep, UseOwnStep
  <1>2. ASSUME NEW t \in AllTasks, NEW h \in Handles, ForTask(h, t) \/ Inherit(h, t) \/ Borrow(h, t)
        PROVE  FdInv'
    BY <1>2, ForTaskStep, InheritStep, BorrowStep
  <1>3. ASSUME NEW t \in AllTasks, Perform(t) \/ Reply(t) \/ Hangup(t) \/ ReplyHangup(t) PROVE FdInv'
    BY <1>3, PerformStep, ReplyStep, HangupStep, ReplyHangupStep
  <1>4. ASSUME NEW t \in AllTasks, Open(t) \/ Gc(t) PROVE FdInv'
    BY <1>4, OpenStep, GcStep
  <1>5. ASSUME NEW t \in AllTasks, UnshareFiles(t) \/ UnshareReturns(t) \/ GcNew(t) PROVE FdInv'
    BY <1>5, UnshareFilesStep, UnshareReturnsStep, GcNewStep
  <1>6. ASSUME NEW t \in AllTasks, Exec(t) \/ ExecReturns(t) PROVE FdInv'
    BY <1>6, ExecStep, ExecReturnsStep
  <1>7. ASSUME NEW t \in AllTasks, Clone(t) \/ CloneReturns(t) \/ MakeTable(t) PROVE FdInv'
    BY <1>7, CloneStep, CloneReturnsStep, MakeTableStep
  <1> QED BY <1>1, <1>2, <1>3, <1>4, <1>5, <1>6, <1>7, Zenon DEF Next

\* While the clone that a stage waits for has not made the child, the stage stays.
LEMMA FreshKept ==
    ASSUME TableCfg, FreshInv, \A t \in Tasks : stage'[t] \in {"none", "clone", "cloned"} => stage[t] \in {"none", "clone", "cloned"},
           Child # 0 => \/ \A t \in Tasks : stage'[t] \notin {"none", "clone", "cloned"}
                        \/ ~NewChild \/ (Child \notin alive' /\ stage'[Child] = "none")
    PROVE  FreshInv'
  BY DEF FreshInv, NewChild

\* Every step keeps it.
LEMMA FreshStep ==
    ASSUME TableCfg, FdInv, FreshInv, Next
    PROVE  FreshInv'
  <1>0. PhaseInv /\ CallsInv /\ FdTypes
    BY DEF FdInv
  <1>1. CASE UNCHANGED <<stage, alive>>
    BY <1>1 DEF FreshInv, NewChild
  <1>2. ASSUME NEW t \in AllTasks, Perform(t) PROVE FreshInv'
    <2>1. stage' = stage /\ (alive' \subseteq alive)
      BY <1>2 DEF Perform, PerformOpen, PerformClose, PerformUse, PerformUnshare, PerformClone
    <2> QED BY <2>1, FreshKept DEF NewChild
  <1>3. ASSUME NEW t \in AllTasks, UnshareFiles(t) \/ UnshareReturns(t) \/ GcNew(t) PROVE FreshInv'
    <2>1. CASE UnshareFiles(t)
      BY <2>1 DEF UnshareFiles, TableCfg, FreshInv
    <2>2. CASE UnshareReturns(t)
      <3>1. calls[t] \in Seq(SysCall) /\ calls[t] # << >> /\ Head(calls[t]).op = "unshare"
        BY <1>0, <2>2 DEF UnshareReturns, FdTypes
      <3>2. 1 \in 1..Len(calls[t]) /\ calls[t][1].op = "unshare"
        BY <3>1
      <3>3. stage[t] = "unsharing"
        BY <3>2, <1>0 DEF CallsInv, CallOK
      <3> QED BY <3>3, <1>0 DEF PhaseInv, FreshInv
    <2>3. CASE GcNew(t)
      BY <2>3, <1>0 DEF GcNew, PhaseInv, FreshInv
    <2> QED BY <1>3, <2>1, <2>2, <2>3
  <1>4. ASSUME NEW t \in AllTasks, Exec(t) PROVE FreshInv'
    <2>1. alive' = alive /\ stage' = [stage EXCEPT ![t] = "exec"] /\ t \in alive
      BY <1>4 DEF Exec, Ready
    <2>2. \A u \in AllTasks : stage'[u] = IF u = t THEN "exec" ELSE stage[u]
      BY <2>1, <1>0 DEF FdTypes
    <2>3. NewChild => stage'[Child] = "none" /\ Child \notin alive'
      BY <2>1, <2>2, TableFacts DEF NewChild
    <2> QED BY <2>2, <2>3, FreshKept, TableFacts
  <1>5. ASSUME NEW t \in AllTasks, ExecReturns(t) PROVE FreshInv'
    <2>1. alive' = alive /\ stage' = [stage EXCEPT ![t] = "done"] /\ calls[t] # << >> /\ Head(calls[t]).op = "exec"
      BY <1>5 DEF ExecReturns
    <2>2. \A u \in AllTasks : stage'[u] = IF u = t THEN "done" ELSE stage[u]
      BY <2>1, <1>0 DEF FdTypes
    <2>3. 1 \in 1..Len(calls[t]) /\ calls[t][1].op = "exec"
      <3>1. calls[t] \in Seq(SysCall)
        BY <1>0 DEF FdTypes
      <3> QED BY <2>1, <3>1
    <2>4. stage[t] = "exec"
      BY <2>3, <1>0 DEF CallsInv, CallOK
    <2>5. NewChild => stage'[Child] = "none" /\ Child \notin alive'
      BY <2>1, <2>2, <2>4, TableFacts DEF NewChild
    <2> QED BY <2>2, <2>5, FreshKept, TableFacts
  <1>6. ASSUME NEW t \in AllTasks, Clone(t) \/ CloneReturns(t) PROVE FreshInv'
    <2>1. PICK s : alive' = alive /\ stage' = [stage EXCEPT ![t] = s] /\ t \in alive /\ stage[t] \in {"none", "clone"}
      <3>1. CASE Clone(t)
        BY <3>1 DEF Clone, Ready
      <3>2. CASE CloneReturns(t)
        <4>1. calls[t] \in Seq(SysCall) /\ calls[t] # << >> /\ Head(calls[t]).op = "clone" /\ t \notin broken
          BY <1>0, <3>2 DEF CloneReturns, FdTypes
        <4>2. 1 \in 1..Len(calls[t]) /\ calls[t][1].op = "clone"
          BY <4>1
        <4>3. stage[t] = "clone"
          BY <4>1, <4>2, <1>0 DEF CallsInv, CallOK
        <4> QED BY <4>3, <3>2, <1>0 DEF CloneReturns, PhaseInv
      <3> QED BY <1>6, <3>1, <3>2
    <2>2. \A u \in AllTasks : stage'[u] = IF u = t THEN s ELSE stage[u]
      BY <2>1, <1>0 DEF FdTypes
    <2>3. NewChild => stage'[Child] = "none" /\ Child \notin alive'
      BY <2>1, <2>2, TableFacts DEF NewChild
    <2>4. \A u \in Tasks : stage'[u] \in {"none", "clone", "cloned"} => stage[u] \in {"none", "clone", "cloned"}
      BY <2>1, <2>2, TableFacts
    <2> QED BY <2>3, <2>4, FreshKept
  <1>7. ASSUME NEW t \in AllTasks, MakeTable(t) PROVE FreshInv'
    <2>1. stage[t] = "cloned" /\ stage' = [stage EXCEPT ![t] = "done"]
      BY <1>7 DEF MakeTable
    <2>2. t \in Tasks /\ Child # 0
      BY <2>1, <1>0 DEF PhaseInv
    <2>3. stage'[t] = "done"
      BY <2>1, <1>0 DEF FdTypes
    <2> QED BY <2>2, <2>3 DEF TableCfg, FreshInv
  <1>8. ASSUME NEW t \in AllTasks, Reply(t) \/ Hangup(t) \/ ReplyHangup(t) \/ Open(t) \/ Gc(t) PROVE UNCHANGED <<stage, alive>>
    BY <1>8 DEF Reply, Hangup, ReplyHangup, Open, Gc
  <1>9. ASSUME NEW h \in Handles, Invalidate(h) \/ Drop(h) \/ UseOwn(h) PROVE UNCHANGED <<stage, alive>>
    BY <1>9 DEF Invalidate, Drop, UseOwn
  <1>10. ASSUME NEW t \in AllTasks, NEW h \in Handles, ForTask(h, t) \/ Inherit(h, t) \/ Borrow(h, t) PROVE UNCHANGED <<stage, alive>>
    BY <1>10 DEF ForTask, Inherit, Borrow
  <1> QED BY <1>1, <1>2, <1>3, <1>4, <1>5, <1>6, <1>7, <1>8, <1>9, <1>10, Zenon DEF Next

\* So does a step that changes nothing.
LEMMA FdStutters ==
    ASSUME FdInv, FreshInv, UNCHANGED vars
    PROVE  FdInv' /\ FreshInv'
  <1>1. UNCHANGED <<ktable, kfile, opened, alive, broken, calls, fd_table, known, tracked, inherited, handle, manipulating, stage, leaked, wrong>>
    BY DEF vars, kernel, client
  <1>2. FdTypes' /\ PhaseInv'
    BY <1>1 DEF FdInv, FdTypes, PhaseInv, Ready, Waiting
  <1>3. CallsInv' /\ UseInv' /\ FreshInv'
    BY <1>1 DEF FdInv, CallsInv, CallOK, UseInv, FreshInv, NewChild, Waiting, Ready
  <1>4. TrackedInv'
    BY <1>1 DEF FdInv, TrackedInv, Live, Waiting
  <1>5. ChildInv' /\ InheritInv'
    BY <1>1 DEF FdInv, ChildInv, NewInv, CopyInv, CloneInv, InheritInv, NewChild, Copied, Live, Ready, IsGiven, HasClone, Claims, IsClosing
  <1>6. TablesInv'
    BY <1>1 DEF FdInv, TablesInv, TableInv, Served, Safe, File, Kept, Kernel, Waiting, Claims, IsClosing, IsGiven, Live, Ready
  <1> QED BY <1>2, <1>3, <1>4, <1>5, <1>6 DEF FdInv

\* They hold at first.
LEMMA FdInit ==
    ASSUME TableCfg, Init
    PROVE  FdInv /\ FreshInv
  <1>0. \A t \in AllTasks : calls[t] = << >> /\ Len(calls[t]) = 0 /\ stage[t] = "none" /\ ktable[t] = 0 /\ ~Waiting(t)
    BY DEF Init, Waiting
  <1>1. FdTypes
    BY TableFacts DEF Init, FdTypes, HandleRec, Free, Tables
  <1>2. PhaseInv
    BY TableFacts DEF Init, PhaseInv, Home, Ready, Waiting
  <1>3. CallsInv /\ UseInv
    BY <1>0 DEF CallsInv, UseInv, TableCfg, FDTableAssumption
  <1>4. TrackedInv
    BY DEF Init, TrackedInv, Live, Free
  <1>5. TablesInv
    <2>1. \A k \in Tables : known[k] = {}
      BY DEF Init
    <2>2. \A h \in Handles : ~Live(h)
      BY DEF Init, Live, Free
    <2> QED BY <1>0, <2>1, <2>2 DEF TablesInv, TableInv
  <1>6. NewInv
    BY <1>0, TableFacts DEF NewInv, NewChild, Init, Free
  <1>7. CopyInv
    BY <1>0, TableFacts DEF CopyInv, Copied, NewChild
  <1>8. CloneInv
    BY <1>0, TableFacts DEF CloneInv, Copied, NewChild
  <1>9. InheritInv
    BY <1>0, TableFacts DEF InheritInv, Init, Ready
  <1>10. FreshInv
    BY TableFacts DEF FreshInv, NewChild, Init
  <1> QED BY <1>1, <1>2, <1>3, <1>4, <1>5, <1>6, <1>7, <1>8, <1>9, <1>10 DEF FdInv, ChildInv

\* No step closes or uses another task's file: what a call means is what its number
\* stands for.
LEMMA WrongStep ==
    ASSUME TableCfg, FdInv, WrongInv, Next
    PROVE  WrongInv'
  <1> DEFINE Fine == "closed another file" \notin wrong' /\ "use" \notin wrong'
  <1> SUFFICES Fine
    BY DEF WrongInv
  <1>0. "closed another file" \notin wrong /\ "use" \notin wrong
    BY DEF WrongInv
  <1>1. ASSUME NEW t \in AllTasks, Ready(t), NEW i \in 1..Len(calls[t]), calls[t][i].ret = 0, i > 1 => calls[t][i - 1].ret # 0,
               calls[t][i].op \in {"close", "use"}, \E r \in Nat \ {0} : Returned(t, i, r)
        PROVE  kfile[ktable[t]][calls[t][i].fd] = calls[t][i].file
    <2> DEFINE c == calls[t][i]  k == fd_table[t]
    <2>1. PICK r \in Nat \ {0} : Performs(t, i, r)
      BY <1>1 DEF Performs
    <2>2. ~Waiting(t)
      BY <2>1, <1>1, PerformCalls
    <2>3. k = ktable[t] /\ k \in Tables /\ Kernel(k) = k /\ Served(k)
      BY <2>2, <1>1, OwnTable
    <2>4. TableInv(k)
      BY <2>3 DEF FdInv, TablesInv
    <2>5. CASE c.op = "close"
      <3>1. IsClosing(c) /\ c.table = k
        BY <2>5, <1>1 DEF FdInv, CallsInv, CallOK, IsClosing
      <3> HIDE DEF k
      <3>2. File(k, c.fd) = c.file
        BY <3>1, <2>3, <2>4 DEF TableInv
      <3> QED BY <3>2, <2>3 DEF File
    <2>6. CASE c.op = "use"
      <3>1. PICK b \in Handles : handle[b].state = "borrowed" /\ handle[b].task = t /\ handle[b].near = c.fd /\ handle[b].file = c.file
        BY <2>6 DEF FdInv, UseInv
      <3>2. Live(b) /\ fd_table[handle[b].task] = k
        BY <3>1 DEF Live
      <3> HIDE DEF k
      <3>3. File(k, handle[b].near) = handle[b].file
        BY <3>2, <2>3, <2>4 DEF TableInv
      <3> QED BY <3>1, <3>3, <2>3 DEF File
    <2> QED BY <1>1, <2>5, <2>6
  <1>2. ASSUME NEW t \in AllTasks, Perform(t) PROVE Fine
    <2>1. Ready(t)
      BY <1>2 DEF Perform
    <2>2. PICK i \in 1..Len(calls[t]) :
            /\ calls[t][i].ret = 0 /\ (i > 1 => calls[t][i - 1].ret # 0)
            /\ \/ PerformOpen(t, i) \/ PerformClose(t, i) \/ PerformUse(t, i)
               \/ PerformUnshare(t, i) \/ PerformClone(t, i)
      BY <1>2 DEF Perform
    <2>3. CASE PerformOpen(t, i) \/ PerformUnshare(t, i) \/ PerformClone(t, i)
      BY <2>3, <1>0 DEF PerformOpen, PerformUnshare, PerformClone
    <2>4. CASE PerformClose(t, i)
      <3>1. Returned(t, i, 1) /\ calls[t][i].op = "close"
        BY <2>4 DEF PerformClose
      <3>2. kfile[ktable[t]][calls[t][i].fd] = calls[t][i].file
        BY <3>1, <2>1, <2>2, <1>1
      <3> QED BY <3>2, <2>4, <1>0 DEF PerformClose
    <2>5. CASE PerformUse(t, i)
      <3>1. Returned(t, i, 1) /\ calls[t][i].op \in {"use", "use_own"}
        BY <2>5 DEF PerformUse
      <3>2. calls[t][i].op = "use" => kfile[ktable[t]][calls[t][i].fd] = calls[t][i].file
        BY <3>1, <2>1, <2>2, <1>1
      <3>3. wrong' = wrong \/ (calls[t][i].op = "use_own" /\ wrong' = wrong \cup {"use_own"})
        BY <3>1, <3>2, <2>5 DEF PerformUse
      <3> QED BY <3>3, <1>0
    <2> QED BY <2>2, <2>3, <2>4, <2>5
  <1>3. ASSUME NEW t \in AllTasks, Reply(t) \/ ReplyHangup(t) PROVE Fine
    <2>1. CASE Reply(t)
      <3>1. wrong' \subseteq wrong \cup {"opened while manipulating", "already known", "borrowed fd freed from under us"}
        BY <2>1 DEF Reply, OpenReturns, UseReturns
      <3> QED BY <3>1, <1>0
    <2>2. CASE ReplyHangup(t)
      <3>1. wrong' \subseteq wrong \cup {"somehow reopened"}
        BY <2>2 DEF ReplyHangup
      <3> QED BY <3>1, <1>0
    <2> QED BY <1>3, <2>1, <2>2
  <1>4. ASSUME NEW t \in AllTasks, Hangup(t) \/ Open(t) \/ Gc(t) \/ UnshareFiles(t) \/ UnshareReturns(t) \/ GcNew(t)
        PROVE Fine
    BY <1>4, <1>0 DEF Hangup, Open, Gc, UnshareFiles, UnshareReturns, GcNew
  <1>5. ASSUME NEW t \in AllTasks, Exec(t) \/ ExecReturns(t) \/ Clone(t) \/ CloneReturns(t) \/ MakeTable(t)
        PROVE Fine
    BY <1>5, <1>0 DEF Exec, ExecReturns, Clone, CloneReturns, MakeTable
  <1>6. ASSUME NEW t \in AllTasks, NEW h \in Handles, ForTask(h, t) \/ Inherit(h, t) \/ Borrow(h, t) PROVE Fine
    BY <1>6, <1>0 DEF ForTask, Inherit, Borrow
  <1>7. ASSUME NEW h \in Handles, Invalidate(h) \/ Drop(h) \/ UseOwn(h) PROVE Fine
    BY <1>7, <1>0 DEF Invalidate, Drop, UseOwn
  <1> HIDE DEF Fine
  <1> QED BY <1>2, <1>3, <1>4, <1>5, <1>6, <1>7, Zenon DEF Next

-----------------------------------------------------------------------------
(* No fd is forgotten                                                      *)

\* A step that opens nothing and forgets no number keeps the account.
LEMMA AccountKept ==
    ASSUME AccountInv, kfile' = kfile, leaked' = leaked,
           \A k \in Tables : Served(k)' /\ ~Waiting(k)' => Served(k) /\ ~Waiting(k),
           \A k \in Tables : \A fd \in Fds : Served(k)' /\ ~Waiting(k)' /\ Accounted(k, fd) => Accounted(k, fd)'
    PROVE  AccountInv'
  <1> SUFFICES ASSUME Faults = {}, Child = 0, NEW k \in Tables, Served(k)', ~Waiting(k)', NEW fd \in Fds \ leaked[k], kfile[k][fd] # 0
      PROVE  Accounted(k, fd)'
    BY DEF AccountInv
  <1>1. Served(k) /\ ~Waiting(k)
    OBVIOUS
  <1>2. Accounted(k, fd)
    BY <1>1 DEF AccountInv
  <1> QED BY <1>2

\* The calls stay what they are, or more follow.
More == \A u \in AllTasks : \A i \in 1..Len(calls[u]) : i \in 1..Len(calls'[u]) /\ calls'[u][i] = calls[u][i]

\* More calls account for what fewer did.
LEMMA MoreAccounted ==
    ASSUME More, NEW k, NEW fd, fd_table' = fd_table \/ \A u \in AllTasks : \A i \in 1..Len(calls[u]) : ~IsGiven(calls[u][i]) \/ fd_table'[u] = fd_table[u],
           Accounted(k, fd), fd \in known[k] => Accounted(k, fd)'
    PROVE  Accounted(k, fd)'
  <1>1. ASSUME NEW u \in AllTasks, NEW i \in 1..Len(calls[u]), Claims(u, calls[u][i], k, fd) PROVE Accounted(k, fd)'
    <2>1. i \in 1..Len(calls'[u]) /\ calls'[u][i] = calls[u][i]
      BY DEF More
    <2>2. Claims(u, calls[u][i], k, fd)'
      BY <2>1, <1>1 DEF Claims, IsClosing, IsGiven
    <2> QED BY <2>1, <2>2 DEF Accounted
  <1> QED BY <1>1 DEF Accounted

\* What the first call accounted for is in its table when it is handled.
LEMMA PopAccounted ==
    ASSUME FdTypes, NEW t \in AllTasks, calls[t] # << >>, calls'[t] = Tail(calls[t]), fd_table' = fd_table,
           \A u \in AllTasks \ {t} : \A i \in 1..Len(calls[u]) : i \in 1..Len(calls'[u]) /\ calls'[u][i] = calls[u][i],
           NEW k, NEW fd, Claims(t, Head(calls[t]), k, fd) => fd \in known'[k],
           Accounted(k, fd), fd \in known[k] => Accounted(k, fd)'
    PROVE  Accounted(k, fd)'
  <1> DEFINE q == calls[t]
  <1>0. q \in Seq(SysCall) /\ q # << >>
    BY DEF FdTypes
  <1>1. Head(q) = q[1] /\ Len(Tail(q)) = Len(q) - 1 /\ Len(q) \in Nat /\ \A i \in 1..Len(Tail(q)) : Tail(q)[i] = q[i + 1]
    BY ONLY <1>0
  <1>2. ASSUME NEW j \in 1..Len(q), Claims(t, q[j], k, fd) PROVE Accounted(k, fd)'
    <2>1. CASE j = 1
      BY <2>1, <1>1, <1>2 DEF Accounted
    <2>2. CASE j # 1
      <3>1. PICK i \in 1..Len(calls'[t]) : i + 1 = j
        <4>1. j - 1 \in 1..Len(calls'[t]) /\ (j - 1) + 1 = j
          BY <2>2, <1>1
        <4> QED BY <4>1
      <3>2. calls'[t][i] = q[j]
        BY <3>1, <1>1
      <3>3. Claims(t, calls[t][i], k, fd)'
        BY <3>2, <1>2 DEF Claims, IsClosing, IsGiven
      <3> QED BY <3>1, <3>3 DEF Accounted
    <2> QED BY <2>1, <2>2
  <1>3. ASSUME NEW u \in AllTasks \ {t}, NEW j \in 1..Len(calls[u]), Claims(u, calls[u][j], k, fd) PROVE Accounted(k, fd)'
    <2>1. j \in 1..Len(calls'[u]) /\ calls'[u][j] = calls[u][j]
      OBVIOUS
    <2>2. Claims(u, calls[u][j], k, fd)'
      BY <2>1, <1>3 DEF Claims, IsClosing, IsGiven
    <2> QED BY <2>1, <2>2 DEF Accounted
  <1> QED BY <1>2, <1>3 DEF Accounted

\* What a collection takes out of table k is closed by a call of t.
LEMMA ClosesAccount ==
    ASSUME TableCfg, FdInv, NEW t \in AllTasks, NEW k \in Tables, NEW fds \in SUBSET known[k],
           known' = [known EXCEPT ![k] = @ \ fds], calls'[t] = calls[t] \o Closes(k, fds)
    PROVE  /\ \A l \in Tables : \A fd \in known[l] : Accounted(l, fd)'
           /\ \A i \in 1..Len(calls[t]) : i \in 1..Len(calls'[t]) /\ calls'[t][i] = calls[t][i]
  <1> DEFINE q == Closes(k, fds)
  <1>1. FdTypes /\ PhaseInv /\ fds \in SUBSET Fds
    BY DEF FdInv, FdTypes
  <1>2. /\ q \in Seq(SysCall) /\ Len(q) = Cardinality(fds) /\ Cardinality(fds) \in Nat
        /\ \A f \in fds : \E i \in 1..Cardinality(fds) : q[i] = Call("close", f, FileAt(k, f), k, {})
    BY <1>1, ClosesCalls
  <1>3. known'[k] = known[k] \ fds /\ \A m \in Tables : m # k => known'[m] = known[m]
    BY <1>1 DEF FdTypes
  <1> HIDE DEF q
  <1>5. /\ Len(calls'[t]) = Len(calls[t]) + Len(q) /\ Len(calls[t]) \in Nat
        /\ \A i \in 1..Len(q) : calls'[t][Len(calls[t]) + i] = q[i]
        /\ \A i \in 1..Len(calls[t]) : calls'[t][i] = calls[t][i]
    <2> DEFINE p == calls[t]  r == p \o q
    <2>1. p \in Seq(SysCall) /\ q \in Seq(SysCall)
      BY <1>1, <1>2 DEF FdTypes
    <2>2. Len(r) = Len(p) + Len(q) /\ Len(p) \in Nat /\ \A i \in 1..Len(q) : r[Len(p) + i] = q[i]
      BY ONLY <2>1
    <2>4. \A i \in 1..Len(p) : r[i] = p[i]
      BY ONLY <2>1
    <2>3. calls'[t] = r
      BY DEF q
    <2> HIDE DEF r
    <2> QED BY <2>2, <2>3, <2>4
  <1>7. ASSUME NEW fd \in fds PROVE Accounted(k, fd)'
    <2>1. PICK i \in 1..Len(q) : q[i] = Call("close", fd, FileAt(k, fd), k, {})
      BY <1>2
    <2>2. PICK j \in 1..Len(calls'[t]) : calls'[t][j] = q[i]
      <3>1. Len(calls[t]) + i \in 1..Len(calls'[t])
        BY <1>2, <1>5
      <3> QED BY <3>1, <1>5
    <2>3. Claims(t, calls[t][j], k, fd)'
      BY <2>1, <2>2, <1>7 DEF Claims, IsClosing, Call
    <2> QED BY <2>2, <2>3 DEF Accounted
  <1>8. \A l \in Tables : \A fd \in known[l] : Accounted(l, fd)'
    BY <1>3, <1>7 DEF Accounted
  <1>9. \A i \in 1..Len(calls[t]) : i \in 1..Len(calls'[t])
    BY <1>2, <1>5
  <1> QED BY <1>5, <1>8, <1>9

\* Performing a call keeps the account.
LEMMA AccountPerform ==
    ASSUME TableCfg, FdInv, AccountInv, Faults = {}, Child = 0, NEW t \in AllTasks, Perform(t)
    PROVE  AccountInv'
  <1>1. Ready(t) /\ UNCHANGED <<fd_table, broken, stage, known>>
    BY DEF Perform, client
  <1>2. PICK i \in 1..Len(calls[t]) :
          /\ calls[t][i].ret = 0 /\ (i > 1 => calls[t][i - 1].ret # 0)
          /\ \/ PerformOpen(t, i) \/ PerformClose(t, i) \/ PerformUse(t, i)
             \/ PerformUnshare(t, i) \/ PerformClone(t, i)
    BY DEF Perform
  <1> DEFINE c == calls[t][i]
  <1>3. ASSUME NEW r \in Nat \ {0}, Returned(t, i, r)
        PROVE  /\ Performs(t, i, r) /\ \A u \in AllTasks : Len(calls'[u]) = Len(calls[u]) /\ calls'[t][i].ret = r
               /\ calls'[t][i].op = c.op /\ c \in SysCall
               /\ \A u \in AllTasks : \A j \in 1..Len(calls[u]) : <<u, j>> # <<t, i>> => calls'[u][j] = calls[u][j]
    <2>1. Performs(t, i, r)
      BY <1>1, <1>2, <1>3 DEF Performs
    <2>2. Performed(t, i, r) /\ c \in SysCall
      BY <2>1, PerformCalls
    <2> QED BY <2>1, <2>2 DEF Performed
  <1>4. ASSUME NEW r \in Nat \ {0}, Returned(t, i, r), NEW k, NEW fd, Accounted(k, fd), ~Claims(t, c, k, fd)
        PROVE  Accounted(k, fd)'
    <2>1. ASSUME NEW u \in AllTasks, NEW j \in 1..Len(calls[u]), Claims(u, calls[u][j], k, fd) PROVE Accounted(k, fd)'
      <3>1. j \in 1..Len(calls'[u]) /\ calls'[u][j] = calls[u][j]
        BY <1>3, <1>4, <2>1
      <3>2. Claims(u, calls[u][j], k, fd)'
        BY <3>1, <2>1, <1>1 DEF Claims, IsClosing, IsGiven
      <3> QED BY <3>1, <3>2 DEF Accounted
    <2> QED BY <2>1, <1>1, <1>4 DEF Accounted
  <1>5. \A k, fd : c.op # "close" => ~Claims(t, c, k, fd)
    BY <1>2 DEF Claims, IsClosing, IsGiven
  <1>6. \A k \in Tables : UNCHANGED <<ktable, alive>> => (Served(k)' <=> Served(k)) /\ (Waiting(k)' <=> Waiting(k))
    BY <1>1 DEF Served, Ready, Waiting
  <1>7. CallOK(t, i, c)
    BY DEF FdInv, CallsInv
  <1>8. CASE PerformOpen(t, i)
    <2> DEFINE k == ktable[t]  free == Fds \ OpenFds(k)  new == CHOOSE f \in free : \A g \in free : f <= g
    <2>1. /\ c.op = "open" /\ free # {} /\ kfile' = [kfile EXCEPT ![k][new] = opened + 1] /\ Returned(t, i, new)
          /\ UNCHANGED <<ktable, alive, leaked>>
      BY <1>8 DEF PerformOpen
    <2>2. new \in Nat \ {0}
      <3>1. free \in SUBSET Nat
        BY TableFacts
      <3>2. \E f \in free : \A g \in free : f <= g
        BY <2>1, <3>1, HasLeast
      <3>3. new \in free
        BY <3>2
      <3> HIDE DEF new
      <3> QED BY <3>3, TableFacts
    <2> HIDE DEF new, free
    <2>3. ~Waiting(t)
      BY <2>1, <2>2, <1>3, PerformCalls
    <2>4. k = fd_table[t] /\ k \in Tables
      BY <2>3, <1>1, OwnTable
    <2> HIDE DEF k
    <2>5. \A l \in Tables : \A f \in Fds : ~(l = k /\ f = new) => kfile'[l][f] = kfile[l][f]
      BY <2>1, <2>4 DEF FdInv, FdTypes
    <2>6. ASSUME NEW l, NEW f, l = k, f = new PROVE Accounted(l, f)'
      <3>1. i \in 1..Len(calls'[t]) /\ calls'[t][i].op = "open" /\ calls'[t][i].ret = new
        BY <2>1, <2>2, <1>3
      <3>2. Claims(t, calls[t][i], l, f)'
        BY <3>1, <2>2, <2>4, <2>6, <1>1 DEF Claims, IsGiven
      <3> QED BY <3>1, <3>2 DEF Accounted
    <2> SUFFICES ASSUME NEW l \in Tables, Served(l)', ~Waiting(l)', NEW f \in Fds \ leaked[l], kfile'[l][f] # 0, ~(l = k /\ f = new)
        PROVE  Accounted(l, f)'
      BY <2>1, <2>6 DEF AccountInv
    <2>7. Accounted(l, f)
      BY <2>1, <2>5, <1>6 DEF AccountInv
    <2> QED BY <2>1, <2>2, <2>7, <1>4, <1>5
  <1>9. CASE PerformClose(t, i)
    <2> DEFINE k == ktable[t]
    <2>1. /\ c.op = "close" /\ kfile' = [kfile EXCEPT ![k][c.fd] = 0] /\ leaked' = [leaked EXCEPT ![k] = @ \ {c.fd}] /\ Returned(t, i, 1)
          /\ UNCHANGED <<ktable, alive>>
      BY <1>9 DEF PerformClose
    <2>2. ~Waiting(t)
      <3>1. Performs(t, i, 1)
        BY <2>1, <1>3
      <3> QED BY <3>1, <2>1, PerformCalls
    <2>3. k = fd_table[t] /\ k \in Tables
      BY <2>2, <1>1, OwnTable
    <2>4. c.table = k /\ c.fd \in Fds
      BY <2>1, <2>3, <1>1, <1>7 DEF CallOK
    <2> HIDE DEF k, c
    <2>5. /\ kfile'[k][c.fd] = 0 /\ \A l \in Tables : \A f \in Fds : ~(l = k /\ f = c.fd) => kfile'[l][f] = kfile[l][f]
          /\ \A l \in Tables : \A f \in Fds : ~(l = k /\ f = c.fd) /\ f \notin leaked'[l] => f \notin leaked[l]
      BY <2>1, <2>3, <2>4 DEF FdInv, FdTypes
    <2> SUFFICES ASSUME NEW l \in Tables, Served(l)', ~Waiting(l)', NEW f \in Fds \ leaked'[l], kfile'[l][f] # 0
        PROVE  Accounted(l, f)'
      BY DEF AccountInv
    <2>6. ~(l = k /\ f = c.fd)
      BY <2>5
    <2>7. Accounted(l, f)
      BY <2>1, <2>5, <2>6, <1>6 DEF AccountInv
    <2>8. ~Claims(t, c, l, f)
      BY <2>1, <2>4, <2>6 DEF Claims, IsClosing, IsGiven
    <2> QED BY <2>1, <2>7, <2>8, <1>4
  <1>10. CASE PerformUse(t, i)
    <2>1. c.op # "close" /\ UNCHANGED <<ktable, kfile, alive, leaked>> /\ Returned(t, i, 1)
      BY <1>10 DEF PerformUse, kernel
    <2>2. \A l \in Tables : \A f \in Fds : Accounted(l, f) => Accounted(l, f)'
      BY <2>1, <1>4, <1>5
    <2> QED BY <2>1, <2>2, <1>6, AccountKept
  <1>11. CASE PerformUnshare(t, i)
    <2>1. /\ c.op \in {"unshare", "exec"} /\ ktable' = [ktable EXCEPT ![t] = t] /\ kfile' = [kfile EXCEPT ![t] = kfile[ktable[t]]]
          /\ leaked' = [leaked EXCEPT ![t] = OpenFds(ktable[t]) \ known[t]]
          /\ alive' = IF c.op = "exec" THEN alive \ {t} ELSE alive
          /\ Returned(t, i, 1)
      BY <1>11 DEF PerformUnshare
    <2>2. \A l \in Tables : \A f \in Fds : Accounted(l, f) => Accounted(l, f)'
      BY <2>1, <1>4, <1>5
    <2>3. t \in Tables /\ t # 0 /\ ktable[t] \in Tables
      BY TableFacts DEF FdInv, FdTypes
    <2>4. /\ kfile'[t] = kfile[ktable[t]] /\ \A l \in Tables \ {t} : kfile'[l] = kfile[l]
          /\ leaked'[t] = OpenFds(ktable[t]) \ known[t] /\ \A l \in Tables \ {t} : leaked'[l] = leaked[l]
          /\ ktable'[t] = t /\ \A u \in AllTasks \ {t} : ktable'[u] = ktable[u]
      BY <2>1, <2>3 DEF FdInv, FdTypes
    <2>5. \A l \in Tables \ {t} : (Served(l)' <=> Served(l)) /\ (Waiting(l)' <=> Waiting(l))
      BY <2>1, <2>4, <1>1, TableFacts DEF Served, Ready, Waiting
    <2> SUFFICES ASSUME NEW l \in Tables, Served(l)', ~Waiting(l)', NEW f \in Fds \ leaked'[l], kfile'[l][f] # 0
        PROVE  Accounted(l, f)'
      BY DEF AccountInv
    <2>6. CASE l = t
      BY <2>4, <2>6, <1>1 DEF OpenFds, Accounted
    <2>7. CASE l # t
      BY <2>2, <2>4, <2>5, <2>7 DEF AccountInv
    <2> QED BY <2>6, <2>7
  <1>12. CASE PerformClone(t, i)
    BY <1>7, <1>12 DEF PerformClone, CallOK
  <1> QED BY <1>2, <1>8, <1>9, <1>10, <1>11, <1>12

\* Every step keeps the account.
LEMMA AccountStep ==
    ASSUME TableCfg, FdInv, FdInv', AccountInv, Next
    PROVE  AccountInv'
  <1> SUFFICES ASSUME Faults = {}, Child = 0 PROVE AccountInv'
    BY DEF AccountInv
  <1>0. FdTypes /\ PhaseInv /\ CallsInv /\ broken = {}
    BY DEF FdInv, FdTypes
  <1>1. ASSUME NEW t \in AllTasks, calls[t] # << >>
        PROVE  calls[t] \in Seq(SysCall) /\ 1 \in 1..Len(calls[t]) /\ Head(calls[t]) = calls[t][1] /\ CallOK(t, 1, Head(calls[t]))
    <2>1. calls[t] \in Seq(SysCall)
      BY <1>0 DEF FdTypes
    <2>2. 1 \in 1..Len(calls[t]) /\ Head(calls[t]) = calls[t][1]
      BY <1>1, <2>1
    <2> QED BY <2>1, <2>2, <1>0 DEF CallsInv
  <1>2. ASSUME UNCHANGED <<phase, kfile, leaked>>, \A k \in Tables : \A fd \in Fds : Accounted(k, fd) => Accounted(k, fd)'
        PROVE  AccountInv'
    <2>1. \A k \in Tables : (Served(k)' <=> Served(k)) /\ (Waiting(k)' <=> Waiting(k))
      BY <1>2 DEF phase, Served, Ready, Waiting
    <2> QED BY <2>1, <1>2, AccountKept
  <1>3. ASSUME UNCHANGED <<phase, kfile, leaked>>, More, \A k \in Tables : known[k] \subseteq known'[k] PROVE AccountInv'
    <2>1. \A k \in Tables : \A fd \in Fds : Accounted(k, fd) => Accounted(k, fd)'
      <3> SUFFICES ASSUME NEW k \in Tables, NEW fd \in Fds, Accounted(k, fd) PROVE Accounted(k, fd)'
        OBVIOUS
      <3>1. fd \in known[k] => Accounted(k, fd)'
        BY <1>3 DEF Accounted
      <3>2. fd_table' = fd_table
        BY <1>3 DEF phase
      <3> QED BY <3>1, <3>2, <1>3, MoreAccounted
    <2> QED BY <2>1, <1>3, <1>2
  <1>4. ASSUME NEW t \in AllTasks, NEW c, Send(t, c)
        PROVE  More
    <2>1. calls[t] \in Seq(SysCall) /\ \A u \in AllTasks : calls'[u] = IF u = t THEN Append(calls[t], c) ELSE calls[u]
      BY <1>4, <1>0 DEF Send, FdTypes
    <2>2. \A i \in 1..Len(calls[t]) : i \in 1..Len(Append(calls[t], c)) /\ Append(calls[t], c)[i] = calls[t][i]
      BY <2>1
    <2>3. \A u \in AllTasks : u # t => calls'[u] = calls[u]
      BY <2>1
    <2> QED BY <2>1, <2>2, <2>3 DEF More
  <1>5. calls' = calls => More
    BY DEF More
  <1>6. ASSUME NEW t \in AllTasks, Perform(t) PROVE AccountInv'
    BY <1>6, AccountPerform
  <1>7. ASSUME NEW t \in AllTasks, Hangup(t) \/ Clone(t) \/ CloneReturns(t) \/ MakeTable(t) PROVE AccountInv'
    <2>1. ~Hangup(t) /\ ~Clone(t)
      BY DEF Hangup, Clone
    <2>2. ~CloneReturns(t)
      BY <1>1 DEF CloneReturns, CallOK
    <2>3. ~MakeTable(t)
      BY <1>0 DEF MakeTable, PhaseInv
    <2> QED BY <1>7, <2>1, <2>2, <2>3
  <1>8. ASSUME NEW t \in AllTasks, Open(t) PROVE AccountInv'
    <2>1. UNCHANGED <<phase, kfile, leaked, known>> /\ More
      BY <1>4, <1>8 DEF Open, phase, kernel, client
    <2> QED BY <2>1, <1>3
  <1>9. ASSUME NEW h \in Handles, UseOwn(h) PROVE AccountInv'
    <2>1. handle[h].task \in AllTasks
      BY <1>9, <1>0 DEF UseOwn, Valid, FdTypes
    <2>2. UNCHANGED <<phase, kfile, leaked, known>> /\ More
      BY <2>1, <1>4, <1>9 DEF UseOwn, phase, kernel, client
    <2> QED BY <2>2, <1>3
  <1>10. ASSUME NEW h \in Handles, Drop(h) PROVE AccountInv'
    BY <1>3, <1>5, <1>10 DEF Drop, phase, kernel
  <1>11. ASSUME NEW h \in Handles, NEW t \in AllTasks, Borrow(h, t) PROVE AccountInv'
    <2>1. UNCHANGED <<phase, kfile, leaked, known>>
      BY <1>11 DEF Borrow, phase, kernel
    <2>2. More
      BY <1>4, <1>11 DEF Borrow
    <2> QED BY <2>1, <2>2, <1>3
  <1>12. ASSUME NEW h \in Handles, NEW t \in AllTasks, ForTask(h, t) \/ Inherit(h, t) PROVE AccountInv'
    <2>1. ~Inherit(h, t)
      BY TableFacts DEF Inherit
    <2>2. UNCHANGED <<phase, kfile, leaked, calls>> /\ MakeHandle(t, handle[h].near, handle[h].file)
      BY <2>1, <1>12 DEF ForTask, phase, kernel
    <2>3. \A k \in Tables : known[k] \subseteq known'[k]
      BY <2>2, <1>0 DEF MakeHandle, FdTypes
    <2> QED BY <2>2, <2>3, <1>3, <1>5
  <1>13. ASSUME NEW t \in AllTasks, Reply(t) PROVE AccountInv'
    <2> DEFINE c == Head(calls[t])
    <2>1. /\ calls[t] # << >> /\ c.ret # 0 /\ calls' = [calls EXCEPT ![t] = Tail(@)] /\ UNCHANGED <<phase, kfile, leaked>>
          /\ c.op \in {"open", "close", "use", "use_own"}
      BY <1>13 DEF Reply, phase, kernel
    <2>2. CallOK(t, 1, c) /\ (c.op # "open" => \A k, fd : ~Claims(t, c, k, fd))
      BY <1>1, <2>1 DEF Claims, IsClosing, IsGiven
    <2>3. \A k \in Tables : known[k] \subseteq known'[k]
      <3>1. CASE c.op = "open"
        <4>1. known' = known \/ known' = [known EXCEPT ![fd_table[t]] = @ \cup {c.ret}]
          BY <3>1, <1>13 DEF Reply, OpenReturns, MakeHandle
        <4>2. PICK x, y : known' = known \/ known' = [known EXCEPT ![x] = @ \cup {y}]
          BY <4>1
        <4>3. known \in [Tables -> SUBSET Fds]
          BY <1>0 DEF FdTypes
        <4> QED BY ONLY <4>2, <4>3
      <3>2. CASE c.op # "open"
        BY <3>2, <1>13 DEF Reply
      <3> QED BY <3>1, <3>2
    <2>4. c.op = "open" => fd_table[t] \in Tables /\ c.ret \in known'[fd_table[t]]
      <3> SUFFICES ASSUME c.op = "open" PROVE fd_table[t] \in Tables /\ c.ret \in known'[fd_table[t]]
        OBVIOUS
      <3>1. t \notin manipulating
        BY <2>2, <1>0 DEF CallOK, PhaseInv
      <3>2. fd_table[t] \in Tables
        BY <1>0 DEF FdTypes
      <3>3. c.ret \in known[fd_table[t]] \/ known' = [known EXCEPT ![fd_table[t]] = @ \cup {c.ret}]
        BY <3>1, <1>13 DEF Reply, OpenReturns, MakeHandle
      <3> HIDE DEF c
      <3> QED BY <3>2, <3>3, <2>3, <1>0 DEF FdTypes
    <2>5. ASSUME NEW k \in Tables, NEW fd \in Fds, Accounted(k, fd) PROVE Accounted(k, fd)'
      <3>1. Claims(t, c, k, fd) => fd \in known'[k]
        BY <2>2, <2>4, <2>1 DEF Claims, IsClosing
      <3>2. calls'[t] = Tail(calls[t]) /\ \A u \in AllTasks \ {t} : calls'[u] = calls[u]
        BY <2>1, <1>0 DEF FdTypes
      <3>3. fd_table' = fd_table /\ (fd \in known[k] => Accounted(k, fd)')
        BY <2>1, <2>3 DEF phase, Accounted
      <3> QED BY <3>1, <3>2, <3>3, <2>1, <2>5, <1>0, PopAccounted
    <2> QED BY <2>1, <2>5, <1>2
  <1>14. ASSUME NEW t \in AllTasks, ReplyHangup(t) PROVE AccountInv'
    <2> DEFINE c == Head(calls[t])
    <2>1. /\ calls[t] # << >> /\ calls' = [calls EXCEPT ![t] = Tail(@)] /\ UNCHANGED <<phase, kfile, leaked>>
          /\ t \notin alive /\ c.op # "exec"
      BY <1>14, <1>0 DEF ReplyHangup, phase, kernel
    <2>2. CallOK(t, 1, c) /\ c \in SysCall
      <3>1. CallOK(t, 1, c) /\ c = calls[t][1] /\ 1 \in 1..Len(calls[t]) /\ calls[t] \in Seq(SysCall)
        BY <1>1, <2>1
      <3> QED BY <3>1
    <2>3. ~IsGiven(c)
      BY <2>1, <2>2 DEF CallOK, IsGiven
    <2>4. \A k \in Tables : known[k] \subseteq known'[k]
      <3>1. known' = known \/ known' = [known EXCEPT ![c.table] = @ \cup {c.fd}]
        BY <1>14 DEF ReplyHangup
      <3>2. PICK x, y : known' = known \/ known' = [known EXCEPT ![x] = @ \cup {y}]
        BY <3>1
      <3>3. known \in [Tables -> SUBSET Fds]
        BY <1>0 DEF FdTypes
      <3> QED BY ONLY <3>2, <3>3
    <2>5. c.op = "close" => c.table \in Tables /\ c.fd \in known'[c.table]
      <3>1. c.op = "close" => c.fd \in known[c.table] \/ known' = [known EXCEPT ![c.table] = @ \cup {c.fd}]
        BY <1>14 DEF ReplyHangup
      <3>2. c.table \in Tables
        BY <2>2 DEF SysCall
      <3> HIDE DEF c
      <3> QED BY <3>1, <3>2, <2>4, <1>0 DEF FdTypes
    <2>6. ASSUME NEW k \in Tables, NEW fd \in Fds, Accounted(k, fd) PROVE Accounted(k, fd)'
      <3>1. Claims(t, c, k, fd) => fd \in known'[k]
        BY <2>3, <2>5 DEF Claims, IsClosing
      <3>2. calls'[t] = Tail(calls[t]) /\ \A u \in AllTasks \ {t} : calls'[u] = calls[u]
        BY <2>1, <1>0 DEF FdTypes
      <3>3. fd_table' = fd_table /\ (fd \in known[k] => Accounted(k, fd)')
        BY <2>1, <2>4 DEF phase, Accounted
      <3> QED BY <3>1, <3>2, <3>3, <2>1, <2>6, <1>0, PopAccounted
    <2> QED BY <2>1, <2>6, <1>2
  <1>15. ASSUME NEW t \in AllTasks, NEW k \in Tables, GcUsing(k, t), fd_table' = fd_table, NEW l \in Tables, NEW fd, Accounted(l, fd)
         PROVE  Accounted(l, fd)'
    <2> DEFINE fds == Garbage(k)
    <2>1. fds \in SUBSET known[k] /\ known' = [known EXCEPT ![k] = @ \ fds] /\ calls' = [calls EXCEPT ![t] = @ \o Closes(k, fds)]
      BY <1>15 DEF Garbage, GcUsing
    <2> HIDE DEF fds
    <2>2. calls'[t] = calls[t] \o Closes(k, fds) /\ \A u \in AllTasks : u # t => calls'[u] = calls[u]
      BY <2>1, <1>0 DEF FdTypes
    <2>3. /\ \A m \in Tables : \A f \in known[m] : Accounted(m, f)'
          /\ \A i \in 1..Len(calls[t]) : i \in 1..Len(calls'[t]) /\ calls'[t][i] = calls[t][i]
      BY <2>1, <2>2, ClosesAccount
    <2>4. More
      BY <2>2, <2>3 DEF More
    <2> QED BY <2>3, <2>4, <1>15, MoreAccounted
  <1>16. ASSUME NEW t \in AllTasks, Gc(t) PROVE AccountInv'
    <2>1. UNCHANGED <<phase, kfile, leaked>> /\ fd_table[t] \in Tables /\ GcUsing(fd_table[t], t) /\ fd_table' = fd_table
      BY <1>16, <1>0 DEF Gc, phase, kernel, FdTypes
    <2>2. \A k \in Tables : \A fd \in Fds : Accounted(k, fd) => Accounted(k, fd)'
      BY <2>1, <1>15
    <2> QED BY <2>1, <2>2, <1>2
  <1>17. ASSUME NEW t \in AllTasks, GcNew(t) PROVE AccountInv'
    <2>1. /\ UNCHANGED <<ktable, fd_table, alive, broken, kfile, leaked>> /\ fd_table[t] \in Tables /\ GcUsing(fd_table[t], t)
          /\ stage[t] = "unshared" /\ stage' = [stage EXCEPT ![t] = "done"]
      BY <1>17, <1>0 DEF GcNew, kernel, FdTypes
    <2>2. \A k \in Tables : \A fd \in Fds : Accounted(k, fd) => Accounted(k, fd)'
      BY <2>1, <1>15
    <2>3. \A k \in Tables : (Served(k)' <=> Served(k)) /\ (Waiting(k)' <=> Waiting(k))
      BY <2>1, <1>0, TableFacts DEF Served, Ready, Waiting, FdTypes
    <2> QED BY <2>1, <2>2, <2>3, AccountKept
  <1>18. ASSUME NEW h \in Handles, Invalidate(h) PROVE AccountInv'
    <2> DEFINE t == handle[h].task  fd == handle[h].near  k == fd_table[t]  c == Call("close", fd, handle[h].file, k, {})
    <2>1. t \in AllTasks /\ fd \in Fds /\ k \in Tables /\ UNCHANGED <<phase, kfile, leaked>>
      BY <1>18, <1>0 DEF Invalidate, Valid, FdTypes, phase, kernel
    <2>2. CASE HandlesOf(k, fd) = {h}
      <3>1. known' = [known EXCEPT ![k] = @ \ {fd}] /\ Send(t, c)
        BY <2>2, <1>18 DEF Invalidate
      <3>2. More
        BY <3>1, <2>1, <1>4
      <3>3. calls'[t] = Append(calls[t], c) /\ calls[t] \in Seq(SysCall)
        BY <3>1, <2>1, <1>0 DEF Send, FdTypes
      <3>4. c.op = "close" /\ c.ret = 0 /\ c.table = k /\ c.fd = fd
        BY DEF Call
      <3> HIDE DEF c
      <3>5. Len(calls[t]) + 1 \in 1..Len(calls'[t]) /\ calls'[t][Len(calls[t]) + 1] = c
        BY <3>3
      <3> HIDE DEF fd, k, t
      <3>6. ASSUME NEW l \in Tables, NEW f \in Fds, Accounted(l, f) PROVE Accounted(l, f)'
        <4>1. CASE l = k /\ f = fd
          <5>1. PICK j \in 1..Len(calls'[t]) : calls'[t][j] = c
            BY <3>5
          <5>2. PICK u \in AllTasks : u = t
            BY <2>1
          <5>3. Claims(u, calls[u][j], l, f)'
            BY <5>1, <5>2, <4>1, <3>4 DEF Claims, IsClosing
          <5> QED BY <5>1, <5>2, <5>3 DEF Accounted
        <4>2. CASE ~(l = k /\ f = fd)
          <5>1. f \in known[l] => f \in known'[l]
            BY <4>2, <3>1, <2>1, <1>0 DEF FdTypes
          <5>2. f \in known[l] => Accounted(l, f)'
            BY <5>1 DEF Accounted
          <5>3. fd_table' = fd_table
            BY <2>1 DEF phase
          <5> QED BY <5>2, <5>3, <3>2, <3>6, MoreAccounted
        <4> QED BY <4>1, <4>2
      <3> QED BY <3>6, <2>1, <1>2
    <2>3. CASE HandlesOf(k, fd) # {h}
      <3>1. UNCHANGED <<known, calls>>
        BY <2>3, <1>18 DEF Invalidate
      <3> QED BY <3>1, <2>1, <1>3, <1>5
    <2> QED BY <2>2, <2>3
  <1>19. ASSUME NEW t \in AllTasks, UnshareFiles(t) PROVE AccountInv'
    <2>1. /\ UNCHANGED <<kfile, leaked, ktable, alive, broken>> /\ Ready(t) /\ stage[t] = "none" /\ calls[t] = << >>
          /\ fd_table' = [fd_table EXCEPT ![t] = t] /\ stage' = [stage EXCEPT ![t] = "unsharing"]
      BY <1>19 DEF UnshareFiles, kernel
    <2>2. t \in Tasks /\ ktable[t] = 0 /\ t # 0
      <3>1. t \in Tasks
        BY TableFacts
      <3> QED BY <3>1, <2>1, <1>0, TableFacts DEF PhaseInv, Waiting
    <2>3. known' = [known EXCEPT ![t] = {handle[h].near : h \in HandlesBy(t)}] /\ Send(t, Call("unshare", 0, 0, 0, {}))
      BY <1>19 DEF UnshareFiles
    <2>4. More
      BY <2>3, <1>4
    <2>5. Waiting(t)' /\ \A k \in Tables \ {t} : (Served(k)' <=> Served(k)) /\ (Waiting(k)' <=> Waiting(k))
      BY <2>1, <2>2, <1>0, TableFacts DEF Waiting, Served, Ready, FdTypes
    <2>6. \A k \in Tables \ {t} : known'[k] = known[k]
      BY <2>3, <1>0 DEF FdTypes
    <2>7. \A u \in AllTasks : \A i \in 1..Len(calls[u]) : fd_table'[u] = fd_table[u]
      BY <2>1, <1>0 DEF FdTypes
    <2>8. ASSUME NEW k \in Tables \ {t}, NEW fd, Accounted(k, fd) PROVE Accounted(k, fd)'
      <3>1. fd \in known[k] => Accounted(k, fd)'
        BY <2>6 DEF Accounted
      <3> QED BY <3>1, <2>4, <2>7, <2>8, MoreAccounted
    <2> QED BY <2>1, <2>5, <2>8, AccountKept
  <1>20. ASSUME NEW t \in AllTasks, Exec(t) PROVE AccountInv'
    <2>1. /\ UNCHANGED <<kfile, leaked, ktable, alive, broken, fd_table, known>> /\ stage[t] = "none"
          /\ stage' = [stage EXCEPT ![t] = "exec"] /\ Send(t, Call("exec", 0, 0, 0, {}))
      BY <1>20 DEF Exec, kernel, client
    <2>2. \A k \in Tables : (Served(k)' <=> Served(k)) /\ (Waiting(k)' <=> Waiting(k))
      BY <2>1, <1>0, TableFacts DEF Served, Ready, Waiting, FdTypes
    <2>3. More
      BY <2>1, <1>4
    <2>4. \A k \in Tables : \A fd \in Fds : Accounted(k, fd) => Accounted(k, fd)'
      <3> SUFFICES ASSUME NEW k \in Tables, NEW fd \in Fds, Accounted(k, fd) PROVE Accounted(k, fd)'
        OBVIOUS
      <3>1. fd \in known[k] => Accounted(k, fd)'
        BY <2>1 DEF Accounted
      <3> QED BY <3>1, <2>1, <2>3, MoreAccounted
    <2> QED BY <2>1, <2>2, <2>4, AccountKept
  <1>21. ASSUME NEW t \in AllTasks, ExecReturns(t) PROVE AccountInv'
    <2>1. /\ UNCHANGED <<kfile, leaked, ktable, alive, broken>> /\ calls[t] # << >> /\ Head(calls[t]).op = "exec" /\ Head(calls[t]).ret # 0
          /\ calls' = [calls EXCEPT ![t] = Tail(@)] /\ stage' = [stage EXCEPT ![t] = "done"]
      BY <1>21 DEF ExecReturns, kernel
    <2>2. CallOK(t, 1, Head(calls[t]))
      BY <2>1, <1>1
    <2>3. Head(calls[t]).ret = 1 /\ t \notin alive /\ stage[t] = "exec"
      BY <2>1, <2>2 DEF CallOK
    <2>4. fd_table' = [fd_table EXCEPT ![t] = t] /\ known' = [known EXCEPT ![t] = {handle[h].near : h \in HandlesBy(t)}]
      BY <2>3, <1>21 DEF ExecReturns
    <2>5. ~Served(t)' /\ \A k \in Tables \ {t} : (Served(k)' <=> Served(k)) /\ (Waiting(k)' <=> Waiting(k))
      BY <2>1, <2>3, <2>4, <1>0, TableFacts DEF Waiting, Served, Ready, FdTypes
    <2>6. \A k \in Tables \ {t} : known'[k] = known[k]
      BY <2>4, <1>0 DEF FdTypes
    <2>7. \A u \in AllTasks \ {t} : fd_table'[u] = fd_table[u] /\ calls'[u] = calls[u]
      BY <2>1, <2>4, <1>0 DEF FdTypes
    <2>8. \A j \in 1..Len(calls[t]) : ~IsGiven(calls[t][j])
      BY <2>3, <1>0 DEF CallsInv, CallOK, IsGiven
    <2>9. ASSUME NEW k \in Tables \ {t}, NEW fd, Accounted(k, fd) PROVE Accounted(k, fd)'
      <3>1. CASE fd \in known[k]
        BY <3>1, <2>6 DEF Accounted
      <3>2. ASSUME NEW u \in AllTasks \ {t}, NEW j \in 1..Len(calls[u]), Claims(u, calls[u][j], k, fd) PROVE Accounted(k, fd)'
        <4>1. j \in 1..Len(calls'[u]) /\ Claims(u, calls[u][j], k, fd)'
          BY <3>2, <2>7 DEF Claims, IsClosing, IsGiven
        <4> QED BY <4>1 DEF Accounted
      <3>3. ASSUME NEW j \in 1..Len(calls[t]), Claims(t, calls[t][j], k, fd) PROVE Accounted(k, fd)'
        <4>1. IsClosing(calls[t][j]) /\ calls[t][j].table = k /\ calls[t][j].fd = fd
          BY <3>3, <2>8 DEF Claims
        <4>2. calls[t] \in Seq(SysCall) /\ calls[t] # << >> /\ calls'[t] = Tail(calls[t]) /\ j # 1
          BY <4>1, <2>1, <1>0, <1>1 DEF FdTypes, IsClosing
        <4>3. PICK i \in 1..Len(calls'[t]) : calls'[t][i] = calls[t][j]
          <5>1. j - 1 \in 1..Len(calls'[t]) /\ calls'[t][j - 1] = calls[t][j]
            BY <4>2
          <5> QED BY <5>1
        <4>4. Claims(t, calls[t][i], k, fd)'
          BY <4>1, <4>3 DEF Claims, IsClosing
        <4> QED BY <4>3, <4>4 DEF Accounted
      <3> QED BY <3>1, <3>2, <3>3, <2>9 DEF Accounted
    <2> QED BY <2>1, <2>5, <2>9, AccountKept
  <1>22. ASSUME NEW t \in AllTasks, UnshareReturns(t) PROVE AccountInv'
    <2> DEFINE c == Head(calls[t])  old == tracked[0] \ HandlesBy(t)
               junk == {fd \in known[0] : \A h \in old : handle[h].near # fd}
    <2>1. /\ UNCHANGED <<ktable, fd_table, alive, broken, kfile, leaked>> /\ calls[t] # << >> /\ c.op = "unshare" /\ c.ret # 0
          /\ t \in alive
      BY <1>22 DEF UnshareReturns, kernel, Ready
    <2>2. c.ret = 1 /\ stage[t] = "unsharing" /\ ~Waiting(t)
      <3>1. CallOK(t, 1, c)
        BY <2>1, <1>1
      <3> QED BY <3>1, <2>1, <1>0 DEF CallOK
    <2>3. fd_table[t] = t /\ t # 0
      BY <2>2, <1>0, TableFacts DEF PhaseInv
    <2>4. stage' = [stage EXCEPT ![t] = "unshared"]
      BY <2>2, <1>22 DEF UnshareReturns
    <2>5. \A k \in Tables : (Served(k)' <=> Served(k)) /\ (Waiting(k)' => Waiting(k)) /\ (~Waiting(k)' => ~Waiting(k))
      BY <2>1, <2>2, <2>4, <1>0, TableFacts DEF Served, Ready, Waiting, FdTypes
    <2>6. ASSUME NEW k, NEW fd PROVE ~Claims(t, c, k, fd)
      BY <2>1 DEF Claims, IsClosing, IsGiven
    <2>7. \/ calls' = [calls EXCEPT ![t] = Tail(@)] /\ known' = known
          \/ \E u \in GcTask : /\ calls' = [calls EXCEPT ![t] = Tail(@), ![u] = @ \o Closes(0, junk)]
                               /\ known' = [known EXCEPT ![0] = @ \ junk]
      BY <2>2, <1>22 DEF UnshareReturns
    <2>8. junk \in SUBSET known[0]
      OBVIOUS
    <2> HIDE DEF junk, c, old
    <2>9. CASE calls' = [calls EXCEPT ![t] = Tail(@)] /\ known' = known
      <3>1. calls'[t] = Tail(calls[t]) /\ \A u \in AllTasks \ {t} : calls'[u] = calls[u]
        BY <2>9, <1>0 DEF FdTypes
      <3>2. \A k \in Tables : \A fd \in Fds : Accounted(k, fd) => Accounted(k, fd)'
        <4> SUFFICES ASSUME NEW k \in Tables, NEW fd \in Fds, Accounted(k, fd) PROVE Accounted(k, fd)'
          OBVIOUS
        <4>1. ~Claims(t, Head(calls[t]), k, fd) /\ (fd \in known[k] => Accounted(k, fd)')
          BY <2>6, <2>9 DEF c, Accounted
        <4> QED BY <4>1, <3>1, <2>1, <1>0, PopAccounted
      <3> QED BY <3>2, <2>1, <2>5, AccountKept
    <2>10. ASSUME NEW u \in GcTask, calls' = [calls EXCEPT ![t] = Tail(@), ![u] = @ \o Closes(0, junk)], known' = [known EXCEPT ![0] = @ \ junk]
           PROVE  AccountInv'
      <3>1. u \in AllTasks /\ u # t /\ 0 \in Tables
        BY <2>3, TableFacts DEF GcTask
      <3>2. calls'[t] = Tail(calls[t]) /\ calls'[u] = calls[u] \o Closes(0, junk) /\ \A v \in AllTasks \ {t, u} : calls'[v] = calls[v]
        BY <3>1, <2>10, <1>0 DEF FdTypes
      <3>3. /\ \A k \in Tables : \A fd \in known[k] : Accounted(k, fd)'
            /\ \A i \in 1..Len(calls[u]) : i \in 1..Len(calls'[u]) /\ calls'[u][i] = calls[u][i]
        BY <3>1, <3>2, <2>8, <2>10, ClosesAccount
      <3>4. \A v \in AllTasks \ {t} : \A i \in 1..Len(calls[v]) : i \in 1..Len(calls'[v]) /\ calls'[v][i] = calls[v][i]
        BY <3>2, <3>3
      <3>5. \A k \in Tables : \A fd \in Fds : Accounted(k, fd) => Accounted(k, fd)'
        <4> SUFFICES ASSUME NEW k \in Tables, NEW fd \in Fds, Accounted(k, fd) PROVE Accounted(k, fd)'
          OBVIOUS
        <4>1. ~Claims(t, Head(calls[t]), k, fd) /\ (fd \in known[k] => Accounted(k, fd)')
          BY <2>6, <3>3 DEF c
        <4> QED BY <4>1, <3>2, <3>4, <2>1, <1>0, PopAccounted
      <3> QED BY <3>5, <2>1, <2>5, AccountKept
    <2> QED BY <2>7, <2>9, <2>10
  <1>23. ASSUME NEW t \in AllTasks, Perform(t) \/ Reply(t) \/ Hangup(t) \/ ReplyHangup(t) PROVE AccountInv'
    BY <1>6, <1>7, <1>13, <1>14, <1>23
  <1>24. ASSUME NEW t \in AllTasks, Open(t) \/ Gc(t) \/ UnshareFiles(t) \/ UnshareReturns(t) \/ GcNew(t) PROVE AccountInv'
    BY <1>8, <1>16, <1>17, <1>19, <1>22, <1>24
  <1>25. ASSUME NEW t \in AllTasks, Exec(t) \/ ExecReturns(t) \/ Clone(t) \/ CloneReturns(t) \/ MakeTable(t) PROVE AccountInv'
    BY <1>7, <1>20, <1>21, <1>25
  <1>26. ASSUME NEW h \in Handles, Invalidate(h) \/ Drop(h) \/ UseOwn(h) PROVE AccountInv'
    BY <1>9, <1>10, <1>18, <1>26
  <1>27. ASSUME NEW t \in AllTasks, NEW h \in Handles, ForTask(h, t) \/ Inherit(h, t) \/ Borrow(h, t) PROVE AccountInv'
    BY <1>11, <1>12, <1>27
  <1> QED BY <1>23, <1>24, <1>25, <1>26, <1>27, Zenon DEF Next

-----------------------------------------------------------------------------
(* What the invariant means                                                *)

\* Nothing went wrong at first, and nothing is open.
LEMMA FilesInit ==
    ASSUME TableCfg, Init
    PROVE  WrongInv /\ AccountInv
  <1>1. WrongInv
    BY DEF Init, WrongInv
  <1>2. \A k \in Tables : \A fd \in Fds : kfile[k][fd] = 0
    BY DEF Init
  <1> QED BY <1>1, <1>2 DEF AccountInv

\* A step that changes nothing keeps that.
LEMMA FilesStutter ==
    ASSUME WrongInv, AccountInv, UNCHANGED vars
    PROVE  WrongInv' /\ AccountInv'
  <1>1. UNCHANGED <<ktable, kfile, opened, alive, broken, calls, fd_table, known, tracked, inherited, handle, manipulating, stage, leaked, wrong>>
    BY DEF vars, kernel, client
  <1>2. WrongInv'
    BY <1>1 DEF WrongInv
  <1>3. \A k \in Tables : (Served(k)' <=> Served(k)) /\ (Waiting(k)' <=> Waiting(k))
    BY <1>1 DEF Served, Waiting, Ready
  <1>4. \A k \in Tables : \A fd \in Fds : Accounted(k, fd) => Accounted(k, fd)'
    BY <1>1 DEF Accounted, Claims, IsClosing, IsGiven
  <1>5. AccountInv'
    BY <1>1, <1>3, <1>4 DEF AccountInv
  <1> QED BY <1>2, <1>5

\* The invariant gives every variable its type.
LEMMA FdMeansTypes ==
    ASSUME TableCfg, FdInv
    PROVE  TypeOK
  <1>1. \A h \in Handles : handle[h].state \in {"free", "valid", "borrowed", "invalid"}
    BY DEF FdInv, FdTypes, HandleRec
  <1>2. ASSUME NEW h \in Handles, Live(h)
        PROVE  h \in tracked[fd_table[handle[h].task]] /\ handle[h].near \in known[fd_table[handle[h].task]]
    <2>1. handle[h].task \in AllTasks
      BY <1>2 DEF FdInv, FdTypes, Live
    <2>2. fd_table[handle[h].task] \in Tables
      BY <2>1 DEF FdInv, FdTypes
    <2> QED BY <1>2, <2>2 DEF FdInv, TrackedInv
  <1>3. \A t \in AllTasks : ktable[t] \in Tables /\ fd_table[t] \in Tables /\ Len(calls[t]) <= MaxCalls
    BY DEF FdInv, FdTypes, CallsInv
  <1> QED BY <1>1, <1>2, <1>3 DEF TypeOK

\* A live handle of a task that serves names the file it was made for.
LEMMA FdMeansFiles ==
    ASSUME TableCfg, FdInv
    PROVE  HandleHasFile
  <1> SUFFICES ASSUME NEW h \in Handles, Live(h), Ready(handle[h].task)
      PROVE kfile[ktable[handle[h].task]][handle[h].near] = handle[h].file
    BY DEF HandleHasFile
  <1>1. PICK t \in AllTasks : t = handle[h].task
    BY DEF FdInv, FdTypes, Live
  <1>2. PICK k \in Tables : k = fd_table[t]
    BY DEF FdInv, FdTypes
  <1>3. Served(k)
    BY <1>1, <1>2, TaskServed DEF FdInv
  <1>4. File(k, handle[h].near) = handle[h].file
    BY <1>1, <1>2, <1>3 DEF FdInv, TablesInv, TableInv
  <1>5. Kernel(k) = ktable[t]
    <2>1. CASE Waiting(t)
      BY <2>1, <1>1, <1>2 DEF Waiting, FdInv, PhaseInv, Kernel
    <2>2. CASE ~Waiting(t)
      BY <2>2, <1>1, <1>2, OwnTable DEF Kernel
    <2> QED BY <2>1, <2>2
  <1> QED BY <1>1, <1>4, <1>5 DEF File

\* Every open fd is tracked, or its open or close is under way.
LEMMA FdMeansAccounted ==
    ASSUME TableCfg, FdInv, AccountInv, Faults = {}, Child = 0
    PROVE  OpenFdsAccounted
  <1> SUFFICES ASSUME NEW t \in AllTasks \cap alive, NEW fd \in OpenFds(ktable[t]) \ leaked[ktable[t]]
      PROVE LET tables == {ktable[t]} \cup {fd_table[u] : u \in {v \in AllTasks : ktable[v] = ktable[t]}} IN
              \/ \E k \in tables : fd \in known[k]
              \/ \E u \in AllTasks : \E i \in 1..Len(calls[u]) :
                    LET c == calls[u][i] IN
                    \/ c.op = "close" /\ c.fd = fd /\ c.table \in tables
                    \/ c.op = "open" /\ c.ret = fd
    BY DEF OpenFdsAccounted
  <1>1. broken = {}
    BY DEF FdInv, FdTypes
  <1>2. PICK k \in Tables : k = ktable[t]
    BY DEF FdInv, FdTypes
  <1>3. fd \in Fds \ leaked[k] /\ kfile[k][fd] # 0
    BY <1>2 DEF OpenFds
  <1>4. Served(k) /\ ~Waiting(k)
    <2>1. CASE Waiting(t)
      <3>1. k = 0
        BY <2>1, <1>2 DEF Waiting
      <3> QED BY <3>1, <1>1 DEF Served, Waiting
    <2>2. CASE ~Waiting(t)
      BY <2>2, <1>1, <1>2, OwnTable DEF Ready
    <2> QED BY <2>1, <2>2
  <1>5. Accounted(k, fd)
    BY <1>3, <1>4 DEF AccountInv
  <1>6. fd \in known[k] \/ \E u \in AllTasks : \E i \in 1..Len(calls[u]) : Claims(u, calls[u][i], k, fd)
    BY <1>5 DEF Accounted
  <1> QED BY <1>2, <1>6 DEF Claims, IsClosing, IsGiven

\* What holds of the tables whenever they are used.
FilesInv == FdInv /\ FreshInv /\ WrongInv /\ AccountInv

\* The invariant holds at first ...
LEMMA FilesBegin ==
    ASSUME TableCfg, Init
    PROVE  FilesInv
  BY FdInit, FilesInit DEF FilesInv

\* ... every step keeps it ...
LEMMA FilesStep ==
    ASSUME TableCfg, FilesInv, [Next]_vars
    PROVE  FilesInv'
  <1>1. CASE Next
    <2>1. FdInv'
      BY <1>1, FdStep DEF FilesInv
    <2>2. FreshInv'
      BY <1>1, FreshStep DEF FilesInv
    <2>3. WrongInv'
      BY <1>1, WrongStep DEF FilesInv
    <2>4. AccountInv'
      BY <1>1, <2>1, AccountStep DEF FilesInv
    <2> QED BY <2>1, <2>2, <2>3, <2>4 DEF FilesInv
  <1>2. CASE UNCHANGED vars
    <2>1. FdInv' /\ FreshInv'
      BY <1>2, FdStutters DEF FilesInv
    <2>2. WrongInv' /\ AccountInv'
      BY <1>2, FilesStutter DEF FilesInv
    <2> QED BY <2>1, <2>2 DEF FilesInv
  <1> QED BY <1>1, <1>2

\* ... and it is what the code promises.
LEMMA FilesMean ==
    ASSUME TableCfg, FilesInv
    PROVE  /\ TypeOK /\ HandleHasFile /\ CloseHitsOwnFile /\ BorrowedUseHits
           /\ Faults = {} /\ Child = 0 => OpenFdsAccounted
  <1>1. TypeOK /\ HandleHasFile
    BY FdMeansTypes, FdMeansFiles DEF FilesInv
  <1>2. CloseHitsOwnFile /\ BorrowedUseHits
    BY DEF FilesInv, WrongInv, CloseHitsOwnFile, BorrowedUseHits
  <1>3. Faults = {} /\ Child = 0 => OpenFdsAccounted
    BY FdMeansAccounted DEF FilesInv
  <1> QED BY <1>1, <1>2, <1>3

(***************************************************************************)
(* However tasks open, close, collect, share, borrow, unshare, exec and    *)
(* clone, in any order of their calls and results: a handle stands for the *)
(* file it was made for, no close meets another file, a call on a borrowed *)
(* fd reaches its file, and no fd is left open and forgotten.              *)
(***************************************************************************)
THEOREM TablesKept ==
    ASSUME TableCfg
    PROVE  Spec => [](/\ TypeOK /\ HandleHasFile /\ CloseHitsOwnFile /\ BorrowedUseHits
                      /\ Faults = {} /\ Child = 0 => OpenFdsAccounted)
  BY FilesBegin, FilesStep, FilesMean, PTL DEF Spec
=============================================================================
