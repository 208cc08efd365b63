----------------------------- MODULE SetupProofs -----------------------------
(***************************************************************************)
(* Proofs about how a thread comes to be: CloneChild, SshBootstrap,        *)
(* Channels and Bootstrap, for any number of children, users, channels,    *)
(* processes, arguments and variables; and about the behaviours of         *)
(* MCSetup, for every value of its constants.                              *)
(*                                                                         *)
(* ChildInv says of a child that its futex is cleared just when it is      *)
(* gone, that the helper exits only after that, and that whoever shuts its *)
(* socket or frees its stack has seen one of the two.  What one side sends *)
(* and the other takes, the connections of ssh and the description of a    *)
(* process, is in three places at once, and Stream says that these make up *)
(* the first part of what is sent; with it the bootstraps are right        *)
(* because nothing is taken twice, out of order or from another process.   *)
(* For the channels the invariant is about the one call that is under way. *)
(***************************************************************************)
EXTENDS MCSetup, FiniteSets, TLAPS

-----------------------------------------------------------------------------
(* The clone of a child                                                    *)

CloneTypes ==
    /\ clone_us \in [Children -> {"start", "clone", "helper", "stopped", "watch", "done", "failed"}]
    /\ child \in [Children -> {"absent", "running", "execd", "dead"}]
    /\ futex \in [Children -> {0, 1}]
    /\ helper \in [Children -> {"absent", "started", "stopped", "waiting", "exited"}]

\* The futex is cleared just when the child is gone, and the helper exits after that; who
\* shuts the socket down, or frees the stack, has seen one of them.
ChildInv(mayDie, c) ==
    /\ clone_us[c] \in {"start", "clone"} => child[c] = "absent"
    /\ futex[c] = 0 <=> Clone(mayDie)!Gone(c)
    /\ parent /\ helper[c] = "exited" => Clone(mayDie)!Gone(c)
    /\ parent /\ c \in shut \cup freed => Clone(mayDie)!Gone(c)

CloneInv(mayDie) == CloneTypes /\ \A c \in Children : ChildInv(mayDie, c)

\* A step that leaves the child, the futex and the helper alone.
LEMMA ChildStill ==
    ASSUME NEW mayDie, CloneInv(mayDie), UNCHANGED <<child, futex, helper, parent>>,
           clone_us' \in [Children -> {"start", "clone", "helper", "stopped", "watch", "done", "failed"}],
           \A c \in Children : clone_us'[c] \in {"start", "clone"} => clone_us[c] \in {"start", "clone"},
           \A c \in Children : parent /\ c \in (shut \cup freed)' => c \in shut \cup freed \/ Clone(mayDie)!Gone(c)
    PROVE  CloneInv(mayDie)'
  BY DEF CloneInv, CloneTypes, ChildInv, Clone!Gone

\* A step of clone_child_task, or of the coroutine that waits for the helper.
LEMMA OurStepClone ==
    ASSUME NEW mayDie, CloneInv(mayDie), NEW c \in Children, Clone(mayDie)!OurStep(c) \/ Clone(mayDie)!Watch(c)
    PROVE  CloneInv(mayDie)'
  <1>1. CASE Clone(mayDie)!Prepare(c) \/ Clone(mayDie)!SeeStopped(c) \/ Clone(mayDie)!FinishTask(c)
             \/ Clone(mayDie)!CloneFails(c)
    BY <1>1, ChildStill DEF Clone!Prepare, Clone!SeeStopped, Clone!FinishTask, Clone!CloneFails, CloneInv, CloneTypes
  <1>2. CASE Clone(mayDie)!CloneProcess(c)
    BY <1>2 DEF Clone!CloneProcess, CloneInv, CloneTypes, ChildInv, Clone!Gone
  <1>3. CASE Clone(mayDie)!CloneHelper(c)
    BY <1>3 DEF Clone!CloneHelper, CloneInv, CloneTypes, ChildInv, Clone!Gone
  <1>4. CASE Clone(mayDie)!Watch(c)
    <2>1. parent => Clone(mayDie)!Gone(c)
      BY <1>4 DEF Clone!Watch, CloneInv, ChildInv
    <2> QED BY <1>4, <2>1, ChildStill DEF Clone!Watch, CloneInv, CloneTypes
  <1> QED BY <1>1, <1>2, <1>3, <1>4 DEF Clone!OurStep

\* A step of the helper, of the child, or of who calls it.
LEMMA ChildStepClone ==
    ASSUME NEW mayDie, CloneInv(mayDie), NEW c \in Children,
           \/ Clone(mayDie)!HelperStep(c) \/ Clone(mayDie)!Die(c) \/ Clone(mayDie)!Exec(c) \/ Clone(mayDie)!Answer(c)
              \/ Clone(mayDie)!Hangup(c)
           \/ Clone(mayDie)!MarkDead(c) \/ Clone(mayDie)!MakeCall(c, "plain") \/ Clone(mayDie)!MakeCall(c, "exec")
    PROVE  CloneInv(mayDie)'
  <1>1. CASE Clone(mayDie)!HelperStep(c)
    BY <1>1 DEF Clone!HelperStep, Clone!HelperStops, Clone!HelperContinues, Clone!FutexWait,
                CloneInv, CloneTypes, ChildInv, Clone!Gone
  <1>2. CASE Clone(mayDie)!Die(c) \/ Clone(mayDie)!Exec(c)
    <2>1. \/ /\ child[c] = "execd" /\ UNCHANGED <<futex, helper>>
          \/ child[c] = "running" /\ Clone(mayDie)!Clear(c)
      BY <1>2 DEF Clone!Die, Clone!Exec
    <2>2. \E s \in {"execd", "dead"} : child' = [child EXCEPT ![c] = s]
      BY <1>2 DEF Clone!Die, Clone!Exec
    <2>3. UNCHANGED <<clone_us, shut, freed, parent>>
      BY <1>2 DEF Clone!Die, Clone!Exec
    <2>4. CloneTypes'
      BY <2>1, <2>2, <2>3 DEF CloneInv, CloneTypes, Clone!Clear
    <2>5. ASSUME NEW d \in Children PROVE ChildInv(mayDie, d)'
      BY <2>1, <2>2, <2>3 DEF CloneInv, CloneTypes, ChildInv, Clone!Gone, Clone!Clear
    <2> QED BY <2>4, <2>5 DEF CloneInv
  <1>3. CASE Clone(mayDie)!Answer(c) \/ Clone(mayDie)!MakeCall(c, "plain") \/ Clone(mayDie)!MakeCall(c, "exec")
    BY <1>3, ChildStill DEF Clone!Answer, Clone!MakeCall, CloneInv, CloneTypes
  <1>4. CASE Clone(mayDie)!Hangup(c) \/ Clone(mayDie)!MarkDead(c)
    <2>1. parent => Clone(mayDie)!Gone(c)
      BY <1>4 DEF Clone!Hangup, Clone!MarkDead, CloneInv, ChildInv, Clone!Gone
    <2>2. freed' \subseteq freed \cup {c} /\ UNCHANGED <<clone_us, child, futex, helper, shut, parent>>
      BY <1>4 DEF Clone!Hangup, Clone!MarkDead
    <2> QED BY <2>1, <2>2, ChildStill DEF CloneInv, CloneTypes
  <1> QED BY <1>1, <1>2, <1>3, <1>4

\* Before anything is cloned.
LEMMA InitClone ==
    ASSUME NEW mayDie, Clone(mayDie)!CloneAssumption
    PROVE  Clone(mayDie)!Init => CloneInv(mayDie)
  BY DEF Clone!Init, CloneInv, CloneTypes, ChildInv, Clone!Gone

\* Any step keeps the invariant.
LEMMA NextClone ==
    ASSUME NEW mayDie, Clone(mayDie)!CloneAssumption
    PROVE  CloneInv(mayDie) /\ [Clone(mayDie)!Next]_(Clone(mayDie)!vars) => CloneInv(mayDie)'
  <1> SUFFICES ASSUME CloneInv(mayDie), [Clone(mayDie)!Next]_(Clone(mayDie)!vars) PROVE CloneInv(mayDie)'
    OBVIOUS
  <1>1. CASE Clone(mayDie)!ParentDies
    <2>1. CloneTypes'
      BY <1>1 DEF Clone!ParentDies, CloneInv, CloneTypes
    <2>2. ASSUME NEW c \in Children PROVE ChildInv(mayDie, c)'
      BY <1>1 DEF Clone!ParentDies, CloneInv, CloneTypes, ChildInv, Clone!Gone
    <2> QED BY <2>1, <2>2 DEF CloneInv
  <1>2. CASE UNCHANGED Clone(mayDie)!vars
    BY <1>2 DEF Clone!vars, CloneInv, CloneTypes, ChildInv, Clone!Gone
  <1> QED BY <1>1, <1>2, OurStepClone, ChildStepClone DEF Clone!Next

\* The invariant gives the property.
LEMMA CloneSafe ==
    ASSUME NEW mayDie, Clone(mayDie)!CloneAssumption
    PROVE  CloneInv(mayDie) => Clone(mayDie)!FreedWhenUnused /\ Clone(mayDie)!LiveChildIsReachable
  BY DEF CloneInv, ChildInv, Clone!FreedWhenUnused, Clone!LiveChildIsReachable

\* While the parent lives, a child's stack and futex are freed only when the child is out
\* of that memory, and its socket is shut down only when nobody reads it, wherever the
\* child dies or executes a program; and however many children there are.
THEOREM ChildNotCutOff ==
    ASSUME NEW mayDie, Clone(mayDie)!CloneAssumption
    PROVE  Clone(mayDie)!Spec => [](Clone(mayDie)!FreedWhenUnused /\ Clone(mayDie)!LiveChildIsReachable)
  BY InitClone, NextClone, CloneSafe, PTL DEF Clone!Spec

-----------------------------------------------------------------------------
(* What is sent is in three places: it arrived, it waits, or it is on its  *)
(* way.                                                                    *)

\* The first n elements of D are those of A, then of B, then of C.
Stream(A, B, C, D, n) ==
    /\ n = Len(A) + Len(B) + Len(C)
    /\ \A i \in 1..Len(A) : A[i] = D[i]
    /\ \A i \in 1..Len(B) : B[i] = D[Len(A) + i]
    /\ \A i \in 1..Len(C) : C[i] = D[Len(A) + Len(B) + i]

\* The first element of a sequence, and the rest.
LEMMA HeadTail ==
    ASSUME NEW S, NEW s \in Seq(S), s # << >>
    PROVE  /\ Head(s) = s[1] /\ s[1] \in S /\ Tail(s) \in Seq(S) /\ Len(Tail(s)) + 1 = Len(s)
           /\ Len(s) \in Nat /\ Len(s) >= 1 /\ Len(Tail(s)) \in Nat
           /\ \A i \in 1..Len(Tail(s)) : Tail(s)[i] = s[i + 1]
  OBVIOUS

\* An element put at the end.
LEMMA AppendLast ==
    ASSUME NEW S, NEW s \in Seq(S), NEW x \in S
    PROVE  /\ Append(s, x) \in Seq(S) /\ Len(s) \in Nat /\ Len(Append(s, x)) = Len(s) + 1
           /\ Append(s, x)[Len(s) + 1] = x /\ \A i \in 1..Len(s) : Append(s, x)[i] = s[i]
  OBVIOUS

\* The next element is sent.
LEMMA StreamSent ==
    ASSUME NEW S, NEW A \in Seq(S), NEW B \in Seq(S), NEW C \in Seq(S), NEW D, NEW n,
           Stream(A, B, C, D, n), D[n + 1] \in S
    PROVE  Append(C, D[n + 1]) \in Seq(S) /\ Stream(A, B, Append(C, D[n + 1]), D, n + 1)
  <1>1. PICK T : T = Append(C, D[n + 1])
    OBVIOUS
  <1>2. /\ T \in Seq(S) /\ Len(T) = Len(C) + 1 /\ T[Len(C) + 1] = D[n + 1]
        /\ \A i \in 1..Len(C) : T[i] = C[i]
    BY <1>1, AppendLast
  <1>3. Len(A) \in Nat /\ Len(B) \in Nat /\ Len(C) \in Nat
    OBVIOUS
  <1>4. n = Len(A) + Len(B) + Len(C)
    BY DEF Stream
  <1>5. Len(A) + Len(B) + (Len(C) + 1) = n + 1 /\ 1..(Len(C) + 1) = (1..Len(C)) \cup {Len(C) + 1}
    BY <1>3, <1>4
  <1>6. ASSUME NEW i \in 1..Len(T) PROVE T[i] = D[Len(A) + Len(B) + i]
    <2>1. CASE i \in 1..Len(C)
      BY <1>2, <2>1 DEF Stream
    <2>2. CASE i = Len(C) + 1
      <3>1. Len(A) + Len(B) + i = n + 1
        BY <1>5, <2>2
      <3> QED BY <1>2, <2>2, <3>1
    <2> QED BY <1>2, <1>5, <2>1, <2>2
  <1>7. n + 1 = Len(A) + Len(B) + Len(T)
    BY <1>2, <1>5
  <1>8. Stream(A, B, T, D, n + 1)
    BY <1>6, <1>7 DEF Stream
  <1> QED BY <1>1, <1>2, <1>8

\* The element that waits longest arrives.
LEMMA StreamArrives ==
    ASSUME NEW S, NEW A \in Seq(S), NEW B \in Seq(S), NEW C \in Seq(S), NEW D, NEW n,
           Stream(A, B, C, D, n), B # << >>
    PROVE  /\ Append(A, Head(B)) \in Seq(S) /\ Tail(B) \in Seq(S)
           /\ Len(Append(A, Head(B))) = Len(A) + 1 /\ Len(A) + 1 <= n
           /\ Stream(Append(A, Head(B)), Tail(B), C, D, n)
  <1>1. PICK X, Y : X = Append(A, Head(B)) /\ Y = Tail(B)
    OBVIOUS
  <1>2. /\ Head(B) = B[1] /\ B[1] \in S /\ Y \in Seq(S) /\ Len(Y) + 1 = Len(B) /\ Len(Y) \in Nat
        /\ \A i \in 1..Len(Y) : Y[i] = B[i + 1]
    BY <1>1, HeadTail
  <1>3. /\ X \in Seq(S) /\ Len(A) \in Nat /\ Len(X) = Len(A) + 1 /\ X[Len(A) + 1] = B[1]
        /\ \A i \in 1..Len(A) : X[i] = A[i]
    BY <1>1, <1>2, AppendLast
  <1>4. Len(B) \in Nat /\ Len(C) \in Nat /\ n = Len(A) + Len(B) + Len(C)
    BY DEF Stream
  <1>5. PICK a, b, c \in Nat : Len(A) = a /\ Len(Y) = b /\ Len(C) = c /\ Len(X) = a + 1 /\ Len(B) = b + 1
    BY <1>2, <1>3, <1>4
  <1>10. n = Len(X) + Len(Y) + Len(C) /\ Len(A) + 1 <= n
    BY <1>4, <1>5
  <1>6. ASSUME NEW i \in 1..Len(X) PROVE X[i] = D[i]
    <2>1. i \in 1..Len(A) \/ i = Len(A) + 1
      BY <1>3
    <2>2. B[1] = D[Len(A) + 1]
      BY <1>2, <1>4 DEF Stream
    <2> QED BY <1>3, <2>1, <2>2 DEF Stream
  <1>7. ASSUME NEW i \in 1..Len(Y) PROVE Y[i] = D[Len(X) + i]
    <2>1. i + 1 \in 1..Len(B) /\ Len(A) + (i + 1) = Len(X) + i
      BY <1>2, <1>3
    <2> QED BY <1>2, <2>1 DEF Stream
  <1>8. ASSUME NEW i \in 1..Len(C) PROVE C[i] = D[Len(X) + Len(Y) + i]
    <2>1. Len(A) + Len(B) + i = Len(X) + Len(Y) + i
      BY <1>5
    <2> QED BY <2>1 DEF Stream
  <1>9. Stream(X, Y, C, D, n)
    BY <1>10, <1>6, <1>7, <1>8 DEF Stream
  <1> QED BY <1>1, <1>2, <1>3, <1>10, <1>9

\* The first element on its way waits now.
LEMMA StreamOpens ==
    ASSUME NEW S, NEW A \in Seq(S), NEW B \in Seq(S), NEW C \in Seq(S), NEW D, NEW n,
           Stream(A, B, C, D, n), C # << >>
    PROVE  /\ Append(B, Head(C)) \in Seq(S) /\ Tail(C) \in Seq(S)
           /\ Stream(A, Append(B, Head(C)), Tail(C), D, n)
  <1>1. PICK X, Y : X = Append(B, Head(C)) /\ Y = Tail(C)
    OBVIOUS
  <1>2. /\ Head(C) = C[1] /\ C[1] \in S /\ Y \in Seq(S) /\ Len(Y) + 1 = Len(C) /\ Len(Y) \in Nat
        /\ \A i \in 1..Len(Y) : Y[i] = C[i + 1]
    BY <1>1, HeadTail
  <1>3. /\ X \in Seq(S) /\ Len(B) \in Nat /\ Len(X) = Len(B) + 1 /\ X[Len(B) + 1] = C[1]
        /\ \A i \in 1..Len(B) : X[i] = B[i]
    BY <1>1, <1>2, AppendLast
  <1>4. Len(A) \in Nat /\ Len(C) \in Nat /\ n = Len(A) + Len(B) + Len(C)
    BY DEF Stream
  <1>5. n = Len(A) + Len(X) + Len(Y)
    BY <1>2, <1>3, <1>4
  <1>6. ASSUME NEW i \in 1..Len(X) PROVE X[i] = D[Len(A) + i]
    <2>1. i \in 1..Len(B) \/ i = Len(B) + 1
      BY <1>3
    <2>2. CASE i = Len(B) + 1
      <3>1. Len(A) + i = Len(A) + Len(B) + 1 /\ 1 \in 1..Len(C)
        BY <1>2, <1>3, <1>4, <2>2
      <3>2. C[1] = D[Len(A) + Len(B) + 1]
        BY <3>1 DEF Stream
      <3> QED BY <1>3, <2>2, <3>1, <3>2
    <2> QED BY <1>3, <2>1, <2>2 DEF Stream
  <1>7. ASSUME NEW i \in 1..Len(Y) PROVE Y[i] = D[Len(A) + Len(X) + i]
    <2>1. i + 1 \in 1..Len(C) /\ Len(A) + Len(B) + (i + 1) = Len(A) + Len(X) + i
      BY <1>2, <1>3, <1>4
    <2> QED BY <1>2, <2>1 DEF Stream
  <1>8. Stream(A, X, Y, D, n)
    BY <1>5, <1>6, <1>7 DEF Stream
  <1> QED BY <1>1, <1>2, <1>3, <1>8

\* Some of what is on its way is read into an empty buffer.
LEMMA StreamRead ==
    ASSUME NEW S, NEW A \in Seq(S), NEW C \in Seq(S), NEW D, NEW n, NEW k \in 1..Len(C),
           Stream(A, << >>, C, D, n)
    PROVE  /\ SubSeq(C, 1, k) \in Seq(S) /\ SubSeq(C, k + 1, Len(C)) \in Seq(S)
           /\ Stream(A, SubSeq(C, 1, k), SubSeq(C, k + 1, Len(C)), D, n)
  <1>1. PICK X, Y : X = SubSeq(C, 1, k) /\ Y = SubSeq(C, k + 1, Len(C))
    OBVIOUS
  <1>2. Len(C) \in Nat /\ Len(A) \in Nat /\ k \in Nat /\ k <= Len(C)
    OBVIOUS
  <1>3. X \in Seq(S) /\ Len(X) = k /\ \A i \in 1..k : X[i] = C[i] /\ i \in 1..Len(C)
    BY <1>1, <1>2
  <1>4. Y \in Seq(S) /\ Len(Y) = Len(C) - k
    BY <1>1, <1>2
  <1>5. \A i \in 1..Len(Y) : Y[i] = C[k + i] /\ k + i \in 1..Len(C)
    <2> SUFFICES ASSUME NEW i \in 1..Len(Y) PROVE Y[i] = C[k + i] /\ k + i \in 1..Len(C)
      OBVIOUS
    <2>1. k + i \in 1..Len(C) /\ k + i = (k + 1) + i - 1
      BY <1>2, <1>4
    <2>2. Y[i] = C[(k + 1) + i - 1]
      BY <1>1, <1>2, <1>4
    <2> QED BY <2>1, <2>2
  <1>6. n = Len(A) + 0 + Len(C) /\ \A i \in 1..Len(C) : C[i] = D[Len(A) + 0 + i]
    BY DEF Stream
  <1>7. n = Len(A) + Len(X) + Len(Y)
    BY <1>2, <1>3, <1>4, <1>6
  <1>8. ASSUME NEW i \in 1..Len(X) PROVE X[i] = D[Len(A) + i]
    <2>1. i \in 1..Len(C) /\ X[i] = C[i] /\ Len(A) + 0 + i = Len(A) + i
      BY <1>2, <1>3
    <2> QED BY <1>6, <2>1
  <1>9. ASSUME NEW i \in 1..Len(Y) PROVE Y[i] = D[Len(A) + Len(X) + i]
    <2>1. Len(A) + 0 + (k + i) = Len(A) + Len(X) + i
      BY <1>2, <1>3
    <2> QED BY <1>5, <1>6, <2>1
  <1>10. Stream(A, X, Y, D, n)
    BY <1>7, <1>8, <1>9 DEF Stream
  <1> QED BY <1>1, <1>3, <1>4, <1>10

-----------------------------------------------------------------------------
(* Bootstrap over ssh                                                      *)

SshTypes ==
    /\ ssh_us \in {"start", "path", "done", "forward", "exec", "syscall", "data", "describe",
                   "check", "thread", "failed"}
    /\ binder \in {"absent", "script", "data", "pass", "done", "accept", "exited"}
    /\ boot \in {"absent", "connect", "recv", "accept", "write", "serve", "killed"}

Early == ssh_us \in {"start", "path", "done", "forward", "exec"}

\* What the binder has done, and what of it we have read.
BinderInv ==
    /\ bound = IF binder \in {"absent", "script", "data"} THEN {}
               ELSE IF binder \in {"pass", "exited"} THEN {"data"} ELSE {"data", "pass"}
    /\ ssh_us = "start" <=> binder = "absent"
    /\ ssh_us = "start" => lines = << >>
    /\ ssh_us = "path" => lines = IF binder = "script" THEN << >>
                                  ELSE IF binder \in {"accept", "exited"} THEN <<"dir", "done">>
                                  ELSE <<"dir">>
    /\ ssh_us = "done" => /\ binder # "script"
                          /\ lines = IF binder \in {"accept", "exited"} THEN <<"done">> ELSE << >>
    /\ ssh_us \notin {"start", "path", "done"} => binder \in {"accept", "exited"}

\* The bootstrap process, and the message that passes the listening socket to it.
PassInv ==
    /\ Early => boot = "absent"
    /\ binder = "exited" <=> passing = "sent"
    /\ boot \in {"absent", "connect"} => passing = "none"

Made == <<"syscall", "data">>

\* The connections that we made are accepted, wait, or are in the tunnel, in their order.
SshStream ==
    /\ accepted \in Seq({"syscall", "data"}) /\ ssh_backlog \in Seq({"syscall", "data"})
    /\ transit \in Seq({"syscall", "data"})
    /\ \E n \in 0..2 : /\ Stream(accepted, ssh_backlog, transit, Made, n)
                       /\ Early \/ ssh_us = "syscall" => n = 0
                       /\ ssh_us = "data" => n = 1
                       /\ ssh_us \in {"describe", "check", "thread"} => n = 2
    /\ boot \in {"absent", "connect", "recv"} => Len(accepted) = 0
    /\ boot = "accept" => Len(accepted) < 2
    /\ boot \in {"write", "serve"} => Len(accepted) = 2

\* A process that serves has described itself, and when we have read all, it did.
DescribeInv ==
    /\ written \in Nat /\ ssh_parsed \in Nat /\ ssh_parsed <= written
    /\ IF boot = "serve" THEN written = Describes ELSE written < Describes
    /\ ssh_us \in {"check", "thread"} => ssh_parsed = Describes

SshInv == SshTypes /\ BinderInv /\ PassInv /\ SshStream /\ DescribeInv

\* No socket is bound, no connection made.
LEMMA InitSsh == Ssh!SshAssumption /\ Ssh!Init => SshInv
  <1> SUFFICES ASSUME Ssh!SshAssumption, Ssh!Init PROVE SshInv
    OBVIOUS
  <1>1. SshTypes /\ BinderInv /\ PassInv
    BY DEF Ssh!Init, SshTypes, BinderInv, PassInv, Early
  <1>2. Stream(accepted, ssh_backlog, transit, Made, 0)
    BY DEF Stream, Ssh!Init
  <1>3. SshStream
    BY <1>2 DEF SshStream, Ssh!Init
  <1>4. DescribeInv
    BY DEF DescribeInv, Ssh!Init, Ssh!SshAssumption
  <1> QED BY <1>1, <1>3, <1>4 DEF SshInv

\* What a step keeps that makes no connection and accepts none.
LEMMA SshStill ==
    ASSUME SshInv, UNCHANGED <<accepted, ssh_backlog, transit, written, ssh_parsed>>,
           \/ UNCHANGED ssh_us
           \/ Early /\ (Early' \/ ssh_us' = "syscall")
           \/ ssh_us = "check" /\ ssh_us' = "thread"
           \/ ssh_us' = "failed",
           \/ UNCHANGED boot
           \/ boot \in {"absent", "connect"} /\ boot' \in {"connect", "recv"}
           \/ boot = "recv" /\ boot' = "accept"
           \/ boot # "serve" /\ boot' = "killed"
    PROVE  SshStream' /\ DescribeInv'
  <1>1. DescribeInv'
    BY DEF SshInv, DescribeInv, Early
  <1>2. SshStream'
    <2>1. PICK n \in 0..2 : /\ Stream(accepted, ssh_backlog, transit, Made, n)
                            /\ Early \/ ssh_us = "syscall" => n = 0
                            /\ ssh_us = "data" => n = 1
                            /\ ssh_us \in {"describe", "check", "thread"} => n = 2
      BY DEF SshInv, SshStream
    <2>2. Stream(accepted', ssh_backlog', transit', Made, n)
      BY <2>1
    <2>3. /\ (Early \/ ssh_us = "syscall")' => n = 0
          /\ ssh_us' = "data" => n = 1
          /\ ssh_us' \in {"describe", "check", "thread"} => n = 2
      BY <2>1 DEF Early
    <2>4. /\ (boot \in {"absent", "connect", "recv"})' => Len(accepted) = 0
          /\ boot' = "accept" => Len(accepted) < 2
          /\ boot' \in {"write", "serve"} => Len(accepted) = 2
      BY DEF SshInv, SshStream
    <2> QED BY <2>2, <2>3, <2>4 DEF SshInv, SshStream, Made
  <1> QED BY <1>1, <1>2

\* The lines that the binder prints.
LEMMA Lines ==
    /\ Append(<< >>, "dir") = <<"dir">> /\ Append(<<"dir">>, "done") = <<"dir", "done">>
    /\ Append(<< >>, "done") = <<"done">>
    /\ Head(<<"done">>) = "done" /\ Tail(<<"done">>) = << >>
    /\ Tail(<<"dir">>) = << >> /\ Tail(<<"dir", "done">>) = <<"done">>
  <1>1. Append(<< >>, "dir") = <<"dir">> /\ Append(<< >>, "done") = <<"done">>
    OBVIOUS
  <1>2. Append(<<"dir">>, "done") = <<"dir", "done">>
    <2>1. PICK s : s = Append(<<"dir">>, "done")
      OBVIOUS
    <2>2. s \in Seq({"dir", "done"}) /\ Len(s) = 2 /\ s[1] = "dir" /\ s[2] = "done"
      BY <2>1
    <2>3. s = <<"dir", "done">>
      BY <2>2
    <2> QED BY <2>1, <2>3
  <1>3. Head(<<"done">>) = "done"
    OBVIOUS
  <1>4. Tail(<<"dir">>) = << >> /\ Tail(<<"done">>) = << >>
    OBVIOUS
  <1>5. Tail(<<"dir", "done">>) = <<"done">>
    OBVIOUS
  <1> QED BY <1>1, <1>2, <1>3, <1>4, <1>5

\* The steps of the binder.
LEMMA BinderSsh ==
    ASSUME SshInv, Ssh!BinderStep
    PROVE  SshInv'
  <1>1. UNCHANGED <<ssh_us, boot, accepted, ssh_backlog, transit, written, ssh_parsed>>
    BY DEF Ssh!BinderStep, Ssh!Script, Ssh!Listen, Ssh!PassSocket
  <1>2. SshStream' /\ DescribeInv'
    BY <1>1, SshStill
  <1>3. CASE Ssh!Script
    BY <1>1, <1>2, <1>3, Lines DEF Ssh!Script, SshInv, SshTypes, BinderInv, PassInv, Early
  <1>4. CASE Ssh!Listen
    BY <1>1, <1>2, <1>4, Lines DEF Ssh!Listen, SshInv, SshTypes, BinderInv, PassInv, Early
  <1>5. CASE Ssh!PassSocket
    BY <1>1, <1>2, <1>5 DEF Ssh!PassSocket, SshInv, SshTypes, BinderInv, PassInv, Early
  <1> QED BY <1>3, <1>4, <1>5 DEF Ssh!BinderStep

\* Our steps before the connections, and the last.
LEMMA PrepareSsh ==
    ASSUME SshInv, Ssh!MakeBootstrapDir \/ Ssh!ReadLine \/ Ssh!Forward \/ Ssh!ExecBootstrap \/ Ssh!Check
    PROVE  SshInv'
  <1>1. CASE Ssh!MakeBootstrapDir
    <2>1. SshStream' /\ DescribeInv'
      BY <1>1, SshStill DEF Ssh!MakeBootstrapDir, Early
    <2> QED BY <1>1, <2>1 DEF Ssh!MakeBootstrapDir, SshInv, SshTypes, BinderInv, PassInv, Early
  <1>2. CASE Ssh!ReadLine
    <2>0. ssh_us' \in {"done", "forward"} /\ Early /\ UNCHANGED <<binder, bound, passing, boot>>
      BY <1>2 DEF Ssh!ReadLine, SshInv, BinderInv, Early
    <2>1. SshStream' /\ DescribeInv'
      BY <1>2, <2>0, SshStill DEF Ssh!ReadLine, Early
    <2>2. BinderInv'
      BY <1>2, <2>0, Lines DEF Ssh!ReadLine, SshInv, SshTypes, BinderInv
    <2> QED BY <2>0, <2>1, <2>2 DEF SshInv, SshTypes, PassInv, Early
  <1>3. CASE Ssh!Forward \/ Ssh!ExecBootstrap \/ Ssh!Check
    <2>1. SshStream' /\ DescribeInv'
      <3>1. CASE Ssh!Forward
        BY <3>1, SshStill DEF Ssh!Forward, Early
      <3>2. CASE Ssh!ExecBootstrap
        BY <3>2, SshStill DEF Ssh!ExecBootstrap, SshInv, PassInv, Early
      <3>3. CASE Ssh!Check
        BY <3>3, SshStill DEF Ssh!Check
      <3> QED BY <1>3, <3>1, <3>2, <3>3
    <2> QED BY <1>3, <2>1 DEF Ssh!Forward, Ssh!ExecBootstrap, Ssh!Check, SshInv, SshTypes, BinderInv, PassInv, Early
  <1> QED BY <1>1, <1>2, <1>3

\* A connection is made, or the tunnel is down.
LEMMA ConnectSsh ==
    ASSUME SshInv, Ssh!ConnectSock
    PROVE  SshInv'
  <1>0. /\ ssh_us \in {"syscall", "data"} /\ ssh_us' \in {"data", "describe", "failed"}
        /\ UNCHANGED <<lines, binder, tunnel, bound, passing, ssh_backlog, boot, accepted, written, ssh_parsed>>
    BY DEF Ssh!ConnectSock
  <1>1. SshTypes' /\ BinderInv' /\ PassInv' /\ DescribeInv'
    BY <1>0 DEF SshInv, SshTypes, BinderInv, PassInv, DescribeInv, Early
  <1>2. CASE tunnel = "up"
    <2>1. PICK n \in 0..1 : Stream(accepted, ssh_backlog, transit, Made, n) /\ Made[n + 1] = ssh_us
                            /\ ssh_us' = IF n = 0 THEN "data" ELSE "describe"
      BY <1>0, <1>2 DEF SshInv, SshStream, Made, Ssh!ConnectSock
    <2>2. transit' = Append(transit, Made[n + 1]) /\ Made[n + 1] \in {"syscall", "data"}
      BY <1>0, <1>2, <2>1 DEF Ssh!ConnectSock
    <2>3. transit' \in Seq({"syscall", "data"}) /\ Stream(accepted, ssh_backlog, transit', Made, n + 1)
      BY <2>1, <2>2, StreamSent DEF SshInv, SshStream
    <2>4. PICK m \in 0..2 : m = n + 1
      OBVIOUS
    <2>5. /\ Stream(accepted', ssh_backlog', transit', Made, m)
          /\ ssh_us' = "data" => m = 1
          /\ ssh_us' = "describe" => m = 2 /\ ssh_us' \in {"data", "describe"}
      BY <1>0, <2>1, <2>3, <2>4
    <2>6. SshStream'
      BY <1>0, <2>1, <2>3, <2>5 DEF SshInv, SshStream, Early, Made
    <2> QED BY <1>1, <2>6 DEF SshInv
  <1>3. CASE tunnel # "up"
    <2>1. SshStream'
      BY <1>0, <1>3, SshStill DEF Ssh!ConnectSock
    <2> QED BY <1>1, <2>1 DEF SshInv
  <1> QED BY <1>2, <1>3

\* The description is read.
LEMMA ReadSsh ==
    ASSUME SshInv, Ssh!ReadDescription
    PROVE  SshInv'
  <1>0. /\ ssh_us = "describe" /\ ssh_us' \in {"describe", "check", "failed"}
        /\ UNCHANGED <<lines, binder, tunnel, bound, passing, transit, ssh_backlog, boot, accepted, written>>
    BY DEF Ssh!ReadDescription
  <1>1. SshTypes' /\ BinderInv' /\ PassInv'
    BY <1>0 DEF SshInv, SshTypes, BinderInv, PassInv, Early
  <1>2. DescribeInv'
    BY <1>0 DEF Ssh!ReadDescription, SshInv, DescribeInv, Ssh!Complete
  <1>3. SshStream'
    BY <1>0 DEF SshInv, SshStream, Early, Made
  <1> QED BY <1>1, <1>2, <1>3 DEF SshInv

\* The tunnel opens a connection, or ends.
LEMMA TunnelSsh ==
    ASSUME SshInv, Ssh!TunnelOpens \/ Ssh!TunnelEnds
    PROVE  SshInv'
  <1>0. UNCHANGED <<ssh_us, lines, binder, bound, passing, boot, accepted, written, ssh_parsed>>
    BY DEF Ssh!TunnelOpens, Ssh!TunnelEnds
  <1>1. SshTypes' /\ BinderInv' /\ PassInv' /\ DescribeInv'
    BY <1>0 DEF SshInv, SshTypes, BinderInv, PassInv, DescribeInv, Early
  <1>2. CASE Ssh!TunnelOpens
    <2>1. PICK n \in 0..2 : /\ Stream(accepted, ssh_backlog, transit, Made, n)
                            /\ Early \/ ssh_us = "syscall" => n = 0
                            /\ ssh_us = "data" => n = 1
                            /\ ssh_us \in {"describe", "check", "thread"} => n = 2
      BY DEF SshInv, SshStream
    <2>2. /\ transit' \in Seq({"syscall", "data"}) /\ ssh_backlog' \in Seq({"syscall", "data"})
          /\ Stream(accepted, ssh_backlog', transit', Made, n)
      BY <1>2, <2>1, StreamOpens DEF Ssh!TunnelOpens, SshInv, SshStream
    <2>3. SshStream'
      BY <1>0, <2>1, <2>2 DEF SshInv, SshStream, Early, Made
    <2> QED BY <1>1, <2>3 DEF SshInv
  <1>3. CASE Ssh!TunnelEnds
    <2>1. SshStream'
      BY <1>0, <1>3, SshStill DEF Ssh!TunnelEnds
    <2> QED BY <1>1, <2>1 DEF SshInv
  <1> QED BY <1>2, <1>3

\* The bootstrap process: it finds the "pass" socket, since the binder goes only after it
\* has passed the data socket to it.
LEMMA BootSsh ==
    ASSUME Ssh!SshAssumption, SshInv, Ssh!BootStep \/ Ssh!Killed
    PROVE  SshInv'
  <1>0. UNCHANGED <<ssh_us, lines, binder, tunnel, bound, transit, ssh_parsed>>
    BY DEF Ssh!BootStep, Ssh!ConnectPass, Ssh!ReceiveSocket, Ssh!AcceptOn, Ssh!WriteDescription, Ssh!Killed
  <1>1. BinderInv'
    BY <1>0 DEF SshInv, BinderInv
  <1>2. CASE Ssh!ConnectPass
    <2>1. boot = "connect" /\ "pass" \in bound
      BY <1>2 DEF Ssh!ConnectPass, SshInv, SshTypes, BinderInv, PassInv, Early
    <2>2. SshStream' /\ DescribeInv'
      BY <1>0, <1>2, <2>1, SshStill DEF Ssh!ConnectPass
    <2> QED BY <1>0, <1>1, <1>2, <2>1, <2>2 DEF Ssh!ConnectPass, SshInv, SshTypes, PassInv, Early
  <1>3. CASE Ssh!ReceiveSocket \/ Ssh!Killed
    <2>2. SshStream' /\ DescribeInv'
      BY <1>0, <1>3, SshStill DEF Ssh!ReceiveSocket, Ssh!Killed
    <2> QED BY <1>0, <1>1, <1>3, <2>2 DEF Ssh!ReceiveSocket, Ssh!Killed, SshInv, SshTypes, PassInv, Early
  <1>4. CASE Ssh!AcceptOn
    <2>1. PICK n \in 0..2 : /\ Stream(accepted, ssh_backlog, transit, Made, n)
                            /\ Early \/ ssh_us = "syscall" => n = 0
                            /\ ssh_us = "data" => n = 1
                            /\ ssh_us \in {"describe", "check", "thread"} => n = 2
      BY DEF SshInv, SshStream
    <2>2. /\ accepted' \in Seq({"syscall", "data"}) /\ ssh_backlog' \in Seq({"syscall", "data"})
          /\ Stream(accepted', ssh_backlog', transit, Made, n) /\ Len(accepted') = Len(accepted) + 1
      BY <1>4, <2>1, StreamArrives DEF Ssh!AcceptOn, SshInv, SshStream
    <2>3. /\ boot = "accept" /\ boot' = IF Len(accepted) = 1 THEN "write" ELSE "accept"
          /\ Len(accepted) < 2 /\ Len(accepted) \in Nat /\ UNCHANGED <<passing, written>>
      BY <1>4 DEF Ssh!AcceptOn, SshInv, SshStream
    <2>5. IF Len(accepted) = 1 THEN boot' = "write" /\ Len(accepted') = 2
                               ELSE boot' = "accept" /\ Len(accepted') < 2
      <3>1. CASE Len(accepted) = 1
        BY <2>2, <2>3, <3>1
      <3>2. CASE Len(accepted) # 1
        <4>1. PICK a \in Nat : a = Len(accepted)
          BY <2>3
        <4>2. a < 2 /\ a # 1 /\ Len(accepted') = a + 1
          BY <2>2, <2>3, <3>2, <4>1
        <4>3. a + 1 < 2
          BY <4>2
        <4> QED BY <2>3, <3>2, <4>2, <4>3
      <3> QED BY <3>1, <3>2
    <2>4. SshStream'
      BY <1>0, <2>1, <2>2, <2>5 DEF SshInv, SshStream, Early, Made
    <2> QED BY <1>0, <1>1, <2>3, <2>4 DEF SshInv, SshTypes, PassInv, DescribeInv, Early
  <1>5. CASE Ssh!WriteDescription
    <2>1. SshStream'
      BY <1>0, <1>5 DEF Ssh!WriteDescription, SshInv, SshStream, Early, Made
    <2>2. DescribeInv'
      BY <1>0, <1>5 DEF Ssh!WriteDescription, SshInv, DescribeInv, Ssh!SshAssumption
    <2> QED BY <1>0, <1>1, <1>5, <2>1, <2>2 DEF Ssh!WriteDescription, SshInv, SshTypes, PassInv, Early
  <1> QED BY <1>2, <1>3, <1>4, <1>5 DEF Ssh!BootStep

\* Any step keeps the invariant.
LEMMA NextSsh ==
    ASSUME Ssh!SshAssumption
    PROVE  SshInv /\ [Ssh!Next]_(Ssh!vars) => SshInv'
  <1> SUFFICES ASSUME SshInv, [Ssh!Next]_(Ssh!vars) PROVE SshInv'
    OBVIOUS
  <1>1. CASE UNCHANGED Ssh!vars
    BY <1>1 DEF Ssh!vars, SshInv, SshTypes, BinderInv, PassInv, SshStream, DescribeInv, Early, Made
  <1> QED BY <1>1, BinderSsh, PrepareSsh, ConnectSsh, ReadSsh, TunnelSsh, BootSsh
          DEF Ssh!Next, Ssh!OurStep

\* The invariant gives the properties.
LEMMA SshSafe ==
    ASSUME Ssh!SshAssumption
    PROVE  SshInv => Ssh!SocksMatch /\ Ssh!SocketsAreThere /\ Ssh!ThreadIsServed
  <1> SUFFICES ASSUME SshInv PROVE Ssh!SocksMatch /\ Ssh!SocketsAreThere /\ Ssh!ThreadIsServed
    OBVIOUS
  <1>1. PICK n \in 0..2 : /\ Stream(accepted, ssh_backlog, transit, Made, n)
                          /\ Early \/ ssh_us = "syscall" => n = 0
                          /\ ssh_us \in {"describe", "check", "thread"} => n = 2
    BY DEF SshInv, SshStream
  <1>2. Len(accepted) \in Nat /\ Len(ssh_backlog) \in Nat /\ Len(transit) \in Nat
        /\ (ssh_backlog = << >> <=> Len(ssh_backlog) = 0) /\ (transit = << >> <=> Len(transit) = 0)
    BY DEF SshInv, SshStream
  <1>3. Ssh!SocksMatch
    BY <1>1, <1>2 DEF Stream, Made, Ssh!SocksMatch
  <1>4. Ssh!SocketsAreThere
    <2>1. ssh_backlog # << >> => n # 0
      BY <1>1, <1>2 DEF Stream
    <2> QED BY <1>1, <2>1 DEF Early, SshInv, SshTypes, BinderInv, Ssh!SocketsAreThere
  <1>5. Ssh!ThreadIsServed
    <2> SUFFICES ASSUME ssh_us = "thread"
                 PROVE  boot = "serve" /\ transit \o ssh_backlog = << >> /\ ssh_parsed = written
      BY DEF Ssh!ThreadIsServed
    <2>1. boot = "serve" /\ ssh_parsed = written
      BY DEF SshInv, DescribeInv
    <2>2. Len(accepted) = 2 /\ n = 2
      BY <1>1, <2>1 DEF SshInv, SshStream
    <2>3. transit = << >> /\ ssh_backlog = << >>
      BY <1>1, <1>2, <2>2 DEF Stream
    <2> QED BY <2>1, <2>3
  <1> QED BY <1>3, <1>4, <1>5

\* Whichever of the three ssh processes is fast: nobody connects to a socket that is not
\* there; the process serves system calls on the connection of our SyscallConnection and
\* describes itself on the other one; and a thread that is returned is served, with
\* nothing left in the backlog or in the data connection.
THEOREM SshThreadServed ==
    ASSUME Ssh!SshAssumption
    PROVE  Ssh!Spec => [](Ssh!SocksMatch /\ Ssh!SocketsAreThere /\ Ssh!ThreadIsServed)
  BY InitSsh, NextSsh, SshSafe, PTL DEF Ssh!Spec

-----------------------------------------------------------------------------
(* Channels between threads                                                *)

Messages(kind) == IF kind = "fdpass" THEN [1..Count -> Nat] ELSE Nat
EndsOf(kind, m) == IF kind = "fdpass" THEN {m[i] : i \in 1..Count} ELSE {m}
Places(kind) == IF kind = "fdpass" THEN {"idle", "move", "send", "recv", "close", "done"}
                                 ELSE {"idle", "accept", "more", "done"}

\* The right ends that a user's task has, and those that the call is about to give away.
Pending(kind, u) == IF pc[u] \in {"move", "send"} THEN EndsOf(kind, left[u]) ELSE {}
Has(kind, u) == remote[u] \cup Pending(kind, u)

ChanTypes(kind) ==
    /\ next \in Nat \ {0} /\ pc \in [Users -> Places(kind)] /\ DOMAIN left = Users /\ DOMAIN right = Users
    /\ DOMAIN remote = Users /\ chan_wire \in Seq(Messages(kind))
    /\ \A u \in Users : pc[u] \in {"move", "send"} => left[u] \in Messages(kind)

\* Every right end is with one task, in one message, or not sent yet.
EndsInv(kind) ==
    /\ \A u \in Users : Has(kind, u) \subseteq 1..(next - 1) /\ remote[u] \cap Pending(kind, u) = {}
    /\ \A k \in 1..Len(chan_wire) : EndsOf(kind, chan_wire[k]) \subseteq 1..(next - 1)
    /\ \A u, v \in Users : u # v => Has(kind, u) \cap Has(kind, v) = {}
    /\ \A u \in Users, k \in 1..Len(chan_wire) : EndsOf(kind, chan_wire[k]) \cap Has(kind, u) = {}
    /\ \A k, l \in 1..Len(chan_wire) : k # l => EndsOf(kind, chan_wire[k]) \cap EndsOf(kind, chan_wire[l]) = {}

ChanInv(kind) == ChanTypes(kind) /\ EndsInv(kind)

\* Ends go from one place to another within a task, or are closed.
LEMMA EndsStay ==
    ASSUME NEW kind, ChanInv(kind), UNCHANGED <<next, chan_wire>>,
           \A u \in Users : Has(kind, u)' \subseteq Has(kind, u) /\ (remote[u] \cap Pending(kind, u))' = {}
    PROVE  EndsInv(kind)'
  BY DEF ChanInv, EndsInv

\* The numbers below a greater number.
LEMMA MoreNumbers ==
    ASSUME NEW a \in Nat, NEW b \in Nat, a <= b
    PROVE  1..(a - 1) \subseteq 1..(b - 1)
  OBVIOUS

\* A message with ends that nobody else has is put on the wire.
LEMMA EndsSent ==
    ASSUME NEW kind, ChanInv(kind), NEW m \in Messages(kind), chan_wire' = Append(chan_wire, m), next' \in Nat,
           next' >= next,
           EndsOf(kind, m) \subseteq 1..(next' - 1),
           \A u \in Users : Has(kind, u)' \subseteq Has(kind, u) /\ (remote[u] \cap Pending(kind, u))' = {},
           \A u \in Users : EndsOf(kind, m) \cap Has(kind, u)' = {},
           \A k \in 1..Len(chan_wire) : EndsOf(kind, chan_wire[k]) \cap EndsOf(kind, m) = {}
    PROVE  EndsInv(kind)' /\ chan_wire' \in Seq(Messages(kind))
  <1>1. PICK w : w = chan_wire'
    OBVIOUS
  <1>2. /\ w \in Seq(Messages(kind)) /\ Len(chan_wire) \in Nat /\ Len(w) = Len(chan_wire) + 1
        /\ w[Len(chan_wire) + 1] = m /\ \A k \in 1..Len(chan_wire) : w[k] = chan_wire[k]
    BY <1>1, AppendLast DEF ChanInv, ChanTypes
  <1>3. 1..Len(w) = (1..Len(chan_wire)) \cup {Len(chan_wire) + 1}
    BY <1>2
  <1>4. 1..(next - 1) \subseteq 1..(next' - 1)
    <2>1. next \in Nat /\ next <= next'
      BY DEF ChanInv, ChanTypes
    <2> QED BY <2>1, MoreNumbers
  <1>5. ASSUME NEW k \in 1..Len(w)
        PROVE  /\ EndsOf(kind, w[k]) \subseteq 1..(next' - 1)
               /\ \A u \in Users : EndsOf(kind, w[k]) \cap Has(kind, u)' = {}
    <2>1. CASE k \in 1..Len(chan_wire)
      BY <1>2, <1>4, <2>1 DEF ChanInv, EndsInv
    <2>2. CASE k = Len(chan_wire) + 1
      BY <1>2, <2>2
    <2> QED BY <1>3, <2>1, <2>2
  <1>6. ASSUME NEW k \in 1..Len(w), NEW l \in 1..Len(w), k # l
        PROVE  EndsOf(kind, w[k]) \cap EndsOf(kind, w[l]) = {}
    <2>1. CASE k \in 1..Len(chan_wire) /\ l \in 1..Len(chan_wire)
      BY <1>2, <1>6, <2>1 DEF ChanInv, EndsInv
    <2>2. CASE k \in 1..Len(chan_wire) /\ l = Len(chan_wire) + 1
      BY <1>2, <2>2
    <2>3. CASE k = Len(chan_wire) + 1 /\ l \in 1..Len(chan_wire)
      BY <1>2, <2>3
    <2> QED BY <1>3, <1>6, <2>1, <2>2, <2>3
  <1>7. /\ \A u \in Users : Has(kind, u)' \subseteq 1..(next' - 1) /\ (remote[u] \cap Pending(kind, u))' = {}
        /\ \A u, v \in Users : u # v => Has(kind, u)' \cap Has(kind, v)' = {}
    BY <1>4 DEF ChanInv, EndsInv
  <1>8. EndsInv(kind)'
    BY <1>1, <1>5, <1>6, <1>7 DEF EndsInv
  <1> QED BY <1>1, <1>2, <1>8

\* The message that waits longest comes to a task.
LEMMA EndsReceived ==
    ASSUME NEW kind, ChanInv(kind), NEW u \in Users, chan_wire # << >>, chan_wire' = Tail(chan_wire), UNCHANGED next,
           pc[u] \notin {"move", "send"}, Pending(kind, u)' = {},
             remote'[u] = remote[u] \cup EndsOf(kind, chan_wire[1]),
           \A v \in Users \ {u} : Has(kind, v)' = Has(kind, v) /\ (remote[v] \cap Pending(kind, v))' = {}
    PROVE  EndsInv(kind)' /\ chan_wire' \in Seq(Messages(kind)) /\ Head(chan_wire) = chan_wire[1]
           /\ chan_wire[1] \in Messages(kind)
  <1>1. PICK w : w = chan_wire'
    OBVIOUS
  <1>2. /\ Head(chan_wire) = chan_wire[1] /\ chan_wire[1] \in Messages(kind) /\ w \in Seq(Messages(kind))
        /\ Len(w) + 1 = Len(chan_wire) /\ Len(w) \in Nat /\ \A k \in 1..Len(w) : w[k] = chan_wire[k + 1]
    BY <1>1, HeadTail DEF ChanInv, ChanTypes
  <1>3. \A k \in 1..Len(w) : k + 1 \in 1..Len(chan_wire) /\ k + 1 # 1 /\ 1 \in 1..Len(chan_wire)
    BY <1>2
  <1>4. 1 \in 1..Len(chan_wire)
    BY <1>2
  <1>5. Has(kind, u)' = Has(kind, u) \cup EndsOf(kind, chan_wire[1])
    BY DEF Has, Pending
  <1>6. ASSUME NEW k \in 1..Len(w)
        PROVE  /\ EndsOf(kind, w[k]) \subseteq 1..(next - 1)
               /\ \A v \in Users : EndsOf(kind, w[k]) \cap Has(kind, v)' = {}
    <2>1. PICK l \in 1..Len(chan_wire) : l = k + 1 /\ l # 1
      BY <1>3
    <2>2. /\ w[k] = chan_wire[l] /\ EndsOf(kind, chan_wire[l]) \subseteq 1..(next - 1)
          /\ \A v \in Users : EndsOf(kind, chan_wire[l]) \cap Has(kind, v) = {}
          /\ EndsOf(kind, chan_wire[l]) \cap EndsOf(kind, chan_wire[1]) = {}
      BY <1>2, <1>4, <2>1 DEF ChanInv, EndsInv
    <2> QED BY <1>5, <2>2
  <1>7. ASSUME NEW k \in 1..Len(w), NEW l \in 1..Len(w), k # l
        PROVE  EndsOf(kind, w[k]) \cap EndsOf(kind, w[l]) = {}
    <2>1. k + 1 # l + 1
      BY <1>2, <1>7
    <2> QED BY <1>2, <1>3, <2>1 DEF ChanInv, EndsInv
  <1>8. /\ \A v \in Users : Has(kind, v)' \subseteq 1..(next - 1) /\ (remote[v] \cap Pending(kind, v))' = {}
        /\ \A x, y \in Users : x # y => Has(kind, x)' \cap Has(kind, y)' = {}
    BY <1>4, <1>5 DEF ChanInv, EndsInv
  <1>9. EndsInv(kind)'
    BY <1>1, <1>6, <1>7, <1>8 DEF EndsInv
  <1> QED BY <1>1, <1>2, <1>9

\* The constants.
LEMMA ChanConstants ==
    ASSUME NEW kind, NEW overlap, NEW fail, Chan(kind, overlap, fail)!ChannelsAssumption
    PROVE  Count \in Nat /\ Count >= 1 /\ kind \in {"fdpass", "listen"}
  BY DEF Chan!ChannelsAssumption

\* The pairs are made.
LEMMA MakePairsChan ==
    ASSUME NEW kind, NEW overlap, NEW fail, Chan(kind, overlap, fail)!ChannelsAssumption, ChanInv(kind),
           NEW u \in Users, Chan(kind, overlap, fail)!MakePairs(u)
    PROVE  ChanInv(kind)'
  <1>0. /\ kind = "fdpass" /\ pc[u] = "idle" /\ next \in Nat \ {0} /\ next' = next + Count
        /\ UNCHANGED <<chan_wire, remote, right>>
    BY DEF Chan!MakePairs, Chan!MayStart, ChanInv, ChanTypes
  <1>1. PICK b : b = [i \in 1..Count |-> next + i - 1]
    OBVIOUS
  <1>2. PICK s \in {"move", "send"} : pc' = [pc EXCEPT ![u] = s] /\ left' = [left EXCEPT ![u] = b]
    BY <1>1 DEF Chan!MakePairs
  <1>3. b \in [1..Count -> Nat] /\ b \in Messages(kind)
    BY <1>0, <1>1, ChanConstants DEF Messages
  <1>4. \A n \in EndsOf(kind, b) : n \in 1..(next' - 1) /\ n \notin 1..(next - 1)
    BY <1>0, <1>1, ChanConstants DEF EndsOf
  <1>5. ChanTypes(kind)'
    BY <1>0, <1>2, <1>3, ChanConstants DEF ChanInv, ChanTypes, Places, Messages
  <1>6. \A v \in Users : Has(kind, v)' = IF v = u THEN Has(kind, u) \cup EndsOf(kind, b) ELSE Has(kind, v)
    BY <1>0, <1>2 DEF ChanInv, ChanTypes, Has, Pending
  <1>7. 1..(next - 1) \subseteq 1..(next' - 1)
    BY <1>0, ChanConstants
  <1>8. \A v \in Users : Has(kind, v)' \subseteq 1..(next' - 1)
    BY <1>4, <1>6, <1>7 DEF ChanInv, EndsInv
  <1>9. \A v, w \in Users : v # w => Has(kind, v)' \cap Has(kind, w)' = {}
    BY <1>4, <1>6 DEF ChanInv, EndsInv
  <1>10. \A v \in Users : (remote[v] \cap Pending(kind, v))' = {}
    <2>1. \A v \in Users : Pending(kind, v)' = IF v = u THEN EndsOf(kind, b) ELSE Pending(kind, v)
      BY <1>0, <1>2 DEF ChanInv, ChanTypes, Pending
    <2> QED BY <1>0, <1>4, <2>1 DEF ChanInv, EndsInv, Has
  <1>11. \A v \in Users, k \in 1..Len(chan_wire) :
            EndsOf(kind, chan_wire[k]) \cap Has(kind, v)' = {} /\ EndsOf(kind, chan_wire[k]) \subseteq 1..(next' - 1)
    BY <1>4, <1>6, <1>7 DEF ChanInv, EndsInv
  <1>12. \A k \in 1..Len(chan_wire) : EndsOf(kind, chan_wire[k]) \subseteq 1..(next' - 1)
    BY <1>7 DEF ChanInv, EndsInv
  <1>13. EndsInv(kind)'
    BY <1>0, <1>8, <1>9, <1>10, <1>11, <1>12 DEF ChanInv, EndsInv
  <1> QED BY <1>5, <1>13 DEF ChanInv

\* The ends are moved, sent, received; or our copies are closed.
LEMMA PassChan ==
    ASSUME NEW kind, NEW overlap, NEW fail, Chan(kind, overlap, fail)!ChannelsAssumption, ChanInv(kind),
           NEW u \in Users,
           Chan(kind, overlap, fail)!Move(u) \/ Chan(kind, overlap, fail)!SendFds(u)
             \/ Chan(kind, overlap, fail)!RecvFds(u) \/ Chan(kind, overlap, fail)!CloseFds(u)
    PROVE  ChanInv(kind)'
  <1>0. kind = "fdpass"
    BY ChanConstants DEF ChanInv, ChanTypes, Places, Chan!Move, Chan!SendFds, Chan!RecvFds, Chan!CloseFds
  <1>1. CASE Chan(kind, overlap, fail)!Move(u)
    <2>1. /\ pc[u] = "move" /\ pc' = [pc EXCEPT ![u] = "done"] /\ UNCHANGED <<next, left, chan_wire>>
          /\ remote' = [remote EXCEPT ![u] = remote[u] \cup EndsOf(kind, left[u])] /\ DOMAIN right' = Users
      BY <1>0, <1>1 DEF Chan!Move, EndsOf, ChanInv, ChanTypes
    <2>2. ChanTypes(kind)'
      BY <1>0, <2>1 DEF ChanInv, ChanTypes, Places
    <2>3. \A v \in Users : Has(kind, v)' \subseteq Has(kind, v) /\ (remote[v] \cap Pending(kind, v))' = {}
      BY <2>1 DEF ChanInv, ChanTypes, EndsInv, Has, Pending
    <2> QED BY <2>1, <2>2, <2>3, EndsStay DEF ChanInv
  <1>2. CASE Chan(kind, overlap, fail)!SendFds(u)
    <2>1. /\ pc[u] = "send" /\ pc' = [pc EXCEPT ![u] = "recv"] /\ UNCHANGED <<next, left, right, remote>>
          /\ chan_wire' = Append(chan_wire, left[u]) /\ left[u] \in Messages(kind)
      BY <1>2 DEF Chan!SendFds, ChanInv, ChanTypes
    <2>2. \A v \in Users : Pending(kind, v)' = IF v = u THEN {} ELSE Pending(kind, v)
      BY <2>1 DEF ChanInv, ChanTypes, Pending
    <2>3. Pending(kind, u) = EndsOf(kind, left[u])
      BY <2>1 DEF Pending
    <2>4. \A v \in Users : /\ Has(kind, v)' \subseteq Has(kind, v) /\ (remote[v] \cap Pending(kind, v))' = {}
                           /\ EndsOf(kind, left[u]) \cap Has(kind, v)' = {}
      BY <2>1, <2>2, <2>3 DEF ChanInv, EndsInv, Has
    <2>5. \A k \in 1..Len(chan_wire) : EndsOf(kind, chan_wire[k]) \cap EndsOf(kind, left[u]) = {}
      BY <2>3 DEF ChanInv, EndsInv, Has
    <2>6. next' \in Nat /\ next' >= next /\ EndsOf(kind, left[u]) \subseteq 1..(next' - 1)
      BY <2>1, <2>3 DEF ChanInv, ChanTypes, EndsInv, Has
    <2>7. EndsInv(kind)' /\ chan_wire' \in Seq(Messages(kind))
      BY <2>1, <2>4, <2>5, <2>6, EndsSent
    <2> QED BY <1>0, <2>1, <2>7 DEF ChanInv, ChanTypes, Places, Messages
  <1>3. CASE Chan(kind, overlap, fail)!RecvFds(u)
    <2>0. Head(chan_wire) = chan_wire[1]
      BY <1>3, HeadTail DEF Chan!RecvFds, ChanInv, ChanTypes
    <2>1. /\ pc[u] = "recv" /\ pc' = [pc EXCEPT ![u] = "close"] /\ UNCHANGED <<next, left>>
          /\ chan_wire # << >> /\ chan_wire' = Tail(chan_wire) /\ DOMAIN right' = Users
          /\ remote' = [remote EXCEPT ![u] = remote[u] \cup EndsOf(kind, chan_wire[1])]
      BY <1>0, <1>3, <2>0 DEF Chan!RecvFds, EndsOf, ChanInv, ChanTypes
    <2>2. \A v \in Users \ {u} : Has(kind, v)' = Has(kind, v) /\ (remote[v] \cap Pending(kind, v))' = {}
      BY <2>1 DEF ChanInv, ChanTypes, EndsInv, Has, Pending
    <2>3. Pending(kind, u)' = {} /\ remote'[u] = remote[u] \cup EndsOf(kind, chan_wire[1])
      BY <2>1 DEF ChanInv, ChanTypes, Pending
    <2>4. EndsInv(kind)' /\ chan_wire' \in Seq(Messages(kind))
      BY <2>1, <2>2, <2>3, EndsReceived
    <2> QED BY <1>0, <2>1, <2>4 DEF ChanInv, ChanTypes, Places, Messages
  <1>4. CASE Chan(kind, overlap, fail)!CloseFds(u)
    <2>1. pc[u] = "close" /\ pc' = [pc EXCEPT ![u] = "done"] /\ UNCHANGED <<next, left, right, chan_wire, remote>>
      BY <1>4 DEF Chan!CloseFds
    <2>2. \A v \in Users : Has(kind, v)' \subseteq Has(kind, v) /\ (remote[v] \cap Pending(kind, v))' = {}
      BY <2>1 DEF ChanInv, ChanTypes, EndsInv, Has, Pending
    <2>3. ChanTypes(kind)'
      BY <1>0, <2>1 DEF ChanInv, ChanTypes, Places
    <2> QED BY <2>1, <2>2, <2>3, EndsStay DEF ChanInv
  <1> QED BY <1>1, <1>2, <1>3, <1>4

\* A connection is made, or accepted.
LEMMA ListenChan ==
    ASSUME NEW kind, NEW overlap, NEW fail, Chan(kind, overlap, fail)!ChannelsAssumption, ChanInv(kind),
           NEW u \in Users, Chan(kind, overlap, fail)!Connect(u) \/ Chan(kind, overlap, fail)!AcceptConn(u)
    PROVE  ChanInv(kind)'
  <1>0. kind = "listen"
    BY ChanConstants DEF ChanInv, ChanTypes, Places, Chan!Connect, Chan!AcceptConn
  <1>1. \A v \in Users : pc[v] \notin {"move", "send"} /\ Pending(kind, v) = {} /\ Has(kind, v) = remote[v]
    BY <1>0 DEF ChanInv, ChanTypes, Places, Pending, Has
  <1>2. CASE Chan(kind, overlap, fail)!Connect(u)
    <2>1. /\ pc' = [pc EXCEPT ![u] = "accept"] /\ UNCHANGED remote /\ next' = next + 1
          /\ chan_wire' = Append(chan_wire, next) /\ DOMAIN left' = Users /\ DOMAIN right' = Users
      BY <1>2 DEF Chan!Connect, ChanInv, ChanTypes
    <2>2. pc' \in [Users -> Places(kind)] /\ \A v \in Users : pc'[v] \notin {"move", "send"}
      BY <1>0, <2>1 DEF ChanInv, ChanTypes, Places
    <2>3. next \in Messages(kind) /\ EndsOf(kind, next) = {next} /\ next' \in Nat \ {0} /\ next' >= next /\ next \in Nat
      BY <1>0, <2>1 DEF ChanInv, ChanTypes, Messages, EndsOf
    <2>4. next \in 1..(next' - 1) /\ next \notin 1..(next - 1)
      BY <2>1, <2>3 DEF ChanInv, ChanTypes
    <2>5. \A v \in Users : Pending(kind, v)' = {} /\ Has(kind, v)' = Has(kind, v)
          /\ (remote[v] \cap Pending(kind, v))' = {}
      BY <1>1, <2>1, <2>2 DEF Pending, Has
    <2>6. \A v \in Users : next \notin Has(kind, v)
      BY <2>4 DEF ChanInv, EndsInv
    <2>7. \A k \in 1..Len(chan_wire) : next \notin EndsOf(kind, chan_wire[k])
      BY <2>4 DEF ChanInv, EndsInv
    <2>8. /\ \A v \in Users : Has(kind, v)' \subseteq Has(kind, v) /\ (remote[v] \cap Pending(kind, v))' = {}
          /\ \A v \in Users : EndsOf(kind, next) \cap Has(kind, v)' = {}
          /\ \A k \in 1..Len(chan_wire) : EndsOf(kind, chan_wire[k]) \cap EndsOf(kind, next) = {}
          /\ EndsOf(kind, next) \subseteq 1..(next' - 1)
      BY <2>3, <2>4, <2>5, <2>6, <2>7
    <2>9. EndsInv(kind)' /\ chan_wire' \in Seq(Messages(kind))
      BY <2>1, <2>3, <2>8, EndsSent
    <2> QED BY <2>1, <2>2, <2>3, <2>9 DEF ChanInv, ChanTypes, Messages, Places
  <1>3. CASE Chan(kind, overlap, fail)!AcceptConn(u)
    <2>0. Head(chan_wire) = chan_wire[1]
      BY <1>3, HeadTail DEF Chan!AcceptConn, ChanInv, ChanTypes
    <2>1. /\ pc[u] = "accept" /\ \E s \in {"done", "more"} : pc' = [pc EXCEPT ![u] = s]
          /\ chan_wire # << >> /\ chan_wire' = Tail(chan_wire) /\ DOMAIN right' = Users
          /\ remote' = [remote EXCEPT ![u] = remote[u] \cup EndsOf(kind, chan_wire[1])] /\ UNCHANGED <<next, left>>
      BY <1>0, <1>3, <2>0 DEF Chan!AcceptConn, EndsOf, ChanInv, ChanTypes
    <2>2. pc' \in [Users -> Places(kind)] /\ \A v \in Users : pc'[v] \notin {"move", "send"}
      BY <1>0, <2>1 DEF ChanInv, ChanTypes, Places
    <2>3. \A v \in Users : Pending(kind, v)' = {}
      BY <2>2 DEF Pending
    <2>4. \A v \in Users \ {u} : Has(kind, v)' = Has(kind, v) /\ (remote[v] \cap Pending(kind, v))' = {}
      BY <1>1, <2>1, <2>3 DEF ChanInv, ChanTypes, Has
    <2>5. remote'[u] = remote[u] \cup EndsOf(kind, chan_wire[1])
      BY <2>1 DEF ChanInv, ChanTypes
    <2>6. EndsInv(kind)' /\ chan_wire' \in Seq(Messages(kind))
      BY <1>1, <2>1, <2>3, <2>4, <2>5, EndsReceived
    <2> QED BY <2>1, <2>2, <2>6 DEF ChanInv, ChanTypes, Messages, Places
  <1> QED BY <1>2, <1>3

\* A call ends, or is abandoned.
LEMMA EndChan ==
    ASSUME NEW kind, NEW overlap, NEW fail, Chan(kind, overlap, fail)!ChannelsAssumption, ChanInv(kind),
           NEW u \in Users, Chan(kind, overlap, fail)!Finish(u) \/ Chan(kind, overlap, fail)!Abandon(u)
    PROVE  ChanInv(kind)'
  <1>1. /\ pc[u] \notin {"move", "send"} /\ pc' = [pc EXCEPT ![u] = "idle"]
        /\ UNCHANGED <<next, left, right, chan_wire>> /\ DOMAIN remote' = Users
        /\ \A v \in Users : remote'[v] \subseteq remote[v]
    BY DEF Chan!Finish, Chan!Abandon, ChanInv, ChanTypes
  <1>2. ChanTypes(kind)'
    BY <1>1, ChanConstants DEF ChanInv, ChanTypes, Places
  <1>3. \A v \in Users : Pending(kind, v)' = Pending(kind, v)
    BY <1>1 DEF Pending, ChanInv, ChanTypes
  <1>4. \A v \in Users : Has(kind, v)' \subseteq Has(kind, v) /\ (remote[v] \cap Pending(kind, v))' = {}
    BY <1>1, <1>3 DEF Has, ChanInv, EndsInv
  <1> QED BY <1>1, <1>2, <1>4, EndsStay DEF ChanInv

\* Every step.
LEMMA NextChan ==
    ASSUME NEW kind, NEW overlap, NEW fail, Chan(kind, overlap, fail)!ChannelsAssumption, ChanInv(kind),
           [Chan(kind, overlap, fail)!Next]_(Chan(kind, overlap, fail)!vars)
    PROVE  ChanInv(kind)'
  <1>1. CASE UNCHANGED Chan(kind, overlap, fail)!vars
    <2>1. ChanTypes(kind)'
      BY <1>1 DEF Chan!vars, ChanInv, ChanTypes, Messages, Places
    <2>2. \A u \in Users : Has(kind, u)' \subseteq Has(kind, u) /\ (remote[u] \cap Pending(kind, u))' = {}
      BY <1>1 DEF Chan!vars, ChanInv, EndsInv, Has, Pending
    <2> QED BY <1>1, <2>1, <2>2, EndsStay DEF Chan!vars, ChanInv
  <1>2. CASE Chan(kind, overlap, fail)!Next
    BY <1>2, MakePairsChan, PassChan, ListenChan, EndChan DEF Chan!Next
  <1> QED BY <1>1, <1>2

\* No call is made.
LEMMA InitChan ==
    ASSUME NEW kind, NEW overlap, NEW fail
    PROVE  Chan(kind, overlap, fail)!ChannelsAssumption /\ Chan(kind, overlap, fail)!Init => ChanInv(kind)
  BY ChanConstants DEF Chan!Init, ChanInv, ChanTypes, EndsInv, Has, Pending, Places

\* The invariant gives the property.
LEMMA ChanSafe ==
    ASSUME NEW kind, NEW overlap, NEW fail
    PROVE  ChanInv(kind) => Chan(kind, overlap, fail)!EndsDistinct
  BY DEF ChanInv, EndsInv, Has, Chan!EndsDistinct

\* Even when calls of open_channels overlap, receive each other's messages, and are
\* abandoned half way, a right end is never given to two tasks.
THEOREM EndsAreDistinct ==
    ASSUME NEW kind, NEW overlap, NEW fail, Chan(kind, overlap, fail)!ChannelsAssumption
    PROVE  Chan(kind, overlap, fail)!Spec => []Chan(kind, overlap, fail)!EndsDistinct
  BY InitChan, NextChan, ChanSafe, PTL DEF Chan!Spec

\* One call after the other, as the code needs it: the others are idle, and the wire has
\* what the call has sent and not received.
Single == \A u, v \in Users : u # v => pc[u] = "idle" \/ pc[v] = "idle"

MatchInv(u) ==
    /\ pc[u] = "recv" => chan_wire = <<left[u]>>
    /\ pc[u] = "accept" => \E x : chan_wire = <<x>> /\ left[u] = Append(right[u], x)
    /\ pc[u] \in {"accept", "more"} =>
           right[u] \in Seq(Nat) /\ \A i \in 1..Len(right[u]) : right[u][i] \in remote[u]
    /\ pc[u] \in {"close", "more", "done"} => right[u] = left[u]
    /\ pc[u] \in {"close", "done"} => \A i \in 1..Count : right[u][i] \in remote[u]
    /\ pc[u] = "done" => \A i \in 1..Count : right[u][i] \notin access

OneCall(kind) ==
    /\ Single /\ \A u \in Users : MatchInv(u)
    /\ (\A u \in Users : pc[u] \notin {"recv", "accept"}) => chan_wire = << >>
    /\ kind = "listen" => access = {}

\* A step of u, while the others are idle.
LEMMA OneMoves ==
    ASSUME NEW kind, ChanInv(kind), OneCall(kind), NEW u \in Users, NEW s, pc' = [pc EXCEPT ![u] = s],
           \A v \in Users \ {u} : pc[v] = "idle",
           MatchInv(u)', s \notin {"recv", "accept"} => chan_wire' = << >>,
           kind = "listen" => access' = {}
    PROVE  OneCall(kind)'
  <1>1. pc'[u] = s /\ \A v \in Users \ {u} : pc'[v] = "idle"
    BY DEF ChanInv, ChanTypes
  <1>2. \A v \in Users \ {u} : MatchInv(v)'
    BY <1>1 DEF MatchInv
  <1>3. Single'
    BY <1>1 DEF Single
  <1> QED BY <1>1, <1>2, <1>3 DEF OneCall

\* The others are idle while u is not.
LEMMA OthersIdle ==
    ASSUME NEW kind, OneCall(kind), NEW u \in Users, pc[u] # "idle"
    PROVE  /\ \A v \in Users \ {u} : pc[v] = "idle"
           /\ pc[u] \notin {"recv", "accept"} => chan_wire = << >>
  BY DEF OneCall, Single

\* Sequences of one element.
LEMMA OneElement ==
    ASSUME NEW x
    PROVE  /\ Append(<< >>, x) = <<x>> /\ Tail(<<x>>) = << >> /\ Head(<<x>>) = x /\ <<x>> # << >>
           /\ <<x>>[1] = x
  OBVIOUS

\* A call begins.
LEMMA BeginOne ==
    ASSUME NEW kind, NEW overlap, NEW fail, Chan(kind, overlap, fail)!ChannelsAssumption, ~overlap, ChanInv(kind),
           OneCall(kind), NEW u \in Users, Chan(kind, overlap, fail)!MayStart(u)
    PROVE  pc[u] = "idle" /\ (\A v \in Users \ {u} : pc[v] = "idle") /\ chan_wire = << >>
  BY DEF Chan!MayStart, OneCall

\* The steps of FDPassConnection.
LEMMA PassOne ==
    ASSUME NEW kind, NEW overlap, NEW fail, Chan(kind, overlap, fail)!ChannelsAssumption, ~overlap, ChanInv(kind),
           OneCall(kind), NEW u \in Users,
           Chan(kind, overlap, fail)!MakePairs(u) \/ Chan(kind, overlap, fail)!Move(u)
             \/ Chan(kind, overlap, fail)!SendFds(u) \/ Chan(kind, overlap, fail)!RecvFds(u)
                \/ Chan(kind, overlap, fail)!CloseFds(u)
    PROVE  OneCall(kind)'
  <1>0. kind = "fdpass" /\ kind # "listen"
    BY ChanConstants DEF ChanInv, ChanTypes, Places, Chan!MakePairs, Chan!Move, Chan!SendFds, Chan!RecvFds,
       Chan!CloseFds
  <1>1. CASE Chan(kind, overlap, fail)!MakePairs(u)
    <2>1. PICK s \in {"move", "send"} : pc' = [pc EXCEPT ![u] = s] /\ UNCHANGED chan_wire
      BY <1>1 DEF Chan!MakePairs
    <2>2. \A v \in Users \ {u} : pc[v] = "idle" /\ chan_wire = << >>
      BY <1>1, BeginOne DEF Chan!MakePairs
    <2>3. chan_wire = << >>
      BY <1>1, BeginOne DEF Chan!MakePairs
    <2>4. MatchInv(u)'
      BY <2>1 DEF MatchInv, ChanInv, ChanTypes
    <2> QED BY <1>0, <2>1, <2>2, <2>3, <2>4, OneMoves
  <1>2. CASE Chan(kind, overlap, fail)!Move(u)
    <2>1. /\ pc[u] = "move" /\ pc' = [pc EXCEPT ![u] = "done"] /\ pc'[u] = "done" /\ UNCHANGED <<chan_wire, left>>
          /\ right'[u] = left[u] /\ access' = access \ {left[u][i] : i \in 1..Count}
          /\ remote'[u] = remote[u] \cup {left[u][i] : i \in 1..Count}
      BY <1>2 DEF Chan!Move, ChanInv, ChanTypes
    <2>2. (\A v \in Users \ {u} : pc[v] = "idle") /\ chan_wire = << >>
      BY <2>1, OthersIdle
    <2>3. MatchInv(u)'
      BY <2>1 DEF MatchInv
    <2> QED BY <1>0, <2>1, <2>2, <2>3, OneMoves
  <1>3. CASE Chan(kind, overlap, fail)!SendFds(u)
    <2>1. /\ pc[u] = "send" /\ pc' = [pc EXCEPT ![u] = "recv"] /\ pc'[u] = "recv" /\ UNCHANGED <<left, right>>
          /\ chan_wire' = Append(chan_wire, left[u])
      BY <1>3 DEF Chan!SendFds, ChanInv, ChanTypes
    <2>2. (\A v \in Users \ {u} : pc[v] = "idle") /\ chan_wire = << >>
      BY <2>1, OthersIdle
    <2>3. chan_wire' = <<left'[u]>>
      BY <2>1, <2>2, OneElement
    <2>4. MatchInv(u)'
      BY <2>1, <2>3 DEF MatchInv
    <2> QED BY <1>0, <2>1, <2>2, <2>4, OneMoves
  <1>4. CASE Chan(kind, overlap, fail)!RecvFds(u)
    <2>1. /\ pc[u] = "recv" /\ pc' = [pc EXCEPT ![u] = "close"] /\ pc'[u] = "close" /\ UNCHANGED left
          /\ chan_wire' = Tail(chan_wire) /\ right'[u] = Head(chan_wire)
          /\ remote'[u] = remote[u] \cup {Head(chan_wire)[i] : i \in 1..Count}
      BY <1>4 DEF Chan!RecvFds, ChanInv, ChanTypes
    <2>2. chan_wire = <<left[u]>> /\ chan_wire' = << >> /\ Head(chan_wire) = left[u]
      BY <2>1, OneElement DEF OneCall, MatchInv
    <2>3. MatchInv(u)'
      BY <2>1, <2>2 DEF MatchInv
    <2>4. \A v \in Users \ {u} : pc[v] = "idle"
      BY <2>1, OthersIdle
    <2> QED BY <1>0, <2>1, <2>2, <2>3, <2>4, OneMoves
  <1>5. CASE Chan(kind, overlap, fail)!CloseFds(u)
    <2>1. /\ pc[u] = "close" /\ pc' = [pc EXCEPT ![u] = "done"] /\ pc'[u] = "done"
             /\ UNCHANGED <<chan_wire, left, right, remote>>
          /\ access' = access \ {left[u][i] : i \in 1..Count}
      BY <1>5 DEF Chan!CloseFds, ChanInv, ChanTypes
    <2>2. (\A v \in Users \ {u} : pc[v] = "idle") /\ chan_wire = << >>
      BY <2>1, OthersIdle
    <2>3. MatchInv(u)'
      BY <2>1 DEF MatchInv, OneCall
    <2> QED BY <1>0, <2>1, <2>2, <2>3, OneMoves
  <1> QED BY <1>1, <1>2, <1>3, <1>4, <1>5

\* The steps of ListeningConnection.
LEMMA ListenOne ==
    ASSUME NEW kind, NEW overlap, NEW fail, Chan(kind, overlap, fail)!ChannelsAssumption, ~overlap, ChanInv(kind),
           OneCall(kind), NEW u \in Users,
           Chan(kind, overlap, fail)!Connect(u) \/ Chan(kind, overlap, fail)!AcceptConn(u)
    PROVE  OneCall(kind)'
  <1>0. kind = "listen" /\ access = {}
    BY ChanConstants DEF ChanInv, ChanTypes, Places, Chan!Connect, Chan!AcceptConn, OneCall
  <1>1. CASE Chan(kind, overlap, fail)!Connect(u)
    <2>1. /\ pc' = [pc EXCEPT ![u] = "accept"] /\ pc'[u] = "accept" /\ UNCHANGED <<access, remote>>
          /\ chan_wire' = Append(chan_wire, next)
      BY <1>1 DEF Chan!Connect, ChanInv, ChanTypes
    <2>2. /\ chan_wire = << >> /\ \A v \in Users \ {u} : pc[v] = "idle"
      BY <1>1, BeginOne, OthersIdle DEF Chan!Connect
    <2>3. chan_wire' = <<next>>
      BY <2>1, <2>2, OneElement
    <2>4. /\ left'[u] = Append(right'[u], next) /\ right'[u] \in Seq(Nat)
          /\ \A i \in 1..Len(right'[u]) : right'[u][i] \in remote[u]
      <3>1. CASE Chan(kind, overlap, fail)!MayStart(u) /\ left' = [left EXCEPT ![u] = <<next>>]
                 /\ right' = [right EXCEPT ![u] = << >>]
        <4>1. left'[u] = <<next>> /\ right'[u] = << >> /\ Len(<< >>) = 0
          BY <3>1 DEF ChanInv, ChanTypes
        <4> QED BY <4>1, OneElement
      <3>2. CASE pc[u] = "more" /\ left' = [left EXCEPT ![u] = Append(left[u], next)] /\ UNCHANGED right
        <4>1. left'[u] = Append(left[u], next) /\ right'[u] = left[u]
          BY <3>2 DEF ChanInv, ChanTypes, OneCall, MatchInv
        <4> QED BY <3>2, <4>1 DEF OneCall, MatchInv
      <3> QED BY <1>1, <3>1, <3>2 DEF Chan!Connect
    <2>5. MatchInv(u)'
      BY <2>1, <2>3, <2>4 DEF MatchInv
    <2> QED BY <1>0, <2>1, <2>2, <2>5, OneMoves
  <1>2. CASE Chan(kind, overlap, fail)!AcceptConn(u)
    <2>1. PICK s \in {"done", "more"} :
          /\ pc[u] = "accept" /\ pc' = [pc EXCEPT ![u] = s] /\ pc'[u] = s /\ UNCHANGED <<left, access>>
          /\ s = "done" => Len(left[u]) = Count
          /\ chan_wire' = Tail(chan_wire) /\ right'[u] = Append(right[u], Head(chan_wire))
          /\ remote'[u] = remote[u] \cup {Head(chan_wire)}
      BY <1>2 DEF Chan!AcceptConn, ChanInv, ChanTypes
    <2>2. PICK x : chan_wire = <<x>> /\ left[u] = Append(right[u], x)
      BY <2>1 DEF OneCall, MatchInv
    <2>3. chan_wire' = << >> /\ Head(chan_wire) = x
      BY <2>1, <2>2, OneElement
    <2>4. x \in Nat
      BY <1>0, <2>2 DEF ChanInv, ChanTypes, Messages
    <2>5. right[u] \in Seq(Nat) /\ \A i \in 1..Len(right[u]) : right[u][i] \in remote[u]
      BY <2>1 DEF OneCall, MatchInv
    <2>6. PICK r : r = Append(right[u], x)
      OBVIOUS
    <2>7. r \in Seq(Nat) /\ \A i \in 1..Len(r) : r[i] \in remote[u] \cup {x}
      <3>1. /\ r \in Seq(Nat) /\ Len(right[u]) \in Nat /\ Len(r) = Len(right[u]) + 1 /\ r[Len(right[u]) + 1] = x
            /\ \A i \in 1..Len(right[u]) : r[i] = right[u][i]
        BY <2>4, <2>5, <2>6, AppendLast
      <3>2. 1..Len(r) = (1..Len(right[u])) \cup {Len(right[u]) + 1}
        BY <3>1
      <3> QED BY <2>5, <3>1, <3>2
    <2>8. right'[u] = r /\ left'[u] = r /\ remote'[u] = remote[u] \cup {x}
      BY <2>1, <2>2, <2>3, <2>6
    <2>9. s = "done" => Len(r) = Count
      BY <2>1, <2>2, <2>6
    <2>10. MatchInv(u)'
      BY <1>0, <2>1, <2>7, <2>8, <2>9 DEF MatchInv
    <2>11. \A v \in Users \ {u} : pc[v] = "idle"
      BY <2>1, OthersIdle
    <2> QED BY <1>0, <2>1, <2>3, <2>10, <2>11, OneMoves
  <1> QED BY <1>1, <1>2

\* Before any call.
LEMMA InitOne ==
    ASSUME NEW kind, NEW overlap, NEW fail, Chan(kind, overlap, fail)!ChannelsAssumption, ~overlap, ~fail
    PROVE  Chan(kind, overlap, fail)!Init => OneCall(kind)
  BY DEF Chan!Init, OneCall, Single, MatchInv

\* Any step keeps the invariant of one call.
LEMMA NextOne ==
    ASSUME NEW kind, NEW overlap, NEW fail, Chan(kind, overlap, fail)!ChannelsAssumption, ~overlap, ~fail
    PROVE  ChanInv(kind) /\ OneCall(kind) /\ [Chan(kind, overlap, fail)!Next]_(Chan(kind, overlap, fail)!vars)
           => OneCall(kind)'
  <1> SUFFICES ASSUME ChanInv(kind), OneCall(kind), [Chan(kind, overlap, fail)!Next]_(Chan(kind, overlap, fail)!vars)
               PROVE OneCall(kind)'
    OBVIOUS
  <1>1. CASE UNCHANGED Chan(kind, overlap, fail)!vars
    BY <1>1 DEF Chan!vars, OneCall, Single, MatchInv
  <1>2. ASSUME NEW u \in Users, Chan(kind, overlap, fail)!Finish(u) PROVE OneCall(kind)'
    <2>1. /\ pc[u] = "done" /\ pc' = [pc EXCEPT ![u] = "idle"] /\ pc'[u] = "idle" /\ UNCHANGED <<chan_wire, access>>
      BY <1>2 DEF Chan!Finish, ChanInv, ChanTypes
    <2>2. (\A v \in Users \ {u} : pc[v] = "idle") /\ chan_wire = << >>
      BY <2>1, OthersIdle
    <2>3. MatchInv(u)'
      BY <2>1 DEF MatchInv
    <2> QED BY <2>1, <2>2, <2>3, OneMoves DEF OneCall
  <1>3. ASSUME NEW u \in Users, Chan(kind, overlap, fail)!Abandon(u) PROVE OneCall(kind)'
    BY <1>3 DEF Chan!Abandon
  <1> QED BY <1>1, <1>2, <1>3, PassOne, ListenOne DEF Chan!Next

\* The invariants give the properties.
LEMMA OneSafe ==
    ASSUME NEW kind, NEW overlap, NEW fail, Chan(kind, overlap, fail)!ChannelsAssumption, ~overlap, ~fail
    PROVE  ChanInv(kind) /\ OneCall(kind) => Chan(kind, overlap, fail)!ChannelsMatch
           /\ Chan(kind, overlap, fail)!OneHolder
  <1> SUFFICES ASSUME ChanInv(kind), OneCall(kind)
               PROVE Chan(kind, overlap, fail)!ChannelsMatch /\ Chan(kind, overlap, fail)!OneHolder
    OBVIOUS
  <1>1. Chan(kind, overlap, fail)!ChannelsMatch
    BY DEF OneCall, MatchInv, Chan!ChannelsMatch
  <1>2. ASSUME NEW u \in Users, pc[u] = "done", NEW i \in 1..Count
        PROVE  /\ right[u][i] \in remote[u] /\ right[u][i] \notin access
               /\ \A v \in Users \ {u} : right[u][i] \notin remote[v]
    <2>1. right[u][i] \in remote[u] /\ right[u][i] \notin access
      BY <1>2 DEF OneCall, MatchInv
    <2> QED BY <2>1 DEF ChanInv, EndsInv, Has
  <1> QED BY <1>1, <1>2 DEF Chan!OneHolder

\* When calls of open_channels come one after the other and none is abandoned, the two
\* ends of each pair that a call returns are ends of one channel, and the right one is
\* open in the task it is for and nowhere else.
THEOREM ChannelsEndToEnd ==
    ASSUME NEW kind, NEW overlap, NEW fail, Chan(kind, overlap, fail)!ChannelsAssumption, ~overlap, ~fail
    PROVE  Chan(kind, overlap, fail)!Spec => [](Chan(kind, overlap, fail)!ChannelsMatch
           /\ Chan(kind, overlap, fail)!OneHolder)
  BY InitChan, NextChan, InitOne, NextOne, OneSafe, PTL DEF Chan!Spec

-----------------------------------------------------------------------------
(* Bootstrap over stdin, and of stubs                                      *)

Item == [of : Procs, item : {"describe", "arg", "env"}, nr : Nat]

BootTypes ==
    /\ us \in [Calls -> {"start", "spawned", "channels", "send", "sent", "describe", "build", "thread", "failed"}]
    /\ them \in [Procs -> {"absent", "command", "recv", "write", "serve", "dead"}]
    /\ peer \in [Calls -> Procs \cup {Nobody}] /\ wrote \in [Procs -> Nat]
    /\ backlog \in Seq(Procs)
    /\ parsed \in [Calls -> Seq(Item)] /\ buf \in [Calls -> Seq(Item)] /\ wire \in [Calls -> Seq(Item)]

Distinct(s) == \A i, j \in 1..Len(s) : s[i] = s[j] => i = j

\* A process has one call, or waits for one, at one place.
PeerInv ==
    /\ \A c, d \in Calls : peer[c] = peer[d] /\ peer[c] # Nobody => c = d
    /\ \A c \in Calls : peer[c] # Nobody => them[peer[c]] # "absent"
    /\ Distinct(backlog)
    /\ \A i \in 1..Len(backlog) : them[backlog[i]] # "absent" /\ \A c \in Calls : peer[c] # backlog[i]

\* A process writes only to the call that it has, and no more than its description.
ProcInv(kind, p) ==
    /\ them[p] \in {"absent", "command", "recv"} => wrote[p] = 0
    /\ them[p] = "write" => wrote[p] < Boot(kind)!Expected
    /\ wrote[p] <= Boot(kind)!Expected
    /\ (\A c \in Calls : peer[c] # p) => wrote[p] = 0

\* What the process wrote is parsed, in the buffer, or in the socket, in that order.
CallInv(kind, c) ==
    /\ us[c] = "start" <=> peer[c] = Nobody
    /\ us[c] = "start" => parsed[c] = << >> /\ buf[c] = << >> /\ wire[c] = << >>
    /\ us[c] \in {"spawned", "channels", "send", "sent"} => parsed[c] = << >>
    /\ us[c] = "describe" => Len(parsed[c]) < Boot(kind)!Expected
    /\ us[c] \in {"build", "thread"} => Len(parsed[c]) = Boot(kind)!Expected
    /\ us[c] # "start" => Stream(parsed[c], buf[c], wire[c], Boot(kind)!Description(peer[c]), wrote[peer[c]])

BootInv(kind) ==
    BootTypes /\ PeerInv /\ (\A p \in Procs : ProcInv(kind, p)) /\ \A c \in Calls : CallInv(kind, c)

\* The strings that a process writes.
LEMMA StringsType ==
    ASSUME NEW p \in Procs, NEW n \in Nat, NEW k \in {"describe", "arg", "env"}
    PROVE  /\ [i \in 1..n |-> [of |-> p, item |-> k, nr |-> i]] \in Seq(Item)
           /\ Len([i \in 1..n |-> [of |-> p, item |-> k, nr |-> i]]) = n
  <1>1. [i \in 1..n |-> [of |-> p, item |-> k, nr |-> i]] \in [1..n -> Item]
    BY DEF Item
  <1> QED BY <1>1

\* Two sequences, one after the other.
LEMMA Joined ==
    ASSUME NEW S, NEW s \in Seq(S), NEW t \in Seq(S)
    PROVE  s \o t \in Seq(S) /\ Len(s \o t) = Len(s) + Len(t)
  OBVIOUS

\* A description is as long as what is read of it.
LEMMA DescriptionType ==
    ASSUME NEW kind, Boot(kind)!BootstrapAssumption, NEW p \in Procs
    PROVE  /\ Boot(kind)!Description(p) \in Seq(Item) /\ Len(Boot(kind)!Description(p)) = Boot(kind)!Expected
           /\ Boot(kind)!Expected \in Nat /\ Boot(kind)!Expected >= 1
  <1>1. Args \in Nat /\ Envs \in Nat
    BY DEF Boot!BootstrapAssumption
  <1>2. PICK A, B, H : /\ A = [i \in 1..Args |-> [of |-> p, item |-> "arg", nr |-> i]]
                       /\ B = [i \in 1..Envs |-> [of |-> p, item |-> "env", nr |-> i]]
                       /\ H = <<[of |-> p, item |-> "describe", nr |-> 1]>>
    OBVIOUS
  <1>3. A \in Seq(Item) /\ Len(A) = Args /\ B \in Seq(Item) /\ Len(B) = Envs
    BY <1>1, <1>2, StringsType
  <1>4. H \in Seq(Item) /\ Len(H) = 1
    <2>1. [of |-> p, item |-> "describe", nr |-> 1] \in Item
      BY DEF Item
    <2> QED BY <1>2, <2>1
  <1>5. Boot(kind)!Description(p) = H \o (IF kind = "stub" THEN A ELSE << >>) \o B
    BY <1>2 DEF Boot!Description
  <1>6. CASE kind = "stub"
    <2>1. Boot(kind)!Description(p) = H \o A \o B /\ Boot(kind)!Expected = 1 + Args + Envs
      BY <1>5, <1>6 DEF Boot!Expected
    <2>2. H \o A \in Seq(Item) /\ Len(H \o A) = 1 + Args
      BY <1>3, <1>4, Joined, Zenon
    <2>3. (H \o A) \o B \in Seq(Item) /\ Len((H \o A) \o B) = 1 + Args + Envs
      BY <1>3, <2>2, Joined, Zenon
    <2> QED BY <1>1, <2>1, <2>3
  <1>7. CASE kind # "stub"
    <2>1. Boot(kind)!Description(p) = H \o << >> \o B /\ Boot(kind)!Expected = 1 + 0 + Envs
      BY <1>5, <1>7 DEF Boot!Expected
    <2>2. H \o << >> \in Seq(Item) /\ Len(H \o << >>) = 1
      BY <1>4
    <2>3. (H \o << >>) \o B \in Seq(Item) /\ Len((H \o << >>) \o B) = 1 + Envs
      BY <1>3, <2>2, Joined, Zenon
    <2> QED BY <1>1, <2>1, <2>3
  <1> QED BY <1>6, <1>7

\* A process that was not there is put at the end of the queue.
LEMMA DistinctAppend ==
    ASSUME NEW S, NEW s \in Seq(S), NEW x \in S, Distinct(s), \A i \in 1..Len(s) : s[i] # x
    PROVE  Distinct(Append(s, x))
  <1>1. PICK t : t = Append(s, x)
    OBVIOUS
  <1>2. /\ Len(s) \in Nat /\ Len(t) = Len(s) + 1 /\ t[Len(s) + 1] = x
        /\ \A i \in 1..Len(s) : t[i] = s[i]
    BY <1>1, AppendLast
  <1>3. \A i \in 1..Len(t) : i \in 1..Len(s) \/ i = Len(s) + 1
    BY <1>2
  <1>4. Distinct(t)
    BY <1>2, <1>3 DEF Distinct
  <1> QED BY <1>1, <1>4

\* The first of the queue is gone.
LEMMA DistinctTail ==
    ASSUME NEW S, NEW s \in Seq(S), Distinct(s), s # << >>
    PROVE  Distinct(Tail(s)) /\ \A i \in 1..Len(Tail(s)) : Tail(s)[i] # Head(s)
  <1>1. PICK t : t = Tail(s)
    OBVIOUS
  <1>2. /\ Head(s) = s[1] /\ Len(t) + 1 = Len(s) /\ Len(s) \in Nat /\ Len(t) \in Nat
        /\ \A i \in 1..Len(t) : t[i] = s[i + 1]
    BY <1>1, HeadTail
  <1>3. \A i \in 1..Len(t) : i + 1 \in 1..Len(s) /\ i + 1 # 1 /\ 1 \in 1..Len(s)
    BY <1>2
  <1>4. Distinct(t)
    <2> SUFFICES ASSUME NEW i \in 1..Len(t), NEW j \in 1..Len(t), t[i] = t[j] PROVE i = j
      BY DEF Distinct
    <2>1. s[i + 1] = s[j + 1] /\ i + 1 \in 1..Len(s) /\ j + 1 \in 1..Len(s)
      BY <1>2, <1>3
    <2>2. i + 1 = j + 1
      BY <2>1 DEF Distinct
    <2> QED BY <2>2
  <1>5. \A i \in 1..Len(t) : t[i] # s[1]
    BY <1>2, <1>3 DEF Distinct
  <1> QED BY <1>1, <1>2, <1>4, <1>5

\* A step in which only one call goes on.
LEMMA UsOnly ==
    ASSUME NEW kind, BootInv(kind), NEW c \in Calls, us[c] # "start",
           NEW s \in {"spawned", "channels", "send", "sent", "describe", "build", "thread", "failed"},
           us' = [us EXCEPT ![c] = s], UNCHANGED <<peer, them, wrote, backlog, parsed, buf, wire>>,
           s \in {"spawned", "channels", "send", "sent"} => parsed[c] = << >>,
           s = "describe" => Len(parsed[c]) < Boot(kind)!Expected,
           s \in {"build", "thread"} => Len(parsed[c]) = Boot(kind)!Expected
    PROVE  BootInv(kind)'
  <1>1. BootTypes'
    BY DEF BootInv, BootTypes
  <1>2. PeerInv'
    BY DEF BootInv, PeerInv
  <1>3. ASSUME NEW p \in Procs PROVE ProcInv(kind, p)'
    BY DEF BootInv, ProcInv
  <1>4. ASSUME NEW d \in Calls PROVE CallInv(kind, d)'
    <2>1. us'[d] = IF d = c THEN s ELSE us[d]
      BY DEF BootInv, BootTypes
    <2>2. CallInv(kind, d)
      BY DEF BootInv
    <2> QED BY <2>1, <2>2 DEF CallInv
  <1> QED BY <1>1, <1>2, <1>3, <1>4 DEF BootInv

\* A step in which only one process that is there goes on.
LEMMA ThemOnly ==
    ASSUME NEW kind, BootInv(kind), NEW p \in Procs, them[p] # "absent",
           NEW s \in {"command", "recv", "write", "serve", "dead"},
           them' = [them EXCEPT ![p] = s], UNCHANGED <<us, peer, wrote, backlog, parsed, buf, wire>>,
           s \in {"command", "recv"} => wrote[p] = 0, s = "write" => wrote[p] < Boot(kind)!Expected
    PROVE  BootInv(kind)'
  <1>1. BootTypes'
    BY DEF BootInv, BootTypes
  <1>2. \A q \in Procs : them'[q] = IF q = p THEN s ELSE them[q]
    BY DEF BootInv, BootTypes
  <1>3. PeerInv'
    <2>1. peer \in [Calls -> Procs \cup {Nobody}] /\ \A i \in 1..Len(backlog) : backlog[i] \in Procs
      BY DEF BootInv, BootTypes
    <2> QED BY <1>2, <2>1 DEF BootInv, PeerInv
  <1>4. ASSUME NEW q \in Procs PROVE ProcInv(kind, q)'
    BY <1>2 DEF BootInv, ProcInv
  <1>5. ASSUME NEW d \in Calls PROVE CallInv(kind, d)'
    BY DEF BootInv, CallInv
  <1> QED BY <1>1, <1>3, <1>4, <1>5 DEF BootInv

\* A call gets its process: one that nobody has, and that has written nothing.
LEMMA GetsPeer ==
    ASSUME NEW kind, BootInv(kind), Boot(kind)!BootstrapAssumption, NEW c \in Calls, us[c] = "start", NEW p \in Procs,
           \A d \in Calls : peer[d] # p, them'[p] # "absent", ProcInv(kind, p)',
           NEW s \in {"spawned", "channels"}, us' = [us EXCEPT ![c] = s],
           peer' = [peer EXCEPT ![c] = p],
           them' \in [Procs -> {"absent", "command", "recv", "write", "serve", "dead"}],
           \A q \in Procs \ {p} : them'[q] = them[q], UNCHANGED <<wrote, parsed, buf, wire>>,
           backlog' \in Seq(Procs), Distinct(backlog'),
           \A i \in 1..Len(backlog') : /\ backlog'[i] # p
                                       /\ \E j \in 1..Len(backlog) : backlog'[i] = backlog[j]
    PROVE  BootInv(kind)'
  <1>1. BootTypes'
    BY DEF BootInv, BootTypes
  <1>2. \A d \in Calls : peer'[d] = (IF d = c THEN p ELSE peer[d]) /\ us'[d] = IF d = c THEN s ELSE us[d]
    BY DEF BootInv, BootTypes
  <1>3. PeerInv'
    <2>1. peer \in [Calls -> Procs \cup {Nobody}] /\ \A i \in 1..Len(backlog) : backlog[i] \in Procs
      BY DEF BootInv, BootTypes
    <2>2. \A d, e \in Calls : peer'[d] = peer'[e] /\ peer'[d] # Nobody => d = e
      BY <1>2 DEF BootInv, PeerInv
    <2>3. \A d \in Calls : peer'[d] # Nobody => them'[peer'[d]] # "absent"
      BY <1>2, <2>1 DEF BootInv, PeerInv
    <2>4. ASSUME NEW i \in 1..Len(backlog')
          PROVE  them'[backlog'[i]] # "absent" /\ \A d \in Calls : peer'[d] # backlog'[i]
      <3>1. PICK j \in 1..Len(backlog) : backlog'[i] = backlog[j]
        OBVIOUS
      <3>2. them[backlog[j]] # "absent" /\ \A d \in Calls : peer[d] # backlog[j]
        BY DEF BootInv, PeerInv
      <3> QED BY <1>2, <2>1, <3>1, <3>2
    <2> QED BY <2>2, <2>3, <2>4 DEF PeerInv
  <1>4. ASSUME NEW q \in Procs, q # p PROVE ProcInv(kind, q)'
    <2>1. ProcInv(kind, q) /\ them'[q] = them[q] /\ wrote' = wrote
      BY <1>4 DEF BootInv
    <2>2. (\A d \in Calls : peer'[d] # q) => \A d \in Calls : peer[d] # q
      <3>1. CallInv(kind, c) /\ Nobody \notin Procs
        BY DEF BootInv, Boot!BootstrapAssumption
      <3>2. peer[c] # q
        BY <3>1 DEF CallInv
      <3> QED BY <1>2, <3>2
    <2> QED BY <2>1, <2>2 DEF ProcInv
  <1>5. ASSUME NEW d \in Calls PROVE CallInv(kind, d)'
    <2>1. CASE d # c
      BY <1>2, <2>1 DEF BootInv, CallInv
    <2>2. CASE d = c
      <3>1. parsed'[c] = << >> /\ buf'[c] = << >> /\ wire'[c] = << >>
        BY DEF BootInv, CallInv
      <3>2. wrote'[p] = 0
        BY DEF BootInv, ProcInv
      <3>3. Stream(parsed'[c], buf'[c], wire'[c], Boot(kind)!Description(p), wrote'[p])
        BY <3>1, <3>2 DEF Stream
      <3>4. us'[c] = s /\ peer'[c] = p /\ p # Nobody
        BY <1>2 DEF Boot!BootstrapAssumption
      <3> QED BY <2>2, <3>1, <3>3, <3>4 DEF CallInv
    <2> QED BY <2>1, <2>2
  <1> QED BY <1>1, <1>3, <1>4, <1>5 DEF BootInv

\* A call gets its process: by a clone, or by accept.
LEMMA PeerStep ==
    ASSUME NEW kind, BootInv(kind), Boot(kind)!BootstrapAssumption, NEW c \in Calls,
           (\E p \in Procs : Boot(kind)!Spawn(c, p)) \/ Boot(kind)!Accept(c)
    PROVE  BootInv(kind)'
  <1>1. ASSUME NEW p \in Procs, Boot(kind)!Spawn(c, p) PROVE BootInv(kind)'
    <2>1. /\ us[c] = "start" /\ them[p] = "absent" /\ us' = [us EXCEPT ![c] = "spawned"]
          /\ peer' = [peer EXCEPT ![c] = p] /\ them' = [them EXCEPT ![p] = "command"]
          /\ UNCHANGED <<backlog, wrote, wire, buf, parsed>>
      BY <1>1 DEF Boot!Spawn
    <2>2. /\ them' \in [Procs -> {"absent", "command", "recv", "write", "serve", "dead"}]
          /\ them'[p] = "command" /\ \A q \in Procs \ {p} : them'[q] = them[q]
          /\ backlog' \in Seq(Procs)
      BY <2>1 DEF BootInv, BootTypes
    <2>3. (\A d \in Calls : peer[d] # p) /\ Distinct(backlog')
      BY <2>1 DEF BootInv, PeerInv, Boot!BootstrapAssumption
    <2>4. \A i \in 1..Len(backlog') : backlog'[i] # p /\ \E j \in 1..Len(backlog) : backlog'[i] = backlog[j]
      BY <2>1 DEF BootInv, PeerInv
    <2>5. ProcInv(kind, p)'
      <3>1. ProcInv(kind, p)
        BY DEF BootInv
      <3> QED BY <2>1, <2>2, <3>1 DEF ProcInv
    <2> QED BY <2>1, <2>2, <2>3, <2>4, <2>5, GetsPeer
  <1>2. CASE Boot(kind)!Accept(c)
    <2>1. /\ us[c] = "start" /\ backlog # << >> /\ us' = [us EXCEPT ![c] = "channels"]
          /\ peer' = [peer EXCEPT ![c] = Head(backlog)] /\ backlog' = Tail(backlog)
          /\ UNCHANGED <<them, wrote, wire, buf, parsed>>
      BY <1>2 DEF Boot!Accept
    <2>2. backlog \in Seq(Procs) /\ Distinct(backlog)
      BY DEF BootInv, BootTypes, PeerInv
    <2>3. PICK p \in Procs : p = Head(backlog) /\ p = backlog[1] /\ 1 \in 1..Len(backlog)
      BY <2>1, <2>2, HeadTail
    <2>4. /\ backlog' \in Seq(Procs) /\ Len(backlog') + 1 = Len(backlog) /\ Len(backlog') \in Nat
          /\ \A i \in 1..Len(backlog') : backlog'[i] = backlog[i + 1]
      BY <2>1, <2>2, HeadTail
    <2>5. Distinct(backlog') /\ \A i \in 1..Len(backlog') : backlog'[i] # p
      BY <2>1, <2>2, <2>3, DistinctTail
    <2>6. \A i \in 1..Len(backlog') : i + 1 \in 1..Len(backlog)
      BY <2>4
    <2>7. them[p] # "absent" /\ \A d \in Calls : peer[d] # p
      BY <2>3 DEF BootInv, PeerInv
    <2>8. ProcInv(kind, p)'
      <3>1. ProcInv(kind, p)
        BY DEF BootInv
      <3> QED BY <2>1, <2>7, <3>1 DEF ProcInv
    <2>9. them' \in [Procs -> {"absent", "command", "recv", "write", "serve", "dead"}]
      BY <2>1 DEF BootInv, BootTypes
    <2>10. \A i \in 1..Len(backlog') : backlog'[i] # p /\ \E j \in 1..Len(backlog) : backlog'[i] = backlog[j]
      BY <2>4, <2>5, <2>6
    <2>11. peer' = [peer EXCEPT ![c] = p] /\ \A q \in Procs \ {p} : them'[q] = them[q]
      BY <2>1, <2>3
    <2> QED BY <2>1, <2>4, <2>5, <2>7, <2>8, <2>9, <2>10, <2>11, GetsPeer
  <1> QED BY <1>1, <1>2

\* A step that moves or adds to what one call's process wrote.
LEMMA DataStep ==
    ASSUME NEW kind, BootInv(kind), NEW c \in Calls, us[c] # "start", UNCHANGED <<peer, backlog>>,
           us' \in [Calls -> {"start", "spawned", "channels", "send", "sent", "describe", "build", "thread", "failed"}],
           them' \in [Procs -> {"absent", "command", "recv", "write", "serve", "dead"}],
           \A p \in Procs : them'[p] = "absent" <=> them[p] = "absent",
           wrote' \in [Procs -> Nat], \A p \in Procs : ProcInv(kind, p)',
           parsed' \in [Calls -> Seq(Item)], buf' \in [Calls -> Seq(Item)], wire' \in [Calls -> Seq(Item)],
           \A d \in Calls \ {c} : /\ us'[d] = us[d] /\ parsed'[d] = parsed[d] /\ buf'[d] = buf[d]
                                  /\ wire'[d] = wire[d],
           \A p \in Procs : p # peer[c] => wrote'[p] = wrote[p], CallInv(kind, c)'
    PROVE  BootInv(kind)'
  <1>1. BootTypes'
    BY DEF BootInv, BootTypes
  <1>2. peer \in [Calls -> Procs \cup {Nobody}] /\ \A i \in 1..Len(backlog) : backlog[i] \in Procs
    <2>1. peer \in [Calls -> Procs \cup {Nobody}] /\ backlog \in Seq(Procs)
      BY DEF BootInv, BootTypes
    <2>2. \A i \in 1..Len(backlog) : backlog[i] \in Procs
      BY ONLY <2>1
    <2> QED BY <2>1, <2>2
  <1>3. PeerInv'
    <2>1. PeerInv /\ peer' = peer /\ backlog' = backlog
      BY DEF BootInv
    <2>2. ASSUME NEW d \in Calls, peer[d] # Nobody PROVE them'[peer[d]] # "absent"
      <3>1. peer[d] \in Procs
        BY <1>2, <2>2
      <3>2. them[peer[d]] # "absent"
        BY <2>1, <2>2 DEF PeerInv
      <3> QED BY <3>1, <3>2
    <2>3. \A i \in 1..Len(backlog) : them'[backlog[i]] # "absent"
      BY <1>2, <2>1 DEF PeerInv
    <2> QED BY <2>1, <2>2, <2>3 DEF PeerInv
  <1>4. ASSUME NEW d \in Calls \ {c} PROVE CallInv(kind, d)'
    <2>1. CallInv(kind, d) /\ CallInv(kind, c)
      BY DEF BootInv
    <2>2. peer[c] # Nobody
      BY <2>1 DEF CallInv
    <2>3. peer[d] # Nobody => peer[d] # peer[c]
      BY <2>2 DEF BootInv, PeerInv
    <2>4. us[d] # "start" => wrote'[peer[d]] = wrote[peer[d]]
      BY <1>2, <2>1, <2>3 DEF CallInv
    <2> QED BY <2>1, <2>4 DEF CallInv
  <1> QED BY <1>1, <1>3, <1>4 DEF BootInv

\* A read of the data socket.
LEMMA ReadStep ==
    ASSUME NEW kind, BootInv(kind), NEW c \in Calls, NEW n \in Nat, Boot(kind)!ReadData(c, n)
    PROVE  BootInv(kind)'
  <1>1. us[c] = "describe" /\ buf[c] = << >> /\ UNCHANGED <<peer, backlog, them, wrote, parsed>>
    BY DEF Boot!ReadData
  <1>2. CASE us' = [us EXCEPT ![c] = "failed"] /\ UNCHANGED <<buf, wire>>
    BY <1>1, <1>2, UsOnly
  <1>3. CASE /\ n \in 1..Len(wire[c]) /\ us' = us
             /\ buf' = [buf EXCEPT ![c] = SubSeq(wire[c], 1, n)]
             /\ wire' = [wire EXCEPT ![c] = SubSeq(@, n + 1, Len(@))]
    <2>1. /\ parsed \in [Calls -> Seq(Item)] /\ buf \in [Calls -> Seq(Item)] /\ wire \in [Calls -> Seq(Item)]
          /\ us \in [Calls -> {"start", "spawned", "channels", "send", "sent", "describe", "build", "thread", "failed"}]
          /\ them \in [Procs -> {"absent", "command", "recv", "write", "serve", "dead"}] /\ wrote \in [Procs -> Nat]
      BY DEF BootInv, BootTypes
    <2>2. PICK D, k, A, C : /\ D = Boot(kind)!Description(peer[c]) /\ k = wrote[peer[c]] /\ A = parsed[c] /\ C = wire[c]
                            /\ A \in Seq(Item) /\ C \in Seq(Item)
      BY <2>1
    <2>3. CallInv(kind, c)
      BY DEF BootInv
    <2>4. Stream(A, << >>, C, D, k)
      BY <1>1, <2>2, <2>3 DEF CallInv
    <2>5. /\ SubSeq(C, 1, n) \in Seq(Item) /\ SubSeq(C, n + 1, Len(C)) \in Seq(Item)
          /\ Stream(A, SubSeq(C, 1, n), SubSeq(C, n + 1, Len(C)), D, k)
      BY <1>3, <2>2, <2>4, StreamRead
    <2>6. /\ buf' = [buf EXCEPT ![c] = SubSeq(C, 1, n)] /\ wire' = [wire EXCEPT ![c] = SubSeq(C, n + 1, Len(C))]
      BY <1>3, <2>2
    <2>7. /\ buf' \in [Calls -> Seq(Item)] /\ wire' \in [Calls -> Seq(Item)]
          /\ buf'[c] = SubSeq(C, 1, n) /\ wire'[c] = SubSeq(C, n + 1, Len(C))
          /\ \A d \in Calls \ {c} : buf'[d] = buf[d] /\ wire'[d] = wire[d]
      BY <2>1, <2>5, <2>6
    <2>8. Stream(parsed'[c], buf'[c], wire'[c], Boot(kind)!Description(peer[c]), wrote'[peer[c]])
      BY <1>1, <2>2, <2>5, <2>7
    <2>9. CallInv(kind, c)'
      BY <1>1, <1>3, <2>3, <2>8 DEF CallInv
    <2>10. ASSUME NEW p \in Procs PROVE ProcInv(kind, p)'
      BY <1>1 DEF BootInv, ProcInv
    <2> QED BY <1>1, <1>3, <2>1, <2>7, <2>9, <2>10, DataStep
  <1> QED BY <1>2, <1>3 DEF Boot!ReadData

\* One thing is parsed.
LEMMA ParseStep ==
    ASSUME NEW kind, BootInv(kind), Boot(kind)!BootstrapAssumption, NEW c \in Calls, Boot(kind)!Parse(c)
    PROVE  BootInv(kind)'
  <1>1. /\ us[c] = "describe" /\ buf[c] # << >> /\ UNCHANGED <<peer, backlog, them, wrote, wire>>
        /\ parsed' = [parsed EXCEPT ![c] = Append(@, Head(buf[c]))] /\ buf' = [buf EXCEPT ![c] = Tail(@)]
        /\ us' = [us EXCEPT ![c] = IF Len(parsed'[c]) = Boot(kind)!Expected THEN "build" ELSE @]
    BY DEF Boot!Parse
  <1>2. /\ parsed \in [Calls -> Seq(Item)] /\ buf \in [Calls -> Seq(Item)] /\ wire \in [Calls -> Seq(Item)]
        /\ us \in [Calls -> {"start", "spawned", "channels", "send", "sent", "describe", "build", "thread", "failed"}]
        /\ them \in [Procs -> {"absent", "command", "recv", "write", "serve", "dead"}] /\ wrote \in [Procs -> Nat]
    BY DEF BootInv, BootTypes
  <1>3. PICK D, k, A, B, C : /\ D = Boot(kind)!Description(peer[c]) /\ k = wrote[peer[c]]
                             /\ A = parsed[c] /\ B = buf[c] /\ C = wire[c]
                             /\ A \in Seq(Item) /\ B \in Seq(Item) /\ C \in Seq(Item)
    BY <1>2
  <1>4. CallInv(kind, c)
    BY DEF BootInv
  <1>5. Stream(A, B, C, D, k) /\ B # << >> /\ Len(A) < Boot(kind)!Expected
    BY <1>1, <1>3, <1>4 DEF CallInv
  <1>6. PICK X, Y : /\ X = Append(A, Head(B)) /\ Y = Tail(B) /\ X \in Seq(Item) /\ Y \in Seq(Item)
                    /\ Len(X) = Len(A) + 1 /\ Stream(X, Y, C, D, k)
    BY <1>3, <1>5, StreamArrives
  <1>7. parsed' = [parsed EXCEPT ![c] = X] /\ buf' = [buf EXCEPT ![c] = Y]
    BY <1>1, <1>3, <1>6
  <1>8. /\ parsed' \in [Calls -> Seq(Item)] /\ buf' \in [Calls -> Seq(Item)]
        /\ parsed'[c] = X /\ buf'[c] = Y
        /\ \A d \in Calls \ {c} : parsed'[d] = parsed[d] /\ buf'[d] = buf[d]
    BY <1>2, <1>6, <1>7
  <1>9. us' = [us EXCEPT ![c] = IF Len(X) = Boot(kind)!Expected THEN "build" ELSE "describe"]
    BY <1>1, <1>8
  <1>10. /\ us' \in [Calls -> {"start", "spawned", "channels", "send", "sent", "describe", "build", "thread", "failed"}]
         /\ us'[c] = (IF Len(X) = Boot(kind)!Expected THEN "build" ELSE "describe")
         /\ \A d \in Calls \ {c} : us'[d] = us[d]
    BY <1>2, <1>9
  <1>11. Len(X) # Boot(kind)!Expected => Len(X) < Boot(kind)!Expected
    <2>1. Len(A) \in Nat /\ Boot(kind)!Expected \in Nat
      BY <1>3 DEF Boot!Expected, Boot!BootstrapAssumption
    <2> QED BY <1>5, <1>6, <2>1
  <1>12. Stream(parsed'[c], buf'[c], wire'[c], Boot(kind)!Description(peer[c]), wrote'[peer[c]])
    BY <1>1, <1>3, <1>6, <1>8
  <1>13. CallInv(kind, c)'
    BY <1>1, <1>4, <1>8, <1>10, <1>11, <1>12 DEF CallInv
  <1>14. ASSUME NEW p \in Procs PROVE ProcInv(kind, p)'
    BY <1>1 DEF BootInv, ProcInv
  <1> QED BY <1>1, <1>2, <1>8, <1>10, <1>13, <1>14, DataStep

\* The process writes the next thing.
LEMMA WriteStep ==
    ASSUME NEW kind, BootInv(kind), Boot(kind)!BootstrapAssumption, NEW p \in Procs, Boot(kind)!Write(p)
    PROVE  BootInv(kind)'
  <1>1. them[p] = "write" /\ UNCHANGED <<us, peer, backlog, buf, parsed>>
    BY DEF Boot!Write
  <1>2. PICK c \in Calls : /\ peer[c] = p
                           /\ wire' = [wire EXCEPT ![c] = Append(@, Boot(kind)!Description(p)[wrote[p] + 1])]
                           /\ wrote' = [wrote EXCEPT ![p] = @ + 1]
                           /\ them' = [them EXCEPT ![p] = IF wrote'[p] = Len(Boot(kind)!Description(p))
                                                          THEN "serve" ELSE @]
    BY DEF Boot!Write, Boot!CallOf
  <1>3. /\ parsed \in [Calls -> Seq(Item)] /\ buf \in [Calls -> Seq(Item)] /\ wire \in [Calls -> Seq(Item)]
        /\ us \in [Calls -> {"start", "spawned", "channels", "send", "sent", "describe", "build", "thread", "failed"}]
        /\ them \in [Procs -> {"absent", "command", "recv", "write", "serve", "dead"}] /\ wrote \in [Procs -> Nat]
    BY DEF BootInv, BootTypes
  <1>4. CallInv(kind, c) /\ ProcInv(kind, p) /\ us[c] # "start"
    BY <1>2 DEF BootInv, CallInv, Boot!BootstrapAssumption
  <1>5. PICK D, k, A, B, C : /\ D = Boot(kind)!Description(p) /\ k = wrote[p]
                             /\ A = parsed[c] /\ B = buf[c] /\ C = wire[c]
                             /\ A \in Seq(Item) /\ B \in Seq(Item) /\ C \in Seq(Item)
    BY <1>3
  <1>6. D \in Seq(Item) /\ Len(D) = Boot(kind)!Expected /\ Boot(kind)!Expected \in Nat
    BY <1>5, DescriptionType
  <1>7. k \in Nat /\ k < Boot(kind)!Expected /\ k + 1 <= Boot(kind)!Expected /\ k + 1 \in Nat
    BY <1>1, <1>3, <1>4, <1>5, <1>6 DEF ProcInv
  <1>8. D[k + 1] \in Item
    BY <1>6, <1>7
  <1>9. Stream(A, B, C, D, k)
    BY <1>2, <1>4, <1>5 DEF CallInv
  <1>10. PICK Y : Y = Append(C, D[k + 1]) /\ Y \in Seq(Item) /\ Stream(A, B, Y, D, k + 1)
    BY <1>5, <1>8, <1>9, StreamSent
  <1>11. wire' = [wire EXCEPT ![c] = Y] /\ wrote' = [wrote EXCEPT ![p] = k + 1]
    BY <1>2, <1>5, <1>10
  <1>12. /\ wire' \in [Calls -> Seq(Item)] /\ wire'[c] = Y /\ \A d \in Calls \ {c} : wire'[d] = wire[d]
         /\ wrote' \in [Procs -> Nat] /\ wrote'[p] = k + 1 /\ \A q \in Procs : q # p => wrote'[q] = wrote[q]
    BY <1>3, <1>7, <1>10, <1>11
  <1>13. them' = [them EXCEPT ![p] = IF k + 1 = Boot(kind)!Expected THEN "serve" ELSE "write"]
    BY <1>1, <1>2, <1>5, <1>6, <1>12
  <1>14. /\ them' \in [Procs -> {"absent", "command", "recv", "write", "serve", "dead"}]
         /\ them'[p] = (IF k + 1 = Boot(kind)!Expected THEN "serve" ELSE "write")
         /\ \A q \in Procs : q # p => them'[q] = them[q]
    BY <1>3, <1>13
  <1>15. ASSUME NEW q \in Procs PROVE ProcInv(kind, q)'
    <2>1. CASE q = p
      <3>1. k + 1 # Boot(kind)!Expected => k + 1 < Boot(kind)!Expected
        BY <1>6, <1>7
      <3>2. ~ \A d \in Calls : peer'[d] # p
        BY <1>1, <1>2
      <3> QED BY <1>7, <1>12, <1>14, <2>1, <3>1, <3>2 DEF ProcInv
    <2>2. CASE q # p
      BY <1>1, <1>12, <1>14, <2>2 DEF BootInv, ProcInv
    <2> QED BY <2>1, <2>2
  <1>16. Stream(parsed'[c], buf'[c], wire'[c], Boot(kind)!Description(peer[c]), wrote'[peer[c]])
    BY <1>1, <1>2, <1>5, <1>10, <1>12
  <1>17. CallInv(kind, c)'
    BY <1>1, <1>4, <1>16 DEF CallInv
  <1>18. \A q \in Procs : them'[q] = "absent" <=> them[q] = "absent"
    BY <1>1, <1>14
  <1> QED BY <1>1, <1>2, <1>3, <1>4, <1>12, <1>14, <1>15, <1>17, <1>18, DataStep

\* The other steps of a call: the sockets, and the Thread.
LEMMA OurStepBoot ==
    ASSUME NEW kind, BootInv(kind), Boot(kind)!BootstrapAssumption, NEW c \in Calls, Boot(kind)!OurStep(c)
    PROVE  BootInv(kind)'
  <1> Boot(kind)!Expected \in Nat /\ Boot(kind)!Expected >= 1
    BY DEF Boot!Expected, Boot!BootstrapAssumption
  <1>1. CallInv(kind, c)
    BY DEF BootInv
  <1>2. CASE Boot(kind)!CloseTheirEnd(c)
    BY <1>1, <1>2, UsOnly DEF Boot!CloseTheirEnd, CallInv
  <1>3. CASE Boot(kind)!Channels(c)
    BY <1>1, <1>3, UsOnly DEF Boot!Channels, CallInv
  <1>4. CASE Boot(kind)!Send(c)
    BY <1>1, <1>4, UsOnly DEF Boot!Send, CallInv
  <1>5. CASE Boot(kind)!ClosePassed(c)
    <2>1. parsed[c] = << >>
      BY <1>1, <1>5 DEF Boot!ClosePassed, CallInv
    <2>2. Len(parsed[c]) < Boot(kind)!Expected
      BY <2>1
    <2> QED BY <1>5, <2>2, UsOnly DEF Boot!ClosePassed
  <1>6. CASE Boot(kind)!BuildThread(c)
    BY <1>1, <1>6, UsOnly DEF Boot!BuildThread, CallInv
  <1>7. ASSUME NEW n \in 0..Len(wire[c]), Boot(kind)!ReadData(c, n) PROVE BootInv(kind)'
    <2>1. n \in Nat
      OBVIOUS
    <2> QED BY <1>7, <2>1, ReadStep
  <1> QED BY <1>2, <1>3, <1>4, <1>5, <1>6, <1>7, PeerStep, ParseStep DEF Boot!OurStep

\* The steps of a process.
LEMMA TheirStepBoot ==
    ASSUME NEW kind, BootInv(kind), Boot(kind)!BootstrapAssumption, NEW p \in Procs, Boot(kind)!TheirStep(p)
           \/ Boot(kind)!Die(p)
    PROVE  BootInv(kind)'
  <1>1. ProcInv(kind, p) /\ wrote \in [Procs -> Nat] /\ Boot(kind)!Expected \in Nat /\ Boot(kind)!Expected >= 1
    BY DEF BootInv, BootTypes, Boot!Expected, Boot!BootstrapAssumption
  <1>2. CASE Boot(kind)!ReceiveFds(p)
    <2>1. wrote[p] < Boot(kind)!Expected
      BY <1>1, <1>2 DEF Boot!ReceiveFds, ProcInv
    <2> QED BY <1>2, <2>1, ThemOnly DEF Boot!ReceiveFds
  <1>3. CASE Boot(kind)!Die(p)
    BY <1>3, ThemOnly DEF Boot!Die
  <1>4. CASE them[p] = "command" /\ Boot(kind)!Exec(p)
    <2>1. wrote[p] = 0
      BY <1>1, <1>4 DEF ProcInv
    <2> QED BY <1>4, <2>1, ThemOnly DEF Boot!Exec
  <1>5. CASE them[p] = "absent" /\ Boot(kind)!Exec(p)
    <2>1. /\ them' = [them EXCEPT ![p] = "recv"] /\ backlog' = Append(backlog, p)
          /\ UNCHANGED <<us, peer, wrote, wire, buf, parsed>>
      BY <1>5 DEF Boot!Exec
    <2>2. /\ backlog \in Seq(Procs) /\ Distinct(backlog) /\ \A i \in 1..Len(backlog) : backlog[i] # p
          /\ \A d \in Calls : peer[d] # p
      BY <1>5 DEF BootInv, BootTypes, PeerInv, Boot!BootstrapAssumption
    <2>3. PICK b : b = Append(backlog, p) /\ b \in Seq(Procs) /\ Distinct(b)
      BY <2>2, AppendLast, DistinctAppend
    <2>4. /\ Len(backlog) \in Nat /\ Len(b) = Len(backlog) + 1 /\ b[Len(backlog) + 1] = p
          /\ \A i \in 1..Len(backlog) : b[i] = backlog[i]
      BY <2>2, <2>3, AppendLast
    <2>5. \A i \in 1..Len(b) : i \in 1..Len(backlog) \/ i = Len(backlog) + 1
      BY <2>4
    <2>6. BootTypes'
      BY <2>1, <2>3 DEF BootInv, BootTypes
    <2>7. \A q \in Procs : them'[q] = IF q = p THEN "recv" ELSE them[q]
      BY <2>1 DEF BootInv, BootTypes
    <2>8. PeerInv'
      <3>1. PeerInv /\ peer \in [Calls -> Procs \cup {Nobody}]
        BY DEF BootInv, BootTypes
      <3>2. \A d \in Calls : peer[d] # Nobody => them'[peer[d]] # "absent"
        BY <2>7, <3>1 DEF PeerInv
      <3>3. \A i \in 1..Len(backlog) : backlog[i] \in Procs
        BY <2>2
      <3>4. \A i \in 1..Len(b) : them'[b[i]] # "absent" /\ \A d \in Calls : peer[d] # b[i]
        BY <2>2, <2>4, <2>5, <2>7, <3>1, <3>3 DEF PeerInv
      <3>5. b = backlog' /\ peer' = peer
        BY <2>1, <2>3
      <3> QED BY <2>3, <3>1, <3>2, <3>4, <3>5 DEF PeerInv
    <2>9. ASSUME NEW q \in Procs PROVE ProcInv(kind, q)'
      BY <1>5, <2>1, <2>7 DEF BootInv, ProcInv
    <2>10. ASSUME NEW d \in Calls PROVE CallInv(kind, d)'
      BY <2>1 DEF BootInv, CallInv
    <2> QED BY <2>6, <2>8, <2>9, <2>10 DEF BootInv
  <1>6. Boot(kind)!Exec(p) => them[p] \in {"command", "absent"}
    BY DEF Boot!Exec
  <1> QED BY <1>2, <1>3, <1>4, <1>5, <1>6, WriteStep DEF Boot!TheirStep

\* All that a process wrote is parsed, when as much is parsed as there is.
LEMMA AllParsed ==
    ASSUME NEW S, NEW A \in Seq(S), NEW B \in Seq(S), NEW C \in Seq(S), NEW D \in Seq(S),
           NEW n \in Nat, n <= Len(D), Len(A) = Len(D), Stream(A, B, C, D, n)
    PROVE  A = D /\ B = << >> /\ C = << >>
  <1>1. Len(A) \in Nat /\ Len(B) \in Nat /\ Len(C) \in Nat /\ Len(D) \in Nat
    OBVIOUS
  <1>2. n = Len(A) + Len(B) + Len(C) /\ \A i \in 1..Len(A) : A[i] = D[i]
    BY DEF Stream
  <1>3. Len(B) = 0 /\ Len(C) = 0
    BY <1>1, <1>2
  <1>4. A = D
    BY <1>2
  <1> QED BY <1>3, <1>4

\* Before anybody connects.
LEMMA InitBoot ==
    ASSUME NEW kind, Boot(kind)!BootstrapAssumption
    PROVE  Boot(kind)!Init => BootInv(kind)
  <1> SUFFICES ASSUME Boot(kind)!Init PROVE BootInv(kind)
    OBVIOUS
  <1>0. Boot(kind)!Expected \in Nat /\ << >> \in Seq(Item) /\ << >> \in Seq(Procs) /\ Len(<< >>) = 0
    BY DEF Boot!Expected, Boot!BootstrapAssumption
  <1>1. BootTypes
    BY <1>0 DEF Boot!Init, BootTypes
  <1>2. PeerInv
    BY <1>0 DEF Boot!Init, PeerInv, Distinct
  <1>3. ASSUME NEW p \in Procs PROVE ProcInv(kind, p)
    BY <1>0 DEF Boot!Init, ProcInv
  <1>4. ASSUME NEW c \in Calls PROVE CallInv(kind, c)
    BY DEF Boot!Init, CallInv
  <1> QED BY <1>1, <1>2, <1>3, <1>4 DEF BootInv

\* Any step keeps the invariant.
LEMMA NextBoot ==
    ASSUME NEW kind, Boot(kind)!BootstrapAssumption
    PROVE  BootInv(kind) /\ [Boot(kind)!Next]_(Boot(kind)!vars) => BootInv(kind)'
  <1> SUFFICES ASSUME BootInv(kind), [Boot(kind)!Next]_(Boot(kind)!vars) PROVE BootInv(kind)'
    OBVIOUS
  <1>1. CASE UNCHANGED Boot(kind)!vars
    BY <1>1 DEF Boot!vars, BootInv, BootTypes, PeerInv, ProcInv, CallInv
  <1> QED BY <1>1, OurStepBoot, TheirStepBoot DEF Boot!Next

\* The invariant gives the properties.
LEMMA BootSafe ==
    ASSUME NEW kind, Boot(kind)!BootstrapAssumption
    PROVE  BootInv(kind) => Boot(kind)!ThreadIsOfProcess /\ Boot(kind)!DataSocketIsClean
  <1> SUFFICES ASSUME BootInv(kind), NEW c \in Calls, us[c] \in {"build", "thread"}
               PROVE  parsed[c] = Boot(kind)!Description(peer[c]) /\ buf[c] = << >> /\ wire[c] = << >>
    BY DEF Boot!ThreadIsOfProcess, Boot!DataSocketIsClean
  <1>1. CallInv(kind, c) /\ peer[c] \in Procs \cup {Nobody}
    BY DEF BootInv, BootTypes
  <1>2. PICK p \in Procs : p = peer[c]
    BY <1>1 DEF CallInv
  <1>3. ProcInv(kind, p) /\ wrote[p] \in Nat
    BY DEF BootInv, BootTypes
  <1>4. /\ parsed[c] \in Seq(Item) /\ buf[c] \in Seq(Item) /\ wire[c] \in Seq(Item)
    BY DEF BootInv, BootTypes
  <1>5. /\ Boot(kind)!Description(p) \in Seq(Item) /\ Len(Boot(kind)!Description(p)) = Boot(kind)!Expected
    BY DescriptionType
  <1>6. /\ wrote[p] <= Len(Boot(kind)!Description(p)) /\ Len(parsed[c]) = Len(Boot(kind)!Description(p))
        /\ Stream(parsed[c], buf[c], wire[c], Boot(kind)!Description(p), wrote[p])
    BY <1>1, <1>2, <1>3, <1>5 DEF CallInv, ProcInv
  <1> QED BY <1>2, <1>3, <1>4, <1>5, <1>6, AllParsed

\* The thread that a bootstrap returns is of the process that serves its system calls:
\* arguments and environment are what that process wrote, all of it and in order, and
\* nothing of it is left in the buffer or in the data socket.  For any number of processes
\* and calls, over stdin and for stubs, whoever dies meanwhile.
THEOREM ThreadOfItsProcess ==
    ASSUME NEW kind, Boot(kind)!BootstrapAssumption
    PROVE  Boot(kind)!Spec => [](Boot(kind)!ThreadIsOfProcess /\ Boot(kind)!DataSocketIsClean)
  BY InitBoot, NextBoot, BootSafe, PTL DEF Boot!Spec

-----------------------------------------------------------------------------
(* The specification in which any of them runs *)

BootsInv == \A kind \in {"stdin", "stub"} : running = kind => BootInv(kind)

(***************************************************************************)
(* Whichever component runs, and for any number of calls, processes,       *)
(* arguments and variables: a bootstrapped thread is of the process that   *)
(* serves its system calls, and nothing of the description is left in its  *)
(* data socket.                                                            *)
(***************************************************************************)
THEOREM BootstrappedThreads == Spec => []ThreadIsOfProcess
  <1>1. Init => BootsInv
    <2> SUFFICES ASSUME Init, NEW kind \in {"stdin", "stub"} PROVE BootInv(kind)
      BY DEF BootsInv
    <2>1. Boot(kind)!Init
      BY DEF Init, Boot!Init, Boot!Socks
    <2> QED BY <2>1, InitBoot, SetupAssumption
  <1>2. BootsInv /\ [Next]_vars => BootsInv'
    <2> SUFFICES ASSUME BootsInv, [Next]_vars, NEW kind \in {"stdin", "stub"}, running' = kind
                 PROVE  BootInv(kind)'
      BY DEF BootsInv
    <2>1. running = kind /\ BootInv(kind)
      BY DEF BootsInv, Next, vars
    <2>2. [Boot(kind)!Next]_(Boot(kind)!vars)
      <3>1. CASE Next
        BY <2>1, <3>1 DEF Next
      <3>2. CASE UNCHANGED vars
        BY <3>2 DEF vars, bootstrap, Boot!vars
      <3> QED BY <3>1, <3>2
    <2> QED BY <2>1, <2>2, NextBoot, SetupAssumption
  <1>3. BootsInv => ThreadIsOfProcess
    BY BootSafe, SetupAssumption DEF BootsInv, ThreadIsOfProcess
  <1> QED BY <1>1, <1>2, <1>3, PTL DEF Spec

(***************************************************************************)
(* Over ssh, the process serves system calls on the connection that our    *)
(* SyscallConnection has and copies memory on the other, and the sockets   *)
(* are there when somebody connects to them.                               *)
(***************************************************************************)
THEOREM SshSocksMatch == Spec => []SocksMatch
  <1>1. Init => (running = "ssh" => SshInv)
    BY InitSsh, SetupAssumption DEF Init
  <1>2. (running = "ssh" => SshInv) /\ [Next]_vars => (running = "ssh" => SshInv)'
    <2> SUFFICES ASSUME running = "ssh" => SshInv, [Next]_vars, running' = "ssh" PROVE SshInv'
      OBVIOUS
    <2>1. running = "ssh"
      BY DEF Next, vars
    <2>2. [Ssh!Next]_(Ssh!vars)
      <3>1. CASE Next
        BY <2>1, <3>1 DEF Next
      <3>2. CASE UNCHANGED vars
        BY <3>2 DEF vars, ssh, Ssh!vars
      <3> QED BY <3>1, <3>2
    <2> QED BY <2>1, <2>2, NextSsh, SetupAssumption
  <1>3. (running = "ssh" => SshInv) => SocksMatch
    BY SshSafe, SetupAssumption DEF SocksMatch
  <1> QED BY <1>1, <1>2, <1>3, PTL DEF Spec

ChansInv ==
    /\ running \in {"fdpass", "listen"} => ChanInv(running) /\ OneCall(running)
    /\ running = "faults" => ChanInv("fdpass")

(***************************************************************************)
(* The two ends of a pair that open_channels returns are ends of one       *)
(* channel, and the right one is open where it should be and nowhere else; *)
(* calls that overlap and are abandoned are never given the same end.      *)
(***************************************************************************)
THEOREM ChannelEnds == Spec => []ChannelsMatch
  <1>1. Init => ChansInv
    <2> SUFFICES ASSUME Init PROVE ChansInv
      OBVIOUS
    <2>1. Chan("fdpass", FALSE, FALSE)!Init /\ Chan("listen", FALSE, FALSE)!Init /\ Chan("fdpass", TRUE, TRUE)!Init
      BY DEF Init, Chan!Init
    <2>2. ChanInv("fdpass") /\ ChanInv("listen")
      BY <2>1, InitChan, SetupAssumption
    <2>3. OneCall("fdpass") /\ OneCall("listen")
      BY <2>1, InitOne, SetupAssumption
    <2> QED BY <2>2, <2>3 DEF ChansInv
  <1>2. ChansInv /\ [Next]_vars => ChansInv'
    <2> SUFFICES ASSUME ChansInv, [Next]_vars PROVE ChansInv'
      OBVIOUS
    <2>1. running' = running
      BY DEF Next, vars
    <2>2. ASSUME NEW kind \in {"fdpass", "listen"}, running = kind PROVE ChanInv(kind)' /\ OneCall(kind)'
      <3>1. [Chan(kind, FALSE, FALSE)!Next]_(Chan(kind, FALSE, FALSE)!vars)
        <4>1. CASE Next
          BY <2>2, <4>1 DEF Next
        <4>2. CASE UNCHANGED vars
          BY <4>2 DEF vars, channels, Chan!vars
        <4> QED BY <4>1, <4>2
      <3>2. ChanInv(kind) /\ OneCall(kind) /\ Chan(kind, FALSE, FALSE)!ChannelsAssumption
        BY <2>2, SetupAssumption DEF ChansInv
      <3>3. ChanInv(kind)'
        BY <3>1, <3>2, NextChan
      <3>4. OneCall(kind)'
        BY <3>1, <3>2, NextOne
      <3> QED BY <3>3, <3>4
    <2>3. ASSUME running = "faults" PROVE ChanInv("fdpass")'
      <3>1. [Chan("fdpass", TRUE, TRUE)!Next]_(Chan("fdpass", TRUE, TRUE)!vars)
        <4>1. CASE Next
          BY <2>3, <4>1 DEF Next
        <4>2. CASE UNCHANGED vars
          BY <4>2 DEF vars, channels, Chan!vars
        <4> QED BY <4>1, <4>2
      <3> QED BY <2>3, <3>1, NextChan, SetupAssumption DEF ChansInv
    <2>4. running \in {"fdpass", "listen"} => ChanInv(running)' /\ OneCall(running)'
      BY <2>1, <2>2
    <2> QED BY <2>1, <2>3, <2>4 DEF ChansInv
  <1>3. ChansInv => ChannelsMatch
    <2>1. ASSUME ChansInv, NEW kind \in {"fdpass", "listen"}, running = kind
          PROVE  Chan(kind, FALSE, FALSE)!ChannelsMatch /\ Chan(kind, FALSE, FALSE)!OneHolder
      BY <2>1, OneSafe, SetupAssumption DEF ChansInv
    <2>2. ASSUME ChansInv, running = "faults" PROVE Chan("fdpass", TRUE, TRUE)!EndsDistinct
      BY <2>2, ChanSafe DEF ChansInv
    <2> QED BY <2>1, <2>2 DEF ChannelsMatch
  <1> QED BY <1>1, <1>2, <1>3, PTL DEF Spec

(***************************************************************************)
(* A child's stack is freed only when the child is out of it, and its      *)
(* socket is not shut down while it lives.                                 *)
(***************************************************************************)
THEOREM ChildStacks == Spec => []FreedWhenUnused
  <1>1. Init => (running = "lives" => CloneInv(FALSE))
    <2>1. Init => Clone(FALSE)!Init
      BY DEF Init, Clone!Init
    <2> QED BY <2>1, InitClone, SetupAssumption
  <1>2. (running = "lives" => CloneInv(FALSE)) /\ [Next]_vars => (running = "lives" => CloneInv(FALSE))'
    <2> SUFFICES ASSUME running = "lives" => CloneInv(FALSE), [Next]_vars, running' = "lives"
                 PROVE  CloneInv(FALSE)'
      OBVIOUS
    <2>1. running = "lives"
      BY DEF Next, vars
    <2>2. [Clone(FALSE)!Next]_(Clone(FALSE)!vars)
      <3>1. CASE Next
        BY <2>1, <3>1 DEF Next
      <3>2. CASE UNCHANGED vars
        BY <3>2 DEF vars, clone, Clone!vars
      <3> QED BY <3>1, <3>2
    <2> QED BY <2>1, <2>2, NextClone, SetupAssumption
  <1>3. (running = "lives" => CloneInv(FALSE)) => FreedWhenUnused
    BY CloneSafe, SetupAssumption DEF FreedWhenUnused
  <1> QED BY <1>1, <1>2, <1>3, PTL DEF Spec
=============================================================================
