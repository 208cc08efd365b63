-------------------------- MODULE ChildMonitorProofs --------------------------
(***************************************************************************)
(* Proofs about ChildMonitor, for any number of coroutines, any options    *)
(* and any number of state changes.  That no wakeup is lost holds whatever *)
(* fails; that no pid is used after it was freed needs the memory reads to *)
(* come back in order, and the answer that reports the death not to hang   *)
(* up.  Without either, TLC finds a counterexample.                        *)
(***************************************************************************)
EXTENDS ChildMonitor, TLAPS

\* Every step keeps the types.
LEMMA TypeNext ==
    ASSUME TypeOK, [Next]_vars
    PROVE  TypeOK'
<1> USE MonitorAssumption DEF vars, kernel, signals, process, locals, Changes, Places, Reading, InFlight
<1>1. CASE \E change \in Changes : ChildChanges(change)
  BY <1>1 DEF TypeOK, ChildChanges
<1>2. CASE OtherChildChanges
  BY <1>2 DEF TypeOK, OtherChildChanges
<1>3. CASE SigfdRead
  BY <1>3 DEF TypeOK, SigfdRead
<1>4. CASE SigfdSet
  BY <1>4 DEF TypeOK, SigfdSet
<1>5. CASE SigfdFails
  BY <1>5 DEF TypeOK, SigfdFails
<1>6. ASSUME NEW p \in Coroutines, Step(p) \/ Call(p) \/ Cancel(p) \/ Hangup(p)
      PROVE  TypeOK'
  <2>1. CASE \E opts \in OptionSets : Waitpid(p, opts)
    BY <2>1 DEF TypeOK, Waitpid, Loop, Poll, Goto
  <2>2. CASE SigchldWake(p)
    BY <2>2 DEF TypeOK, SigchldWake, Poll, Goto
  <2>3. CASE SigchldRaise(p)
    BY <2>3 DEF TypeOK, SigchldRaise, Goto
  <2>4. CASE WaitidSend(p)
    BY <2>4 DEF TypeOK, WaitidSend, CanBorrow, Goto
  <2>5. CASE BorrowRaises(p)
    BY <2>5 DEF TypeOK, BorrowRaises, Goto
  <2>6. CASE WaitidPerform(p)
    BY <2>6 DEF TypeOK, WaitidPerform, Goto
  <2>7. CASE WaitidEchild(p)
    BY <2>7 DEF TypeOK, WaitidEchild, Goto
  <2>8. CASE WaitidReply(p)
    BY <2>8 DEF TypeOK, WaitidReply, Goto
  <2>9. CASE ReadOld(p)
    BY <2>9 DEF TypeOK, ReadOld, Parse, Report, Loop, Poll, Goto
  <2>10. CASE ReadNew(p)
    BY <2>10 DEF TypeOK, ReadNew, Parse, Report, Loop, Poll, Goto
  <2>11. CASE Kill(p)
    BY <2>11 DEF TypeOK, Kill, CanBorrow, Goto
  <2>12. CASE KillReads(p)
    BY <2>12 DEF TypeOK, KillReads, Goto
  <2>13. CASE KillRead(p)
    BY <2>13 DEF TypeOK, KillRead, Parse, Goto
  <2>14. CASE KillPerform(p)
    <3>1. pc' \in [Coroutines -> Places]
      BY <2>14 DEF TypeOK, KillPerform, Goto
    <3>2. /\ child' \in {"running", "stopped", "zombie", "reaped"}
          /\ event' \in {"none", "stopped", "continued"}
          /\ sigchld' \in BOOLEAN
      BY <2>14 DEF TypeOK, KillPerform
    <3> QED
      BY <2>14, <3>1, <3>2 DEF TypeOK, KillPerform
  <2>15. CASE KillReply(p)
    BY <2>15 DEF TypeOK, KillReply, Goto
  <2>16. CASE Cancel(p)
    BY <2>16 DEF TypeOK, Cancel, Goto
  <2>17. CASE Hangup(p)
    BY <2>17 DEF TypeOK, Hangup, Goto
  <2> QED
    BY <1>6, <2>1, <2>2, <2>3, <2>4, <2>5, <2>6, <2>7, <2>8, <2>9,
       <2>10, <2>11, <2>12, <2>13, <2>14, <2>15, <2>16, <2>17 DEF Step, Call
<1>7. CASE UNCHANGED vars
  BY <1>7 DEF TypeOK
<1> QED
  BY <1>1, <1>2, <1>3, <1>4, <1>5, <1>6, <1>7 DEF Next, Environment

\* Every variable keeps a value its code or the kernel can give it.
THEOREM TypeCorrect == Spec => []TypeOK
<1>1. Init => TypeOK
  <2> SUFFICES ASSUME Init PROVE TypeOK
    OBVIOUS
  <2>1. pc \in [Coroutines -> Places]
    BY DEF Init, Places
  <2>2. siginfo \in [Coroutines -> Changes \cup {"none"}]
    BY DEF Init
  <2>3. options \in [Coroutines -> SUBSET Changes]
    BY DEF Init
  <2>4. saved_sigchld \in [Coroutines -> Nat] /\ changes \in 0..MaxChanges
    BY MonitorAssumption DEF Init
  <2>5. /\ sigchld \in BOOLEAN /\ death_state \in BOOLEAN
        /\ in_use \in BOOLEAN /\ unseen_death \in BOOLEAN
    BY DEF Init
  <2>6. next_signal \in Nat /\ next_sigchld \in Nat
    BY DEF Init
  <2>7. /\ child \in {"running", "stopped", "zombie", "reaped"}
        /\ event \in {"none", "stopped", "continued"}
        /\ sigfd \in {"reading", "got", "failed"}
        /\ unread_siginfo \in Changes \cup {"none", "unset"}
    BY DEF Init
  <2> QED
    BY <2>1, <2>2, <2>3, <2>4, <2>5, <2>6, <2>7 DEF TypeOK
<1>2. TypeOK /\ [Next]_vars => TypeOK'
  BY TypeNext
<1> QED
  BY <1>1, <1>2, PTL DEF Spec

-----------------------------------------------------------------------------
(* No wakeup is lost *)

(***************************************************************************)
(* The Events saved, and the one to wait for next, are not yet to come.    *)
(***************************************************************************)
EventsExist ==
    /\ next_signal > 0 /\ next_sigchld <= next_signal
    /\ \A p \in Coroutines : saved_sigchld[p] <= next_signal

(***************************************************************************)
(* NoLostWakeup, for the Event that a waitid that found nothing is about   *)
(* to leave in next_sigchld.                                               *)
(***************************************************************************)
SavedIsEnough ==
    \A p \in Coroutines :
        /\ pc[p] \in {"waitid_reply", "read_new"} /\ siginfo[p] = "none"
        /\ saved_sigchld[p] = next_signal
        /\ Waitable
        => sigchld \/ sigfd # "reading"

WInv == EventsExist /\ SavedIsEnough /\ NoLostWakeup

\* Every step keeps NoLostWakeup and what it rests on.
LEMMA WakeupNext ==
    ASSUME TypeOK, WInv, [Next]_vars
    PROVE  WInv'
<1> USE MonitorAssumption DEF vars, kernel, signals, process, locals, Changes, Places, Reading, InFlight
<1>1. CASE \E change \in Changes : ChildChanges(change)
  BY <1>1 DEF WInv, EventsExist, SavedIsEnough, NoLostWakeup, Waitable, TypeOK,
     ChildChanges
<1>2. CASE OtherChildChanges
  BY <1>2 DEF WInv, EventsExist, SavedIsEnough, NoLostWakeup, Waitable, TypeOK,
     OtherChildChanges
<1>3. CASE SigfdRead
  BY <1>3 DEF WInv, EventsExist, SavedIsEnough, NoLostWakeup, Waitable, TypeOK,
     SigfdRead
<1>4. CASE SigfdSet
  BY <1>4 DEF WInv, EventsExist, SavedIsEnough, NoLostWakeup, Waitable, TypeOK,
     SigfdSet
<1>5. CASE SigfdFails
  BY <1>5 DEF WInv, EventsExist, SavedIsEnough, NoLostWakeup, Waitable, TypeOK,
     SigfdFails
<1>6. ASSUME NEW p \in Coroutines, Step(p) \/ Call(p) \/ Cancel(p) \/ Hangup(p)
      PROVE  WInv'
  <2>1. CASE \E opts \in OptionSets : Waitpid(p, opts)
    BY <2>1 DEF WInv, EventsExist, SavedIsEnough, NoLostWakeup, Waitable,
       TypeOK, Waitpid, Loop, Poll, Goto
  <2>2. CASE SigchldWake(p)
    BY <2>2 DEF WInv, EventsExist, SavedIsEnough, NoLostWakeup, Waitable,
       TypeOK, SigchldWake, Poll, Goto
  <2>3. CASE SigchldRaise(p)
    BY <2>3 DEF WInv, EventsExist, SavedIsEnough, NoLostWakeup, Waitable,
       TypeOK, SigchldRaise, Goto
  <2>4. CASE WaitidSend(p)
    BY <2>4 DEF WInv, EventsExist, SavedIsEnough, NoLostWakeup, Waitable,
       TypeOK, WaitidSend, CanBorrow, Goto
  <2>5. CASE BorrowRaises(p)
    BY <2>5 DEF WInv, EventsExist, SavedIsEnough, NoLostWakeup, Waitable,
       TypeOK, BorrowRaises, Goto
  <2>6. CASE WaitidPerform(p)
    BY <2>6 DEF WInv, EventsExist, SavedIsEnough, NoLostWakeup, Waitable,
       TypeOK, WaitidPerform, Goto
  <2>7. CASE WaitidEchild(p)
    BY <2>7 DEF WInv, EventsExist, SavedIsEnough, NoLostWakeup, Waitable,
       TypeOK, WaitidEchild, Goto
  <2>8. CASE WaitidReply(p)
    BY <2>8 DEF WInv, EventsExist, SavedIsEnough, NoLostWakeup, Waitable,
       TypeOK, WaitidReply, Goto
  <2>9. CASE ReadOld(p)
    BY <2>9 DEF WInv, EventsExist, SavedIsEnough, NoLostWakeup, Waitable,
       TypeOK, ReadOld, Parse, Report, Loop, Poll, Goto
  <2>10. CASE ReadNew(p)
    BY <2>10 DEF WInv, EventsExist, SavedIsEnough, NoLostWakeup, Waitable,
       TypeOK, ReadNew, Parse, Report, Loop, Poll, Goto
  <2>11. CASE Kill(p)
    BY <2>11 DEF WInv, EventsExist, SavedIsEnough, NoLostWakeup, Waitable,
       TypeOK, Kill, CanBorrow, Goto
  <2>12. CASE KillReads(p)
    BY <2>12 DEF WInv, EventsExist, SavedIsEnough, NoLostWakeup, Waitable,
       TypeOK, KillReads, Goto
  <2>13. CASE KillRead(p)
    BY <2>13 DEF WInv, EventsExist, SavedIsEnough, NoLostWakeup, Waitable,
       TypeOK, KillRead, Parse, Goto
  <2>14. CASE KillPerform(p)
    BY <2>14 DEF WInv, EventsExist, SavedIsEnough, NoLostWakeup, Waitable,
       TypeOK, KillPerform, Goto
  <2>15. CASE KillReply(p)
    BY <2>15 DEF WInv, EventsExist, SavedIsEnough, NoLostWakeup, Waitable,
       TypeOK, KillReply, Goto
  <2>16. CASE Cancel(p)
    BY <2>16 DEF WInv, EventsExist, SavedIsEnough, NoLostWakeup, Waitable,
       TypeOK, Cancel, Goto
  <2>17. CASE Hangup(p)
    BY <2>17 DEF WInv, EventsExist, SavedIsEnough, NoLostWakeup, Waitable,
       TypeOK, Hangup, Goto
  <2> QED
    BY <1>6, <2>1, <2>2, <2>3, <2>4, <2>5, <2>6, <2>7, <2>8, <2>9,
       <2>10, <2>11, <2>12, <2>13, <2>14, <2>15, <2>16, <2>17 DEF Step, Call
<1>7. CASE UNCHANGED vars
  BY <1>7 DEF WInv, EventsExist, SavedIsEnough, NoLostWakeup, Waitable, TypeOK
<1> QED
  BY <1>1, <1>2, <1>3, <1>4, <1>5, <1>6, <1>7 DEF Next, Environment

(***************************************************************************)
(* waitpid never waits for an Event that no SIGCHLD is going to set while  *)
(* there is a state change to fetch, whatever is cancelled, hung up or     *)
(* closed, and in whatever order syscalls and memory reads come back.      *)
(***************************************************************************)
THEOREM WakeupNotLost == Spec => []NoLostWakeup
<1>1. Init => WInv
  BY DEF Init, WInv, EventsExist, SavedIsEnough, NoLostWakeup, Waitable
<1>2. TypeOK /\ WInv /\ [Next]_vars => WInv'
  BY WakeupNext
<1>3. WInv => NoLostWakeup
  BY DEF WInv
<1> QED
  BY <1>1, <1>2, <1>3, TypeCorrect, PTL DEF Spec

-----------------------------------------------------------------------------
(* No freed pid is used, and no death is lost *)

\* ChildProcess.borrow admits one waitid or kill at a time ...
OneInFlight ==
    \A p, q \in Coroutines : pc[p] \in InFlight /\ pc[q] \in InFlight => p = q

\* ... and none while a death is known or a siginfo is unread.
BorrowedAlive ==
    \A p \in Coroutines :
        pc[p] \in InFlight => in_use /\ ~death_state /\ unread_siginfo = "unset"

(***************************************************************************)
(* Those who read a siginfo buffer all read the one that is unread, if     *)
(* there is one, and a death they are going to find is not news.           *)
(***************************************************************************)
ReadersAgree ==
    \A p \in Coroutines :
        pc[p] \in Reading =>
            /\ unread_siginfo # "unset" => siginfo[p] = unread_siginfo
            /\ siginfo[p] = "dead" => death_state \/ unread_siginfo = "dead"

PInv == OneInFlight /\ BorrowedAlive /\ ReadersAgree /\ DeathNotLost

(***************************************************************************)
(* What parse_waitid_siginfo leaves behind: a death that anyone reads is   *)
(* known, and nobody's waitid or kill is under way then.                   *)
(***************************************************************************)
LEMMA ParseKnows ==
    ASSUME TypeOK, PInv, NEW p \in Coroutines, pc[p] \in Reading, Parse(siginfo[p])
    PROVE  /\ death_state' \in BOOLEAN /\ unread_siginfo' = "unset"
           /\ child = "reaped" =>
                 \/ unseen_death \/ death_state'
                 \/ \E q \in Coroutines : pc[q] = "waitid_reply" /\ siginfo[q] = "dead"
           /\ \A q \in Coroutines : pc[q] \in Reading /\ siginfo[q] = "dead" => death_state'
           /\ \A q \in Coroutines : pc[q] \in InFlight => ~death_state'
<1> USE DEF PInv, TypeOK, Parse, ReadersAgree, BorrowedAlive
<1>1. unread_siginfo = "dead" => siginfo[p] = "dead"
  OBVIOUS
<1>2. siginfo[p] = "dead" => death_state \/ unread_siginfo = "dead"
  OBVIOUS
<1>3. \A q \in Coroutines : pc[q] \in Reading /\ siginfo[q] = "dead" => death_state'
  BY <1>1
<1>4. \A q \in Coroutines : pc[q] \in InFlight => ~death_state'
  BY <1>2
<1> QED
  BY <1>1, <1>3, <1>4 DEF DeathNotLost

\* Every step keeps DeathNotLost and what it rests on.
LEMMA PidNext ==
    ASSUME ReadsFirst, TypeOK, PInv, [Next]_vars
    PROVE  PInv'
<1> USE MonitorAssumption DEF vars, kernel, signals, process, locals, Changes, Places, Reading, InFlight
<1>1. CASE \E change \in Changes : ChildChanges(change)
  BY <1>1 DEF PInv, OneInFlight, BorrowedAlive, ReadersAgree, DeathNotLost,
     TypeOK, ChildChanges
<1>2. CASE OtherChildChanges
  BY <1>2 DEF PInv, OneInFlight, BorrowedAlive, ReadersAgree, DeathNotLost,
     TypeOK, OtherChildChanges
<1>3. CASE SigfdRead
  BY <1>3 DEF PInv, OneInFlight, BorrowedAlive, ReadersAgree, DeathNotLost,
     TypeOK, SigfdRead
<1>4. CASE SigfdSet
  BY <1>4 DEF PInv, OneInFlight, BorrowedAlive, ReadersAgree, DeathNotLost,
     TypeOK, SigfdSet
<1>5. CASE SigfdFails
  BY <1>5 DEF PInv, OneInFlight, BorrowedAlive, ReadersAgree, DeathNotLost,
     TypeOK, SigfdFails
<1>6. ASSUME NEW p \in Coroutines, Step(p) \/ Call(p) \/ Cancel(p) \/ Hangup(p)
      PROVE  PInv'
  <2>1. CASE \E opts \in OptionSets : Waitpid(p, opts)
    BY <2>1 DEF PInv, OneInFlight, BorrowedAlive, ReadersAgree, DeathNotLost,
       TypeOK, Waitpid, Loop, Poll, Goto
  <2>2. CASE SigchldWake(p)
    BY <2>2 DEF PInv, OneInFlight, BorrowedAlive, ReadersAgree, DeathNotLost,
       TypeOK, SigchldWake, Poll, Goto
  <2>3. CASE SigchldRaise(p)
    BY <2>3 DEF PInv, OneInFlight, BorrowedAlive, ReadersAgree, DeathNotLost,
       TypeOK, SigchldRaise, Goto
  <2>4. CASE WaitidSend(p)
    BY <2>4 DEF PInv, OneInFlight, BorrowedAlive, ReadersAgree, DeathNotLost,
       TypeOK, WaitidSend, CanBorrow, Goto
  <2>5. CASE BorrowRaises(p)
    BY <2>5 DEF PInv, OneInFlight, BorrowedAlive, ReadersAgree, DeathNotLost,
       TypeOK, BorrowRaises, Goto
  <2>6. CASE WaitidPerform(p)
    BY <2>6 DEF PInv, OneInFlight, BorrowedAlive, ReadersAgree, DeathNotLost,
       TypeOK, WaitidPerform, Goto
  <2>7. CASE WaitidEchild(p)
    BY <2>7 DEF PInv, OneInFlight, BorrowedAlive, ReadersAgree, DeathNotLost,
       TypeOK, WaitidEchild, Goto
  <2>8. CASE WaitidReply(p)
    BY <2>8 DEF PInv, OneInFlight, BorrowedAlive, ReadersAgree, DeathNotLost,
       TypeOK, WaitidReply, Goto
  <2>9. CASE ReadOld(p)
    <3>1. pc[p] \in Reading /\ Parse(siginfo[p])
      BY <2>9 DEF ReadOld
    <3> QED
      BY <2>9, <3>1, ParseKnows DEF PInv, OneInFlight, BorrowedAlive,
         ReadersAgree, DeathNotLost, TypeOK, ReadOld, Report, Loop, Poll, Goto
  <2>10. CASE ReadNew(p)
    <3>1. pc[p] \in Reading /\ Parse(siginfo[p])
      BY <2>10 DEF ReadNew
    <3> QED
      BY <2>10, <3>1, ParseKnows DEF PInv, OneInFlight, BorrowedAlive,
         ReadersAgree, DeathNotLost, TypeOK, ReadNew, Report, Loop, Poll, Goto
  <2>11. CASE Kill(p)
    BY <2>11 DEF PInv, OneInFlight, BorrowedAlive, ReadersAgree, DeathNotLost,
       TypeOK, Kill, CanBorrow, Goto
  <2>12. CASE KillReads(p)
    BY <2>12 DEF PInv, OneInFlight, BorrowedAlive, ReadersAgree, DeathNotLost,
       TypeOK, KillReads, Goto
  <2>13. CASE KillRead(p)
    <3>1. pc[p] \in Reading /\ Parse(siginfo[p])
      BY <2>13 DEF KillRead
    <3> QED
      BY <2>13, <3>1, ParseKnows DEF PInv, OneInFlight, BorrowedAlive,
         ReadersAgree, DeathNotLost, TypeOK, KillRead, Goto
  <2>14. CASE KillPerform(p)
    BY <2>14 DEF PInv, OneInFlight, BorrowedAlive, ReadersAgree, DeathNotLost,
       TypeOK, KillPerform, Goto
  <2>15. CASE KillReply(p)
    BY <2>15 DEF PInv, OneInFlight, BorrowedAlive, ReadersAgree, DeathNotLost,
       TypeOK, KillReply, Goto
  <2>16. CASE Cancel(p)
    BY <2>16 DEF PInv, OneInFlight, BorrowedAlive, ReadersAgree, DeathNotLost,
       TypeOK, Cancel, Goto
  <2>17. CASE Hangup(p)
    BY <2>17 DEF PInv, OneInFlight, BorrowedAlive, ReadersAgree, DeathNotLost,
       TypeOK, Hangup, Goto
  <2> QED
    BY <1>6, <2>1, <2>2, <2>3, <2>4, <2>5, <2>6, <2>7, <2>8, <2>9,
       <2>10, <2>11, <2>12, <2>13, <2>14, <2>15, <2>16, <2>17 DEF Step, Call
<1>7. CASE UNCHANGED vars
  BY <1>7 DEF PInv, OneInFlight, BorrowedAlive, ReadersAgree, DeathNotLost,
     TypeOK
<1> QED
  BY <1>1, <1>2, <1>3, <1>4, <1>5, <1>6, <1>7 DEF Next, Environment

\* With ordered reads, the invariant always holds.
LEMMA PidInvariant ==
    ASSUME ReadsFirst
    PROVE  Spec => []PInv
<1>1. Init => PInv
  BY DEF Init, PInv, OneInFlight, BorrowedAlive, ReadersAgree, DeathNotLost,
         InFlight, Reading
<1>2. TypeOK /\ PInv /\ [Next]_vars => PInv'
  BY PidNext
<1> QED
  BY <1>1, <1>2, TypeCorrect, PTL DEF Spec

(***************************************************************************)
(* As long as memory reads come back in order, the death that the kernel   *)
(* reported is known, unread or on its way, or its one report hung up:     *)
(* whoever is cancelled, whatever else hangs up and however many read the  *)
(* buffer.                                                                 *)
(***************************************************************************)
THEOREM DeathKept ==
    ASSUME ReadsFirst
    PROVE  Spec => []DeathNotLost
<1>1. PInv => DeathNotLost
  BY DEF PInv
<1> QED
  BY <1>1, PidInvariant, PTL

(***************************************************************************)
(* Under the same assumption the docstring of ChildProcess is true unless  *)
(* the report of the death hung up: no waitid and no kill is on its way to *)
(* a pid that was freed.                                                   *)
(***************************************************************************)
THEOREM PidSafe ==
    ASSUME ReadsFirst
    PROVE  Spec => []PidIsOurs
<1>1. PInv => PidIsOurs
  BY DEF PInv, PidIsOurs, OneInFlight, BorrowedAlive, DeathNotLost, InFlight
<1> QED
  BY <1>1, PidInvariant, PTL
===============================================================================
