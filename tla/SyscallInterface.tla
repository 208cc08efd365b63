--------------------------- MODULE SyscallInterface ---------------------------
(***************************************************************************)
(* What SyscallInterface.syscall (near/sysif.py) promises its callers,     *)
(* whatever carries the syscalls: they are performed one at a time in the  *)
(* order they were made, each at most once; a caller that returns has the  *)
(* result of its own syscall; and a SyscallError is permanent, so that the *)
(* syscalls that return are the first ones made.                           *)
(*                                                                         *)
(* The class promises one thing more, that a syscall which raised          *)
(* SyscallSendError is never performed.  SyscallConnection does not keep   *)
(* that promise, so Perform does not ask for it here.                      *)
(***************************************************************************)
EXTENDS Naturals, Sequences

CONSTANT MaxSyscalls

VARIABLES issued, status, value, executed

vars == <<issued, status, value, executed>>

Syscalls == 1..MaxSyscalls

Init ==
    /\ issued = 0
    /\ status = [s \in Syscalls |-> "unissued"]
    /\ value = [s \in Syscalls |-> 0]
    /\ executed = << >>

\* A caller makes the next syscall.
Call ==
    /\ issued < MaxSyscalls
    /\ issued' = issued + 1
    /\ status' = [status EXCEPT ![issued + 1] = "pending"]
    /\ UNCHANGED <<value, executed>>

\* The process performs the oldest syscall it has not performed.
Perform ==
    /\ Len(executed) < issued
    /\ executed' = Append(executed, Len(executed) + 1)
    /\ UNCHANGED <<issued, status, value>>

\* The oldest caller gets the result of its syscall.
Return(s) ==
    /\ status[s] = "pending"
    /\ s <= Len(executed)
    /\ \A t \in 1..(s - 1) : status[t] = "returned"
    /\ status' = [status EXCEPT ![s] = "returned"]
    /\ value' = [value EXCEPT ![s] = s]
    /\ UNCHANGED <<issued, executed>>

\* SyscallHangup: sent, and perhaps performed.
Hangup(s) ==
    /\ status[s] = "pending"
    /\ \A t \in 1..(s - 1) : status[t] \in {"returned", "hangup"}
    /\ status' = [status EXCEPT ![s] = "hangup"]
    /\ UNCHANGED <<issued, value, executed>>

\* SyscallSendError, to a run of consecutive callers at once.
SendError(a, b) ==
    /\ \A s \in a..b : status[s] = "pending"
    /\ status' = [s \in Syscalls |-> IF s \in a..b THEN "sendError" ELSE status[s]]
    /\ UNCHANGED <<issued, value, executed>>

Next ==
    \/ Call
    \/ Perform
    \/ \E s \in Syscalls : Return(s) \/ Hangup(s)
    \/ \E a, b \in Syscalls : SendError(a, b)

Spec == Init /\ [][Next]_vars
=============================================================================
