------------------------- MODULE PersistentInterface -------------------------
(***************************************************************************)
(* What the callers of a persistent thread's syscalls rely on, whichever   *)
(* connection carries them and however often one breaks: a syscall is      *)
(* performed at most once, who returns has a syscall that was performed,   *)
(* and a caller is told of a break (SyscallHangup) only once it has made   *)
(* its syscall.  No SyscallSendError reaches a caller.                     *)
(***************************************************************************)
EXTENDS Naturals, Sequences

CONSTANT Calls

VARIABLES outcome, performed

vars == <<outcome, performed>>

Init ==
    /\ outcome = [c \in Calls |-> "none"]
    /\ performed = << >>

WasPerformed(c) == \E i \in 1..Len(performed) : performed[i] = c

Call(c) ==
    /\ outcome[c] = "none"
    /\ outcome' = [outcome EXCEPT ![c] = "pending"]
    /\ UNCHANGED performed

Perform(c) ==
    /\ outcome[c] \in {"pending", "hangup"} /\ ~WasPerformed(c)
    /\ performed' = Append(performed, c)
    /\ UNCHANGED outcome

Return(c) ==
    /\ outcome[c] = "pending" /\ WasPerformed(c)
    /\ outcome' = [outcome EXCEPT ![c] = "returned"]
    /\ UNCHANGED performed

Hangup(c) ==
    /\ outcome[c] = "pending"
    /\ outcome' = [outcome EXCEPT ![c] = "hangup"]
    /\ UNCHANGED performed

Next == \E c \in Calls : Call(c) \/ Perform(c) \/ Return(c) \/ Hangup(c)

Spec == Init /\ [][Next]_vars
=============================================================================
