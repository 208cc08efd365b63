----------------------------- MODULE Continuations -----------------------------
(***************************************************************************)
(* dneio/core.py: shift and reset.  A coroutine runs either "natively",    *)
(* under reset, or as a trio task.  Resuming a continuation runs its       *)
(* coroutine at once, on top of the one that resumes it, so coroutines     *)
(* form a stack; the global _under_coro_runner says what kind runs.        *)
(*                                                                         *)
(* The function given to shift stores the continuation somewhere, resumes  *)
(* it at once, or resumes other continuations first.  A native coroutine   *)
(* has yielded when that function runs; a trio task runs it itself, so     *)
(* its continuation is "on_stack" meanwhile.                               *)
(***************************************************************************)
EXTENDS Naturals, Sequences, FiniteSets

CONSTANTS
    Native,           \* coroutines started by reset
    Trio,             \* trio tasks
    MaxShifts         \* bound: calls of shift per coroutine

ContinuationsAssumption == MaxShifts \in Nat /\ Native \cap Trio = {}

Coros == Native \cup Trio

VARIABLES
    status,           \* "new", "ready" (for trio's loop), "running", "shifting"
                      \* (a trio task in shift's function), "suspended", "done"
    stack,            \* who runs, the top last, with the runner to restore
    runner,           \* _under_coro_runner
    shifts,           \* how often each coroutine called shift
    conts,            \* continuations that somebody holds: <<coroutine, shift>>
    cancelled,        \* those of shifts that trio cancelled
    saved,            \* TrioContinuation.saved_send is set, for the current shift
    answered          \* how often each shift returned

vars == <<status, stack, runner, shifts, conts, cancelled, saved, answered>>

Init ==
    /\ status = [c \in Coros |-> IF c \in Trio THEN "ready" ELSE "new"]
    /\ stack = << >> /\ runner = "TRIO"
    /\ shifts = [c \in Coros |-> 0]
    /\ conts = {} /\ cancelled = {} /\ saved = {}
    /\ answered = [k \in Coros \X (1..MaxShifts) |-> 0]

-----------------------------------------------------------------------------
Top == stack[Len(stack)]
Running(c) == stack # << >> /\ Top.coro = c /\ status[c] = "running"
KindOf(c) == IF c \in Native THEN "NATIVE" ELSE "TRIO"

\* The continuation that shift makes for its current call.
Current(c) == <<c, shifts[c]>>

Push(c) == /\ stack' = Append(stack, [coro |-> c, previous |-> runner])
           /\ runner' = KindOf(c)

Pop == /\ stack' = SubSeq(stack, 1, Len(stack) - 1)
       /\ runner' = Top.previous

\* trio's loop runs a task that is scheduled.
LoopRuns(t) ==
    /\ stack = << >> /\ status[t] = "ready"
    /\ status' = [status EXCEPT ![t] = "running"]
    /\ Push(t)
    /\ UNCHANGED <<shifts, conts, cancelled, saved, answered>>

\* reset: the coroutine that runs starts another one, natively.
Reset(c, n) ==
    /\ Running(c) /\ status[n] = "new"
    /\ status' = [status EXCEPT ![n] = "running"]
    /\ Push(n)
    /\ UNCHANGED <<shifts, conts, cancelled, saved, answered>>

(***************************************************************************)
(* shift.  A native coroutine yields: it is popped and its function runs   *)
(* below it.  A trio task stays on the stack until its function returns.   *)
(***************************************************************************)
Shift(c) ==
    /\ Running(c) /\ shifts[c] < MaxShifts
    /\ shifts' = [shifts EXCEPT ![c] = @ + 1]
    /\ conts' = conts \cup {<<c, shifts[c] + 1>>}
    /\ IF c \in Native
       THEN status' = [status EXCEPT ![c] = "suspended"] /\ Pop
       ELSE status' = [status EXCEPT ![c] = "shifting"] /\ UNCHANGED <<stack, runner>>
    /\ UNCHANGED <<cancelled, saved, answered>>

\* The shift of this continuation returns.
Answer(k) == answered' = [answered EXCEPT ![k] = @ + 1]

\* The function given to shift returns in a trio task.
FunctionReturns(t) ==
    /\ stack # << >> /\ Top.coro = t /\ status[t] = "shifting"
    /\ IF t \in saved
       THEN /\ status' = [status EXCEPT ![t] = "running"]
            /\ Answer(Current(t))
            /\ UNCHANGED <<stack, runner>>
       ELSE /\ status' = [status EXCEPT ![t] = "suspended"] /\ Pop
            /\ UNCHANGED answered
    /\ saved' = saved \ {t}
    /\ UNCHANGED <<shifts, conts, cancelled>>

\* Mutant of Resume: it does not look whether the task was cancelled.
ResumeUnchecked(k) ==
    LET c == k[1] IN
    /\ k \in conts /\ conts' = conts \ {k}
    /\ \/ /\ status[c] = "shifting" /\ saved' = saved \cup {c}
          /\ UNCHANGED <<status, stack, runner, answered>>
       \/ /\ status[c] = "suspended"
          /\ status' = [status EXCEPT ![c] = "running"]
          /\ Push(c) /\ Answer(k)
          /\ UNCHANGED saved
    /\ UNCHANGED <<shifts, cancelled>>

(***************************************************************************)
(* resume, send, throw: of a cancelled TrioContinuation nothing; of one    *)
(* that is on_stack the value is saved; otherwise the coroutine runs.      *)
(***************************************************************************)
Resume(k) ==
    LET c == k[1] IN
    /\ k \in conts /\ conts' = conts \ {k}
    /\ \/ /\ k \in cancelled
          /\ UNCHANGED <<status, stack, runner, saved, answered>>
       \/ /\ k \notin cancelled /\ status[c] = "shifting"
          /\ saved' = saved \cup {c}
          /\ UNCHANGED <<status, stack, runner, answered>>
       \/ /\ k \notin cancelled /\ status[c] = "suspended"
          /\ status' = [status EXCEPT ![c] = "running"]
          /\ Push(c) /\ Answer(k)
          /\ UNCHANGED saved
    /\ UNCHANGED <<shifts, cancelled>>

\* Whoever is on top resumes: a coroutine, or the function given to its shift.
ResumeSome == stack # << >> /\ \E k \in conts : Resume(k)

\* _abort_func: trio cancels a suspended task, which is scheduled again.
Cancel(t) ==
    /\ status[t] = "suspended"
    /\ status' = [status EXCEPT ![t] = "ready"]
    /\ cancelled' = cancelled \cup {Current(t)}
    /\ Answer(Current(t))
    /\ UNCHANGED <<stack, runner, shifts, conts, saved>>

\* A trio task that awaits something of trio's own is scheduled by its loop.
Checkpoint(t) ==
    /\ Running(t)
    /\ status' = [status EXCEPT ![t] = "ready"] /\ Pop
    /\ UNCHANGED <<shifts, conts, cancelled, saved, answered>>

\* The coroutine returns or raises.
Return(c) ==
    /\ Running(c)
    /\ status' = [status EXCEPT ![c] = "done"] /\ Pop
    /\ UNCHANGED <<shifts, conts, cancelled, saved, answered>>

-----------------------------------------------------------------------------
Next ==
    \/ ResumeSome
    \/ \E t \in Trio : LoopRuns(t) \/ FunctionReturns(t) \/ Cancel(t) \/ Checkpoint(t)
    \/ \E c \in Coros : Shift(c) \/ Return(c) \/ \E n \in Native : Reset(c, n)

Spec == Init /\ [][Next]_vars

-----------------------------------------------------------------------------
(* Properties *)

\* Every variable has a value the code can give it.
TypeOK ==
    /\ status \in [Coros -> {"new", "ready", "running", "shifting", "suspended", "done"}]
    /\ \A i \in 1..Len(stack) : stack[i] \in [coro : Coros, previous : {"TRIO", "NATIVE"}]
    /\ runner \in {"TRIO", "NATIVE"}
    /\ shifts \in [Coros -> 0..MaxShifts]
    /\ conts \cup cancelled \subseteq Coros \X (1..MaxShifts)
    /\ saved \subseteq Trio

(***************************************************************************)
(* shift looks at _under_coro_runner to tell how it must suspend: however  *)
(* deeply coroutines resume each other, it names the kind of the one that  *)
(* runs, and trio's loop runs under trio.                                  *)
(***************************************************************************)
RunnerIsOurs == runner = IF stack = << >> THEN "TRIO" ELSE KindOf(Top.coro)

(***************************************************************************)
(* A coroutine that is executing is not entered again ("we can't resume    *)
(* the coroutine here, since it's already running").                       *)
(***************************************************************************)
NotReentered ==
    /\ \A i, j \in 1..Len(stack) : i # j => stack[i].coro # stack[j].coro
    /\ \A c \in Coros : status[c] \in {"running", "shifting"} <=>
                        \E i \in 1..Len(stack) : stack[i].coro = c

(***************************************************************************)
(* Continuations are "single-shot": every shift returns once, with the     *)
(* value sent to its own continuation or with its own cancellation, and    *)
(* before the next shift of that coroutine.                                *)
(***************************************************************************)
OwnAnswer ==
    /\ \A k \in DOMAIN answered : answered[k] <= 1
    /\ \A c \in Coros : status[c] \in {"running", "ready"} =>
         \A n \in 1..shifts[c] : answered[<<c, n>>] = 1

(***************************************************************************)
(* No lost wakeup: a coroutine that waits has a continuation that somebody *)
(* still holds.                                                            *)
(***************************************************************************)
WaitersAreHeld == \A c \in Coros : status[c] = "suspended" => Current(c) \in conts
=============================================================================
