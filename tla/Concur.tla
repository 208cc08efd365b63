-------------------------------- MODULE Concur --------------------------------
(***************************************************************************)
(* dneio/concur.py: RequestQueue and Future, put together as the library   *)
(* uses them: run_all starts callables that each send a request to the     *)
(* coroutine that serves a queue, and collects the results in order.       *)
(*                                                                         *)
(* Resuming a continuation runs its coroutine at once, on top of whoever   *)
(* resumes it: stack holds who runs, the last on top.  Only when nobody    *)
(* runs does the event loop let the server go on with what it waits for.   *)
(***************************************************************************)
EXTENDS Naturals, Sequences

CONSTANTS
    N,                \* how many callables run_all gets
    MaxRequests,      \* bound: requests per callable, the repeated ones included
    Fails             \* the server may fail and close the queue

ConcurAssumption == N \in Nat \ {0} /\ MaxRequests \in Nat \ {0} /\ Fails \in BOOLEAN

Callables == 1..N
main   == 0
server == N + 1

VARIABLES
    stack,            \* who runs
    pc,               \* where each coroutine is
    k,                \* main's callable: the next to start, or to get
    requests,         \* how many requests each callable made
    value,            \* the outcome its last request returned
    result,           \* Future._result
    result_cb,        \* the Futures that main waits for
    collected,        \* what run_all has collected
    request_cbs,      \* RequestQueue._request_cbs
    receiver_cb,      \* RequestQueue._receiver_cb is set
    final_exn,        \* RequestQueue._final_exn is set
    batch             \* the requests the server holds

futures == <<result, result_cb>>
queue   == <<request_cbs, receiver_cb, final_exn>>
vars    == <<stack, pc, k, requests, value, futures, collected, queue, batch>>

Init ==
    /\ stack = <<main>>
    /\ pc = [c \in 0..server |->
               CASE c = main -> "starting" [] c = server -> "receiving" [] OTHER -> "new"]
    /\ k = 1
    /\ requests = [c \in Callables |-> 0] /\ value = [c \in Callables |-> "none"]
    /\ result = [c \in Callables |-> "none"] /\ result_cb = {}
    /\ collected = << >>
    /\ request_cbs = << >> /\ receiver_cb = TRUE /\ final_exn = FALSE
    /\ batch = << >>

Runs(c, place) == stack # << >> /\ stack[Len(stack)] = c /\ pc[c] = place
Below == SubSeq(stack, 1, Len(stack) - 1)
Goto(c, place) == pc' = [pc EXCEPT ![c] = place]

-----------------------------------------------------------------------------
(* run_all *)

\* Future.start: the callable runs until it first waits.
Start ==
    /\ Runs(main, "starting")
    /\ IF k <= N
       THEN Goto(k, "requesting") /\ stack' = Append(stack, k) /\ k' = k + 1
       ELSE Goto(main, "getting") /\ k' = 1 /\ UNCHANGED stack
    /\ UNCHANGED <<requests, value, futures, collected, queue, batch>>

\* Future.get: the result, if it is there; the first error is run_all's own.
Get ==
    /\ Runs(main, "getting")
    /\ IF result[k] = "none"
       THEN /\ result_cb' = result_cb \cup {k} /\ stack' = Below
            /\ UNCHANGED <<pc, k, collected>>
       ELSE /\ collected' = Append(collected, result[k])
            /\ IF result[k] = "error" \/ k = N
               THEN Goto(main, "done") /\ stack' = Below /\ UNCHANGED k
               ELSE k' = k + 1 /\ UNCHANGED <<pc, stack>>
            /\ UNCHANGED result_cb
    /\ UNCHANGED <<requests, value, result, queue, batch>>

\* The callable's request came back: it repeats one that failed, or it ends,
\* and the wrapper of Future.start resumes whoever waits for the result.
Finish(c) ==
    /\ Runs(c, "resumed")
    /\ \/ /\ value[c] = "error" /\ requests[c] < MaxRequests
          /\ Goto(c, "requesting") /\ UNCHANGED <<stack, futures>>
       \/ /\ result' = [result EXCEPT ![c] = value[c]] /\ Goto(c, "finished")
          /\ stack' = IF c \in result_cb THEN Append(stack, main) ELSE stack
          /\ UNCHANGED result_cb
    /\ UNCHANGED <<k, requests, value, collected, queue, batch>>

\* The wrapper returns.
Return(c) ==
    /\ Runs(c, "finished") /\ stack' = Below
    /\ UNCHANGED <<pc, k, requests, value, futures, collected, queue, batch>>

-----------------------------------------------------------------------------
(* RequestQueue *)

(***************************************************************************)
(* request, request_cb: of a closed queue the final exception, otherwise a *)
(* waiting receiver is resumed with the request, or it is queued.  The     *)
(* native coroutine c has been suspended when request_cb runs.             *)
(***************************************************************************)
Request(c) ==
    /\ Runs(c, "requesting")
    /\ requests' = [requests EXCEPT ![c] = @ + 1]
    /\ \/ final_exn /\ Goto(c, "resumed") /\ value' = [value EXCEPT ![c] = "error"]
          /\ UNCHANGED <<stack, queue, batch>>
       \/ /\ ~final_exn /\ receiver_cb /\ receiver_cb' = FALSE
          /\ pc' = [pc EXCEPT ![c] = "waiting", ![server] = "serving"] /\ batch' = <<c>>
          /\ stack' = Append(Below, server) /\ UNCHANGED <<value, request_cbs, final_exn>>
       \/ /\ ~final_exn /\ ~receiver_cb /\ Goto(c, "waiting")
          /\ request_cbs' = Append(request_cbs, c) /\ stack' = Below
          /\ UNCHANGED <<value, receiver_cb, final_exn, batch>>
    /\ UNCHANGED <<k, futures, collected>>

\* get_many (get_one takes the first only): what is queued, or wait for one.
GetMany(n) ==
    /\ Runs(server, "serving") /\ batch = << >>
    /\ IF request_cbs # << >>
       THEN /\ batch' = SubSeq(request_cbs, 1, n)
            /\ request_cbs' = SubSeq(request_cbs, n + 1, Len(request_cbs))
            /\ UNCHANGED <<receiver_cb, pc, stack>>
       ELSE /\ receiver_cb' = TRUE /\ Goto(server, "receiving") /\ stack' = Below
            /\ UNCHANGED <<batch, request_cbs>>
    /\ UNCHANGED <<k, requests, value, futures, collected, final_exn>>

\* The server waits for something else before it answers ...
Await ==
    /\ Runs(server, "serving") /\ batch # << >>
    /\ Goto(server, "working") /\ stack' = Below
    /\ UNCHANGED <<k, requests, value, futures, collected, queue, batch>>

\* ... and the event loop resumes it.
Resume ==
    /\ stack = << >> /\ pc[server] = "working"
    /\ Goto(server, "answering") /\ stack' = <<server>>
    /\ UNCHANGED <<k, requests, value, futures, collected, queue, batch>>

\* The server resumes the first caller, with a value or an error of its own.
Answer(outcome) ==
    /\ Runs(server, "serving") \/ Runs(server, "answering")
    /\ batch # << >>
    /\ pc' = [pc EXCEPT ![server] = "serving", ![batch[1]] = "resumed"]
    /\ value' = [value EXCEPT ![batch[1]] = outcome]
    /\ stack' = Append(stack, batch[1]) /\ batch' = Tail(batch)
    /\ UNCHANGED <<k, requests, futures, collected, queue>>

\* Mutant of Close: the callers that wait in the queue are not told.
CloseOnly ==
    /\ Fails /\ Runs(server, "answering")
    /\ final_exn' = TRUE /\ request_cbs' = << >>
    /\ Goto(server, "closing")
    /\ UNCHANGED <<stack, k, requests, value, futures, collected, receiver_cb, batch>>

\* close, by the server as it ends: it throws to everybody in the queue.
Close ==
    /\ Fails /\ Runs(server, "answering")
    /\ final_exn' = TRUE /\ request_cbs' = << >>
    /\ batch' = batch \o request_cbs
    /\ Goto(server, "closing")
    /\ UNCHANGED <<stack, k, requests, value, futures, collected, receiver_cb>>

\* The loop of close.
Throw ==
    /\ Runs(server, "closing")
    /\ IF batch = << >>
       THEN Goto(server, "done") /\ stack' = Below /\ UNCHANGED <<value, batch>>
       ELSE /\ Goto(batch[1], "resumed") /\ value' = [value EXCEPT ![batch[1]] = "error"]
            /\ stack' = Append(stack, batch[1]) /\ batch' = Tail(batch)
    /\ UNCHANGED <<k, requests, futures, collected, queue>>

-----------------------------------------------------------------------------
ServerStep ==
    \/ (\E n \in {1, Len(request_cbs)} : GetMany(n)) \/ Await \/ Resume
    \/ Answer("value") \/ Answer("error") \/ Close \/ Throw

Next ==
    \/ Start \/ Get \/ ServerStep
    \/ \E c \in Callables : Request(c) \/ Finish(c) \/ Return(c)

\* Python runs on, and trio's loop resumes what is ready.
Spec == Init /\ [][Next]_vars /\ WF_vars(Next)

-----------------------------------------------------------------------------
(* Properties *)

\* Every variable has a value the code can give it; who runs, runs once
\* ("coroutine already executing" otherwise).
TypeOK ==
    /\ \A i, j \in 1..Len(stack) : stack[i] \in 0..server /\ (i # j => stack[i] # stack[j])
    /\ pc[server] \in {"receiving", "serving", "working", "answering", "closing", "done"}
    /\ \A c \in Callables : value[c] \in {"none", "value", "error"} /\ requests[c] \in 0..MaxRequests
    /\ receiver_cb \in BOOLEAN /\ final_exn \in BOOLEAN

(***************************************************************************)
(* get_one_cb asserts that nobody waits already: _receiver_cb is set just  *)
(* while the server waits, although its requesters resume it and are       *)
(* resumed by it, at any depth.                                            *)
(***************************************************************************)
ReceiverOnce == receiver_cb <=> pc[server] = "receiving"

(***************************************************************************)
(* A request is in one place: the queue, the server's batch, or answered;  *)
(* none is lost or answered twice while the queue is refilled and closed.  *)
(***************************************************************************)
HeldOnce ==
    LET held == request_cbs \o batch IN
    /\ \A i, j \in 1..Len(held) : i # j => held[i] # held[j]
    /\ \A c \in Callables : pc[c] = "waiting" <=> \E i \in 1..Len(held) : held[i] = c

(***************************************************************************)
(* run_all: "Call all the functions passed to it, and return all the       *)
(* results", each in the place of its function.                            *)
(***************************************************************************)
ResultsInOrder ==
    /\ \A i \in 1..Len(collected) : collected[i] = result[i] /\ result[i] # "none"
    /\ pc[main] = "done" => (\E i \in 1..Len(collected) : collected[i] = "error") \/ Len(collected) = N

\* run_all returns, also when the server fails under its callables.
RunAllEnds == <>(pc[main] = "done")
=============================================================================
