------------------------------ MODULE CallProofs ------------------------------
(***************************************************************************)
(* Proofs about dneio's run_all, Future and RequestQueue, about its        *)
(* continuations under the coroutine runner, and about the behaviours of   *)
(* MCCalls, for every value of its constants.                              *)
(*                                                                         *)
(* RunInv says that who waits is in the queue or in the server's batch,    *)
(* and in one of them once (HeldInv); that the receiver is set just while  *)
(* the server waits and that there is no request then (ReceiverInv); and   *)
(* that what run_all collected are the results of its first callables      *)
(* (CollectInv).  WaitInv adds to the place of the epoller's continuation  *)
(* that a system task that runs is known to run.  CoInv says of the stack  *)
(* of coroutines that nobody is on it twice and that every frame restores  *)
(* the kind of the one below it (StackInv); of every shift that it has     *)
(* returned, except the one in which its coroutine waits (AnswerInv); and  *)
(* of every continuation somebody holds that it is the one its coroutine   *)
(* waits in, or was cancelled (ContInv).  Of the connection that is shut   *)
(* down, SyscallConnectionProofs shows what is needed.                     *)
(***************************************************************************)
EXTENDS MCCalls, FiniteSets, TLAPS

-----------------------------------------------------------------------------
(* Sequences without repetition                                            *)

Members(s) == {s[i] : i \in 1..Len(s)}
Distinct(s) == \A i, j \in 1..Len(s) : i # j => s[i] # s[j]

\* A new element is put at the end.
LEMMA DistinctAppend ==
    ASSUME NEW S, NEW s \in Seq(S), NEW x \in S, Distinct(s), x \notin Members(s)
    PROVE  Append(s, x) \in Seq(S) /\ Distinct(Append(s, x)) /\ Members(Append(s, x)) = Members(s) \cup {x}
  <1>1. PICK t : t = Append(s, x)
    OBVIOUS
  <1>2. /\ t \in Seq(S) /\ Len(t) = Len(s) + 1 /\ Len(s) \in Nat /\ t[Len(s) + 1] = x
        /\ \A i \in 1..Len(s) : t[i] = s[i] /\ s[i] # x
    BY <1>1 DEF Members
  <1>3. 1..Len(t) = (1..Len(s)) \cup {Len(s) + 1}
    BY <1>2
  <1>4. Members(t) = Members(s) \cup {x}
    BY <1>2, <1>3 DEF Members
  <1>5. Distinct(t)
    BY <1>2, <1>3 DEF Distinct
  <1> QED BY <1>1, <1>2, <1>4, <1>5

\* The first element is taken.
LEMMA DistinctTail ==
    ASSUME NEW S, NEW s \in Seq(S), s # << >>, Distinct(s)
    PROVE  /\ Tail(s) \in Seq(S) /\ Distinct(Tail(s)) /\ Members(Tail(s)) = Members(s) \ {s[1]}
           /\ s[1] \in Members(s) /\ s[1] \in S
  <1>1. PICK t : t = Tail(s)
    OBVIOUS
  <1>2. /\ t \in Seq(S) /\ Len(s) = Len(t) + 1 /\ Len(t) \in Nat
        /\ \A i \in 1..Len(t) : t[i] = s[i + 1] /\ i + 1 \in 1..Len(s) /\ i + 1 # 1
        /\ 1 \in 1..Len(s) /\ s[1] \in S
    BY <1>1
  <1>3. \A i \in 1..Len(s) : i # 1 => i - 1 \in 1..Len(t) /\ (i - 1) + 1 = i
    BY <1>2
  <1>4. Distinct(t)
    <2> SUFFICES ASSUME NEW i \in 1..Len(t), NEW j \in 1..Len(t), i # j PROVE t[i] # t[j]
      BY DEF Distinct
    <2>1. i + 1 # j + 1
      BY <1>2
    <2> QED BY <1>2, <2>1 DEF Distinct
  <1>5. Members(t) = Members(s) \ {s[1]}
    <2>1. ASSUME NEW i \in 1..Len(t) PROVE t[i] \in Members(s) \ {s[1]}
      BY <1>2 DEF Distinct, Members
    <2>2. ASSUME NEW i \in 1..Len(s), s[i] # s[1] PROVE s[i] \in Members(t)
      <3>1. i # 1
        BY <2>2
      <3>2. i - 1 \in 1..Len(t) /\ t[i - 1] = s[i]
        BY <1>2, <1>3, <3>1
      <3> QED BY <3>2 DEF Members
    <2> QED BY <2>1, <2>2 DEF Members
  <1> QED BY <1>1, <1>2, <1>4, <1>5 DEF Members

\* A sequence is cut in two.
LEMMA DistinctSplit ==
    ASSUME NEW S, NEW s \in Seq(S), Distinct(s), NEW n \in 0..Len(s)
    PROVE  LET t == SubSeq(s, 1, n)
               u == SubSeq(s, n + 1, Len(s))
           IN  /\ t \in Seq(S) /\ u \in Seq(S) /\ Distinct(t) /\ Distinct(u)
               /\ Members(t) \cap Members(u) = {} /\ Members(t) \cup Members(u) = Members(s)
  <1>1. PICK t, u : t = SubSeq(s, 1, n) /\ u = SubSeq(s, n + 1, Len(s))
    OBVIOUS
  <1>2. /\ t \in Seq(S) /\ u \in Seq(S) /\ Len(t) = n /\ Len(s) \in Nat /\ n \in Nat
        /\ \A i \in 1..n : t[i] = s[i] /\ i \in 1..Len(s)
    BY <1>1
  <1>3. Len(u) = Len(s) - n /\ Len(u) \in Nat
    BY <1>1, <1>2
  <1>4. \A i \in 1..Len(u) : u[i] = s[n + i] /\ n + i \in 1..Len(s) /\ n + i \notin 1..n
    <2> SUFFICES ASSUME NEW i \in 1..Len(u)
                 PROVE  u[i] = s[n + i] /\ n + i \in 1..Len(s) /\ n + i \notin 1..n
      OBVIOUS
    <2>1. n + i \in 1..Len(s) /\ n + i \notin 1..n /\ n + i = (n + 1) + i - 1
      BY <1>2, <1>3
    <2>2. u[i] = s[(n + 1) + i - 1]
      BY <1>1, <1>2, <1>3
    <2> QED BY <2>1, <2>2
  <1>5. Distinct(t)
    BY <1>2 DEF Distinct
  <1>6. Distinct(u)
    <2> SUFFICES ASSUME NEW i \in 1..Len(u), NEW j \in 1..Len(u), i # j PROVE u[i] # u[j]
      BY DEF Distinct
    <2>1. n + i # n + j
      BY <1>2, <1>3
    <2> QED BY <1>4, <2>1 DEF Distinct
  <1>7. Members(t) \cap Members(u) = {}
    <2>1. ASSUME NEW i \in 1..Len(t), NEW j \in 1..Len(u) PROVE t[i] # u[j]
      <3>1. i \in 1..Len(s) /\ n + j \in 1..Len(s) /\ i # n + j /\ t[i] = s[i] /\ u[j] = s[n + j]
        BY <1>2, <1>4
      <3> QED BY <3>1 DEF Distinct
    <2> QED BY <2>1 DEF Members
  <1>8. Members(t) \cup Members(u) = Members(s)
    <2>1. Members(t) \subseteq Members(s)
      BY <1>2 DEF Members
    <2>3. Members(u) \subseteq Members(s)
      <3>1. ASSUME NEW i \in 1..Len(u) PROVE u[i] \in Members(s)
        <4>1. PICK j \in 1..Len(s) : u[i] = s[j]
          BY <1>4
        <4> QED BY <4>1 DEF Members
      <3> QED BY <3>1 DEF Members
    <2>2. ASSUME NEW i \in 1..Len(s) PROVE s[i] \in Members(t) \cup Members(u)
      <3>1. CASE i <= n
        BY <1>2, <3>1 DEF Members
      <3>2. CASE i > n
        <4>1. i - n \in 1..Len(u) /\ n + (i - n) = i
          BY <1>2, <1>3, <3>2
        <4>2. u[i - n] = s[i]
          BY <1>4, <4>1
        <4> QED BY <4>1, <4>2 DEF Members
      <3> QED BY <1>2, <3>1, <3>2
    <2> QED BY <2>1, <2>2, <2>3 DEF Members
  <1> QED BY <1>1, <1>2, <1>5, <1>6, <1>7, <1>8

\* Two sequences that share nothing are joined.
LEMMA DistinctConcat ==
    ASSUME NEW S, NEW s \in Seq(S), NEW t \in Seq(S), Distinct(s), Distinct(t),
           Members(s) \cap Members(t) = {}
    PROVE  s \o t \in Seq(S) /\ Distinct(s \o t) /\ Members(s \o t) = Members(s) \cup Members(t)
  <1>1. PICK u : u = s \o t
    OBVIOUS
  <1>2. /\ u \in Seq(S) /\ Len(u) = Len(s) + Len(t) /\ Len(s) \in Nat /\ Len(t) \in Nat
        /\ \A i \in 1..Len(s) : u[i] = s[i] /\ i \in 1..Len(u)
    BY <1>1
  <1>3. \A i \in 1..Len(t) : u[Len(s) + i] = t[i] /\ Len(s) + i \in 1..Len(u)
    BY <1>1, <1>2
  <1>4. \A i \in 1..Len(u) : i \in 1..Len(s) \/ (i - Len(s) \in 1..Len(t) /\ Len(s) + (i - Len(s)) = i)
    BY <1>2
  <1>5. \A i \in 1..Len(u) : i \notin 1..Len(s) => u[i] = t[i - Len(s)]
    BY <1>3, <1>4
  <1>6. \A i \in 1..Len(s), j \in 1..Len(t) : s[i] # t[j]
    BY DEF Members
  <1>7. Distinct(u)
    <2> SUFFICES ASSUME NEW i \in 1..Len(u), NEW j \in 1..Len(u), i # j PROVE u[i] # u[j]
      BY DEF Distinct
    <2>1. CASE i \in 1..Len(s) /\ j \in 1..Len(s)
      BY <1>2, <2>1 DEF Distinct
    <2>2. CASE i \in 1..Len(s) /\ j \notin 1..Len(s)
      BY <1>2, <1>4, <1>5, <1>6, <2>2
    <2>3. CASE i \notin 1..Len(s) /\ j \in 1..Len(s)
      BY <1>2, <1>4, <1>5, <1>6, <2>3
    <2>4. CASE i \notin 1..Len(s) /\ j \notin 1..Len(s)
      <3>1. i - Len(s) # j - Len(s)
        BY <1>2
      <3> QED BY <1>4, <1>5, <2>4, <3>1 DEF Distinct
    <2> QED BY <2>1, <2>2, <2>3, <2>4
  <1>8. Members(u) = Members(s) \cup Members(t)
    <2>1. Members(s) \subseteq Members(u)
      BY <1>2 DEF Members
    <2>2. Members(t) \subseteq Members(u)
      BY <1>3 DEF Members
    <2>3. ASSUME NEW i \in 1..Len(u) PROVE u[i] \in Members(s) \cup Members(t)
      BY <1>2, <1>4, <1>5 DEF Members
    <2> QED BY <2>1, <2>2, <2>3 DEF Members
  <1> QED BY <1>1, <1>2, <1>7, <1>8

-----------------------------------------------------------------------------
(* run_all, Future and RequestQueue                                        *)

Places == {"new", "requesting", "waiting", "resumed", "finished", "starting", "getting", "done",
           "receiving", "serving", "working", "answering", "closing"}
Outcomes == {"none", "value", "error"}

RunTypes ==
    /\ pc \in [0..Run!server -> Places] /\ next \in Nat
    /\ request_cbs \in Seq(Run!Callables) /\ batch \in Seq(Run!Callables)
    /\ receiver_cb \in BOOLEAN
    /\ outcome \in [Run!Callables -> Outcomes] /\ result \in [Run!Callables -> Outcomes]
    /\ collected \in Seq(Outcomes)

\* Who waits is in the queue or in the server's batch, and in one of them once.
HeldInv ==
    /\ Distinct(request_cbs) /\ Distinct(batch) /\ Members(request_cbs) \cap Members(batch) = {}
    /\ \A c \in Run!Callables : pc[c] = "waiting" <=> c \in Members(request_cbs) \cup Members(batch)

\* The receiver is set while the server waits for a request, and then there is none.
ReceiverInv ==
    /\ receiver_cb <=> pc[Run!server] = "receiving"
    /\ receiver_cb => request_cbs = << >> /\ batch = << >>

\* Where run_all is, and what it has collected.
CollectInv ==
    /\ \A c \in Run!Callables : pc[c] # "finished" => result[c] = "none"
    /\ next >= 1 /\ pc[Run!main] \in {"starting", "getting", "done"}
    /\ pc[Run!main] = "starting" =>
           collected = << >> /\ \A c \in Run!Callables : c >= next => pc[c] = "new"
    /\ pc[Run!main] = "getting" => next <= N /\ Len(collected) = next - 1
    /\ Len(collected) <= N
    /\ \A i \in 1..Len(collected) : collected[i] = result[i] /\ result[i] # "none"
    /\ pc[Run!main] = "done" => (\E i \in 1..Len(collected) : collected[i] = "error") \/ Len(collected) = N

RunInv == RunTypes /\ HeldInv /\ ReceiverInv /\ CollectInv

\* The coroutines are numbers: run_all is 0, then the callables, then the server.
LEMMA RunConstants ==
    ASSUME Run!ConcurAssumption
    PROVE  /\ N \in Nat /\ N >= 1 /\ Run!server = N + 1 /\ Run!main = 0 /\ Run!Callables = 1..N
           /\ Run!server \notin Run!Callables /\ Run!main \notin Run!Callables /\ Run!main # Run!server
           /\ Run!Callables \subseteq 0..Run!server /\ Run!main \in 0..Run!server /\ Run!server \in 0..Run!server
  BY DEF Run!ConcurAssumption, Run!server, Run!main, Run!Callables

\* run_all starts, and the server waits.
LEMMA InitRun == Run!ConcurAssumption /\ Run!Init => RunInv
  <1> SUFFICES ASSUME Run!ConcurAssumption, Run!Init PROVE RunInv
    OBVIOUS
  <1>0. \A c \in Run!Callables : pc[c] = "new"
    BY RunConstants DEF Run!Init
  <1>1. pc[Run!main] = "starting" /\ pc[Run!server] = "receiving" /\ pc \in [0..Run!server -> Places]
    BY RunConstants DEF Run!Init, Places
  <1>2. request_cbs = << >> /\ batch = << >> /\ collected = << >> /\ next = 1 /\ receiver_cb = TRUE
        /\ Len(request_cbs) = 0 /\ Len(batch) = 0 /\ Len(collected) = 0
    BY DEF Run!Init
  <1>3. RunTypes
    BY <1>1, <1>2 DEF RunTypes, Run!Init, Outcomes
  <1>4. HeldInv
    BY <1>0, <1>2 DEF HeldInv, Distinct, Members
  <1>5. ReceiverInv
    BY <1>1, <1>2 DEF ReceiverInv
  <1>6. CollectInv
    BY <1>0, <1>1, <1>2, RunConstants DEF CollectInv, Run!Init
  <1> QED BY <1>3, <1>4, <1>5, <1>6 DEF RunInv

\* What does not depend on the server's place, or on who waits.
LEMMA CollectKept ==
    ASSUME RunInv, UNCHANGED <<next, collected, result>>, pc'[Run!main] = pc[Run!main],
           \A c \in Run!Callables : /\ pc'[c] # "finished" => pc[c] # "finished"
                                    /\ pc[c] = "new" => pc'[c] = "new"
    PROVE  CollectInv'
  BY DEF RunInv, CollectInv

\* run_all starts a callable, or begins to collect.
LEMMA StartRun ==
    ASSUME Run!ConcurAssumption, RunInv, Run!Start PROVE RunInv'
  <1>0. /\ pc[Run!main] = "starting" /\ collected = << >> /\ Len(collected) = 0
        /\ \A c \in Run!Callables : c >= next => pc[c] = "new"
        /\ UNCHANGED <<made_requests, outcome, result, result_cb, collected, request_cbs, receiver_cb, final_exn,
           batch>>
    BY DEF Run!Start, Run!Runs, Run!futures, Run!queue, RunInv, CollectInv
  <1>1. CASE next <= N
    <2>1. next \in Run!Callables /\ pc[next] = "new" /\ next' = next + 1 /\ pc' = [pc EXCEPT ![next] = "requesting"]
      BY <1>0, <1>1, RunConstants DEF Run!Start, Run!Goto, RunInv, RunTypes, CollectInv
    <2>2. \A c \in 0..Run!server : pc'[c] = IF c = next THEN "requesting" ELSE pc[c]
      BY <2>1 DEF RunInv, RunTypes
    <2>3. RunTypes'
      <3>1. pc' \in [0..Run!server -> Places]
        BY <2>1 DEF RunInv, RunTypes, Places
      <3>2. next' \in Nat
        BY <2>1 DEF RunInv, RunTypes
      <3> QED BY <1>0, <3>1, <3>2 DEF RunInv, RunTypes
    <2>4. HeldInv'
      <3>1. \A c \in Run!Callables : pc'[c] = "waiting" <=> pc[c] = "waiting"
        BY <2>1, <2>2, RunConstants
      <3> QED BY <1>0, <3>1 DEF RunInv, HeldInv
    <2>5. ReceiverInv'
      BY <1>0, <2>1, <2>2, RunConstants DEF RunInv, ReceiverInv
    <2>6. CollectInv'
      BY <1>0, <2>1, <2>2, RunConstants DEF RunInv, RunTypes, CollectInv
    <2> QED BY <2>3, <2>4, <2>5, <2>6 DEF RunInv
  <1>2. CASE ~(next <= N)
    <2>1. next' = 1 /\ pc' = [pc EXCEPT ![Run!main] = "getting"]
      BY <1>2 DEF Run!Start, Run!Goto
    <2>2. \A c \in 0..Run!server : pc'[c] = IF c = Run!main THEN "getting" ELSE pc[c]
      BY <2>1 DEF RunInv, RunTypes
    <2>3. RunTypes'
      BY <1>0, <2>1 DEF RunInv, RunTypes, Places
    <2>4. HeldInv'
      BY <1>0, <2>2, RunConstants DEF RunInv, HeldInv
    <2>5. ReceiverInv'
      BY <1>0, <2>1, <2>2, RunConstants DEF RunInv, ReceiverInv
    <2>6. CollectInv'
      BY <1>0, <2>1, <2>2, RunConstants DEF RunInv, RunTypes, CollectInv
    <2> QED BY <2>3, <2>4, <2>5, <2>6 DEF RunInv
  <1> QED BY <1>1, <1>2

\* run_all takes the next result, waits for it, or ends.
LEMMA GetRun ==
    ASSUME Run!ConcurAssumption, RunInv, Run!Get PROVE RunInv'
  <1>0. /\ pc[Run!main] = "getting" /\ next \in 1..N /\ Len(collected) = next - 1 /\ next \in Run!Callables
        /\ UNCHANGED <<made_requests, outcome, result, request_cbs, receiver_cb, final_exn, batch>>
    BY RunConstants DEF Run!Get, Run!Runs, Run!queue, RunInv, RunTypes, CollectInv
  <1>1. CASE result[next] = "none"
    <2>1. UNCHANGED <<pc, next, collected>>
      BY <1>1 DEF Run!Get
    <2> QED BY <1>0, <2>1 DEF RunInv, RunTypes, HeldInv, ReceiverInv, CollectInv
  <1>2. CASE result[next] # "none"
    <2>1. collected' = Append(collected, result[next])
      BY <1>2 DEF Run!Get
    <2>2. /\ collected' \in Seq(Outcomes) /\ Len(collected') = next /\ collected'[next] = result[next]
          /\ \A i \in 1..Len(collected) : collected'[i] = collected[i]
      <3>1. result[next] \in Outcomes /\ collected \in Seq(Outcomes)
        BY <1>0 DEF RunInv, RunTypes
      <3>2. Len(collected) + 1 = next
        BY <1>0, RunConstants
      <3> QED BY <2>1, <3>1, <3>2
    <2>3. \A i \in 1..Len(collected') : collected'[i] = result'[i] /\ result'[i] # "none"
      <3>1. \A i \in 1..next : i = next \/ i \in 1..Len(collected)
        BY <1>0, RunConstants
      <3> QED BY <1>0, <1>2, <2>2, <3>1 DEF RunInv, CollectInv
    <2>4. CASE result[next] = "error" \/ next = N
      <3>1. pc' = [pc EXCEPT ![Run!main] = "done"] /\ next' = next
        BY <1>2, <2>4 DEF Run!Get, Run!Goto
      <3>2. \A c \in 0..Run!server : pc'[c] = IF c = Run!main THEN "done" ELSE pc[c]
        BY <3>1 DEF RunInv, RunTypes
      <3>3. RunTypes'
        BY <1>0, <2>2, <3>1 DEF RunInv, RunTypes, Places
      <3>4. HeldInv'
        BY <1>0, <3>2, RunConstants DEF RunInv, HeldInv
      <3>5. ReceiverInv'
        BY <1>0, <3>1, <3>2, RunConstants DEF RunInv, ReceiverInv
      <3>6. CollectInv'
        <4>1. \A c \in Run!Callables : pc'[c] # "finished" => result'[c] = "none"
          BY <1>0, <3>2, RunConstants DEF RunInv, CollectInv
        <4>2. pc'[Run!main] = "done"
          BY <3>2, RunConstants
        <4>3. (\E i \in 1..Len(collected') : collected'[i] = "error") \/ Len(collected') = N
          BY <1>0, <2>2, <2>4, RunConstants
        <4>4. Len(collected') <= N /\ next' >= 1
          BY <1>0, <2>2, <3>1, RunConstants
        <4> QED BY <4>1, <4>2, <4>3, <4>4, <2>3 DEF CollectInv
      <3> QED BY <3>3, <3>4, <3>5, <3>6 DEF RunInv
    <2>5. CASE ~(result[next] = "error" \/ next = N)
      <3>1. next' = next + 1 /\ UNCHANGED pc
        BY <1>2, <2>5 DEF Run!Get
      <3>3. RunTypes'
        BY <1>0, <2>2, <3>1 DEF RunInv, RunTypes
      <3>4. HeldInv' /\ ReceiverInv'
        BY <1>0, <3>1 DEF RunInv, HeldInv, ReceiverInv
      <3>6. CollectInv'
        <4>1. next + 1 <= N /\ Len(collected') = next' - 1 /\ Len(collected') <= N /\ next' >= 1
          BY <1>0, <2>2, <2>5, <3>1, RunConstants
        <4> QED BY <1>0, <2>3, <3>1, <4>1 DEF RunInv, CollectInv
      <3> QED BY <3>3, <3>4, <3>6 DEF RunInv
    <2> QED BY <2>4, <2>5
  <1> QED BY <1>1, <1>2

\* A callable ends: its result is there, and run_all is resumed if it waits for it.
LEMMA FinishRun ==
    ASSUME Run!ConcurAssumption, RunInv, NEW c \in Run!Callables, Run!Finish(c) PROVE RunInv'
  <1>0. /\ pc[c] = "resumed" /\ c \in 0..Run!server /\ c # Run!main /\ c # Run!server
        /\ UNCHANGED <<next, made_requests, outcome, collected, request_cbs, receiver_cb, final_exn, batch>>
    BY RunConstants DEF Run!Finish, Run!Runs, Run!queue
  <1>1. PICK p \in {"requesting", "finished"} :
            /\ pc' = [pc EXCEPT ![c] = p]
            /\ result' = IF p = "finished" THEN [result EXCEPT ![c] = outcome[c]] ELSE result
    BY DEF Run!Finish, Run!Goto, Run!futures
  <1>2. \A d \in 0..Run!server : pc'[d] = IF d = c THEN p ELSE pc[d]
    BY <1>1 DEF RunInv, RunTypes
  <1>3. RunTypes'
    BY <1>0, <1>1 DEF RunInv, RunTypes, Places
  <1>4. HeldInv'
    <2>1. \A d \in Run!Callables : pc'[d] = "waiting" <=> pc[d] = "waiting"
      BY <1>0, <1>2, RunConstants
    <2> QED BY <1>0, <2>1 DEF RunInv, HeldInv
  <1>5. ReceiverInv'
    BY <1>0, <1>2, RunConstants DEF RunInv, ReceiverInv
  <1>6. CollectInv'
    <2>1. pc'[Run!main] = pc[Run!main]
      BY <1>0, <1>2, RunConstants
    <2>2. result[c] = "none"
      BY <1>0 DEF RunInv, CollectInv
    <2>3. \A d \in Run!Callables : result'[d] = IF d = c /\ p = "finished" THEN outcome[c] ELSE result[d]
      BY <1>1 DEF RunInv, RunTypes
    <2>4. \A d \in Run!Callables : pc'[d] # "finished" => result'[d] = "none"
      <3> SUFFICES ASSUME NEW d \in Run!Callables, pc'[d] # "finished" PROVE result'[d] = "none"
        OBVIOUS
      <3>1. d \in 0..Run!server
        BY RunConstants
      <3>2. CASE d = c
        BY <1>2, <2>2, <2>3, <3>1, <3>2
      <3>3. CASE d # c
        BY <1>2, <2>3, <3>1, <3>3 DEF RunInv, CollectInv
      <3> QED BY <3>2, <3>3
    <2>5. \A i \in 1..Len(collected) : i \in Run!Callables /\ i # c
      <3>1. Len(collected) \in Nat /\ Len(collected) <= N
        BY DEF RunInv, RunTypes, CollectInv
      <3> QED BY <2>2, <3>1, RunConstants DEF RunInv, CollectInv
    <2>6. \A d \in Run!Callables : pc[d] = "new" => pc'[d] = "new"
      BY <1>0, <1>2, RunConstants
    <2> QED BY <1>0, <2>1, <2>3, <2>4, <2>5, <2>6 DEF RunInv, CollectInv
  <1> QED BY <1>3, <1>4, <1>5, <1>6 DEF RunInv

\* A step after which the batch, the queue, and who waits, fit; the server is not
\* "receiving" before or after.
LEMMA RequestRun ==
    ASSUME Run!ConcurAssumption, RunInv, NEW c \in Run!Callables, Run!Request(c) PROVE RunInv'
  <1>0. /\ pc[c] = "requesting" /\ c \in 0..Run!server /\ c # Run!main /\ c # Run!server
        /\ UNCHANGED <<next, result, result_cb, collected>>
        /\ c \notin Members(request_cbs) \cup Members(batch)
    BY RunConstants DEF Run!Request, Run!Runs, Run!futures, RunInv, HeldInv
  <1>1. CASE /\ final_exn /\ pc' = [pc EXCEPT ![c] = "resumed"] /\ outcome' = [outcome EXCEPT ![c] = "error"]
             /\ UNCHANGED <<request_cbs, receiver_cb, batch>>
    <2>2. \A d \in 0..Run!server : pc'[d] = IF d = c THEN "resumed" ELSE pc[d]
      BY <1>1 DEF RunInv, RunTypes
    <2>3. RunTypes'
      BY <1>0, <1>1 DEF RunInv, RunTypes, Places, Outcomes
    <2>4. HeldInv'
      <3>1. \A d \in Run!Callables : pc'[d] = "waiting" <=> pc[d] = "waiting"
        BY <1>0, <2>2, RunConstants
      <3> QED BY <1>1, <3>1 DEF RunInv, HeldInv
    <2>5. ReceiverInv'
      BY <1>0, <1>1, <2>2, RunConstants DEF RunInv, ReceiverInv
    <2>6. CollectInv'
      BY <1>0, <2>2, RunConstants, CollectKept
    <2> QED BY <2>3, <2>4, <2>5, <2>6 DEF RunInv
  <1>2. CASE /\ receiver_cb /\ receiver_cb' = FALSE
             /\ pc' = [pc EXCEPT ![c] = "waiting", ![Run!server] = "serving"] /\ batch' = <<c>>
             /\ UNCHANGED <<outcome, request_cbs>>
    <2>1. request_cbs = << >> /\ batch = << >> /\ Len(request_cbs) = 0 /\ Len(batch) = 0
      BY <1>2 DEF RunInv, ReceiverInv
    <2>2. \A d \in 0..Run!server : pc'[d] = IF d = c THEN "waiting" ELSE IF d = Run!server THEN "serving" ELSE pc[d]
      BY <1>0, <1>2 DEF RunInv, RunTypes
    <2>3. RunTypes'
      <3>1. <<c>> \in Seq(Run!Callables)
        OBVIOUS
      <3>2. pc' \in [0..Run!server -> Places]
        BY <1>2 DEF RunInv, RunTypes, Places
      <3> QED BY <1>0, <1>2, <3>1, <3>2 DEF RunInv, RunTypes
    <2>4. HeldInv'
      <3>1. Members(batch') = {c} /\ Distinct(batch')
        BY <1>2 DEF Members, Distinct
      <3>2. Members(request_cbs) = {} /\ Members(batch) = {}
        BY <2>1 DEF Members
      <3>3. \A d \in Run!Callables : pc'[d] = "waiting" <=> d = c
        BY <1>0, <2>2, <3>2, RunConstants DEF RunInv, HeldInv
      <3> QED BY <1>2, <3>1, <3>2, <3>3 DEF RunInv, HeldInv
    <2>5. ReceiverInv'
      <3>1. pc'[Run!server] = "serving"
        BY <1>0, <2>2, RunConstants
      <3> QED BY <1>2, <3>1 DEF ReceiverInv
    <2>6. CollectInv'
      BY <1>0, <2>2, RunConstants, CollectKept
    <2> QED BY <2>3, <2>4, <2>5, <2>6 DEF RunInv
  <1>3. CASE /\ ~receiver_cb /\ pc' = [pc EXCEPT ![c] = "waiting"]
             /\ request_cbs' = Append(request_cbs, c)
             /\ UNCHANGED <<outcome, receiver_cb, batch>>
    <2>1. /\ request_cbs' \in Seq(Run!Callables) /\ Distinct(request_cbs')
          /\ Members(request_cbs') = Members(request_cbs) \cup {c}
      BY <1>0, <1>3, DistinctAppend DEF RunInv, RunTypes, HeldInv
    <2>2. \A d \in 0..Run!server : pc'[d] = IF d = c THEN "waiting" ELSE pc[d]
      BY <1>3 DEF RunInv, RunTypes
    <2>3. RunTypes'
      BY <1>0, <1>3, <2>1 DEF RunInv, RunTypes, Places
    <2>4. HeldInv'
      BY <1>0, <1>3, <2>1, <2>2, RunConstants DEF RunInv, HeldInv
    <2>5. ReceiverInv'
      BY <1>0, <1>3, <2>2, RunConstants DEF RunInv, ReceiverInv
    <2>6. CollectInv'
      BY <1>0, <2>2, RunConstants, CollectKept
    <2> QED BY <2>3, <2>4, <2>5, <2>6 DEF RunInv
  <1> QED BY <1>1, <1>2, <1>3 DEF Run!Request, Run!Goto, Run!queue

\* A step of the server alone, to the place p, that at most moves requests between the
\* queue and the batch.
LEMMA ServerRun ==
    ASSUME Run!ConcurAssumption, RunInv, NEW p \in Places, pc' = [pc EXCEPT ![Run!server] = p],
           UNCHANGED <<next, outcome, result, collected>>,
           request_cbs' \in Seq(Run!Callables), batch' \in Seq(Run!Callables),
           Distinct(request_cbs'), Distinct(batch'), Members(request_cbs') \cap Members(batch') = {},
           Members(request_cbs') \cup Members(batch') = Members(request_cbs) \cup Members(batch),
           receiver_cb' \in BOOLEAN, receiver_cb' <=> p = "receiving",
           receiver_cb' => request_cbs' = << >> /\ batch' = << >>
    PROVE  RunInv'
  <1>1. \A d \in 0..Run!server : pc'[d] = IF d = Run!server THEN p ELSE pc[d]
    BY DEF RunInv, RunTypes
  <1>2. RunTypes'
    BY DEF RunInv, RunTypes
  <1>3. HeldInv'
    BY <1>1, RunConstants DEF RunInv, HeldInv
  <1>4. ReceiverInv'
    BY <1>1, RunConstants DEF RunInv, ReceiverInv
  <1>5. CollectInv'
    BY <1>1, RunConstants, CollectKept
  <1> QED BY <1>2, <1>3, <1>4, <1>5 DEF RunInv

\* The server takes one request or all there are.
LEMMA GetManyRun ==
    ASSUME Run!ConcurAssumption, RunInv, NEW n \in {1, Len(request_cbs)}, Run!GetMany(n) PROVE RunInv'
  <1>0. /\ pc[Run!server] = "serving" /\ batch = << >> /\ Len(batch) = 0 /\ ~receiver_cb
        /\ UNCHANGED <<next, outcome, result, collected>>
        /\ request_cbs \in Seq(Run!Callables) /\ Distinct(request_cbs) /\ Members(batch) = {}
    BY DEF Run!GetMany, Run!Runs, Run!futures, RunInv, RunTypes, HeldInv, ReceiverInv, Members
  <1>1. CASE request_cbs # << >>
    <2>1. n \in 0..Len(request_cbs) /\ Len(request_cbs) \in Nat
      BY <1>0, <1>1
    <2>2. /\ batch' = SubSeq(request_cbs, 1, n) /\ request_cbs' = SubSeq(request_cbs, n + 1, Len(request_cbs))
          /\ UNCHANGED <<receiver_cb, pc>>
      BY <1>1 DEF Run!GetMany
    <2>3. /\ batch' \in Seq(Run!Callables) /\ request_cbs' \in Seq(Run!Callables)
          /\ Distinct(batch') /\ Distinct(request_cbs')
          /\ Members(batch') \cap Members(request_cbs') = {}
          /\ Members(batch') \cup Members(request_cbs') = Members(request_cbs)
      BY <1>0, <2>1, <2>2, DistinctSplit
    <2>4. pc' = [pc EXCEPT ![Run!server] = "serving"]
      BY <1>0, <2>2 DEF RunInv, RunTypes
    <2>5. "serving" \in Places
      BY DEF Places
    <2>6. Members(request_cbs') \cap Members(batch') = {}
      BY <2>3
    <2>7. Members(request_cbs') \cup Members(batch') = Members(request_cbs) \cup Members(batch)
      BY <1>0, <2>3
    <2>8. receiver_cb' = FALSE
      BY <1>0, <2>2 DEF RunInv, RunTypes
    <2> QED BY <1>0, <2>3, <2>4, <2>5, <2>6, <2>7, <2>8, ServerRun
  <1>2. CASE request_cbs = << >>
    <2>1. receiver_cb' = TRUE /\ pc' = [pc EXCEPT ![Run!server] = "receiving"] /\ UNCHANGED <<batch, request_cbs>>
      BY <1>2 DEF Run!GetMany, Run!Goto
    <2> QED BY <1>0, <1>2, <2>1, ServerRun DEF Places, RunInv, RunTypes, HeldInv
  <1> QED BY <1>1, <1>2

\* The server works on its batch.
LEMMA MovesRun ==
    ASSUME Run!ConcurAssumption, RunInv, Run!Await \/ Run!Resume PROVE RunInv'
  <1>1. /\ UNCHANGED <<next, outcome, result, collected, request_cbs, receiver_cb, batch>>
        /\ pc[Run!server] \in {"serving", "working"}
        /\ \E p \in {"working", "answering"} : pc' = [pc EXCEPT ![Run!server] = p]
    BY DEF Run!Await, Run!Resume, Run!Runs, Run!Goto, Run!futures, Run!queue
  <1>2. ~receiver_cb
    BY <1>1 DEF RunInv, ReceiverInv
  <1> QED BY <1>1, <1>2, ServerRun DEF Places, RunInv, RunTypes, HeldInv

\* The first of the batch is resumed, with the outcome o.
LEMMA ResumesRun ==
    ASSUME Run!ConcurAssumption, RunInv, batch # << >>, NEW o \in Outcomes, NEW p \in {"serving", "closing"},
           ~receiver_cb, pc' = [pc EXCEPT ![Run!server] = p, ![batch[1]] = "resumed"],
           outcome' = [outcome EXCEPT ![batch[1]] = o], batch' = Tail(batch),
           UNCHANGED <<next, result, collected, request_cbs, receiver_cb>>
    PROVE  RunInv'
  <1>0. batch \in Seq(Run!Callables) /\ Distinct(batch)
    BY DEF RunInv, RunTypes, HeldInv
  <1>1. PICK c \in Run!Callables : c = batch[1]
    BY <1>0, DistinctTail
  <1>2. /\ batch' \in Seq(Run!Callables) /\ Distinct(batch') /\ Members(batch') = Members(batch) \ {c}
        /\ c \in Members(batch)
    BY <1>0, <1>1, DistinctTail
  <1>3. \A d \in 0..Run!server : pc'[d] = IF d = c THEN "resumed" ELSE IF d = Run!server THEN p ELSE pc[d]
    BY <1>1, RunConstants DEF RunInv, RunTypes
  <1>4. pc[c] = "waiting"
    BY <1>2 DEF RunInv, HeldInv
  <1>5. RunTypes'
    <2>1. pc' \in [0..Run!server -> Places]
      BY DEF RunInv, RunTypes, Places
    <2> QED BY <1>2, <2>1 DEF RunInv, RunTypes
  <1>6. HeldInv'
    <2>1. c \notin Members(request_cbs)
      BY <1>2 DEF RunInv, HeldInv
    <2>2. \A d \in Run!Callables : pc'[d] = "waiting" <=> d # c /\ pc[d] = "waiting"
      <3>1. \A d \in Run!Callables : d \in 0..Run!server /\ d # Run!server
        BY RunConstants
      <3>2. \A d \in Run!Callables : pc'[d] = IF d = c THEN "resumed" ELSE pc[d]
        BY <1>3, <3>1
      <3>3. \A d \in Run!Callables : d = c => pc'[d] # "waiting"
        <4>1. pc'[c] = "resumed"
          BY <3>2, Zenon
        <4>2. pc'[c] # "waiting"
          BY <4>1, Zenon
        <4> QED BY <4>2, Zenon
      <3>4. \A d \in Run!Callables : d # c => pc'[d] = pc[d]
        BY <3>2
      <3> QED BY <3>3, <3>4, Zenon
    <2>3. \A d \in Run!Callables : pc'[d] = "waiting" <=> d \in Members(request_cbs') \cup Members(batch')
      BY <1>2, <2>1, <2>2 DEF RunInv, HeldInv
    <2> QED BY <1>2, <2>3 DEF RunInv, HeldInv
  <1>7. ReceiverInv'
    BY <1>1, <1>3, RunConstants DEF RunInv, ReceiverInv
  <1>8. CollectInv'
    BY <1>3, <1>4, RunConstants, CollectKept
  <1> QED BY <1>5, <1>6, <1>7, <1>8 DEF RunInv

\* The server answers the first request of its batch.
LEMMA AnswerRun ==
    ASSUME Run!ConcurAssumption, RunInv, NEW o \in {"value", "error"}, Run!Answer(o) PROVE RunInv'
  <1>1. ~receiver_cb
    BY DEF Run!Answer, Run!Runs, RunInv, ReceiverInv
  <1> QED BY <1>1, ResumesRun DEF Run!Answer, Run!futures, Run!queue, Outcomes

\* The server fails and closes the queue: what waits there is to be thrown to, too.
LEMMA CloseRun ==
    ASSUME Run!ConcurAssumption, RunInv, Run!Close PROVE RunInv'
  <1>1. /\ ~receiver_cb /\ UNCHANGED <<next, outcome, result, collected, receiver_cb>>
        /\ request_cbs' = << >> /\ batch' = batch \o request_cbs /\ pc' = [pc EXCEPT ![Run!server] = "closing"]
    BY DEF Run!Close, Run!Runs, Run!Goto, Run!futures, RunInv, ReceiverInv
  <1>2. Len(request_cbs') = 0 /\ Distinct(request_cbs') /\ Members(request_cbs') = {}
    <2>1. Len(request_cbs') = 0
      BY <1>1
    <2> QED BY <2>1 DEF Distinct, Members
  <1>3. /\ batch' \in Seq(Run!Callables) /\ Distinct(batch')
        /\ Members(batch') = Members(batch) \cup Members(request_cbs)
    BY <1>1, DistinctConcat DEF RunInv, RunTypes, HeldInv
  <1>4. request_cbs' \in Seq(Run!Callables)
    BY <1>1
  <1> QED BY <1>1, <1>2, <1>3, <1>4, ServerRun DEF Places, RunInv, RunTypes

\* The exception is thrown to the next that waits, until there is none.
LEMMA ThrowRun ==
    ASSUME Run!ConcurAssumption, RunInv, Run!Throw PROVE RunInv'
  <1>1. pc[Run!server] = "closing" /\ ~receiver_cb /\ UNCHANGED <<next, result, collected, request_cbs, receiver_cb>>
    BY DEF Run!Throw, Run!Runs, Run!futures, Run!queue, RunInv, ReceiverInv
  <1>2. CASE batch = << >>
    <2>1. pc' = [pc EXCEPT ![Run!server] = "done"] /\ UNCHANGED <<outcome, batch>>
      BY <1>2 DEF Run!Throw, Run!Goto
    <2> QED BY <1>1, <2>1, ServerRun DEF Places, RunInv, RunTypes, HeldInv
  <1>3. CASE batch # << >>
    <2>1. /\ pc' = [pc EXCEPT ![batch[1]] = "resumed"] /\ outcome' = [outcome EXCEPT ![batch[1]] = "error"]
          /\ batch' = Tail(batch)
      BY <1>3 DEF Run!Throw, Run!Goto
    <2>2. pc' = [pc EXCEPT ![Run!server] = "closing", ![batch[1]] = "resumed"]
      BY <1>1, <2>1 DEF RunInv, RunTypes
    <2> QED BY <1>1, <1>3, <2>1, <2>2, ResumesRun DEF Outcomes
  <1> QED BY <1>2, <1>3

\* Every step keeps it.
LEMMA NextRun ==
    ASSUME Run!ConcurAssumption
    PROVE  RunInv /\ [Run!Next]_(Run!vars) => RunInv'
  <1> SUFFICES ASSUME RunInv, [Run!Next]_(Run!vars) PROVE RunInv'
    OBVIOUS
  <1>1. CASE Run!Start \/ Run!Get
    BY <1>1, StartRun, GetRun
  <1>2. CASE Run!ServerStep
    BY <1>2, GetManyRun, MovesRun, AnswerRun, CloseRun, ThrowRun DEF Run!ServerStep
  <1>3. CASE UNCHANGED <<pc, next, outcome, result, collected, request_cbs, receiver_cb, batch>>
    BY <1>3 DEF RunInv, RunTypes, HeldInv, ReceiverInv, CollectInv
  <1>4. ASSUME NEW c \in Run!Callables, Run!Request(c) \/ Run!Finish(c) \/ Run!Return(c) PROVE RunInv'
    <2>1. CASE Run!Return(c)
      BY <2>1, <1>3 DEF Run!Return, Run!futures, Run!queue
    <2> QED BY <1>4, <2>1, RequestRun, FinishRun
  <1>5. CASE UNCHANGED Run!vars
    BY <1>5, <1>3 DEF Run!vars, Run!futures, Run!queue
  <1> QED BY <1>1, <1>2, <1>4, <1>5 DEF Run!Next

\* A request that waits is held once, and the results are in order.
LEMMA RunSafe ==
    ASSUME Run!ConcurAssumption
    PROVE  RunInv => Run!HeldOnce /\ Run!ReceiverOnce /\ Run!ResultsInOrder
  <1> SUFFICES ASSUME RunInv PROVE Run!HeldOnce /\ Run!ReceiverOnce /\ Run!ResultsInOrder
    OBVIOUS
  <1>1. PICK held : held = request_cbs \o batch
    OBVIOUS
  <1>2. Distinct(held) /\ Members(held) = Members(request_cbs) \cup Members(batch)
    BY <1>1, DistinctConcat DEF RunInv, RunTypes, HeldInv
  <1>3. \A c \in Run!Callables : pc[c] = "waiting" <=> \E i \in 1..Len(held) : held[i] = c
    BY <1>2 DEF RunInv, HeldInv, Members
  <1>4. Run!HeldOnce
    BY <1>1, <1>2, <1>3 DEF Run!HeldOnce, Distinct
  <1>5. Run!ReceiverOnce /\ Run!ResultsInOrder
    BY DEF RunInv, ReceiverInv, CollectInv, Run!ReceiverOnce, Run!ResultsInOrder
  <1> QED BY <1>4, <1>5

\* However the callables of run_all, and the server that they resume and that resumes
\* them, are nested, and also when it fails: a request is in the queue or in the server's
\* batch, once, exactly as long as its caller waits; _receiver_cb is set just while the
\* server waits; and what run_all has collected are the results of its callables, in
\* their order, the first error the last.
THEOREM RequestsHeldOnce ==
    ASSUME Run!ConcurAssumption
    PROVE  Run!Spec => [](Run!HeldOnce /\ Run!ReceiverOnce /\ Run!ResultsInOrder)
  BY InitRun, NextRun, RunSafe, PTL DEF Run!Spec

-----------------------------------------------------------------------------
(* The epoller's continuation                                              *)

\* A system task that waits for the epollfd, or for a continuation, runs under trio and is known
\* to run.
WaitInv ==
    /\ channel \in Nat /\ systemTask \in {"none", "receive", "wait_readable"} /\ epoller \in {"waits", "runs"}
    /\ ~runRunning => systemTask = "none"
    /\ Wait!OneWaiter

\* No system task runs, and the epoller does.
LEMMA InitWait == Wait!Init => WaitInv
  BY DEF Wait!Init, WaitInv, Wait!OneWaiter

\* Every step keeps the continuation in one place.
LEMMA NextWait ==
    ASSUME WaitInv, [Wait!Next]_(Wait!vars) PROVE WaitInv'
  <1>1. CASE Wait!TrioEnds
    BY <1>1 DEF WaitInv, Wait!OneWaiter, Wait!TrioEnds, Wait!PutBack, Wait!Stopped
  <1>2. CASE Wait!Shift \/ Wait!Wait
    BY <1>2 DEF WaitInv, Wait!OneWaiter, Wait!Shift, Wait!Wait, Wait!Ensured
  <1>3. CASE Wait!Receive \/ Wait!Resume
    BY <1>3 DEF WaitInv, Wait!OneWaiter, Wait!Receive, Wait!Resume
  <1>4. CASE Wait!TrioRun \/ Wait!Readable \/ UNCHANGED Wait!vars
    BY <1>4 DEF WaitInv, Wait!OneWaiter, Wait!TrioRun, Wait!Readable, Wait!vars
  <1> QED BY <1>1, <1>2, <1>3, <1>4 DEF Wait!Next

-----------------------------------------------------------------------------
(* Continuations                                                           *)

Frames == [coro : Conts!Coros, previous : {"TRIO", "NATIVE"}]
On(S) == {S[i].coro : i \in 1..Len(S)}

\* A stack S and the runner R: nobody is on it twice, every frame restores the kind of
\* the one below it, and R is the kind of the top.
StackInv(S, R) ==
    /\ S \in Seq(Frames)
    /\ \A i, j \in 1..Len(S) : i # j => S[i].coro # S[j].coro
    /\ \A i \in 1..Len(S) : S[i].previous = IF i = 1 THEN "TRIO" ELSE Conts!KindOf(S[i - 1].coro)
    /\ R = IF Len(S) = 0 THEN "TRIO" ELSE Conts!KindOf(S[Len(S)].coro)

\* A coroutine that is not on the stack is put on it.
LEMMA PushStack ==
    ASSUME NEW S, NEW R, StackInv(S, R), NEW c \in Conts!Coros, c \notin On(S)
    PROVE  LET T == Append(S, [coro |-> c, previous |-> R])
           IN  StackInv(T, Conts!KindOf(c)) /\ On(T) = On(S) \cup {c} /\ Len(T) > 0 /\ T[Len(T)].coro = c
  <1>1. PICK f : f = [coro |-> c, previous |-> R]
    OBVIOUS
  <1>2. PICK T : T = Append(S, f)
    OBVIOUS
  <1>3. f \in Frames /\ f.coro = c /\ f.previous = R /\ S \in Seq(Frames)
    BY <1>1 DEF Frames, StackInv, Conts!KindOf
  <1>4. /\ T \in Seq(Frames) /\ Len(T) = Len(S) + 1 /\ Len(S) \in Nat /\ T[Len(S) + 1] = f
        /\ \A i \in 1..Len(S) : T[i] = S[i]
    BY <1>2, <1>3
  <1>5. \A i \in 1..Len(S) : S[i].coro # c
    BY DEF On
  <1>6. \A i, j \in 1..Len(T) : i # j => T[i].coro # T[j].coro
    <2> SUFFICES ASSUME NEW i \in 1..Len(T), NEW j \in 1..Len(T), i # j PROVE T[i].coro # T[j].coro
      OBVIOUS
    <2>1. CASE i \in 1..Len(S) /\ j \in 1..Len(S)
      BY <1>4, <2>1 DEF StackInv
    <2>2. CASE i = Len(S) + 1 /\ j \in 1..Len(S)
      BY <1>3, <1>4, <1>5, <2>2
    <2>3. CASE j = Len(S) + 1 /\ i \in 1..Len(S)
      BY <1>3, <1>4, <1>5, <2>3
    <2> QED BY <1>4, <2>1, <2>2, <2>3
  <1>7. ASSUME NEW i \in 1..Len(T) PROVE T[i].previous = IF i = 1 THEN "TRIO" ELSE Conts!KindOf(T[i - 1].coro)
    <2>1. CASE i \in 1..Len(S)
      <3>1. i # 1 => i - 1 \in 1..Len(S)
        BY <2>1, <1>4
      <3> QED BY <1>4, <2>1, <3>1 DEF StackInv
    <2>2. CASE i = Len(S) + 1 /\ Len(S) = 0
      BY <1>3, <1>4, <2>2 DEF StackInv
    <2>3. CASE i = Len(S) + 1 /\ Len(S) # 0
      <3>1. i # 1 /\ i - 1 = Len(S) /\ Len(S) \in 1..Len(S)
        BY <1>4, <2>3
      <3> QED BY <1>3, <1>4, <2>3, <3>1 DEF StackInv
    <2> QED BY <1>4, <2>1, <2>2, <2>3
  <1>8. Len(T) # 0 /\ Len(T) > 0 /\ T[Len(T)].coro = c
    BY <1>3, <1>4
  <1>9. On(T) = On(S) \cup {c}
    <2>1. 1..Len(T) = (1..Len(S)) \cup {Len(S) + 1}
      BY <1>4
    <2> QED BY <1>3, <1>4, <2>1 DEF On
  <1>10. StackInv(T, Conts!KindOf(c))
    BY <1>4, <1>6, <1>7, <1>8 DEF StackInv
  <1> QED BY <1>1, <1>2, <1>8, <1>9, <1>10

\* The top of the stack goes, and the runner is the kind of the one below.
LEMMA PopStack ==
    ASSUME NEW S, NEW R, StackInv(S, R), S # << >>
    PROVE  LET T == SubSeq(S, 1, Len(S) - 1)
           IN  StackInv(T, S[Len(S)].previous) /\ On(T) = On(S) \ {S[Len(S)].coro}
  <1>1. S \in Seq(Frames) /\ Len(S) \in Nat /\ Len(S) # 0
    BY DEF StackInv
  <1>2. PICK n \in Nat : n = Len(S) - 1 /\ Len(S) = n + 1
    BY <1>1
  <1>3. PICK T : T = SubSeq(S, 1, n)
    OBVIOUS
  <1>4. T \in Seq(Frames) /\ Len(T) = n /\ \A i \in 1..n : T[i] = S[i]
    BY <1>1, <1>2, <1>3
  <1>5. \A i \in 1..n : i \in 1..Len(S) /\ i # n + 1
    BY <1>2
  <1>6. StackInv(T, S[n + 1].previous)
    <2>1. ASSUME NEW i \in 1..n, NEW j \in 1..n, i # j PROVE T[i].coro # T[j].coro
      <3>1. i \in 1..Len(S) /\ j \in 1..Len(S) /\ T[i] = S[i] /\ T[j] = S[j]
        BY <1>4, <1>5
      <3> QED BY <2>1, <3>1 DEF StackInv
    <2>2. ASSUME NEW i \in 1..n PROVE T[i].previous = IF i = 1 THEN "TRIO" ELSE Conts!KindOf(T[i - 1].coro)
      <3>1. i # 1 => i - 1 \in 1..n
        BY <1>2
      <3> QED BY <1>4, <1>5, <3>1 DEF StackInv
    <2>3. S[n + 1].previous = IF n = 0 THEN "TRIO" ELSE Conts!KindOf(T[n].coro)
      <3>1. n + 1 \in 1..Len(S) /\ (n + 1) - 1 = n /\ (n + 1 = 1 <=> n = 0) /\ (n # 0 => n \in 1..n)
        BY <1>2
      <3> QED BY <1>4, <3>1 DEF StackInv
    <2> QED BY <1>4, <2>1, <2>2, <2>3 DEF StackInv
  <1>7. On(T) = On(S) \ {S[n + 1].coro}
    <2>1. 1..Len(S) = (1..n) \cup {n + 1}
      BY <1>2
    <2>2. \A i \in 1..n : T[i].coro = S[i].coro /\ S[i].coro # S[n + 1].coro
      BY <1>2, <1>4, <1>5, <2>1 DEF StackInv
    <2> QED BY <1>4, <2>1, <2>2 DEF On
  <1> QED BY <1>2, <1>3, <1>6, <1>7

CoTypes ==
    /\ co_status \in [Conts!Coros -> {"new", "ready", "running", "shifting", "suspended", "done"}]
    /\ shifts \in [Conts!Coros -> 0..MaxShifts]
    /\ conts \subseteq Conts!Coros \X (1..MaxShifts) /\ cancelled \subseteq Conts!Coros \X (1..MaxShifts)
    /\ answered \in [Conts!Coros \X (1..MaxShifts) -> Nat]

InShift(c) == co_status[c] \in {"suspended", "shifting"}

\* Who is on the stack, and who saved a value, is in the state that says so.
StatusInv ==
    /\ \A c \in Conts!Coros : co_status[c] \in {"running", "shifting"} <=> c \in On(co_stack)
    /\ \A c \in Conts!Coros : /\ co_status[c] \in {"shifting", "ready"} => c \in Trio
                              /\ co_status[c] = "new" => shifts[c] = 0
                              /\ InShift(c) => shifts[c] >= 1
    /\ saved \subseteq {t \in Trio : co_status[t] = "shifting"}

\* The shifts of c: each has returned, except the one that c waits in.
AnswerInv(c) ==
    \A n \in 1..MaxShifts :
        answered[<<c, n>>] = IF n > shifts[c] \/ (n = shifts[c] /\ InShift(c)) THEN 0 ELSE 1

\* A continuation that somebody holds is the one its coroutine waits in, unless it was
\* cancelled; who waits is held, or was sent a value, and was not cancelled.
ContInv ==
    /\ \A x \in conts \cup cancelled : x[2] <= shifts[x[1]]
    /\ \A x \in conts \ cancelled : x[2] = shifts[x[1]] /\ InShift(x[1]) /\ x[1] \notin saved
    /\ \A c \in Conts!Coros : InShift(c) =>
           /\ Conts!Current(c) \notin cancelled
           /\ Conts!Current(c) \in conts \/ c \in saved

CoInv ==
    /\ StackInv(co_stack, runner) /\ CoTypes /\ StatusInv /\ ContInv
    /\ \A c \in Conts!Coros : AnswerInv(c)

\* Nobody has run.
LEMMA InitCo == Conts!ContinuationsAssumption /\ Conts!Init => CoInv
  <1> SUFFICES ASSUME Conts!ContinuationsAssumption, Conts!Init PROVE CoInv
    OBVIOUS
  <1>0. MaxShifts \in Nat /\ co_stack = << >> /\ Len(co_stack) = 0
    BY DEF Conts!Init, Conts!ContinuationsAssumption
  <1>1. StackInv(co_stack, runner) /\ On(co_stack) = {}
    <2>1. 1..Len(co_stack) = {} /\ co_stack \in Seq(Frames)
      BY <1>0
    <2>2. runner = "TRIO"
      BY DEF Conts!Init
    <2> QED BY <1>0, <2>1, <2>2 DEF StackInv, On
  <1>2. CoTypes
    BY <1>0 DEF CoTypes, Conts!Init
  <1>3. StatusInv
    BY <1>1, <1>0 DEF StatusInv, Conts!Init, InShift, Conts!Coros
  <1>4. ContInv
    BY DEF ContInv, Conts!Init, InShift
  <1>5. ASSUME NEW c \in Conts!Coros PROVE AnswerInv(c)
    BY <1>0 DEF AnswerInv, Conts!Init
  <1> QED BY <1>1, <1>2, <1>3, <1>4, <1>5 DEF CoInv

\* A step of c alone, to the state s, that makes and cancels no continuation: c does not
\* wait before nor after.
LEMMA GoesOn ==
    ASSUME CoInv, NEW c \in Conts!Coros, NEW s \in {"ready", "running", "done"},
           co_status' = [co_status EXCEPT ![c] = s], ~InShift(c), s = "ready" => c \in Trio,
           UNCHANGED <<shifts, conts, cancelled, saved, answered>>,
           StackInv(co_stack', runner'),
           On(co_stack') = IF s = "running" THEN On(co_stack) \cup {c} ELSE On(co_stack) \ {c}
    PROVE  CoInv'
  <1>1. \A d \in Conts!Coros : co_status'[d] = IF d = c THEN s ELSE co_status[d]
    BY DEF CoInv, CoTypes
  <1>2. CoTypes'
    BY DEF CoInv, CoTypes
  <1>3. \A d \in Conts!Coros : InShift(d)' <=> InShift(d)
    BY <1>1 DEF InShift
  <1>4. StatusInv'
    BY <1>1, <1>3 DEF CoInv, StatusInv, InShift
  <1>5. ContInv'
    <2>1. \A x \in conts : x[1] \in Conts!Coros
      BY DEF CoInv, CoTypes
    <2> QED BY <1>3, <2>1 DEF CoInv, ContInv, Conts!Current
  <1>6. ASSUME NEW d \in Conts!Coros PROVE AnswerInv(d)'
    BY <1>3 DEF CoInv, AnswerInv
  <1> QED BY <1>2, <1>4, <1>5, <1>6 DEF CoInv

\* PushStack, for the stack that there is.
LEMMA PushCo ==
    ASSUME CoInv, NEW c \in Conts!Coros, c \notin On(co_stack), Conts!Push(c)
    PROVE  StackInv(co_stack', runner') /\ On(co_stack') = On(co_stack) \cup {c}
  BY PushStack DEF CoInv, Conts!Push

\* PopStack, for the stack that there is.
LEMMA PopCo ==
    ASSUME CoInv, co_stack # << >>, Conts!Pop
    PROVE  StackInv(co_stack', runner') /\ On(co_stack') = On(co_stack) \ {Conts!Top.coro}
  BY PopStack DEF CoInv, Conts!Pop, Conts!Top

\* The trio loop runs a task that is ready.
LEMMA LoopRunsCo ==
    ASSUME CoInv, NEW t \in Trio, Conts!LoopRuns(t) PROVE CoInv'
  <1>1. t \in Conts!Coros /\ co_status[t] = "ready" /\ t \notin On(co_stack)
    BY DEF CoInv, StatusInv, Conts!LoopRuns, Conts!Coros
  <1>2. StackInv(co_stack', runner') /\ On(co_stack') = On(co_stack) \cup {t}
    BY <1>1, PushCo DEF Conts!LoopRuns
  <1> QED BY <1>1, <1>2, GoesOn DEF Conts!LoopRuns, InShift

\* reset: a new coroutine is started from one that runs.
LEMMA ResetCo ==
    ASSUME CoInv, NEW c \in Conts!Coros, NEW n \in Native, Conts!Reset(c, n) PROVE CoInv'
  <1>1. n \in Conts!Coros /\ co_status[n] = "new" /\ n \notin On(co_stack)
    BY DEF CoInv, StatusInv, Conts!Reset, Conts!Coros
  <1>2. StackInv(co_stack', runner') /\ On(co_stack') = On(co_stack) \cup {n}
    BY <1>1, PushCo DEF Conts!Reset
  <1> QED BY <1>1, <1>2, GoesOn DEF Conts!Reset, InShift

\* A coroutine gives way at a checkpoint, or returns.
LEMMA LeavesCo ==
    ASSUME CoInv, NEW c \in Conts!Coros, (c \in Trio /\ Conts!Checkpoint(c)) \/ Conts!Return(c) PROVE CoInv'
  <1>1. co_stack # << >> /\ Conts!Top.coro = c /\ co_status[c] = "running" /\ Conts!Pop
    BY DEF Conts!Checkpoint, Conts!Return, Conts!Running
  <1>2. StackInv(co_stack', runner') /\ On(co_stack') = On(co_stack) \ {c}
    BY <1>1, PopCo
  <1> QED BY <1>1, <1>2, GoesOn DEF Conts!Checkpoint, Conts!Return, InShift

\* shift: a native coroutine is suspended at once; a trio task first runs the function.
LEMMA ShiftCo ==
    ASSUME Conts!ContinuationsAssumption, CoInv, NEW c \in Conts!Coros, Conts!Shift(c) PROVE CoInv'
  <1>0. MaxShifts \in Nat /\ shifts[c] \in 0..MaxShifts /\ shifts[c] < MaxShifts /\ (c \notin Native => c \in Trio)
    BY DEF Conts!ContinuationsAssumption, CoInv, CoTypes, Conts!Shift, Conts!Coros
  <1>1. PICK n \in 1..MaxShifts : n = shifts[c] + 1
    BY <1>0
  <1>2. /\ co_stack # << >> /\ Conts!Top.coro = c /\ co_status[c] = "running"
        /\ shifts' = [shifts EXCEPT ![c] = n] /\ conts' = conts \cup {<<c, n>>}
        /\ UNCHANGED <<cancelled, saved, answered>>
    BY <1>1 DEF Conts!Shift, Conts!Running
  <1>3. PICK s \in {"suspended", "shifting"} :
            /\ co_status' = [co_status EXCEPT ![c] = s] /\ (s = "shifting" => c \in Trio)
            /\ StackInv(co_stack', runner')
            /\ On(co_stack') = IF s = "shifting" THEN On(co_stack) ELSE On(co_stack) \ {c}
    <2>1. CASE c \in Native
      <3>1. co_status' = [co_status EXCEPT ![c] = "suspended"] /\ Conts!Pop
        BY <2>1 DEF Conts!Shift
      <3> QED BY <1>2, <3>1, PopCo
    <2>2. CASE c \notin Native
      <3>1. co_status' = [co_status EXCEPT ![c] = "shifting"] /\ UNCHANGED <<co_stack, runner>>
        BY <2>2 DEF Conts!Shift
      <3> QED BY <1>0, <2>2, <3>1 DEF CoInv
    <2> QED BY <2>1, <2>2
  <1>4. \A d \in Conts!Coros : /\ co_status'[d] = IF d = c THEN s ELSE co_status[d]
                               /\ shifts'[d] = IF d = c THEN n ELSE shifts[d]
    BY <1>2, <1>3 DEF CoInv, CoTypes
  <1>5. CoTypes'
    BY <1>1, <1>2, <1>3 DEF CoInv, CoTypes
  <1>6. \A d \in Conts!Coros : InShift(d)' <=> (d = c \/ InShift(d))
    BY <1>4 DEF InShift
  <1>7. ~InShift(c) /\ c \in On(co_stack)
    BY <1>2 DEF InShift, CoInv, StatusInv
  <1>8. StatusInv'
    <2>1. \A d \in Conts!Coros : co_status'[d] \in {"running", "shifting"} <=> d \in On(co_stack')
      BY <1>3, <1>4, <1>7 DEF CoInv, StatusInv
    <2>2. \A d \in Conts!Coros : /\ co_status'[d] \in {"shifting", "ready"} => d \in Trio
                                 /\ co_status'[d] = "new" => shifts'[d] = 0
                                 /\ InShift(d)' => shifts'[d] >= 1
      BY <1>1, <1>3, <1>4, <1>6 DEF CoInv, StatusInv
    <2>3. saved' \subseteq {t \in Trio : co_status'[t] = "shifting"}
      BY <1>2, <1>4, <1>7 DEF CoInv, StatusInv, InShift, Conts!Coros
    <2> QED BY <2>1, <2>2, <2>3 DEF StatusInv
  <1>9. ContInv'
    <2>1. \A x \in conts \cup cancelled : x[1] \in Conts!Coros /\ x[2] <= shifts[x[1]] /\ x[2] \in Nat
      BY DEF CoInv, CoTypes, ContInv
    <2>2. <<c, n>> \notin cancelled /\ <<c, n>> \notin conts
      BY <2>1, <1>1, <1>0
    <2>3. \A x \in conts \cup cancelled : x[2] <= shifts'[x[1]]
      BY <2>1, <1>0, <1>1, <1>4
    <2>4. \A x \in conts \ cancelled : x[1] # c /\ x[2] = shifts[x[1]] /\ InShift(x[1]) /\ x[1] \notin saved
      BY <1>7 DEF CoInv, ContInv
    <2>5. c \notin saved
      BY <1>2 DEF CoInv, StatusInv
    <2>6. \A x \in (conts' \cup cancelled') : x[2] <= shifts'[x[1]]
      BY <1>2, <1>4, <1>1, <2>3
    <2>7. \A x \in (conts' \ cancelled') : x[2] = shifts'[x[1]] /\ InShift(x[1])' /\ x[1] \notin saved'
      <3> SUFFICES ASSUME NEW x \in (conts' \ cancelled')
                   PROVE  x[2] = shifts'[x[1]] /\ InShift(x[1])' /\ x[1] \notin saved'
        OBVIOUS
      <3>1. CASE x = <<c, n>>
        BY <1>2, <1>4, <1>6, <2>5, <3>1
      <3>2. CASE x \in conts \ cancelled
        BY <1>2, <1>4, <1>6, <2>1, <2>4, <3>2
      <3> QED BY <1>2, <3>1, <3>2
    <2>8. ASSUME NEW d \in Conts!Coros, InShift(d)'
          PROVE  <<d, shifts'[d]>> \notin cancelled' /\ (<<d, shifts'[d]>> \in conts' \/ d \in saved')
      <3>1. CASE d = c
        BY <1>2, <1>4, <2>2, <3>1
      <3>2. CASE d # c
        BY <1>2, <1>4, <1>6, <2>8, <3>2 DEF CoInv, ContInv, Conts!Current
      <3> QED BY <3>1, <3>2
    <2> QED BY <2>6, <2>7, <2>8 DEF ContInv, Conts!Current
  <1>10. ASSUME NEW d \in Conts!Coros PROVE AnswerInv(d)'
    <2>1. AnswerInv(d)
      BY DEF CoInv
    <2>2. CASE d # c
      BY <1>2, <1>4, <1>6, <2>1, <2>2 DEF AnswerInv
    <2>3. CASE d = c
      <3> SUFFICES ASSUME NEW m \in 1..MaxShifts
                   PROVE  answered[<<c, m>>] = IF m > n \/ m = n THEN 0 ELSE 1
        BY <1>2, <1>4, <1>6, <2>3 DEF AnswerInv
      <3>1. answered[<<c, m>>] = IF m > shifts[c] THEN 0 ELSE 1
        BY <1>7, <2>1, <2>3 DEF AnswerInv
      <3> QED BY <3>1, <1>0, <1>1
    <2> QED BY <2>2, <2>3
  <1> QED BY <1>3, <1>5, <1>8, <1>9, <1>10 DEF CoInv

\* The shift that c waits in returns, and its continuation is used up: taken from those
\* that are held, or cancelled.
LEMMA Answers ==
    ASSUME Conts!ContinuationsAssumption, CoInv, NEW c \in Conts!Coros, InShift(c), NEW s \in {"running", "ready"},
           co_status' = [co_status EXCEPT ![c] = s], UNCHANGED shifts, s = "ready" => c \in Trio,
           Conts!Answer(Conts!Current(c)),
           conts' \subseteq conts, conts \ {Conts!Current(c)} \subseteq conts',
           cancelled \subseteq cancelled', cancelled' \subseteq cancelled \cup {Conts!Current(c)},
           Conts!Current(c) \notin conts' \ cancelled', saved' = saved \ {c},
           StackInv(co_stack', runner'),
           On(co_stack') = IF s = "running" THEN On(co_stack) \cup {c} ELSE On(co_stack) \ {c}
    PROVE  CoInv'
  <1>0. MaxShifts \in Nat /\ shifts[c] \in 1..MaxShifts
    BY DEF Conts!ContinuationsAssumption, CoInv, CoTypes, StatusInv
  <1>1. PICK x : x = <<c, shifts[c]>> /\ x = Conts!Current(c) /\ x \in Conts!Coros \X (1..MaxShifts)
    BY <1>0 DEF Conts!Current
  <1>2. answered' = [answered EXCEPT ![x] = answered[x] + 1]
    BY <1>1 DEF Conts!Answer
  <1>3. \A d \in Conts!Coros : co_status'[d] = IF d = c THEN s ELSE co_status[d]
    BY DEF CoInv, CoTypes
  <1>4. CoTypes'
    <2>1. answered' \in [Conts!Coros \X (1..MaxShifts) -> Nat]
      BY <1>1, <1>2 DEF CoInv, CoTypes
    <2> QED BY <1>1, <2>1 DEF CoInv, CoTypes
  <1>5. \A d \in Conts!Coros : InShift(d)' <=> (d # c /\ InShift(d))
    BY <1>3 DEF InShift
  <1>6. StatusInv'
    <2>1. \A d \in Conts!Coros : co_status'[d] \in {"running", "shifting"} <=> d \in On(co_stack')
      BY <1>3 DEF CoInv, StatusInv
    <2>2. \A d \in Conts!Coros : /\ co_status'[d] \in {"shifting", "ready"} => d \in Trio
                                 /\ co_status'[d] = "new" => shifts'[d] = 0
                                 /\ InShift(d)' => shifts'[d] >= 1
      BY <1>3, <1>5 DEF CoInv, StatusInv
    <2>3. saved' \subseteq {t \in Trio : co_status'[t] = "shifting"}
      BY <1>3 DEF CoInv, StatusInv, Conts!Coros
    <2> QED BY <2>1, <2>2, <2>3 DEF StatusInv
  <1>7. ContInv'
    <2>1. \A y \in (conts' \cup cancelled') : y[2] <= shifts'[y[1]]
      BY <1>0, <1>1 DEF CoInv, ContInv
    <2>2. ASSUME NEW y \in (conts' \ cancelled')
          PROVE  y[2] = shifts'[y[1]] /\ InShift(y[1])' /\ y[1] \notin saved'
      <3>1. y \in conts \ cancelled /\ y # x /\ y[1] \in Conts!Coros /\ y = <<y[1], y[2]>>
        BY <1>1, <2>2 DEF CoInv, CoTypes
      <3>2. y[2] = shifts[y[1]] /\ InShift(y[1]) /\ y[1] \notin saved
        BY <3>1 DEF CoInv, ContInv
      <3>3. y[1] # c
        BY <1>1, <3>1, <3>2
      <3> QED BY <1>5, <3>1, <3>2, <3>3
    <2>3. ASSUME NEW d \in Conts!Coros, InShift(d)'
          PROVE  <<d, shifts'[d]>> \notin cancelled' /\ (<<d, shifts'[d]>> \in conts' \/ d \in saved')
      <3>1. d # c /\ InShift(d) /\ <<d, shifts[d]>> # x
        BY <1>1, <1>5, <2>3
      <3>2. <<d, shifts[d]>> \notin cancelled /\ (<<d, shifts[d]>> \in conts \/ d \in saved)
        BY <3>1 DEF CoInv, ContInv, Conts!Current
      <3> QED BY <1>1, <3>1, <3>2
    <2> QED BY <2>1, <2>2, <2>3 DEF ContInv, Conts!Current
  <1>8. ASSUME NEW d \in Conts!Coros PROVE AnswerInv(d)'
    <2> SUFFICES ASSUME NEW m \in 1..MaxShifts
                 PROVE  answered'[<<d, m>>] = IF m > shifts[d] \/ (m = shifts[d] /\ d # c /\ InShift(d)) THEN 0 ELSE 1
      BY <1>5 DEF AnswerInv
    <2>1. /\ answered[<<d, m>>] = IF m > shifts[d] \/ (m = shifts[d] /\ InShift(d)) THEN 0 ELSE 1
          /\ <<d, m>> \in Conts!Coros \X (1..MaxShifts)
      BY DEF CoInv, AnswerInv
    <2>2. CASE <<d, m>> = x
      <3>1. d = c /\ m = shifts[c]
        BY <1>1, <2>2
      <3>2. answered'[<<d, m>>] = answered[<<d, m>>] + 1
        BY <1>1, <1>2, <2>2 DEF CoInv, CoTypes
      <3> QED BY <1>0, <2>1, <3>1, <3>2
    <2>3. CASE <<d, m>> # x
      <3>1. ~(d = c /\ m = shifts[c])
        BY <1>1, <2>3
      <3>2. answered'[<<d, m>>] = answered[<<d, m>>]
        BY <1>1, <1>2, <2>1, <2>3 DEF CoInv, CoTypes
      <3> QED BY <2>1, <3>1, <3>2
    <2> QED BY <2>2, <2>3
  <1> QED BY <1>4, <1>6, <1>7, <1>8 DEF CoInv

\* trio cancels a task that waits in a shift; its continuation is of no use after that.
LEMMA CancelCo ==
    ASSUME Conts!ContinuationsAssumption, CoInv, NEW t \in Trio, Conts!Cancel(t) PROVE CoInv'
  <1>1. /\ t \in Conts!Coros /\ co_status[t] = "suspended" /\ InShift(t) /\ t \notin On(co_stack) /\ t \notin saved
    BY DEF Conts!Cancel, Conts!Coros, InShift, CoInv, StatusInv
  <1>2. /\ co_status' = [co_status EXCEPT ![t] = "ready"] /\ cancelled' = cancelled \cup {Conts!Current(t)}
        /\ Conts!Answer(Conts!Current(t)) /\ UNCHANGED <<co_stack, runner, shifts, conts, saved>>
    BY DEF Conts!Cancel
  <1>3. StackInv(co_stack', runner') /\ On(co_stack') = On(co_stack) \ {t}
    BY <1>1, <1>2 DEF CoInv
  <1> QED BY <1>1, <1>2, <1>3, Answers

\* The function of a trio shift returned: the task waits, or goes on with the value it was sent.
LEMMA FunctionReturnsCo ==
    ASSUME Conts!ContinuationsAssumption, CoInv, NEW t \in Trio, Conts!FunctionReturns(t) PROVE CoInv'
  <1>1. /\ t \in Conts!Coros /\ co_stack # << >> /\ Conts!Top.coro = t /\ co_status[t] = "shifting" /\ InShift(t)
        /\ t \in On(co_stack) /\ saved' = saved \ {t} /\ UNCHANGED <<shifts, conts, cancelled>>
    BY DEF Conts!FunctionReturns, Conts!Coros, InShift, CoInv, StatusInv
  <1>2. CASE t \in saved
    <2>1. /\ co_status' = [co_status EXCEPT ![t] = "running"] /\ Conts!Answer(Conts!Current(t))
          /\ UNCHANGED <<co_stack, runner>>
      BY <1>2 DEF Conts!FunctionReturns
    <2>2. Conts!Current(t) \notin conts \ cancelled
      BY <1>2 DEF CoInv, ContInv, Conts!Current
    <2>3. StackInv(co_stack', runner') /\ On(co_stack') = On(co_stack) \cup {t}
      BY <1>1, <2>1 DEF CoInv
    <2> QED BY <1>1, <2>1, <2>2, <2>3, Answers
  <1>3. CASE t \notin saved
    <2>1. /\ co_status' = [co_status EXCEPT ![t] = "suspended"] /\ Conts!Pop /\ UNCHANGED answered /\ saved' = saved
      BY <1>1, <1>3 DEF Conts!FunctionReturns
    <2>2. StackInv(co_stack', runner') /\ On(co_stack') = On(co_stack) \ {t}
      BY <1>1, <2>1, PopCo
    <2>3. \A d \in Conts!Coros : /\ co_status'[d] = IF d = t THEN "suspended" ELSE co_status[d]
                                 /\ InShift(d)' <=> InShift(d)
      BY <1>1, <2>1 DEF CoInv, CoTypes, InShift
    <2>4. CoTypes'
      BY <1>1, <2>1 DEF CoInv, CoTypes
    <2>5. StatusInv'
      BY <1>1, <1>3, <2>1, <2>2, <2>3 DEF CoInv, StatusInv, Conts!Coros
    <2>6. ContInv'
      <3>1. \A x \in conts : x[1] \in Conts!Coros
        BY DEF CoInv, CoTypes
      <3> QED BY <1>1, <2>1, <2>3, <3>1 DEF CoInv, ContInv, Conts!Current
    <2>7. ASSUME NEW d \in Conts!Coros PROVE AnswerInv(d)'
      BY <1>1, <2>1, <2>3 DEF CoInv, AnswerInv
    <2> QED BY <2>2, <2>4, <2>5, <2>6, <2>7 DEF CoInv
  <1> QED BY <1>2, <1>3

\* A continuation is sent a value, or thrown: its coroutine is resumed, once.
LEMMA ResumeCo ==
    ASSUME Conts!ContinuationsAssumption, CoInv, NEW x \in conts, Conts!Resume(x) PROVE CoInv'
  <1>1. PICK c \in Conts!Coros : c = x[1] /\ x = <<c, x[2]>>
    BY DEF CoInv, CoTypes
  <1>2. conts' = conts \ {x} /\ UNCHANGED <<shifts, cancelled>>
    BY DEF Conts!Resume
  <1>3. x \notin cancelled => x[2] = shifts[c] /\ InShift(c) /\ c \notin saved /\ x = Conts!Current(c)
    BY <1>1 DEF CoInv, ContInv, Conts!Current
  <1>4. CASE x \in cancelled /\ UNCHANGED <<co_status, co_stack, runner, saved, answered>>
    <2>1. \A d \in Conts!Coros : InShift(d)' <=> InShift(d)
      BY <1>4 DEF InShift
    <2>2. CoTypes'
      BY <1>2, <1>4 DEF CoInv, CoTypes
    <2>3. StatusInv'
      BY <1>2, <1>4, <2>1 DEF CoInv, StatusInv
    <2>4. ContInv'
      <3>1. \A y \in conts : y[1] \in Conts!Coros
        BY DEF CoInv, CoTypes
      <3>2. \A d \in Conts!Coros : InShift(d) => <<d, shifts[d]>> # x
        BY <1>4 DEF CoInv, ContInv, Conts!Current
      <3> QED BY <1>2, <1>4, <2>1, <3>1, <3>2 DEF CoInv, ContInv, Conts!Current
    <2>5. ASSUME NEW d \in Conts!Coros PROVE AnswerInv(d)'
      BY <1>2, <1>4, <2>1 DEF CoInv, AnswerInv
    <2> QED BY <1>4, <2>2, <2>3, <2>4, <2>5 DEF CoInv
  <1>5. CASE /\ x \notin cancelled /\ co_status[c] = "shifting" /\ saved' = saved \cup {c}
             /\ UNCHANGED <<co_status, co_stack, runner, answered>>
    <2>1. \A d \in Conts!Coros : InShift(d)' <=> InShift(d)
      BY <1>5 DEF InShift
    <2>2. CoTypes'
      BY <1>2, <1>5 DEF CoInv, CoTypes
    <2>3. StatusInv'
      <3>1. c \in Trio
        BY <1>5 DEF CoInv, StatusInv
      <3> QED BY <1>2, <1>5, <2>1, <3>1 DEF CoInv, StatusInv
    <2>4. ContInv'
      <3>1. \A y \in conts : y[1] \in Conts!Coros /\ y = <<y[1], y[2]>>
        BY DEF CoInv, CoTypes
      <3>2. \A y \in (conts \ {x}) \ cancelled : y[1] # c
        BY <1>1, <1>3, <1>5, <3>1 DEF CoInv, ContInv
      <3>3. \A y \in (conts' \cup cancelled') : y[2] <= shifts'[y[1]]
        BY <1>2 DEF CoInv, ContInv
      <3>4. \A y \in (conts' \ cancelled') : y[2] = shifts'[y[1]] /\ InShift(y[1])' /\ y[1] \notin saved'
        BY <1>2, <1>5, <2>1, <3>1, <3>2 DEF CoInv, ContInv
      <3>5. \A d \in Conts!Coros : InShift(d)' =>
                <<d, shifts'[d]>> \notin cancelled' /\ (<<d, shifts'[d]>> \in conts' \/ d \in saved')
        BY <1>1, <1>2, <1>5, <2>1 DEF CoInv, ContInv, Conts!Current
      <3> QED BY <3>3, <3>4, <3>5 DEF ContInv, Conts!Current
    <2>5. ASSUME NEW d \in Conts!Coros PROVE AnswerInv(d)'
      BY <1>2, <1>5, <2>1 DEF CoInv, AnswerInv
    <2> QED BY <1>5, <2>2, <2>3, <2>4, <2>5 DEF CoInv
  <1>6. CASE /\ x \notin cancelled /\ co_status[c] = "suspended"
             /\ co_status' = [co_status EXCEPT ![c] = "running"] /\ Conts!Push(c) /\ Conts!Answer(x) /\ UNCHANGED saved
    <2>1. c \notin On(co_stack)
      BY <1>6 DEF CoInv, StatusInv
    <2>2. StackInv(co_stack', runner') /\ On(co_stack') = On(co_stack) \cup {c}
      BY <1>6, <2>1, PushCo
    <2>3. /\ InShift(c) /\ c \notin saved /\ x = Conts!Current(c)
          /\ conts' \subseteq conts /\ conts \ {x} \subseteq conts' /\ x \notin conts' \ cancelled'
          /\ saved' = saved \ {c}
      BY <1>2, <1>3, <1>6
    <2> QED BY <1>2, <1>6, <2>2, <2>3, Answers
  <1> QED BY <1>1, <1>4, <1>5, <1>6 DEF Conts!Resume

\* Every step keeps it.
LEMMA NextCo ==
    ASSUME Conts!ContinuationsAssumption
    PROVE  CoInv /\ [Conts!Next]_(Conts!vars) => CoInv'
  <1> SUFFICES ASSUME CoInv, [Conts!Next]_(Conts!vars) PROVE CoInv'
    OBVIOUS
  <1>1. CASE Conts!ResumeSome
    BY <1>1, ResumeCo DEF Conts!ResumeSome
  <1>2. ASSUME NEW t \in Trio, Conts!LoopRuns(t) \/ Conts!FunctionReturns(t) \/ Conts!Cancel(t) \/ Conts!Checkpoint(t)
        PROVE  CoInv'
    <2>1. t \in Conts!Coros
      BY DEF Conts!Coros
    <2> QED BY <1>2, <2>1, LoopRunsCo, FunctionReturnsCo, CancelCo, LeavesCo
  <1>3. ASSUME NEW c \in Conts!Coros, Conts!Shift(c) \/ Conts!Return(c) \/ \E n \in Native : Conts!Reset(c, n)
        PROVE  CoInv'
    BY <1>3, ShiftCo, LeavesCo, ResetCo
  <1>4. CASE UNCHANGED Conts!vars
    BY <1>4 DEF Conts!vars, CoInv, CoTypes, StatusInv, ContInv, AnswerInv, InShift, Conts!Current
  <1> QED BY <1>1, <1>2, <1>3, <1>4 DEF Conts!Next

\* Every shift has returned once, except those that wait; the rest follows too.
LEMMA CoSafe ==
    ASSUME Conts!ContinuationsAssumption
    PROVE  CoInv => Conts!OwnAnswer /\ Conts!RunnerIsOurs /\ Conts!NotReentered /\ Conts!WaitersAreHeld
  <1> SUFFICES ASSUME CoInv PROVE Conts!OwnAnswer /\ Conts!RunnerIsOurs /\ Conts!NotReentered /\ Conts!WaitersAreHeld
    OBVIOUS
  <1>0. co_stack \in Seq(Frames) /\ (co_stack = << >> <=> Len(co_stack) = 0)
    BY DEF CoInv, StackInv
  <1>1. Conts!RunnerIsOurs
    BY <1>0 DEF CoInv, StackInv, Conts!RunnerIsOurs, Conts!Top
  <1>2. Conts!NotReentered
    BY DEF CoInv, StackInv, StatusInv, On, Conts!NotReentered
  <1>3. Conts!WaitersAreHeld
    BY DEF CoInv, StatusInv, ContInv, InShift, Conts!WaitersAreHeld
  <1>4. Conts!OwnAnswer
    <2>0. MaxShifts \in Nat /\ shifts \in [Conts!Coros -> 0..MaxShifts]
      BY DEF Conts!ContinuationsAssumption, CoInv, CoTypes
    <2>1. ASSUME NEW x \in DOMAIN answered PROVE answered[x] <= 1
      <3>1. x \in Conts!Coros \X (1..MaxShifts)
        BY DEF CoInv, CoTypes
      <3>2. PICK c \in Conts!Coros, n \in 1..MaxShifts : x = <<c, n>>
        BY <3>1
      <3>3. answered[<<c, n>>] \in {0, 1}
        BY DEF CoInv, AnswerInv
      <3> QED BY <3>2, <3>3
    <2>2. ASSUME NEW c \in Conts!Coros, co_status[c] \in {"running", "ready"}, NEW n \in 1..shifts[c]
          PROVE  answered[<<c, n>>] = 1
      <3>1. n \in 1..MaxShifts /\ ~(n > shifts[c]) /\ ~InShift(c)
        BY <2>0, <2>2 DEF InShift
      <3> QED BY <3>1 DEF CoInv, AnswerInv
    <2> QED BY <2>1, <2>2 DEF Conts!OwnAnswer
  <1> QED BY <1>1, <1>2, <1>3, <1>4

\* However deeply coroutines and trio tasks resume each other, and whichever tasks trio
\* cancels: _under_coro_runner names the kind of the coroutine that runs, none is entered
\* while it runs, one that is suspended is held by somebody, and every shift returns
\* once, before the next.
THEOREM ShiftsReturnOnce ==
    ASSUME Conts!ContinuationsAssumption
    PROVE  Conts!Spec => [](Conts!OwnAnswer /\ Conts!RunnerIsOurs /\ Conts!NotReentered /\ Conts!WaitersAreHeld)
  BY InitCo, NextCo, CoSafe, PTL DEF Conts!Spec

\* The invariant gives every variable its type.
LEMMA CoTyped ==
    ASSUME CoInv PROVE Conts!TypeOK
  <1>1. ASSUME NEW i \in 1..Len(co_stack) PROVE co_stack[i] \in [coro : Conts!Coros, previous : {"TRIO", "NATIVE"}]
    <2>1. co_stack \in Seq(Frames)
      BY DEF CoInv, StackInv
    <2>2. co_stack[i] \in Frames
      BY <2>1
    <2> QED BY <2>2 DEF Frames
  <1>2. runner \in {"TRIO", "NATIVE"}
    BY DEF CoInv, StackInv, Conts!KindOf
  <1>3. saved \subseteq Trio /\ conts \cup cancelled \subseteq Conts!Coros \X (1..MaxShifts)
    BY DEF CoInv, CoTypes, StatusInv
  <1> QED BY <1>1, <1>2, <1>3 DEF CoInv, CoTypes, Conts!TypeOK

-----------------------------------------------------------------------------
(* The connection that is shut down                                        *)

\* SyscallConnectionProofs, for that connection.
Shown == INSTANCE SyscallConnectionProofs WITH Faults <- {"shutdown"}

\* The two instances are one specification.
LEMMA ShutShown ==
    /\ Shut!Init <=> Shown!Init
    /\ Shut!Next <=> Shown!Next
    /\ Shut!vars = Shown!vars
    /\ Shut!WrittenCallsReturn <=> Shown!WrittenCallsReturn
  <1>1. Shut!Init <=> Shown!Init
    BY DEF Shut!Init, Shown!Init, Shut!Syscalls, Shown!Syscalls
  <1>2. Shut!Next <=> Shown!Next
    BY DEF
         Shut!callers, Shown!callers, Shut!writing, Shown!writing, Shut!reading, Shown!reading,
         Shut!to, Shown!to, Shut!from, Shown!from, Shut!server, Shown!server, Shut!Syscalls,
         Shown!Syscalls, Shut!ByteOf, Shown!ByteOf, Shut!IsStructOf, Shown!IsStructOf, Shut!Decode,
         Shown!Decode, Shut!Syscall, Shown!Syscall, Shut!PtrDone, Shown!PtrDone, Shut!WriteByte,
         Shown!WriteByte, Shut!GetMany, Shown!GetMany, Shut!ForwardRequests, Shown!ForwardRequests,
         Shut!SendError, Shown!SendError, Shut!ReadResponse, Shown!ReadResponse, Shut!GetOne,
         Shown!GetOne, Shut!Return, Shown!Return, Shut!Hangup, Shown!Hangup, Shut!ServerRead,
         Shown!ServerRead, Shut!ServerPerform, Shown!ServerPerform, Shut!ServerWrite,
         Shown!ServerWrite, Shut!ServerReturn, Shown!ServerReturn, Shut!ServerCloseInfd,
         Shown!ServerCloseInfd, Shut!ServerCloseOutfd, Shown!ServerCloseOutfd, Shut!ShutdownToFd,
         Shown!ShutdownToFd, Shut!ShutdownFromFd, Shown!ShutdownFromFd, Shut!ServerDies,
         Shown!ServerDies, Shut!ConnectionLost, Shown!ConnectionLost, Shut!Client, Shown!Client,
         Shut!Server, Shown!Server, Shut!Fault, Shown!Fault, Shut!Next, Shown!Next
  <1>3. Shut!vars = Shown!vars
    BY DEF Shut!vars, Shut!callers, Shut!writing, Shut!reading, Shut!to, Shut!from, Shut!server,
           Shown!vars, Shown!callers, Shown!writing, Shown!reading, Shown!to, Shown!from, Shown!server
  <1>4. Shut!WrittenCallsReturn <=> Shown!WrittenCallsReturn
    BY DEF Shut!WrittenCallsReturn, Shown!WrittenCallsReturn, Shut!Syscalls, Shown!Syscalls
  <1> QED BY <1>1, <1>2, <1>3, <1>4

-----------------------------------------------------------------------------
(* The behaviours of MCCalls                                               *)

(***************************************************************************)
(* shutdown_current_connection says that a shutdown of the writing side    *)
(* lets the syscalls that were written return: none of them hangs up.      *)
(***************************************************************************)
THEOREM ShutdownReturns == Spec => []WrittenCallsReturn
  <1>0. Shown!OnlyShutdown
    BY DEF Shown!OnlyShutdown
  <1>a. /\ MaxSyscalls \in Nat /\ RequestSize \in Nat \ {0} /\ ResponseSize \in Nat \ {0}
        /\ ToFdCapacity \in Nat \ {0} /\ FromFdCapacity \in Nat \ {0}
        /\ {"shutdown"} \subseteq {"close_interface", "shutdown", "die", "lost"}
    BY CallsAssumption
  <1>1. Init => (running = "shutdown" => Shown!DInv)
    BY <1>a, ShutShown, Shown!InitDelivered DEF Init
  <1>2. (running = "shutdown" => Shown!DInv) /\ [Next]_vars => (running = "shutdown" => Shown!DInv)'
    <2> SUFFICES ASSUME running = "shutdown" => Shown!DInv, [Next]_vars, running' = "shutdown" PROVE Shown!DInv'
      OBVIOUS
    <2>1. running = "shutdown"
      BY DEF Next, vars
    <2>2. [Shown!Next]_(Shown!vars)
      <3>1. CASE Next
        BY <2>1, <3>1, ShutShown DEF Next
      <3>2. CASE UNCHANGED vars
        BY <3>2 DEF vars, connection, Shown!vars, Shown!callers, Shown!writing, Shown!reading, Shown!to,
                    Shown!from, Shown!server
      <3> QED BY <3>1, <3>2
    <2> QED BY <1>0, <1>a, <2>1, <2>2, Shown!NextDelivered
  <1>3. (running = "shutdown" => Shown!DInv) => WrittenCallsReturn
    <2>1. Shown!DInv => Shown!WrittenCallsReturn
      BY DEF Shown!DInv, Shown!DeliveredInv, Shown!HungUp, Shown!WrittenCallsReturn
    <2> QED BY <2>1, ShutShown DEF WrittenCallsReturn
  <1> QED BY <1>1, <1>2, <1>3, PTL DEF Spec

\* run_all's requests, and the epoller's continuation.
HeldOnceInv ==
    /\ running = "concur" => RunInv
    /\ running = "waiting" => WaitInv

(***************************************************************************)
(* A request of run_all's callables is in one place: the queue, the        *)
(* server's batch, or answered, also when the server fails; the server     *)
(* waits when the queue says so; the results are in the order of the       *)
(* callables.  The epoller's continuation is in one place too, however     *)
(* often trio.run ends around it.                                          *)
(***************************************************************************)
THEOREM ContinuationsHeldOnce == Spec => []HeldOnce
  <1>0. Run!ConcurAssumption
    BY CallsAssumption
  <1>1. Init => HeldOnceInv
    BY <1>0, InitRun, InitWait DEF Init, HeldOnceInv
  <1>2. HeldOnceInv /\ [Next]_vars => HeldOnceInv'
    <2> SUFFICES ASSUME HeldOnceInv, [Next]_vars PROVE HeldOnceInv'
      OBVIOUS
    <2>1. running' = running
      BY DEF Next, vars
    <2>2. ASSUME running = "concur" PROVE RunInv'
      <3>1. [Run!Next]_(Run!vars)
        <4>1. CASE Next
          BY <2>2, <4>1 DEF Next
        <4>2. CASE UNCHANGED vars
          BY <4>2 DEF vars, concur, Run!vars, Run!futures, Run!queue
        <4> QED BY <4>1, <4>2
      <3> QED BY <1>0, <2>2, <3>1, NextRun DEF HeldOnceInv
    <2>3. ASSUME running = "waiting" PROVE WaitInv'
      <3>1. [Wait!Next]_(Wait!vars)
        <4>1. CASE Next
          BY <2>3, <4>1 DEF Next
        <4>2. CASE UNCHANGED vars
          BY <4>2 DEF vars, waiting, Wait!vars
        <4> QED BY <4>1, <4>2
      <3> QED BY <2>3, <3>1, NextWait DEF HeldOnceInv
    <2> QED BY <2>1, <2>2, <2>3 DEF HeldOnceInv
  <1>3. HeldOnceInv => HeldOnce
    BY <1>0, RunSafe DEF HeldOnceInv, HeldOnce, WaitInv
  <1> QED BY <1>1, <1>2, <1>3, PTL DEF Spec

(***************************************************************************)
THEOREM OwnAnswers == Spec => []OwnAnswer
  <1>0. Conts!ContinuationsAssumption
    BY CallsAssumption
  <1>1. Init => (running = "coros" => CoInv)
    BY <1>0, InitCo DEF Init
  <1>2. (running = "coros" => CoInv) /\ [Next]_vars => (running = "coros" => CoInv)'
    <2> SUFFICES ASSUME running = "coros" => CoInv, [Next]_vars, running' = "coros" PROVE CoInv'
      OBVIOUS
    <2>1. running = "coros"
      BY DEF Next, vars
    <2>2. [Conts!Next]_(Conts!vars)
      <3>1. CASE Next
        BY <2>1, <3>1 DEF Next
      <3>2. CASE UNCHANGED vars
        BY <3>2 DEF vars, coros, Conts!vars
      <3> QED BY <3>1, <3>2
    <2> QED BY <1>0, <2>1, <2>2, NextCo
  <1>3. (running = "coros" => CoInv) => OwnAnswer
    BY <1>0, CoSafe, CoTyped DEF OwnAnswer
  <1> QED BY <1>1, <1>2, <1>3, PTL DEF Spec
=============================================================================
