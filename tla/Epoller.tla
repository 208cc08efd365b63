------------------------------- MODULE Epoller -------------------------------
(***************************************************************************)
(* epoller.py: an edge-triggered epoll shared by many coroutines.          *)
(*                                                                         *)
(* EpollWaiter is the one coroutine that calls epoll_wait.  Every          *)
(* registered fd has an EpolledFileDescriptor, whose own coroutine asks    *)
(* EpollWaiter for the events of its number and keeps what is known of the *)
(* fd: a mask of what it might be ready for, and for every flag how many   *)
(* events came and how many of them a later syscall has made obsolete.     *)
(* AsyncFileDescriptor waits until that says an operation might succeed,   *)
(* makes the syscall, and on EAGAIN takes the flags away again.            *)
(*                                                                         *)
(* The syscalls on an fd are made in one thread, so their answers are      *)
(* processed in the order in which they were performed.  epoll_wait may be *)
(* called in another thread, and its answer be processed earlier or later  *)
(* than theirs.                                                            *)
(***************************************************************************)
EXTENDS Integers, Sequences, FiniteSets, Subsequences

CONSTANTS
    Regs,             \* the EpolledFileDescriptors of a run
    FdNumber,         \* the fd number each of them is for
    Unconnected,      \* those that are sockets still to be connected
    Clients,          \* the coroutines that use AsyncFileDescriptors
    Ops,              \* the methods they call in this run
    Arrivals,         \* the flags that may become ready in this run
    MaxArrivals,      \* bound: how often an fd becomes ready for something
    MaxEvents,        \* how many events fit into input_buf
    Faults            \* what may go wrong in this run

Flags == {"IN", "OUT", "RDHUP", "HUP", "ERR"}

EpollerAssumption ==
    /\ IsFiniteSet(Regs) /\ FdNumber \in [Regs -> Nat]
    /\ Unconnected \subseteq Regs
    /\ Arrivals \subseteq Flags
    /\ MaxArrivals \in Nat /\ MaxEvents \in Nat \ {0}
    /\ Faults \subseteq {"cancel", "epoll_wait", "delete", "connect"}

VARIABLES
    level,            \* what poll would say of the file now
    rdlist,           \* the epoll's ready list: who has an event to report
    conn,             \* the state of a socket as a connection
    arrivals,         \* how many Arrive steps there have been
    reg,              \* where each registration is in its life
    number,           \* the number it was given; 0: none yet
    pending_remove,   \* numbers to be removed after the next epoll_wait
    waiter,           \* where EpollWaiter._run is
    received,         \* the events of the epoll_wait that was performed
    callback,         \* where an EpolledFileDescriptor's request is
    mask,             \* FDStatus.mask
    total, consumed,  \* total_events and consumed_events
    queue,            \* who wait_for has put on EpolledFileDescriptor.queue
    waiters,          \* who _run has moved to its waiters
    call,             \* what each client is doing
    answers,          \* syscalls performed but not processed, in order
    done              \* the sockets for which connect has returned

kernel  == <<level, rdlist, conn, arrivals>>
wait    == <<waiter, received, pending_remove>>
epolled == <<reg, number, callback, mask, total, consumed, queue, waiters>>
vars    == <<kernel, wait, epolled, call, answers, done>>

\* What each operation waits for, and what an error of it makes ready.
WaitFlags == [read     |-> {"IN", "RDHUP", "HUP", "ERR"},
              accept   |-> {"IN", "HUP", "ERR"},
              write    |-> {"OUT", "ERR"},
              rdhup    |-> {"RDHUP", "HUP"},
              connect  |-> {"OUT"},
              so_error |-> {"OUT"}]

ErrorFlags == [read |-> {"ERR"}, accept |-> {"HUP", "ERR"}, write |-> {"ERR"},
               so_error |-> {"ERR"}]

Zero == [f \in Flags |-> 0]

(***************************************************************************)
(* A client is idle, or waits in wait_for, or its syscall is on its way    *)
(* ("call") or has been performed ("answer"); current is what it got from  *)
(* get_current_events before the syscall.                                  *)
(***************************************************************************)
State(pc, o, r, current, outcome) ==
    [pc |-> pc, op |-> o, fd |-> r, current |-> current, outcome |-> outcome]

Idle == State("idle", "none", "none", Zero, "none")

Init ==
    /\ level = [r \in Regs |-> IF r \in Unconnected THEN {"OUT", "HUP"} ELSE {"OUT"}]
    /\ conn = [r \in Regs |-> IF r \in Unconnected THEN "unconnected" ELSE "connected"]
    /\ rdlist = << >> /\ arrivals = 0
    /\ waiter = "epoll_wait" /\ received = {} /\ pending_remove = {}
    /\ reg = [r \in Regs |-> "new"] /\ number = [r \in Regs |-> 0]
    /\ callback = [r \in Regs |-> "none"]
    /\ mask = [r \in Regs |-> {"OUT", "IN"}]
    /\ total = [r \in Regs |-> Zero] /\ consumed = [r \in Regs |-> Zero]
    /\ queue = [r \in Regs |-> {}] /\ waiters = [r \in Regs |-> {}]
    /\ call = [c \in Clients |-> Idle]
    /\ answers = << >> /\ done = {}

-----------------------------------------------------------------------------
(* The kernel *)

InRdlist(r) == \E i \in 1..Len(rdlist) : rdlist[i] = r
Without(s, r) == Only(s, Regs \ {r})

\* ep_poll_callback: whatever happens to a file puts it on the ready list.
Wakeup(r) ==
    rdlist' = IF reg[r] \in {"added", "registered"} /\ ~InRdlist(r)
              THEN Append(rdlist, r) ELSE rdlist

\* The file becomes ready for flag; a hangup makes everything ready.
Arrive(r, flag) ==
    /\ arrivals < MaxArrivals
    /\ conn[r] = "connected" /\ reg[r] # "closed"
    /\ arrivals' = arrivals + 1
    /\ level' = [level EXCEPT ![r] =
         @ \cup (IF flag = "HUP" THEN {"IN", "OUT", "RDHUP", "HUP"}
                 ELSE IF flag = "RDHUP" THEN {"IN", "RDHUP"} ELSE {flag})]
    /\ Wakeup(r)
    /\ UNCHANGED <<conn, wait, epolled, call, answers, done>>

\* The handshake that connect began ends.
Established(r, result) ==
    /\ conn[r] = "connecting"
    /\ conn' = [conn EXCEPT ![r] = result]
    /\ level' = [level EXCEPT ![r] =
         IF result = "connected" THEN {"OUT"} ELSE Flags]
    /\ Wakeup(r)
    /\ UNCHANGED <<arrivals, wait, epolled, call, answers, done>>

\* The answer of c's syscall is the next one, and is processed.
Process(c) == answers # << >> /\ Head(answers) = c /\ answers' = Tail(answers)

-----------------------------------------------------------------------------
(* Epoller.register and EpolledFileDescriptor.delete *)

\* allocate_number: the fd number, plus 1000 until nobody ever had it.
AllocateNumber(r) ==
    LET free == {k \in 0..Cardinality(Regs) :
                    \A q \in Regs : number[q] # FdNumber[r] + 1000 * k}
    IN  FdNumber[r] + 1000 * (CHOOSE k \in free : \A j \in free : k <= j)

\* register: the coroutine of the new EpolledFileDescriptor asks for events.
Register(r) ==
    /\ reg[r] = "new"
    /\ \A q \in Regs : FdNumber[q] = FdNumber[r] => reg[q] \in {"new", "closed"}
    /\ reg' = [reg EXCEPT ![r] = "adding"]
    /\ number' = [number EXCEPT ![r] = AllocateNumber(r)]
    /\ callback' = [callback EXCEPT ![r] =
         IF waiter = "failed" THEN "ended" ELSE "queued"]
    /\ UNCHANGED <<kernel, wait, mask, total, consumed, queue, waiters, call,
                   answers, done>>

\* EPOLL_CTL_ADD, and its answer.
EpollAdd(r) ==
    /\ reg[r] = "adding"
    /\ reg' = [reg EXCEPT ![r] = "added"]
    /\ rdlist' = IF level[r] # {} THEN Append(rdlist, r) ELSE rdlist
    /\ UNCHANGED <<level, conn, arrivals, wait, number, callback, mask, total,
                   consumed, queue, waiters, call, answers, done>>

Registered(r) ==
    /\ reg[r] = "added"
    /\ reg' = [reg EXCEPT ![r] = "registered"]
    /\ UNCHANGED <<kernel, wait, number, callback, mask, total, consumed, queue,
                   waiters, call, answers, done>>

\* EPOLL_CTL_DEL takes the fd off the ready list too; events may be in flight.
Delete(r) ==
    /\ "delete" \in Faults
    /\ reg[r] = "registered"
    /\ reg' = [reg EXCEPT ![r] = "deleting"]
    /\ rdlist' = Without(rdlist, r)
    /\ UNCHANGED <<level, conn, arrivals, wait, number, callback, mask, total,
                   consumed, queue, waiters, call, answers, done>>

\* Mutant of Deleted: the callback is removed at once.
DeletedAtOnce(r) ==
    /\ reg[r] = "deleting"
    /\ reg' = [reg EXCEPT ![r] = "closed"]
    /\ callback' = [callback EXCEPT ![r] = "ended"]
    /\ UNCHANGED <<kernel, wait, number, mask, total, consumed, queue, waiters,
                   call, answers, done>>

\* The answer of the DEL; AsyncFileDescriptor.close then closes the fd.
Deleted(r) ==
    /\ reg[r] = "deleting"
    /\ reg' = [reg EXCEPT ![r] = "closed"]
    /\ pending_remove' = pending_remove \cup {number[r]}
    /\ UNCHANGED <<kernel, waiter, received, number, callback, mask, total,
                   consumed, queue, waiters, call, answers, done>>

-----------------------------------------------------------------------------
(* EpollWaiter._run *)

Live == Only(rdlist, {r \in Regs : level[r] # {}})

\* epoll_wait reports what the files on the ready list are ready for now.
EpollWait ==
    LET n == IF Len(Live) < MaxEvents THEN Len(Live) ELSE MaxEvents
    IN  /\ waiter = "epoll_wait" /\ Live # << >>
        /\ received' = {[data |-> number[Live[i]], events |-> level[Live[i]],
                         reg |-> Live[i]] : i \in 1..n}
        /\ rdlist' = SubSeq(Live, n + 1, Len(Live))
        /\ waiter' = "answer"
        /\ UNCHANGED <<level, conn, arrivals, pending_remove, epolled, call,
                       answers, done>>

\* There is other work for the thread (the activity fd), or the timeout is 0.
EpollWaitEmpty ==
    /\ waiter = "epoll_wait" /\ Live = << >>
    /\ received' = {}
    /\ waiter' = "answer"
    /\ UNCHANGED <<kernel, pending_remove, epolled, call, answers, done>>

\* The events of the epoll_wait for registration r.
EventsOf(r) ==
    IF callback[r] = "ended" THEN {}
    ELSE UNION {e.events : e \in {x \in received : x.data = number[r]}}

Waiting(r) == queue[r] \cup waiters[r]
Resumed(r) == {c \in Waiting(r) : WaitFlags[call[c].op] \cap EventsOf(r) # {}}
Removed(r) == number[r] \in pending_remove /\ callback[r] # "ended"

\* Whoever still is on the queue of a removed registration is told.
Thrown(r) == IF Removed(r) /\ EventsOf(r) = {} THEN queue[r] ELSE {}

\* After wait_for: the syscall of operation o, unless there is none to make.
Proceed(o, r, events) ==
    IF o = "rdhup" \/ reg[r] = "closed" THEN Idle
    ELSE State("call", o, r,
               [f \in Flags |-> IF f \in WaitFlags[o] THEN events[f] ELSE 0], "none")

(***************************************************************************)
(* The events are handed to the coroutines of their numbers, which count   *)
(* them, resume those that wait for one of the flags, and ask again; then  *)
(* the removed numbers get RemovedFromEpollError.  All of it happens       *)
(* before the next await, and a coroutine that is resumed goes on to its   *)
(* own next syscall.                                                       *)
(***************************************************************************)
Dispatch ==
    LET resumed == UNION {Resumed(r) : r \in Regs}
        thrown  == UNION {Thrown(r) : r \in Regs}
    IN  /\ waiter = "answer"
        /\ waiter' = "epoll_wait" /\ received' = {}
        /\ pending_remove' = {}
        /\ total' = [r \in Regs |-> [f \in Flags |->
                        total[r][f] + IF f \in EventsOf(r) THEN 1 ELSE 0]]
        /\ mask' = [r \in Regs |-> mask[r] \cup EventsOf(r)]
        /\ queue' = [r \in Regs |->
                        IF EventsOf(r) # {} THEN {} ELSE queue[r] \ Thrown(r)]
        /\ waiters' = [r \in Regs |->
                        IF EventsOf(r) # {} THEN Waiting(r) \ Resumed(r)
                        ELSE waiters[r]]
        /\ callback' = [r \in Regs |-> IF Removed(r) THEN "ended"
                        ELSE IF callback[r] = "queued" THEN "held" ELSE callback[r]]
        /\ call' = [c \in Clients |->
                        IF c \in thrown THEN Idle
                        ELSE IF c \in resumed
                        THEN Proceed(call[c].op, call[c].fd, total'[call[c].fd])
                        ELSE call[c]]
        /\ UNCHANGED <<kernel, reg, number, consumed, answers, done>>

\* epoll_wait raises: queue.close tells those, and only those, on the queue.
EpollWaitFails ==
    LET told == {r \in Regs : callback[r] = "queued"}
    IN  /\ "epoll_wait" \in Faults
        /\ waiter = "epoll_wait"
        /\ waiter' = "failed"
        /\ callback' = [r \in Regs |-> IF r \in told THEN "ended" ELSE callback[r]]
        /\ call' = [c \in Clients |->
                    IF \E r \in told : c \in queue[r] THEN Idle ELSE call[c]]
        /\ queue' = [r \in Regs |-> IF r \in told THEN {} ELSE queue[r]]
        /\ UNCHANGED <<kernel, received, pending_remove, reg, number, mask, total,
                       consumed, waiters, answers, done>>

-----------------------------------------------------------------------------
(* AsyncFileDescriptor *)

\* wait_for does not wait; m and used are the mask and the consumed events.
MightBeReady(r, flags, m, used) ==
    m \cap flags # {} \/ \E f \in flags : total[r][f] > used[f]

\* wait_for, and what follows it; a closed queue raises.
WaitFor(c, r, o, m, used) ==
    LET ready == MightBeReady(r, WaitFlags[o], m, used)
        waits == ~ready /\ callback[r] # "ended"
    IN  /\ call' = [call EXCEPT ![c] =
                    IF ready THEN Proceed(o, r, total[r])
                    ELSE IF waits THEN State("wait", o, r, Zero, "none") ELSE Idle]
        /\ queue' = IF waits THEN [queue EXCEPT ![r] = @ \cup {c}] ELSE queue

\* A client's call of operation o on the fd of r, up to its first await.
Call(c, r, o) ==
    /\ o \in Ops
    /\ call[c].pc = "idle" /\ reg[r] = "registered"
    /\ WaitFor(c, r, o, mask[r], consumed[r])
    /\ UNCHANGED <<kernel, wait, reg, number, callback, mask, total, consumed,
                   waiters, answers, done>>

Read(c, r)         == Call(c, r, "read")
Write(c, r)        == Call(c, r, "write")
Accept(c, r)       == Call(c, r, "accept")
WaitForRdhup(c, r) == Call(c, r, "rdhup")

\* connect does not wait before its syscall.
Connect(c, r) ==
    /\ "connect" \in Ops /\ r \in Unconnected
    /\ call[c].pc = "idle" /\ reg[r] = "registered"
    /\ call' = [call EXCEPT ![c] = Proceed("connect", r, total[r])]
    /\ UNCHANGED <<kernel, wait, epolled, answers, done>>

\* What the kernel may answer, with the level and connection state it leaves.
Result(r, o) ==
    LET now == level[r] IN
    CASE o \in {"read", "accept", "write"} /\ conn[r] = "unconnected" ->
            {<<"error", now, conn[r]>>}
      [] o \in {"read", "accept"} /\ conn[r] # "unconnected" ->
            IF "ERR" \in now THEN {<<"error", now \ {"ERR"}, conn[r]>>}
            ELSE IF "IN" \notin now THEN {<<"EAGAIN", now, conn[r]>>}
            ELSE {<<"ok", now, conn[r]>>} \cup
                 IF "RDHUP" \in now THEN {} ELSE {<<"ok", now \ {"IN"}, conn[r]>>}
      [] o = "write" /\ conn[r] # "unconnected" ->
            IF "ERR" \in now THEN {<<"error", now \ {"ERR"}, conn[r]>>}
            ELSE IF "HUP" \in now THEN {<<"error", now, conn[r]>>}
            ELSE IF "OUT" \notin now THEN {<<"EAGAIN", now, conn[r]>>}
            ELSE {<<"ok", now, conn[r]>>, <<"ok", now \ {"OUT"}, conn[r]>>}
      [] o = "connect" ->
            (IF "connect" \in Faults \/ conn[r] # "unconnected"
             THEN {<<"error", now, conn[r]>>} ELSE {}) \cup
            (IF conn[r] # "unconnected" THEN {}
             ELSE {<<"ok", {"OUT"}, "connected">>, <<"EINPROGRESS", {}, "connecting">>})
      [] o = "so_error" ->
            IF conn[r] = "refused" THEN {<<"error", now \ {"ERR"}, conn[r]>>}
            ELSE {<<"ok", now, conn[r]>>}

Perform(c) ==
    LET r == call[c].fd IN
    /\ call[c].pc = "call"
    /\ \E res \in Result(r, call[c].op) :
         /\ call' = [call EXCEPT ![c].pc = "answer", ![c].outcome = res[1]]
         /\ level' = [level EXCEPT ![r] = res[2]]
         /\ conn' = [conn EXCEPT ![r] = res[3]]
    /\ answers' = Append(answers, c)
    /\ UNCHANGED <<rdlist, arrivals, wait, epolled, done>>

\* Mutant of Consume: the events that came during the syscall go as well.
ConsumeAll(c, flags) ==
    LET r == call[c].fd IN
    [f \in Flags |-> IF f \in flags THEN total[r][f] ELSE consumed[r][f]]

\* consume: the events known before the syscall tell nothing any more.
Consume(c, flags) ==
    LET r == call[c].fd IN
    [f \in Flags |-> IF f \in flags /\ call[c].current[f] > consumed[r][f]
                     THEN call[c].current[f] ELSE consumed[r][f]]

\* The answer of c's syscall says outcome, and is processed.
Answered(c, outcome) ==
    call[c].pc = "answer" /\ call[c].outcome = outcome /\ Process(c)

\* The mask of c's fd becomes m, and its events of these flags are consumed.
Learn(c, flags, m) ==
    /\ consumed' = [consumed EXCEPT ![call[c].fd] = Consume(c, flags)]
    /\ mask' = [mask EXCEPT ![call[c].fd] = m]

\* c goes back to wait_for, now for operation o.
WaitAgain(c, o) ==
    LET r == call[c].fd  flags == WaitFlags[o] IN
    /\ Learn(c, flags, mask[r] \ flags)
    /\ WaitFor(c, r, o, mask[r] \ flags, Consume(c, flags))
    /\ UNCHANGED <<kernel, wait, reg, number, callback, total, waiters, done>>

Leave(c) == call' = [call EXCEPT ![c] = Idle] /\ UNCHANGED queue

\* read, write and accept return; what follows the return is never reached.
Succeed(c) ==
    /\ Answered(c, "ok") /\ call[c].op \in {"read", "accept", "write"}
    /\ Leave(c)
    /\ UNCHANGED <<kernel, wait, reg, number, callback, mask, total, consumed,
                   waiters, done>>

\* EAGAIN: back to wait_for without the flags.
Eagain(c) == Answered(c, "EAGAIN") /\ WaitAgain(c, call[c].op)

\* Any other error is raised, and the fd counts as ready with an error.
Fail(c) ==
    /\ Answered(c, "error") /\ call[c].op # "connect"
    /\ Learn(c, WaitFlags[call[c].op],
             mask[call[c].fd] \cup ErrorFlags[call[c].op])
    /\ Leave(c)
    /\ UNCHANGED <<kernel, wait, reg, number, callback, total, waiters, done>>

\* connect, or the SO_ERROR it asks for in the end, says it is connected.
Connected(c) ==
    /\ Answered(c, "ok") /\ call[c].op \in {"connect", "so_error"}
    /\ Learn(c, {"OUT"}, mask[call[c].fd] \cup {"OUT"})
    /\ done' = done \cup {call[c].fd}
    /\ Leave(c)
    /\ UNCHANGED <<kernel, wait, reg, number, callback, total, waiters>>

\* EINPROGRESS: wait for OUT, then ask for SO_ERROR.
Connecting(c) == Answered(c, "EINPROGRESS") /\ WaitAgain(c, "so_error")

\* Any other error of connect is raised, but OUT is taken away for it too.
ConnectFail(c) ==
    /\ Answered(c, "error") /\ call[c].op = "connect"
    /\ Learn(c, {"OUT"}, mask[call[c].fd] \ {"OUT"})
    /\ Leave(c)
    /\ UNCHANGED <<kernel, wait, reg, number, callback, total, waiters, done>>

\* trio cancels a wait; when its continuation is resumed, nothing happens.
Cancel(c) ==
    LET r == call[c].fd IN
    /\ "cancel" \in Faults /\ call[c].pc = "wait"
    /\ call' = [call EXCEPT ![c] = Idle]
    /\ queue' = [queue EXCEPT ![r] = @ \ {c}]
    /\ waiters' = [waiters EXCEPT ![r] = @ \ {c}]
    /\ UNCHANGED <<kernel, wait, reg, number, callback, mask, total, consumed,
                   answers, done>>

-----------------------------------------------------------------------------
Kernel ==
    \/ \E r \in Regs, flag \in Arrivals : Arrive(r, flag)
    \/ \E r \in Regs, result \in {"connected", "refused"} : Established(r, result)

Registration(r) ==
    \/ Register(r) \/ EpollAdd(r) \/ Registered(r) \/ Delete(r) \/ Deleted(r)

Waiter == EpollWait \/ Dispatch

Step(c) ==
    \/ Perform(c) \/ Succeed(c) \/ Eagain(c) \/ Fail(c)
    \/ Connected(c) \/ Connecting(c) \/ ConnectFail(c)

Next ==
    \/ Kernel
    \/ \E r \in Regs : Registration(r)
    \/ Waiter \/ EpollWaitEmpty \/ EpollWaitFails
    \/ \E c \in Clients : Step(c) \/ Cancel(c)
    \/ \E c \in Clients, r \in Regs : \/ Read(c, r) \/ Write(c, r) \/ Accept(c, r)
                                      \/ WaitForRdhup(c, r) \/ Connect(c, r)

Spec == Init /\ [][Next]_vars

(***************************************************************************)
(* EpollWaiter and the clients are resumed when their answers are there,   *)
(* and the kernel performs what was asked.  epoll_wait need not return     *)
(* when there is nothing to report.                                        *)
(***************************************************************************)
Fairness == WF_vars(Waiter) /\ \A c \in Clients : WF_vars(Step(c))

FairSpec == Spec /\ Fairness

-----------------------------------------------------------------------------
(* Properties *)

\* Every variable has a value its code or the kernel can give it.
TypeOK ==
    /\ level \in [Regs -> SUBSET Flags] /\ rdlist \in Seq(Regs)
    /\ conn \in [Regs -> {"unconnected", "connecting", "connected", "refused"}]
    /\ arrivals \in 0..MaxArrivals
    /\ reg \in [Regs -> {"new", "adding", "added", "registered", "deleting", "closed"}]
    /\ number \in [Regs -> Nat] /\ pending_remove \subseteq Nat
    /\ waiter \in {"epoll_wait", "answer", "failed"}
    /\ received \subseteq [data : Nat, events : SUBSET Flags, reg : Regs]
    /\ callback \in [Regs -> {"none", "queued", "held", "ended"}]
    /\ mask \in [Regs -> SUBSET Flags]
    /\ total \in [Regs -> [Flags -> Nat]] /\ consumed \in [Regs -> [Flags -> Nat]]
    /\ queue \in [Regs -> SUBSET Clients] /\ waiters \in [Regs -> SUBSET Clients]
    /\ call \in [Clients ->
         [pc : {"idle", "wait", "call", "answer"}, op : DOMAIN WaitFlags \cup {"none"},
          fd : Regs \cup {"none"}, current : [Flags -> Nat],
          outcome : {"none", "ok", "EAGAIN", "error", "EINPROGRESS"}]]
    /\ answers \in Seq(Clients) /\ done \subseteq Regs

\* An event for r is to be reported, or was and is still to be processed.
EventComing(r) == InRdlist(r) \/ \E e \in received : e.reg = r

\* c waits for something that its file is ready for.
WaitsReady(c) ==
    /\ call[c].pc = "wait" /\ reg[call[c].fd] = "registered"
    /\ level[call[c].fd] \cap WaitFlags[call[c].op] # {}

(***************************************************************************)
(* FDStatus: "we know for sure at any time whether a file might be ready   *)
(* for IO, or if instead it's safe to block in a call to epoll_wait".      *)
(* Whoever waits for flags that the file is ready for has an event coming, *)
(* in whatever order EAGAINs and events are processed.                     *)
(***************************************************************************)
NoLostReadiness == \A c \in Clients : WaitsReady(c) => EventComing(call[c].fd)

(***************************************************************************)
(* remove_number_after_next_epoll_wait: an event that was in flight when   *)
(* its fd was deleted still finds a callback, and it is the one of the     *)
(* registration it is about, even if the fd number is registered again.    *)
(***************************************************************************)
EventsFindTheirCallback ==
    \A e \in received : \E r \in Regs :
        /\ r = e.reg /\ number[r] = e.data /\ callback[r] \in {"queued", "held"}
        /\ \A q \in Regs : number[q] = e.data => q = r

\* connect returns only when the socket is connected.
ConnectedWhenSaid == \A r \in done : conn[r] = "connected"

(***************************************************************************)
(* A client that waits for something the file is and stays ready for is    *)
(* resumed: read, write and accept do not hang while they could succeed.   *)
(***************************************************************************)
ReadyWaiterResumes == \A c \in Clients : WaitsReady(c) ~> ~WaitsReady(c)
=============================================================================
