-------------------------- MODULE SyscallConnection --------------------------
(***************************************************************************)
(* The rsyscall protocol (tasks/connection.py and rsyscall_server in       *)
(* c/src/rsyscall.c): callers hand syscalls to request_queue; the          *)
(* coroutine _run_requests takes them in batches and writes them to tofd;  *)
(* the server reads, performs and answers them one at a time; the          *)
(* coroutine _run_responses reads the answers from fromfd and gives each   *)
(* one to the oldest caller on response_queue.                             *)
(*                                                                         *)
(* A request or a response carries no identification: the pairing of       *)
(* answers with callers rests on the order of both streams, and the        *)
(* framing on both ends counting bytes.  So the two streams are modelled   *)
(* byte by byte.  Syscall s is the s-th one that callers make, and each    *)
(* byte of its request and of its response is told apart from every other  *)
(* by ByteOf; the value of a response is abstracted to the syscall whose   *)
(* execution produced it.                                                  *)
(*                                                                         *)
(* A read or a write of several bytes is that many steps of one byte,      *)
(* because it may be short anywhere; only the read of fromfd, which may    *)
(* run ahead of the response being waited for, moves several at a time.    *)
(***************************************************************************)
EXTENDS Integers, Sequences

CONSTANTS
    MaxSyscalls,      \* bound: the number of syscalls callers make
    RequestSize,      \* bytes of a struct rsyscall_syscall
    ResponseSize,     \* bytes of a response (a long)
    ToFdCapacity,     \* bytes the kernel buffers from tofd to the server
    FromFdCapacity,   \* bytes the kernel buffers from the server to fromfd
    Faults            \* what may befall the connection in this run

ASSUME ConnectionAssumption ==
    /\ MaxSyscalls \in Nat
    /\ RequestSize \in Nat \ {0}
    /\ ResponseSize \in Nat \ {0}
    /\ ToFdCapacity \in Nat \ {0}
    /\ FromFdCapacity \in Nat \ {0}
    /\ Faults \subseteq {"close_interface", "shutdown", "die", "lost"}

VARIABLES
    issued,           \* how many syscalls callers have made
    status,           \* what each caller is waiting for, or got
    value,            \* whose result a caller that returned was given
    request_queue,    \* RequestQueue of callers not yet in a batch
    writer,           \* where _run_requests is suspended
    requests,         \* the batch _run_requests is writing
    wreq, wbyte,      \* ptr_to_write: byte wbyte of requests[wreq] is next
    response_queue,   \* RequestQueue of callers whose request was written
    current,          \* the caller _run_responses reads for; 0: in get_one
    buf,              \* AsyncReadBuffer.buf
    tofd, tofd_open,      \* bytes in flight to the server; may more be written
    fromfd, fromfd_open,  \* bytes in flight from the server; likewise
    srv,              \* where rsyscall_server is
    request,          \* the bytes read_request has so far
    sbyte,            \* write_response: the next byte of the response
    executed          \* the syscalls performed, in order

callers == <<issued, status, value>>
writing == <<request_queue, writer, requests, wreq, wbyte>>
reading == <<response_queue, current, buf>>
to      == <<tofd, tofd_open>>
from    == <<fromfd, fromfd_open>>
server  == <<srv, request, sbyte, executed>>
vars    == <<callers, writing, reading, to, from, server>>

Syscalls == 1..MaxSyscalls
Status   == {"unissued", "pending", "returned", "sendError", "hangup"}

\* Byte k of the struct, of the given size, that belongs to syscall s.
ByteOf(s, k, size) == (s - 1) * size + k

(***************************************************************************)
(* What the bytes of one struct mean to the side that read them: the       *)
(* syscall they belong to, or 0 when they are not one struct.              *)
(***************************************************************************)
IsStructOf(bytes, s) ==
    \A k \in 1..Len(bytes) : bytes[k] = ByteOf(s, k, Len(bytes))

Decode(bytes) ==
    IF \E s \in Syscalls : IsStructOf(bytes, s)
    THEN CHOOSE s \in Syscalls : IsStructOf(bytes, s)
    ELSE 0

Init ==
    /\ issued = 0
    /\ status = [s \in Syscalls |-> "unissued"]
    /\ value = [s \in Syscalls |-> 0]
    /\ request_queue = << >> /\ requests = << >>
    /\ writer = "get_many" /\ wreq = 1 /\ wbyte = 1
    /\ response_queue = << >> /\ current = 0 /\ buf = << >>
    /\ tofd = << >> /\ tofd_open = TRUE
    /\ fromfd = << >> /\ fromfd_open = TRUE
    /\ srv = "reading" /\ request = << >> /\ sbyte = 1 /\ executed = << >>

-----------------------------------------------------------------------------
(* The callers and _run_requests *)

(***************************************************************************)
(* A caller makes a syscall: RequestQueue.request_cb hands it to           *)
(* _run_requests if that is waiting in get_many, and queues it otherwise.  *)
(***************************************************************************)
Syscall ==
    /\ issued < MaxSyscalls
    /\ issued' = issued + 1
    /\ status' = [status EXCEPT ![issued + 1] = "pending"]
    /\ \/ /\ writer = "get_many"
          /\ writer' = "ptr"
          /\ requests' = <<issued + 1>>
          /\ UNCHANGED request_queue
       \/ /\ writer # "get_many"
          /\ request_queue' = Append(request_queue, issued + 1)
          /\ UNCHANGED <<writer, requests>>
    /\ UNCHANGED <<value, wreq, wbyte, reading, to, from, server>>

\* ram.ptr has put the batch in memory: ptr_to_write is all of it.
PtrDone ==
    /\ writer = "ptr"
    /\ writer' = "writing"
    /\ wreq' = 1 /\ wbyte' = 1
    /\ UNCHANGED <<callers, request_queue, requests, reading, to, from, server>>

\* Mutant of WriteByte: ptr_to_write is advanced one byte too far.
WriteByteTooFar ==
    /\ writer = "writing" /\ wreq <= Len(requests)
    /\ tofd_open /\ Len(tofd) < ToFdCapacity
    /\ tofd' = Append(tofd, ByteOf(requests[wreq], wbyte, RequestSize))
    /\ IF wbyte <= RequestSize
       THEN wbyte' = wbyte + 1 /\ wreq' = wreq
       ELSE wbyte' = 1 /\ wreq' = wreq + 1
    /\ UNCHANGED <<callers, request_queue, writer, requests, reading, tofd_open,
                   from, server>>

\* tofd.write; it waits (EAGAIN) while the kernel's buffer is full.
WriteByte ==
    /\ writer = "writing" /\ wreq <= Len(requests)
    /\ tofd_open /\ Len(tofd) < ToFdCapacity
    /\ tofd' = Append(tofd, ByteOf(requests[wreq], wbyte, RequestSize))
    /\ IF wbyte < RequestSize
       THEN wbyte' = wbyte + 1 /\ wreq' = wreq
       ELSE wbyte' = 1 /\ wreq' = wreq + 1
    /\ UNCHANGED <<callers, request_queue, writer, requests, reading, tofd_open,
                   from, server>>

\* get_many: every queued request at once, or wait for the next one.
GetMany ==
    /\ requests' = request_queue
    /\ request_queue' = << >>
    /\ writer' = IF request_queue = << >> THEN "get_many" ELSE "ptr"
    /\ UNCHANGED <<wreq, wbyte>>

(***************************************************************************)
(* The whole batch is written: each request goes to response_queue, the    *)
(* first straight to _run_responses if that is waiting in get_one.         *)
(***************************************************************************)
ForwardRequests ==
    /\ writer = "writing" /\ wreq > Len(requests)
    /\ IF current = 0
       THEN current' = Head(requests) /\ response_queue' = Tail(requests)
       ELSE current' = current /\ response_queue' = response_queue \o requests
    /\ GetMany
    /\ UNCHANGED <<callers, buf, to, from, server>>

\* Mutant of SendError: only the first caller of the batch gets the error.
SendErrorFirstOnly ==
    /\ writer = "writing" /\ wreq <= Len(requests)
    /\ ~tofd_open
    /\ status' = [status EXCEPT ![Head(requests)] = "sendError"]
    /\ GetMany
    /\ UNCHANGED <<issued, value, reading, to, from, server>>

\* Mutant of SendError: the callers get SyscallHangup.
SendErrorAsHangup ==
    /\ writer = "writing" /\ wreq <= Len(requests)
    /\ ~tofd_open
    /\ status' = [s \in Syscalls |->
                    IF \E i \in 1..Len(requests) : requests[i] = s
                    THEN "hangup" ELSE status[s]]
    /\ GetMany
    /\ UNCHANGED <<issued, value, reading, to, from, server>>

\* tofd.write raises OSError (EPIPE): the whole batch gets SyscallSendError.
SendError ==
    /\ writer = "writing" /\ wreq <= Len(requests)
    /\ ~tofd_open
    /\ status' = [s \in Syscalls |->
                    IF \E i \in 1..Len(requests) : requests[i] = s
                    THEN "sendError" ELSE status[s]]
    /\ GetMany
    /\ UNCHANGED <<issued, value, reading, to, from, server>>

-----------------------------------------------------------------------------
(* _run_responses *)

\* AsyncReadBuffer._read: whatever is there, possibly more than one response.
ReadResponse(n) ==
    /\ current # 0 /\ Len(buf) < ResponseSize
    /\ n <= Len(fromfd)
    /\ buf' = buf \o SubSeq(fromfd, 1, n)
    /\ fromfd' = SubSeq(fromfd, n + 1, Len(fromfd))
    /\ UNCHANGED <<callers, writing, response_queue, current, to, fromfd_open,
                   server>>

\* get_one: the oldest caller, or wait for one.
GetOne ==
    IF response_queue = << >>
    THEN current' = 0 /\ UNCHANGED response_queue
    ELSE current' = Head(response_queue) /\ response_queue' = Tail(response_queue)

\* Mutant of Return: what was read beyond the response is dropped.
ReturnDropsReadAhead ==
    /\ current # 0 /\ Len(buf) >= ResponseSize
    /\ status' = [status EXCEPT ![current] = "returned"]
    /\ value' = [value EXCEPT ![current] = Decode(SubSeq(buf, 1, ResponseSize))]
    /\ buf' = << >>
    /\ GetOne
    /\ UNCHANGED <<issued, writing, to, from, server>>

\* read_struct has a whole response: its value resumes the caller.
Return ==
    /\ current # 0 /\ Len(buf) >= ResponseSize
    /\ status' = [status EXCEPT ![current] = "returned"]
    /\ value' = [value EXCEPT ![current] = Decode(SubSeq(buf, 1, ResponseSize))]
    /\ buf' = SubSeq(buf, ResponseSize + 1, Len(buf))
    /\ GetOne
    /\ UNCHANGED <<issued, writing, to, from, server>>

\* Mutant of Hangup: EOF is noticed before the response buf already holds.
HangupBeforeBuffer ==
    /\ current # 0
    /\ fromfd = << >> /\ ~fromfd_open
    /\ status' = [status EXCEPT ![current] = "hangup"]
    /\ buf' = SubSeq(buf, ResponseSize + 1, Len(buf))
    /\ GetOne
    /\ UNCHANGED <<issued, value, writing, to, from, server>>

\* read_struct meets EOF: the caller gets SyscallHangup, buf keeps its bytes.
Hangup ==
    /\ current # 0 /\ Len(buf) < ResponseSize
    /\ fromfd = << >> /\ ~fromfd_open
    /\ status' = [status EXCEPT ![current] = "hangup"]
    /\ GetOne
    /\ UNCHANGED <<issued, value, writing, buf, to, from, server>>

-----------------------------------------------------------------------------
(* rsyscall_server *)

ServerRead ==
    /\ srv = "reading" /\ Len(request) < RequestSize /\ tofd # << >>
    /\ request' = Append(request, Head(tofd))
    /\ tofd' = Tail(tofd)
    /\ UNCHANGED <<callers, writing, reading, tofd_open, from, srv, sbyte, executed>>

\* Mutant of ServerPerform: a short read is taken for a whole request.
ServerPerformShort ==
    /\ srv = "reading" /\ request # << >>
    /\ executed' = Append(executed, Decode(request))
    /\ request' = << >>
    /\ srv' = "responding" /\ sbyte' = 1
    /\ UNCHANGED <<callers, writing, reading, to, from>>

ServerPerform ==
    /\ srv = "reading" /\ Len(request) = RequestSize
    /\ executed' = Append(executed, Decode(request))
    /\ request' = << >>
    /\ srv' = "responding" /\ sbyte' = 1
    /\ UNCHANGED <<callers, writing, reading, to, from>>

ServerWrite ==
    /\ srv = "responding"
    /\ fromfd_open /\ Len(fromfd) < FromFdCapacity
    /\ fromfd' = Append(fromfd, ByteOf(executed[Len(executed)], sbyte, ResponseSize))
    /\ IF sbyte < ResponseSize
       THEN sbyte' = sbyte + 1 /\ srv' = srv
       ELSE sbyte' = 1 /\ srv' = "reading"
    /\ UNCHANGED <<callers, writing, reading, to, fromfd_open, request, executed>>

\* Mutant of ServerReturn: requests still in infd are not served after EOF.
ServerReturnEarly ==
    /\ \/ srv = "reading" /\ Len(request) < RequestSize /\ ~tofd_open
       \/ srv = "responding" /\ ~fromfd_open
    /\ srv' = "returned"
    /\ UNCHANGED <<callers, writing, reading, to, from, request, sbyte, executed>>

\* EOF of infd, even inside a request, or EPIPE on outfd: rsyscall_server returns.
ServerReturn ==
    /\ \/ srv = "reading" /\ Len(request) < RequestSize /\ tofd = << >> /\ ~tofd_open
       \/ srv = "responding" /\ ~fromfd_open
    /\ srv' = "returned"
    /\ UNCHANGED <<callers, writing, reading, to, from, request, sbyte, executed>>

\* After rsyscall_server: infd and outfd are shut down, or the process is gone.
ServerCloseInfd ==
    /\ srv = "returned" /\ (tofd_open \/ tofd # << >>)
    /\ tofd' = << >> /\ tofd_open' = FALSE
    /\ UNCHANGED <<callers, writing, reading, from, server>>

ServerCloseOutfd ==
    /\ srv = "returned" /\ fromfd_open
    /\ fromfd_open' = FALSE
    /\ UNCHANGED <<callers, writing, reading, to, fromfd, server>>

-----------------------------------------------------------------------------
(* What ends a connection *)

(***************************************************************************)
(* close_interface shuts tofd down and then fromfd; Persistent's           *)
(* shutdown_current_connection shuts down the writing side of tofd only.   *)
(* Bytes already in flight can still be read.                              *)
(***************************************************************************)
ShutdownToFd ==
    /\ Faults \cap {"close_interface", "shutdown"} # {}
    /\ tofd_open
    /\ tofd_open' = FALSE
    /\ UNCHANGED <<callers, writing, reading, tofd, from, server>>

ShutdownFromFd ==
    /\ "close_interface" \in Faults
    /\ ~tofd_open /\ fromfd_open
    /\ fromfd_open' = FALSE
    /\ UNCHANGED <<callers, writing, reading, to, fromfd, server>>

\* The server's process is killed.
ServerDies ==
    /\ "die" \in Faults
    /\ srv # "returned"
    /\ srv' = "returned"
    /\ UNCHANGED <<callers, writing, reading, to, from, request, sbyte, executed>>

\* The transport between the two ends breaks and takes bytes in flight along.
ConnectionLost(n, m) ==
    /\ "lost" \in Faults
    /\ tofd_open /\ fromfd_open
    /\ n <= Len(tofd) /\ m <= Len(fromfd)
    /\ tofd' = SubSeq(tofd, 1, n) /\ tofd_open' = FALSE
    /\ fromfd' = SubSeq(fromfd, 1, m) /\ fromfd_open' = FALSE
    /\ UNCHANGED <<callers, writing, reading, server>>

-----------------------------------------------------------------------------
Client ==
    \/ PtrDone \/ WriteByte \/ ForwardRequests \/ SendError
    \/ \E n \in 1..FromFdCapacity : ReadResponse(n)
    \/ Return \/ Hangup

Server ==
    \/ ServerRead \/ ServerPerform \/ ServerWrite \/ ServerReturn
    \/ ServerCloseInfd \/ ServerCloseOutfd

Fault ==
    \/ ShutdownToFd \/ ShutdownFromFd \/ ServerDies
    \/ \E n \in 0..ToFdCapacity, m \in 0..FromFdCapacity : ConnectionLost(n, m)

Next == Syscall \/ Client \/ Server \/ Fault

Spec == Init /\ [][Next]_vars

(***************************************************************************)
(* The two coroutines run whenever their file descriptor is ready, and the *)
(* server is a running process whose syscalls come back.  Nothing makes a  *)
(* caller call, or a fault happen.                                         *)
(***************************************************************************)
RunRequests  == PtrDone \/ WriteByte \/ ForwardRequests \/ SendError
RunResponses == (\E n \in 1..FromFdCapacity : ReadResponse(n)) \/ Return \/ Hangup
RunServer    == ServerRead \/ ServerPerform \/ ServerWrite \/ ServerReturn

Fairness == /\ WF_vars(RunRequests) /\ WF_vars(RunResponses) /\ WF_vars(RunServer)
            /\ WF_vars(ServerCloseInfd) /\ WF_vars(ServerCloseOutfd)

FairSpec == Spec /\ Fairness

-----------------------------------------------------------------------------
(* Properties *)

\* Every variable of the connection has the type its code gives it.
TypeOK ==
    /\ issued \in 0..MaxSyscalls
    /\ status \in [Syscalls -> Status]
    /\ value \in [Syscalls -> 0..MaxSyscalls]
    /\ request_queue \in Seq(Syscalls) /\ requests \in Seq(Syscalls)
    /\ response_queue \in Seq(Syscalls) /\ current \in 0..MaxSyscalls
    /\ writer \in {"get_many", "ptr", "writing"}
    /\ wreq \in Nat \ {0} /\ wbyte \in 1..RequestSize
    /\ buf \in Seq(Nat) /\ fromfd \in Seq(Nat)
    /\ tofd \in Seq(Nat) /\ request \in Seq(Nat)
    /\ tofd_open \in BOOLEAN /\ fromfd_open \in BOOLEAN
    /\ srv \in {"reading", "responding", "returned"}
    /\ sbyte \in 1..ResponseSize
    /\ executed \in Seq(Syscalls)

(***************************************************************************)
(* The value _run_responses gives a caller is the result of that caller's  *)
(* own syscall, which the server has performed: responses are paired with  *)
(* callers by order alone, through short reads, read-ahead and faults.     *)
(***************************************************************************)
ReturnsOwnResult ==
    \A s \in Syscalls :
        status[s] = "returned" => value[s] = s /\ s <= Len(executed)

(***************************************************************************)
(* rsyscall_server performs what was asked, in the order it was asked: no  *)
(* syscall twice, none skipped, none put together from bytes of two        *)
(* requests, whatever batching and short writes do to the stream.          *)
(***************************************************************************)
PerformedInOrder ==
    \A i \in 1..Len(executed) : executed[i] = i /\ i <= issued

(***************************************************************************)
(* SyscallError is permanent: no syscall made after one that raised        *)
(* SyscallSendError or SyscallHangup ever returns a result.                *)
(***************************************************************************)
ErrorsArePermanent ==
    \A s, t \in Syscalls :
        s < t /\ status[t] = "returned" => status[s] = "returned"

\* The callers whose continuation some queue or coroutine holds, oldest first.
Held ==
    (IF current = 0 THEN << >> ELSE <<current>>)
        \o response_queue \o requests \o request_queue

(***************************************************************************)
(* A caller that was not answered is held in exactly one place, and        *)
(* callers never overtake each other between the two queues: none is       *)
(* stranded when a batch fails and none can be resumed twice.              *)
(***************************************************************************)
CallersHeldOnce ==
    /\ \A i, j \in 1..Len(Held) : i < j => Held[i] < Held[j]
    /\ {Held[i] : i \in 1..Len(Held)} = {s \in Syscalls : status[s] = "pending"}

(***************************************************************************)
(* What the comment in shutdown_current_connection says: after a shutdown  *)
(* of the writing side, every syscall that was written gets its response.  *)
(* (For runs in which the connection suffers nothing worse.)               *)
(***************************************************************************)
WrittenCallsReturn == \A s \in Syscalls : status[s] # "hangup"

(***************************************************************************)
(* Every syscall is answered in the end, with its result or an error,      *)
(* provided the socket to fromfd can hold the responses of a batch.        *)
(***************************************************************************)
EveryCallAnswered ==
    \A s \in Syscalls : status[s] = "pending" ~> status[s] # "pending"

(***************************************************************************)
(* The docstring of SyscallSendError: "We know for sure that this syscall  *)
(* was not sent and was not executed."                                     *)
(***************************************************************************)
SendErrorNotPerformed ==
    \A i \in 1..Len(executed) : status[executed[i]] # "sendError"

\* The connection implements the interface its callers program against.
Interface == INSTANCE SyscallInterface
ImplementsInterface == Interface!Spec
=============================================================================
