------------------------- MODULE PersistentConnection -------------------------
(***************************************************************************)
(* Persistent threads: PersistentSyscallConnection and reconnect of        *)
(* tasks/persistent.py, and rsyscall_persistent_server of c/src/rsyscall.c.*)
(*                                                                         *)
(* A syscall goes to the current connection.  If its request could not be  *)
(* sent it waits for the next connection and is made again there.          *)
(* reconnect shuts the current connection down, opens a new one and passes *)
(* it to the server over a Unix socket on which the server listens when it *)
(* has no connection; set_new_conn then resumes those who wait.            *)
(*                                                                         *)
(* The connections, numbered in the order they are made, are what          *)
(* SyscallConnection makes of them: requests are taken in batches, written *)
(* in order, performed in order and answered in order; a batch that cannot *)
(* be written raises SyscallSendError in all its callers.  Syscall c is    *)
(* the c-th one that is made.                                              *)
(***************************************************************************)
EXTENDS Naturals, Sequences

CONSTANTS
    MaxCalls,         \* bound: the syscalls made
    MaxConns,         \* bound: the connections made
    Faults            \* what may happen in this run

PersistentAssumption ==
    /\ MaxCalls \in Nat /\ MaxConns \in Nat \ {0}
    /\ Faults \subseteq {"break", "partial", "nested", "close", "die"}

Calls == 1..MaxCalls
Conns == 1..MaxConns

VARIABLES
    issued,           \* how many syscalls have been made
    status,           \* what each caller is doing
    behind,           \* who waited for a connection when a syscall was last made
    conn,             \* self.conn; 0: None
    activity_fd_conn, \* self._activity_fd_conn
    new_conn_cbs,     \* self._new_conn_cbs
    cbs,              \* those of set_new_conn's loop
    setting,          \* the connection set_new_conn was called with; or 0
    break_exc,        \* self._break_exc
    break_cb,         \* self._break_cb, and how often it was resumed
    queue,            \* per connection: syscalls not written yet
    stream,           \* ... written and not performed
    responses,        \* ... performed, the response on its way
    expecting,        \* ... written, the caller waiting for the response
    up,               \* ... is it open, shut for writing, closed
    made,             \* how many connections have been made
    reconnect,        \* where reconnect is
    backlog,          \* the connection offered on the listening socket
    server,           \* where rsyscall_persistent_server is
    serving,          \* the connection it has
    performed         \* the syscalls performed, in order

callers == <<issued, status, behind>>
self    == <<conn, activity_fd_conn, new_conn_cbs, cbs, setting>>
break   == <<break_exc, break_cb>>
wires   == <<queue, stream, responses, expecting>>
thread  == <<server, serving, performed>>
linking == <<made, reconnect, backlog>>
vars    == <<callers, self, break, wires, up, linking, thread>>

Init ==
    /\ issued = 0 /\ status = [c \in Calls |-> "unissued"]
    /\ behind = [c \in Calls |-> {}]
    /\ conn = 1 /\ activity_fd_conn = 1
    /\ new_conn_cbs = << >> /\ cbs = << >> /\ setting = 0
    /\ break_exc = FALSE /\ break_cb = [held |-> FALSE, resumed |-> 0]
    /\ queue = [k \in Conns |-> << >>] /\ stream = [k \in Conns |-> << >>]
    /\ responses = [k \in Conns |-> << >>] /\ expecting = [k \in Conns |-> << >>]
    /\ up = [k \in Conns |-> IF k = 1 THEN "open" ELSE "none"]
    /\ made = 1 /\ reconnect = "idle" /\ backlog = 0
    /\ server = "serve" /\ serving = 1 /\ performed = << >>

Elements(s) == {s[i] : i \in 1..Len(s)}
Prefix(s, n) == SubSeq(s, 1, n)
Drop(s, n) == SubSeq(s, n + 1, Len(s))

\* There will be a connection after this one: faults happen only then.
Another == made < MaxConns

-----------------------------------------------------------------------------
(* PersistentSyscallConnection *)

\* Those who wait for a connection.
Waiting == Elements(new_conn_cbs) \cup Elements(cbs)

\* The loop of syscall: the calls cs are made on connection k, or wait for one.
MakeOn(cs, k, q) ==
    /\ queue' = IF k = 0 THEN q ELSE [q EXCEPT ![k] = @ \o cs]
    /\ new_conn_cbs' = IF k = 0 THEN new_conn_cbs \o cs ELSE new_conn_cbs

\* A syscall, possibly made by a coroutine that set_new_conn has resumed.
Syscall ==
    LET c == issued + 1 IN
    /\ issued < MaxCalls
    /\ setting # 0 => "nested" \in Faults
    /\ issued' = c
    /\ status' = [status EXCEPT ![c] = "pending"]
    /\ behind' = [behind EXCEPT ![c] = Waiting]
    /\ MakeOn(<<c>>, conn, queue)
    /\ UNCHANGED <<conn, activity_fd_conn, cbs, setting, break, stream, responses,
                   expecting, up, linking, thread>>

\* The n oldest requests get SyscallSendError, and each goes round the loop, where
\* it is behind those of them that did so before it.
SendErrors(k, n) ==
    LET noticed == conn = k
        failed  == Prefix(queue[k], n)
    IN  /\ conn' = IF noticed THEN 0 ELSE conn
        /\ activity_fd_conn' = IF noticed THEN 0 ELSE activity_fd_conn
        /\ break_cb' = IF noticed /\ break_cb.held
                       THEN [break_cb EXCEPT !.resumed = @ + 1] ELSE break_cb
        /\ break_exc' = (break_exc \/ (noticed /\ ~break_cb.held))
        /\ behind' = [c \in Calls |->
             IF c \in Elements(failed)
             THEN Waiting \cup {failed[j] : j \in {i \in 1..n : \E m \in (i + 1)..n : failed[m] = c}}
             ELSE behind[c] \ Elements(failed)]
        /\ MakeOn(failed, conn', [queue EXCEPT ![k] = Drop(@, n)])

\* wait_for_break: returns at once if there has been a break.
WaitForBreak ==
    /\ setting = 0 /\ ~break_cb.held
    /\ IF break_exc THEN break_exc' = FALSE /\ UNCHANGED break_cb
       ELSE break_cb' = [break_cb EXCEPT !.held = TRUE] /\ UNCHANGED break_exc
    /\ UNCHANGED <<callers, self, wires, up, linking, thread>>

\* Mutant of SetNewConn: self.conn is set before the waiting are resumed.
SetNewConnFirst ==
    /\ reconnect = "response" /\ backlog = 0 /\ server # "dead"
    /\ reconnect' = "idle"
    /\ activity_fd_conn' = made /\ setting' = made
    /\ conn' = made
    /\ UNCHANGED <<callers, new_conn_cbs, cbs, break, wires, up, made, backlog, thread>>

\* The numbers of the new fds were read; set_new_conn begins.
SetNewConn ==
    /\ reconnect = "response" /\ backlog = 0 /\ server # "dead"
    /\ reconnect' = "idle"
    /\ activity_fd_conn' = made /\ setting' = made
    /\ UNCHANGED <<callers, conn, new_conn_cbs, cbs, break, wires, up, made,
                   backlog, thread>>

\* The next of the waiting is resumed, and makes its syscall.
ResumeNext ==
    LET list == IF cbs = << >> THEN new_conn_cbs ELSE cbs IN
    /\ setting # 0 /\ list # << >>
    /\ cbs' = Tail(list)
    /\ new_conn_cbs' = IF cbs = << >> THEN << >> ELSE new_conn_cbs
    /\ queue' = [queue EXCEPT ![setting] = Append(@, Head(list))]
    /\ UNCHANGED <<callers, conn, activity_fd_conn, setting, break, stream,
                   responses, expecting, up, linking, thread>>

\* Mutant of NewConnSet: syscalls that appear during the loop are left.
NewConnSetAtOnce ==
    /\ setting # 0 /\ cbs = << >>
    /\ conn' = setting /\ setting' = 0
    /\ UNCHANGED <<callers, activity_fd_conn, new_conn_cbs, cbs, break, wires, up,
                   linking, thread>>

\* Nobody waits any more.
NewConnSet ==
    /\ setting # 0 /\ cbs = << >> /\ new_conn_cbs = << >>
    /\ conn' = setting /\ setting' = 0
    /\ UNCHANGED <<callers, activity_fd_conn, new_conn_cbs, cbs, break, wires, up,
                   linking, thread>>

\* close_interface of the current connection.
CloseInterface ==
    /\ "close" \in Faults /\ Another
    /\ setting = 0 /\ conn # 0 /\ up[conn] # "closed"
    /\ up' = [up EXCEPT ![conn] = "closed"]
    /\ UNCHANGED <<callers, self, break, wires, linking, thread>>

-----------------------------------------------------------------------------
(* The connections, as SyscallConnection has them *)

\* A batch is written.
Write(k, n) ==
    /\ setting = 0 /\ n \in 1..Len(queue[k]) /\ up[k] = "open"
    /\ queue' = [queue EXCEPT ![k] = Drop(@, n)]
    /\ stream' = [stream EXCEPT ![k] = @ \o Prefix(queue[k], n)]
    /\ expecting' = [expecting EXCEPT ![k] = @ \o Prefix(queue[k], n)]
    /\ UNCHANGED <<callers, self, break, responses, up, linking, thread>>

\* A batch cannot be written.
SendError(k, n) ==
    /\ setting = 0 /\ n \in 1..Len(queue[k]) /\ up[k] # "open"
    /\ SendErrors(k, n)
    /\ UNCHANGED <<issued, status, cbs, setting, stream, responses, expecting, up,
                   linking, thread>>

\* The connection is shut after a part of a batch was written, at least one syscall and
\* not the last; if all are written they wait for their responses (Write).
PartialWrite(k, n, m) ==
    /\ "partial" \in Faults /\ Another
    /\ setting = 0 /\ n \in 1..Len(queue[k]) /\ m \in 1..(n - 1) /\ up[k] = "open"
    /\ up' = [up EXCEPT ![k] = "shut"]
    /\ stream' = [stream EXCEPT ![k] = @ \o Prefix(queue[k], m)]
    /\ SendErrors(k, n)
    /\ UNCHANGED <<issued, status, cbs, setting, responses, expecting, linking, thread>>

\* A response is read, and is the one of the oldest caller.
Return(k) ==
    /\ setting = 0 /\ expecting[k] # << >> /\ responses[k] # << >>
    /\ status' = [status EXCEPT ![Head(expecting[k])] =
                    IF Head(responses[k]) = Head(expecting[k])
                    THEN "returned" ELSE "confused"]
    /\ expecting' = [expecting EXCEPT ![k] = Tail(@)]
    /\ responses' = [responses EXCEPT ![k] = Tail(@)]
    /\ UNCHANGED <<issued, behind, self, break, queue, stream, up, linking, thread>>

\* Mutant of Hangup: it is retried, like a SyscallSendError.
HangupRetried(k) ==
    /\ setting = 0 /\ expecting[k] # << >> /\ responses[k] = << >> /\ up[k] = "closed"
    /\ expecting' = [expecting EXCEPT ![k] = Tail(@)]
    /\ conn' = IF conn = k THEN 0 ELSE conn
    /\ activity_fd_conn' = IF conn = k THEN 0 ELSE activity_fd_conn
    /\ MakeOn(<<Head(expecting[k])>>, conn', queue)
    /\ UNCHANGED <<callers, cbs, setting, break, stream, responses,
                   up, linking, thread>>

\* There is no response left to read: SyscallHangup.
Hangup(k) ==
    /\ setting = 0 /\ expecting[k] # << >> /\ responses[k] = << >> /\ up[k] = "closed"
    /\ status' = [status EXCEPT ![Head(expecting[k])] = "hangup"]
    /\ expecting' = [expecting EXCEPT ![k] = Tail(@)]
    /\ UNCHANGED <<issued, behind, self, break, queue, stream, responses, up,
                   linking, thread>>

\* The connection is lost, with or without what is in flight.
Break(k) ==
    /\ "break" \in Faults /\ Another
    /\ setting = 0 /\ up[k] \in {"open", "shut"}
    /\ up' = [up EXCEPT ![k] = "closed"]
    /\ \/ stream' = [stream EXCEPT ![k] = << >>]
          /\ responses' = [responses EXCEPT ![k] = << >>]
       \/ UNCHANGED <<stream, responses>>
    /\ UNCHANGED <<callers, self, break, queue, expecting, linking, thread>>

-----------------------------------------------------------------------------
(* PersistentThread.reconnect *)

\* The part of it before the new connection: the current one is shut down.
Reconnect ==
    /\ setting = 0 /\ reconnect = "idle" /\ Another
    /\ reconnect' = "connect"
    /\ up' = IF conn # 0 /\ up[conn] = "open" THEN [up EXCEPT ![conn] = "shut"] ELSE up
    /\ UNCHANGED <<callers, self, break, wires, made, backlog, thread>>

\* A new channel is opened, and _connect_and_send passes it to the server.
ConnectAndSend ==
    /\ setting = 0 /\ reconnect = "connect"
    /\ made' = made + 1 /\ backlog' = made + 1
    /\ up' = [up EXCEPT ![made + 1] = "open"]
    /\ reconnect' = "response"
    /\ UNCHANGED <<callers, self, break, wires, thread>>

-----------------------------------------------------------------------------
(* rsyscall_persistent_server *)

\* rsyscall_server: a request is read and performed, the response written.
Perform ==
    LET k == serving  c == Head(stream[k]) IN
    /\ setting = 0 /\ server = "serve" /\ stream[k] # << >>
    /\ stream' = [stream EXCEPT ![k] = Tail(@)]
    /\ performed' = Append(performed, c)
    /\ IF up[k] = "closed" THEN server' = "shutdown" /\ UNCHANGED responses
       ELSE responses' = [responses EXCEPT ![k] = Append(@, c)] /\ UNCHANGED server
    /\ UNCHANGED <<callers, self, break, queue, expecting, up, linking, serving>>

\* It meets EOF and returns.
Eof ==
    /\ setting = 0 /\ server = "serve" /\ stream[serving] = << >> /\ up[serving] # "open"
    /\ server' = "shutdown"
    /\ UNCHANGED <<callers, self, break, wires, up, linking, serving, performed>>

\* Both ends are shut down; what was not read is never performed.
Shutdown ==
    /\ setting = 0 /\ server = "shutdown"
    /\ up' = [up EXCEPT ![serving] = "closed"]
    /\ server' = "accept"
    /\ UNCHANGED <<callers, self, break, wires, linking, serving, performed>>

\* A connection is accepted, the fds received, their numbers written back.
AcceptFds ==
    /\ setting = 0 /\ server = "accept" /\ backlog # 0
    /\ serving' = backlog /\ backlog' = 0
    /\ server' = "serve"
    /\ UNCHANGED <<callers, self, break, wires, up, made, reconnect, performed>>

\* The process dies while a reconnect is waiting for it.
Die ==
    /\ "die" \in Faults /\ setting = 0 /\ server = "accept"
    /\ server' = "dead"
    /\ UNCHANGED <<callers, self, break, wires, up, linking, serving, performed>>

\* sock.read returns 0 bytes: _connect_and_send reads again.
ReadNothing ==
    /\ setting = 0 /\ server = "dead" /\ reconnect = "response"
    /\ UNCHANGED vars

-----------------------------------------------------------------------------
Setting == ResumeNext \/ NewConnSet

Connection(k) ==
    \/ \E n \in Calls : Write(k, n) \/ SendError(k, n)
    \/ Return(k) \/ Hangup(k)

Server == Perform \/ Eof \/ Shutdown \/ AcceptFds

Next ==
    \/ Syscall \/ WaitForBreak \/ CloseInterface
    \/ Setting \/ SetNewConn
    \/ \E k \in Conns : Connection(k) \/ Break(k)
    \/ \E k \in Conns, n, m \in Calls : PartialWrite(k, n, m)
    \/ Reconnect \/ ConnectAndSend
    \/ Server \/ Die \/ ReadNothing

Spec == Init /\ [][Next]_vars

(***************************************************************************)
(* The server runs, the coroutines of a connection are resumed when they   *)
(* can go on, reconnect goes on once it is called, and it is called when   *)
(* the thread has been found to be disconnected.                           *)
(***************************************************************************)
Fairness ==
    /\ WF_vars(Server) /\ WF_vars(Setting)
    /\ \A k \in Conns : WF_vars(Connection(k))
    /\ WF_vars(ConnectAndSend) /\ WF_vars(SetNewConn)
    /\ WF_vars(conn = 0 /\ Reconnect)

FairSpec == Spec /\ Fairness

-----------------------------------------------------------------------------
(* Properties *)

\* Every variable has a value the code can give it.
TypeOK ==
    /\ issued \in 0..MaxCalls
    /\ status \in [Calls -> {"unissued", "pending", "returned", "hangup"}]
    /\ behind \in [Calls -> SUBSET Calls]
    /\ conn \in 0..made /\ activity_fd_conn \in {0, conn, made} /\ setting \in {0, made}
    /\ new_conn_cbs \in Seq(Calls) /\ cbs \in Seq(Calls)
    /\ break_exc \in BOOLEAN /\ break_cb \in [held : BOOLEAN, resumed : Nat]
    /\ \A w \in {queue, stream, responses, expecting} : w \in [Conns -> Seq(Calls)]
    /\ up \in [Conns -> {"none", "open", "shut", "closed"}]
    /\ made \in Conns /\ backlog \in {0, made}
    /\ reconnect \in {"idle", "connect", "response"}
    /\ server \in {"serve", "shutdown", "accept", "dead"}
    /\ serving \in Conns /\ performed \in Seq(Calls)

(***************************************************************************)
(* Whatever breaks, the callers see PersistentInterface: a syscall that    *)
(* was retried on another connection is not performed twice, and nobody    *)
(* is given the response of another.                                       *)
(***************************************************************************)
Interface == INSTANCE PersistentInterface
    WITH outcome <- [c \in Calls |-> IF status[c] = "unissued" THEN "none" ELSE status[c]],
         performed <- performed
ImplementsInterface == Interface!Spec

\* Syscall c may still be performed.
ToBePerformed(c) ==
    \/ c \in Waiting
    \/ \E k \in Conns : c \in Elements(queue[k])
    \/ \E k \in serving..MaxConns : c \in Elements(stream[k])

\* Syscall d, which was performed, was so after c, unless c never is.
NotBefore(d, c) ==
    LET i == CHOOSE n \in 1..Len(performed) : performed[n] = d
    IN  /\ ToBePerformed(c) => c \in Elements(performed)
        /\ \A j \in i..Len(performed) : performed[j] # c

(***************************************************************************)
(* set_new_conn: "to preserve the global relative ordering of syscalls, we *)
(* don't set self.conn again until syscalls stop appearing on              *)
(* self._new_conn_cbs".  A syscall made while others wait for a connection *)
(* does not overtake them, unless one of them has to be made once more.    *)
(***************************************************************************)
WaitersNotOvertaken ==
    \A d \in Elements(performed) : \A c \in behind[d] : NotBefore(d, c)

\* The same of all syscalls: they are performed in the order they were made.
GlobalOrder ==
    \A i, j \in 1..Len(performed) : i < j => performed[i] < performed[j]

(***************************************************************************)
(* SyscallConnection's error for a syscall that was not sent is no reason  *)
(* to perform it twice.                                                    *)
(***************************************************************************)
PerformedOnce ==
    \A i, j \in 1..Len(performed) : i # j => performed[i] # performed[j]

\* _break_cb, like every continuation, is resumed at most once.
BreakCbSingleShot == break_cb.resumed <= 1

(***************************************************************************)
(* With someone to reconnect, every caller gets its result or learns that  *)
(* its connection hung up: none is forgotten on _new_conn_cbs.             *)
(***************************************************************************)
EveryCallAnswered ==
    \A c \in Calls : status[c] = "pending" ~> status[c] # "pending"

\* reconnect ends: the thread is reconnected, or the caller told that it died.
ReconnectEnds == reconnect = "response" ~> reconnect # "response"
=============================================================================
