----------------------- MODULE SyscallConnectionProofs -----------------------
(***************************************************************************)
(* Proofs about SyscallConnection, for any number of syscalls, any struct  *)
(* sizes and any socket buffers.                                           *)
(*                                                                         *)
(* The inductive invariant follows one syscall number through the          *)
(* connection.  Syscalls 1 .. f were forwarded to response_queue; those up *)
(* to Base belong to finished batches, the ones beyond f to batches that   *)
(* failed; Base + 1 .. Taken are the batch being written; the rest, up to  *)
(* issued, are in request_queue.  The bytes on their way to the server     *)
(* start with the struct it expects next and go on, without a gap, to the  *)
(* byte _run_requests writes next; the bytes on their way back start with  *)
(* the response of the caller that is next to be answered and go on to the *)
(* byte the server writes next.                                            *)
(***************************************************************************)
EXTENDS SyscallConnection, SequenceTheorems, TLAPS

Taken == issued - Len(request_queue)
Base  == Taken - Len(requests)
NextAnswer(f) == f - Len(response_queue) + (IF current = 0 THEN 1 ELSE 0)

\* The bytes number p, p + 1, p + 2, ... of a stream, with no byte missing.
Run(bytes, p) == \A i \in 1..Len(bytes) : bytes[i] = p + i - 1

\* The callers in each queue are consecutive.
QueuesInv(f) ==
    /\ f \in Nat /\ f <= Base
    /\ Base \in Nat
    /\ \A i \in 1..Len(request_queue) : request_queue[i] = Taken + i
    /\ \A i \in 1..Len(requests) : requests[i] = Base + i
    /\ \A i \in 1..Len(response_queue) :
          response_queue[i] = f - Len(response_queue) + i
    /\ IF current = 0 THEN response_queue = << >>
                      ELSE current = f - Len(response_queue)
    /\ NextAnswer(f) >= 1
    /\ requests = << >> <=> writer = "get_many"
    /\ writer = "get_many" => request_queue = << >>
    /\ writer = "writing" => /\ wreq <= Len(requests) + 1
                             /\ wreq = Len(requests) + 1 => wbyte = 1

\* A caller's place says what it has been told.
StatusInv(f) ==
    \A s \in Syscalls :
        /\ s < NextAnswer(f) => status[s] \in {"returned", "hangup"}
        /\ NextAnswer(f) <= s /\ s <= f => status[s] = "pending"
        /\ f < s /\ s <= Base => status[s] = "sendError"
        /\ Base < s /\ s <= issued => status[s] = "pending"
        /\ issued < s => status[s] = "unissued"

\* Once a batch has failed, nothing is written any more.
SendFailedInv(f) ==
    f < Base => /\ ~tofd_open
                /\ writer = "writing" => wreq = 1 /\ wbyte = 1

HungUp == \E s \in Syscalls : status[s] = "hangup"

\* Once a caller was hung up on, nothing is read any more.
HungUpInv ==
    HungUp => fromfd = << >> /\ ~fromfd_open /\ Len(buf) < ResponseSize

\* How many bytes the server has consumed, and the byte written next.
Consumed  == Len(executed) * RequestSize
NextWrite ==
    IF writer = "writing" THEN ByteOf(Base + wreq, wbyte, RequestSize)
                          ELSE ByteOf(Base + 1, 1, RequestSize)

RequestInv ==
    /\ Len(request) <= RequestSize
    /\ srv = "responding" => Len(executed) > 0 /\ request = << >>
    /\ Run(request, Consumed + 1)
    /\ Run(tofd, Consumed + Len(request) + 1)
    /\ Consumed + Len(request) + Len(tofd) <= issued * RequestSize
    /\ tofd_open => NextWrite = Consumed + Len(request) + Len(tofd) + 1

\* How many bytes _run_responses has consumed, and the byte written next.
Answered(f) == (NextAnswer(f) - 1) * ResponseSize
NextRespond ==
    IF srv = "responding" THEN ByteOf(Len(executed), sbyte, ResponseSize)
                          ELSE ByteOf(Len(executed) + 1, 1, ResponseSize)

ResponseInv(f) ==
    /\ srv = "reading" => sbyte = 1
    /\ ~HungUp =>
        /\ Run(buf, Answered(f) + 1)
        /\ Run(fromfd, Answered(f) + Len(buf) + 1)
        /\ Answered(f) + Len(buf) + Len(fromfd) <= Len(executed) * ResponseSize
        /\ fromfd_open /\ srv # "returned" =>
              NextRespond = Answered(f) + Len(buf) + Len(fromfd) + 1

Inv(f) ==
    /\ TypeOK
    /\ QueuesInv(f) /\ StatusInv(f) /\ SendFailedInv(f) /\ HungUpInv
    /\ RequestInv /\ ResponseInv(f)
    /\ ReturnsOwnResult /\ PerformedInOrder /\ ErrorsArePermanent

IInv == \E f \in 0..MaxSyscalls : Inv(f)


-----------------------------------------------------------------------------
(* Arithmetic and decoding *)

\* What the arithmetic below needs to know of the constants.
LEMMA Sizes ==
    /\ MaxSyscalls \in Nat
    /\ RequestSize \in Nat /\ RequestSize >= 1
    /\ ResponseSize \in Nat /\ ResponseSize >= 1
  BY ConnectionAssumption

\* One struct more is size bytes more.
LEMMA TimesSucc ==
    ASSUME NEW n \in Int, NEW size \in Nat
    PROVE  (n + 1) * size = n * size + size
  OBVIOUS

\* More structs are more bytes.
LEMMA TimesMono ==
    ASSUME NEW n \in Int, NEW m \in Int, NEW size \in Nat, n <= m
    PROVE  n * size <= m * size
  OBVIOUS

\* Struct n ends within the first m structs only if it is one of them.
LEMMA TimesCancel ==
    ASSUME NEW n \in Int, NEW m \in Int, NEW size \in Nat \ {0},
           n * size <= m * size
    PROVE  n <= m
  <1>1. SUFFICES ASSUME n >= m + 1 PROVE FALSE
    OBVIOUS
  <1>2. n * size >= (m + 1) * size
    BY <1>1
  <1> QED BY <1>2, TimesSucc

\* Writing the next byte of a stream.
LEMMA RunAppend ==
    ASSUME NEW bytes \in Seq(Nat), NEW p \in Int, NEW b \in Nat,
           b = p + Len(bytes), Run(bytes, p)
    PROVE  Run(Append(bytes, b), p)
  <1>1. /\ Len(bytes) \in Nat /\ Len(Append(bytes, b)) = Len(bytes) + 1
        /\ \A i \in 1..Len(bytes) : Append(bytes, b)[i] = bytes[i]
        /\ Append(bytes, b)[Len(bytes) + 1] = b
    OBVIOUS
  <1>2. ASSUME NEW i \in 1..(Len(bytes) + 1)
        PROVE  Append(bytes, b)[i] = p + i - 1
    <2>1. CASE i <= Len(bytes)
      BY <1>1, <2>1 DEF Run
    <2>2. CASE i = Len(bytes) + 1
      BY <1>1, <2>2
    <2> QED BY <1>1, <2>1, <2>2
  <1> QED BY <1>1, <1>2 DEF Run

\* Splitting a stream where a read stops.
LEMMA RunSplit ==
    ASSUME NEW bytes \in Seq(Nat), NEW p \in Int, NEW n \in 0..Len(bytes),
           Run(bytes, p)
    PROVE  LET a == SubSeq(bytes, 1, n)
               b == SubSeq(bytes, n + 1, Len(bytes))
           IN  /\ a \in Seq(Nat) /\ Len(a) = n /\ Run(a, p)
               /\ b \in Seq(Nat) /\ Len(b) = Len(bytes) - n /\ Run(b, p + n)
  <1> DEFINE a == SubSeq(bytes, 1, n)
             b == SubSeq(bytes, n + 1, Len(bytes))
  <1>1. /\ a \in Seq(Nat) /\ Len(a) = n /\ \A i \in 1..n : a[i] = bytes[i]
        /\ Len(bytes) \in Nat
    OBVIOUS
  <1>2. /\ b \in Seq(Nat) /\ Len(b) = Len(bytes) - n
        /\ \A i \in 1..(Len(bytes) - n) : b[i] = bytes[i + n]
    <2>1. /\ Len(bytes) \in Int /\ n \in Int /\ n <= Len(bytes) /\ 0 <= n
          /\ \A i \in (n + 1)..Len(bytes) : bytes[i] \in Nat
      OBVIOUS
    <2>2. /\ b \in Seq(Nat)
          /\ Len(b) = IF n + 1 <= Len(bytes) THEN Len(bytes) - (n + 1) + 1 ELSE 0
          /\ \A i \in 1..(Len(bytes) - (n + 1) + 1) : b[i] = bytes[(n + 1) + i - 1]
      BY <2>1, SubSeqProperties
    <2>3. Len(b) = Len(bytes) - n
      BY <2>1, <2>2
    <2>4. ASSUME NEW i \in 1..(Len(bytes) - n) PROVE b[i] = bytes[i + n]
      <3>1. i \in 1..(Len(bytes) - (n + 1) + 1) /\ (n + 1) + i - 1 = i + n
        BY <2>1
      <3> QED BY <2>2, <3>1
    <2> QED BY <2>2, <2>3, <2>4
  <1> HIDE DEF a, b
  <1>n. n \in Int /\ Len(bytes) \in Int /\ 0 <= n /\ n <= Len(bytes)
    OBVIOUS
  <1>3. Run(a, p)
    <2>1. ASSUME NEW i \in 1..n PROVE a[i] = p + i - 1
      <3>1. i \in 1..Len(bytes)
        BY <1>n
      <3> QED BY <1>1, <3>1 DEF Run
    <2> QED BY <1>1, <2>1 DEF Run
  <1>4. Run(b, p + n)
    <2>1. ASSUME NEW i \in 1..(Len(bytes) - n) PROVE b[i] = p + n + i - 1
      <3>1. i + n \in 1..Len(bytes) /\ p + (i + n) - 1 = p + n + i - 1
        BY <1>n
      <3> QED BY <1>2, <3>1 DEF Run
    <2> QED BY <1>2, <2>1 DEF Run
  <1> QED BY <1>1, <1>2, <1>3, <1>4 DEF a, b

\* Adding to a buffer what was read next.
LEMMA RunConcat ==
    ASSUME NEW a \in Seq(Nat), NEW b \in Seq(Nat), NEW p \in Int,
           Run(a, p), Run(b, p + Len(a))
    PROVE  Run(a \o b, p) /\ Len(a \o b) = Len(a) + Len(b) /\ a \o b \in Seq(Nat)
  <1>1. /\ Len(a \o b) = Len(a) + Len(b) /\ Len(a) \in Nat /\ Len(b) \in Nat
        /\ \A i \in 1..Len(a) : (a \o b)[i] = a[i]
        /\ \A i \in 1..Len(b) : (a \o b)[i + Len(a)] = b[i]
        /\ a \o b \in Seq(Nat)
    BY ConcatProperties
  <1>2. ASSUME NEW i \in 1..(Len(a) + Len(b))
        PROVE  (a \o b)[i] = p + i - 1
    <2>1. CASE i <= Len(a)
      BY <1>1, <2>1 DEF Run
    <2>2. CASE i > Len(a)
      <3>1. i - Len(a) \in 1..Len(b) /\ i = (i - Len(a)) + Len(a)
        BY <1>1, <2>2
      <3>2. (a \o b)[i] = b[i - Len(a)]
        BY <1>1, <3>1
      <3>3. b[i - Len(a)] = p + Len(a) + (i - Len(a)) - 1
        BY <3>1 DEF Run
      <3> QED BY <1>1, <3>2, <3>3
    <2> QED BY <1>1, <2>1, <2>2
  <1> QED BY <1>1, <1>2 DEF Run

\* Taking the first byte of a stream.
LEMMA RunTail ==
    ASSUME NEW bytes \in Seq(Nat), NEW p \in Int, bytes # << >>, Run(bytes, p)
    PROVE  /\ Head(bytes) = p /\ Run(Tail(bytes), p + 1)
           /\ Tail(bytes) \in Seq(Nat) /\ Len(Tail(bytes)) = Len(bytes) - 1
  <1>1. /\ Len(bytes) \in Nat /\ Len(bytes) >= 1 /\ Head(bytes) = bytes[1]
        /\ Tail(bytes) \in Seq(Nat) /\ Len(Tail(bytes)) = Len(bytes) - 1
        /\ \A i \in 1..(Len(bytes) - 1) : Tail(bytes)[i] = bytes[i + 1]
    OBVIOUS
  <1> QED BY <1>1 DEF Run

\* The side that has read all the bytes of a struct knows whose it is.
LEMMA DecodeStruct ==
    ASSUME NEW bytes \in Seq(Nat), Len(bytes) > 0, NEW s \in Syscalls,
           Run(bytes, (s - 1) * Len(bytes) + 1)
    PROVE  Decode(bytes) = s
  <1> DEFINE size == Len(bytes)
  <1>1. size \in Nat \ {0}
    OBVIOUS
  <1>2. IsStructOf(bytes, s)
    BY <1>1, ConnectionAssumption DEF Run, IsStructOf, ByteOf, Syscalls
  <1>3. ASSUME NEW t \in Syscalls, IsStructOf(bytes, t)
        PROVE  t = s
    <2>1. (t - 1) * size + 1 = (s - 1) * size + 1
      BY <1>1, <1>2, <1>3 DEF IsStructOf, ByteOf
    <2>2. t - 1 <= s - 1 /\ s - 1 <= t - 1
      BY <1>1, <2>1, TimesCancel, ConnectionAssumption DEF Syscalls
    <2> QED BY <2>2, ConnectionAssumption DEF Syscalls
  <1> QED BY <1>2, <1>3 DEF Decode

-----------------------------------------------------------------------------
(* The inductive invariant *)

\* The quantities the invariant adds up are numbers.
LEMMA Numbers ==
    ASSUME NEW f \in 0..MaxSyscalls, TypeOK
    PROVE  /\ issued \in Nat /\ issued * RequestSize \in Int
           /\ NextAnswer(f) \in Int /\ NextAnswer(f) <= f + 1 /\ Answered(f) \in Int
           /\ Consumed \in Nat /\ Len(executed) * ResponseSize \in Int
           /\ Len(executed) \in Nat /\ Len(tofd) \in Nat /\ Len(fromfd) \in Nat
           /\ Len(buf) \in Nat /\ Len(request) \in Nat
  <1>1. /\ issued \in Nat /\ NextAnswer(f) \in Int /\ Len(executed) \in Nat
        /\ Len(tofd) \in Nat /\ Len(fromfd) \in Nat /\ Len(buf) \in Nat
        /\ Len(request) \in Nat
    BY Sizes DEF TypeOK, NextAnswer
  <1>n. NextAnswer(f) <= f + 1
    <2>1. Len(response_queue) \in Nat /\ f \in Int
      BY Sizes DEF TypeOK
    <2> QED BY <2>1 DEF NextAnswer
  <1>2. issued * RequestSize \in Int /\ (NextAnswer(f) - 1) * ResponseSize \in Int
    BY <1>1, Sizes
  <1>3. Len(executed) * RequestSize \in Nat /\ Len(executed) * ResponseSize \in Nat
    BY <1>1, Sizes
  <1> QED BY <1>1, <1>n, <1>2, <1>3 DEF Consumed, Answered

\* get_many: the whole of request_queue becomes the batch.
LEMMA GetManyQueues ==
    ASSUME NEW f \in 0..MaxSyscalls, TypeOK, QueuesInv(f), GetMany, issued' = issued
    PROVE  /\ Taken' = issued /\ Base' = Taken
           /\ issued \in Nat /\ Taken \in Nat /\ Taken <= issued
           /\ Base \in Nat /\ Base <= Taken
           /\ requests' \in Seq(Syscalls) /\ request_queue' = << >>
           /\ \A i \in 1..Len(requests') : requests'[i] = Base' + i
           /\ requests' = << >> <=> writer' = "get_many"
           /\ writer' \in {"get_many", "ptr"}
  <1>1. /\ requests' = request_queue /\ request_queue' = << >>
        /\ writer' = IF request_queue = << >> THEN "get_many" ELSE "ptr"
    BY DEF GetMany
  <1>2. /\ request_queue \in Seq(Syscalls) /\ requests \in Seq(Syscalls)
        /\ issued \in Nat
    BY DEF TypeOK
  <1>3. /\ Taken \in Int /\ Taken <= issued /\ Base <= Taken
        /\ Taken' = issued /\ Base' = Taken
    BY <1>1, <1>2 DEF Taken, Base
  <1> QED BY <1>1, <1>2, <1>3 DEF QueuesInv

\* get_one: the caller after the one just answered.
LEMMA GetOneQueues ==
    ASSUME NEW f \in 0..MaxSyscalls, TypeOK, QueuesInv(f), GetOne, current # 0,
           UNCHANGED <<issued, request_queue, writer, requests, wreq, wbyte>>
    PROVE  /\ NextAnswer(f) = current /\ NextAnswer(f)' = current + 1
           /\ current \in Syscalls /\ current <= f
           /\ Base' = Base /\ Base \in Nat /\ f <= Base /\ Base <= issued
           /\ current' \in 0..MaxSyscalls /\ response_queue' \in Seq(Syscalls)
           /\ QueuesInv(f)'
  <1> USE Sizes DEF Syscalls
  <1>1. /\ response_queue \in Seq(1..MaxSyscalls) /\ current \in 0..MaxSyscalls
        /\ request_queue \in Seq(1..MaxSyscalls) /\ requests \in Seq(1..MaxSyscalls)
        /\ issued \in Nat
    BY DEF TypeOK
  <1>2. /\ NextAnswer(f) = current /\ current = f - Len(response_queue)
    BY <1>1 DEF QueuesInv, NextAnswer
  <1>3. Base' = Base /\ Taken' = Taken /\ Base \in Nat /\ f <= Base /\ Base <= issued
    BY <1>1 DEF Base, Taken, QueuesInv
  <1>4. CASE response_queue = << >>
    <2>1. current' = 0 /\ response_queue' = << >>
      BY <1>4 DEF GetOne
    <2>2. NextAnswer(f)' = current + 1
      BY <1>1, <1>2, <1>4, <2>1 DEF NextAnswer
    <2> QED BY <1>1, <1>2, <1>3, <2>1, <2>2 DEF QueuesInv
  <1>5. CASE response_queue # << >>
    <2>1. current' = Head(response_queue) /\ response_queue' = Tail(response_queue)
      BY <1>5 DEF GetOne
    <2>2. /\ current' = response_queue[1] /\ Len(response_queue') = Len(response_queue) - 1
          /\ response_queue' \in Seq(1..MaxSyscalls) /\ current' \in 1..MaxSyscalls
          /\ \A i \in 1..Len(response_queue') : response_queue'[i] = response_queue[i + 1]
      BY <1>1, <1>5, <2>1
    <2>3. \A i \in 1..Len(response_queue) :
              response_queue[i] = f - Len(response_queue) + i
      BY DEF QueuesInv
    <2>4. /\ current' = current + 1 /\ current' # 0
          /\ current' = f - Len(response_queue')
      BY <1>1, <1>2, <1>5, <2>2, <2>3
    <2>5. \A i \in 1..Len(response_queue') :
              response_queue'[i] = f - Len(response_queue') + i
      BY <1>1, <2>2, <2>3
    <2>6. NextAnswer(f)' = current + 1
      <3>1. NextAnswer(f)' = f - Len(response_queue') + 0
        BY <2>4 DEF NextAnswer
      <3>2. Len(response_queue') \in Int
        BY <2>2
      <3> QED BY <2>4, <3>1, <3>2
    <2>7. QueuesInv(f)'
      <3>1. NextAnswer(f)' >= 1 /\ Len(response_queue') \in Nat
        BY <1>1, <2>2, <2>6
      <3> QED BY <1>3, <2>4, <2>5, <3>1 DEF QueuesInv
    <2>8. current \in 1..MaxSyscalls /\ current <= f
      BY <1>1, <1>2
    <2> QED BY <1>2, <1>3, <2>2, <2>6, <2>7, <2>8
  <1> QED BY <1>4, <1>5

LEMMA InitInv == Init => IInv
  <1> SUFFICES ASSUME Init PROVE Inv(0)
    BY ConnectionAssumption DEF IInv
  <1> USE ConnectionAssumption DEF Init
  <1>1. TypeOK
    BY DEF TypeOK, Status
  <1>2. QueuesInv(0)
    BY DEF QueuesInv, Taken, Base, NextAnswer
  <1>3. StatusInv(0) /\ SendFailedInv(0) /\ HungUpInv
    BY DEF StatusInv, SendFailedInv, HungUpInv, HungUp, Taken, Base, NextAnswer, Syscalls
  <1>4. RequestInv
    BY DEF RequestInv, Run, Consumed, NextWrite, ByteOf, Taken, Base
  <1>5. ResponseInv(0)
    BY DEF ResponseInv, Run, Answered, NextAnswer, NextRespond, ByteOf
  <1>6. ReturnsOwnResult /\ PerformedInOrder /\ ErrorsArePermanent
    BY DEF ReturnsOwnResult, PerformedInOrder, ErrorsArePermanent
  <1> QED BY <1>1, <1>2, <1>3, <1>4, <1>5, <1>6 DEF Inv

\* A caller arrives: the last place of the last queue, or a batch of its own.
LEMMA SyscallInv ==
    ASSUME NEW f \in 0..MaxSyscalls, Inv(f), Syscall
    PROVE  Inv(f)'
  <1> USE ConnectionAssumption DEF Inv, reading, to, from, server
  <1>1. /\ issued \in Nat /\ issued + 1 \in Syscalls /\ issued' = issued + 1
        /\ status' = [status EXCEPT ![issued + 1] = "pending"]
        /\ UNCHANGED <<value, wreq, wbyte, response_queue, current, buf, tofd,
                       tofd_open, fromfd, fromfd_open, srv, request, sbyte, executed>>
    BY DEF Syscall, TypeOK, Syscalls
  <1>2. /\ requests \in Seq(Syscalls) /\ request_queue \in Seq(Syscalls)
        /\ status \in [Syscalls -> Status]
    BY DEF TypeOK
  <1>3. IF writer = "get_many"
        THEN /\ writer' = "ptr" /\ requests' = <<issued + 1>>
             /\ request_queue' = request_queue
        ELSE /\ request_queue' = Append(request_queue, issued + 1)
             /\ writer' = writer /\ requests' = requests
    BY DEF Syscall
  <1>4. TypeOK'
    <2>1. requests' \in Seq(Syscalls)
      <3>1. <<issued + 1>> \in Seq(Syscalls)
        BY <1>1
      <3> QED BY <1>2, <1>3, <3>1
    <2>2. request_queue' \in Seq(Syscalls)
      <3>1. Append(request_queue, issued + 1) \in Seq(Syscalls)
        BY <1>1, <1>2
      <3> QED BY <1>2, <1>3, <3>1
    <2>3. writer' \in {"get_many", "ptr", "writing"}
      BY <1>3 DEF TypeOK
    <2>4. status' \in [Syscalls -> Status]
      BY <1>1, <1>2 DEF Status
    <2> QED BY <1>1, <2>1, <2>2, <2>3, <2>4 DEF TypeOK, Syscalls
  <1>5. /\ Base' = Base /\ NextAnswer(f)' = NextAnswer(f) /\ QueuesInv(f)'
        /\ writer = "writing" <=> writer' = "writing"
    <2>1. NextAnswer(f)' = NextAnswer(f)
      BY <1>1 DEF NextAnswer
    <2>2. CASE writer = "get_many"
      <3>1. request_queue = << >> /\ requests = << >> /\ Base = issued
        BY <1>1, <2>2 DEF QueuesInv, Base, Taken
      <3>2. /\ request_queue' = << >> /\ requests' = <<issued + 1>>
            /\ writer' = "ptr"
        BY <1>3, <2>2, <3>1
      <3>3. Taken' = issued + 1 /\ Base' = issued
        BY <1>1, <3>2 DEF Base, Taken
      <3> QED BY <1>1, <2>1, <2>2, <3>1, <3>2, <3>3 DEF QueuesInv
    <2>3. CASE writer # "get_many"
      <3>1. /\ request_queue' = Append(request_queue, issued + 1)
            /\ UNCHANGED <<writer, requests>>
        BY <1>3, <2>3
      <3>2. Len(request_queue') = Len(request_queue) + 1 /\ Taken' = Taken /\ Base' = Base
        BY <1>1, <1>2, <3>1 DEF Taken, Base
      <3>3. \A i \in 1..Len(request_queue') : request_queue'[i] = Taken + i
        BY <1>1, <1>2, <3>1, <3>2 DEF QueuesInv, Taken
      <3> QED BY <1>1, <2>1, <2>3, <3>1, <3>2, <3>3 DEF QueuesInv
    <2> QED BY <2>1, <2>2, <2>3
  <1>6. \A s \in Syscalls : status'[s] = IF s = issued + 1 THEN "pending" ELSE status[s]
    BY <1>1, <1>2
  <1>7. f <= Base /\ Base <= issued /\ Base \in Nat /\ NextAnswer(f) \in Int
    BY <1>1, <1>2 DEF QueuesInv, Base, Taken, NextAnswer, TypeOK
  <1>8. StatusInv(f)'
    BY <1>1, <1>5, <1>6, <1>7 DEF StatusInv, Syscalls
  <1>9. SendFailedInv(f)'
    BY <1>1, <1>5 DEF SendFailedInv
  <1>10. (HungUp' <=> HungUp) /\ HungUpInv'
    BY <1>1, <1>6, <1>7 DEF HungUp, HungUpInv, StatusInv
  <1>11. RequestInv'
    <2>1. Consumed' = Consumed /\ NextWrite' = NextWrite
      BY <1>1, <1>5 DEF Consumed, NextWrite
    <2>2. issued' * RequestSize = issued * RequestSize + RequestSize
      BY <1>1, TimesSucc
    <2>3. /\ Consumed \in Int /\ Len(request) \in Nat /\ Len(tofd) \in Nat
          /\ issued * RequestSize \in Int
      BY <1>1 DEF TypeOK, Consumed
    <2> QED BY <1>1, <2>1, <2>2, <2>3 DEF RequestInv, Run
  <1>12. ResponseInv(f)'
    BY <1>1, <1>5, <1>10 DEF ResponseInv, Answered, NextRespond, Run
  <1>13. ReturnsOwnResult' /\ PerformedInOrder' /\ ErrorsArePermanent'
    <2>1. \A s \in Syscalls : status'[s] = "returned" <=> status[s] = "returned"
      BY <1>1, <1>6, <1>7 DEF StatusInv, Syscalls
    <2>2. executed \in Seq(Syscalls) /\ Len(executed) \in Nat
      BY DEF TypeOK
    <2> QED BY <1>1, <2>1, <2>2 DEF ReturnsOwnResult, PerformedInOrder, ErrorsArePermanent
  <1> QED BY <1>4, <1>5, <1>8, <1>9, <1>10, <1>11, <1>12, <1>13

\* ram.ptr: only the place of _run_requests changes.
LEMMA PtrDoneInv ==
    ASSUME NEW f \in 0..MaxSyscalls, Inv(f), PtrDone
    PROVE  Inv(f)'
  <1> USE ConnectionAssumption DEF Inv, PtrDone, callers, reading, to, from, server
  <1>1. TypeOK'
    BY DEF TypeOK
  <1>2. QueuesInv(f)'
    BY DEF QueuesInv, Taken, Base, NextAnswer, TypeOK
  <1>3. StatusInv(f)' /\ SendFailedInv(f)' /\ HungUpInv'
    BY DEF StatusInv, SendFailedInv, HungUpInv, HungUp, Taken, Base, NextAnswer
  <1>4. RequestInv'
    BY DEF RequestInv, Run, Consumed, NextWrite, ByteOf, Taken, Base
  <1>5. ResponseInv(f)'
    BY DEF ResponseInv, Run, Answered, NextAnswer, NextRespond, HungUp
  <1>6. ReturnsOwnResult' /\ PerformedInOrder' /\ ErrorsArePermanent'
    BY DEF ReturnsOwnResult, PerformedInOrder, ErrorsArePermanent
  <1> QED BY <1>1, <1>2, <1>3, <1>4, <1>5, <1>6

\* The next byte goes to the end of tofd.
LEMMA WriteByteInv ==
    ASSUME NEW f \in 0..MaxSyscalls, Inv(f), WriteByte
    PROVE  Inv(f)'
  <1> USE DEF Inv
  <1> DEFINE b == ByteOf(requests[wreq], wbyte, RequestSize)
  <1>1. /\ issued \in Nat /\ requests \in Seq(Syscalls) /\ request_queue \in Seq(Syscalls)
        /\ wreq \in Nat \ {0} /\ wbyte \in 1..RequestSize /\ wreq <= Len(requests)
        /\ tofd \in Seq(Nat) /\ request \in Seq(Nat) /\ executed \in Seq(Syscalls)
        /\ writer = "writing" /\ tofd_open
    BY DEF TypeOK, WriteByte
  <1>u. UNCHANGED <<issued, status, value, request_queue, writer, requests,
                    response_queue, current, buf, tofd_open, fromfd, fromfd_open,
                    srv, request, sbyte, executed>>
    BY DEF WriteByte, callers, reading, from, server
  <1>t. /\ wbyte \in Int /\ 1 <= wbyte /\ wbyte <= RequestSize /\ RequestSize \in Nat
        /\ wreq \in Nat /\ wreq >= 1
    BY <1>1, Sizes
  <1>w. \/ wbyte < RequestSize /\ wbyte' = wbyte + 1 /\ wreq' = wreq
        \/ wbyte = RequestSize /\ wbyte' = 1 /\ wreq' = wreq + 1
    BY <1>t DEF WriteByte
  <1>2. /\ Base \in Nat /\ requests[wreq] = Base + wreq /\ Base + wreq <= issued
        /\ Taken' = Taken /\ Base' = Base
    BY <1>1, <1>u DEF QueuesInv, Base, Taken
  <1>3. /\ b = NextWrite /\ b = Consumed + Len(request) + Len(tofd) + 1
        /\ Consumed \in Nat
    <2>1. Len(executed) \in Nat /\ RequestSize \in Nat
      BY <1>1, Sizes
    <2>2. Len(executed) * RequestSize \in Nat
      BY <2>1
    <2> QED BY <1>1, <1>2, <2>2 DEF NextWrite, RequestInv, Consumed
  <1>4. b \in Nat
    BY <1>1, <1>3
  <1> HIDE DEF b
  <1>5. tofd' = Append(tofd, b) /\ tofd' \in Seq(Nat) /\ Len(tofd') = Len(tofd) + 1
    BY <1>1, <1>4 DEF b, WriteByte
  <1>6. TypeOK'
    <2>1. wreq' \in Nat \ {0} /\ wbyte' \in 1..RequestSize
      BY <1>t, <1>w
    <2> QED BY <1>5, <1>u, <2>1 DEF TypeOK
  <1>7. QueuesInv(f)'
    <2>1. wreq' <= Len(requests) + 1 /\ (wreq' = Len(requests) + 1 => wbyte' = 1)
      <3>1. Len(requests) \in Nat
        BY <1>1
      <3> QED BY <1>1, <1>t, <1>w, <3>1
    <2>2. NextAnswer(f)' = NextAnswer(f)
      BY <1>u DEF NextAnswer
    <2> QED BY <1>2, <1>u, <2>1, <2>2 DEF QueuesInv
  <1>8. StatusInv(f)' /\ SendFailedInv(f)' /\ HungUpInv'
    BY <1>1, <1>2, <1>u DEF StatusInv, SendFailedInv, HungUpInv, HungUp, NextAnswer
  <1>9. RequestInv'
    <2>1. Consumed' = Consumed
      BY <1>u DEF Consumed
    <2>2. b = (Base + wreq - 1) * RequestSize + wbyte
      BY <1>1, <1>2 DEF b, ByteOf
    <2>3. (Base + wreq) * RequestSize = (Base + wreq - 1) * RequestSize + RequestSize
      BY <1>t, <1>2, TimesSucc
    <2>4. (Base + wreq) * RequestSize <= issued * RequestSize
      <3>1. issued \in Int /\ Base + wreq \in Int /\ Base + wreq <= issued
        BY <1>1, <1>2
      <3> QED BY <1>t, <3>1, TimesMono
    <2>5. /\ (Base + wreq) * RequestSize \in Int /\ issued * RequestSize \in Int
          /\ (Base + wreq - 1) * RequestSize \in Int
      BY <1>1, <1>2, <1>t
    <2>6. NextWrite' = b + 1
      <3>1. NextWrite' = ByteOf(Base + wreq', wbyte', RequestSize)
        BY <1>1, <1>2, <1>u DEF NextWrite
      <3>2. NextWrite' = (Base + wreq' - 1) * RequestSize + wbyte'
        BY <1>2, <1>t, <1>w, <3>1 DEF ByteOf
      <3>3. CASE wbyte < RequestSize
        BY <1>t, <1>w, <2>2, <2>5, <3>2, <3>3
      <3>4. CASE wbyte = RequestSize
        <4>1. Base + wreq' - 1 = Base + wreq /\ wbyte' = 1
          BY <1>1, <1>2, <1>w, <3>4
        <4>2. NextWrite' = (Base + wreq) * RequestSize + 1
          BY <3>2, <4>1
        <4> QED BY <2>2, <2>3, <2>5, <3>4, <4>2
      <3> QED BY <1>w, <3>3, <3>4
    <2>7. b <= issued * RequestSize
      BY <1>t, <2>2, <2>3, <2>4, <2>5
    <2>8. Run(tofd', Consumed + Len(request) + 1)
      <3>1. Consumed + Len(request) + 1 \in Int /\ Len(request) \in Nat
        BY <1>1, <1>3
      <3>2. b = Consumed + Len(request) + 1 + Len(tofd)
        BY <1>1, <1>3
      <3> QED BY <1>1, <1>4, <1>5, <3>1, <3>2, RunAppend DEF RequestInv
    <2>9. Len(request') = Len(request) /\ Len(request) \in Nat /\ Len(tofd) \in Nat
      BY <1>1, <1>u
    <2>10. /\ Consumed + Len(request) + Len(tofd') <= issued * RequestSize
           /\ NextWrite' = Consumed + Len(request) + Len(tofd') + 1
      BY <1>3, <1>5, <2>5, <2>6, <2>7, <2>9
    <2> QED BY <1>u, <2>1, <2>8, <2>10 DEF RequestInv, Run
  <1>10. ResponseInv(f)'
    BY <1>u DEF ResponseInv, Run, Answered, NextAnswer, NextRespond, HungUp
  <1>11. ReturnsOwnResult' /\ PerformedInOrder' /\ ErrorsArePermanent'
    BY <1>u DEF ReturnsOwnResult, PerformedInOrder, ErrorsArePermanent
  <1> QED BY <1>6, <1>7, <1>8, <1>9, <1>10, <1>11

\* The batch moves to the end of response_queue: what is forwarded is all
\* that was taken from request_queue.
LEMMA ForwardRequestsInv ==
    ASSUME NEW f \in 0..MaxSyscalls, Inv(f), ForwardRequests
    PROVE  /\ f = Base
           /\ \E g \in 0..MaxSyscalls :
                 /\ g = Base + Len(requests) /\ NextAnswer(g)' = NextAnswer(f)
                 /\ Inv(g)'
  <1> USE DEF Inv
  <1>1. /\ writer = "writing" /\ wreq > Len(requests) /\ GetMany
        /\ requests \in Seq(Syscalls) /\ request_queue \in Seq(Syscalls)
        /\ response_queue \in Seq(Syscalls) /\ current \in 0..MaxSyscalls
        /\ issued \in 0..MaxSyscalls
        /\ wreq \in Nat \ {0} /\ requests # << >>
    BY DEF ForwardRequests, TypeOK, QueuesInv
  <1>u. UNCHANGED <<issued, status, value, wreq, wbyte, buf, tofd,
                    tofd_open, fromfd, fromfd_open, srv, request, sbyte, executed>>
    BY DEF ForwardRequests, GetMany, callers, to, from, server
  <1>2. /\ Taken' = issued /\ Base' = Taken
        /\ issued \in Nat /\ Taken \in Nat /\ Taken <= issued
        /\ Base \in Nat /\ Base <= Taken
        /\ requests' \in Seq(Syscalls) /\ request_queue' = << >>
        /\ \A i \in 1..Len(requests') : requests'[i] = Base' + i
        /\ requests' = << >> <=> writer' = "get_many"
        /\ writer' \in {"get_many", "ptr"}
    BY <1>1, <1>u, GetManyQueues
  <1>3. Taken \in 0..MaxSyscalls
    <2>1. issued <= MaxSyscalls
      BY <1>1
    <2> QED BY <1>2, <2>1, Sizes
  <1>4. PICK g \in 0..MaxSyscalls : g = Taken
    BY <1>3
  <1>t. /\ g \in Int /\ f \in Int /\ Base \in Int /\ issued \in Int
        /\ f <= Base /\ Base <= g /\ g <= issued /\ 0 <= g
        /\ Len(requests) \in Nat /\ Len(requests) >= 1 /\ Len(response_queue) \in Nat
        /\ g = Base + Len(requests)
    <2>1. Len(requests) \in Nat /\ Len(requests) >= 1 /\ Len(response_queue) \in Nat
      BY <1>1
    <2>2. g = Base + Len(requests)
      BY <1>2, <1>4, <2>1 DEF Base
    <2> QED BY <1>2, <1>4, <2>1, <2>2 DEF QueuesInv
  <1>5. wreq = Len(requests) + 1 /\ wbyte = 1
    <2>1. /\ wreq <= Len(requests) + 1 /\ (wreq = Len(requests) + 1 => wbyte = 1)
          /\ wreq \in Int /\ wreq > Len(requests)
      BY <1>1 DEF QueuesInv
    <2> QED BY <1>t, <2>1
  <1>6. f = Base
    <2>1. f < Base => wreq = 1
      BY <1>1 DEF SendFailedInv
    <2> QED BY <1>t, <1>5, <2>1
  <1>7. /\ NextAnswer(g)' = NextAnswer(f)
        /\ current' \in 1..MaxSyscalls /\ response_queue' \in Seq(Syscalls)
        /\ current' = g - Len(response_queue')
        /\ \A i \in 1..Len(response_queue') :
              response_queue'[i] = g - Len(response_queue') + i
    <2>1. \A i \in 1..Len(requests) : requests[i] = f + i
      BY <1>6 DEF QueuesInv
    <2>2. CASE current = 0
      <3>1. /\ response_queue = << >> /\ current' = Head(requests)
            /\ response_queue' = Tail(requests)
        BY <2>2 DEF QueuesInv, ForwardRequests
      <3>2. /\ current' = f + 1 /\ current' \in Syscalls
            /\ response_queue' \in Seq(Syscalls)
            /\ Len(response_queue') = Len(requests) - 1
            /\ \A i \in 1..(Len(requests) - 1) : response_queue'[i] = requests[i + 1]
        BY <1>1, <1>t, <2>1, <3>1
      <3>3. /\ current' \in 1..MaxSyscalls /\ current' # 0 /\ current' \in Int
            /\ current' = f + 1 /\ Len(response_queue') = Len(requests) - 1
        BY <3>2, Sizes DEF Syscalls
      <3>4. g - Len(response_queue') = f + 1
        BY <1>t, <1>6, <3>3
      <3>5. \A i \in 1..(Len(requests) - 1) : response_queue'[i] = f + 1 + i
        BY <1>t, <2>1, <3>2
      <3>6. NextAnswer(f) = f + 1
        BY <1>t, <2>2, <3>1 DEF NextAnswer
      <3>7. NextAnswer(g)' = f + 1
        <4>1. NextAnswer(g)' = g - Len(response_queue') + 0
          BY <3>3 DEF NextAnswer
        <4>2. f + 1 \in Int /\ (f + 1) + 0 = f + 1
          BY <1>t
        <4> QED BY <3>4, <4>1, <4>2
      <3> QED BY <3>2, <3>3, <3>4, <3>5, <3>6, <3>7
    <2>3. CASE current # 0
      <3>1. /\ current = f - Len(response_queue) /\ current' = current
            /\ response_queue' = response_queue \o requests
        BY <2>3 DEF QueuesInv, ForwardRequests
      <3>2. /\ response_queue' \in Seq(Syscalls)
            /\ Len(response_queue') = Len(response_queue) + Len(requests)
            /\ \A i \in 1..Len(response_queue) : response_queue'[i] = response_queue[i]
            /\ \A i \in 1..Len(requests) :
                  response_queue'[i + Len(response_queue)] = requests[i]
        BY <1>1, <3>1, ConcatProperties
      <3>3. /\ current \in 1..MaxSyscalls /\ current \in Int
            /\ Len(response_queue') = Len(response_queue) + Len(requests)
        BY <1>1, <2>3, <3>2, Sizes
      <3>4. g - Len(response_queue') = f - Len(response_queue)
        BY <1>t, <1>6, <3>3
      <3>5. \A i \in 1..Len(response_queue) :
                response_queue[i] = f - Len(response_queue) + i
        BY DEF QueuesInv
      <3>6. ASSUME NEW i \in 1..(Len(response_queue) + Len(requests))
            PROVE  response_queue'[i] = f - Len(response_queue) + i
        <4>1. CASE i <= Len(response_queue)
          BY <1>t, <3>2, <3>5, <4>1
        <4>2. CASE i > Len(response_queue)
          <5>1. /\ i - Len(response_queue) \in 1..Len(requests)
                /\ i = (i - Len(response_queue)) + Len(response_queue)
            BY <1>t, <4>2
          <5>2. response_queue'[i] = requests[i - Len(response_queue)]
            BY <3>2, <5>1
          <5>3. requests[i - Len(response_queue)] = f + (i - Len(response_queue))
            BY <2>1, <5>1
          <5> QED BY <1>t, <5>2, <5>3
        <4> QED BY <1>t, <4>1, <4>2
      <3>7. NextAnswer(f) = f - Len(response_queue)
        BY <1>t, <2>3 DEF NextAnswer
      <3>8. NextAnswer(g)' = f - Len(response_queue)
        <4>1. NextAnswer(g)' = g - Len(response_queue') + 0
          BY <2>3, <3>1 DEF NextAnswer
        <4> QED BY <1>t, <3>3, <3>4, <4>1
      <3> QED BY <3>1, <3>2, <3>3, <3>4, <3>6, <3>7, <3>8
    <2> QED BY <2>2, <2>3
  <1>8. TypeOK'
    <2>1. request_queue' \in Seq(Syscalls)
      BY <1>2
    <2>2. current' \in 0..MaxSyscalls
      BY <1>7, Sizes
    <2> QED BY <1>2, <1>7, <1>u, <2>1, <2>2 DEF TypeOK
  <1>9. QueuesInv(g)'
    <2>1. g <= Base' /\ Base' \in Nat /\ g \in Nat
      BY <1>2, <1>4, <1>t
    <2>2. NextAnswer(g)' >= 1 /\ current' # 0
      BY <1>7, Sizes DEF QueuesInv
    <2> QED BY <1>2, <1>7, <2>1, <2>2 DEF QueuesInv
  <1>10. StatusInv(g)'
    <2>1. Base' = g /\ NextAnswer(f) \in Int /\ NextAnswer(f) <= f + 1
      BY <1>2, <1>4, Numbers
    <2>2. \A s \in Syscalls :
             /\ s < NextAnswer(f) => status[s] \in {"returned", "hangup"}
             /\ NextAnswer(f) <= s /\ s <= f => status[s] = "pending"
             /\ f < s /\ s <= issued => status[s] = "pending"
             /\ issued < s => status[s] = "unissued"
      BY <1>6 DEF StatusInv
    <2> QED BY <1>7, <1>t, <1>u, <2>1, <2>2 DEF StatusInv, Syscalls
  <1>11. SendFailedInv(g)' /\ HungUpInv'
    BY <1>2, <1>4, <1>t, <1>u DEF SendFailedInv, HungUpInv, HungUp
  <1>12. RequestInv'
    <2>1. Consumed' = Consumed
      BY <1>u DEF Consumed
    <2>2. NextWrite' = NextWrite
      <3>1. NextWrite' = ByteOf(g + 1, 1, RequestSize)
        BY <1>2, <1>4 DEF NextWrite
      <3>2. NextWrite = ByteOf(Base + (Len(requests) + 1), 1, RequestSize)
        BY <1>1, <1>5 DEF NextWrite
      <3>3. Base + (Len(requests) + 1) = g + 1
        BY <1>t
      <3> QED BY <3>1, <3>2, <3>3
    <2> QED BY <1>u, <2>1, <2>2 DEF RequestInv, Run
  <1>13. ResponseInv(g)'
    <2>1. Answered(g)' = Answered(f)
      BY <1>7 DEF Answered
    <2> QED BY <1>u, <2>1 DEF ResponseInv, Run, NextRespond, HungUp
  <1>14. ReturnsOwnResult' /\ PerformedInOrder' /\ ErrorsArePermanent'
    BY <1>u DEF ReturnsOwnResult, PerformedInOrder, ErrorsArePermanent
  <1> QED BY <1>6, <1>7, <1>t, <1>8, <1>9, <1>10, <1>11, <1>12, <1>13, <1>14

\* The batch leaves with an error and tofd stays closed.
LEMMA SendErrorInv ==
    ASSUME NEW f \in 0..MaxSyscalls, Inv(f), SendError
    PROVE  Inv(f)'
  <1> USE DEF Inv
  <1>1. /\ writer = "writing" /\ ~tofd_open /\ GetMany
        /\ requests \in Seq(Syscalls) /\ request_queue \in Seq(Syscalls)
        /\ status \in [Syscalls -> Status]
        /\ status' = [s \in Syscalls |->
                        IF \E i \in 1..Len(requests) : requests[i] = s
                        THEN "sendError" ELSE status[s]]
    BY DEF SendError, TypeOK
  <1>u. UNCHANGED <<issued, value, wreq, wbyte, response_queue, current, buf, tofd,
                    tofd_open, fromfd, fromfd_open, srv, request, sbyte, executed>>
    BY DEF SendError, GetMany, reading, to, from, server
  <1>2. /\ Taken' = issued /\ Base' = Taken
        /\ issued \in Nat /\ Taken \in Nat /\ Taken <= issued
        /\ Base \in Nat /\ Base <= Taken
        /\ requests' \in Seq(Syscalls) /\ request_queue' = << >>
        /\ \A i \in 1..Len(requests') : requests'[i] = Base' + i
        /\ requests' = << >> <=> writer' = "get_many"
        /\ writer' \in {"get_many", "ptr"}
    BY <1>1, <1>u, GetManyQueues
  <1>t. /\ f \in Int /\ f <= Base /\ Base \in Int /\ Taken \in Int /\ issued \in Int
        /\ Base <= Taken /\ Taken <= issued /\ NextAnswer(f) \in Int
    BY <1>2, Numbers DEF QueuesInv
  <1>n. NextAnswer(f)' = NextAnswer(f)
    BY <1>u DEF NextAnswer
  <1>s. \A s \in Syscalls :
            status'[s] = IF Base < s /\ s <= Taken THEN "sendError" ELSE status[s]
    <2>1. Taken = Base + Len(requests) /\ Len(requests) \in Nat
      BY <1>1, <1>2 DEF Base
    <2>2. \A i \in 1..Len(requests) : requests[i] = Base + i
      BY DEF QueuesInv
    <2>3. ASSUME NEW s \in Int
          PROVE  (\E i \in 1..Len(requests) : requests[i] = s) <=> Base < s /\ s <= Taken
      <3>1. ASSUME Base < s, s <= Taken
            PROVE  \E i \in 1..Len(requests) : requests[i] = s
        <4>1. s - Base \in 1..Len(requests) /\ Base + (s - Base) = s
          BY <1>t, <2>1, <3>1
        <4> QED BY <2>2, <4>1
      <3>2. ASSUME NEW i \in 1..Len(requests), requests[i] = s
            PROVE  Base < s /\ s <= Taken
        <4>1. s = Base + i /\ i \in Int /\ 1 <= i /\ i <= Len(requests)
          BY <2>1, <2>2, <3>2
        <4> QED BY <1>t, <2>1, <4>1
      <3> QED BY <3>1, <3>2
    <2> QED BY <1>1, <2>3 DEF Syscalls
  <1>3. TypeOK'
    <2>1. status' \in [Syscalls -> Status]
      BY <1>1 DEF Status
    <2>2. request_queue' \in Seq(Syscalls)
      BY <1>2
    <2> QED BY <1>2, <1>u, <2>1, <2>2 DEF TypeOK
  <1>4. QueuesInv(f)'
    <2>1. f <= Base' /\ Base' \in Nat
      BY <1>2, <1>t
    <2> QED BY <1>2, <1>n, <1>u, <2>1 DEF QueuesInv
  <1>5. StatusInv(f)'
    <2>1. NextAnswer(f) <= f + 1
      BY Numbers
    <2> QED BY <1>2, <1>n, <1>s, <1>t, <1>u, <2>1 DEF StatusInv, Syscalls
  <1>6. SendFailedInv(f)'
    BY <1>1, <1>2, <1>u DEF SendFailedInv
  <1>7. \A s \in Syscalls : Base < s /\ s <= Taken => status[s] = "pending"
    BY <1>t DEF StatusInv, Syscalls
  <1>8. HungUp' = HungUp /\ HungUpInv'
    BY <1>7, <1>s, <1>u DEF HungUp, HungUpInv
  <1>9. RequestInv'
    <2>1. Consumed' = Consumed
      BY <1>u DEF Consumed
    <2> QED BY <1>1, <1>u, <2>1 DEF RequestInv, Run
  <1>10. ResponseInv(f)'
    BY <1>8, <1>n, <1>u DEF ResponseInv, Run, Answered, NextRespond
  <1>11. ReturnsOwnResult' /\ PerformedInOrder' /\ ErrorsArePermanent'
    <2>1. \A s \in Syscalls : status'[s] = "returned" <=> status[s] = "returned"
      BY <1>7, <1>s
    <2> QED BY <1>u, <2>1 DEF ReturnsOwnResult, PerformedInOrder, ErrorsArePermanent
  <1> QED BY <1>3, <1>4, <1>5, <1>6, <1>8, <1>9, <1>10, <1>11

\* Bytes move from fromfd to buf.
LEMMA ReadResponseInv ==
    ASSUME NEW f \in 0..MaxSyscalls, NEW n \in 1..FromFdCapacity,
           Inv(f), ReadResponse(n)
    PROVE  Inv(f)'
  <1> USE DEF Inv
  <1> DEFINE head == SubSeq(fromfd, 1, n)
  <1>1. /\ fromfd \in Seq(Nat) /\ buf \in Seq(Nat)
        /\ n \in 0..Len(fromfd) /\ n >= 1
        /\ buf' = buf \o head
        /\ fromfd' = SubSeq(fromfd, n + 1, Len(fromfd))
    BY ConnectionAssumption DEF ReadResponse, TypeOK
  <1>u. UNCHANGED <<issued, status, value, request_queue, writer, requests, wreq,
                    wbyte, response_queue, current, tofd, tofd_open, fromfd_open,
                    srv, request, sbyte, executed>>
    BY DEF ReadResponse, callers, writing, to, server
  <1>2. /\ Answered(f) \in Int /\ Len(fromfd) \in Nat /\ Len(buf) \in Nat
        /\ n \in Nat /\ n <= Len(fromfd)
    <2>1. n \in Nat /\ n <= Len(fromfd)
      BY <1>1
    <2> QED BY <2>1, Numbers
  <1>h. ~HungUp /\ ~HungUp'
    <2>1. fromfd # << >>
      BY <1>1
    <2> QED BY <1>u, <2>1 DEF HungUpInv, HungUp
  <1>3. /\ head \in Seq(Nat) /\ Len(head) = n /\ Run(head, Answered(f) + Len(buf) + 1)
        /\ fromfd' \in Seq(Nat) /\ Len(fromfd') = Len(fromfd) - n
        /\ Run(fromfd', Answered(f) + Len(buf) + 1 + n)
    <2>1. Answered(f) + Len(buf) + 1 \in Int
      BY <1>2
    <2>2. Run(fromfd, Answered(f) + Len(buf) + 1)
      BY <1>h DEF ResponseInv
    <2> QED BY <1>1, <2>1, <2>2, RunSplit
  <1> HIDE DEF head
  <1>4. /\ buf' \in Seq(Nat) /\ Len(buf') = Len(buf) + n
        /\ Run(buf', Answered(f) + 1)
    <2>1. Answered(f) + 1 \in Int /\ Answered(f) + Len(buf) + 1 = Answered(f) + 1 + Len(buf)
      BY <1>2
    <2>2. Run(buf, Answered(f) + 1)
      BY <1>h DEF ResponseInv
    <2>3. Run(head, Answered(f) + 1 + Len(buf))
      BY <1>3, <2>1
    <2> QED BY <1>1, <1>3, <2>1, <2>2, <2>3, RunConcat
  <1>5. TypeOK'
    BY <1>3, <1>4, <1>u DEF TypeOK
  <1>6. QueuesInv(f)'
    BY <1>u DEF QueuesInv, Taken, Base, NextAnswer
  <1>7. StatusInv(f)' /\ SendFailedInv(f)' /\ HungUpInv'
    BY <1>h, <1>u DEF StatusInv, SendFailedInv, HungUpInv, Taken, Base, NextAnswer
  <1>8. RequestInv'
    BY <1>u DEF RequestInv, Run, Consumed, NextWrite, Taken, Base
  <1>9. ResponseInv(f)'
    <2>1. Answered(f)' = Answered(f) /\ NextRespond' = NextRespond
      BY <1>u DEF Answered, NextAnswer, NextRespond
    <2>2. /\ Answered(f) + Len(buf') + 1 = Answered(f) + Len(buf) + 1 + n
          /\ Answered(f) + Len(buf') + Len(fromfd') = Answered(f) + Len(buf) + Len(fromfd)
      <3>1. Len(buf') = Len(buf) + n /\ Len(fromfd') = Len(fromfd) - n
        BY <1>3, <1>4
      <3>2. \A a, b, c, d \in Int : /\ a + (b + d) + 1 = a + b + 1 + d
                                   /\ a + (b + d) + (c - d) = a + b + c
        OBVIOUS
      <3> QED BY <1>2, <3>1, <3>2
    <2>3. Run(fromfd', Answered(f) + Len(buf') + 1)
      BY <1>3, <2>2
    <2>4. /\ Answered(f) + Len(buf') + Len(fromfd') <= Len(executed) * ResponseSize
          /\ fromfd_open /\ srv # "returned" =>
               NextRespond = Answered(f) + Len(buf') + Len(fromfd') + 1
      BY <1>h, <2>2 DEF ResponseInv
    <2> QED BY <1>4, <1>h, <1>u, <2>1, <2>3, <2>4 DEF ResponseInv
  <1>10. ReturnsOwnResult' /\ PerformedInOrder' /\ ErrorsArePermanent'
    BY <1>u DEF ReturnsOwnResult, PerformedInOrder, ErrorsArePermanent
  <1> QED BY <1>5, <1>6, <1>7, <1>8, <1>9, <1>10

\* The oldest caller gets the first response in buf, which is its own.
LEMMA ReturnInv ==
    ASSUME NEW f \in 0..MaxSyscalls, Inv(f), Return
    PROVE  Inv(f)'
  <1> USE DEF Inv
  <1> DEFINE head == SubSeq(buf, 1, ResponseSize)
  <1>1. /\ current # 0 /\ GetOne /\ buf \in Seq(Nat) /\ fromfd \in Seq(Nat)
        /\ Len(buf) >= ResponseSize
        /\ buf' = SubSeq(buf, ResponseSize + 1, Len(buf))
        /\ status \in [Syscalls -> Status] /\ value \in [Syscalls -> 0..MaxSyscalls]
        /\ status' = [status EXCEPT ![current] = "returned"]
        /\ value' = [value EXCEPT ![current] = Decode(head)]
    BY DEF Return, TypeOK
  <1>u. UNCHANGED <<issued, request_queue, writer, requests, wreq, wbyte, tofd,
                    tofd_open, fromfd, fromfd_open, srv, request, sbyte, executed>>
    BY DEF Return, writing, to, from, server
  <1>2. /\ NextAnswer(f) = current /\ NextAnswer(f)' = current + 1
        /\ current \in Syscalls /\ current <= f
        /\ Base' = Base /\ Base \in Nat /\ f <= Base /\ Base <= issued
        /\ current' \in 0..MaxSyscalls /\ response_queue' \in Seq(Syscalls)
        /\ QueuesInv(f)'
    BY <1>1, <1>u, GetOneQueues
  <1>t. /\ current \in Int /\ f \in Int /\ Base \in Int /\ current <= f /\ f <= Base
        /\ ResponseSize \in Nat /\ ResponseSize >= 1
        /\ Len(buf) \in Nat /\ Len(fromfd) \in Nat /\ Len(executed) \in Nat
        /\ Answered(f) \in Int /\ Len(executed) * ResponseSize \in Int
    <2>1. current \in Int
      BY <1>2 DEF Syscalls
    <2> QED BY <1>2, <2>1, Sizes, Numbers
  <1>h. ~HungUp
    BY <1>1, <1>t DEF HungUpInv
  <1>s. \A s \in Syscalls : /\ status'[s] = IF s = current THEN "returned" ELSE status[s]
                            /\ value'[s] = IF s = current THEN Decode(head) ELSE value[s]
    BY <1>1, <1>2
  <1>h2. ~HungUp'
    BY <1>h, <1>s DEF HungUp
  <1>3. Answered(f)' = Answered(f) + ResponseSize /\ Answered(f) = (current - 1) * ResponseSize
    <2>1. Answered(f)' = (current + 1 - 1) * ResponseSize
      <3>1. NextAnswer(f)' = current + 1
        BY <1>2
      <3>2. current + 1 \in Int
        BY <1>t
      <3> QED BY <3>1, <3>2, <1>t DEF Answered
    <2>2. current + 1 - 1 = current - 1 + 1 /\ current - 1 \in Int
      BY <1>t
    <2>3. (current - 1 + 1) * ResponseSize = (current - 1) * ResponseSize + ResponseSize
      BY <1>t, <2>2, TimesSucc
    <2> QED BY <1>2, <2>1, <2>2, <2>3 DEF Answered
  <1>4. /\ head \in Seq(Nat) /\ Len(head) = ResponseSize /\ Run(head, Answered(f) + 1)
        /\ buf' \in Seq(Nat) /\ Len(buf') = Len(buf) - ResponseSize
        /\ Run(buf', Answered(f) + 1 + ResponseSize)
    <2>1. Answered(f) + 1 \in Int /\ ResponseSize \in 0..Len(buf)
      BY <1>1, <1>t
    <2>2. Run(buf, Answered(f) + 1)
      BY <1>h DEF ResponseInv
    <2> QED BY <1>1, <2>1, <2>2, RunSplit
  <1> HIDE DEF head
  <1>5. Decode(head) = current
    <2>1. Run(head, (current - 1) * Len(head) + 1) /\ Len(head) > 0
      BY <1>3, <1>4, <1>t
    <2> QED BY <1>2, <1>4, <2>1, DecodeStruct
  <1>6. current <= Len(executed)
    <2>1. Answered(f) + Len(buf) + Len(fromfd) <= Len(executed) * ResponseSize
      BY <1>h DEF ResponseInv
    <2>2. Len(buf) >= ResponseSize
      BY <1>1
    <2>3. current * ResponseSize = Answered(f) + ResponseSize
      <3>1. current - 1 \in Int /\ current - 1 + 1 = current
        BY <1>t
      <3> QED BY <1>3, <1>t, <3>1, TimesSucc
    <2>4. current * ResponseSize <= Len(executed) * ResponseSize
      <3>1. \A a, b, c, d, e \in Int : a + b + c <= e /\ b >= d /\ c >= 0 => a + d <= e
        OBVIOUS
      <3>2. Answered(f) + ResponseSize <= Len(executed) * ResponseSize
        BY <1>t, <2>1, <2>2, <3>1
      <3> QED BY <2>3, <3>2
    <2> QED BY <1>t, <2>4, TimesCancel
  <1>7. TypeOK'
    <2>1. status' \in [Syscalls -> Status]
      BY <1>1, <1>2 DEF Status
    <2>2. value' \in [Syscalls -> 0..MaxSyscalls]
      <3>1. current \in 0..MaxSyscalls
        BY DEF TypeOK
      <3> QED BY <1>1, <1>2, <1>5, <3>1
    <2> QED BY <1>2, <1>4, <1>u, <2>1, <2>2 DEF TypeOK
  <1>8. StatusInv(f)'
    BY <1>2, <1>s, <1>t, <1>u DEF StatusInv, Syscalls
  <1>9. SendFailedInv(f)' /\ HungUpInv'
    BY <1>2, <1>h2, <1>u DEF SendFailedInv, HungUpInv
  <1>10. RequestInv'
    <2>1. Consumed' = Consumed /\ NextWrite' = NextWrite
      BY <1>u, <1>2 DEF Consumed, NextWrite
    <2> QED BY <1>u, <2>1 DEF RequestInv, Run
  <1>11. ResponseInv(f)'
    <2>1. NextRespond' = NextRespond
      BY <1>u DEF NextRespond
    <2>2. /\ Answered(f)' + 1 = Answered(f) + 1 + ResponseSize
          /\ Answered(f)' + Len(buf') + 1 = Answered(f) + Len(buf) + 1
          /\ Answered(f)' + Len(buf') + Len(fromfd') = Answered(f) + Len(buf) + Len(fromfd)
      <3>1. /\ Answered(f)' = Answered(f) + ResponseSize
            /\ Len(buf') = Len(buf) - ResponseSize /\ fromfd' = fromfd
        BY <1>3, <1>4, <1>u
      <3>2. \A a, b, c, d \in Int : /\ a + d + 1 = a + 1 + d
                                    /\ (a + d) + (b - d) + 1 = a + b + 1
                                    /\ (a + d) + (b - d) + c = a + b + c
        OBVIOUS
      <3> QED BY <1>t, <3>1, <3>2
    <2>3. /\ Run(buf', Answered(f)' + 1)
          /\ Run(fromfd', Answered(f)' + Len(buf') + 1)
      BY <1>4, <1>h, <1>u, <2>2 DEF ResponseInv
    <2>4. /\ Answered(f)' + Len(buf') + Len(fromfd') <= Len(executed) * ResponseSize
          /\ fromfd_open /\ srv # "returned" =>
               NextRespond = Answered(f)' + Len(buf') + Len(fromfd') + 1
      BY <1>h, <2>2 DEF ResponseInv
    <2> QED BY <1>u, <2>1, <2>3, <2>4 DEF ResponseInv
  <1>12. ReturnsOwnResult'
    BY <1>5, <1>6, <1>s, <1>u DEF ReturnsOwnResult
  <1>13. ErrorsArePermanent'
    <2>1. \A s \in Syscalls : s < current => status[s] = "returned"
      BY <1>2, <1>h DEF StatusInv, HungUp
    <2>2. status[current] = "pending"
      BY <1>2, <1>t DEF StatusInv
    <2> QED BY <1>2, <1>s, <2>1, <2>2 DEF ErrorsArePermanent
  <1>14. PerformedInOrder'
    BY <1>u DEF PerformedInOrder
  <1> QED BY <1>2, <1>7, <1>8, <1>9, <1>10, <1>11, <1>12, <1>13, <1>14

\* The oldest caller gets an error and fromfd stays at its end.
LEMMA HangupInv ==
    ASSUME NEW f \in 0..MaxSyscalls, Inv(f), Hangup
    PROVE  Inv(f)'
  <1> USE DEF Inv
  <1>1. /\ current # 0 /\ GetOne /\ Len(buf) < ResponseSize
        /\ fromfd = << >> /\ ~fromfd_open
        /\ status \in [Syscalls -> Status]
        /\ status' = [status EXCEPT ![current] = "hangup"]
    BY DEF Hangup, TypeOK
  <1>u. UNCHANGED <<issued, value, request_queue, writer, requests, wreq, wbyte, buf,
                    tofd, tofd_open, fromfd, fromfd_open, srv, request, sbyte, executed>>
    BY DEF Hangup, writing, to, from, server
  <1>2. /\ NextAnswer(f) = current /\ NextAnswer(f)' = current + 1
        /\ current \in Syscalls /\ current <= f
        /\ Base' = Base /\ Base \in Nat /\ f <= Base /\ Base <= issued
        /\ current' \in 0..MaxSyscalls /\ response_queue' \in Seq(Syscalls)
        /\ QueuesInv(f)'
    BY <1>1, <1>u, GetOneQueues
  <1>t. current \in Int /\ f \in Int /\ Base \in Int /\ current <= f /\ f <= Base
    <2>1. current \in Int
      BY <1>2 DEF Syscalls
    <2> QED BY <1>2, <2>1
  <1>s. \A s \in Syscalls : status'[s] = IF s = current THEN "hangup" ELSE status[s]
    BY <1>1, <1>2
  <1>h. HungUp'
    BY <1>2, <1>s DEF HungUp
  <1>3. TypeOK'
    <2>1. status' \in [Syscalls -> Status]
      BY <1>1, <1>2 DEF Status
    <2> QED BY <1>2, <1>u, <2>1 DEF TypeOK
  <1>4. StatusInv(f)'
    BY <1>2, <1>s, <1>t, <1>u DEF StatusInv, Syscalls
  <1>5. SendFailedInv(f)' /\ HungUpInv'
    BY <1>1, <1>2, <1>u DEF SendFailedInv, HungUpInv
  <1>6. RequestInv'
    <2>1. Consumed' = Consumed /\ NextWrite' = NextWrite
      BY <1>u, <1>2 DEF Consumed, NextWrite
    <2> QED BY <1>u, <2>1 DEF RequestInv, Run
  <1>7. ResponseInv(f)'
    BY <1>h, <1>u DEF ResponseInv
  <1>8. ReturnsOwnResult' /\ PerformedInOrder'
    BY <1>s, <1>u DEF ReturnsOwnResult, PerformedInOrder
  <1>9. ErrorsArePermanent'
    <2>1. status[current] = "pending"
      BY <1>2, <1>t DEF StatusInv
    <2> QED BY <1>2, <1>s, <2>1 DEF ErrorsArePermanent
  <1> QED BY <1>2, <1>3, <1>4, <1>5, <1>6, <1>7, <1>8, <1>9

\* A byte moves from tofd to request.
LEMMA ServerReadInv ==
    ASSUME NEW f \in 0..MaxSyscalls, Inv(f), ServerRead
    PROVE  Inv(f)'
  <1> USE DEF Inv
  <1>1. /\ tofd \in Seq(Nat) /\ request \in Seq(Nat) /\ executed \in Seq(Syscalls)
        /\ tofd # << >> /\ Len(request) < RequestSize /\ srv = "reading"
        /\ request' = Append(request, Head(tofd)) /\ tofd' = Tail(tofd)
    BY DEF TypeOK, ServerRead
  <1>u. UNCHANGED <<issued, status, value, request_queue, writer, requests, wreq,
                    wbyte, response_queue, current, buf, tofd_open, fromfd,
                    fromfd_open, srv, sbyte, executed>>
    BY DEF ServerRead, callers, writing, reading, from
  <1>2. Consumed \in Nat /\ Consumed' = Consumed
    <2>1. Len(executed) \in Nat /\ RequestSize \in Nat
      BY <1>1, Sizes
    <2> QED BY <1>u, <2>1 DEF Consumed
  <1>3. Len(request) \in Nat /\ Len(tofd) \in Nat
    BY <1>1
  <1>4. /\ Head(tofd) = Consumed + Len(request) + 1
        /\ Run(tofd', Consumed + Len(request) + 1 + 1)
        /\ tofd' \in Seq(Nat) /\ Len(tofd') = Len(tofd) - 1
    <2>1. Consumed + Len(request) + 1 \in Int
      BY <1>2, <1>3
    <2>2. Run(tofd, Consumed + Len(request) + 1)
      BY DEF RequestInv
    <2> QED BY <1>1, <2>1, <2>2, RunTail
  <1>5. /\ request' \in Seq(Nat) /\ Len(request') = Len(request) + 1
        /\ Run(request', Consumed + 1)
    <2>1. Head(tofd) \in Nat /\ Head(tofd) = Consumed + 1 + Len(request)
      BY <1>2, <1>3, <1>4
    <2>2. Run(Append(request, Head(tofd)), Consumed + 1)
      BY <1>1, <1>2, <2>1, RunAppend DEF RequestInv
    <2> QED BY <1>1, <2>1, <2>2
  <1>6. TypeOK'
    BY <1>4, <1>5, <1>u DEF TypeOK
  <1>7. QueuesInv(f)'
    BY <1>u DEF QueuesInv, Taken, Base, NextAnswer
  <1>8. StatusInv(f)' /\ SendFailedInv(f)' /\ HungUpInv'
    BY <1>u DEF StatusInv, SendFailedInv, HungUpInv, HungUp, Taken, Base, NextAnswer
  <1>9. RequestInv'
    <2>1. NextWrite' = NextWrite /\ issued' = issued
      BY <1>u DEF NextWrite, Base, Taken
    <2>2. /\ Consumed + Len(request') + 1 = Consumed + Len(request) + 1 + 1
          /\ Consumed + Len(request') + Len(tofd') = Consumed + Len(request) + Len(tofd)
          /\ Len(request') <= RequestSize
      BY <1>1, <1>2, <1>3, <1>4, <1>5, Sizes
    <2>3. Consumed + Len(request') + Len(tofd') <= issued * RequestSize
      BY <2>2 DEF RequestInv
    <2>4. tofd_open => NextWrite = Consumed + Len(request') + Len(tofd') + 1
      BY <2>2 DEF RequestInv
    <2> QED BY <1>1, <1>2, <1>4, <1>5, <1>u, <2>1, <2>2, <2>3, <2>4 DEF RequestInv
  <1>10. ResponseInv(f)'
    BY <1>u DEF ResponseInv, Run, Answered, NextAnswer, NextRespond, HungUp
  <1>11. ReturnsOwnResult' /\ PerformedInOrder' /\ ErrorsArePermanent'
    BY <1>u DEF ReturnsOwnResult, PerformedInOrder, ErrorsArePermanent
  <1> QED BY <1>6, <1>7, <1>8, <1>9, <1>10, <1>11

\* The bytes in request are the syscall that is next.
LEMMA ServerPerformInv ==
    ASSUME NEW f \in 0..MaxSyscalls, Inv(f), ServerPerform
    PROVE  Inv(f)'
  <1> USE DEF Inv
  <1> DEFINE s == Len(executed) + 1
  <1>1. /\ request \in Seq(Nat) /\ executed \in Seq(Syscalls) /\ tofd \in Seq(Nat)
        /\ issued \in 0..MaxSyscalls
        /\ srv = "reading" /\ Len(request) = RequestSize /\ request' = << >>
        /\ executed' = Append(executed, Decode(request))
        /\ srv' = "responding" /\ sbyte' = 1
    BY DEF TypeOK, ServerPerform
  <1>u. UNCHANGED <<issued, status, value, request_queue, writer, requests, wreq,
                    wbyte, response_queue, current, buf, tofd, tofd_open, fromfd,
                    fromfd_open>>
    BY DEF ServerPerform, callers, writing, reading, to, from
  <1>2. /\ Len(executed) \in Nat /\ Consumed = Len(executed) * RequestSize
        /\ Consumed \in Nat /\ Len(tofd) \in Nat /\ issued \in Int
        /\ issued * RequestSize \in Int
        /\ s * RequestSize = Consumed + RequestSize
    <2>1. Len(executed) \in Nat /\ RequestSize \in Nat /\ Len(tofd) \in Nat /\ issued \in Int
      BY <1>1, Sizes
    <2> QED BY <2>1, TimesSucc DEF Consumed
  <1>3. s \in Syscalls /\ s <= issued
    <2>1. s * RequestSize <= issued * RequestSize
      <3>1. Consumed + RequestSize + Len(tofd) <= issued * RequestSize
        BY <1>1 DEF RequestInv
      <3> QED BY <1>2, <3>1, Sizes
    <2>2. s <= issued
      BY <1>2, <2>1, TimesCancel, Sizes
    <2>3. issued <= MaxSyscalls
      BY <1>1
    <2> QED BY <1>2, <2>2, <2>3, Sizes DEF Syscalls
  <1>4. Decode(request) = s
    <2>1. (s - 1) * Len(request) + 1 = Consumed + 1
      BY <1>1, <1>2
    <2>2. Run(request, (s - 1) * Len(request) + 1)
      BY <2>1 DEF RequestInv
    <2>3. Len(request) > 0
      BY <1>1, Sizes
    <2> QED BY <1>1, <1>3, <2>2, <2>3, DecodeStruct
  <1>5. /\ executed' \in Seq(Syscalls) /\ Len(executed') = s
        /\ \A i \in 1..Len(executed) : executed'[i] = executed[i]
        /\ executed'[s] = s
    BY <1>1, <1>3, <1>4
  <1>6. TypeOK'
    <2>1. sbyte' \in 1..ResponseSize /\ request' \in Seq(Nat)
      BY <1>1, Sizes
    <2> QED BY <1>1, <1>5, <1>u, <2>1 DEF TypeOK
  <1>7. QueuesInv(f)'
    BY <1>u DEF QueuesInv, Taken, Base, NextAnswer
  <1>8. StatusInv(f)' /\ SendFailedInv(f)' /\ HungUpInv'
    BY <1>u DEF StatusInv, SendFailedInv, HungUpInv, HungUp, Taken, Base, NextAnswer
  <1>9. RequestInv'
    <2>1. NextWrite' = NextWrite /\ issued' = issued
      BY <1>u DEF NextWrite, Base, Taken
    <2>2. Consumed' = Consumed + RequestSize /\ Len(request') = 0
      BY <1>1, <1>2, <1>5 DEF Consumed
    <2>3. /\ Consumed' + Len(request') + 1 = Consumed + Len(request) + 1
          /\ Consumed' + Len(request') + Len(tofd') = Consumed + Len(request) + Len(tofd)
      BY <1>1, <1>2, <1>u, <2>2, Sizes
    <2>4. Run(request', Consumed' + 1) /\ Len(request') <= RequestSize /\ Len(executed') > 0
      BY <1>2, <1>5, <2>2, Sizes DEF Run
    <2>5. Run(tofd', Consumed' + Len(request') + 1)
      BY <1>u, <2>3 DEF RequestInv
    <2>6. Consumed' + Len(request') + Len(tofd') <= issued' * RequestSize
      BY <1>u, <2>3 DEF RequestInv
    <2>7. tofd_open' => NextWrite' = Consumed' + Len(request') + Len(tofd') + 1
      BY <1>u, <2>1, <2>3 DEF RequestInv
    <2> QED BY <1>1, <2>4, <2>5, <2>6, <2>7 DEF RequestInv
  <1>10. ResponseInv(f)'
    <2>1. /\ HungUp' = HungUp /\ Answered(f)' = Answered(f)
          /\ NextRespond' = NextRespond
      BY <1>1, <1>5, <1>u DEF HungUp, Answered, NextAnswer, NextRespond
    <2>2. /\ Answered(f) \in Int /\ Len(buf) \in Nat /\ Len(fromfd) \in Nat
          /\ Len(executed) * ResponseSize \in Int
          /\ s * ResponseSize = Len(executed) * ResponseSize + ResponseSize
      <3>1. NextAnswer(f) - 1 \in Int /\ Len(buf) \in Nat /\ Len(fromfd) \in Nat
        BY DEF NextAnswer, TypeOK
      <3> QED BY <1>2, <3>1, TimesSucc, Sizes DEF Answered
    <2>3. ~HungUp => Answered(f) + Len(buf) + Len(fromfd) <= s * ResponseSize
      <3>1. ~HungUp => Answered(f) + Len(buf) + Len(fromfd) <= Len(executed) * ResponseSize
        BY DEF ResponseInv
      <3> QED BY <2>2, <3>1, Sizes
    <2> QED BY <1>1, <1>5, <1>u, <2>1, <2>3 DEF ResponseInv
  <1>11. ReturnsOwnResult' /\ PerformedInOrder' /\ ErrorsArePermanent'
    <2>1. ReturnsOwnResult'
      BY <1>2, <1>5, <1>u, Sizes DEF ReturnsOwnResult, Syscalls
    <2>2. PerformedInOrder'
      BY <1>2, <1>3, <1>5, <1>u DEF PerformedInOrder
    <2> QED BY <1>u, <2>1, <2>2 DEF ErrorsArePermanent
  <1> QED BY <1>6, <1>7, <1>8, <1>9, <1>10, <1>11

\* The next byte goes to the end of fromfd.
LEMMA ServerWriteInv ==
    ASSUME NEW f \in 0..MaxSyscalls, Inv(f), ServerWrite
    PROVE  Inv(f)'
  <1> USE DEF Inv
  <1> DEFINE n == Len(executed)
             b == ByteOf(executed[n], sbyte, ResponseSize)
  <1>1. /\ executed \in Seq(Syscalls) /\ fromfd \in Seq(Nat) /\ buf \in Seq(Nat)
        /\ srv = "responding" /\ fromfd_open /\ sbyte \in 1..ResponseSize
        /\ fromfd' = Append(fromfd, b)
    BY DEF TypeOK, ServerWrite
  <1>u. UNCHANGED <<issued, status, value, request_queue, writer, requests, wreq,
                    wbyte, response_queue, current, buf, tofd, tofd_open,
                    fromfd_open, request, executed>>
    BY DEF ServerWrite, callers, writing, reading, to
  <1>t. /\ sbyte \in Int /\ 1 <= sbyte /\ sbyte <= ResponseSize /\ ResponseSize \in Nat
        /\ n \in Nat /\ n >= 1 /\ Len(fromfd) \in Nat /\ Len(buf) \in Nat
    <2>1. n > 0
      BY <1>1 DEF RequestInv
    <2> QED BY <1>1, <2>1, Sizes
  <1>w. \/ sbyte < ResponseSize /\ sbyte' = sbyte + 1 /\ srv' = "responding"
        \/ sbyte = ResponseSize /\ sbyte' = 1 /\ srv' = "reading"
    BY <1>1, <1>t DEF ServerWrite
  <1>h. ~HungUp
    BY <1>1 DEF HungUpInv
  <1>2. b = (n - 1) * ResponseSize + sbyte
    <2>1. executed[n] = n
      BY <1>t DEF PerformedInOrder
    <2> QED BY <2>1 DEF ByteOf
  <1>3. /\ n * ResponseSize = (n - 1) * ResponseSize + ResponseSize
        /\ (n - 1) * ResponseSize \in Nat
    BY <1>t, TimesSucc
  <1>4. Answered(f) \in Int
    <2>1. NextAnswer(f) - 1 \in Int
      BY DEF NextAnswer, TypeOK
    <2> QED BY <1>t, <2>1 DEF Answered
  <1>5. b = Answered(f) + Len(buf) + Len(fromfd) + 1
    <2>1. NextRespond = Answered(f) + Len(buf) + Len(fromfd) + 1
      BY <1>1, <1>h DEF ResponseInv
    <2>2. NextRespond = (n - 1) * ResponseSize + sbyte
      BY <1>1 DEF NextRespond, ByteOf
    <2> QED BY <1>2, <2>1, <2>2
  <1>6. b \in Nat
    BY <1>2, <1>3, <1>t
  <1> HIDE DEF b
  <1>7. fromfd' \in Seq(Nat) /\ Len(fromfd') = Len(fromfd) + 1
    BY <1>1, <1>6
  <1>8. TypeOK'
    <2>1. sbyte' \in 1..ResponseSize /\ srv' \in {"reading", "responding", "returned"}
      BY <1>t, <1>w
    <2> QED BY <1>7, <1>u, <2>1 DEF TypeOK
  <1>9. QueuesInv(f)'
    BY <1>u DEF QueuesInv, Taken, Base, NextAnswer
  <1>10. StatusInv(f)' /\ SendFailedInv(f)'
    BY <1>u DEF StatusInv, SendFailedInv, Taken, Base, NextAnswer
  <1>11. ~HungUp' /\ HungUpInv'
    BY <1>h, <1>u DEF HungUp, HungUpInv
  <1>12. RequestInv'
    <2>1. Consumed' = Consumed /\ NextWrite' = NextWrite
      BY <1>u DEF Consumed, NextWrite, Base, Taken
    <2> QED BY <1>1, <1>u, <1>w, <2>1 DEF RequestInv, Run
  <1>13. ResponseInv(f)'
    <2>1. Answered(f)' = Answered(f)
      BY <1>u DEF Answered, NextAnswer
    <2>2. Run(fromfd', Answered(f) + Len(buf) + 1)
      <3>1. Answered(f) + Len(buf) + 1 \in Int /\ b = Answered(f) + Len(buf) + 1 + Len(fromfd)
        BY <1>t, <1>4, <1>5
      <3>2. Run(fromfd, Answered(f) + Len(buf) + 1)
        BY <1>h DEF ResponseInv
      <3> QED BY <1>1, <1>6, <3>1, <3>2, RunAppend
    <2>3. Answered(f) + Len(buf) + Len(fromfd') = b
      BY <1>t, <1>4, <1>5, <1>7
    <2>3b. b <= n * ResponseSize
      BY <1>t, <1>2, <1>3
    <2>4. NextRespond' = b + 1
      <3>1. CASE sbyte < ResponseSize
        <4>1. NextRespond' = (n - 1) * ResponseSize + sbyte + 1
          BY <1>t, <1>u, <1>w, <3>1, <1>3 DEF NextRespond, ByteOf
        <4> QED BY <1>2, <4>1
      <3>2. CASE sbyte = ResponseSize
        <4>1. NextRespond' = (n + 1 - 1) * ResponseSize + 1
          BY <1>t, <1>u, <1>w, <3>2 DEF NextRespond, ByteOf
        <4>2. n + 1 - 1 = n
          BY <1>t
        <4> QED BY <1>2, <1>3, <1>t, <3>2, <4>1, <4>2
      <3> QED BY <1>t, <3>1, <3>2
    <2>5. NextRespond' = Answered(f) + Len(buf) + Len(fromfd') + 1
      BY <2>3, <2>4
    <2>6. Run(buf, Answered(f) + 1)
      BY <1>h DEF ResponseInv
    <2> QED BY <1>u, <1>w, <2>1, <2>2, <2>3b, <2>3, <2>5, <2>6 DEF ResponseInv
  <1>14. ReturnsOwnResult' /\ PerformedInOrder' /\ ErrorsArePermanent'
    BY <1>u DEF ReturnsOwnResult, PerformedInOrder, ErrorsArePermanent
  <1> QED BY <1>8, <1>9, <1>10, <1>11, <1>12, <1>13, <1>14

\* The server stops.
LEMMA ServerReturnInv ==
    ASSUME NEW f \in 0..MaxSyscalls, Inv(f), ServerReturn
    PROVE  Inv(f)'
  <1> USE ConnectionAssumption DEF Inv, ServerReturn, callers, writing, reading, to, from
  <1>1. TypeOK'
    BY DEF TypeOK
  <1>2. QueuesInv(f)'
    BY DEF QueuesInv, Taken, Base, NextAnswer, TypeOK
  <1>3. StatusInv(f)' /\ SendFailedInv(f)' /\ HungUpInv'
    BY DEF StatusInv, SendFailedInv, HungUpInv, HungUp, Taken, Base, NextAnswer
  <1>4. RequestInv'
    BY DEF RequestInv, Run, Consumed, NextWrite, ByteOf, Taken, Base
  <1>5. ResponseInv(f)'
    BY DEF ResponseInv, Run, Answered, NextAnswer, NextRespond, HungUp
  <1>6. ReturnsOwnResult' /\ PerformedInOrder' /\ ErrorsArePermanent'
    BY DEF ReturnsOwnResult, PerformedInOrder, ErrorsArePermanent
  <1> QED BY <1>1, <1>2, <1>3, <1>4, <1>5, <1>6

\* The bytes on their way to a server that stopped are lost.
LEMMA ServerCloseInfdInv ==
    ASSUME NEW f \in 0..MaxSyscalls, Inv(f), ServerCloseInfd
    PROVE  Inv(f)'
  <1> USE DEF Inv
  <1>1. tofd' = << >> /\ tofd_open' = FALSE /\ tofd \in Seq(Nat) /\ request \in Seq(Nat)
    BY DEF ServerCloseInfd, TypeOK
  <1>u. UNCHANGED <<issued, status, value, request_queue, writer, requests, wreq,
                    wbyte, response_queue, current, buf, fromfd, fromfd_open,
                    srv, request, sbyte, executed>>
    BY DEF ServerCloseInfd, callers, writing, reading, from, server
  <1>2. TypeOK'
    <2>1. tofd' \in Seq(Nat) /\ tofd_open' \in BOOLEAN
      <3>1. << >> \in Seq(Nat)
        OBVIOUS
      <3> QED BY <1>1, <3>1
    <2> QED BY <1>u, <2>1 DEF TypeOK
  <1>3. QueuesInv(f)'
    BY <1>u DEF QueuesInv, Taken, Base, NextAnswer
  <1>4. StatusInv(f)' /\ SendFailedInv(f)' /\ HungUpInv'
    BY <1>1, <1>u DEF StatusInv, SendFailedInv, HungUpInv, HungUp, Taken, Base, NextAnswer
  <1>5. RequestInv'
    <2>1. Consumed' = Consumed /\ Len(tofd') = 0
      BY <1>1, <1>u DEF Consumed
    <2>2. /\ Consumed \in Nat /\ Len(tofd) \in Nat /\ Len(request) \in Nat
          /\ issued * RequestSize \in Int
      BY Numbers
    <2>3. Consumed + Len(request) + Len(tofd') <= issued * RequestSize
      <3>1. Consumed + Len(request) + Len(tofd) <= issued * RequestSize
        BY DEF RequestInv
      <3> QED BY <2>1, <2>2, <3>1
    <2>4. Run(tofd', Consumed + Len(request) + 1)
      BY <2>1 DEF Run
    <2> QED BY <1>1, <1>u, <2>1, <2>3, <2>4 DEF RequestInv, Run
  <1>6. ResponseInv(f)'
    BY <1>u DEF ResponseInv, Run, Answered, NextAnswer, NextRespond, HungUp
  <1>7. ReturnsOwnResult' /\ PerformedInOrder' /\ ErrorsArePermanent'
    BY <1>u DEF ReturnsOwnResult, PerformedInOrder, ErrorsArePermanent
  <1> QED BY <1>2, <1>3, <1>4, <1>5, <1>6, <1>7

\* The server that stopped writes nothing more.
LEMMA ServerCloseOutfdInv ==
    ASSUME NEW f \in 0..MaxSyscalls, Inv(f), ServerCloseOutfd
    PROVE  Inv(f)'
  <1> USE ConnectionAssumption DEF Inv, ServerCloseOutfd, callers, writing, reading, to, server
  <1>1. TypeOK'
    BY DEF TypeOK
  <1>2. QueuesInv(f)'
    BY DEF QueuesInv, Taken, Base, NextAnswer, TypeOK
  <1>3. StatusInv(f)' /\ SendFailedInv(f)' /\ HungUpInv'
    BY DEF StatusInv, SendFailedInv, HungUpInv, HungUp, Taken, Base, NextAnswer
  <1>4. RequestInv'
    BY DEF RequestInv, Run, Consumed, NextWrite, ByteOf, Taken, Base
  <1>5. ResponseInv(f)'
    BY DEF ResponseInv, Run, Answered, NextAnswer, NextRespond, HungUp
  <1>6. ReturnsOwnResult' /\ PerformedInOrder' /\ ErrorsArePermanent'
    BY DEF ReturnsOwnResult, PerformedInOrder, ErrorsArePermanent
  <1> QED BY <1>1, <1>2, <1>3, <1>4, <1>5, <1>6

\* Nothing more is written to tofd.
LEMMA ShutdownToFdInv ==
    ASSUME NEW f \in 0..MaxSyscalls, Inv(f), ShutdownToFd
    PROVE  Inv(f)'
  <1> USE ConnectionAssumption DEF Inv, ShutdownToFd, callers, writing, reading, from, server
  <1>1. TypeOK'
    BY DEF TypeOK
  <1>2. QueuesInv(f)'
    BY DEF QueuesInv, Taken, Base, NextAnswer, TypeOK
  <1>3. StatusInv(f)' /\ SendFailedInv(f)' /\ HungUpInv'
    BY DEF StatusInv, SendFailedInv, HungUpInv, HungUp, Taken, Base, NextAnswer
  <1>4. RequestInv'
    BY DEF RequestInv, Run, Consumed, NextWrite, ByteOf, Taken, Base
  <1>5. ResponseInv(f)'
    BY DEF ResponseInv, Run, Answered, NextAnswer, NextRespond, HungUp
  <1>6. ReturnsOwnResult' /\ PerformedInOrder' /\ ErrorsArePermanent'
    BY DEF ReturnsOwnResult, PerformedInOrder, ErrorsArePermanent
  <1> QED BY <1>1, <1>2, <1>3, <1>4, <1>5, <1>6

\* Nothing more is written to fromfd.
LEMMA ShutdownFromFdInv ==
    ASSUME NEW f \in 0..MaxSyscalls, Inv(f), ShutdownFromFd
    PROVE  Inv(f)'
  <1> USE ConnectionAssumption DEF Inv, ShutdownFromFd, callers, writing, reading, to, server
  <1>1. TypeOK'
    BY DEF TypeOK
  <1>2. QueuesInv(f)'
    BY DEF QueuesInv, Taken, Base, NextAnswer, TypeOK
  <1>3. StatusInv(f)' /\ SendFailedInv(f)' /\ HungUpInv'
    BY DEF StatusInv, SendFailedInv, HungUpInv, HungUp, Taken, Base, NextAnswer
  <1>4. RequestInv'
    BY DEF RequestInv, Run, Consumed, NextWrite, ByteOf, Taken, Base
  <1>5. ResponseInv(f)'
    BY DEF ResponseInv, Run, Answered, NextAnswer, NextRespond, HungUp
  <1>6. ReturnsOwnResult' /\ PerformedInOrder' /\ ErrorsArePermanent'
    BY DEF ReturnsOwnResult, PerformedInOrder, ErrorsArePermanent
  <1> QED BY <1>1, <1>2, <1>3, <1>4, <1>5, <1>6

\* The server stops.
LEMMA ServerDiesInv ==
    ASSUME NEW f \in 0..MaxSyscalls, Inv(f), ServerDies
    PROVE  Inv(f)'
  <1> USE ConnectionAssumption DEF Inv, ServerDies, callers, writing, reading, to, from
  <1>1. TypeOK'
    BY DEF TypeOK
  <1>2. QueuesInv(f)'
    BY DEF QueuesInv, Taken, Base, NextAnswer, TypeOK
  <1>3. StatusInv(f)' /\ SendFailedInv(f)' /\ HungUpInv'
    BY DEF StatusInv, SendFailedInv, HungUpInv, HungUp, Taken, Base, NextAnswer
  <1>4. RequestInv'
    BY DEF RequestInv, Run, Consumed, NextWrite, ByteOf, Taken, Base
  <1>5. ResponseInv(f)'
    BY DEF ResponseInv, Run, Answered, NextAnswer, NextRespond, HungUp
  <1>6. ReturnsOwnResult' /\ PerformedInOrder' /\ ErrorsArePermanent'
    BY DEF ReturnsOwnResult, PerformedInOrder, ErrorsArePermanent
  <1> QED BY <1>1, <1>2, <1>3, <1>4, <1>5, <1>6

\* The ends of both streams are cut off.
LEMMA ConnectionLostInv ==
    ASSUME NEW f \in 0..MaxSyscalls, NEW n \in 0..ToFdCapacity,
           NEW m \in 0..FromFdCapacity, Inv(f), ConnectionLost(n, m)
    PROVE  Inv(f)'
  <1> USE DEF Inv
  <1>1. /\ n \in 0..Len(tofd) /\ m \in 0..Len(fromfd)
        /\ tofd \in Seq(Nat) /\ request \in Seq(Nat)
        /\ fromfd \in Seq(Nat) /\ buf \in Seq(Nat) /\ executed \in Seq(Syscalls)
        /\ tofd' = SubSeq(tofd, 1, n) /\ tofd_open' = FALSE
        /\ fromfd' = SubSeq(fromfd, 1, m) /\ fromfd_open' = FALSE /\ fromfd_open
    BY ConnectionAssumption DEF ConnectionLost, TypeOK
  <1>u. UNCHANGED <<issued, status, value, request_queue, writer, requests, wreq,
                    wbyte, response_queue, current, buf, srv, request, sbyte, executed>>
    BY DEF ConnectionLost, callers, writing, reading, server
  <1>2. /\ Consumed \in Int /\ Answered(f) \in Int
        /\ Len(tofd) \in Nat /\ Len(request) \in Nat /\ Len(fromfd) \in Nat /\ Len(buf) \in Nat
        /\ issued * RequestSize \in Int /\ Len(executed) * ResponseSize \in Int
        /\ n \in Nat /\ n <= Len(tofd) /\ m \in Nat /\ m <= Len(fromfd)
    <2>1. n \in Nat /\ n <= Len(tofd) /\ m \in Nat /\ m <= Len(fromfd)
      BY <1>1
    <2> QED BY <2>1, Numbers
  <1>h. ~HungUp /\ ~HungUp'
    BY <1>1, <1>u DEF HungUpInv, HungUp
  <1>3. /\ tofd' \in Seq(Nat) /\ Len(tofd') = n
        /\ Run(tofd', Consumed + Len(request) + 1)
    <2>1. Consumed + Len(request) + 1 \in Int
      BY <1>2
    <2>2. Run(tofd, Consumed + Len(request) + 1)
      BY DEF RequestInv
    <2> QED BY <1>1, <2>1, <2>2, RunSplit
  <1>4. /\ fromfd' \in Seq(Nat) /\ Len(fromfd') = m
        /\ Run(fromfd', Answered(f) + Len(buf) + 1)
    <2>1. Answered(f) + Len(buf) + 1 \in Int
      BY <1>2
    <2>2. Run(fromfd, Answered(f) + Len(buf) + 1)
      BY <1>h DEF ResponseInv
    <2> QED BY <1>1, <2>1, <2>2, RunSplit
  <1>5. TypeOK'
    BY <1>1, <1>3, <1>4, <1>u DEF TypeOK
  <1>6. QueuesInv(f)'
    BY <1>u DEF QueuesInv, Taken, Base, NextAnswer
  <1>7. StatusInv(f)' /\ SendFailedInv(f)' /\ HungUpInv'
    BY <1>1, <1>h, <1>u DEF StatusInv, SendFailedInv, HungUpInv, Taken, Base, NextAnswer
  <1>8. RequestInv'
    <2>1. Consumed' = Consumed
      BY <1>u DEF Consumed
    <2>2. Consumed + Len(request) + n <= issued * RequestSize
      <3>1. Consumed + Len(request) + Len(tofd) <= issued * RequestSize
        BY DEF RequestInv
      <3> QED BY <1>2, <3>1
    <2> QED BY <1>1, <1>3, <1>u, <2>1, <2>2 DEF RequestInv
  <1>9. ResponseInv(f)'
    <2>1. Answered(f)' = Answered(f)
      BY <1>u DEF Answered, NextAnswer
    <2>2. Answered(f) + Len(buf) + m <= Len(executed) * ResponseSize
      <3>1. Answered(f) + Len(buf) + Len(fromfd) <= Len(executed) * ResponseSize
        BY <1>h DEF ResponseInv
      <3> QED BY <1>2, <3>1
    <2> QED BY <1>1, <1>4, <1>h, <1>u, <2>1, <2>2 DEF ResponseInv
  <1>10. ReturnsOwnResult' /\ PerformedInOrder' /\ ErrorsArePermanent'
    BY <1>u DEF ReturnsOwnResult, PerformedInOrder, ErrorsArePermanent
  <1> QED BY <1>5, <1>6, <1>7, <1>8, <1>9, <1>10

\* Every step keeps the invariant.
LEMMA NextInv == IInv /\ [Next]_vars => IInv'
  <1> SUFFICES ASSUME NEW f \in 0..MaxSyscalls, Inv(f), [Next]_vars
               PROVE  \E g \in 0..MaxSyscalls : Inv(g)'
    BY DEF IInv
  <1>1. CASE UNCHANGED vars
    <2>1. UNCHANGED <<issued, status, value, request_queue, writer, requests, wreq,
                      wbyte, response_queue, current, buf, tofd, tofd_open, fromfd,
                      fromfd_open, srv, request, sbyte, executed>>
      BY <1>1 DEF vars, callers, writing, reading, to, from, server
    <2>2. TypeOK' /\ QueuesInv(f)'
      BY <2>1 DEF Inv, TypeOK, QueuesInv, Taken, Base, NextAnswer
    <2>3. StatusInv(f)' /\ SendFailedInv(f)' /\ HungUpInv'
      BY <2>1 DEF Inv, StatusInv, SendFailedInv, HungUpInv, HungUp, Taken, Base, NextAnswer
    <2>4. RequestInv'
      BY <2>1 DEF Inv, RequestInv, Run, Consumed, NextWrite, Taken, Base
    <2>5. ResponseInv(f)'
      BY <2>1 DEF Inv, ResponseInv, Run, Answered, NextAnswer, NextRespond, HungUp
    <2>6. ReturnsOwnResult' /\ PerformedInOrder' /\ ErrorsArePermanent'
      BY <2>1 DEF Inv, ReturnsOwnResult, PerformedInOrder, ErrorsArePermanent
    <2> QED BY <2>2, <2>3, <2>4, <2>5, <2>6 DEF Inv
  <1>2. CASE Syscall
    BY <1>2, SyscallInv
  <1>3. CASE Client
    BY <1>3, PtrDoneInv, WriteByteInv, ForwardRequestsInv, SendErrorInv,
       ReadResponseInv, ReturnInv, HangupInv DEF Client
  <1>4. CASE Server
    BY <1>4, ServerReadInv, ServerPerformInv, ServerWriteInv, ServerReturnInv,
       ServerCloseInfdInv, ServerCloseOutfdInv DEF Server
  <1>5. CASE Fault
    BY <1>5, ShutdownToFdInv, ShutdownFromFdInv, ServerDiesInv, ConnectionLostInv
       DEF Fault
  <1> QED BY <1>1, <1>2, <1>3, <1>4, <1>5 DEF Next

\* Callers are held in the order of their calls, oldest first.
LEMMA HeldRuns ==
    ASSUME NEW f \in 0..MaxSyscalls, Inv(f)
    PROVE  \E a, b \in Seq(Nat) :
              /\ Held = a \o b
              /\ Run(a, NextAnswer(f)) /\ Len(a) = f - NextAnswer(f) + 1
              /\ Run(b, Base + 1) /\ Len(b) = issued - Base
  <1> DEFINE c == IF current = 0 THEN << >> ELSE <<current>>
             a == c \o response_queue
             b == requests \o request_queue
  <1>1. /\ c \in Seq(Nat) /\ response_queue \in Seq(Nat)
        /\ requests \in Seq(Nat) /\ request_queue \in Seq(Nat)
        /\ issued \in Nat /\ f \in Nat
    <2>1. /\ response_queue \in Seq(Syscalls) /\ requests \in Seq(Syscalls)
          /\ request_queue \in Seq(Syscalls) /\ current \in 0..MaxSyscalls
          /\ issued \in 0..MaxSyscalls
      BY DEF Inv, TypeOK
    <2>2. Syscalls \subseteq Nat /\ issued \in Nat /\ f \in Nat /\ current \in Nat
      BY <2>1, Sizes DEF Syscalls
    <2>3. c \in Seq(Nat)
      BY <2>2
    <2>4. /\ response_queue \in Seq(Nat) /\ requests \in Seq(Nat)
          /\ request_queue \in Seq(Nat)
      BY <2>1, <2>2, SeqMonotonic
    <2> QED BY <2>2, <2>3, <2>4
  <1>2. /\ Len(response_queue) \in Nat /\ Len(requests) \in Nat
        /\ Len(request_queue) \in Nat
        /\ Taken = issued - Len(request_queue) /\ Base = Taken - Len(requests)
    BY <1>1 DEF Taken, Base
  <1>3. /\ Run(a, NextAnswer(f)) /\ Len(a) = f - NextAnswer(f) + 1 /\ a \in Seq(Nat)
    <2>1. \A i \in 1..Len(response_queue) :
              response_queue[i] = f - Len(response_queue) + i
      BY DEF Inv, QueuesInv
    <2>2. Run(response_queue, f - Len(response_queue) + 1)
      BY <1>1, <1>2, <2>1 DEF Run
    <2>3. /\ Run(c, NextAnswer(f)) /\ NextAnswer(f) \in Int
          /\ NextAnswer(f) + Len(c) = f - Len(response_queue) + 1
          /\ Len(c) \in Nat
      <3>1. CASE current = 0
        <4>1. c = << >> /\ Len(c) = 0 /\ NextAnswer(f) = f - Len(response_queue) + 1
          BY <3>1 DEF NextAnswer
        <4> QED BY <1>1, <1>2, <4>1 DEF Run
      <3>2. CASE current # 0
        <4>1. /\ c = <<current>> /\ NextAnswer(f) = f - Len(response_queue)
              /\ current = f - Len(response_queue)
          BY <1>1, <1>2, <3>2 DEF NextAnswer, Inv, QueuesInv
        <4>2. Len(c) = 1 /\ c[1] = current
          BY <4>1
        <4> QED BY <1>1, <1>2, <4>1, <4>2 DEF Run
      <3> QED BY <3>1, <3>2
    <2> HIDE DEF c
    <2>4. Run(a, NextAnswer(f)) /\ Len(a) = Len(c) + Len(response_queue) /\ a \in Seq(Nat)
      BY <1>1, <2>2, <2>3, RunConcat
    <2>5. f \in Int
      BY <1>1
    <2>6. \A x, y, l, n \in Int : x + l = y - n + 1 => l + n = y - x + 1
      OBVIOUS
    <2>7. Len(c) + Len(response_queue) = f - NextAnswer(f) + 1
      BY <1>2, <2>3, <2>5, <2>6
    <2> QED BY <2>4, <2>7
  <1>4. /\ Run(b, Base + 1) /\ Len(b) = issued - Base /\ b \in Seq(Nat)
    <2>1. /\ \A i \in 1..Len(requests) : requests[i] = Base + i
          /\ \A i \in 1..Len(request_queue) : request_queue[i] = Taken + i
      BY DEF Inv, QueuesInv
    <2>2. issued \in Int /\ Base \in Int /\ Taken \in Int
      BY <1>1, <1>2
    <2>3. Run(requests, Base + 1) /\ Run(request_queue, Taken + 1)
      BY <1>2, <2>1, <2>2 DEF Run
    <2>4. Base + 1 + Len(requests) = Taken + 1 /\ Base + 1 \in Int
      BY <1>2, <2>2
    <2>5. Run(b, Base + 1) /\ Len(b) = Len(requests) + Len(request_queue) /\ b \in Seq(Nat)
      BY <1>1, <2>3, <2>4, RunConcat
    <2> HIDE DEF b
    <2> QED BY <1>2, <2>2, <2>5
  <1>5. Held = a \o b
    <2>1. Held = ((c \o response_queue) \o requests) \o request_queue
      BY Zenon DEF Held
    <2> HIDE DEF c
    <2>2. a \in Seq(Nat) /\ requests \in Seq(Nat) /\ request_queue \in Seq(Nat)
      BY <1>1, <1>3
    <2> HIDE DEF a
    <2>3. (a \o requests) \o request_queue = a \o (requests \o request_queue)
      <3>1. \A x, y, z \in Seq(Nat) : (x \o y) \o z = x \o (y \o z)
        BY ConcatAssociative
      <3> QED BY <2>2, <3>1, Zenon
    <2> QED BY <2>1, <2>3 DEF a
  <1> HIDE DEF a, b
  <1> QED BY <1>3, <1>4, <1>5

\* Two runs of numbers one after the other, the second beyond the first.
LEMMA TwoRuns ==
    ASSUME NEW h, NEW n \in Nat, NEW m \in Nat, NEW p \in Int, NEW q \in Int,
           p + n <= q,
           \A i \in 1..n : h[i] = p + i - 1,
           \A i \in 1..m : h[i + n] = q + i - 1
    PROVE  /\ \A i, j \in 1..(n + m) : i < j => h[i] < h[j]
           /\ \A s \in Int :
                (\E i \in 1..(n + m) : h[i] = s)
                    <=> (p <= s /\ s < p + n) \/ (q <= s /\ s < q + m)
           /\ \A i \in 1..(n + m) : h[i] \in Int
  <1>1. \A i \in (n + 1)..(n + m) : h[i] = q + i - n - 1
    <2> SUFFICES ASSUME NEW i \in (n + 1)..(n + m) PROVE h[i] = q + i - n - 1
      OBVIOUS
    <2>1. i - n \in 1..m /\ (i - n) + n = i /\ q + (i - n) - 1 = q + i - n - 1
      OBVIOUS
    <2> QED BY <2>1
  <1>2. ASSUME NEW i \in 1..(n + m)
        PROVE  \/ i \in 1..n /\ h[i] = p + i - 1
               \/ i \in (n + 1)..(n + m) /\ h[i] = q + i - n - 1
    <2>1. i \in 1..n \/ i \in (n + 1)..(n + m)
      OBVIOUS
    <2> QED BY <1>1, <2>1
  <1>3. ASSUME NEW i \in 1..(n + m), NEW j \in 1..(n + m), i < j
        PROVE  h[i] < h[j]
    BY <1>2, <1>3
  <1>4. ASSUME NEW s \in Int, NEW i \in 1..(n + m), h[i] = s
        PROVE  (p <= s /\ s < p + n) \/ (q <= s /\ s < q + m)
    BY <1>2, <1>4
  <1>5. ASSUME NEW s \in Int, p <= s, s < p + n
        PROVE  \E i \in 1..(n + m) : h[i] = s
    <2>1. s - p + 1 \in 1..n /\ s - p + 1 \in 1..(n + m) /\ p + (s - p + 1) - 1 = s
      BY <1>5
    <2> QED BY <2>1
  <1>6. ASSUME NEW s \in Int, q <= s, s < q + m
        PROVE  \E i \in 1..(n + m) : h[i] = s
    <2>1. s - q + 1 \in 1..m /\ s - q + 1 + n \in 1..(n + m) /\ q + (s - q + 1) - 1 = s
      BY <1>6
    <2> QED BY <2>1
  <1>7. \A i \in 1..(n + m) : h[i] \in Int
    BY <1>2
  <1> QED BY <1>3, <1>4, <1>5, <1>6, <1>7

\* The callers that are held are the ones that wait.
LEMMA InvHeldOnce == IInv => CallersHeldOnce
  <1> SUFFICES ASSUME NEW f \in 0..MaxSyscalls, Inv(f)
               PROVE  CallersHeldOnce
    BY DEF IInv
  <1> DEFINE p == NextAnswer(f)
             q == Base + 1
             n == f - NextAnswer(f) + 1
             m == issued - Base
  <1>1. PICK a \in Seq(Nat), b \in Seq(Nat) :
              /\ Held = a \o b
              /\ Run(a, p) /\ Len(a) = n
              /\ Run(b, q) /\ Len(b) = m
    BY HeldRuns
  <1>2. /\ issued \in Int /\ issued <= MaxSyscalls /\ f \in Int /\ Base \in Int
        /\ f <= Base /\ p \in Int /\ 1 <= p
    <2>1. issued \in Int /\ issued <= MaxSyscalls
      BY Sizes DEF Inv, TypeOK
    <2> QED BY <2>1, Numbers DEF Inv, QueuesInv
  <1>3. n \in Nat /\ m \in Nat /\ q \in Int /\ p + n <= q /\ p + n = f + 1 /\ q + m = issued + 1
    <2>1. n \in Nat /\ m \in Nat
      BY <1>1
    <2> QED BY <1>2, <2>1
  <1>4. /\ Len(Held) = n + m
        /\ \A i \in 1..n : Held[i] = p + i - 1
        /\ \A i \in 1..m : Held[i + n] = q + i - 1
    <2>1. /\ Len(a \o b) = Len(a) + Len(b)
          /\ \A i \in 1..Len(a) : (a \o b)[i] = a[i]
          /\ \A i \in 1..Len(b) : (a \o b)[i + Len(a)] = b[i]
      BY ConcatProperties
    <2> HIDE DEF n, m, p, q
    <2> QED BY <1>1, <2>1 DEF Run
  <1> HIDE DEF n, m, q
  <1>5. /\ \A i, j \in 1..(n + m) : i < j => Held[i] < Held[j]
        /\ \A s \in Int :
             (\E i \in 1..(n + m) : Held[i] = s)
                 <=> (p <= s /\ s < p + n) \/ (q <= s /\ s < q + m)
        /\ \A i \in 1..(n + m) : Held[i] \in Int
    BY <1>2, <1>3, <1>4, TwoRuns
  <1>6. ASSUME NEW s \in Syscalls
        PROVE  status[s] = "pending" <=> (p <= s /\ s < p + n) \/ (q <= s /\ s < q + m)
    <2>1. /\ s < NextAnswer(f) => status[s] \in {"returned", "hangup"}
          /\ NextAnswer(f) <= s /\ s <= f => status[s] = "pending"
          /\ f < s /\ s <= Base => status[s] = "sendError"
          /\ Base < s /\ s <= issued => status[s] = "pending"
          /\ issued < s => status[s] = "unissued"
      BY DEF Inv, StatusInv
    <2>2. \/ s < NextAnswer(f)
          \/ NextAnswer(f) <= s /\ s <= f
          \/ f < s /\ s <= Base
          \/ Base < s /\ s <= issued
          \/ issued < s
      BY <1>2 DEF Syscalls
    <2>3. s \in Int
      BY DEF Syscalls
    <2>4. /\ s < p + n <=> s <= f
          /\ s < q + m <=> s <= issued
          /\ q <= s <=> Base < s
      BY <1>2, <1>3, <2>3 DEF q
    <2>5. /\ s < NextAnswer(f) => ~(NextAnswer(f) <= s) /\ ~(Base < s)
          /\ f < s /\ s <= Base => ~(s <= f) /\ ~(Base < s)
          /\ issued < s => ~(s <= f) /\ ~(s <= issued)
      BY <1>2, <2>3, <1>3
    <2> QED BY <2>1, <2>2, <2>4, <2>5
  <1>7. \A s \in Int : (\E i \in 1..(n + m) : Held[i] = s) => s \in Syscalls
    BY <1>2, <1>3, <1>5, Sizes DEF Syscalls
  <1>8. {Held[i] : i \in 1..(n + m)} = {s \in Syscalls : status[s] = "pending"}
    <2>1. \A s \in Syscalls : s \in Int
      BY DEF Syscalls
    <2>2. ASSUME NEW i \in 1..(n + m)
          PROVE  Held[i] \in Syscalls /\ status[Held[i]] = "pending"
      <3>1. Held[i] \in Int /\ Held[i] \in Syscalls
        BY <1>5, <1>7
      <3>2. (p <= Held[i] /\ Held[i] < p + n) \/ (q <= Held[i] /\ Held[i] < q + m)
        BY <1>5, <3>1
      <3> QED BY <1>6, <3>1, <3>2
    <2>3. ASSUME NEW s \in Syscalls, status[s] = "pending"
          PROVE  \E i \in 1..(n + m) : Held[i] = s
      <3>1. (p <= s /\ s < p + n) \/ (q <= s /\ s < q + m)
        BY <1>6, <2>3
      <3> QED BY <1>5, <2>1, <3>1
    <2> QED BY <2>2, <2>3
  <1> QED BY <1>4, <1>5, <1>8 DEF CallersHeldOnce

-----------------------------------------------------------------------------
(* The refinement of SyscallInterface *)

\* The callers see nothing of a step that leaves their variables alone.
LEMMA HiddenStep ==
    ASSUME UNCHANGED <<issued, status, value, executed>>
    PROVE  UNCHANGED Interface!vars
  BY DEF Interface!vars

\* A batch that fails is a run of consecutive callers that were waiting.
LEMMA SendErrorImplements ==
    ASSUME NEW f \in 0..MaxSyscalls, Inv(f), SendError
    PROVE  Interface!Next
  <1> DEFINE a == Base + 1
             b == Taken
  <1>1. /\ requests \in Seq(Syscalls) /\ request_queue \in Seq(Syscalls)
        /\ issued \in 0..MaxSyscalls /\ wreq \in Nat \ {0} /\ wreq <= Len(requests)
        /\ UNCHANGED <<issued, value, executed>>
        /\ status' = [s \in Syscalls |->
                        IF \E i \in 1..Len(requests) : requests[i] = s
                        THEN "sendError" ELSE status[s]]
    BY DEF SendError, Inv, TypeOK, server
  <1>2. /\ Base \in Nat /\ f \in Nat /\ Taken \in Int /\ Len(requests) \in Nat
        /\ Taken = Base + Len(requests) /\ Taken <= issued
        /\ \A i \in 1..Len(requests) : requests[i] = Base + i
    BY <1>1 DEF Inv, QueuesInv, Taken, Base
  <1>3. a \in Syscalls /\ b \in Syscalls
    BY <1>1, <1>2, Sizes DEF Syscalls
  <1>4. \A s \in a..b : status[s] = "pending"
    <2> SUFFICES ASSUME NEW s \in a..b PROVE status[s] = "pending"
      OBVIOUS
    <2>1. s \in Syscalls /\ Base < s /\ s <= issued
      BY <1>1, <1>2, Sizes DEF Syscalls
    <2> QED BY <2>1 DEF Inv, StatusInv
  <1>5. \A s \in Syscalls : (\E i \in 1..Len(requests) : requests[i] = s) <=> s \in a..b
    <2> SUFFICES ASSUME NEW s \in Syscalls
                 PROVE  (\E i \in 1..Len(requests) : requests[i] = s) <=> s \in a..b
      OBVIOUS
    <2>1. s \in Int
      BY DEF Syscalls
    <2>2. s \in a..b => s - Base \in 1..Len(requests) /\ requests[s - Base] = s
      BY <1>2, <2>1
    <2>3. \A i \in 1..Len(requests) : requests[i] = s => s \in a..b
      BY <1>2, <2>1
    <2> QED BY <2>2, <2>3
  <1>6. status' = [s \in Syscalls |-> IF s \in a..b THEN "sendError" ELSE status[s]]
    BY <1>1, <1>5
  <1> HIDE DEF a, b
  <1>7. Interface!SendError(a, b)
    BY <1>1, <1>4, <1>6 DEF Interface!SendError, Interface!Syscalls, Syscalls
  <1>8. a \in Interface!Syscalls /\ b \in Interface!Syscalls
    BY <1>3 DEF Interface!Syscalls, Syscalls
  <1> QED BY <1>7, <1>8 DEF Interface!Next

\* The oldest caller returns, and all before it have returned.
LEMMA ReturnImplements ==
    ASSUME NEW f \in 0..MaxSyscalls, Inv(f), Return
    PROVE  Interface!Next
  <1>1. /\ current # 0 /\ GetOne
        /\ status \in [Syscalls -> Status] /\ value \in [Syscalls -> 0..MaxSyscalls]
        /\ status' = [status EXCEPT ![current] = "returned"]
        /\ value' = [value EXCEPT ![current] = Decode(SubSeq(buf, 1, ResponseSize))]
        /\ UNCHANGED <<issued, request_queue, writer, requests, wreq, wbyte, executed>>
    BY DEF Return, Inv, TypeOK, writing, server
  <1>2. NextAnswer(f) = current /\ current \in Syscalls /\ current <= f
    BY <1>1, GetOneQueues DEF Inv
  <1>3. status[current] = "pending"
    <2>1. current \in Int /\ NextAnswer(f) <= current
      BY <1>2 DEF Syscalls
    <2> QED BY <1>2, <2>1 DEF Inv, StatusInv
  <1>4. Inv(f)'
    BY ReturnInv
  <1>5. status'[current] = "returned"
    BY <1>1, <1>2
  <1>6. value'[current] = current /\ current <= Len(executed)
    BY <1>1, <1>2, <1>4, <1>5 DEF Inv, ReturnsOwnResult
  <1>7. value' = [value EXCEPT ![current] = current]
    BY <1>1, <1>2, <1>6
  <1>8. \A t \in 1..(current - 1) : status[t] = "returned"
    <2> SUFFICES ASSUME NEW t \in 1..(current - 1) PROVE status[t] = "returned"
      OBVIOUS
    <2>1. t \in Syscalls /\ t < current /\ t # current
      BY <1>2, Sizes DEF Syscalls
    <2>2. status'[t] = "returned"
      BY <1>2, <1>4, <1>5, <2>1 DEF Inv, ErrorsArePermanent
    <2> QED BY <1>1, <2>1, <2>2
  <1>9. Interface!Return(current)
    BY <1>1, <1>3, <1>6, <1>7, <1>8 DEF Interface!Return
  <1>10. current \in Interface!Syscalls
    BY <1>2 DEF Interface!Syscalls, Syscalls
  <1> QED BY <1>9, <1>10 DEF Interface!Next

\* The oldest caller is hung up on; all before it were answered.
LEMMA HangupImplements ==
    ASSUME NEW f \in 0..MaxSyscalls, Inv(f), Hangup
    PROVE  Interface!Next
  <1>1. /\ current # 0 /\ GetOne
        /\ status' = [status EXCEPT ![current] = "hangup"]
        /\ UNCHANGED <<issued, value, request_queue, writer, requests, wreq, wbyte,
                       executed>>
    BY DEF Hangup, writing, server
  <1>2. NextAnswer(f) = current /\ current \in Syscalls /\ current <= f
    BY <1>1, GetOneQueues DEF Inv
  <1>3. status[current] = "pending"
    <2>1. current \in Int /\ NextAnswer(f) <= current
      BY <1>2 DEF Syscalls
    <2> QED BY <1>2, <2>1 DEF Inv, StatusInv
  <1>4. \A t \in 1..(current - 1) : status[t] \in {"returned", "hangup"}
    <2> SUFFICES ASSUME NEW t \in 1..(current - 1) PROVE status[t] \in {"returned", "hangup"}
      OBVIOUS
    <2>1. t \in Syscalls /\ t < NextAnswer(f)
      BY <1>2, Sizes DEF Syscalls
    <2> QED BY <2>1 DEF Inv, StatusInv
  <1>5. Interface!Hangup(current)
    BY <1>1, <1>3, <1>4 DEF Interface!Hangup
  <1>6. current \in Interface!Syscalls
    BY <1>2 DEF Interface!Syscalls, Syscalls
  <1> QED BY <1>5, <1>6 DEF Interface!Next

\* The syscall the server performs is the oldest it has not performed.
LEMMA PerformImplements ==
    ASSUME NEW f \in 0..MaxSyscalls, Inv(f), ServerPerform
    PROVE  Interface!Next
  <1> DEFINE n == Len(executed)
  <1>1. /\ executed \in Seq(Syscalls) /\ issued \in Nat
        /\ executed' = Append(executed, Decode(request))
        /\ UNCHANGED <<issued, status, value>>
    BY DEF ServerPerform, Inv, TypeOK, callers
  <1>2. Inv(f)'
    BY ServerPerformInv
  <1>3. executed' \in Seq(Syscalls)
    BY <1>2 DEF Inv, TypeOK
  <1>4. n \in Nat /\ Len(executed') = n + 1 /\ executed'[n + 1] = Decode(request)
    BY <1>1
  <1>5. executed'[n + 1] = n + 1 /\ n + 1 <= issued
    <2>1. n + 1 \in 1..Len(executed')
      BY <1>4
    <2> QED BY <1>1, <1>2, <2>1 DEF Inv, PerformedInOrder
  <1>6. Interface!Perform
    BY <1>1, <1>4, <1>5 DEF Interface!Perform
  <1> QED BY <1>6 DEF Interface!Next

\* Every step of the connection is a step of the interface or invisible to it.
LEMMA NextImplements ==
    ASSUME IInv, [Next]_vars
    PROVE  [Interface!Next]_Interface!vars
  <1>0. PICK f \in 0..MaxSyscalls : Inv(f)
    BY DEF IInv
  <1> USE DEF callers, writing, reading, to, from, server
  <1>1. CASE UNCHANGED vars
    BY <1>1, HiddenStep DEF vars
  <1>2. CASE Syscall
    <2>1. Interface!Call
      BY <1>2 DEF Syscall, Interface!Call
    <2> QED BY <2>1 DEF Interface!Next
  <1>3. CASE Client
    <2>1. CASE PtrDone \/ WriteByte \/ ForwardRequests
      <3>1. UNCHANGED <<issued, status, value, executed>>
        BY <2>1 DEF PtrDone, WriteByte, ForwardRequests
      <3> QED BY <3>1, HiddenStep
    <2>2. CASE \E n \in 1..FromFdCapacity : ReadResponse(n)
      <3>1. UNCHANGED <<issued, status, value, executed>>
        BY <2>2 DEF ReadResponse
      <3> QED BY <3>1, HiddenStep
    <2> QED BY <1>0, <1>3, <2>1, <2>2, SendErrorImplements, ReturnImplements,
               HangupImplements DEF Client
  <1>4. CASE Server
    <2>1. CASE ServerRead \/ ServerWrite \/ ServerReturn \/ ServerCloseInfd \/ ServerCloseOutfd
      <3>1. UNCHANGED <<issued, status, value, executed>>
        BY <2>1 DEF ServerRead, ServerWrite, ServerReturn, ServerCloseInfd, ServerCloseOutfd
      <3> QED BY <3>1, HiddenStep
    <2> QED BY <1>0, <1>4, <2>1, PerformImplements DEF Server
  <1>5. CASE Fault
    <2>1. UNCHANGED <<issued, status, value, executed>>
      BY <1>5 DEF Fault, ShutdownToFd, ShutdownFromFd, ServerDies, ConnectionLost
    <2> QED BY <2>1, HiddenStep
  <1> QED BY <1>1, <1>2, <1>3, <1>4, <1>5 DEF Next

-----------------------------------------------------------------------------
(***************************************************************************)
(* Where shutdown_current_connection is the only thing that befalls the    *)
(* connection, no byte is lost: the invariant has to say that every batch  *)
(* that was forwarded is wholly on its way to the server or performed, and *)
(* that the server stops only after it answered everything it was sent.    *)
(***************************************************************************)
OnlyShutdown == Faults \subseteq {"shutdown"}

Sent   == Consumed + Len(request) + Len(tofd)
Got(f) == Answered(f) + Len(buf) + Len(fromfd)

DeliveredInv(f) ==
    /\ f * RequestSize <= Sent
    /\ f = Base => NextWrite = Sent + 1
    /\ srv = "returned" => /\ tofd = << >> /\ ~tofd_open
                           /\ Len(request) < RequestSize
                           /\ Got(f) = Len(executed) * ResponseSize
    /\ fromfd_open \/ srv = "returned"
    /\ ~HungUp

\* A step that leaves both streams and the batch alone loses nothing.
LEMMA StreamsUntouched ==
    ASSUME NEW f \in 0..MaxSyscalls, DeliveredInv(f),
           UNCHANGED <<tofd, tofd_open, fromfd, fromfd_open, buf, srv, request, executed>>,
           Base' = Base, NextWrite' = NextWrite, NextAnswer(f)' = NextAnswer(f),
           ~HungUp'
    PROVE  DeliveredInv(f)'
  <1>1. Sent' = Sent /\ Got(f)' = Got(f)
    BY DEF Sent, Got, Consumed, Answered
  <1> QED BY <1>1 DEF DeliveredInv

\* A caller arrives.
LEMMA SyscallDelivered ==
    ASSUME NEW f \in 0..MaxSyscalls, Inv(f), DeliveredInv(f), Syscall
    PROVE  DeliveredInv(f)'
  <1>1. UNCHANGED <<value, wreq, wbyte, response_queue, current, buf, tofd,
                    tofd_open, fromfd, fromfd_open, srv, request, sbyte, executed>>
    BY DEF Syscall, reading, to, from, server
  <1>2. /\ issued \in Nat /\ issued' = issued + 1 /\ issued + 1 \in Syscalls
        /\ status \in [Syscalls -> Status]
        /\ status' = [status EXCEPT ![issued + 1] = "pending"]
        /\ requests \in Seq(Syscalls) /\ request_queue \in Seq(Syscalls)
    BY Sizes DEF Inv, TypeOK, Syscall, Syscalls
  <1>3. Base' = Base /\ NextWrite' = NextWrite
    <2>1. CASE writer = "get_many"
      <3>1. /\ requests = << >> /\ request_queue = << >>
            /\ requests' = <<issued + 1>> /\ request_queue' = << >> /\ writer' = "ptr"
        BY <2>1 DEF Inv, QueuesInv, Syscall
      <3>2. Base' = Base
        BY <1>2, <3>1 DEF Base, Taken
      <3> QED BY <2>1, <3>1, <3>2 DEF NextWrite
    <2>2. CASE writer # "get_many"
      <3>1. /\ requests' = requests /\ writer' = writer
            /\ request_queue' = Append(request_queue, issued + 1)
        BY <2>2 DEF Syscall
      <3>2. Base' = Base
        BY <1>2, <3>1 DEF Base, Taken
      <3> QED BY <1>1, <3>1, <3>2 DEF NextWrite
    <2> QED BY <2>1, <2>2
  <1>4. ~HungUp'
    BY <1>2 DEF HungUp, DeliveredInv
  <1>5. NextAnswer(f)' = NextAnswer(f)
    BY <1>1 DEF NextAnswer
  <1> QED BY <1>1, <1>3, <1>4, <1>5, StreamsUntouched

\* ram.ptr: the byte to write next is still the first of the batch.
LEMMA PtrDoneDelivered ==
    ASSUME NEW f \in 0..MaxSyscalls, Inv(f), DeliveredInv(f), PtrDone
    PROVE  DeliveredInv(f)'
  <1>1. /\ writer = "ptr" /\ writer' = "writing" /\ wreq' = 1 /\ wbyte' = 1
        /\ UNCHANGED <<issued, status, value, request_queue, requests, response_queue,
                       current, buf, tofd, tofd_open, fromfd, fromfd_open, srv, request,
                       sbyte, executed>>
    BY DEF PtrDone, callers, reading, to, from, server
  <1>2. Base' = Base /\ NextAnswer(f)' = NextAnswer(f) /\ ~HungUp'
    BY <1>1 DEF Base, Taken, NextAnswer, HungUp, DeliveredInv
  <1>3. NextWrite' = NextWrite
    BY <1>1, <1>2 DEF NextWrite
  <1> QED BY <1>1, <1>2, <1>3, StreamsUntouched

\* A byte more is sent, and the next one is the one after it.
LEMMA WriteByteDelivered ==
    ASSUME NEW f \in 0..MaxSyscalls, Inv(f), DeliveredInv(f), WriteByte
    PROVE  DeliveredInv(f)'
  <1>1. /\ tofd_open /\ tofd \in Seq(Nat) /\ tofd' = Append(tofd, tofd'[Len(tofd) + 1])
        /\ UNCHANGED <<issued, status, value, request_queue, writer, requests,
                       response_queue, current, buf, tofd_open, fromfd, fromfd_open,
                       srv, request, sbyte, executed>>
    BY DEF WriteByte, Inv, TypeOK, callers, reading, from, server
  <1>2. Len(tofd') = Len(tofd) + 1 /\ Len(tofd) \in Nat
    BY <1>1
  <1>3. NextWrite' = Sent' + 1
    <2>1. Inv(f)'
      BY WriteByteInv
    <2> QED BY <1>1, <2>1 DEF Inv, RequestInv, Sent
  <1>4. Sent' = Sent + 1 /\ Sent \in Int
    <2>1. Consumed' = Consumed /\ request' = request
      BY <1>1 DEF Consumed
    <2>2. Consumed \in Nat /\ Len(request) \in Nat
      BY Numbers DEF Inv
    <2> QED BY <1>2, <2>1, <2>2 DEF Sent
  <1>5. f * RequestSize \in Int
    BY Sizes
  <1>6. srv # "returned" /\ ~HungUp'
    BY <1>1 DEF DeliveredInv, HungUp
  <1>7. f * RequestSize <= Sent'
    BY <1>4, <1>5 DEF DeliveredInv
  <1> QED BY <1>1, <1>3, <1>6, <1>7 DEF DeliveredInv

\* A batch is forwarded once all its bytes are sent.
LEMMA ForwardRequestsDelivered ==
    ASSUME NEW f \in 0..MaxSyscalls, Inv(f), DeliveredInv(f), ForwardRequests
    PROVE  \E g \in 0..MaxSyscalls : Inv(g)' /\ DeliveredInv(g)'
  <1>1. f = Base
    BY ForwardRequestsInv
  <1>2. PICK g \in 0..MaxSyscalls :
                 /\ g = Base + Len(requests) /\ NextAnswer(g)' = NextAnswer(f)
                 /\ Inv(g)'
    BY ForwardRequestsInv
  <1>3. /\ writer = "writing" /\ wreq = Len(requests) + 1 /\ wbyte = 1
        /\ requests \in Seq(Syscalls) /\ Len(requests) \in Nat /\ Base \in Int
        /\ UNCHANGED <<issued, status, value, buf, tofd, tofd_open, fromfd,
                       fromfd_open, srv, request, sbyte, executed>>
    <2>1. requests \in Seq(Syscalls) /\ wreq \in Nat /\ wreq > Len(requests)
      BY DEF ForwardRequests, Inv, TypeOK
    <2>2. writer = "writing" /\ Base \in Nat
      BY DEF ForwardRequests, Inv, QueuesInv
    <2>3. wreq = Len(requests) + 1 /\ wbyte = 1
      BY <2>1, <2>2 DEF Inv, QueuesInv
    <2> QED BY <2>1, <2>2, <2>3
            DEF ForwardRequests, GetMany, callers, to, from, server
  <1>4. NextWrite = g * RequestSize + 1
    <2>1. NextWrite = ByteOf(g + 1, 1, RequestSize)
      BY <1>2, <1>3 DEF NextWrite
    <2>2. g + 1 - 1 = g
      OBVIOUS
    <2> QED BY <2>1, <2>2 DEF ByteOf
  <1>5. Sent' = Sent /\ Got(g)' = Got(f)
    BY <1>2, <1>3 DEF Sent, Got, Consumed, Answered
  <1>6. Sent = g * RequestSize
    <2>1. Sent \in Int /\ g * RequestSize \in Int
      BY Numbers, Sizes DEF Sent, Inv
    <2>2. NextWrite = Sent + 1
      BY <1>1 DEF DeliveredInv
    <2> QED BY <1>4, <2>1, <2>2
  <1>7. Base' = g /\ NextWrite' = Sent + 1
    <2>1. GetMany
      BY DEF ForwardRequests
    <2>2. /\ Base' = Taken /\ Taken = Base + Len(requests)
          /\ writer' \in {"get_many", "ptr"}
      <3>1. Taken = Base + Len(requests)
        <4>1. Taken \in Int
          BY <1>3 DEF Taken, Inv, TypeOK
        <4> QED BY <1>3, <4>1 DEF Base
      <3> QED BY <1>3, <2>1, <3>1, GetManyQueues DEF Inv
    <2>3. NextWrite' = ByteOf(g + 1, 1, RequestSize)
      BY <1>2, <2>2 DEF NextWrite
    <2>4. g + 1 - 1 = g
      OBVIOUS
    <2> QED BY <1>2, <1>6, <2>2, <2>3, <2>4 DEF ByteOf
  <1>8. ~HungUp'
    BY <1>3 DEF HungUp, DeliveredInv
  <1>9. g * RequestSize <= Sent
    <2>1. g * RequestSize \in Int
      BY Sizes
    <2> QED BY <1>6, <2>1
  <1>10. DeliveredInv(g)'
    BY <1>3, <1>5, <1>7, <1>8, <1>9 DEF DeliveredInv
  <1> QED BY <1>2, <1>10

\* A batch that fails is not forwarded.
LEMMA SendErrorDelivered ==
    ASSUME NEW f \in 0..MaxSyscalls, Inv(f), DeliveredInv(f), SendError
    PROVE  DeliveredInv(f)'
  <1>1. /\ GetMany /\ requests \in Seq(Syscalls) /\ wreq \in Nat \ {0}
        /\ wreq <= Len(requests) /\ issued \in Nat
        /\ UNCHANGED <<issued, value, response_queue, current, buf, tofd, tofd_open,
                       fromfd, fromfd_open, srv, request, sbyte, executed>>
    BY DEF SendError, Inv, TypeOK, reading, to, from, server
  <1>2. f # Base'
    <2>1. Base' = Taken /\ Base \in Nat /\ f <= Base /\ Taken \in Nat
      BY <1>1, GetManyQueues DEF Inv, QueuesInv
    <2>2. Taken = Base + Len(requests) /\ Len(requests) >= 1 /\ Len(requests) \in Nat
      BY <1>1, <2>1 DEF Base
    <2> QED BY <2>1, <2>2
  <1>3. ~HungUp'
    BY DEF SendError, HungUp, DeliveredInv
  <1>4. Sent' = Sent /\ Got(f)' = Got(f)
    BY <1>1 DEF Sent, Got, Consumed, Answered, NextAnswer
  <1> QED BY <1>1, <1>2, <1>3, <1>4 DEF DeliveredInv

\* Bytes that move from fromfd to buf are not lost.
LEMMA ReadResponseDelivered ==
    ASSUME NEW f \in 0..MaxSyscalls, NEW n \in 1..FromFdCapacity,
           Inv(f), DeliveredInv(f), ReadResponse(n)
    PROVE  DeliveredInv(f)'
  <1>1. /\ fromfd \in Seq(Nat) /\ buf \in Seq(Nat) /\ n \in 1..Len(fromfd)
        /\ buf' = buf \o SubSeq(fromfd, 1, n)
        /\ fromfd' = SubSeq(fromfd, n + 1, Len(fromfd))
        /\ UNCHANGED <<issued, status, value, request_queue, writer, requests, wreq,
                       wbyte, response_queue, current, tofd, tofd_open, fromfd_open,
                       srv, request, sbyte, executed>>
    <2>1. fromfd \in Seq(Nat) /\ buf \in Seq(Nat) /\ n <= Len(fromfd) /\ n \in Nat /\ n >= 1
      BY DEF ReadResponse, Inv, TypeOK
    <2> QED BY <2>1 DEF ReadResponse, callers, writing, to, server
  <1>2. Len(buf') + Len(fromfd') = Len(buf) + Len(fromfd)
    <2>1. Len(SubSeq(fromfd, 1, n)) = n /\ SubSeq(fromfd, 1, n) \in Seq(Nat)
      BY <1>1
    <2>2. Len(buf') = Len(buf) + n
      BY <1>1, <2>1
    <2>3. Len(fromfd') = Len(fromfd) - n
      BY <1>1
    <2>4. Len(buf) \in Int /\ Len(fromfd) \in Int /\ n \in Int
      BY <1>1
    <2> QED BY <2>2, <2>3, <2>4
  <1>3. Got(f)' = Got(f)
    <2>1. Answered(f)' = Answered(f) /\ Answered(f) \in Int
      BY <1>1, Numbers DEF Answered, NextAnswer, Inv
    <2>2. Inv(f)'
      BY ReadResponseInv
    <2>3. Len(buf') \in Int /\ Len(fromfd') \in Int /\ Len(buf) \in Int /\ Len(fromfd) \in Int
      BY <1>1, <2>2 DEF Inv, TypeOK
    <2> QED BY <1>2, <2>1, <2>3 DEF Got
  <1>4. Base' = Base /\ NextWrite' = NextWrite /\ Sent' = Sent
    BY <1>1 DEF Base, Taken, NextWrite, Sent, Consumed
  <1>5. ~HungUp'
    BY <1>1 DEF HungUp, DeliveredInv
  <1> QED BY <1>1, <1>3, <1>4, <1>5 DEF DeliveredInv

\* The bytes a caller's answer is taken from count as answered.
LEMMA ReturnDelivered ==
    ASSUME NEW f \in 0..MaxSyscalls, Inv(f), DeliveredInv(f), Return
    PROVE  DeliveredInv(f)'
  <1>1. /\ current # 0 /\ GetOne /\ buf \in Seq(Nat) /\ Len(buf) >= ResponseSize
        /\ buf' = SubSeq(buf, ResponseSize + 1, Len(buf))
        /\ status \in [Syscalls -> Status]
        /\ status' = [status EXCEPT ![current] = "returned"]
        /\ UNCHANGED <<issued, request_queue, writer, requests, wreq, wbyte, tofd,
                       tofd_open, fromfd, fromfd_open, srv, request, sbyte, executed>>
    BY DEF Return, Inv, TypeOK, writing, to, from, server
  <1>2. /\ NextAnswer(f) = current /\ NextAnswer(f)' = current + 1
        /\ current \in Syscalls
    BY <1>1, GetOneQueues DEF Inv
  <1>3. Answered(f)' = Answered(f) + ResponseSize /\ Answered(f) \in Int
    <2>1. current \in Int /\ ResponseSize \in Nat
      BY <1>2, Sizes DEF Syscalls
    <2>2. NextAnswer(f)' - 1 = (current - 1) + 1 /\ current - 1 \in Int
      BY <1>2, <2>1
    <2>3. ((current - 1) + 1) * ResponseSize = (current - 1) * ResponseSize + ResponseSize
      BY <2>1, <2>2, TimesSucc
    <2>4. Answered(f)' = ((current - 1) + 1) * ResponseSize
      BY <2>2 DEF Answered
    <2>5. Answered(f) = (current - 1) * ResponseSize
      BY <1>2 DEF Answered
    <2> QED BY <2>3, <2>4, <2>5, Numbers DEF Inv
  <1>4. Len(buf') = Len(buf) - ResponseSize /\ Len(buf) \in Int
    BY <1>1, Sizes
  <1>5. Got(f)' = Got(f)
    <2>1. Len(fromfd') = Len(fromfd) /\ Len(fromfd) \in Int
      BY <1>1, Numbers DEF Inv
    <2> QED BY <1>3, <1>4, <2>1, Sizes DEF Got
  <1>6. Base' = Base /\ NextWrite' = NextWrite /\ Sent' = Sent
    BY <1>1 DEF Base, Taken, NextWrite, Sent, Consumed
  <1>7. ~HungUp'
    BY <1>1 DEF HungUp, DeliveredInv
  <1> QED BY <1>1, <1>5, <1>6, <1>7 DEF DeliveredInv

(***************************************************************************)
(* No caller is hung up on: at EOF of fromfd the server has stopped, so it *)
(* has performed every syscall that was forwarded and answered it, and the *)
(* answer the caller waits for is in buf.                                  *)
(***************************************************************************)
LEMMA NoHangup ==
    ASSUME NEW f \in 0..MaxSyscalls, Inv(f), DeliveredInv(f)
    PROVE  ~Hangup
  <1> SUFFICES ASSUME Hangup PROVE FALSE
    OBVIOUS
  <1>1. /\ current # 0 /\ GetOne /\ Len(buf) < ResponseSize
        /\ fromfd = << >> /\ ~fromfd_open
        /\ UNCHANGED <<issued, request_queue, writer, requests, wreq, wbyte>>
    BY DEF Hangup, writing
  <1>2. NextAnswer(f) = current /\ current \in Int /\ current <= f /\ f \in Int
    <2>1. NextAnswer(f) = current /\ current \in Syscalls /\ current <= f
      BY <1>1, GetOneQueues DEF Inv
    <2> QED BY <2>1 DEF Syscalls
  <1>3. /\ tofd = << >> /\ Len(request) < RequestSize
        /\ Answered(f) + Len(buf) + Len(fromfd) = Len(executed) * ResponseSize
    BY <1>1 DEF DeliveredInv, Got
  <1>n. /\ Len(executed) \in Nat /\ Len(request) \in Nat /\ Len(buf) \in Nat
        /\ Answered(f) \in Int /\ Len(tofd) = 0 /\ Len(fromfd) = 0
    BY <1>1, <1>3, Numbers DEF Inv
  <1>4. f <= Len(executed)
    <2>1. f * RequestSize <= Len(executed) * RequestSize + Len(request)
      <3>1. Len(executed) * RequestSize \in Int
        BY <1>n, Sizes
      <3> QED BY <1>n, <3>1 DEF DeliveredInv, Sent, Consumed
    <2>2. (Len(executed) + 1) * RequestSize = Len(executed) * RequestSize + RequestSize
      BY <1>n, Sizes, TimesSucc
    <2>3. SUFFICES ASSUME f >= Len(executed) + 1 PROVE FALSE
      BY <1>2, <1>n
    <2>4. (Len(executed) + 1) * RequestSize <= f * RequestSize
      <3>1. Len(executed) + 1 \in Int /\ Len(executed) + 1 <= f
        BY <1>2, <1>n, <2>3
      <3> QED BY <1>2, <3>1, Sizes, TimesMono
    <2>5. f * RequestSize \in Int /\ Len(executed) * RequestSize \in Int
      BY <1>2, <1>n, Sizes
    <2>6. Len(executed) * RequestSize + RequestSize <= Len(executed) * RequestSize + Len(request)
      BY <1>n, <2>1, <2>2, <2>4, <2>5, Sizes
    <2> QED BY <1>3, <1>n, <2>5, <2>6, Sizes
  <1>5. current * ResponseSize = Answered(f) + ResponseSize
    <2>1. current - 1 \in Int /\ (current - 1) + 1 = current
      BY <1>2
    <2>2. ((current - 1) + 1) * ResponseSize = (current - 1) * ResponseSize + ResponseSize
      BY <2>1, Sizes, TimesSucc
    <2> QED BY <1>2, <2>1, <2>2 DEF Answered
  <1>6. current * ResponseSize <= Len(executed) * ResponseSize
    <2>1. current <= Len(executed)
      BY <1>2, <1>4, <1>n
    <2> QED BY <1>2, <1>n, <2>1, Sizes, TimesMono
  <1>7. Len(executed) * ResponseSize \in Int
    BY <1>n, Sizes
  <1>8. Answered(f) + ResponseSize <= Answered(f) + Len(buf)
    BY <1>3, <1>5, <1>6, <1>7, <1>n, Sizes
  <1> QED BY <1>1, <1>8, <1>n, Sizes

\* The server's steps take bytes from one place to the next.
LEMMA ServerDelivered ==
    ASSUME NEW f \in 0..MaxSyscalls, Inv(f), DeliveredInv(f), Server
    PROVE  DeliveredInv(f)'
  <1>u. UNCHANGED <<issued, status, value, request_queue, writer, requests, wreq, wbyte,
                    response_queue, current, buf>>
    BY DEF Server, ServerRead, ServerPerform, ServerWrite, ServerReturn,
           ServerCloseInfd, ServerCloseOutfd, callers, writing, reading
  <1>n. /\ Consumed \in Nat /\ Len(executed) \in Nat /\ Len(tofd) \in Nat
        /\ Len(request) \in Nat /\ tofd \in Seq(Nat) /\ request \in Seq(Nat)
        /\ executed \in Seq(Syscalls) /\ Got(f) \in Int
    <2>1. /\ Consumed \in Nat /\ Len(executed) \in Nat /\ Len(tofd) \in Nat
          /\ Len(request) \in Nat /\ Answered(f) \in Int /\ Len(buf) \in Nat
          /\ Len(fromfd) \in Nat
      BY Numbers DEF Inv
    <2>2. Got(f) \in Int
      BY <2>1 DEF Got
    <2> QED BY <2>1, <2>2 DEF Inv, TypeOK
  <1>1. /\ Base' = Base /\ NextWrite' = NextWrite /\ ~HungUp'
        /\ NextAnswer(f)' = NextAnswer(f)
    BY <1>u DEF Base, Taken, NextWrite, HungUp, DeliveredInv, NextAnswer
  <1>2. CASE ServerRead
    <2>1. /\ tofd # << >> /\ srv = "reading" /\ srv' = srv
          /\ request' = Append(request, Head(tofd)) /\ tofd' = Tail(tofd)
          /\ UNCHANGED <<fromfd, fromfd_open, executed>>
      BY <1>2 DEF ServerRead, from
    <2>2. Len(request') = Len(request) + 1 /\ Len(tofd') = Len(tofd) - 1
      BY <1>n, <2>1
    <2>3. Consumed' = Consumed
      BY <2>1 DEF Consumed
    <2>4. Sent' = Sent
      BY <1>n, <2>2, <2>3 DEF Sent
    <2> QED BY <1>1, <2>1, <2>4 DEF DeliveredInv
  <1>3. CASE ServerPerform
    <2>1. /\ Len(request) = RequestSize /\ request' = << >> /\ srv' = "responding"
          /\ executed' = Append(executed, Decode(request)) /\ srv = "reading"
          /\ UNCHANGED <<tofd, tofd_open, fromfd, fromfd_open>>
      BY <1>3 DEF ServerPerform, to, from
    <2>2. Len(executed') = Len(executed) + 1 /\ Len(request') = 0
      BY <1>n, <2>1
    <2>3. Consumed' = Consumed + RequestSize
      BY <1>n, <2>2, Sizes, TimesSucc DEF Consumed
    <2>4. Sent' = Sent
      BY <1>n, <2>1, <2>2, <2>3 DEF Sent
    <2> QED BY <1>1, <2>1, <2>4 DEF DeliveredInv
  <1>4. CASE ServerWrite
    <2>1. /\ srv = "responding" /\ srv' # "returned" /\ fromfd_open
          /\ UNCHANGED <<tofd, tofd_open, fromfd_open, request, executed>>
      BY <1>4 DEF ServerWrite, to
    <2>2. Sent' = Sent
      BY <2>1 DEF Sent, Consumed
    <2> QED BY <1>1, <2>1, <2>2 DEF DeliveredInv
  <1>5. CASE ServerReturn
    <2>1. UNCHANGED <<tofd, tofd_open, fromfd, fromfd_open, request, executed>>
      BY <1>5 DEF ServerReturn, to, from
    <2>2. /\ srv = "reading" /\ Len(request) < RequestSize /\ tofd = << >> /\ ~tofd_open
          /\ fromfd_open
      BY <1>5 DEF ServerReturn, DeliveredInv
    <2>3. Got(f) = Len(executed) * ResponseSize
      <3>1. NextRespond = Got(f) + 1
        BY <2>2 DEF Inv, ResponseInv, DeliveredInv, Got
      <3>2. NextRespond = Len(executed) * ResponseSize + 1
        <4>1. Len(executed) + 1 - 1 = Len(executed)
          BY <1>n
        <4> QED BY <2>2, <4>1 DEF NextRespond, ByteOf
      <3>3. Len(executed) * ResponseSize \in Int
        BY <1>n, Sizes
      <3> QED BY <1>n, <3>1, <3>2, <3>3
    <2>4. srv' = "returned"
      BY <1>5 DEF ServerReturn
    <2>5. Sent' = Sent /\ Got(f)' = Got(f)
      BY <1>1, <1>u, <2>1 DEF Sent, Consumed, Got, Answered
    <2> QED BY <1>1, <2>1, <2>2, <2>3, <2>4, <2>5 DEF DeliveredInv
  <1>6. CASE ServerCloseInfd
    <2>1. /\ srv = "returned" /\ tofd' = << >> /\ tofd_open' = FALSE
          /\ UNCHANGED <<fromfd, fromfd_open, srv, request, executed>>
      BY <1>6 DEF ServerCloseInfd, from, server
    <2>2. tofd = << >>
      BY <2>1 DEF DeliveredInv
    <2>3. Sent' = Sent /\ Got(f)' = Got(f)
      BY <1>1, <1>u, <2>1, <2>2 DEF Sent, Consumed, Got, Answered
    <2> QED BY <1>1, <2>1, <2>3 DEF DeliveredInv
  <1>7. CASE ServerCloseOutfd
    <2>1. /\ srv = "returned"
          /\ UNCHANGED <<tofd, tofd_open, fromfd, srv, request, executed>>
      BY <1>7 DEF ServerCloseOutfd, to, server
    <2>2. Sent' = Sent /\ Got(f)' = Got(f)
      BY <1>1, <1>u, <2>1 DEF Sent, Consumed, Got, Answered
    <2> QED BY <1>1, <2>1, <2>2 DEF DeliveredInv
  <1> QED BY <1>2, <1>3, <1>4, <1>5, <1>6, <1>7 DEF Server

\* Closing tofd leaves the bytes that were written in flight.
LEMMA ShutdownDelivered ==
    ASSUME OnlyShutdown, NEW f \in 0..MaxSyscalls, Inv(f), DeliveredInv(f), Fault
    PROVE  DeliveredInv(f)'
  <1>1. ShutdownToFd
    BY DEF Fault, ShutdownFromFd, ServerDies, ConnectionLost, OnlyShutdown
  <1>2. /\ tofd_open' = FALSE
        /\ UNCHANGED <<issued, status, value, request_queue, writer, requests, wreq,
                       wbyte, response_queue, current, buf, tofd, fromfd,
                       fromfd_open, srv, request, sbyte, executed>>
    BY <1>1 DEF ShutdownToFd, callers, writing, reading, from, server
  <1>3. /\ Base' = Base /\ NextWrite' = NextWrite /\ ~HungUp'
        /\ Sent' = Sent /\ Got(f)' = Got(f)
    BY <1>2 DEF Base, Taken, NextWrite, HungUp, DeliveredInv, Sent, Consumed, Got,
                Answered, NextAnswer
  <1> QED BY <1>2, <1>3 DEF DeliveredInv

DInv == \E f \in 0..MaxSyscalls : Inv(f) /\ DeliveredInv(f)

\* Nothing was sent yet.
LEMMA InitDelivered == Init => DInv
  <1> SUFFICES ASSUME Init PROVE DInv
    OBVIOUS
  <1>1. PICK f \in 0..MaxSyscalls : Inv(f)
    BY InitInv DEF IInv
  <1>2. /\ issued = 0 /\ requests = << >> /\ request_queue = << >> /\ executed = << >>
        /\ tofd = << >> /\ request = << >> /\ fromfd_open = TRUE /\ srv = "reading"
        /\ writer = "get_many"
    BY DEF Init
  <1>3. Base = 0
    <2>1. issued = 0 /\ Len(requests) = 0 /\ Len(request_queue) = 0
      BY <1>2
    <2>2. issued - Len(request_queue) - Len(requests) = 0
      BY <2>1
    <2> QED BY <2>2 DEF Base, Taken
  <1>4. f = 0
    BY <1>1, <1>3 DEF Inv, QueuesInv
  <1>5. Consumed = 0
    <2>1. Len(executed) = 0 /\ 0 * RequestSize = 0
      BY <1>2, Sizes
    <2> QED BY <2>1 DEF Consumed
  <1>6. Sent = 0
    BY <1>2, <1>5 DEF Sent
  <1>7. NextWrite = 1
    <2>1. (0 + 1 - 1) * RequestSize + 1 = 1
      BY Sizes
    <2> QED BY <1>2, <1>3, <2>1 DEF NextWrite, ByteOf
  <1>8. ~HungUp
    BY DEF Init, HungUp
  <1>9. f * RequestSize <= Sent
    BY <1>4, <1>6, Sizes
  <1>10. DeliveredInv(f)
    BY <1>2, <1>6, <1>7, <1>8, <1>9 DEF DeliveredInv
  <1> QED BY <1>1, <1>10 DEF DInv

\* Every step that can happen loses nothing.
LEMMA NextDelivered ==
    ASSUME OnlyShutdown, DInv, [Next]_vars
    PROVE  DInv'
  <1>0. PICK f \in 0..MaxSyscalls : Inv(f) /\ DeliveredInv(f)
    BY DEF DInv
  <1>1. CASE UNCHANGED vars
    <2>1. UNCHANGED <<issued, status, value, request_queue, writer, requests, wreq,
                      wbyte, response_queue, current, buf, tofd, tofd_open, fromfd,
                      fromfd_open, srv, request, sbyte, executed>>
      BY <1>1 DEF vars, callers, writing, reading, to, from, server
    <2>2. TypeOK' /\ QueuesInv(f)'
      BY <1>0, <2>1 DEF Inv, TypeOK, QueuesInv, Taken, Base, NextAnswer
    <2>3. StatusInv(f)' /\ SendFailedInv(f)' /\ HungUpInv'
      BY <1>0, <2>1 DEF Inv, StatusInv, SendFailedInv, HungUpInv, HungUp, Taken, Base,
                        NextAnswer
    <2>4. RequestInv'
      BY <1>0, <2>1 DEF Inv, RequestInv, Run, Consumed, NextWrite, Taken, Base
    <2>5. ResponseInv(f)'
      BY <1>0, <2>1 DEF Inv, ResponseInv, Run, Answered, NextAnswer, NextRespond, HungUp
    <2>6. ReturnsOwnResult' /\ PerformedInOrder' /\ ErrorsArePermanent'
      BY <1>0, <2>1 DEF Inv, ReturnsOwnResult, PerformedInOrder, ErrorsArePermanent
    <2>7. Inv(f)'
      BY <2>2, <2>3, <2>4, <2>5, <2>6 DEF Inv
    <2>8. Base' = Base /\ NextWrite' = NextWrite /\ ~HungUp' /\ NextAnswer(f)' = NextAnswer(f)
      BY <1>0, <2>1 DEF Base, Taken, NextWrite, HungUp, DeliveredInv, NextAnswer
    <2>9. DeliveredInv(f)'
      BY <1>0, <2>1, <2>8, StreamsUntouched
    <2> QED BY <2>7, <2>9 DEF DInv
  <1>2. CASE Syscall
    BY <1>0, <1>2, SyscallInv, SyscallDelivered DEF DInv
  <1>3. CASE Client
    <2>1. CASE PtrDone
      BY <1>0, <2>1, PtrDoneInv, PtrDoneDelivered DEF DInv
    <2>2. CASE WriteByte
      BY <1>0, <2>2, WriteByteInv, WriteByteDelivered DEF DInv
    <2>3. CASE ForwardRequests
      BY <1>0, <2>3, ForwardRequestsDelivered DEF DInv
    <2>4. CASE SendError
      BY <1>0, <2>4, SendErrorInv, SendErrorDelivered DEF DInv
    <2>5. ASSUME NEW n \in 1..FromFdCapacity, ReadResponse(n) PROVE DInv'
      BY <1>0, <2>5, ReadResponseInv, ReadResponseDelivered DEF DInv
    <2>6. CASE Return
      BY <1>0, <2>6, ReturnInv, ReturnDelivered DEF DInv
    <2>7. CASE Hangup
      BY <1>0, <2>7, NoHangup
    <2> QED BY <1>3, <2>1, <2>2, <2>3, <2>4, <2>5, <2>6, <2>7 DEF Client
  <1>4. CASE Server
    <2>1. Inv(f)'
      BY <1>0, <1>4, ServerReadInv, ServerPerformInv, ServerWriteInv, ServerReturnInv,
         ServerCloseInfdInv, ServerCloseOutfdInv DEF Server
    <2> QED BY <1>0, <1>4, <2>1, ServerDelivered DEF DInv
  <1>5. CASE Fault
    <2>1. Inv(f)'
      BY <1>0, <1>5, ShutdownToFdInv, ShutdownFromFdInv, ServerDiesInv, ConnectionLostInv
         DEF Fault
    <2> QED BY <1>0, <1>5, <2>1, ShutdownDelivered DEF DInv
  <1> QED BY <1>1, <1>2, <1>3, <1>4, <1>5 DEF Next

-----------------------------------------------------------------------------
(* The theorems *)

\* The inductive invariant holds throughout every behaviour of the connection.
THEOREM InvariantHolds == Spec => []IInv
  BY InitInv, NextInv, PTL DEF Spec

\* The variables of client, sockets and server keep the types of the code.
THEOREM TypeCorrect == Spec => []TypeOK
  <1>1. IInv => TypeOK
    BY DEF IInv, Inv
  <1> QED BY <1>1, InvariantHolds, PTL

(***************************************************************************)
(* A caller that returns from syscall was given the result of its own      *)
(* syscall, although neither protocol message says whose it is.            *)
(***************************************************************************)
THEOREM OwnResult == Spec => []ReturnsOwnResult
  <1>1. IInv => ReturnsOwnResult
    BY DEF IInv, Inv
  <1> QED BY <1>1, InvariantHolds, PTL

\* The server performs the syscalls that were made, once each and in order.
THEOREM InOrder == Spec => []PerformedInOrder
  <1>1. IInv => PerformedInOrder
    BY DEF IInv, Inv
  <1> QED BY <1>1, InvariantHolds, PTL

\* Once a caller got a SyscallError, no later syscall returns a result.
THEOREM Permanent == Spec => []ErrorsArePermanent
  <1>1. IInv => ErrorsArePermanent
    BY DEF IInv, Inv
  <1> QED BY <1>1, InvariantHolds, PTL

(***************************************************************************)
(* A caller that waits is held in exactly one queue or coroutine, in the   *)
(* order of the calls: none is stranded and none can be resumed twice.     *)
(***************************************************************************)
THEOREM HeldOnce == Spec => []CallersHeldOnce
  BY InvHeldOnce, InvariantHolds, PTL

(***************************************************************************)
(* The connection, with its batches, its two coroutines, its byte streams  *)
(* and all their faults, implements the interface callers program against: *)
(* SyscallInterface.syscall as near/sysif.py describes it.                 *)
(***************************************************************************)
THEOREM Implements == Spec => ImplementsInterface
  <1>1. Init => Interface!Init
    BY DEF Init, Interface!Init, Syscalls, Interface!Syscalls
  <1>2. IInv /\ [Next]_vars => [Interface!Next]_Interface!vars
    BY NextImplements
  <1> QED BY <1>1, <1>2, InvariantHolds, PTL
          DEF Spec, ImplementsInterface, Interface!Spec

(***************************************************************************)
(* What shutdown_current_connection relies on: as long as the writing side *)
(* of tofd is only shut down, no caller whose request was written is hung  *)
(* up on; it gets its result.                                              *)
(***************************************************************************)
THEOREM WrittenReturn ==
    ASSUME OnlyShutdown
    PROVE  Spec => []WrittenCallsReturn
  <1>1. DInv /\ [Next]_vars => DInv'
    BY NextDelivered
  <1>2. DInv => WrittenCallsReturn
    BY DEF DInv, DeliveredInv, HungUp, WrittenCallsReturn
  <1> QED BY <1>1, <1>2, InitDelivered, PTL DEF Spec

=============================================================================
