----------------------------- MODULE Transfers -----------------------------
(***************************************************************************)
(* System calls that transfer data: the buffers they are given are split   *)
(* by what the kernel says it did into a part that was used and a rest.    *)
(* read, write, recv, send and their positioned forms split one pointer;   *)
(* readv and writev split the list and the array of iovecs that describes  *)
(* it in memory; sendmsg and recvmsg only the list; recvmsg and the calls  *)
(* that take a Sockbuf split the buffer of the address as well.            *)
(*                                                                         *)
(* A caller transfers a list of buffers and calls again with the rest      *)
(* until nothing is left.  A pointer is [b, from, to]: part of buffer b.   *)
(* The kernel is external.                                                 *)
(***************************************************************************)
EXTENDS Naturals, Sequences

CONSTANTS Calls,      \* of "writev", "sendmsg"
          Sizes,      \* the sizes of buffers
          MaxBufs,    \* bound: buffers of a list
          NameSize,   \* the size of an address buffer
          SockLens,   \* the lengths the kernel reports for the value of a Sockbuf
          NameLens    \* the lengths it reports for the address of a message

VARIABLES call,       \* how the list is transferred
          list,       \* all of it
          iov,        \* the iovec array: [mem: what memory holds, value: what Python knows]
          firstIov,   \* the WrittenPointer to the used iovecs that was returned last
          piece,      \* the rest of a buffer that was used in part
          used,       \* pointers returned as used, in order
          stream,     \* the bytes the kernel transferred, in order
          addr        \* the address buffer: [how, state, valid, rest]

vars == <<call, list, iov, firstIov, piece, used, stream, addr>>

Size(p) == p.to - p.from
Bytes(p) == [i \in 1..Size(p) |-> <<p.b, p.from + i>>]
BytesOf(ptrs) ==
    LET Cat[i \in 0..Len(ptrs)] == IF i = 0 THEN <<>> ELSE Cat[i - 1] \o Bytes(ptrs[i])
    IN Cat[Len(ptrs)]
Array(mem, value) == [mem |-> mem, value |-> value]
Written(value) == Array(value, value)

\* Pointer.split, whose allocation does not look at its size
Split(p, n) == <<[p EXCEPT !.to = p.from + n], [p EXCEPT !.from = p.from + n]>>

\* Mutant of SplitWithMiddle: what is left of n is not cleared after the middle.
SplitWithMiddleKeepsN(ptrs, n) ==
    LET Go[i \in 0..Len(ptrs)] ==
        IF i = 0 THEN [n |-> n, valid |-> <<>>, middle |-> <<>>, invalid |-> <<>>]
        ELSE LET s == Go[i - 1]
                 p == ptrs[i]
             IN IF s.n >= Size(p) THEN [s EXCEPT !.valid = Append(@, p), !.n = @ - Size(p)]
                ELSE IF s.n > 0 THEN [s EXCEPT !.middle = Split(p, s.n)]
                ELSE [s EXCEPT !.invalid = Append(@, p)]
    IN Go[Len(ptrs)]
\* The loop of split_with_middle: a pointer that fits into what is left of n is valid,
\* one that does not is split, and then the rest is invalid.
SplitWithMiddle(ptrs, n) ==
    LET Go[i \in 0..Len(ptrs)] ==
        IF i = 0 THEN [n |-> n, valid |-> <<>>, middle |-> <<>>, invalid |-> <<>>]
        ELSE LET s == Go[i - 1]
                 p == ptrs[i]
             IN IF s.n >= Size(p) THEN [s EXCEPT !.valid = Append(@, p), !.n = @ - Size(p)]
                ELSE IF s.n > 0 THEN [s EXCEPT !.middle = Split(p, s.n), !.n = 0]
                ELSE [s EXCEPT !.invalid = Append(@, p)]
    IN Go[Len(ptrs)]

\* IovecList.split: the middle goes to both sides
SplitList(ptrs, n) ==
    LET s == SplitWithMiddle(ptrs, n)
    IN IF s.middle = <<>> THEN <<s.valid, s.invalid>>
       ELSE <<Append(s.valid, s.middle[1]), <<s.middle[2]>> \o s.invalid>>

\* split_iovec: the array is cut after the iovec of the middle; the value of the first
\* part does not have the middle
SplitIovec(a, n) ==
    LET s == SplitWithMiddle(a.value, n)
        first_count == Len(s.valid) + (IF s.middle = <<>> THEN 0 ELSE 1)
    IN [first |-> Array(SubSeq(a.mem, 1, first_count), s.valid), middle |-> s.middle,
        last |-> Array(SubSeq(a.mem, first_count + 1, Len(a.mem)), s.invalid)]

\* What the kernel is told to transfer: as many iovecs of the array as the value has
Asked(a) == SubSeq(a.mem, 1, Len(a.value))

-----------------------------------------------------------------------------

Buffers == UNION {[1..n -> Sizes] : n \in 1..MaxBufs}
Name == [b |-> 0, from |-> 0, to |-> NameSize]
Fresh == [how |-> "none", state |-> "none", valid |-> Name, rest |-> Name]

Init ==
    /\ call \in Calls
    /\ \E sizes \in Buffers :
          list = [i \in 1..Len(sizes) |-> [b |-> i, from |-> 0, to |-> sizes[i]]]
    /\ iov = Written(list) /\ firstIov = Written(<<>>)
    /\ piece = <<>> /\ used = <<>> /\ stream = <<>> /\ addr = Fresh

\* The kernel transfers some of it.  A write transfers something; a read may also find
\* the end of the file, and then the caller stops.
Amounts(ptrs) == 1..Len(BytesOf(ptrs))

Vectored ==
    /\ call = "writev" /\ piece = <<>> /\ iov.value # <<>>
    /\ \E ret \in Amounts(Asked(iov)) :
          LET r == SplitIovec(iov, ret)
          IN /\ stream' = stream \o SubSeq(BytesOf(Asked(iov)), 1, ret)
             /\ firstIov' = r.first /\ iov' = r.last
             /\ used' = used \o r.first.value \o (IF r.middle = <<>> THEN <<>> ELSE <<r.middle[1]>>)
             /\ piece' = IF r.middle = <<>> THEN <<>> ELSE <<r.middle[2]>>
    /\ UNCHANGED <<call, list, addr>>

\* read and write of the rest of the middle
Single ==
    /\ piece # <<>>
    /\ \E ret \in Amounts(piece) :
          LET r == Split(piece[1], ret)
          IN /\ stream' = stream \o SubSeq(BytesOf(piece), 1, ret)
             /\ used' = Append(used, r[1])
             /\ piece' = IF Size(r[2]) = 0 THEN <<>> ELSE <<r[2]>>
    /\ UNCHANGED <<call, list, iov, firstIov, addr>>

\* the rest of a message is put into a new header and a new array
Message ==
    /\ call = "sendmsg" /\ iov.value # <<>>
    /\ \E ret \in Amounts(Asked(iov)) :
          LET r == SplitList(iov.value, ret)
          IN /\ stream' = stream \o SubSeq(BytesOf(Asked(iov)), 1, ret)
             /\ used' = used \o r[1] /\ iov' = Written(r[2])
    /\ UNCHANGED <<call, list, firstIov, piece, addr>>

-----------------------------------------------------------------------------
(* The address that comes with a message, or the value of getsockname,     *)
(* getpeername, getsockopt and accept: the kernel stores what fits and     *)
(* reports the length there was.                                           *)

Result(s) == [addr EXCEPT !.state = "read", !.valid = s[1], !.rest = s[2]]
SockbufFromBytes(len) == IF len > NameSize THEN [addr EXCEPT !.state = "raised"] ELSE Result(Split(Name, len))
RecvMsghdrOutFromBytes(len) == Result(Split(Name, len))

GetSockbuf(len) ==
    /\ addr.state = "none"
    /\ addr' = [SockbufFromBytes(len) EXCEPT !.how = "sockbuf"]
    /\ UNCHANGED <<call, list, iov, firstIov, piece, used, stream>>
ReceiveName(len) ==
    /\ addr.state = "none"
    /\ addr' = [RecvMsghdrOutFromBytes(len) EXCEPT !.how = "recvmsg"]
    /\ UNCHANGED <<call, list, iov, firstIov, piece, used, stream>>

Next ==
    \/ Vectored \/ Single \/ Message
    \/ \E len \in SockLens : GetSockbuf(len)
    \/ \E len \in NameLens : ReceiveName(len)

Spec == Init /\ [][Next]_vars /\ WF_vars(Vectored \/ Single \/ Message)

-----------------------------------------------------------------------------

\* Every byte is either transferred, and then in a buffer that was returned as used, or
\* in the rest, in order, whatever the kernel does of each call: the data a caller reads
\* back after readv or recvmsg is what arrived, and calling again with the rest neither
\* skips nor repeats a byte.
Accounted ==
    /\ BytesOf(used) = stream
    /\ BytesOf(used) \o BytesOf(piece) \o BytesOf(iov.value) = BytesOf(list)

\* A WrittenPointer to the rest of an iovec array has the value that memory holds.
RestIsWritten == iov.mem = iov.value

\* The same of the WrittenPointer to the part that was used.
FirstIsWritten == firstIov.mem = firstIov.value

\* The two pointers a call returns divide the buffer they were made of: neither reaches
\* past its end.
InsideBuffer ==
    addr.state = "read" => addr.valid.from = 0 /\ addr.valid.to = addr.rest.from
                           /\ addr.valid.to <= NameSize /\ addr.rest.to = NameSize

\* A caller that goes on with the rest transfers everything.
AllTransferred == <>(stream = BytesOf(list))
=============================================================================
