---------------------------- MODULE RecordLists ----------------------------
(***************************************************************************)
(* Records of varying length laid end to end in one buffer: lists of       *)
(* structs, directory entries, inotify events, control messages; and the   *)
(* null-terminated strings and socket addresses whose length is data.      *)
(*                                                                         *)
(* As in FuseCodec, the first byte of a C header carries the header and    *)
(* the others are filler.  Sizes are scaled: dirents keep the residues     *)
(* mod 8 of sizeof and of the offset of d_name; a control message's header *)
(* and its alignment are 4 and an int is 2.                                *)
(***************************************************************************)
EXTENDS Integers, Sequences

CONSTANTS Forms,    \* of "structs", "dirents", "inotify", "cmsgs", "string", "unix"
          MaxItems, \* bound: elements of a list
          MaxCmsgs, \* bound: control messages of one list
          SunPath,  \* size of sun_path
          Abstract, \* BOOLEAN: unnamed and abstract addresses, too
          Terminated  \* BOOLEAN: a null follows the bytes from_bytes is given, as
                      \* after every bytes object of CPython

VARIABLES form,    \* what kind of list it is
          sent,    \* the list
          writer,  \* "none", "to_bytes" or "kernel": who wrote data
          data,    \* the bytes not decoded yet
          got,     \* the elements decoded so far
          status   \* "run", "done" or "raised"

vars == <<form, sent, writer, data, got, status>>

Pad == [k |-> "pad"]
Nul == [k |-> "nul"]
Chr == [k |-> "chr"]
Fd(i) == [k |-> "fd", n |-> i]
Header(h, size) == <<[k |-> "hdr", h |-> h]>> \o [i \in 1..(size - 1) |-> Pad]
IsHeader(d) == Len(d) > 0 /\ d[1].k = "hdr"
Slice(d, from, to) == SubSeq(d, from + 1, IF to < Len(d) THEN to ELSE Len(d))
From(d, n) == Slice(d, n, Len(d))
Repeat(b, n) == [i \in 1..n |-> b]
Nuls(d) == {i \in 1..Len(d) : d[i] = Nul}
\* the bytes before the first null, or all
Strlen(d) == IF Nuls(d) = {} THEN Len(d)
             ELSE (CHOOSE i \in Nuls(d) : \A j \in Nuls(d) : i <= j) - 1
Up(n, a) == n + ((a - (n % a)) % a)

Ok(item, rest) == [ok |-> TRUE, item |-> item, rest |-> rest]
Raise == [ok |-> FALSE, item |-> 0, rest |-> <<>>]

-----------------------------------------------------------------------------
(* Structs of one size: StructList, EpollEventList.                        *)

StructSize == 3
StructToBytes(n) == Header([val |-> n], StructSize)
StructFromBytes(d) == IF IsHeader(d) THEN Ok(d[1].h.val, From(d, StructSize)) ELSE Raise

(* Directory entries.  The header is 3 bytes, the name follows, and the    *)
(* struct is never shorter than 8.                                         *)

d_name_offset == 3
\* record(reclen): the struct with the name and its null byte, then up to 8 bytes of padding
Record(name, reclen) ==
    LET named == Header([d_reclen |-> reclen], d_name_offset) \o Repeat(Chr, name) \o <<Nul>>
        data1 == named \o Repeat(Nul, IF Len(named) < 8 THEN 8 - Len(named) ELSE 0)
    IN data1 \o Repeat(Nul, 8 - (Len(data1) % 8))
DirentToBytes(name) == Record(name, Len(Record(name, 0)))
DirentFromBytes(d) ==
    IF ~IsHeader(d) THEN Raise
    ELSE Ok(Strlen(Slice(d, d_name_offset, d[1].h.d_reclen)), From(d, d[1].h.d_reclen))
\* getdents64 pads to 8, not past it
KernelDirent(name) ==
    LET len == Up(d_name_offset + name + 1, 8)
    IN Header([d_reclen |-> len], d_name_offset) \o Repeat(Chr, name)
       \o Repeat(Nul, len - d_name_offset - name)

(* Inotify events: len counts the name and the nulls the kernel pads it    *)
(* with; an event without a name has len 0.                                *)

EventSize == 2
KernelEvent(name) ==
    LET len == IF name = 0 THEN 0 ELSE Up(name + 1, 4)
    IN Header([len |-> len], EventSize) \o Repeat(Chr, name) \o Repeat(Nul, len - name)
\* Mutant of InotifyFromBytes: the next event is looked for after the name, not after its padding.
InotifyFromBytesNoPad(d) ==
    IF ~IsHeader(d) THEN Raise
    ELSE LET name == Strlen(Slice(d, EventSize, EventSize + d[1].h.len))
         IN Ok(name, From(d, EventSize + name))
InotifyFromBytes(d) ==
    IF ~IsHeader(d) THEN Raise
    ELSE Ok(Strlen(Slice(d, EventSize, EventSize + d[1].h.len)), From(d, EventSize + d[1].h.len))

(* Control messages, each with a number of fds.                            *)

CmsgHdr == 4
Fds(n) == [i \in 1..(2 * n) |-> IF i % 2 = 1 THEN Fd((i + 1) \div 2) ELSE Pad]
CmsgToBytes(n) == Header([cmsg_len |-> CmsgHdr + Len(Fds(n)), type |-> "RIGHTS"], CmsgHdr) \o Fds(n)
\* iter_unpack: the data must be whole ints
CmsgFromBytes(d) ==
    IF ~IsHeader(d) \/ (Len(Slice(d, CmsgHdr, d[1].h.cmsg_len))) % 2 # 0 THEN Raise
    ELSE Ok(Len(Slice(d, CmsgHdr, d[1].h.cmsg_len)) \div 2, From(d, d[1].h.cmsg_len))
\* the kernel looks for the next message at the aligned end of this one (CMSG_NXTHDR)
KernelCmsg(d) ==
    IF ~IsHeader(d) \/ d[1].h.cmsg_len > Len(d) THEN Raise
    ELSE Ok((d[1].h.cmsg_len - CmsgHdr) \div 2, From(d, Up(d[1].h.cmsg_len, 4)))

(* Strings: one per buffer.                                                *)

StringToBytes(n) == Repeat(Chr, n) \o <<Nul>>
StringFromBytes(d) == Ok(Strlen(d), <<>>)

(* Unix addresses.  A path is [abstract |-> does it begin with a null,     *)
(* len |-> its length]; family is 2 bytes.                                 *)

SaFamily == 2
SunPathBytes(p) == IF p.abstract THEN <<Nul>> \o Repeat(Chr, p.len - 1) ELSE Repeat(Chr, p.len)
StructUn(p) == Header([family |-> "UNIX"], SaFamily) \o SunPathBytes(p) \o Repeat(Nul, SunPath - p.len)
\* the whole struct, cut after the path and one byte more
SockaddrUnToBytes(p) == Slice(StructUn(p), 0, SaFamily + p.len + 1)
\* SockaddrStorage.from_bytes and parse: the family, and all the bytes again
SockaddrStorageParse(d) == Header([family |-> d[1].h.family], SaFamily) \o From(d, SaFamily)
\* past: how far behind its buffer strlen looks, when it holds no null
SockaddrUnFromBytes(d, past) ==
    LET path == From(d, SaFamily)
        strlen == IF Nuls(path) = {} THEN Len(path) + past ELSE Strlen(path)
    IN IF Len(d) < SaFamily \/ d[1].h.family # "UNIX" THEN Raise
       ELSE IF path = <<>> THEN Ok([abstract |-> FALSE, len |-> 0], <<>>)
       ELSE IF path[1] = Nul THEN Ok([abstract |-> TRUE, len |-> Len(path)], <<>>)
       ELSE Ok([abstract |-> FALSE, len |-> strlen], <<>>)
\* what the kernel makes of the address it is given (external): a path ends at its first
\* null or with the address, an abstract name is all of the bytes
KernelUn(d) ==
    LET path == From(d, SaFamily)
    IN IF path # <<>> /\ path[1] = Nul THEN [abstract |-> TRUE, len |-> Len(path)]
       ELSE [abstract |-> FALSE, len |-> Strlen(path)]

-----------------------------------------------------------------------------

ToBytes(item) ==
    CASE form = "structs" -> StructToBytes(item) [] form = "dirents" -> DirentToBytes(item)
      [] form = "cmsgs" -> CmsgToBytes(item)     [] form = "string" -> StringToBytes(item)
      [] form = "unix" -> SockaddrUnToBytes(item)
KernelBytes(item) ==
    CASE form = "structs" -> StructToBytes(item) [] form = "dirents" -> KernelDirent(item)
      [] form = "inotify" -> KernelEvent(item)   [] form = "cmsgs" -> CmsgToBytes(item)
FromBytes(d, past) ==
    CASE form = "structs" -> StructFromBytes(d)  [] form = "dirents" -> DirentFromBytes(d)
      [] form = "inotify" -> InotifyFromBytes(d) [] form = "cmsgs" -> CmsgFromBytes(d)
      [] form = "string" -> StringFromBytes(d)
      [] form = "unix" -> SockaddrUnFromBytes(SockaddrStorageParse(d), past)

\* names by their length, control messages by their number of fds
Items ==
    CASE form = "structs" -> 0..2        [] form = "dirents" -> {1, 3, 4, 5, 12, 13}
      [] form = "inotify" -> {0, 1, 3, 4} [] form = "cmsgs" -> 0..3
      [] form = "string" -> 0..9
      [] form = "unix" -> IF Abstract THEN [abstract : {FALSE}, len : {0}] \cup [abstract : {TRUE}, len : 1..3]
                          ELSE [abstract : {FALSE}, len : 1..SunPath]
MaxLen == CASE form \in {"string", "unix"} -> 1 [] form = "cmsgs" -> MaxCmsgs [] OTHER -> MaxItems
Concat(Bytes(_), items) ==
    LET Cat[i \in 0..Len(items)] == IF i = 0 THEN <<>> ELSE Cat[i - 1] \o Bytes(items[i])
    IN Cat[Len(items)]

Init == form \in Forms /\ sent = <<>> /\ writer = "none" /\ data = <<>> /\ got = <<>> /\ status = "run"

\* the list is put together
Add(item) ==
    /\ writer = "none" /\ Len(sent) < MaxLen
    /\ sent' = Append(sent, item) /\ UNCHANGED <<form, writer, data, got, status>>
\* the to_bytes of the lists: ret += ent.to_bytes()
Write ==
    /\ writer = "none" /\ sent # <<>> /\ form # "inotify"
    /\ writer' = "to_bytes" /\ data' = Concat(ToBytes, sent)
    /\ UNCHANGED <<form, sent, got, status>>
\* a system call fills the buffer (external)
KernelWrites ==
    /\ writer = "none" /\ form \in {"structs", "dirents", "inotify"} /\ sent # <<>>
    /\ writer' = "kernel" /\ data' = Concat(KernelBytes, sent)
    /\ UNCHANGED <<form, sent, got, status>>
\* one turn of while len(data) > 0
Parse ==
    /\ writer # "none" /\ status = "run" /\ data # <<>>
    /\ \E past \in IF Terminated THEN {0} ELSE {0, 1} :
       LET r == FromBytes(data, past)
       IN IF r.ok THEN got' = Append(got, r.item) /\ data' = r.rest /\ UNCHANGED status
          ELSE status' = "raised" /\ UNCHANGED <<got, data>>
    /\ UNCHANGED <<form, sent, writer>>
End ==
    /\ writer # "none" /\ status = "run" /\ data = <<>>
    /\ status' = "done" /\ UNCHANGED <<form, sent, writer, data, got>>

Next == (\E item \in Items : Add(item)) \/ Write \/ KernelWrites \/ Parse \/ End

Spec == Init /\ [][Next]_vars

-----------------------------------------------------------------------------

\* The elements that are decoded are the elements of the list, in order, whoever wrote
\* the bytes and wherever names and paddings end.
ListDecoded ==
    /\ status # "raised"
    /\ \A i \in 1..Len(got) : i <= Len(sent) /\ got[i] = sent[i]
    /\ status = "done" => got = sent

\* The kernel's walk over what to_bytes wrote (external).
KernelSees ==
    CASE form = "cmsgs" ->
            LET first == KernelCmsg(data)
                second == KernelCmsg(first.rest)
            IN /\ first.ok /\ first.item = sent[1]
               /\ Len(sent) > 1 => second.ok /\ second.item = sent[2]
      [] form = "unix" -> KernelUn(data) = sent[1]
      [] OTHER -> TRUE
\* What to_bytes wrote says to the kernel what the list says: the fds of every control
\* message, and the name of the socket.
KernelAgrees == writer = "to_bytes" /\ got = <<>> /\ data # <<>> => KernelSees
=============================================================================
