----------------------------- MODULE FuseCodec -----------------------------
(***************************************************************************)
(* The FUSE messages of python/rsyscall/linux/fuse.py: what from_bytes     *)
(* makes of the packets the kernel puts on /dev/fuse, and what the kernel  *)
(* finds in the packets to_bytes makes of a response.                      *)
(*                                                                         *)
(* A byte string is a sequence of byte records: the first byte of a C      *)
(* struct carries the struct, the rest of its bytes are filler, so slices  *)
(* that are off by one no longer start with a struct.  A field's value is  *)
(* the field's own name: a field that is dropped or swapped shows.         *)
(* sizeof is scaled down; the dirents keep it a multiple of 8.             *)
(***************************************************************************)
EXTENDS Integers, Sequences, TLC

CONSTANTS InOps,     \* the opcodes of the requests of this instance
          OutOps,    \* the requests whose responses are sent
          MaxMsgs,   \* bound: packets in one buffer
          Names      \* file names, sequences over {"c"}

VARIABLES way,    \* "idle", or who made data and who reads it
          sent,   \* the messages that were encoded
          data,   \* the bytes not decoded yet
          got,    \* the messages decoded so far
          status  \* "run", "done" or "raised"

vars == <<way, sent, data, got, status>>

-----------------------------------------------------------------------------
(* C structs as cffi knows them.                                           *)

\* fields that have the same name in C and in the object
Same(fields) == [f \in fields |-> f]

\* the fields ffibuilder declares (fuse_attr is spelled out where it is embedded)
CAttr == {"ino", "size", "blocks", "atime", "mtime", "ctime", "atimensec",
          "mtimensec", "ctimensec", "mode", "nlink", "uid", "gid", "rdev", "blksize"}
CEntry == CAttr \cup {"nodeid", "generation", "entry_valid", "attr_valid",
                      "entry_valid_nsec", "attr_valid_nsec"}
CFields ==
    [init_in     |-> {"major", "minor", "max_readahead", "flags"},
     init_out    |-> {"major", "minor", "max_readahead", "flags", "max_background",
                      "congestion_threshold", "max_write", "time_gran"},
     open_in     |-> {"flags"},
     open_out    |-> {"fh", "open_flags"},
     entry_out   |-> CEntry,
     read_in     |-> {"fh", "offset", "size", "read_flags", "lock_owner", "flags"},
     getattr_in  |-> {"getattr_flags", "dummy", "fh"},
     attr_out    |-> {"attr_valid", "attr_valid_nsec", "dummy"} \cup CAttr,
     flush_in    |-> {"fh", "lock_owner"},
     release_in  |-> {"fh", "flags", "release_flags", "lock_owner"}]

SizeOf == [in_header |-> 3, out_header |-> 2, dirent |-> 8, direntplus |-> 16,
           getxattr |-> 2, init_in |-> 2, init_out |-> 4, open_in |-> 1, open_out |-> 2,
           entry_out |-> 5, read_in |-> 4, getattr_in |-> 2, attr_out |-> 4,
           flush_in |-> 2, release_in |-> 3]

Pad == [k |-> "pad"]
Nul == [k |-> "nul"]
Chr == [k |-> "chr"]
IsStruct(d, s) == Len(d) > 0 /\ d[1].k = "struct" /\ d[1].s = s
\* ffi.buffer(ffi.new('struct s*', c))
New(s, c) == <<[k |-> "struct", s |-> s, c |-> c]>> \o [i \in 1..(SizeOf[s] - 1) |-> Pad]
Slice(d, from, to) == SubSeq(d, from + 1, IF to < Len(d) THEN to ELSE Len(d))
From(d, n) == Slice(d, n, Len(d))
Text(name) == [i \in 1..Len(name) |-> Chr]
Unpad(d) == {i \in 1..Len(d) : d[i] = Nul}
Strlen(d) == IF Unpad(d) = {} THEN Len(d)
             ELSE (CHOOSE i \in Unpad(d) : \A j \in Unpad(d) : i <= j) - 1
StrOf(d) == [i \in 1..Len(d) |-> "c"]
align(n, a) == n + ((a - (n % a)) % a)

-----------------------------------------------------------------------------
(* One table per message struct: "put" is the dictionary to_bytes gives    *)
(* ffi.new (C field -> value of the object's field), "get" is what         *)
(* from_bytes reads (object's field -> C field).  A Timespec is two        *)
(* fields of the object.                                                   *)

FuseAttrPut == Same(CAttr \ {"atime", "mtime", "ctime", "atimensec", "mtimensec", "ctimensec"})
    @@ ("atime" :> "atime.sec" @@ "mtime" :> "mtime.sec" @@ "ctime" :> "ctime.sec")
    @@ ("atimensec" :> "atime.nsec" @@ "mtimensec" :> "mtime.nsec" @@ "ctimensec" :> "ctime.nsec")
FuseAttrGet == Same(CAttr \ {"atime", "mtime", "ctime", "atimensec", "mtimensec", "ctimensec"})
    @@ ("atime.sec" :> "atime" @@ "mtime.sec" :> "mtime" @@ "ctime.sec" :> "ctime")
    @@ ("atime.nsec" :> "atimensec" @@ "mtime.nsec" :> "mtimensec" @@ "ctime.nsec" :> "ctimensec")

FuseInitIn == [c |-> "init_in", get |-> Same({"major", "minor", "max_readahead", "flags"}),
               put |-> Same({"major", "minor", "max_readahead", "flags"})]
FuseOpenIn == [c |-> "open_in", get |-> Same({"flags"}), put |-> Same({"flags"})]
FuseReadIn == [c |-> "read_in", get |-> Same({"fh", "offset", "size", "read_flags", "flags"}),
               put |-> Same({"fh", "offset", "size", "read_flags", "flags"})]
FuseGetattrIn == [c |-> "getattr_in", get |-> Same({"getattr_flags", "fh"}),
                  put |-> Same({"getattr_flags", "fh"})]
FuseFlushIn == [c |-> "flush_in", get |-> Same({"fh", "lock_owner"}),
                put |-> Same({"fh", "lock_owner"})]
\* to_bytes leaves lock_owner out
FuseReleaseIn == [c |-> "release_in", get |-> Same({"fh", "flags", "release_flags", "lock_owner"}),
                  put |-> Same({"fh", "flags", "release_flags"})]
FuseInitOut == [c |-> "init_out", get |-> Same(CFields.init_out), put |-> Same(CFields.init_out)]
FuseEntryOut ==
    [c |-> "entry_out",
     put |-> FuseAttrPut @@ Same({"nodeid", "generation"})
             @@ ("entry_valid" :> "entry_valid.sec" @@ "attr_valid" :> "attr_valid.sec")
             @@ ("entry_valid_nsec" :> "entry_valid.nsec" @@ "attr_valid_nsec" :> "attr_valid.nsec"),
     get |-> FuseAttrGet @@ Same({"nodeid", "generation"})
             @@ ("entry_valid.sec" :> "entry_valid" @@ "attr_valid.sec" :> "attr_valid")
             @@ ("entry_valid.nsec" :> "entry_valid_nsec" @@ "attr_valid.nsec" :> "attr_valid_nsec")]
FuseOpenOut == [c |-> "open_out", get |-> Same({"fh", "open_flags"}),
                put |-> Same({"fh", "open_flags"})]
\* the decoder is called from_header, so from_bytes is Serializable's, which raises
FuseAttrOut ==
    [c |-> "attr_out",
     put |-> FuseAttrPut @@ ("attr_valid" :> "attr_valid.sec" @@ "attr_valid_nsec" :> "attr_valid.nsec"),
     get |-> FuseAttrGet @@ ("attr_valid.sec" :> "attr_valid" @@ "attr_valid.nsec" :> "attr_valid_nsec")]

\* an object's mode is a TypeMode; to_bytes takes int(mode), from_cffi keeps the int
Value(f) == IF f = "mode" THEN "TypeMode" ELSE f
int(v) == IF v = "TypeMode" THEN "mode" ELSE v
Sample(cls) == [f \in DOMAIN cls.get |-> Value(f)]
ToC(cls, v) == [f \in CFields[cls.c] |-> IF f \in DOMAIN cls.put THEN int(v[cls.put[f]]) ELSE "zero"]
FromC(cls, c) == [f \in DOMAIN cls.get |-> c[cls.get[f]]]

-----------------------------------------------------------------------------
(* Requests.  A class is its message's form ("struct", "name", "none",     *)
(* "getxattr") and the message struct.                                     *)

NoMsg == [c |-> "none", get |-> <<>>, put |-> <<>>]
FuseInitOp        == [form |-> "struct", msg |-> FuseInitIn]
FuseLookupOp      == [form |-> "name", msg |-> NoMsg]
FuseOpenOp        == [form |-> "struct", msg |-> FuseOpenIn]
FuseOpendirOp     == [form |-> "struct", msg |-> FuseOpenIn]
FuseReadOp        == [form |-> "struct", msg |-> FuseReadIn]
FuseReaddirOp     == [form |-> "struct", msg |-> FuseReadIn]
FuseReaddirplusOp == [form |-> "struct", msg |-> FuseReadIn]
FuseReadlinkOp    == [form |-> "none", msg |-> NoMsg]
FuseFlushOp       == [form |-> "struct", msg |-> FuseFlushIn]
FuseReleaseOp     == [form |-> "struct", msg |-> FuseReleaseIn]
FuseReleasedirOp  == [form |-> "struct", msg |-> FuseReleaseIn]
FuseGetattrOp     == [form |-> "struct", msg |-> FuseGetattrIn]
FuseGetxattrOp    == [form |-> "getxattr", msg |-> NoMsg]

opcode_classes ==
    [INIT |-> FuseInitOp, LOOKUP |-> FuseLookupOp, OPEN |-> FuseOpenOp, OPENDIR |-> FuseOpendirOp,
     READ |-> FuseReadOp, READDIR |-> FuseReaddirOp, READDIRPLUS |-> FuseReaddirplusOp,
     READLINK |-> FuseReadlinkOp, GETATTR |-> FuseGetattrOp, GETXATTR |-> FuseGetxattrOp,
     FLUSH |-> FuseFlushOp, RELEASE |-> FuseReleaseOp, RELEASEDIR |-> FuseReleasedirOp]

FuseInHeader == Same({"unique", "nodeid", "uid", "gid", "pid"})
Raised == [ok |-> FALSE, v |-> <<>>]
Ok(v) == [ok |-> TRUE, v |-> v]

\* FuseGetxattrIn: to_bytes writes the length of the name and not the name;
\* from_bytes takes 4 off the length, and a negative slice end drops bytes
FuseGetxattrInPut(name) == New("getxattr", [size |-> Len(name) + 1])
FuseGetxattrInGet(d) ==
    LET varsize == d[1].c.size - 4
        variable == From(d, SizeOf.getxattr)
        end == varsize - 1
    IN IF Len(variable) < varsize THEN Raised
       ELSE Ok(StrOf(Slice(variable, 0, IF end >= 0 THEN end
                                        ELSE IF Len(variable) + end < 0 THEN 0 ELSE Len(variable) + end)))

msg_to_bytes(op, m) ==
    LET cls == opcode_classes[op]
    IN CASE cls.form = "struct"   -> New(cls.msg.c, ToC(cls.msg, m))
         [] cls.form = "name"     -> Text(m) \o <<Nul>>
         [] cls.form = "none"     -> <<>>
         [] cls.form = "getxattr" -> FuseGetxattrInPut(m)

from_header(op, d) ==
    LET cls == opcode_classes[op]
    IN CASE cls.form = "struct"   -> IF IsStruct(d, cls.msg.c) THEN Ok(FromC(cls.msg, d[1].c)) ELSE Raised
         [] cls.form = "name"     -> Ok(StrOf(Slice(d, 0, Len(d) - 1)))
         [] cls.form = "none"     -> Ok(<<>>)
         [] cls.form = "getxattr" -> FuseGetxattrInGet(d)

\* FuseIn.to_bytes
InPacket(op, body) ==
    New("in_header", [len |-> SizeOf.in_header + Len(body), opcode |-> op, hdr |-> FuseInHeader]) \o body
FuseInToBytes(m) == InPacket(m.op, msg_to_bytes(m.op, m.msg))

\* Mutant of fuse_in_parse_split: the length is not compared with the buffer's.
fuse_in_parse_splitShort(d) ==
    LET len == d[1].c.len
        msg == from_header(d[1].c.opcode, Slice(d, SizeOf.in_header, len))
    IN IF ~IsStruct(d, "in_header") \/ ~msg.ok
       THEN [ok |-> FALSE, m |-> <<>>, rest |-> <<>>]
       ELSE [ok |-> TRUE, m |-> [op |-> d[1].c.opcode, hdr |-> d[1].c.hdr, msg |-> msg.v],
             rest |-> From(d, len)]
fuse_in_parse_split(d) ==
    LET len == d[1].c.len
        msg == from_header(d[1].c.opcode, Slice(d, SizeOf.in_header, len))
    IN IF ~IsStruct(d, "in_header") \/ len > Len(d) \/ ~msg.ok
       THEN [ok |-> FALSE, m |-> <<>>, rest |-> <<>>]
       ELSE [ok |-> TRUE, m |-> [op |-> d[1].c.opcode, hdr |-> d[1].c.hdr, msg |-> msg.v],
             rest |-> From(d, len)]

\* FuseInList.to_bytes
FuseInListToBytes(ms) ==
    LET Cat[i \in 0..Len(ms)] == IF i = 0 THEN <<>> ELSE Cat[i - 1] \o FuseInToBytes(ms[i])
    IN Cat[Len(ms)]
\* what the kernel puts on the fd: every field of the struct is filled, a
\* getxattr is followed by its name
KernelPacket(m) ==
    LET cls == opcode_classes[m.op]
    IN InPacket(m.op, IF cls.form = "struct" THEN New(cls.msg.c, Same(CFields[cls.msg.c]))
                      ELSE IF cls.form = "getxattr" THEN FuseGetxattrInPut(m.msg) \o Text(m.msg) \o <<Nul>>
                      ELSE msg_to_bytes(m.op, m.msg))

-----------------------------------------------------------------------------
(* Responses.  The form of a response is "struct", "dirents", "direntplus",*)
(* "bytes", "none" or "getxattr".                                          *)

FuseErrorResponse       == [form |-> "none", msg |-> NoMsg]
FuseInitResponse        == [form |-> "struct", msg |-> FuseInitOut]
FuseLookupResponse      == [form |-> "struct", msg |-> FuseEntryOut]
FuseOpenResponse        == [form |-> "struct", msg |-> FuseOpenOut]
FuseOpendirResponse     == [form |-> "struct", msg |-> FuseOpenOut]
FuseReadResponse        == [form |-> "bytes", msg |-> NoMsg]
FuseGetattrResponse     == [form |-> "struct", msg |-> FuseAttrOut]
FuseReaddirResponse     == [form |-> "dirents", msg |-> NoMsg]
FuseReaddirplusResponse == [form |-> "direntplus", msg |-> FuseEntryOut]
FuseReadlinkResponse    == [form |-> "bytes", msg |-> NoMsg]
FuseFlushResponse       == [form |-> "none", msg |-> NoMsg]
FuseReleaseResponse     == [form |-> "none", msg |-> NoMsg]
FuseReleasedirResponse  == [form |-> "none", msg |-> NoMsg]

Response ==
    [ERROR |-> FuseErrorResponse, INIT |-> FuseInitResponse, LOOKUP |-> FuseLookupResponse,
     OPEN |-> FuseOpenResponse, OPENDIR |-> FuseOpendirResponse, READ |-> FuseReadResponse,
     READDIR |-> FuseReaddirResponse, READDIRPLUS |-> FuseReaddirplusResponse,
     READLINK |-> FuseReadlinkResponse, GETATTR |-> FuseGetattrResponse,
     FLUSH |-> FuseFlushResponse, RELEASE |-> FuseReleaseResponse,
     RELEASEDIR |-> FuseReleasedirResponse]

\* ffi.buffer of a struct whose last field, a flexible array, was given bytes: they are
\* part of it, with a null after them (as in RecordLists, where to_bytes relies on it)
NewFlexible(s, c, bytes) == New(s, c) \o bytes \o <<Nul>>

\* FuseDirent.to_bytes and FuseDirentplus.to_bytes: namelen counts the null and the
\* padding; the name is in the struct already, and is added to it once more
DirentToBytes(s, name) ==
    LET length == SizeOf[s] + Len(name) + 1
        namebytes == Text(name) \o [i \in 1..(1 + align(length, 8) - length) |-> Nul]
    IN NewFlexible(s, [namelen |-> Len(namebytes)], namebytes) \o namebytes
DirentplusToBytes(name) == DirentToBytes("direntplus", name)

OutToBytes(op, m) ==
    LET cls == Response[op]
        Cat(One(_)) == LET C[i \in 0..Len(m)] == IF i = 0 THEN <<>> ELSE C[i - 1] \o One(m[i])
                       IN C[Len(m)]
    IN CASE cls.form = "struct"     -> New(cls.msg.c, ToC(cls.msg, m))
         [] cls.form = "dirents"    -> Cat(LAMBDA name : DirentToBytes("dirent", name))
         [] cls.form = "direntplus" -> Cat(DirentplusToBytes)
         [] cls.form = "bytes"      -> Text(m)
         [] cls.form = "none"       -> <<>>

\* FuseOut.to_bytes
FuseOutToBytes(m) ==
    LET body == OutToBytes(m.op, m.msg)
    IN New("out_header", [len |-> SizeOf.out_header + Len(body), error |-> m.error, unique |-> m.unique])
       \o body

\* the loop of FuseReaddirResponse.from_header
Dirents(s, d) ==
    LET Walk[rest \in {From(d, i) : i \in 0..Len(d)}] ==
            IF rest = <<>> THEN Ok(<<>>)
            ELSE IF ~IsStruct(rest, s) THEN Raised
            ELSE LET len == SizeOf[s] + rest[1].c.namelen
                     name == Slice(rest, SizeOf[s], len)
                     tail == Walk[From(rest, len)]
                 IN IF Len(rest) < len \/ ~tail.ok THEN Raised
                    ELSE Ok(<<StrOf(Slice(name, 0, Strlen(name)))>> \o tail.v)
    IN Walk[d]

\* the kernel's walk over a readdir's answer (external): a name is namelen bytes, the
\* next entry is at the next multiple of 8, a short rest is left alone
KernelName(d) == [i \in 1..Len(d) |-> IF d[i] = Chr THEN "c" ELSE "other"]
KernelDirents(s, d) ==
    LET Walk[rest \in {From(d, i) : i \in 0..Len(d)}] ==
            IF Len(rest) < SizeOf[s] THEN Ok(<<>>)
            ELSE IF ~IsStruct(rest, s) THEN Raised
            ELSE LET end == SizeOf[s] + rest[1].c.namelen
                     tail == Walk[From(rest, align(end, 8))]
                 IN IF align(end, 8) > Len(rest) THEN Ok(<<>>)
                    ELSE IF ~tail.ok THEN Raised
                    ELSE Ok(<<KernelName(Slice(rest, SizeOf[s], end))>> \o tail.v)
    IN Walk[d]

\* the kernel's reading of an answer: the C struct, every dirent's name, the bytes
KernelReads(op, d) ==
    LET cls == Response[op]
    IN CASE cls.form = "struct" -> IF IsStruct(d, cls.msg.c) THEN Ok(d[1].c) ELSE Raised
         [] cls.form = "dirents" -> KernelDirents("dirent", d)
         [] cls.form = "direntplus" -> KernelDirents("direntplus", d)
         [] cls.form = "bytes" -> Ok(StrOf(d))
         [] cls.form = "none" -> IF d = <<>> THEN Ok(<<>>) ELSE Raised
\* from_header of the response classes; a fuse_direntplus has no namelen of its own
OutFromHeader(op, d) ==
    LET cls == Response[op]
    IN CASE cls.form = "struct" -> IF cls.msg.c = "attr_out" \/ ~IsStruct(d, cls.msg.c) THEN Raised
                                   ELSE Ok(FromC(cls.msg, d[1].c))
         [] cls.form = "dirents" -> Dirents("dirent", d)
         [] cls.form = "direntplus" -> IF d = <<>> THEN Ok(<<>>) ELSE Raised
         [] cls.form = "bytes" -> Ok(StrOf(d))
         [] cls.form = "none" -> Ok(<<>>)

-----------------------------------------------------------------------------
(* Messages of this instance.                                              *)

InMessages(op) ==
    {[op |-> op, hdr |-> FuseInHeader, msg |-> m] : m \in
        CASE opcode_classes[op].form = "struct" -> {Sample(opcode_classes[op].msg)}
          [] opcode_classes[op].form = "none" -> {<<>>}
          [] OTHER -> Names}
NameLists == {<<>>} \cup {<<n>> : n \in Names} \cup {<<n, o>> : n, o \in Names}
OutMessages(op) ==
    {[op |-> op, error |-> e, unique |-> "unique", msg |-> m] : e \in {0, 1}, m \in
        CASE Response[op].form = "struct" -> {Sample(Response[op].msg)}
          [] Response[op].form = "none" -> {<<>>}
          [] Response[op].form = "bytes" -> Names
          [] OTHER -> NameLists}

-----------------------------------------------------------------------------

Init == way = "idle" /\ sent = <<>> /\ data = <<>> /\ got = <<>> /\ status = "run"

\* the kernel has a request for the fd (external); a buffer may come to hold several
KernelSends(m) ==
    /\ way \in {"idle", "kernel"} /\ got = <<>> /\ Len(sent) < MaxMsgs
    /\ way' = "kernel" /\ sent' = Append(sent, m) /\ data' = data \o KernelPacket(m)
    /\ UNCHANGED <<got, status>>
\* a FuseInList is written with to_bytes
WriteIn(ms) ==
    /\ way = "idle" /\ way' = "in" /\ sent' = ms /\ data' = FuseInListToBytes(ms)
    /\ UNCHANGED <<got, status>>
\* the caller hands from_bytes only the first n bytes of a packet
PartialRead(n) ==
    /\ way = "kernel" /\ got = <<>> /\ status = "run"
    /\ n \in SizeOf.in_header..(Len(data) - 1) /\ Len(sent) = 1
    /\ way' = "partial" /\ data' = Slice(data, 0, n)
    /\ UNCHANGED <<sent, got, status>>

\* one turn of the loop of FuseInList.from_bytes
ParseOne ==
    LET r == fuse_in_parse_split(data)
    IN /\ way \in {"kernel", "in", "partial"} /\ status = "run" /\ data # <<>>
       /\ IF r.ok THEN got' = Append(got, r.m) /\ data' = r.rest /\ UNCHANGED status
          ELSE status' = "raised" /\ UNCHANGED <<got, data>>
       /\ UNCHANGED <<way, sent>>
ParseEnd ==
    /\ way \in {"kernel", "in", "partial"} /\ status = "run" /\ data = <<>>
    /\ status' = "done" /\ UNCHANGED <<way, sent, data, got>>

\* a response is written with to_bytes ...
Respond(m) ==
    /\ way = "idle" /\ way' = "out" /\ sent' = <<m>> /\ data' = FuseOutToBytes(m)
    /\ UNCHANGED <<got, status>>
\* ... and read by the kernel, or by FuseOut.from_bytes
ReadOut(who, Decode(_, _)) ==
    LET hdr == data[1].c
        r == Decode(sent[1].op, Slice(data, SizeOf.out_header, hdr.len))
    IN /\ way = "out" /\ status = "run" /\ way' = who
       /\ IF hdr.len <= Len(data) /\ r.ok
          THEN /\ got' = <<[op |-> sent[1].op, error |-> hdr.error, unique |-> hdr.unique, msg |-> r.v]>>
               /\ data' = From(data, hdr.len) /\ status' = "done"
          ELSE status' = "raised" /\ UNCHANGED <<got, data>>
       /\ UNCHANGED sent
KernelReadsOut == ReadOut("kernel_out", KernelReads)
FromBytesOut == ReadOut("bytes_out", OutFromHeader)

Next ==
    \/ \E op \in InOps : \E m \in InMessages(op) :
        \/ KernelSends(m)
        \/ \E last \in InOps : \E l \in InMessages(last) : WriteIn(<<m, l>>)
    \/ \E n \in 1..(Len(data) - 1) : PartialRead(n)
    \/ ParseOne \/ ParseEnd
    \/ \E op \in OutOps : \E m \in OutMessages(op) : Respond(m)
    \/ KernelReadsOut \/ FromBytesOut

Spec == Init /\ [][Next]_vars

-----------------------------------------------------------------------------

\* Every request the kernel puts in the buffer comes out of FuseInList.from_bytes
\* with its header and every field it declares, in order, however the packets are
\* laid end to end (fuse_in_parse_split's len, the null byte of a name).
RequestsDecoded ==
    way = "kernel" => /\ status # "raised"
                      /\ \A i \in 1..Len(got) : got[i] = sent[i]
                      /\ status = "done" => got = sent
\* A packet that arrives cut short is refused, never decoded to something else:
\* "only part of the FUSE packet was passed" (fuse_in_parse_split).
PartialRefused == way = "partial" => status # "done" /\ got = <<>>
\* What to_bytes makes of a list of requests decodes to the list again.
RequestsRoundTrip == way = "in" => status # "raised" /\ (status = "done" => got = sent)
\* What a response says is what the kernel finds in the packet: every field of the
\* object in the C field of its name, nothing left over.  The names of a directory are
\* not what the kernel finds: they are sent twice, and their nulls with them, so OutOps
\* has neither READDIR nor READDIRPLUS where this is checked.
ResponsesReach ==
    way = "kernel_out" =>
        /\ status = "done" /\ data = <<>>
        /\ got[1].unique = "unique" /\ got[1].error = sent[1].error
        /\ IF Response[sent[1].op].form = "struct"
           THEN \A f \in DOMAIN sent[1].msg :
                    got[1].msg[Response[sent[1].op].msg.get[f]] = int(sent[1].msg[f])
           ELSE got[1].msg = sent[1].msg
\* What to_bytes makes of a response decodes to the response again; not a directory's,
\* for the same reason.
ResponsesRoundTrip == way = "bytes_out" => status = "done" /\ got = sent
=============================================================================
