------------------------------- MODULE MCData -------------------------------
(***************************************************************************)
(* What arrives is what was meant, for TLC: FUSE messages, C structs,      *)
(* lists of records, the pieces of a stream.  The components stand side by *)
(* side, and in a behaviour one of them runs.                              *)
(***************************************************************************)
EXTENDS Naturals, Sequences

VARIABLES
    running,
    way, sent, data, got, status,
    kind, asked, obj, mem, back, step,
    form, rec_sent, writer, rec_data, rec_got, rec_status,
    stream, pos, unread, buf, place, op, stage, need, part, start, ret, calls

fuse    == <<way, sent, data, got, status>>
structs == <<kind, asked, obj, mem, back, step>>
lists   == <<form, rec_sent, writer, rec_data, rec_got, rec_status>>
buffer  == <<stream, pos, unread, buf, place, op, stage, need, part, start, ret, calls>>
vars    == <<running, fuse, structs, lists, buffer>>

CName(n) == [i \in 1..n |-> "c"]
Names == {CName(1), CName(7), CName(8)}
Requests == {"INIT", "LOOKUP", "OPEN", "OPENDIR", "READ", "READDIR", "READDIRPLUS", "READLINK",
             "GETATTR", "FLUSH"}
Responses == {"ERROR", "INIT", "OPEN", "OPENDIR", "READ", "READLINK", "FLUSH", "RELEASE",
              "RELEASEDIR"}

\* what passes between the code and the kernel, without the answers to READDIR and
\* READDIRPLUS, whose names the kernel does not find; and what only the code reads back,
\* which leaves out all messages whose to_bytes and from_bytes disagree
Kernel == INSTANCE FuseCodec
            WITH InOps <- Requests \cup {"RELEASE", "RELEASEDIR"},
                 OutOps <- Responses \cup {"LOOKUP", "GETATTR"},
                 MaxMsgs <- 3
Trip   == INSTANCE FuseCodec
            WITH InOps <- Requests, OutOps <- Responses, MaxMsgs <- 1
Structs == INSTANCE Codecs
             WITH Kinds <- {"Sigset", "Siginfo", "Sigaction", "CapHeader", "CapData", "Rlimit",
                            "EpollEvent", "SignalfdSiginfo", "Pipe", "Socketpair", "Int32",
                            "SockaddrIn", "SockaddrIn6"},
                  Word <- 3, Nsec <- 4, Byte <- 3
Lists == INSTANCE RecordLists
           WITH Forms <- {"structs", "dirents", "inotify", "cmsgs", "string", "unix"}, MaxItems <- 4,
                MaxCmsgs <- 1, SunPath <- 8, Abstract <- FALSE, Terminated <- TRUE,
                sent <- rec_sent, data <- rec_data, got <- rec_got, status <- rec_status
Buf == INSTANCE ReadBuffer
         WITH Digits <- {"0", "2"}, MaxStream <- 5, MaxCalls <- 2,
              Ops <- {"length2", "string", "line", "netstring"}

ASSUME DataAssumption == Structs!CodecsAssumption /\ Buf!ReadBufferAssumption

Init == /\ running \in {"kernel", "trip", "structs", "lists", "buffer"}
        /\ Kernel!Init /\ Structs!Init /\ Lists!Init /\ Buf!Init
        /\ running # "lists" => form = "structs"
        /\ running # "buffer" => stream = << >>

Next == \/ running = "kernel" /\ Kernel!Next /\ UNCHANGED <<running, structs, lists, buffer>>
        \/ running = "trip" /\ Trip!Next /\ UNCHANGED <<running, structs, lists, buffer>>
        \/ running = "structs" /\ Structs!Next /\ UNCHANGED <<running, fuse, lists, buffer>>
        \/ running = "lists" /\ Lists!Next /\ UNCHANGED <<running, fuse, structs, buffer>>
        \/ running = "buffer" /\ Buf!Next /\ UNCHANGED <<running, fuse, structs, lists>>

Spec == Init /\ [][Next]_vars

-----------------------------------------------------------------------------
(***************************************************************************)
(* What to_bytes writes, from_bytes reads back: FUSE requests and          *)
(* responses and C structs; a list decodes to its elements in order,       *)
(* whoever wrote it.  The states of a child made from what is read fall    *)
(* into one category of waitid.                                            *)
(***************************************************************************)
RoundTrip == /\ running = "trip"    => Trip!RequestsRoundTrip /\ Trip!ResponsesRoundTrip
             /\ running = "structs" => Structs!RoundTrip /\ Structs!StatesAgree
             /\ running = "lists"   => Lists!ListDecoded

(***************************************************************************)
(* The code and the kernel mean the same bytes: requests are decoded       *)
(* however packets are laid end to end, a packet cut short is refused,     *)
(* responses and control messages say to the kernel what they say to the   *)
(* code, sets and ports reach it in its own layout.                        *)
(***************************************************************************)
KernelAgrees == /\ running = "kernel"  => /\ Kernel!RequestsDecoded /\ Kernel!PartialRefused
                                          /\ Kernel!ResponsesReach
                /\ running = "structs" => Structs!KernelGetsAsked
                /\ running = "lists"   => Lists!KernelAgrees

(***************************************************************************)
(* However a stream is cut, a call returns what the whole stream says and  *)
(* consumes that, or raises because the stream is short or malformed; no   *)
(* byte is lost, also when calls are cancelled.                            *)
(***************************************************************************)
ParsedAsWhole == []Buf!NoByteLost /\ Buf!ParsedAsWhole
=============================================================================
