------------------------------ MODULE Codecs ------------------------------
(***************************************************************************)
(* The fixed-size structs that system calls take and return: an object is  *)
(* made, written to memory with to_bytes, read by the kernel, perhaps      *)
(* changed by it, and read back with from_bytes.                           *)
(*                                                                         *)
(* Memory is the C struct, a record of its fields.  Bit sets are integers, *)
(* of Word bits each (64 for signals and CPUs, 32 for capabilities), and   *)
(* a byte of an address has the values 0..Byte-1.                          *)
(***************************************************************************)
EXTENDS Integers, FiniteSets, FiniteSetsExt, Sequences

CONSTANTS Kinds,   \* the structs of this instance
          Word,    \* bits of one integer of a set
          Nsec,    \* nanoseconds in a second
          Byte     \* values of a byte

CodecsAssumption == Word \in Nat \ {0} /\ Nsec \in Nat \ {0} /\ Byte \in Nat \ {0}

VARIABLES kind,  \* the struct, or "none" before it is chosen
          asked, \* the arguments of the constructor
          obj,   \* the object
          mem,   \* the C struct in memory
          back,  \* what from_bytes made of it
          step   \* "new", "made", "written", "read"

vars == <<kind, asked, obj, mem, back, step>>

None == "None"

-----------------------------------------------------------------------------
(* Bit sets.                                                               *)

bits(n, one_indexed) ==
    {b + (IF one_indexed THEN 1 ELSE 0) : b \in {b \in 0..(2 * Word) : (n \div 2^b) % 2 = 1}}
BitOr(ns) == SumSet(ns)   \* of distinct powers of two

SigsetToCffi(s) == BitOr({2^(sig - 1) : sig \in s})
SigsetFromCffi(n) == bits(n, TRUE)

\* two integers, for the first Word capabilities and the rest
to_uint32s(caps) ==
    [i \in 0..1 |-> BitOr({2^(cap % Word) : cap \in {c \in caps : c \div Word = i}})]
from_uint32s(w) == bits(w[0], FALSE) \cup {b + Word : b \in bits(w[1], FALSE)}

\* the 16 integers of a cpu_set_t (two of them here)
CpuSetToBytes(s) == [i \in 0..1 |-> BitOr({2^(val % Word) : val \in {v \in s : v \div Word = i}})]
\* inc is computed and not added
CpuSetFromBytes(w) == UNION {bits(w[i], FALSE) : i \in 0..1}

-----------------------------------------------------------------------------
(* Times.  A number of seconds is a float or a Decimal sec + nsec / Nsec.  *)

Timespec(sec, nsec) == [sec |-> sec, nsec |-> nsec]
TimespecFromFloat(value) ==
    CASE value.form \in {"Timespec", "float"} -> Timespec(value.sec, value.nsec)
         \* divmod gives the quotient first: frac is the seconds, i the fraction
      [] value.form = "Decimal" -> Timespec(0, value.sec * Nsec)
TimespecCffi(ts) == [tv_sec |-> ts.sec, tv_nsec |-> ts.nsec]
TimespecFromCffi(c) == Timespec(c.tv_sec, c.tv_nsec)
AsTimespec(ts) == [form |-> "Timespec", sec |-> ts.sec, nsec |-> ts.nsec]

\* both fields are made from interval
Itimerspec(interval, value) ==
    [interval |-> TimespecFromFloat(interval), value |-> TimespecFromFloat(interval)]
ItimerspecToBytes(o) ==
    [it_interval |-> TimespecCffi(o.interval), it_value |-> TimespecCffi(o.value)]
ItimerspecFromBytes(c) ==
    Itimerspec(AsTimespec(TimespecFromCffi(c.it_interval)), AsTimespec(TimespecFromCffi(c.it_value)))

-----------------------------------------------------------------------------
(* Signals and children.                                                   *)

SiginfoToBytes(o) == [si_code |-> o.code, si_pid |-> o.pid, si_uid |-> o.uid, si_status |-> o.status]
SiginfoFromBytes(c) == [code |-> c.si_code, pid |-> c.si_pid, uid |-> c.si_uid, status |-> c.si_status]

\* a handler is IGN, DFL or an address; no restorer is address 0
SigactionToBytes(o) ==
    [ksa_handler |-> CASE o.handler = "DFL" -> 0 [] o.handler = "IGN" -> 1 [] OTHER -> o.address,
     ksa_flags |-> o.flags, ksa_mask |-> SigsetToCffi(o.mask), ksa_restorer |-> o.restorer]
SigactionFromBytes(c) ==
    [handler |-> CASE c.ksa_handler = 0 -> "DFL" [] c.ksa_handler = 1 -> "IGN" [] OTHER -> "Address",
     address |-> IF c.ksa_handler \in {0, 1} THEN 0 ELSE c.ksa_handler,
     flags |-> c.ksa_flags, mask |-> SigsetFromCffi(c.ksa_mask), restorer |-> c.ksa_restorer]

\* ChildState.make
ChildState(o) == [code |-> o.code, exit_status |-> IF o.code = "EXITED" THEN o.status ELSE None,
                  sig |-> IF o.code = "EXITED" THEN None ELSE o.status]
state(cs) == CASE cs.code \in {"EXITED", "KILLED", "DUMPED"} -> "EXITED"
               [] cs.code \in {"STOPPED", "TRAPPED"} -> "STOPPED"
               [] cs.code = "CONTINUED" -> "CONTINUED"
died(cs) == cs.code \in {"EXITED", "KILLED", "DUMPED"}
clean(cs) == cs.code = "EXITED" /\ cs.exit_status = "s0"
\* the signal, or that killed_with raises
killed_with(cs) == IF ~died(cs) \/ cs.sig = None THEN "raises" ELSE cs.sig

-----------------------------------------------------------------------------
(* Files, limits, descriptors.                                             *)

\* type and permission bits are disjoint parts of the mode: S_IF.MT masks the type
TypeModeInt(m) == m.type * Byte + m.mode
from_int(n) == [type |-> n \div Byte, mode |-> n - (n \div Byte) * Byte]
StatToBytes(o) ==
    [st_ino |-> o.ino, st_mode |-> TypeModeInt(o.mode), st_size |-> o.size,
     st_atim |-> TimespecCffi(o.atime), st_mtim |-> TimespecCffi(o.mtime)]
\* mode stays an integer; the other integer fields are copied as ino and size are
StatFromBytes(c) ==
    [ino |-> c.st_ino, mode |-> [int |-> c.st_mode], size |-> c.st_size,
     atime |-> TimespecFromCffi(c.st_atim), mtime |-> TimespecFromCffi(c.st_mtim)]

CapHeaderToBytes(o) == [version |-> 3, pid |-> o.pid]
CapHeaderFromBytes(c) == [pid |-> c.pid]
CapSets == {"effective", "permitted", "inheritable"}
CapDataToBytes(o) == [i \in 0..1 |-> [name \in CapSets |-> to_uint32s(o[name])[i]]]
CapDataFromBytes(c) == [name \in CapSets |-> from_uint32s([i \in 0..1 |-> c[i][name]])]

RlimitToBytes(o) == [rlim_cur |-> o.cur, rlim_max |-> o.max]
RlimitFromBytes(c) == [cur |-> c.rlim_cur, max |-> c.rlim_max]
EpollEventToBytes(o) == [events |-> o.events, u64 |-> o.data]
EpollEventFromBytes(c) == [data |-> c.u64, events |-> c.events]
SignalfdSiginfoToBytes(o) == [ssi_signo |-> o.signo]
SignalfdSiginfoFromBytes(c) == [signo |-> c.ssi_signo]
\* from_bytes of a pair makes a handle for each fd it finds
PipeToBytes(o) == [first |-> o.read, second |-> o.write]
PipeFromBytes(c) == [read |-> c.first, write |-> c.second]
SocketpairToBytes(o) == [first |-> o.first, second |-> o.second]
SocketpairFromBytes(c) == [first |-> c.first, second |-> c.second]
Int32ToBytes(o) == [val |-> o]
Int32FromBytes(c) == c.val

-----------------------------------------------------------------------------
(* Addresses: host order in the object, network order in memory.           *)

htons(n) == (n % Byte) * Byte + n \div Byte
SockaddrInToBytes(o) == [sin_family |-> "INET", sin_port |-> htons(o.port), s_addr |-> htons(o.addr)]
SockaddrInFromBytes(c) == [port |-> htons(c.sin_port), addr |-> htons(c.s_addr)]
SockaddrIn6ToBytes(o) ==
    [sin6_family |-> "INET6", sin6_port |-> htons(o.port), sin6_flowinfo |-> o.flowinfo,
     s6_addr |-> o.addr, sin6_scope_id |-> o.scope_id]
SockaddrIn6FromBytes(c) ==
    [port |-> htons(c.sin6_port), addr |-> c.s6_addr, flowinfo |-> c.sin6_flowinfo,
     scope_id |-> c.sin6_scope_id]

-----------------------------------------------------------------------------

ToBytes(k, o) ==
    CASE k = "Sigset" -> SigsetToCffi(o)       [] k = "CpuSet" -> CpuSetToBytes(o)
      [] k = "Timespec" -> TimespecCffi(o)     [] k = "Itimerspec" -> ItimerspecToBytes(o)
      [] k = "Siginfo" -> SiginfoToBytes(o)    [] k = "Sigaction" -> SigactionToBytes(o)
      [] k = "Stat" -> StatToBytes(o)          [] k = "CapHeader" -> CapHeaderToBytes(o)
      [] k = "CapData" -> CapDataToBytes(o)    [] k = "Rlimit" -> RlimitToBytes(o)
      [] k = "EpollEvent" -> EpollEventToBytes(o) [] k = "SignalfdSiginfo" -> SignalfdSiginfoToBytes(o)
      [] k = "Pipe" -> PipeToBytes(o)          [] k = "Socketpair" -> SocketpairToBytes(o)
      [] k = "Int32" -> Int32ToBytes(o)        [] k = "SockaddrIn" -> SockaddrInToBytes(o)
      [] k = "SockaddrIn6" -> SockaddrIn6ToBytes(o)
FromBytes(k, c) ==
    CASE k = "Sigset" -> SigsetFromCffi(c)     [] k = "CpuSet" -> CpuSetFromBytes(c)
      [] k = "Timespec" -> TimespecFromCffi(c) [] k = "Itimerspec" -> ItimerspecFromBytes(c)
      [] k = "Siginfo" -> SiginfoFromBytes(c)  [] k = "Sigaction" -> SigactionFromBytes(c)
      [] k = "Stat" -> StatFromBytes(c)        [] k = "CapHeader" -> CapHeaderFromBytes(c)
      [] k = "CapData" -> CapDataFromBytes(c)  [] k = "Rlimit" -> RlimitFromBytes(c)
      [] k = "EpollEvent" -> EpollEventFromBytes(c) [] k = "SignalfdSiginfo" -> SignalfdSiginfoFromBytes(c)
      [] k = "Pipe" -> PipeFromBytes(c)        [] k = "Socketpair" -> SocketpairFromBytes(c)
      [] k = "Int32" -> Int32FromBytes(c)      [] k = "SockaddrIn" -> SockaddrInFromBytes(c)
      [] k = "SockaddrIn6" -> SockaddrIn6FromBytes(c)

\* what is asked of the constructor; only times are not kept as they are
Make(k, a) == CASE k = "Timespec" -> TimespecFromFloat(a)
                [] k = "Itimerspec" -> Itimerspec(a.interval, a.value)
                [] OTHER -> a

Small == 0..2
Numbers(forms) == [form : forms, sec : Small, nsec : 0..(Nsec - 1)]
Times == {Timespec(s, n) : s \in 0..1, n \in {0, Nsec - 1}}
Codes == {"EXITED", "KILLED", "DUMPED", "STOPPED", "TRAPPED", "CONTINUED"}
Cpus == 0..(2 * Word - 1)
Ports == 0..(Byte * Byte - 1)
Arguments(k) ==
    CASE k = "Sigset" -> SUBSET (1..Word)
      [] k = "CpuSet" -> SUBSET Cpus
      [] k = "Timespec" -> Numbers({"float", "Decimal", "Timespec"})
      [] k = "Itimerspec" -> [interval : Numbers({"Timespec"}), value : Numbers({"Timespec"})]
      [] k = "Siginfo" -> [code : Codes, pid : {"p"}, uid : {"u"}, status : {"s0", "s1"}]
      [] k = "Sigaction" -> {a \in [handler : {"DFL", "IGN", "Address"}, address : {0, 7}, flags : {0, 1},
                                    mask : SUBSET (1..Word), restorer : {0, 8}] :
                                a.handler = "Address" <=> a.address = 7}
      [] k = "Stat" -> [ino : Small, mode : [type : 1..2, mode : 0..(Byte - 1)], size : Small,
                        atime : Times, mtime : Times]
      [] k = "CapHeader" -> [pid : Small]
      [] k = "CapData" -> [CapSets -> SUBSET {0, Word - 1, Word, 2 * Word - 1}]
      [] k = "Rlimit" -> [cur : Small, max : Small]
      [] k = "EpollEvent" -> [data : Small, events : Small]
      [] k = "SignalfdSiginfo" -> [signo : 1..Word]
      [] k = "Pipe" -> [read : Small, write : Small]
      [] k = "Socketpair" -> [first : Small, second : Small]
      [] k = "Int32" -> Small
      [] k = "SockaddrIn" -> [port : Ports, addr : Ports]
      [] k = "SockaddrIn6" -> [port : Ports, addr : Small, flowinfo : Small, scope_id : Small]

-----------------------------------------------------------------------------

Init == kind = None /\ asked = None /\ obj = None /\ mem = None /\ back = None /\ step = "new"

\* the constructor of the class
Construct(k, a) ==
    /\ step = "new" /\ step' = "made" /\ kind' = k /\ asked' = a /\ obj' = Make(k, a)
    /\ UNCHANGED <<mem, back>>
\* WrittenPointer: to_bytes, and the write of the bytes
Write ==
    /\ step = "made" /\ step' = "written" /\ mem' = ToBytes(kind, obj)
    /\ UNCHANGED <<kind, asked, obj, back>>
\* ReadablePointer.read: the bytes, and from_bytes
Read ==
    /\ step = "written" /\ step' = "read" /\ back' = FromBytes(kind, mem)
    /\ UNCHANGED <<kind, asked, obj, mem>>

Next == (\E k \in Kinds : \E a \in Arguments(k) : Construct(k, a)) \/ Write \/ Read

Spec == Init /\ [][Next]_vars

-----------------------------------------------------------------------------

\* An object that is written and read back is the object again, for every struct.
RoundTrip == step = "read" => back = obj

\* The kernel's meaning of the structs that are not a plain copy of fields (external).
KernelFinds ==
    CASE kind = "Sigset" -> {s \in 1..Word : (mem \div 2^(s - 1)) % 2 = 1} = asked
      [] kind = "CpuSet" -> {c \in Cpus : (mem[c \div Word] \div 2^(c % Word)) % 2 = 1} = asked
      [] kind = "CapData" -> \A n \in CapSets :
             {c \in Cpus : (mem[c \div Word][n] \div 2^(c % Word)) % 2 = 1} = asked[n]
      [] kind = "SockaddrIn" -> mem.sin_port \div Byte = asked.port % Byte
      [] kind = "SockaddrIn6" -> mem.sin6_port \div Byte = asked.port % Byte
      [] kind = "Timespec" -> mem = [tv_sec |-> asked.sec, tv_nsec |-> asked.nsec]
      [] kind = "Itimerspec" -> /\ mem.it_interval.tv_sec = asked.interval.sec
                                /\ mem.it_value = [tv_sec |-> asked.value.sec, tv_nsec |-> asked.value.nsec]
      [] kind = "Stat" -> from_int(mem.st_mode) = asked.mode
      [] OTHER -> TRUE
\* What the kernel finds in memory is what the constructor was asked for: the signals,
\* capabilities and CPUs of a set, ports in network order, times.
KernelGetsAsked == step = "written" => KernelFinds

\* The child states made from a siginfo fall into exactly one of the categories of
\* waitid; died is the category EXITED; a clean exit is a death without a signal, and
\* killed_with gives a signal exactly for the deaths that are not exits.
StatesAgree ==
    step = "read" /\ kind = "Siginfo" =>
        LET cs == ChildState(back)
        IN /\ died(cs) <=> state(cs) = "EXITED"
           /\ (cs.exit_status = None) # (cs.sig = None)
           /\ clean(cs) => died(cs) /\ killed_with(cs) = "raises"
           /\ (killed_with(cs) # "raises") <=> (died(cs) /\ asked.code # "EXITED")
           /\ asked.pid = back.pid
=============================================================================
