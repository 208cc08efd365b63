------------------------------ MODULE MCMemory ------------------------------
(***************************************************************************)
(* Whose memory it is and what it holds, for TLC: the allocator, typed     *)
(* pointers, batches, and the transport that copies memory over a socket.  *)
(* The components stand side by side, and in a behaviour one of them runs; *)
(* where one is checked with several values of its constants, its          *)
(* instances have the same variables.                                      *)
(***************************************************************************)
EXTENDS Naturals, Sequences, TLC

CONSTANTS Coroutines,
          solo,                       \* a coroutine, and a value
          Values,                     \* what is written to memory
          Size, MaxPtrs, Alignment,   \* of the memory that pointers are for
          MaxBytes, MaxTransfers      \* of the socket transport

VARIABLES
    running,
    arenas, requests, run, held, siblings, answer,
    ptrs, allocs, mem, ops, trouble,
    program, pass, i, batch_ptrs, batch_requests, prefilled, writes, allocated, memory,
    procs, count, toRemote, toLocal, wire, remote, written, results, wrong

allocator == <<arenas, requests, run, held, siblings, answer>>
pointers  == <<ptrs, allocs, mem, ops, trouble>>
batch     == <<program, pass, i, batch_ptrs, batch_requests, prefilled, writes, allocated, memory>>
transport == <<procs, count, toRemote, toLocal, wire, remote, written, results, wrong>>
vars      == <<running, allocator, pointers, batch, transport>>

\* <<size, alignment>> of allocations
Small == <<1, 1>>
Aligned == <<2, 2>>

Owners == INSTANCE Allocator
            WITH Clients <- Coroutines, Batches <- {<<Small>>, <<Small, Aligned>>}, PageSize <- 4,
                 MaxAllocs <- 3, MaxArenas <- 2, MaxQueue <- 2, SplitSizes <- {1}, Faults <- {}
Mmap   == INSTANCE Allocator
            WITH Clients <- {solo}, Batches <- {<<>>, <<<<0, 1>>>>, <<Aligned, Small>>}, PageSize <- 4,
                 MaxAllocs <- 3, MaxArenas <- 2, MaxQueue <- 1, SplitSizes <- {0},
                 Faults <- {"mmap", "cancel"}
Ptr(c) == INSTANCE Pointers
            WITH Procs <- Coroutines, Values <- c.values, Exclusive <- c.exclusive, Ops <- c.ops
\* pointers that nobody but their user touches; and pointers that others free, split and
\* borrow while they are used, but for linear_read.  To ownership "borrow", "keep" and the
\* "read" of what is not linear are the same, and a "keep" that fails is a "borrow".
Kept   == [values |-> Values, exclusive |-> TRUE,
           ops |-> {"write", "read", "linear", "fill", "keep"}]
Shared == [values |-> {solo}, exclusive |-> FALSE,
           ops |-> {"write", "borrow", "fill", "cancel", "end"}]
Alloc == [op : {"malloc", "ptr"}, n : 1..3]
Like == [op : {"like"}, k : {1}]
Halve == [op |-> "split", k |-> 1, n |-> 1]
\* An allocation first, then allocations and writes that may use its size.
Programs == {<<x>> \o p : x \in Alloc, p \in [1..2 -> Alloc \cup Like]}
            \cup {<<x, y, Halve>> : x \in Alloc, y \in Alloc}
Batched == INSTANCE Batch
             WITH Faults <- {"malloc", "write"}, ptrs <- batch_ptrs, requests <- batch_requests
\* The socket has room for all that is written.
Sock == INSTANCE SocketTransport
          WITH Procs <- Coroutines \cup {solo}, Sizes <- 0..MaxBytes, MaxOps <- MaxTransfers,
               Capacity <- MaxBytes * MaxTransfers, Faults <- {}

ASSUME MemoryAssumption ==
    /\ Owners!AllocatorAssumption /\ Mmap!AllocatorAssumption /\ Ptr(Kept)!PointersAssumption
    /\ MaxBytes \in Nat /\ MaxTransfers \in Nat
    /\ Ptr(Shared)!PointersAssumption /\ Batched!BatchAssumption /\ Sock!TransportAssumption

Init == /\ running \in {"owners", "mmap", "kept", "shared", "batch", "transport"}
        /\ running # "mmap" => Owners!Init
        /\ running = "mmap" => Mmap!Init
        /\ Ptr(Kept)!Init /\ Batched!Init /\ Sock!Init
        /\ running # "batch" => program = [n \in 1..3 |-> [op |-> "malloc", n |-> 1]]

Next == \/ running = "owners" /\ Owners!Next /\ UNCHANGED <<running, pointers, batch, transport>>
        \/ running = "mmap" /\ Mmap!Next /\ UNCHANGED <<running, pointers, batch, transport>>
        \/ running = "kept" /\ Ptr(Kept)!Next /\ UNCHANGED <<running, allocator, batch, transport>>
        \/ running = "shared" /\ Ptr(Shared)!Next /\ UNCHANGED <<running, allocator, batch, transport>>
        \/ running = "batch" /\ Batched!Next /\ UNCHANGED <<running, allocator, pointers, transport>>
        \/ running = "transport" /\ Sock!Next /\ UNCHANGED <<running, allocator, pointers, batch>>

Spec == Init /\ [][Next]_vars

\* The coroutines are alike, and so are the values.
Symmetry == Permutations(Coroutines) \cup Permutations(Values)

-----------------------------------------------------------------------------
(***************************************************************************)
(* The allocations of an arena are in order and apart from each other, a   *)
(* new arena has room for the batch it was made for, and what was split    *)
(* can be merged, also after mmap failed and callers were cancelled.       *)
(***************************************************************************)
ArenasOrdered == /\ running = "owners" => /\ Owners!TypeOK /\ Owners!ArenasOrdered
                                          /\ Owners!FreshArenaSuffices
                 /\ running = "mmap" => Mmap!SplitsCanMerge

(***************************************************************************)
(* While nothing fails, every allocation in an arena is owned by one of    *)
(* the callers that asked for it, and each caller has all it was given.    *)
(***************************************************************************)
EveryAllocationOwned == running = "owners" => Owners!EveryAllocationOwned

(***************************************************************************)
(* No byte is in two valid pointers, and memory that is not free is in     *)
(* one: when coroutines keep their hands off pointers that are in use; and *)
(* when they free, split, merge, convert, write and borrow what others     *)
(* use and cancel each other, if none calls linear_read, which does not    *)
(* look whether its pointer is still valid.                                *)
(***************************************************************************)
OneOwner == /\ running = "kept"   => Ptr(Kept)!OneOwner /\ Ptr(Kept)!NoLeak
            /\ running = "shared" => Ptr(Shared)!OneOwner /\ Ptr(Shared)!NoLeak

(***************************************************************************)
(* A WrittenPointer's memory holds its value, and a linear pointer is read *)
(* once, when coroutines keep their hands off pointers that are in use and *)
(* no call is cancelled; but a system call that stores to a WrittenPointer *)
(* and returns it as it is leaves it valid, with the value it had          *)
(* (Pointers).                                                             *)
(***************************************************************************)
WrittenHoldsValue ==
    running = "kept" => Ptr(Kept)!TypeOK /\ Ptr(Kept)!WrittenHoldsValue /\ Ptr(Kept)!LinearReadOnce

(***************************************************************************)
(* perform_batch gives what the same calls would have given one by one,    *)
(* and when it fails no allocation is left.                                *)
(***************************************************************************)
BatchReturnsDirect ==
    running = "batch" => Batched!TypeOK /\ Batched!BatchReturnsDirect /\ Batched!NothingLeaked

(***************************************************************************)
(* Reads and writes of remote memory by several coroutines over one socket *)
(* each move their own bytes.                                              *)
(***************************************************************************)
OwnBytes == running = "transport" => Sock!TypeOK /\ Sock!OwnBytes
=============================================================================
