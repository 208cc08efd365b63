-------------------------------- MODULE Pointers --------------------------------
(***************************************************************************)
(* handle/pointer.py: pointers as owning handles of allocations.  Most     *)
(* methods consume the pointer they are called on and return a new one;    *)
(* write, read and system calls on borrowed pointers await in between, and *)
(* other coroutines go on meanwhile.  A system call may store to the       *)
(* memory it is given; most such calls consume the pointer when they       *)
(* return, and some return it as it is.                                    *)
(*                                                                         *)
(* Memory is a few bytes, each holding the value last written to it; a     *)
(* value is one byte long.  An allocation is the pair of its bounds; that  *)
(* live ones are disjoint is shown in module Allocator, and those of no    *)
(* bytes are left out.                                                     *)
(***************************************************************************)
EXTENDS Naturals, FiniteSets

CONSTANTS
    Procs,            \* coroutines
    Values,           \* what they write
    Size,             \* bytes of memory
    MaxPtrs,          \* bound: pointer objects at a time
    Alignment,        \* the alignment write_to_end asks for
    Exclusive,        \* coroutines keep their hands off pointers others use
    Ops               \* what the coroutines of this run do

PointersAssumption ==
    /\ Size \in Nat /\ MaxPtrs \in Nat /\ Alignment \in Nat \ {0}
    /\ Exclusive \in BOOLEAN
    /\ Ops \subseteq {"write", "read", "linear", "borrow", "fill", "keep", "cancel", "end"}

Slots == 1..MaxPtrs
Bytes == 0..(Size - 1)
None == [kind |-> "none"]
Unwritten == "unwritten"

VARIABLES
    ptrs,             \* the pointer objects
    allocs,           \* the allocations that are not freed
    mem,              \* the bytes
    ops,              \* the method each coroutine awaits
    trouble           \* what happened that should not

vars == <<ptrs, allocs, mem, ops, trouble>>

Idle == [pc |-> "idle"]

Init ==
    /\ ptrs = [p \in Slots |-> None] /\ allocs = {}
    /\ mem = [b \in Bytes |-> Unwritten]
    /\ ops = [c \in Procs |-> Idle]
    /\ trouble = {}

-----------------------------------------------------------------------------
Pointer(kind, a) == [kind |-> kind, alloc |-> a, valid |-> TRUE]
\* stale: whether a system call has stored something else since.
Written(a, v) == [kind |-> "written", alloc |-> a, valid |-> TRUE, value |-> v, stale |-> FALSE]
\* got: whether read has returned its value.
Linear(a) == [kind |-> "linear", alloc |-> a, valid |-> TRUE,
              been_read |-> FALSE, got |-> FALSE]

Exists(p) == ptrs[p] # None
Valid(p) == Exists(p) /\ ptrs[p].valid
Live(a) == a \in allocs
InUse(p) == \E c \in Procs : ops[c].pc # "idle" /\ ops[c].ptr = p

\* A pointer whose allocation is freed raises UseAfterFreeError, as an invalid one.
Usable(p) == Valid(p) /\ Live(ptrs[p].alloc)

\* A coroutine that keeps to the discipline uses a pointer nobody else uses.
May(p) == Exclusive => ~InUse(p)

SizeOf(p) == ptrs[p].alloc[2] - ptrs[p].alloc[1]
Near(p) == ptrs[p].alloc[1]

\* New pointers and coroutines; an invalid pointer that nobody uses is garbage.
Set(newPtrs, newOps) ==
    /\ ops' = newOps
    /\ ptrs' = [p \in Slots |->
                  IF /\ newPtrs[p] # None /\ ~newPtrs[p].valid
                     /\ \A c \in Procs : newOps[c].pc # "idle" => newOps[c].ptr # p
                  THEN None ELSE newPtrs[p]]

FreeSlots == {p \in Slots : ~Exists(p)}
Nth(S, n) == CHOOSE x \in S : Cardinality({y \in S : y < x}) = n - 1

Disjoint(start, end) == \A a \in allocs : a[2] <= start \/ end <= a[1]

\* A fresh pointer, from the allocator.
Malloc(start, end) ==
    /\ start < end /\ Disjoint(start, end)
    /\ FreeSlots # {}
    /\ allocs' = allocs \cup {<<start, end>>}
    /\ Set([ptrs EXCEPT ![Nth(FreeSlots, 1)] = Pointer("plain", <<start, end>>)], ops)
    /\ UNCHANGED <<mem, trouble>>

-----------------------------------------------------------------------------
(* Methods that do not await *)

\* The pointer is invalidated and another takes over its allocation.
Consume(p, new) == [ptrs EXCEPT ![p].valid = FALSE, ![Nth(FreeSlots, 1)] = new]

\* _reinterpret, _readable and unsafe, _linearize, and _with_mapping, which
\* keeps the kind and the value, and starts a LinearPointer afresh.
Readable(p) == Consume(p, Pointer("readable", ptrs[p].alloc))
Reinterpret(p) == Consume(p, Pointer("plain", ptrs[p].alloc))
Linearize(p) == Consume(p, Linear(ptrs[p].alloc))
WithMapping(p) ==
    Consume(p, IF ptrs[p].kind = "linear" THEN Linear(ptrs[p].alloc) ELSE ptrs[p])

Convert(p) ==
    /\ Usable(p) /\ May(p) /\ FreeSlots # {}
    /\ \/ Set(Readable(p), ops)
       \/ Set(Reinterpret(p), ops)
       \/ "linear" \in Ops /\ Set(Linearize(p), ops)
       \/ Set(WithMapping(p), ops)
    /\ UNCHANGED <<allocs, mem, trouble>>

\* free, also called by __del__; a second free does nothing.
Free(p) ==
    /\ Valid(p) /\ May(p)
    /\ Set([ptrs EXCEPT ![p].valid = FALSE], ops)
    /\ allocs' = allocs \ {ptrs[p].alloc}
    /\ UNCHANGED <<mem, trouble>>

\* The two halves of a split, as plain pointers.
SplitAt(p, size) ==
    LET a == ptrs[p].alloc  left == <<a[1], a[1] + size>>  right == <<a[1] + size, a[2]>> IN
    /\ Cardinality(FreeSlots) > 1
    /\ allocs' = (allocs \ {a}) \cup {left, right}
    /\ Set([ptrs EXCEPT ![p].valid = FALSE,
                         ![Nth(FreeSlots, 1)] = Pointer("plain", left),
                         ![Nth(FreeSlots, 2)] = Pointer("plain", right)], ops)

Split(p, size) ==
    /\ Usable(p) /\ May(p) /\ size \in 1..(SizeOf(p) - 1)
    /\ SplitAt(p, size)
    /\ UNCHANGED <<mem, trouble>>

\* A right part of size bytes and the padding that should align it.
ExtraToRemove(p, size) == (Near(p) + size) % Alignment

SplitFromEnd(p, size) ==
    /\ "end" \in Ops /\ Usable(p) /\ May(p)
    /\ size + ExtraToRemove(p, size) \in 1..(SizeOf(p) - 1)
    /\ LET at == SizeOf(p) - size - ExtraToRemove(p, size) IN
       /\ SplitAt(p, at)
       /\ trouble' = IF (Near(p) + at) % Alignment = 0 THEN trouble
                     ELSE trouble \cup {"misaligned"}
    /\ UNCHANGED mem

\* merge, of two neighbours.
Merge(p, q) ==
    LET a == ptrs[p].alloc  b == ptrs[q].alloc IN
    /\ p # q /\ Usable(p) /\ Usable(q) /\ May(p) /\ May(q)
    /\ a # b /\ a[2] = b[1]
    /\ FreeSlots # {}
    /\ allocs' = (allocs \ {a, b}) \cup {<<a[1], b[2]>>}
    /\ Set([ptrs EXCEPT ![p].valid = FALSE, ![q].valid = FALSE,
                         ![Nth(FreeSlots, 1)] = Pointer("plain", <<a[1], b[2]>>)], ops)
    /\ UNCHANGED <<mem, trouble>>

-----------------------------------------------------------------------------
(* Methods that await *)

Await(c, op) == Set(ptrs, [ops EXCEPT ![c] = op])
Return(c, newPtrs) == Set(newPtrs, [ops EXCEPT ![c] = Idle])

\* write: the address is taken and the bytes are on their way.
Write(c, p, v) ==
    /\ "write" \in Ops /\ ops[c] = Idle /\ Usable(p) /\ May(p) /\ SizeOf(p) >= 1
    /\ Await(c, [pc |-> "write", ptr |-> p, near |-> Near(p), value |-> v, done |-> FALSE])
    /\ UNCHANGED <<allocs, mem, trouble>>

\* A system call that will store v.  "fill": it consumes the pointer, as those that read
\* or receive into a buffer do.  "keep": it does not, as getsockopt, getsockname,
\* getpeername and accept on a Sockbuf, fstat, timerfd_gettime, sched_getaffinity...
Fill(c, p, v, pc) ==
    /\ pc \in Ops /\ ops[c] = Idle /\ Usable(p) /\ May(p) /\ SizeOf(p) >= 1
    /\ Await(c, [pc |-> pc, ptr |-> p, near |-> Near(p), value |-> v, done |-> FALSE])
    /\ UNCHANGED <<allocs, mem, trouble>>

\* The bytes arrive; or the kernel stores them.
Store(c) ==
    /\ ops[c].pc \in {"write", "fill", "keep"} /\ ~ops[c].done
    /\ mem' = [mem EXCEPT ![ops[c].near] = ops[c].value]
    /\ Await(c, [ops[c] EXCEPT !.done = TRUE])
    /\ UNCHANGED <<allocs, trouble>>

\* Mutant of Wrote: it does not look whether the pointer is still valid.
WroteUnchecked(c) ==
    LET p == ops[c].ptr IN
    /\ ops[c].pc = "write" /\ ops[c].done /\ FreeSlots # {}
    /\ Return(c, Consume(p, Written(ptrs[p].alloc, ops[c].value)))
    /\ UNCHANGED <<allocs, mem, trouble>>

\* Mutant of Wrote: it does not wait for the bytes to be written.
WroteEarly(c) ==
    LET p == ops[c].ptr IN
    /\ ops[c].pc = "write" /\ FreeSlots # {}
    /\ Return(c, IF ptrs[p].valid THEN Consume(p, Written(ptrs[p].alloc, ops[c].value))
                                  ELSE ptrs)
    /\ UNCHANGED <<allocs, mem, trouble>>

\* _wrote, which raises if somebody consumed the pointer meanwhile.
Wrote(c) ==
    LET p == ops[c].ptr IN
    /\ ops[c].pc = "write" /\ ops[c].done /\ FreeSlots # {}
    /\ Return(c, IF ptrs[p].valid THEN Consume(p, Written(ptrs[p].alloc, ops[c].value))
                                  ELSE ptrs)
    /\ UNCHANGED <<allocs, mem, trouble>>

\* A WrittenPointer keeps its value, whatever a system call has stored.
Overwritten(p) == IF ptrs[p].kind = "written" THEN [ptrs[p] EXCEPT !.stale = TRUE] ELSE ptrs[p]

\* The system call failed and stored nothing; or the buffer it filled becomes readable,
\* which raises if somebody consumed it meanwhile (that the rest of the buffer is split
\* off is Split's); or the pointer is returned as it is.
Filled(c) ==
    LET p == ops[c].ptr IN
    /\ \/ ops[c].pc \in {"fill", "keep"} /\ ~ops[c].done /\ Return(c, ptrs)
       \/ /\ ops[c].pc = "fill" /\ ops[c].done /\ FreeSlots # {}
          /\ Return(c, IF ptrs[p].valid THEN Readable(p) ELSE ptrs)
       \/ /\ ops[c].pc = "keep" /\ ops[c].done
          /\ Return(c, [ptrs EXCEPT ![p] = Overwritten(p)])
    /\ UNCHANGED <<allocs, mem, trouble>>

\* read, and a system call that borrows the pointer and only reads the memory.
Use(c, p, pc) ==
    /\ ops[c] = Idle /\ Usable(p) /\ May(p)
    /\ pc \in Ops /\ (ptrs[p].kind = "linear" /\ pc # "borrow" => ~ptrs[p].been_read)
    /\ pc = "linear" => ptrs[p].kind = "linear"
    /\ Await(c, [pc |-> pc, ptr |-> p, near |-> Near(p)])
    /\ UNCHANGED <<allocs, mem, trouble>>

\* LinearPointer.read notes only now that the pointer was read.
HasBeenRead(p) ==
    IF ptrs[p].kind = "linear" THEN [ptrs[p] EXCEPT !.been_read = TRUE, !.got = TRUE]
    ELSE ptrs[p]

ReadTwice(p) ==
    trouble' = IF ptrs[p].kind = "linear" /\ ptrs[p].got
               THEN trouble \cup {"read twice"} ELSE trouble

UseReturns(c) ==
    LET p == ops[c].ptr IN
    /\ \/ /\ ops[c].pc = "read" /\ ReadTwice(p)
          /\ Return(c, [ptrs EXCEPT ![p] = HasBeenRead(p)])
       \/ ops[c].pc = "borrow" /\ Return(c, ptrs) /\ UNCHANGED trouble
    /\ UNCHANGED <<allocs, mem>>

\* linear_read returns the buffer as a new pointer.
LinearReadReturns(c) ==
    LET p == ops[c].ptr IN
    /\ ops[c].pc = "linear" /\ FreeSlots # {}
    /\ Return(c, [ptrs EXCEPT ![p] = [HasBeenRead(p) EXCEPT !.valid = FALSE],
                              ![Nth(FreeSlots, 1)] = Pointer("plain", ptrs[p].alloc)])
    /\ ReadTwice(p)
    /\ UNCHANGED <<allocs, mem>>

\* trio cancels the coroutine, or the connection hangs up under its system call; the
\* bytes may have arrived or not.
Cancel(c) ==
    /\ "cancel" \in Ops /\ ops[c] # Idle
    /\ Return(c, ptrs)
    /\ UNCHANGED <<allocs, mem, trouble>>

-----------------------------------------------------------------------------
Next ==
    \/ \E s, e \in 0..Size : Malloc(s, e)
    \/ \E p \in Slots :
          \/ Convert(p)
          \/ Free(p)
          \/ \E size \in 0..Size : Split(p, size) \/ SplitFromEnd(p, size)
          \/ \E q \in Slots : Merge(p, q)
    \/ \E c \in Procs :
          \/ Store(c) \/ Wrote(c) \/ Filled(c)
          \/ UseReturns(c) \/ LinearReadReturns(c) \/ Cancel(c)
          \/ \E p \in Slots :
                \/ \E v \in Values : Write(c, p, v) \/ \E pc \in {"fill", "keep"} : Fill(c, p, v, pc)
                \/ \E pc \in {"read", "linear", "borrow"} : Use(c, p, pc)

Spec == Init /\ [][Next]_vars

-----------------------------------------------------------------------------
(* Properties *)

\* Every variable has a value the code can give it.
TypeOK ==
    /\ \A p \in Slots : Exists(p) =>
         /\ ptrs[p].kind \in {"plain", "readable", "linear", "written"}
         /\ ptrs[p].alloc \in (0..Size) \X (0..Size) /\ ptrs[p].valid \in BOOLEAN
    /\ allocs \subseteq (0..Size) \X (0..Size)
    /\ mem \in [Bytes -> Values \cup {Unwritten}]
    /\ \A c \in Procs : ops[c].pc \in {"idle", "write", "read", "linear", "borrow", "fill", "keep"}
    /\ trouble \subseteq {"misaligned", "read twice"}

(***************************************************************************)
(* A pointer is "an owning handle for an allocation": a valid pointer's    *)
(* allocation is live and no two valid pointers share one.  Address near   *)
(* fails with "someone violated some invariants" otherwise.  It is not so  *)
(* when coroutines share a LinearPointer: linear_read does not look after  *)
(* its await whether the pointer is still valid, and two that overlap both *)
(* make a pointer for the allocation.                                      *)
(***************************************************************************)
OneOwner ==
    \A p \in Slots : Valid(p) =>
        /\ Live(ptrs[p].alloc)
        /\ \A q \in Slots \ {p} : Valid(q) => ptrs[q].alloc # ptrs[p].alloc

\* Memory is not leaked either: a live allocation has a valid pointer.
NoLeak == \A a \in allocs : \E p \in Slots : Valid(p) /\ ptrs[p].alloc = a

(***************************************************************************)
(* A WrittenPointer is "a pointer with some known value written to it",    *)
(* and "anything that writes to a pointer" should invalidate it: between   *)
(* calls the memory of a valid one holds its value.  Two things are left   *)
(* out.  Calls that store to a pointer and return it as it is leave a      *)
(* WrittenPointer valid, as the class's own TODO says (stale).  And Ops    *)
(* has no "cancel" where this is checked, because a write or a system call *)
(* that ends with an exception after its bytes have arrived leaves the old *)
(* pointer valid, too.                                                     *)
(***************************************************************************)
WrittenHoldsValue ==
    \A p \in Slots : Valid(p) /\ ptrs[p].kind = "written" /\ ~ptrs[p].stale /\ ~InUse(p) =>
        mem[Near(p)] = ptrs[p].value

\* A pointer in use is pinned, "so that it can't be moved or deleted".
BorrowPins ==
    \A c \in Procs : ops[c].pc # "idle" =>
        Valid(ops[c].ptr) /\ Live(ptrs[ops[c].ptr].alloc) /\ Near(ops[c].ptr) = ops[c].near

\* A LinearPointer "must be read at most once".
LinearReadOnce == "read twice" \notin trouble

\* split_from_end: "the right pointer is aligned to `alignment`".
EndAligned == "misaligned" \notin trouble
=============================================================================
