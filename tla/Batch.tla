--------------------------------- MODULE Batch ---------------------------------
(***************************************************************************)
(* memory/ram.py: perform_batch runs a callable twice, first on a RAM that *)
(* only counts, then on the allocations made in one bulk_malloc, and at    *)
(* last performs all the writes at once.                                   *)
(*                                                                         *)
(* The callable is a program: a sequence of steps on a list of pointers,   *)
(* each of which is the number of its bytes and, from the second pass on,  *)
(* what it holds.  Steps: "malloc" n bytes, "ptr" for a value of n bytes,  *)
(* "split" pointer k at n, "like": malloc as many bytes as pointer k has.  *)
(* A program never looks at addresses.                                     *)
(***************************************************************************)
EXTENDS Naturals, Sequences, FiniteSets

CONSTANTS
    Programs,         \* the callables
    Faults            \* what may fail

BatchAssumption ==
    /\ \A p \in Programs : p \in Seq([op : {"malloc", "ptr"}, n : Nat]
                                     \cup [op : {"split"}, k : Nat, n : Nat]
                                     \cup [op : {"like"}, k : Nat])
    /\ Faults \subseteq {"malloc", "write"}

VARIABLES
    program,          \* the callable
    pass,             \* where perform_batch is
    i,                \* the step of the callable to perform next
    ptrs,             \* the pointers the callable has in this pass
    requests,         \* LaterAllocator.allocations: the sizes
    prefilled,        \* PrefilledAllocator.allocations: ids and sizes
    writes,           \* BatchWriteSemantics.writes not performed yet
    allocated,        \* allocations in the arena
    memory            \* what each allocation holds

vars == <<program, pass, i, ptrs, requests, prefilled, writes, allocated, memory>>

Init ==
    /\ program \in Programs
    /\ pass = "first" /\ i = 1
    /\ ptrs = << >> /\ requests = << >> /\ prefilled = << >> /\ writes = {}
    /\ allocated = {} /\ memory = << >>

Step == program[i]

\* A pointer to bytes [from, from + size) of an allocation (0: a null pointer).
Ptr(id, from, size) == [id |-> id, from |-> from, size |-> size]

\* The number of bytes a step allocates, if it does.
Request(step, list) == IF step.op = "like" THEN list[step.k].size ELSE step.n

(***************************************************************************)
(* split of a NullAllocation and of an Allocation: the sizes of the halves *)
(* are swapped in the former.                                              *)
(***************************************************************************)
Halves(p, n) ==
    IF p.id = 0 THEN <<Ptr(0, 0, p.size - n), Ptr(0, 0, n)>>
    ELSE <<Ptr(p.id, p.from, n), Ptr(p.id, p.from + n, p.size - n)>>

SplitInto(list, k, halves) ==
    SubSeq(list, 1, k - 1) \o halves \o SubSeq(list, k + 1, Len(list))

SplitStep ==
    /\ pass \in {"first", "second"} /\ i <= Len(program) /\ Step.op = "split"
    /\ ptrs' = SplitInto(ptrs, Step.k, Halves(ptrs[Step.k], Step.n))
    /\ i' = i + 1
    /\ UNCHANGED <<program, pass, requests, prefilled, writes, allocated, memory>>

\* The first pass: LaterAllocator.malloc, and writes that do nothing.
FirstPass ==
    /\ pass = "first" /\ i <= Len(program) /\ Step.op # "split"
    /\ requests' = Append(requests, Request(Step, ptrs))
    /\ ptrs' = Append(ptrs, Ptr(0, 0, Request(Step, ptrs)))
    /\ i' = i + 1
    /\ UNCHANGED <<program, pass, prefilled, writes, allocated, memory>>

\* The first pass is over: its pointers are dropped, the memory is allocated.
BulkMalloc ==
    /\ pass = "first" /\ i > Len(program)
    /\ \/ /\ prefilled' = [k \in 1..Len(requests) |-> [id |-> k, size |-> requests[k]]]
          /\ memory' = [k \in 1..Len(requests) |-> 0]
          /\ allocated' = 1..Len(requests)
          /\ pass' = "second"
       \/ /\ "malloc" \in Faults /\ pass' = "raised"
          /\ UNCHANGED <<prefilled, memory, allocated>>
    /\ i' = 1 /\ ptrs' = << >>
    /\ UNCHANGED <<program, requests, writes>>

(***************************************************************************)
(* The second pass: PrefilledAllocator.malloc takes the next allocation    *)
(* and refuses it if its size differs; ptr remembers the write.  When the  *)
(* callable raises, its pointers are dropped and free their allocations,   *)
(* but those still prefilled, and the one refused, have no pointer.        *)
(***************************************************************************)
SecondPass ==
    LET next == Head(prefilled)  size == Request(Step, ptrs) IN
    /\ pass = "second" /\ i <= Len(program) /\ Step.op # "split"
    /\ prefilled # << >>
    /\ prefilled' = Tail(prefilled)
    /\ IF next.size = size
       THEN /\ ptrs' = Append(ptrs, Ptr(next.id, 0, size))
            /\ writes' = IF Step.op = "ptr" THEN writes \cup {[id |-> next.id, step |-> i]}
                         ELSE writes
            /\ i' = i + 1
            /\ UNCHANGED <<pass, allocated>>
       ELSE /\ pass' = "nondeterministic"
            /\ allocated' = allocated \ {p.id : p \in {ptrs[k] : k \in 1..Len(ptrs)}}
            /\ UNCHANGED <<i, ptrs, writes>>
    /\ UNCHANGED <<program, requests, memory>>

\* run_all starts every write; they end in any order.
Writes ==
    /\ pass = "second" /\ i > Len(program)
    /\ pass' = "writes"
    /\ UNCHANGED <<program, i, ptrs, requests, prefilled, writes, allocated, memory>>

WriteReturns ==
    /\ pass = "writes"
    /\ \E w \in writes :
         /\ memory' = [memory EXCEPT ![w.id] = w.step]
         /\ writes' = writes \ {w}
    /\ UNCHANGED <<program, pass, i, ptrs, requests, prefilled, allocated>>

\* A write raises: the pointers are dropped and free their allocations.
WriteFails ==
    /\ pass = "writes" /\ "write" \in Faults /\ writes # {}
    /\ pass' = "raised" /\ allocated' = {} /\ writes' = {}
    /\ UNCHANGED <<program, i, ptrs, requests, prefilled, memory>>

\* Mutant of Done: it does not wait for the writes.
DoneEarly ==
    /\ pass = "writes"
    /\ pass' = "done" /\ writes' = {}
    /\ UNCHANGED <<program, i, ptrs, requests, prefilled, allocated, memory>>

Done ==
    /\ pass = "writes" /\ writes = {}
    /\ pass' = "done"
    /\ UNCHANGED <<program, i, ptrs, requests, prefilled, writes, allocated, memory>>

\* perform_batch has ended; it is called for the next callable.
Again ==
    /\ pass \in {"done", "raised", "nondeterministic"}
    /\ program' \in Programs
    /\ pass' = "first" /\ i' = 1
    /\ ptrs' = << >> /\ requests' = << >> /\ prefilled' = << >> /\ writes' = {}
    /\ allocated' = {} /\ memory' = << >>

Next == FirstPass \/ SplitStep \/ BulkMalloc \/ SecondPass \/ Writes \/ WriteReturns
        \/ WriteFails \/ Done \/ Again

Spec == Init /\ [][Next]_vars

-----------------------------------------------------------------------------
(* Properties *)

(***************************************************************************)
(* What the callable would get from a RAM without batching: for each       *)
(* pointer its size and the step whose value it holds, by running it once. *)
(***************************************************************************)
Direct(p) ==
    LET run[k \in 0..Len(p)] ==
          IF k = 0 THEN << >>
          ELSE LET list == run[k - 1]  s == p[k] IN
               CASE s.op = "split" ->
                      SplitInto(list, s.k, <<[size |-> s.n, holds |-> list[s.k].holds],
                                             [size |-> list[s.k].size - s.n,
                                              holds |-> list[s.k].holds]>>)
                 [] OTHER -> Append(list, [size |-> Request(s, list),
                                           holds |-> IF s.op = "ptr" THEN k ELSE 0])
    IN  run[Len(p)]

\* Every variable has a value the code can give it.
TypeOK ==
    /\ program \in Programs
    /\ pass \in {"first", "second", "writes", "done", "raised", "nondeterministic"}
    /\ i \in 1..(Len(program) + 1)
    /\ requests \in Seq(Nat) /\ prefilled \in Seq([id : Nat, size : Nat])
    /\ \A w \in writes : w.id \in allocated

(***************************************************************************)
(* "we'll magically batch its operations together and return what it       *)
(* returns": the pointers returned are those of a plain run, with their    *)
(* values written.                                                         *)
(***************************************************************************)
BatchReturnsDirect ==
    pass = "done" =>
        [k \in 1..Len(ptrs) |-> [size |-> ptrs[k].size, holds |-> memory[ptrs[k].id]]]
            = Direct(program)

\* A batch that raises leaves no allocation in the arena.
NothingLeaked == pass \in {"raised", "nondeterministic"} => allocated = {}

\* A callable that never looks at addresses is deterministic.
NotCalledNondeterministic == pass # "nondeterministic"
=============================================================================
