------------------------------- MODULE Allocator -------------------------------
(***************************************************************************)
(* memory/allocator.py: arenas, the allocations in them, and the coroutine *)
(* of UnlimitedAllocator that serves one bulk_malloc after the other and   *)
(* awaits mmap when it needs another arena.  Meanwhile the owners of       *)
(* allocations free, split and merge them.                                 *)
(*                                                                         *)
(* An Arena is its length and the list of its Allocations; two Allocations *)
(* with the same bounds are different objects, so each has an id.  Sizes   *)
(* are those of the code scaled down: PageSize stands for 4096.            *)
(***************************************************************************)
EXTENDS Naturals, Sequences, FiniteSets

CONSTANTS
    Clients,          \* the callers of bulk_malloc
    Batches,          \* the lists of <<size, alignment>> they may ask for
    PageSize,         \* the page size, and the largest alignment
    MaxAllocs,        \* bound: allocations that exist at a time
    MaxArenas,        \* bound: arenas
    MaxQueue,         \* bound: requests in the queue
    SplitSizes,       \* the sizes at which allocations are split
    Faults            \* what may go wrong in this run

AllocatorAssumption ==
    /\ \A b \in Batches : b \in Seq(Nat \X (Nat \ {0}))
    /\ PageSize \in Nat \ {0} /\ MaxAllocs \in Nat /\ MaxArenas \in Nat
    /\ MaxQueue \in Nat /\ SplitSizes \subseteq Nat
    /\ Faults \subseteq {"mmap", "cancel"}

Ids == 1..MaxAllocs

VARIABLES
    arenas,           \* UnlimitedAllocator.arenas
    requests,         \* its queue: who waits, for which batch
    run,              \* what _run is doing
    held,             \* the allocations each client owns
    siblings,         \* pairs that came from one split and still exist
    answer            \* what each client's last bulk_malloc did

vars == <<arenas, requests, run, held, siblings, answer>>

Allocation(id, start, end) == [id |-> id, start |-> start, end |-> end]
Arena(length) == [length |-> length, allocations |-> << >>]
Idle == [pc |-> "get_one"]

Init ==
    /\ arenas = << >>
    /\ requests = << >> /\ run = Idle
    /\ held = [c \in Clients |-> {}]
    /\ siblings = {}
    /\ answer = [c \in Clients |-> "none"]

-----------------------------------------------------------------------------
(* Arena and align *)

\* Mutant of align: rounds down.
AlignDown(num, alignment) == num - (num % alignment)

align(num, alignment) ==
    IF num % alignment > 0 THEN num + (alignment - (num % alignment)) ELSE num

\* Where allocate would begin an allocation that it inserts at index i.
NewStart(allocs, i, alignment) ==
    IF i = 1 THEN 0 ELSE align(allocs[i - 1].end, alignment)

Fits(arena, i, size, alignment) ==
    LET allocs == arena.allocations
    IN  NewStart(allocs, i, alignment) + size <=
        IF i <= Len(allocs) THEN allocs[i].start ELSE arena.length

\* The first index at which the allocation fits; empty: OutOfSpaceError.
Places(arena, size, alignment) ==
    {i \in 1..(Len(arena.allocations) + 1) : Fits(arena, i, size, alignment)}

InsertAt(s, i, new) == SubSeq(s, 1, i - 1) \o new \o SubSeq(s, i, Len(s))

allocate(arena, id, size, alignment) ==
    LET places == Places(arena, size, alignment)
        i      == CHOOSE p \in places : \A q \in places : p <= q
        start  == NewStart(arena.allocations, i, alignment)
    IN  [arena EXCEPT !.allocations =
            InsertAt(@, i, <<Allocation(id, start, start + size)>>)]

-----------------------------------------------------------------------------
(* UnlimitedAllocator *)

All(arena) == {arena.allocations[i] : i \in 1..Len(arena.allocations)}
InUse == UNION {{x.id : x \in All(arenas[k])} : k \in 1..Len(arenas)}

\* The n-th unused id, for new objects.
NewId(n) == CHOOSE i \in Ids \ InUse :
                Cardinality({j \in Ids \ InUse : j < i}) = n - 1

(***************************************************************************)
(* The first loop of _bulk_malloc: every arena is tried once, for the      *)
(* first size that has no allocation yet.  done[k] is what it has made of  *)
(* the first k arenas.                                                     *)
(***************************************************************************)
FirstPass(sizes) ==
    LET done[k \in 0..Len(arenas)] ==
          IF k = 0 THEN [arenas |-> << >>, count |-> 0]
          ELSE LET d == done[k - 1]  n == d.count + 1 IN
               IF n <= Len(sizes) /\ Places(arenas[k], sizes[n][1], sizes[n][2]) # {}
               THEN [arenas |-> Append(d.arenas, allocate(arenas[k], NewId(n),
                                                sizes[n][1], sizes[n][2])),
                     count |-> n]
               ELSE [d EXCEPT !.arenas = Append(@, arenas[k])]
    IN  done[Len(arenas)]

\* The second loop: the sizes from n on go to a new arena, as far as they fit.
SecondPass(arena, sizes, n) ==
    LET done[k \in 0..Len(sizes)] ==
          IF k < n THEN [arena |-> arena, count |-> n - 1]
          ELSE LET d == done[k - 1] IN
               IF d.count = k - 1 /\ Places(d.arena, sizes[k][1], sizes[k][2]) # {}
               THEN [arena |-> allocate(d.arena, NewId(k - n + 1),
                                        sizes[k][1], sizes[k][2]),
                     count |-> k]
               ELSE d
    IN  done[Len(sizes)]

\* The bytes that mmap is asked for.
RemainingSize(sizes, n) ==
    LET sum[k \in 0..Len(sizes)] ==
          IF k < n THEN 0 ELSE sum[k - 1] + align(sizes[k][1], sizes[k][2])
    IN  align(sum[Len(sizes)], PageSize)

Room(arenaList, s) ==
    \E k \in 1..Len(arenaList) : Places(arenaList[k], s[1], s[2]) # {}

\* bulk_malloc puts a request on the queue.
BulkMalloc(c, sizes) ==
    /\ answer[c] # "waiting" /\ Len(requests) < MaxQueue
    /\ requests' = Append(requests, [client |-> c, sizes |-> sizes])
    /\ answer' = [answer EXCEPT ![c] = "waiting"]
    /\ UNCHANGED <<arenas, run, held, siblings>>

\* The caller is resumed; if it was cancelled, nobody owns the allocations.
Resume(c, result, ids) ==
    IF answer[c] = "waiting"
    THEN /\ answer' = [answer EXCEPT ![c] = result]
         /\ held' = [held EXCEPT ![c] = @ \cup (IF result = "ok" THEN ids ELSE {})]
    ELSE UNCHANGED <<answer, held>>

(***************************************************************************)
(* _run takes a request, and _bulk_malloc tries the arenas it has.  An     *)
(* empty batch fails (sizes[0]) if there is an arena to try.               *)
(***************************************************************************)
Run ==
    LET req   == Head(requests)  n == Len(req.sizes)
        first == FirstPass(req.sizes)
        ids   == {NewId(k) : k \in 1..first.count}
    IN  /\ run.pc = "get_one" /\ requests # << >>
        /\ Cardinality(InUse) + n <= MaxAllocs
        /\ first.count < n => Len(arenas) < MaxArenas
        /\ requests' = Tail(requests)
        /\ arenas' = first.arenas
        /\ IF n = 0 /\ arenas # << >>
           THEN Resume(req.client, "error", {}) /\ UNCHANGED run
           ELSE IF first.count = n
           THEN Resume(req.client, "ok", ids) /\ UNCHANGED run
           ELSE /\ run' = [pc |-> "mmap", client |-> req.client, sizes |-> req.sizes,
                           next |-> first.count + 1, ids |-> ids,
                           length |-> RemainingSize(req.sizes, first.count + 1),
                           spare |-> Room(first.arenas, req.sizes[first.count + 1])]
                /\ UNCHANGED <<answer, held>>
        /\ UNCHANGED siblings

\* mmap returns: the rest of the batch is allocated in the new arena.
Mmapped ==
    LET second == SecondPass(Arena(run.length), run.sizes, run.next)
        new    == {NewId(k) : k \in 1..(second.count - run.next + 1)}
    IN  /\ run.pc = "mmap"
        /\ Cardinality(InUse) + Len(run.sizes) - run.next + 1 <= MaxAllocs
        /\ arenas' = Append(arenas, second.arena)
        /\ Resume(run.client,
                  IF second.count = Len(run.sizes) THEN "ok" ELSE "internal error",
                  run.ids \cup new)
        /\ run' = Idle
        /\ UNCHANGED <<requests, siblings>>

\* mmap raises, and so does bulk_malloc; what it had allocated stays.
MmapFails ==
    /\ "mmap" \in Faults /\ run.pc = "mmap"
    /\ Resume(run.client, "error", {})
    /\ run' = Idle
    /\ UNCHANGED <<arenas, requests, siblings>>

\* trio cancels a caller; its request is served all the same.
Cancel(c) ==
    /\ "cancel" \in Faults /\ answer[c] = "waiting"
    /\ answer' = [answer EXCEPT ![c] = "cancelled"]
    /\ UNCHANGED <<arenas, requests, run, held, siblings>>

-----------------------------------------------------------------------------
(* Allocation *)

At(k, i) == arenas[k].allocations[i]
Indices(k) == 1..Len(arenas[k].allocations)

Forget(ids) == siblings' = {s \in siblings : s[1] \notin ids /\ s[2] \notin ids}

\* Mutant of Free: the allocation becomes invalid but stays in the list.
FreeStays(c, k, i) ==
    /\ At(k, i).id \in held[c]
    /\ held' = [held EXCEPT ![c] = @ \ {At(k, i).id}]
    /\ Forget({At(k, i).id})
    /\ UNCHANGED <<arenas, requests, run, answer>>

\* free: the allocation leaves its arena's list.
Free(c, k, i) ==
    /\ At(k, i).id \in held[c]
    /\ arenas' = [arenas EXCEPT ![k].allocations =
                    SubSeq(@, 1, i - 1) \o SubSeq(@, i + 1, Len(@))]
    /\ held' = [held EXCEPT ![c] = @ \ {At(k, i).id}]
    /\ Forget({At(k, i).id})
    /\ UNCHANGED <<requests, run, answer>>

\* The list with the count allocations at index i replaced by new ones.
Replaced(k, i, count, new) ==
    [arenas EXCEPT ![k].allocations =
        SubSeq(@, 1, i - 1) \o new \o SubSeq(@, i + count, Len(@))]

\* split: two adjacent allocations in the place of one; the first reuses its id.
Split(c, k, i, size) ==
    LET old == At(k, i)  mid == old.start + size
        one == old.id    two == NewId(1)
    IN  /\ old.id \in held[c] /\ size <= old.end - old.start
        /\ Cardinality(InUse) < MaxAllocs
        /\ arenas' = Replaced(k, i, 1, <<Allocation(one, old.start, mid),
                                         Allocation(two, mid, old.end)>>)
        /\ held' = [held EXCEPT ![c] = @ \cup {two}]
        /\ siblings' = {s \in siblings : old.id \notin {s[1], s[2]}} \cup {<<one, two>>}
        /\ UNCHANGED <<requests, run, answer>>

\* merge checks that the two are adjacent in their bounds and in the list.
CanMerge(k, i, j) == At(k, i).end = At(k, j).start /\ i + 1 = j

Merge(c, k, i, j) ==
    /\ {At(k, i).id, At(k, j).id} \subseteq held[c]
    /\ CanMerge(k, i, j)
    /\ arenas' = Replaced(k, i, 2, <<Allocation(At(k, i).id, At(k, i).start, At(k, j).end)>>)
    /\ held' = [held EXCEPT ![c] = @ \ {At(k, j).id}]
    /\ Forget({At(k, i).id, At(k, j).id})
    /\ UNCHANGED <<requests, run, answer>>

-----------------------------------------------------------------------------
Allocator == Run \/ Mmapped \/ MmapFails

Next ==
    \/ Allocator
    \/ \E c \in Clients, sizes \in Batches : BulkMalloc(c, sizes)
    \/ \E c \in Clients : Cancel(c)
    \/ \E c \in Clients, k \in 1..Len(arenas) : \E i \in Indices(k) :
          \/ Free(c, k, i)
          \/ \E size \in SplitSizes : Split(c, k, i, size)
          \/ \E j \in Indices(k) : Merge(c, k, i, j)

Spec == Init /\ [][Next]_vars

-----------------------------------------------------------------------------
(* Properties *)

\* Every variable has a value the code can give it.
TypeOK ==
    /\ \A k \in 1..Len(arenas) :
         /\ arenas[k].length \in Nat /\ arenas[k].length % PageSize = 0
         /\ \A i \in Indices(k) : At(k, i) \in [id : Ids, start : Nat, end : Nat]
    /\ \A i \in 1..Len(requests) :
         requests[i] \in [client : Clients, sizes : Batches]
    /\ run.pc \in {"get_one", "mmap"}
    /\ held \in [Clients -> SUBSET Ids] /\ siblings \subseteq Ids \X Ids
    /\ answer \in [Clients -> {"none", "waiting", "ok", "error", "internal error",
                               "cancelled"}]

(***************************************************************************)
(* No byte of an arena belongs to two allocations, none lies outside, and  *)
(* the list is in the order of the addresses, on which first fit and merge *)
(* rely.                                                                   *)
(***************************************************************************)
ArenasOrdered ==
    \A k \in 1..Len(arenas) : \A i \in Indices(k) :
        /\ At(k, i).start <= At(k, i).end /\ At(k, i).end <= arenas[k].length
        /\ \A j \in Indices(k) : i < j => At(k, i).end <= At(k, j).start

(***************************************************************************)
(* "they can also be merged back together with merge": whatever else is    *)
(* allocated, freed, split and merged, the two halves of a split stay      *)
(* neighbours.                                                             *)
(***************************************************************************)
SplitsCanMerge ==
    \A s \in siblings : \E k \in 1..Len(arenas) : \E i, j \in Indices(k) :
        At(k, i).id = s[1] /\ At(k, j).id = s[2] /\ CanMerge(k, i, j)

\* Every allocation in an arena has exactly one owner, or is on its way to one.
EveryAllocationOwned ==
    LET coming == IF run.pc = "mmap" THEN run.ids ELSE {} IN
    /\ InUse = coming \cup UNION {held[c] : c \in Clients}
    /\ \A c \in Clients : /\ held[c] \cap coming = {}
                          /\ \A d \in Clients \ {c} : held[c] \cap held[d] = {}

(***************************************************************************)
(* A fresh arena has room for what it was made for: align "overestimates   *)
(* how much memory we need".                                               *)
(***************************************************************************)
FreshArenaSuffices == \A c \in Clients : answer[c] # "internal error"

\* "if we run out of space, make one big mmap call for the rest".
MmapOnlyWithoutSpace == run.pc = "mmap" => ~run.spare
=============================================================================
