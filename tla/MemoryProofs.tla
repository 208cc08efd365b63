----------------------------- MODULE MemoryProofs -----------------------------
(***************************************************************************)
(* Proofs about Pointers: which pointer owns which allocation, and what    *)
(* its memory holds; about SocketTransport: that each operation moves its  *)
(* own bytes; and about the behaviours of MCMemory, for every value of its *)
(* constants.  The parameter cfg says which calls the coroutines           *)
(* make, what they write, and whether they keep their hands off what       *)
(* others use.                                                             *)
(*                                                                         *)
(* PtrInv says that the valid pointers own the live allocations, one each  *)
(* and none empty, and that these do not overlap (Owned); and of a call    *)
(* that uses a pointer that the pointer object is there and, where         *)
(* coroutines keep their hands off what others use (exclusive), that it is *)
(* valid and where it was, and used by nobody else (UseInv).  MemInv adds  *)
(* what memory holds, also between the store of a write and its return.    *)
(* What a step does to the pointers is said once for the pointers it       *)
(* consumes and makes (Exchange, Consumed, Made), and the actions are      *)
(* instances of that.                                                      *)
(*                                                                         *)
(* And about the socket transport (SockInv): a call that is under way is   *)
(* the one its coroutine waits for (CallsInv); the bytes of an operation   *)
(* are all in the socket, in one piece, until they are taken, and in the   *)
(* order in which they will be (Sending, Receiving); and there is room     *)
(* for those who have still to write (RoomInv).                            *)
(***************************************************************************)
EXTENDS MCMemory, FiniteSets, FiniteSetTheorems, WellFoundedInduction, TLAPS

-----------------------------------------------------------------------------
(* Pointers                                                                *)

\* An allocation is never empty.
Ranges == {a \in (0..Size) \X (0..Size) : a[1] < a[2]}

Plain  == [kind : {"plain", "readable"}, alloc : Ranges, valid : BOOLEAN]
Writ(cfg)   == [kind : {"written"}, alloc : Ranges, valid : BOOLEAN, value : cfg.values, stale : BOOLEAN]
Lin    == [kind : {"linear"}, alloc : Ranges, valid : BOOLEAN, been_read : BOOLEAN, got : BOOLEAN]
Objects(cfg) == Plain \cup Writ(cfg) \cup Lin

Uses(cfg)   == [pc : {"read", "linear", "borrow"}, ptr : Ptr(cfg)!Slots, near : 0..Size]
Writes(cfg) == [pc : {"write", "fill", "keep"}, ptr : Ptr(cfg)!Slots, near : 0..Size, value : cfg.values, done : BOOLEAN]

\* The pointer p of the map P is valid.
Val(cfg, P, p) == P[p] # Ptr(cfg)!None /\ P[p].valid
\* A coroutine of O uses p.
Used(O, p) == \E c \in Coroutines : O[c].pc # "idle" /\ O[c].ptr = p

Apart(a, b) == a[2] <= b[1] \/ b[2] <= a[1]

\* The valid pointers of P own the allocations of A, one each.
Owned(cfg, P, A) ==
    /\ P \in [Ptr(cfg)!Slots -> {Ptr(cfg)!None} \cup Objects(cfg)]
    /\ A \subseteq Ranges /\ \A a, b \in A : a # b => Apart(a, b)
    /\ \A p \in Ptr(cfg)!Slots : Val(cfg, P, p) => P[p].alloc \in A
    /\ \A p, q \in Ptr(cfg)!Slots : Val(cfg, P, p) /\ Val(cfg, P, q) /\ p # q => P[p].alloc # P[q].alloc
    /\ \A a \in A : \E p \in Ptr(cfg)!Slots : Val(cfg, P, p) /\ P[p].alloc = a
    /\ \A p \in Ptr(cfg)!Slots : P[p] \in Lin => P[p].been_read = P[p].got

\* A pointer object in use is not collected; nobody but its user touches it, if
\* coroutines keep to that.
UseInv(cfg, P, O) ==
    /\ O \in [Coroutines -> {Ptr(cfg)!Idle} \cup Uses(cfg) \cup Writes(cfg)]
    /\ \A c \in Coroutines : O[c].pc # "idle" =>
         /\ O[c].pc \in cfg.ops /\ P[O[c].ptr] # Ptr(cfg)!None
         /\ cfg.exclusive =>
              /\ Val(cfg, P, O[c].ptr) /\ P[O[c].ptr].alloc[1] = O[c].near
              /\ \A d \in Coroutines : O[d].pc # "idle" /\ O[d].ptr = O[c].ptr => d = c
              /\ O[c].pc \in {"read", "linear"} /\ P[O[c].ptr] \in Lin => ~P[O[c].ptr].been_read
              /\ O[c].pc = "linear" => P[O[c].ptr] \in Lin

PtrInv(cfg) == Owned(cfg, ptrs, allocs) /\ UseInv(cfg, ptrs, ops) /\ (cfg.exclusive => "read twice" \notin trouble)

\* The bounds of an allocation.
LEMMA RangeBounds ==
    ASSUME NEW a \in Ranges
    PROVE  a[1] \in Nat /\ a[2] \in Nat /\ a[1] < a[2] /\ a[2] <= Size /\ a = <<a[1], a[2]>>
  BY DEF Ranges

\* A pointer object is one of three kinds.
LEMMA ObjectKinds ==
    ASSUME NEW cfg
    PROVE  /\ Ptr(cfg)!None \notin Objects(cfg)
           /\ \A x \in Objects(cfg) : /\ x # Ptr(cfg)!None /\ x.alloc \in Ranges /\ x.valid \in BOOLEAN
                                      /\ x \in Lin <=> x.kind = "linear"
                                      /\ x \in Writ(cfg) <=> x.kind = "written"
  <1>1. \A x \in Objects(cfg) : x.alloc \in Ranges /\ x.valid \in BOOLEAN /\ x.kind # "none"
    BY DEF Objects, Plain, Writ, Lin
  <1>2. Ptr(cfg)!None.kind = "none"
    BY DEF Ptr!None
  <1>3. \A x \in Plain : x.kind # "linear" /\ x.kind # "written"
    BY DEF Plain
  <1>4. \A x \in Writ(cfg) : x.kind = "written"
    BY DEF Writ
  <1>5. \A x \in Lin : x.kind = "linear"
    BY DEF Lin
  <1> QED BY <1>1, <1>2, <1>3, <1>4, <1>5 DEF Objects

\* Invalidating a pointer object changes nothing else of it.
LEMMA Invalidated ==
    ASSUME NEW cfg, NEW x \in Objects(cfg)
    PROVE  LET y == [x EXCEPT !.valid = FALSE]
           IN  y \in Objects(cfg) /\ ~y.valid /\ y.alloc = x.alloc /\ (y \in Lin <=> x \in Lin)
               /\ (x \in Lin => y.been_read = x.been_read /\ y.got = x.got)
  <1>1. CASE x \in Plain
    <2>1. [x EXCEPT !.valid = FALSE] \in Plain
      BY <1>1 DEF Plain
    <2>2. x \notin Lin /\ [x EXCEPT !.valid = FALSE] \notin Lin
      BY <1>1, <2>1 DEF Plain, Lin
    <2> QED BY <1>1, <2>1, <2>2 DEF Objects, Plain
  <1>2. CASE x \in Writ(cfg)
    <2>1. [x EXCEPT !.valid = FALSE] \in Writ(cfg)
      BY <1>2 DEF Writ
    <2>2. x \notin Lin /\ [x EXCEPT !.valid = FALSE] \notin Lin
      BY <1>2, <2>1 DEF Writ, Lin
    <2> QED BY <1>2, <2>1, <2>2 DEF Objects, Writ
  <1>3. CASE x \in Lin
    BY <1>3 DEF Objects, Lin
  <1> QED BY <1>1, <1>2, <1>3 DEF Objects

\* There is a free slot to choose when there is one, and a second when there are two.
LEMMA Least ==
    ASSUME NEW S \in SUBSET Nat, S # {}
    PROVE  \E n \in S : \A m \in S : n <= m
  <1>1. PICK n \in S : \A m \in Nat : <<m, n>> \in OpToRel(<, Nat) => m \notin S
    BY NatLessThanWellFounded, WFMin
  <1>2. ASSUME NEW m \in S PROVE n <= m
    <2>1. m \in Nat /\ n \in Nat
      OBVIOUS
    <2>2. ~(m < n)
      BY <1>1, <2>1 DEF OpToRel
    <2> QED BY <2>1, <2>2
  <1> QED BY <1>2

\* The Cardinality that Pointers uses is the one of FiniteSets.
LEMMA PtrCardinality ==
    ASSUME NEW cfg, NEW S PROVE Ptr(cfg)!Cardinality(S) = Cardinality(S)
  BY DEF Ptr!Cardinality, Cardinality

\* The first and the second of a set of numbers are members, and not the same.
LEMMA NthSlot ==
    ASSUME NEW cfg, NEW S \in SUBSET Nat, IsFiniteSet(S)
    PROVE  /\ S # {} => Ptr(cfg)!Nth(S, 1) \in S
           /\ Cardinality(S) > 1 => /\ Ptr(cfg)!Nth(S, 1) \in S /\ Ptr(cfg)!Nth(S, 2) \in S
                                    /\ Ptr(cfg)!Nth(S, 1) # Ptr(cfg)!Nth(S, 2)
  <1>1. ASSUME S # {} PROVE Ptr(cfg)!Nth(S, 1) \in S /\ Cardinality({y \in S : y < Ptr(cfg)!Nth(S, 1)}) = 0
    <2>1. PICK n \in S : \A m \in S : n <= m
      BY <1>1, Least
    <2>2. {y \in S : y < n} = {}
      <3>1. \A y \in S : y \in Nat /\ n \in Nat
        OBVIOUS
      <3>2. \A y \in S : ~(y < n)
        BY <2>1, <3>1
      <3> QED BY <3>2
    <2>3. Cardinality({y \in S : y < n}) = 1 - 1
      BY <2>2, FS_EmptySet
    <2>4. \E x \in S : Ptr(cfg)!Cardinality({y \in S : y < x}) = 1 - 1
      BY <2>3, PtrCardinality
    <2>5. Ptr(cfg)!Nth(S, 1) \in S /\ Ptr(cfg)!Cardinality({y \in S : y < Ptr(cfg)!Nth(S, 1)}) = 1 - 1
      BY <2>4 DEF Ptr!Nth
    <2> QED BY <2>5, PtrCardinality
  <1>2. ASSUME Cardinality(S) > 1
        PROVE  S # {} /\ Ptr(cfg)!Nth(S, 2) \in S /\ Cardinality({y \in S : y < Ptr(cfg)!Nth(S, 2)}) = 1
    <2>0. S # {}
      BY <1>2, FS_EmptySet
    <2>1. PICK n \in S : \A m \in S : n <= m
      BY <2>0, Least
    <2>2. S # {n}
      BY <1>2, FS_Singleton
    <2>3. PICK m \in S \ {n} : \A z \in S \ {n} : m <= z
      BY <2>1, <2>2, Least
    <2>4. {y \in S : y < m} = {n}
      <3>1. \A y \in S : y \in Nat /\ n \in Nat /\ m \in Nat /\ n \in S /\ m \in S /\ m # n
        BY <2>3
      <3>2. n < m
        BY <2>1, <3>1
      <3>3. \A y \in S : y < m => y = n
        BY <2>3, <3>1
      <3> QED BY <3>2, <3>3
    <2>5. Cardinality({y \in S : y < m}) = 2 - 1
      BY <2>4, FS_Singleton
    <2>6. \E x \in S : Ptr(cfg)!Cardinality({y \in S : y < x}) = 2 - 1
      BY <2>3, <2>5, PtrCardinality
    <2>7. Ptr(cfg)!Nth(S, 2) \in S /\ Ptr(cfg)!Cardinality({y \in S : y < Ptr(cfg)!Nth(S, 2)}) = 2 - 1
      BY <2>6 DEF Ptr!Nth
    <2> QED BY <2>0, <2>7, PtrCardinality
  <1> QED BY <1>1, <1>2

\* A new pointer object takes the place of none that exists.
LEMMA FreeSlot ==
    ASSUME NEW cfg, Ptr(cfg)!PointersAssumption
    PROVE  /\ Ptr(cfg)!FreeSlots # {} =>
                Ptr(cfg)!Nth(Ptr(cfg)!FreeSlots, 1) \in Ptr(cfg)!Slots
                  /\ ptrs[Ptr(cfg)!Nth(Ptr(cfg)!FreeSlots, 1)] = Ptr(cfg)!None
           /\ Cardinality(Ptr(cfg)!FreeSlots) > 1 =>
                /\ Ptr(cfg)!Nth(Ptr(cfg)!FreeSlots, 1) \in Ptr(cfg)!Slots
                   /\ ptrs[Ptr(cfg)!Nth(Ptr(cfg)!FreeSlots, 1)] = Ptr(cfg)!None
                /\ Ptr(cfg)!Nth(Ptr(cfg)!FreeSlots, 2) \in Ptr(cfg)!Slots
                   /\ ptrs[Ptr(cfg)!Nth(Ptr(cfg)!FreeSlots, 2)] = Ptr(cfg)!None
                /\ Ptr(cfg)!Nth(Ptr(cfg)!FreeSlots, 1) # Ptr(cfg)!Nth(Ptr(cfg)!FreeSlots, 2)
  <1>1. Ptr(cfg)!FreeSlots \subseteq Ptr(cfg)!Slots /\ Ptr(cfg)!Slots \subseteq Nat /\ IsFiniteSet(Ptr(cfg)!Slots)
    BY FS_Interval DEF Ptr!FreeSlots, Ptr!Slots, Ptr!PointersAssumption
  <1>2. IsFiniteSet(Ptr(cfg)!FreeSlots) /\ Ptr(cfg)!FreeSlots \in SUBSET Nat
    BY <1>1, FS_Subset
  <1>3. \A p \in Ptr(cfg)!FreeSlots : p \in Ptr(cfg)!Slots /\ ptrs[p] = Ptr(cfg)!None
    BY DEF Ptr!FreeSlots, Ptr!Exists
  <1> QED BY <1>2, <1>3, NthSlot

\* From P and A to Q and B, pointers of Gone give up their allocations and those of New
\* get theirs.
Exchanges(cfg, P, A, Q, B, Gone, New) ==
    /\ Owned(cfg, P, A) /\ Gone \subseteq Ptr(cfg)!Slots /\ New \subseteq Ptr(cfg)!Slots
    /\ Q \in [Ptr(cfg)!Slots -> {Ptr(cfg)!None} \cup Objects(cfg)] /\ B \subseteq Ranges
    /\ \A a, b \in B : a # b => Apart(a, b)
    /\ \A p \in Ptr(cfg)!Slots \ (Gone \cup New) : Q[p] = P[p]
    /\ \A p \in Gone : ~Val(cfg, Q, p)
    /\ \A n \in New : P[n] = Ptr(cfg)!None /\ Val(cfg, Q, n) /\ Q[n].alloc \in B
    /\ \A m, n \in New : m # n => Q[m].alloc # Q[n].alloc
    /\ \A p \in Ptr(cfg)!Slots \ Gone : Val(cfg, P, p) => /\ P[p].alloc \in B
                                                           /\ \A n \in New : Q[n].alloc # P[p].alloc
    /\ \A b \in B : \/ \E n \in New : Q[n].alloc = b
                    \/ \E p \in Ptr(cfg)!Slots \ Gone : Val(cfg, P, p) /\ P[p].alloc = b
    /\ \A p \in Gone \cup New : Q[p] \in Lin => Q[p].been_read = Q[p].got

\* An exchange keeps the pointers owners.
LEMMA Exchange ==
    ASSUME NEW cfg, NEW P, NEW A, NEW Q, NEW B, NEW Gone, NEW New, Exchanges(cfg, P, A, Q, B, Gone, New)
    PROVE  Owned(cfg, Q, B)
  <1> USE DEF Exchanges
  <1>1. \A p \in Ptr(cfg)!Slots : Val(cfg, Q, p) <=> p \in New \/ (p \notin Gone /\ Val(cfg, P, p))
    BY DEF Val
  <1>2. \A p \in Ptr(cfg)!Slots : Val(cfg, Q, p) /\ p \notin New => Q[p] = P[p] /\ p \notin Gone /\ Val(cfg, P, p)
    BY <1>1
  <1>3. \A p \in Ptr(cfg)!Slots : Val(cfg, Q, p) => Q[p].alloc \in B
    BY <1>2
  <1>4. ASSUME NEW p \in Ptr(cfg)!Slots, NEW q \in Ptr(cfg)!Slots, Val(cfg, Q, p), Val(cfg, Q, q), p # q
        PROVE  Q[p].alloc # Q[q].alloc
    <2>1. CASE p \in New /\ q \in New
      BY <1>4, <2>1
    <2>2. CASE p \in New /\ q \notin New
      BY <1>2, <1>4, <2>2
    <2>3. CASE p \notin New /\ q \in New
      BY <1>2, <1>4, <2>3
    <2>4. CASE p \notin New /\ q \notin New
      BY <1>2, <1>4, <2>4 DEF Owned
    <2> QED BY <2>1, <2>2, <2>3, <2>4
  <1>5. ASSUME NEW b \in B PROVE \E p \in Ptr(cfg)!Slots : Val(cfg, Q, p) /\ Q[p].alloc = b
    <2>1. CASE \E n \in New : Q[n].alloc = b
      BY <1>1, <2>1
    <2>2. CASE \E p \in Ptr(cfg)!Slots \ Gone : Val(cfg, P, p) /\ P[p].alloc = b
      <3>1. PICK p \in Ptr(cfg)!Slots \ Gone : Val(cfg, P, p) /\ P[p].alloc = b
        BY <2>2
      <3>2. p \notin New
        BY <3>1 DEF Val
      <3>3. Val(cfg, Q, p) /\ Q[p].alloc = b
        BY <1>1, <3>1, <3>2
      <3> QED BY <3>3
    <2> QED BY <2>1, <2>2
  <1>6. \A p \in Ptr(cfg)!Slots : Q[p] \in Lin => Q[p].been_read = Q[p].got
    BY DEF Owned
  <1> QED BY <1>3, <1>4, <1>5, <1>6 DEF Owned

\* What the coroutines of O use is there in Q, and as in P if nobody else touches it.
Untouched(cfg, P, Q, O) ==
    \A p \in Ptr(cfg)!Slots : Used(O, p) => Q[p] # Ptr(cfg)!None /\ (cfg.exclusive => Q[p] = P[p])

\* A pointer that a coroutine uses, and that nobody consumes, is as it was.
LEMMA UseKept ==
    ASSUME NEW cfg, NEW P, NEW O, UseInv(cfg, P, O), NEW Q, Untouched(cfg, P, Q, O)
    PROVE  UseInv(cfg, Q, O)
  <1>1. \A c \in Coroutines : O[c].pc # "idle" => O[c].ptr \in Ptr(cfg)!Slots
    BY DEF UseInv, Uses, Writes, Ptr!Idle
  <1>2. \A c \in Coroutines : O[c].pc # "idle" =>
            Q[O[c].ptr] # Ptr(cfg)!None /\ (cfg.exclusive => Q[O[c].ptr] = P[O[c].ptr])
    BY <1>1 DEF Used, Untouched
  <1> QED BY <1>2 DEF UseInv, Val

\* An invalid pointer that nobody uses is collected: that changes no valid one.
LEMMA SetKept ==
    ASSUME NEW cfg, NEW Q, NEW O, Ptr(cfg)!Set(Q, O), NEW A, Owned(cfg, Q, A), UseInv(cfg, Q, O)
    PROVE  Owned(cfg, ptrs', A) /\ UseInv(cfg, ptrs', ops')
  <1>1. ops' = O
    BY DEF Ptr!Set
  <1>2. \A p \in Ptr(cfg)!Slots : ptrs'[p] = Q[p] \/ (ptrs'[p] = Ptr(cfg)!None /\ ~Val(cfg, Q, p) /\ ~Used(O, p))
    BY DEF Ptr!Set, Val, Used
  <1>3. ptrs' \in [Ptr(cfg)!Slots -> {Ptr(cfg)!None} \cup Objects(cfg)]
    BY <1>2 DEF Ptr!Set, Owned
  <1>4. Ptr(cfg)!None \notin Lin
    BY ObjectKinds DEF Objects
  <1>5. \A p \in Ptr(cfg)!Slots : (ptrs'[p] # Ptr(cfg)!None /\ ptrs'[p].valid <=> Val(cfg, Q, p))
        /\ (Val(cfg, Q, p) => ptrs'[p] = Q[p])
    BY <1>2 DEF Val
  <1>6. Owned(cfg, ptrs', A)
    <2>1. PICK R : R = ptrs'
      OBVIOUS
    <2>2. R \in [Ptr(cfg)!Slots -> {Ptr(cfg)!None} \cup Objects(cfg)]
      BY <1>3, <2>1
    <2>3. \A p \in Ptr(cfg)!Slots : (Val(cfg, R, p) <=> Val(cfg, Q, p)) /\ (Val(cfg, Q, p) => R[p] = Q[p])
      BY <1>5, <2>1 DEF Val
    <2>4. \A p \in Ptr(cfg)!Slots : R[p] \in Lin => R[p].been_read = R[p].got
      BY <1>2, <1>4, <2>1 DEF Owned
    <2>5. Owned(cfg, R, A)
      BY <2>2, <2>3, <2>4 DEF Owned
    <2> QED BY <2>1, <2>5
  <1>7. UseInv(cfg, ptrs', O)
    <2>1. PICK R : R = ptrs'
      OBVIOUS
    <2>2. \A p \in Ptr(cfg)!Slots : Used(O, p) => R[p] = Q[p] /\ Q[p] # Ptr(cfg)!None
      BY <1>2, <2>1 DEF UseInv, Used
    <2>3. Untouched(cfg, Q, R, O)
      BY <2>2 DEF Untouched
    <2>4. UseInv(cfg, R, O)
      BY <2>3, UseKept
    <2> QED BY <2>1, <2>4
  <1> QED BY <1>1, <1>6, <1>7

\* From P to Q the pointer p is consumed, which makes the object y of it, and the new
\* object x at n owns what p owned.
Consumes(cfg, P, Q, p, n, x, y) ==
    /\ p \in Ptr(cfg)!Slots /\ Val(cfg, P, p) /\ n \in Ptr(cfg)!Slots /\ P[n] = Ptr(cfg)!None
    /\ x \in Objects(cfg) /\ x.valid /\ x.alloc = P[p].alloc /\ (x \in Lin => x.been_read = x.got)
    /\ y \in Objects(cfg) /\ ~y.valid /\ y.alloc = P[p].alloc /\ (y \in Lin => y.been_read = y.got)
    /\ Q = [P EXCEPT ![p] = y, ![n] = x]

\* That keeps the pointers owners.
LEMMA Consumed ==
    ASSUME NEW cfg, NEW P, NEW A, Owned(cfg, P, A), NEW p, NEW n, NEW x, NEW y, NEW Q, Consumes(cfg, P, Q, p, n, x, y)
    PROVE  Owned(cfg, Q, A)
  <1> USE DEF Consumes
  <1>1. n # p /\ P \in [Ptr(cfg)!Slots -> {Ptr(cfg)!None} \cup Objects(cfg)]
    BY DEF Val, Owned
  <1>2. /\ Q \in [Ptr(cfg)!Slots -> {Ptr(cfg)!None} \cup Objects(cfg)] /\ Q[n] = x /\ Q[p] = y
        /\ \A q \in Ptr(cfg)!Slots \ ({p} \cup {n}) : Q[q] = P[q]
    BY <1>1
  <1>3. \A q \in {p} : ~Val(cfg, Q, q)
    BY <1>2 DEF Val
  <1>4. \A m \in {n} : P[m] = Ptr(cfg)!None /\ Val(cfg, Q, m) /\ Q[m].alloc \in A
    BY <1>2, ObjectKinds DEF Val, Owned
  <1>5. \A q \in Ptr(cfg)!Slots \ {p} : Val(cfg, P, q) => P[q].alloc \in A /\ \A m \in {n} : Q[m].alloc # P[q].alloc
    BY <1>2 DEF Owned
  <1>6. \A a \in A : (\E m \in {n} : Q[m].alloc = a) \/ \E q \in Ptr(cfg)!Slots \ {p} : Val(cfg, P, q) /\ P[q].alloc = a
    BY <1>2 DEF Owned
  <1>7. \A q \in {p} \cup {n} : Q[q] \in Lin => Q[q].been_read = Q[q].got
    BY <1>2
  <1>8. A \in SUBSET Ranges /\ \A a, b \in A : a # b => Apart(a, b)
    BY DEF Owned
  <1>9. \A m, o \in {n} : m # o => Q[m].alloc # Q[o].alloc
    OBVIOUS
  <1>10. Exchanges(cfg, P, A, Q, A, {p}, {n})
    BY <1>2, <1>3, <1>4, <1>5, <1>6, <1>7, <1>8, <1>9 DEF Exchanges
  <1> QED BY <1>10, Exchange

\* What a coroutine does shows in its pc.
LEMMA OpKinds ==
    ASSUME NEW cfg, NEW P, NEW O, UseInv(cfg, P, O), NEW c \in Coroutines
    PROVE  /\ O[c].pc \in {"write", "fill", "keep"} => O[c] \in Writes(cfg)
           /\ O[c].pc \in {"read", "linear", "borrow"} => O[c] \in Uses(cfg)
           /\ O[c] # Ptr(cfg)!Idle => O[c] \in Uses(cfg) \cup Writes(cfg) /\ O[c].pc # "idle"
              /\ O[c].ptr \in Ptr(cfg)!Slots
           /\ O[c] = Ptr(cfg)!Idle <=> O[c].pc = "idle"
  <1>1. O[c] = Ptr(cfg)!Idle \/ O[c] \in Uses(cfg) \/ O[c] \in Writes(cfg)
    BY DEF UseInv
  <1>2. Ptr(cfg)!Idle.pc = "idle"
    BY DEF Ptr!Idle
  <1>3. \A u \in Uses(cfg) : u.pc \in {"read", "linear", "borrow"} /\ u.ptr \in Ptr(cfg)!Slots
    BY DEF Uses
  <1>4. \A u \in Writes(cfg) : u.pc \in {"write", "fill", "keep"} /\ u.ptr \in Ptr(cfg)!Slots
    BY DEF Writes
  <1> QED BY <1>1, <1>2, <1>3, <1>4

\* A call begins, on a pointer that nobody else uses if coroutines keep to that.
LEMMA UseBegins ==
    ASSUME NEW cfg, NEW P, NEW O, UseInv(cfg, P, O), NEW c \in Coroutines, NEW u \in Uses(cfg) \cup Writes(cfg),
           u.pc \in cfg.ops,
           Val(cfg, P, u.ptr), u.near = P[u.ptr].alloc[1], cfg.exclusive => ~Used(O, u.ptr),
           u.pc \in {"read", "linear"} /\ P[u.ptr] \in Lin => ~P[u.ptr].been_read,
           u.pc = "linear" => P[u.ptr] \in Lin
    PROVE  UseInv(cfg, P, [O EXCEPT ![c] = u])
  <1>1. PICK N : N = [O EXCEPT ![c] = u]
    OBVIOUS
  <1>2. /\ N \in [Coroutines -> {Ptr(cfg)!Idle} \cup Uses(cfg) \cup Writes(cfg)]
        /\ \A d \in Coroutines : N[d] = IF d = c THEN u ELSE O[d]
    BY <1>1 DEF UseInv
  <1>3. ASSUME NEW d \in Coroutines, N[d].pc # "idle"
        PROVE  /\ N[d].pc \in cfg.ops /\ P[N[d].ptr] # Ptr(cfg)!None
               /\ cfg.exclusive =>
                    /\ Val(cfg, P, N[d].ptr) /\ P[N[d].ptr].alloc[1] = N[d].near
                    /\ \A e \in Coroutines : N[e].pc # "idle" /\ N[e].ptr = N[d].ptr => e = d
                    /\ N[d].pc \in {"read", "linear"} /\ P[N[d].ptr] \in Lin => ~P[N[d].ptr].been_read
                    /\ N[d].pc = "linear" => P[N[d].ptr] \in Lin
    <2>1. CASE d = c
      <3>1. N[d] = u
        BY <1>2, <2>1
      <3>2. ASSUME cfg.exclusive, NEW e \in Coroutines, N[e].pc # "idle", N[e].ptr = u.ptr PROVE e = d
        BY <1>2, <2>1, <3>2 DEF Used
      <3> QED BY <3>1, <3>2 DEF Val
    <2>2. CASE d # c
      <3>1. N[d] = O[d]
        BY <1>2, <2>2
      <3>2. ASSUME cfg.exclusive, NEW e \in Coroutines, N[e].pc # "idle", N[e].ptr = N[d].ptr PROVE e = d
        <4>1. e # c
          BY <1>2, <1>3, <3>1, <3>2 DEF Used
        <4> QED BY <1>2, <1>3, <3>1, <3>2, <4>1 DEF UseInv
      <3> QED BY <1>3, <3>1, <3>2 DEF UseInv
    <2> QED BY <2>1, <2>2
  <1>4. UseInv(cfg, P, N)
    BY <1>2, <1>3 DEF UseInv
  <1> QED BY <1>1, <1>4

\* A call ends: then nobody uses its pointer, if coroutines keep to that.
LEMMA UseEnds ==
    ASSUME NEW cfg, NEW P, NEW O, UseInv(cfg, P, O), NEW c \in Coroutines
    PROVE  /\ UseInv(cfg, P, [O EXCEPT ![c] = Ptr(cfg)!Idle])
           /\ \A p : Used([O EXCEPT ![c] = Ptr(cfg)!Idle], p) => Used(O, p)
           /\ cfg.exclusive /\ O[c].pc # "idle" => ~Used([O EXCEPT ![c] = Ptr(cfg)!Idle], O[c].ptr)
  <1>1. PICK N : N = [O EXCEPT ![c] = Ptr(cfg)!Idle]
    OBVIOUS
  <1>2. /\ N \in [Coroutines -> {Ptr(cfg)!Idle} \cup Uses(cfg) \cup Writes(cfg)]
        /\ \A d \in Coroutines : N[d] = IF d = c THEN Ptr(cfg)!Idle ELSE O[d]
    BY <1>1 DEF UseInv
  <1>3. \A d \in Coroutines : N[d].pc # "idle" => d # c /\ N[d] = O[d]
    BY <1>2 DEF Ptr!Idle
  <1>4. UseInv(cfg, P, N)
    BY <1>2, <1>3 DEF UseInv
  <1>5. \A p : Used(N, p) => Used(O, p)
    BY <1>3 DEF Used
  <1>6. cfg.exclusive /\ O[c].pc # "idle" => ~Used(N, O[c].ptr)
    BY <1>3 DEF Used, UseInv
  <1> QED BY <1>1, <1>4, <1>5, <1>6

\* A step that consumes a pointer, if it was not used or is not any more.
LEMMA ConsumeStep ==
    ASSUME NEW cfg, Ptr(cfg)!PointersAssumption, Owned(cfg, ptrs, allocs), NEW p \in Ptr(cfg)!Slots, Val(cfg, ptrs, p),
           Ptr(cfg)!FreeSlots # {},
           NEW x \in Objects(cfg), x.valid, x.alloc = ptrs[p].alloc, x \in Lin => x.been_read = x.got,
           NEW y \in Objects(cfg), ~y.valid, y.alloc = ptrs[p].alloc, y \in Lin => y.been_read = y.got,
           NEW O, UseInv(cfg, ptrs, O), cfg.exclusive => ~Used(O, p),
           NEW Q, Q = [ptrs EXCEPT ![p] = y, ![Ptr(cfg)!Nth(Ptr(cfg)!FreeSlots, 1)] = x],
           Ptr(cfg)!Set(Q, O), allocs' = allocs
    PROVE  Owned(cfg, ptrs', allocs') /\ UseInv(cfg, ptrs', ops')
  <1>1. PICK n \in Ptr(cfg)!Slots : n = Ptr(cfg)!Nth(Ptr(cfg)!FreeSlots, 1) /\ ptrs[n] = Ptr(cfg)!None
    BY FreeSlot
  <1>2. PICK P : P = ptrs
    OBVIOUS
  <1>3. Owned(cfg, P, allocs) /\ Val(cfg, P, p) /\ P[n] = Ptr(cfg)!None /\ UseInv(cfg, P, O)
        /\ Q = [P EXCEPT ![p] = y, ![n] = x]
    BY <1>1, <1>2
  <1>4. Owned(cfg, Q, allocs)
    <2>1. Consumes(cfg, P, Q, p, n, x, y)
      BY <1>2, <1>3 DEF Consumes
    <2> QED BY <1>3, <2>1, Consumed
  <1>5. UseInv(cfg, Q, O)
    <2>1. \A q \in Ptr(cfg)!Slots : Used(O, q) => q # n /\ P[q] # Ptr(cfg)!None
      BY <1>3 DEF UseInv, Used
    <2>2. \A q \in Ptr(cfg)!Slots : q # n => Q[q] = IF q = p THEN y ELSE P[q]
      BY <1>3 DEF Owned
    <2>3. Untouched(cfg, P, Q, O)
      <3> SUFFICES ASSUME NEW q \in Ptr(cfg)!Slots, Used(O, q)
                   PROVE  Q[q] # Ptr(cfg)!None /\ (cfg.exclusive => Q[q] = P[q])
        BY DEF Untouched
      <3>1. q # n /\ P[q] # Ptr(cfg)!None /\ Q[q] = IF q = p THEN y ELSE P[q]
        BY ONLY <2>1, <2>2, q \in Ptr(cfg)!Slots, Used(O, q)
      <3>2. y # Ptr(cfg)!None
        BY ObjectKinds
      <3>3. cfg.exclusive => q # p
        OBVIOUS
      <3> QED BY ONLY <3>1, <3>2, <3>3
    <2> QED BY <1>3, <2>3, UseKept
  <1> QED BY <1>4, <1>5, SetKept

\* Making x of p leaves y in its place.
ConsumesTo(cfg, p, x, y) ==
    Ptr(cfg)!Consume(p, x) = [ptrs EXCEPT ![p] = y, ![Ptr(cfg)!Nth(Ptr(cfg)!FreeSlots, 1)] = x]

\* The object that Consume makes of the consumed pointer.
LEMMA ConsumeIs ==
    ASSUME NEW cfg, Owned(cfg, ptrs, allocs), NEW p \in Ptr(cfg)!Slots, ptrs[p] # Ptr(cfg)!None, NEW x
    PROVE  \E y \in Objects(cfg) : /\ ~y.valid /\ y.alloc = ptrs[p].alloc /\ (y \in Lin => y.been_read = y.got)
                                   /\ ConsumesTo(cfg, p, x, y)
  <1>1. ptrs[p] \in Objects(cfg)
    BY DEF Owned
  <1>2. PICK y : y = [ptrs[p] EXCEPT !.valid = FALSE]
    OBVIOUS
  <1>3. ConsumesTo(cfg, p, x, y)
    BY <1>2 DEF Ptr!Consume, ConsumesTo
  <1>4. ptrs[p] \in Lin => ptrs[p].been_read = ptrs[p].got
    BY DEF Owned
  <1> QED BY <1>1, <1>2, <1>3, <1>4, Invalidated

\* The objects that pointers are made as.
LEMMA Made ==
    ASSUME NEW cfg, NEW a \in Ranges
    PROVE  /\ \A kind \in {"plain", "readable"} :
                /\ Ptr(cfg)!Pointer(kind, a) \in Objects(cfg) /\ Ptr(cfg)!Pointer(kind, a).valid
                /\ Ptr(cfg)!Pointer(kind, a).alloc = a /\ Ptr(cfg)!Pointer(kind, a) \notin Lin
                /\ Ptr(cfg)!Pointer(kind, a) \notin Writ(cfg)
           /\ \A v \in cfg.values : /\ Ptr(cfg)!Written(a, v) \in Objects(cfg) /\ Ptr(cfg)!Written(a, v).valid
                                    /\ Ptr(cfg)!Written(a, v).alloc = a /\ Ptr(cfg)!Written(a, v) \notin Lin
           /\ /\ Ptr(cfg)!Linear(a) \in Objects(cfg) /\ Ptr(cfg)!Linear(a).valid
              /\ Ptr(cfg)!Linear(a).alloc = a /\ Ptr(cfg)!Linear(a).been_read = Ptr(cfg)!Linear(a).got
              /\ Ptr(cfg)!Linear(a) \notin Writ(cfg)
  <1>1. ASSUME NEW kind \in {"plain", "readable"}
        PROVE  /\ Ptr(cfg)!Pointer(kind, a) \in Plain /\ Ptr(cfg)!Pointer(kind, a).valid
                  /\ Ptr(cfg)!Pointer(kind, a).alloc = a
               /\ Ptr(cfg)!Pointer(kind, a).kind # "linear" /\ Ptr(cfg)!Pointer(kind, a).kind # "written"
    BY DEF Ptr!Pointer, Plain
  <1>2. ASSUME NEW v \in cfg.values
        PROVE  /\ Ptr(cfg)!Written(a, v) \in Writ(cfg) /\ Ptr(cfg)!Written(a, v).valid
                  /\ Ptr(cfg)!Written(a, v).alloc = a
               /\ Ptr(cfg)!Written(a, v).kind # "linear"
    BY DEF Ptr!Written, Writ
  <1>3. /\ Ptr(cfg)!Linear(a) \in Lin /\ Ptr(cfg)!Linear(a).valid /\ Ptr(cfg)!Linear(a).alloc = a
        /\ Ptr(cfg)!Linear(a).been_read = Ptr(cfg)!Linear(a).got /\ Ptr(cfg)!Linear(a).kind # "written"
    BY DEF Ptr!Linear, Lin
  <1> QED BY <1>1, <1>2, <1>3, ObjectKinds DEF Objects

\* So is a written pointer.
LEMMA MadeWritten ==
    ASSUME NEW cfg, NEW a \in Ranges, NEW v \in cfg.values
    PROVE  /\ Ptr(cfg)!Written(a, v) \in Objects(cfg) /\ Ptr(cfg)!Written(a, v).valid
           /\ Ptr(cfg)!Written(a, v).alloc = a /\ Ptr(cfg)!Written(a, v) \notin Lin
  BY Made, Zenon

\* A pointer that a coroutine may touch is not used, if coroutines keep to that.
LEMMA MayTouch ==
    ASSUME NEW cfg, NEW p, Ptr(cfg)!May(p) PROVE cfg.exclusive => ~Used(ops, p)
  BY DEF Ptr!May, Ptr!InUse, Used

\* _with_mapping, _wrote and the like: the pointer becomes another for its allocation.
LEMMA ConvertPtr ==
    ASSUME NEW cfg, Ptr(cfg)!PointersAssumption, PtrInv(cfg), NEW p \in Ptr(cfg)!Slots, Ptr(cfg)!Convert(p)
    PROVE  PtrInv(cfg)'
  <1>0. /\ Val(cfg, ptrs, p) /\ ptrs[p] # Ptr(cfg)!None /\ Ptr(cfg)!FreeSlots # {} /\ (cfg.exclusive => ~Used(ops, p))
        /\ UNCHANGED <<allocs, mem, trouble>>
    BY MayTouch DEF Ptr!Convert, Ptr!Usable, Ptr!Valid, Ptr!Exists, Val
  <1>1. ptrs[p] \in Objects(cfg) /\ ptrs[p].alloc \in Ranges
    BY <1>0, ObjectKinds DEF PtrInv, Owned
  <1>2. PICK x \in Objects(cfg) : /\ x.valid /\ x.alloc = ptrs[p].alloc /\ (x \in Lin => x.been_read = x.got)
                                  /\ Ptr(cfg)!Set(Ptr(cfg)!Consume(p, x), ops)
    <2>1. CASE Ptr(cfg)!Set(Ptr(cfg)!Readable(p), ops)
      BY <1>1, <2>1, Made DEF Ptr!Readable
    <2>2. CASE Ptr(cfg)!Set(Ptr(cfg)!Reinterpret(p), ops)
      BY <1>1, <2>2, Made DEF Ptr!Reinterpret
    <2>3. CASE Ptr(cfg)!Set(Ptr(cfg)!Linearize(p), ops)
      BY <1>1, <2>3, Made DEF Ptr!Linearize
    <2>4. CASE Ptr(cfg)!Set(Ptr(cfg)!WithMapping(p), ops)
      <3>1. CASE ptrs[p].kind = "linear"
        BY <1>1, <2>4, <3>1, Made DEF Ptr!WithMapping
      <3>2. CASE ptrs[p].kind # "linear"
        <4>1. ptrs[p] \notin Lin /\ ptrs[p].valid
          BY <1>0, <1>1, <3>2, ObjectKinds DEF Val
        <4> QED BY <1>1, <2>4, <3>2, <4>1 DEF Ptr!WithMapping
      <3> QED BY <3>1, <3>2
    <2> QED BY <2>1, <2>2, <2>3, <2>4 DEF Ptr!Convert
  <1>3. PICK y \in Objects(cfg) : /\ ~y.valid /\ y.alloc = ptrs[p].alloc /\ (y \in Lin => y.been_read = y.got)
                                  /\ Ptr(cfg)!Consume(p, x) = [ptrs EXCEPT ![p] = y,
                                     ![Ptr(cfg)!Nth(Ptr(cfg)!FreeSlots, 1)] = x]
    <2>1. Owned(cfg, ptrs, allocs)
      BY DEF PtrInv
    <2>2. \E y \in Objects(cfg) : /\ ~y.valid /\ y.alloc = ptrs[p].alloc /\ (y \in Lin => y.been_read = y.got)
                                   /\ ConsumesTo(cfg, p, x, y)
      BY <1>0, <2>1, ConsumeIs
    <2> QED BY <2>2 DEF ConsumesTo
  <1>4. PICK Q : Q = Ptr(cfg)!Consume(p, x)
    OBVIOUS
  <1>5. Ptr(cfg)!Set(Q, ops)
    BY <1>2, <1>4
  <1>6. Owned(cfg, ptrs', allocs') /\ UseInv(cfg, ptrs', ops')
    BY <1>0, <1>2, <1>3, <1>4, <1>5, ConsumeStep DEF PtrInv
  <1> QED BY <1>0, <1>6 DEF PtrInv

\* malloc: a pointer to memory that no live allocation touches.
LEMMA MallocPtr ==
    ASSUME NEW cfg, Ptr(cfg)!PointersAssumption, PtrInv(cfg), NEW s \in 0..Size, NEW e \in 0..Size,
           Ptr(cfg)!Malloc(s, e)
    PROVE  PtrInv(cfg)'
  <1>0. PICK a, x : a = <<s, e>> /\ x = Ptr(cfg)!Pointer("plain", a)
    OBVIOUS
  <1>1. a \in Ranges /\ x \in Objects(cfg) /\ x.valid /\ x.alloc = a /\ x \notin Lin
    <2>1. a \in Ranges
      BY <1>0 DEF Ptr!Malloc, Ranges
    <2> QED BY <1>0, <2>1, Made
  <1>2. \A b \in allocs : Apart(a, b) /\ b # a
    <2>1. \A b \in allocs : b[2] <= s \/ e <= b[1]
      BY DEF Ptr!Malloc, Ptr!Disjoint
    <2>2. a[1] = s /\ a[2] = e /\ s < e /\ s \in Nat /\ e \in Nat
      BY <1>0 DEF Ptr!Malloc
    <2>3. \A b \in allocs : b[1] \in Nat /\ b[2] \in Nat /\ b[1] < b[2]
      BY RangeBounds DEF PtrInv, Owned
    <2> QED BY <2>1, <2>2, <2>3 DEF Apart
  <1>3. PICK n \in Ptr(cfg)!Slots : n = Ptr(cfg)!Nth(Ptr(cfg)!FreeSlots, 1) /\ ptrs[n] = Ptr(cfg)!None
    BY FreeSlot DEF Ptr!Malloc
  <1>4. PICK P, Q, A : P = ptrs /\ Q = [P EXCEPT ![n] = x] /\ A = allocs
    OBVIOUS
  <1>5. Owned(cfg, P, A) /\ UseInv(cfg, P, ops) /\ Ptr(cfg)!Set(Q, ops) /\ allocs' = A \cup {a} /\ UNCHANGED trouble
    BY <1>0, <1>3, <1>4 DEF Ptr!Malloc, PtrInv
  <1>6. /\ Q \in [Ptr(cfg)!Slots -> {Ptr(cfg)!None} \cup Objects(cfg)] /\ Q[n] = x /\ Val(cfg, Q, n)
        /\ \A q \in Ptr(cfg)!Slots \ ({} \cup {n}) : Q[q] = P[q]
    BY <1>1, <1>4, <1>5, ObjectKinds DEF Owned, Val
  <1>7. Owned(cfg, Q, A \cup {a})
    <2>1. A \cup {a} \subseteq Ranges /\ \A b, c \in A \cup {a} : b # c => Apart(b, c)
      BY <1>1, <1>2, <1>4, <1>5 DEF Owned, Apart
    <2>2. \A q \in Ptr(cfg)!Slots \ {} : Val(cfg, P, q) => P[q].alloc \in A \cup {a}
          /\ \A m \in {n} : Q[m].alloc # P[q].alloc
      BY <1>1, <1>2, <1>4, <1>5, <1>6 DEF Owned
    <2>3. \A b \in A \cup {a} : (\E m \in {n} : Q[m].alloc = b) \/ \E q \in Ptr(cfg)!Slots \ {} : Val(cfg, P, q)
          /\ P[q].alloc = b
      BY <1>1, <1>5, <1>6 DEF Owned
    <2>4. Exchanges(cfg, P, A, Q, A \cup {a}, {}, {n})
      BY <1>1, <1>3, <1>4, <1>5, <1>6, <2>1, <2>2, <2>3 DEF Exchanges
    <2> QED BY <2>4, Exchange
  <1>8. UseInv(cfg, Q, ops)
    <2>1. Untouched(cfg, P, Q, ops)
      BY <1>3, <1>4, <1>5, <1>6 DEF Untouched, UseInv, Used
    <2> QED BY <1>5, <2>1, UseKept
  <1>9. Owned(cfg, ptrs', A \cup {a}) /\ UseInv(cfg, ptrs', ops')
    BY <1>5, <1>7, <1>8, SetKept
  <1> QED BY <1>5, <1>9 DEF PtrInv

\* Free invalidates p and frees what it owns.
LEMMA FreePtr ==
    ASSUME NEW cfg, Ptr(cfg)!PointersAssumption, PtrInv(cfg), NEW p \in Ptr(cfg)!Slots, Ptr(cfg)!Free(p)
    PROVE  PtrInv(cfg)'
  <1>0. Val(cfg, ptrs, p) /\ (cfg.exclusive => ~Used(ops, p)) /\ UNCHANGED trouble
    BY MayTouch DEF Ptr!Free, Ptr!Valid, Ptr!Exists, Val
  <1>1. PICK P, A, y, Q : P = ptrs /\ A = allocs /\ y = [P[p] EXCEPT !.valid = FALSE] /\ Q = [P EXCEPT ![p] = y]
    OBVIOUS
  <1>2. Owned(cfg, P, A) /\ UseInv(cfg, P, ops) /\ Val(cfg, P, p) /\ P[p] \in Objects(cfg)
    BY <1>0, <1>1 DEF PtrInv, Owned, Val
  <1>3. y \in Objects(cfg) /\ ~y.valid /\ (y \in Lin => y.been_read = y.got)
    BY <1>1, <1>2, Invalidated DEF Owned
  <1>4. Ptr(cfg)!Set(Q, ops) /\ allocs' = A \ {P[p].alloc}
    BY <1>1 DEF Ptr!Free
  <1>5. /\ Q \in [Ptr(cfg)!Slots -> {Ptr(cfg)!None} \cup Objects(cfg)] /\ Q[p] = y /\ ~Val(cfg, Q, p)
        /\ \A q \in Ptr(cfg)!Slots \ ({p} \cup {}) : Q[q] = P[q]
    BY <1>1, <1>2, <1>3 DEF Owned, Val
  <1>6. Owned(cfg, Q, A \ {P[p].alloc})
    <2>1. A \ {P[p].alloc} \subseteq Ranges /\ \A b, c \in A \ {P[p].alloc} : b # c => Apart(b, c)
      BY <1>2 DEF Owned
    <2>2. \A q \in Ptr(cfg)!Slots \ {p} : Val(cfg, P, q) => P[q].alloc \in A \ {P[p].alloc}
          /\ \A m \in {} : Q[m].alloc # P[q].alloc
      BY <1>2 DEF Owned
    <2>3. \A b \in A \ {P[p].alloc} : \E q \in Ptr(cfg)!Slots \ {p} : Val(cfg, P, q) /\ P[q].alloc = b
      BY <1>2 DEF Owned
    <2>4. Exchanges(cfg, P, A, Q, A \ {P[p].alloc}, {p}, {})
      BY <1>2, <1>3, <1>5, <2>1, <2>2, <2>3 DEF Exchanges
    <2> QED BY <2>4, Exchange
  <1>7. UseInv(cfg, Q, ops)
    <2>1. \A q \in Ptr(cfg)!Slots : Used(ops, q) => P[q] # Ptr(cfg)!None
      BY <1>2 DEF UseInv, Used
    <2>2. Q[p] # Ptr(cfg)!None
      BY <1>3, <1>5, ObjectKinds
    <2>3. Untouched(cfg, P, Q, ops)
      BY <1>0, <1>5, <2>1, <2>2 DEF Untouched
    <2> QED BY <1>2, <2>3, UseKept
  <1>8. Owned(cfg, ptrs', A \ {P[p].alloc}) /\ UseInv(cfg, ptrs', ops')
    BY <1>4, <1>6, <1>7, SetKept
  <1> QED BY <1>0, <1>4, <1>8 DEF PtrInv

\* A pointer of a range is split in two, somewhere inside.
LEMMA SplitAtPtr ==
    ASSUME NEW cfg, Ptr(cfg)!PointersAssumption, PtrInv(cfg), NEW p \in Ptr(cfg)!Slots, Ptr(cfg)!Usable(p),
           Ptr(cfg)!May(p),
           NEW k \in 1..(Ptr(cfg)!SizeOf(p) - 1), Ptr(cfg)!SplitAt(p, k)
    PROVE  Owned(cfg, ptrs', allocs') /\ UseInv(cfg, ptrs', ops')
  <1>0. Val(cfg, ptrs, p) /\ (cfg.exclusive => ~Used(ops, p))
    BY MayTouch DEF Ptr!Usable, Ptr!Valid, Ptr!Exists, Val
  <1>1. PICK m, n \in Ptr(cfg)!Slots : /\ m = Ptr(cfg)!Nth(Ptr(cfg)!FreeSlots, 1)
                                          /\ n = Ptr(cfg)!Nth(Ptr(cfg)!FreeSlots, 2) /\ m # n
                                       /\ ptrs[m] = Ptr(cfg)!None /\ ptrs[n] = Ptr(cfg)!None
    BY FreeSlot, PtrCardinality DEF Ptr!SplitAt
  <1>2. PICK P, A, y, a, left, right, l, r, Q :
            /\ P = ptrs /\ A = allocs /\ a = P[p].alloc /\ left = <<a[1], a[1] + k>> /\ right = <<a[1] + k, a[2]>>
            /\ y = [P[p] EXCEPT !.valid = FALSE] /\ l = Ptr(cfg)!Pointer("plain", left)
            /\ r = Ptr(cfg)!Pointer("plain", right) /\ Q = [P EXCEPT ![p] = y, ![m] = l, ![n] = r]
    OBVIOUS
  <1>3. /\ Owned(cfg, P, A) /\ UseInv(cfg, P, ops) /\ Val(cfg, P, p) /\ P[p] \in Objects(cfg) /\ P[m] = Ptr(cfg)!None
        /\ P[n] = Ptr(cfg)!None /\ a \in A /\ a \in Ranges
    <2>1. Owned(cfg, P, A) /\ UseInv(cfg, P, ops) /\ Val(cfg, P, p) /\ P[p] \in Objects(cfg) /\ P[m] = Ptr(cfg)!None
          /\ P[n] = Ptr(cfg)!None
      BY <1>0, <1>1, <1>2 DEF PtrInv, Owned, Val
    <2> QED BY <1>2, <2>1 DEF Owned
  <1>4. y \in Objects(cfg) /\ ~y.valid /\ (y \in Lin => y.been_read = y.got)
    BY <1>2, <1>3, Invalidated DEF Owned
  <1>5. /\ a[1] \in Nat /\ a[2] \in Nat /\ k \in Nat /\ k > 0 /\ a[1] + k < a[2] /\ a[2] <= Size /\ Size \in Nat
        /\ left[1] = a[1] /\ left[2] = a[1] + k /\ right[1] = a[1] + k /\ right[2] = a[2]
    <2>1. Ptr(cfg)!SizeOf(p) = a[2] - a[1] /\ a[1] \in Nat /\ a[2] \in Nat /\ a[1] < a[2] /\ a[2] <= Size
      BY <1>2, <1>3, RangeBounds DEF Ptr!SizeOf
    <2> QED BY <1>2, <2>1 DEF Ptr!PointersAssumption
  <1>6. left \in Ranges /\ right \in Ranges /\ left # right /\ Apart(left, right)
    BY <1>2, <1>5 DEF Ranges, Apart
  <1>7. \A b \in A \ {a} : Apart(b, left) /\ Apart(b, right) /\ b # left /\ b # right
    <2>1. \A b \in A \ {a} : Apart(b, a) /\ b[1] \in Nat /\ b[2] \in Nat /\ b[1] < b[2]
      BY <1>3, RangeBounds DEF Owned
    <2> QED BY <1>5, <2>1 DEF Apart
  <1>8. /\ l \in Objects(cfg) /\ l.valid /\ l.alloc = left /\ l \notin Lin
        /\ r \in Objects(cfg) /\ r.valid /\ r.alloc = right /\ r \notin Lin
    BY <1>2, <1>6, Made
  <1>9. Ptr(cfg)!Set(Q, ops) /\ allocs' = (A \ {a}) \cup {left, right}
    BY <1>1, <1>2 DEF Ptr!SplitAt
  <1>10. m # p /\ n # p /\ P \in [Ptr(cfg)!Slots -> {Ptr(cfg)!None} \cup Objects(cfg)]
    BY <1>3 DEF Val, Owned
  <1>11. /\ Q \in [Ptr(cfg)!Slots -> {Ptr(cfg)!None} \cup Objects(cfg)] /\ Q[p] = y /\ Q[m] = l /\ Q[n] = r
         /\ \A q \in Ptr(cfg)!Slots \ ({p} \cup {m, n}) : Q[q] = P[q]
    BY <1>1, <1>2, <1>4, <1>8, <1>10
  <1>12. ~Val(cfg, Q, p) /\ Val(cfg, Q, m) /\ Val(cfg, Q, n)
    BY <1>4, <1>8, <1>11, ObjectKinds DEF Val
  <1>13. PICK B : B = (A \ {a}) \cup {left, right}
    OBVIOUS
  <1>14. Owned(cfg, Q, B)
    <2>1. B \subseteq Ranges /\ \A b, c \in B : b # c => Apart(b, c)
      <3>1. \A b \in A \ {a} : b \in Ranges
        BY <1>3 DEF Owned
      <3>2. \A b, c \in A \ {a} : b # c => Apart(b, c)
        BY <1>3 DEF Owned
      <3>3. \A b, c : Apart(b, c) => Apart(c, b)
        BY DEF Apart
      <3> QED BY <1>6, <1>7, <1>13, <3>1, <3>2, <3>3
    <2>2. \A q \in Ptr(cfg)!Slots \ {p} : Val(cfg, P, q) => P[q].alloc \in A \ {a}
      BY <1>2, <1>3 DEF Owned
    <2>3. \A q \in Ptr(cfg)!Slots \ {p} : Val(cfg, P, q) => P[q].alloc \in B
          /\ \A o \in {m, n} : Q[o].alloc # P[q].alloc
      BY <1>7, <1>8, <1>11, <1>13, <2>2
    <2>4. \A b \in B : (\E o \in {m, n} : Q[o].alloc = b) \/ \E q \in Ptr(cfg)!Slots \ {p} : Val(cfg, P, q)
          /\ P[q].alloc = b
      <3>1. \A b \in A \ {a} : \E q \in Ptr(cfg)!Slots \ {p} : Val(cfg, P, q) /\ P[q].alloc = b
        BY <1>2, <1>3 DEF Owned
      <3> QED BY <1>8, <1>11, <1>13, <3>1
    <2>5. \A o \in {m, n} : P[o] = Ptr(cfg)!None /\ Val(cfg, Q, o) /\ Q[o].alloc \in B
      BY <1>3, <1>8, <1>11, <1>12, <1>13
    <2>6. \A o, u \in {m, n} : o # u => Q[o].alloc # Q[u].alloc
      BY <1>6, <1>8, <1>11
    <2>7. \A q \in {p} \cup {m, n} : Q[q] \in Lin => Q[q].been_read = Q[q].got
      BY <1>4, <1>8, <1>11
    <2>8. Exchanges(cfg, P, A, Q, B, {p}, {m, n})
      BY <1>3, <1>11, <1>12, <2>1, <2>3, <2>4, <2>5, <2>6, <2>7 DEF Exchanges
    <2> QED BY <2>8, Exchange
  <1>15. UseInv(cfg, Q, ops)
    <2>1. \A q \in Ptr(cfg)!Slots : Used(ops, q) => P[q] # Ptr(cfg)!None
      BY <1>3 DEF UseInv, Used
    <2>2. Q[p] # Ptr(cfg)!None
      BY <1>4, <1>11, ObjectKinds
    <2>3. Untouched(cfg, P, Q, ops)
      BY <1>0, <1>3, <1>11, <2>1, <2>2 DEF Untouched
    <2> QED BY <1>3, <2>3, UseKept
  <1>16. Owned(cfg, ptrs', B) /\ UseInv(cfg, ptrs', ops')
    BY <1>9, <1>14, <1>15, SetKept
  <1> QED BY <1>9, <1>13, <1>16

\* split and split_from_end.
LEMMA SplitPtr ==
    ASSUME NEW cfg, Ptr(cfg)!PointersAssumption, PtrInv(cfg), NEW p \in Ptr(cfg)!Slots, NEW size \in 0..Size,
           Ptr(cfg)!Split(p, size) \/ Ptr(cfg)!SplitFromEnd(p, size)
    PROVE  PtrInv(cfg)'
  <1>1. CASE Ptr(cfg)!Split(p, size)
    <2>1. Owned(cfg, ptrs', allocs') /\ UseInv(cfg, ptrs', ops')
      BY <1>1, SplitAtPtr DEF Ptr!Split
    <2> QED BY <1>1, <2>1 DEF Ptr!Split, PtrInv
  <1>2. CASE Ptr(cfg)!SplitFromEnd(p, size)
    <2>1. Ptr(cfg)!SizeOf(p) \in Nat /\ ptrs[p].alloc[1] \in Nat
      <3>1. Ptr(cfg)!Usable(p)
        BY <1>2 DEF Ptr!SplitFromEnd
      <3>2. ptrs[p].alloc \in Ranges
        BY <3>1 DEF Ptr!Usable, Ptr!Valid, Ptr!Exists, Ptr!Live, PtrInv, Owned
      <3> QED BY <3>2, RangeBounds DEF Ptr!SizeOf
    <2>2. PICK x : x = Ptr(cfg)!ExtraToRemove(p, size)
      OBVIOUS
    <2>3. x \in Nat /\ size \in Nat
      BY <2>1, <2>2 DEF Ptr!ExtraToRemove, Ptr!Near, Ptr!PointersAssumption
    <2>4. PICK at : at = Ptr(cfg)!SizeOf(p) - size - x
      OBVIOUS
    <2>5. at \in 1..(Ptr(cfg)!SizeOf(p) - 1)
      BY <1>2, <2>1, <2>2, <2>3, <2>4 DEF Ptr!SplitFromEnd
    <2>6. Ptr(cfg)!SplitAt(p, at) /\ Ptr(cfg)!Usable(p) /\ Ptr(cfg)!May(p)
      BY <1>2, <2>2, <2>4 DEF Ptr!SplitFromEnd
    <2>7. Owned(cfg, ptrs', allocs') /\ UseInv(cfg, ptrs', ops')
      BY <2>5, <2>6, SplitAtPtr
    <2>8. "read twice" \notin trouble => "read twice" \notin trouble'
      BY <1>2 DEF Ptr!SplitFromEnd
    <2> QED BY <2>7, <2>8 DEF PtrInv
  <1> QED BY <1>1, <1>2

\* merge: two pointers that lie next to each other become one.
LEMMA MergePtr ==
    ASSUME NEW cfg, Ptr(cfg)!PointersAssumption, PtrInv(cfg), NEW p \in Ptr(cfg)!Slots, NEW q \in Ptr(cfg)!Slots,
           Ptr(cfg)!Merge(p, q)
    PROVE  PtrInv(cfg)'
  <1>0. /\ p # q /\ Val(cfg, ptrs, p) /\ Val(cfg, ptrs, q) /\ (cfg.exclusive => ~Used(ops, p) /\ ~Used(ops, q))
        /\ UNCHANGED trouble
    BY MayTouch DEF Ptr!Merge, Ptr!Usable, Ptr!Valid, Ptr!Exists, Val
  <1>1. PICK n \in Ptr(cfg)!Slots : n = Ptr(cfg)!Nth(Ptr(cfg)!FreeSlots, 1) /\ ptrs[n] = Ptr(cfg)!None
    BY FreeSlot DEF Ptr!Merge
  <1>2. PICK P, A, a, b, w, y, z, x, Q :
            /\ P = ptrs /\ A = allocs /\ a = P[p].alloc /\ b = P[q].alloc /\ w = <<a[1], b[2]>>
            /\ y = [P[p] EXCEPT !.valid = FALSE] /\ z = [P[q] EXCEPT !.valid = FALSE]
            /\ x = Ptr(cfg)!Pointer("plain", w) /\ Q = [P EXCEPT ![p] = y, ![q] = z, ![n] = x]
    OBVIOUS
  <1>3. /\ Owned(cfg, P, A) /\ UseInv(cfg, P, ops) /\ Val(cfg, P, p) /\ Val(cfg, P, q) /\ P[p] \in Objects(cfg)
           /\ P[q] \in Objects(cfg)
        /\ P[n] = Ptr(cfg)!None
    BY <1>0, <1>1, <1>2 DEF PtrInv, Owned, Val
  <1>4. a \in A /\ b \in A /\ a \in Ranges /\ b \in Ranges /\ a # b
    BY <1>0, <1>2, <1>3 DEF Owned
  <1>5. /\ y \in Objects(cfg) /\ ~y.valid /\ (y \in Lin => y.been_read = y.got)
        /\ z \in Objects(cfg) /\ ~z.valid /\ (z \in Lin => z.been_read = z.got)
    <2>1. y \in Objects(cfg) /\ ~y.valid /\ (y \in Lin => P[p] \in Lin /\ y.been_read = P[p].been_read
          /\ y.got = P[p].got)
      <3>1. P[p] \in Objects(cfg)
        BY <1>3
      <3> QED BY <1>2, <3>1, Invalidated, Zenon
    <2>2. z \in Objects(cfg) /\ ~z.valid /\ (z \in Lin => P[q] \in Lin /\ z.been_read = P[q].been_read
          /\ z.got = P[q].got)
      <3>1. P[q] \in Objects(cfg)
        BY <1>3
      <3> QED BY <1>2, <3>1, Invalidated, Zenon
    <2>3. /\ P[p] \in Lin => P[p].been_read = P[p].got
          /\ P[q] \in Lin => P[q].been_read = P[q].got
      BY <1>3 DEF Owned
    <2> QED BY <2>1, <2>2, <2>3
  <1>6. /\ a[1] \in Nat /\ a[2] \in Nat /\ b[1] \in Nat /\ b[2] \in Nat /\ a[1] < a[2] /\ b[1] < b[2] /\ b[2] <= Size
        /\ a[2] = b[1] /\ w[1] = a[1] /\ w[2] = b[2] /\ Size \in Nat
    BY <1>2, <1>4, RangeBounds DEF Ptr!Merge, Ptr!PointersAssumption
  <1>7. w \in Ranges
    BY <1>2, <1>6 DEF Ranges
  <1>8. \A c \in A \ {a, b} : Apart(c, w) /\ Apart(w, c) /\ c # w
    <2>1. \A c \in A \ {a, b} : Apart(c, a) /\ Apart(c, b) /\ c[1] \in Nat /\ c[2] \in Nat /\ c[1] < c[2]
      BY <1>3, <1>4, RangeBounds DEF Owned
    <2> QED BY <1>6, <2>1 DEF Apart
  <1>9. x \in Objects(cfg) /\ x.valid /\ x.alloc = w /\ x \notin Lin
    BY <1>2, <1>7, Made
  <1>10. Ptr(cfg)!Set(Q, ops) /\ allocs' = (A \ {a, b}) \cup {w}
    BY <1>1, <1>2 DEF Ptr!Merge
  <1>11. n # p /\ n # q /\ P \in [Ptr(cfg)!Slots -> {Ptr(cfg)!None} \cup Objects(cfg)]
    BY <1>3 DEF Val, Owned
  <1>12. /\ Q \in [Ptr(cfg)!Slots -> {Ptr(cfg)!None} \cup Objects(cfg)] /\ Q[p] = y /\ Q[q] = z /\ Q[n] = x
         /\ \A o \in Ptr(cfg)!Slots \ ({p, q} \cup {n}) : Q[o] = P[o]
    BY <1>0, <1>2, <1>5, <1>9, <1>11
  <1>13. ~Val(cfg, Q, p) /\ ~Val(cfg, Q, q) /\ Val(cfg, Q, n)
    BY <1>5, <1>9, <1>12, ObjectKinds DEF Val
  <1>14. PICK B : B = (A \ {a, b}) \cup {w}
    OBVIOUS
  <1>15. Owned(cfg, Q, B)
    <2>1. B \subseteq Ranges /\ \A c, d \in B : c # d => Apart(c, d)
      <3>1. \A c \in A \ {a, b} : c \in Ranges
        BY <1>3 DEF Owned
      <3>2. \A c, d \in A \ {a, b} : c # d => Apart(c, d)
        BY <1>3 DEF Owned
      <3> QED BY <1>7, <1>8, <1>14, <3>1, <3>2
    <2>2. \A o \in Ptr(cfg)!Slots \ {p, q} : Val(cfg, P, o) => P[o].alloc \in A \ {a, b}
      BY <1>2, <1>3 DEF Owned
    <2>3. \A o \in Ptr(cfg)!Slots \ {p, q} : Val(cfg, P, o) => P[o].alloc \in B
          /\ \A u \in {n} : Q[u].alloc # P[o].alloc
      BY <1>8, <1>9, <1>12, <1>14, <2>2
    <2>4. \A c \in B : (\E u \in {n} : Q[u].alloc = c) \/ \E o \in Ptr(cfg)!Slots \ {p, q} : Val(cfg, P, o)
          /\ P[o].alloc = c
      <3>1. \A c \in A \ {a, b} : \E o \in Ptr(cfg)!Slots \ {p, q} : Val(cfg, P, o) /\ P[o].alloc = c
        BY <1>2, <1>3 DEF Owned
      <3> QED BY <1>9, <1>12, <1>14, <3>1
    <2>5. \A u \in {n} : P[u] = Ptr(cfg)!None /\ Val(cfg, Q, u) /\ Q[u].alloc \in B
      BY <1>3, <1>9, <1>12, <1>13, <1>14
    <2>6. \A o \in {p, q} \cup {n} : Q[o] \in Lin => Q[o].been_read = Q[o].got
      BY <1>5, <1>9, <1>12
    <2>7. \A o \in {p, q} : ~Val(cfg, Q, o)
      BY <1>13
    <2>8. \A o, u \in {n} : o # u => Q[o].alloc # Q[u].alloc
      OBVIOUS
    <2>9. Exchanges(cfg, P, A, Q, B, {p, q}, {n})
      BY <1>3, <1>12, <2>1, <2>3, <2>4, <2>5, <2>6, <2>7, <2>8 DEF Exchanges
    <2> QED BY <2>9, Exchange
  <1>16. UseInv(cfg, Q, ops)
    <2>1. \A o \in Ptr(cfg)!Slots : Used(ops, o) => P[o] # Ptr(cfg)!None
      BY <1>3 DEF UseInv, Used
    <2>2. Q[p] # Ptr(cfg)!None /\ Q[q] # Ptr(cfg)!None
      BY <1>5, <1>12, ObjectKinds
    <2>3. Untouched(cfg, P, Q, ops)
      BY <1>0, <1>3, <1>12, <2>1, <2>2 DEF Untouched
    <2> QED BY <1>3, <2>3, UseKept
  <1>17. Owned(cfg, ptrs', B) /\ UseInv(cfg, ptrs', ops')
    BY <1>10, <1>15, <1>16, SetKept
  <1> QED BY <1>0, <1>10, <1>14, <1>17 DEF PtrInv

\* write, read, borrowing and filling begin.
LEMMA BeginPtr ==
    ASSUME NEW cfg, Ptr(cfg)!PointersAssumption, PtrInv(cfg), NEW c \in Coroutines, NEW p \in Ptr(cfg)!Slots,
           \/ \E v \in cfg.values : \/ Ptr(cfg)!Write(c, p, v)
                                   \/ \E pc \in {"fill", "keep"} : Ptr(cfg)!Fill(c, p, v, pc)
           \/ \E pc \in {"read", "linear", "borrow"} : Ptr(cfg)!Use(c, p, pc)
    PROVE  PtrInv(cfg)'
  <1>0. /\ Val(cfg, ptrs, p) /\ (cfg.exclusive => ~Used(ops, p)) /\ UNCHANGED <<allocs, trouble>>
    BY MayTouch DEF Ptr!Write, Ptr!Fill, Ptr!Use, Ptr!Usable, Ptr!Valid, Ptr!Exists, Val
  <1>1. ptrs[p] \in Objects(cfg) /\ ptrs[p].alloc[1] \in 0..Size /\ Ptr(cfg)!Near(p) = ptrs[p].alloc[1]
    <2>1. ptrs[p] \in Objects(cfg)
      BY <1>0 DEF PtrInv, Owned, Val
    <2>2. ptrs[p].alloc \in Ranges
      BY <2>1, ObjectKinds
    <2> QED BY <2>1, <2>2 DEF Ranges, Ptr!Near
  <1>2. PICK u \in Uses(cfg) \cup Writes(cfg) :
            /\ u.ptr = p /\ u.pc \in cfg.ops /\ u.near = ptrs[p].alloc[1] /\ Ptr(cfg)!Await(c, u)
            /\ (u.pc \in {"read", "linear"} /\ ptrs[p] \in Lin => ~ptrs[p].been_read)
            /\ (u.pc = "linear" => ptrs[p] \in Lin)
    <2>1. CASE \E v \in cfg.values : \/ Ptr(cfg)!Write(c, p, v)
                                     \/ \E pc \in {"fill", "keep"} : Ptr(cfg)!Fill(c, p, v, pc)
      <3>1. PICK v \in cfg.values, pc \in {"write", "fill", "keep"} :
                IF pc = "write" THEN Ptr(cfg)!Write(c, p, v) ELSE Ptr(cfg)!Fill(c, p, v, pc)
        BY <2>1
      <3>2. PICK u : u = [pc |-> pc, ptr |-> p, near |-> Ptr(cfg)!Near(p), value |-> v, done |-> FALSE]
        OBVIOUS
      <3>3. u \in Writes(cfg) /\ u.ptr = p /\ u.pc = pc /\ u.near = ptrs[p].alloc[1]
        BY <1>1, <3>2 DEF Writes
      <3>4. Ptr(cfg)!Await(c, u) /\ pc \in cfg.ops
        BY <3>1, <3>2 DEF Ptr!Write, Ptr!Fill
      <3> QED BY <3>3, <3>4
    <2>2. CASE \E pc \in {"read", "linear", "borrow"} : Ptr(cfg)!Use(c, p, pc)
      <3>1. PICK pc \in {"read", "linear", "borrow"} : Ptr(cfg)!Use(c, p, pc)
        BY <2>2
      <3>2. PICK u : u = [pc |-> pc, ptr |-> p, near |-> Ptr(cfg)!Near(p)]
        OBVIOUS
      <3>3. u \in Uses(cfg) /\ u.ptr = p /\ u.pc = pc /\ u.near = ptrs[p].alloc[1]
        BY <1>1, <3>2 DEF Uses
      <3>4. /\ Ptr(cfg)!Await(c, u) /\ pc \in cfg.ops /\ (pc = "linear" => ptrs[p].kind = "linear")
            /\ (ptrs[p].kind = "linear" /\ pc # "borrow" => ~ptrs[p].been_read)
        BY <3>1, <3>2 DEF Ptr!Use
      <3> QED BY <1>1, <3>3, <3>4, ObjectKinds
    <2> QED BY <2>1, <2>2
  <1>3. PICK P, O : P = ptrs /\ O = [ops EXCEPT ![c] = u]
    OBVIOUS
  <1>4. Owned(cfg, P, allocs) /\ UseInv(cfg, P, ops)
    BY <1>3 DEF PtrInv
  <1>5. UseInv(cfg, P, O)
    BY <1>0, <1>2, <1>3, <1>4, UseBegins
  <1>6. Ptr(cfg)!Set(P, O)
    BY <1>2, <1>3 DEF Ptr!Await
  <1>7. Owned(cfg, ptrs', allocs) /\ UseInv(cfg, ptrs', ops')
    BY <1>4, <1>5, <1>6, SetKept
  <1> QED BY <1>0, <1>7 DEF PtrInv

\* The bytes arrive: the call goes on.
LEMMA StorePtr ==
    ASSUME NEW cfg, Ptr(cfg)!PointersAssumption, PtrInv(cfg), NEW c \in Coroutines, Ptr(cfg)!Store(c)
    PROVE  PtrInv(cfg)'
  <1>1. ops[c] \in Writes(cfg)
    <2>1. ops[c].pc \in {"write", "fill", "keep"}
      BY DEF Ptr!Store
    <2> QED BY <2>1, OpKinds DEF PtrInv
  <1>2. PICK u : u = [ops[c] EXCEPT !.done = TRUE]
    OBVIOUS
  <1>3. u \in Writes(cfg) /\ u.pc = ops[c].pc /\ u.ptr = ops[c].ptr /\ u.near = ops[c].near
    BY <1>1, <1>2 DEF Writes
  <1>4. PICK P, O : P = ptrs /\ O = [ops EXCEPT ![c] = u]
    OBVIOUS
  <1>5. Owned(cfg, P, allocs) /\ UseInv(cfg, P, ops) /\ Ptr(cfg)!Set(P, O) /\ UNCHANGED <<allocs, trouble>>
    BY <1>2, <1>4 DEF Ptr!Store, Ptr!Await, PtrInv
  <1>6. UseInv(cfg, P, O)
    <2>1. /\ O \in [Coroutines -> {Ptr(cfg)!Idle} \cup Uses(cfg) \cup Writes(cfg)]
          /\ \A d \in Coroutines : O[d].pc = ops[d].pc /\ (ops[d].pc # "idle" => O[d].ptr = ops[d].ptr
             /\ O[d].near = ops[d].near)
      <3>1. \A d \in Coroutines : O[d] = IF d = c THEN u ELSE ops[d]
        BY <1>4, <1>5 DEF UseInv
      <3>2. O \in [Coroutines -> {Ptr(cfg)!Idle} \cup Uses(cfg) \cup Writes(cfg)]
        BY <1>3, <1>4, <1>5 DEF UseInv
      <3> QED BY <1>1, <1>3, <3>1, <3>2
    <2> QED BY <1>5, <2>1 DEF UseInv
  <1>7. Owned(cfg, ptrs', allocs) /\ UseInv(cfg, ptrs', ops')
    BY <1>5, <1>6, SetKept
  <1> QED BY <1>5, <1>7 DEF PtrInv

\* A call returns, and its pointer is consumed, unless it is invalid by now.
LEMMA ReturnConsumes ==
    ASSUME NEW cfg, Ptr(cfg)!PointersAssumption, PtrInv(cfg), NEW c \in Coroutines, NEW p \in Ptr(cfg)!Slots,
           ops[c].pc # "idle", p = ops[c].ptr, Ptr(cfg)!FreeSlots # {}, UNCHANGED <<allocs, trouble>>, NEW x,
           Val(cfg, ptrs, p) => x \in Objects(cfg) /\ x.valid /\ x.alloc = ptrs[p].alloc /\ x \notin Lin,
           Ptr(cfg)!Return(c, IF ptrs[p].valid THEN Ptr(cfg)!Consume(p, x) ELSE ptrs)
    PROVE  PtrInv(cfg)'
  <1>1. ptrs[p] # Ptr(cfg)!None
    BY DEF PtrInv, UseInv
  <1>2. PICK O : O = [ops EXCEPT ![c] = Ptr(cfg)!Idle]
    OBVIOUS
  <1>3. UseInv(cfg, ptrs, O) /\ (cfg.exclusive => ~Used(O, p))
    BY <1>2, UseEnds DEF PtrInv
  <1>4. CASE ptrs[p].valid
    <2>1. ptrs[p] \in Objects(cfg) /\ Val(cfg, ptrs, p)
      BY <1>1, <1>4 DEF PtrInv, Owned, Val
    <2>2. PICK y \in Objects(cfg) : /\ ~y.valid /\ y.alloc = ptrs[p].alloc /\ (y \in Lin => y.been_read = y.got)
                                    /\ Ptr(cfg)!Consume(p, x) = [ptrs EXCEPT ![p] = y,
                                       ![Ptr(cfg)!Nth(Ptr(cfg)!FreeSlots, 1)] = x]
      <3>1. Owned(cfg, ptrs, allocs)
        BY DEF PtrInv
      <3>2. \E y \in Objects(cfg) : /\ ~y.valid /\ y.alloc = ptrs[p].alloc /\ (y \in Lin => y.been_read = y.got)
                                     /\ ConsumesTo(cfg, p, x, y)
        BY <1>1, <3>1, ConsumeIs
      <3> QED BY <3>2 DEF ConsumesTo
    <2>3. PICK Q : Q = Ptr(cfg)!Consume(p, x)
      OBVIOUS
    <2>4. Ptr(cfg)!Set(Q, O)
      BY <1>2, <1>4, <2>3 DEF Ptr!Return
    <2>5. /\ Owned(cfg, ptrs, allocs) /\ allocs' = allocs /\ trouble' = trouble
          /\ x \in Objects(cfg) /\ x.valid /\ x.alloc = ptrs[p].alloc /\ (x \in Lin => x.been_read = x.got)
      BY <2>1 DEF PtrInv
    <2>6. Q = [ptrs EXCEPT ![p] = y, ![Ptr(cfg)!Nth(Ptr(cfg)!FreeSlots, 1)] = x]
      BY <2>2, <2>3
    <2>7. Owned(cfg, ptrs', allocs') /\ UseInv(cfg, ptrs', ops')
      BY <1>3, <2>1, <2>2, <2>4, <2>5, <2>6, ConsumeStep
    <2> QED BY <2>5, <2>7 DEF PtrInv
  <1>5. CASE ~ptrs[p].valid
    <2>1. PICK P : P = ptrs
      OBVIOUS
    <2>2. Ptr(cfg)!Set(P, O)
      BY <1>2, <1>5, <2>1 DEF Ptr!Return
    <2>3. Owned(cfg, P, allocs) /\ UseInv(cfg, P, O)
      BY <1>3, <2>1 DEF PtrInv
    <2>4. Owned(cfg, ptrs', allocs) /\ UseInv(cfg, ptrs', ops')
      BY <2>2, <2>3, SetKept
    <2> QED BY <2>4 DEF PtrInv
  <1> QED BY <1>4, <1>5

\* _wrote does.
LEMMA WrotePtr ==
    ASSUME NEW cfg, Ptr(cfg)!PointersAssumption, PtrInv(cfg), NEW c \in Coroutines, Ptr(cfg)!Wrote(c)
    PROVE  PtrInv(cfg)'
  <1>1. ops[c].pc = "write" /\ Ptr(cfg)!FreeSlots # {} /\ UNCHANGED <<allocs, trouble>>
    BY DEF Ptr!Wrote
  <1>2. ops[c] \in Writes(cfg)
    BY <1>1, OpKinds DEF PtrInv
  <1>3. PICK p \in Ptr(cfg)!Slots : p = ops[c].ptr /\ ops[c].value \in cfg.values
    BY <1>2 DEF Writes
  <1>4. PICK x : x = Ptr(cfg)!Written(ptrs[p].alloc, ops[c].value)
    OBVIOUS
  <1>5. Val(cfg, ptrs, p) => x \in Objects(cfg) /\ x.valid /\ x.alloc = ptrs[p].alloc /\ x \notin Lin
    <2> SUFFICES ASSUME Val(cfg, ptrs, p)
                 PROVE  x \in Objects(cfg) /\ x.valid /\ x.alloc = ptrs[p].alloc /\ x \notin Lin
      OBVIOUS
    <2>1. ptrs[p] \in Objects(cfg)
      BY DEF Val, PtrInv, Owned
    <2>2. ptrs[p].alloc \in Ranges
      BY <2>1, ObjectKinds
    <2> QED BY <1>3, <1>4, <2>2, MadeWritten
  <1>6. Ptr(cfg)!Return(c, IF ptrs[p].valid THEN Ptr(cfg)!Consume(p, x) ELSE ptrs)
    BY <1>3, <1>4 DEF Ptr!Wrote
  <1> QED BY <1>1, <1>3, <1>5, <1>6, ReturnConsumes

\* The object after it has been read.
LEMMA BeenRead ==
    ASSUME NEW cfg, PtrInv(cfg), NEW p \in Ptr(cfg)!Slots, ptrs[p] # Ptr(cfg)!None
    PROVE  LET y == Ptr(cfg)!HasBeenRead(p) IN
           /\ y \in Objects(cfg) /\ y.alloc = ptrs[p].alloc /\ y.valid = ptrs[p].valid
           /\ (y \in Lin => y.been_read = y.got)
  <1>1. ptrs[p] \in Objects(cfg)
    BY DEF PtrInv, Owned
  <1>2. CASE ptrs[p].kind = "linear"
    <2>1. ptrs[p] \in Lin
      BY <1>1, <1>2, ObjectKinds
    <2>2. PICK y : y = [ptrs[p] EXCEPT !.been_read = TRUE, !.got = TRUE]
      OBVIOUS
    <2>3. y \in Lin /\ y.alloc = ptrs[p].alloc /\ y.valid = ptrs[p].valid /\ y.been_read = y.got
      BY <2>1, <2>2 DEF Lin
    <2> QED BY <1>2, <2>2, <2>3 DEF Ptr!HasBeenRead, Objects
  <1>3. CASE ptrs[p].kind # "linear"
    BY <1>1, <1>3 DEF Ptr!HasBeenRead, PtrInv, Owned
  <1> QED BY <1>2, <1>3

\* If nobody else touches the pointers in use, none is read twice.
LEMMA ReadOncePtr ==
    ASSUME NEW cfg, PtrInv(cfg), NEW c \in Coroutines, ops[c].pc \in {"read", "linear"}, Ptr(cfg)!ReadTwice(ops[c].ptr)
    PROVE  cfg.exclusive => "read twice" \notin trouble'
  <1> SUFFICES ASSUME cfg.exclusive PROVE "read twice" \notin trouble'
    OBVIOUS
  <1>1. PICK p : p = ops[c].ptr
    OBVIOUS
  <1>2. p \in Ptr(cfg)!Slots /\ Val(cfg, ptrs, p) /\ (ptrs[p] \in Lin => ~ptrs[p].been_read)
    <2>1. ops[c] \in Uses(cfg)
      BY OpKinds DEF PtrInv
    <2>2. p \in Ptr(cfg)!Slots
      BY <1>1, <2>1 DEF Uses
    <2> QED BY <1>1, <2>2 DEF PtrInv, UseInv
  <1>3. ~(ptrs[p].kind = "linear" /\ ptrs[p].got)
    <2>1. ptrs[p] \in Objects(cfg) /\ (ptrs[p] \in Lin => ptrs[p].been_read = ptrs[p].got)
      BY <1>2 DEF PtrInv, Owned, Val
    <2> QED BY <1>2, <2>1, ObjectKinds
  <1> QED BY <1>1, <1>3 DEF Ptr!ReadTwice, PtrInv

\* The object after a system call stored to it.
LEMMA BeenOverwritten ==
    ASSUME NEW cfg, PtrInv(cfg), NEW p \in Ptr(cfg)!Slots, ptrs[p] # Ptr(cfg)!None
    PROVE  LET y == Ptr(cfg)!Overwritten(p) IN
           /\ y \in Objects(cfg) /\ y.alloc = ptrs[p].alloc /\ y.valid = ptrs[p].valid
           /\ (y \in Lin => y.been_read = y.got) /\ (y \in Writ(cfg) => y.stale)
  <1>1. ptrs[p] \in Objects(cfg)
    BY DEF PtrInv, Owned
  <1>2. CASE ptrs[p].kind = "written"
    <2>1. ptrs[p] \in Writ(cfg)
      BY <1>1, <1>2, ObjectKinds
    <2>2. PICK y : y = [ptrs[p] EXCEPT !.stale = TRUE]
      OBVIOUS
    <2>3. y \in Writ(cfg) /\ y.alloc = ptrs[p].alloc /\ y.valid = ptrs[p].valid /\ y.stale
      BY <2>1, <2>2 DEF Writ
    <2>4. y \notin Lin
      BY <2>3 DEF Writ, Lin
    <2> QED BY <1>2, <2>2, <2>3, <2>4 DEF Ptr!Overwritten, Objects
  <1>3. CASE ptrs[p].kind # "written"
    <2>1. ptrs[p] \notin Writ(cfg)
      BY <1>1, <1>3, ObjectKinds
    <2> QED BY <1>1, <1>3, <2>1 DEF Ptr!Overwritten, PtrInv, Owned
  <1> QED BY <1>2, <1>3

\* A call returns, and its pointer has been read or overwritten, or nothing happened to it.
LEMMA ReturnWith ==
    ASSUME NEW cfg, PtrInv(cfg), NEW c \in Coroutines, NEW p \in Ptr(cfg)!Slots, ops[c].pc # "idle", p = ops[c].ptr,
           allocs' = allocs, NEW y,
           y \in Objects(cfg), y.alloc = ptrs[p].alloc, y.valid = ptrs[p].valid, y \in Lin => y.been_read = y.got,
           Ptr(cfg)!Return(c, [ptrs EXCEPT ![p] = y])
    PROVE  Owned(cfg, ptrs', allocs') /\ UseInv(cfg, ptrs', ops')
  <1>1. ptrs[p] # Ptr(cfg)!None
    BY DEF PtrInv, UseInv
  <1>2. PICK P, O : P = ptrs /\ O = [ops EXCEPT ![c] = Ptr(cfg)!Idle]
    OBVIOUS
  <1>3. Owned(cfg, P, allocs) /\ UseInv(cfg, P, O) /\ (cfg.exclusive => ~Used(O, p))
    BY <1>2, UseEnds DEF PtrInv
  <1>4. PICK Q : Q = [P EXCEPT ![p] = y]
    OBVIOUS
  <1>5. Ptr(cfg)!Set(Q, O)
    BY <1>2, <1>4 DEF Ptr!Return
  <1>6. Q \in [Ptr(cfg)!Slots -> {Ptr(cfg)!None} \cup Objects(cfg)]
        /\ \A q \in Ptr(cfg)!Slots : Q[q] = IF q = p THEN y ELSE P[q]
    BY <1>3, <1>4 DEF Owned
  <1>7. \A q \in Ptr(cfg)!Slots : (Val(cfg, Q, q) <=> Val(cfg, P, q)) /\ (Val(cfg, P, q) => Q[q].alloc = P[q].alloc)
                                  /\ (P[q] # Ptr(cfg)!None => Q[q] # Ptr(cfg)!None)
    BY <1>1, <1>2, <1>6, ObjectKinds DEF Val
  <1>8. \A q \in Ptr(cfg)!Slots : Q[q] \in Lin => Q[q].been_read = Q[q].got
    BY <1>3, <1>6 DEF Owned
  <1>9. Owned(cfg, Q, allocs)
    BY <1>3, <1>6, <1>7, <1>8 DEF Owned
  <1>10. Untouched(cfg, P, Q, O)
    BY <1>3, <1>6, <1>7 DEF Untouched, UseInv, Used
  <1>11. UseInv(cfg, Q, O)
    BY <1>3, <1>10, UseKept
  <1> QED BY <1>5, <1>9, <1>11, SetKept

\* A call returns, or is cancelled, and nothing happened to its pointer.
LEMMA ReturnPtr ==
    ASSUME NEW cfg, PtrInv(cfg), NEW c \in Coroutines, ops[c].pc # "idle", UNCHANGED <<allocs, trouble>>,
           Ptr(cfg)!Return(c, ptrs)
    PROVE  PtrInv(cfg)'
  <1>1. PICK P, O : P = ptrs /\ O = [ops EXCEPT ![c] = Ptr(cfg)!Idle]
    OBVIOUS
  <1>2. Owned(cfg, P, allocs) /\ UseInv(cfg, P, O)
    BY <1>1, UseEnds DEF PtrInv
  <1>3. Ptr(cfg)!Set(P, O)
    BY <1>1 DEF Ptr!Return
  <1>4. Owned(cfg, ptrs', allocs) /\ UseInv(cfg, ptrs', ops')
    BY <1>2, <1>3, SetKept
  <1> QED BY <1>4 DEF PtrInv

\* read, and a call that borrows the pointer, return; or a call is cancelled.
LEMMA UseReturnsPtr ==
    ASSUME NEW cfg, Ptr(cfg)!PointersAssumption, PtrInv(cfg), NEW c \in Coroutines, Ptr(cfg)!UseReturns(c)
           \/ Ptr(cfg)!Cancel(c)
    PROVE  PtrInv(cfg)'
  <1>0. ops[c] # Ptr(cfg)!Idle /\ allocs' = allocs
    BY DEF Ptr!UseReturns, Ptr!Cancel, Ptr!Idle
  <1>1. PICK p \in Ptr(cfg)!Slots : p = ops[c].ptr /\ ops[c].pc # "idle"
    <2>1. UseInv(cfg, ptrs, ops)
      BY DEF PtrInv
    <2>2. ops[c].pc # "idle" /\ ops[c].ptr \in Ptr(cfg)!Slots
      BY <1>0, <2>1, OpKinds
    <2> QED BY <2>2
  <1>2. CASE ops[c].pc = "read" /\ Ptr(cfg)!ReadTwice(p)
             /\ Ptr(cfg)!Return(c, [ptrs EXCEPT ![p] = Ptr(cfg)!HasBeenRead(p)])
    <2>1. PICK y : y = Ptr(cfg)!HasBeenRead(p)
      OBVIOUS
    <2>2. ptrs[p] # Ptr(cfg)!None
      BY <1>1 DEF PtrInv, UseInv
    <2>3. y \in Objects(cfg) /\ y.alloc = ptrs[p].alloc /\ y.valid = ptrs[p].valid /\ (y \in Lin => y.been_read = y.got)
      BY <2>1, <2>2, BeenRead
    <2>4. Owned(cfg, ptrs', allocs') /\ UseInv(cfg, ptrs', ops')
      BY <1>0, <1>1, <1>2, <2>1, <2>3, ReturnWith
    <2>5. cfg.exclusive => "read twice" \notin trouble'
      BY <1>1, <1>2, ReadOncePtr
    <2> QED BY <2>4, <2>5 DEF PtrInv
  <1>3. CASE Ptr(cfg)!Return(c, ptrs) /\ UNCHANGED trouble
    BY <1>0, <1>1, <1>3, ReturnPtr
  <1> QED BY <1>1, <1>2, <1>3 DEF Ptr!UseReturns, Ptr!Cancel

\* A system call that stores returns.
LEMMA FilledPtr ==
    ASSUME NEW cfg, Ptr(cfg)!PointersAssumption, PtrInv(cfg), NEW c \in Coroutines, Ptr(cfg)!Filled(c)
    PROVE  PtrInv(cfg)'
  <1>0. ops[c].pc \in {"fill", "keep"} /\ UNCHANGED <<allocs, trouble>>
    BY DEF Ptr!Filled
  <1>1. PICK p \in Ptr(cfg)!Slots : p = ops[c].ptr /\ ptrs[p] # Ptr(cfg)!None
    <2>1. ops[c] \in Writes(cfg)
      BY <1>0, OpKinds DEF PtrInv
    <2>2. ops[c].ptr \in Ptr(cfg)!Slots
      BY <2>1 DEF Writes
    <2> QED BY <1>0, <2>2 DEF PtrInv, UseInv
  <1>2. CASE Ptr(cfg)!Return(c, ptrs)
    BY <1>0, <1>2, ReturnPtr
  <1>3. CASE Ptr(cfg)!FreeSlots # {} /\ Ptr(cfg)!Return(c, IF ptrs[p].valid THEN Ptr(cfg)!Readable(p) ELSE ptrs)
    <2>1. PICK x : x = Ptr(cfg)!Pointer("readable", ptrs[p].alloc)
      OBVIOUS
    <2>2. ptrs[p] \in Objects(cfg)
      BY <1>1 DEF PtrInv, Owned
    <2>3. ptrs[p].alloc \in Ranges
      BY <2>2, ObjectKinds
    <2>4. x \in Objects(cfg) /\ x.valid /\ x.alloc = ptrs[p].alloc /\ x \notin Lin
      BY <2>1, <2>3, Made
    <2>5. Ptr(cfg)!Return(c, IF ptrs[p].valid THEN Ptr(cfg)!Consume(p, x) ELSE ptrs)
      BY <1>3, <2>1 DEF Ptr!Readable
    <2> QED BY <1>0, <1>1, <1>3, <2>4, <2>5, ReturnConsumes
  <1>4. CASE Ptr(cfg)!Return(c, [ptrs EXCEPT ![p] = Ptr(cfg)!Overwritten(p)])
    <2>1. PICK y : y = Ptr(cfg)!Overwritten(p)
      OBVIOUS
    <2>2. y \in Objects(cfg) /\ y.alloc = ptrs[p].alloc /\ y.valid = ptrs[p].valid /\ (y \in Lin => y.been_read = y.got)
      BY <1>1, <2>1, BeenOverwritten
    <2>3. Owned(cfg, ptrs', allocs') /\ UseInv(cfg, ptrs', ops')
      BY <1>0, <1>1, <1>4, <2>1, <2>2, ReturnWith
    <2> QED BY <1>0, <2>3 DEF PtrInv
  <1> QED BY <1>1, <1>2, <1>3, <1>4 DEF Ptr!Filled

\* linear_read hands the buffer over to a new pointer; that needs the old one to be
\* valid still.
LEMMA LinearReadPtr ==
    ASSUME NEW cfg, Ptr(cfg)!PointersAssumption, PtrInv(cfg), cfg.exclusive \/ "linear" \notin cfg.ops,
           NEW c \in Coroutines,
           Ptr(cfg)!LinearReadReturns(c)
    PROVE  PtrInv(cfg)'
  <1>0. ops[c].pc = "linear" /\ Ptr(cfg)!FreeSlots # {} /\ UNCHANGED allocs
    BY DEF Ptr!LinearReadReturns
  <1>1. PICK p \in Ptr(cfg)!Slots : p = ops[c].ptr
    BY <1>0, OpKinds DEF PtrInv, Ptr!Idle
  <1>2. cfg.exclusive /\ Val(cfg, ptrs, p) /\ ptrs[p] # Ptr(cfg)!None
    BY <1>0, <1>1 DEF PtrInv, UseInv, Val
  <1>3. PICK O : O = [ops EXCEPT ![c] = Ptr(cfg)!Idle]
    OBVIOUS
  <1>4. UseInv(cfg, ptrs, O) /\ ~Used(O, p)
    BY <1>0, <1>1, <1>2, <1>3, UseEnds DEF PtrInv
  <1>5. PICK z, y, x : /\ z = Ptr(cfg)!HasBeenRead(p) /\ y = [z EXCEPT !.valid = FALSE]
                       /\ x = Ptr(cfg)!Pointer("plain", ptrs[p].alloc)
    OBVIOUS
  <1>6. z \in Objects(cfg) /\ z.alloc = ptrs[p].alloc /\ (z \in Lin => z.been_read = z.got)
    BY <1>2, <1>5, BeenRead
  <1>7. y \in Objects(cfg) /\ ~y.valid /\ y.alloc = ptrs[p].alloc /\ (y \in Lin => y.been_read = y.got)
    BY <1>5, <1>6, Invalidated
  <1>8. x \in Objects(cfg) /\ x.valid /\ x.alloc = ptrs[p].alloc /\ x \notin Lin
    BY <1>5, <1>6, ObjectKinds, Made
  <1>9. PICK Q : Q = [ptrs EXCEPT ![p] = y, ![Ptr(cfg)!Nth(Ptr(cfg)!FreeSlots, 1)] = x]
    OBVIOUS
  <1>10. Ptr(cfg)!Set(Q, O)
    BY <1>1, <1>3, <1>5, <1>9 DEF Ptr!LinearReadReturns, Ptr!Return
  <1>11. Owned(cfg, ptrs', allocs') /\ UseInv(cfg, ptrs', ops')
    BY <1>0, <1>2, <1>4, <1>7, <1>8, <1>9, <1>10, ConsumeStep DEF PtrInv
  <1>12. cfg.exclusive => "read twice" \notin trouble'
    BY <1>0, ReadOncePtr DEF Ptr!LinearReadReturns
  <1> QED BY <1>11, <1>12 DEF PtrInv

\* There is no pointer.
LEMMA InitPtr ==
    ASSUME NEW cfg
    PROVE  Ptr(cfg)!Init => PtrInv(cfg)
  <1> SUFFICES ASSUME Ptr(cfg)!Init PROVE PtrInv(cfg)
    OBVIOUS
  <1>1. \A p \in Ptr(cfg)!Slots : ptrs[p] = Ptr(cfg)!None /\ ~Val(cfg, ptrs, p) /\ ptrs[p] \notin Lin
    BY ObjectKinds DEF Ptr!Init, Val, Objects
  <1>2. \A c \in Coroutines : ops[c].pc = "idle"
    BY DEF Ptr!Init, Ptr!Idle
  <1>3. Owned(cfg, ptrs, allocs)
    BY <1>1 DEF Ptr!Init, Owned
  <1>4. UseInv(cfg, ptrs, ops)
    BY <1>2 DEF Ptr!Init, UseInv
  <1> QED BY <1>3, <1>4 DEF PtrInv, Ptr!Init

\* Every step keeps it.
LEMMA NextPtr ==
    ASSUME NEW cfg, Ptr(cfg)!PointersAssumption, cfg.exclusive \/ "linear" \notin cfg.ops, PtrInv(cfg),
           [Ptr(cfg)!Next]_(Ptr(cfg)!vars)
    PROVE  PtrInv(cfg)'
  <1>1. CASE UNCHANGED Ptr(cfg)!vars
    BY <1>1 DEF Ptr!vars, PtrInv, Owned, UseInv, Val
  <1>2. CASE Ptr(cfg)!Next
    BY <1>2, MallocPtr, ConvertPtr, FreePtr, SplitPtr, MergePtr, BeginPtr, StorePtr, WrotePtr,
       FilledPtr, UseReturnsPtr, LinearReadPtr DEF Ptr!Next
  <1> QED BY <1>1, <1>2

\* Pointers that own their allocations own them alone, and all of them.
LEMMA PtrSafe ==
    ASSUME NEW cfg
    PROVE  PtrInv(cfg) => Ptr(cfg)!OneOwner /\ Ptr(cfg)!NoLeak
  BY DEF PtrInv, Owned, Val, Ptr!OneOwner, Ptr!NoLeak, Ptr!Valid, Ptr!Exists, Ptr!Live

\* Every valid pointer owns a live allocation that no other valid pointer owns, and every
\* live allocation has its pointer: if coroutines do not touch what others use; and if
\* they free, split, merge, convert and cast what others write, read, fill and borrow
\* meanwhile, but none calls linear_read, which does not look whether its pointer is
\* still valid.
THEOREM PointersOwn ==
    ASSUME NEW cfg, Ptr(cfg)!PointersAssumption, cfg.exclusive \/ "linear" \notin cfg.ops
    PROVE  Ptr(cfg)!Spec => [](Ptr(cfg)!OneOwner /\ Ptr(cfg)!NoLeak)
  BY PtrSafe, InitPtr, NextPtr, PTL DEF Ptr!Spec

\* What is in use is pinned, and no linear pointer was read twice.
LEMMA PtrPins ==
    ASSUME NEW cfg, cfg.exclusive
    PROVE  PtrInv(cfg) => Ptr(cfg)!BorrowPins /\ Ptr(cfg)!LinearReadOnce
  <1> SUFFICES ASSUME PtrInv(cfg) PROVE Ptr(cfg)!BorrowPins /\ Ptr(cfg)!LinearReadOnce
    OBVIOUS
  <1>1. ASSUME NEW c \in Coroutines, ops[c].pc # "idle"
        PROVE  Ptr(cfg)!Valid(ops[c].ptr) /\ Ptr(cfg)!Live(ptrs[ops[c].ptr].alloc)
               /\ Ptr(cfg)!Near(ops[c].ptr) = ops[c].near
    <2>1. ops[c].ptr \in Ptr(cfg)!Slots
      BY <1>1, OpKinds DEF PtrInv
    <2>2. Val(cfg, ptrs, ops[c].ptr) /\ ptrs[ops[c].ptr].alloc[1] = ops[c].near
      BY <1>1 DEF PtrInv, UseInv
    <2> QED BY <2>1, <2>2 DEF PtrInv, Owned, Val, Ptr!Valid, Ptr!Exists, Ptr!Live, Ptr!Near
  <1> QED BY <1>1 DEF Ptr!BorrowPins, Ptr!LinearReadOnce, PtrInv

\* When coroutines keep their hands off pointers that others use, a pointer in use stays
\* valid and where it is, and a linear pointer is read at most once, also when calls are
\* cancelled.
THEOREM PointersPinned ==
    ASSUME NEW cfg, Ptr(cfg)!PointersAssumption, cfg.exclusive
    PROVE  Ptr(cfg)!Spec => [](Ptr(cfg)!BorrowPins /\ Ptr(cfg)!LinearReadOnce)
  BY PtrPins, InitPtr, NextPtr, PTL DEF Ptr!Spec

-----------------------------------------------------------------------------
(* What a written pointer's memory holds                                   *)

\* A call of O has stored to p and not returned.
Writing(O, p) == \E c \in Coroutines : O[c].pc \in {"write", "fill", "keep"} /\ O[c].done /\ O[c].ptr = p

\* A written pointer that is not stale, and to which no call has stored, holds its value,
\* and so does the memory to which a write has just stored it.
MemInv(cfg) ==
    /\ mem \in [Ptr(cfg)!Bytes -> cfg.values \cup {Ptr(cfg)!Unwritten}]
    /\ \A p \in Ptr(cfg)!Slots : Val(cfg, ptrs, p) /\ ptrs[p] \in Writ(cfg) /\ ~ptrs[p].stale /\ ~Writing(ops, p) =>
         mem[ptrs[p].alloc[1]] = ptrs[p].value
    /\ \A c \in Coroutines : ops[c].pc = "write" /\ ops[c].done => mem[ops[c].near] = ops[c].value

\* What a step gives a valid pointer by Set is what it asked for.
LEMMA SetGives ==
    ASSUME NEW cfg, NEW Q, NEW O, Ptr(cfg)!Set(Q, O)
    PROVE  ops' = O /\ \A q \in Ptr(cfg)!Slots : Val(cfg, ptrs', q) => ptrs'[q] = Q[q] /\ Val(cfg, Q, q)
  BY DEF Ptr!Set, Val

\* A step that leaves memory alone and makes no written pointer, or one whose memory
\* holds its value already.
LEMMA HoldsStill ==
    ASSUME NEW cfg, MemInv(cfg), mem' = mem,
           \A q \in Ptr(cfg)!Slots : Val(cfg, ptrs', q) /\ ptrs'[q] \in Writ(cfg) =>
             \/ ptrs'[q].stale
             \/ Val(cfg, ptrs, q) /\ ptrs[q] = ptrs'[q] /\ (Writing(ops, q) => Writing(ops', q))
             \/ mem[ptrs'[q].alloc[1]] = ptrs'[q].value,
           \A c \in Coroutines : ops'[c].pc = "write" /\ ops'[c].done => ops'[c] = ops[c]
    PROVE  MemInv(cfg)'
  <1>1. \A q \in Ptr(cfg)!Slots : Val(cfg, ptrs', q) /\ ptrs'[q] \in Writ(cfg) /\ ~ptrs'[q].stale
                                   /\ ~Writing(ops', q) =>
          mem'[ptrs'[q].alloc[1]] = ptrs'[q].value
    BY DEF MemInv
  <1>2. \A c \in Coroutines : ops'[c].pc = "write" /\ ops'[c].done => mem'[ops'[c].near] = ops'[c].value
    BY DEF MemInv
  <1>3. mem' \in [Ptr(cfg)!Bytes -> cfg.values \cup {Ptr(cfg)!Unwritten}]
    BY DEF MemInv
  <1> QED BY <1>1, <1>2, <1>3 DEF MemInv, Val, Writing

\* A step that gives every valid pointer what it had, but for new ones that are not
\* written and others that become invalid, and lets the coroutines go on.
LEMMA PlainStep ==
    ASSUME NEW cfg, MemInv(cfg), mem' = mem, ops' = ops, NEW Q, Ptr(cfg)!Set(Q, ops),
           \A q \in Ptr(cfg)!Slots : Val(cfg, Q, q) => Q[q] = ptrs[q] \/ Q[q] \notin Writ(cfg)
    PROVE  MemInv(cfg)'
  <1>1. \A q \in Ptr(cfg)!Slots : Val(cfg, ptrs', q) => ptrs'[q] = Q[q] /\ Val(cfg, Q, q)
    BY SetGives
  <1>2. \A q \in Ptr(cfg)!Slots : Val(cfg, ptrs', q) /\ ptrs'[q] \in Writ(cfg) => Val(cfg, ptrs, q)
        /\ ptrs[q] = ptrs'[q]
    BY <1>1 DEF Val
  <1>3. \A q : Writing(ops', q) <=> Writing(ops, q)
    BY DEF Writing
  <1> QED BY <1>2, <1>3, HoldsStill

\* A conversion makes a written pointer of none, or keeps the value.
LEMMA ConvertMem ==
    ASSUME NEW cfg, Ptr(cfg)!PointersAssumption, cfg.exclusive, PtrInv(cfg), MemInv(cfg), NEW p \in Ptr(cfg)!Slots,
           Ptr(cfg)!Convert(p)
    PROVE  MemInv(cfg)'
  <1>0. /\ Val(cfg, ptrs, p) /\ ptrs[p] # Ptr(cfg)!None /\ Ptr(cfg)!FreeSlots # {} /\ ~Used(ops, p)
        /\ UNCHANGED <<allocs, mem, trouble>> /\ ptrs[p] \in Objects(cfg) /\ ptrs[p].alloc \in Ranges
    <2>1. Val(cfg, ptrs, p) /\ ptrs[p] # Ptr(cfg)!None /\ Ptr(cfg)!FreeSlots # {} /\ ~Used(ops, p)
          /\ UNCHANGED <<allocs, mem, trouble>>
      BY MayTouch DEF Ptr!Convert, Ptr!Usable, Ptr!Valid, Ptr!Exists, Val
    <2> QED BY <2>1, ObjectKinds DEF PtrInv, Owned
  <1>1. PICK x : /\ Ptr(cfg)!Set(Ptr(cfg)!Consume(p, x), ops)
                 /\ x \in Writ(cfg) => x = ptrs[p]
    <2>1. CASE Ptr(cfg)!Set(Ptr(cfg)!Readable(p), ops) \/ Ptr(cfg)!Set(Ptr(cfg)!Reinterpret(p), ops)
               \/ Ptr(cfg)!Set(Ptr(cfg)!Linearize(p), ops)
      BY <1>0, <2>1, Made DEF Ptr!Readable, Ptr!Reinterpret, Ptr!Linearize
    <2>2. CASE Ptr(cfg)!Set(Ptr(cfg)!WithMapping(p), ops)
      <3>1. CASE ptrs[p].kind = "linear"
        BY <1>0, <2>2, <3>1, Made DEF Ptr!WithMapping
      <3>2. CASE ptrs[p].kind # "linear"
        BY <2>2, <3>2 DEF Ptr!WithMapping
      <3> QED BY <3>1, <3>2
    <2> QED BY <2>1, <2>2 DEF Ptr!Convert
  <1>2. PICK n \in Ptr(cfg)!Slots : n = Ptr(cfg)!Nth(Ptr(cfg)!FreeSlots, 1) /\ ptrs[n] = Ptr(cfg)!None
    BY <1>0, FreeSlot
  <1>3. PICK y \in Objects(cfg) : /\ ~y.valid
                                  /\ Ptr(cfg)!Consume(p, x) = [ptrs EXCEPT ![p] = y,
                                     ![Ptr(cfg)!Nth(Ptr(cfg)!FreeSlots, 1)] = x]
    <2>1. Owned(cfg, ptrs, allocs)
      BY DEF PtrInv
    <2>2. \E y \in Objects(cfg) : /\ ~y.valid /\ y.alloc = ptrs[p].alloc /\ (y \in Lin => y.been_read = y.got)
                                   /\ ConsumesTo(cfg, p, x, y)
      BY <1>0, <2>1, ConsumeIs
    <2> QED BY <2>2 DEF ConsumesTo
  <1>4. PICK Q : Q = Ptr(cfg)!Consume(p, x)
    OBVIOUS
  <1>5. Ptr(cfg)!Set(Q, ops)
    BY <1>1, <1>4
  <1>6. \A q \in Ptr(cfg)!Slots : Q[q] = IF q = n THEN x ELSE IF q = p THEN y ELSE ptrs[q]
    BY <1>2, <1>3, <1>4 DEF PtrInv, Owned
  <1>7. ops' = ops /\ \A q \in Ptr(cfg)!Slots : Val(cfg, ptrs', q) => ptrs'[q] = Q[q] /\ Val(cfg, Q, q)
    BY <1>5, SetGives
  <1>8. \A q : Writing(ops', q) <=> Writing(ops, q)
    BY <1>7 DEF Writing
  <1>9. ptrs[p] \in Writ(cfg) => ptrs[p].stale \/ mem[ptrs[p].alloc[1]] = ptrs[p].value
    <2>1. ~Writing(ops, p)
      BY <1>0 DEF Used, Writing
    <2> QED BY <1>0, <2>1 DEF MemInv
  <1>10. ASSUME NEW q \in Ptr(cfg)!Slots, Val(cfg, ptrs', q), ptrs'[q] \in Writ(cfg)
         PROVE  \/ ptrs'[q].stale
                \/ Val(cfg, ptrs, q) /\ ptrs[q] = ptrs'[q]
                \/ mem[ptrs'[q].alloc[1]] = ptrs'[q].value
    <2>1. CASE q = n
      BY <1>1, <1>6, <1>7, <1>9, <1>10, <2>1
    <2>2. CASE q # n /\ q = p
      BY <1>3, <1>6, <1>7, <1>10, <2>2 DEF Val
    <2>3. CASE q # n /\ q # p
      BY <1>6, <1>7, <1>10, <2>3 DEF Val
    <2> QED BY <2>1, <2>2, <2>3
  <1> QED BY <1>0, <1>7, <1>8, <1>10, HoldsStill

\* malloc makes, and free leaves, no written pointer.
LEMMA FreshMem ==
    ASSUME NEW cfg, Ptr(cfg)!PointersAssumption, cfg.exclusive, PtrInv(cfg), MemInv(cfg),
           \/ \E s, e \in 0..Size : Ptr(cfg)!Malloc(s, e)
           \/ \E p \in Ptr(cfg)!Slots : Ptr(cfg)!Free(p)
    PROVE  MemInv(cfg)'
  <1>1. CASE \E s, e \in 0..Size : Ptr(cfg)!Malloc(s, e)
    <2>1. PICK s, e \in 0..Size : Ptr(cfg)!Malloc(s, e)
      BY <1>1
    <2>2. PICK x, Q : x = Ptr(cfg)!Pointer("plain", <<s, e>>)
               /\ Q = [ptrs EXCEPT ![Ptr(cfg)!Nth(Ptr(cfg)!FreeSlots, 1)] = x]
      OBVIOUS
    <2>3. Ptr(cfg)!Set(Q, ops) /\ UNCHANGED mem
      BY <2>1, <2>2 DEF Ptr!Malloc
    <2>4. x \notin Writ(cfg)
      BY <2>2 DEF Ptr!Pointer, Writ
    <2>5. \A q \in Ptr(cfg)!Slots : Q[q] = ptrs[q] \/ Q[q] \notin Writ(cfg)
      BY <2>2, <2>4 DEF PtrInv, Owned
    <2> QED BY <2>3, <2>5, PlainStep, SetGives
  <1>2. CASE \E p \in Ptr(cfg)!Slots : Ptr(cfg)!Free(p)
    <2>1. PICK p \in Ptr(cfg)!Slots : Ptr(cfg)!Free(p)
      BY <1>2
    <2>2. PICK y, Q : y = [ptrs[p] EXCEPT !.valid = FALSE] /\ Q = [ptrs EXCEPT ![p] = y]
      OBVIOUS
    <2>3. Ptr(cfg)!Set(Q, ops) /\ UNCHANGED mem
      BY <2>1, <2>2 DEF Ptr!Free
    <2>4. ~y.valid
      <3>1. ptrs[p] \in Objects(cfg)
        BY <2>1 DEF Ptr!Free, Ptr!Valid, Ptr!Exists, PtrInv, Owned
      <3> QED BY <2>2, <3>1, Invalidated
    <2>5. \A q \in Ptr(cfg)!Slots : Q[q] = IF q = p THEN y ELSE ptrs[q]
      BY <2>2 DEF PtrInv, Owned
    <2>6. \A q \in Ptr(cfg)!Slots : Val(cfg, Q, q) => Q[q] = ptrs[q] \/ Q[q] \notin Writ(cfg)
      BY <2>4, <2>5 DEF Val
    <2> QED BY <2>3, <2>6, PlainStep, SetGives
  <1> QED BY <1>1, <1>2

\* The pointers that a split makes are not written pointers.
LEMMA SplitMem ==
    ASSUME NEW cfg, Ptr(cfg)!PointersAssumption, cfg.exclusive, PtrInv(cfg), MemInv(cfg), NEW p \in Ptr(cfg)!Slots,
           ptrs[p] # Ptr(cfg)!None, NEW at, Ptr(cfg)!SplitAt(p, at), UNCHANGED mem
    PROVE  MemInv(cfg)'
  <1>1. PICK m, n \in Ptr(cfg)!Slots : m = Ptr(cfg)!Nth(Ptr(cfg)!FreeSlots, 1)
             /\ n = Ptr(cfg)!Nth(Ptr(cfg)!FreeSlots, 2)
    BY FreeSlot, PtrCardinality DEF Ptr!SplitAt
  <1>2. PICK y, l, r, Q :
            /\ y = [ptrs[p] EXCEPT !.valid = FALSE]
            /\ l = Ptr(cfg)!Pointer("plain", <<ptrs[p].alloc[1], ptrs[p].alloc[1] + at>>)
            /\ r = Ptr(cfg)!Pointer("plain", <<ptrs[p].alloc[1] + at, ptrs[p].alloc[2]>>)
            /\ Q = [ptrs EXCEPT ![p] = y, ![m] = l, ![n] = r]
    OBVIOUS
  <1>3. Ptr(cfg)!Set(Q, ops)
    BY <1>1, <1>2 DEF Ptr!SplitAt
  <1>4. ~y.valid
    <2>1. ptrs[p] \in Objects(cfg)
      BY DEF PtrInv, Owned
    <2> QED BY <1>2, <2>1, Invalidated
  <1>5. l \notin Writ(cfg) /\ r \notin Writ(cfg)
    BY <1>2 DEF Ptr!Pointer, Writ
  <1>6. \A q \in Ptr(cfg)!Slots : Q[q] = IF q = n THEN r ELSE IF q = m THEN l ELSE IF q = p THEN y ELSE ptrs[q]
    BY <1>1, <1>2 DEF PtrInv, Owned
  <1>7. \A q \in Ptr(cfg)!Slots : Val(cfg, Q, q) => Q[q] = ptrs[q] \/ Q[q] \notin Writ(cfg)
    BY <1>4, <1>5, <1>6 DEF Val
  <1> QED BY <1>3, <1>7, PlainStep, SetGives

\* Nor is the pointer that a merge makes.
LEMMA MergeMem ==
    ASSUME NEW cfg, Ptr(cfg)!PointersAssumption, cfg.exclusive, PtrInv(cfg), MemInv(cfg), NEW p \in Ptr(cfg)!Slots,
           NEW o \in Ptr(cfg)!Slots, Ptr(cfg)!Merge(p, o)
    PROVE  MemInv(cfg)'
  <1>0. ptrs[p] \in Objects(cfg) /\ ptrs[o] \in Objects(cfg) /\ UNCHANGED mem
    BY DEF Ptr!Merge, Ptr!Usable, Ptr!Valid, Ptr!Exists, PtrInv, Owned
  <1>1. PICK n \in Ptr(cfg)!Slots : n = Ptr(cfg)!Nth(Ptr(cfg)!FreeSlots, 1)
    BY FreeSlot DEF Ptr!Merge
  <1>2. PICK y, z, x, Q :
            /\ y = [ptrs[p] EXCEPT !.valid = FALSE] /\ z = [ptrs[o] EXCEPT !.valid = FALSE]
            /\ x = Ptr(cfg)!Pointer("plain", <<ptrs[p].alloc[1], ptrs[o].alloc[2]>>)
            /\ Q = [ptrs EXCEPT ![p] = y, ![o] = z, ![n] = x]
    OBVIOUS
  <1>3. Ptr(cfg)!Set(Q, ops)
    BY <1>1, <1>2 DEF Ptr!Merge
  <1>4. ~y.valid /\ ~z.valid
    BY <1>0, <1>2, Invalidated
  <1>5. x \notin Writ(cfg)
    BY <1>2 DEF Ptr!Pointer, Writ
  <1>6. \A q \in Ptr(cfg)!Slots : Q[q] = IF q = n THEN x ELSE IF q = o THEN z ELSE IF q = p THEN y ELSE ptrs[q]
    BY <1>1, <1>2 DEF PtrInv, Owned
  <1>7. \A q \in Ptr(cfg)!Slots : Val(cfg, Q, q) => Q[q] = ptrs[q] \/ Q[q] \notin Writ(cfg)
    BY <1>4, <1>5, <1>6 DEF Val
  <1> QED BY <1>0, <1>3, <1>7, PlainStep, SetGives

\* A call begins: nothing is stored yet.
LEMMA BeginMem ==
    ASSUME NEW cfg, PtrInv(cfg), MemInv(cfg), NEW c \in Coroutines, NEW p \in Ptr(cfg)!Slots,
           \/ \E v \in cfg.values : \/ Ptr(cfg)!Write(c, p, v)
                                   \/ \E pc \in {"fill", "keep"} : Ptr(cfg)!Fill(c, p, v, pc)
           \/ \E pc \in {"read", "linear", "borrow"} : Ptr(cfg)!Use(c, p, pc)
    PROVE  MemInv(cfg)'
  <1>0. UNCHANGED mem /\ ops[c] = Ptr(cfg)!Idle
    BY DEF Ptr!Write, Ptr!Fill, Ptr!Use
  <1>1. PICK u : (u.pc = "write" => ~u.done) /\ Ptr(cfg)!Set(ptrs, [ops EXCEPT ![c] = u])
    <2>1. CASE \E v \in cfg.values : \/ Ptr(cfg)!Write(c, p, v)
                                     \/ \E pc \in {"fill", "keep"} : Ptr(cfg)!Fill(c, p, v, pc)
      <3>1. PICK v \in cfg.values, pc \in {"write", "fill", "keep"} :
                IF pc = "write" THEN Ptr(cfg)!Write(c, p, v) ELSE Ptr(cfg)!Fill(c, p, v, pc)
        BY <2>1
      <3>2. PICK u : u = [pc |-> pc, ptr |-> p, near |-> Ptr(cfg)!Near(p), value |-> v, done |-> FALSE]
        OBVIOUS
      <3>3. ~u.done
        BY <3>2
      <3> QED BY <3>1, <3>2, <3>3 DEF Ptr!Write, Ptr!Fill, Ptr!Await
    <2>2. CASE \E pc \in {"read", "linear", "borrow"} : Ptr(cfg)!Use(c, p, pc)
      <3>1. PICK pc \in {"read", "linear", "borrow"} : Ptr(cfg)!Use(c, p, pc)
        BY <2>2
      <3>2. PICK u : u = [pc |-> pc, ptr |-> p, near |-> Ptr(cfg)!Near(p)]
        OBVIOUS
      <3>3. u.pc # "write"
        BY <3>2
      <3> QED BY <3>1, <3>2, <3>3 DEF Ptr!Use, Ptr!Await
    <2> QED BY <2>1, <2>2
  <1>2. PICK P, O : P = ptrs /\ O = [ops EXCEPT ![c] = u]
    OBVIOUS
  <1>3. ops' = O /\ \A q \in Ptr(cfg)!Slots : Val(cfg, ptrs', q) => ptrs'[q] = P[q] /\ Val(cfg, P, q)
    BY <1>1, <1>2, SetGives
  <1>4. \A d \in Coroutines : ops'[d] = IF d = c THEN u ELSE ops[d]
    BY <1>2, <1>3 DEF PtrInv, UseInv
  <1>5. \A q : Writing(ops, q) => Writing(ops', q)
    BY <1>0, <1>4 DEF Writing, Ptr!Idle
  <1>6. \A q \in Ptr(cfg)!Slots : Val(cfg, ptrs', q) => Val(cfg, ptrs, q) /\ ptrs[q] = ptrs'[q]
    BY ONLY <1>2, <1>3
  <1>7. \A d \in Coroutines : ops'[d].pc = "write" /\ ops'[d].done => ops'[d] = ops[d]
    BY ONLY <1>1, <1>4
  <1> QED BY <1>0, <1>5, <1>6, <1>7, HoldsStill

\* Two pointers, both valid, begin at different bytes.
LEMMA NearsDiffer ==
    ASSUME NEW cfg, Ptr(cfg)!PointersAssumption, PtrInv(cfg), NEW p \in Ptr(cfg)!Slots, NEW q \in Ptr(cfg)!Slots, p # q,
           Val(cfg, ptrs, p), Val(cfg, ptrs, q)
    PROVE  ptrs[p].alloc[1] # ptrs[q].alloc[1] /\ ptrs[p].alloc[1] \in Ptr(cfg)!Bytes
  <1>1. PICK a, b : a = ptrs[p].alloc /\ b = ptrs[q].alloc
    OBVIOUS
  <1>2. a \in allocs /\ b \in allocs /\ a # b /\ a \in Ranges /\ b \in Ranges
    BY <1>1 DEF PtrInv, Owned
  <1>3. Apart(a, b)
    BY <1>2 DEF PtrInv, Owned
  <1>4. /\ a[1] \in Nat /\ a[2] \in Nat /\ a[1] < a[2] /\ a[2] <= Size
        /\ b[1] \in Nat /\ b[2] \in Nat /\ b[1] < b[2] /\ Size \in Nat
    BY <1>2, RangeBounds DEF Ptr!PointersAssumption
  <1> QED BY <1>1, <1>3, <1>4 DEF Apart, Ptr!Bytes

\* The bytes arrive, in memory that is no other valid pointer's.
LEMMA StoreMem ==
    ASSUME NEW cfg, Ptr(cfg)!PointersAssumption, cfg.exclusive, PtrInv(cfg), MemInv(cfg), NEW c \in Coroutines,
           Ptr(cfg)!Store(c)
    PROVE  MemInv(cfg)'
  <1>1. /\ ops[c].pc \in {"write", "fill", "keep"} /\ ops[c] \in Writes(cfg)
        /\ mem' = [mem EXCEPT ![ops[c].near] = ops[c].value]
    <2>1. ops[c].pc \in {"write", "fill", "keep"} /\ mem' = [mem EXCEPT ![ops[c].near] = ops[c].value]
      BY DEF Ptr!Store
    <2> QED BY <2>1, OpKinds DEF PtrInv
  <1>2. PICK u : u = [ops[c] EXCEPT !.done = TRUE]
    OBVIOUS
  <1>3. /\ u.pc = ops[c].pc /\ u.done /\ u.ptr = ops[c].ptr /\ u.near = ops[c].near
        /\ u.value = ops[c].value /\ u.value \in cfg.values
    BY <1>1, <1>2 DEF Writes
  <1>4. PICK P, O : P = ptrs /\ O = [ops EXCEPT ![c] = u]
    OBVIOUS
  <1>5. Ptr(cfg)!Set(P, O)
    BY <1>2, <1>4 DEF Ptr!Store, Ptr!Await
  <1>6. ops' = O /\ \A q \in Ptr(cfg)!Slots : Val(cfg, ptrs', q) => ptrs'[q] = P[q] /\ Val(cfg, P, q)
    BY <1>5, SetGives
  <1>7. \A d \in Coroutines : ops'[d] = IF d = c THEN u ELSE ops[d]
    BY <1>4, <1>6 DEF PtrInv, UseInv
  <1>8. PICK p \in Ptr(cfg)!Slots : p = ops[c].ptr /\ Val(cfg, ptrs, p) /\ ptrs[p].alloc[1] = ops[c].near
    <2>1. ops[c].ptr \in Ptr(cfg)!Slots
      BY <1>1 DEF Writes
    <2> QED BY <1>1, <2>1 DEF PtrInv, UseInv
  <1>9. ops[c].near \in Ptr(cfg)!Bytes
    <2>1. ptrs[p].alloc \in Ranges /\ Size \in Nat
      BY <1>8 DEF PtrInv, Owned, Ptr!PointersAssumption
    <2> QED BY <1>8, <2>1, RangeBounds DEF Ptr!Bytes
  <1>10. /\ mem' \in [Ptr(cfg)!Bytes -> cfg.values \cup {Ptr(cfg)!Unwritten}] /\ mem'[ops[c].near] = ops[c].value
         /\ \A b : b # ops[c].near => mem'[b] = mem[b]
    <2>1. mem' \in [Ptr(cfg)!Bytes -> cfg.values \cup {Ptr(cfg)!Unwritten}] /\ mem'[ops[c].near] = ops[c].value
      BY <1>1, <1>3, <1>9 DEF MemInv
    <2> QED BY <1>1, <1>9, <2>1 DEF MemInv
  <1>11. ASSUME NEW q \in Ptr(cfg)!Slots, Val(cfg, ptrs', q), ptrs'[q] \in Writ(cfg), ~ptrs'[q].stale,
                ~Writing(ops', q)
         PROVE  mem'[ptrs'[q].alloc[1]] = ptrs'[q].value
    <2>1. ptrs'[q] = ptrs[q] /\ Val(cfg, ptrs, q)
      BY <1>4, <1>6, <1>11
    <2>2. q # p
      BY <1>1, <1>3, <1>7, <1>8, <1>11 DEF Writing
    <2>3. ~Writing(ops, q)
      BY <1>1, <1>3, <1>7, <1>11 DEF Writing
    <2>4. ptrs[q].alloc[1] # ops[c].near
      BY <1>8, <2>1, <2>2, NearsDiffer
    <2>5. mem[ptrs[q].alloc[1]] = ptrs[q].value
      BY <1>11, <2>1, <2>3 DEF MemInv
    <2> QED BY <1>10, <2>1, <2>4, <2>5
  <1>12. ASSUME NEW d \in Coroutines, ops'[d].pc = "write", ops'[d].done
         PROVE  mem'[ops'[d].near] = ops'[d].value
    <2>1. CASE d = c
      BY <1>3, <1>7, <1>10, <2>1
    <2>2. CASE d # c
      <3>1. ops'[d] = ops[d] /\ mem[ops[d].near] = ops[d].value
        BY <1>7, <1>12, <2>2 DEF MemInv
      <3>2. ops[d].ptr \in Ptr(cfg)!Slots /\ Val(cfg, ptrs, ops[d].ptr) /\ ptrs[ops[d].ptr].alloc[1] = ops[d].near
            /\ ops[d].ptr # p
        <4>1. ops[d] \in Writes(cfg)
          BY <1>12, <3>1, OpKinds DEF PtrInv
        <4>2. ops[d].ptr \in Ptr(cfg)!Slots
          BY <4>1 DEF Writes
        <4> QED BY <1>1, <1>8, <1>12, <2>2, <3>1, <4>2 DEF PtrInv, UseInv
      <3>3. ops[d].near # ops[c].near
        BY <1>8, <3>2, NearsDiffer
      <3> QED BY <1>10, <3>1, <3>3
    <2> QED BY <2>1, <2>2
  <1> QED BY <1>10, <1>11, <1>12 DEF MemInv, Val, Writing

\* A call returns, and its pointer becomes another: if that is written, memory holds its
\* value.
LEMMA ReturnConsumesMem ==
    ASSUME NEW cfg, Ptr(cfg)!PointersAssumption, cfg.exclusive, PtrInv(cfg), MemInv(cfg), NEW c \in Coroutines,
           NEW p \in Ptr(cfg)!Slots, p = ops[c].ptr, Val(cfg, ptrs, p), Ptr(cfg)!FreeSlots # {}, UNCHANGED mem, NEW x,
           x \in Writ(cfg) => mem[x.alloc[1]] = x.value, Ptr(cfg)!Return(c, Ptr(cfg)!Consume(p, x))
    PROVE  MemInv(cfg)'
  <1>1. PICK n \in Ptr(cfg)!Slots : n = Ptr(cfg)!Nth(Ptr(cfg)!FreeSlots, 1) /\ ptrs[n] = Ptr(cfg)!None
    BY FreeSlot
  <1>2. PICK O : O = [ops EXCEPT ![c] = Ptr(cfg)!Idle]
    OBVIOUS
  <1>3. PICK y \in Objects(cfg) : ~y.valid /\ Ptr(cfg)!Consume(p, x) = [ptrs EXCEPT ![p] = y,
             ![Ptr(cfg)!Nth(Ptr(cfg)!FreeSlots, 1)] = x]
    <2>1. ptrs[p] # Ptr(cfg)!None /\ Owned(cfg, ptrs, allocs)
      BY DEF PtrInv, Val
    <2>2. \E y \in Objects(cfg) : /\ ~y.valid /\ y.alloc = ptrs[p].alloc /\ (y \in Lin => y.been_read = y.got)
                               /\ ConsumesTo(cfg, p, x, y)
      BY <2>1, ConsumeIs
    <2> QED BY <2>2 DEF ConsumesTo
  <1>4. PICK Q : Q = Ptr(cfg)!Consume(p, x)
    OBVIOUS
  <1>5. Ptr(cfg)!Set(Q, O)
    BY <1>2, <1>4 DEF Ptr!Return
  <1>6. \A q \in Ptr(cfg)!Slots : Q[q] = IF q = n THEN x ELSE IF q = p THEN y ELSE ptrs[q]
    <2>1. Q = [ptrs EXCEPT ![p] = y, ![n] = x] /\ DOMAIN ptrs = Ptr(cfg)!Slots
      BY <1>1, <1>3, <1>4 DEF PtrInv, Owned
    <2> QED BY <2>1
  <1>7. ops' = O /\ \A q \in Ptr(cfg)!Slots : Val(cfg, ptrs', q) => ptrs'[q] = Q[q] /\ Val(cfg, Q, q)
    BY <1>5, SetGives
  <1>8. \A d \in Coroutines : ops'[d] = IF d = c THEN Ptr(cfg)!Idle ELSE ops[d]
    BY <1>2, <1>7 DEF PtrInv, UseInv
  <1>9. \A d \in Coroutines : ops'[d].pc # "idle" => ops'[d] = ops[d]
    BY <1>8 DEF Ptr!Idle
  <1>10. \A q : Writing(ops, q) /\ q # p => Writing(ops', q)
    BY <1>8 DEF Writing
  <1>11. ASSUME NEW q \in Ptr(cfg)!Slots, Val(cfg, ptrs', q), ptrs'[q] \in Writ(cfg)
         PROVE  \/ Val(cfg, ptrs, q) /\ ptrs[q] = ptrs'[q] /\ (Writing(ops, q) => Writing(ops', q))
                \/ mem[ptrs'[q].alloc[1]] = ptrs'[q].value
    <2>1. CASE q = n
      BY <1>6, <1>7, <1>11, <2>1
    <2>2. CASE q # n /\ q = p
      BY <1>3, <1>6, <1>7, <1>11, <2>2 DEF Val
    <2>3. CASE q # n /\ q # p
      BY <1>6, <1>7, <1>10, <1>11, <2>3 DEF Val
    <2> QED BY <2>1, <2>2, <2>3
  <1> QED BY <1>9, <1>11, HoldsStill

\* What a call that stores uses, if nobody else touches it.
LEMMA StoresTo ==
    ASSUME NEW cfg, cfg.exclusive, PtrInv(cfg), NEW c \in Coroutines, ops[c].pc \in {"write", "fill", "keep"}
    PROVE  /\ ops[c].ptr \in Ptr(cfg)!Slots /\ Val(cfg, ptrs, ops[c].ptr)
           /\ ptrs[ops[c].ptr].alloc[1] = ops[c].near /\ ops[c].value \in cfg.values
  <1>1. ops[c] \in Writes(cfg)
    BY OpKinds DEF PtrInv
  <1>2. ops[c].ptr \in Ptr(cfg)!Slots /\ ops[c].value \in cfg.values
    BY <1>1 DEF Writes
  <1> QED BY <1>2 DEF PtrInv, UseInv

\* _wrote makes a written pointer to what was stored.
LEMMA WroteMem ==
    ASSUME NEW cfg, Ptr(cfg)!PointersAssumption, cfg.exclusive, PtrInv(cfg), MemInv(cfg), NEW c \in Coroutines,
           Ptr(cfg)!Wrote(c)
    PROVE  MemInv(cfg)'
  <1>1. ops[c].pc = "write" /\ ops[c].done /\ Ptr(cfg)!FreeSlots # {} /\ UNCHANGED mem
    BY DEF Ptr!Wrote
  <1>2. PICK p \in Ptr(cfg)!Slots : p = ops[c].ptr /\ Val(cfg, ptrs, p) /\ ptrs[p].alloc[1] = ops[c].near
    BY <1>1, StoresTo
  <1>3. PICK x : x = Ptr(cfg)!Written(ptrs[p].alloc, ops[c].value)
    OBVIOUS
  <1>4. mem[x.alloc[1]] = x.value
    <2>1. x.alloc = ptrs[p].alloc /\ x.value = ops[c].value
      BY <1>3 DEF Ptr!Written
    <2> QED BY <1>1, <1>2, <2>1 DEF MemInv
  <1>5. Ptr(cfg)!Return(c, Ptr(cfg)!Consume(p, x))
    BY <1>2, <1>3 DEF Ptr!Wrote, Val
  <1> QED BY <1>1, <1>2, <1>4, <1>5, ReturnConsumesMem

\* A system call that stores returns: what it stored is in a pointer that is not
\* written, or in a stale one.
LEMMA FilledMem ==
    ASSUME NEW cfg, Ptr(cfg)!PointersAssumption, cfg.exclusive, PtrInv(cfg), MemInv(cfg), NEW c \in Coroutines,
           Ptr(cfg)!Filled(c)
    PROVE  MemInv(cfg)'
  <1>0. ops[c].pc \in {"fill", "keep"} /\ UNCHANGED mem
    BY DEF Ptr!Filled
  <1>1. PICK p \in Ptr(cfg)!Slots : p = ops[c].ptr /\ Val(cfg, ptrs, p)
    BY <1>0, StoresTo
  <1>2. CASE Ptr(cfg)!FreeSlots # {} /\ Ptr(cfg)!Return(c, IF ptrs[p].valid THEN Ptr(cfg)!Readable(p) ELSE ptrs)
    <2>1. PICK x : x = Ptr(cfg)!Pointer("readable", ptrs[p].alloc)
      OBVIOUS
    <2>2. x \notin Writ(cfg)
      BY <2>1 DEF Ptr!Pointer, Writ
    <2>3. Ptr(cfg)!Return(c, Ptr(cfg)!Consume(p, x))
      BY <1>1, <1>2, <2>1 DEF Ptr!Readable, Val
    <2> QED BY <1>0, <1>1, <1>2, <2>2, <2>3, ReturnConsumesMem
  <1>3. ASSUME NEW y, Ptr(cfg)!Return(c, [ptrs EXCEPT ![p] = y]),
               y \in Writ(cfg) => y.stale \/ (y = ptrs[p] /\ ~ops[c].done)
        PROVE  MemInv(cfg)'
    <2>1. PICK O, Q : O = [ops EXCEPT ![c] = Ptr(cfg)!Idle] /\ Q = [ptrs EXCEPT ![p] = y]
      OBVIOUS
    <2>2. Ptr(cfg)!Set(Q, O)
      BY <1>3, <2>1 DEF Ptr!Return
    <2>3. \A q \in Ptr(cfg)!Slots : Q[q] = IF q = p THEN y ELSE ptrs[q]
      BY <2>1 DEF PtrInv, Owned
    <2>4. ops' = O /\ \A q \in Ptr(cfg)!Slots : Val(cfg, ptrs', q) => ptrs'[q] = Q[q] /\ Val(cfg, Q, q)
      BY <2>2, SetGives
    <2>5. \A d \in Coroutines : ops'[d] = IF d = c THEN Ptr(cfg)!Idle ELSE ops[d]
      BY <2>1, <2>4 DEF PtrInv, UseInv
    <2>6. \A d \in Coroutines : ops'[d].pc # "idle" => ops'[d] = ops[d]
      BY <2>5 DEF Ptr!Idle
    <2>7. \A q : Writing(ops, q) /\ (q # p \/ ~ops[c].done) => Writing(ops', q)
      BY <1>1, <2>5 DEF Writing
    <2>8. ASSUME NEW q \in Ptr(cfg)!Slots, Val(cfg, ptrs', q), ptrs'[q] \in Writ(cfg)
          PROVE  \/ ptrs'[q].stale
                 \/ Val(cfg, ptrs, q) /\ ptrs[q] = ptrs'[q] /\ (Writing(ops, q) => Writing(ops', q))
      <3>1. CASE q = p
        BY <1>1, <1>3, <2>3, <2>4, <2>7, <2>8, <3>1
      <3>2. CASE q # p
        BY <2>3, <2>4, <2>7, <2>8, <3>2 DEF Val
      <3> QED BY <3>1, <3>2
    <2> QED BY <1>0, <2>6, <2>8, HoldsStill
  <1>4. CASE ~ops[c].done /\ Ptr(cfg)!Return(c, ptrs)
    <2>1. PICK y : y = ptrs[p]
      OBVIOUS
    <2>2. [ptrs EXCEPT ![p] = y] = ptrs
      BY <2>1 DEF PtrInv, Owned
    <2> QED BY <1>3, <1>4, <2>1, <2>2
  <1>5. CASE Ptr(cfg)!Return(c, [ptrs EXCEPT ![p] = Ptr(cfg)!Overwritten(p)])
    BY <1>1, <1>3, <1>5, BeenOverwritten DEF Val
  <1> QED BY <1>1, <1>2, <1>4, <1>5 DEF Ptr!Filled

\* The other calls return.
LEMMA ReturnMem ==
    ASSUME NEW cfg, Ptr(cfg)!PointersAssumption, cfg.exclusive, "cancel" \notin cfg.ops, PtrInv(cfg), MemInv(cfg),
           NEW c \in Coroutines,
           Ptr(cfg)!UseReturns(c) \/ Ptr(cfg)!LinearReadReturns(c)
    PROVE  MemInv(cfg)'
  <1>0. ops[c].pc \in {"read", "borrow", "linear"} /\ UNCHANGED mem
    BY DEF Ptr!UseReturns, Ptr!LinearReadReturns
  <1>1. PICK p \in Ptr(cfg)!Slots : p = ops[c].ptr /\ Val(cfg, ptrs, p) /\ ptrs[p] \in Objects(cfg)
    <2>1. ops[c] \in Uses(cfg)
      BY <1>0, OpKinds DEF PtrInv
    <2>2. ops[c].ptr \in Ptr(cfg)!Slots
      BY <2>1 DEF Uses
    <2>3. Val(cfg, ptrs, ops[c].ptr)
      BY <1>0, <2>2 DEF PtrInv, UseInv
    <2> QED BY <2>2, <2>3 DEF PtrInv, Owned, Val
  <1>2. PICK O : O = [ops EXCEPT ![c] = Ptr(cfg)!Idle]
    OBVIOUS
  <1>3. PICK Q : Ptr(cfg)!Set(Q, O) /\ \A q \in Ptr(cfg)!Slots : Val(cfg, Q, q) => Q[q] = ptrs[q]
             \/ Q[q] \notin Writ(cfg)
    <2>1. PICK z : z = Ptr(cfg)!HasBeenRead(p)
      OBVIOUS
    <2>2. z \in Objects(cfg) /\ (z = ptrs[p] \/ z \notin Writ(cfg))
      <3>1. z \in Objects(cfg)
        BY <1>1, <2>1, BeenRead DEF Val
      <3>2. CASE ptrs[p].kind = "linear"
        <4>1. ptrs[p] \in Lin
          BY <1>1, <3>2, ObjectKinds
        <4>2. z.kind = "linear"
          BY <2>1, <3>2, <4>1 DEF Ptr!HasBeenRead, Lin
        <4> QED BY <3>1, <4>2, ObjectKinds
      <3> QED BY <2>1, <3>1, <3>2 DEF Ptr!HasBeenRead
    <2>3. CASE ops[c].pc = "read" /\ Ptr(cfg)!Return(c, [ptrs EXCEPT ![p] = z])
      <3>1. PICK Q : Q = [ptrs EXCEPT ![p] = z]
        OBVIOUS
      <3>2. \A q \in Ptr(cfg)!Slots : Q[q] = IF q = p THEN z ELSE ptrs[q]
        BY <3>1 DEF PtrInv, Owned
      <3>3. Ptr(cfg)!Set(Q, O)
        BY <1>2, <2>3, <3>1 DEF Ptr!Return
      <3>4. \A q \in Ptr(cfg)!Slots : Val(cfg, Q, q) => Q[q] = ptrs[q] \/ Q[q] \notin Writ(cfg)
        BY <2>2, <3>2
      <3> QED BY <3>3, <3>4
    <2>4. CASE Ptr(cfg)!Return(c, ptrs)
      BY <1>2, <2>4 DEF Ptr!Return
    <2>5. CASE Ptr(cfg)!LinearReadReturns(c)
      <3>1. PICK n \in Ptr(cfg)!Slots : n = Ptr(cfg)!Nth(Ptr(cfg)!FreeSlots, 1)
        BY <2>5, FreeSlot DEF Ptr!LinearReadReturns
      <3>2. PICK y, x, Q : /\ y = [z EXCEPT !.valid = FALSE] /\ x = Ptr(cfg)!Pointer("plain", ptrs[p].alloc)
                           /\ Q = [ptrs EXCEPT ![p] = y, ![n] = x]
        OBVIOUS
      <3>3. Ptr(cfg)!Set(Q, O)
        BY <1>1, <1>2, <2>1, <2>5, <3>1, <3>2 DEF Ptr!LinearReadReturns, Ptr!Return
      <3>4. ~y.valid
        BY <2>2, <3>2, Invalidated
      <3>5. x \notin Writ(cfg)
        BY <3>2 DEF Ptr!Pointer, Writ
      <3>6. \A q \in Ptr(cfg)!Slots : Q[q] = IF q = n THEN x ELSE IF q = p THEN y ELSE ptrs[q]
        BY <3>2 DEF PtrInv, Owned
      <3>7. \A q \in Ptr(cfg)!Slots : Val(cfg, Q, q) => Q[q] = ptrs[q] \/ Q[q] \notin Writ(cfg)
        BY <3>4, <3>5, <3>6 DEF Val
      <3> QED BY <3>3, <3>7
    <2> QED BY <1>1, <2>1, <2>3, <2>4, <2>5 DEF Ptr!UseReturns
  <1>4. ops' = O /\ \A q \in Ptr(cfg)!Slots : Val(cfg, ptrs', q) => ptrs'[q] = Q[q] /\ Val(cfg, Q, q)
    BY <1>3, SetGives
  <1>5. \A d \in Coroutines : ops'[d] = IF d = c THEN Ptr(cfg)!Idle ELSE ops[d]
    BY <1>2, <1>4 DEF PtrInv, UseInv
  <1>6. \A d \in Coroutines : ops'[d].pc # "idle" => ops'[d] = ops[d]
    BY <1>5 DEF Ptr!Idle
  <1>7. \A q : Writing(ops, q) => Writing(ops', q)
    BY <1>0, <1>5 DEF Writing
  <1>8. \A q \in Ptr(cfg)!Slots : Val(cfg, ptrs', q) /\ ptrs'[q] \in Writ(cfg) => Val(cfg, ptrs, q)
        /\ ptrs[q] = ptrs'[q]
    BY <1>3, <1>4 DEF Val
  <1> QED BY <1>0, <1>6, <1>7, <1>8, HoldsStill

\* At first nothing is written.
LEMMA InitMem ==
    ASSUME NEW cfg, Ptr(cfg)!PointersAssumption, cfg.exclusive, "cancel" \notin cfg.ops
    PROVE  Ptr(cfg)!Init => PtrInv(cfg) /\ MemInv(cfg)
  <1> SUFFICES ASSUME Ptr(cfg)!Init PROVE MemInv(cfg)
    BY InitPtr
  <1>1. \A p \in Ptr(cfg)!Slots : ~Val(cfg, ptrs, p)
    BY DEF Ptr!Init, Val
  <1>2. \A c \in Coroutines : ops[c].pc = "idle"
    BY DEF Ptr!Init, Ptr!Idle
  <1> QED BY <1>1, <1>2 DEF MemInv, Ptr!Init

\* Every step keeps what written pointers point to.
LEMMA NextMem ==
    ASSUME NEW cfg, Ptr(cfg)!PointersAssumption, cfg.exclusive, "cancel" \notin cfg.ops
    PROVE  PtrInv(cfg) /\ MemInv(cfg) /\ [Ptr(cfg)!Next]_(Ptr(cfg)!vars) => MemInv(cfg)'
  <1> SUFFICES ASSUME PtrInv(cfg), MemInv(cfg), [Ptr(cfg)!Next]_(Ptr(cfg)!vars) PROVE MemInv(cfg)'
    OBVIOUS
  <1>1. CASE UNCHANGED Ptr(cfg)!vars
    BY <1>1 DEF Ptr!vars, MemInv, Val, Writing
  <1>2. ASSUME NEW p \in Ptr(cfg)!Slots, NEW size \in 0..Size, Ptr(cfg)!Split(p, size) \/ Ptr(cfg)!SplitFromEnd(p, size)
        PROVE  MemInv(cfg)'
    <2>1. ptrs[p] # Ptr(cfg)!None /\ UNCHANGED mem /\ \E at : Ptr(cfg)!SplitAt(p, at)
      BY <1>2 DEF Ptr!Split, Ptr!SplitFromEnd, Ptr!Usable, Ptr!Valid, Ptr!Exists
    <2> QED BY <2>1, SplitMem
  <1>3. ASSUME NEW c \in Coroutines, Ptr(cfg)!Cancel(c) PROVE MemInv(cfg)'
    BY <1>3 DEF Ptr!Cancel
  <1>4. CASE Ptr(cfg)!Next
    BY <1>2, <1>3, <1>4, FreshMem, ConvertMem, MergeMem, BeginMem, StoreMem, WroteMem, FilledMem, ReturnMem DEF Ptr!Next
  <1> QED BY <1>1, <1>4

\* Written pointers hold their values.
LEMMA MemSafe ==
    ASSUME NEW cfg, Ptr(cfg)!PointersAssumption, cfg.exclusive, "cancel" \notin cfg.ops
    PROVE  PtrInv(cfg) /\ MemInv(cfg) => Ptr(cfg)!WrittenHoldsValue
  <1> SUFFICES ASSUME PtrInv(cfg), MemInv(cfg), NEW p \in Ptr(cfg)!Slots, Ptr(cfg)!Valid(p), ptrs[p].kind = "written",
                      ~ptrs[p].stale, ~Ptr(cfg)!InUse(p)
               PROVE  mem[Ptr(cfg)!Near(p)] = ptrs[p].value
    BY DEF Ptr!WrittenHoldsValue
  <1>1. Val(cfg, ptrs, p) /\ ptrs[p] \in Writ(cfg)
    BY ObjectKinds DEF Ptr!Valid, Ptr!Exists, Val, PtrInv, Owned
  <1>2. ~Writing(ops, p)
    BY DEF Ptr!InUse, Writing
  <1> QED BY <1>1, <1>2 DEF MemInv, Ptr!Near

\* When coroutines keep their hands off pointers that others use and no call is
\* cancelled, the memory of a valid WrittenPointer that nobody uses holds its value,
\* unless a system call has stored to it and returned it as it is: no other write or
\* system call stores there and leaves the pointer valid, and what makes a new pointer
\* for it keeps the value.
THEOREM WrittenMemory ==
    ASSUME NEW cfg, Ptr(cfg)!PointersAssumption, cfg.exclusive, "cancel" \notin cfg.ops
    PROVE  Ptr(cfg)!Spec => []Ptr(cfg)!WrittenHoldsValue
  BY InitMem, NextMem, MemSafe, NextPtr, PTL DEF Ptr!Spec

-----------------------------------------------------------------------------
(* The behaviours of MCMemory                                              *)

\* What goes wrong is one of two things, and every variable has its type.
LEMMA NextTrouble ==
    ASSUME NEW cfg, [Ptr(cfg)!Next]_(Ptr(cfg)!vars), trouble \subseteq {"misaligned", "read twice"}
    PROVE  trouble' \subseteq {"misaligned", "read twice"}
  <1>1. CASE UNCHANGED Ptr(cfg)!vars
    BY <1>1 DEF Ptr!vars
  <1>2. ASSUME NEW p, NEW size, Ptr(cfg)!SplitFromEnd(p, size) PROVE trouble' \subseteq trouble \cup {"misaligned"}
    BY <1>2 DEF Ptr!SplitFromEnd
  <1>3. ASSUME NEW c, Ptr(cfg)!UseReturns(c) \/ Ptr(cfg)!LinearReadReturns(c)
        PROVE  trouble' \subseteq trouble \cup {"read twice"}
    BY <1>3 DEF Ptr!UseReturns, Ptr!LinearReadReturns, Ptr!ReadTwice
  <1>4. ASSUME NEW p, Ptr(cfg)!Convert(p) \/ Ptr(cfg)!Free(p) PROVE UNCHANGED trouble
    BY <1>4 DEF Ptr!Convert, Ptr!Free
  <1>5. ASSUME NEW p, NEW q, Ptr(cfg)!Malloc(p, q) \/ Ptr(cfg)!Split(p, q) \/ Ptr(cfg)!Merge(p, q)
        PROVE  UNCHANGED trouble
    BY <1>5 DEF Ptr!Malloc, Ptr!Split, Ptr!Merge
  <1>6. ASSUME NEW c, Ptr(cfg)!Store(c) \/ Ptr(cfg)!Wrote(c) \/ Ptr(cfg)!Filled(c) \/ Ptr(cfg)!Cancel(c)
        PROVE  UNCHANGED trouble
    BY <1>6 DEF Ptr!Store, Ptr!Wrote, Ptr!Filled, Ptr!Cancel
  <1>7. ASSUME NEW c, NEW p, NEW v, Ptr(cfg)!Write(c, p, v) \/ Ptr(cfg)!Use(c, p, v) PROVE UNCHANGED trouble
    BY <1>7 DEF Ptr!Write, Ptr!Use
  <1>8. ASSUME NEW c, NEW p, NEW v, NEW pc, Ptr(cfg)!Fill(c, p, v, pc) PROVE UNCHANGED trouble
    BY <1>8 DEF Ptr!Fill
  <1>9. CASE Ptr(cfg)!Next
    <2>1. \/ UNCHANGED trouble
          \/ trouble' \subseteq trouble \cup {"misaligned"}
          \/ trouble' \subseteq trouble \cup {"read twice"}
      BY <1>2, <1>3, <1>4, <1>5, <1>6, <1>7, <1>8, <1>9 DEF Ptr!Next
    <2> QED BY <2>1
  <1> QED BY <1>1, <1>9

\* The invariants of pointers and of memory give every variable its type.
LEMMA PtrTypes ==
    ASSUME NEW cfg, PtrInv(cfg), MemInv(cfg), trouble \subseteq {"misaligned", "read twice"}
    PROVE  Ptr(cfg)!TypeOK
  <1>1. ASSUME NEW p \in Ptr(cfg)!Slots, Ptr(cfg)!Exists(p)
        PROVE  /\ ptrs[p].kind \in {"plain", "readable", "linear", "written"}
               /\ ptrs[p].alloc \in (0..Size) \X (0..Size) /\ ptrs[p].valid \in BOOLEAN
    <2>1. ptrs[p] \in Objects(cfg)
      BY <1>1 DEF PtrInv, Owned, Ptr!Exists
    <2>2. ptrs[p].kind \in {"plain", "readable", "linear", "written"}
      BY <2>1 DEF Objects, Plain, Writ, Lin
    <2>3. ptrs[p].alloc \in Ranges /\ ptrs[p].valid \in BOOLEAN
      BY <2>1, ObjectKinds
    <2> QED BY <2>2, <2>3 DEF Ranges
  <1>2. allocs \subseteq (0..Size) \X (0..Size)
    BY DEF PtrInv, Owned, Ranges
  <1>3. ASSUME NEW c \in Coroutines PROVE ops[c].pc \in {"idle", "write", "read", "linear", "borrow", "fill", "keep"}
    <2>1. ops[c] \in {Ptr(cfg)!Idle} \cup Uses(cfg) \cup Writes(cfg)
      BY DEF PtrInv, UseInv
    <2>2. \A x \in Uses(cfg) : x.pc \in {"read", "linear", "borrow"}
      BY DEF Uses
    <2>3. \A x \in Writes(cfg) : x.pc \in {"write", "fill", "keep"}
      BY DEF Writes
    <2>4. Ptr(cfg)!Idle.pc = "idle"
      BY DEF Ptr!Idle
    <2> QED BY <2>1, <2>2, <2>3, <2>4
  <1> QED BY <1>1, <1>2, <1>3 DEF Ptr!TypeOK, MemInv

\* The pointers own their allocations.
OwnersInv == /\ running = "kept"   => PtrInv(Kept)
             /\ running = "shared" => PtrInv(Shared)

(***************************************************************************)
(* No byte is in two valid pointers, and memory that is not free is in     *)
(* one: when coroutines keep their hands off pointers that are in use; and *)
(* when they free, split, merge, convert, write and borrow what others     *)
(* use and cancel each other, if none calls linear_read.                   *)
(***************************************************************************)
THEOREM OwnedPointers == Spec => []OneOwner
  <1>0. /\ Ptr(Shared)!PointersAssumption /\ "linear" \notin Shared.ops
        /\ Ptr(Kept)!PointersAssumption /\ Kept.exclusive
    BY MemoryAssumption DEF Shared, Kept
  <1>1. Init => OwnersInv
    <2>1. Init => Ptr(Shared)!Init /\ Ptr(Kept)!Init
      BY DEF Init, Ptr!Init, Ptr!Slots, Ptr!Bytes, Ptr!None, Ptr!Idle, Ptr!Unwritten
    <2> QED BY <2>1, InitPtr DEF OwnersInv
  <1>2. OwnersInv /\ [Next]_vars => OwnersInv'
    <2> SUFFICES ASSUME OwnersInv, [Next]_vars PROVE OwnersInv'
      OBVIOUS
    <2>1. running' = running
      BY DEF Next, vars
    <2>2. ASSUME running = "shared" PROVE PtrInv(Shared)'
      <3>1. [Ptr(Shared)!Next]_(Ptr(Shared)!vars)
        BY <2>2 DEF Next, vars, pointers, Ptr!vars
      <3> QED BY <1>0, <2>2, <3>1, NextPtr DEF OwnersInv
    <2>3. ASSUME running = "kept" PROVE PtrInv(Kept)'
      <3>1. [Ptr(Kept)!Next]_(Ptr(Kept)!vars)
        BY <2>3 DEF Next, vars, pointers, Ptr!vars
      <3> QED BY <1>0, <2>3, <3>1, NextPtr DEF OwnersInv
    <2> QED BY <2>1, <2>2, <2>3 DEF OwnersInv
  <1>3. OwnersInv => OneOwner
    BY PtrSafe DEF OwnersInv, OneOwner
  <1> QED BY <1>1, <1>2, <1>3, PTL DEF Spec

\* Pointers that only their users touch are owned, and hold what was written to them.
KeptInv == running = "kept" => PtrInv(Kept) /\ MemInv(Kept) /\ trouble \subseteq {"misaligned", "read twice"}

(***************************************************************************)
(* A WrittenPointer's memory holds its value, and a linear pointer is read *)
(* once, when coroutines keep their hands off pointers that are in use and *)
(* no call is cancelled; but a system call that stores to a WrittenPointer *)
(* and returns it as it is leaves it valid, with the value it had.         *)
(***************************************************************************)
THEOREM KeptPointers == Spec => []WrittenHoldsValue
  <1>0. Kept.exclusive /\ "cancel" \notin Kept.ops /\ Ptr(Kept)!PointersAssumption
    BY MemoryAssumption DEF Kept
  <1>1. Init => KeptInv
    <2>1. Init => Ptr(Kept)!Init
      BY DEF Init
    <2>2. Ptr(Kept)!Init => trouble \subseteq {"misaligned", "read twice"}
      BY DEF Ptr!Init
    <2> QED BY <1>0, <2>1, <2>2, InitMem DEF KeptInv
  <1>2. KeptInv /\ [Next]_vars => KeptInv'
    <2> SUFFICES ASSUME KeptInv, [Next]_vars, running' = "kept"
                 PROVE  PtrInv(Kept)' /\ MemInv(Kept)' /\ trouble' \subseteq {"misaligned", "read twice"}
      BY DEF KeptInv
    <2>1. running = "kept"
      BY DEF Next, vars
    <2>2. [Ptr(Kept)!Next]_(Ptr(Kept)!vars)
      <3>1. CASE Next
        BY <2>1, <3>1 DEF Next
      <3>2. CASE UNCHANGED vars
        BY <3>2 DEF vars, pointers, Ptr!vars
      <3> QED BY <3>1, <3>2
    <2>3. PtrInv(Kept) /\ MemInv(Kept) /\ trouble \subseteq {"misaligned", "read twice"}
      BY <2>1 DEF KeptInv
    <2>4. PtrInv(Kept)'
      BY <1>0, <2>2, <2>3, NextPtr
    <2>5. MemInv(Kept)'
      BY <1>0, <2>2, <2>3, NextMem
    <2>6. trouble' \subseteq {"misaligned", "read twice"}
      BY <2>2, <2>3, NextTrouble
    <2> QED BY <2>4, <2>5, <2>6
  <1>3. KeptInv => WrittenHoldsValue
    <2> SUFFICES ASSUME KeptInv, running = "kept"
                 PROVE  Ptr(Kept)!TypeOK /\ Ptr(Kept)!WrittenHoldsValue /\ Ptr(Kept)!LinearReadOnce
      BY DEF WrittenHoldsValue
    <2>1. PtrInv(Kept) /\ MemInv(Kept) /\ trouble \subseteq {"misaligned", "read twice"}
      BY DEF KeptInv
    <2> QED BY <1>0, <2>1, PtrTypes, MemSafe, PtrPins
  <1> QED BY <1>1, <1>2, <1>3, PTL DEF Spec

-----------------------------------------------------------------------------
(* The socket transport                                                    *)

Movers == Coroutines \cup {solo}
Ops == 0..(MaxTransfers - 1)
Moving == [pc : {"write", "wrote", "recv", "rwrite", "read"}, op : Ops, size : 1..MaxBytes]
Submitted == [proc : Movers, op : Ops, call : {"write", "recv", "rwrite"}, n : 1..MaxBytes]

\* The bytes of k are n in one piece of s.
Block(s, k, n) ==
    \E p \in Nat : p + n <= Len(s) /\ \A x \in 1..Len(s) : s[x] = k <=> p < x /\ x <= p + n

\* The system call r is of a coroutine that is at pc.
Of(P, r, pc) == P[r.proc].pc = pc /\ P[r.proc].op = r.op /\ P[r.proc].size = r.n

SockTypes ==
    /\ procs \in [Movers -> {Sock!Idle} \cup Moving] /\ count \in 0..MaxTransfers
    /\ toRemote \in Seq(Ops) /\ toLocal \in Seq(Ops) /\ wire = << >>
    /\ remote \in Seq(Submitted) /\ written \in Seq(Submitted) /\ results \in Seq(Submitted)
    /\ Len(toLocal) <= MaxBytes * MaxTransfers

\* Each coroutine that is busy has an operation of its own.
BusyInv ==
    /\ \A c \in Movers : procs[c].pc # "idle" => procs[c].op < count
    /\ \A c, e \in Movers :
         procs[c].pc # "idle" /\ procs[e].pc # "idle" /\ procs[c].op = procs[e].op => c = e

Distinct(s) == \A a, b \in 1..Len(s) : s[a].proc = s[b].proc => a = b

\* A call that is under way is the one its coroutine waits for.
CallsInv ==
    /\ Distinct(written) /\ Distinct(remote) /\ Distinct(results)
    /\ \A a \in 1..Len(remote), b \in 1..Len(results) : remote[a].proc # results[b].proc
    /\ \A a \in 1..Len(written) : written[a].call = "write" /\ Of(procs, written[a], "wrote")
    /\ \A a \in 1..Len(remote) : remote[a].call \in {"recv", "rwrite"} /\ Of(procs, remote[a], remote[a].call)
    /\ \A a \in 1..Len(results) : results[a].call \in {"recv", "rwrite"}
       /\ Of(procs, results[a], results[a].call)

\* The reads are performed in the order of their numbers.
ReadsInv ==
    /\ \A a, b \in 1..Len(remote) :
         a < b /\ remote[a].call = "rwrite" /\ remote[b].call = "rwrite" => remote[a].op < remote[b].op
    /\ \A a, b \in 1..Len(results) :
         a < b /\ results[a].call = "rwrite" /\ results[b].call = "rwrite" => results[a].op < results[b].op
    /\ \A a \in 1..Len(results), b \in 1..Len(remote) :
         results[a].call = "rwrite" /\ remote[b].call = "rwrite" => results[a].op < remote[b].op
    /\ \A c \in Movers : procs[c].pc = "read" =>
         /\ \A a \in 1..Len(results) : results[a].call = "rwrite" => procs[c].op < results[a].op
         /\ \A a \in 1..Len(remote) : remote[a].call = "rwrite" => procs[c].op < remote[a].op

\* Among the calls q is one of kinds K that moves bytes of the operation k; all of
\* its bytes are in s; their calls are in the order of the bytes.
Has(q, K, k)  == \E a \in 1..Len(q) : q[a].call \in K /\ q[a].op = k
Whole(s, q, K) == \A a \in 1..Len(q) : q[a].call \in K => Block(s, q[a].op, q[a].n)
InLine(s, q, K) ==
    \A x, y \in 1..Len(s), a, b \in 1..Len(q) :
        x < y /\ q[a].call \in K /\ q[a].op = s[x] /\ q[b].call \in K /\ q[b].op = s[y] => a <= b

Sends == {"recv", "write"}
Reads == {"rwrite"}

\* The bytes s to the remote side are those of the recvs submitted (r), in this
\* order, and then of the recvs to be submitted (w).
Sending(s, r, w) ==
    /\ \A x \in 1..Len(s) : Has(r, Sends, s[x]) \/ Has(w, Sends, s[x])
    /\ Whole(s, r, Sends) /\ Whole(s, w, Sends)
    /\ InLine(s, r, Sends) /\ InLine(s, w, Sends)
    /\ \A x, y \in 1..Len(s) : x < y => ~(Has(w, Sends, s[x]) /\ Has(r, Sends, s[y]))

\* The bytes s from the remote side are those of the reads, in the order of their
\* numbers: of those whose coroutine (P) reads, and of the results (r) it waits for.
Reader(P, k) == \E c \in Movers : P[c].pc = "read" /\ P[c].op = k
Receiving(s, P, r) ==
    /\ \A x \in 1..Len(s) : Reader(P, s[x]) \/ Has(r, Reads, s[x])
    /\ \A c \in Movers : P[c].pc = "read" => Block(s, P[c].op, P[c].size)
    /\ Whole(s, r, Reads)
    /\ \A x, y \in 1..Len(s) : x < y => s[x] <= s[y]

ToRemoteInv == Sending(toRemote, remote, written)
ToLocalInv  == Receiving(toLocal, procs, results)

\* There is room for those who have still to write.
ToWrite == {c \in Movers : procs[c].pc = "write"}
RoomInv == IsFiniteSet(ToWrite) /\ Len(toRemote) + MaxBytes * Cardinality(ToWrite) <= MaxBytes * count

SockInv ==
    /\ wrong = {} /\ SockTypes /\ BusyInv /\ CallsInv /\ ReadsInv /\ ToRemoteInv /\ ToLocalInv /\ RoomInv

\* The first n elements of a sequence, and the others.
LEMMA SockDrop ==
    ASSUME NEW S, NEW s \in Seq(S), NEW n \in 0..Len(s)
    PROVE  /\ Sock!Drop(s, n) \in Seq(S) /\ Len(Sock!Drop(s, n)) = Len(s) - n
           /\ \A x \in 1..(Len(s) - n) : Sock!Drop(s, n)[x] = s[n + x]
           /\ Len(Sock!Take(s, n)) = n /\ \A x \in 1..n : Sock!Take(s, n)[x] = s[x]
  <1>1. Len(s) \in Nat
    OBVIOUS
  <1>2. Len(Sock!Drop(s, n)) = Len(s) - n /\ Sock!Drop(s, n) \in Seq(S)
    BY <1>1 DEF Sock!Drop
  <1>3. \A x \in 1..(Len(s) - n) : Sock!Drop(s, n)[x] = s[n + x]
    BY <1>1 DEF Sock!Drop
  <1>4. Len(Sock!Take(s, n)) = n /\ \A x \in 1..n : Sock!Take(s, n)[x] = s[x]
    BY <1>1 DEF Sock!Take
  <1> QED
    BY <1>2, <1>3, <1>4

\* A sequence with n bytes of k behind it.
LEMMA SockCat ==
    ASSUME NEW s \in Seq(Ops), NEW k \in Ops, NEW n \in Nat
    PROVE  LET u == s \o Sock!Bytes(k, n) IN
           /\ u \in Seq(Ops) /\ Len(u) = Len(s) + n
           /\ \A x \in 1..Len(s) : u[x] = s[x]
           /\ \A x \in 1..Len(u) : x > Len(s) => u[x] = k
  <1> DEFINE t == Sock!Bytes(k, n)
  <1>1. t \in Seq(Ops) /\ Len(t) = n /\ \A x \in 1..n : t[x] = k
    BY DEF Sock!Bytes
  <1> HIDE DEF t
  <1>2. s \o t \in Seq(Ops) /\ Len(s \o t) = Len(s) + n /\ Len(s) \in Nat
    BY <1>1
  <1>3. \A x \in 1..Len(s) : (s \o t)[x] = s[x]
    BY <1>1
  <1>4. ASSUME NEW x \in 1..Len(s \o t), x > Len(s) PROVE (s \o t)[x] = k
    <2>1. x - Len(s) \in 1..n /\ (s \o t)[x] = t[x - Len(s)]
      BY <1>1, <1>2, <1>4
    <2> QED
      BY <1>1, <2>1
  <1> QED
    BY <1>2, <1>3, <1>4 DEF t

\* Nothing is before the bytes of k: they are the first.
LEMMA BlockFirst ==
    ASSUME NEW s \in Seq(Ops), NEW k, NEW n \in Nat \ {0}, Block(s, k, n),
           \A x, y \in 1..Len(s) : x < y /\ s[y] = k => s[x] = k
    PROVE  n <= Len(s) /\ (\A x \in 1..n : s[x] = k) /\ \A x \in 1..Len(s) : x > n => s[x] # k
  <1>1. PICK p \in Nat : p + n <= Len(s) /\ \A x \in 1..Len(s) : s[x] = k <=> p < x /\ x <= p + n
    BY DEF Block
  <1>2. Len(s) \in Nat
    OBVIOUS
  <1>3. p + 1 \in 1..Len(s) /\ s[p + 1] = k /\ 1 \in 1..Len(s)
    BY <1>1, <1>2
  <1>4. p = 0
    <2> SUFFICES ASSUME p > 0 PROVE FALSE
      OBVIOUS
    <2>1. s[1] = k
      BY <1>3
    <2> QED
      BY <1>1, <1>3, <2>1
  <1> QED
    BY <1>1, <1>2, <1>4

\* Bytes of others are taken.
LEMMA BlockDrop ==
    ASSUME NEW s \in Seq(Ops), NEW k, NEW m \in Nat \ {0}, Block(s, k, m),
           NEW n \in 0..Len(s), \A x \in 1..n : s[x] # k
    PROVE  Block(Sock!Drop(s, n), k, m)
  <1>1. PICK p \in Nat : p + m <= Len(s) /\ \A x \in 1..Len(s) : s[x] = k <=> p < x /\ x <= p + m
    BY DEF Block
  <1>2. Len(s) \in Nat
    OBVIOUS
  <1>3. p + 1 \in 1..Len(s) /\ s[p + 1] = k
    BY <1>1, <1>2
  <1>4. p >= n
    BY <1>2, <1>3
  <1> DEFINE t == Sock!Drop(s, n)
  <1>5. Len(t) = Len(s) - n /\ \A x \in 1..(Len(s) - n) : t[x] = s[n + x]
    BY SockDrop
  <1> HIDE DEF t
  <1>6. ASSUME NEW x \in 1..Len(t) PROVE t[x] = k <=> p - n < x /\ x <= (p - n) + m
    <2>1. n + x \in 1..Len(s) /\ t[x] = s[n + x]
      BY <1>2, <1>5
    <2> QED
      BY <1>1, <1>2, <2>1
  <1>7. p - n \in Nat /\ (p - n) + m <= Len(t)
    BY <1>1, <1>2, <1>4, <1>5
  <1> QED
    BY <1>6, <1>7 DEF Block, t

\* Bytes of others are put behind.
LEMMA BlockStays ==
    ASSUME NEW s \in Seq(Ops), NEW k, NEW m \in Nat \ {0}, Block(s, k, m),
           NEW j \in Ops, NEW n \in Nat, j # k
    PROVE  Block(s \o Sock!Bytes(j, n), k, m)
  <1> DEFINE u == s \o Sock!Bytes(j, n)
  <1>1. PICK p \in Nat : p + m <= Len(s) /\ \A x \in 1..Len(s) : s[x] = k <=> p < x /\ x <= p + m
    BY DEF Block
  <1>2. /\ u \in Seq(Ops) /\ Len(u) = Len(s) + n /\ (\A x \in 1..Len(s) : u[x] = s[x])
        /\ \A x \in 1..Len(u) : x > Len(s) => u[x] = j
    BY SockCat
  <1>3. Len(s) \in Nat
    OBVIOUS
  <1> HIDE DEF u
  <1>4. ASSUME NEW x \in 1..Len(u) PROVE u[x] = k <=> p < x /\ x <= p + m
    <2>1. CASE x <= Len(s)
      BY <1>1, <1>2, <1>3, <2>1
    <2>2. CASE x > Len(s)
      BY <1>1, <1>2, <1>3, <2>2
    <2> QED
      BY <1>3, <2>1, <2>2
  <1>5. Block(u, k, m)
    <2>1. p + m <= Len(u)
      BY <1>1, <1>2, <1>3
    <2> QED
      BY ONLY <2>1, <1>4, p \in Nat DEF Block
  <1> QED
    BY <1>5 DEF u

\* Bytes are put behind, and there were none of theirs.
LEMMA BlockAdded ==
    ASSUME NEW s \in Seq(Ops), NEW k \in Ops, NEW n \in Nat, \A x \in 1..Len(s) : s[x] # k
    PROVE  Block(s \o Sock!Bytes(k, n), k, n)
  <1> DEFINE u == s \o Sock!Bytes(k, n)
  <1>1. /\ Len(u) = Len(s) + n /\ (\A x \in 1..Len(s) : u[x] = s[x])
        /\ \A x \in 1..Len(u) : x > Len(s) => u[x] = k
    BY SockCat
  <1>2. Len(s) \in Nat
    OBVIOUS
  <1> HIDE DEF u
  <1>3. ASSUME NEW x \in 1..Len(u) PROVE u[x] = k <=> Len(s) < x /\ x <= Len(s) + n
    BY <1>1, <1>2
  <1>4. Block(u, k, n)
    BY <1>1, <1>2, <1>3 DEF Block
  <1> QED
    BY <1>4 DEF u

\* What the bounds are, and the numbers of operations.
LEMMA SockConstants == MaxBytes \in Nat /\ MaxTransfers \in Nat /\ Sock!Op = Ops
  BY MemoryAssumption DEF Ops, Sock!Op

\* An element of these sequences is a call of a coroutine.
LEMMA Elements ==
    ASSUME NEW s \in Seq(Submitted), NEW a \in 1..Len(s)
    PROVE  /\ s[a] \in Submitted /\ s[a].proc \in Movers /\ s[a].op \in Ops /\ s[a].n \in 1..MaxBytes
           /\ s[a].call \in {"write", "recv", "rwrite"}
  <1>1. s[a] \in Submitted
    OBVIOUS
  <1> QED
    BY <1>1 DEF Submitted

\* So are these.
LEMMA SubmittedProcs ==
    ASSUME SockTypes
    PROVE  /\ \A a \in 1..Len(remote) : remote[a].proc \in Movers
           /\ \A a \in 1..Len(written) : written[a].proc \in Movers
           /\ \A a \in 1..Len(results) : results[a].proc \in Movers
  BY Elements DEF SockTypes

\* The operations of the calls and of those between two calls are different.
LEMMA OpsDiffer ==
    ASSUME SockTypes, BusyInv, CallsInv
    PROVE  /\ \A a, b \in 1..Len(remote) : remote[a].op = remote[b].op => a = b
           /\ \A a, b \in 1..Len(written) : written[a].op = written[b].op => a = b
           /\ \A a, b \in 1..Len(results) : results[a].op = results[b].op => a = b
           /\ \A a \in 1..Len(remote), b \in 1..Len(written) : remote[a].op # written[b].op
           /\ \A a \in 1..Len(remote), b \in 1..Len(results) : remote[a].op # results[b].op
           /\ \A a \in 1..Len(written), b \in 1..Len(results) : written[a].op # results[b].op
           /\ \A c \in Movers : procs[c].pc \in {"write", "read"} =>
                /\ \A a \in 1..Len(remote) : remote[a].op # procs[c].op
                /\ \A a \in 1..Len(written) : written[a].op # procs[c].op
                /\ \A a \in 1..Len(results) : results[a].op # procs[c].op
           /\ \A a \in 1..Len(remote) : remote[a].op < count
           /\ \A a \in 1..Len(written) : written[a].op < count
           /\ \A a \in 1..Len(results) : results[a].op < count
  <1>0. /\ \A a \in 1..Len(remote) : remote[a].proc \in Movers
        /\ \A a \in 1..Len(written) : written[a].proc \in Movers
        /\ \A a \in 1..Len(results) : results[a].proc \in Movers
    BY SubmittedProcs
  <1>1. \A a \in 1..Len(remote) :
          /\ remote[a].proc \in Movers /\ procs[remote[a].proc].pc \in {"recv", "rwrite"}
          /\ procs[remote[a].proc].op = remote[a].op
    BY <1>0 DEF CallsInv, Of
  <1>2. \A a \in 1..Len(written) :
          /\ written[a].proc \in Movers /\ procs[written[a].proc].pc = "wrote"
          /\ procs[written[a].proc].op = written[a].op
    BY <1>0 DEF CallsInv, Of
  <1>3. \A a \in 1..Len(results) :
          /\ results[a].proc \in Movers /\ procs[results[a].proc].pc \in {"recv", "rwrite"}
          /\ procs[results[a].proc].op = results[a].op
    BY <1>0 DEF CallsInv, Of
  <1>4. \A a, b \in 1..Len(remote) : remote[a].op = remote[b].op => a = b
    BY ONLY <1>1, BusyInv, CallsInv DEF BusyInv, CallsInv, Distinct
  <1>5. \A a, b \in 1..Len(written) : written[a].op = written[b].op => a = b
    BY ONLY <1>2, BusyInv, CallsInv DEF BusyInv, CallsInv, Distinct
  <1>6. \A a, b \in 1..Len(results) : results[a].op = results[b].op => a = b
    BY ONLY <1>3, BusyInv, CallsInv DEF BusyInv, CallsInv, Distinct
  <1>7. \A a \in 1..Len(remote), b \in 1..Len(written) : remote[a].op # written[b].op
    BY ONLY <1>1, <1>2, BusyInv DEF BusyInv
  <1>8. \A a \in 1..Len(remote), b \in 1..Len(results) : remote[a].op # results[b].op
    BY ONLY <1>1, <1>3, BusyInv, CallsInv DEF BusyInv, CallsInv
  <1>9. \A a \in 1..Len(written), b \in 1..Len(results) : written[a].op # results[b].op
    BY ONLY <1>2, <1>3, BusyInv DEF BusyInv
  <1>10. \A c \in Movers : procs[c].pc \in {"write", "read"} =>
           /\ \A a \in 1..Len(remote) : remote[a].op # procs[c].op
           /\ \A a \in 1..Len(written) : written[a].op # procs[c].op
           /\ \A a \in 1..Len(results) : results[a].op # procs[c].op
    BY ONLY <1>1, <1>2, <1>3, BusyInv DEF BusyInv
  <1>11. /\ \A a \in 1..Len(remote) : remote[a].op < count
         /\ \A a \in 1..Len(written) : written[a].op < count
         /\ \A a \in 1..Len(results) : results[a].op < count
    <2>1. \A c \in Movers : procs[c].pc # "idle" => procs[c].op < count
      BY ONLY BusyInv DEF BusyInv
    <2>2. \A a \in 1..Len(remote) : remote[a].op < count
      BY ONLY <1>1, <2>1
    <2>3. \A a \in 1..Len(written) : written[a].op < count
      BY ONLY <1>2, <2>1
    <2>4. \A a \in 1..Len(results) : results[a].op < count
      BY ONLY <1>3, <2>1
    <2> QED
      BY ONLY <2>2, <2>3, <2>4
  <1> QED
    BY <1>4, <1>5, <1>6, <1>7, <1>8, <1>9, <1>10, <1>11

\* A coroutine that is not idle is moving bytes.
LEMMA MoverKinds ==
    ASSUME SockTypes, NEW c \in Movers
    PROVE  /\ procs[c].pc # "idle" => procs[c] \in Moving
           /\ procs[c].pc = "idle" <=> procs[c] = Sock!Idle
  BY DEF SockTypes, Moving, Sock!Idle

\* write and read, up to the first await: what both do.
LEMMA SockBegin ==
    ASSUME SockInv, NEW c \in Movers, NEW n \in 0..MaxBytes, NEW pc \in {"write", "rwrite"},
           Sock!Begin(c, n, pc)
    PROVE  /\ procs[c].pc = "idle" /\ count' = count + 1 /\ count' \in 0..MaxTransfers
           /\ procs' \in [Movers -> {Sock!Idle} \cup Moving]
           /\ \A e \in Movers : e # c => procs'[e] = procs[e]
           /\ IF n = 0 THEN procs' = procs ELSE procs'[c] = [pc |-> pc, op |-> count, size |-> n]
           /\ BusyInv'
           /\ count \in Ops
  <1>1. SockTypes /\ BusyInv
    BY DEF SockInv
  <1>2. /\ procs[c] = Sock!Idle /\ count < MaxTransfers /\ count' = count + 1
        /\ procs' = [procs EXCEPT ![c] = IF n = 0 THEN Sock!Idle ELSE [pc |-> pc, op |-> count, size |-> n]]
    BY DEF Sock!Begin
  <1>3. count \in Ops /\ count' \in 0..MaxTransfers /\ count \in Nat
    BY <1>1, <1>2, SockConstants DEF SockTypes, Ops
  <1>4. n # 0 => [pc |-> pc, op |-> count, size |-> n] \in Moving
    BY <1>3, SockConstants DEF Moving
  <1>5. procs \in [Movers -> {Sock!Idle} \cup Moving]
    BY <1>1 DEF SockTypes
  <1>6. procs' \in [Movers -> {Sock!Idle} \cup Moving]
    BY ONLY <1>2, <1>4, <1>5
  <1>7. \A e \in Movers : e # c => procs'[e] = procs[e]
    BY ONLY <1>2, <1>5
  <1>8. IF n = 0 THEN procs' = procs ELSE procs'[c] = [pc |-> pc, op |-> count, size |-> n]
    BY ONLY <1>2, <1>5
  <1>9. procs[c].pc = "idle"
    BY <1>2 DEF Sock!Idle
  <1>10. BusyInv'
    <2>1. \A e \in Movers : procs[e].pc # "idle" => procs[e].op < count /\ procs[e].op \in Nat
      BY <1>1, MoverKinds DEF BusyInv, Moving, Ops
    <2>2. ASSUME NEW e \in Movers, procs'[e].pc # "idle"
          PROVE  procs'[e].op < count' /\ (e = c => procs'[e].op = count) /\ (e # c => procs'[e].op < count)
      <3>1. CASE e = c
        <4>1. n # 0
          BY <2>2, <1>8, <1>9, <3>1
        <4>2. procs'[e].op = count
          BY ONLY <4>1, <3>1, <1>8
        <4> QED
          BY ONLY <4>2, <3>1, <1>2, <1>3
      <3>2. CASE e # c
        BY <2>1, <2>2, <3>2, <1>2, <1>3, <1>7
      <3> QED
        BY <3>1, <3>2
    <2>3. ASSUME NEW d \in Movers, NEW e \in Movers, procs'[d].pc # "idle", procs'[e].pc # "idle",
                 procs'[d].op = procs'[e].op
          PROVE  d = e
      <3>1. CASE d # c /\ e # c
        BY <1>1, <1>7, <2>3, <3>1 DEF BusyInv
      <3>2. CASE d = c \/ e = c
        BY ONLY <2>2, <2>3, <3>2, <1>3
      <3> QED
        BY <3>1, <3>2
    <2> QED
      BY <2>2, <2>3 DEF BusyInv
  <1> QED
    BY <1>2, <1>3, <1>6, <1>7, <1>8, <1>9, <1>10

\* The calls of the others, when only c goes on and has none.
LEMMA OthersCalls ==
    ASSUME SockInv, NEW c \in Movers, \A e \in Movers : e # c => procs'[e] = procs[e],
           procs[c].pc \in {"idle", "write", "read"}
    PROVE  /\ \A a \in 1..Len(remote) : remote[a].proc # c /\ Of(procs', remote[a], remote[a].call)
           /\ \A a \in 1..Len(written) : written[a].proc # c /\ Of(procs', written[a], "wrote")
           /\ \A a \in 1..Len(results) : results[a].proc # c /\ Of(procs', results[a], results[a].call)
  <1>1. SockTypes /\ CallsInv
    BY DEF SockInv
  <1>2. /\ \A a \in 1..Len(remote) : remote[a].proc \in Movers
        /\ \A a \in 1..Len(written) : written[a].proc \in Movers
        /\ \A a \in 1..Len(results) : results[a].proc \in Movers
    BY <1>1, SubmittedProcs
  <1>3. ASSUME NEW a \in 1..Len(remote) PROVE remote[a].proc # c /\ Of(procs', remote[a], remote[a].call)
    BY <1>1, <1>2 DEF CallsInv, Of
  <1>4. ASSUME NEW a \in 1..Len(written) PROVE written[a].proc # c /\ Of(procs', written[a], "wrote")
    BY <1>1, <1>2 DEF CallsInv, Of
  <1>5. ASSUME NEW a \in 1..Len(results) PROVE results[a].proc # c /\ Of(procs', results[a], results[a].call)
    BY <1>1, <1>2 DEF CallsInv, Of
  <1> QED
    BY <1>3, <1>4, <1>5

\* Those who read are the same.
LEMMA ReceivingKept ==
    ASSUME NEW s, NEW P, NEW Q, NEW r, Receiving(s, P, r),
           \A e \in Movers : (Q[e].pc = "read" <=> P[e].pc = "read") /\ (P[e].pc = "read" => Q[e] = P[e])
    PROVE  Receiving(s, Q, r)
  <1>1. \A k : Reader(Q, k) <=> Reader(P, k)
    BY DEF Reader
  <1>2. \A c \in Movers : Q[c].pc = "read" => Block(s, Q[c].op, Q[c].size)
    BY DEF Receiving
  <1> QED
    BY ONLY <1>1, <1>2, Receiving(s, P, r) DEF Receiving

\* write.
LEMMA SockWrite ==
    ASSUME SockInv, NEW c \in Movers, NEW n \in 0..MaxBytes, Sock!Write(c, n)
    PROVE  SockInv'
  <1>0. SockTypes /\ BusyInv /\ CallsInv /\ ReadsInv /\ ToRemoteInv /\ ToLocalInv /\ RoomInv /\ wrong = {}
    BY DEF SockInv
  <1>1. Sock!Begin(c, n, "write") /\ UNCHANGED <<toRemote, toLocal, wire, remote, written, results, wrong>>
    BY DEF Sock!Write
  <1>2. /\ procs[c].pc = "idle" /\ count' = count + 1 /\ count' \in 0..MaxTransfers
        /\ procs' \in [Movers -> {Sock!Idle} \cup Moving]
        /\ \A e \in Movers : e # c => procs'[e] = procs[e]
        /\ IF n = 0 THEN procs' = procs ELSE procs'[c] = [pc |-> "write", op |-> count, size |-> n]
        /\ BusyInv'
    BY <1>1, SockBegin
  <1>3. SockTypes'
    BY ONLY <1>0, <1>1, <1>2 DEF SockTypes
  <1>4. CallsInv'
    <2>1. /\ \A a \in 1..Len(remote) : Of(procs', remote[a], remote[a].call)
          /\ \A a \in 1..Len(written) : Of(procs', written[a], "wrote")
          /\ \A a \in 1..Len(results) : Of(procs', results[a], results[a].call)
      BY <1>2, OthersCalls
    <2> QED
      BY ONLY <1>0, <1>1, <2>1 DEF CallsInv, Distinct
  <1>5. \A e \in Movers : (procs'[e].pc = "read" <=> procs[e].pc = "read")
        /\ (procs[e].pc = "read" => procs'[e] = procs[e])
    BY ONLY <1>2
  <1>6. ReadsInv'
    BY ONLY <1>0, <1>1, <1>5 DEF ReadsInv
  <1>7. ToRemoteInv'
    BY ONLY <1>0, <1>1 DEF ToRemoteInv
  <1>8. ToLocalInv'
    BY ONLY <1>0, <1>1, <1>5, ReceivingKept DEF ToLocalInv
  <1>9. RoomInv'
    <2>1. ToWrite' = IF n = 0 THEN ToWrite ELSE ToWrite \cup {c}
      BY ONLY <1>2 DEF ToWrite
    <2>2. c \notin ToWrite
      BY <1>2 DEF ToWrite
    <2>3. IsFiniteSet(ToWrite) /\ Cardinality(ToWrite) \in Nat
      BY <1>0, FS_CardinalityType DEF RoomInv
    <2>4. IsFiniteSet(ToWrite') /\ Cardinality(ToWrite') \in {Cardinality(ToWrite), Cardinality(ToWrite) + 1}
      BY <2>1, <2>2, <2>3, FS_AddElement
    <2>5. MaxBytes * (count + 1) = MaxBytes * count + MaxBytes /\ MaxBytes * count \in Nat
      BY SockConstants, <1>0 DEF SockTypes
    <2>6. MaxBytes * (Cardinality(ToWrite) + 1) = MaxBytes * Cardinality(ToWrite) + MaxBytes
          /\ MaxBytes * Cardinality(ToWrite) \in Nat
      BY SockConstants, <2>3
    <2>7. Len(toRemote) \in Nat /\ Len(toRemote') = Len(toRemote)
      BY <1>0, <1>1 DEF SockTypes
    <2> QED
      BY <1>0, <1>2, <2>4, <2>5, <2>6, <2>7, SockConstants DEF RoomInv
  <1> QED
    BY ONLY <1>0, <1>1, <1>2, <1>3, <1>4, <1>6, <1>7, <1>8, <1>9 DEF SockInv

\* A call is put behind the others.
LEMMA AppendIs ==
    ASSUME NEW s \in Seq(Submitted), NEW r \in Submitted
    PROVE  /\ Append(s, r) \in Seq(Submitted) /\ Len(Append(s, r)) = Len(s) + 1
           /\ \A a \in 1..Len(s) : Append(s, r)[a] = s[a]
           /\ Append(s, r)[Len(s) + 1] = r
           /\ \A a \in 1..Len(Append(s, r)) : a \in 1..Len(s) \/ a = Len(s) + 1
           /\ Len(s) \in Nat
  OBVIOUS

\* The first call is taken.
LEMMA TailIs ==
    ASSUME NEW s \in Seq(Submitted), s # << >>
    PROVE  /\ Tail(s) \in Seq(Submitted) /\ Len(Tail(s)) = Len(s) - 1
           /\ \A a \in 1..Len(Tail(s)) : Tail(s)[a] = s[a + 1] /\ a + 1 \in 1..Len(s)
           /\ Head(s) = s[1] /\ 1 \in 1..Len(s) /\ Head(s) \in Submitted
           /\ \A a \in 1..Len(s) : a = 1 \/ (a - 1 \in 1..Len(Tail(s)) /\ Tail(s)[a - 1] = s[a])
  OBVIOUS

\* A call stays in one place at a time when it is put behind.
LEMMA DistinctAppend ==
    ASSUME NEW s \in Seq(Submitted), NEW r \in Submitted, Distinct(s),
           \A a \in 1..Len(s) : s[a].proc # r.proc
    PROVE  Distinct(Append(s, r))
  <1> DEFINE t == Append(s, r)
  <1>1. /\ \A a \in 1..Len(s) : t[a] = s[a]
        /\ t[Len(s) + 1] = r
        /\ \A a \in 1..Len(t) : a \in 1..Len(s) \/ a = Len(s) + 1
    BY AppendIs
  <1> HIDE DEF t
  <1>2. Distinct(t)
    BY <1>1 DEF Distinct
  <1> QED
    BY <1>2 DEF t

\* And when it is taken.
LEMMA DistinctTail ==
    ASSUME NEW s \in Seq(Submitted), s # << >>, Distinct(s)
    PROVE  Distinct(Tail(s)) /\ \A a \in 1..Len(Tail(s)) : Tail(s)[a].proc # Head(s).proc
  <1> DEFINE t == Tail(s)
  <1>1. /\ Head(s) = s[1] /\ 1 \in 1..Len(s)
        /\ \A a \in 1..Len(t) : t[a] = s[a + 1] /\ a + 1 \in 1..Len(s) /\ a + 1 # 1
    BY TailIs
  <1> HIDE DEF t
  <1>2. Distinct(t)
    BY <1>1 DEF Distinct
  <1>3. \A a \in 1..Len(t) : t[a].proc # Head(s).proc
    BY <1>1 DEF Distinct
  <1> QED
    BY <1>2, <1>3 DEF t

\* What is among the calls when one is put behind.
LEMMA HasAppend ==
    ASSUME NEW q \in Seq(Submitted), NEW r \in Submitted, NEW K, NEW k
    PROVE  Has(Append(q, r), K, k) <=> (Has(q, K, k) \/ (r.call \in K /\ r.op = k))
  <1> DEFINE t == Append(q, r)
  <1>1. /\ \A a \in 1..Len(q) : t[a] = q[a] /\ a \in 1..Len(t)
        /\ t[Len(q) + 1] = r /\ Len(q) + 1 \in 1..Len(t)
        /\ \A a \in 1..Len(t) : a \in 1..Len(q) \/ a = Len(q) + 1
    BY AppendIs
  <1> HIDE DEF t
  <1>2. Has(t, K, k) <=> (Has(q, K, k) \/ (r.call \in K /\ r.op = k))
    BY <1>1 DEF Has
  <1> QED
    BY <1>2 DEF t

\* And when the first is taken.
LEMMA HasTail ==
    ASSUME NEW q \in Seq(Submitted), q # << >>, NEW K, NEW k
    PROVE  Has(q, K, k) <=> (Has(Tail(q), K, k) \/ (Head(q).call \in K /\ Head(q).op = k))
  <1> DEFINE t == Tail(q)
  <1>1. /\ \A a \in 1..Len(t) : t[a] = q[a + 1] /\ a + 1 \in 1..Len(q)
        /\ Head(q) = q[1] /\ 1 \in 1..Len(q)
        /\ \A a \in 1..Len(q) : a = 1 \/ (a - 1 \in 1..Len(t) /\ t[a - 1] = q[a])
    BY TailIs
  <1> HIDE DEF t
  <1>2. Has(q, K, k) <=> (Has(t, K, k) \/ (Head(q).call \in K /\ Head(q).op = k))
    <2>1. ASSUME Has(q, K, k) PROVE Has(t, K, k) \/ (Head(q).call \in K /\ Head(q).op = k)
      <3>1. PICK a \in 1..Len(q) : q[a].call \in K /\ q[a].op = k
        BY ONLY <2>1 DEF Has
      <3>2. CASE a = 1
        BY ONLY <1>1, <3>1, <3>2
      <3>3. CASE a - 1 \in 1..Len(t) /\ t[a - 1] = q[a]
        BY ONLY <3>1, <3>3 DEF Has
      <3> QED
        BY ONLY <1>1, <3>2, <3>3
    <2>2. Has(t, K, k) => Has(q, K, k)
      BY ONLY <1>1 DEF Has
    <2>3. Head(q).call \in K /\ Head(q).op = k => Has(q, K, k)
      BY ONLY <1>1 DEF Has
    <2> QED
      BY <2>1, <2>2, <2>3
  <1> QED
    BY <1>2 DEF t

\* The bytes of all when one is put behind.
LEMMA WholeAppend ==
    ASSUME NEW s, NEW q \in Seq(Submitted), NEW r \in Submitted, NEW K
    PROVE  Whole(s, Append(q, r), K) <=> (Whole(s, q, K) /\ (r.call \in K => Block(s, r.op, r.n)))
  <1> DEFINE t == Append(q, r)
  <1>1. /\ \A a \in 1..Len(q) : t[a] = q[a] /\ a \in 1..Len(t)
        /\ t[Len(q) + 1] = r /\ Len(q) + 1 \in 1..Len(t)
        /\ \A a \in 1..Len(t) : a \in 1..Len(q) \/ a = Len(q) + 1
    BY AppendIs
  <1> HIDE DEF t
  <1>2. Whole(s, t, K) <=> (Whole(s, q, K) /\ (r.call \in K => Block(s, r.op, r.n)))
    BY <1>1 DEF Whole
  <1> QED
    BY <1>2 DEF t

\* And when the first is taken.
LEMMA WholeTail ==
    ASSUME NEW s, NEW q \in Seq(Submitted), q # << >>, NEW K
    PROVE  Whole(s, q, K) <=> (Whole(s, Tail(q), K) /\ (Head(q).call \in K => Block(s, Head(q).op, Head(q).n)))
  <1> DEFINE t == Tail(q)
  <1>1. /\ \A a \in 1..Len(t) : t[a] = q[a + 1] /\ a + 1 \in 1..Len(q)
        /\ Head(q) = q[1] /\ 1 \in 1..Len(q)
        /\ \A a \in 1..Len(q) : a = 1 \/ (a - 1 \in 1..Len(t) /\ t[a - 1] = q[a])
    BY TailIs
  <1> HIDE DEF t
  <1>2. Whole(s, q, K) <=> (Whole(s, t, K) /\ (Head(q).call \in K => Block(s, Head(q).op, Head(q).n)))
    BY <1>1 DEF Whole
  <1> QED
    BY <1>2 DEF t

\* A call is put behind the others, and no bytes of others are behind its own.
LEMMA InLineAppend ==
    ASSUME NEW s, NEW q \in Seq(Submitted), NEW r \in Submitted, NEW K, InLine(s, q, K),
           r.call \in K => \A x, y \in 1..Len(s) : x < y /\ s[x] = r.op => ~Has(q, K, s[y])
    PROVE  InLine(s, Append(q, r), K)
  <1> DEFINE t == Append(q, r)
  <1>1. /\ \A a \in 1..Len(q) : t[a] = q[a]
        /\ t[Len(q) + 1] = r /\ Len(q) \in Nat
        /\ \A a \in 1..Len(t) : a \in 1..Len(q) \/ a = Len(q) + 1
    BY AppendIs
  <1> HIDE DEF t
  <1>2. ASSUME NEW x \in 1..Len(s), NEW y \in 1..Len(s), NEW a \in 1..Len(t), NEW b \in 1..Len(t),
               x < y, t[a].call \in K, t[a].op = s[x], t[b].call \in K, t[b].op = s[y]
        PROVE  a <= b
    <2>1. CASE a \in 1..Len(q) /\ b \in 1..Len(q)
      BY ONLY <1>1, <1>2, <2>1, InLine(s, q, K) DEF InLine
    <2>2. CASE b = Len(q) + 1
      BY ONLY <1>1, <2>2
    <2>3. CASE a = Len(q) + 1 /\ b \in 1..Len(q)
      <3>1. r.call \in K /\ s[x] = r.op
        BY ONLY <1>1, <1>2, <2>3
      <3>2. Has(q, K, s[y])
        BY ONLY <1>1, <1>2, <2>3 DEF Has
      <3> QED
        BY <3>1, <3>2, <1>2
    <2> QED
      BY ONLY <1>1, <2>1, <2>2, <2>3
  <1>3. InLine(s, t, K)
    BY ONLY <1>2 DEF InLine
  <1> QED
    BY <1>3 DEF t

\* The first call is taken; its bytes are in front of those of the other calls.
LEMMA InLineTail ==
    ASSUME NEW s, NEW q \in Seq(Submitted), q # << >>, NEW K, InLine(s, q, K)
    PROVE  /\ InLine(s, Tail(q), K)
           /\ Head(q).call \in K =>
                \A x, y \in 1..Len(s) : x < y /\ s[y] = Head(q).op /\ Has(q, K, s[x]) => s[x] = s[y]
  <1> DEFINE t == Tail(q)
  <1>1. /\ \A a \in 1..Len(t) : t[a] = q[a + 1] /\ a + 1 \in 1..Len(q)
        /\ Head(q) = q[1] /\ 1 \in 1..Len(q)
    BY TailIs
  <1> HIDE DEF t
  <1>2. ASSUME NEW x \in 1..Len(s), NEW y \in 1..Len(s), NEW a \in 1..Len(t), NEW b \in 1..Len(t),
               x < y, t[a].call \in K, t[a].op = s[x], t[b].call \in K, t[b].op = s[y]
        PROVE  a <= b
    <2>0. /\ a + 1 \in 1..Len(q) /\ q[a + 1].call \in K /\ q[a + 1].op = s[x]
          /\ b + 1 \in 1..Len(q) /\ q[b + 1].call \in K /\ q[b + 1].op = s[y]
      BY ONLY <1>1, <1>2
    <2>1. a + 1 <= b + 1
      BY ONLY <1>2, <2>0, InLine(s, q, K) DEF InLine
    <2> QED
      BY ONLY <2>1, a \in 1..Len(t), b \in 1..Len(t)
  <1>3. InLine(s, t, K)
    BY ONLY <1>2 DEF InLine
  <1>4. ASSUME Head(q).call \in K, NEW x \in 1..Len(s), NEW y \in 1..Len(s), x < y, s[y] = Head(q).op,
               Has(q, K, s[x])
        PROVE  s[x] = s[y]
    <2>1. PICK a \in 1..Len(q) : q[a].call \in K /\ q[a].op = s[x]
      BY ONLY <1>4 DEF Has
    <2>2. a <= 1
      BY ONLY <1>1, <1>4, <2>1, InLine(s, q, K) DEF InLine
    <2>3. a = 1
      BY ONLY <2>2, a \in 1..Len(q)
    <2> QED
      BY ONLY <1>1, <1>4, <2>1, <2>3
  <1> QED
    BY <1>3, <1>4 DEF t

\* A call that carries nothing is put behind.
LEMMA SendingRead ==
    ASSUME NEW s \in Seq(Ops), NEW r \in Seq(Submitted), NEW w \in Seq(Submitted), Sending(s, r, w),
           NEW call \in Submitted, call.call = "rwrite"
    PROVE  Sending(s, Append(r, call), w)
  <1>0. call.call \notin Sends
    BY DEF Sends
  <1>1. \A k : Has(Append(r, call), Sends, k) <=> Has(r, Sends, k)
    BY <1>0, HasAppend
  <1>2. Whole(s, Append(r, call), Sends)
    BY <1>0, WholeAppend DEF Sending
  <1>3. InLine(s, Append(r, call), Sends)
    BY <1>0, InLineAppend DEF Sending
  <1> QED
    BY <1>1, <1>2, <1>3 DEF Sending

\* And is performed.
LEMMA SendingTail ==
    ASSUME NEW s \in Seq(Ops), NEW r \in Seq(Submitted), NEW w \in Seq(Submitted), Sending(s, r, w),
           r # << >>, Head(r).call = "rwrite"
    PROVE  Sending(s, Tail(r), w)
  <1>0. Head(r).call \notin Sends
    BY DEF Sends
  <1>1. \A k : Has(Tail(r), Sends, k) <=> Has(r, Sends, k)
    BY <1>0, HasTail
  <1>2. Whole(s, Tail(r), Sends)
    BY <1>0, WholeTail DEF Sending
  <1>3. InLine(s, Tail(r), Sends)
    BY <1>0, InLineTail DEF Sending
  <1> QED
    BY <1>1, <1>2, <1>3 DEF Sending

\* read.
LEMMA SockRead ==
    ASSUME SockInv, NEW c \in Movers, NEW n \in 0..MaxBytes, Sock!Read(c, n)
    PROVE  SockInv'
  <1>0. SockTypes /\ BusyInv /\ CallsInv /\ ReadsInv /\ ToRemoteInv /\ ToLocalInv /\ RoomInv /\ wrong = {}
    BY DEF SockInv
  <1> DEFINE call == [proc |-> c, op |-> count, call |-> "rwrite", n |-> n]
  <1>1. /\ Sock!Begin(c, n, "rwrite") /\ UNCHANGED <<toRemote, toLocal, wire, written, results, wrong>>
        /\ remote' = IF n = 0 THEN remote ELSE Append(remote, call)
    BY DEF Sock!Read
  <1>2. /\ procs[c].pc = "idle" /\ count' = count + 1 /\ count' \in 0..MaxTransfers /\ count \in Ops
        /\ procs' \in [Movers -> {Sock!Idle} \cup Moving]
        /\ \A e \in Movers : e # c => procs'[e] = procs[e]
        /\ IF n = 0 THEN procs' = procs ELSE procs'[c] = [pc |-> "rwrite", op |-> count, size |-> n]
        /\ BusyInv'
    BY <1>1, SockBegin
  <1>3. n # 0 => call \in Submitted /\ call.call = "rwrite" /\ call.proc = c /\ call.op = count /\ call.n = n
    BY <1>2, SockConstants DEF Submitted
  <1>4. remote \in Seq(Submitted)
    BY <1>0 DEF SockTypes
  <1> HIDE DEF call
  <1>5. n # 0 => /\ remote' \in Seq(Submitted) /\ Len(remote') = Len(remote) + 1 /\ Len(remote) \in Nat
                 /\ \A a \in 1..Len(remote) : remote'[a] = remote[a]
                 /\ remote'[Len(remote) + 1] = call
                 /\ \A a \in 1..Len(remote') : a \in 1..Len(remote) \/ a = Len(remote) + 1
    BY <1>1, <1>3, <1>4, AppendIs
  <1>6. SockTypes'
    BY ONLY <1>0, <1>1, <1>2, <1>5 DEF SockTypes
  <1>7. /\ \A a \in 1..Len(remote) : remote[a].proc # c /\ Of(procs', remote[a], remote[a].call)
        /\ \A a \in 1..Len(written) : Of(procs', written[a], "wrote")
        /\ \A a \in 1..Len(results) : results[a].proc # c /\ Of(procs', results[a], results[a].call)
    BY <1>2, OthersCalls
  <1>8. CallsInv'
    <2>1. CASE n = 0
      BY ONLY <1>0, <1>1, <1>7, <2>1 DEF CallsInv, Distinct
    <2>2. CASE n # 0
      <3>1. Distinct(remote')
        BY <1>0, <1>1, <1>3, <1>4, <1>7, <2>2, DistinctAppend DEF CallsInv
      <3>2. Of(procs', call, "rwrite")
        BY <1>2, <1>3, <2>2 DEF Of
      <3>3. \A a \in 1..Len(remote') : /\ remote'[a].call \in {"recv", "rwrite"}
                                          /\ Of(procs', remote'[a], remote'[a].call)
                                       /\ \A b \in 1..Len(results) : remote'[a].proc # results[b].proc
        <4> SUFFICES ASSUME NEW a \in 1..Len(remote')
                     PROVE  /\ remote'[a].call \in {"recv", "rwrite"} /\ Of(procs', remote'[a], remote'[a].call)
                            /\ \A b \in 1..Len(results) : remote'[a].proc # results[b].proc
          OBVIOUS
        <4>1. CASE a \in 1..Len(remote)
          BY ONLY <1>0, <1>5, <1>7, <2>2, <4>1 DEF CallsInv
        <4>2. CASE a = Len(remote) + 1
          <5>1. remote'[a] = call
            BY ONLY <1>5, <2>2, <4>2
          <5> QED
            BY ONLY <5>1, <1>3, <1>7, <2>2, <3>2
        <4> QED
          BY ONLY <1>5, <2>2, <4>1, <4>2
      <3> QED
        BY ONLY <1>0, <1>1, <1>7, <3>1, <3>3 DEF CallsInv, Distinct
    <2> QED
      BY <2>1, <2>2
  <1>9. \A e \in Movers : (procs'[e].pc = "read" <=> procs[e].pc = "read")
        /\ (procs[e].pc = "read" => procs'[e] = procs[e])
    BY ONLY <1>2
  <1>10. ReadsInv'
    <2>1. CASE n = 0
      BY ONLY <1>0, <1>1, <1>9, <2>1 DEF ReadsInv
    <2>2. CASE n # 0
      <3>1. /\ \A a \in 1..Len(remote) : remote[a].op < count
            /\ \A a \in 1..Len(results) : results[a].op < count
        BY <1>0, OpsDiffer
      <3>2. \A e \in Movers : procs[e].pc = "read" => procs[e].op < count
        BY ONLY <1>0 DEF BusyInv
      <3>3. ASSUME NEW a \in 1..Len(remote'), NEW b \in 1..Len(remote'), a < b,
                   remote'[a].call = "rwrite", remote'[b].call = "rwrite"
            PROVE  remote'[a].op < remote'[b].op
        BY ONLY <1>0, <1>3, <1>5, <2>2, <3>1, <3>3 DEF ReadsInv
      <3>4. ASSUME NEW a \in 1..Len(results), NEW b \in 1..Len(remote'),
                   results[a].call = "rwrite", remote'[b].call = "rwrite"
            PROVE  results[a].op < remote'[b].op
        BY ONLY <1>0, <1>3, <1>5, <2>2, <3>1, <3>4 DEF ReadsInv
      <3>5. ASSUME NEW e \in Movers, procs[e].pc = "read", NEW a \in 1..Len(remote'), remote'[a].call = "rwrite"
            PROVE  procs[e].op < remote'[a].op
        BY ONLY <1>0, <1>3, <1>5, <2>2, <3>2, <3>5 DEF ReadsInv
      <3> QED
        BY ONLY <1>0, <1>1, <1>9, <3>3, <3>4, <3>5 DEF ReadsInv
    <2> QED
      BY <2>1, <2>2
  <1>11. ToRemoteInv'
    <2>1. CASE n = 0
      BY ONLY <1>0, <1>1, <2>1 DEF ToRemoteInv
    <2>2. CASE n # 0
      <3>1. toRemote \in Seq(Ops) /\ written \in Seq(Submitted)
        BY <1>0 DEF SockTypes
      <3>2. Sending(toRemote, Append(remote, call), written)
        BY <1>0, <1>3, <1>4, <2>2, <3>1, SendingRead DEF ToRemoteInv
      <3> QED
        BY ONLY <1>1, <2>2, <3>2 DEF ToRemoteInv
    <2> QED
      BY <2>1, <2>2
  <1>12. ToLocalInv'
    BY ONLY <1>0, <1>1, <1>9, ReceivingKept DEF ToLocalInv
  <1>13. RoomInv'
    <2>1. ToWrite' = ToWrite
      BY ONLY <1>2 DEF ToWrite
    <2>2. MaxBytes * (count + 1) = MaxBytes * count + MaxBytes /\ MaxBytes * count \in Nat
      BY SockConstants, <1>0 DEF SockTypes
    <2>3. Cardinality(ToWrite) \in Nat
      BY <1>0, FS_CardinalityType DEF RoomInv
    <2>4. MaxBytes * Cardinality(ToWrite) \in Nat
      BY SockConstants, <2>3
    <2>5. Len(toRemote) \in Nat /\ Len(toRemote') = Len(toRemote)
      BY <1>0, <1>1 DEF SockTypes
    <2> QED
      BY <1>0, <1>2, <2>1, <2>2, <2>4, <2>5, SockConstants DEF RoomInv
  <1> QED
    BY ONLY <1>0, <1>1, <1>2, <1>6, <1>8, <1>10, <1>11, <1>12, <1>13 DEF SockInv

\* A coroutine goes on with its operation.
LEMMA GoesOn ==
    ASSUME SockTypes, BusyInv, NEW c \in Movers, procs[c].pc # "idle", count' = count,
           NEW pc \in {"write", "wrote", "recv", "rwrite", "read"}, procs' = [procs EXCEPT ![c].pc = pc]
    PROVE  /\ procs' \in [Movers -> {Sock!Idle} \cup Moving] /\ BusyInv'
           /\ \A e \in Movers : e # c => procs'[e] = procs[e]
           /\ procs'[c].pc = pc /\ procs'[c].op = procs[c].op /\ procs'[c].size = procs[c].size
  <1>1. procs[c] \in Moving /\ procs \in [Movers -> {Sock!Idle} \cup Moving]
    BY MoverKinds DEF SockTypes
  <1>2. procs' = [procs EXCEPT ![c] = [procs[c] EXCEPT !.pc = pc]]
    OBVIOUS
  <1> DEFINE new == [procs[c] EXCEPT !.pc = pc]
  <1>3. new \in Moving /\ new.pc = pc /\ new.op = procs[c].op /\ new.size = procs[c].size
    BY ONLY <1>1, pc \in {"write", "wrote", "recv", "rwrite", "read"} DEF Moving
  <1>4. procs' = [procs EXCEPT ![c] = new]
    BY <1>2
  <1> HIDE DEF new
  <1>5. procs' \in [Movers -> {Sock!Idle} \cup Moving] /\ procs'[c] = new
        /\ \A e \in Movers : e # c => procs'[e] = procs[e]
    BY ONLY <1>1, <1>3, <1>4
  <1>6. \A e \in Movers : procs'[e].pc # "idle" => procs[e].pc # "idle" /\ procs'[e].op = procs[e].op
    BY <1>3, <1>5
  <1>7. BusyInv'
    BY ONLY <1>6, BusyInv, count' = count DEF BusyInv
  <1> QED
    BY <1>3, <1>5, <1>7

\* Or its operation ends.
LEMMA Ends ==
    ASSUME SockTypes, BusyInv, NEW c \in Movers, count' = count, Sock!Ended(c)
    PROVE  /\ procs' \in [Movers -> {Sock!Idle} \cup Moving] /\ BusyInv'
           /\ \A e \in Movers : e # c => procs'[e] = procs[e]
           /\ procs'[c].pc = "idle"
  <1>1. procs' = [procs EXCEPT ![c] = Sock!Idle] /\ procs \in [Movers -> {Sock!Idle} \cup Moving]
    BY DEF SockTypes, Sock!Ended
  <1>2. procs' \in [Movers -> {Sock!Idle} \cup Moving] /\ procs'[c] = Sock!Idle
        /\ \A e \in Movers : e # c => procs'[e] = procs[e]
    BY <1>1
  <1>3. procs'[c].pc = "idle"
    BY <1>2 DEF Sock!Idle
  <1>4. \A e \in Movers : procs'[e].pc # "idle" => procs[e].pc # "idle" /\ procs'[e].op = procs[e].op
    BY <1>2, <1>3
  <1>5. BusyInv'
    BY ONLY <1>4, BusyInv, count' = count DEF BusyInv
  <1> QED
    BY <1>2, <1>3, <1>5

\* Nobody begins or ends to write, and there are not more bytes.
LEMMA RoomKept ==
    ASSUME RoomInv, count' = count, Len(toRemote) \in Nat, Len(toRemote') \in Nat,
           Len(toRemote') <= Len(toRemote),
           \A e \in Movers : procs'[e].pc = "write" <=> procs[e].pc = "write", count \in Nat
    PROVE  RoomInv'
  <1>1. ToWrite' = ToWrite
    BY DEF ToWrite
  <1>2. Cardinality(ToWrite) \in Nat
    BY FS_CardinalityType DEF RoomInv
  <1>3. MaxBytes * Cardinality(ToWrite) \in Nat /\ MaxBytes * count \in Nat
    BY SockConstants, <1>2
  <1> QED
    BY <1>1, <1>3 DEF RoomInv

\* The remote server performs a system call: its result is the last.
LEMMA Performed ==
    ASSUME SockInv, remote # << >>, remote' = Tail(remote), results' = Append(results, Head(remote)),
           UNCHANGED <<procs, count, written>>
    PROVE  CallsInv' /\ ReadsInv' /\ BusyInv' /\ remote' \in Seq(Submitted) /\ results' \in Seq(Submitted)
  <1>0. SockTypes /\ BusyInv /\ CallsInv /\ ReadsInv
    BY DEF SockInv
  <1>1. remote \in Seq(Submitted) /\ results \in Seq(Submitted)
    BY <1>0 DEF SockTypes
  <1> DEFINE r == Head(remote)
  <1>2. /\ remote' \in Seq(Submitted)
        /\ \A a \in 1..Len(remote') : remote'[a] = remote[a + 1] /\ a + 1 \in 1..Len(remote)
        /\ r = remote[1] /\ 1 \in 1..Len(remote) /\ r \in Submitted
    BY <1>1, TailIs
  <1>3. /\ results' \in Seq(Submitted) /\ Len(results) \in Nat
        /\ \A a \in 1..Len(results) : results'[a] = results[a]
        /\ results'[Len(results) + 1] = r
        /\ \A a \in 1..Len(results') : a \in 1..Len(results) \/ a = Len(results) + 1
    BY <1>1, <1>2, AppendIs
  <1>4. Distinct(remote') /\ \A a \in 1..Len(remote') : remote'[a].proc # r.proc
    BY <1>0, <1>1, DistinctTail DEF CallsInv
  <1>5. Distinct(results')
    <2>1. \A a \in 1..Len(results) : results[a].proc # r.proc
      BY <1>0, <1>2 DEF CallsInv
    <2> QED
      BY <1>0, <1>1, <1>2, <2>1, DistinctAppend DEF CallsInv
  <1> HIDE DEF r
  <1>6. CallsInv'
    <2>1. \A a \in 1..Len(remote') :
            remote'[a].call \in {"recv", "rwrite"} /\ Of(procs', remote'[a], remote'[a].call)
      BY ONLY <1>0, <1>2, UNCHANGED <<procs, count, written>> DEF CallsInv
    <2>2. \A a \in 1..Len(results') :
            results'[a].call \in {"recv", "rwrite"} /\ Of(procs', results'[a], results'[a].call)
      <3> SUFFICES ASSUME NEW a \in 1..Len(results')
                   PROVE  results'[a].call \in {"recv", "rwrite"} /\ Of(procs', results'[a], results'[a].call)
        OBVIOUS
      <3>1. CASE a \in 1..Len(results)
        <4>1. results'[a].call \in {"recv", "rwrite"} /\ Of(procs, results'[a], results'[a].call)
          BY ONLY <1>0, <1>3, <3>1 DEF CallsInv
        <4> QED
          BY ONLY <4>1, UNCHANGED <<procs, count, written>> DEF Of
      <3>2. CASE a = Len(results) + 1
        <4>1. results'[a].call \in {"recv", "rwrite"} /\ Of(procs, results'[a], results'[a].call)
          BY ONLY <1>0, <1>2, <1>3, <3>2 DEF CallsInv
        <4> QED
          BY ONLY <4>1, UNCHANGED <<procs, count, written>> DEF Of
      <3> QED
        BY ONLY <1>3, <3>1, <3>2
    <2>3. ASSUME NEW a \in 1..Len(remote'), NEW b \in 1..Len(results') PROVE remote'[a].proc # results'[b].proc
      <3>1. CASE b \in 1..Len(results)
        BY ONLY <1>0, <1>2, <1>3, <3>1 DEF CallsInv
      <3>2. CASE b = Len(results) + 1
        BY ONLY <1>3, <1>4, <3>2
      <3> QED
        BY ONLY <1>3, <3>1, <3>2
    <2> QED
      BY ONLY <1>0, <1>4, <1>5, <2>1, <2>2, <2>3, UNCHANGED <<procs, count, written>> DEF CallsInv, Distinct
  <1>7. ReadsInv'
    <2>1. ASSUME NEW a \in 1..Len(remote'), NEW b \in 1..Len(remote'), a < b,
                 remote'[a].call = "rwrite", remote'[b].call = "rwrite"
          PROVE  remote'[a].op < remote'[b].op
      <3>1. a + 1 \in 1..Len(remote) /\ b + 1 \in 1..Len(remote) /\ a + 1 < b + 1
            /\ remote[a + 1] = remote'[a] /\ remote[b + 1] = remote'[b]
        BY <1>2, <2>1
      <3> QED
        BY ONLY <1>0, <3>1, <2>1 DEF ReadsInv
    <2>2. ASSUME NEW a \in 1..Len(results'), NEW b \in 1..Len(results'), a < b,
                 results'[a].call = "rwrite", results'[b].call = "rwrite"
          PROVE  results'[a].op < results'[b].op
      <3>1. CASE a \in 1..Len(results) /\ b \in 1..Len(results)
        BY ONLY <1>0, <1>3, <2>2, <3>1 DEF ReadsInv
      <3>2. CASE a \in 1..Len(results) /\ b = Len(results) + 1
        BY ONLY <1>0, <1>2, <1>3, <2>2, <3>2 DEF ReadsInv
      <3>3. ~(a = Len(results) + 1)
        BY ONLY <1>3, <2>2
      <3> QED
        BY ONLY <1>3, <3>1, <3>2, <3>3
    <2>3. ASSUME NEW a \in 1..Len(results'), NEW b \in 1..Len(remote'),
                 results'[a].call = "rwrite", remote'[b].call = "rwrite"
          PROVE  results'[a].op < remote'[b].op
      <3>1. CASE a \in 1..Len(results)
        BY ONLY <1>0, <1>2, <1>3, <2>3, <3>1 DEF ReadsInv
      <3>2. CASE a = Len(results) + 1
        <4>1. b + 1 \in 1..Len(remote) /\ 1 < b + 1 /\ remote'[b] = remote[b + 1]
          BY <1>2
        <4> QED
          BY ONLY <1>0, <1>2, <1>3, <2>3, <3>2, <4>1 DEF ReadsInv
      <3> QED
        BY ONLY <1>3, <3>1, <3>2
    <2>4. ASSUME NEW e \in Movers, procs[e].pc = "read", NEW a \in 1..Len(results'), results'[a].call = "rwrite"
          PROVE  procs[e].op < results'[a].op
      <3>1. CASE a \in 1..Len(results)
        BY ONLY <1>0, <1>3, <2>4, <3>1 DEF ReadsInv
      <3>2. CASE a = Len(results) + 1
        BY ONLY <1>0, <1>2, <1>3, <2>4, <3>2 DEF ReadsInv
      <3> QED
        BY ONLY <1>3, <3>1, <3>2
    <2>5. ASSUME NEW e \in Movers, procs[e].pc = "read", NEW a \in 1..Len(remote'), remote'[a].call = "rwrite"
          PROVE  procs[e].op < remote'[a].op
      BY ONLY <1>0, <1>2, <2>5 DEF ReadsInv
    <2> QED
      BY ONLY <2>1, <2>2, <2>3, <2>4, <2>5, UNCHANGED <<procs, count, written>> DEF ReadsInv
  <1>8. BusyInv'
    BY ONLY <1>0, UNCHANGED <<procs, count, written>> DEF BusyInv
  <1> QED
    BY <1>2, <1>3, <1>6, <1>7, <1>8

\* The first recv finds its own bytes in front, and takes them.
LEMMA SendingDrop ==
    ASSUME NEW s \in Seq(Ops), NEW r \in Seq(Submitted), NEW w \in Seq(Submitted), Sending(s, r, w),
           r # << >>, Head(r).call = "recv",
           \A a \in 1..Len(Tail(r)) : Tail(r)[a].op # Head(r).op,
           \A a \in 1..Len(w) : w[a].op # Head(r).op
    PROVE  /\ Head(r).n \in 0..Len(s) /\ \A x \in 1..Head(r).n : s[x] = Head(r).op
           /\ Sending(Sock!Drop(s, Head(r).n), Tail(r), w)
  <1> DEFINE k == Head(r).op
             n == Head(r).n
             t == Tail(r)
             u == Sock!Drop(s, n)
  <1>0. Head(r).call \in Sends /\ t \in Seq(Submitted) /\ n \in Nat \ {0} /\ Len(s) \in Nat
    <2>1. Head(r) \in Submitted /\ t \in Seq(Submitted)
      BY TailIs
    <2> QED
      BY <2>1, SockConstants DEF Submitted, Sends
  <1>1. /\ Whole(s, t, Sends) /\ Block(s, k, n) /\ InLine(s, t, Sends)
        /\ \A x, y \in 1..Len(s) : x < y /\ s[y] = k /\ Has(r, Sends, s[x]) => s[x] = k
        /\ \A j : Has(r, Sends, j) <=> (Has(t, Sends, j) \/ k = j)
    BY <1>0, WholeTail, InLineTail, HasTail DEF Sending
  <1> HIDE DEF k, n, t
  <1>2. \A x, y \in 1..Len(s) : x < y /\ s[y] = k => s[x] = k
    <2> SUFFICES ASSUME NEW x \in 1..Len(s), NEW y \in 1..Len(s), x < y, s[y] = k
                 PROVE  s[x] = k
      OBVIOUS
    <2>1. Has(r, Sends, s[y])
      BY <1>1
    <2>2. Has(r, Sends, s[x])
      BY ONLY <2>1, Sending(s, r, w), x < y, x \in 1..Len(s), y \in 1..Len(s) DEF Sending
    <2> QED
      BY <1>1, <2>2
  <1>3. n <= Len(s) /\ (\A x \in 1..n : s[x] = k) /\ \A x \in 1..Len(s) : x > n => s[x] # k
    BY <1>0, <1>1, <1>2, BlockFirst
  <1>4. n \in 0..Len(s)
    BY <1>0, <1>3
  <1>5. /\ u \in Seq(Ops) /\ Len(u) = Len(s) - n
        /\ \A x \in 1..Len(u) : u[x] = s[n + x] /\ n + x \in 1..Len(s) /\ u[x] # k
    <2>1. u \in Seq(Ops) /\ Len(u) = Len(s) - n /\ \A x \in 1..(Len(s) - n) : u[x] = s[n + x]
      BY <1>4, SockDrop
    <2> HIDE DEF u
    <2>2. \A x \in 1..Len(u) : n + x \in 1..Len(s) /\ n + x > n
      BY <2>1, <1>0
    <2> QED
      BY <2>1, <2>2, <1>3
  <1>6. \A j, m : m \in Nat \ {0} /\ j # k /\ Block(s, j, m) => Block(u, j, m)
    BY <1>3, <1>4, BlockDrop
  <1> HIDE DEF u
  <1>7. \A j : j # k /\ Has(r, Sends, j) => Has(t, Sends, j)
    BY <1>1
  <1>8. \A x \in 1..Len(u) : Has(t, Sends, u[x]) \/ Has(w, Sends, u[x])
    BY ONLY <1>5, <1>7, Sending(s, r, w) DEF Sending
  <1>9. Whole(u, t, Sends)
    <2> SUFFICES ASSUME NEW a \in 1..Len(t), t[a].call \in Sends PROVE Block(u, t[a].op, t[a].n)
      BY DEF Whole
    <2>1. t[a].op # k /\ t[a].n \in Nat \ {0}
      <3>1. t[a].n \in 1..MaxBytes
        BY <1>0, Elements
      <3> QED
        BY <3>1, SockConstants DEF t, k
    <2> QED
      BY <1>1, <1>6, <2>1 DEF Whole
  <1>10. Whole(u, w, Sends)
    <2> SUFFICES ASSUME NEW a \in 1..Len(w), w[a].call \in Sends PROVE Block(u, w[a].op, w[a].n)
      BY DEF Whole
    <2>1. w[a].op # k /\ w[a].n \in Nat \ {0}
      <3>1. w[a].n \in 1..MaxBytes
        BY Elements
      <3> QED
        BY <3>1, SockConstants DEF k
    <2> QED
      BY <1>6, <2>1 DEF Whole, Sending
  <1>11. \A x, y \in 1..Len(u) : x < y => n + x < n + y
    BY <1>0
  <1>12. InLine(u, t, Sends)
    BY ONLY <1>1, <1>5, <1>11 DEF InLine
  <1>13. InLine(u, w, Sends)
    BY ONLY Sending(s, r, w), <1>5, <1>11 DEF Sending, InLine
  <1>14. \A x, y \in 1..Len(u) : x < y => ~(Has(w, Sends, u[x]) /\ Has(t, Sends, u[y]))
    BY ONLY Sending(s, r, w), <1>1, <1>5, <1>11 DEF Sending
  <1>15. Sending(u, t, w)
    BY ONLY <1>8, <1>9, <1>10, <1>12, <1>13, <1>14 DEF Sending
  <1> QED
    BY <1>3, <1>4, <1>15 DEF u, t, n, k

\* The recv of what was written first is submitted.
LEMMA SendingMoved ==
    ASSUME NEW s \in Seq(Ops), NEW r \in Seq(Submitted), NEW w \in Seq(Submitted), Sending(s, r, w),
           w # << >>, Head(w).call = "write",
           \A a \in 1..Len(Tail(w)) : Tail(w)[a].op # Head(w).op,
           NEW call \in Submitted, call.call = "recv", call.op = Head(w).op, call.n = Head(w).n
    PROVE  Sending(s, Append(r, call), Tail(w))
  <1> DEFINE k == Head(w).op
             t == Tail(w)
             q == Append(r, call)
  <1>0. Head(w).call \in Sends /\ call.call \in Sends /\ t \in Seq(Submitted)
    BY TailIs DEF Sends
  <1>1. /\ Whole(s, t, Sends) /\ Block(s, k, Head(w).n) /\ InLine(s, t, Sends)
        /\ \A x, y \in 1..Len(s) : x < y /\ s[y] = k /\ Has(w, Sends, s[x]) => s[x] = k
        /\ \A j : Has(w, Sends, j) <=> (Has(t, Sends, j) \/ k = j)
    BY <1>0, WholeTail, InLineTail, HasTail DEF Sending
  <1>2. /\ \A j : Has(q, Sends, j) <=> (Has(r, Sends, j) \/ k = j)
        /\ Whole(s, q, Sends)
    BY <1>0, <1>1, WholeAppend, HasAppend DEF Sending
  <1>3. InLine(s, q, Sends)
    <2>1. \A x, y \in 1..Len(s) : x < y /\ s[x] = call.op => ~Has(r, Sends, s[y])
      BY <1>1 DEF Sending
    <2> QED
      BY <2>1, InLineAppend DEF Sending
  <1>4. ~Has(t, Sends, k)
    BY DEF Has
  <1> HIDE DEF k, t, q
  <1>5. \A x \in 1..Len(s) : Has(q, Sends, s[x]) \/ Has(t, Sends, s[x])
    BY ONLY <1>1, <1>2, Sending(s, r, w) DEF Sending
  <1>6. ASSUME NEW x \in 1..Len(s), NEW y \in 1..Len(s), x < y, Has(t, Sends, s[x]), Has(q, Sends, s[y])
        PROVE  FALSE
    <2>1. Has(w, Sends, s[x])
      BY <1>1, <1>6
    <2>2. ~Has(r, Sends, s[y])
      BY ONLY <1>6, <2>1, Sending(s, r, w) DEF Sending
    <2>3. s[y] = k
      BY <1>2, <1>6, <2>2
    <2>4. s[x] = k
      BY <1>1, <1>6, <2>1, <2>3
    <2> QED
      BY <1>4, <1>6, <2>4
  <1>7. Sending(s, q, t)
    BY ONLY <1>1, <1>2, <1>3, <1>5, <1>6 DEF Sending
  <1> QED
    BY <1>7 DEF q, t

\* Bytes of a new operation are written.
LEMMA SendingAdded ==
    ASSUME NEW s \in Seq(Ops), NEW r \in Seq(Submitted), NEW w \in Seq(Submitted), Sending(s, r, w),
           NEW call \in Submitted, call.call = "write",
           \A a \in 1..Len(r) : r[a].op # call.op,
           \A a \in 1..Len(w) : w[a].op # call.op
    PROVE  Sending(s \o Sock!Bytes(call.op, call.n), r, Append(w, call))
  <1> DEFINE k == call.op
             n == call.n
             u == s \o Sock!Bytes(k, n)
             v == Append(w, call)
  <1>0. call.call \in Sends /\ k \in Ops /\ n \in Nat
    BY SockConstants DEF Sends, Submitted
  <1> HIDE DEF k, n
  <1>20. Len(s) \in Nat
    OBVIOUS
  <1>1. /\ u \in Seq(Ops) /\ Len(u) = Len(s) + n /\ Len(s) \in Nat
        /\ \A x \in 1..Len(s) : u[x] = s[x]
        /\ \A x \in 1..Len(u) : x > Len(s) => u[x] = k
    BY <1>0, <1>20, SockCat
  <1> USE DEF k, n
  <1>2. ~Has(r, Sends, k) /\ ~Has(w, Sends, k)
    BY DEF Has
  <1>3. \A x \in 1..Len(s) : s[x] # k
    BY <1>2 DEF Sending
  <1>4. Block(u, k, n)
    BY <1>0, <1>3, BlockAdded
  <1>5. \A j, m : m \in Nat \ {0} /\ j # k /\ Block(s, j, m) => Block(u, j, m)
    BY <1>0, BlockStays
  <1> HIDE DEF u
  <1>6. \A a \in 1..Len(r) : r[a].op # k /\ r[a].n \in Nat \ {0}
    <2> SUFFICES ASSUME NEW a \in 1..Len(r) PROVE r[a].n \in Nat \ {0}
      OBVIOUS
    <2>1. r[a].n \in 1..MaxBytes
      BY Elements
    <2> QED
      BY <2>1, SockConstants
  <1>7. \A a \in 1..Len(w) : w[a].op # k /\ w[a].n \in Nat \ {0}
    <2> SUFFICES ASSUME NEW a \in 1..Len(w) PROVE w[a].n \in Nat \ {0}
      OBVIOUS
    <2>1. w[a].n \in 1..MaxBytes
      BY Elements
    <2> QED
      BY <2>1, SockConstants
  <1>8. Whole(u, r, Sends)
    BY ONLY <1>5, <1>6, Sending(s, r, w) DEF Sending, Whole
  <1>9. Whole(u, w, Sends)
    BY ONLY <1>5, <1>7, Sending(s, r, w) DEF Sending, Whole
  <1>10. Whole(u, v, Sends)
    BY <1>4, <1>9, WholeAppend
  <1>11. \A j : Has(v, Sends, j) <=> (Has(w, Sends, j) \/ k = j)
    BY <1>0, HasAppend
  <1> HIDE DEF k, n, v
  <1>12. \A x \in 1..Len(u) : u[x] # k => x \in 1..Len(s) /\ u[x] = s[x]
    BY ONLY <1>1
  <1>13. InLine(u, r, Sends)
    BY ONLY <1>6, <1>12, Sending(s, r, w) DEF Sending, InLine
  <1>14. InLine(u, w, Sends)
    BY ONLY <1>7, <1>12, Sending(s, r, w) DEF Sending, InLine
  <1>15. \A x, y \in 1..Len(u) : x < y /\ u[x] = k => u[y] = k
    BY ONLY <1>1, <1>3
  <1>16. InLine(u, v, Sends)
    <2>1. \A x, y \in 1..Len(u) : x < y /\ u[x] = call.op => ~Has(w, Sends, u[y])
      BY <1>2, <1>15 DEF k
    <2> QED
      BY <2>1, <1>14, InLineAppend DEF v
  <1>17. \A x \in 1..Len(u) : Has(r, Sends, u[x]) \/ Has(v, Sends, u[x])
    BY ONLY <1>11, <1>12, Sending(s, r, w) DEF Sending
  <1>18. ASSUME NEW x \in 1..Len(u), NEW y \in 1..Len(u), x < y, Has(v, Sends, u[x]), Has(r, Sends, u[y])
         PROVE  FALSE
    <2>1. u[y] # k /\ u[x] # k
      BY <1>2, <1>15, <1>18
    <2>2. x \in 1..Len(s) /\ y \in 1..Len(s) /\ u[x] = s[x] /\ u[y] = s[y]
      BY <1>12, <2>1
    <2>3. Has(w, Sends, s[x]) /\ Has(r, Sends, s[y])
      BY <1>11, <1>18, <2>1, <2>2
    <2> QED
      BY ONLY <1>18, <2>2, <2>3, Sending(s, r, w) DEF Sending
  <1>19. Sending(u, r, v)
    BY ONLY <1>8, <1>10, <1>13, <1>16, <1>17, <1>18 DEF Sending
  <1> QED
    BY <1>19 DEF u, v, k, n

\* The bytes of a read arrive behind those of earlier reads.
LEMMA ReceivingAdded ==
    ASSUME NEW s \in Seq(Ops), NEW P \in [Movers -> {Sock!Idle} \cup Moving], NEW q \in Seq(Submitted),
           Receiving(s, P, q), NEW call \in Submitted, call.call = "rwrite",
           \A a \in 1..Len(q) : q[a].call = "rwrite" => q[a].op < call.op,
           \A c \in Movers : P[c].pc = "read" => P[c].op < call.op
    PROVE  Receiving(s \o Sock!Bytes(call.op, call.n), P, Append(q, call))
  <1> DEFINE k == call.op
             n == call.n
             u == s \o Sock!Bytes(k, n)
             v == Append(q, call)
  <1>0. call.call \in Reads /\ k \in Ops /\ n \in Nat /\ Len(s) \in Nat
    BY SockConstants DEF Reads, Submitted
  <1> HIDE DEF k, n
  <1>1. /\ u \in Seq(Ops) /\ Len(u) = Len(s) + n
        /\ \A x \in 1..Len(s) : u[x] = s[x]
        /\ \A x \in 1..Len(u) : x > Len(s) => u[x] = k
    BY <1>0, SockCat
  <1>2. \A x \in 1..Len(s) : s[x] \in Ops
    OBVIOUS
  <1>3. \A x \in 1..Len(s) : s[x] < k
    BY DEF Receiving, Reader, Has, Reads, k
  <1>4. \A x \in 1..Len(s) : s[x] # k
    BY <1>0, <1>2, <1>3 DEF Ops
  <1>5. Block(u, k, n)
    BY <1>0, <1>4, BlockAdded
  <1>6. \A j, m : m \in Nat \ {0} /\ j # k /\ Block(s, j, m) => Block(u, j, m)
    BY <1>0, BlockStays
  <1> HIDE DEF u
  <1>7. \A a \in 1..Len(q) : q[a].call = "rwrite" => q[a].op # k /\ q[a].n \in Nat \ {0}
    <2> SUFFICES ASSUME NEW a \in 1..Len(q), q[a].call = "rwrite" PROVE q[a].op # k /\ q[a].n \in Nat \ {0}
      OBVIOUS
    <2>1. q[a].n \in 1..MaxBytes /\ q[a].op \in Ops /\ q[a].op < k
      BY Elements DEF k
    <2> QED
      BY <2>1, <1>0, SockConstants DEF Ops
  <1>8. \A c \in Movers : P[c].pc = "read" => P[c].op # k /\ P[c].size \in Nat \ {0}
    <2> SUFFICES ASSUME NEW c \in Movers, P[c].pc = "read" PROVE P[c].op # k /\ P[c].size \in Nat \ {0}
      OBVIOUS
    <2>1. P[c] \in Moving /\ P[c].op < k
      BY DEF Sock!Idle, k
    <2> QED
      BY <2>1, <1>0, SockConstants DEF Ops, Moving
  <1>9. Whole(u, q, Reads)
    BY ONLY <1>6, <1>7, Receiving(s, P, q) DEF Receiving, Whole, Reads
  <1>10. Whole(u, v, Reads)
    BY <1>5, <1>9, WholeAppend DEF k, n
  <1>11. \A c \in Movers : P[c].pc = "read" => Block(u, P[c].op, P[c].size)
    BY ONLY <1>6, <1>8, Receiving(s, P, q) DEF Receiving
  <1>12. \A j : Has(v, Reads, j) <=> (Has(q, Reads, j) \/ k = j)
    BY <1>0, HasAppend DEF k
  <1> HIDE DEF v
  <1>13. \A x \in 1..Len(u) : Reader(P, u[x]) \/ Has(v, Reads, u[x])
    <2> SUFFICES ASSUME NEW x \in 1..Len(u) PROVE Reader(P, u[x]) \/ Has(v, Reads, u[x])
      OBVIOUS
    <2>1. CASE x \in 1..Len(s)
      BY ONLY <1>1, <1>12, <2>1, Receiving(s, P, q) DEF Receiving
    <2>2. CASE x > Len(s)
      BY ONLY <1>1, <1>12, <2>2
    <2> QED
      BY <1>0, <2>1, <2>2
  <1>14. ASSUME NEW x \in 1..Len(u), NEW y \in 1..Len(u), x < y PROVE u[x] <= u[y]
    <2>1. CASE y \in 1..Len(s)
      <3>1. x \in 1..Len(s)
        BY <1>0, <1>14, <2>1
      <3> QED
        BY ONLY <1>1, <1>14, <2>1, <3>1, Receiving(s, P, q) DEF Receiving
    <2>2. CASE y > Len(s) /\ x \in 1..Len(s)
      <3>1. s[x] <= k
        BY <1>0, <1>2, <1>3, <2>2 DEF Ops
      <3> QED
        BY ONLY <1>1, <2>2, <3>1
    <2>3. CASE y > Len(s) /\ x > Len(s)
      BY <1>0, <1>1, <2>3 DEF Ops
    <2> QED
      BY <1>0, <2>1, <2>2, <2>3
  <1>15. Receiving(u, P, v)
    BY ONLY <1>10, <1>11, <1>13, <1>14 DEF Receiving
  <1> QED
    BY <1>15 DEF u, v, k, n

\* The next read finds its own bytes in front, and takes them.
LEMMA ReceivingTaken ==
    ASSUME NEW s \in Seq(Ops), NEW P \in [Movers -> {Sock!Idle} \cup Moving], NEW q \in Seq(Submitted),
           Receiving(s, P, q), NEW c \in Movers, P[c].pc = "read",
           \A e \in Movers : P[e].pc = "read" => P[c].op <= P[e].op,
           \A e \in Movers : P[e].pc = "read" /\ P[e].op = P[c].op => e = c,
           \A a \in 1..Len(q) : q[a].call = "rwrite" => P[c].op < q[a].op,
           NEW Q, \A e \in Movers : e # c => Q[e] = P[e], Q[c].pc = "idle"
    PROVE  /\ P[c].size \in 0..Len(s) /\ \A x \in 1..P[c].size : s[x] = P[c].op
           /\ Receiving(Sock!Drop(s, P[c].size), Q, q)
  <1> DEFINE k == P[c].op
             n == P[c].size
             u == Sock!Drop(s, n)
  <1>0. k \in Ops /\ n \in Nat \ {0} /\ Len(s) \in Nat
    <2>1. P[c] \in Moving
      BY DEF Sock!Idle
    <2> QED
      BY <2>1, SockConstants DEF Moving
  <1> HIDE DEF k, n
  <1>1. Block(s, k, n)
    BY DEF Receiving, k, n
  <1>2. \A x \in 1..Len(s) : s[x] \in Ops
    OBVIOUS
  <1>3. \A x \in 1..Len(s) : k <= s[x]
    <2> SUFFICES ASSUME NEW x \in 1..Len(s) PROVE k <= s[x]
      OBVIOUS
    <2>1. CASE Reader(P, s[x])
      BY <2>1 DEF Reader, k
    <2>2. CASE Has(q, Reads, s[x])
      <3>1. k < s[x]
        BY <2>2 DEF Has, Reads, k
      <3> QED
        BY <3>1, <1>0, <1>2 DEF Ops
    <2> QED
      BY <2>1, <2>2 DEF Receiving
  <1>4. \A x, y \in 1..Len(s) : x < y /\ s[y] = k => s[x] = k
    <2> SUFFICES ASSUME NEW x \in 1..Len(s), NEW y \in 1..Len(s), x < y, s[y] = k PROVE s[x] = k
      OBVIOUS
    <2>1. s[x] <= k
      BY ONLY x \in 1..Len(s), y \in 1..Len(s), x < y, s[y] = k, Receiving(s, P, q) DEF Receiving
    <2> QED
      BY <1>0, <1>2, <1>3, <2>1 DEF Ops
  <1>5. n <= Len(s) /\ (\A x \in 1..n : s[x] = k) /\ \A x \in 1..Len(s) : x > n => s[x] # k
    BY <1>0, <1>1, <1>4, BlockFirst
  <1>6. n \in 0..Len(s)
    BY <1>0, <1>5
  <1>7. /\ u \in Seq(Ops) /\ Len(u) = Len(s) - n
        /\ \A x \in 1..Len(u) : u[x] = s[n + x] /\ n + x \in 1..Len(s) /\ u[x] # k
    <2>1. u \in Seq(Ops) /\ Len(u) = Len(s) - n /\ \A x \in 1..(Len(s) - n) : u[x] = s[n + x]
      BY <1>6, SockDrop
    <2> HIDE DEF u
    <2>2. \A x \in 1..Len(u) : n + x \in 1..Len(s) /\ n + x > n
      BY <2>1, <1>0
    <2> QED
      BY <2>1, <2>2, <1>5
  <1>8. \A j, m : m \in Nat \ {0} /\ j # k /\ Block(s, j, m) => Block(u, j, m)
    <2> SUFFICES ASSUME NEW j, NEW m \in Nat \ {0}, j # k, Block(s, j, m) PROVE Block(u, j, m)
      OBVIOUS
    <2>1. \A x \in 1..n : s[x] # j
      BY <1>5
    <2> QED
      BY <1>6, <2>1, BlockDrop
  <1> HIDE DEF u
  <1>9. \A e \in Movers : Q[e].pc = "read" => e # c /\ P[e].pc = "read" /\ Q[e] = P[e] /\ P[e].op # k
                                            /\ P[e].size \in Nat \ {0}
    <2> SUFFICES ASSUME NEW e \in Movers, Q[e].pc = "read"
                 PROVE  e # c /\ P[e].pc = "read" /\ Q[e] = P[e] /\ P[e].op # k /\ P[e].size \in Nat \ {0}
      OBVIOUS
    <2>1. e # c /\ Q[e] = P[e]
      OBVIOUS
    <2>2. P[e] \in Moving
      BY <2>1 DEF Sock!Idle
    <2> QED
      BY <2>1, <2>2, SockConstants DEF Moving, k
  <1>10. \A e \in Movers : Q[e].pc = "read" => Block(u, Q[e].op, Q[e].size)
    <2> SUFFICES ASSUME NEW e \in Movers, Q[e].pc = "read" PROVE Block(u, Q[e].op, Q[e].size)
      OBVIOUS
    <2>1. Block(s, P[e].op, P[e].size)
      BY <1>9 DEF Receiving
    <2> QED
      BY <1>8, <1>9, <2>1
  <1>11. \A a \in 1..Len(q) : q[a].call = "rwrite" => q[a].op # k /\ q[a].n \in Nat \ {0}
    <2> SUFFICES ASSUME NEW a \in 1..Len(q), q[a].call = "rwrite" PROVE q[a].op # k /\ q[a].n \in Nat \ {0}
      OBVIOUS
    <2>1. q[a].n \in 1..MaxBytes /\ q[a].op \in Ops /\ k < q[a].op
      BY Elements DEF k
    <2> QED
      BY <2>1, <1>0, SockConstants DEF Ops
  <1>12. Whole(u, q, Reads)
    BY ONLY <1>8, <1>11, Receiving(s, P, q) DEF Receiving, Whole, Reads
  <1>13. \A j : j # k /\ Reader(P, j) => Reader(Q, j)
    BY DEF Reader, k
  <1>14. \A x \in 1..Len(u) : Reader(Q, u[x]) \/ Has(q, Reads, u[x])
    BY ONLY <1>7, <1>13, Receiving(s, P, q) DEF Receiving
  <1>15. \A x, y \in 1..Len(u) : x < y => n + x < n + y
    BY <1>0, <1>7
  <1>16. \A x, y \in 1..Len(u) : x < y => u[x] <= u[y]
    BY ONLY <1>7, <1>15, Receiving(s, P, q) DEF Receiving
  <1>17. Receiving(u, Q, q)
    BY ONLY <1>10, <1>12, <1>14, <1>16 DEF Receiving
  <1> QED
    BY <1>5, <1>6, <1>17 DEF u, k, n

\* The read that a result was for can be performed.
LEMMA ReceivingReady ==
    ASSUME NEW s \in Seq(Ops), NEW P, NEW q \in Seq(Submitted), Receiving(s, P, q),
           q # << >>, Head(q).call = "rwrite", Head(q).proc \in Movers, P[Head(q).proc].pc # "read",
           NEW Q, \A e \in Movers : e # Head(q).proc => Q[e] = P[e], Of(Q, Head(q), "read")
    PROVE  Receiving(s, Q, Tail(q))
  <1> DEFINE k == Head(q).op
             t == Tail(q)
             c == Head(q).proc
  <1>0. Head(q).call \in Reads
    BY DEF Reads
  <1>1. Whole(s, t, Reads) /\ Block(s, k, Head(q).n) /\ \A j : Has(q, Reads, j) <=> (Has(t, Reads, j) \/ k = j)
    BY <1>0, WholeTail, HasTail DEF Receiving
  <1>2. Q[c].pc = "read" /\ Q[c].op = k /\ Q[c].size = Head(q).n
    BY DEF Of
  <1> HIDE DEF k, t
  <1>3. \A e \in Movers : Q[e].pc = "read" => Block(s, Q[e].op, Q[e].size)
    BY <1>1, <1>2 DEF Receiving
  <1>4. \A j : Reader(P, j) => Reader(Q, j)
    BY DEF Reader
  <1>5. Reader(Q, k)
    BY <1>2 DEF Reader
  <1>6. \A x \in 1..Len(s) : Reader(Q, s[x]) \/ Has(t, Reads, s[x])
    BY ONLY <1>1, <1>4, <1>5, Receiving(s, P, q) DEF Receiving
  <1>7. Receiving(s, Q, t)
    BY ONLY <1>1, <1>3, <1>6, Receiving(s, P, q) DEF Receiving
  <1> QED
    BY <1>7 DEF t

\* The local write is performed.
LEMMA SockLocalWrite ==
    ASSUME SockInv, NEW c \in Movers, Sock!LocalWrite(c)
    PROVE  SockInv'
  <1>0. SockTypes /\ BusyInv /\ CallsInv /\ ReadsInv /\ ToRemoteInv /\ ToLocalInv /\ RoomInv /\ wrong = {}
    BY DEF SockInv
  <1> DEFINE op == procs[c].op
             n == procs[c].size
             call == [proc |-> c, op |-> op, call |-> "write", n |-> n]
  <1>1. procs[c].pc = "write" /\ procs[c] \in Moving
    BY <1>0, MoverKinds DEF Sock!LocalWrite
  <1>2. op \in Ops /\ n \in 1..MaxBytes /\ n \in Nat /\ call \in Submitted
        /\ call.proc = c /\ call.op = op /\ call.call = "write" /\ call.n = n
    BY <1>1, SockConstants DEF Moving, Submitted
  <1>3. /\ toRemote \in Seq(Ops) /\ Len(toRemote) \in Nat /\ count \in Nat /\ count <= MaxTransfers
        /\ written \in Seq(Submitted) /\ remote \in Seq(Submitted) /\ results \in Seq(Submitted)
    BY <1>0, SockConstants DEF SockTypes
  <1>4. /\ IsFiniteSet(ToWrite \ {c}) /\ Cardinality(ToWrite \ {c}) \in Nat
        /\ Cardinality(ToWrite) = Cardinality(ToWrite \ {c}) + 1
    <2>1. c \in ToWrite /\ IsFiniteSet(ToWrite)
      BY <1>0, <1>1 DEF ToWrite, RoomInv
    <2>2. IsFiniteSet(ToWrite \ {c}) /\ Cardinality(ToWrite \ {c}) = Cardinality(ToWrite) - 1
      BY <2>1, FS_RemoveElement
    <2>3. Cardinality(ToWrite \ {c}) \in Nat /\ Cardinality(ToWrite) \in Nat
      BY <2>1, <2>2, FS_CardinalityType
    <2> QED
      BY <2>2, <2>3
  <1>5. MaxBytes * Cardinality(ToWrite) = MaxBytes * Cardinality(ToWrite \ {c}) + MaxBytes
        /\ MaxBytes * Cardinality(ToWrite \ {c}) \in Nat
    BY <1>4, SockConstants
  <1>6. MaxBytes * count <= MaxBytes * MaxTransfers /\ MaxBytes * count \in Nat
        /\ MaxBytes * MaxTransfers \in Nat
    <2>1. PICK d \in Nat : MaxTransfers = count + d
      <3>1. MaxTransfers - count \in Nat /\ MaxTransfers = count + (MaxTransfers - count)
        BY <1>3, SockConstants
      <3> QED
        BY <3>1
    <2>2. MaxBytes * MaxTransfers = MaxBytes * count + MaxBytes * d
      BY <1>3, <2>1, SockConstants
    <2>3. MaxBytes * d \in Nat /\ MaxBytes * count \in Nat
      BY <1>3, SockConstants
    <2> QED
      BY <2>2, <2>3
  <1> DEFINE left == MaxBytes * Cardinality(ToWrite \ {c})
             all == MaxBytes * count
             most == MaxBytes * MaxTransfers
  <1>21. Len(toRemote) + left + MaxBytes <= all /\ left \in Nat /\ all \in Nat /\ most \in Nat /\ all <= most
    <2>1. Len(toRemote) + MaxBytes * Cardinality(ToWrite) <= MaxBytes * count
      BY <1>0 DEF RoomInv
    <2> DEFINE before == MaxBytes * Cardinality(ToWrite)
    <2>2. before = left + MaxBytes /\ left \in Nat /\ all \in Nat /\ most \in Nat /\ all <= most
          /\ Len(toRemote) + before <= all
      BY ONLY <2>1, <1>5, <1>6
    <2> HIDE DEF before, left, all, most
    <2> QED
      BY ONLY <2>2, <1>3, SockConstants
  <1> HIDE DEF left, all, most
  <1>22. Len(toRemote) + n <= most /\ Len(toRemote) + n + left <= all
    BY ONLY <1>2, <1>3, <1>21, SockConstants
  <1>7. Len(toRemote) + n <= MaxBytes * MaxTransfers
    BY ONLY <1>22 DEF most
  <1>8. /\ toRemote' = toRemote \o Sock!Bytes(op, n)
        /\ written' = Append(written, call)
        /\ procs' = [procs EXCEPT ![c].pc = "wrote"]
        /\ UNCHANGED <<count, toLocal, wire, remote, results, wrong>>
    <2>1. n <= MaxBytes * MaxTransfers - Len(toRemote)
      BY <1>2, <1>3, <1>6, <1>7
    <2> QED
      BY <2>1 DEF Sock!LocalWrite
  <1> HIDE DEF op, n, call
  <1>9. /\ procs' \in [Movers -> {Sock!Idle} \cup Moving] /\ BusyInv'
        /\ \A e \in Movers : e # c => procs'[e] = procs[e]
        /\ procs'[c].pc = "wrote" /\ procs'[c].op = op /\ procs'[c].size = n
    BY <1>0, <1>1, <1>8, GoesOn DEF op, n
  <1>10. /\ \A a \in 1..Len(remote) : remote[a].proc # c /\ Of(procs', remote[a], remote[a].call)
         /\ \A a \in 1..Len(written) : written[a].proc # c /\ Of(procs', written[a], "wrote")
         /\ \A a \in 1..Len(results) : results[a].proc # c /\ Of(procs', results[a], results[a].call)
    BY <1>1, <1>9, OthersCalls
  <1>11. /\ written' \in Seq(Submitted)
         /\ \A a \in 1..Len(written) : written'[a] = written[a]
         /\ written'[Len(written) + 1] = call
         /\ \A a \in 1..Len(written') : a \in 1..Len(written) \/ a = Len(written) + 1
    BY <1>2, <1>3, <1>8, AppendIs
  <1>12. toRemote' \in Seq(Ops) /\ Len(toRemote') = Len(toRemote) + n
    BY <1>2, <1>3, <1>8, SockCat
  <1>13. SockTypes'
    BY ONLY <1>0, <1>8, <1>9, <1>11, <1>12 DEF SockTypes
  <1>14. CallsInv'
    <2>1. Distinct(written')
      BY <1>0, <1>2, <1>3, <1>8, <1>10, DistinctAppend DEF CallsInv
    <2>2. \A a \in 1..Len(written') : written'[a].call = "write" /\ Of(procs', written'[a], "wrote")
      <3> SUFFICES ASSUME NEW a \in 1..Len(written')
                   PROVE  written'[a].call = "write" /\ Of(procs', written'[a], "wrote")
        OBVIOUS
      <3>1. CASE a \in 1..Len(written)
        BY ONLY <1>0, <1>10, <1>11, <3>1 DEF CallsInv
      <3>2. CASE a = Len(written) + 1
        <4>1. written'[a] = call
          BY ONLY <1>11, <3>2
        <4> QED
          BY ONLY <4>1, <1>2, <1>9 DEF Of
      <3> QED
        BY ONLY <1>11, <3>1, <3>2
    <2> QED
      BY ONLY <1>0, <1>8, <1>10, <2>1, <2>2 DEF CallsInv, Distinct
  <1>15. \A e \in Movers : (procs'[e].pc = "read" <=> procs[e].pc = "read")
         /\ (procs[e].pc = "read" => procs'[e] = procs[e])
    BY ONLY <1>1, <1>9
  <1>16. ReadsInv'
    BY ONLY <1>0, <1>8, <1>15 DEF ReadsInv
  <1>17. ToRemoteInv'
    <2>1. /\ \A a \in 1..Len(remote) : remote[a].op # op
          /\ \A a \in 1..Len(written) : written[a].op # op
      BY <1>0, <1>1, OpsDiffer DEF op
    <2>2. Sending(toRemote \o Sock!Bytes(call.op, call.n), remote, Append(written, call))
      BY <1>0, <1>2, <1>3, <2>1, SendingAdded DEF ToRemoteInv
    <2> QED
      BY ONLY <1>2, <1>8, <2>2 DEF ToRemoteInv
  <1>18. ToLocalInv'
    BY ONLY <1>0, <1>8, <1>15, ReceivingKept DEF ToLocalInv
  <1>19. RoomInv'
    <2>1. ToWrite' = ToWrite \ {c}
      BY ONLY <1>1, <1>9 DEF ToWrite
    <2>2. Len(toRemote') + MaxBytes * Cardinality(ToWrite \ {c}) <= MaxBytes * count
      BY ONLY <1>12, <1>22 DEF left, all
    <2>3. count' = count /\ IsFiniteSet(ToWrite \ {c})
      BY <1>4, <1>8
    <2> QED
      BY ONLY <2>1, <2>2, <2>3 DEF RoomInv
  <1> QED
    BY ONLY <1>0, <1>8, <1>9, <1>13, <1>14, <1>16, <1>17, <1>18, <1>19 DEF SockInv

\* The result of the local write returns: the recv is submitted.
LEMMA SockWriteReturns ==
    ASSUME SockInv, Sock!WriteReturns
    PROVE  SockInv'
  <1>0. SockTypes /\ BusyInv /\ CallsInv /\ ReadsInv /\ ToRemoteInv /\ ToLocalInv /\ RoomInv /\ wrong = {}
    BY DEF SockInv
  <1> DEFINE r == Head(written)
             c == r.proc
             call == [proc |-> c, op |-> r.op, call |-> "recv", n |-> r.n]
  <1>1. written # << >>
    BY DEF Sock!WriteReturns
  <1>2. written \in Seq(Submitted) /\ remote \in Seq(Submitted) /\ results \in Seq(Submitted)
        /\ toRemote \in Seq(Ops)
        /\ count \in Nat /\ Len(toRemote) \in Nat
    BY <1>0, SockConstants DEF SockTypes
  <1>3. /\ Tail(written) \in Seq(Submitted)
        /\ \A a \in 1..Len(Tail(written)) : Tail(written)[a] = written[a + 1] /\ a + 1 \in 1..Len(written)
        /\ r = written[1] /\ 1 \in 1..Len(written) /\ r \in Submitted
    BY <1>1, <1>2, TailIs
  <1>4. c \in Movers /\ call \in Submitted /\ r.op \in Ops
        /\ call.proc = c /\ call.op = r.op /\ call.call = "recv" /\ call.n = r.n
    BY <1>3 DEF Submitted
  <1>5. r.call = "write" /\ procs[c].pc = "wrote" /\ procs[c].op = r.op /\ procs[c].size = r.n
    BY <1>0, <1>3 DEF CallsInv, Of
  <1>6. /\ written' = Tail(written) /\ remote' = Append(remote, call)
        /\ procs' = [procs EXCEPT ![c].pc = "recv"]
        /\ UNCHANGED <<count, toRemote, toLocal, wire, results, wrong>>
    <2>1. Sock!Waits(c, r.op)
      BY <1>5 DEF Sock!Waits, Sock!Idle
    <2> QED
      BY <1>5, <2>1 DEF Sock!WriteReturns
  <1>7. /\ procs' \in [Movers -> {Sock!Idle} \cup Moving] /\ BusyInv'
        /\ \A e \in Movers : e # c => procs'[e] = procs[e]
        /\ procs'[c].pc = "recv" /\ procs'[c].op = r.op /\ procs'[c].size = r.n
    <2> HIDE DEF r, c, call
    <2>1. procs[c].pc # "idle" /\ count' = count
      BY <1>5, <1>6
    <2>2. /\ procs' \in [Movers -> {Sock!Idle} \cup Moving] /\ BusyInv'
          /\ \A e \in Movers : e # c => procs'[e] = procs[e]
          /\ procs'[c].pc = "recv" /\ procs'[c].op = procs[c].op /\ procs'[c].size = procs[c].size
      BY <1>0, <1>4, <1>6, <2>1, GoesOn
    <2> QED
      BY ONLY <1>5, <2>2
  <1> HIDE DEF r, call
  <1>8. /\ remote' \in Seq(Submitted)
        /\ \A a \in 1..Len(remote) : remote'[a] = remote[a]
        /\ remote'[Len(remote) + 1] = call
        /\ \A a \in 1..Len(remote') : a \in 1..Len(remote) \/ a = Len(remote) + 1
        /\ Len(remote) \in Nat
    BY <1>2, <1>4, <1>6, AppendIs
  <1>9. SockTypes'
    BY ONLY <1>0, <1>3, <1>6, <1>7, <1>8 DEF SockTypes
  <1>10. Distinct(written') /\ \A a \in 1..Len(written') : written'[a].proc # c
    BY <1>0, <1>1, <1>2, <1>6, DistinctTail DEF CallsInv, r
  <1>11. /\ \A a \in 1..Len(remote) : remote[a].proc # c /\ remote[a].proc \in Movers
         /\ \A a \in 1..Len(results) : results[a].proc # c /\ results[a].proc \in Movers
         /\ \A a \in 1..Len(written') : written'[a].proc \in Movers
    <2>1. /\ \A a \in 1..Len(remote) : remote[a].proc \in Movers
          /\ \A a \in 1..Len(written) : written[a].proc \in Movers
          /\ \A a \in 1..Len(results) : results[a].proc \in Movers
      BY <1>0, SubmittedProcs
    <2>2. \A a \in 1..Len(written') : written'[a].proc \in Movers
      BY <1>3, <1>6, <2>1
    <2>3. /\ \A a \in 1..Len(remote) : procs[remote[a].proc].pc # "wrote"
          /\ \A a \in 1..Len(results) : procs[results[a].proc].pc # "wrote"
      BY <1>0 DEF CallsInv, Of
    <2> QED
      BY ONLY <1>5, <2>1, <2>2, <2>3
  <1>12. CallsInv'
    <2>1. Distinct(remote')
      BY <1>0, <1>2, <1>4, <1>6, <1>11, DistinctAppend DEF CallsInv
    <2>2. /\ \A a \in 1..Len(remote) : remote[a].call \in {"recv", "rwrite"}
             /\ Of(procs', remote[a], remote[a].call)
          /\ \A a \in 1..Len(results) : results[a].call \in {"recv", "rwrite"}
             /\ Of(procs', results[a], results[a].call)
      BY ONLY <1>0, <1>7, <1>11 DEF CallsInv, Of
    <2>3. \A a \in 1..Len(written') : written'[a].call = "write" /\ Of(procs', written'[a], "wrote")
      <3> SUFFICES ASSUME NEW a \in 1..Len(written')
                   PROVE  written'[a].call = "write" /\ Of(procs', written'[a], "wrote")
        OBVIOUS
      <3>1. written'[a] = written[a + 1] /\ a + 1 \in 1..Len(written)
        BY <1>3, <1>6
      <3>2. written'[a].call = "write" /\ Of(procs, written'[a], "wrote")
        BY ONLY <1>0, <3>1 DEF CallsInv
      <3> QED
        BY ONLY <1>7, <1>10, <1>11, <3>2, a \in 1..Len(written') DEF Of
    <2>4. \A a \in 1..Len(remote') : /\ remote'[a].call \in {"recv", "rwrite"}
                                        /\ Of(procs', remote'[a], remote'[a].call)
                                     /\ \A b \in 1..Len(results) : remote'[a].proc # results[b].proc
      <3> SUFFICES ASSUME NEW a \in 1..Len(remote')
                   PROVE  /\ remote'[a].call \in {"recv", "rwrite"} /\ Of(procs', remote'[a], remote'[a].call)
                          /\ \A b \in 1..Len(results) : remote'[a].proc # results[b].proc
        OBVIOUS
      <3>1. CASE a \in 1..Len(remote)
        BY ONLY <1>0, <1>8, <2>2, <3>1 DEF CallsInv
      <3>2. CASE a = Len(remote) + 1
        <4>1. remote'[a] = call
          BY ONLY <1>8, <3>2
        <4>2. Of(procs', call, "recv")
          BY ONLY <1>4, <1>7 DEF Of
        <4> QED
          BY ONLY <4>1, <4>2, <1>4, <1>11
      <3> QED
        BY ONLY <1>8, <3>1, <3>2
    <2>5. Distinct(results) /\ results' = results
      BY <1>0, <1>6 DEF CallsInv
    <2> QED
      BY ONLY <1>10, <2>1, <2>2, <2>3, <2>4, <2>5 DEF CallsInv, Distinct
  <1>13. \A e \in Movers : (procs'[e].pc = "read" <=> procs[e].pc = "read")
         /\ (procs[e].pc = "read" => procs'[e] = procs[e])
    BY ONLY <1>5, <1>7
  <1>14. ReadsInv'
    <2>1. \A a \in 1..Len(remote') : remote'[a].call = "rwrite" => a \in 1..Len(remote)
          /\ remote'[a] = remote[a]
      BY <1>4, <1>8
    <2> QED
      BY ONLY <1>0, <1>6, <1>13, <2>1 DEF ReadsInv
  <1>15. ToRemoteInv'
    <2>1. \A a \in 1..Len(Tail(written)) : Tail(written)[a].op # r.op
      <3>1. \A a, b \in 1..Len(written) : written[a].op = written[b].op => a = b
        BY <1>0, OpsDiffer
      <3>2. \A a \in 1..Len(Tail(written)) : a + 1 # 1
        OBVIOUS
      <3> QED
        BY ONLY <1>3, <3>1, <3>2
    <2>2. Sending(toRemote, Append(remote, call), Tail(written))
      BY <1>0, <1>1, <1>2, <1>4, <1>5, <2>1, SendingMoved DEF ToRemoteInv, r
    <2> QED
      BY ONLY <1>6, <2>2 DEF ToRemoteInv
  <1>16. ToLocalInv'
    BY ONLY <1>0, <1>6, <1>13, ReceivingKept DEF ToLocalInv
  <1>17. RoomInv'
    <2>1. \A e \in Movers : procs'[e].pc = "write" <=> procs[e].pc = "write"
      BY ONLY <1>5, <1>7
    <2> QED
      BY <1>0, <1>2, <1>6, <2>1, RoomKept
  <1> QED
    BY ONLY <1>0, <1>6, <1>7, <1>9, <1>12, <1>14, <1>15, <1>16, <1>17 DEF SockInv

\* The recv finds the bytes of its own write.
LEMMA SockRemoteRecv ==
    ASSUME SockInv, Sock!RemoteRecv
    PROVE  SockInv'
  <1>0. SockTypes /\ BusyInv /\ CallsInv /\ ReadsInv /\ ToRemoteInv /\ ToLocalInv /\ RoomInv /\ wrong = {}
    BY DEF SockInv
  <1> DEFINE r == Head(remote)
  <1>1. /\ remote # << >> /\ r.call = "recv" /\ Sock!Note(r.op, Sock!Take(toRemote, r.n))
        /\ toRemote' = Sock!Drop(toRemote, r.n)
        /\ remote' = Tail(remote) /\ results' = Append(results, r)
        /\ UNCHANGED <<procs, count, toLocal, wire, written>>
    BY DEF Sock!RemoteRecv
  <1>2. written \in Seq(Submitted) /\ remote \in Seq(Submitted) /\ results \in Seq(Submitted)
        /\ toRemote \in Seq(Ops)
        /\ count \in Nat /\ Len(toRemote) \in Nat
    BY <1>0, SockConstants DEF SockTypes
  <1>3. CallsInv' /\ ReadsInv' /\ BusyInv' /\ remote' \in Seq(Submitted) /\ results' \in Seq(Submitted)
    BY <1>1, Performed
  <1>4. /\ Tail(remote) \in Seq(Submitted)
        /\ \A a \in 1..Len(Tail(remote)) : Tail(remote)[a] = remote[a + 1] /\ a + 1 \in 1..Len(remote)
           /\ a + 1 # 1
        /\ r = remote[1] /\ 1 \in 1..Len(remote) /\ r \in Submitted
    BY <1>1, <1>2, TailIs
  <1>5. /\ \A a \in 1..Len(Tail(remote)) : Tail(remote)[a].op # r.op
        /\ \A a \in 1..Len(written) : written[a].op # r.op
    <2>1. /\ \A a, b \in 1..Len(remote) : remote[a].op = remote[b].op => a = b
          /\ \A a \in 1..Len(remote), b \in 1..Len(written) : remote[a].op # written[b].op
      BY <1>0, OpsDiffer
    <2> QED
      BY ONLY <1>4, <2>1
  <1>6. /\ r.n \in 0..Len(toRemote) /\ \A x \in 1..r.n : toRemote[x] = r.op
        /\ Sending(Sock!Drop(toRemote, r.n), Tail(remote), written)
    BY <1>0, <1>1, <1>2, <1>5, SendingDrop DEF ToRemoteInv
  <1> HIDE DEF r
  <1>7. wrong' = {}
    <2>1. Len(Sock!Take(toRemote, r.n)) = r.n /\ \A x \in 1..r.n : Sock!Take(toRemote, r.n)[x] = toRemote[x]
      BY <1>2, <1>6, SockDrop
    <2> QED
      BY <1>0, <1>1, <1>6, <2>1 DEF Sock!Note
  <1>8. toRemote' \in Seq(Ops) /\ Len(toRemote') = Len(toRemote) - r.n
    BY <1>1, <1>2, <1>6, SockDrop
  <1>9. SockTypes'
    BY ONLY <1>0, <1>1, <1>3, <1>8 DEF SockTypes
  <1>10. ToRemoteInv'
    BY ONLY <1>1, <1>6 DEF ToRemoteInv
  <1>11. ToLocalInv'
    <2>1. r.call \notin Reads
      BY <1>1 DEF Reads
    <2>2. \A k : Has(results', Reads, k) <=> Has(results, Reads, k)
      BY <1>1, <1>2, <1>4, <2>1, HasAppend
    <2>3. Whole(toLocal, results', Reads)
      BY <1>0, <1>1, <1>2, <1>4, <2>1, WholeAppend DEF ToLocalInv, Receiving
    <2>4. Receiving(toLocal, procs, results')
      BY ONLY <1>0, <2>2, <2>3 DEF ToLocalInv, Receiving
    <2> QED
      BY ONLY <1>1, <2>4 DEF ToLocalInv
  <1>12. RoomInv'
    <2>1. r.n \in Nat /\ Len(toRemote') \in Nat /\ Len(toRemote') <= Len(toRemote)
      BY <1>2, <1>6, <1>8
    <2> QED
      BY <1>0, <1>1, <1>2, <2>1, RoomKept
  <1> QED
    BY ONLY <1>3, <1>7, <1>9, <1>10, <1>11, <1>12 DEF SockInv

\* The remote server performs the write of a read.
LEMMA SockRemoteWrite ==
    ASSUME SockInv, Sock!RemoteWrite
    PROVE  SockInv'
  <1>0. SockTypes /\ BusyInv /\ CallsInv /\ ReadsInv /\ ToRemoteInv /\ ToLocalInv /\ RoomInv /\ wrong = {}
    BY DEF SockInv
  <1> DEFINE r == Head(remote)
  <1>1. /\ remote # << >> /\ r.call = "rwrite" /\ Len(toLocal) + Len(wire) + r.n <= MaxBytes * MaxTransfers
        /\ toLocal' = toLocal \o Sock!Bytes(r.op, r.n)
        /\ remote' = Tail(remote) /\ results' = Append(results, r)
        /\ UNCHANGED <<procs, count, toRemote, wire, written, wrong>>
    BY DEF Sock!RemoteWrite
  <1>2. /\ written \in Seq(Submitted) /\ remote \in Seq(Submitted) /\ results \in Seq(Submitted)
           /\ toRemote \in Seq(Ops)
        /\ count \in Nat /\ Len(toRemote) \in Nat /\ toLocal \in Seq(Ops) /\ Len(toLocal) \in Nat
           /\ wire = << >>
        /\ procs \in [Movers -> {Sock!Idle} \cup Moving]
    BY <1>0, SockConstants DEF SockTypes
  <1>3. CallsInv' /\ ReadsInv' /\ BusyInv' /\ remote' \in Seq(Submitted) /\ results' \in Seq(Submitted)
    BY <1>1, Performed
  <1>4. r = remote[1] /\ 1 \in 1..Len(remote) /\ r \in Submitted
    BY <1>1, <1>2, TailIs
  <1>5. r.op \in Ops /\ r.n \in 1..MaxBytes /\ r.n \in Nat
    BY <1>4, SockConstants DEF Submitted
  <1> HIDE DEF r
  <1>6. /\ \A a \in 1..Len(results) : results[a].call = "rwrite" => results[a].op < r.op
        /\ \A c \in Movers : procs[c].pc = "read" => procs[c].op < r.op
    BY ONLY <1>0, <1>1, <1>4 DEF ReadsInv
  <1>7. toLocal' \in Seq(Ops) /\ Len(toLocal') = Len(toLocal) + r.n
    BY <1>1, <1>2, <1>5, SockCat
  <1>8. Len(toLocal') <= MaxBytes * MaxTransfers
    <2>1. Len(wire) = 0
      BY <1>2
    <2>2. Len(toLocal) + 0 + r.n <= MaxBytes * MaxTransfers
      BY ONLY <2>1, <1>1
    <2>3. Len(toLocal) + r.n = Len(toLocal) + 0 + r.n
      BY ONLY <1>2, <1>5
    <2> QED
      BY ONLY <2>2, <2>3, <1>7
  <1>9. SockTypes'
    BY ONLY <1>0, <1>1, <1>3, <1>7, <1>8 DEF SockTypes
  <1>10. ToRemoteInv'
    <2>1. Sending(toRemote, Tail(remote), written)
      BY <1>0, <1>1, <1>2, SendingTail DEF ToRemoteInv, r
    <2> QED
      BY ONLY <1>1, <2>1 DEF ToRemoteInv
  <1>11. ToLocalInv'
    <2>1. Receiving(toLocal \o Sock!Bytes(r.op, r.n), procs, Append(results, r))
      BY <1>0, <1>1, <1>2, <1>4, <1>6, ReceivingAdded DEF ToLocalInv
    <2> QED
      BY ONLY <1>1, <2>1 DEF ToLocalInv
  <1>12. RoomInv'
    BY ONLY <1>0, <1>1 DEF RoomInv, ToWrite
  <1> QED
    BY ONLY <1>0, <1>1, <1>3, <1>9, <1>10, <1>11, <1>12 DEF SockInv

\* The first result of the remote server returns to its coroutine.
LEMMA ResultReturns ==
    ASSUME SockInv, results # << >>
    PROVE  LET r == Head(results) IN
           /\ r \in Submitted /\ r.proc \in Movers /\ Of(procs, r, r.call) /\ r.call \in {"recv", "rwrite"}
           /\ Sock!Waits(r.proc, r.op)
           /\ Tail(results) \in Seq(Submitted)
           /\ \A a \in 1..Len(Tail(results)) :
                /\ Tail(results)[a] = results[a + 1] /\ a + 1 \in 1..Len(results) /\ 1 \in 1..Len(results)
                /\ 1 < a + 1 /\ results[1] = r
           /\ \A a, b \in 1..Len(Tail(results)) : a < b => a + 1 < b + 1
           /\ Distinct(Tail(results))
           /\ \A a \in 1..Len(remote) : remote[a].proc # r.proc /\ remote[a].proc \in Movers
           /\ \A a \in 1..Len(written) : written[a].proc # r.proc /\ written[a].proc \in Movers
           /\ \A a \in 1..Len(Tail(results)) : Tail(results)[a].proc # r.proc
              /\ Tail(results)[a].proc \in Movers
  <1>0. SockTypes /\ BusyInv /\ CallsInv
    BY DEF SockInv
  <1>1. results \in Seq(Submitted)
    BY <1>0 DEF SockTypes
  <1> DEFINE r == Head(results)
             t == Tail(results)
  <1>2. /\ t \in Seq(Submitted)
        /\ \A a \in 1..Len(t) : t[a] = results[a + 1] /\ a + 1 \in 1..Len(results)
        /\ r = results[1] /\ 1 \in 1..Len(results) /\ r \in Submitted
    BY <1>1, TailIs
  <1>3. Distinct(t) /\ \A a \in 1..Len(t) : t[a].proc # r.proc
    BY <1>0, <1>1, DistinctTail DEF CallsInv
  <1>4. \A a, b \in 1..Len(t) : a < b => a + 1 < b + 1
    BY <1>2
  <1>5. \A a \in 1..Len(t) : 1 < a + 1
    BY <1>2
  <1> HIDE DEF r, t
  <1>6. r.call \in {"recv", "rwrite"} /\ Of(procs, r, r.call) /\ r.proc \in Movers
    <2>1. r.proc \in Movers
      BY <1>2 DEF Submitted
    <2> QED
      BY ONLY <1>0, <1>2, <2>1 DEF CallsInv
  <1>7. Sock!Waits(r.proc, r.op)
    BY <1>6 DEF Sock!Waits, Sock!Idle, Of
  <1>8. /\ \A a \in 1..Len(remote) : remote[a].proc \in Movers
        /\ \A a \in 1..Len(written) : written[a].proc \in Movers
        /\ \A a \in 1..Len(results) : results[a].proc \in Movers
    BY <1>0, SubmittedProcs
  <1>9. \A a \in 1..Len(remote) : remote[a].proc # r.proc
    BY ONLY <1>0, <1>2 DEF CallsInv
  <1>10. \A a \in 1..Len(written) : written[a].proc # r.proc
    <2>1. \A a \in 1..Len(written) : procs[written[a].proc].pc = "wrote"
      BY ONLY <1>0 DEF CallsInv, Of
    <2> QED
      BY ONLY <1>6, <2>1 DEF Of
  <1>11. \A a \in 1..Len(t) : t[a].proc \in Movers
    BY ONLY <1>2, <1>8
  <1> QED
    BY <1>2, <1>3, <1>4, <1>5, <1>6, <1>7, <1>8, <1>9, <1>10, <1>11 DEF r, t

\* The calls of the others, when the first result returns.
LEMMA OthersKept ==
    ASSUME SockInv, results # << >>, results' = Tail(results), UNCHANGED <<remote, written>>,
           \A e \in Movers : e # Head(results).proc => procs'[e] = procs[e]
    PROVE  CallsInv'
  <1>0. CallsInv
    BY DEF SockInv
  <1> DEFINE r == Head(results)
  <1>1. /\ \A a \in 1..Len(results') : results'[a] = results[a + 1] /\ a + 1 \in 1..Len(results)
        /\ Distinct(results')
        /\ \A a \in 1..Len(remote) : remote[a].proc # r.proc /\ remote[a].proc \in Movers
        /\ \A a \in 1..Len(written) : written[a].proc # r.proc /\ written[a].proc \in Movers
        /\ \A a \in 1..Len(results') : results'[a].proc # r.proc /\ results'[a].proc \in Movers
    BY ResultReturns
  <1>2. \A e \in Movers : e # r.proc => procs'[e] = procs[e]
    OBVIOUS
  <1> HIDE DEF r
  <1>3. \A a \in 1..Len(written) : written[a].call = "write" /\ Of(procs', written[a], "wrote")
    BY ONLY <1>0, <1>1, <1>2 DEF CallsInv, Of
  <1>4. \A a \in 1..Len(remote) : remote[a].call \in {"recv", "rwrite"} /\ Of(procs', remote[a], remote[a].call)
    BY ONLY <1>0, <1>1, <1>2 DEF CallsInv, Of
  <1>5. \A a \in 1..Len(results') : results'[a].call \in {"recv", "rwrite"}
        /\ Of(procs', results'[a], results'[a].call)
    <2> SUFFICES ASSUME NEW a \in 1..Len(results')
                 PROVE  results'[a].call \in {"recv", "rwrite"} /\ Of(procs', results'[a], results'[a].call)
      OBVIOUS
    <2>1. results'[a] = results[a + 1] /\ a + 1 \in 1..Len(results)
      BY ONLY <1>1
    <2>2. results'[a].call \in {"recv", "rwrite"} /\ Of(procs, results'[a], results'[a].call)
      BY ONLY <1>0, <2>1 DEF CallsInv
    <2> QED
      BY ONLY <1>1, <1>2, <2>2 DEF Of
  <1>6. \A a \in 1..Len(remote), b \in 1..Len(results') : remote[a].proc # results'[b].proc
    BY ONLY <1>0, <1>1 DEF CallsInv
  <1>7. Distinct(written') /\ Distinct(remote')
    BY <1>0 DEF CallsInv
  <1> QED
    BY ONLY <1>1, <1>3, <1>4, <1>5, <1>6, <1>7, UNCHANGED <<remote, written>> DEF CallsInv

\* The recv of a write returns: the write ends.
LEMMA SockRecvReturns ==
    ASSUME SockInv, Sock!RecvReturns
    PROVE  SockInv'
  <1>0. SockTypes /\ BusyInv /\ CallsInv /\ ReadsInv /\ ToRemoteInv /\ ToLocalInv /\ RoomInv /\ wrong = {}
    BY DEF SockInv
  <1> DEFINE r == Head(results)
             c == r.proc
  <1>1. /\ results # << >> /\ r.call = "recv" /\ results' = Tail(results)
        /\ UNCHANGED <<count, toRemote, toLocal, wire, remote, written, wrong>>
    BY DEF Sock!RecvReturns
  <1>2. /\ c \in Movers /\ Of(procs, r, "recv") /\ Sock!Waits(c, r.op) /\ results' \in Seq(Submitted)
        /\ \A a \in 1..Len(results') : results'[a] = results[a + 1] /\ a + 1 \in 1..Len(results)
        /\ \A a, b \in 1..Len(results') : a < b => a + 1 < b + 1
    BY <1>1, ResultReturns
  <1>3. Sock!Ended(c)
    BY <1>2 DEF Sock!RecvReturns
  <1>4. /\ procs' \in [Movers -> {Sock!Idle} \cup Moving] /\ BusyInv'
        /\ \A e \in Movers : e # c => procs'[e] = procs[e]
        /\ procs'[c].pc = "idle"
    BY <1>0, <1>1, <1>2, <1>3, Ends
  <1>5. CallsInv'
    BY <1>1, <1>4, OthersKept
  <1>6. procs[c].pc = "recv"
    BY <1>2 DEF Of
  <1>7. results \in Seq(Submitted) /\ toRemote \in Seq(Ops) /\ count \in Nat /\ Len(toRemote) \in Nat
    BY <1>0, SockConstants DEF SockTypes
  <1>8. Whole(toLocal, Tail(results), Reads) /\ \A k : Has(Tail(results), Reads, k) <=> Has(results, Reads, k)
    <2>1. r.call \notin Reads
      BY <1>1 DEF Reads
    <2> QED
      BY <1>0, <1>1, <1>7, <2>1, WholeTail, HasTail DEF ToLocalInv, Receiving
  <1> HIDE DEF r, c
  <1>9. SockTypes'
    BY ONLY <1>0, <1>1, <1>2, <1>4 DEF SockTypes
  <1>10. \A e \in Movers : (procs'[e].pc = "read" <=> procs[e].pc = "read")
         /\ (procs[e].pc = "read" => procs'[e] = procs[e])
    BY ONLY <1>4, <1>6
  <1>11. ReadsInv'
    <2>1. /\ \A a, b \in 1..Len(remote') :
               a < b /\ remote'[a].call = "rwrite" /\ remote'[b].call = "rwrite"
                 => remote'[a].op < remote'[b].op
          /\ \A e \in Movers : procs'[e].pc = "read" =>
               \A a \in 1..Len(remote') : remote'[a].call = "rwrite" => procs'[e].op < remote'[a].op
      BY ONLY <1>0, <1>1, <1>10 DEF ReadsInv
    <2>2. \A a, b \in 1..Len(results') :
            a < b /\ results'[a].call = "rwrite" /\ results'[b].call = "rwrite"
              => results'[a].op < results'[b].op
      BY ONLY <1>0, <1>2 DEF ReadsInv
    <2>3. \A a \in 1..Len(results'), b \in 1..Len(remote') :
            results'[a].call = "rwrite" /\ remote'[b].call = "rwrite" => results'[a].op < remote'[b].op
      BY ONLY <1>0, <1>1, <1>2 DEF ReadsInv
    <2>4. \A e \in Movers : procs'[e].pc = "read" =>
            \A a \in 1..Len(results') : results'[a].call = "rwrite" => procs'[e].op < results'[a].op
      BY ONLY <1>0, <1>2, <1>10 DEF ReadsInv
    <2> QED
      BY ONLY <2>1, <2>2, <2>3, <2>4 DEF ReadsInv
  <1>12. ToRemoteInv'
    BY ONLY <1>0, <1>1 DEF ToRemoteInv
  <1>13. ToLocalInv'
    <2>1. Receiving(toLocal, procs, Tail(results))
      BY ONLY <1>0, <1>8 DEF ToLocalInv, Receiving
    <2>2. Receiving(toLocal, procs', Tail(results))
      BY ONLY <1>10, <2>1, ReceivingKept
    <2> QED
      BY ONLY <1>1, <2>2 DEF ToLocalInv
  <1>14. RoomInv'
    <2>1. \A e \in Movers : procs'[e].pc = "write" <=> procs[e].pc = "write"
      BY ONLY <1>4, <1>6
    <2> QED
      BY <1>0, <1>1, <1>7, <2>1, RoomKept
  <1> QED
    BY ONLY <1>0, <1>1, <1>4, <1>5, <1>9, <1>11, <1>12, <1>13, <1>14 DEF SockInv

\* The remote write of a read returns: the local read is submitted.
LEMMA SockRemoteWriteReturns ==
    ASSUME SockInv, Sock!RemoteWriteReturns
    PROVE  SockInv'
  <1>0. SockTypes /\ BusyInv /\ CallsInv /\ ReadsInv /\ ToRemoteInv /\ ToLocalInv /\ RoomInv /\ wrong = {}
    BY DEF SockInv
  <1> DEFINE r == Head(results)
             c == r.proc
  <1>1. /\ results # << >> /\ r.call = "rwrite" /\ results' = Tail(results)
        /\ UNCHANGED <<count, toRemote, toLocal, wire, remote, written, wrong>>
    BY DEF Sock!RemoteWriteReturns
  <1>2. /\ c \in Movers /\ Of(procs, r, "rwrite") /\ Sock!Waits(c, r.op) /\ results' \in Seq(Submitted)
        /\ \A a \in 1..Len(results') :
             /\ results'[a] = results[a + 1] /\ a + 1 \in 1..Len(results) /\ 1 \in 1..Len(results)
             /\ 1 < a + 1 /\ results[1] = r
        /\ \A a, b \in 1..Len(results') : a < b => a + 1 < b + 1
    BY <1>1, ResultReturns
  <1>3. procs' = [procs EXCEPT ![c].pc = "read"]
    BY <1>2 DEF Sock!RemoteWriteReturns
  <1>4. procs[c].pc = "rwrite" /\ procs[c].op = r.op /\ procs[c].size = r.n
    BY <1>2 DEF Of
  <1>5. /\ procs' \in [Movers -> {Sock!Idle} \cup Moving] /\ BusyInv'
        /\ \A e \in Movers : e # c => procs'[e] = procs[e]
        /\ procs'[c].pc = "read" /\ procs'[c].op = procs[c].op /\ procs'[c].size = procs[c].size
    <2> HIDE DEF r, c
    <2>1. procs[c].pc # "idle" /\ count' = count /\ c \in Movers
      BY <1>1, <1>2, <1>4
    <2> QED
      BY <1>0, <1>3, <2>1, GoesOn
  <1>6. CallsInv'
    BY <1>1, <1>5, OthersKept
  <1>7. results \in Seq(Submitted) /\ toRemote \in Seq(Ops) /\ toLocal \in Seq(Ops) /\ count \in Nat
        /\ Len(toRemote) \in Nat
        /\ r = results[1] /\ 1 \in 1..Len(results)
    <2>1. results \in Seq(Submitted) /\ toRemote \in Seq(Ops) /\ toLocal \in Seq(Ops) /\ count \in Nat
          /\ Len(toRemote) \in Nat
      BY <1>0, SockConstants DEF SockTypes
    <2> QED
      BY <1>1, <2>1, TailIs
  <1>8. Receiving(toLocal, procs', Tail(results))
    <2>1. Of(procs', r, "read")
      BY <1>4, <1>5 DEF Of
    <2> QED
      BY <1>0, <1>1, <1>2, <1>4, <1>5, <1>7, <2>1, ReceivingReady DEF ToLocalInv
  <1> HIDE DEF r, c
  <1>9. SockTypes'
    BY ONLY <1>0, <1>1, <1>2, <1>5 DEF SockTypes
  <1>10. ReadsInv'
    <2>1. \A a, b \in 1..Len(remote') :
            a < b /\ remote'[a].call = "rwrite" /\ remote'[b].call = "rwrite" => remote'[a].op < remote'[b].op
      BY ONLY <1>0, <1>1 DEF ReadsInv
    <2>2. \A a, b \in 1..Len(results') :
            a < b /\ results'[a].call = "rwrite" /\ results'[b].call = "rwrite"
              => results'[a].op < results'[b].op
      BY ONLY <1>0, <1>2 DEF ReadsInv
    <2>3. \A a \in 1..Len(results'), b \in 1..Len(remote') :
            results'[a].call = "rwrite" /\ remote'[b].call = "rwrite" => results'[a].op < remote'[b].op
      BY ONLY <1>0, <1>1, <1>2 DEF ReadsInv
    <2>4. ASSUME NEW e \in Movers, procs'[e].pc = "read"
          PROVE  /\ \A a \in 1..Len(results') : results'[a].call = "rwrite" => procs'[e].op < results'[a].op
                 /\ \A a \in 1..Len(remote') : remote'[a].call = "rwrite" => procs'[e].op < remote'[a].op
      <3>1. CASE e # c
        BY ONLY <1>0, <1>1, <1>2, <1>5, <2>4, <3>1 DEF ReadsInv
      <3>2. CASE e = c
        <4>1. procs'[e].op = r.op
          BY ONLY <1>4, <1>5, <3>2
        <4>2. \A a \in 1..Len(results') : results'[a].call = "rwrite" => r.op < results'[a].op
          BY ONLY <1>0, <1>1, <1>2 DEF ReadsInv
        <4>3. \A a \in 1..Len(remote') : remote'[a].call = "rwrite" => r.op < remote'[a].op
          BY ONLY <1>0, <1>1, <1>7 DEF ReadsInv
        <4> QED
          BY ONLY <4>1, <4>2, <4>3
      <3> QED
        BY <3>1, <3>2
    <2> QED
      BY ONLY <2>1, <2>2, <2>3, <2>4 DEF ReadsInv
  <1>11. ToRemoteInv'
    BY ONLY <1>0, <1>1 DEF ToRemoteInv
  <1>12. ToLocalInv'
    BY ONLY <1>1, <1>8 DEF ToLocalInv
  <1>13. RoomInv'
    <2>1. \A e \in Movers : procs'[e].pc = "write" <=> procs[e].pc = "write"
      BY ONLY <1>4, <1>5
    <2> QED
      BY <1>0, <1>1, <1>7, <2>1, RoomKept
  <1> QED
    BY ONLY <1>0, <1>1, <1>5, <1>6, <1>9, <1>10, <1>11, <1>12, <1>13 DEF SockInv

\* The local read finds the bytes of its own remote write.
LEMMA SockLocalRead ==
    ASSUME SockInv, NEW c \in Movers, Sock!LocalRead(c)
    PROVE  SockInv'
  <1>0. SockTypes /\ BusyInv /\ CallsInv /\ ReadsInv /\ ToRemoteInv /\ ToLocalInv /\ RoomInv /\ wrong = {}
    BY DEF SockInv
  <1>1. /\ procs[c].pc = "read" /\ Sock!IsNext(c) /\ Sock!Ended(c)
        /\ UNCHANGED <<count, toRemote, wire, remote, written, results>>
    BY DEF Sock!LocalRead
  <1>2. /\ procs \in [Movers -> {Sock!Idle} \cup Moving] /\ results \in Seq(Submitted) /\ toLocal \in Seq(Ops)
        /\ count \in Nat /\ Len(toLocal) \in Nat /\ Len(toRemote) \in Nat
    BY <1>0, SockConstants DEF SockTypes
  <1>3. /\ procs' \in [Movers -> {Sock!Idle} \cup Moving] /\ BusyInv'
        /\ \A e \in Movers : e # c => procs'[e] = procs[e]
        /\ procs'[c].pc = "idle"
    BY <1>0, <1>1, Ends
  <1> DEFINE op == procs[c].op
             n == procs[c].size
  <1>4. /\ n \in 0..Len(toLocal) /\ \A x \in 1..n : toLocal[x] = op
        /\ Receiving(Sock!Drop(toLocal, n), procs', results)
    <2>1. \A e \in Movers : procs[e].pc = "read" => procs[c].op <= procs[e].op
      BY <1>1 DEF Sock!IsNext, Movers
    <2>2. \A e \in Movers : procs[e].pc = "read" /\ procs[e].op = procs[c].op => e = c
      BY <1>0, <1>1 DEF BusyInv
    <2>3. \A a \in 1..Len(results) : results[a].call = "rwrite" => procs[c].op < results[a].op
      BY <1>0, <1>1 DEF ReadsInv
    <2>4. Receiving(toLocal, procs, results)
      BY <1>0 DEF ToLocalInv
    <2> QED
      BY <1>1, <1>2, <1>3, <2>1, <2>2, <2>3, <2>4, ReceivingTaken
  <1>5. Sock!Note(op, Sock!Take(toLocal, n)) /\ toLocal' = Sock!Drop(toLocal, n)
    <2>1. n <= Len(toLocal)
      BY <1>2, <1>4
    <2> QED
      BY <2>1 DEF Sock!LocalRead
  <1> HIDE DEF op, n
  <1>6. wrong' = {}
    <2>1. Len(Sock!Take(toLocal, n)) = n /\ \A x \in 1..n : Sock!Take(toLocal, n)[x] = toLocal[x]
      BY <1>2, <1>4, SockDrop
    <2> QED
      BY <1>0, <1>4, <1>5, <2>1 DEF Sock!Note
  <1>7. toLocal' \in Seq(Ops) /\ Len(toLocal') <= Len(toLocal) /\ Len(toLocal') \in Nat
    <2>1. toLocal' \in Seq(Ops) /\ Len(toLocal') = Len(toLocal) - n
      BY <1>2, <1>4, <1>5, SockDrop
    <2> QED
      BY <1>2, <1>4, <2>1
  <1>8. SockTypes'
    <2>1. MaxBytes * MaxTransfers \in Nat /\ Len(toLocal) <= MaxBytes * MaxTransfers
      BY <1>0, SockConstants DEF SockTypes
    <2> DEFINE most == MaxBytes * MaxTransfers
    <2>2. most \in Nat /\ Len(toLocal) <= most
      BY <2>1
    <2> HIDE DEF most
    <2>3. Len(toLocal') <= most
      BY ONLY <1>2, <1>7, <2>2
    <2> USE DEF most
    <2> QED
      BY ONLY <1>0, <1>1, <1>3, <1>7, <2>3 DEF SockTypes
  <1>9. CallsInv'
    <2>1. /\ \A a \in 1..Len(remote) : Of(procs', remote[a], remote[a].call)
          /\ \A a \in 1..Len(written) : Of(procs', written[a], "wrote")
          /\ \A a \in 1..Len(results) : Of(procs', results[a], results[a].call)
      BY <1>1, <1>3, OthersCalls
    <2> QED
      BY ONLY <1>0, <1>1, <2>1 DEF CallsInv, Distinct
  <1>10. \A e \in Movers : procs'[e].pc = "read" => procs[e].pc = "read" /\ procs'[e] = procs[e]
    BY ONLY <1>3
  <1>11. ReadsInv'
    BY ONLY <1>0, <1>1, <1>10 DEF ReadsInv
  <1>12. ToRemoteInv'
    BY ONLY <1>0, <1>1 DEF ToRemoteInv
  <1>13. ToLocalInv'
    BY ONLY <1>1, <1>4, <1>5 DEF ToLocalInv
  <1>14. RoomInv'
    <2>1. \A e \in Movers : procs'[e].pc = "write" <=> procs[e].pc = "write"
      BY ONLY <1>1, <1>3
    <2> QED
      BY <1>0, <1>1, <1>2, <2>1, RoomKept
  <1> QED
    BY ONLY <1>1, <1>3, <1>6, <1>8, <1>9, <1>11, <1>12, <1>13, <1>14 DEF SockInv

\* Nothing is under way at first.
LEMMA SockInit ==
    ASSUME Sock!Init
    PROVE  SockInv
  <1>1. /\ procs = [c \in Movers |-> Sock!Idle] /\ count = 0
        /\ toRemote = << >> /\ toLocal = << >> /\ wire = << >>
        /\ remote = << >> /\ written = << >> /\ results = << >> /\ wrong = {}
    BY DEF Sock!Init, Movers
  <1>2. \A c \in Movers : procs[c].pc = "idle"
    BY <1>1 DEF Sock!Idle
  <1>3. Len(toRemote) = 0 /\ Len(toLocal) = 0 /\ Len(remote) = 0 /\ Len(written) = 0 /\ Len(results) = 0
    BY <1>1
  <1>4. SockTypes
    BY <1>1, <1>3, SockConstants DEF SockTypes
  <1>5. BusyInv
    BY <1>2 DEF BusyInv
  <1>6. CallsInv
    BY ONLY <1>3 DEF CallsInv, Distinct
  <1>7. ReadsInv
    BY ONLY <1>2, <1>3 DEF ReadsInv
  <1>8. ToRemoteInv
    BY ONLY <1>3 DEF ToRemoteInv, Sending, Whole, InLine
  <1>9. ToLocalInv
    BY ONLY <1>2, <1>3 DEF ToLocalInv, Receiving, Whole
  <1>10. RoomInv
    <2>1. ToWrite = {}
      BY <1>2 DEF ToWrite
    <2>2. IsFiniteSet({}) /\ Cardinality({}) = 0
      BY FS_EmptySet
    <2>3. Len(toRemote) + MaxBytes * 0 <= MaxBytes * count
      BY <1>1, <1>3, SockConstants
    <2> QED
      BY ONLY <2>1, <2>2, <2>3 DEF RoomInv
  <1> QED
    BY <1>1, <1>4, <1>5, <1>6, <1>7, <1>8, <1>9, <1>10 DEF SockInv

\* Every step of the transport keeps it.
LEMMA SockNext ==
    ASSUME SockInv, [Sock!Next]_(Sock!vars)
    PROVE  SockInv'
  <1>1. CASE UNCHANGED Sock!vars
    <2>1. UNCHANGED transport
      BY <1>1 DEF Sock!vars, transport
    <2> QED
      BY <2>1 DEF transport, SockInv, SockTypes, BusyInv, CallsInv, ReadsInv, ToRemoteInv, ToLocalInv,
                  RoomInv, ToWrite
  <1>2. ASSUME NEW c \in Movers, NEW n \in 0..MaxBytes, Sock!Write(c, n) PROVE SockInv'
    BY <1>2, SockWrite
  <1>3. ASSUME NEW c \in Movers, NEW n \in 0..MaxBytes, Sock!Read(c, n) PROVE SockInv'
    BY <1>3, SockRead
  <1>4. ASSUME NEW c \in Movers, Sock!LocalWrite(c) PROVE SockInv'
    BY <1>4, SockLocalWrite
  <1>5. ASSUME NEW c \in Movers, Sock!LocalRead(c) PROVE SockInv'
    BY <1>5, SockLocalRead
  <1>6. CASE Sock!WriteReturns
    BY <1>6, SockWriteReturns
  <1>7. CASE Sock!RemoteRecv
    BY <1>7, SockRemoteRecv
  <1>8. CASE Sock!RecvReturns
    BY <1>8, SockRecvReturns
  <1>9. CASE Sock!RemoteWrite
    BY <1>9, SockRemoteWrite
  <1>10. CASE Sock!RemoteWriteReturns
    BY <1>10, SockRemoteWriteReturns
  \* Bytes are not late, and nobody is cancelled.
  <1>11. ~Sock!Arrive
    BY DEF Sock!Arrive, SockInv, SockTypes
  <1>12. \A c \in Movers : ~Sock!Cancel(c)
    BY DEF Sock!Cancel
  <1>13. CASE Sock!Finished
    BY <1>1, <1>13 DEF Sock!Finished
  <1> QED
    BY <1>1, <1>2, <1>3, <1>4, <1>5, <1>6, <1>7, <1>8, <1>9, <1>10, <1>11, <1>12, <1>13
       DEF Sock!Next, Sock!System, Movers

\* Its types are those of the module, and the socket is never full.
LEMMA SockTypeOK ==
    ASSUME SockInv
    PROVE  Sock!TypeOK
  <1>0. SockTypes /\ RoomInv /\ wrong = {}
    BY DEF SockInv
  <1>1. Len(toRemote) <= MaxBytes * MaxTransfers
    <2>1. count \in Nat /\ count <= MaxTransfers /\ Len(toRemote) \in Nat
      BY <1>0, SockConstants DEF SockTypes
    <2>2. Cardinality(ToWrite) \in Nat
      BY <1>0, FS_CardinalityType DEF RoomInv
    <2>3. PICK d \in Nat : MaxTransfers = count + d
      <3>1. MaxTransfers - count \in Nat /\ MaxTransfers = count + (MaxTransfers - count)
        BY <2>1, SockConstants
      <3> QED
        BY <3>1
    <2> DEFINE most == MaxBytes * MaxTransfers
               all == MaxBytes * count
               more == MaxBytes * d
               left == MaxBytes * Cardinality(ToWrite)
    <2>4. most = all + more
      BY <2>1, <2>3, SockConstants
    <2>5. more \in Nat /\ all \in Nat /\ left \in Nat
      BY <2>1, <2>2, SockConstants
    <2>6. Len(toRemote) + left <= all
      BY <1>0 DEF RoomInv
    <2> HIDE DEF most, all, more, left
    <2>7. Len(toRemote) <= most
      BY ONLY <2>1, <2>4, <2>5, <2>6
    <2> QED
      BY <2>7 DEF most
  <1>2. Len(toLocal) + Len(wire) <= MaxBytes * MaxTransfers
    <2>1. Len(wire) = 0 /\ Len(toLocal) \in Nat /\ Len(toLocal) <= MaxBytes * MaxTransfers
      BY <1>0 DEF SockTypes
    <2>2. Len(toLocal) + 0 = Len(toLocal)
      BY <2>1
    <2> QED
      BY ONLY <2>1, <2>2
  <1>3. {toRemote, toLocal, wire} \subseteq Seq(Ops)
    BY <1>0 DEF SockTypes
  <1>4. {remote, written, results} \subseteq Seq(Sock!Calls)
    <2>1. Submitted \subseteq Sock!Calls
      BY SockConstants DEF Submitted, Sock!Calls, Movers
    <2>2. Seq(Submitted) \subseteq Seq(Sock!Calls)
      <3> HIDE DEF Submitted
      <3> SUFFICES ASSUME NEW s \in Seq(Submitted) PROVE s \in Seq(Sock!Calls)
        OBVIOUS
      <3>1. \A a \in 1..Len(s) : s[a] \in Sock!Calls
        BY <2>1
      <3> QED
        BY ONLY <3>1, s \in Seq(Submitted)
    <2> QED
      BY <1>0, <2>2 DEF SockTypes
  <1>5. \A c \in Movers : procs[c] = Sock!Idle
          \/ procs[c] \in [pc : {"write", "wrote", "recv", "rwrite", "read"}, op : Ops, size : 0..MaxBytes]
    <2>1. \A c \in Movers : procs[c] = Sock!Idle \/ procs[c] \in Moving
      BY <1>0 DEF SockTypes
    <2> QED
      BY <2>1, SockConstants DEF Moving
  <1>6. count \in 0..MaxTransfers /\ wrong \subseteq Ops
    BY <1>0 DEF SockTypes
  <1> QED
    BY <1>1, <1>2, <1>3, <1>4, <1>5, <1>6, SockConstants DEF Sock!TypeOK, Movers

\* Of MCMemory, when the transport runs.
TransferInv == running = "transport" => SockInv

(***************************************************************************)
(* "we rely on the corresponding write or read on the other end of the     *)
(* socketpair to be submitted immediately": however many coroutines read   *)
(* and write memory over one socket, each operation moves its own bytes.   *)
(***************************************************************************)
THEOREM TransfersOwn == Spec => []OwnBytes
  <1>1. Init => TransferInv
    <2>1. Init => Sock!Init
      BY DEF Init
    <2> QED
      BY <2>1, SockInit DEF TransferInv
  <1>2. TransferInv /\ [Next]_vars => TransferInv'
    <2> SUFFICES ASSUME TransferInv, [Next]_vars, running' = "transport"
                 PROVE  SockInv'
      BY DEF TransferInv
    <2>1. running = "transport"
      BY DEF Next, vars
    <2>2. [Sock!Next]_(Sock!vars)
      <3>1. CASE Next
        BY <2>1, <3>1 DEF Next
      <3>2. CASE UNCHANGED vars
        BY <3>2 DEF vars, transport, Sock!vars
      <3> QED
        BY <3>1, <3>2
    <2> QED
      BY <2>1, <2>2, SockNext DEF TransferInv
  <1>3. TransferInv => OwnBytes
    BY SockTypeOK DEF TransferInv, OwnBytes, SockInv, Sock!OwnBytes
  <1> QED
    BY <1>1, <1>2, <1>3, PTL DEF Spec
=============================================================================
