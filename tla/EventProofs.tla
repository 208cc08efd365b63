----------------------------- MODULE EventProofs -----------------------------
(***************************************************************************)
(* Proofs about the persistent connection: its waiters, the connections    *)
(* that break under them, and the loop that hands a new connection to      *)
(* those who wait; about epollers and inotify fds; and about the           *)
(* behaviours of MCEvents, for every value of its constants.  The          *)
(* parameter cfg is what a run of a component is about.                    *)
(*                                                                         *)
(* PersInv says that the waiters of the loop that is under way, and those  *)
(* who came after, are those who wait (WaitInv); that a syscall that is    *)
(* not over is in one place, which its status tells: in a line, in the     *)
(* requests of a connection, or among what it expects to be answered       *)
(* (PlaceInv); and that the responses of a connection answer the first     *)
(* part of what it expects, and its stream, until it is closed, holds the  *)
(* rest in order (WireInv). With this the step of the code is a step of    *)
(* PersistentInterface or none.                                            *)
(*                                                                         *)
(* That waiters are not overtaken is no invariant by itself: the order has *)
(* to be said of every place.  BehindInv says that who was waiting when e  *)
(* was last made is ahead of e wherever e is, or will not be performed any *)
(* more.                                                                   *)
(*                                                                         *)
(* Of an epoller, Numbers says that a number is of one registration as     *)
(* long as an event may be for it, and ReadyInv that what is known of a    *)
(* file will say what is ready, once every EAGAIN under way has been       *)
(* processed.  Of an inotify fd, Sequence says that what was seen, read    *)
(* and queued follow each other, and Found that events have a Watch.       *)
(***************************************************************************)
EXTENDS MCEvents, FiniteSets, Subsequences, FiniteSetTheorems, WellFoundedInduction, TLAPS

-----------------------------------------------------------------------------
(* Sequences: who is in them, and who before whom                          *)

Members(s) == {s[i] : i \in 1..Len(s)}
Inj(s) == \A i, j \in 1..Len(s) : s[i] = s[j] => i = j
Before(s, c, e) == \E i, j \in 1..Len(s) : i < j /\ s[i] = c /\ s[j] = e
Prefix(s, n) == SubSeq(s, 1, n)
Drop(s, n) == SubSeq(s, n + 1, Len(s))

\* The two parts of a sequence.
LEMMA Parts ==
    ASSUME NEW S, NEW s \in Seq(S), NEW n \in 0..Len(s)
    PROVE  /\ Prefix(s, n) \in Seq(S) /\ Len(Prefix(s, n)) = n
           /\ \A i \in 1..n : Prefix(s, n)[i] = s[i]
           /\ Drop(s, n) \in Seq(S) /\ Len(Drop(s, n)) = Len(s) - n
           /\ \A i \in 1..(Len(s) - n) : Drop(s, n)[i] = s[n + i]
  <1>1. Len(s) \in Nat
    OBVIOUS
  <1>2. Prefix(s, n) = [i \in 1..n |-> s[i]]
    BY <1>1 DEF Prefix
  <1>3. Drop(s, n) = [i \in 1..(Len(s) - n) |-> s[n + i]]
    <2>1. Len(Drop(s, n)) = Len(s) - n /\ Drop(s, n) \in Seq(S)
      BY <1>1 DEF Drop
    <2>2. \A i \in 1..(Len(s) - n) : Drop(s, n)[i] = s[n + i]
      BY <1>1 DEF Drop
    <2> QED
      BY <2>1, <2>2
  <1>4. \A i \in 1..Len(s) : s[i] \in S
    OBVIOUS
  <1>5. Prefix(s, n) \in [1..n -> S]
    BY <1>1, <1>2, <1>4
  <1>6. Drop(s, n) \in [1..(Len(s) - n) -> S]
    BY <1>1, <1>3, <1>4
  <1> QED
    BY <1>1, <1>2, <1>3, <1>5, <1>6

\* Members and order of the parts.
LEMMA PartsMembers ==
    ASSUME NEW S, NEW s \in Seq(S), NEW n \in 0..Len(s)
    PROVE  /\ Members(s) = Members(Prefix(s, n)) \cup Members(Drop(s, n))
           /\ Inj(s) => /\ Inj(Prefix(s, n)) /\ Inj(Drop(s, n))
                        /\ Members(Prefix(s, n)) \cap Members(Drop(s, n)) = {}
           /\ \A c, e : Inj(s) /\ Before(s, c, e) =>
                /\ e \in Members(Drop(s, n)) => Before(Drop(s, n), c, e) \/ c \in Members(Prefix(s, n))
                /\ e \in Members(Prefix(s, n)) => Before(Prefix(s, n), c, e)
  <1> DEFINE P == Prefix(s, n)  D == Drop(s, n)
  <1>0. Len(s) \in Nat /\ n \in Nat /\ n <= Len(s)
    OBVIOUS
  <1>1. /\ P \in Seq(S) /\ Len(P) = n /\ \A i \in 1..n : P[i] = s[i]
        /\ D \in Seq(S) /\ Len(D) = Len(s) - n /\ \A i \in 1..(Len(s) - n) : D[i] = s[n + i]
    BY Parts
  <1>2. \A i \in 1..Len(s) : i > n => i - n \in 1..(Len(s) - n) /\ D[i - n] = s[i]
    BY <1>0, <1>1
  <1> HIDE DEF P, D
  <1>3. Members(s) = Members(P) \cup Members(D)
    <2>1. \A x \in Members(s) : x \in Members(P) \cup Members(D)
      <3> SUFFICES ASSUME NEW i \in 1..Len(s) PROVE s[i] \in Members(P) \cup Members(D)
        BY DEF Members
      <3>1. CASE i <= n
        BY <3>1, <1>0, <1>1 DEF Members
      <3>2. CASE i > n
        BY <3>2, <1>0, <1>1, <1>2 DEF Members
      <3> QED
        BY <3>1, <3>2, <1>0
    <2>2. \A i \in 1..Len(P) : P[i] \in Members(s)
      BY <1>0, <1>1 DEF Members
    <2>3. ASSUME NEW i \in 1..Len(D) PROVE D[i] \in Members(s)
      <3>1. i \in 1..(Len(s) - n) /\ n + i \in 1..Len(s)
        BY <1>0, <1>1
      <3> QED
        BY <3>1, <1>1 DEF Members
    <2>4. Members(P) \subseteq Members(s) /\ Members(D) \subseteq Members(s)
      BY <2>2, <2>3 DEF Members
    <2> QED
      BY <2>1, <2>4
  <1>4. Inj(s) => Inj(P) /\ Inj(D) /\ Members(P) \cap Members(D) = {}
    <2> SUFFICES ASSUME Inj(s) PROVE Inj(P) /\ Inj(D) /\ Members(P) \cap Members(D) = {}
      OBVIOUS
    <2>1. Inj(P)
      BY <1>0, <1>1 DEF Inj
    <2>2. Inj(D)
      <3> SUFFICES ASSUME NEW i \in 1..Len(D), NEW j \in 1..Len(D), D[i] = D[j] PROVE i = j
        BY DEF Inj
      <3>1. n + i \in 1..Len(s) /\ n + j \in 1..Len(s) /\ s[n + i] = s[n + j]
        BY <1>0, <1>1
      <3> QED
        BY <3>1, <1>0 DEF Inj
    <2>3. ASSUME NEW i \in 1..Len(P), NEW j \in 1..Len(D) PROVE P[i] # D[j]
      <3>1. i \in 1..Len(s) /\ n + j \in 1..Len(s) /\ i # n + j /\ P[i] = s[i] /\ D[j] = s[n + j]
        BY <1>0, <1>1
      <3> QED
        BY <3>1 DEF Inj
    <2> QED
      BY <2>1, <2>2, <2>3 DEF Members
  <1>5. ASSUME NEW c, NEW e, Inj(s), Before(s, c, e)
        PROVE  /\ e \in Members(D) => Before(D, c, e) \/ c \in Members(P)
               /\ e \in Members(P) => Before(P, c, e)
    <2>1. PICK i \in 1..Len(s), j \in 1..Len(s) : i < j /\ s[i] = c /\ s[j] = e
      BY <1>5 DEF Before
    <2>2. CASE j <= n
      <3>1. e \in Members(P)
        BY <2>1, <2>2, <1>0, <1>1 DEF Members
      <3>2. e \notin Members(D)
        BY <3>1, <1>4, <1>5
      <3>3. i \in 1..n /\ j \in 1..n /\ P[i] = c /\ P[j] = e
        BY <2>1, <2>2, <1>0, <1>1
      <3> QED
        BY <3>2, <3>3, <2>1, <1>1 DEF Before
    <2>3. CASE j > n
      <3>1. e = D[j - n] /\ j - n \in 1..Len(D)
        BY <2>1, <2>3, <1>0, <1>1, <1>2
      <3>2. e \in Members(D) /\ e \notin Members(P)
        BY <3>1, <1>4, <1>5 DEF Members
      <3>3. CASE i <= n
        <4>1. i \in 1..Len(P) /\ P[i] = c
          BY <3>3, <2>1, <1>0, <1>1
        <4> QED
          BY <4>1, <3>2 DEF Members
      <3>4. CASE i > n
        <4>1. i - n \in 1..Len(D) /\ D[i - n] = c /\ i - n < j - n
          BY <3>4, <2>1, <1>0, <1>1, <1>2
        <4> QED
          BY <4>1, <3>1, <3>2 DEF Before
      <3> QED
        BY <3>3, <3>4, <2>1, <1>0
    <2> QED
      BY <2>2, <2>3, <2>1, <1>0
  <1> QED
    BY <1>3, <1>4, <1>5 DEF P, D

\* Members and order of one sequence put after another.
LEMMA CatMembers ==
    ASSUME NEW S, NEW s \in Seq(S), NEW t \in Seq(S)
    PROVE  /\ s \o t \in Seq(S) /\ Members(s \o t) = Members(s) \cup Members(t)
           /\ Inj(s) /\ Inj(t) /\ Members(s) \cap Members(t) = {} => Inj(s \o t)
           /\ \A c, e : /\ Before(s, c, e) => Before(s \o t, c, e)
                        /\ Before(t, c, e) => Before(s \o t, c, e)
                        /\ c \in Members(s) /\ e \in Members(t) => Before(s \o t, c, e)
  <1> DEFINE u == s \o t
  <1>0. Len(s) \in Nat /\ Len(t) \in Nat
    OBVIOUS
  <1>1. /\ u \in Seq(S) /\ Len(u) = Len(s) + Len(t)
        /\ \A i \in 1..Len(s) : i \in 1..Len(u) /\ u[i] = s[i]
        /\ \A i \in 1..Len(t) : Len(s) + i \in 1..Len(u) /\ u[Len(s) + i] = t[i]
    BY <1>0
  <1>2. \A i \in 1..Len(u) : (i <= Len(s) /\ i \in 1..Len(s))
        \/ (i > Len(s) /\ i - Len(s) \in 1..Len(t) /\ u[i] = t[i - Len(s)])
    BY <1>0, <1>1
  <1> HIDE DEF u
  <1>3. Members(u) = Members(s) \cup Members(t)
    <2>1. ASSUME NEW i \in 1..Len(u) PROVE u[i] \in Members(s) \cup Members(t)
      BY <1>1, <1>2 DEF Members
    <2>2. ASSUME NEW i \in 1..Len(s) PROVE s[i] \in Members(u)
      BY <1>1 DEF Members
    <2>3. ASSUME NEW i \in 1..Len(t) PROVE t[i] \in Members(u)
      <3>1. Len(s) + i \in 1..Len(u) /\ u[Len(s) + i] = t[i]
        BY <1>1
      <3> QED
        BY <3>1 DEF Members
    <2>4. Members(u) \subseteq Members(s) \cup Members(t) /\ Members(s) \subseteq Members(u)
          /\ Members(t) \subseteq Members(u)
      BY <2>1, <2>2, <2>3 DEF Members
    <2> QED
      BY <2>4
  <1>4. ASSUME Inj(s), Inj(t), Members(s) \cap Members(t) = {} PROVE Inj(u)
    <2> SUFFICES ASSUME NEW i \in 1..Len(u), NEW j \in 1..Len(u), u[i] = u[j] PROVE i = j
      BY DEF Inj
    <2>1. CASE i <= Len(s) /\ j <= Len(s)
      BY <2>1, <1>1, <1>2, <1>4 DEF Inj
    <2>2. CASE i > Len(s) /\ j > Len(s)
      <3>0. i - Len(s) \in 1..Len(t) /\ j - Len(s) \in 1..Len(t) /\ t[i - Len(s)] = t[j - Len(s)]
        BY <2>2, <1>0, <1>1, <1>2
      <3>1. i - Len(s) = j - Len(s)
        BY <3>0, <1>4 DEF Inj
      <3> QED
        BY <3>1, <1>0, <1>1
    <2>3. \A k \in 1..Len(u) : /\ k <= Len(s) => u[k] \in Members(s)
                               /\ k > Len(s) => u[k] \in Members(t)
      <3> SUFFICES ASSUME NEW k \in 1..Len(u)
                   PROVE  (k <= Len(s) => u[k] \in Members(s)) /\ (k > Len(s) => u[k] \in Members(t))
        OBVIOUS
      <3>1. CASE k <= Len(s)
        <4>1. k \in 1..Len(s) /\ u[k] = s[k]
          BY <3>1, <1>0, <1>1
        <4> QED
          BY <4>1, <3>1, <1>0 DEF Members
      <3>2. CASE k > Len(s)
        <4>1. k - Len(s) \in 1..Len(t) /\ u[k] = t[k - Len(s)]
          BY <3>2, <1>0, <1>1, <1>2
        <4> QED
          BY <4>1, <3>2, <1>0, <1>1 DEF Members
      <3> QED
        BY <3>1, <3>2, <1>0, <1>1
    <2>4. ~(i <= Len(s) /\ j > Len(s)) /\ ~(i > Len(s) /\ j <= Len(s))
      BY <2>3, <1>4
    <2> QED
      BY <2>1, <2>2, <2>4, <1>0, <1>1
  <1>5. ASSUME NEW c, NEW e PROVE Before(s, c, e) => Before(u, c, e)
    BY <1>1 DEF Before
  <1>6. ASSUME NEW c, NEW e PROVE Before(t, c, e) => Before(u, c, e)
    <2> SUFFICES ASSUME NEW i \in 1..Len(t), NEW j \in 1..Len(t), i < j, t[i] = c, t[j] = e PROVE Before(u, c, e)
      BY DEF Before
    <2>1. Len(s) + i < Len(s) + j
      BY <1>0
    <2> QED
      BY <2>1, <1>1 DEF Before
  <1>7. ASSUME NEW c, NEW e, c \in Members(s), e \in Members(t) PROVE Before(u, c, e)
    <2>1. PICK i \in 1..Len(s), j \in 1..Len(t) : s[i] = c /\ t[j] = e
      BY <1>7 DEF Members
    <2>2. i < Len(s) + j
      BY <1>0
    <2> QED
      BY <2>1, <2>2, <1>1 DEF Before
  <1> QED
    BY <1>1, <1>3, <1>4, <1>5, <1>6, <1>7 DEF u

\* A single element is put at the end.
LEMMA AppendMembers ==
    ASSUME NEW S, NEW s \in Seq(S), NEW x \in S
    PROVE  /\ Append(s, x) = s \o <<x>> /\ Append(s, x) \in Seq(S)
           /\ Members(Append(s, x)) = Members(s) \cup {x}
           /\ Inj(s) /\ x \notin Members(s) => Inj(Append(s, x))
           /\ \A c, e : /\ Before(s, c, e) => Before(Append(s, x), c, e)
                        /\ c \in Members(s) => Before(Append(s, x), c, x)
                        /\ Before(Append(s, x), c, e) => Before(s, c, e) \/ (c \in Members(s) /\ e = x)
  <1>0. Len(s) \in Nat /\ <<x>> \in Seq(S)
    OBVIOUS
  <1>1. Append(s, x) = s \o <<x>>
    OBVIOUS
  <1>2. Members(<<x>>) = {x} /\ Inj(<<x>>)
    BY DEF Members, Inj
  <1>3. ASSUME NEW c, NEW e, Before(Append(s, x), c, e) PROVE Before(s, c, e) \/ (c \in Members(s) /\ e = x)
    <2>1. PICK i \in 1..(Len(s) + 1), j \in 1..(Len(s) + 1) : i < j /\ Append(s, x)[i] = c /\ Append(s, x)[j] = e
      BY <1>3 DEF Before
    <2>2. i \in 1..Len(s) /\ s[i] = c
      BY <2>1, <1>0
    <2>3. CASE j = Len(s) + 1
      BY <2>1, <2>2, <2>3, <1>0 DEF Members
    <2>4. CASE j # Len(s) + 1
      <3>1. j \in 1..Len(s) /\ s[j] = e
        BY <2>1, <2>4, <1>0
      <3> QED
        BY <3>1, <2>1, <2>2 DEF Before
    <2> QED
      BY <2>3, <2>4
  <1>4. PICK t : t = <<x>>
    OBVIOUS
  <1>5. /\ t \in Seq(S) /\ Members(t) = {x} /\ Inj(t) /\ Append(s, x) = s \o t
    BY <1>0, <1>1, <1>2, <1>4
  <1>6. /\ s \o t \in Seq(S) /\ Members(s \o t) = Members(s) \cup Members(t)
        /\ Inj(s) /\ Inj(t) /\ Members(s) \cap Members(t) = {} => Inj(s \o t)
        /\ \A c, e : /\ Before(s, c, e) => Before(s \o t, c, e)
                     /\ c \in Members(s) /\ e \in Members(t) => Before(s \o t, c, e)
    BY <1>5, CatMembers
  <1>7. PICK u : u = s \o t
    OBVIOUS
  <1>8. /\ u \in Seq(S) /\ Members(u) = Members(s) \cup {x}
        /\ Inj(s) /\ x \notin Members(s) => Inj(u)
        /\ \A c, e : Before(s, c, e) => Before(u, c, e)
        /\ \A c : c \in Members(s) => Before(u, c, x)
    BY <1>5, <1>6, <1>7
  <1> QED
    BY <1>1, <1>3, <1>5, <1>7, <1>8

\* The first element and the others.
LEMMA HeadMembers ==
    ASSUME NEW S, NEW s \in Seq(S), s # << >>
    PROVE  /\ Head(s) \in S /\ Tail(s) \in Seq(S) /\ Members(s) = {Head(s)} \cup Members(Tail(s))
           /\ Inj(s) => Inj(Tail(s)) /\ Head(s) \notin Members(Tail(s))
           /\ \A c, e : Inj(s) /\ Before(s, c, e) =>
                /\ e # Head(s) /\ (Before(Tail(s), c, e) \/ c = Head(s))
  <1>1. Len(s) \in Nat /\ 1 \in 1..Len(s) /\ 1 \in 0..Len(s)
    OBVIOUS
  <1>2. Tail(s) = Drop(s, 1) /\ Head(s) = s[1]
    BY <1>1 DEF Drop
  <1>3. Members(Prefix(s, 1)) = {Head(s)}
    <2>0. \A i \in 1..1 : Prefix(s, 1)[i] = s[i]
      BY <1>1, Parts
    <2>1. Len(Prefix(s, 1)) = 1 /\ Prefix(s, 1)[1] = s[1]
      <3>1. Len(Prefix(s, 1)) = 1
        BY <1>1, Parts
      <3> QED
        BY <3>1, <2>0
    <2>2. 1..1 = {1}
      OBVIOUS
    <2> QED
      BY <2>1, <2>2, <1>2 DEF Members
  <1>4. ASSUME NEW c, NEW e PROVE ~Before(Prefix(s, 1), c, e)
    BY <1>1, Parts DEF Before
  <1>5. ASSUME NEW c, NEW e, Before(s, c, e) PROVE e \in Members(s)
    BY <1>5 DEF Before, Members
  <1> HIDE DEF Prefix, Drop
  <1>6. /\ Members(s) = Members(Prefix(s, 1)) \cup Members(Drop(s, 1))
        /\ Inj(s) => Inj(Drop(s, 1)) /\ Members(Prefix(s, 1)) \cap Members(Drop(s, 1)) = {}
        /\ \A c, e : Inj(s) /\ Before(s, c, e) =>
             /\ e \in Members(Drop(s, 1)) => Before(Drop(s, 1), c, e) \/ c \in Members(Prefix(s, 1))
             /\ e \in Members(Prefix(s, 1)) => Before(Prefix(s, 1), c, e)
    BY <1>1, PartsMembers
  <1>7. PICK t, h : t = Tail(s) /\ h = Head(s)
    OBVIOUS
  <1>8. /\ Members(s) = {h} \cup Members(t) /\ (Inj(s) => Inj(t) /\ h \notin Members(t))
        /\ \A c, e : Inj(s) /\ Before(s, c, e) => e # h /\ (Before(t, c, e) \/ c = h)
    <2>1. Members(s) = {h} \cup Members(t) /\ (Inj(s) => Inj(t) /\ h \notin Members(t))
      BY <1>2, <1>3, <1>6, <1>7
    <2>2. ASSUME NEW c, NEW e, Inj(s), Before(s, c, e) PROVE e # h /\ (Before(t, c, e) \/ c = h)
      <3>1. e \in Members(s) /\ ~Before(Prefix(s, 1), c, e)
        BY <1>4, <1>5, <2>2
      <3> QED
        BY <3>1, <2>1, <2>2, <1>2, <1>3, <1>6, <1>7
    <2> QED
      BY <2>1, <2>2
  <1>9. h \in S /\ t \in Seq(S)
    BY <1>7
  <1> QED
    BY <1>7, <1>8, <1>9

\* The order of an injective sequence.
LEMMA BeforeOrder ==
    ASSUME NEW S, NEW s \in Seq(S), NEW c, NEW e, Before(s, c, e)
    PROVE  /\ c \in Members(s) /\ e \in Members(s)
           /\ Inj(s) => ~Before(s, e, c)
  <1>1. PICK i \in 1..Len(s), j \in 1..Len(s) : i < j /\ s[i] = c /\ s[j] = e
    BY DEF Before
  <1>2. Len(s) \in Nat
    OBVIOUS
  <1>3. ASSUME Inj(s), NEW k \in 1..Len(s), NEW l \in 1..Len(s), k < l, s[k] = e, s[l] = c PROVE FALSE
    <2>1. k = j /\ l = i
      BY <1>1, <1>3 DEF Inj
    <2> QED
      BY <2>1, <1>1, <1>2, <1>3
  <1> QED
    BY <1>1, <1>3 DEF Members, Before

-----------------------------------------------------------------------------
(* Families of sequences                                                   *)

Calls == Pers!Calls
Conns == Pers!Conns

AllOf(L) == {c \in Calls : \E i \in DOMAIN L : c \in Members(L[i])}
IsFamily(L) == L \in [DOMAIN L -> Seq(Calls)]

\* Nobody is twice in the sequences of L.
Separate(L) ==
    /\ \A i \in DOMAIN L : Inj(L[i])
    /\ \A i, j \in DOMAIN L : i # j => Members(L[i]) \cap Members(L[j]) = {}

\* The first n are taken out of one sequence; others are put at its end.
With(L, i, r) == [L EXCEPT ![i] = r]
Take(L, i, n) == With(L, i, Drop(L[i], n))
Put(L, i, t) == With(L, i, L[i] \o t)
Cut(L, i) == With(L, i, Tail(L[i]))

\* The members are syscalls.
LEMMA InCalls == ASSUME NEW s \in Seq(Calls) PROVE Members(s) \subseteq Calls
  BY DEF Members

\* Two sequences, one put after the other, and the first of them.
LEMMA CatTail ==
    ASSUME NEW s \in Seq(Calls), s # << >>, NEW t \in Seq(Calls)
    PROVE  Tail(s \o t) = Tail(s) \o t /\ Head(s \o t) = Head(s)
  OBVIOUS

\* All of a sequence is taken.
LEMMA WholeParts ==
    ASSUME NEW s \in Seq(Calls)
    PROVE  Len(s) \in 0..Len(s) /\ Prefix(s, Len(s)) = s /\ Drop(s, Len(s)) = << >>
  <1>1. Len(s) \in Nat /\ Len(s) \in 0..Len(s)
    OBVIOUS
  <1>2. Prefix(s, Len(s)) = s
    BY <1>1 DEF Prefix
  <1>3. Len(Drop(s, Len(s))) = 0 /\ Drop(s, Len(s)) \in Seq(Calls)
    BY <1>1, Parts
  <1> QED
    BY <1>1, <1>2, <1>3

\* Three sequences.
LEMMA CatAssoc ==
    ASSUME NEW s \in Seq(Calls), NEW t \in Seq(Calls), NEW u \in Seq(Calls)
    PROVE  (s \o t) \o u = s \o (t \o u)
  OBVIOUS

\* The first of a sequence is moved to the end of the one before it.
LEMMA CatShift ==
    ASSUME NEW s \in Seq(Calls), NEW t \in Seq(Calls), t # << >>
    PROVE  s \o t = Append(s, Head(t)) \o Tail(t)
  OBVIOUS

\* One sequence is replaced.
LEMMA Replaced ==
    ASSUME NEW L, IsFamily(L), NEW i \in DOMAIN L, NEW r \in Seq(Calls)
    PROVE  /\ IsFamily(With(L, i, r)) /\ DOMAIN With(L, i, r) = DOMAIN L /\ With(L, i, r)[i] = r
           /\ \A j \in DOMAIN L : j # i => With(L, i, r)[j] = L[j]
           /\ \A c \in Calls : c \in AllOf(With(L, i, r)) <=> c \in Members(r) \/ \E j \in DOMAIN L : j # i
              /\ c \in Members(L[j])
           /\ \A c \in Calls : c \in AllOf(L) <=> c \in Members(L[i]) \/ \E j \in DOMAIN L : j # i
              /\ c \in Members(L[j])
  <1>0. PICK M : M = With(L, i, r)
    OBVIOUS
  <1>1. IsFamily(M) /\ DOMAIN M = DOMAIN L /\ M[i] = r /\ \A j \in DOMAIN L : j # i => M[j] = L[j]
    BY <1>0 DEF IsFamily, With
  <1>2. /\ \A c \in Calls : c \in AllOf(M) <=> c \in Members(r) \/ \E j \in DOMAIN L : j # i /\ c \in Members(L[j])
        /\ \A c \in Calls : c \in AllOf(L) <=> c \in Members(L[i]) \/ \E j \in DOMAIN L : j # i /\ c \in Members(L[j])
    BY <1>1 DEF AllOf
  <1> QED
    BY <1>0, <1>1, <1>2

\* What taking does.
LEMMA TakeSeparate ==
    ASSUME NEW L, IsFamily(L), Separate(L), NEW i \in DOMAIN L, NEW n \in 0..Len(L[i])
    PROVE  /\ IsFamily(Take(L, i, n)) /\ DOMAIN Take(L, i, n) = DOMAIN L /\ Separate(Take(L, i, n))
           /\ Take(L, i, n)[i] = Drop(L[i], n) /\ \A j \in DOMAIN L : j # i => Take(L, i, n)[j] = L[j]
           /\ Prefix(L[i], n) \in Seq(Calls) /\ Inj(Prefix(L[i], n))
           /\ AllOf(L) = AllOf(Take(L, i, n)) \cup Members(Prefix(L[i], n))
           /\ AllOf(Take(L, i, n)) \cap Members(Prefix(L[i], n)) = {}
  <1> DEFINE P == Prefix(L[i], n)  R == Drop(L[i], n)
  <1>0. PICK M : M = Take(L, i, n)
    OBVIOUS
  <1>1. L[i] \in Seq(Calls) /\ Inj(L[i])
    BY DEF Separate, IsFamily
  <1>2. /\ R \in Seq(Calls) /\ P \in Seq(Calls) /\ Inj(P) /\ Inj(R)
        /\ Members(L[i]) = Members(P) \cup Members(R) /\ Members(P) \cap Members(R) = {}
    BY <1>1, Parts, PartsMembers
  <1> HIDE DEF P, R
  <1>3. M = With(L, i, R)
    BY <1>0 DEF R, Take
  <1>4. /\ IsFamily(M) /\ DOMAIN M = DOMAIN L /\ M[i] = R /\ \A j \in DOMAIN L : j # i => M[j] = L[j]
        /\ \A c \in Calls : c \in AllOf(M) <=> c \in Members(R) \/ \E j \in DOMAIN L : j # i /\ c \in Members(L[j])
        /\ \A c \in Calls : c \in AllOf(L) <=> c \in Members(L[i]) \/ \E j \in DOMAIN L : j # i /\ c \in Members(L[j])
    BY <1>2, <1>3, Replaced
  <1>5. Separate(M)
    <2>1. \A j \in DOMAIN M : Inj(M[j])
      BY <1>2, <1>4 DEF Separate
    <2>2. ASSUME NEW j \in DOMAIN M, NEW l \in DOMAIN M, j # l PROVE Members(M[j]) \cap Members(M[l]) = {}
      <3>1. Members(L[j]) \cap Members(L[l]) = {}
        BY <1>4, <2>2 DEF Separate
      <3>2. Members(M[j]) \subseteq Members(L[j]) /\ Members(M[l]) \subseteq Members(L[l])
        BY <1>2, <1>4
      <3> QED
        BY <3>1, <3>2
    <2> QED
      BY <2>1, <2>2 DEF Separate
  <1>6. \A j \in DOMAIN L : j # i => Members(L[j]) \cap Members(P) = {}
    BY <1>1, <1>2 DEF Separate
  <1>7. Members(P) \subseteq Calls /\ AllOf(M) \subseteq Calls /\ AllOf(L) \subseteq Calls
    BY <1>2, InCalls DEF AllOf
  <1>8. AllOf(L) = AllOf(M) \cup Members(P)
    BY <1>2, <1>4, <1>7
  <1>9. AllOf(M) \cap Members(P) = {}
    BY <1>2, <1>4, <1>6, <1>7
  <1> QED
    BY <1>0, <1>2, <1>4, <1>5, <1>8, <1>9 DEF P, R

\* What putting does.
LEMMA PutSeparate ==
    ASSUME NEW L, IsFamily(L), Separate(L), NEW i \in DOMAIN L,
           NEW t \in Seq(Calls), Inj(t), AllOf(L) \cap Members(t) = {}
    PROVE  /\ IsFamily(Put(L, i, t)) /\ DOMAIN Put(L, i, t) = DOMAIN L /\ Separate(Put(L, i, t))
           /\ Put(L, i, t)[i] = L[i] \o t /\ \A j \in DOMAIN L : j # i => Put(L, i, t)[j] = L[j]
           /\ AllOf(Put(L, i, t)) = AllOf(L) \cup Members(t)
  <1>0. PICK M : M = Put(L, i, t)
    OBVIOUS
  <1>1. L[i] \in Seq(Calls) /\ Inj(L[i])
    BY DEF Separate, IsFamily
  <1>2. \A j \in DOMAIN L : Members(L[j]) \cap Members(t) = {}
    <2>1. Members(t) \subseteq Calls
      BY InCalls
    <2> QED
      BY <2>1 DEF AllOf
  <1> DEFINE u == L[i] \o t
  <1>3. u \in Seq(Calls) /\ Members(u) = Members(L[i]) \cup Members(t) /\ Inj(u)
    BY <1>1, <1>2, CatMembers
  <1> HIDE DEF u
  <1>33. M = With(L, i, u)
    BY <1>0 DEF u, Put
  <1>4. /\ IsFamily(M) /\ DOMAIN M = DOMAIN L /\ M[i] = u /\ \A j \in DOMAIN L : j # i => M[j] = L[j]
        /\ \A c \in Calls : c \in AllOf(M) <=> c \in Members(u) \/ \E j \in DOMAIN L : j # i /\ c \in Members(L[j])
        /\ \A c \in Calls : c \in AllOf(L) <=> c \in Members(L[i]) \/ \E j \in DOMAIN L : j # i /\ c \in Members(L[j])
    <2>1. u \in Seq(Calls)
      BY <1>3
    <2>2. /\ IsFamily(With(L, i, u)) /\ DOMAIN With(L, i, u) = DOMAIN L /\ With(L, i, u)[i] = u
          /\ \A j \in DOMAIN L : j # i => With(L, i, u)[j] = L[j]
          /\ \A c \in Calls : c \in AllOf(With(L, i, u)) <=> c \in Members(u) \/ \E j \in DOMAIN L : j # i
             /\ c \in Members(L[j])
          /\ \A c \in Calls : c \in AllOf(L) <=> c \in Members(L[i]) \/ \E j \in DOMAIN L : j # i /\ c \in Members(L[j])
      BY ONLY <2>1, IsFamily(L), Replaced
    <2> QED
      BY ONLY <2>2, <1>33
  <1>5. Separate(M)
    <2>1. \A j \in DOMAIN M : Inj(M[j])
      BY <1>3, <1>4 DEF Separate
    <2>2. ASSUME NEW j \in DOMAIN M, NEW l \in DOMAIN M, j # l PROVE Members(M[j]) \cap Members(M[l]) = {}
      <3>1. Members(L[j]) \cap Members(L[l]) = {} /\ Members(L[j]) \cap Members(t) = {}
            /\ Members(L[l]) \cap Members(t) = {}
        BY <1>2, <1>4, <2>2 DEF Separate
      <3>2. Members(M[j]) = Members(L[j]) \/ (j = i /\ Members(M[j]) = Members(L[j]) \cup Members(t))
        BY <1>3, <1>4
      <3>3. Members(M[l]) = Members(L[l]) \/ (l = i /\ Members(M[l]) = Members(L[l]) \cup Members(t))
        BY <1>3, <1>4
      <3> QED
        BY <3>1, <3>2, <3>3, <2>2
    <2> QED
      BY <2>1, <2>2 DEF Separate
  <1>6. AllOf(M) = AllOf(L) \cup Members(t)
    <2>1. Members(t) \subseteq Calls /\ AllOf(M) \subseteq Calls /\ AllOf(L) \subseteq Calls
      BY InCalls DEF AllOf
    <2> QED
      BY <2>1, <1>3, <1>4
  <1> QED
    BY <1>0, <1>4, <1>5, <1>6 DEF u

\* The first of one sequence is taken out.
LEMMA TailSeparate ==
    ASSUME NEW L, IsFamily(L), Separate(L), NEW i \in DOMAIN L, L[i] # << >>
    PROVE  /\ IsFamily(Cut(L, i)) /\ DOMAIN Cut(L, i) = DOMAIN L /\ Cut(L, i)[i] = Tail(L[i])
           /\ \A j \in DOMAIN L : j # i => Cut(L, i)[j] = L[j]
           /\ Separate(Cut(L, i)) /\ Head(L[i]) \notin AllOf(Cut(L, i))
           /\ AllOf(L) = AllOf(Cut(L, i)) \cup {Head(L[i])}
  <1> DEFINE P == Prefix(L[i], 1)
  <1>1. L[i] \in Seq(Calls) /\ Len(L[i]) \in Nat /\ 1 \in 0..Len(L[i])
    BY DEF IsFamily
  <1>2. Tail(L[i]) = Drop(L[i], 1)
    BY <1>1 DEF Drop
  <1>3. Cut(L, i) = Take(L, i, 1)
    BY <1>2 DEF Take, Cut
  <1>4. Members(P) = {Head(L[i])}
    <2>1. Len(P) = 1 /\ P[1] = L[i][1]
      <3>1. Len(P) = 1 /\ \A j \in 1..1 : P[j] = L[i][j]
        BY <1>1, Parts
      <3> QED
        BY <3>1
    <2>2. 1..1 = {1} /\ Head(L[i]) = L[i][1]
      BY <1>1
    <2> QED
      BY <2>1, <2>2 DEF Members
  <1> HIDE DEF P
  <1>5. PICK M : M = Take(L, i, 1)
    OBVIOUS
  <1>6. /\ IsFamily(M) /\ DOMAIN M = DOMAIN L /\ Separate(M) /\ M[i] = Drop(L[i], 1) /\ \A j \in DOMAIN L : j # i
           => M[j] = L[j]
        /\ AllOf(L) = AllOf(M) \cup Members(P) /\ AllOf(M) \cap Members(P) = {}
    BY ONLY IsFamily(L), Separate(L), <1>1, <1>5, TakeSeparate DEF P
  <1> QED
    BY ONLY <1>2, <1>3, <1>4, <1>5, <1>6

-----------------------------------------------------------------------------
(* The persistent connection                                               *)

PersTypes ==
    /\ issued \in 0..MaxCalls /\ status \in [Calls -> {"unissued", "pending", "returned", "hangup"}]
    /\ behind \in [Calls -> SUBSET Calls]
    /\ pers_conn \in 0..made /\ setting \in {0, made} /\ activity_fd_conn = IF setting = 0 THEN pers_conn ELSE setting
    /\ new_conn_cbs \in Seq(Calls) /\ cbs \in Seq(Calls)
    /\ break_exc \in BOOLEAN /\ break_cb \in [held : BOOLEAN, resumed : Nat]
    /\ requests \in [Conns -> Seq(Calls)] /\ stream \in [Conns -> Seq(Calls)]
    /\ responses \in [Conns -> Seq(Calls)] /\ expecting \in [Conns -> Seq(Calls)]
    /\ up \in [Conns -> {"none", "open", "shut", "closed"}]
    /\ \A k \in Conns : k > made => up[k] = "none"
    /\ made \in Conns /\ backlog \in {0, made} /\ reconnect \in {"idle", "connect", "response"}
    /\ reconnect = "connect" => made < MaxConns
    /\ setting # 0 => reconnect = "idle"
    /\ server \in {"serve", "shutdown", "accept", "dead"} /\ serving \in 1..made
    /\ performed \in Seq(Calls)

\* Those that are not written yet: who waits for a connection (0), who is being
\* resumed (MaxConns + 1), and the requests of each connection.
Lines == 0..(MaxConns + 1)
Line == [i \in Lines |-> IF i = 0 THEN new_conn_cbs ELSE IF i \in Conns THEN requests[i] ELSE cbs]

\* Nobody waits while there is a connection.
WaitInv ==
    /\ pers_conn # 0 => new_conn_cbs = << >> /\ cbs = << >>
    /\ setting = 0 => cbs = << >>

\* A syscall is in one place, which its status tells.
PlaceInv ==
    /\ \A c \in Calls : status[c] = "unissued" <=> c > issued
    /\ Separate(Line) /\ Separate(expecting) /\ Separate(stream) /\ Inj(performed)
    /\ \A c \in AllOf(Line) : status[c] = "pending" /\ c \notin Members(performed)
    /\ \A c \in AllOf(expecting) : status[c] = "pending" /\ c \notin AllOf(Line)
    /\ \A c \in AllOf(stream) :
         status[c] \in {"pending", "hangup"} /\ c \notin Members(performed) /\ c \notin AllOf(Line)
    /\ \A c \in Members(performed) : status[c] # "unissued"

\* Responses come in the order of those who expect them, and as long as the connection
\* is not closed the requests not performed yet are those of the others.
WireInv(k) ==
    /\ Members(responses[k]) \subseteq Members(performed)
    /\ up[k] # "closed" => expecting[k] = responses[k] \o stream[k]
    /\ \E rest \in Seq(Calls) : expecting[k] = responses[k] \o rest

\* Who may still be performed.
FutureOf(L, s, v) == AllOf(L) \cup UNION {Members(s[k]) : k \in v..MaxConns}
Future == FutureOf(Line, stream, serving)

\* e was made when c waited: wherever e is, c is ahead of it or no longer to be performed.
BehindInv(c, e) ==
    /\ c # e
    /\ e \in Members(new_conn_cbs) => \/ Before(new_conn_cbs, c, e) \/ c \in Members(cbs)
                                      \/ setting # 0 /\ c \in Members(requests[setting])
    /\ e \in Members(cbs) => Before(cbs, c, e) \/ c \in Members(requests[setting])
    /\ \A k \in Conns :
         /\ e \in Members(requests[k]) => Before(requests[k], c, e) \/ c \in Members(stream[k]) \/ c \notin Future
         /\ e \in Members(stream[k]) => Before(stream[k], c, e) \/ c \notin Future
    /\ e \in Members(performed) => c \notin Future /\ ~Before(performed, e, c)

OrderInv == \A e \in Calls : \A c \in behind[e] : c <= issued /\ BehindInv(c, e)

PersInv == PersTypes /\ WaitInv /\ PlaceInv /\ (\A k \in Conns : WireInv(k)) /\ OrderInv

\* The bounds.
LEMMA PersBounds == MaxCalls \in Nat /\ MaxConns \in Nat \ {0} /\ Calls = 1..MaxCalls /\ Conns = 1..MaxConns
  BY EventsAssumption DEF Pers!PersistentAssumption, Calls, Conns, Pers!Calls, Pers!Conns

\* The lines are these.
LEMMA LineFacts ==
    ASSUME PersTypes
    PROVE  /\ Line \in [Lines -> Seq(Calls)] /\ DOMAIN Line = Lines /\ IsFamily(Line)
           /\ 0 \in Lines /\ Line[0] = new_conn_cbs /\ MaxConns + 1 \in Lines /\ Line[MaxConns + 1] = cbs
           /\ \A k \in Conns : k \in Lines /\ k # 0 /\ k # MaxConns + 1 /\ Line[k] = requests[k]
           /\ \A i \in Lines : i = 0 \/ i = MaxConns + 1 \/ i \in Conns
  <1>1. Lines = {0, MaxConns + 1} \cup Conns /\ 0 \notin Conns /\ MaxConns + 1 \notin Conns /\ MaxConns + 1 # 0
    BY PersBounds DEF Lines
  <1>2. Line \in [Lines -> Seq(Calls)] /\ DOMAIN Line = Lines
    BY <1>1 DEF Line, PersTypes
  <1>3. IsFamily(Line)
    BY <1>2 DEF IsFamily
  <1> QED
    BY <1>1, <1>2, <1>3 DEF Line, PersTypes

\* Who is on a line.
LEMMA OnLine ==
    ASSUME PersTypes
    PROVE  /\ Members(new_conn_cbs) \subseteq AllOf(Line) /\ Members(cbs) \subseteq AllOf(Line)
           /\ \A k \in Conns : Members(requests[k]) \subseteq AllOf(Line)
           /\ \A k \in Conns : Members(stream[k]) \subseteq AllOf(stream)
           /\ \A k \in Conns : Members(expecting[k]) \subseteq AllOf(expecting)
           /\ AllOf(Line) \subseteq Calls /\ AllOf(stream) \subseteq Calls /\ AllOf(expecting) \subseteq Calls
  <1>1. \A s \in Seq(Calls) : Members(s) \subseteq Calls
    BY InCalls
  <1>2. \A i \in Lines : Members(Line[i]) \subseteq AllOf(Line)
    BY <1>1, LineFacts DEF AllOf
  <1>3. /\ \A k \in Conns : Members(stream[k]) \subseteq AllOf(stream)
        /\ \A k \in Conns : Members(expecting[k]) \subseteq AllOf(expecting)
    BY <1>1 DEF AllOf, PersTypes
  <1>4. AllOf(Line) \subseteq Calls /\ AllOf(stream) \subseteq Calls /\ AllOf(expecting) \subseteq Calls
    BY DEF AllOf
  <1> QED
    BY <1>2, <1>3, <1>4, LineFacts

\* Nobody is in an empty sequence.
LEMMA NoMembers == Members(<< >>) = {}
  BY DEF Members

\* Steps that move no syscall: the state of connections and of the server.
LEMMA QuietInv ==
    ASSUME PersInv, PersTypes', WaitInv', UNCHANGED <<issued, status, behind, new_conn_cbs, cbs, requests>>,
           UNCHANGED <<stream, responses, expecting, performed>>, serving' >= serving,
           \A k \in Conns : up[k] = "closed" => up'[k] = "closed",
           setting' = setting \/ setting = 0 \/ (new_conn_cbs = << >> /\ cbs = << >>)
    PROVE  PersInv'
  <1> USE DEF PersInv
  <1>1. Line' = Line
    BY DEF Line
  <1>2. PlaceInv'
    BY <1>1 DEF PlaceInv, AllOf, Separate
  <1>3. ASSUME NEW k \in Conns PROVE WireInv(k)'
    <2>1. WireInv(k)
      OBVIOUS
    <2>2. \A rest : expecting'[k] = expecting[k] /\ responses'[k] = responses[k] /\ stream'[k] = stream[k]
      OBVIOUS
    <2> QED
      BY <2>1 DEF WireInv
  <1>4. Future' \subseteq Future
    <2>1. serving'..MaxConns \subseteq serving..MaxConns
      BY PersBounds DEF PersTypes
    <2> QED
      BY <2>1, <1>1 DEF Future, FutureOf, AllOf
  <1>5. ASSUME NEW e \in Calls, NEW c \in behind'[e] PROVE (c <= issued)' /\ BehindInv(c, e)'
    <2>1. c <= issued /\ BehindInv(c, e)
      BY <1>5 DEF OrderInv
    <2>2. e \in Members(new_conn_cbs) => Before(new_conn_cbs, c, e) \/ c \in Members(cbs)
          \/ (setting' # 0 /\ c \in Members(requests[setting']))
      BY <2>1, NoMembers DEF BehindInv, WaitInv
    <2>3. e \in Members(cbs) => Before(cbs, c, e) \/ c \in Members(requests[setting'])
      BY <2>1, NoMembers DEF BehindInv, WaitInv
    <2>4. \A k \in Conns :
         /\ e \in Members(requests[k]) => Before(requests[k], c, e) \/ c \in Members(stream[k]) \/ c \notin Future'
         /\ e \in Members(stream[k]) => Before(stream[k], c, e) \/ c \notin Future'
      BY <2>1, <1>4 DEF BehindInv
    <2>5. e \in Members(performed) => c \notin Future' /\ ~Before(performed, e, c)
      BY <2>1, <1>4 DEF BehindInv
    <2> QED
      BY <2>1, <2>2, <2>3, <2>4, <2>5 DEF BehindInv
  <1>6. OrderInv'
    BY <1>5 DEF OrderInv
  <1> QED
    BY <1>2, <1>3, <1>6

\* A connection on which nothing happens, or that is closed.
LEMMA SameWire ==
    ASSUME NEW k \in Conns, WireInv(k), expecting'[k] = expecting[k], responses'[k] = responses[k],
           stream'[k] = stream[k], up'[k] = up[k], Members(performed) \subseteq Members(performed')
    PROVE  WireInv(k)'
  <1>1. PICK rest \in Seq(Calls) : expecting[k] = responses[k] \o rest
    BY DEF WireInv
  <1> QED
    BY <1>1 DEF WireInv

\* Nobody waits for or uses a connection before the first step.
LEMMA PersInit == Pers!Init => PersInv
  <1> SUFFICES ASSUME Pers!Init PROVE PersInv
    OBVIOUS
  <1> USE DEF Pers!Init
  <1>0. << >> \in Seq(Calls) /\ 1 \in Conns /\ 0 \in 0..MaxCalls /\ 1 \in 1..1 /\ 1 \in 0..1
    BY PersBounds
  <1>1. PersTypes
    <2>1. /\ issued \in 0..MaxCalls /\ status \in [Calls -> {"unissued", "pending", "returned", "hangup"}]
          /\ behind \in [Calls -> SUBSET Calls]
      BY <1>0 DEF Calls
    <2>2. /\ requests \in [Conns -> Seq(Calls)] /\ stream \in [Conns -> Seq(Calls)]
          /\ responses \in [Conns -> Seq(Calls)] /\ expecting \in [Conns -> Seq(Calls)]
          /\ up \in [Conns -> {"none", "open", "shut", "closed"}]
      BY <1>0 DEF Conns
    <2>3. break_exc \in BOOLEAN /\ break_cb \in [held : BOOLEAN, resumed : Nat]
      OBVIOUS
    <2> QED
      BY <1>0, <2>1, <2>2, <2>3 DEF PersTypes
  <1>2. \A i \in Lines : Line[i] = << >>
    BY <1>1, LineFacts DEF Conns
  <1>3. Inj(<< >>) /\ Members(<< >>) = {}
    BY DEF Inj, Members
  <1>4. Separate(Line) /\ AllOf(Line) = {}
    BY <1>1, <1>2, <1>3, LineFacts DEF Separate, AllOf
  <1>5. Separate(stream) /\ AllOf(stream) = {} /\ Separate(expecting) /\ AllOf(expecting) = {}
    BY <1>3 DEF Separate, AllOf
  <1>6. PlaceInv
    BY <1>3, <1>4, <1>5, PersBounds DEF PlaceInv, Calls
  <1>7. \A k \in Conns : WireInv(k)
    <2>1. << >> \o << >> = << >>
      OBVIOUS
    <2> QED
      BY <1>0, <1>3, <2>1 DEF WireInv, Conns
  <1>8. OrderInv
    BY DEF OrderInv, Calls
  <1>9. WaitInv
    BY DEF WaitInv
  <1> QED
    BY <1>1, <1>6, <1>7, <1>8, <1>9 DEF PersInv

\* wait_for_break, the steps of reconnect and set_new_conn, and those of the server that
\* perform nothing, move no syscall.
LEMMA QuietSteps ==
    ASSUME PersInv,
           \/ Pers!WaitForBreak \/ Pers!CloseInterface \/ Pers!SetNewConn \/ Pers!NewConnSet
           \/ Pers!Reconnect \/ Pers!ConnectAndSend \/ Pers!Eof \/ Pers!Shutdown \/ Pers!AcceptFds
           \/ Pers!Die \/ Pers!ReadNothing \/ UNCHANGED Pers!vars
    PROVE  PersInv'
  <1> USE DEF Pers!vars, Pers!callers, Pers!self, Pers!break, Pers!wires, Pers!thread, Pers!linking, Pers!Another
  <1>0. PersTypes /\ WaitInv /\ PersInv
    BY DEF PersInv
  <1>1. ASSUME Pers!WaitForBreak PROVE PersInv'
    <2>0. break_exc' \in BOOLEAN /\ break_cb' \in [held : BOOLEAN, resumed : Nat]
      <3>1. break_exc \in BOOLEAN /\ break_cb \in [held : BOOLEAN, resumed : Nat]
        BY ONLY <1>0 DEF PersTypes
      <3>2. \/ break_exc' = FALSE /\ break_cb' = break_cb
            \/ break_exc' = break_exc /\ break_cb' = [break_cb EXCEPT !.held = TRUE]
        BY ONLY <1>1 DEF Pers!WaitForBreak
      <3>3. [break_cb EXCEPT !.held = TRUE] \in [held : BOOLEAN, resumed : Nat]
        BY ONLY <3>1
      <3> QED
        BY ONLY <3>1, <3>2, <3>3
    <2>1. PersTypes'
      BY ONLY <1>0, <1>1, <2>0 DEF Pers!WaitForBreak, PersTypes
    <2>2. WaitInv'
      BY ONLY <1>0, <1>1 DEF Pers!WaitForBreak, WaitInv
    <2>3. \A k \in Conns : up[k] = "closed" => up'[k] = "closed"
      BY ONLY <1>0, <1>1, PersBounds DEF Pers!WaitForBreak, PersTypes
    <2>4. /\ UNCHANGED <<issued, status, behind, new_conn_cbs, cbs, requests, stream, responses, expecting, performed>>
          /\ serving' >= serving /\ (setting' = setting \/ setting = 0 \/ (new_conn_cbs = << >> /\ cbs = << >>))
      BY ONLY <1>0, <1>1, PersBounds DEF Pers!WaitForBreak, PersTypes
    <2> QED
      BY ONLY <1>0, <2>1, <2>2, <2>3, <2>4, QuietInv
  <1>2. ASSUME Pers!CloseInterface PROVE PersInv'
    <2>0. /\ up' \in [Conns -> {"none", "open", "shut", "closed"}]
          /\ \A k \in Conns : k > made => up'[k] = "none"
      <3>1. pers_conn \in Conns /\ \A k \in Conns : k > made => k # pers_conn
        BY ONLY <1>0, <1>2, PersBounds DEF Pers!CloseInterface, PersTypes
      <3> QED
        BY ONLY <1>0, <1>2, <3>1 DEF Pers!CloseInterface, PersTypes
    <2>1. PersTypes'
      BY ONLY <1>0, <1>2, <2>0 DEF Pers!CloseInterface, PersTypes
    <2>2. WaitInv'
      BY ONLY <1>0, <1>2 DEF Pers!CloseInterface, WaitInv
    <2>3. \A k \in Conns : up[k] = "closed" => up'[k] = "closed"
      BY ONLY <1>0, <1>2, PersBounds DEF Pers!CloseInterface, PersTypes
    <2>4. /\ UNCHANGED <<issued, status, behind, new_conn_cbs, cbs, requests, stream, responses, expecting, performed>>
          /\ serving' >= serving /\ (setting' = setting \/ setting = 0 \/ (new_conn_cbs = << >> /\ cbs = << >>))
      BY ONLY <1>0, <1>2, PersBounds DEF Pers!CloseInterface, PersTypes
    <2> QED
      BY ONLY <1>0, <2>1, <2>2, <2>3, <2>4, QuietInv
  <1>3. ASSUME Pers!SetNewConn PROVE PersInv'
    <2>1. PersTypes'
      BY ONLY <1>0, <1>3, PersBounds DEF Pers!SetNewConn, PersTypes
    <2>2. WaitInv'
      BY ONLY <1>0, <1>3, PersBounds DEF Pers!SetNewConn, WaitInv, PersTypes
    <2>3. \A k \in Conns : up[k] = "closed" => up'[k] = "closed"
      BY ONLY <1>0, <1>3, PersBounds DEF Pers!SetNewConn, PersTypes
    <2>4. /\ UNCHANGED <<issued, status, behind, new_conn_cbs, cbs, requests, stream, responses, expecting, performed>>
          /\ serving' >= serving /\ (setting' = setting \/ setting = 0 \/ (new_conn_cbs = << >> /\ cbs = << >>))
      BY ONLY <1>0, <1>3, PersBounds DEF Pers!SetNewConn, PersTypes
    <2> QED
      BY ONLY <1>0, <2>1, <2>2, <2>3, <2>4, QuietInv
  <1>4. ASSUME Pers!NewConnSet PROVE PersInv'
    <2>1. PersTypes'
      BY ONLY <1>0, <1>4, PersBounds DEF Pers!NewConnSet, PersTypes
    <2>2. WaitInv'
      BY ONLY <1>0, <1>4 DEF Pers!NewConnSet, WaitInv
    <2>3. \A k \in Conns : up[k] = "closed" => up'[k] = "closed"
      BY ONLY <1>0, <1>4, PersBounds DEF Pers!NewConnSet, PersTypes
    <2>4. /\ UNCHANGED <<issued, status, behind, new_conn_cbs, cbs, requests, stream, responses, expecting, performed>>
          /\ serving' >= serving /\ (setting' = setting \/ setting = 0 \/ (new_conn_cbs = << >> /\ cbs = << >>))
      BY ONLY <1>0, <1>4, PersBounds DEF Pers!NewConnSet, PersTypes
    <2> QED
      BY ONLY <1>0, <2>1, <2>2, <2>3, <2>4, QuietInv
  <1>5. ASSUME Pers!Reconnect PROVE PersInv'
    <2>1. PersTypes'
      BY ONLY <1>0, <1>5, PersBounds DEF Pers!Reconnect, PersTypes
    <2>2. WaitInv'
      BY ONLY <1>0, <1>5 DEF Pers!Reconnect, WaitInv
    <2>3. \A k \in Conns : up[k] = "closed" => up'[k] = "closed"
      BY ONLY <1>0, <1>5, PersBounds DEF Pers!Reconnect, PersTypes
    <2>4. /\ UNCHANGED <<issued, status, behind, new_conn_cbs, cbs, requests, stream, responses, expecting, performed>>
          /\ serving' >= serving /\ (setting' = setting \/ setting = 0 \/ (new_conn_cbs = << >> /\ cbs = << >>))
      BY ONLY <1>0, <1>5, PersBounds DEF Pers!Reconnect, PersTypes
    <2> QED
      BY ONLY <1>0, <2>1, <2>2, <2>3, <2>4, QuietInv
  <1>6. ASSUME Pers!ConnectAndSend PROVE PersInv'
    <2>0. /\ made + 1 \in Conns /\ made' = made + 1 /\ setting = 0 /\ pers_conn \in 0..(made + 1)
          /\ serving \in 1..(made + 1) /\ (\A k \in Conns : k > made + 1 => k > made /\ k # made + 1)
      BY ONLY <1>0, <1>6, PersBounds DEF Pers!ConnectAndSend, PersTypes
    <2>00. /\ up' \in [Conns -> {"none", "open", "shut", "closed"}]
           /\ \A k \in Conns : k > made' => up'[k] = "none"
      BY ONLY <1>0, <1>6, <2>0 DEF Pers!ConnectAndSend, PersTypes
    <2>1. PersTypes'
      BY ONLY <1>0, <1>6, <2>0, <2>00 DEF Pers!ConnectAndSend, PersTypes
    <2>2. WaitInv'
      BY ONLY <1>0, <1>6 DEF Pers!ConnectAndSend, WaitInv
    <2>3. \A k \in Conns : up[k] = "closed" => up'[k] = "closed"
      BY ONLY <1>0, <1>6, PersBounds DEF Pers!ConnectAndSend, PersTypes
    <2>4. /\ UNCHANGED <<issued, status, behind, new_conn_cbs, cbs, requests, stream, responses, expecting, performed>>
          /\ serving' >= serving /\ (setting' = setting \/ setting = 0 \/ (new_conn_cbs = << >> /\ cbs = << >>))
      BY ONLY <1>0, <1>6, PersBounds DEF Pers!ConnectAndSend, PersTypes
    <2> QED
      BY ONLY <1>0, <2>1, <2>2, <2>3, <2>4, QuietInv
  <1>7. ASSUME Pers!Eof PROVE PersInv'
    <2>1. PersTypes'
      BY ONLY <1>0, <1>7, PersBounds DEF Pers!Eof, PersTypes
    <2>2. WaitInv'
      BY ONLY <1>0, <1>7 DEF Pers!Eof, WaitInv
    <2>3. \A k \in Conns : up[k] = "closed" => up'[k] = "closed"
      BY ONLY <1>0, <1>7, PersBounds DEF Pers!Eof, PersTypes
    <2>4. /\ UNCHANGED <<issued, status, behind, new_conn_cbs, cbs, requests, stream, responses, expecting, performed>>
          /\ serving' >= serving /\ (setting' = setting \/ setting = 0 \/ (new_conn_cbs = << >> /\ cbs = << >>))
      BY ONLY <1>0, <1>7, PersBounds DEF Pers!Eof, PersTypes
    <2> QED
      BY ONLY <1>0, <2>1, <2>2, <2>3, <2>4, QuietInv
  <1>8. ASSUME Pers!Shutdown PROVE PersInv'
    <2>0. /\ up' \in [Conns -> {"none", "open", "shut", "closed"}]
          /\ \A k \in Conns : k > made => up'[k] = "none"
      <3>1. serving \in Conns /\ \A k \in Conns : k > made => k # serving
        BY ONLY <1>0, PersBounds DEF PersTypes
      <3> QED
        BY ONLY <1>0, <1>8, <3>1 DEF Pers!Shutdown, PersTypes
    <2>1. PersTypes'
      BY ONLY <1>0, <1>8, <2>0 DEF Pers!Shutdown, PersTypes
    <2>2. WaitInv'
      BY ONLY <1>0, <1>8 DEF Pers!Shutdown, WaitInv
    <2>3. \A k \in Conns : up[k] = "closed" => up'[k] = "closed"
      BY ONLY <1>0, <1>8, PersBounds DEF Pers!Shutdown, PersTypes
    <2>4. /\ UNCHANGED <<issued, status, behind, new_conn_cbs, cbs, requests, stream, responses, expecting, performed>>
          /\ serving' >= serving /\ (setting' = setting \/ setting = 0 \/ (new_conn_cbs = << >> /\ cbs = << >>))
      BY ONLY <1>0, <1>8, PersBounds DEF Pers!Shutdown, PersTypes
    <2> QED
      BY ONLY <1>0, <2>1, <2>2, <2>3, <2>4, QuietInv
  <1>9. ASSUME Pers!AcceptFds PROVE PersInv'
    <2>1. PersTypes'
      BY ONLY <1>0, <1>9, PersBounds DEF Pers!AcceptFds, PersTypes
    <2>2. WaitInv'
      BY ONLY <1>0, <1>9 DEF Pers!AcceptFds, WaitInv
    <2>3. \A k \in Conns : up[k] = "closed" => up'[k] = "closed"
      BY ONLY <1>0, <1>9, PersBounds DEF Pers!AcceptFds, PersTypes
    <2>4. /\ UNCHANGED <<issued, status, behind, new_conn_cbs, cbs, requests, stream, responses, expecting, performed>>
          /\ serving' >= serving /\ (setting' = setting \/ setting = 0 \/ (new_conn_cbs = << >> /\ cbs = << >>))
      BY ONLY <1>0, <1>9, PersBounds DEF Pers!AcceptFds, PersTypes
    <2> QED
      BY ONLY <1>0, <2>1, <2>2, <2>3, <2>4, QuietInv
  <1>10. ASSUME Pers!Die PROVE PersInv'
    <2>1. PersTypes'
      BY ONLY <1>0, <1>10, PersBounds DEF Pers!Die, PersTypes
    <2>2. WaitInv'
      BY ONLY <1>0, <1>10 DEF Pers!Die, WaitInv
    <2>3. \A k \in Conns : up[k] = "closed" => up'[k] = "closed"
      BY ONLY <1>0, <1>10, PersBounds DEF Pers!Die, PersTypes
    <2>4. /\ UNCHANGED <<issued, status, behind, new_conn_cbs, cbs, requests, stream, responses, expecting, performed>>
          /\ serving' >= serving /\ (setting' = setting \/ setting = 0 \/ (new_conn_cbs = << >> /\ cbs = << >>))
      BY ONLY <1>0, <1>10, PersBounds DEF Pers!Die, PersTypes
    <2> QED
      BY ONLY <1>0, <2>1, <2>2, <2>3, <2>4, QuietInv
  <1>11. ASSUME Pers!ReadNothing \/ UNCHANGED Pers!vars PROVE PersInv'
    <2>0. UNCHANGED Pers!vars
      BY ONLY <1>11 DEF Pers!ReadNothing
    <2>1. PersTypes' /\ WaitInv'
      BY ONLY <1>0, <2>0 DEF PersTypes, WaitInv
    <2>2. /\ UNCHANGED <<issued, status, behind, new_conn_cbs, cbs, requests, stream, responses, expecting, performed>>
          /\ serving' >= serving /\ setting' = setting /\ up' = up
      BY ONLY <1>0, <2>0, PersBounds DEF PersTypes
    <2> QED
      BY ONLY <1>0, <2>1, <2>2, QuietInv
  <1> QED
    BY <1>1, <1>2, <1>3, <1>4, <1>5, <1>6, <1>7, <1>8, <1>9, <1>10, <1>11

\* Who is where, with the facts of PlaceInv about one syscall.
LEMMA PlaceFacts ==
    ASSUME PersTypes, PlaceInv, NEW c
    PROVE  /\ c \in AllOf(Line) => /\ c \in Calls /\ status[c] = "pending" /\ c <= issued
                                   /\ c \notin Members(performed) /\ c \notin AllOf(stream) /\ c \notin AllOf(expecting)
           /\ c \in AllOf(stream) => c \in Calls /\ c <= issued
           /\ c \in AllOf(expecting) => c \in Calls /\ c <= issued
  <1>1. AllOf(Line) \subseteq Calls /\ AllOf(stream) \subseteq Calls /\ AllOf(expecting) \subseteq Calls
    BY OnLine
  <1>2. Calls \subseteq Nat /\ issued \in Nat
    BY PersBounds DEF PersTypes
  <1>3. \A x \in Calls : x > issued \/ x <= issued
    BY <1>2
  <1> QED
    BY <1>1, <1>3 DEF PlaceInv

\* Where a syscall that is in one line is not.
LEMMA OneLine ==
    ASSUME PersTypes, Separate(Line), NEW e
    PROVE  /\ e \in Members(new_conn_cbs) => e \notin Members(cbs)
           /\ \A k \in Conns : e \in Members(requests[k]) =>
                /\ e \notin Members(new_conn_cbs) /\ e \notin Members(cbs)
                /\ \A l \in Conns : l # k => e \notin Members(requests[l])
  <1>1. \A i, j \in Lines : i # j => Members(Line[i]) \cap Members(Line[j]) = {}
    BY LineFacts DEF Separate
  <1>2. MaxConns + 1 # 0
    BY PersBounds
  <1> QED
    BY <1>1, <1>2, LineFacts

\* A new syscall is made on the connection, or waits for one.
LEMMA PersSyscall ==
    ASSUME PersInv, Pers!Syscall
    PROVE  PersInv'
  <1> DEFINE x == issued + 1
  <1>0. PersTypes /\ WaitInv /\ PlaceInv /\ (\A k \in Conns : WireInv(k)) /\ OrderInv
    BY DEF PersInv
  <1>1. /\ x \in Calls /\ x \in 0..MaxCalls /\ status[x] = "unissued" /\ issued' = x
        /\ \A c \in Calls : c > x <=> (c > issued /\ c # x)
    <2>1. /\ x \in Calls /\ x \in 0..MaxCalls /\ x > issued /\ \A c \in Calls : c > x <=> (c > issued /\ c # x)
      BY <1>0, PersBounds DEF Pers!Syscall, PersTypes
    <2> QED
      BY <2>1, <1>0 DEF PlaceInv, Pers!Syscall
  <1>2. pers_conn \in Lines /\ Line \in [Lines -> Seq(Calls)] /\ DOMAIN Line = Lines /\ IsFamily(Line)
    <2>1. pers_conn \in Lines
      BY <1>0, PersBounds DEF PersTypes, Lines
    <2> QED
      BY <2>1, <1>0, LineFacts
  <1>3. PICK t : t = <<x>>
    OBVIOUS
  <1>4. t \in Seq(Calls) /\ Members(t) = {x} /\ Inj(t)
    BY <1>1, <1>3 DEF Members, Inj
  <1> HIDE DEF x
  <1>5. /\ status' = [status EXCEPT ![x] = "pending"]
        /\ behind' = [behind EXCEPT ![x] = Members(new_conn_cbs) \cup Members(cbs)]
        /\ pers_conn = 0 => new_conn_cbs' = new_conn_cbs \o t /\ requests' = requests
        /\ pers_conn # 0 => new_conn_cbs' = new_conn_cbs /\ requests' = [requests EXCEPT ![pers_conn] = @ \o t]
        /\ UNCHANGED <<pers_conn, activity_fd_conn, cbs, setting, break_exc, break_cb, stream, responses, expecting,
           up>>
        /\ UNCHANGED <<made, reconnect, backlog, server, serving, performed>>
    BY <1>3 DEF x, Pers!Syscall, Pers!MakeOn, Pers!Waiting, Pers!Elements, Members, Pers!break, Pers!linking,
       Pers!thread
  <1>6. PersTypes'
    <2>1. new_conn_cbs \o t \in Seq(Calls)
      BY <1>0, <1>4 DEF PersTypes
    <2>2. pers_conn # 0 => pers_conn \in Conns /\ requests[pers_conn] \o t \in Seq(Calls)
      BY <1>0, <1>4, PersBounds DEF PersTypes
    <2>3. new_conn_cbs' \in Seq(Calls) /\ requests' \in [Conns -> Seq(Calls)]
      <3>1. new_conn_cbs \in Seq(Calls) /\ requests \in [Conns -> Seq(Calls)]
        BY ONLY <1>0 DEF PersTypes
      <3>2. CASE pers_conn = 0
        BY ONLY <3>1, <3>2, <1>5, <2>1
      <3>3. CASE pers_conn # 0
        <4>1. new_conn_cbs' = new_conn_cbs /\ requests' = [requests EXCEPT ![pers_conn] = requests[pers_conn] \o t]
          BY ONLY <3>3, <1>5
        <4> QED
          BY ONLY <3>1, <3>3, <4>1, <2>2
      <3> QED
        BY ONLY <3>2, <3>3
    <2>4. \A s \in Seq(Calls) : Members(s) \subseteq Calls
      BY DEF Members
    <2>5. status' \in [Calls -> {"unissued", "pending", "returned", "hangup"}] /\ behind' \in [Calls -> SUBSET Calls]
      BY ONLY <1>0, <1>1, <1>5, <2>4 DEF PersTypes
    <2> QED
      BY ONLY <1>0, <1>1, <1>5, <2>3, <2>5 DEF PersTypes
  <1>7. WaitInv'
    BY <1>0, <1>5 DEF WaitInv
  <1>8. Line' = [Line EXCEPT ![pers_conn] = Line[pers_conn] \o t]
    <2>1. CASE pers_conn = 0
      BY ONLY <2>1, <1>0, <1>5, <1>2, LineFacts, PersBounds DEF Line
    <2>2. CASE pers_conn # 0
      <3>1. pers_conn \in Conns
        BY <2>2, <1>0, PersBounds DEF PersTypes
      <3> QED
        BY ONLY <2>2, <3>1, <1>0, <1>5, <1>2, LineFacts DEF Line, PersTypes
    <2> QED
      BY <2>1, <2>2
  <1>9. x \notin AllOf(Line) /\ x \notin AllOf(stream) /\ x \notin AllOf(expecting) /\ x \notin Members(performed)
    BY <1>0, <1>1 DEF PlaceInv
  <1>10. Separate(Line') /\ AllOf(Line') = AllOf(Line) \cup {x}
    <2>1. AllOf(Line) \cap Members(t) = {} /\ Separate(Line)
      BY <1>0, <1>4, <1>9 DEF PlaceInv
    <2>2. Line' = Put(Line, pers_conn, t)
      BY <1>8 DEF Put, With
    <2> QED
      BY ONLY <2>1, <2>2, <1>2, <1>4, PutSeparate
  <1>11. PlaceInv'
    <2>1. \A c \in Calls : status'[c] = IF c = x THEN "pending" ELSE status[c]
      BY <1>0, <1>1, <1>5 DEF PersTypes
    <2>2. AllOf(Line) \subseteq Calls /\ AllOf(stream) \subseteq Calls /\ AllOf(expecting) \subseteq Calls
      BY <1>0, OnLine
    <2>3. Members(performed) \subseteq Calls
      BY <1>0 DEF PersTypes, Members
    <2>4. \A c \in Calls : status'[c] = "unissued" <=> c > issued'
      BY <1>0, <1>1, <2>1 DEF PlaceInv
    <2>5. \A c \in AllOf(Line') : status'[c] = "pending" /\ c \notin Members(performed)
      BY <1>0, <1>1, <1>9, <1>10, <2>1, <2>2 DEF PlaceInv
    <2>6. \A c \in AllOf(expecting) : status'[c] = "pending" /\ c \notin AllOf(Line')
      BY <1>0, <1>9, <1>10, <2>1, <2>2 DEF PlaceInv
    <2>7. \A c \in AllOf(stream) :
            status'[c] \in {"pending", "hangup"} /\ c \notin Members(performed) /\ c \notin AllOf(Line')
      BY <1>0, <1>9, <1>10, <2>1, <2>2 DEF PlaceInv
    <2>8. \A c \in Members(performed) : status'[c] # "unissued"
      BY <1>0, <2>1, <2>3 DEF PlaceInv
    <2>9. Separate(expecting) /\ Separate(stream) /\ Inj(performed)
      BY <1>0 DEF PlaceInv
    <2> QED
      BY ONLY <1>5, <1>10, <2>4, <2>5, <2>6, <2>7, <2>8, <2>9 DEF PlaceInv
  <1>12. \A k \in Conns : WireInv(k)'
    BY <1>0, <1>5 DEF WireInv
  <1>13. Future' = Future \cup {x}
    BY ONLY <1>5, <1>10 DEF Future, FutureOf
  <1>14. ASSUME NEW e \in Calls, NEW c \in behind'[e] PROVE (c <= issued)' /\ BehindInv(c, e)'
    <2>1. pers_conn # 0 => pers_conn \in Conns
      BY <1>0, PersBounds DEF PersTypes
    <2>2. /\ Members(new_conn_cbs \o t) = Members(new_conn_cbs) \cup {x}
          /\ \A a, b : Before(new_conn_cbs, a, b) => Before(new_conn_cbs \o t, a, b)
          /\ \A a \in Members(new_conn_cbs) : Before(new_conn_cbs \o t, a, x)
      BY ONLY <1>0, <1>4, CatMembers DEF PersTypes
    <2>3. ASSUME NEW k \in Conns
          PROVE  /\ Members(requests'[k]) \subseteq Members(requests[k]) \cup {x}
                 /\ \A a, b : Before(requests[k], a, b) => Before(requests'[k], a, b)
                 /\ Members(requests[k]) \subseteq Members(requests'[k])
                 /\ pers_conn = 0 => requests'[k] = requests[k]
      <3>1. CASE pers_conn = k
        <4>1. requests[k] \in Seq(Calls) /\ k # 0
          BY <1>0, PersBounds DEF PersTypes
        <4>2. requests'[k] = requests[k] \o t
          BY ONLY <3>1, <4>1, <1>0, <1>5 DEF PersTypes
        <4> QED
          BY ONLY <4>1, <4>2, <3>1, <1>4, CatMembers
      <3>2. CASE pers_conn # k
        <4>1. requests'[k] = requests[k]
          BY ONLY <3>2, <2>1, <1>0, <1>5 DEF PersTypes
        <4> QED
          BY <4>1
      <3> QED
        BY <3>1, <3>2
    <2>4. x \notin Members(cbs) /\ x \notin Members(new_conn_cbs)
          /\ (\A k \in Conns : x \notin Members(requests[k]) /\ x \notin Members(stream[k]))
      BY <1>0, <1>9, OnLine
    <2>5. CASE e = x
      <3>1. c \in Members(new_conn_cbs) \cup Members(cbs)
        BY ONLY <2>5, <1>0, <1>1, <1>5, <1>14 DEF PersTypes
      <3>2. pers_conn = 0 /\ c \in AllOf(Line)
        BY <3>1, <1>0, NoMembers, OnLine DEF WaitInv
      <3>3. c <= issued /\ c \in Calls
        BY <3>2, <1>0, PlaceFacts
      <3>4. c <= issued'
        BY <3>3, <1>1, <1>0, PersBounds DEF PersTypes, x
      <3>7. c # x
        BY <3>3, <1>0, PersBounds DEF PersTypes, x
      <3>5. e \in Members(new_conn_cbs') => Before(new_conn_cbs', c, e) \/ c \in Members(cbs)
        BY <2>2, <2>5, <3>1, <3>2, <1>5
      <3>6. e \notin Members(cbs) /\ e \notin Members(performed)
            /\ (\A k \in Conns : e \notin Members(requests'[k]) /\ e \notin Members(stream[k]))
        BY <1>9, <2>3, <2>4, <2>5, <3>2
      <3> QED
        BY ONLY <3>4, <3>5, <3>6, <1>5, <2>5, <3>7 DEF BehindInv
    <2>6. CASE e # x
      <3>1. c \in behind[e]
        BY ONLY <2>6, <1>0, <1>1, <1>5, <1>14 DEF PersTypes
      <3>2. c <= issued /\ BehindInv(c, e) /\ c \in Calls
        BY <3>1, <1>0 DEF OrderInv, PersTypes
      <3>0. issued \in Nat /\ c \in Nat
        BY ONLY <3>2, <1>0, PersBounds DEF PersTypes
      <3>3. c # x /\ c <= issued'
        BY ONLY <3>0, <3>2, <1>1 DEF x
      <3>4. c \in Future' => c \in Future
        BY <3>3, <1>13
      <3>5. e \in Members(new_conn_cbs') => \/ Before(new_conn_cbs', c, e) \/ c \in Members(cbs)
                                            \/ (setting # 0 /\ c \in Members(requests'[setting]))
        <4>1. setting # 0 => setting \in Conns
          BY <1>0 DEF PersTypes
        <4>2. e \in Members(new_conn_cbs') => e \in Members(new_conn_cbs)
          BY <2>2, <2>6, <1>5
        <4>3. Before(new_conn_cbs, c, e) => Before(new_conn_cbs', c, e)
          BY <2>2, <1>5
        <4> QED
          BY <4>1, <4>2, <4>3, <3>2, <2>3 DEF BehindInv
      <3>6. e \in Members(cbs) => Before(cbs, c, e) \/ c \in Members(requests'[setting])
        <4>1. setting # 0 => setting \in Conns
          BY <1>0 DEF PersTypes
        <4> QED
          BY <4>1, <3>2, <2>3, <1>0, NoMembers DEF BehindInv, WaitInv
      <3>7. \A k \in Conns :
         /\ e \in Members(requests'[k]) => Before(requests'[k], c, e) \/ c \in Members(stream[k]) \/ c \notin Future'
         /\ e \in Members(stream[k]) => Before(stream[k], c, e) \/ c \notin Future'
        BY <3>2, <3>4, <2>3, <2>6 DEF BehindInv
      <3>8. e \in Members(performed) => c \notin Future' /\ ~Before(performed, e, c)
        BY <3>2, <3>4 DEF BehindInv
      <3> QED
        BY ONLY <3>2, <3>3, <3>5, <3>6, <3>7, <3>8, <1>5 DEF BehindInv
    <2> QED
      BY <2>5, <2>6
  <1> QED
    BY ONLY <1>6, <1>7, <1>11, <1>12, <1>14 DEF PersInv, OrderInv

\* The order is kept by a step that lets no syscall become one to be performed, and
\* moves none but to lose it.
LEMMA OrderKept ==
    ASSUME PersInv, UNCHANGED <<issued, behind, new_conn_cbs, cbs, requests, setting, performed>>,
           Future' \subseteq Future,
           \A k \in Conns : \A c \in Members(stream[k]) : c \in Members(stream'[k]) \/ c \notin Future',
           \A k \in Conns : Members(stream'[k]) \subseteq Members(stream[k]),
           \A k \in Conns, c, e \in Calls : Before(stream[k], c, e) /\ e \in Members(stream'[k])
             => Before(stream'[k], c, e)
    PROVE  OrderInv'
  <1>1. ASSUME NEW e \in Calls, NEW c \in behind'[e] PROVE (c <= issued)' /\ BehindInv(c, e)'
    <2>1. c <= issued /\ BehindInv(c, e) /\ c \in Calls
      BY <1>1 DEF PersInv, OrderInv, PersTypes
    <2>2. \A k \in Conns :
         /\ e \in Members(requests[k]) => Before(requests[k], c, e) \/ c \in Members(stream'[k]) \/ c \notin Future'
         /\ e \in Members(stream'[k]) => Before(stream'[k], c, e) \/ c \notin Future'
      BY <2>1 DEF BehindInv
    <2> QED
      BY <2>1, <2>2 DEF BehindInv
  <1> QED
    BY <1>1 DEF OrderInv

\* A caller gets its response.
LEMMA PersReturn ==
    ASSUME PersInv, NEW k \in Conns, Pers!Return(k)
    PROVE  PersInv'
  <1>0. PersTypes /\ WaitInv /\ PlaceInv /\ (\A l \in Conns : WireInv(l)) /\ OrderInv
    BY DEF PersInv
  <1> DEFINE x == Head(expecting[k])
  <1>1. PICK rest \in Seq(Calls) : expecting[k] = responses[k] \o rest
    BY <1>0 DEF WireInv
  <1>2. /\ responses[k] \in Seq(Calls) /\ expecting[k] \in Seq(Calls) /\ stream[k] \in Seq(Calls)
        /\ responses[k] # << >> /\ expecting[k] # << >>
    BY <1>0 DEF PersTypes, Pers!Return
  <1>3. /\ Head(responses[k]) = x /\ Tail(expecting[k]) = Tail(responses[k]) \o rest
        /\ up[k] # "closed" => Tail(expecting[k]) = Tail(responses[k]) \o stream[k]
    <2>1. Tail(responses[k] \o rest) = Tail(responses[k]) \o rest /\ Head(responses[k] \o rest) = Head(responses[k])
      BY ONLY <1>2, CatTail
    <2>2. Tail(responses[k] \o stream[k]) = Tail(responses[k]) \o stream[k]
      BY ONLY <1>2, CatTail
    <2>3. up[k] # "closed" => expecting[k] = responses[k] \o stream[k]
      BY ONLY <1>0 DEF WireInv
    <2> QED
      BY ONLY <2>1, <2>2, <2>3, <1>1
  <1>4. /\ x \in Calls /\ Tail(expecting[k]) \in Seq(Calls) /\ x \in Members(expecting[k]) /\ x \in Members(performed)
        /\ Tail(responses[k]) \in Seq(Calls) /\ Members(Tail(responses[k])) \subseteq Members(performed)
    <2>1. x \in Calls /\ Tail(expecting[k]) \in Seq(Calls) /\ x \in Members(expecting[k])
      BY ONLY <1>2, HeadMembers
    <2>2. /\ Head(responses[k]) \in Members(responses[k]) /\ Tail(responses[k]) \in Seq(Calls)
          /\ Members(Tail(responses[k])) \subseteq Members(responses[k])
      BY ONLY <1>2, HeadMembers
    <2>3. Members(responses[k]) \subseteq Members(performed)
      BY ONLY <1>0 DEF WireInv
    <2> QED
      BY ONLY <2>1, <2>2, <2>3, <1>3
  <1>5. x \in AllOf(expecting) /\ status[x] = "pending" /\ x \notin AllOf(Line) /\ x \notin AllOf(stream)
    BY <1>0, <1>4, OnLine DEF PlaceInv
  <1>6. /\ status' = [status EXCEPT ![x] = "returned"]
        /\ expecting' = [expecting EXCEPT ![k] = Tail(expecting[k])]
        /\ responses' = [responses EXCEPT ![k] = Tail(responses[k])]
    BY <1>3 DEF Pers!Return
  <1>7. /\ UNCHANGED <<issued, behind, pers_conn, activity_fd_conn, new_conn_cbs, cbs, setting, break_exc, break_cb,
           requests>>
        /\ UNCHANGED <<stream, up, made, reconnect, backlog, server, serving, performed>>
    BY DEF Pers!Return, Pers!self, Pers!break, Pers!linking, Pers!thread
  <1> HIDE DEF x
  <1>8. PersTypes'
    <2>1. status' \in [Calls -> {"unissued", "pending", "returned", "hangup"}]
      BY ONLY <1>0, <1>4, <1>6 DEF PersTypes
    <2>2. expecting' \in [Conns -> Seq(Calls)] /\ responses' \in [Conns -> Seq(Calls)]
      BY ONLY <1>0, <1>4, <1>6 DEF PersTypes
    <2> QED
      BY ONLY <1>0, <1>7, <2>1, <2>2 DEF PersTypes
  <1>9. WaitInv' /\ Line' = Line
    BY ONLY <1>0, <1>7 DEF WaitInv, Line
  <1>10. Separate(expecting') /\ AllOf(expecting') \subseteq AllOf(expecting) /\ x \notin AllOf(expecting')
    <2>1. IsFamily(expecting) /\ Separate(expecting) /\ DOMAIN expecting = Conns
      BY ONLY <1>0 DEF PersTypes, PlaceInv, IsFamily
    <2>2. expecting' = Cut(expecting, k)
      BY ONLY <1>6 DEF Cut, With
    <2>3. /\ Separate(Cut(expecting, k)) /\ x \notin AllOf(Cut(expecting, k))
          /\ AllOf(expecting) = AllOf(Cut(expecting, k)) \cup {x}
      BY ONLY <2>1, <1>2, TailSeparate DEF x
    <2> QED
      BY ONLY <2>2, <2>3
  <1>11. PlaceInv'
    <2>1. \A c \in Calls : status'[c] = IF c = x THEN "returned" ELSE status[c]
      BY ONLY <1>0, <1>4, <1>6 DEF PersTypes
    <2>2. AllOf(Line) \subseteq Calls /\ AllOf(stream) \subseteq Calls /\ AllOf(expecting) \subseteq Calls
      BY <1>0, OnLine
    <2>3. Members(performed) \subseteq Calls
      BY <1>0, InCalls DEF PersTypes
    <2>4. \A c \in Calls : status'[c] = "unissued" <=> c > issued
      BY ONLY <1>0, <1>4, <1>5, <2>1 DEF PlaceInv
    <2>5. \A c \in AllOf(Line) : status'[c] = "pending" /\ c \notin Members(performed)
      BY ONLY <1>0, <1>5, <2>1, <2>2 DEF PlaceInv
    <2>6. \A c \in AllOf(expecting') : status'[c] = "pending" /\ c \notin AllOf(Line)
      BY ONLY <1>0, <1>10, <2>1, <2>2 DEF PlaceInv
    <2>7. \A c \in AllOf(stream) :
            status'[c] \in {"pending", "hangup"} /\ c \notin Members(performed) /\ c \notin AllOf(Line)
      BY ONLY <1>0, <1>5, <2>1, <2>2 DEF PlaceInv
    <2>8. \A c \in Members(performed) : status'[c] # "unissued"
      BY ONLY <1>0, <2>1, <2>3 DEF PlaceInv
    <2>9. Separate(Line) /\ Separate(stream) /\ Inj(performed)
      BY <1>0 DEF PlaceInv
    <2> QED
      BY ONLY <1>7, <1>9, <1>10, <2>4, <2>5, <2>6, <2>7, <2>8, <2>9 DEF PlaceInv
  <1>12. ASSUME NEW l \in Conns PROVE WireInv(l)'
    <2>1. CASE l = k
      <3>1. expecting'[k] = Tail(expecting[k]) /\ responses'[k] = Tail(responses[k])
        BY ONLY <1>0, <1>6 DEF PersTypes
      <3> QED
        BY ONLY <2>1, <3>1, <1>3, <1>4, <1>7 DEF WireInv
    <2>2. CASE l # k
      <3>1. expecting'[l] = expecting[l] /\ responses'[l] = responses[l]
        BY ONLY <2>2, <1>0, <1>6 DEF PersTypes
      <3> QED
        BY ONLY <3>1, <1>0, <1>7 DEF WireInv
    <2> QED
      BY <2>1, <2>2
  <1>13. Future' = Future
    BY ONLY <1>7, <1>9 DEF Future
  <1>14. OrderInv'
    BY ONLY <1>7, <1>13, PersInv, OrderKept
  <1> QED
    BY ONLY <1>8, <1>9, <1>11, <1>12, <1>14 DEF PersInv

\* A caller learns that its connection is gone.
LEMMA PersHangup ==
    ASSUME PersInv, NEW k \in Conns, Pers!Hangup(k)
    PROVE  PersInv'
  <1>0. PersTypes /\ WaitInv /\ PlaceInv /\ (\A l \in Conns : WireInv(l)) /\ OrderInv
    BY DEF PersInv
  <1> DEFINE x == Head(expecting[k])
  <1>2. /\ expecting[k] \in Seq(Calls) /\ responses[k] = << >> /\ expecting[k] # << >> /\ up[k] = "closed"
    BY <1>0 DEF PersTypes, Pers!Hangup
  <1>4. /\ x \in Calls /\ Tail(expecting[k]) \in Seq(Calls) /\ x \in Members(expecting[k])
        /\ << >> \o Tail(expecting[k]) = Tail(expecting[k])
    BY <1>2, HeadMembers
  <1>5. x \in AllOf(expecting) /\ status[x] = "pending" /\ x \notin AllOf(Line)
    BY <1>0, <1>4, OnLine DEF PlaceInv
  <1>6. /\ status' = [status EXCEPT ![x] = "hangup"]
        /\ expecting' = [expecting EXCEPT ![k] = Tail(expecting[k])]
    BY DEF Pers!Hangup
  <1>7. /\ UNCHANGED <<issued, behind, pers_conn, activity_fd_conn, new_conn_cbs, cbs, setting, break_exc, break_cb,
           requests>>
        /\ UNCHANGED <<stream, responses, up, made, reconnect, backlog, server, serving, performed>>
    BY DEF Pers!Hangup, Pers!self, Pers!break, Pers!linking, Pers!thread
  <1> HIDE DEF x
  <1>8. PersTypes'
    <2>1. status' \in [Calls -> {"unissued", "pending", "returned", "hangup"}]
      BY ONLY <1>0, <1>4, <1>6 DEF PersTypes
    <2>2. expecting' \in [Conns -> Seq(Calls)]
      BY ONLY <1>0, <1>4, <1>6 DEF PersTypes
    <2> QED
      BY ONLY <1>0, <1>7, <2>1, <2>2 DEF PersTypes
  <1>9. WaitInv' /\ Line' = Line
    BY ONLY <1>0, <1>7 DEF WaitInv, Line
  <1>10. Separate(expecting') /\ AllOf(expecting') \subseteq AllOf(expecting) /\ x \notin AllOf(expecting')
    <2>1. IsFamily(expecting) /\ Separate(expecting) /\ DOMAIN expecting = Conns
      BY ONLY <1>0 DEF PersTypes, PlaceInv, IsFamily
    <2>2. expecting' = Cut(expecting, k)
      BY ONLY <1>6 DEF Cut, With
    <2>3. /\ Separate(Cut(expecting, k)) /\ x \notin AllOf(Cut(expecting, k))
          /\ AllOf(expecting) = AllOf(Cut(expecting, k)) \cup {x}
      BY ONLY <2>1, <1>2, TailSeparate DEF x
    <2> QED
      BY ONLY <2>2, <2>3
  <1>11. PlaceInv'
    <2>1. \A c \in Calls : status'[c] = IF c = x THEN "hangup" ELSE status[c]
      BY ONLY <1>0, <1>4, <1>6 DEF PersTypes
    <2>2. AllOf(Line) \subseteq Calls /\ AllOf(stream) \subseteq Calls /\ AllOf(expecting) \subseteq Calls
      BY <1>0, OnLine
    <2>3. Members(performed) \subseteq Calls
      BY <1>0, InCalls DEF PersTypes
    <2>4. \A c \in Calls : status'[c] = "unissued" <=> c > issued
      BY ONLY <1>0, <1>4, <1>5, <2>1 DEF PlaceInv
    <2>5. \A c \in AllOf(Line) : status'[c] = "pending" /\ c \notin Members(performed)
      BY ONLY <1>0, <1>5, <2>1, <2>2 DEF PlaceInv
    <2>6. \A c \in AllOf(expecting') : status'[c] = "pending" /\ c \notin AllOf(Line)
      BY ONLY <1>0, <1>10, <2>1, <2>2 DEF PlaceInv
    <2>7. \A c \in AllOf(stream) :
            status'[c] \in {"pending", "hangup"} /\ c \notin Members(performed) /\ c \notin AllOf(Line)
      BY ONLY <1>0, <1>5, <2>1, <2>2 DEF PlaceInv
    <2>8. \A c \in Members(performed) : status'[c] # "unissued"
      BY ONLY <1>0, <2>1, <2>3 DEF PlaceInv
    <2>9. Separate(Line) /\ Separate(stream) /\ Inj(performed)
      BY <1>0 DEF PlaceInv
    <2> QED
      BY ONLY <1>7, <1>9, <1>10, <2>4, <2>5, <2>6, <2>7, <2>8, <2>9 DEF PlaceInv
  <1>12. ASSUME NEW l \in Conns PROVE WireInv(l)'
    <2>1. CASE l = k
      <3>1. expecting'[k] = Tail(expecting[k])
        BY ONLY <1>0, <1>6 DEF PersTypes
      <3> QED
        BY ONLY <2>1, <3>1, <1>0, <1>2, <1>4, <1>7 DEF WireInv
    <2>2. CASE l # k
      <3>1. expecting'[l] = expecting[l]
        BY ONLY <2>2, <1>0, <1>6 DEF PersTypes
      <3> QED
        BY ONLY <3>1, <1>0, <1>7 DEF WireInv
    <2> QED
      BY <2>1, <2>2
  <1>13. Future' = Future
    BY ONLY <1>7, <1>9 DEF Future
  <1>14. OrderInv'
    BY ONLY <1>7, <1>13, PersInv, OrderKept
  <1> QED
    BY ONLY <1>8, <1>9, <1>11, <1>12, <1>14 DEF PersInv

\* A connection is lost, with or without what is in flight.
LEMMA PersBreak ==
    ASSUME PersInv, NEW k \in Conns, Pers!Break(k)
    PROVE  PersInv'
  <1>0. PersTypes /\ WaitInv /\ PlaceInv /\ (\A l \in Conns : WireInv(l)) /\ OrderInv
    BY DEF PersInv
  <1>1. /\ up' = [up EXCEPT ![k] = "closed"] /\ up[k] # "none"
        /\ UNCHANGED <<issued, status, behind, pers_conn, activity_fd_conn, new_conn_cbs, cbs, setting, break_exc,
           break_cb, requests>>
        /\ UNCHANGED <<expecting, made, reconnect, backlog, server, serving, performed>>
    BY DEF Pers!Break, Pers!callers, Pers!self, Pers!break, Pers!linking, Pers!thread
  <1>2. CASE UNCHANGED <<stream, responses>>
    <2>1. up' \in [Conns -> {"none", "open", "shut", "closed"}] /\ (\A l \in Conns : l > made => up'[l] = "none")
      BY ONLY <1>0, <1>1 DEF PersTypes
    <2>2. PersTypes'
      BY ONLY <1>0, <1>1, <1>2, <2>1 DEF PersTypes
    <2>3. WaitInv' /\ serving' >= serving
      BY ONLY <1>0, <1>1, PersBounds DEF WaitInv, PersTypes
    <2>4. \A l \in Conns : up[l] = "closed" => up'[l] = "closed"
      BY ONLY <1>0, <1>1 DEF PersTypes
    <2> QED
      BY ONLY PersInv, <1>1, <1>2, <2>2, <2>3, <2>4, QuietInv
  <1>3. CASE stream' = [stream EXCEPT ![k] = << >>] /\ responses' = [responses EXCEPT ![k] = << >>]
    <2>1. /\ up' \in [Conns -> {"none", "open", "shut", "closed"}] /\ (\A l \in Conns : l > made => up'[l] = "none")
          /\ up'[k] = "closed" /\ \A l \in Conns : l # k => up'[l] = up[l]
      BY ONLY <1>0, <1>1 DEF PersTypes
    <2>2. << >> \in Seq(Calls) /\ (\A s \in Seq(Calls) : << >> \o s = s)
      OBVIOUS
    <2>3. /\ stream' \in [Conns -> Seq(Calls)] /\ responses' \in [Conns -> Seq(Calls)]
          /\ stream'[k] = << >> /\ responses'[k] = << >>
          /\ \A l \in Conns : l # k => stream'[l] = stream[l] /\ responses'[l] = responses[l]
      BY ONLY <1>0, <1>3, <2>2 DEF PersTypes
    <2>4. PersTypes'
      BY ONLY <1>0, <1>1, <2>1, <2>3 DEF PersTypes
    <2>5. WaitInv' /\ Line' = Line
      BY ONLY <1>0, <1>1 DEF WaitInv, Line
    <2>6. /\ DOMAIN stream' = Conns /\ DOMAIN stream = Conns /\ Members(<< >>) = {} /\ Inj(<< >>)
      BY <1>0, <2>3 DEF PersTypes, Members, Inj
    <2>7. /\ Separate(stream') /\ AllOf(stream') \subseteq AllOf(stream)
          /\ \A c \in Members(stream[k]) : c \notin AllOf(stream')
      <3>1. Separate(stream) /\ \A l \in Conns : l # k => Members(stream[k]) \cap Members(stream[l]) = {}
        BY ONLY <1>0, <2>6 DEF PlaceInv, Separate
      <3>2. Separate(stream')
        BY ONLY <3>1, <2>3, <2>6 DEF Separate
      <3>3. AllOf(stream') \subseteq AllOf(stream) /\ \A c \in Members(stream[k]) : c \notin AllOf(stream')
        BY ONLY <3>1, <2>3, <2>6 DEF AllOf
      <3> QED
        BY <3>2, <3>3
    <2>8. PlaceInv'
      BY ONLY <1>0, <1>1, <2>5, <2>7 DEF PlaceInv
    <2>9. ASSUME NEW l \in Conns PROVE WireInv(l)'
      <3>1. CASE l = k
        BY ONLY <3>1, <1>0, <1>1, <2>1, <2>2, <2>3, <2>6 DEF WireInv, PersTypes
      <3>2. CASE l # k
        <4>1. WireInv(l) /\ expecting'[l] = expecting[l] /\ responses'[l] = responses[l] /\ stream'[l] = stream[l]
              /\ up'[l] = up[l]
          BY ONLY <3>2, <1>0, <1>1, <2>1, <2>3
        <4> QED
          BY ONLY <4>1, <1>1, SameWire
      <3> QED
        BY <3>1, <3>2
    <2>10. /\ Future' \subseteq Future
           /\ \A c \in Members(stream[k]) : c \notin Future'
      <3>1. \A l \in serving..MaxConns : l \in Conns
        BY ONLY <1>0, PersBounds DEF PersTypes
      <3>2. \A l \in Conns : Members(stream'[l]) \subseteq AllOf(stream')
            /\ Members(stream'[l]) \subseteq Members(stream[l])
        BY <2>3, <2>6, InCalls DEF AllOf
      <3>3. \A c \in Members(stream[k]) : c \notin AllOf(Line)
        BY <1>0, OnLine DEF PlaceInv
      <3> QED
        BY ONLY <3>1, <3>2, <3>3, <2>5, <2>7, <1>1 DEF Future, FutureOf
    <2>11. OrderInv'
      BY ONLY PersInv, <1>1, <2>3, <2>6, <2>10, OrderKept
    <2> QED
      BY ONLY <2>4, <2>5, <2>8, <2>9, <2>11 DEF PersInv
  <1> QED
    BY <1>2, <1>3 DEF Pers!Break

\* Where the requests of a connection that the server may still read are.
LEMMA ServedFuture ==
    ASSUME NEW L, NEW s \in [Conns -> Seq(Calls)], NEW v \in Conns, NEW c
    PROVE  /\ c \in FutureOf(L, s, v) <=> c \in AllOf(L) \/ \E l \in Conns : l >= v /\ c \in Members(s[l])
           /\ c \in FutureOf(L, s, v) => c \in AllOf(L) \/ c \in AllOf(s)
  <1>1. \A l : l \in v..MaxConns <=> l \in Conns /\ l >= v
    BY PersBounds
  <1>2. c \in FutureOf(L, s, v) <=> c \in AllOf(L) \/ \E l \in Conns : l >= v /\ c \in Members(s[l])
    BY <1>1 DEF FutureOf
  <1>3. \A l \in Conns : Members(s[l]) \subseteq AllOf(s)
    BY InCalls DEF AllOf
  <1> QED
    BY <1>2, <1>3

\* The server performs a syscall.
LEMMA PersPerform ==
    ASSUME PersInv, Pers!Perform
    PROVE  PersInv'
  <1>0. PersTypes /\ WaitInv /\ PlaceInv /\ (\A l \in Conns : WireInv(l)) /\ OrderInv
    BY DEF PersInv
  <1> DEFINE k == serving  x == Head(stream[serving])
  <1>1. k \in Conns /\ k >= serving /\ k \in Nat
    BY <1>0, PersBounds DEF PersTypes
  <1>2. /\ stream[k] \in Seq(Calls) /\ responses[k] \in Seq(Calls) /\ expecting[k] \in Seq(Calls)
        /\ stream[k] # << >> /\ setting = 0 /\ performed \in Seq(Calls)
    BY <1>0, <1>1 DEF PersTypes, Pers!Perform
  <1>3. /\ x \in Calls /\ Tail(stream[k]) \in Seq(Calls) /\ Members(stream[k]) = {x} \cup Members(Tail(stream[k]))
        /\ Inj(stream[k]) => \A c, e : Before(stream[k], c, e) => e # x /\ (Before(Tail(stream[k]), c, e) \/ c = x)
    BY ONLY <1>2, HeadMembers
  <1>4. /\ stream' = [stream EXCEPT ![k] = Tail(stream[k])]
        /\ performed' = Append(performed, x)
        /\ \/ up[k] = "closed" /\ server' = "shutdown" /\ responses' = responses
           \/ up[k] # "closed" /\ server' = server /\ responses' = [responses EXCEPT ![k] = Append(responses[k], x)]
    BY DEF Pers!Perform
  <1>5. /\ UNCHANGED <<issued, status, behind, pers_conn, activity_fd_conn, new_conn_cbs, cbs, setting, break_exc,
           break_cb, requests>>
        /\ UNCHANGED <<expecting, up, made, reconnect, backlog, serving>>
    BY DEF Pers!Perform, Pers!callers, Pers!self, Pers!break, Pers!linking, Pers!thread
  <1> HIDE DEF k, x
  <1>6. /\ IsFamily(stream) /\ Separate(stream) /\ DOMAIN stream = Conns /\ Inj(stream[k]) /\ Inj(performed)
    BY ONLY <1>0, <1>1 DEF PersTypes, PlaceInv, IsFamily, Separate
  <1>7. /\ stream' \in [Conns -> Seq(Calls)] /\ stream'[k] = Tail(stream[k])
        /\ \A l \in Conns : l # k => stream'[l] = stream[l]
    BY ONLY <1>0, <1>1, <1>3, <1>4 DEF PersTypes
  <1>8. /\ Separate(stream') /\ x \notin AllOf(stream') /\ AllOf(stream) = AllOf(stream') \cup {x}
    <2>1. stream' = Cut(stream, k) /\ x = Head(stream[k])
      BY ONLY <1>4 DEF Cut, With, x, k
    <2>2. /\ Separate(Cut(stream, k)) /\ Head(stream[k]) \notin AllOf(Cut(stream, k))
          /\ AllOf(stream) = AllOf(Cut(stream, k)) \cup {Head(stream[k])}
      BY ONLY <1>1, <1>2, <1>6, TailSeparate
    <2> QED
      BY ONLY <2>1, <2>2
  <1>9. /\ status[x] \in {"pending", "hangup"} /\ x \notin Members(performed) /\ x \notin AllOf(Line)
    BY ONLY <1>0, <1>8 DEF PlaceInv
  <1>10. /\ performed' \in Seq(Calls) /\ Members(performed') = Members(performed) \cup {x} /\ Inj(performed')
         /\ \A c, e : Before(performed', c, e) => Before(performed, c, e) \/ (c \in Members(performed) /\ e = x)
    <2>1. performed \in Seq(Calls) /\ x \in Calls /\ Inj(performed) /\ x \notin Members(performed)
      BY ONLY <1>2, <1>3, <1>6, <1>9
    <2>2. /\ Append(performed, x) \in Seq(Calls) /\ Members(Append(performed, x)) = Members(performed) \cup {x}
          /\ Inj(Append(performed, x))
          /\ \A c, e : Before(Append(performed, x), c, e) => Before(performed, c, e)
             \/ (c \in Members(performed) /\ e = x)
      BY ONLY <2>1, AppendMembers
    <2> QED
      BY ONLY <2>2, <1>4
  <1>11. /\ Append(responses[k], x) \in Seq(Calls) /\ Members(Append(responses[k], x)) = Members(responses[k]) \cup {x}
    BY ONLY <1>2, <1>3, AppendMembers
  <1>12. PersTypes'
    <2>1. responses \in [Conns -> Seq(Calls)] /\ server \in {"serve", "shutdown", "accept", "dead"}
      BY ONLY <1>0 DEF PersTypes
    <2>2. ASSUME up[k] = "closed"
          PROVE  responses' \in [Conns -> Seq(Calls)] /\ server' \in {"serve", "shutdown", "accept", "dead"}
      BY ONLY <2>1, <2>2, <1>4
    <2>3. ASSUME up[k] # "closed"
          PROVE  responses' \in [Conns -> Seq(Calls)] /\ server' \in {"serve", "shutdown", "accept", "dead"}
      <3>1. server' = server /\ responses' = [responses EXCEPT ![k] = Append(responses[k], x)]
        BY ONLY <2>3, <1>4
      <3>2. [responses EXCEPT ![k] = Append(responses[k], x)] \in [Conns -> Seq(Calls)]
        BY ONLY <2>1, <1>1, <1>11
      <3> QED
        BY ONLY <2>1, <3>1, <3>2
    <2>4. responses' \in [Conns -> Seq(Calls)] /\ server' \in {"serve", "shutdown", "accept", "dead"}
      BY ONLY <2>1, <2>2, <2>3
    <2> QED
      BY ONLY <1>0, <1>5, <1>7, <1>10, <2>4 DEF PersTypes
  <1>13. WaitInv' /\ Line' = Line
    BY ONLY <1>0, <1>5 DEF WaitInv, Line
  <1>14. PlaceInv'
    <2>1. \A c \in AllOf(Line) : status[c] = "pending" /\ c \notin Members(performed')
      BY ONLY <1>0, <1>9, <1>10 DEF PlaceInv
    <2>2. \A c \in AllOf(stream') :
            status[c] \in {"pending", "hangup"} /\ c \notin Members(performed') /\ c \notin AllOf(Line)
      BY ONLY <1>0, <1>8, <1>10 DEF PlaceInv
    <2>3. \A c \in Members(performed') : status[c] # "unissued"
      BY ONLY <1>0, <1>9, <1>10 DEF PlaceInv
    <2> QED
      BY ONLY <1>0, <1>5, <1>8, <1>10, <1>13, <2>1, <2>2, <2>3 DEF PlaceInv
  <1>15. ASSUME NEW l \in Conns PROVE WireInv(l)'
    <2>0. WireInv(l) /\ Members(performed) \subseteq Members(performed') /\ x \in Members(performed')
      BY ONLY <1>0, <1>10
    <2>1. CASE l # k
      <3>1. stream'[l] = stream[l] /\ responses'[l] = responses[l] /\ expecting'[l] = expecting[l] /\ up'[l] = up[l]
        BY ONLY <2>1, <1>0, <1>4, <1>5, <1>7 DEF PersTypes
      <3> QED
        BY ONLY <3>1, <2>0, SameWire
    <2>2. CASE l = k /\ up[k] = "closed"
      <3>1. responses'[l] = responses[l] /\ expecting'[l] = expecting[l] /\ up'[l] = "closed"
        BY ONLY <2>2, <1>4, <1>5
      <3>2. PICK rest \in Seq(Calls) : expecting[l] = responses[l] \o rest
        BY ONLY <2>0 DEF WireInv
      <3> QED
        BY ONLY <3>1, <3>2, <2>0 DEF WireInv
    <2>3. CASE l = k /\ up[k] # "closed"
      <3>1. responses'[k] = Append(responses[k], x) /\ expecting'[k] = expecting[k] /\ up'[k] = up[k]
        BY ONLY <2>3, <1>0, <1>1, <1>4, <1>5 DEF PersTypes
      <3>2. expecting[k] = responses[k] \o stream[k]
        BY ONLY <2>3, <2>0 DEF WireInv
      <3>3. responses[k] \o stream[k] = Append(responses[k], x) \o Tail(stream[k])
        BY ONLY <1>2, CatShift DEF x, k
      <3>4. Members(responses[k]) \subseteq Members(performed)
        BY ONLY <2>3, <2>0 DEF WireInv
      <3> QED
        BY ONLY <2>3, <3>1, <3>2, <3>3, <3>4, <2>0, <1>3, <1>7, <1>11 DEF WireInv
    <2> QED
      BY <2>1, <2>2, <2>3
  <1>16. x \in Future /\ x \notin Future' /\ Future' \subseteq Future
    <2>1. x \in Future
      <3>1. stream \in [Conns -> Seq(Calls)] /\ serving \in Conns
        BY ONLY <1>0, <1>1 DEF PersTypes, k
      <3> QED
        BY ONLY <3>1, <1>1, <1>3, ServedFuture DEF Future
    <2>2. \A c : c \in Future' => c \in AllOf(Line) \/ c \in AllOf(stream')
      <3>1. stream' \in [Conns -> Seq(Calls)] /\ serving' \in Conns
        BY ONLY <1>1, <1>5, <1>7 DEF k
      <3>2. \A c : c \in FutureOf(Line', stream', serving') => c \in AllOf(Line') \/ c \in AllOf(stream')
        BY ONLY <3>1, ServedFuture
      <3> QED
        BY ONLY <3>2, <1>13 DEF Future
    <2>3. \A l \in Conns : Members(stream'[l]) \subseteq Members(stream[l])
      BY ONLY <1>3, <1>7
    <2>4. \A l \in serving..MaxConns : l \in Conns
      BY ONLY <1>0, PersBounds DEF PersTypes
    <2>5. Future' \subseteq Future
      BY ONLY <2>3, <2>4, <1>5, <1>13 DEF Future, FutureOf
    <2> QED
      BY ONLY <2>1, <2>2, <2>5, <1>8, <1>9
  <1>17. ASSUME NEW e \in Calls, NEW c \in behind'[e] PROVE (c <= issued)' /\ BehindInv(c, e)'
    <2>1. c <= issued /\ BehindInv(c, e) /\ c \in Calls
      BY ONLY <1>0, <1>5, <1>17 DEF OrderInv, PersTypes
    <2>2. ASSUME NEW l \in Conns
          PROVE  /\ e \in Members(requests[l]) => Before(requests[l], c, e) \/ c \in Members(stream'[l])
                    \/ c \notin Future'
                 /\ e \in Members(stream'[l]) => Before(stream'[l], c, e) \/ c \notin Future'
      <3>1. /\ e \in Members(requests[l]) => Before(requests[l], c, e) \/ c \in Members(stream[l]) \/ c \notin Future
            /\ e \in Members(stream[l]) => Before(stream[l], c, e) \/ c \notin Future
        BY ONLY <2>1 DEF BehindInv
      <3>2. CASE l # k
        BY ONLY <3>1, <3>2, <1>7, <1>16
      <3>3. CASE l = k
        BY ONLY <3>1, <3>3, <1>3, <1>6, <1>7, <1>16
      <3> QED
        BY ONLY <3>2, <3>3
    <2>3. ASSUME e \in Members(performed') PROVE c \notin Future' /\ ~Before(performed', e, c)
      <3>1. CASE e \in Members(performed)
        <4>1. c \notin Future /\ ~Before(performed, e, c)
          BY ONLY <3>1, <2>1 DEF BehindInv
        <4> QED
          BY ONLY <4>1, <1>10, <1>16
      <3>2. CASE e = x
        <4>1. c \notin Future
          <5>1. e \in Members(stream[k]) => Before(stream[k], c, e) \/ c \notin Future
            BY ONLY <2>1, <1>1 DEF BehindInv
          <5> QED
            BY ONLY <5>1, <3>2, <1>3, <1>6
        <4>2. ~Before(performed, e, c)
          BY ONLY <3>2, <1>2, <1>9, BeforeOrder
        <4> QED
          BY ONLY <4>1, <4>2, <3>2, <1>9, <1>10, <1>16
      <3> QED
        BY ONLY <3>1, <3>2, <2>3, <1>10
    <2> QED
      BY ONLY <2>1, <2>2, <2>3, <1>5 DEF BehindInv
  <1> QED
    BY ONLY <1>12, <1>13, <1>14, <1>15, <1>17 DEF PersInv, OrderInv

\* A batch is written.
LEMMA PersWrite ==
    ASSUME PersInv, NEW k \in Conns, NEW n \in Calls, Pers!Write(k, n)
    PROVE  PersInv'
  <1>0. PersTypes /\ WaitInv /\ PlaceInv /\ (\A l \in Conns : WireInv(l)) /\ OrderInv
    BY DEF PersInv
  <1>1. PICK P, R : P = Prefix(requests[k], n) /\ R = Drop(requests[k], n)
    OBVIOUS
  <1>2. /\ stream[k] \in Seq(Calls) /\ responses[k] \in Seq(Calls) /\ expecting[k] \in Seq(Calls)
        /\ requests[k] \in Seq(Calls) /\ n \in 0..Len(requests[k]) /\ setting = 0 /\ up[k] = "open"
    <2>1. requests[k] \in Seq(Calls) /\ n \in 1..Len(requests[k])
      BY ONLY <1>0, Pers!Write(k, n) DEF PersTypes, Pers!Write
    <2>2. n \in 0..Len(requests[k])
      BY ONLY <2>1
    <2> QED
      BY ONLY <2>1, <2>2, <1>0, Pers!Write(k, n) DEF PersTypes, Pers!Write
  <1>3. /\ requests' = [requests EXCEPT ![k] = R]
        /\ stream' = [stream EXCEPT ![k] = stream[k] \o P]
        /\ expecting' = [expecting EXCEPT ![k] = expecting[k] \o P]
    BY <1>1 DEF Pers!Write, Pers!Prefix, Pers!Drop, Prefix, Drop
  <1>4. /\ UNCHANGED <<issued, status, behind, pers_conn, activity_fd_conn, new_conn_cbs, cbs, setting, break_exc,
           break_cb>>
        /\ UNCHANGED <<responses, up, made, reconnect, backlog, server, serving, performed>>
    BY DEF Pers!Write, Pers!callers, Pers!self, Pers!break, Pers!linking, Pers!thread
  <1>5. /\ IsFamily(Line) /\ Separate(Line) /\ k \in DOMAIN Line /\ Line[k] = requests[k] /\ k \in Lines
        /\ DOMAIN Line = Lines
    BY ONLY <1>0, LineFacts DEF PlaceInv
  <1>6. /\ Line' = Take(Line, k, n)
    <2>1. \A l \in Conns : requests'[l] = IF l = k THEN R ELSE requests[l]
      BY ONLY <1>0, <1>3 DEF PersTypes
    <2>2. k # 0
      BY ONLY PersBounds
    <2>3. Line' = [Line EXCEPT ![k] = R]
      BY ONLY <2>1, <2>2, <1>4, <1>5 DEF Line
    <2> QED
      BY ONLY <2>3, <1>1, <1>5 DEF Take, With
  <1>7. /\ Separate(Line') /\ P \in Seq(Calls) /\ Inj(P) /\ AllOf(Line) = AllOf(Line') \cup Members(P)
        /\ AllOf(Line') \cap Members(P) = {}
    BY ONLY <1>1, <1>2, <1>5, <1>6, TakeSeparate
  <1>8. /\ R \in Seq(Calls) /\ Members(requests[k]) = Members(P) \cup Members(R)
        /\ \A c, e : Before(requests[k], c, e) =>
             /\ e \in Members(R) => Before(R, c, e) \/ c \in Members(P)
             /\ e \in Members(P) => Before(P, c, e)
    <2>1. Inj(requests[k])
      BY ONLY <1>5 DEF Separate
    <2>2. R \in Seq(Calls)
      BY ONLY <1>1, <1>2, Parts
    <2> QED
      BY ONLY <2>1, <2>2, <1>1, <1>2, PartsMembers
  <1>9. /\ IsFamily(stream) /\ Separate(stream) /\ DOMAIN stream = Conns
        /\ IsFamily(expecting) /\ Separate(expecting) /\ DOMAIN expecting = Conns
        /\ AllOf(stream) \cap Members(P) = {} /\ AllOf(expecting) \cap Members(P) = {}
    BY ONLY <1>0, <1>7 DEF PersTypes, PlaceInv, IsFamily
  <1>10. Separate(stream') /\ AllOf(stream') = AllOf(stream) \cup Members(P)
    <2>1. stream' = Put(stream, k, P)
      BY ONLY <1>3 DEF Put, With
    <2> QED
      BY ONLY <2>1, <1>7, <1>9, PutSeparate
  <1>11. Separate(expecting') /\ AllOf(expecting') = AllOf(expecting) \cup Members(P)
    <2>1. expecting' = Put(expecting, k, P)
      BY ONLY <1>3 DEF Put, With
    <2> QED
      BY ONLY <2>1, <1>7, <1>9, PutSeparate
  <1>12. /\ stream[k] \o P \in Seq(Calls) /\ expecting[k] \o P \in Seq(Calls)
         /\ Members(stream[k] \o P) = Members(stream[k]) \cup Members(P)
         /\ \A c, e : /\ Before(stream[k], c, e) => Before(stream[k] \o P, c, e)
                      /\ Before(P, c, e) => Before(stream[k] \o P, c, e)
                      /\ c \in Members(stream[k]) /\ e \in Members(P) => Before(stream[k] \o P, c, e)
    BY ONLY <1>2, <1>7, CatMembers
  <1>13. /\ requests' \in [Conns -> Seq(Calls)] /\ stream' \in [Conns -> Seq(Calls)]
            /\ expecting' \in [Conns -> Seq(Calls)]
         /\ requests'[k] = R /\ stream'[k] = stream[k] \o P /\ expecting'[k] = expecting[k] \o P
         /\ \A l \in Conns : l # k => requests'[l] = requests[l] /\ stream'[l] = stream[l]
            /\ expecting'[l] = expecting[l]
    BY ONLY <1>0, <1>3, <1>8, <1>12 DEF PersTypes
  <1>14. PersTypes' /\ WaitInv'
    BY ONLY <1>0, <1>4, <1>13 DEF PersTypes, WaitInv
  <1>15. PlaceInv'
    <2>1. \A c \in AllOf(Line') : status[c] = "pending" /\ c \notin Members(performed)
      BY ONLY <1>0, <1>7 DEF PlaceInv
    <2>2. \A c \in AllOf(expecting') : status[c] = "pending" /\ c \notin AllOf(Line')
      BY ONLY <1>0, <1>7, <1>11 DEF PlaceInv
    <2>3. \A c \in AllOf(stream') :
            status[c] \in {"pending", "hangup"} /\ c \notin Members(performed) /\ c \notin AllOf(Line')
      BY ONLY <1>0, <1>7, <1>10 DEF PlaceInv
    <2> QED
      BY ONLY <1>0, <1>4, <1>7, <1>10, <1>11, <2>1, <2>2, <2>3 DEF PlaceInv
  <1>16. ASSUME NEW l \in Conns PROVE WireInv(l)'
    <2>1. CASE l # k
      <3>1. /\ stream'[l] = stream[l] /\ responses'[l] = responses[l] /\ expecting'[l] = expecting[l] /\ up'[l] = up[l]
            /\ WireInv(l)
        BY ONLY <2>1, <1>0, <1>4, <1>13
      <3>2. Members(performed) \subseteq Members(performed')
        BY ONLY <1>4
      <3> QED
        BY ONLY <3>1, <3>2 DEF WireInv
    <2>2. CASE l = k
      <3>1. expecting[k] = responses[k] \o stream[k] /\ Members(responses[k]) \subseteq Members(performed)
        BY ONLY <1>0, <1>2 DEF WireInv
      <3>2. (responses[k] \o stream[k]) \o P = responses[k] \o (stream[k] \o P)
        <4> DEFINE u == responses[k]
                   v == stream[k]
        <4>1. u \in Seq(Calls) /\ v \in Seq(Calls) /\ P \in Seq(Calls)
          BY ONLY <1>2, <1>7
        <4> HIDE DEF u, v
        <4>2. (u \o v) \o P = u \o (v \o P)
          BY ONLY <4>1, CatAssoc
        <4> QED
          BY ONLY <4>2 DEF u, v
      <3> QED
        <4>1. responses'[k] = responses[k] /\ performed' = performed /\ stream[k] \o P \in Seq(Calls)
          BY ONLY <1>4, <1>12
        <4>2. expecting'[k] = responses'[k] \o stream'[k] /\ stream'[k] \in Seq(Calls)
          BY ONLY <1>13, <3>1, <3>2, <4>1
        <4>3. Members(responses'[k]) \subseteq Members(performed')
          BY ONLY <3>1, <4>1
        <4>4. WireInv(k)'
          BY ONLY <4>2, <4>3 DEF WireInv
        <4> QED
          BY ONLY <2>2, <4>4
    <2> QED
      BY ONLY <2>1, <2>2
  <1>17. Future' \subseteq Future
    <2>1. \A c : c \in Future <=> c \in AllOf(Line) \/ \E l \in Conns : l >= serving /\ c \in Members(stream[l])
      <3>1. stream \in [Conns -> Seq(Calls)] /\ serving \in Conns
        BY ONLY <1>0, PersBounds DEF PersTypes
      <3> QED
        BY ONLY <3>1, ServedFuture DEF Future
    <2>2. \A c : c \in Future' <=> c \in AllOf(Line') \/ \E l \in Conns : l >= serving /\ c \in Members(stream'[l])
      <3>1. stream' \in [Conns -> Seq(Calls)] /\ serving' = serving /\ serving \in Conns
        <4>1. serving \in Conns
          BY ONLY <1>0, PersBounds DEF PersTypes
        <4> QED
          BY ONLY <4>1, <1>4, <1>13
      <3>2. \A c : c \in FutureOf(Line', stream', serving) <=> c \in AllOf(Line') \/ \E l \in Conns : l >= serving
            /\ c \in Members(stream'[l])
        BY ONLY <3>1, ServedFuture
      <3> QED
        BY ONLY <3>1, <3>2 DEF Future
    <2>3. \A l \in Conns : \A c : c \in Members(stream'[l]) => c \in Members(stream[l]) \/ c \in Members(P)
      BY ONLY <1>12, <1>13
    <2> QED
      BY ONLY <2>1, <2>2, <2>3, <1>7
  <1>18. ASSUME NEW e \in Calls, NEW c \in behind'[e] PROVE (c <= issued)' /\ BehindInv(c, e)'
    <2>1. c <= issued /\ BehindInv(c, e) /\ c \in Calls
      BY ONLY <1>0, <1>4, <1>18 DEF OrderInv, PersTypes
    <2>2. ASSUME NEW l \in Conns
          PROVE  /\ e \in Members(requests'[l]) => Before(requests'[l], c, e) \/ c \in Members(stream'[l])
                    \/ c \notin Future'
                 /\ e \in Members(stream'[l]) => Before(stream'[l], c, e) \/ c \notin Future'
      <3>1. /\ e \in Members(requests[l]) => Before(requests[l], c, e) \/ c \in Members(stream[l]) \/ c \notin Future
            /\ e \in Members(stream[l]) => Before(stream[l], c, e) \/ c \notin Future
        BY ONLY <2>1 DEF BehindInv
      <3>2. CASE l # k
        BY ONLY <3>1, <3>2, <1>13, <1>17
      <3>3. CASE l = k
        <4>1. e \in Members(R) => Before(R, c, e) \/ c \in Members(stream[k] \o P) \/ c \notin Future'
          BY ONLY <3>1, <3>3, <1>8, <1>12, <1>17
        <4>2. e \in Members(stream[k] \o P) => Before(stream[k] \o P, c, e) \/ c \notin Future'
          BY ONLY <3>1, <3>3, <1>8, <1>12, <1>17
        <4> QED
          BY ONLY <4>1, <4>2, <3>3, <1>13
      <3> QED
        BY ONLY <3>2, <3>3
    <2>3. /\ e \in Members(performed) => c \notin Future' /\ ~Before(performed, e, c)
          /\ e \in Members(new_conn_cbs) => Before(new_conn_cbs, c, e) \/ c \in Members(cbs)
          /\ e \notin Members(cbs)
      BY ONLY <2>1, <1>0, <1>2, <1>17, NoMembers DEF BehindInv, WaitInv
    <2> QED
      BY ONLY <2>1, <2>2, <2>3, <1>4 DEF BehindInv
  <1> QED
    BY ONLY <1>14, <1>15, <1>16, <1>18 DEF PersInv, OrderInv

\* The next of those who wait is resumed, and makes its syscall on the new connection.
LEMMA PersResumeNext ==
    ASSUME PersInv, Pers!ResumeNext
    PROVE  PersInv'
  <1>0. PersTypes /\ WaitInv /\ PlaceInv /\ (\A l \in Conns : WireInv(l)) /\ OrderInv
    BY DEF PersInv
  <1>1. PICK list, x, rest : /\ list = IF cbs = << >> THEN new_conn_cbs ELSE cbs
                             /\ x = Head(list) /\ rest = Tail(list)
    OBVIOUS
  <1>2. /\ list \in Seq(Calls) /\ list # << >> /\ setting \in Conns /\ setting # 0
        /\ requests[setting] \in Seq(Calls)
    <2>1. list # << >> /\ setting # 0
      BY ONLY <1>1, Pers!ResumeNext DEF Pers!ResumeNext
    <2>2. setting \in Conns
      BY ONLY <2>1, <1>0 DEF PersTypes
    <2> QED
      BY ONLY <1>0, <1>1, <2>1, <2>2 DEF PersTypes
  <1>3. /\ cbs' = rest
        /\ new_conn_cbs' = IF cbs = << >> THEN << >> ELSE new_conn_cbs
        /\ requests' = [requests EXCEPT ![setting] = Append(requests[setting], x)]
    BY ONLY <1>1, Pers!ResumeNext DEF Pers!ResumeNext
  <1>4. /\ UNCHANGED <<issued, status, behind, pers_conn, activity_fd_conn, setting, break_exc, break_cb>>
        /\ UNCHANGED <<stream, responses, expecting, up, made, reconnect, backlog, server, serving, performed>>
    BY DEF Pers!ResumeNext, Pers!callers, Pers!break, Pers!linking, Pers!thread
  <1>5. /\ x \in Calls /\ rest \in Seq(Calls) /\ Members(list) = {x} \cup Members(rest)
        /\ Inj(list) => \A c, e : Before(list, c, e) => e # x /\ (Before(rest, c, e) \/ c = x)
    BY ONLY <1>1, <1>2, HeadMembers
  <1>6. PICK q : q = Append(requests[setting], x)
    OBVIOUS
  <1>7. /\ q \in Seq(Calls) /\ q = requests[setting] \o <<x>> /\ Members(q) = Members(requests[setting]) \cup {x}
        /\ \A c, e : /\ Before(requests[setting], c, e) => Before(q, c, e)
                     /\ c \in Members(requests[setting]) => Before(q, c, x)
    <2>1. PICK r : r = requests[setting]
      OBVIOUS
    <2>2. r \in Seq(Calls) /\ x \in Calls
      BY ONLY <2>1, <1>2, <1>5
    <2>3. /\ Append(r, x) = r \o <<x>> /\ Append(r, x) \in Seq(Calls) /\ Members(Append(r, x)) = Members(r) \cup {x}
          /\ \A c, e : /\ Before(r, c, e) => Before(Append(r, x), c, e)
                       /\ c \in Members(r) => Before(Append(r, x), c, x)
      BY ONLY <2>2, AppendMembers
    <2> QED
      BY ONLY <2>1, <2>3, <1>6
  <1>8. /\ requests' \in [Conns -> Seq(Calls)] /\ requests'[setting] = q
        /\ \A l \in Conns : l # setting => requests'[l] = requests[l]
    BY ONLY <1>0, <1>2, <1>3, <1>6, <1>7 DEF PersTypes
  <1>9. /\ new_conn_cbs' \in Seq(Calls) /\ cbs' \in Seq(Calls)
    <2>1. << >> \in Seq(Calls)
      OBVIOUS
    <2> QED
      BY ONLY <2>1, <1>0, <1>3, <1>5 DEF PersTypes
  <1>10. PersTypes'
    BY ONLY <1>0, <1>4, <1>8, <1>9 DEF PersTypes
  <1>11. WaitInv'
    <2>1. pers_conn = 0 \/ (new_conn_cbs = << >> /\ cbs = << >>)
      BY ONLY <1>0 DEF WaitInv
    <2>2. pers_conn = 0
      BY ONLY <2>1, <1>1, <1>2
    <2> QED
      BY ONLY <2>2, <1>2, <1>4 DEF WaitInv
  <1>12. PICK z : z = MaxConns + 1
    OBVIOUS
  <1>13. /\ IsFamily(Line) /\ Separate(Line) /\ DOMAIN Line = Lines /\ 0 \in Lines /\ z \in Lines /\ z # 0
         /\ Line[0] = new_conn_cbs /\ Line[z] = cbs /\ setting \in Lines /\ Line[setting] = requests[setting]
         /\ setting # z /\ (\A l \in Conns : l # 0 /\ l # z /\ l \in Lines /\ Line[l] = requests[l])
         /\ (\A i \in Lines : i = 0 \/ i = z \/ i \in Conns)
    <2>1. z # 0
      BY ONLY <1>12, PersBounds
    <2> QED
      BY ONLY <2>1, <1>0, <1>2, <1>12, LineFacts DEF PlaceInv
  <1>14. /\ IsFamily(Line') /\ DOMAIN Line' = Lines /\ Line'[0] = new_conn_cbs' /\ Line'[z] = rest
         /\ \A l \in Conns : Line'[l] = requests'[l]
    <2>1. \A l \in Conns : l # 0 /\ l # MaxConns + 1
      BY ONLY PersBounds
    <2>2. /\ DOMAIN Line' = Lines /\ Line'[0] = new_conn_cbs' /\ Line'[z] = rest
          /\ \A l \in Conns : Line'[l] = requests'[l]
      BY ONLY <1>3, <1>12, <1>13, <2>1 DEF Line
    <2>3. \A i \in Lines : Line'[i] \in Seq(Calls)
      BY ONLY <1>5, <1>8, <1>9, <1>13, <2>2
    <2>4. Line' = [i \in Lines |-> Line'[i]]
      BY ONLY <2>2 DEF Line
    <2> QED
      BY ONLY <2>2, <2>3, <2>4 DEF IsFamily
  \* the waiters become those of the loop, if there are none in it
  <1>15. PICK M : /\ IsFamily(M) /\ Separate(M) /\ DOMAIN M = Lines /\ AllOf(M) = AllOf(Line) /\ M[z] = list
                  /\ M[0] = new_conn_cbs' /\ \A l \in Conns : M[l] = requests[l]
    <2>1. CASE cbs # << >>
      <3>1. list = cbs /\ new_conn_cbs' = new_conn_cbs
        BY ONLY <2>1, <1>1, <1>3
      <3> QED
        BY ONLY <3>1, <1>13
    <2>2. CASE cbs = << >>
      <3>1. list = new_conn_cbs /\ new_conn_cbs' = << >>
        BY ONLY <2>2, <1>1, <1>3
      <3>2. PICK n : n = Len(list)
        OBVIOUS
      <3>3. n \in 0..Len(list) /\ Prefix(list, n) = list /\ Drop(list, n) = << >>
        BY ONLY <1>2, <3>2, WholeParts
      <3>4. PICK T : T = Take(Line, 0, n)
        OBVIOUS
      <3>5. /\ IsFamily(T) /\ Separate(T) /\ DOMAIN T = Lines /\ T[0] = << >>
               /\ (\A j \in Lines : j # 0 => T[j] = Line[j])
            /\ Inj(list) /\ AllOf(Line) = AllOf(T) \cup Members(list) /\ AllOf(T) \cap Members(list) = {}
        <4>1. 0 \in DOMAIN Line /\ n \in 0..Len(Line[0]) /\ Line[0] = list
          BY ONLY <1>13, <3>1, <3>3
        <4>2. /\ IsFamily(T) /\ Separate(T) /\ DOMAIN T = DOMAIN Line /\ T[0] = Drop(Line[0], n)
              /\ (\A j \in DOMAIN Line : j # 0 => T[j] = Line[j])
              /\ Inj(Prefix(Line[0], n)) /\ AllOf(Line) = AllOf(T) \cup Members(Prefix(Line[0], n))
              /\ AllOf(T) \cap Members(Prefix(Line[0], n)) = {}
          BY ONLY <4>1, <3>4, IsFamily(Line), Separate(Line), <1>13, TakeSeparate
        <4> QED
          BY ONLY <4>1, <4>2, <3>3, <1>13
      <3>6. PICK W : W = Put(T, z, list)
        OBVIOUS
      <3>7. /\ IsFamily(W) /\ Separate(W) /\ DOMAIN W = Lines /\ W[z] = T[z] \o list
               /\ (\A j \in Lines : j # z => W[j] = T[j])
            /\ AllOf(W) = AllOf(T) \cup Members(list)
        <4>1. z \in DOMAIN T
          BY ONLY <3>5, <1>13
        <4> QED
          BY ONLY <4>1, <3>5, <3>6, <1>2, PutSeparate
      <3>8. T[z] = << >> /\ << >> \o list = list
        BY ONLY <3>5, <2>2, <1>2, <1>13
      <3> QED
        BY ONLY <3>1, <3>5, <3>7, <3>8, <1>13
    <2> QED
      BY ONLY <2>1, <2>2
  <1>16. /\ Separate(Line') /\ AllOf(Line') = AllOf(Line) /\ Inj(list)
    <2>1. PICK T : T = Cut(M, z)
      OBVIOUS
    <2>2. /\ IsFamily(T) /\ DOMAIN T = Lines /\ T[z] = rest /\ (\A j \in Lines : j # z => T[j] = M[j])
          /\ Separate(T) /\ x \notin AllOf(T) /\ AllOf(M) = AllOf(T) \cup {x}
      <3>1. z \in DOMAIN M /\ M[z] # << >> /\ Head(M[z]) = x /\ Tail(M[z]) = rest
        BY ONLY <1>1, <1>2, <1>13, <1>15
      <3>2. /\ IsFamily(T) /\ DOMAIN T = DOMAIN M /\ T[z] = Tail(M[z]) /\ (\A j \in DOMAIN M : j # z => T[j] = M[j])
            /\ Separate(T) /\ Head(M[z]) \notin AllOf(T) /\ AllOf(M) = AllOf(T) \cup {Head(M[z])}
        BY ONLY <3>1, <2>1, <1>15, TailSeparate
      <3> QED
        BY ONLY <3>1, <3>2, <1>15
    <2>3. PICK t : t = <<x>>
      OBVIOUS
    <2>4. t \in Seq(Calls) /\ Inj(t) /\ Members(t) = {x}
      BY ONLY <2>3, <1>5 DEF Members, Inj
    <2>5. PICK W : W = Put(T, setting, t)
      OBVIOUS
    <2>6. /\ IsFamily(W) /\ DOMAIN W = Lines /\ Separate(W) /\ W[setting] = T[setting] \o t
          /\ (\A j \in Lines : j # setting => W[j] = T[j]) /\ AllOf(W) = AllOf(T) \cup {x}
      <3>1. setting \in DOMAIN T /\ AllOf(T) \cap Members(t) = {}
        BY ONLY <2>2, <2>4, <1>13
      <3>2. /\ IsFamily(W) /\ DOMAIN W = DOMAIN T /\ Separate(W) /\ W[setting] = T[setting] \o t
            /\ (\A j \in DOMAIN T : j # setting => W[j] = T[j]) /\ AllOf(W) = AllOf(T) \cup Members(t)
        BY ONLY <3>1, <2>2, <2>4, <2>5, PutSeparate
      <3> QED
        BY ONLY <3>2, <2>2, <2>4
    <2>7. \A j \in Lines : W[j] = Line'[j]
      <3>1. W[0] = Line'[0]
        BY ONLY <2>2, <2>6, <1>2, <1>13, <1>14, <1>15
      <3>2. W[z] = Line'[z]
        BY ONLY <2>2, <2>6, <1>2, <1>13, <1>14, <1>15
      <3>3. W[setting] = Line'[setting]
        BY ONLY <2>2, <2>3, <2>6, <1>2, <1>7, <1>8, <1>13, <1>14, <1>15
      <3>4. \A l \in Conns : l # setting => W[l] = Line'[l]
        BY ONLY <2>2, <2>6, <1>8, <1>13, <1>14, <1>15
      <3> QED
        BY ONLY <3>1, <3>2, <3>3, <3>4, <1>13
    <2>8. W = Line'
      <3>1. W = [i \in Lines |-> W[i]] /\ Line' = [i \in Lines |-> Line'[i]]
        BY ONLY <2>6, <1>14 DEF IsFamily
      <3> QED
        BY ONLY <3>1, <2>7
    <2>9. Inj(list)
      BY ONLY <1>13, <1>15 DEF Separate
    <2> QED
      BY ONLY <2>2, <2>6, <2>8, <2>9, <1>15
  <1>17. PlaceInv'
    BY ONLY <1>0, <1>4, <1>16 DEF PlaceInv
  <1>18. \A l \in Conns : WireInv(l)'
    <2>1. ASSUME NEW l \in Conns PROVE WireInv(l)'
      BY ONLY <1>0, <1>4, SameWire
    <2> QED
      BY ONLY <2>1
  <1>19. Future' = Future
    BY ONLY <1>4, <1>16 DEF Future, FutureOf
  <1>20. ASSUME NEW e \in Calls, NEW c \in behind'[e] PROVE (c <= issued)' /\ BehindInv(c, e)'
    <2>1. c <= issued /\ BehindInv(c, e) /\ c \in Calls
      BY ONLY <1>0, <1>4, <1>20 DEF OrderInv, PersTypes
    <2>2. e \in Members(list) => Before(list, c, e) \/ c \in Members(requests[setting])
      <3>1. CASE cbs = << >>
        <4>1. e \in Members(new_conn_cbs) => Before(new_conn_cbs, c, e) \/ c \in Members(cbs)
              \/ c \in Members(requests[setting])
          BY ONLY <2>1 DEF BehindInv
        <4> QED
          BY ONLY <3>1, <4>1, <1>1, NoMembers
      <3>2. CASE cbs # << >>
        <4>1. e \in Members(cbs) => Before(cbs, c, e) \/ c \in Members(requests[setting])
          BY ONLY <2>1 DEF BehindInv
        <4> QED
          BY ONLY <3>2, <4>1, <1>1
      <3> QED
        BY ONLY <3>1, <3>2
    <2>3. e \in Members(new_conn_cbs') => Before(new_conn_cbs', c, e) \/ c \in Members(rest) \/ c \in Members(q)
      <3>1. CASE cbs = << >>
        BY ONLY <3>1, <1>3, NoMembers
      <3>2. CASE cbs # << >>
        <4>1. e \in Members(new_conn_cbs) => Before(new_conn_cbs, c, e) \/ c \in Members(cbs)
              \/ c \in Members(requests[setting])
          BY ONLY <2>1 DEF BehindInv
        <4> QED
          BY ONLY <3>2, <4>1, <1>1, <1>3, <1>5, <1>7
      <3> QED
        BY ONLY <3>1, <3>2
    <2>4. e \in Members(rest) => Before(rest, c, e) \/ c \in Members(q)
      BY ONLY <2>2, <1>5, <1>7, <1>16
    <2>5. ASSUME NEW l \in Conns
          PROVE  /\ e \in Members(requests'[l]) => Before(requests'[l], c, e) \/ c \in Members(stream[l])
                    \/ c \notin Future
                 /\ e \in Members(stream[l]) => Before(stream[l], c, e) \/ c \notin Future
      <3>1. /\ e \in Members(requests[l]) => Before(requests[l], c, e) \/ c \in Members(stream[l]) \/ c \notin Future
            /\ e \in Members(stream[l]) => Before(stream[l], c, e) \/ c \notin Future
        BY ONLY <2>1 DEF BehindInv
      <3>2. CASE l # setting
        BY ONLY <3>1, <3>2, <1>8
      <3>3. CASE l = setting
        <4>1. e = x => c \in Members(requests[setting])
          BY ONLY <2>2, <1>5, <1>16
        <4> QED
          BY ONLY <4>1, <3>1, <3>3, <1>7, <1>8
      <3> QED
        BY ONLY <3>2, <3>3
    <2>6. e \in Members(performed) => c \notin Future /\ ~Before(performed, e, c)
      BY ONLY <2>1 DEF BehindInv
    <2> QED
      BY ONLY <2>1, <2>3, <2>4, <2>5, <2>6, <1>2, <1>3, <1>4, <1>8, <1>19 DEF BehindInv
  <1> QED
    BY ONLY <1>10, <1>11, <1>17, <1>18, <1>20 DEF PersInv, OrderInv

\* A batch cannot be written: its callers make their syscalls again, on the current
\* connection if there is another, or wait for one.
LEMMA PersSendError ==
    ASSUME PersInv, NEW k \in Conns, NEW n \in Calls, Pers!SendError(k, n)
    PROVE  PersInv'
  <1>0. PersTypes /\ WaitInv /\ PlaceInv /\ (\A l \in Conns : WireInv(l)) /\ OrderInv
    BY DEF PersInv
  <1>1. PICK P, R, to : /\ P = Prefix(requests[k], n) /\ R = Drop(requests[k], n)
                        /\ to = IF pers_conn = k THEN 0 ELSE pers_conn
    OBVIOUS
  <1>2. /\ requests[k] \in Seq(Calls) /\ n \in 0..Len(requests[k]) /\ setting = 0 /\ n \in Nat
        /\ cbs = << >> /\ activity_fd_conn = pers_conn
    <2>1. requests[k] \in Seq(Calls) /\ n \in 1..Len(requests[k]) /\ setting = 0
      BY ONLY <1>0, Pers!SendError(k, n) DEF PersTypes, Pers!SendError
    <2>2. n \in 0..Len(requests[k]) /\ n \in Nat
      BY ONLY <2>1
    <2> QED
      BY ONLY <2>1, <2>2, <1>0 DEF PersTypes, WaitInv
  <1>3. /\ pers_conn' = to /\ activity_fd_conn' = to
        /\ behind' = [c \in Calls |->
             IF c \in Members(P)
             THEN (Members(new_conn_cbs) \cup Members(cbs)) \cup {P[j] : j \in {i \in 1..n : \E m \in (i + 1)..n : P[m] = c}}
             ELSE behind[c] \ Members(P)]
        /\ to = 0 => new_conn_cbs' = new_conn_cbs \o P /\ requests' = [requests EXCEPT ![k] = R]
        /\ to # 0 => /\ new_conn_cbs' = new_conn_cbs
                     /\ requests' = [[requests EXCEPT ![k] = R] EXCEPT ![to] = @ \o P]
    <2>1. /\ pers_conn' = to /\ activity_fd_conn' = to
      BY ONLY <1>1, <1>2, Pers!SendError(k, n) DEF Pers!SendError, Pers!SendErrors
    <2>2. behind' = [c \in Calls |->
             IF c \in Members(P)
             THEN (Members(new_conn_cbs) \cup Members(cbs)) \cup {P[j] : j \in {i \in 1..n : \E m \in (i + 1)..n : P[m] = c}}
             ELSE behind[c] \ Members(P)]
      BY ONLY <1>1, Pers!SendError(k, n)
         DEF Pers!SendError, Pers!SendErrors, Pers!Waiting, Pers!Elements, Pers!Prefix, Prefix, Members, Calls
    <2>3. Pers!MakeOn(P, to, [requests EXCEPT ![k] = R])
      BY ONLY <1>1, <2>1, Pers!SendError(k, n)
         DEF Pers!SendError, Pers!SendErrors, Pers!Prefix, Pers!Drop, Prefix, Drop
    <2> QED
      BY ONLY <2>1, <2>2, <2>3 DEF Pers!MakeOn
  <1>4. /\ UNCHANGED <<issued, status, cbs, setting, stream, responses, expecting, up>>
        /\ UNCHANGED <<made, reconnect, backlog, server, serving, performed>>
    BY DEF Pers!SendError, Pers!linking, Pers!thread
  <1>5. break_exc' \in BOOLEAN /\ break_cb' \in [held : BOOLEAN, resumed : Nat]
    <2>1. break_exc \in BOOLEAN /\ break_cb \in [held : BOOLEAN, resumed : Nat]
      BY ONLY <1>0 DEF PersTypes
    <2>2. /\ break_cb' = break_cb \/ break_cb' = [break_cb EXCEPT !.resumed = @ + 1]
          /\ break_exc' = (break_exc \/ (pers_conn = k /\ ~break_cb.held))
      BY ONLY Pers!SendError(k, n) DEF Pers!SendError, Pers!SendErrors
    <2>3. [break_cb EXCEPT !.resumed = @ + 1] \in [held : BOOLEAN, resumed : Nat]
      BY ONLY <2>1
    <2>4. break_exc' \in BOOLEAN
      BY ONLY <2>2
    <2> QED
      BY ONLY <2>1, <2>2, <2>3, <2>4
  <1>6. /\ to \in 0..made /\ to # k /\ to \in Lines /\ (to = 0 \/ to \in Conns)
        /\ to # 0 => to = pers_conn
    <2>1. pers_conn \in 0..made /\ made \in Conns
      BY ONLY <1>0 DEF PersTypes
    <2>2. k # 0 /\ 0 \in 0..made /\ (\A i \in 0..made : i \in Lines /\ (i = 0 \/ i \in Conns))
      BY ONLY <2>1, PersBounds DEF Lines
    <2> QED
      BY ONLY <1>1, <2>1, <2>2
  <1>7. /\ IsFamily(Line) /\ Separate(Line) /\ DOMAIN Line = Lines /\ 0 \in Lines /\ k \in Lines
        /\ Line[0] = new_conn_cbs /\ Line[k] = requests[k]
        /\ \A l \in Conns : l # 0 /\ l \in Lines /\ l # MaxConns + 1 /\ Line[l] = requests[l]
        /\ Line[MaxConns + 1] = cbs /\ MaxConns + 1 \in Lines
        /\ \A i \in Lines : i = 0 \/ i = MaxConns + 1 \/ i \in Conns
        /\ MaxConns + 1 # 0
    <2>1. MaxConns + 1 # 0
      BY ONLY PersBounds
    <2> QED
      BY ONLY <2>1, <1>0, LineFacts DEF PlaceInv
  <1>8. PICK T : T = Take(Line, k, n)
    OBVIOUS
  <1>9. /\ IsFamily(T) /\ Separate(T) /\ DOMAIN T = Lines /\ T[k] = R /\ (\A j \in Lines : j # k => T[j] = Line[j])
        /\ P \in Seq(Calls) /\ Inj(P) /\ AllOf(Line) = AllOf(T) \cup Members(P) /\ AllOf(T) \cap Members(P) = {}
    <2>1. k \in DOMAIN Line /\ n \in 0..Len(Line[k])
      BY ONLY <1>2, <1>7
    <2>2. /\ IsFamily(T) /\ Separate(T) /\ DOMAIN T = DOMAIN Line /\ T[k] = Drop(Line[k], n)
          /\ (\A j \in DOMAIN Line : j # k => T[j] = Line[j])
          /\ Prefix(Line[k], n) \in Seq(Calls) /\ Inj(Prefix(Line[k], n))
          /\ AllOf(Line) = AllOf(T) \cup Members(Prefix(Line[k], n)) /\ AllOf(T) \cap Members(Prefix(Line[k], n)) = {}
      BY ONLY <2>1, <1>7, <1>8, TakeSeparate
    <2> QED
      BY ONLY <2>2, <1>1, <1>7
  <1>10. /\ R \in Seq(Calls) /\ Members(requests[k]) = Members(P) \cup Members(R) /\ Len(P) = n
         /\ \A c, e : Before(requests[k], c, e) /\ e \in Members(R) => Before(R, c, e) \/ c \in Members(P)
    <2>1. Inj(requests[k])
      BY ONLY <1>7 DEF Separate
    <2>2. R \in Seq(Calls) /\ Len(P) = n
      BY ONLY <1>1, <1>2, Parts
    <2> QED
      BY ONLY <2>1, <2>2, <1>1, <1>2, PartsMembers
  <1>11. PICK W : W = Put(T, to, P)
    OBVIOUS
  <1>12. /\ IsFamily(W) /\ Separate(W) /\ DOMAIN W = Lines /\ W[to] = T[to] \o P
            /\ (\A j \in Lines : j # to => W[j] = T[j])
         /\ AllOf(W) = AllOf(T) \cup Members(P)
    <2>1. to \in DOMAIN T
      BY ONLY <1>6, <1>9
    <2>2. /\ IsFamily(W) /\ Separate(W) /\ DOMAIN W = DOMAIN T /\ W[to] = T[to] \o P
             /\ (\A j \in DOMAIN T : j # to => W[j] = T[j])
          /\ AllOf(W) = AllOf(T) \cup Members(P)
      BY ONLY <2>1, <1>9, <1>11, PutSeparate
    <2> QED
      BY ONLY <2>2, <1>9
  <1>13. /\ new_conn_cbs' = W[0] /\ requests' \in [Conns -> Seq(Calls)] /\ \A l \in Conns : requests'[l] = W[l]
    <2>1. \A l \in Conns : W[l] \in Seq(Calls)
      BY ONLY <1>7, <1>12 DEF IsFamily
    <2>2. CASE to = 0
      <3>1. new_conn_cbs' = W[0]
        BY ONLY <2>2, <1>3, <1>6, <1>7, <1>9, <1>12
      <3>2. \A l \in Conns : W[l] = IF l = k THEN R ELSE requests[l]
        BY ONLY <2>2, <1>7, <1>9, <1>12
      <3>3. requests' = [l \in Conns |-> W[l]]
        BY ONLY <2>2, <3>2, <1>0, <1>3 DEF PersTypes
      <3> QED
        BY ONLY <2>1, <3>1, <3>3
    <2>3. CASE to # 0
      <3>1. new_conn_cbs' = W[0]
        BY ONLY <2>3, <1>3, <1>6, <1>7, <1>9, <1>12
      <3>2. to \in Conns
        BY ONLY <2>3, <1>6
      <3>3. \A l \in Conns : W[l] = IF l = to THEN requests[l] \o P ELSE IF l = k THEN R ELSE requests[l]
        BY ONLY <3>2, <1>6, <1>7, <1>9, <1>12
      <3>4. requests' = [l \in Conns |-> IF l = to THEN requests[l] \o P ELSE IF l = k THEN R ELSE requests[l]]
        BY ONLY <2>3, <3>2, <1>0, <1>3, <1>6 DEF PersTypes
      <3>5. requests' = [l \in Conns |-> W[l]]
        BY ONLY <3>3, <3>4
      <3> QED
        BY ONLY <2>1, <3>1, <3>5
    <2> QED
      BY ONLY <2>2, <2>3
  <1>14. W = Line'
    <2>1. W[MaxConns + 1] = cbs
      BY ONLY <1>6, <1>7, <1>9, <1>12
    <2>2. Line' = [i \in Lines |-> IF i = 0 THEN new_conn_cbs' ELSE IF i \in Conns THEN requests'[i] ELSE cbs]
      BY ONLY <1>4 DEF Line
    <2>3. \A i \in Lines : W[i] = IF i = 0 THEN new_conn_cbs' ELSE IF i \in Conns THEN requests'[i] ELSE cbs
      BY ONLY <2>1, <1>7, <1>13
    <2>4. W = [i \in Lines |-> W[i]]
      BY ONLY <1>12 DEF IsFamily
    <2> QED
      BY ONLY <2>2, <2>3, <2>4
  <1>15. Separate(Line') /\ AllOf(Line') = AllOf(Line)
    BY ONLY <1>9, <1>12, <1>14
  <1>16. \A e \in Calls : behind'[e] \subseteq Calls
    <2>1. Members(P) \subseteq Calls /\ Members(new_conn_cbs) \subseteq Calls /\ Members(cbs) \subseteq Calls
      BY ONLY <1>0, <1>9, InCalls DEF PersTypes
    <2>2. \A c : {P[j] : j \in {i \in 1..n : \E m \in (i + 1)..n : P[m] = c}} \subseteq Members(P)
      BY ONLY <1>10 DEF Members
    <2>3. ASSUME NEW e \in Calls PROVE behind'[e] \subseteq Calls
      <3>1. CASE e \in Members(P)
        <4>1. behind'[e] = (Members(new_conn_cbs) \cup Members(cbs))
                \cup {P[j] : j \in {i \in 1..n : \E m \in (i + 1)..n : P[m] = e}}
          BY ONLY <3>1, <2>3, <1>3
        <4> QED
          BY ONLY <4>1, <2>1, <2>2
      <3>2. CASE e \notin Members(P)
        <4>1. behind'[e] = behind[e] \ Members(P) /\ behind[e] \subseteq Calls
          BY ONLY <3>2, <2>3, <1>0, <1>3 DEF PersTypes
        <4> QED
          BY ONLY <4>1
      <3> QED
        BY ONLY <3>1, <3>2
    <2> QED
      BY ONLY <2>3
  <1>17. PersTypes'
    <2>1. new_conn_cbs' \in Seq(Calls)
      BY ONLY <1>7, <1>12, <1>13 DEF IsFamily
    <2>2. behind' \in [Calls -> SUBSET Calls]
      BY ONLY <1>3, <1>16
    <2> QED
      BY ONLY <1>0, <1>2, <1>3, <1>4, <1>5, <1>6, <1>13, <2>1, <2>2 DEF PersTypes
  <1>18. WaitInv'
    BY ONLY <1>0, <1>2, <1>3, <1>4, <1>6 DEF WaitInv
  <1>19. PlaceInv'
    BY ONLY <1>0, <1>4, <1>15 DEF PlaceInv
  <1>20. \A l \in Conns : WireInv(l)'
    <2>1. ASSUME NEW l \in Conns PROVE WireInv(l)'
      BY ONLY <1>0, <1>4, SameWire
    <2> QED
      BY ONLY <2>1
  <1>21. Future' = Future
    BY ONLY <1>4, <1>15 DEF Future, FutureOf
  <1>22. /\ T[to] \in Seq(Calls) /\ Members(T[to] \o P) = Members(T[to]) \cup Members(P)
         /\ \A c, e : /\ Before(T[to], c, e) => Before(T[to] \o P, c, e)
                      /\ Before(P, c, e) => Before(T[to] \o P, c, e)
                      /\ c \in Members(T[to]) /\ e \in Members(P) => Before(T[to] \o P, c, e)
    <2>1. T[to] \in Seq(Calls)
      BY ONLY <1>6, <1>9 DEF IsFamily
    <2> QED
      BY ONLY <2>1, <1>9, CatMembers
  <1>23. ASSUME NEW e \in Calls, NEW c \in behind'[e] PROVE (c <= issued)' /\ BehindInv(c, e)'
    <2>0. c \in Calls
      BY ONLY <1>16, <1>23
    <2>1. CASE e \in Members(P)
      <3>1. c \in Members(new_conn_cbs) \/ Before(P, c, e)
        <4>1. \/ c \in Members(new_conn_cbs) \/ c \in Members(cbs)
              \/ c \in {P[j] : j \in {i \in 1..n : \E m \in (i + 1)..n : P[m] = e}}
          BY ONLY <2>1, <1>3, <1>23
        <4>2. ASSUME c \in {P[j] : j \in {i \in 1..n : \E m \in (i + 1)..n : P[m] = e}} PROVE Before(P, c, e)
          <5>0. PICK j \in {i \in 1..n : \E m \in (i + 1)..n : P[m] = e} : P[j] = c
            BY ONLY <4>2
          <5>1. PICK m \in (j + 1)..n : P[m] = e
            BY ONLY <5>0
          <5>2. j \in 1..Len(P) /\ m \in 1..Len(P) /\ j < m
            BY ONLY <5>0, <5>1, <1>2, <1>10
          <5> QED
            BY ONLY <5>0, <5>1, <5>2 DEF Before
        <4> QED
          BY ONLY <4>1, <4>2, <1>2, NoMembers
      <3>2. c # e /\ c \in AllOf(Line)
        <4>1. CASE c \in Members(new_conn_cbs)
          <5>1. c \in AllOf(T) /\ c \in AllOf(Line)
            BY ONLY <4>1, <2>0, <1>7, <1>9 DEF AllOf
          <5> QED
            BY ONLY <5>1, <2>1, <1>9
        <4>2. CASE Before(P, c, e)
          <5>1. c \in Members(P) /\ ~Before(P, e, c)
            BY ONLY <4>2, <1>9, BeforeOrder
          <5> QED
            BY ONLY <5>1, <4>2, <1>9
        <4> QED
          BY ONLY <3>1, <4>1, <4>2
      <3>3. c <= issued
        BY ONLY <3>2, <1>0, PlaceFacts
      <3>4. /\ e \in AllOf(Line) /\ e \notin Members(performed) /\ (\A l \in Conns : e \notin Members(stream[l]))
        <4>1. e \in AllOf(Line)
          BY ONLY <2>1, <1>9
        <4>2. e \notin Members(performed) /\ e \notin AllOf(stream)
          BY ONLY <4>1, <1>0, PlaceFacts
        <4> QED
          BY ONLY <4>1, <4>2, <1>0, OnLine
      <3>5. e \in Members(W[to]) /\ \A j \in Lines : j # to => e \notin Members(W[j])
        <4>1. e \in Members(W[to])
          BY ONLY <2>1, <1>12, <1>22
        <4> QED
          BY ONLY <4>1, <1>6, <1>12 DEF Separate
      <3>6. to = 0 => Before(new_conn_cbs', c, e)
        <4>1. to = 0 => T[to] = new_conn_cbs
          BY ONLY <1>6, <1>7, <1>9
        <4> QED
          BY ONLY <4>1, <3>1, <2>1, <1>12, <1>13, <1>22
      <3>7. to # 0 => new_conn_cbs = << >> /\ Before(requests'[to], c, e)
        <4>1. to # 0 => new_conn_cbs = << >>
          BY ONLY <1>0, <1>6 DEF WaitInv
        <4> QED
          BY ONLY <4>1, <3>1, <1>6, <1>12, <1>13, <1>22, NoMembers
      <3>8. e \in Members(new_conn_cbs') => Before(new_conn_cbs', c, e)
        BY ONLY <3>5, <3>6, <1>7, <1>13
      <3>9. ASSUME NEW l \in Conns, e \in Members(requests'[l]) PROVE Before(requests'[l], c, e)
        BY ONLY <3>5, <3>7, <3>9, <1>7, <1>13
      <3> QED
        BY ONLY <3>2, <3>3, <3>4, <3>8, <3>9, <1>2, <1>4, NoMembers DEF BehindInv
    <2>2. CASE e \notin Members(P)
      <3>1. c \in behind[e] /\ c \notin Members(P)
        BY ONLY <2>2, <1>3, <1>23
      <3>2. c <= issued /\ BehindInv(c, e)
        BY ONLY <3>1, <1>0 DEF OrderInv
      <3>3. e \in Members(new_conn_cbs') => Before(new_conn_cbs', c, e)
        <4>1. e \in Members(new_conn_cbs) => Before(new_conn_cbs, c, e)
          BY ONLY <3>2, <1>2, NoMembers DEF BehindInv
        <4>2. CASE to = 0
          <5>1. T[to] = new_conn_cbs
            BY ONLY <4>2, <1>6, <1>7, <1>9
          <5> QED
            BY ONLY <4>1, <4>2, <5>1, <2>2, <1>12, <1>13, <1>22
        <4>3. CASE to # 0
          BY ONLY <4>1, <4>3, <1>3
        <4> QED
          BY ONLY <4>2, <4>3
      <3>4. ASSUME NEW l \in Conns
            PROVE  /\ e \in Members(requests'[l]) => Before(requests'[l], c, e) \/ c \in Members(stream[l])
                      \/ c \notin Future
                   /\ e \in Members(stream[l]) => Before(stream[l], c, e) \/ c \notin Future
        <4>1. /\ e \in Members(requests[l]) => Before(requests[l], c, e) \/ c \in Members(stream[l]) \/ c \notin Future
              /\ e \in Members(stream[l]) => Before(stream[l], c, e) \/ c \notin Future
          BY ONLY <3>2 DEF BehindInv
        <4>2. CASE l = k
          <5>1. requests'[k] = R
            BY ONLY <1>6, <1>7, <1>9, <1>12, <1>13
          <5> QED
            BY ONLY <4>1, <4>2, <5>1, <3>1, <1>10
        <4>3. CASE l # k /\ l = to
          <5>1. T[to] = requests[l] /\ requests'[l] = T[to] \o P
            BY ONLY <4>3, <1>7, <1>9, <1>12, <1>13
          <5> QED
            BY ONLY <4>1, <5>1, <2>2, <1>22
        <4>4. CASE l # k /\ l # to
          <5>1. requests'[l] = requests[l]
            BY ONLY <4>4, <1>7, <1>9, <1>12, <1>13
          <5> QED
            BY ONLY <4>1, <5>1
        <4> QED
          BY ONLY <4>2, <4>3, <4>4
      <3>5. e \in Members(performed) => c \notin Future /\ ~Before(performed, e, c)
        BY ONLY <3>2 DEF BehindInv
      <3>6. c # e
        BY ONLY <3>2 DEF BehindInv
      <3> QED
        BY ONLY <3>2, <3>3, <3>4, <3>5, <3>6, <1>2, <1>4, <1>21, NoMembers DEF BehindInv
    <2> QED
      BY ONLY <2>1, <2>2
  <1> QED
    BY ONLY <1>17, <1>18, <1>19, <1>20, <1>23 DEF PersInv, OrderInv

\* Every step keeps the invariant.
LEMMA PersNext == PersInv /\ [Pers!Next]_(Pers!vars) => PersInv'
  <1> SUFFICES ASSUME PersInv, [Pers!Next]_(Pers!vars) PROVE PersInv'
    OBVIOUS
  <1> USE DEF Calls, Conns
  <1>1. CASE \/ Pers!WaitForBreak \/ Pers!CloseInterface \/ Pers!SetNewConn \/ Pers!NewConnSet
             \/ Pers!Reconnect \/ Pers!ConnectAndSend \/ Pers!Eof \/ Pers!Shutdown \/ Pers!AcceptFds
             \/ Pers!Die \/ Pers!ReadNothing \/ UNCHANGED Pers!vars
    BY ONLY PersInv, <1>1, QuietSteps
  <1>2. CASE Pers!Syscall \/ Pers!ResumeNext \/ Pers!Perform
    BY ONLY PersInv, <1>2, PersSyscall, PersResumeNext, PersPerform
  <1>3. ASSUME NEW k \in Pers!Conns, Pers!Connection(k) \/ Pers!Break(k) PROVE PersInv'
    <2>1. CASE Pers!Return(k) \/ Pers!Hangup(k) \/ Pers!Break(k)
      BY ONLY PersInv, <2>1, PersReturn, PersHangup, PersBreak DEF Conns
    <2>2. ASSUME NEW n \in Pers!Calls, Pers!Write(k, n) \/ Pers!SendError(k, n) PROVE PersInv'
      BY ONLY PersInv, <2>2, PersWrite, PersSendError DEF Calls, Conns
    <2> QED
      BY ONLY <1>3, <2>1, <2>2 DEF Pers!Connection
  <1>4. \A k \in Pers!Conns, n, m \in Pers!Calls : ~Pers!PartialWrite(k, n, m)
    BY DEF Pers!PartialWrite
  <1> QED
    BY ONLY <1>1, <1>2, <1>3, <1>4, [Pers!Next]_(Pers!vars) DEF Pers!Next, Pers!Setting, Pers!Server

\* The invariant gives what the run checks.
LEMMA PersSafe == PersInv => Pers!TypeOK /\ Pers!WaitersNotOvertaken
  <1> SUFFICES ASSUME PersInv PROVE Pers!TypeOK /\ Pers!WaitersNotOvertaken
    OBVIOUS
  <1>0. PersTypes /\ PlaceInv /\ OrderInv
    BY DEF PersInv
  <1>1. Pers!TypeOK
    <2>1. activity_fd_conn \in {0, pers_conn, made} /\ serving \in Conns
      BY ONLY <1>0, PersBounds DEF PersTypes
    <2> QED
      BY ONLY <1>0, <2>1 DEF PersTypes, Pers!TypeOK, Calls, Conns
  <1>2. ASSUME NEW e \in Members(performed), NEW c \in behind[e] PROVE Pers!NotBefore(e, c)
    <2>1. e \in Calls
      BY ONLY <1>0, InCalls DEF PersTypes
    <2>2. BehindInv(c, e)
      BY ONLY <2>1, <1>0, <1>2 DEF OrderInv
    <2>3. c \notin Future /\ ~Before(performed, e, c) /\ c # e
      BY ONLY <2>2, <1>2 DEF BehindInv
    <2>4. ~Pers!ToBePerformed(c)
      <3>1. Pers!ToBePerformed(c) =>
              \/ c \in Members(new_conn_cbs) \cup Members(cbs)
              \/ \E k \in Conns : c \in Members(requests[k])
              \/ \E k \in serving..MaxConns : c \in Members(stream[k])
        BY ONLY TRUE DEF Pers!ToBePerformed, Pers!Waiting, Pers!Elements, Members, Conns
      <3>2. Members(new_conn_cbs) \cup Members(cbs) \subseteq AllOf(Line)
            /\ \A k \in Conns : Members(requests[k]) \subseteq AllOf(Line)
        BY ONLY <1>0, OnLine
      <3> QED
        BY ONLY <2>3, <3>1, <3>2 DEF Future, FutureOf
    <2>5. PICK i : i = CHOOSE n \in 1..Len(performed) : performed[n] = e
      OBVIOUS
    <2>6. i \in 1..Len(performed) /\ performed[i] = e
      <3>1. \E n \in 1..Len(performed) : performed[n] = e
        BY ONLY <1>2 DEF Members
      <3> QED
        BY ONLY <2>5, <3>1
    <2>7. ASSUME NEW j \in i..Len(performed) PROVE performed[j] # c
      <3>1. Len(performed) \in Nat
        BY ONLY <1>0 DEF PersTypes
      <3>2. j = i \/ (j \in 1..Len(performed) /\ i < j)
        BY ONLY <3>1, <2>6
      <3> QED
        BY ONLY <3>2, <2>3, <2>6 DEF Before
    <2> QED
      BY ONLY <2>4, <2>5, <2>7 DEF Pers!NotBefore
  <1> QED
    BY ONLY <1>1, <1>2 DEF Pers!WaitersNotOvertaken, Pers!Elements, Members

\* Steps of the persistent connection, in any run of the suite.
LEMMA PersRuns ==
    ASSUME [Next]_vars
    PROVE  [Pers!Next]_(Pers!vars)
  <1>1. CASE running = "persistent" /\ Pers!Next
    BY <1>1
  <1>2. CASE UNCHANGED persistent
    BY <1>2 DEF persistent, Pers!vars, Pers!callers, Pers!self, Pers!break, Pers!wires, Pers!linking, Pers!thread
  <1> QED
    BY <1>1, <1>2 DEF Next, vars

(***************************************************************************)
(* Whatever breaks, a syscall made while others wait for a connection is   *)
(* not performed before them, for any number of syscalls and connections.  *)
(***************************************************************************)
THEOREM NotOvertaken == Spec => []WaitersNotOvertaken
  <1>1. Init => PersInv
    BY PersInit DEF Init
  <1>2. PersInv /\ [Next]_vars => PersInv'
    BY PersRuns, PersNext
  <1>3. PersInv => WaitersNotOvertaken
    BY PersSafe DEF WaitersNotOvertaken
  <1> QED
    BY <1>1, <1>2, <1>3, PTL DEF Spec

\* Every step is one of the interface, or none.
LEMMA PersImplements ==
    ASSUME PersInv, [Pers!Next]_(Pers!vars)
    PROVE  [Pers!Interface!Next]_(Pers!Interface!vars)
  <1> DEFINE Out(st) == [c \in Calls |-> IF st[c] = "unissued" THEN "none" ELSE st[c]]
  <1>0. PersTypes /\ PlaceInv /\ (\A l \in Conns : WireInv(l))
    BY DEF PersInv
  <1>1. CASE UNCHANGED <<status, performed>>
    BY <1>1 DEF Pers!Interface!vars
  <1>2. CASE Pers!Syscall
    <2>1. PICK x : x = issued + 1
      OBVIOUS
    <2>2. x \in Calls /\ status[x] = "unissued" /\ status' = [status EXCEPT ![x] = "pending"] /\ performed' = performed
      <3>1. x \in Calls /\ x > issued
        BY ONLY <1>0, <1>2, <2>1, PersBounds DEF Pers!Syscall, PersTypes
      <3> QED
        BY ONLY <3>1, <1>0, <1>2, <2>1 DEF Pers!Syscall, PlaceInv, Pers!thread
    <2>3. Pers!Interface!Call(x)
      BY ONLY <2>2, <1>0 DEF Pers!Interface!Call, PersTypes, Calls
    <2> QED
      BY ONLY <2>2, <2>3 DEF Pers!Interface!Next, Calls
  <1>3. CASE Pers!Perform
    <2>1. PICK x : x = Head(stream[serving])
      OBVIOUS
    <2>2. x \in AllOf(stream) /\ performed' = Append(performed, x) /\ status' = status
      <3>1. serving \in Conns
        BY ONLY <1>0, PersBounds DEF PersTypes
      <3>2. stream[serving] \in Seq(Calls) /\ stream[serving] # << >>
        BY ONLY <3>1, <1>0, <1>3 DEF PersTypes, Pers!Perform
      <3>3. x \in Members(stream[serving])
        BY ONLY <3>2, <2>1, HeadMembers
      <3> QED
        BY ONLY <3>1, <3>3, <2>1, <1>0, <1>3, OnLine DEF Pers!Perform, Pers!callers
    <2>3. x \in Calls /\ status[x] \in {"pending", "hangup"} /\ x \notin Members(performed)
      BY ONLY <2>2, <1>0, OnLine DEF PlaceInv
    <2>4. Pers!Interface!Perform(x)
      BY ONLY <2>2, <2>3 DEF Pers!Interface!Perform, Pers!Interface!WasPerformed, Members, Calls
    <2> QED
      BY ONLY <2>3, <2>4 DEF Pers!Interface!Next, Calls
  <1>4. ASSUME NEW k \in Conns, Pers!Return(k) PROVE Pers!Interface!Next
    <2>1. PICK x : x = Head(expecting[k])
      OBVIOUS
    <2>2. expecting[k] \in Seq(Calls) /\ responses[k] \in Seq(Calls) /\ expecting[k] # << >> /\ responses[k] # << >>
      BY ONLY <1>0, <1>4 DEF PersTypes, Pers!Return
    <2>3. Head(responses[k]) = x
      <3>1. PICK rest \in Seq(Calls) : expecting[k] = responses[k] \o rest
        BY ONLY <1>0 DEF WireInv
      <3> QED
        BY ONLY <3>1, <2>1, <2>2, CatTail
    <2>4. x \in Members(expecting[k]) /\ x \in Members(responses[k])
      BY ONLY <2>1, <2>2, <2>3, HeadMembers
    <2>5. x \in Calls /\ status[x] = "pending" /\ x \in Members(performed)
      BY ONLY <2>4, <1>0, OnLine DEF PlaceInv, WireInv
    <2>6. status' = [status EXCEPT ![x] = "returned"] /\ performed' = performed
      BY ONLY <2>1, <2>3, <1>4 DEF Pers!Return, Pers!thread
    <2>7. Pers!Interface!Return(x)
      BY ONLY <2>5, <2>6, <1>0 DEF Pers!Interface!Return, Pers!Interface!WasPerformed, Members, Calls, PersTypes
    <2> QED
      BY ONLY <2>5, <2>7 DEF Pers!Interface!Next, Calls
  <1>5. ASSUME NEW k \in Conns, Pers!Hangup(k) PROVE Pers!Interface!Next
    <2>1. PICK x : x = Head(expecting[k])
      OBVIOUS
    <2>2. expecting[k] \in Seq(Calls) /\ expecting[k] # << >>
      BY ONLY <1>0, <1>5 DEF PersTypes, Pers!Hangup
    <2>3. x \in Members(expecting[k])
      BY ONLY <2>1, <2>2, HeadMembers
    <2>4. x \in Calls /\ status[x] = "pending"
      BY ONLY <2>3, <1>0, OnLine DEF PlaceInv
    <2>5. status' = [status EXCEPT ![x] = "hangup"] /\ performed' = performed
      BY ONLY <2>1, <1>5 DEF Pers!Hangup, Pers!thread
    <2>6. Pers!Interface!Hangup(x)
      BY ONLY <2>4, <2>5, <1>0 DEF Pers!Interface!Hangup, Calls, PersTypes
    <2> QED
      BY ONLY <2>4, <2>6 DEF Pers!Interface!Next, Calls
  <1>6. ASSUME NEW k \in Conns, NEW n \in Calls, Pers!Write(k, n) \/ Pers!SendError(k, n)
        PROVE UNCHANGED <<status, performed>>
    BY <1>6 DEF Pers!Write, Pers!SendError, Pers!callers, Pers!thread
  <1>7. ASSUME NEW k \in Conns, Pers!Break(k) PROVE UNCHANGED <<status, performed>>
    BY <1>7 DEF Pers!Break, Pers!callers, Pers!thread
  <1>8. CASE \/ Pers!WaitForBreak \/ Pers!CloseInterface \/ Pers!SetNewConn \/ Pers!NewConnSet \/ Pers!ResumeNext
             \/ Pers!Reconnect \/ Pers!ConnectAndSend \/ Pers!Eof \/ Pers!Shutdown \/ Pers!AcceptFds
             \/ Pers!Die \/ Pers!ReadNothing \/ UNCHANGED Pers!vars
    <2>1. UNCHANGED <<status, performed>>
      BY <1>8 DEF Pers!WaitForBreak, Pers!CloseInterface, Pers!SetNewConn, Pers!NewConnSet, Pers!ResumeNext,
           Pers!Reconnect, Pers!ConnectAndSend, Pers!Eof, Pers!Shutdown, Pers!AcceptFds, Pers!Die, Pers!ReadNothing,
           Pers!vars, Pers!callers, Pers!thread
    <2> QED
      BY <2>1, <1>1
  <1>9. \A k \in Conns, n, m \in Calls : ~Pers!PartialWrite(k, n, m)
    BY DEF Pers!PartialWrite
  <1> QED
    BY ONLY <1>1, <1>2, <1>3, <1>4, <1>5, <1>6, <1>7, <1>8, <1>9, [Pers!Next]_(Pers!vars)
       DEF Pers!Next, Pers!Setting, Pers!Server, Pers!Connection, Calls, Conns

(***************************************************************************)
(* The persistent connection does what its interface says, for any number  *)
(* of syscalls and connections: a syscall is performed at most once, and   *)
(* who returns has one that was performed.                                 *)
(***************************************************************************)
THEOREM ConnectionImplements == Spec => ImplementsInterface
  <1>1. Init => PersInv
    BY PersInit DEF Init
  <1>2. PersInv /\ [Next]_vars => PersInv'
    BY PersRuns, PersNext
  <1>3. Init => Pers!Interface!Init
    BY DEF Init, Pers!Init, Pers!Interface!Init, Pers!Calls
  <1>4. PersInv /\ [Next]_vars => [Pers!Interface!Next]_(Pers!Interface!vars)
    BY PersRuns, PersImplements
  <1> QED
    BY <1>1, <1>2, <1>3, <1>4, PTL DEF Spec, ImplementsInterface, Pers!ImplementsInterface, Pers!Interface!Spec

-----------------------------------------------------------------------------
(* What is selected of a sequence                                          *)

\* What has been selected after n elements is q: of S, all of them, and in order.
Selects(s, S, n, q) ==
    /\ \A j \in 1..Len(q) : q[j] \in S
    /\ \A i \in 1..n : s[i] \in S => \E j \in 1..Len(q) : q[j] = s[i]
    /\ \E at \in [1..Len(q) -> 1..n] : /\ \A j \in 1..Len(q) : q[j] = s[at[j]]
                                       /\ \A j, k \in 1..Len(q) : j < k => at[j] < at[k]

\* There is a least number in a set of numbers.
LEMMA Least ==
    ASSUME NEW S \in SUBSET Nat, S # {}
    PROVE  \E n \in S : \A m \in S : n <= m
  <1>1. PICK n \in S : \A m \in Nat : <<m, n>> \in OpToRel(<, Nat) => m \notin S
    BY NatLessThanWellFounded, WFMin
  <1>2. ASSUME NEW m \in S PROVE n <= m
    <2>1. m \in Nat /\ n \in Nat
      OBVIOUS
    <2>2. ~(m < n)
      BY <1>1, <2>1 DEF OpToRel
    <2> QED BY <2>1, <2>2
  <1> QED BY <1>2

\* The recursion of Only has a solution.
LEMMA OnlyDefined ==
    ASSUME NEW T, NEW s \in Seq(T), NEW S
    PROVE  \E first : /\ first = [n \in 0..Len(s) |-> IF n = 0 THEN << >>
                                    ELSE IF s[n] \in S THEN Append(first[n - 1], s[n]) ELSE first[n - 1]]
                      /\ Only(s, S) = first[Len(s)]
  <1> DEFINE Nth(g, n) == IF n = 0 THEN << >> ELSE IF s[n] \in S THEN Append(g[n - 1], s[n]) ELSE g[n - 1]
             Unmet == {n \in Nat : n <= Len(s) /\ ~\E g : g = [i \in 0..n |-> Nth(g, i)]}
  <1>1. Unmet = {}
    <2> SUFFICES ASSUME Unmet # {} PROVE FALSE
      OBVIOUS
    <2>1. PICK n \in Unmet : \A m \in Unmet : n <= m
      <3>1. Unmet \in SUBSET Nat
        OBVIOUS
      <3> HIDE DEF Unmet
      <3> QED BY <3>1, Least
    <2>2. n # 0
      <3> SUFFICES ASSUME n = 0 PROVE FALSE
        OBVIOUS
      <3> DEFINE g == [i \in 0..0 |-> << >>]
      <3>1. \A i \in 0..n : i = 0 /\ Nth(g, i) = << >>
        OBVIOUS
      <3> HIDE DEF Nth
      <3>2. g = [i \in 0..n |-> Nth(g, i)]
        BY <3>1
      <3> QED BY <3>2, <2>1
    <2>7. n \in Nat /\ n <= Len(s) /\ Len(s) \in Nat
      <3> HIDE DEF Nth
      <3> QED OBVIOUS
    <2>3. n - 1 \in Nat /\ n - 1 <= Len(s) /\ n - 1 \notin Unmet
      <3> HIDE DEF Unmet
      <3> QED BY <2>1, <2>2, <2>7
    <2>4. PICK g : g = [i \in 0..(n - 1) |-> Nth(g, i)]
      BY <2>3
    <2> DEFINE h == [i \in 0..n |-> IF i = n THEN Nth(g, n) ELSE g[i]]
    <2>5. ASSUME NEW i \in 0..n PROVE h[i] = Nth(h, i)
      <3>1. CASE i = n
        <4>1. h[n - 1] = g[n - 1]
          BY <2>2, <2>3
        <4> QED BY <3>1, <4>1
      <3>2. CASE i # n
        <4>1. i \in 0..(n - 1) /\ h[i] = g[i] /\ (i # 0 => h[i - 1] = g[i - 1])
          BY <3>2, <2>3
        <4>2. g[i] = Nth(g, i)
          BY <4>1, <2>4
        <4> QED BY <4>1, <4>2
      <3> QED BY <3>1, <3>2
    <2>6. h = [i \in 0..n |-> Nth(h, i)]
      <3> HIDE DEF Nth
      <3> QED BY <2>5
    <2> HIDE DEF h, Nth
    <2> QED BY <2>1, <2>6
  <1>2. \E g : g = [i \in 0..Len(s) |-> Nth(g, i)]
    <2>1. Len(s) \in Nat /\ Len(s) \notin Unmet
      BY <1>1
    <2> HIDE DEF Nth
    <2> QED BY <2>1
  <1>3. Only(s, S) = (CHOOSE g : g = [i \in 0..Len(s) |-> Nth(g, i)])[Len(s)]
    BY DEF Only
  <1> QED BY Zenon, <1>2, <1>3

\* Nothing is selected of nothing.
LEMMA SelectsNone == ASSUME NEW T, NEW s, NEW S, NEW q, q = << >> PROVE q \in Seq(T) /\ Selects(s, S, 0, q)
  <1>1. q \in Seq(T) /\ 1..Len(q) = {} /\ 1..0 = {}
    OBVIOUS
  <1> DEFINE none == [j \in 1..Len(q) |-> 0]
  <1>2. none \in [1..Len(q) -> 1..0]
    BY <1>1
  <1> QED BY <1>1, <1>2 DEF Selects

\* One element more.
LEMMA SelectsNext ==
    ASSUME NEW T, NEW s \in Seq(T), NEW S, NEW n \in 1..Len(s), NEW p \in Seq(T), Selects(s, S, n - 1, p),
           NEW q, q = IF s[n] \in S THEN Append(p, s[n]) ELSE p
    PROVE  q \in Seq(T) /\ Selects(s, S, n, q)
  <1>0. n \in Nat /\ s[n] \in T /\ Len(p) \in Nat /\ n \in 1..Len(s)
    OBVIOUS
  <1>1. PICK at \in [1..Len(p) -> 1..(n - 1)] : /\ \A j \in 1..Len(p) : p[j] = s[at[j]]
                                              /\ \A j, k \in 1..Len(p) : j < k => at[j] < at[k]
    BY DEF Selects
  <1>2. CASE s[n] \notin S
    <2>1. at \in [1..Len(p) -> 1..n]
      BY <1>2, <1>0
    <2>2. \A i \in 1..n : s[i] \in S => i \in 1..(n - 1)
      BY <1>2, <1>0
    <2>3. q = p
      BY <1>2
    <2>4. \A i \in 1..n : s[i] \in S => \E j \in 1..Len(q) : q[j] = s[i]
      BY <2>2, <2>3 DEF Selects
    <2>5. \A j \in 1..Len(q) : q[j] \in S
      BY <2>3 DEF Selects
    <2>6. /\ at \in [1..Len(q) -> 1..n]
          /\ \A j \in 1..Len(q) : q[j] = s[at[j]]
          /\ \A j, k \in 1..Len(q) : j < k => at[j] < at[k]
      BY <2>1, <2>3, <1>1
    <2> QED BY <2>3, <2>4, <2>5, <2>6 DEF Selects
  <1>3. CASE s[n] \in S
    <2>1. q = Append(p, s[n])
      BY <1>3, <1>0
    <2>2. Len(q) = Len(p) + 1 /\ q[Len(q)] = s[n] /\ (\A j \in 1..Len(p) : q[j] = p[j]) /\ Len(p) \in Nat
      BY <2>1, <1>0
    <2> DEFINE to == [j \in 1..Len(q) |-> IF j = Len(q) THEN n ELSE at[j]]
    <2>3. \A j \in 1..Len(q) : j # Len(q) => j \in 1..Len(p) /\ at[j] \in 1..(n - 1)
      BY <2>2, <1>1
    <2>8. q \in Seq(T)
      BY <2>1, <1>0
    <2>9. \A j \in 1..Len(q) : to[j] \in 1..n /\ q[j] = s[to[j]]
      <3> SUFFICES ASSUME NEW j \in 1..Len(q) PROVE to[j] \in 1..n /\ q[j] = s[to[j]]
        OBVIOUS
      <3>1. CASE j = Len(q)
        BY <3>1, <2>2, <1>0
      <3>2. CASE j # Len(q)
        <4>1. to[j] = at[j] /\ q[j] = p[j] /\ p[j] = s[at[j]] /\ at[j] \in 1..(n - 1)
          BY <3>2, <2>2, <2>3, <1>1
        <4> QED BY <4>1, <1>0
      <3> QED BY <3>1, <3>2
    <2>4. to \in [1..Len(q) -> 1..n] /\ \A j \in 1..Len(q) : q[j] = s[to[j]]
      BY <2>9
    <2>5. \A j, k \in 1..Len(q) : j < k => to[j] < to[k]
      <3> SUFFICES ASSUME NEW j \in 1..Len(q), NEW k \in 1..Len(q), j < k PROVE to[j] < to[k]
        OBVIOUS
      <3>1. j # Len(q) /\ j \in 1..Len(p) /\ at[j] \in 1..(n - 1) /\ to[j] = at[j]
        BY <2>2, <2>3
      <3>2. CASE k = Len(q)
        BY <3>1, <3>2, <1>0
      <3>3. CASE k # Len(q)
        BY <3>1, <3>3, <2>3, <1>1
      <3> QED BY <3>2, <3>3
    <2> HIDE DEF to
    <2>6. \A j \in 1..Len(q) : q[j] \in S
      BY <2>2, <2>3, <1>3 DEF Selects
    <2>7. ASSUME NEW i \in 1..n, s[i] \in S PROVE \E j \in 1..Len(q) : q[j] = s[i]
      <3>1. CASE i = n
        BY <3>1, <2>2
      <3>2. CASE i # n
        <4>1. i \in 1..(n - 1)
          BY <3>2, <1>0
        <4>2. PICK j \in 1..Len(p) : p[j] = s[i]
          BY <4>1, <2>7 DEF Selects
        <4> QED BY <4>2, <2>2
      <3> QED BY <3>1, <3>2
    <2> QED BY <2>4, <2>5, <2>6, <2>7, <2>8 DEF Selects
  <1> QED BY <1>2, <1>3

\* Only selects the elements that are in the set, in order.
LEMMA OnlySelects ==
    ASSUME NEW T, NEW s \in Seq(T), NEW S
    PROVE  Only(s, S) \in Seq(T) /\ Selects(s, S, Len(s), Only(s, S))
  <1>1. PICK first : /\ first = [n \in 0..Len(s) |-> IF n = 0 THEN << >>
                                    ELSE IF s[n] \in S THEN Append(first[n - 1], s[n]) ELSE first[n - 1]]
                     /\ Only(s, S) = first[Len(s)]
    BY OnlyDefined
  <1> DEFINE Unmet == {n \in Nat : n <= Len(s) /\ ~(first[n] \in Seq(T) /\ Selects(s, S, n, first[n]))}
  <1>2. Unmet = {}
    <2> SUFFICES ASSUME Unmet # {} PROVE FALSE
      OBVIOUS
    <2>1. PICK n \in Unmet : \A m \in Unmet : n <= m
      <3>1. Unmet \in SUBSET Nat
        OBVIOUS
      <3> HIDE DEF Unmet
      <3> QED BY <3>1, Least
    <2>2. n # 0
      <3>1. first[0] = << >>
        BY <1>1
      <3>2. first[0] \in Seq(T) /\ Selects(s, S, 0, first[0])
        BY <3>1, SelectsNone
      <3> QED BY <3>2
    <2>3. n - 1 \in Nat /\ n - 1 <= Len(s) /\ n - 1 \notin Unmet /\ n \in 0..Len(s) /\ n - 1 \in 0..Len(s) /\ n \in 1..Len(s)
      BY <2>1, <2>2
    <2>4. first[n - 1] \in Seq(T) /\ Selects(s, S, n - 1, first[n - 1])
      BY <2>3
    <2> DEFINE p == first[n - 1]
    <2>5. first[n] = IF s[n] \in S THEN Append(p, s[n]) ELSE p
      BY <1>1, <2>2, <2>3
    <2>6. s[n] \in T /\ n \in Nat
      BY <2>3
    <2>7. first[n] \in Seq(T)
      BY <2>4, <2>5, <2>6
    <2>8. Selects(s, S, n, first[n])
      <3>0. p \in Seq(T) /\ Selects(s, S, n - 1, p)
        BY <2>4
      <3> HIDE DEF p
      <3> QED BY <3>0, <2>5, <2>3, SelectsNext
    <2> QED BY <2>1, <2>7, <2>8
  <1>3. Len(s) \in Nat /\ Len(s) \notin Unmet
    BY <1>2
  <1> QED BY <1>1, <1>3

\* The rest of a sequence is one of the same elements.
LEMMA RestOf ==
    ASSUME NEW T, NEW s \in Seq(T), NEW n \in 0..Len(s)
    PROVE  SubSeq(s, n + 1, Len(s)) \in Seq(T)
  OBVIOUS

-----------------------------------------------------------------------------
(* The epollers                                                            *)


\* The copies of the library's operators that an instance has are the library's.
LEMMA PollLibrary ==
    ASSUME NEW cfg PROVE /\ \A s, S : Poll(cfg)!Only(s, S) = Only(s, S)
                         /\ \A S : Poll(cfg)!Cardinality(S) = Cardinality(S) /\ (Poll(cfg)!IsFiniteSet(S) <=> IsFiniteSet(S))
  BY DEF Poll!Only, Only, Poll!Cardinality, Cardinality, Poll!IsFiniteSet, IsFiniteSet

\* What the instance's Only selects.
LEMMA PollSelects ==
    ASSUME NEW cfg, NEW T, NEW s \in Seq(T), NEW S
    PROVE  Poll(cfg)!Only(s, S) \in Seq(T) /\ Selects(s, S, Len(s), Poll(cfg)!Only(s, S))
  BY PollLibrary, OnlySelects

AllOps   == {"read", "accept", "write", "rdhup", "connect", "so_error"}
Outcomes == {"none", "ok", "EAGAIN", "error", "EINPROGRESS"}
ConnStates    == {"unconnected", "connecting", "connected", "refused"}
CallRec(cfg)  == [pc : {"idle", "wait", "call", "answer"}, op : AllOps \cup {"none"},
             fd : cfg.regs \cup {"none"}, current : [Poll(cfg)!Flags -> Nat], outcome : Outcomes]

\* What operations wait for.
LEMMA OpFlags ==
    ASSUME NEW cfg
    PROVE  /\ DOMAIN Poll(cfg)!WaitFlags = AllOps
           /\ Poll(cfg)!WaitFlags["read"] = {"IN", "RDHUP", "HUP", "ERR"} /\ Poll(cfg)!WaitFlags["accept"] = {"IN", "HUP", "ERR"}
           /\ Poll(cfg)!WaitFlags["write"] = {"OUT", "ERR"} /\ Poll(cfg)!WaitFlags["rdhup"] = {"RDHUP", "HUP"}
           /\ Poll(cfg)!WaitFlags["connect"] = {"OUT"} /\ Poll(cfg)!WaitFlags["so_error"] = {"OUT"}
           /\ \A o \in AllOps : Poll(cfg)!WaitFlags[o] \in SUBSET Poll(cfg)!Flags
           /\ \A o \in {"read", "accept", "write", "so_error"} : Poll(cfg)!ErrorFlags[o] \in SUBSET Poll(cfg)!Flags
           /\ Poll(cfg)!ErrorFlags["write"] = {"ERR"}
           /\ Poll(cfg)!Zero \in [Poll(cfg)!Flags -> Nat]
  BY DEF Poll!WaitFlags, AllOps, Poll!Flags, Poll!ErrorFlags, Poll!Zero

\* A coroutine that makes a syscall, or waits for its answer, is about an fd and an
\* operation that has one.
Busy(cfg, c) == call[c].pc # "idle" => call[c].fd \in cfg.regs /\ call[c].op \in AllOps
Makes(c) == call[c].pc \in {"call", "answer"} => call[c].op # "rdhup"
Errs(c)  == call[c].pc = "answer" /\ call[c].outcome = "error" => call[c].op # "rdhup"

EpTypes(cfg) ==
    /\ level \in [cfg.regs -> SUBSET Poll(cfg)!Flags] /\ rdlist \in Seq(cfg.regs)
    /\ conn \in [cfg.regs -> ConnStates]
    /\ arrivals \in 0..cfg.maxArrivals
    /\ reg \in [cfg.regs -> {"new", "adding", "added", "registered", "deleting", "closed"}]
    /\ number \in [cfg.regs -> Nat] /\ pending_remove \subseteq Nat
    /\ waiter \in {"epoll_wait", "answer", "failed"}
    /\ received \subseteq [data : Nat, events : SUBSET Poll(cfg)!Flags, reg : cfg.regs]
    /\ callback \in [cfg.regs -> {"none", "queued", "held", "ended"}]
    /\ mask \in [cfg.regs -> SUBSET Poll(cfg)!Flags]
    /\ total \in [cfg.regs -> [Poll(cfg)!Flags -> Nat]] /\ consumed \in [cfg.regs -> [Poll(cfg)!Flags -> Nat]]
    /\ queue \in [cfg.regs -> SUBSET cfg.clients] /\ waiters \in [cfg.regs -> SUBSET cfg.clients]
    /\ call \in [cfg.clients -> CallRec(cfg)]
    /\ answers \in Seq(cfg.clients) /\ done \subseteq cfg.regs
    /\ \A c \in cfg.clients : Busy(cfg, c) /\ Makes(c)

\* EpTypes says what TypeOK says.
LEMMA EpTypesMean ==
    ASSUME NEW cfg
    PROVE  EpTypes(cfg) => Poll(cfg)!TypeOK
  <1>1. DOMAIN Poll(cfg)!WaitFlags = AllOps
    BY OpFlags
  <1> QED BY <1>1 DEF EpTypes, Poll!TypeOK, CallRec, AllOps, Outcomes, ConnStates

\* What the kernel answers.
LEMMA ResultTypes ==
    ASSUME NEW cfg, EpTypes(cfg), NEW r \in cfg.regs, NEW o \in AllOps \ {"rdhup"}, NEW res \in Poll(cfg)!Result(r, o)
    PROVE  /\ res[1] \in Outcomes /\ res[2] \in SUBSET Poll(cfg)!Flags /\ res[3] \in ConnStates
  <1>1. level[r] \in SUBSET Poll(cfg)!Flags /\ conn[r] \in ConnStates
    BY DEF EpTypes
  <1>2. CASE o \in {"read", "accept", "write"} /\ conn[r] = "unconnected"
    BY <1>1, <1>2 DEF Poll!Result, Outcomes, ConnStates
  <1>3. CASE o \in {"read", "accept"} /\ conn[r] # "unconnected"
    <2>1. Poll(cfg)!Result(r, o) = IF "ERR" \in level[r] THEN {<<"error", level[r] \ {"ERR"}, conn[r]>>}
            ELSE IF "IN" \notin level[r] THEN {<<"EAGAIN", level[r], conn[r]>>}
            ELSE {<<"ok", level[r], conn[r]>>} \cup
                 IF "RDHUP" \in level[r] THEN {} ELSE {<<"ok", level[r] \ {"IN"}, conn[r]>>}
      BY <1>3 DEF Poll!Result
    <2> QED BY <1>1, <2>1 DEF Outcomes
  <1>4. CASE o = "write" /\ conn[r] # "unconnected"
    <2>1. Poll(cfg)!Result(r, o) = IF "ERR" \in level[r] THEN {<<"error", level[r] \ {"ERR"}, conn[r]>>}
            ELSE IF "HUP" \in level[r] THEN {<<"error", level[r], conn[r]>>}
            ELSE IF "OUT" \notin level[r] THEN {<<"EAGAIN", level[r], conn[r]>>}
            ELSE {<<"ok", level[r], conn[r]>>, <<"ok", level[r] \ {"OUT"}, conn[r]>>}
      BY <1>4 DEF Poll!Result
    <2> QED BY <1>1, <2>1 DEF Outcomes
  <1>5. CASE o = "connect"
    <2>1. Poll(cfg)!Result(r, o) = (IF "connect" \in cfg.faults \/ conn[r] # "unconnected"
             THEN {<<"error", level[r], conn[r]>>} ELSE {}) \cup
            (IF conn[r] # "unconnected" THEN {}
             ELSE {<<"ok", {"OUT"}, "connected">>, <<"EINPROGRESS", {}, "connecting">>})
      BY <1>5 DEF Poll!Result
    <2> QED BY <1>1, <2>1 DEF Outcomes, ConnStates, Poll!Flags
  <1>6. CASE o = "so_error"
    <2>1. Poll(cfg)!Result(r, o) = IF conn[r] = "refused" THEN {<<"error", level[r] \ {"ERR"}, conn[r]>>}
            ELSE {<<"ok", level[r], conn[r]>>}
      BY <1>6 DEF Poll!Result
    <2> QED BY <1>1, <2>1 DEF Outcomes
  <1> QED BY <1>2, <1>3, <1>4, <1>5, <1>6 DEF AllOps

\* What follows wait_for.
LEMMA ProceedType ==
    ASSUME NEW cfg, NEW o \in AllOps, NEW r \in cfg.regs, NEW evs \in [Poll(cfg)!Flags -> Nat]
    PROVE  LET x == Poll(cfg)!Proceed(o, r, evs) IN
             /\ x \in CallRec(cfg) /\ x.pc \in {"idle", "call"}
             /\ x.pc = "call" => x.fd = r /\ x.op = o /\ o # "rdhup" /\ reg[r] # "closed"
             /\ \A f \in Poll(cfg)!Flags : x.current[f] <= evs[f]
  <1> DEFINE cur == [f \in Poll(cfg)!Flags |-> IF f \in Poll(cfg)!WaitFlags[o] THEN evs[f] ELSE 0]
  <1>1. cur \in [Poll(cfg)!Flags -> Nat] /\ \A f \in Poll(cfg)!Flags : cur[f] <= evs[f]
    OBVIOUS
  <1>2. Poll(cfg)!Idle \in CallRec(cfg) /\ Poll(cfg)!Idle.pc = "idle" /\ \A f \in Poll(cfg)!Flags : Poll(cfg)!Idle.current[f] = 0
    BY OpFlags DEF Poll!Idle, Poll!State, CallRec, Outcomes, Poll!Zero
  <1>3. Poll(cfg)!State("call", o, r, cur, "none") \in CallRec(cfg)
    BY <1>1 DEF Poll!State, CallRec, Outcomes
  <1>4. Poll(cfg)!Proceed(o, r, evs) = IF o = "rdhup" \/ reg[r] = "closed" THEN Poll(cfg)!Idle ELSE Poll(cfg)!State("call", o, r, cur, "none")
    BY DEF Poll!Proceed
  <1>5. Poll(cfg)!State("call", o, r, cur, "none").pc = "call" /\ Poll(cfg)!State("call", o, r, cur, "none").fd = r
        /\ Poll(cfg)!State("call", o, r, cur, "none").op = o /\ Poll(cfg)!State("call", o, r, cur, "none").current = cur
    BY DEF Poll!State
  <1> HIDE DEF cur
  <1>6. CASE o = "rdhup" \/ reg[r] = "closed"
    BY <1>6, <1>2, <1>4
  <1>7. CASE ~(o = "rdhup" \/ reg[r] = "closed")
    BY <1>7, <1>1, <1>3, <1>4, <1>5
  <1> QED BY <1>6, <1>7

\* A client that is idle.
LEMMA IdleType ==
    ASSUME NEW cfg
    PROVE  Poll(cfg)!Idle \in CallRec(cfg) /\ Poll(cfg)!Idle.pc = "idle" /\ \A f \in Poll(cfg)!Flags : Poll(cfg)!Idle.current[f] = 0
  BY OpFlags DEF Poll!Idle, Poll!State, CallRec, Outcomes, Poll!Zero

\* wait_for: the coroutine goes on, or waits on the queue.
LEMMA WaitForCases ==
    ASSUME NEW cfg, EpTypes(cfg), NEW c \in cfg.clients, NEW r \in cfg.regs, NEW o \in AllOps, NEW m, NEW used, Poll(cfg)!WaitFor(c, r, o, m, used)
    PROVE  /\ \A u \in cfg.clients \ {c} : call'[u] = call[u]
           /\ call' \in [cfg.clients -> CallRec(cfg)] /\ queue' \in [cfg.regs -> SUBSET cfg.clients]
           /\ \/ call'[c] = Poll(cfg)!Proceed(o, r, total[r]) /\ queue' = queue
              \/ call'[c] = Poll(cfg)!Idle /\ queue' = queue
              \/ /\ call'[c] = Poll(cfg)!State("wait", o, r, Poll(cfg)!Zero, "none") /\ ~Poll(cfg)!MightBeReady(r, Poll(cfg)!WaitFlags[o], m, used)
                 /\ queue' = [queue EXCEPT ![r] = @ \cup {c}]
           /\ (callback[r] # "ended" \/ Poll(cfg)!MightBeReady(r, Poll(cfg)!WaitFlags[o], m, used))
                => call'[c] # Poll(cfg)!Idle \/ o = "rdhup" \/ reg[r] = "closed"
  <1> DEFINE next == IF Poll(cfg)!MightBeReady(r, Poll(cfg)!WaitFlags[o], m, used) THEN Poll(cfg)!Proceed(o, r, total[r])
                     ELSE IF ~Poll(cfg)!MightBeReady(r, Poll(cfg)!WaitFlags[o], m, used) /\ callback[r] # "ended"
                          THEN Poll(cfg)!State("wait", o, r, Poll(cfg)!Zero, "none") ELSE Poll(cfg)!Idle
  <1>1. call' = [call EXCEPT ![c] = next]
    BY DEF Poll!WaitFor
  <1>2. queue' = IF ~Poll(cfg)!MightBeReady(r, Poll(cfg)!WaitFlags[o], m, used) /\ callback[r] # "ended"
          THEN [queue EXCEPT ![r] = @ \cup {c}] ELSE queue
    BY DEF Poll!WaitFor
  <1>3. call \in [cfg.clients -> CallRec(cfg)] /\ queue \in [cfg.regs -> SUBSET cfg.clients] /\ total[r] \in [Poll(cfg)!Flags -> Nat]
    BY DEF EpTypes
  <1>4. Poll(cfg)!Proceed(o, r, total[r]) \in CallRec(cfg) /\ Poll(cfg)!Idle \in CallRec(cfg)
    BY <1>3, ProceedType, IdleType
  <1>5. Poll(cfg)!State("wait", o, r, Poll(cfg)!Zero, "none") \in CallRec(cfg) /\ Poll(cfg)!State("wait", o, r, Poll(cfg)!Zero, "none").pc = "wait"
    BY OpFlags DEF Poll!State, CallRec, Outcomes
  <1>6. Poll(cfg)!Proceed(o, r, total[r]) # Poll(cfg)!Idle \/ o = "rdhup" \/ reg[r] = "closed"
    BY DEF Poll!Proceed, Poll!Idle, Poll!State
  <1>7. Poll(cfg)!Idle.pc = "idle"
    BY IdleType
  <1>8. next \in CallRec(cfg) /\ call'[c] = next /\ call' \in [cfg.clients -> CallRec(cfg)] /\ \A u \in cfg.clients \ {c} : call'[u] = call[u]
    BY <1>1, <1>3, <1>4, <1>5
  <1>9. queue' \in [cfg.regs -> SUBSET cfg.clients]
    BY <1>2, <1>3
  <1> QED BY <1>2, <1>5, <1>6, <1>7, <1>8, <1>9

\* The record of a client stays one of a syscall, or of a wait.
LEMMA CallTypes ==
    ASSUME NEW cfg, EpTypes(cfg), NEW c \in cfg.clients, NEW r \in cfg.regs, NEW o \in AllOps,
           \A u \in cfg.clients \ {c} : call'[u] = call[u],
           \/ call'[c] = Poll(cfg)!Proceed(o, r, total[r])
           \/ call'[c] = Poll(cfg)!Idle
           \/ call'[c] = Poll(cfg)!State("wait", o, r, Poll(cfg)!Zero, "none")
    PROVE  \A u \in cfg.clients : Busy(cfg, u)' /\ Makes(u)'
  <1>1. total[r] \in [Poll(cfg)!Flags -> Nat]
    BY DEF EpTypes
  <1>2. Busy(cfg, c)' /\ Makes(c)'
    <2>1. CASE call'[c] = Poll(cfg)!Proceed(o, r, total[r])
      BY <2>1, <1>1, ProceedType DEF Busy, Makes
    <2>2. CASE call'[c] = Poll(cfg)!Idle
      BY <2>2, IdleType DEF Busy, Makes
    <2>3. CASE call'[c] = Poll(cfg)!State("wait", o, r, Poll(cfg)!Zero, "none")
      BY <2>3 DEF Busy, Makes, Poll!State
    <2> QED BY <2>1, <2>2, <2>3
  <1>3. ASSUME NEW u \in cfg.clients \ {c} PROVE Busy(cfg, u)' /\ Makes(u)'
    BY DEF EpTypes, Busy, Makes
  <1> QED BY <1>2, <1>3

\* Types hold at the start.
LEMMA EpTypesInit ==
    ASSUME NEW cfg, Poll(cfg)!EpollerAssumption, Poll(cfg)!Init PROVE EpTypes(cfg)
  <1>1. cfg.maxArrivals \in Nat /\ cfg.unconnected \subseteq cfg.regs
    BY DEF Poll!EpollerAssumption
  <1>2. call \in [cfg.clients -> CallRec(cfg)] /\ \A c \in cfg.clients : call[c].pc = "idle"
    BY IdleType DEF Poll!Init
  <1>3. \A c \in cfg.clients : Busy(cfg, c) /\ Makes(c)
    BY <1>2 DEF Busy, Makes
  <1>4. Poll(cfg)!Zero \in [Poll(cfg)!Flags -> Nat]
    BY OpFlags
  <1>5. total \in [cfg.regs -> [Poll(cfg)!Flags -> Nat]] /\ consumed \in [cfg.regs -> [Poll(cfg)!Flags -> Nat]]
    BY <1>4 DEF Poll!Init
  <1>6. level \in [cfg.regs -> SUBSET Poll(cfg)!Flags] /\ mask \in [cfg.regs -> SUBSET Poll(cfg)!Flags] /\ conn \in [cfg.regs -> ConnStates]
    BY DEF Poll!Init, Poll!Flags, ConnStates
  <1> QED BY <1>1, <1>2, <1>3, <1>5, <1>6 DEF EpTypes, Poll!Init

\* The kernel's own steps, and what the registrations do.
LEMMA EpTypesKernel ==
    ASSUME NEW cfg, Poll(cfg)!EpollerAssumption, EpTypes(cfg),
           \/ \E r \in cfg.regs, flag \in cfg.arrivals : Poll(cfg)!Arrive(r, flag)
           \/ \E r \in cfg.regs, result \in {"connected", "refused"} : Poll(cfg)!Established(r, result)
           \/ \E r \in cfg.regs : Poll(cfg)!EpollAdd(r) \/ Poll(cfg)!Registered(r) \/ Poll(cfg)!Delete(r) \/ Poll(cfg)!Deleted(r)
    PROVE  EpTypes(cfg)'
  <1>0. ASSUME NEW r \in cfg.regs PROVE Append(rdlist, r) \in Seq(cfg.regs)
    BY DEF EpTypes
  <1>1. ASSUME UNCHANGED call PROVE \A c \in cfg.clients : (Busy(cfg, c) /\ Makes(c))'
    BY <1>1 DEF EpTypes, Busy, Makes
  <1>2. ASSUME NEW r \in cfg.regs, NEW flag \in cfg.arrivals, Poll(cfg)!Arrive(r, flag) PROVE EpTypes(cfg)'
    <2>1. rdlist' \in Seq(cfg.regs)
      BY <1>2, <1>0 DEF Poll!Arrive, Poll!Wakeup, EpTypes
    <2>2. level' \in [cfg.regs -> SUBSET Poll(cfg)!Flags]
      <3>1. flag \in Poll(cfg)!Flags /\ level \in [cfg.regs -> SUBSET Poll(cfg)!Flags]
        BY DEF Poll!EpollerAssumption, EpTypes
      <3> QED BY <3>1, <1>2 DEF Poll!Arrive, Poll!Flags
    <2>3. arrivals' \in 0..cfg.maxArrivals
      BY <1>2 DEF Poll!Arrive, EpTypes, Poll!EpollerAssumption
    <2>4. UNCHANGED <<conn, Poll(cfg)!wait, Poll(cfg)!epolled, call, answers, done>>
      BY <1>2 DEF Poll!Arrive
    <2> QED BY <2>1, <2>2, <2>3, <2>4, <1>1 DEF EpTypes, Poll!wait, Poll!epolled
  <1>3. ASSUME NEW r \in cfg.regs, NEW result \in {"connected", "refused"}, Poll(cfg)!Established(r, result) PROVE EpTypes(cfg)'
    <2>1. rdlist' \in Seq(cfg.regs)
      BY <1>3, <1>0 DEF Poll!Established, Poll!Wakeup, EpTypes
    <2>2. level' \in [cfg.regs -> SUBSET Poll(cfg)!Flags] /\ conn' \in [cfg.regs -> ConnStates]
      BY <1>3 DEF Poll!Established, Poll!Flags, EpTypes, ConnStates
    <2>4. UNCHANGED <<arrivals, Poll(cfg)!wait, Poll(cfg)!epolled, call, answers, done>>
      BY <1>3 DEF Poll!Established
    <2> QED BY <2>1, <2>2, <2>4, <1>1 DEF EpTypes, Poll!wait, Poll!epolled
  <1>4. ASSUME NEW r \in cfg.regs, Poll(cfg)!EpollAdd(r) PROVE EpTypes(cfg)'
    <2>1. rdlist' \in Seq(cfg.regs)
      BY <1>4, <1>0 DEF Poll!EpollAdd, EpTypes
    <2>2. reg' \in [cfg.regs -> {"new", "adding", "added", "registered", "deleting", "closed"}]
      BY <1>4 DEF Poll!EpollAdd, EpTypes
    <2> QED BY <2>1, <2>2, <1>1, <1>4 DEF EpTypes, Poll!EpollAdd, Poll!wait
  <1>5. ASSUME NEW r \in cfg.regs, Poll(cfg)!Registered(r) PROVE EpTypes(cfg)'
    <2>2. reg' \in [cfg.regs -> {"new", "adding", "added", "registered", "deleting", "closed"}]
      BY <1>5 DEF Poll!Registered, EpTypes
    <2> QED BY <2>2, <1>1, <1>5 DEF EpTypes, Poll!Registered, Poll!wait, Poll!kernel
  <1>6. ASSUME NEW r \in cfg.regs, Poll(cfg)!Delete(r) PROVE EpTypes(cfg)'
    <2>1. rdlist' \in Seq(cfg.regs)
      BY <1>6, PollSelects DEF Poll!Delete, EpTypes, Poll!Without
    <2>2. reg' \in [cfg.regs -> {"new", "adding", "added", "registered", "deleting", "closed"}]
      BY <1>6 DEF Poll!Delete, EpTypes
    <2> QED BY <2>1, <2>2, <1>1, <1>6 DEF EpTypes, Poll!Delete, Poll!wait
  <1>7. ASSUME NEW r \in cfg.regs, Poll(cfg)!Deleted(r) PROVE EpTypes(cfg)'
    <2>1. reg' \in [cfg.regs -> {"new", "adding", "added", "registered", "deleting", "closed"}]
      BY <1>7 DEF Poll!Deleted, EpTypes
    <2>2. pending_remove' \subseteq Nat
      <3>1. number[r] \in Nat /\ pending_remove \subseteq Nat
        BY DEF EpTypes
      <3> QED BY <3>1, <1>7 DEF Poll!Deleted
    <2> QED BY <2>1, <2>2, <1>1, <1>7 DEF EpTypes, Poll!Deleted, Poll!kernel
  <1> QED BY <1>2, <1>3, <1>4, <1>5, <1>6, <1>7

\* epoll_wait.
LEMMA EpTypesWait ==
    ASSUME NEW cfg, Poll(cfg)!EpollerAssumption, EpTypes(cfg), Poll(cfg)!EpollWait \/ Poll(cfg)!EpollWaitEmpty
    PROVE  EpTypes(cfg)'
  <1>1. ASSUME UNCHANGED call PROVE \A c \in cfg.clients : (Busy(cfg, c) /\ Makes(c))'
    BY <1>1 DEF EpTypes, Busy, Makes
  <1>2. Poll(cfg)!Live \in Seq(cfg.regs)
    BY PollSelects DEF Poll!Live, EpTypes
  <1>3. CASE Poll(cfg)!EpollWait
    <2> DEFINE n == IF Len(Poll(cfg)!Live) < MaxReported THEN Len(Poll(cfg)!Live) ELSE MaxReported
    <2>1. n \in 0..Len(Poll(cfg)!Live)
      <3> HIDE DEF Poll!Live
      <3> QED BY <1>2 DEF Poll!EpollerAssumption
    <2>2. /\ received' = {[data |-> number[Poll(cfg)!Live[i]], events |-> level[Poll(cfg)!Live[i]], reg |-> Poll(cfg)!Live[i]] : i \in 1..n}
          /\ rdlist' = SubSeq(Poll(cfg)!Live, n + 1, Len(Poll(cfg)!Live)) /\ waiter' = "answer"
          /\ UNCHANGED <<level, conn, arrivals, pending_remove, Poll(cfg)!epolled, call, answers, done>>
      BY <1>3 DEF Poll!EpollWait
    <2> HIDE DEF n, Poll!Live
    <2>3. rdlist' \in Seq(cfg.regs)
      <3>1. SubSeq(Poll(cfg)!Live, n + 1, Len(Poll(cfg)!Live)) \in Seq(cfg.regs)
        BY <1>2, <2>1, RestOf
      <3> QED BY <3>1, <2>2
    <2>4. received' \subseteq [data : Nat, events : SUBSET Poll(cfg)!Flags, reg : cfg.regs]
      <3>1. ASSUME NEW i \in 1..n
            PROVE  Poll(cfg)!Live[i] \in cfg.regs /\ number[Poll(cfg)!Live[i]] \in Nat
                     /\ level[Poll(cfg)!Live[i]] \in SUBSET Poll(cfg)!Flags
        <4>1. i \in 1..Len(Poll(cfg)!Live)
          BY <2>1
        <4> QED BY <4>1, <1>2 DEF EpTypes
      <3> QED BY <3>1, <2>2
    <2> QED BY <2>2, <2>3, <2>4, <1>1 DEF EpTypes, Poll!epolled
  <1>4. CASE Poll(cfg)!EpollWaitEmpty
    BY <1>4, <1>1 DEF EpTypes, Poll!EpollWaitEmpty, Poll!kernel, Poll!epolled
  <1> QED BY <1>3, <1>4

\* There is a number that nobody has.
LEMMA NumberFree ==
    ASSUME NEW cfg, Poll(cfg)!EpollerAssumption, EpTypes(cfg), NEW r \in cfg.regs
    PROVE  \E k \in 0..Cardinality(cfg.regs) : Poll(cfg)!AllocateNumber(r) = cfg.numbers[r] + 1000 * k
             /\ \A q \in cfg.regs : number[q] # cfg.numbers[r] + 1000 * k
  <1> DEFINE N == Cardinality(cfg.regs)
             free == {k \in 0..N : \A q \in cfg.regs : number[q] # cfg.numbers[r] + 1000 * k}
  <1>1. N \in Nat /\ cfg.numbers[r] \in Nat /\ number \in [cfg.regs -> Nat]
    BY FS_CardinalityType, PollLibrary DEF Poll!EpollerAssumption, EpTypes
  <1>2. free # {}
    <2> SUFFICES ASSUME free = {} PROVE FALSE
      OBVIOUS
    <2>1. \A k \in 0..N : \E q \in cfg.regs : number[q] = cfg.numbers[r] + 1000 * k
      OBVIOUS
    <2> DEFINE at == [k \in 0..N |-> CHOOSE q \in cfg.regs : number[q] = cfg.numbers[r] + 1000 * k]
    <2>2. \A k \in 0..N : at[k] \in cfg.regs /\ number[at[k]] = cfg.numbers[r] + 1000 * k
      BY <2>1
    <2> HIDE DEF at
    <2>3. at \in [0..N -> cfg.regs]
      BY <2>2 DEF at
    <2>4. \A j, k \in 0..N : at[j] = at[k] => j = k
      BY <2>2, <1>1
    <2>5. at \in Injection(0..N, cfg.regs)
      BY <2>3, <2>4 DEF Injection, IsInjective
    <2>6. IsFiniteSet(cfg.regs)
      BY PollLibrary DEF Poll!EpollerAssumption
    <2>7. Cardinality(0..N) <= Cardinality(cfg.regs)
      BY <2>5, <2>6, FS_Injection
    <2>8. Cardinality(0..N) = N + 1
      BY <1>1, FS_Interval
    <2> QED BY <2>7, <2>8, <1>1
  <1>3. PICK k \in free : \A j \in free : k <= j
    <2>1. free \in SUBSET Nat
      BY <1>1
    <2> HIDE DEF free
    <2> QED BY <1>2, <2>1, Least
  <1> DEFINE best == CHOOSE m \in free : \A j \in free : m <= j
  <1>4. best \in free
    BY <1>3
  <1>5. Poll(cfg)!AllocateNumber(r) = cfg.numbers[r] + 1000 * best
    <2> DEFINE from(n) == cfg.numbers[r] + 1000 * (CHOOSE m \in {i \in 0..n : \A q \in cfg.regs : number[q] # cfg.numbers[r] + 1000 * i} :
                             \A j \in {i \in 0..n : \A q \in cfg.regs : number[q] # cfg.numbers[r] + 1000 * i} : m <= j)
    <2>1. Poll(cfg)!AllocateNumber(r) = from(Poll(cfg)!Cardinality(cfg.regs))
      BY DEF Poll!AllocateNumber
    <2>2. from(N) = cfg.numbers[r] + 1000 * best
      OBVIOUS
    <2>3. Poll(cfg)!Cardinality(cfg.regs) = N
      BY PollLibrary
    <2> HIDE DEF from, N, free, best
    <2> QED BY <2>1, <2>2, <2>3
  <1> HIDE DEF best
  <1> QED BY <1>4, <1>5

\* register keeps the types.
LEMMA EpTypesRegister ==
    ASSUME NEW cfg, Poll(cfg)!EpollerAssumption, EpTypes(cfg), NEW r \in cfg.regs, Poll(cfg)!Register(r)
    PROVE  EpTypes(cfg)'
  <1>1. \A c \in cfg.clients : (Busy(cfg, c) /\ Makes(c))'
    BY DEF EpTypes, Busy, Makes, Poll!Register
  <1>2. Poll(cfg)!AllocateNumber(r) \in Nat
    <2>1. cfg.numbers[r] \in Nat /\ Cardinality(cfg.regs) \in Nat
      BY FS_CardinalityType, PollLibrary DEF Poll!EpollerAssumption
    <2> QED BY <2>1, NumberFree
  <1>3. reg' \in [cfg.regs -> {"new", "adding", "added", "registered", "deleting", "closed"}] /\ number' \in [cfg.regs -> Nat]
        /\ callback' \in [cfg.regs -> {"none", "queued", "held", "ended"}]
    BY <1>2 DEF Poll!Register, EpTypes
  <1> QED BY <1>1, <1>3 DEF EpTypes, Poll!Register, Poll!kernel, Poll!wait

\* What an answer of epoll_wait does to one registration.
LEMMA DispatchedAt ==
    ASSUME NEW cfg, EpTypes(cfg), Poll(cfg)!Dispatch, NEW r \in cfg.regs
    PROVE  /\ Poll(cfg)!EventsOf(r) \in SUBSET Poll(cfg)!Flags
           /\ \A f \in Poll(cfg)!Flags : total'[r][f] = total[r][f] + IF f \in Poll(cfg)!EventsOf(r) THEN 1 ELSE 0
           /\ mask'[r] = mask[r] \cup Poll(cfg)!EventsOf(r)
           /\ queue'[r] = IF Poll(cfg)!EventsOf(r) # {} THEN {} ELSE queue[r] \ Poll(cfg)!Thrown(r)
           /\ waiters'[r] = IF Poll(cfg)!EventsOf(r) # {} THEN Poll(cfg)!Waiting(r) \ Poll(cfg)!Resumed(r) ELSE waiters[r]
           /\ callback'[r] = IF Poll(cfg)!Removed(r) THEN "ended" ELSE IF callback[r] = "queued" THEN "held" ELSE callback[r]
  <1>1. Poll(cfg)!EventsOf(r) \in SUBSET Poll(cfg)!Flags
    BY DEF Poll!EventsOf, EpTypes
  <1>2. /\ total' = [q \in cfg.regs |-> [f \in Poll(cfg)!Flags |-> total[q][f] + IF f \in Poll(cfg)!EventsOf(q) THEN 1 ELSE 0]]
        /\ mask' = [q \in cfg.regs |-> mask[q] \cup Poll(cfg)!EventsOf(q)]
        /\ queue' = [q \in cfg.regs |-> IF Poll(cfg)!EventsOf(q) # {} THEN {} ELSE queue[q] \ Poll(cfg)!Thrown(q)]
        /\ waiters' = [q \in cfg.regs |-> IF Poll(cfg)!EventsOf(q) # {} THEN Poll(cfg)!Waiting(q) \ Poll(cfg)!Resumed(q) ELSE waiters[q]]
        /\ callback' = [q \in cfg.regs |-> IF Poll(cfg)!Removed(q) THEN "ended" ELSE IF callback[q] = "queued" THEN "held" ELSE callback[q]]
    BY DEF Poll!Dispatch
  <1> QED BY <1>1, <1>2

\* The counts of events and the readiness Dispatch leaves.
LEMMA DispatchedCounts ==
    ASSUME NEW cfg, Poll(cfg)!Dispatch
    PROVE  \A r \in cfg.regs : /\ \A f \in Poll(cfg)!Flags : total'[r][f] = total[r][f] + IF f \in Poll(cfg)!EventsOf(r) THEN 1 ELSE 0
                               /\ mask'[r] = mask[r] \cup Poll(cfg)!EventsOf(r)
  <1>1. /\ total' = [r \in cfg.regs |-> [f \in Poll(cfg)!Flags |-> total[r][f] + IF f \in Poll(cfg)!EventsOf(r) THEN 1 ELSE 0]]
        /\ mask' = [r \in cfg.regs |-> mask[r] \cup Poll(cfg)!EventsOf(r)]
    BY DEF Poll!Dispatch
  <1> QED BY ONLY <1>1

\* What Dispatch makes of each client and registration.
LEMMA Dispatched ==
    ASSUME NEW cfg, EpTypes(cfg), Poll(cfg)!Dispatch
    PROVE  /\ waiter' = "epoll_wait" /\ received' = {} /\ pending_remove' = {}
           /\ UNCHANGED <<level, rdlist, conn, arrivals, reg, number, consumed, answers, done>>
           /\ \A r \in cfg.regs : /\ Poll(cfg)!EventsOf(r) \in SUBSET Poll(cfg)!Flags
                                  /\ \A f \in Poll(cfg)!Flags : total'[r][f] = total[r][f] + IF f \in Poll(cfg)!EventsOf(r) THEN 1 ELSE 0
                                  /\ mask'[r] = mask[r] \cup Poll(cfg)!EventsOf(r)
                                  /\ queue'[r] = IF Poll(cfg)!EventsOf(r) # {} THEN {} ELSE queue[r] \ Poll(cfg)!Thrown(r)
                                  /\ waiters'[r] = IF Poll(cfg)!EventsOf(r) # {} THEN Poll(cfg)!Waiting(r) \ Poll(cfg)!Resumed(r) ELSE waiters[r]
                                  /\ callback'[r] = IF Poll(cfg)!Removed(r) THEN "ended" ELSE IF callback[r] = "queued" THEN "held" ELSE callback[r]
           /\ \A c \in cfg.clients : \/ \E r \in cfg.regs : c \in Poll(cfg)!Thrown(r) /\ call'[c] = Poll(cfg)!Idle
                                     \/ \E r \in cfg.regs : c \in Poll(cfg)!Resumed(r)
                                          /\ call'[c] = Poll(cfg)!Proceed(call[c].op, call[c].fd, total'[call[c].fd])
                                     \/ call'[c] = call[c] /\ \A r \in cfg.regs : c \notin Poll(cfg)!Thrown(r) /\ c \notin Poll(cfg)!Resumed(r)
           /\ total' \in [cfg.regs -> [Poll(cfg)!Flags -> Nat]] /\ mask' \in [cfg.regs -> SUBSET Poll(cfg)!Flags]
           /\ queue' \in [cfg.regs -> SUBSET cfg.clients] /\ waiters' \in [cfg.regs -> SUBSET cfg.clients]
           /\ callback' \in [cfg.regs -> {"none", "queued", "held", "ended"}]
           /\ call' = [c \in cfg.clients |-> call'[c]]
  <1>1. ASSUME NEW r \in cfg.regs PROVE Poll(cfg)!EventsOf(r) \in SUBSET Poll(cfg)!Flags
    BY DEF Poll!EventsOf, EpTypes
  <1>2. /\ total' = [r \in cfg.regs |-> [f \in Poll(cfg)!Flags |-> total[r][f] + IF f \in Poll(cfg)!EventsOf(r) THEN 1 ELSE 0]]
        /\ mask' = [r \in cfg.regs |-> mask[r] \cup Poll(cfg)!EventsOf(r)]
        /\ queue' = [r \in cfg.regs |-> IF Poll(cfg)!EventsOf(r) # {} THEN {} ELSE queue[r] \ Poll(cfg)!Thrown(r)]
        /\ waiters' = [r \in cfg.regs |-> IF Poll(cfg)!EventsOf(r) # {} THEN Poll(cfg)!Waiting(r) \ Poll(cfg)!Resumed(r) ELSE waiters[r]]
        /\ callback' = [r \in cfg.regs |-> IF Poll(cfg)!Removed(r) THEN "ended" ELSE IF callback[r] = "queued" THEN "held" ELSE callback[r]]
        /\ call' = [c \in cfg.clients |-> IF c \in UNION {Poll(cfg)!Thrown(r) : r \in cfg.regs} THEN Poll(cfg)!Idle
                        ELSE IF c \in UNION {Poll(cfg)!Resumed(r) : r \in cfg.regs} THEN Poll(cfg)!Proceed(call[c].op, call[c].fd, total'[call[c].fd])
                        ELSE call[c]]
    BY DEF Poll!Dispatch
  <1>3. ASSUME NEW r \in cfg.regs, NEW f \in Poll(cfg)!Flags PROVE total[r][f] + (IF f \in Poll(cfg)!EventsOf(r) THEN 1 ELSE 0) \in Nat
    BY DEF EpTypes
  <1>4. total' \in [cfg.regs -> [Poll(cfg)!Flags -> Nat]]
    BY <1>2, <1>3
  <1>5. mask' \in [cfg.regs -> SUBSET Poll(cfg)!Flags]
    BY <1>2, <1>1 DEF EpTypes
  <1>6. \A r \in cfg.regs : Poll(cfg)!Waiting(r) \in SUBSET cfg.clients /\ queue[r] \in SUBSET cfg.clients
    BY DEF Poll!Waiting, EpTypes
  <1>7. queue' \in [cfg.regs -> SUBSET cfg.clients] /\ waiters' \in [cfg.regs -> SUBSET cfg.clients]
    BY <1>2, <1>6 DEF EpTypes
  <1>8. callback' \in [cfg.regs -> {"none", "queued", "held", "ended"}]
    BY <1>2 DEF EpTypes
  <1>9. ASSUME NEW c \in cfg.clients
        PROVE  \/ \E r \in cfg.regs : c \in Poll(cfg)!Thrown(r) /\ call'[c] = Poll(cfg)!Idle
               \/ \E r \in cfg.regs : c \in Poll(cfg)!Resumed(r) /\ call'[c] = Poll(cfg)!Proceed(call[c].op, call[c].fd, total'[call[c].fd])
               \/ call'[c] = call[c] /\ \A r \in cfg.regs : c \notin Poll(cfg)!Thrown(r) /\ c \notin Poll(cfg)!Resumed(r)
    BY <1>2
  <1>10. /\ waiter' = "epoll_wait" /\ received' = {} /\ pending_remove' = {}
         /\ UNCHANGED <<level, rdlist, conn, arrivals, reg, number, consumed, answers, done>>
    BY DEF Poll!Dispatch, Poll!kernel
  <1>11. ASSUME NEW r \in cfg.regs
         PROVE  /\ Poll(cfg)!EventsOf(r) \in SUBSET Poll(cfg)!Flags
                /\ \A f \in Poll(cfg)!Flags : total'[r][f] = total[r][f] + IF f \in Poll(cfg)!EventsOf(r) THEN 1 ELSE 0
                /\ mask'[r] = mask[r] \cup Poll(cfg)!EventsOf(r)
                /\ queue'[r] = IF Poll(cfg)!EventsOf(r) # {} THEN {} ELSE queue[r] \ Poll(cfg)!Thrown(r)
                /\ waiters'[r] = IF Poll(cfg)!EventsOf(r) # {} THEN Poll(cfg)!Waiting(r) \ Poll(cfg)!Resumed(r) ELSE waiters[r]
                /\ callback'[r] = IF Poll(cfg)!Removed(r) THEN "ended" ELSE IF callback[r] = "queued" THEN "held" ELSE callback[r]
    BY <1>1, <1>2
  <1>12. call' = [c \in cfg.clients |-> call'[c]]
    BY <1>2
  <1> QED BY <1>4, <1>5, <1>7, <1>8, <1>9, <1>10, <1>11, <1>12

\* Who is resumed waits, if those on the queues do.
LEMMA EpTypesDispatch ==
    ASSUME NEW cfg, EpTypes(cfg), Poll(cfg)!Dispatch, \A r \in cfg.regs : \A c \in Poll(cfg)!Waiting(r) : call[c].pc = "wait"
    PROVE  EpTypes(cfg)' /\ \A c \in cfg.clients : call'[c] = Poll(cfg)!Idle \/ call'[c] = call[c]
             \/ (call[c].pc = "wait" /\ call'[c] = Poll(cfg)!Proceed(call[c].op, call[c].fd, total'[call[c].fd]))
  <1> DEFINE Goes(c) == call'[c] = Poll(cfg)!Idle \/ call'[c] = call[c]
               \/ (call[c].pc = "wait" /\ call'[c] = Poll(cfg)!Proceed(call[c].op, call[c].fd, total'[call[c].fd]))
  <1>1. ASSUME NEW c \in cfg.clients PROVE Goes(c)
    BY Dispatched DEF Poll!Resumed
  <1>2. ASSUME NEW c \in cfg.clients PROVE call'[c] \in CallRec(cfg) /\ Busy(cfg, c)' /\ Makes(c)'
    <2>1. CASE call'[c] = Poll(cfg)!Idle
      BY <2>1, IdleType DEF Busy, Makes
    <2>2. CASE call'[c] = call[c]
      BY <2>2 DEF EpTypes, Busy, Makes
    <2>3. CASE call[c].pc = "wait" /\ call'[c] = Poll(cfg)!Proceed(call[c].op, call[c].fd, total'[call[c].fd])
      <3>1. call[c].op \in AllOps /\ call[c].fd \in cfg.regs
        BY <2>3 DEF EpTypes, Busy
      <3>2. total'[call[c].fd] \in [Poll(cfg)!Flags -> Nat]
        BY <3>1, Dispatched
      <3> QED BY <2>3, <3>1, <3>2, ProceedType DEF Busy, Makes
    <2> QED BY <2>1, <2>2, <2>3, <1>1
  <1>3. call' \in [cfg.clients -> CallRec(cfg)]
    BY <1>2, Dispatched
  <1>4. /\ level' \in [cfg.regs -> SUBSET Poll(cfg)!Flags] /\ rdlist' \in Seq(cfg.regs)
             /\ conn' \in [cfg.regs -> ConnStates] /\ arrivals' \in 0..cfg.maxArrivals
        /\ reg' \in [cfg.regs -> {"new", "adding", "added", "registered", "deleting", "closed"}]
        /\ number' \in [cfg.regs -> Nat] /\ pending_remove' \subseteq Nat
        /\ waiter' \in {"epoll_wait", "answer", "failed"}
        /\ received' \subseteq [data : Nat, events : SUBSET Poll(cfg)!Flags, reg : cfg.regs]
        /\ consumed' \in [cfg.regs -> [Poll(cfg)!Flags -> Nat]] /\ answers' \in Seq(cfg.clients) /\ done' \subseteq cfg.regs
    BY Dispatched DEF EpTypes
  <1>5. EpTypes(cfg)'
    BY <1>2, <1>3, <1>4, Dispatched DEF EpTypes
  <1> HIDE DEF Goes
  <1> QED BY <1>1, <1>5 DEF Goes

\* A failing epoll_wait keeps the types.
LEMMA EpTypesFails ==
    ASSUME NEW cfg, EpTypes(cfg), Poll(cfg)!EpollWaitFails PROVE EpTypes(cfg)'
  <1> DEFINE told == {r \in cfg.regs : callback[r] = "queued"}
  <1>1. /\ waiter' = "failed"
        /\ callback' = [r \in cfg.regs |-> IF r \in told THEN "ended" ELSE callback[r]]
        /\ call' = [c \in cfg.clients |-> IF \E r \in told : c \in queue[r] THEN Poll(cfg)!Idle ELSE call[c]]
        /\ queue' = [r \in cfg.regs |-> IF r \in told THEN {} ELSE queue[r]]
        /\ UNCHANGED <<Poll(cfg)!kernel, received, pending_remove, reg, number, mask, total, consumed, waiters, answers, done>>
    BY DEF Poll!EpollWaitFails
  <1>2. ASSUME NEW c \in cfg.clients PROVE call'[c] \in CallRec(cfg) /\ Busy(cfg, c)' /\ Makes(c)'
    <2>1. call'[c] = Poll(cfg)!Idle \/ call'[c] = call[c]
      BY <1>1
    <2> QED BY <2>1, IdleType DEF Busy, Makes, EpTypes
  <1>3. call' \in [cfg.clients -> CallRec(cfg)]
    BY <1>1, <1>2
  <1>4. callback' \in [cfg.regs -> {"none", "queued", "held", "ended"}]
    BY <1>1 DEF EpTypes
  <1>5. queue' \in [cfg.regs -> SUBSET cfg.clients]
    BY <1>1 DEF EpTypes
  <1> QED BY <1>1, <1>2, <1>3, <1>4, <1>5 DEF EpTypes, Poll!kernel

\* The head of the answers.
LEMMA Processed ==
    ASSUME NEW cfg, EpTypes(cfg), NEW c \in cfg.clients, Poll(cfg)!Process(c)
    PROVE  /\ answers' \in Seq(cfg.clients) /\ Len(answers) \in Nat \ {0} /\ Len(answers') = Len(answers) - 1 /\ answers[1] = c
           /\ \A i \in 1..Len(answers') : i + 1 \in 1..Len(answers) /\ answers'[i] = answers[i + 1]
  <1>1. answers \in Seq(cfg.clients) /\ answers # << >> /\ Head(answers) = c /\ answers' = Tail(answers)
    BY DEF EpTypes, Poll!Process
  <1> QED BY <1>1

\* What is learnt from an answer.
LEMMA Learnt ==
    ASSUME NEW cfg, EpTypes(cfg), NEW c \in cfg.clients, call[c].fd \in cfg.regs, NEW flags,
           NEW m \in SUBSET Poll(cfg)!Flags, Poll(cfg)!Learn(c, flags, m)
    PROVE  LET r == call[c].fd IN
           /\ consumed' \in [cfg.regs -> [Poll(cfg)!Flags -> Nat]] /\ mask' \in [cfg.regs -> SUBSET Poll(cfg)!Flags]
           /\ mask'[r] = m /\ \A q \in cfg.regs \ {r} : mask'[q] = mask[q] /\ consumed'[q] = consumed[q]
           /\ consumed'[r] = Poll(cfg)!Consume(c, flags)
           /\ \A f \in Poll(cfg)!Flags : Poll(cfg)!Consume(c, flags)[f] =
                IF f \in flags /\ call[c].current[f] > consumed[r][f] THEN call[c].current[f] ELSE consumed[r][f]
  <1> DEFINE r == call[c].fd
  <1>1. consumed \in [cfg.regs -> [Poll(cfg)!Flags -> Nat]] /\ mask \in [cfg.regs -> SUBSET Poll(cfg)!Flags]
          /\ call[c].current \in [Poll(cfg)!Flags -> Nat]
    BY DEF EpTypes, CallRec
  <1>2. Poll(cfg)!Consume(c, flags) = [f \in Poll(cfg)!Flags |-> IF f \in flags /\ call[c].current[f] > consumed[r][f]
                                       THEN call[c].current[f] ELSE consumed[r][f]]
    BY DEF Poll!Consume
  <1>3. Poll(cfg)!Consume(c, flags) \in [Poll(cfg)!Flags -> Nat]
    <2>1. \A f \in Poll(cfg)!Flags : call[c].current[f] \in Nat /\ consumed[r][f] \in Nat
      BY <1>1
    <2> QED BY <1>2, <2>1
  <1>4. consumed' = [consumed EXCEPT ![r] = Poll(cfg)!Consume(c, flags)] /\ mask' = [mask EXCEPT ![r] = m]
    BY DEF Poll!Learn
  <1>5. \A f \in Poll(cfg)!Flags : Poll(cfg)!Consume(c, flags)[f] = IF f \in flags /\ call[c].current[f] > consumed[r][f]
          THEN call[c].current[f] ELSE consumed[r][f]
    BY <1>2
  <1> HIDE DEF r
  <1>6. consumed' \in [cfg.regs -> [Poll(cfg)!Flags -> Nat]] /\ mask' \in [cfg.regs -> SUBSET Poll(cfg)!Flags]
    BY <1>1, <1>3, <1>4
  <1>7. r \in cfg.regs
    BY DEF r
  <1>8. mask'[r] = m /\ (\A q \in cfg.regs \ {r} : mask'[q] = mask[q] /\ consumed'[q] = consumed[q]) /\ consumed'[r] = Poll(cfg)!Consume(c, flags)
    BY <1>1, <1>4, <1>7
  <1> QED BY <1>5, <1>6, <1>8 DEF r

\* What leaves a client idle.
LEMMA LeaveTypes ==
    ASSUME NEW cfg, EpTypes(cfg), NEW c \in cfg.clients, Poll(cfg)!Leave(c)
    PROVE  /\ call' \in [cfg.clients -> CallRec(cfg)] /\ queue' = queue /\ call'[c] = Poll(cfg)!Idle
                /\ \A u \in cfg.clients \ {c} : call'[u] = call[u]
           /\ \A u \in cfg.clients : Busy(cfg, u)' /\ Makes(u)'
  <1>1. call' = [call EXCEPT ![c] = Poll(cfg)!Idle] /\ queue' = queue /\ call \in [cfg.clients -> CallRec(cfg)]
    BY DEF Poll!Leave, EpTypes
  <1>2. call' \in [cfg.clients -> CallRec(cfg)] /\ call'[c] = Poll(cfg)!Idle /\ \A u \in cfg.clients \ {c} : call'[u] = call[u]
    BY <1>1, IdleType
  <1>3. ASSUME NEW u \in cfg.clients PROVE Busy(cfg, u)' /\ Makes(u)'
    <2>1. call'[u] = Poll(cfg)!Idle \/ call'[u] = call[u]
      BY <1>2
    <2> QED BY <2>1, IdleType DEF Busy, Makes, EpTypes
  <1> QED BY <1>1, <1>2, <1>3

\* The steps of a client whose answer is there, one of which a client takes.
Answers(cfg, c) == Poll(cfg)!Succeed(c) \/ Poll(cfg)!Eagain(c) \/ Poll(cfg)!Fail(c) \/ Poll(cfg)!Connected(c)
  \/ Poll(cfg)!Connecting(c) \/ Poll(cfg)!ConnectFail(c)

\* Those of them that end the call.
Ends(cfg, c) == Poll(cfg)!Succeed(c) \/ Poll(cfg)!Fail(c) \/ Poll(cfg)!Connected(c) \/ Poll(cfg)!ConnectFail(c)

\* What ends a call does to the client, and to what is known of its fd.
LEMMA EndsFacts ==
    ASSUME NEW cfg, EpTypes(cfg), NEW c \in cfg.clients, Ends(cfg, c)
    PROVE  /\ call[c].pc = "answer" /\ call[c].fd \in cfg.regs /\ Poll(cfg)!Leave(c) /\ Poll(cfg)!Process(c)
           /\ \/ UNCHANGED <<mask, consumed>>
              \/ \E flags, m \in SUBSET Poll(cfg)!Flags : /\ Poll(cfg)!Learn(c, flags, m)
                                                               /\ flags \subseteq Poll(cfg)!WaitFlags[call[c].op] \cup {"OUT"}
           /\ UNCHANGED <<Poll(cfg)!kernel, Poll(cfg)!wait, reg, number, callback, total, waiters>> /\ done' \subseteq cfg.regs
  <1>1. call[c].pc = "answer" /\ Poll(cfg)!Process(c) /\ Poll(cfg)!Leave(c)
    BY DEF Ends, Poll!Succeed, Poll!Fail, Poll!Connected, Poll!ConnectFail, Poll!Answered
  <1>2. call[c].fd \in cfg.regs /\ call[c].op \in AllOps /\ done \subseteq cfg.regs /\ mask[call[c].fd] \in SUBSET Poll(cfg)!Flags
    <2>1. Busy(cfg, c) /\ mask \in [cfg.regs -> SUBSET Poll(cfg)!Flags] /\ done \subseteq cfg.regs
      BY DEF EpTypes
    <2> QED BY <2>1, <1>1 DEF Busy
  <1>3. UNCHANGED <<Poll(cfg)!kernel, Poll(cfg)!wait, reg, number, callback, total, waiters>> /\ (done' = done \/ done' = done \cup {call[c].fd})
    BY DEF Ends, Poll!Succeed, Poll!Fail, Poll!Connected, Poll!ConnectFail
  <1>4. CASE Poll(cfg)!Succeed(c)
    BY <1>4, <1>1, <1>2, <1>3 DEF Poll!Succeed
  <1>5. CASE Poll(cfg)!Fail(c)
    <2>1. call[c].op \in {"read", "accept", "write", "so_error"}
      <3>1. Makes(c)
        BY DEF EpTypes
      <3> QED BY <3>1, <1>1, <1>2, <1>5 DEF Poll!Fail, Poll!Answered, Makes, AllOps
    <2>2. Poll(cfg)!WaitFlags[call[c].op] \in SUBSET Poll(cfg)!Flags
            /\ mask[call[c].fd] \cup Poll(cfg)!ErrorFlags[call[c].op] \in SUBSET Poll(cfg)!Flags
      BY <2>1, <1>2, OpFlags
    <2>3. Poll(cfg)!Learn(c, Poll(cfg)!WaitFlags[call[c].op], mask[call[c].fd] \cup Poll(cfg)!ErrorFlags[call[c].op])
      BY <1>5 DEF Poll!Fail
    <2>4. \E flags, m \in SUBSET Poll(cfg)!Flags : Poll(cfg)!Learn(c, flags, m) /\ flags \subseteq Poll(cfg)!WaitFlags[call[c].op] \cup {"OUT"}
      BY <2>2, <2>3
    <2> QED BY <2>4, <1>1, <1>2, <1>3
  <1>6. CASE Poll(cfg)!Connected(c) \/ Poll(cfg)!ConnectFail(c)
    <2>1. {"OUT"} \in SUBSET Poll(cfg)!Flags /\ mask[call[c].fd] \cup {"OUT"} \in SUBSET Poll(cfg)!Flags
            /\ mask[call[c].fd] \ {"OUT"} \in SUBSET Poll(cfg)!Flags
      BY <1>2 DEF Poll!Flags
    <2>2. \E flags, m \in SUBSET Poll(cfg)!Flags : Poll(cfg)!Learn(c, flags, m) /\ flags \subseteq Poll(cfg)!WaitFlags[call[c].op] \cup {"OUT"}
      BY <1>6, <2>1 DEF Poll!Connected, Poll!ConnectFail
    <2> QED BY <2>2, <1>1, <1>2, <1>3
  <1> QED BY <1>4, <1>5, <1>6 DEF Ends

\* A client makes its call, or goes back to wait.
LEMMA AgainFacts ==
    ASSUME NEW cfg, EpTypes(cfg), NEW c \in cfg.clients, NEW o \in AllOps, Poll(cfg)!WaitAgain(c, o), call[c].fd \in cfg.regs
    PROVE  LET r == call[c].fd  flags == Poll(cfg)!WaitFlags[o] IN
           /\ Poll(cfg)!Learn(c, flags, mask[r] \ flags) /\ mask[r] \ flags \in SUBSET Poll(cfg)!Flags
           /\ Poll(cfg)!WaitFor(c, r, o, mask[r] \ flags, Poll(cfg)!Consume(c, flags))
           /\ UNCHANGED <<Poll(cfg)!kernel, Poll(cfg)!wait, reg, number, callback, total, waiters, done>>
  BY DEF Poll!WaitAgain, EpTypes

\* Whoever waits is on the queue, or among the waiters, of the fd it waits for.
Queues(cfg) ==
    /\ \A r \in cfg.regs : queue[r] \cap waiters[r] = {} /\ \A c \in Poll(cfg)!Waiting(r) : call[c].pc = "wait" /\ call[c].fd = r
    /\ \A c \in cfg.clients : call[c].pc = "wait" => c \in Poll(cfg)!Waiting(call[c].fd)

\* A client that did not wait takes a step.
LEMMA QueuesAlone ==
    ASSUME NEW cfg, EpTypes(cfg), Queues(cfg), NEW c \in cfg.clients, call[c].pc # "wait", waiters' = waiters,
           \A u \in cfg.clients \ {c} : call'[u] = call[u],
           \/ queue' = queue /\ call'[c].pc # "wait"
           \/ \E r \in cfg.regs : call'[c].pc = "wait" /\ call'[c].fd = r /\ queue' = [queue EXCEPT ![r] = @ \cup {c}]
    PROVE  Queues(cfg)'
  <1>0. queue \in [cfg.regs -> SUBSET cfg.clients] /\ waiters \in [cfg.regs -> SUBSET cfg.clients]
    BY DEF EpTypes
  <1>1. \A r \in cfg.regs : c \notin Poll(cfg)!Waiting(r)
    BY DEF Queues
  <1>2. CASE queue' = queue /\ call'[c].pc # "wait"
    <2>1. \A r \in cfg.regs : Poll(cfg)!Waiting(r)' = Poll(cfg)!Waiting(r)
      BY <1>2 DEF Poll!Waiting
    <2>2. ASSUME NEW r \in cfg.regs PROVE (queue[r] \cap waiters[r])' = {} /\ \A u \in Poll(cfg)!Waiting(r)' : call'[u].pc = "wait" /\ call'[u].fd = r
      <3>1. \A u \in Poll(cfg)!Waiting(r) : u \in cfg.clients \ {c}
        BY <1>0, <1>1 DEF Poll!Waiting
      <3> QED BY <3>1, <2>1, <1>2 DEF Queues
    <2>3. ASSUME NEW u \in cfg.clients, call'[u].pc = "wait" PROVE u \in (Poll(cfg)!Waiting(call[u].fd))'
      <3>1. u # c /\ call'[u] = call[u]
        BY <1>2, <2>3
      <3>2. Busy(cfg, u) /\ u \in Poll(cfg)!Waiting(call[u].fd)
        BY <3>1, <2>3 DEF EpTypes, Queues
      <3>3. call[u].fd \in cfg.regs
        BY <3>1, <3>2, <2>3 DEF Busy
      <3> QED BY <3>1, <3>2, <3>3, <2>1
    <2> QED BY <2>2, <2>3 DEF Queues
  <1>3. CASE \E r \in cfg.regs : call'[c].pc = "wait" /\ call'[c].fd = r /\ queue' = [queue EXCEPT ![r] = @ \cup {c}]
    <2>0. PICK r \in cfg.regs : call'[c].pc = "wait" /\ call'[c].fd = r /\ queue' = [queue EXCEPT ![r] = @ \cup {c}]
      BY <1>3
    <2>1. \A q \in cfg.regs : Poll(cfg)!Waiting(q)' = IF q = r THEN Poll(cfg)!Waiting(q) \cup {c} ELSE Poll(cfg)!Waiting(q)
      BY <2>0, <1>0 DEF Poll!Waiting
    <2>2. ASSUME NEW q \in cfg.regs PROVE (queue[q] \cap waiters[q])' = {} /\ \A u \in Poll(cfg)!Waiting(q)' : call'[u].pc = "wait" /\ call'[u].fd = q
      <3>1. \A u \in Poll(cfg)!Waiting(q) : u \in cfg.clients \ {c} /\ call[u].pc = "wait" /\ call[u].fd = q
        BY <1>0, <1>1 DEF Poll!Waiting, Queues
      <3>2. queue'[q] = IF q = r THEN queue[q] \cup {c} ELSE queue[q]
        BY <2>0, <1>0
      <3>3. c \notin waiters[q] /\ queue[q] \cap waiters[q] = {}
        BY <1>1 DEF Poll!Waiting, Queues
      <3> QED BY <3>1, <3>2, <3>3, <2>0, <2>1
    <2>3. ASSUME NEW u \in cfg.clients, call'[u].pc = "wait" PROVE u \in (Poll(cfg)!Waiting(call[u].fd))'
      <3>0. CASE u = c
        BY <3>0, <2>0, <2>1
      <3>4. CASE u # c
        <4>1. call'[u] = call[u]
          BY <3>4
        <4>2. Busy(cfg, u) /\ u \in Poll(cfg)!Waiting(call[u].fd)
          BY <4>1, <2>3 DEF EpTypes, Queues
        <4>3. call[u].fd \in cfg.regs
          BY <4>1, <4>2, <2>3 DEF Busy
        <4> QED BY <4>1, <4>2, <4>3, <2>1
      <3> QED BY <3>0, <3>4
    <2> QED BY <2>2, <2>3 DEF Queues
  <1> QED BY <1>2, <1>3

\* A syscall is performed.
LEMMA EpStepPerform ==
    ASSUME NEW cfg, EpTypes(cfg), Queues(cfg), NEW c \in cfg.clients, Poll(cfg)!Perform(c)
    PROVE  EpTypes(cfg)' /\ Queues(cfg)'
  <1> DEFINE r == call[c].fd
  <1>0. Busy(cfg, c) /\ Makes(c) /\ call \in [cfg.clients -> CallRec(cfg)] /\ level \in [cfg.regs -> SUBSET Poll(cfg)!Flags]
          /\ conn \in [cfg.regs -> ConnStates]
    BY DEF EpTypes
  <1>1. call[c].pc = "call" /\ r \in cfg.regs /\ call[c].op \in AllOps \ {"rdhup"}
    BY <1>0 DEF Poll!Perform, Busy, Makes
  <1>2. PICK res \in Poll(cfg)!Result(r, call[c].op) : /\ call' = [call EXCEPT ![c].pc = "answer", ![c].outcome = res[1]]
                                                       /\ level' = [level EXCEPT ![r] = res[2]]
                                                       /\ conn' = [conn EXCEPT ![r] = res[3]]
    BY DEF Poll!Perform
  <1>3. res[1] \in Outcomes /\ res[2] \in SUBSET Poll(cfg)!Flags /\ res[3] \in ConnStates
    BY <1>1, ResultTypes
  <1>4. answers' = Append(answers, c) /\ UNCHANGED <<rdlist, arrivals, Poll(cfg)!wait, Poll(cfg)!epolled, done>>
    BY DEF Poll!Perform
  <1>5. answers' \in Seq(cfg.clients)
    BY <1>4 DEF EpTypes
  <1> HIDE DEF r
  <1>6. level' \in [cfg.regs -> SUBSET Poll(cfg)!Flags] /\ conn' \in [cfg.regs -> ConnStates]
    BY <1>0, <1>2, <1>3
  <1>7. call'[c] = [call[c] EXCEPT !.pc = "answer", !.outcome = res[1]] /\ (\A u \in cfg.clients \ {c} : call'[u] = call[u])
        /\ call' = [call EXCEPT ![c] = call'[c]]
    BY <1>0, <1>2
  <1>8. call'[c] \in CallRec(cfg) /\ call'[c].pc = "answer" /\ call'[c].op = call[c].op /\ call'[c].fd = call[c].fd
    <2>1. call[c] \in CallRec(cfg)
      BY <1>0
    <2> QED BY <2>1, <1>3, <1>7 DEF CallRec
  <1>9. call' \in [cfg.clients -> CallRec(cfg)]
    BY <1>0, <1>7, <1>8
  <1>10. ASSUME NEW u \in cfg.clients PROVE Busy(cfg, u)' /\ Makes(u)'
    <2>1. CASE u = c
      BY <2>1, <1>1, <1>8 DEF Busy, Makes, r
    <2>2. CASE u # c
      BY <2>2, <1>7 DEF Busy, Makes, EpTypes
    <2> QED BY <2>1, <2>2
  <1>11. EpTypes(cfg)'
    BY <1>4, <1>5, <1>6, <1>9, <1>10 DEF EpTypes, Poll!wait, Poll!epolled
  <1>12. waiters' = waiters /\ queue' = queue
    BY <1>4 DEF Poll!epolled
  <1>13. Queues(cfg)'
    BY <1>1, <1>7, <1>8, <1>12, QueuesAlone
  <1> QED BY <1>11, <1>13

\* An answer that ends the call is processed.
LEMMA EpStepEnds ==
    ASSUME NEW cfg, EpTypes(cfg), Queues(cfg), NEW c \in cfg.clients, Ends(cfg, c)
    PROVE  EpTypes(cfg)' /\ Queues(cfg)'
  <1>1. /\ call[c].pc = "answer" /\ call[c].fd \in cfg.regs /\ Poll(cfg)!Leave(c) /\ Poll(cfg)!Process(c)
        /\ UNCHANGED <<Poll(cfg)!kernel, Poll(cfg)!wait, reg, number, callback, total, waiters>> /\ done' \subseteq cfg.regs
    BY EndsFacts
  <1>2. mask' \in [cfg.regs -> SUBSET Poll(cfg)!Flags] /\ consumed' \in [cfg.regs -> [Poll(cfg)!Flags -> Nat]]
    <2>1. CASE UNCHANGED <<mask, consumed>>
      BY <2>1 DEF EpTypes
    <2>2. ASSUME NEW flags \in SUBSET Poll(cfg)!Flags, NEW m \in SUBSET Poll(cfg)!Flags, Poll(cfg)!Learn(c, flags, m)
          PROVE  mask' \in [cfg.regs -> SUBSET Poll(cfg)!Flags] /\ consumed' \in [cfg.regs -> [Poll(cfg)!Flags -> Nat]]
      BY <2>2, <1>1, Learnt
    <2> QED BY <2>1, <2>2, EndsFacts
  <1>3. /\ call' \in [cfg.clients -> CallRec(cfg)] /\ queue' = queue /\ call'[c] = Poll(cfg)!Idle /\ \A u \in cfg.clients \ {c} : call'[u] = call[u]
        /\ \A u \in cfg.clients : Busy(cfg, u)' /\ Makes(u)'
    BY <1>1, LeaveTypes
  <1>4. answers' \in Seq(cfg.clients)
    BY <1>1, Processed
  <1>5. EpTypes(cfg)'
    BY <1>1, <1>2, <1>3, <1>4 DEF EpTypes, Poll!kernel, Poll!wait
  <1>6. Queues(cfg)'
    BY <1>1, <1>3, IdleType, QueuesAlone
  <1> QED BY <1>5, <1>6

\* An EAGAIN or EINPROGRESS is processed: the client waits again.
LEMMA EpStepAgain ==
    ASSUME NEW cfg, EpTypes(cfg), Queues(cfg), NEW c \in cfg.clients, Poll(cfg)!Eagain(c) \/ Poll(cfg)!Connecting(c)
    PROVE  EpTypes(cfg)' /\ Queues(cfg)'
  <1>1. PICK o \in AllOps : Poll(cfg)!WaitAgain(c, o) /\ call[c].pc = "answer" /\ Poll(cfg)!Process(c) /\ call[c].fd \in cfg.regs
    <2>1. call[c].pc = "answer" /\ Poll(cfg)!Process(c) /\ Busy(cfg, c)
      BY DEF Poll!Eagain, Poll!Connecting, Poll!Answered, EpTypes
    <2>2. call[c].op \in AllOps /\ call[c].fd \in cfg.regs
      BY <2>1 DEF Busy
    <2> QED BY <2>1, <2>2 DEF Poll!Eagain, Poll!Connecting, AllOps
  <1> DEFINE r == call[c].fd
             flags == Poll(cfg)!WaitFlags[o]
  <1>2. /\ Poll(cfg)!Learn(c, flags, mask[r] \ flags) /\ mask[r] \ flags \in SUBSET Poll(cfg)!Flags
        /\ Poll(cfg)!WaitFor(c, r, o, mask[r] \ flags, Poll(cfg)!Consume(c, flags))
        /\ UNCHANGED <<Poll(cfg)!kernel, Poll(cfg)!wait, reg, number, callback, total, waiters, done>>
    BY <1>1, AgainFacts
  <1>3. mask' \in [cfg.regs -> SUBSET Poll(cfg)!Flags] /\ consumed' \in [cfg.regs -> [Poll(cfg)!Flags -> Nat]]
    BY <1>1, <1>2, Learnt
  <1>4. answers' \in Seq(cfg.clients)
    BY <1>1, Processed
  <1>5. r \in cfg.regs
    BY <1>1
  <1> HIDE DEF r, flags
  <1>6. /\ \A u \in cfg.clients \ {c} : call'[u] = call[u]
        /\ call' \in [cfg.clients -> CallRec(cfg)] /\ queue' \in [cfg.regs -> SUBSET cfg.clients]
        /\ \/ call'[c] = Poll(cfg)!Proceed(o, r, total[r]) /\ queue' = queue
           \/ call'[c] = Poll(cfg)!Idle /\ queue' = queue
           \/ /\ call'[c] = Poll(cfg)!State("wait", o, r, Poll(cfg)!Zero, "none")
              /\ queue' = [queue EXCEPT ![r] = @ \cup {c}]
    BY <1>2, <1>5, WaitForCases DEF flags
  <1>7. \A u \in cfg.clients : Busy(cfg, u)' /\ Makes(u)'
    BY <1>5, <1>6, CallTypes
  <1>8. EpTypes(cfg)'
    BY <1>2, <1>3, <1>4, <1>6, <1>7 DEF EpTypes, Poll!kernel, Poll!wait
  <1>9. total[r] \in [Poll(cfg)!Flags -> Nat]
    BY <1>5 DEF EpTypes
  <1>10. \/ queue' = queue /\ call'[c].pc # "wait"
         \/ call'[c].pc = "wait" /\ call'[c].fd = r /\ queue' = [queue EXCEPT ![r] = @ \cup {c}]
    BY <1>5, <1>6, <1>9, ProceedType, IdleType DEF Poll!State
  <1>11. Queues(cfg)'
    BY <1>1, <1>2, <1>5, <1>6, <1>10, QueuesAlone
  <1> QED BY <1>8, <1>11

\* A client calls read, write, accept, rdhup or connect.
LEMMA EpStepCall ==
    ASSUME NEW cfg, EpTypes(cfg), Queues(cfg), NEW c \in cfg.clients, NEW r \in cfg.regs,
           Poll(cfg)!Read(c, r) \/ Poll(cfg)!Write(c, r) \/ Poll(cfg)!Accept(c, r) \/ Poll(cfg)!WaitForRdhup(c, r) \/ Poll(cfg)!Connect(c, r)
    PROVE  EpTypes(cfg)' /\ Queues(cfg)'
  <1>1. ASSUME NEW o \in AllOps, Poll(cfg)!Call(c, r, o) PROVE EpTypes(cfg)' /\ Queues(cfg)'
    <2>1. /\ call[c].pc = "idle" /\ Poll(cfg)!WaitFor(c, r, o, mask[r], consumed[r])
          /\ UNCHANGED <<Poll(cfg)!kernel, Poll(cfg)!wait, reg, number, callback, mask, total, consumed, waiters, answers, done>>
      BY <1>1 DEF Poll!Call
    <2>6. /\ \A u \in cfg.clients \ {c} : call'[u] = call[u]
          /\ call' \in [cfg.clients -> CallRec(cfg)] /\ queue' \in [cfg.regs -> SUBSET cfg.clients]
          /\ \/ call'[c] = Poll(cfg)!Proceed(o, r, total[r]) /\ queue' = queue
             \/ call'[c] = Poll(cfg)!Idle /\ queue' = queue
             \/ /\ call'[c] = Poll(cfg)!State("wait", o, r, Poll(cfg)!Zero, "none")
                /\ queue' = [queue EXCEPT ![r] = @ \cup {c}]
      BY <2>1, WaitForCases
    <2>7. \A u \in cfg.clients : Busy(cfg, u)' /\ Makes(u)'
      BY <2>6, CallTypes
    <2>8. EpTypes(cfg)'
      BY <2>1, <2>6, <2>7 DEF EpTypes, Poll!kernel, Poll!wait
    <2>9. total[r] \in [Poll(cfg)!Flags -> Nat]
      BY DEF EpTypes
    <2>10. \/ queue' = queue /\ call'[c].pc # "wait"
           \/ call'[c].pc = "wait" /\ call'[c].fd = r /\ queue' = [queue EXCEPT ![r] = @ \cup {c}]
      BY <2>6, <2>9, ProceedType, IdleType DEF Poll!State
    <2>11. Queues(cfg)'
      BY <2>1, <2>6, <2>10, QueuesAlone
    <2> QED BY <2>8, <2>11
  <1>2. CASE Poll(cfg)!Connect(c, r)
    <2>1. call[c].pc = "idle" /\ call' = [call EXCEPT ![c] = Poll(cfg)!Proceed("connect", r, total[r])]
          /\ UNCHANGED <<Poll(cfg)!kernel, Poll(cfg)!wait, Poll(cfg)!epolled, answers, done>>
      BY <1>2 DEF Poll!Connect
    <2>2. total[r] \in [Poll(cfg)!Flags -> Nat] /\ "connect" \in AllOps /\ call \in [cfg.clients -> CallRec(cfg)]
      BY DEF EpTypes, AllOps
    <2>3. Poll(cfg)!Proceed("connect", r, total[r]) \in CallRec(cfg) /\ Poll(cfg)!Proceed("connect", r, total[r]).pc # "wait"
      BY <2>2, ProceedType
    <2>4. call'[c] = Poll(cfg)!Proceed("connect", r, total[r]) /\ call' \in [cfg.clients -> CallRec(cfg)]
            /\ \A u \in cfg.clients \ {c} : call'[u] = call[u]
      BY <2>1, <2>2, <2>3
    <2>5. \A u \in cfg.clients : Busy(cfg, u)' /\ Makes(u)'
      BY <2>2, <2>4, CallTypes
    <2>6. queue' = queue /\ waiters' = waiters
      BY <2>1 DEF Poll!epolled
    <2>7. EpTypes(cfg)'
      BY <2>1, <2>4, <2>5 DEF EpTypes, Poll!kernel, Poll!wait, Poll!epolled
    <2>8. Queues(cfg)'
      BY <2>1, <2>3, <2>4, <2>6, QueuesAlone
    <2> QED BY <2>7, <2>8
  <1> QED BY <1>1, <1>2 DEF Poll!Read, Poll!Write, Poll!Accept, Poll!WaitForRdhup, AllOps

\* A client that waits is cancelled.
LEMMA EpStepCancel ==
    ASSUME NEW cfg, EpTypes(cfg), Queues(cfg), NEW c \in cfg.clients, Poll(cfg)!Cancel(c)
    PROVE  EpTypes(cfg)' /\ Queues(cfg)'
  <1> DEFINE r == call[c].fd
  <1>1. /\ call[c].pc = "wait" /\ call' = [call EXCEPT ![c] = Poll(cfg)!Idle]
        /\ queue' = [queue EXCEPT ![r] = @ \ {c}] /\ waiters' = [waiters EXCEPT ![r] = @ \ {c}]
        /\ UNCHANGED <<Poll(cfg)!kernel, Poll(cfg)!wait, reg, number, callback, mask, total, consumed, answers, done>>
    BY DEF Poll!Cancel
  <1>2. r \in cfg.regs /\ call \in [cfg.clients -> CallRec(cfg)] /\ queue \in [cfg.regs -> SUBSET cfg.clients]
          /\ waiters \in [cfg.regs -> SUBSET cfg.clients]
    BY <1>1 DEF EpTypes, Busy
  <1>3. call'[c] = Poll(cfg)!Idle /\ call' \in [cfg.clients -> CallRec(cfg)] /\ \A u \in cfg.clients \ {c} : call'[u] = call[u]
    BY <1>1, <1>2, IdleType
  <1>4. ASSUME NEW u \in cfg.clients PROVE Busy(cfg, u)' /\ Makes(u)'
    <2>1. call'[u] = Poll(cfg)!Idle \/ call'[u] = call[u]
      BY <1>3
    <2> QED BY <2>1, IdleType DEF Busy, Makes, EpTypes
  <1> HIDE DEF r
  <1>5. queue' \in [cfg.regs -> SUBSET cfg.clients] /\ waiters' \in [cfg.regs -> SUBSET cfg.clients]
    BY <1>1, <1>2
  <1>6. EpTypes(cfg)'
    BY <1>1, <1>3, <1>4, <1>5 DEF EpTypes, Poll!kernel, Poll!wait
  <1>7. \A q \in cfg.regs : Poll(cfg)!Waiting(q)' = IF q = r THEN Poll(cfg)!Waiting(q) \ {c} ELSE Poll(cfg)!Waiting(q)
    BY <1>1, <1>2 DEF Poll!Waiting
  <1>8. \A q \in cfg.regs : c \in Poll(cfg)!Waiting(q) => q = r
    BY DEF Queues, r
  <1>9. ASSUME NEW q \in cfg.regs PROVE (queue[q] \cap waiters[q])' = {} /\ \A u \in Poll(cfg)!Waiting(q)' : call'[u].pc = "wait" /\ call'[u].fd = q
    <2>1. \A u \in Poll(cfg)!Waiting(q)' : u \in cfg.clients \ {c} /\ u \in Poll(cfg)!Waiting(q)
      BY <1>2, <1>7, <1>8 DEF Poll!Waiting
    <2>2. queue'[q] \subseteq queue[q] /\ waiters'[q] \subseteq waiters[q]
      BY <1>1, <1>2
    <2> QED BY <2>1, <2>2, <1>3 DEF Queues
  <1>10. ASSUME NEW u \in cfg.clients, call'[u].pc = "wait" PROVE u \in (Poll(cfg)!Waiting(call[u].fd))'
    <2>1. u # c /\ call'[u] = call[u]
      BY <1>3, <1>10, IdleType
    <2>2. Busy(cfg, u) /\ u \in Poll(cfg)!Waiting(call[u].fd)
      BY <2>1, <1>10 DEF EpTypes, Queues
    <2>3. call[u].fd \in cfg.regs
      BY <2>1, <2>2, <1>10 DEF Busy
    <2> QED BY <2>1, <2>2, <2>3, <1>7
  <1> QED BY <1>6, <1>9, <1>10 DEF Queues

\* Nobody waits at first.
LEMMA QueuesInit ==
    ASSUME NEW cfg, Poll(cfg)!Init PROVE Queues(cfg)
  <1>1. \A c \in cfg.clients : call[c].pc = "idle"
    BY IdleType DEF Poll!Init
  <1>2. \A r \in cfg.regs : Poll(cfg)!Waiting(r) = {} /\ queue[r] \cap waiters[r] = {}
    BY DEF Poll!Init, Poll!Waiting
  <1> QED BY <1>1, <1>2 DEF Queues

\* Nobody begins to wait or stops it.
LEMMA QueuesSame ==
    ASSUME NEW cfg, Queues(cfg), UNCHANGED <<call, queue, waiters>> PROVE Queues(cfg)'
  BY DEF Queues, Poll!Waiting

\* The answer of epoll_wait is processed.
LEMMA EpStepDispatch ==
    ASSUME NEW cfg, EpTypes(cfg), Queues(cfg), Poll(cfg)!Dispatch
    PROVE  EpTypes(cfg)' /\ Queues(cfg)'
  <1>1. EpTypes(cfg)' /\ \A c \in cfg.clients : call'[c] = Poll(cfg)!Idle \/ call'[c] = call[c]
          \/ (call[c].pc = "wait" /\ call'[c] = Poll(cfg)!Proceed(call[c].op, call[c].fd, total'[call[c].fd]))
    BY EpTypesDispatch DEF Queues
  <1>2. \A r \in cfg.regs : Poll(cfg)!Waiting(r) \in SUBSET cfg.clients /\ queue[r] \cap waiters[r] = {}
    BY DEF Poll!Waiting, EpTypes, Queues
  <1>3. \A r, q \in cfg.regs : \A c \in Poll(cfg)!Waiting(r) : c \in Poll(cfg)!Waiting(q) => q = r
    BY DEF Queues
  <1>4. ASSUME NEW r \in cfg.regs
        PROVE  /\ Poll(cfg)!Waiting(r)' = (Poll(cfg)!Waiting(r) \ Poll(cfg)!Resumed(r)) \ Poll(cfg)!Thrown(r)
               /\ (queue[r] \cap waiters[r])' = {}
               /\ Poll(cfg)!Thrown(r) \subseteq Poll(cfg)!Waiting(r) /\ Poll(cfg)!Resumed(r) \subseteq Poll(cfg)!Waiting(r)
    <2>1. /\ queue'[r] = IF Poll(cfg)!EventsOf(r) # {} THEN {} ELSE queue[r] \ Poll(cfg)!Thrown(r)
          /\ waiters'[r] = IF Poll(cfg)!EventsOf(r) # {} THEN Poll(cfg)!Waiting(r) \ Poll(cfg)!Resumed(r) ELSE waiters[r]
      BY DispatchedAt
    <2>2. Poll(cfg)!Thrown(r) \subseteq queue[r] /\ Poll(cfg)!Resumed(r) \subseteq Poll(cfg)!Waiting(r)
      BY DEF Poll!Thrown, Poll!Resumed
    <2>3. CASE Poll(cfg)!EventsOf(r) # {}
      <3>1. Poll(cfg)!Thrown(r) = {}
        BY <2>3 DEF Poll!Thrown
      <3> QED BY <3>1, <2>1, <2>2, <2>3 DEF Poll!Waiting
    <2>4. CASE Poll(cfg)!EventsOf(r) = {}
      <3>1. Poll(cfg)!Resumed(r) = {}
        BY <2>4 DEF Poll!Resumed
      <3> QED BY <3>1, <2>1, <2>2, <2>4, <1>2 DEF Poll!Waiting
    <2> QED BY <2>3, <2>4
  <1>5. ASSUME NEW c \in cfg.clients
        PROVE  \/ \E r \in cfg.regs : c \in Poll(cfg)!Thrown(r) /\ call'[c].pc # "wait"
               \/ \E r \in cfg.regs : c \in Poll(cfg)!Resumed(r) /\ call'[c].pc # "wait"
               \/ call'[c] = call[c] /\ \A r \in cfg.regs : c \notin Poll(cfg)!Thrown(r) /\ c \notin Poll(cfg)!Resumed(r)
    <2>1. ASSUME NEW r \in cfg.regs, c \in Poll(cfg)!Resumed(r), call'[c] = Poll(cfg)!Proceed(call[c].op, call[c].fd, total'[call[c].fd])
          PROVE  call'[c].pc # "wait"
      <3>1. c \in Poll(cfg)!Waiting(r) /\ call[c].pc = "wait" /\ call[c].fd = r
        BY <2>1, <1>4 DEF Queues
      <3>2. Busy(cfg, c) /\ total' \in [cfg.regs -> [Poll(cfg)!Flags -> Nat]]
        BY <1>1 DEF EpTypes
      <3>3. call[c].op \in AllOps /\ total'[r] \in [Poll(cfg)!Flags -> Nat]
        BY <3>1, <3>2 DEF Busy
      <3> QED BY <3>1, <3>3, <2>1, ProceedType
    <2> QED BY <2>1, Dispatched, IdleType
  <1>6. ASSUME NEW r \in cfg.regs, NEW c \in Poll(cfg)!Waiting(r)' PROVE call'[c].pc = "wait" /\ call'[c].fd = r
    <2>1. c \in Poll(cfg)!Waiting(r) /\ c \notin Poll(cfg)!Resumed(r) /\ c \notin Poll(cfg)!Thrown(r) /\ c \in cfg.clients
      BY <1>2, <1>4
    <2>2. \A q \in cfg.regs : c \notin Poll(cfg)!Thrown(q) /\ c \notin Poll(cfg)!Resumed(q)
      BY <2>1, <1>3, <1>4
    <2> QED BY <2>1, <2>2, <1>5 DEF Queues
  <1>7. ASSUME NEW c \in cfg.clients, call'[c].pc = "wait" PROVE c \in Poll(cfg)!Waiting(call[c].fd)' /\ call'[c] = call[c]
    <2>1. call'[c] = call[c] /\ \A r \in cfg.regs : c \notin Poll(cfg)!Thrown(r) /\ c \notin Poll(cfg)!Resumed(r)
      BY <1>5, <1>7
    <2>2. c \in Poll(cfg)!Waiting(call[c].fd) /\ call[c].fd \in cfg.regs
      BY <1>7, <2>1 DEF Queues, EpTypes, Busy
    <2> QED BY <2>1, <2>2, <1>4
  <1>8. \A c \in cfg.clients : call'[c].pc = "wait" => c \in (Poll(cfg)!Waiting(call[c].fd))'
    BY <1>7
  <1>9. \A r \in cfg.regs : (queue[r] \cap waiters[r])' = {}
    BY <1>4
  <1>10. Queues(cfg)'
    BY <1>6, <1>8, <1>9 DEF Queues
  <1> QED BY <1>1, <1>10

\* epoll_wait fails: who waited is told.
LEMMA EpStepFails ==
    ASSUME NEW cfg, EpTypes(cfg), Queues(cfg), Poll(cfg)!EpollWaitFails
    PROVE  EpTypes(cfg)' /\ Queues(cfg)'
  <1> DEFINE told == {r \in cfg.regs : callback[r] = "queued"}
  <1>1. /\ call' = [c \in cfg.clients |-> IF \E r \in told : c \in queue[r] THEN Poll(cfg)!Idle ELSE call[c]]
        /\ queue' = [r \in cfg.regs |-> IF r \in told THEN {} ELSE queue[r]]
        /\ waiters' = waiters
    BY DEF Poll!EpollWaitFails
  <1>2. EpTypes(cfg)'
    BY EpTypesFails
  <1>3. \A r \in cfg.regs : queue'[r] \subseteq queue[r] /\ queue[r] \in SUBSET cfg.clients
          /\ waiters[r] \in SUBSET cfg.clients /\ queue[r] \cap waiters[r] = {}
    BY <1>1 DEF Queues, EpTypes
  <1>4. ASSUME NEW r \in cfg.regs, NEW c \in Poll(cfg)!Waiting(r)' PROVE call'[c].pc = "wait" /\ call'[c].fd = r
    <2>1. c \in Poll(cfg)!Waiting(r) /\ c \in cfg.clients /\ call[c].pc = "wait" /\ call[c].fd = r
      BY <1>1, <1>3 DEF Poll!Waiting, Queues
    <2>2. ~\E q \in told : c \in queue[q]
      <3> SUFFICES ASSUME NEW q \in told, c \in queue[q] PROVE FALSE
        OBVIOUS
      <3>1. c \in Poll(cfg)!Waiting(q) /\ q \in cfg.regs
        BY DEF Poll!Waiting
      <3>2. q = r
        BY <3>1, <2>1 DEF Queues
      <3> QED BY <3>2, <1>1, <1>3 DEF Poll!Waiting
    <2> QED BY <2>1, <2>2, <1>1
  <1>5. ASSUME NEW c \in cfg.clients, call'[c].pc = "wait" PROVE c \in (Poll(cfg)!Waiting(call[c].fd))'
    <2>1. call'[c] = call[c] /\ ~\E q \in told : c \in queue[q]
      BY <1>1, <1>5, IdleType
    <2>2. c \in Poll(cfg)!Waiting(call[c].fd) /\ call[c].fd \in cfg.regs
      BY <1>5, <2>1 DEF Queues, EpTypes, Busy
    <2> QED BY <2>1, <2>2, <1>1 DEF Poll!Waiting
  <1>6. \A r \in cfg.regs : (queue[r] \cap waiters[r])' = {}
    BY <1>1, <1>3
  <1>7. Queues(cfg)'
    BY <1>4, <1>5, <1>6 DEF Queues
  <1> QED BY <1>2, <1>7

\* The other steps leave the clients and the queues alone.
LEMMA EpStepOthers ==
    ASSUME NEW cfg, Poll(cfg)!EpollerAssumption, EpTypes(cfg), Queues(cfg),
           \/ Poll(cfg)!Kernel \/ (\E r \in cfg.regs : Poll(cfg)!Registration(r)) \/ Poll(cfg)!EpollWait \/ Poll(cfg)!EpollWaitEmpty
    PROVE  EpTypes(cfg)' /\ Queues(cfg)' /\ UNCHANGED <<call, queue, waiters, answers>>
  <1>1. EpTypes(cfg)'
    BY EpTypesKernel, EpTypesRegister, EpTypesWait DEF Poll!Kernel, Poll!Registration
  <1>2. UNCHANGED <<call, queue, waiters, answers>>
    <2>1. CASE Poll(cfg)!Kernel
      BY <2>1 DEF Poll!Kernel, Poll!Arrive, Poll!Established, Poll!epolled
    <2>2. CASE \E r \in cfg.regs : Poll(cfg)!Registration(r)
      BY <2>2 DEF Poll!Registration, Poll!Register, Poll!EpollAdd, Poll!Registered, Poll!Delete, Poll!Deleted
    <2>3. CASE Poll(cfg)!EpollWait \/ Poll(cfg)!EpollWaitEmpty
      BY <2>3 DEF Poll!EpollWait, Poll!EpollWaitEmpty, Poll!epolled
    <2> QED BY <2>1, <2>2, <2>3
  <1> QED BY <1>1, <1>2, QueuesSame

\* The steps of the epoller.
LEMMA EpStep ==
    ASSUME NEW cfg, Poll(cfg)!EpollerAssumption, EpTypes(cfg), Queues(cfg), Poll(cfg)!Next
    PROVE  EpTypes(cfg)' /\ Queues(cfg)'
  <1>1. CASE Poll(cfg)!Kernel \/ (\E r \in cfg.regs : Poll(cfg)!Registration(r)) \/ Poll(cfg)!EpollWait \/ Poll(cfg)!EpollWaitEmpty
    BY <1>1, EpStepOthers
  <1>2. CASE Poll(cfg)!Dispatch
    BY <1>2, EpStepDispatch
  <1>3. CASE Poll(cfg)!EpollWaitFails
    BY <1>3, EpStepFails
  <1>4. ASSUME NEW c \in cfg.clients, Poll(cfg)!Step(c) PROVE EpTypes(cfg)' /\ Queues(cfg)'
    BY <1>4, EpStepPerform, EpStepEnds, EpStepAgain DEF Poll!Step, Ends
  <1>5. ASSUME NEW c \in cfg.clients, Poll(cfg)!Cancel(c) PROVE EpTypes(cfg)' /\ Queues(cfg)'
    BY <1>5, EpStepCancel
  <1>6. ASSUME NEW c \in cfg.clients, NEW r \in cfg.regs, Poll(cfg)!Read(c, r) \/ Poll(cfg)!Write(c, r)
                 \/ Poll(cfg)!Accept(c, r) \/ Poll(cfg)!WaitForRdhup(c, r) \/ Poll(cfg)!Connect(c, r)
        PROVE  EpTypes(cfg)' /\ Queues(cfg)'
    BY <1>6, EpStepCall
  <1> QED BY <1>1, <1>2, <1>3, <1>4, <1>5, <1>6 DEF Poll!Next, Poll!Waiter

\* Numbers(cfg) and callbacks: whose events may be in flight has a callback, and a
\* number nobody else has.
Numbers(cfg) ==
    /\ \A r \in cfg.regs : reg[r] = "new" <=> callback[r] = "none"
    /\ \A r \in cfg.regs : reg[r] = "new" <=> number[r] = 0
    /\ \A r, q \in cfg.regs : reg[r] # "new" /\ number[r] = number[q] => r = q
    /\ \A r \in cfg.regs : callback[r] = "ended" => waiter = "failed" \/ reg[r] = "closed"
    /\ \A n \in pending_remove : \E r \in cfg.regs : reg[r] = "closed" /\ number[r] = n
    /\ \A i \in 1..Len(rdlist) : reg[rdlist[i]] \in {"added", "registered"}
    /\ waiter # "answer" => received = {}
    /\ \A e \in received : reg[e.reg] # "new" /\ number[e.reg] = e.data /\ callback[e.reg] \in {"queued", "held"}

\* With Numbers, events find their callback.
LEMMA NumbersFind ==
    ASSUME NEW cfg, EpTypes(cfg), Numbers(cfg) PROVE Poll(cfg)!EventsFindTheirCallback
  <1> SUFFICES ASSUME NEW e \in received PROVE \E r \in cfg.regs :
        /\ r = e.reg /\ number[r] = e.data /\ callback[r] \in {"queued", "held"}
        /\ \A q \in cfg.regs : number[q] = e.data => q = r
    BY DEF Poll!EventsFindTheirCallback
  <1>1. e.reg \in cfg.regs
    BY DEF EpTypes
  <1> QED BY <1>1 DEF Numbers

\* No registration has a number at first.
LEMMA NumbersInit ==
    ASSUME NEW cfg, Poll(cfg)!Init PROVE Numbers(cfg)
  BY DEF Poll!Init, Numbers

\* What of the ready list stays, and what epoll_wait finds on it.
LEMMA WithoutMembers ==
    ASSUME NEW cfg, EpTypes(cfg), NEW r \in cfg.regs
    PROVE  LET q == Poll(cfg)!Without(rdlist, r) IN
           /\ q \in Seq(cfg.regs)
           /\ \A j \in 1..Len(q) : q[j] # r /\ \E i \in 1..Len(rdlist) : q[j] = rdlist[i]
           /\ \A i \in 1..Len(rdlist) : rdlist[i] # r => \E j \in 1..Len(q) : q[j] = rdlist[i]
  <1> DEFINE S == cfg.regs \ {r}
             q == Poll(cfg)!Only(rdlist, S)
  <1>1. rdlist \in Seq(cfg.regs) /\ Poll(cfg)!Without(rdlist, r) = q
    BY DEF EpTypes, Poll!Without
  <1> HIDE DEF S
  <1>2. /\ q \in Seq(cfg.regs)
        /\ \A j \in 1..Len(q) : q[j] \in S /\ \E i \in 1..Len(rdlist) : q[j] = rdlist[i]
        /\ \A i \in 1..Len(rdlist) : rdlist[i] \in S => \E j \in 1..Len(q) : q[j] = rdlist[i]
    <2>1. q \in Seq(cfg.regs) /\ Selects(rdlist, S, Len(rdlist), q)
      BY <1>1, PollSelects
    <2> HIDE DEF q
    <2> QED BY <2>1 DEF Selects
  <1> HIDE DEF q
  <1>3. \A i \in 1..Len(rdlist) : rdlist[i] \in cfg.regs
    BY <1>1
  <1> QED BY <1>1, <1>2, <1>3 DEF S

\* What epoll_wait finds on the ready list: who is on it and has an event.
LEMMA LiveMembers ==
    ASSUME NEW cfg, EpTypes(cfg)
    PROVE  /\ Poll(cfg)!Live \in Seq(cfg.regs)
           /\ \A j \in 1..Len(Poll(cfg)!Live) : Poll(cfg)!Live[j] \in cfg.regs /\ level[Poll(cfg)!Live[j]] # {}
                /\ \E i \in 1..Len(rdlist) : Poll(cfg)!Live[j] = rdlist[i]
           /\ \A i \in 1..Len(rdlist) : level[rdlist[i]] # {} => \E j \in 1..Len(Poll(cfg)!Live) : Poll(cfg)!Live[j] = rdlist[i]
  <1> DEFINE S == {r \in cfg.regs : level[r] # {}}
             q == Poll(cfg)!Only(rdlist, S)
  <1>1. rdlist \in Seq(cfg.regs) /\ Poll(cfg)!Live = q
    BY DEF EpTypes, Poll!Live
  <1> HIDE DEF S
  <1>2. /\ q \in Seq(cfg.regs)
        /\ \A j \in 1..Len(q) : q[j] \in S /\ \E i \in 1..Len(rdlist) : q[j] = rdlist[i]
        /\ \A i \in 1..Len(rdlist) : rdlist[i] \in S => \E j \in 1..Len(q) : q[j] = rdlist[i]
    <2>1. q \in Seq(cfg.regs) /\ Selects(rdlist, S, Len(rdlist), q)
      BY <1>1, PollSelects
    <2> HIDE DEF q
    <2> QED BY <2>1 DEF Selects
  <1> HIDE DEF q
  <1>3. \A i \in 1..Len(rdlist) : rdlist[i] \in cfg.regs
    BY <1>1
  <1> QED BY <1>1, <1>2, <1>3 DEF S

\* What is on the ready list after a wakeup.
LEMMA WakeupMembers ==
    ASSUME NEW cfg, EpTypes(cfg), NEW r \in cfg.regs, Poll(cfg)!Wakeup(r)
    PROVE  \A i \in 1..Len(rdlist') : (\E j \in 1..Len(rdlist) : rdlist'[i] = rdlist[j]) \/ (rdlist'[i] = r /\ reg[r] \in {"added", "registered"})
  BY DEF EpTypes, Poll!Wakeup

\* The kernel's steps do not touch the numbers.
LEMMA NumbersKernel ==
    ASSUME NEW cfg, EpTypes(cfg), Numbers(cfg), Poll(cfg)!Kernel PROVE Numbers(cfg)'
  <1>1. PICK r \in cfg.regs : Poll(cfg)!Wakeup(r)
    BY DEF Poll!Kernel, Poll!Arrive, Poll!Established
  <1>2. UNCHANGED <<Poll(cfg)!wait, Poll(cfg)!epolled>>
    BY DEF Poll!Kernel, Poll!Arrive, Poll!Established
  <1>3. \A i \in 1..Len(rdlist') : reg[rdlist'[i]] \in {"added", "registered"}
    BY <1>1, WakeupMembers DEF Numbers
  <1> QED BY <1>2, <1>3 DEF Numbers, Poll!wait, Poll!epolled

\* register takes a number that nobody has.
LEMMA NumbersRegister ==
    ASSUME NEW cfg, Poll(cfg)!EpollerAssumption, EpTypes(cfg), Numbers(cfg), NEW r \in cfg.regs, Poll(cfg)!Register(r)
    PROVE  Numbers(cfg)'
  <1> DEFINE n == Poll(cfg)!AllocateNumber(r)
  <1>1. /\ reg[r] = "new" /\ reg' = [reg EXCEPT ![r] = "adding"] /\ number' = [number EXCEPT ![r] = n]
        /\ callback' = [callback EXCEPT ![r] = IF waiter = "failed" THEN "ended" ELSE "queued"]
        /\ UNCHANGED <<Poll(cfg)!kernel, Poll(cfg)!wait>>
    BY DEF Poll!Register
  <1>2. \A q \in cfg.regs : number[q] # n
    BY NumberFree
  <1>3. number[r] = 0 /\ n # 0
    BY <1>1, <1>2 DEF Numbers
  <1>4. reg \in [cfg.regs -> {"new", "adding", "added", "registered", "deleting", "closed"}] /\ number \in [cfg.regs -> Nat]
        /\ callback \in [cfg.regs -> {"none", "queued", "held", "ended"}]
    BY DEF EpTypes
  <1> HIDE DEF n
  <1>5. \A q \in cfg.regs : /\ reg'[q] = IF q = r THEN "adding" ELSE reg[q]
                            /\ number'[q] = IF q = r THEN n ELSE number[q]
                            /\ callback'[q] = IF q # r THEN callback[q] ELSE IF waiter = "failed" THEN "ended" ELSE "queued"
    BY <1>1, <1>4
  <1>6. UNCHANGED <<rdlist, waiter, received, pending_remove>>
    BY <1>1 DEF Poll!kernel, Poll!wait
  <1>7. (\A q \in cfg.regs : reg[q] = "new" <=> callback[q] = "none")' /\ (\A q \in cfg.regs : reg[q] = "new" <=> number[q] = 0)'
    BY <1>3, <1>5 DEF Numbers
  <1>8. \A p, q \in cfg.regs : reg'[p] # "new" /\ number'[p] = number'[q] => p = q
    BY <1>2, <1>5 DEF Numbers
  <1>9. \A q \in cfg.regs : callback'[q] = "ended" => waiter' = "failed" \/ reg'[q] = "closed"
    BY <1>5, <1>6 DEF Numbers
  <1>10. \A m \in pending_remove' : \E q \in cfg.regs : reg'[q] = "closed" /\ number'[q] = m
    <2> SUFFICES ASSUME NEW m \in pending_remove PROVE \E q \in cfg.regs : reg'[q] = "closed" /\ number'[q] = m
      BY <1>6
    <2>1. PICK q \in cfg.regs : reg[q] = "closed" /\ number[q] = m
      BY DEF Numbers
    <2> QED BY <2>1, <1>1, <1>5
  <1>11. \A i \in 1..Len(rdlist') : reg'[rdlist'[i]] \in {"added", "registered"}
    <2>1. \A i \in 1..Len(rdlist) : rdlist[i] \in cfg.regs /\ reg[rdlist[i]] \in {"added", "registered"}
      BY DEF Numbers, EpTypes
    <2> QED BY <2>1, <1>1, <1>5, <1>6
  <1>12. \A e \in received' : reg'[e.reg] # "new" /\ number'[e.reg] = e.data /\ callback'[e.reg] \in {"queued", "held"}
    <2>1. \A e \in received : e.reg \in cfg.regs /\ reg[e.reg] # "new"
      BY DEF Numbers, EpTypes
    <2> QED BY <2>1, <1>1, <1>5, <1>6 DEF Numbers
  <1>13. waiter' # "answer" => received' = {}
    BY <1>6 DEF Numbers
  <1> QED BY <1>7, <1>8, <1>9, <1>10, <1>11, <1>12, <1>13 DEF Numbers

\* The other steps of a registration: closing keeps the number until it is removed.
LEMMA NumbersRegistration ==
    ASSUME NEW cfg, EpTypes(cfg), Numbers(cfg), NEW r \in cfg.regs, Poll(cfg)!EpollAdd(r) \/ Poll(cfg)!Registered(r)
             \/ Poll(cfg)!Delete(r) \/ Poll(cfg)!Deleted(r)
    PROVE  Numbers(cfg)'
  <1>1. reg \in [cfg.regs -> {"new", "adding", "added", "registered", "deleting", "closed"}]
    BY DEF EpTypes
  <1>2. /\ UNCHANGED <<number, callback, waiter, received>>
        /\ \A q \in cfg.regs : q # r => reg'[q] = reg[q]
        /\ reg[r] # "new" /\ reg'[r] # "new" /\ reg[r] # "closed"
    BY <1>1 DEF Poll!EpollAdd, Poll!Registered, Poll!Delete, Poll!Deleted, Poll!wait, Poll!kernel
  <1>3. \A q \in cfg.regs : reg'[q] = "new" <=> reg[q] = "new"
    BY <1>2
  <1>4. \A m \in pending_remove' : \E q \in cfg.regs : reg'[q] = "closed" /\ number'[q] = m
    <2> SUFFICES ASSUME NEW m \in pending_remove' PROVE \E q \in cfg.regs : reg'[q] = "closed" /\ number'[q] = m
      OBVIOUS
    <2>1. CASE m \in pending_remove
      <3>1. PICK q \in cfg.regs : reg[q] = "closed" /\ number[q] = m
        BY <2>1 DEF Numbers
      <3> QED BY <3>1, <1>2
    <2>2. CASE m \notin pending_remove
      <3>1. Poll(cfg)!Deleted(r)
        BY <2>2 DEF Poll!EpollAdd, Poll!Registered, Poll!Delete, Poll!Deleted, Poll!wait
      <3>2. reg'[r] = "closed" /\ m = number[r]
        BY <3>1, <2>2, <1>1 DEF Poll!Deleted
      <3> QED BY <3>2, <1>2
    <2> QED BY <2>1, <2>2
  <1>5. \A i \in 1..Len(rdlist') : reg'[rdlist'[i]] \in {"added", "registered"}
    <2>1. \A i \in 1..Len(rdlist) : rdlist[i] \in cfg.regs /\ reg[rdlist[i]] \in {"added", "registered"}
      BY DEF Numbers, EpTypes
    <2>2. CASE Poll(cfg)!EpollAdd(r)
      <3>1. reg'[r] = "added"
        BY <2>2, <1>1 DEF Poll!EpollAdd
      <3>2. \A i \in 1..Len(rdlist') : (\E j \in 1..Len(rdlist) : rdlist'[i] = rdlist[j]) \/ rdlist'[i] = r
        BY <2>2 DEF Poll!EpollAdd, EpTypes
      <3> QED BY <3>1, <3>2, <2>1, <1>2
    <2>3. CASE Poll(cfg)!Registered(r)
      <3>1. reg'[r] = "registered" /\ rdlist' = rdlist
        BY <2>3, <1>1 DEF Poll!Registered, Poll!kernel
      <3> QED BY <3>1, <2>1, <1>2
    <2>4. CASE Poll(cfg)!Delete(r)
      <3>1. \A i \in 1..Len(rdlist') : rdlist'[i] # r /\ \E j \in 1..Len(rdlist) : rdlist'[i] = rdlist[j]
        BY <2>4, WithoutMembers DEF Poll!Delete
      <3> QED BY <3>1, <2>1, <1>2
    <2>5. CASE Poll(cfg)!Deleted(r)
      <3>1. reg[r] = "deleting" /\ rdlist' = rdlist
        BY <2>5 DEF Poll!Deleted, Poll!kernel
      <3> QED BY <3>1, <2>1, <1>2
    <2> QED BY <2>2, <2>3, <2>4, <2>5
  <1>6. \A q \in cfg.regs : callback'[q] = "ended" => waiter' = "failed" \/ reg'[q] = "closed"
    BY <1>2 DEF Numbers
  <1>7. \A e \in received' : reg'[e.reg] # "new" /\ number'[e.reg] = e.data /\ callback'[e.reg] \in {"queued", "held"}
    <2>1. \A e \in received : e.reg \in cfg.regs
      BY DEF EpTypes
    <2> QED BY <2>1, <1>2, <1>3 DEF Numbers
  <1> QED BY <1>2, <1>3, <1>4, <1>5, <1>6, <1>7 DEF Numbers

\* The events of an epoll_wait are of those that are registered.
LEMMA NumbersWait ==
    ASSUME NEW cfg, Poll(cfg)!EpollerAssumption, EpTypes(cfg), Numbers(cfg), Poll(cfg)!EpollWait \/ Poll(cfg)!EpollWaitEmpty
    PROVE  Numbers(cfg)'
  <1>1. CASE Poll(cfg)!EpollWaitEmpty
    BY <1>1 DEF Poll!EpollWaitEmpty, Numbers, Poll!kernel, Poll!epolled
  <1>2. CASE Poll(cfg)!EpollWait
    <2> DEFINE n == IF Len(Poll(cfg)!Live) < MaxReported THEN Len(Poll(cfg)!Live) ELSE MaxReported
    <2>0. Poll(cfg)!Live \in Seq(cfg.regs) /\ \A i \in 1..Len(Poll(cfg)!Live) : Poll(cfg)!Live[i] \in cfg.regs
            /\ reg[Poll(cfg)!Live[i]] \in {"added", "registered"}
      BY LiveMembers DEF Numbers
    <2>2. /\ received' = {[data |-> number[Poll(cfg)!Live[i]], events |-> level[Poll(cfg)!Live[i]], reg |-> Poll(cfg)!Live[i]] : i \in 1..n}
          /\ rdlist' = SubSeq(Poll(cfg)!Live, n + 1, Len(Poll(cfg)!Live)) /\ waiter' = "answer" /\ waiter = "epoll_wait"
          /\ UNCHANGED <<level, conn, arrivals, pending_remove, Poll(cfg)!epolled, call, answers, done>>
      BY <1>2 DEF Poll!EpollWait
    <2> HIDE DEF Poll!Live
    <2>1. n \in 0..Len(Poll(cfg)!Live)
      BY <2>0 DEF Poll!EpollerAssumption
    <2> HIDE DEF n
    <2>3. \A i \in 1..Len(rdlist') : reg[rdlist'[i]] \in {"added", "registered"}
      <3>1. \A i \in 1..Len(rdlist') : rdlist'[i] = Poll(cfg)!Live[i + n] /\ i + n \in 1..Len(Poll(cfg)!Live)
        BY <2>0, <2>1, <2>2
      <3> QED BY <3>1, <2>0
    <2>4. ASSUME NEW e \in received' PROVE reg[e.reg] # "new" /\ number[e.reg] = e.data /\ callback[e.reg] \in {"queued", "held"}
      <3>1. PICK i \in 1..n : e = [data |-> number[Poll(cfg)!Live[i]], events |-> level[Poll(cfg)!Live[i]], reg |-> Poll(cfg)!Live[i]]
        BY <2>2, <2>4
      <3>2. i \in 1..Len(Poll(cfg)!Live) /\ e.reg = Poll(cfg)!Live[i] /\ e.data = number[Poll(cfg)!Live[i]]
        BY <3>1, <2>1
      <3>3. e.reg \in cfg.regs /\ reg[e.reg] \in {"added", "registered"} /\ number[e.reg] = e.data
        BY <3>2, <2>0
      <3>4. callback[e.reg] \in {"none", "queued", "held", "ended"} /\ callback[e.reg] # "none" /\ callback[e.reg] # "ended"
        BY <3>3, <2>2 DEF EpTypes, Numbers
      <3> QED BY <3>3, <3>4
    <2>5. waiter' = "answer" /\ waiter = "epoll_wait" /\ UNCHANGED <<pending_remove, reg, number, callback>>
      BY <2>2 DEF Poll!epolled
    <2> QED BY <2>5, <2>3, <2>4 DEF Numbers
  <1> QED BY <1>1, <1>2

\* Numbers to be removed are forgotten when no event can be for them.
LEMMA NumbersDispatch ==
    ASSUME NEW cfg, EpTypes(cfg), Numbers(cfg), Poll(cfg)!Dispatch
    PROVE  Numbers(cfg)'
  <1>1. /\ waiter' = "epoll_wait" /\ received' = {} /\ pending_remove' = {} /\ waiter = "answer"
        /\ UNCHANGED <<rdlist, reg, number>>
        /\ \A r \in cfg.regs : callback'[r] = IF Poll(cfg)!Removed(r) THEN "ended" ELSE IF callback[r] = "queued" THEN "held" ELSE callback[r]
    BY Dispatched DEF Poll!Dispatch
  <1>2. ASSUME NEW r \in cfg.regs, Poll(cfg)!Removed(r) PROVE reg[r] = "closed" /\ reg[r] # "new"
    <2>1. PICK q \in cfg.regs : reg[q] = "closed" /\ number[q] = number[r]
      BY <1>2 DEF Numbers, Poll!Removed
    <2>2. q = r
      BY <2>1 DEF Numbers
    <2> QED BY <2>1, <2>2
  <1>3. \A r \in cfg.regs : reg[r] = "new" <=> callback'[r] = "none"
    BY <1>1, <1>2 DEF Numbers
  <1>4. \A r \in cfg.regs : callback'[r] = "ended" => reg[r] = "closed"
    BY <1>1, <1>2 DEF Numbers
  <1> QED BY <1>1, <1>3, <1>4 DEF Numbers

\* When epoll_wait fails every callback that was asked for ends.
LEMMA NumbersFails ==
    ASSUME NEW cfg, EpTypes(cfg), Numbers(cfg), Poll(cfg)!EpollWaitFails
    PROVE  Numbers(cfg)'
  <1>1. /\ waiter = "epoll_wait" /\ waiter' = "failed"
        /\ UNCHANGED <<rdlist, received, pending_remove, reg, number>>
        /\ \A r \in cfg.regs : callback'[r] = IF callback[r] = "queued" THEN "ended" ELSE callback[r]
    BY DEF Poll!EpollWaitFails, Poll!kernel
  <1>2. received = {}
    BY <1>1 DEF Numbers
  <1>3. \A r \in cfg.regs : reg[r] = "new" <=> callback'[r] = "none"
    BY <1>1 DEF Numbers
  <1> QED BY <1>1, <1>2, <1>3 DEF Numbers

\* Every step keeps the numbers.
LEMMA NumbersStep ==
    ASSUME NEW cfg, Poll(cfg)!EpollerAssumption, EpTypes(cfg), Numbers(cfg), Poll(cfg)!Next
    PROVE  Numbers(cfg)'
  <1> DEFINE Clientwise == \/ \E c \in cfg.clients : Poll(cfg)!Step(c) \/ Poll(cfg)!Cancel(c)
                           \/ \E c \in cfg.clients, r \in cfg.regs : Poll(cfg)!Read(c, r) \/ Poll(cfg)!Write(c, r)
                                \/ Poll(cfg)!Accept(c, r) \/ Poll(cfg)!WaitForRdhup(c, r) \/ Poll(cfg)!Connect(c, r)
  <1>1. CASE Clientwise
    <2>1. UNCHANGED <<rdlist, Poll(cfg)!wait, reg, number, callback>>
      <3>1. ASSUME NEW c \in cfg.clients, Poll(cfg)!Step(c) PROVE UNCHANGED <<rdlist, Poll(cfg)!wait, reg, number, callback>>
        <4>1. CASE Poll(cfg)!Perform(c)
          BY <4>1 DEF Poll!Perform, Poll!epolled
        <4>2. CASE Poll(cfg)!Eagain(c) \/ Poll(cfg)!Connecting(c)
          BY <4>2 DEF Poll!Eagain, Poll!Connecting, Poll!WaitAgain, Poll!kernel
        <4>3. CASE Ends(cfg, c)
          BY <4>3 DEF Ends, Poll!Succeed, Poll!Fail, Poll!Connected, Poll!ConnectFail, Poll!kernel
        <4> QED BY <3>1, <4>1, <4>2, <4>3 DEF Poll!Step, Ends
      <3>2. ASSUME NEW c \in cfg.clients, Poll(cfg)!Cancel(c) PROVE UNCHANGED <<rdlist, Poll(cfg)!wait, reg, number, callback>>
        BY <3>2 DEF Poll!Cancel, Poll!kernel
      <3>3. ASSUME NEW c \in cfg.clients, NEW r \in cfg.regs, Poll(cfg)!Read(c, r) \/ Poll(cfg)!Write(c, r)
                     \/ Poll(cfg)!Accept(c, r) \/ Poll(cfg)!WaitForRdhup(c, r) \/ Poll(cfg)!Connect(c, r)
            PROVE  UNCHANGED <<rdlist, Poll(cfg)!wait, reg, number, callback>>
        BY <3>3 DEF Poll!Read, Poll!Write, Poll!Accept, Poll!WaitForRdhup, Poll!Connect, Poll!Call, Poll!kernel, Poll!epolled
      <3> QED BY <1>1, <3>1, <3>2, <3>3
    <2> QED BY <2>1 DEF Numbers, Poll!wait
  <1> HIDE DEF Clientwise
  <1>2. ASSUME NEW r \in cfg.regs, Poll(cfg)!Registration(r) PROVE Numbers(cfg)'
    BY <1>2, NumbersRegister, NumbersRegistration DEF Poll!Registration
  <1>3. Poll(cfg)!Kernel \/ (\E r \in cfg.regs : Poll(cfg)!Registration(r)) \/ Poll(cfg)!EpollWait \/ Poll(cfg)!Dispatch
          \/ Poll(cfg)!EpollWaitEmpty \/ Poll(cfg)!EpollWaitFails \/ Clientwise
    BY DEF Poll!Next, Poll!Waiter, Clientwise
  <1> QED BY <1>1, <1>2, <1>3, NumbersKernel, NumbersWait, NumbersDispatch, NumbersFails

IoOps == {"read", "accept", "write", "rdhup"}

\* Sockets that are connected, fds that stay, and no errors but of a hangup.
Peaceful(cfg) ==
    cfg.faults \subseteq {"cancel"} /\ cfg.unconnected = {} /\ cfg.ops \subseteq IoOps /\ "ERR" \notin cfg.arrivals

Calm(cfg) ==
    /\ \A r \in cfg.regs : /\ conn[r] = "connected" /\ reg[r] \notin {"deleting", "closed"}
                           /\ "ERR" \notin level[r] /\ ("RDHUP" \in level[r] => "IN" \in level[r])
                           /\ ("HUP" \in level[r] => "IN" \in level[r] /\ "OUT" \in level[r] /\ "RDHUP" \in level[r])
    /\ waiter # "failed" /\ pending_remove = {}
    /\ \A c \in cfg.clients : call[c].pc # "idle" => reg[call[c].fd] = "registered" /\ call[c].op \in IoOps
    /\ \A c \in cfg.clients : call[c].pc = "answer" => call[c].outcome \in {"ok", "EAGAIN", "error"}

\* What is consumed, and what a client knows of, are events there were.
Counts(cfg) ==
    /\ \A r \in cfg.regs : \A f \in Poll(cfg)!Flags : consumed[r][f] <= total[r][f]
    /\ \A c \in cfg.clients : call[c].pc \in {"call", "answer"} => \A f \in Poll(cfg)!Flags : call[c].current[f] <= total[call[c].fd][f]

Erred(c, r)  == call[c].pc = "answer" /\ call[c].outcome = "error" /\ call[c].fd = r
Takes(c, r)  == call[c].pc = "answer" /\ call[c].outcome = "EAGAIN" /\ call[c].fd = r

\* Each performed syscall has one answer on its way; only writes to what is hung
\* up fail, and whatever still is to say EAGAIN comes before that.
Order(cfg) ==
    /\ \A i \in 1..Len(answers) : call[answers[i]].pc = "answer"
    /\ \A i, j \in 1..Len(answers) : answers[i] = answers[j] => i = j
    /\ \A c \in cfg.clients : call[c].pc = "answer" => \E i \in 1..Len(answers) : answers[i] = c
    /\ \A r \in cfg.regs : \A c \in cfg.clients : Erred(c, r) => call[c].op = "write" /\ "HUP" \in level[r]
    /\ \A r \in cfg.regs : \A i, j \in 1..Len(answers) : Erred(answers[i], r) /\ Takes(answers[j], r) => j < i

\* The steps there are.
LEMMA PeacefulSteps ==
    ASSUME NEW cfg, EpTypes(cfg), Calm(cfg), Peaceful(cfg), Poll(cfg)!Next
    PROVE  \/ \E r \in cfg.regs, flag \in cfg.arrivals : Poll(cfg)!Arrive(r, flag)
           \/ \E r \in cfg.regs : Poll(cfg)!Register(r) \/ Poll(cfg)!EpollAdd(r) \/ Poll(cfg)!Registered(r)
           \/ Poll(cfg)!EpollWait \/ Poll(cfg)!EpollWaitEmpty \/ Poll(cfg)!Dispatch
           \/ \E c \in cfg.clients : Poll(cfg)!Perform(c) \/ Poll(cfg)!Succeed(c) \/ Poll(cfg)!Eagain(c) \/ Poll(cfg)!Fail(c) \/ Poll(cfg)!Cancel(c)
           \/ \E c \in cfg.clients, r \in cfg.regs, o \in IoOps : Poll(cfg)!Call(c, r, o)
  <1>1. ASSUME NEW r \in cfg.regs, NEW result, Poll(cfg)!Established(r, result) PROVE FALSE
    BY <1>1 DEF Poll!Established, Calm
  <1>2. ASSUME NEW r \in cfg.regs, Poll(cfg)!Delete(r) \/ Poll(cfg)!Deleted(r) PROVE FALSE
    BY <1>2 DEF Poll!Delete, Poll!Deleted, Calm, Peaceful
  <1>3. ~Poll(cfg)!EpollWaitFails
    BY DEF Poll!EpollWaitFails, Peaceful
  <1>4. ASSUME NEW c \in cfg.clients, Poll(cfg)!Connected(c) \/ Poll(cfg)!Connecting(c) \/ Poll(cfg)!ConnectFail(c) PROVE FALSE
    <2>1. call[c].pc = "answer" /\ (call[c].op \in {"connect", "so_error"} \/ call[c].outcome = "EINPROGRESS")
      BY <1>4 DEF Poll!Connected, Poll!Connecting, Poll!ConnectFail, Poll!Answered
    <2> QED BY <2>1 DEF Calm, IoOps
  <1>5. ASSUME NEW c \in cfg.clients, NEW r \in cfg.regs, Poll(cfg)!Connect(c, r) PROVE FALSE
    BY <1>5 DEF Poll!Connect, Peaceful
  <1>6. ASSUME NEW c \in cfg.clients, NEW r \in cfg.regs, Poll(cfg)!Read(c, r) \/ Poll(cfg)!Write(c, r)
                 \/ Poll(cfg)!Accept(c, r) \/ Poll(cfg)!WaitForRdhup(c, r)
        PROVE  \E o \in IoOps : Poll(cfg)!Call(c, r, o)
    BY <1>6 DEF Poll!Read, Poll!Write, Poll!Accept, Poll!WaitForRdhup, IoOps
  <1> QED BY <1>1, <1>2, <1>3, <1>4, <1>5, <1>6 DEF Poll!Next, Poll!Kernel, Poll!Registration, Poll!Waiter, Poll!Step

\* What a syscall does to its client and its file.
LEMMA PerformFacts ==
    ASSUME NEW cfg, EpTypes(cfg), Calm(cfg), NEW c \in cfg.clients, Poll(cfg)!Perform(c)
    PROVE  LET r == call[c].fd IN
           /\ r \in cfg.regs /\ call[c].pc = "call" /\ call[c].op \in IoOps \ {"rdhup"} /\ answers' = Append(answers, c)
           /\ UNCHANGED <<conn, rdlist, arrivals, Poll(cfg)!wait, Poll(cfg)!epolled, done>>
           /\ \A u \in cfg.clients \ {c} : call'[u] = call[u]
           /\ call'[c].pc = "answer" /\ call'[c].op = call[c].op /\ call'[c].fd = r /\ call'[c].current = call[c].current
           /\ \A q \in cfg.regs \ {r} : level'[q] = level[q]
           /\ \/ /\ call'[c].outcome = "ok"
                 /\ \/ level'[r] = level[r]
                    \/ level'[r] = level[r] \ {"IN"} /\ "RDHUP" \notin level[r]
                    \/ level'[r] = level[r] \ {"OUT"} /\ "HUP" \notin level[r]
              \/ call'[c].outcome = "EAGAIN" /\ level'[r] = level[r] /\ Poll(cfg)!WaitFlags[call[c].op] \cap level[r] = {} /\ "HUP" \notin level[r]
              \/ call'[c].outcome = "error" /\ level'[r] = level[r] /\ call[c].op = "write" /\ "HUP" \in level[r]
  <1> DEFINE r == call[c].fd
  <1>0. Busy(cfg, c) /\ Makes(c) /\ call \in [cfg.clients -> CallRec(cfg)] /\ level \in [cfg.regs -> SUBSET Poll(cfg)!Flags]
          /\ conn \in [cfg.regs -> ConnStates]
    BY DEF EpTypes
  <1>1. call[c].pc = "call" /\ r \in cfg.regs /\ call[c].op \in IoOps \ {"rdhup"}
    BY <1>0 DEF Poll!Perform, Busy, Makes, Calm
  <1>2. PICK res \in Poll(cfg)!Result(r, call[c].op) : /\ call' = [call EXCEPT ![c].pc = "answer", ![c].outcome = res[1]]
                                                       /\ level' = [level EXCEPT ![r] = res[2]]
                                                       /\ conn' = [conn EXCEPT ![r] = res[3]]
    BY DEF Poll!Perform
  <1>3. answers' = Append(answers, c) /\ UNCHANGED <<rdlist, arrivals, Poll(cfg)!wait, Poll(cfg)!epolled, done>>
    BY DEF Poll!Perform
  <1>4. conn[r] = "connected" /\ "ERR" \notin level[r] /\ level[r] \in SUBSET Poll(cfg)!Flags
        /\ ("RDHUP" \in level[r] => "IN" \in level[r])
        /\ ("HUP" \in level[r] => "IN" \in level[r] /\ "OUT" \in level[r] /\ "RDHUP" \in level[r])
    BY <1>0, <1>1 DEF Calm
  <1> HIDE DEF r
  <1>5. /\ res[3] = conn[r]
        /\ \/ /\ res[1] = "ok"
              /\ \/ res[2] = level[r]
                 \/ res[2] = level[r] \ {"IN"} /\ "RDHUP" \notin level[r]
                 \/ res[2] = level[r] \ {"OUT"} /\ "HUP" \notin level[r]
           \/ res[1] = "EAGAIN" /\ res[2] = level[r] /\ Poll(cfg)!WaitFlags[call[c].op] \cap level[r] = {} /\ "HUP" \notin level[r]
           \/ res[1] = "error" /\ res[2] = level[r] /\ call[c].op = "write" /\ "HUP" \in level[r]
    <2>1. CASE call[c].op \in {"read", "accept"}
      <3>1. res \in IF "IN" \notin level[r] THEN {<<"EAGAIN", level[r], conn[r]>>}
            ELSE {<<"ok", level[r], conn[r]>>} \cup
                 IF "RDHUP" \in level[r] THEN {} ELSE {<<"ok", level[r] \ {"IN"}, conn[r]>>}
        BY <1>2, <1>4, <2>1 DEF Poll!Result
      <3>2. Poll(cfg)!WaitFlags[call[c].op] \subseteq {"IN", "RDHUP", "HUP", "ERR"}
        BY <2>1, OpFlags
      <3> QED BY <3>1, <3>2, <1>4
    <2>2. CASE call[c].op = "write"
      <3>1. res \in IF "HUP" \in level[r] THEN {<<"error", level[r], conn[r]>>}
            ELSE IF "OUT" \notin level[r] THEN {<<"EAGAIN", level[r], conn[r]>>}
            ELSE {<<"ok", level[r], conn[r]>>, <<"ok", level[r] \ {"OUT"}, conn[r]>>}
        BY <1>2, <1>4, <2>2 DEF Poll!Result
      <3>2. Poll(cfg)!WaitFlags[call[c].op] = {"OUT", "ERR"}
        BY <2>2, OpFlags
      <3> QED BY <3>1, <3>2, <1>4, <2>2
    <2> QED BY <2>1, <2>2, <1>1 DEF IoOps
  <1>6. /\ call'[c] = [call[c] EXCEPT !.pc = "answer", !.outcome = res[1]] /\ (\A u \in cfg.clients \ {c} : call'[u] = call[u])
    BY <1>0, <1>2
  <1>7. call'[c].pc = "answer" /\ call'[c].op = call[c].op /\ call'[c].fd = call[c].fd /\ call'[c].current = call[c].current
        /\ call'[c].outcome = res[1]
    <2>1. call[c] \in CallRec(cfg)
      BY <1>0
    <2> QED BY <2>1, <1>6 DEF CallRec
  <1>8. level'[r] = res[2] /\ (\A q \in cfg.regs \ {r} : level'[q] = level[q])
    BY <1>0, <1>1, <1>2 DEF r
  <1>9. conn' = conn
    BY <1>0, <1>1, <1>2, <1>5 DEF r
  <1> QED BY <1>1, <1>3, <1>5, <1>6, <1>7, <1>8, <1>9 DEF r

\* Files, registrations and epoll_wait take a step.
LEMMA PlainKernel ==
    ASSUME NEW cfg, EpTypes(cfg), EpTypes(cfg)', Calm(cfg), Counts(cfg), Order(cfg), Peaceful(cfg),
           \/ \E r \in cfg.regs, flag \in cfg.arrivals : Poll(cfg)!Arrive(r, flag)
           \/ \E r \in cfg.regs : Poll(cfg)!Register(r) \/ Poll(cfg)!EpollAdd(r) \/ Poll(cfg)!Registered(r)
           \/ Poll(cfg)!EpollWait \/ Poll(cfg)!EpollWaitEmpty
    PROVE  /\ UNCHANGED <<call, answers, total, consumed, mask, queue, waiters>>
           /\ \A r \in cfg.regs : level[r] \subseteq level'[r] /\ (reg[r] = "registered" => reg'[r] = "registered")
           /\ Calm(cfg)' /\ Counts(cfg)' /\ Order(cfg)'
  <1>1. /\ UNCHANGED <<call, answers, total, consumed, mask, queue, waiters>> /\ UNCHANGED <<conn, pending_remove>>
        /\ waiter' # "failed" /\ answers' = answers
    <2>1. ASSUME NEW r \in cfg.regs, NEW flag \in cfg.arrivals, Poll(cfg)!Arrive(r, flag)
          PROVE  UNCHANGED <<call, answers, total, consumed, mask, queue, waiters, conn, pending_remove, waiter>>
      BY <2>1 DEF Poll!Arrive, Poll!wait, Poll!epolled
    <2>2. ASSUME NEW r \in cfg.regs, Poll(cfg)!Register(r) \/ Poll(cfg)!EpollAdd(r) \/ Poll(cfg)!Registered(r)
          PROVE  UNCHANGED <<call, answers, total, consumed, mask, queue, waiters, conn, pending_remove, waiter>>
      BY <2>2 DEF Poll!Register, Poll!EpollAdd, Poll!Registered, Poll!wait, Poll!kernel
    <2>3. ASSUME Poll(cfg)!EpollWait \/ Poll(cfg)!EpollWaitEmpty
          PROVE  UNCHANGED <<call, answers, total, consumed, mask, queue, waiters, conn, pending_remove>> /\ waiter' = "answer"
      BY <2>3 DEF Poll!EpollWait, Poll!EpollWaitEmpty, Poll!epolled, Poll!kernel
    <2> QED BY <2>1, <2>2, <2>3 DEF Calm
  <1>2. ASSUME NEW q \in cfg.regs
        PROVE  /\ level[q] \subseteq level'[q] /\ "ERR" \notin level'[q] /\ ("RDHUP" \in level'[q] => "IN" \in level'[q])
               /\ ("HUP" \in level'[q] => "IN" \in level'[q] /\ "OUT" \in level'[q] /\ "RDHUP" \in level'[q])
               /\ (reg[q] = "registered" => reg'[q] = "registered") /\ reg'[q] \notin {"deleting", "closed"}
    <2>0. /\ level[q] \in SUBSET Poll(cfg)!Flags /\ "ERR" \notin level[q] /\ ("RDHUP" \in level[q] => "IN" \in level[q])
          /\ ("HUP" \in level[q] => "IN" \in level[q] /\ "OUT" \in level[q] /\ "RDHUP" \in level[q])
          /\ level \in [cfg.regs -> SUBSET Poll(cfg)!Flags] /\ reg[q] \notin {"deleting", "closed"}
          /\ reg \in [cfg.regs -> {"new", "adding", "added", "registered", "deleting", "closed"}]
      BY DEF EpTypes, Calm
    <2>1. ASSUME NEW r \in cfg.regs, NEW flag \in cfg.arrivals, Poll(cfg)!Arrive(r, flag)
          PROVE  /\ level[q] \subseteq level'[q] /\ "ERR" \notin level'[q] /\ ("RDHUP" \in level'[q] => "IN" \in level'[q])
                 /\ ("HUP" \in level'[q] => "IN" \in level'[q] /\ "OUT" \in level'[q] /\ "RDHUP" \in level'[q])
                 /\ reg' = reg
      <3> DEFINE more == IF flag = "HUP" THEN {"IN", "OUT", "RDHUP", "HUP"}
                         ELSE IF flag = "RDHUP" THEN {"IN", "RDHUP"} ELSE {flag}
      <3>1. level' = [level EXCEPT ![r] = @ \cup more] /\ reg' = reg
        BY <2>1 DEF Poll!Arrive, Poll!epolled
      <3>2. flag # "ERR"
        BY DEF Peaceful
      <3>3. level'[q] = IF q = r THEN level[q] \cup more ELSE level[q]
        BY <3>1, <2>0
      <3> QED BY <3>1, <3>2, <3>3, <2>0
    <2>2. ASSUME NEW r \in cfg.regs, Poll(cfg)!Register(r) \/ Poll(cfg)!EpollAdd(r) \/ Poll(cfg)!Registered(r)
          PROVE  level' = level /\ (reg[q] = "registered" => reg'[q] = "registered") /\ reg'[q] \notin {"deleting", "closed"}
      BY <2>0, <2>2 DEF Poll!Register, Poll!EpollAdd, Poll!Registered, Poll!kernel
    <2>3. ASSUME Poll(cfg)!EpollWait \/ Poll(cfg)!EpollWaitEmpty PROVE level' = level /\ reg' = reg
      BY <2>3 DEF Poll!EpollWait, Poll!EpollWaitEmpty, Poll!epolled, Poll!kernel
    <2> QED BY <2>0, <2>1, <2>2, <2>3
  <1>3. ASSUME NEW c \in cfg.clients, call[c].pc # "idle" PROVE call[c].fd \in cfg.regs
    BY <1>3 DEF EpTypes, Busy
  <1>4. Calm(cfg)'
    BY <1>1, <1>2, <1>3 DEF Calm
  <1>5. Counts(cfg)'
    BY <1>1 DEF Counts
  <1>6. \A c : \A r : (Erred(c, r)' <=> Erred(c, r)) /\ (Takes(c, r)' <=> Takes(c, r))
    BY <1>1 DEF Erred, Takes
  <1>7. Order(cfg)'
    BY <1>1, <1>2, <1>6 DEF Order
  <1> QED BY <1>1, <1>2, <1>4, <1>5, <1>7

\* Processing events: who is told, and what stays ordered.
LEMMA PlainDispatch ==
    ASSUME NEW cfg, EpTypes(cfg), EpTypes(cfg)', Queues(cfg), Numbers(cfg), Calm(cfg), Counts(cfg), Order(cfg), Poll(cfg)!Dispatch
    PROVE  /\ Calm(cfg)' /\ Counts(cfg)' /\ Order(cfg)'
           /\ \A c \in cfg.clients, r \in cfg.regs : Takes(c, r)' => Takes(c, r) /\ call'[c] = call[c]
           /\ \A c \in cfg.clients : call'[c].pc = "wait" => call'[c] = call[c] /\ c \notin Poll(cfg)!Resumed(call[c].fd)
  <1>1. /\ waiter' = "epoll_wait" /\ received' = {} /\ pending_remove' = {}
        /\ UNCHANGED <<level, rdlist, conn, arrivals, reg, number, consumed, answers, done>>
    BY Dispatched
  <1>2. \A r \in cfg.regs : \A f \in Poll(cfg)!Flags : total'[r][f] >= total[r][f] /\ total[r][f] \in Nat /\ total'[r][f] \in Nat
    <2> SUFFICES ASSUME NEW r \in cfg.regs, NEW f \in Poll(cfg)!Flags PROVE total'[r][f] >= total[r][f] /\ total[r][f] \in Nat /\ total'[r][f] \in Nat
      OBVIOUS
    <2>1. total[r][f] \in Nat
      BY DEF EpTypes
    <2>2. total'[r][f] = total[r][f] + IF f \in Poll(cfg)!EventsOf(r) THEN 1 ELSE 0
      <3>1. \A g \in Poll(cfg)!Flags : total'[r][g] = total[r][g] + IF g \in Poll(cfg)!EventsOf(r) THEN 1 ELSE 0
        BY ONLY Poll(cfg)!Dispatch, DispatchedCounts
      <3> QED BY <3>1
    <2> QED BY <2>1, <2>2
  <1>3. ASSUME NEW c \in cfg.clients
        PROVE  \/ call'[c].pc = "idle" /\ (call[c].pc = "wait")
               \/ /\ call[c].pc = "wait" /\ call'[c].pc = "call" /\ call'[c].fd = call[c].fd /\ call'[c].op = call[c].op
                  /\ call[c].fd \in cfg.regs /\ \A f \in Poll(cfg)!Flags : call'[c].current[f] <= total'[call'[c].fd][f]
               \/ call'[c] = call[c] /\ \A r \in cfg.regs : c \notin Poll(cfg)!Resumed(r)
    <2>1. ASSUME NEW r \in cfg.regs, c \in Poll(cfg)!Thrown(r) PROVE call[c].pc = "wait"
      BY <2>1 DEF Poll!Thrown, Queues, Poll!Waiting
    <2>2. ASSUME NEW r \in cfg.regs, c \in Poll(cfg)!Resumed(r), call'[c] = Poll(cfg)!Proceed(call[c].op, call[c].fd, total'[call[c].fd])
          PROVE  /\ call[c].pc = "wait" /\ call[c].fd \in cfg.regs
                 /\ call'[c].pc \in {"idle", "call"}
                 /\ call'[c].pc = "call" => call'[c].fd = call[c].fd /\ call'[c].op = call[c].op
                 /\ \A f \in Poll(cfg)!Flags : call'[c].current[f] <= total'[call[c].fd][f]
      <3>1. call[c].pc = "wait" /\ call[c].fd = r
        BY <2>2 DEF Poll!Resumed, Queues
      <3>2. call[c].op \in AllOps /\ total'[r] \in [Poll(cfg)!Flags -> Nat]
        BY <3>1, Dispatched DEF EpTypes, Busy
      <3>3. Poll(cfg)!Idle.pc = "idle"
        BY IdleType
      <3> QED BY <3>1, <3>2, <2>2, ProceedType
    <2> QED BY <2>1, <2>2, Dispatched, IdleType
  <1>4. Calm(cfg)'
    BY <1>1, <1>3 DEF Calm
  <1>5. Counts(cfg)'
    <2>1. \A r \in cfg.regs : \A f \in Poll(cfg)!Flags : consumed'[r][f] <= total'[r][f]
      <3> SUFFICES ASSUME NEW r \in cfg.regs, NEW f \in Poll(cfg)!Flags PROVE consumed'[r][f] <= total'[r][f]
        OBVIOUS
      <3>1. consumed'[r][f] = consumed[r][f] /\ consumed[r][f] <= total[r][f] /\ consumed[r][f] \in Nat
        BY <1>1 DEF Counts, EpTypes
      <3> QED BY <3>1, <1>2
    <2>2. ASSUME NEW c \in cfg.clients, call'[c].pc \in {"call", "answer"}, NEW f \in Poll(cfg)!Flags
          PROVE  call'[c].current[f] <= total'[call'[c].fd][f]
      <3>1. CASE call'[c] = call[c]
        <4>1. Busy(cfg, c) /\ call[c].pc \in {"call", "answer"} /\ call[c].current[f] \in Nat
          BY <3>1, <2>2 DEF EpTypes, CallRec
        <4>2. call[c].fd \in cfg.regs /\ call[c].current[f] <= total[call[c].fd][f]
          BY <4>1 DEF Busy, Counts
        <4> QED BY <4>1, <4>2, <3>1, <1>2
      <3> QED BY <3>1, <2>2, <1>3
    <2> QED BY <2>1, <2>2 DEF Counts
  <1>6. \A c \in cfg.clients : (call[c].pc = "answer" \/ call'[c].pc = "answer") => call'[c] = call[c]
    BY <1>3
  <1>7. \A c \in cfg.clients, r \in cfg.regs : (Erred(c, r)' <=> Erred(c, r)) /\ (Takes(c, r)' <=> Takes(c, r))
          /\ (Takes(c, r) => call'[c] = call[c]) /\ (Erred(c, r) => call'[c] = call[c])
    BY <1>6 DEF Erred, Takes
  <1>8. Order(cfg)'
    <2>1. \A i \in 1..Len(answers) : answers[i] \in cfg.clients
      BY DEF EpTypes
    <2> QED BY <2>1, <1>1, <1>6, <1>7 DEF Order
  <1>9. \A c \in cfg.clients : call'[c].pc = "wait" => call'[c] = call[c] /\ c \notin Poll(cfg)!Resumed(call[c].fd)
    <2> SUFFICES ASSUME NEW c \in cfg.clients, call'[c].pc = "wait" PROVE call'[c] = call[c] /\ c \notin Poll(cfg)!Resumed(call[c].fd)
      OBVIOUS
    <2>1. call'[c] = call[c] /\ \A r \in cfg.regs : c \notin Poll(cfg)!Resumed(r)
      BY <1>3
    <2>2. call[c].fd \in cfg.regs
      BY <2>1 DEF EpTypes, Busy
    <2> QED BY <2>1, <2>2
  <1> QED BY <1>4, <1>5, <1>7, <1>8, <1>9

\* A syscall that is performed has the last answer.
LEMMA PlainPerform ==
    ASSUME NEW cfg, EpTypes(cfg), EpTypes(cfg)', Calm(cfg), Counts(cfg), Order(cfg), NEW c \in cfg.clients, Poll(cfg)!Perform(c)
    PROVE  Calm(cfg)' /\ Counts(cfg)' /\ Order(cfg)'
  <1> DEFINE r == call[c].fd
  <1>1. /\ r \in cfg.regs /\ call[c].pc = "call" /\ call[c].op \in IoOps \ {"rdhup"} /\ answers' = Append(answers, c)
        /\ UNCHANGED <<conn, rdlist, arrivals, Poll(cfg)!wait, Poll(cfg)!epolled, done>>
        /\ \A u \in cfg.clients \ {c} : call'[u] = call[u]
        /\ call'[c].pc = "answer" /\ call'[c].op = call[c].op /\ call'[c].fd = r /\ call'[c].current = call[c].current
        /\ \A q \in cfg.regs \ {r} : level'[q] = level[q]
    BY PerformFacts
  <1>2. \/ /\ call'[c].outcome = "ok"
           /\ \/ level'[r] = level[r]
              \/ level'[r] = level[r] \ {"IN"} /\ "RDHUP" \notin level[r]
              \/ level'[r] = level[r] \ {"OUT"} /\ "HUP" \notin level[r]
        \/ call'[c].outcome = "EAGAIN" /\ level'[r] = level[r] /\ Poll(cfg)!WaitFlags[call[c].op] \cap level[r] = {} /\ "HUP" \notin level[r]
        \/ call'[c].outcome = "error" /\ level'[r] = level[r] /\ call[c].op = "write" /\ "HUP" \in level[r]
    BY PerformFacts
  <1> HIDE DEF r
  <1>3. UNCHANGED <<reg, waiter, pending_remove, total, consumed>>
    BY <1>1 DEF Poll!wait, Poll!epolled
  <1>4. \A q \in cfg.regs : "HUP" \in level'[q] <=> "HUP" \in level[q]
    <2>1. "HUP" \in level[r] => "RDHUP" \in level[r]
      BY <1>1 DEF Calm
    <2> QED BY <2>1, <1>1, <1>2
  <1>5. Calm(cfg)'
    <2>1. ASSUME NEW q \in cfg.regs
          PROVE  /\ conn'[q] = "connected" /\ reg'[q] \notin {"deleting", "closed"}
                 /\ "ERR" \notin level'[q] /\ ("RDHUP" \in level'[q] => "IN" \in level'[q])
                 /\ ("HUP" \in level'[q] => "IN" \in level'[q] /\ "OUT" \in level'[q] /\ "RDHUP" \in level'[q])
      <3>1. CASE q = r
        BY <3>1, <1>1, <1>2, <1>3 DEF Calm
      <3>2. CASE q # r
        BY <3>2, <1>1, <1>3 DEF Calm
      <3> QED BY <3>1, <3>2
    <2>2. ASSUME NEW u \in cfg.clients, call'[u].pc # "idle" PROVE reg'[call'[u].fd] = "registered" /\ call'[u].op \in IoOps
      <3>1. CASE u = c
        <4>1. reg[r] = "registered"
          BY <1>1 DEF Calm, r
        <4> QED BY <3>1, <4>1, <1>1, <1>3
      <3>2. CASE u # c
        BY <3>2, <2>2, <1>1, <1>3 DEF Calm
      <3> QED BY <3>1, <3>2
    <2>3. ASSUME NEW u \in cfg.clients, call'[u].pc = "answer" PROVE call'[u].outcome \in {"ok", "EAGAIN", "error"}
      <3>1. CASE u = c
        BY <3>1, <1>2
      <3>2. CASE u # c
        BY <3>2, <2>3, <1>1 DEF Calm
      <3> QED BY <3>1, <3>2
    <2>4. waiter' # "failed" /\ pending_remove' = {}
      BY <1>3 DEF Calm
    <2> QED BY <2>1, <2>2, <2>3, <2>4 DEF Calm
  <1>6. Counts(cfg)'
    <2>1. ASSUME NEW u \in cfg.clients, call'[u].pc \in {"call", "answer"}, NEW f \in Poll(cfg)!Flags
          PROVE  call'[u].current[f] <= total'[call'[u].fd][f]
      <3>1. CASE u = c
        BY <3>1, <1>1, <1>3 DEF Counts, r
      <3>2. CASE u # c
        BY <3>2, <2>1, <1>1, <1>3 DEF Counts
      <3> QED BY <3>1, <3>2
    <2> QED BY <2>1, <1>3 DEF Counts
  <1>7. answers \in Seq(cfg.clients) /\ Len(answers) \in Nat /\ Len(answers') = Len(answers) + 1 /\ answers'[Len(answers')] = c
        /\ \A i \in 1..Len(answers') : i # Len(answers') => i \in 1..Len(answers) /\ answers'[i] = answers[i] /\ answers[i] \in cfg.clients \ {c}
    <2>1. answers \in Seq(cfg.clients) /\ answers' = Append(answers, c)
      BY <1>1 DEF EpTypes
    <2>2. \A i \in 1..Len(answers) : answers[i] \in cfg.clients \ {c}
      BY <2>1, <1>1 DEF Order
    <2>3. Len(answers) \in Nat /\ Len(answers') = Len(answers) + 1 /\ answers'[Len(answers')] = c
          /\ \A i \in 1..Len(answers) : answers'[i] = answers[i]
      BY <2>1
    <2> QED BY <2>1, <2>2, <2>3
  <1>8. Order(cfg)'
    <2>1. ASSUME NEW i \in 1..Len(answers') PROVE call'[answers'[i]].pc = "answer"
      <3>1. CASE i = Len(answers')
        BY <3>1, <1>1, <1>7
      <3>2. CASE i # Len(answers')
        BY <3>2, <1>1, <1>7 DEF Order
      <3> QED BY <3>1, <3>2
    <2>2. ASSUME NEW i \in 1..Len(answers'), NEW j \in 1..Len(answers'), answers'[i] = answers'[j] PROVE i = j
      <3>1. CASE i # Len(answers') /\ j # Len(answers')
        BY <3>1, <2>2, <1>7 DEF Order
      <3>2. CASE i = Len(answers') \/ j = Len(answers')
        BY <3>2, <2>2, <1>7
      <3> QED BY <3>1, <3>2
    <2>3. ASSUME NEW u \in cfg.clients, call'[u].pc = "answer" PROVE \E i \in 1..Len(answers') : answers'[i] = u
      <3>1. CASE u = c
        <4>1. Len(answers') \in 1..Len(answers')
          BY <1>7
        <4> QED BY <3>1, <4>1, <1>7
      <3>2. CASE u # c
        <4>1. PICK i \in 1..Len(answers) : answers[i] = u
          BY <3>2, <2>3, <1>1 DEF Order
        <4>2. i \in 1..Len(answers') /\ i # Len(answers')
          BY <1>7
        <4> QED BY <4>1, <4>2, <1>7
      <3> QED BY <3>1, <3>2
    <2>4. ASSUME NEW q \in cfg.regs, NEW u \in cfg.clients, Erred(u, q)' PROVE call'[u].op = "write" /\ "HUP" \in level'[q]
      <3>1. CASE u = c
        <4>1. call'[c].outcome = "error" /\ q = r
          BY <3>1, <2>4, <1>1 DEF Erred
        <4>2. call[c].op = "write" /\ "HUP" \in level[r]
          BY <4>1, <1>2
        <4> QED BY <3>1, <4>1, <4>2, <1>1, <1>4
      <3>2. CASE u # c
        BY <3>2, <2>4, <1>1, <1>4 DEF Order, Erred
      <3> QED BY <3>1, <3>2
    <2>5. ASSUME NEW q \in cfg.regs, NEW i \in 1..Len(answers'), NEW j \in 1..Len(answers'), Erred(answers[i], q)', Takes(answers[j], q)'
          PROVE  j < i
      <3>1. CASE j = Len(answers')
        <4>1. call'[c].outcome = "EAGAIN" /\ q = r
          BY <3>1, <2>5, <1>1, <1>7 DEF Takes
        <4>2. "HUP" \notin level[q]
          BY <4>1, <1>2
        <4>3. answers'[i] \in cfg.clients
          BY <1>7
        <4> QED BY <4>2, <4>3, <2>4, <2>5, <1>4
      <3>2. CASE j # Len(answers') /\ i = Len(answers')
        BY <3>2, <1>7
      <3>3. CASE j # Len(answers') /\ i # Len(answers')
        <4>1. i \in 1..Len(answers) /\ j \in 1..Len(answers) /\ answers'[i] = answers[i] /\ answers'[j] = answers[j]
              /\ answers[i] # c /\ answers[j] # c /\ answers[i] \in cfg.clients /\ answers[j] \in cfg.clients
          BY <3>3, <1>7
        <4>2. Erred(answers[i], q) /\ Takes(answers[j], q)
          BY <4>1, <2>5, <1>1 DEF Erred, Takes
        <4> QED BY <4>1, <4>2 DEF Order
      <3> QED BY <3>1, <3>2, <3>3
    <2> QED BY <2>1, <2>2, <2>3, <2>4, <2>5 DEF Order
  <1> QED BY <1>5, <1>6, <1>8

\* A client whose answer is processed, or that had none to wait for, goes on.
LEMMA PlainClient ==
    ASSUME NEW cfg, EpTypes(cfg), EpTypes(cfg)', Calm(cfg), Counts(cfg), Order(cfg), NEW c \in cfg.clients,
           UNCHANGED <<level, conn, reg, waiter, pending_remove, total>>,
           \A u \in cfg.clients \ {c} : call'[u] = call[u],
           call'[c].pc # "answer",
           call'[c].pc # "idle" => /\ call'[c].fd \in cfg.regs /\ reg[call'[c].fd] = "registered" /\ call'[c].op \in IoOps
                                   /\ \A f \in Poll(cfg)!Flags : call'[c].current[f] <= total[call'[c].fd][f],
           \A r \in cfg.regs : \A f \in Poll(cfg)!Flags : consumed'[r][f] <= total[r][f],
           Poll(cfg)!Process(c) \/ (call[c].pc # "answer" /\ UNCHANGED answers)
    PROVE  Calm(cfg)' /\ Counts(cfg)' /\ Order(cfg)'
  <1>1. Calm(cfg)'
    BY DEF Calm
  <1>2. Counts(cfg)'
    <2>1. ASSUME NEW u \in cfg.clients, call'[u].pc \in {"call", "answer"}, NEW f \in Poll(cfg)!Flags
          PROVE  call'[u].current[f] <= total'[call'[u].fd][f]
      <3>1. CASE u = c
        BY <3>1, <2>1
      <3>2. CASE u # c
        BY <3>2, <2>1 DEF Counts
      <3> QED BY <3>1, <3>2
    <2> QED BY <2>1 DEF Counts
  <1>3. \A u \in cfg.clients, r \in cfg.regs : (Erred(u, r)' => Erred(u, r) /\ u # c) /\ (Takes(u, r)' => Takes(u, r) /\ u # c)
    BY DEF Erred, Takes
  <1>4. CASE call[c].pc # "answer" /\ UNCHANGED answers
    <2>1. answers \in Seq(cfg.clients) /\ \A i \in 1..Len(answers) : answers[i] \in cfg.clients /\ answers[i] # c
      BY <1>4 DEF EpTypes, Order
    <2>2. \A i \in 1..Len(answers) : call'[answers[i]].pc = "answer"
      BY <2>1 DEF Order
    <2>3. \A r \in cfg.regs : \A u \in cfg.clients : Erred(u, r)' => call'[u].op = "write" /\ "HUP" \in level'[r]
      BY <1>3 DEF Order
    <2>4. \A u \in cfg.clients : call'[u].pc = "answer" => \E i \in 1..Len(answers) : answers[i] = u
      BY DEF Order
    <2>5. \A r \in cfg.regs : \A i, j \in 1..Len(answers) : Erred(answers[i], r)' /\ Takes(answers[j], r)' => j < i
      <3> SUFFICES ASSUME NEW r \in cfg.regs, NEW i \in 1..Len(answers), NEW j \in 1..Len(answers), Erred(answers[i], r)', Takes(answers[j], r)'
                   PROVE j < i
        OBVIOUS
      <3>1. call'[answers[i]] = call[answers[i]] /\ call'[answers[j]] = call[answers[j]]
        BY <2>1
      <3>2. answers' = answers
        BY <1>4
      <3>3. Erred(answers[i], r) /\ Takes(answers[j], r)
        BY <3>1, <3>2 DEF Erred, Takes
      <3> QED BY <3>3 DEF Order
    <2>6. \A i, j \in 1..Len(answers) : answers[i] = answers[j] => i = j
      BY DEF Order
    <2> HIDE DEF Erred, Takes
    <2>7. Order(cfg)'
      BY <1>4, <2>2, <2>3, <2>4, <2>5, <2>6 DEF Order
    <2> QED BY <1>1, <1>2, <2>7
  <1>5. CASE Poll(cfg)!Process(c)
    <2>1. /\ answers' \in Seq(cfg.clients) /\ Len(answers) \in Nat \ {0} /\ Len(answers') = Len(answers) - 1 /\ answers[1] = c
          /\ \A i \in 1..Len(answers') : i + 1 \in 1..Len(answers) /\ answers'[i] = answers[i + 1]
      BY <1>5, Processed
    <2>2. \A i \in 1..Len(answers') : i + 1 # 1 /\ 1 \in 1..Len(answers)
      BY <2>1
    <2>3. \A i \in 1..Len(answers') : answers'[i] # c /\ answers'[i] \in cfg.clients
      BY <2>1, <2>2 DEF Order
    <2>4. \A i \in 1..Len(answers') : call'[answers'[i]].pc = "answer"
      <3> SUFFICES ASSUME NEW i \in 1..Len(answers') PROVE call'[answers'[i]].pc = "answer"
        OBVIOUS
      <3>1. call'[answers'[i]] = call[answers[i + 1]] /\ i + 1 \in 1..Len(answers)
        BY <2>1, <2>3
      <3> QED BY <3>1 DEF Order
    <2>5. ASSUME NEW i \in 1..Len(answers'), NEW j \in 1..Len(answers'), answers'[i] = answers'[j] PROVE i = j
      <3>1. i + 1 \in 1..Len(answers) /\ j + 1 \in 1..Len(answers) /\ answers[i + 1] = answers[j + 1]
        BY <2>1, <2>5
      <3>2. i + 1 = j + 1
        BY <3>1 DEF Order
      <3> QED BY <3>2
    <2>6. ASSUME NEW u \in cfg.clients, call'[u].pc = "answer" PROVE \E i \in 1..Len(answers') : answers'[i] = u
      <3>1. u # c /\ call[u].pc = "answer"
        BY <2>6
      <3>2. PICK i \in 1..Len(answers) : answers[i] = u
        BY <3>1 DEF Order
      <3>3. i # 1 /\ i - 1 \in 1..Len(answers') /\ (i - 1) + 1 = i
        BY <3>1, <3>2, <2>1
      <3> QED BY <3>2, <3>3, <2>1
    <2>7. \A r \in cfg.regs : \A u \in cfg.clients : Erred(u, r)' => call'[u].op = "write" /\ "HUP" \in level'[r]
      BY <1>3 DEF Order
    <2>8. ASSUME NEW r \in cfg.regs, NEW i \in 1..Len(answers'), NEW j \in 1..Len(answers'), Erred(answers[i], r)', Takes(answers[j], r)' PROVE j < i
      <3>1. i + 1 \in 1..Len(answers) /\ j + 1 \in 1..Len(answers) /\ answers'[i] = answers[i + 1] /\ answers'[j] = answers[j + 1]
            /\ call'[answers'[i]] = call[answers[i + 1]] /\ call'[answers'[j]] = call[answers[j + 1]]
        BY <2>1, <2>3
      <3>2. Erred(answers[i + 1], r) /\ Takes(answers[j + 1], r)
        BY <3>1, <2>8 DEF Erred, Takes
      <3>3. j + 1 < i + 1
        BY <3>1, <3>2 DEF Order
      <3> QED BY <3>3
    <2>9. Order(cfg)'
      BY <2>4, <2>5, <2>6, <2>7, <2>8 DEF Order
    <2> QED BY <1>1, <1>2, <2>9
  <1> QED BY <1>1, <1>2, <1>4, <1>5

\* An event that says f of r is to come.
Coming(cfg, r, f) == Poll(cfg)!InRdlist(r) \/ \E e \in received : e.reg = r /\ f \in e.events

Taken(cfg, c, r, f) == Takes(c, r) /\ f \in Poll(cfg)!WaitFlags[call[c].op]

\* What is known of r says f, and still will when every EAGAIN has been processed.
Believed(cfg, r, f) ==
    \/ f \in mask[r] /\ \A c \in cfg.clients : ~Taken(cfg, c, r, f)
    \/ consumed[r][f] < total[r][f] /\ \A c \in cfg.clients : Taken(cfg, c, r, f) => call[c].current[f] < total[r][f]

\* Writes do not wait: they are told of the error.
HungUp(cfg, r, f) == f = "OUT" /\ "HUP" \in level[r] /\ "ERR" \in mask[r] /\ \A c \in cfg.clients : ~Takes(c, r)

Known(cfg) == \A r \in cfg.regs : reg[r] \in {"added", "registered"} =>
            \A f \in level[r] : Coming(cfg, r, f) \/ Believed(cfg, r, f) \/ HungUp(cfg, r, f)

NotForgotten(cfg) == \A c \in cfg.clients : call[c].pc = "wait" =>
            \A f \in Poll(cfg)!WaitFlags[call[c].op] \cap level[call[c].fd] : Coming(cfg, call[c].fd, f)

ReadyInv(cfg) == Calm(cfg) /\ Counts(cfg) /\ Order(cfg) /\ Known(cfg) /\ NotForgotten(cfg)

\* Who waits for a file that is ready has an event coming.
LEMMA ReadyMeans ==
    ASSUME NEW cfg, EpTypes(cfg), ReadyInv(cfg) PROVE Poll(cfg)!NoLostReadiness
  <1> SUFFICES ASSUME NEW c \in cfg.clients, Poll(cfg)!WaitsReady(c) PROVE Poll(cfg)!EventComing(call[c].fd)
    BY DEF Poll!NoLostReadiness
  <1>1. PICK f \in level[call[c].fd] \cap Poll(cfg)!WaitFlags[call[c].op] : TRUE
    BY DEF Poll!WaitsReady
  <1>2. Coming(cfg, call[c].fd, f)
    BY <1>1 DEF Poll!WaitsReady, ReadyInv, NotForgotten
  <1> QED BY <1>2 DEF Coming, Poll!EventComing

\* At first nobody waits, and what can be written to is on no list.
LEMMA ReadyInit ==
    ASSUME NEW cfg, Poll(cfg)!Init, Peaceful(cfg) PROVE ReadyInv(cfg)
  <1>1. \A c \in cfg.clients : call[c].pc = "idle"
    BY IdleType DEF Poll!Init
  <1>2. \A r \in cfg.regs : conn[r] = "connected" /\ level[r] = {"OUT"} /\ reg[r] = "new"
    BY DEF Poll!Init, Peaceful
  <1>3. Calm(cfg)
    BY <1>1, <1>2 DEF Calm, Poll!Init
  <1>4. Counts(cfg)
    BY <1>1 DEF Counts, Poll!Init, Poll!Zero
  <1>5. Order(cfg)
    <2>1. answers = << >> /\ 1..Len(answers) = {}
      BY DEF Poll!Init
    <2>2. \A r, c : c \in cfg.clients => ~Erred(c, r)
      BY <1>1 DEF Erred
    <2> QED BY <2>1, <2>2, <1>1 DEF Order
  <1>6. Known(cfg) /\ NotForgotten(cfg)
    BY <1>1, <1>2 DEF Known, NotForgotten
  <1> QED BY <1>3, <1>4, <1>5, <1>6 DEF ReadyInv

\* Nobody's syscall, and nothing known of a file, changes.
LEMMA BelievedSame ==
    ASSUME NEW cfg, UNCHANGED <<call, total, consumed, mask>>, NEW r, NEW f
    PROVE  (Believed(cfg, r, f)' <=> Believed(cfg, r, f)) /\ (level[r] \subseteq level'[r] => (HungUp(cfg, r, f) => HungUp(cfg, r, f)'))
  BY DEF Believed, HungUp, Taken, Takes

\* Files, registrations and epoll_wait.
LEMMA KnownArrive ==
    ASSUME NEW cfg, EpTypes(cfg), Known(cfg), NotForgotten(cfg), Calm(cfg), NEW r \in cfg.regs, NEW flag,
           Poll(cfg)!Arrive(r, flag), \A q \in cfg.regs : level[q] \subseteq level'[q]
    PROVE  Known(cfg)' /\ NotForgotten(cfg)'
  <1>1. /\ UNCHANGED <<received, reg, call, total, consumed, mask>>
        /\ \A q \in cfg.regs : q # r => level'[q] = level[q]
        /\ rdlist' = IF reg[r] \in {"added", "registered"} /\ ~Poll(cfg)!InRdlist(r) THEN Append(rdlist, r) ELSE rdlist
    BY DEF Poll!Arrive, Poll!Wakeup, Poll!wait, Poll!epolled, EpTypes
  <1>2. \A q : Poll(cfg)!InRdlist(q) => Poll(cfg)!InRdlist(q)'
    <2>1. \A i \in 1..Len(rdlist) : i \in 1..Len(rdlist') /\ rdlist'[i] = rdlist[i]
      BY <1>1 DEF EpTypes
    <2> QED BY <2>1 DEF Poll!InRdlist
  <1>3. reg[r] \in {"added", "registered"} => Poll(cfg)!InRdlist(r)'
    <2> SUFFICES ASSUME reg[r] \in {"added", "registered"}, ~Poll(cfg)!InRdlist(r) PROVE Poll(cfg)!InRdlist(r)'
      BY <1>2
    <2>1. rdlist' = Append(rdlist, r) /\ rdlist \in Seq(cfg.regs)
      BY <1>1 DEF EpTypes
    <2>2. Len(rdlist') \in 1..Len(rdlist') /\ rdlist'[Len(rdlist')] = r
      BY <2>1
    <2> QED BY <2>2 DEF Poll!InRdlist
  <1>4. \A q, f : Coming(cfg, q, f) => Coming(cfg, q, f)'
    BY <1>1, <1>2 DEF Coming
  <1>5. Known(cfg)'
    <2> SUFFICES ASSUME NEW q \in cfg.regs, reg[q] \in {"added", "registered"}, NEW f \in level'[q]
                 PROVE  (Coming(cfg, q, f) \/ Believed(cfg, q, f) \/ HungUp(cfg, q, f))'
      BY <1>1 DEF Known
    <2>1. CASE q = r
      BY <2>1, <1>3 DEF Coming
    <2>2. CASE q # r
      BY <2>2, <1>1, <1>4, BelievedSame DEF Known
    <2> QED BY <2>1, <2>2
  <1>6. NotForgotten(cfg)'
    <2> SUFFICES ASSUME NEW c \in cfg.clients, call[c].pc = "wait", NEW f \in Poll(cfg)!WaitFlags[call[c].op] \cap level'[call[c].fd]
                 PROVE  Coming(cfg, call[c].fd, f)'
      BY <1>1 DEF NotForgotten
    <2>1. reg[call[c].fd] = "registered" /\ call[c].fd \in cfg.regs
      BY DEF Calm, EpTypes, Busy
    <2>2. CASE call[c].fd = r
      BY <2>1, <2>2, <1>1, <1>3 DEF Coming
    <2>3. CASE call[c].fd # r
      BY <2>1, <2>3, <1>1, <1>4 DEF NotForgotten
    <2> QED BY <2>2, <2>3
  <1> QED BY <1>5, <1>6

\* EPOLL_CTL_ADD reports what is there already.
LEMMA KnownRegistration ==
    ASSUME NEW cfg, EpTypes(cfg), Known(cfg), NotForgotten(cfg), Calm(cfg), NEW r \in cfg.regs, Poll(cfg)!Register(r)
             \/ Poll(cfg)!EpollAdd(r) \/ Poll(cfg)!Registered(r)
    PROVE  Known(cfg)' /\ NotForgotten(cfg)'
  <1>0. reg \in [cfg.regs -> {"new", "adding", "added", "registered", "deleting", "closed"}]
    BY DEF EpTypes
  <1>1. /\ UNCHANGED <<received, level, call, total, consumed, mask>>
        /\ \A q \in cfg.regs : q # r => reg'[q] = reg[q]
        /\ rdlist' = rdlist \/ rdlist' = Append(rdlist, r)
        /\ reg'[r] \in {"added", "registered"} => reg[r] = "added" \/ level[r] = {} \/ rdlist' = Append(rdlist, r)
    BY <1>0 DEF Poll!Register, Poll!EpollAdd, Poll!Registered, Poll!wait, Poll!kernel
  <1>2. \A q : Poll(cfg)!InRdlist(q) => Poll(cfg)!InRdlist(q)'
    <2>1. \A i \in 1..Len(rdlist) : i \in 1..Len(rdlist') /\ rdlist'[i] = rdlist[i]
      <3>1. rdlist \in Seq(cfg.regs)
        BY DEF EpTypes
      <3>2. CASE rdlist' = rdlist
        BY <3>2
      <3>3. CASE rdlist' = Append(rdlist, r)
        BY <3>1, <3>3
      <3> QED BY <3>2, <3>3, <1>1
    <2> QED BY <2>1 DEF Poll!InRdlist
  <1>3. rdlist' = Append(rdlist, r) => Poll(cfg)!InRdlist(r)'
    <2> SUFFICES ASSUME rdlist' = Append(rdlist, r) PROVE Poll(cfg)!InRdlist(r)'
      OBVIOUS
    <2>1. rdlist \in Seq(cfg.regs)
      BY DEF EpTypes
    <2>2. Len(rdlist') \in 1..Len(rdlist') /\ rdlist'[Len(rdlist')] = r
      BY <2>1
    <2> QED BY <2>2 DEF Poll!InRdlist
  <1>4. \A q, f : Coming(cfg, q, f) => Coming(cfg, q, f)'
    BY <1>1, <1>2 DEF Coming
  <1>5. Known(cfg)'
    <2> SUFFICES ASSUME NEW q \in cfg.regs, reg'[q] \in {"added", "registered"}, NEW f \in level[q]
                 PROVE  (Coming(cfg, q, f) \/ Believed(cfg, q, f) \/ HungUp(cfg, q, f))'
      BY <1>1 DEF Known
    <2>1. CASE rdlist' = Append(rdlist, r) /\ q = r
      BY <2>1, <1>3 DEF Coming
    <2>2. CASE ~(rdlist' = Append(rdlist, r) /\ q = r)
      <3>1. reg[q] \in {"added", "registered"}
        BY <2>2, <1>1
      <3> QED BY <3>1, <1>1, <1>4, BelievedSame DEF Known
    <2> QED BY <2>1, <2>2
  <1>6. NotForgotten(cfg)'
    BY <1>1, <1>4 DEF NotForgotten
  <1> QED BY <1>5, <1>6

\* What epoll_wait takes from the ready list is in its answer.
LEMMA KnownWait ==
    ASSUME NEW cfg, Poll(cfg)!EpollerAssumption, EpTypes(cfg), Numbers(cfg), Known(cfg), NotForgotten(cfg), Calm(cfg),
           Poll(cfg)!EpollWait \/ Poll(cfg)!EpollWaitEmpty
    PROVE  Known(cfg)' /\ NotForgotten(cfg)'
  <1>1. UNCHANGED <<reg, level, call, total, consumed, mask>> /\ received = {}
    BY DEF Poll!EpollWait, Poll!EpollWaitEmpty, Poll!epolled, Poll!kernel, Numbers
  <1>2. \A r \in cfg.regs : \A f \in level[r] : Coming(cfg, r, f) => Coming(cfg, r, f)'
    <2> SUFFICES ASSUME NEW r \in cfg.regs, NEW f \in level[r], Coming(cfg, r, f) PROVE Coming(cfg, r, f)'
      OBVIOUS
    <2>1. PICK i \in 1..Len(rdlist) : rdlist[i] = r
      BY <1>1 DEF Coming, Poll!InRdlist
    <2>2. PICK j \in 1..Len(Poll(cfg)!Live) : Poll(cfg)!Live[j] = r
      BY <2>1, LiveMembers
    <2>3. Poll(cfg)!Live \in Seq(cfg.regs) /\ Len(Poll(cfg)!Live) \in Nat
      BY LiveMembers
    <2>4. Poll(cfg)!EpollWait
      <3>1. Poll(cfg)!Live # << >>
        BY <2>2, <2>3
      <3> QED BY <3>1 DEF Poll!EpollWaitEmpty
    <2> DEFINE n == IF Len(Poll(cfg)!Live) < MaxReported THEN Len(Poll(cfg)!Live) ELSE MaxReported
    <2>5. /\ received' = {[data |-> number[Poll(cfg)!Live[k]], events |-> level[Poll(cfg)!Live[k]], reg |-> Poll(cfg)!Live[k]] : k \in 1..n}
          /\ rdlist' = SubSeq(Poll(cfg)!Live, n + 1, Len(Poll(cfg)!Live))
      BY <2>4 DEF Poll!EpollWait
    <2>6. n \in 0..Len(Poll(cfg)!Live)
      BY <2>3 DEF Poll!EpollerAssumption
    <2> HIDE DEF n, Poll!Live
    <2>7. CASE j <= n
      <3>1. [data |-> number[Poll(cfg)!Live[j]], events |-> level[Poll(cfg)!Live[j]], reg |-> Poll(cfg)!Live[j]] \in received'
        BY <2>5, <2>6, <2>7
      <3> DEFINE e == [data |-> number[Poll(cfg)!Live[j]], events |-> level[Poll(cfg)!Live[j]], reg |-> Poll(cfg)!Live[j]]
      <3>2. e \in received' /\ e.reg = r /\ f \in e.events
        BY <3>1, <2>2
      <3> HIDE DEF e
      <3> QED BY <3>2 DEF Coming
    <2>8. CASE j > n
      <3>1. j - n \in 1..Len(rdlist') /\ rdlist'[j - n] = Poll(cfg)!Live[j]
        BY <2>3, <2>5, <2>6, <2>8
      <3> QED BY <3>1, <2>2 DEF Coming, Poll!InRdlist
    <2> QED BY <2>6, <2>7, <2>8
  <1>3. Known(cfg)'
    <2> SUFFICES ASSUME NEW q \in cfg.regs, reg[q] \in {"added", "registered"}, NEW f \in level[q]
                 PROVE  (Coming(cfg, q, f) \/ Believed(cfg, q, f) \/ HungUp(cfg, q, f))'
      BY <1>1 DEF Known
    <2> QED BY <1>1, <1>2, BelievedSame DEF Known
  <1>4. NotForgotten(cfg)'
    <2> SUFFICES ASSUME NEW c \in cfg.clients, call[c].pc = "wait", NEW f \in Poll(cfg)!WaitFlags[call[c].op] \cap level[call[c].fd]
                 PROVE  Coming(cfg, call[c].fd, f)'
      BY <1>1 DEF NotForgotten
    <2>1. call[c].fd \in cfg.regs
      BY DEF EpTypes, Busy
    <2> QED BY <2>1, <1>1, <1>2 DEF NotForgotten
  <1> QED BY <1>3, <1>4

\* An event for r is among the events of r.
LEMMA EventComes ==
    ASSUME NEW cfg, EpTypes(cfg), Numbers(cfg), NEW r \in cfg.regs, NEW f, Coming(cfg, r, f),
           f \notin Poll(cfg)!EventsOf(r)
    PROVE  Poll(cfg)!InRdlist(r)
  <1> SUFFICES ASSUME NEW e \in received, e.reg = r, f \in e.events PROVE f \in Poll(cfg)!EventsOf(r)
    BY DEF Coming
  <1>1. number[r] = e.data /\ callback[r] # "ended"
    BY DEF Numbers
  <1> QED BY <1>1 DEF Poll!EventsOf

\* What the answer says is known after it.
LEMMA KnownDispatch ==
    ASSUME NEW cfg, EpTypes(cfg), EpTypes(cfg)', Queues(cfg), Numbers(cfg), Calm(cfg), Counts(cfg), Order(cfg), Known(cfg),
           NotForgotten(cfg), Poll(cfg)!Dispatch
    PROVE  Known(cfg)' /\ NotForgotten(cfg)'
  <1>1. /\ waiter' = "epoll_wait" /\ received' = {} /\ UNCHANGED <<level, rdlist, reg, consumed>>
        /\ \A r \in cfg.regs : /\ \A f \in Poll(cfg)!Flags : total'[r][f] = total[r][f] + IF f \in Poll(cfg)!EventsOf(r) THEN 1 ELSE 0
                               /\ mask'[r] = mask[r] \cup Poll(cfg)!EventsOf(r)
    <2>1. waiter' = "epoll_wait" /\ received' = {} /\ UNCHANGED <<level, rdlist, reg, consumed>>
      BY Dispatched
    <2>2. ASSUME NEW r \in cfg.regs
          PROVE  /\ \A f \in Poll(cfg)!Flags : total'[r][f] = total[r][f] + IF f \in Poll(cfg)!EventsOf(r) THEN 1 ELSE 0
                 /\ mask'[r] = mask[r] \cup Poll(cfg)!EventsOf(r)
      BY ONLY Poll(cfg)!Dispatch, DispatchedCounts
    <2> QED BY <2>1, <2>2
  <1>2. /\ \A c \in cfg.clients, r \in cfg.regs : Takes(c, r)' => Takes(c, r) /\ call'[c] = call[c]
        /\ \A c \in cfg.clients : call'[c].pc = "wait" => call'[c] = call[c] /\ c \notin Poll(cfg)!Resumed(call[c].fd)
    BY PlainDispatch
  <1>3. \A r : Poll(cfg)!InRdlist(r)' <=> Poll(cfg)!InRdlist(r)
    BY <1>1 DEF Poll!InRdlist
  <1>4. Known(cfg)'
    <2> SUFFICES ASSUME NEW r \in cfg.regs, reg[r] \in {"added", "registered"}, NEW f \in level[r]
                 PROVE  (Coming(cfg, r, f) \/ Believed(cfg, r, f) \/ HungUp(cfg, r, f))'
      BY <1>1 DEF Known
    <2>0. /\ f \in Poll(cfg)!Flags /\ total[r][f] \in Nat /\ consumed[r][f] \in Nat /\ consumed[r][f] <= total[r][f]
          /\ \A c \in cfg.clients : call[c].current \in [Poll(cfg)!Flags -> Nat]
      <3>1. level[r] \in SUBSET Poll(cfg)!Flags /\ total[r] \in [Poll(cfg)!Flags -> Nat] /\ consumed[r] \in [Poll(cfg)!Flags -> Nat]
        BY DEF EpTypes
      <3>2. consumed[r][f] <= total[r][f]
        BY <3>1 DEF Counts
      <3>3. \A c \in cfg.clients : call[c].current \in [Poll(cfg)!Flags -> Nat]
        BY DEF EpTypes, CallRec
      <3> QED BY <3>1, <3>2, <3>3
    <2>1. total'[r][f] = total[r][f] + IF f \in Poll(cfg)!EventsOf(r) THEN 1 ELSE 0
      BY <1>1, <2>0
    <2>2. \A c \in cfg.clients : Taken(cfg, c, r, f)' => Taken(cfg, c, r, f) /\ call'[c] = call[c]
            /\ call[c].current[f] <= total[r][f] /\ call[c].current[f] \in Nat
      <3> SUFFICES ASSUME NEW c \in cfg.clients, Taken(cfg, c, r, f)'
                   PROVE  Taken(cfg, c, r, f) /\ call'[c] = call[c] /\ call[c].current[f] <= total[r][f] /\ call[c].current[f] \in Nat
        OBVIOUS
      <3>1. Takes(c, r) /\ call'[c] = call[c]
        BY <1>2 DEF Taken
      <3> QED BY <3>1, <2>0 DEF Taken, Takes, Counts
    <2>3. CASE f \in Poll(cfg)!EventsOf(r)
      <3>1. consumed'[r][f] < total'[r][f]
        BY <2>0, <2>1, <2>3, <1>1
      <3>2. \A c \in cfg.clients : Taken(cfg, c, r, f)' => call'[c].current[f] < total'[r][f]
        BY <2>0, <2>1, <2>2, <2>3
      <3> QED BY <3>1, <3>2 DEF Believed
    <2>4. CASE f \notin Poll(cfg)!EventsOf(r)
      <3>1. Coming(cfg, r, f) \/ Believed(cfg, r, f) \/ HungUp(cfg, r, f)
        BY DEF Known
      <3>2. CASE Coming(cfg, r, f)
        BY <3>2, <2>4, <1>3, EventComes DEF Coming
      <3>3. CASE Believed(cfg, r, f)
        <4>1. total'[r][f] = total[r][f] /\ mask[r] \subseteq mask'[r] /\ consumed'[r][f] = consumed[r][f]
          BY <2>0, <2>1, <2>4, <1>1
        <4> QED BY <4>1, <3>3, <2>2 DEF Believed
      <3>4. CASE HungUp(cfg, r, f)
        <4>1. mask[r] \subseteq mask'[r] /\ \A c \in cfg.clients : ~Takes(c, r)'
          BY <3>4, <1>1, <1>2 DEF HungUp
        <4> QED BY <4>1, <3>4, <1>1 DEF HungUp
      <3> QED BY <3>1, <3>2, <3>3, <3>4
    <2> QED BY <2>3, <2>4
  <1>5. NotForgotten(cfg)'
    <2> SUFFICES ASSUME NEW c \in cfg.clients, call'[c].pc = "wait", NEW f \in Poll(cfg)!WaitFlags[call'[c].op] \cap level'[call'[c].fd]
                 PROVE  Coming(cfg, call[c].fd, f)'
      BY DEF NotForgotten
    <2>1. call'[c] = call[c] /\ c \notin Poll(cfg)!Resumed(call[c].fd)
      BY <1>2
    <2>2. call[c].fd \in cfg.regs /\ c \in Poll(cfg)!Waiting(call[c].fd)
      BY <2>1 DEF EpTypes, Busy, Queues
    <2>3. f \notin Poll(cfg)!EventsOf(call[c].fd)
      BY <2>1, <2>2 DEF Poll!Resumed
    <2>4. Coming(cfg, call[c].fd, f)
      BY <2>1, <1>1 DEF NotForgotten
    <2>5. Poll(cfg)!InRdlist(call[c].fd)
      BY <2>2, <2>3, <2>4, EventComes
    <2> QED BY <2>1, <2>5, <1>3 DEF Coming
  <1> QED BY <1>4, <1>5

\* A syscall that empties the file takes back what was ready.
LEMMA KnownPerform ==
    ASSUME NEW cfg, EpTypes(cfg), Calm(cfg), Known(cfg), NotForgotten(cfg), NEW c \in cfg.clients, Poll(cfg)!Perform(c)
    PROVE  Known(cfg)' /\ NotForgotten(cfg)'
  <1> DEFINE r == call[c].fd
  <1>1. /\ r \in cfg.regs /\ call[c].pc = "call" /\ call[c].op \in IoOps \ {"rdhup"}
        /\ UNCHANGED <<conn, rdlist, arrivals, Poll(cfg)!wait, Poll(cfg)!epolled, done>>
        /\ \A u \in cfg.clients \ {c} : call'[u] = call[u]
        /\ call'[c].pc = "answer" /\ call'[c].op = call[c].op /\ call'[c].fd = r /\ call'[c].current = call[c].current
        /\ \A q \in cfg.regs \ {r} : level'[q] = level[q]
    BY PerformFacts
  <1>2. \/ /\ call'[c].outcome = "ok"
           /\ \/ level'[r] = level[r]
              \/ level'[r] = level[r] \ {"IN"} /\ "RDHUP" \notin level[r]
              \/ level'[r] = level[r] \ {"OUT"} /\ "HUP" \notin level[r]
        \/ call'[c].outcome = "EAGAIN" /\ level'[r] = level[r] /\ Poll(cfg)!WaitFlags[call[c].op] \cap level[r] = {} /\ "HUP" \notin level[r]
        \/ call'[c].outcome = "error" /\ level'[r] = level[r] /\ call[c].op = "write" /\ "HUP" \in level[r]
    BY PerformFacts
  <1> HIDE DEF r
  <1>3. UNCHANGED <<reg, received, total, consumed, mask, rdlist>>
    BY <1>1 DEF Poll!wait, Poll!epolled
  <1>4. \A q, f : Coming(cfg, q, f)' <=> Coming(cfg, q, f)
    BY <1>3 DEF Coming, Poll!InRdlist
  <1>5. \A q \in cfg.regs : level'[q] \subseteq level[q] /\ ("HUP" \in level[q] => level'[q] = level[q])
    <2>1. "HUP" \in level[r] => "RDHUP" \in level[r]
      BY <1>1 DEF Calm
    <2> QED BY <2>1, <1>1, <1>2
  <1>6. \A u \in cfg.clients, q \in cfg.regs : Takes(u, q)' =>
            \/ Takes(u, q) /\ call'[u] = call[u]
            \/ u = c /\ q = r /\ "HUP" \notin level[q] /\ Poll(cfg)!WaitFlags[call'[u].op] \cap level'[q] = {}
    <2> SUFFICES ASSUME NEW u \in cfg.clients, NEW q \in cfg.regs, Takes(u, q)'
                 PROVE  \/ Takes(u, q) /\ call'[u] = call[u]
                        \/ u = c /\ q = r /\ "HUP" \notin level[q] /\ Poll(cfg)!WaitFlags[call'[u].op] \cap level'[q] = {}
      OBVIOUS
    <2>1. CASE u = c
      <3>1. call'[c].outcome = "EAGAIN" /\ q = r
        BY <2>1, <1>1 DEF Takes
      <3> QED BY <3>1, <2>1, <1>1, <1>2
    <2>2. CASE u # c
      BY <2>2, <1>1 DEF Takes
    <2> QED BY <2>1, <2>2
  <1>7. Known(cfg)'
    <2> SUFFICES ASSUME NEW q \in cfg.regs, reg[q] \in {"added", "registered"}, NEW f \in level'[q]
                 PROVE  (Coming(cfg, q, f) \/ Believed(cfg, q, f) \/ HungUp(cfg, q, f))'
      BY <1>3 DEF Known
    <2>1. \A u \in cfg.clients : Taken(cfg, u, q, f)' => Taken(cfg, u, q, f) /\ call'[u] = call[u]
      BY <1>6 DEF Taken
    <2>2. Coming(cfg, q, f) \/ Believed(cfg, q, f) \/ HungUp(cfg, q, f)
      BY <1>5 DEF Known
    <2>3. Believed(cfg, q, f) => Believed(cfg, q, f)'
      BY <2>1, <1>3 DEF Believed
    <2>4. HungUp(cfg, q, f) => HungUp(cfg, q, f)'
      BY <1>3, <1>5, <1>6 DEF HungUp
    <2> QED BY <2>2, <2>3, <2>4, <1>4
  <1>8. NotForgotten(cfg)'
    <2> SUFFICES ASSUME NEW u \in cfg.clients, call'[u].pc = "wait", NEW f \in Poll(cfg)!WaitFlags[call'[u].op] \cap level'[call'[u].fd]
                 PROVE  Coming(cfg, call[u].fd, f)'
      BY DEF NotForgotten
    <2>1. call'[u] = call[u]
      BY <1>1
    <2>2. call[u].fd \in cfg.regs
      BY <2>1 DEF EpTypes, Busy
    <2> QED BY <2>1, <2>2, <1>4, <1>5 DEF NotForgotten
  <1> QED BY <1>7, <1>8

\* c returns without having learnt anything, or from a write that failed.
LEMMA KnownEnds ==
    ASSUME NEW cfg, EpTypes(cfg), EpTypes(cfg)', Calm(cfg), Counts(cfg), Order(cfg), Known(cfg), NotForgotten(cfg),
           NEW c \in cfg.clients, Poll(cfg)!Succeed(c) \/ Poll(cfg)!Fail(c)
    PROVE  Calm(cfg)' /\ Counts(cfg)' /\ Order(cfg)' /\ Known(cfg)' /\ NotForgotten(cfg)'
  <1> DEFINE r == call[c].fd
  <1>1. /\ call[c].pc = "answer" /\ r \in cfg.regs /\ Poll(cfg)!Leave(c) /\ Poll(cfg)!Process(c)
        /\ UNCHANGED <<Poll(cfg)!kernel, Poll(cfg)!wait, reg, number, callback, total, waiters>>
    BY EndsFacts DEF Ends
  <1>2. /\ queue' = queue /\ call'[c] = Poll(cfg)!Idle /\ \A u \in cfg.clients \ {c} : call'[u] = call[u]
        /\ call'[c].pc = "idle"
    BY <1>1, LeaveTypes, IdleType
  <1>3. UNCHANGED <<level, conn, reg, waiter, pending_remove, total, received, rdlist>>
    BY <1>1 DEF Poll!kernel, Poll!wait
  <1>4. \/ Poll(cfg)!Succeed(c) /\ UNCHANGED <<consumed, mask>> /\ call[c].outcome = "ok"
        \/ /\ Poll(cfg)!Fail(c) /\ call[c].outcome = "error" /\ call[c].op = "write" /\ "HUP" \in level[r]
           /\ mask'[r] = mask[r] \cup {"ERR"} /\ \A q \in cfg.regs \ {r} : mask'[q] = mask[q] /\ consumed'[q] = consumed[q]
           /\ \A f \in Poll(cfg)!Flags : consumed'[r][f] = IF f \in {"OUT", "ERR"} /\ call[c].current[f] > consumed[r][f]
                THEN call[c].current[f] ELSE consumed[r][f]
    <2>1. CASE Poll(cfg)!Succeed(c)
      BY <2>1 DEF Poll!Succeed, Poll!Answered
    <2>2. CASE Poll(cfg)!Fail(c)
      <3>1. Erred(c, r) /\ call[c].outcome = "error"
        BY <2>2 DEF Poll!Fail, Poll!Answered, Erred
      <3>2. call[c].op = "write" /\ "HUP" \in level[r]
        BY <3>1, <1>1 DEF Order
      <3>3. Poll(cfg)!WaitFlags["write"] = {"OUT", "ERR"} /\ Poll(cfg)!ErrorFlags["write"] = {"ERR"}
        BY OpFlags
      <3>4. Poll(cfg)!Learn(c, {"OUT", "ERR"}, mask[r] \cup {"ERR"})
        BY <2>2, <3>2, <3>3 DEF Poll!Fail
      <3>5. mask[r] \cup {"ERR"} \in SUBSET Poll(cfg)!Flags
        BY <1>1 DEF EpTypes, Poll!Flags
      <3>6. /\ mask'[r] = mask[r] \cup {"ERR"} /\ \A q \in cfg.regs \ {r} : mask'[q] = mask[q] /\ consumed'[q] = consumed[q]
            /\ consumed'[r] = Poll(cfg)!Consume(c, {"OUT", "ERR"})
            /\ \A f \in Poll(cfg)!Flags : Poll(cfg)!Consume(c, {"OUT", "ERR"})[f] =
                 IF f \in {"OUT", "ERR"} /\ call[c].current[f] > consumed[r][f] THEN call[c].current[f] ELSE consumed[r][f]
        BY <1>1, <3>4, <3>5, Learnt
      <3> QED BY <2>2, <3>1, <3>2, <3>6
    <2> QED BY <2>1, <2>2
  <1>5. \A q \in cfg.regs : \A f \in Poll(cfg)!Flags : consumed'[q][f] <= total[q][f]
    <2> SUFFICES ASSUME NEW q \in cfg.regs, NEW f \in Poll(cfg)!Flags PROVE consumed'[q][f] <= total[q][f]
      OBVIOUS
    <2>1. consumed[q][f] <= total[q][f] /\ call[c].current[f] <= total[r][f]
      BY <1>1 DEF Counts
    <2>2. consumed'[q][f] = consumed[q][f] \/ (q = r /\ consumed'[q][f] = call[c].current[f])
      BY <1>4
    <2> QED BY <2>1, <2>2
  <1> HIDE DEF r
  <1>6. Calm(cfg)' /\ Counts(cfg)' /\ Order(cfg)'
    BY <1>1, <1>2, <1>3, <1>5, PlainClient
  <1>7. \A q, f : Coming(cfg, q, f)' <=> Coming(cfg, q, f)
    BY <1>3 DEF Coming, Poll!InRdlist
  <1>8. \A u \in cfg.clients, q \in cfg.regs : Takes(u, q)' => Takes(u, q) /\ call'[u] = call[u]
    BY <1>2 DEF Takes
  <1>9. \A q \in cfg.regs : mask[q] \subseteq mask'[q]
    BY <1>4
  <1>10. Known(cfg)'
    <2> SUFFICES ASSUME NEW q \in cfg.regs, reg[q] \in {"added", "registered"}, NEW f \in level[q]
                 PROVE  (Coming(cfg, q, f) \/ Believed(cfg, q, f) \/ HungUp(cfg, q, f))'
      BY <1>3 DEF Known
    <2>1. \A u \in cfg.clients : Taken(cfg, u, q, f)' => Taken(cfg, u, q, f) /\ call'[u] = call[u]
      BY <1>8 DEF Taken
    <2>2. Coming(cfg, q, f) \/ Believed(cfg, q, f) \/ HungUp(cfg, q, f)
      BY DEF Known
    <2>3. HungUp(cfg, q, f) => HungUp(cfg, q, f)'
      BY <1>3, <1>8, <1>9 DEF HungUp
    <2>4. f \in Poll(cfg)!Flags /\ f # "ERR"
      BY DEF EpTypes, Calm
    <2>5. CASE consumed'[q][f] = consumed[q][f]
      <3>1. Believed(cfg, q, f) => Believed(cfg, q, f)'
        BY <2>1, <2>5, <1>3, <1>9 DEF Believed
      <3> QED BY <3>1, <2>2, <2>3, <1>7
    <2>6. CASE consumed'[q][f] # consumed[q][f]
      <3>1. Poll(cfg)!Fail(c) /\ call[c].outcome = "error" /\ q = r /\ f = "OUT" /\ "HUP" \in level[r] /\ mask'[r] = mask[r] \cup {"ERR"}
        BY <2>4, <2>6, <1>4
      <3>2. Erred(c, r) /\ answers[1] = c /\ 1 \in 1..Len(answers)
        <4>1. answers[1] = c /\ Len(answers) \in Nat \ {0}
          BY <1>1, Processed
        <4> QED BY <4>1, <3>1, <1>1 DEF Erred, r
      <3>3. ASSUME NEW u \in cfg.clients, Takes(u, q)' PROVE FALSE
        <4>1. Takes(u, r)
          BY <3>1, <3>3, <1>1, <1>8
        <4>2. PICK j \in 1..Len(answers) : answers[j] = u
          BY <4>1 DEF Order, Takes
        <4>3. j < 1
          BY <4>1, <4>2, <3>2, <1>1 DEF Order
        <4> QED BY <4>3
      <3>4. HungUp(cfg, q, f)'
        BY <3>1, <3>3, <1>3 DEF HungUp
      <3> QED BY <3>4
    <2> QED BY <2>5, <2>6
  <1>11. NotForgotten(cfg)'
    <2> SUFFICES ASSUME NEW u \in cfg.clients, call'[u].pc = "wait", NEW f \in Poll(cfg)!WaitFlags[call'[u].op] \cap level'[call'[u].fd]
                 PROVE  Coming(cfg, call[u].fd, f)'
      BY DEF NotForgotten
    <2>1. call'[u] = call[u]
      BY <1>2
    <2> QED BY <2>1, <1>3, <1>7 DEF NotForgotten
  <1> QED BY <1>6, <1>10, <1>11

\* Whoever finds that it has to wait has an event coming.
LEMMA WaitTold ==
    ASSUME NEW cfg, EpTypes(cfg), Known(cfg)', NEW r \in cfg.regs, reg'[r] = "registered", level' = level, total' = total,
           NEW o \in IoOps, NEW m, NEW used,
           mask'[r] = m, consumed'[r] = used, ~Poll(cfg)!MightBeReady(r, Poll(cfg)!WaitFlags[o], m, used), consumed'[r] \in [Poll(cfg)!Flags -> Nat],
           NEW f \in Poll(cfg)!WaitFlags[o] \cap level[r]
    PROVE  Coming(cfg, r, f)'
  <1>1. (Coming(cfg, r, f) \/ Believed(cfg, r, f) \/ HungUp(cfg, r, f))'
    BY DEF Known
  <1>2. f \notin mask'[r] /\ ~(total'[r][f] > consumed'[r][f])
    BY DEF Poll!MightBeReady
  <1>3. ~Believed(cfg, r, f)'
    <2>1. total[r][f] \in Nat /\ consumed'[r][f] \in Nat
      BY DEF EpTypes
    <2> QED BY <2>1, <1>2 DEF Believed
  <1>4. ~HungUp(cfg, r, f)'
    <2> SUFFICES ASSUME f = "OUT", "ERR" \in m PROVE FALSE
      BY DEF HungUp
    <2>1. o = "write"
      BY OpFlags DEF IoOps
    <2>2. "ERR" \in Poll(cfg)!WaitFlags[o]
      BY <2>1, OpFlags
    <2> QED BY <2>2 DEF Poll!MightBeReady
  <1> QED BY <1>1, <1>3, <1>4

\* What wait_for leaves of a client.
LEMMA WaitForClient ==
    ASSUME NEW cfg, EpTypes(cfg), NEW c \in cfg.clients, NEW r \in cfg.regs, NEW o \in IoOps, NEW m, NEW used, Poll(cfg)!WaitFor(c, r, o, m, used)
    PROVE  /\ \A u \in cfg.clients \ {c} : call'[u] = call[u]
           /\ call'[c].pc # "answer"
           /\ call'[c].pc # "idle" => call'[c].fd = r /\ call'[c].op = o /\ \A f \in Poll(cfg)!Flags : call'[c].current[f] <= total[r][f]
           /\ call'[c].pc = "wait" => ~Poll(cfg)!MightBeReady(r, Poll(cfg)!WaitFlags[o], m, used)
  <1>0. o \in AllOps
    BY DEF IoOps, AllOps
  <1>1. /\ \A u \in cfg.clients \ {c} : call'[u] = call[u]
        /\ \/ call'[c] = Poll(cfg)!Proceed(o, r, total[r])
           \/ call'[c] = Poll(cfg)!Idle
           \/ call'[c] = Poll(cfg)!State("wait", o, r, Poll(cfg)!Zero, "none") /\ ~Poll(cfg)!MightBeReady(r, Poll(cfg)!WaitFlags[o], m, used)
    BY <1>0, WaitForCases
  <1>2. total[r] \in [Poll(cfg)!Flags -> Nat]
    BY DEF EpTypes
  <1>3. CASE call'[c] = Poll(cfg)!Proceed(o, r, total[r])
    BY <1>0, <1>1, <1>2, <1>3, ProceedType
  <1>4. CASE call'[c] = Poll(cfg)!Idle
    BY <1>1, <1>4, IdleType
  <1>5. CASE call'[c] = Poll(cfg)!State("wait", o, r, Poll(cfg)!Zero, "none") /\ ~Poll(cfg)!MightBeReady(r, Poll(cfg)!WaitFlags[o], m, used)
    <2>1. call'[c].pc = "wait" /\ call'[c].op = o /\ call'[c].fd = r /\ call'[c].current = Poll(cfg)!Zero
      BY <1>5 DEF Poll!State
    <2>2. \A f \in Poll(cfg)!Flags : total[r][f] \in Nat /\ Poll(cfg)!Zero[f] = 0
      BY <1>2 DEF Poll!Zero
    <2> QED BY <2>1, <2>2, <1>1, <1>5
  <1> QED BY <1>1, <1>3, <1>4, <1>5

\* An EAGAIN takes back no more than what its syscall had known.
LEMMA KnownAgain ==
    ASSUME NEW cfg, EpTypes(cfg), EpTypes(cfg)', Calm(cfg), Counts(cfg), Order(cfg), Known(cfg), NotForgotten(cfg),
           NEW c \in cfg.clients, Poll(cfg)!Eagain(c)
    PROVE  Calm(cfg)' /\ Counts(cfg)' /\ Order(cfg)' /\ Known(cfg)' /\ NotForgotten(cfg)'
  <1> DEFINE o == call[c].op
             flags == Poll(cfg)!WaitFlags[o]
  <1>0. PICK r \in cfg.regs : r = call[c].fd
    BY DEF Poll!Eagain, Poll!Answered, EpTypes, Busy
  <1>1. call[c].pc = "answer" /\ call[c].outcome = "EAGAIN" /\ Poll(cfg)!Process(c) /\ o \in IoOps /\ reg[r] = "registered"
        /\ o \in AllOps /\ Poll(cfg)!WaitAgain(c, o) /\ Takes(c, r) /\ o # "rdhup"
    BY <1>0 DEF Poll!Eagain, Poll!Answered, Calm, IoOps, AllOps, Takes, EpTypes, Makes
  <1>2. /\ Poll(cfg)!Learn(c, flags, mask[r] \ flags) /\ mask[r] \ flags \in SUBSET Poll(cfg)!Flags
        /\ Poll(cfg)!WaitFor(c, r, o, mask[r] \ flags, Poll(cfg)!Consume(c, flags))
        /\ UNCHANGED <<Poll(cfg)!kernel, Poll(cfg)!wait, reg, number, callback, total, waiters, done>>
    BY <1>0, <1>1, AgainFacts
  <1> DEFINE used == Poll(cfg)!Consume(c, flags)
             m == mask[r] \ flags
  <1>3. /\ mask'[r] = m /\ \A q \in cfg.regs \ {r} : mask'[q] = mask[q] /\ consumed'[q] = consumed[q]
        /\ consumed'[r] = used /\ consumed' \in [cfg.regs -> [Poll(cfg)!Flags -> Nat]]
        /\ \A f \in Poll(cfg)!Flags : used[f] = IF f \in flags /\ call[c].current[f] > consumed[r][f] THEN call[c].current[f] ELSE consumed[r][f]
    BY <1>0, <1>2, Learnt
  <1>4. /\ \A u \in cfg.clients \ {c} : call'[u] = call[u]
        /\ call'[c].pc # "answer"
        /\ call'[c].pc # "idle" => call'[c].fd = r /\ call'[c].op = o /\ \A f \in Poll(cfg)!Flags : call'[c].current[f] <= total[r][f]
        /\ call'[c].pc = "wait" => ~Poll(cfg)!MightBeReady(r, flags, m, used)
    BY <1>1, <1>2, WaitForClient
  <1>5. UNCHANGED <<level, conn, reg, waiter, pending_remove, total, received, rdlist>>
    BY <1>2 DEF Poll!kernel, Poll!wait
  <1>6. \A q \in cfg.regs : \A f \in Poll(cfg)!Flags : consumed'[q][f] <= total[q][f]
    <2> SUFFICES ASSUME NEW q \in cfg.regs, NEW f \in Poll(cfg)!Flags PROVE consumed'[q][f] <= total[q][f]
      OBVIOUS
    <2>1. consumed[q][f] <= total[q][f] /\ call[c].current[f] <= total[r][f]
      BY <1>0, <1>1 DEF Counts
    <2>2. consumed'[q][f] = consumed[q][f] \/ (q = r /\ consumed'[q][f] = call[c].current[f])
      BY <1>3
    <2> QED BY <2>1, <2>2
  <1>7. Calm(cfg)' /\ Counts(cfg)' /\ Order(cfg)'
    <2>1. call'[c].pc # "idle" => /\ call'[c].fd \in cfg.regs /\ reg[call'[c].fd] = "registered" /\ call'[c].op \in IoOps
                                  /\ \A f \in Poll(cfg)!Flags : call'[c].current[f] <= total[call'[c].fd][f]
      BY <1>1, <1>4
    <2>2. Poll(cfg)!Process(c)
      BY <1>1
    <2> QED BY <2>1, <2>2, <1>4, <1>5, <1>6, PlainClient
  <1>8. \A q, f : Coming(cfg, q, f)' <=> Coming(cfg, q, f)
    BY <1>5 DEF Coming, Poll!InRdlist
  <1>9. \A u \in cfg.clients, q \in cfg.regs : Takes(u, q)' => Takes(u, q) /\ call'[u] = call[u]
    BY <1>4 DEF Takes
  <1>10. Known(cfg)'
    <2> SUFFICES ASSUME NEW q \in cfg.regs, reg[q] \in {"added", "registered"}, NEW f \in level[q]
                 PROVE  (Coming(cfg, q, f) \/ Believed(cfg, q, f) \/ HungUp(cfg, q, f))'
      BY <1>5 DEF Known
    <2>1. \A u \in cfg.clients : Taken(cfg, u, q, f)' => Taken(cfg, u, q, f) /\ call'[u] = call[u]
      BY <1>9 DEF Taken
    <2>2. Coming(cfg, q, f) \/ Believed(cfg, q, f) \/ HungUp(cfg, q, f)
      BY DEF Known
    <2>3. f \in Poll(cfg)!Flags
      BY DEF EpTypes
    <2>4. CASE q # r
      <3>1. mask'[q] = mask[q] /\ consumed'[q] = consumed[q]
        BY <2>4, <1>3
      <3>2. Believed(cfg, q, f) => Believed(cfg, q, f)'
        BY <3>1, <2>1, <1>5 DEF Believed
      <3>3. HungUp(cfg, q, f) => HungUp(cfg, q, f)'
        BY <3>1, <1>5, <1>9 DEF HungUp
      <3> QED BY <3>2, <3>3, <2>2, <1>8
    <2>5. CASE q = r
      <3>1. ~HungUp(cfg, q, f)
        BY <2>5, <1>1 DEF HungUp
      <3>2. CASE f \in flags
        <4>1. Taken(cfg, c, q, f)
          BY <3>2, <2>5, <1>1 DEF Taken
        <4>2. Believed(cfg, q, f) => Believed(cfg, q, f)'
          <5> SUFFICES ASSUME Believed(cfg, q, f) PROVE Believed(cfg, q, f)'
            OBVIOUS
          <5>1. consumed[q][f] < total[q][f] /\ \A u \in cfg.clients : Taken(cfg, u, q, f) => call[u].current[f] < total[q][f]
            BY <4>1 DEF Believed
          <5>2. consumed'[q][f] < total[q][f]
            BY <5>1, <4>1, <2>3, <2>5, <1>3
          <5> QED BY <5>1, <5>2, <2>1, <1>5 DEF Believed
        <4> QED BY <3>1, <4>2, <2>2, <1>8
      <3>3. CASE f \notin flags
        <4>1. consumed'[q][f] = consumed[q][f] /\ (f \in mask[q] <=> f \in mask'[q])
          BY <3>3, <2>3, <2>5, <1>3
        <4>2. Believed(cfg, q, f) => Believed(cfg, q, f)'
          BY <4>1, <2>1, <1>5 DEF Believed
        <4> QED BY <3>1, <4>2, <2>2, <1>8
      <3> QED BY <3>2, <3>3
    <2> QED BY <2>4, <2>5
  <1>11. NotForgotten(cfg)'
    <2> SUFFICES ASSUME NEW u \in cfg.clients, call'[u].pc = "wait", NEW f \in Poll(cfg)!WaitFlags[call'[u].op] \cap level'[call'[u].fd]
                 PROVE  Coming(cfg, call[u].fd, f)'
      BY DEF NotForgotten
    <2>1. CASE u # c
      <3>1. call'[u] = call[u]
        BY <2>1, <1>4
      <3> QED BY <3>1, <1>5, <1>8 DEF NotForgotten
    <2>2. CASE u = c
      <3>1. call'[u].fd = r /\ call'[u].op = o /\ ~Poll(cfg)!MightBeReady(r, flags, m, used)
        BY <2>2, <1>4
      <3>2. consumed'[r] \in [Poll(cfg)!Flags -> Nat] /\ reg'[r] = "registered" /\ f \in Poll(cfg)!WaitFlags[o] \cap level[r]
        BY <3>1, <1>1, <1>3, <1>5
      <3> HIDE DEF o, m, used
      <3>3. Coming(cfg, r, f)'
        BY <3>1, <3>2, <1>1, <1>3, <1>5, <1>10, WaitTold
      <3> QED BY <3>1, <3>3
    <2> QED BY <2>1, <2>2
  <1> QED BY <1>7, <1>10, <1>11

\* A call waits only when what is known says nothing.
LEMMA KnownCall ==
    ASSUME NEW cfg, EpTypes(cfg), EpTypes(cfg)', Calm(cfg), Counts(cfg), Order(cfg), Known(cfg), NotForgotten(cfg),
           NEW c \in cfg.clients, NEW r \in cfg.regs, NEW o \in IoOps, Poll(cfg)!Call(c, r, o)
    PROVE  Calm(cfg)' /\ Counts(cfg)' /\ Order(cfg)' /\ Known(cfg)' /\ NotForgotten(cfg)'
  <1>1. /\ call[c].pc = "idle" /\ reg[r] = "registered" /\ Poll(cfg)!WaitFor(c, r, o, mask[r], consumed[r])
        /\ UNCHANGED <<Poll(cfg)!kernel, Poll(cfg)!wait, reg, number, callback, mask, total, consumed, waiters, answers, done>>
    BY DEF Poll!Call
  <1>2. UNCHANGED <<level, conn, reg, waiter, pending_remove, total, received, rdlist, answers, mask, consumed>>
    BY <1>1 DEF Poll!kernel, Poll!wait
  <1>3. /\ \A u \in cfg.clients \ {c} : call'[u] = call[u]
        /\ call'[c].pc # "answer"
        /\ call'[c].pc # "idle" => call'[c].fd = r /\ call'[c].op = o /\ \A f \in Poll(cfg)!Flags : call'[c].current[f] <= total[r][f]
        /\ call'[c].pc = "wait" => ~Poll(cfg)!MightBeReady(r, Poll(cfg)!WaitFlags[o], mask[r], consumed[r])
    BY <1>1, WaitForClient
  <1>4. Calm(cfg)' /\ Counts(cfg)' /\ Order(cfg)'
    <2>1. call'[c].pc # "idle" => /\ call'[c].fd \in cfg.regs /\ reg[call'[c].fd] = "registered" /\ call'[c].op \in IoOps
                                  /\ \A f \in Poll(cfg)!Flags : call'[c].current[f] <= total[call'[c].fd][f]
      BY <1>1, <1>3
    <2>2. \A q \in cfg.regs : \A f \in Poll(cfg)!Flags : consumed'[q][f] <= total[q][f]
      BY <1>2 DEF Counts
    <2>3. call[c].pc # "answer" /\ UNCHANGED answers
      BY <1>1, <1>2
    <2> QED BY <2>1, <2>2, <2>3, <1>2, <1>3, PlainClient
  <1>5. \A q, f : Coming(cfg, q, f)' <=> Coming(cfg, q, f)
    BY <1>2 DEF Coming, Poll!InRdlist
  <1>6. \A u \in cfg.clients, q \in cfg.regs : Takes(u, q)' => Takes(u, q) /\ call'[u] = call[u]
    BY <1>3 DEF Takes
  <1>7. Known(cfg)'
    <2>1. ASSUME NEW q \in cfg.regs, NEW f PROVE (Believed(cfg, q, f) => Believed(cfg, q, f)') /\ (HungUp(cfg, q, f) => HungUp(cfg, q, f)')
      BY <1>2, <1>6 DEF Believed, HungUp, Taken
    <2> QED BY <2>1, <1>2, <1>5 DEF Known
  <1>8. NotForgotten(cfg)'
    <2> SUFFICES ASSUME NEW u \in cfg.clients, call'[u].pc = "wait", NEW f \in Poll(cfg)!WaitFlags[call'[u].op] \cap level'[call'[u].fd]
                 PROVE  Coming(cfg, call[u].fd, f)'
      BY DEF NotForgotten
    <2>1. CASE u # c
      <3>1. call'[u] = call[u]
        BY <2>1, <1>3
      <3> QED BY <3>1, <1>2, <1>5 DEF NotForgotten
    <2>2. CASE u = c
      <3>1. call'[u].fd = r /\ call'[u].op = o /\ ~Poll(cfg)!MightBeReady(r, Poll(cfg)!WaitFlags[o], mask[r], consumed[r])
        BY <2>2, <1>3
      <3>2. consumed'[r] \in [Poll(cfg)!Flags -> Nat] /\ reg'[r] = "registered" /\ f \in Poll(cfg)!WaitFlags[o] \cap level[r]
        BY <3>1, <1>1, <1>2 DEF EpTypes
      <3>3. Coming(cfg, r, f)'
        BY <3>1, <3>2, <1>2, <1>7, WaitTold
      <3> QED BY <3>1, <3>3
    <2> QED BY <2>1, <2>2
  <1> QED BY <1>4, <1>7, <1>8

\* Who is cancelled waits no more.
LEMMA KnownCancel ==
    ASSUME NEW cfg, EpTypes(cfg), EpTypes(cfg)', Calm(cfg), Counts(cfg), Order(cfg), Known(cfg), NotForgotten(cfg),
           NEW c \in cfg.clients, Poll(cfg)!Cancel(c)
    PROVE  Calm(cfg)' /\ Counts(cfg)' /\ Order(cfg)' /\ Known(cfg)' /\ NotForgotten(cfg)'
  <1>1. /\ call[c].pc = "wait" /\ call' = [call EXCEPT ![c] = Poll(cfg)!Idle]
        /\ UNCHANGED <<level, conn, reg, waiter, pending_remove, total, received, rdlist, answers, mask, consumed>>
    BY DEF Poll!Cancel, Poll!kernel, Poll!wait
  <1>2. call'[c].pc = "idle" /\ \A u \in cfg.clients \ {c} : call'[u] = call[u]
    BY <1>1, IdleType DEF EpTypes
  <1>3. Calm(cfg)' /\ Counts(cfg)' /\ Order(cfg)'
    <2>1. \A q \in cfg.regs : \A f \in Poll(cfg)!Flags : consumed'[q][f] <= total[q][f]
      BY <1>1 DEF Counts
    <2>2. call[c].pc # "answer" /\ UNCHANGED answers
      BY <1>1
    <2> QED BY <2>1, <2>2, <1>1, <1>2, PlainClient
  <1>5. \A q, f : Coming(cfg, q, f)' <=> Coming(cfg, q, f)
    BY <1>1 DEF Coming, Poll!InRdlist
  <1>6. \A u \in cfg.clients, q \in cfg.regs : Takes(u, q)' => Takes(u, q) /\ call'[u] = call[u]
    BY <1>2 DEF Takes
  <1>7. Known(cfg)'
    <2>1. ASSUME NEW q \in cfg.regs, NEW f PROVE (Believed(cfg, q, f) => Believed(cfg, q, f)') /\ (HungUp(cfg, q, f) => HungUp(cfg, q, f)')
      BY <1>1, <1>6 DEF Believed, HungUp, Taken
    <2> QED BY <2>1, <1>1, <1>5 DEF Known
  <1>8. NotForgotten(cfg)'
    <2> SUFFICES ASSUME NEW u \in cfg.clients, call'[u].pc = "wait", NEW f \in Poll(cfg)!WaitFlags[call'[u].op] \cap level'[call'[u].fd]
                 PROVE  Coming(cfg, call[u].fd, f)'
      BY DEF NotForgotten
    <2>1. call'[u] = call[u]
      BY <1>2
    <2> QED BY <2>1, <1>1, <1>5 DEF NotForgotten
  <1> QED BY <1>3, <1>7, <1>8

\* Every step keeps what is known of the files true.
LEMMA ReadyStep ==
    ASSUME NEW cfg, Poll(cfg)!EpollerAssumption, Peaceful(cfg), EpTypes(cfg), EpTypes(cfg)', Queues(cfg), Numbers(cfg), ReadyInv(cfg), Poll(cfg)!Next
    PROVE  ReadyInv(cfg)'
  <1>0. Calm(cfg) /\ Counts(cfg) /\ Order(cfg) /\ Known(cfg) /\ NotForgotten(cfg)
    BY DEF ReadyInv
  <1>1. ASSUME NEW r \in cfg.regs, NEW flag \in cfg.arrivals, Poll(cfg)!Arrive(r, flag) PROVE ReadyInv(cfg)'
    <2>1. Calm(cfg)' /\ Counts(cfg)' /\ Order(cfg)' /\ \A q \in cfg.regs : level[q] \subseteq level'[q]
      BY <1>0, <1>1, PlainKernel
    <2>2. Known(cfg)' /\ NotForgotten(cfg)'
      BY <1>0, <1>1, <2>1, KnownArrive
    <2> QED BY <2>1, <2>2 DEF ReadyInv
  <1>2. ASSUME NEW r \in cfg.regs, Poll(cfg)!Register(r) \/ Poll(cfg)!EpollAdd(r) \/ Poll(cfg)!Registered(r) PROVE ReadyInv(cfg)'
    <2>1. Calm(cfg)' /\ Counts(cfg)' /\ Order(cfg)'
      BY <1>0, <1>2, PlainKernel
    <2>2. Known(cfg)' /\ NotForgotten(cfg)'
      BY <1>0, <1>2, KnownRegistration
    <2> QED BY <2>1, <2>2 DEF ReadyInv
  <1>3. CASE Poll(cfg)!EpollWait \/ Poll(cfg)!EpollWaitEmpty
    <2>1. Calm(cfg)' /\ Counts(cfg)' /\ Order(cfg)'
      BY <1>0, <1>3, PlainKernel
    <2>2. Known(cfg)' /\ NotForgotten(cfg)'
      BY <1>0, <1>3, KnownWait
    <2> QED BY <2>1, <2>2 DEF ReadyInv
  <1>4. CASE Poll(cfg)!Dispatch
    <2>1. Calm(cfg)' /\ Counts(cfg)' /\ Order(cfg)'
      BY <1>0, <1>4, PlainDispatch
    <2>2. Known(cfg)' /\ NotForgotten(cfg)'
      BY <1>0, <1>4, KnownDispatch
    <2> QED BY <2>1, <2>2 DEF ReadyInv
  <1>5. ASSUME NEW c \in cfg.clients, Poll(cfg)!Perform(c) PROVE ReadyInv(cfg)'
    <2>1. Calm(cfg)' /\ Counts(cfg)' /\ Order(cfg)'
      BY <1>0, <1>5, PlainPerform
    <2>2. Known(cfg)' /\ NotForgotten(cfg)'
      BY <1>0, <1>5, KnownPerform
    <2> QED BY <2>1, <2>2 DEF ReadyInv
  <1>6. ASSUME NEW c \in cfg.clients, Poll(cfg)!Succeed(c) \/ Poll(cfg)!Eagain(c) \/ Poll(cfg)!Fail(c) \/ Poll(cfg)!Cancel(c) PROVE ReadyInv(cfg)'
    BY <1>0, <1>6, KnownEnds, KnownAgain, KnownCancel DEF ReadyInv
  <1>7. ASSUME NEW c \in cfg.clients, NEW r \in cfg.regs, NEW o \in IoOps, Poll(cfg)!Call(c, r, o) PROVE ReadyInv(cfg)'
    BY <1>0, <1>7, KnownCall DEF ReadyInv
  <1> QED BY <1>0, <1>1, <1>2, <1>3, <1>4, <1>5, <1>6, <1>7, PeacefulSteps

-----------------------------------------------------------------------------
(* The inotify fd                                                          *)

\* The copy of Only that an instance has.
LEMMA NotifySelects ==
    ASSUME NEW cfg, NEW T, NEW s \in Seq(T), NEW S
    PROVE  Notify(cfg)!Only(s, S) \in Seq(T) /\ Selects(s, S, Len(s), Notify(cfg)!Only(s, S))
  <1>1. Notify(cfg)!Only(s, S) = Only(s, S)
    BY DEF Notify!Only, Only
  <1> QED
    BY <1>1, OnlySelects

Event == [wd : Wds \cup {0}, n : Nat, kind : {"match", "other", "ignored", "overflow"}]
AddResult  == [call : {"add"}, user : Coroutines, wd : Wds, events : {<< >>}]
ReadResult == [call : {"read"}, user : {0}, wd : {0}, events : Seq(Event)]

NoTypes ==
    /\ watched \subseteq Wds /\ kqueue \in Seq(Event) /\ events \in Nat
    /\ results \in Seq(AddResult \cup ReadResult)
    /\ reader \in {"reading", "asked", "dead"}
    /\ watch \in [Wds -> {"none", "running", "removed"}]
    /\ registered = {w \in Wds : watch[w] = "running"}
    /\ pending \in [Wds -> Seq(Event)] /\ got \in [Wds -> Seq(Event)]
    /\ wd_waiters \in [Wds -> Seq(Coroutines)]
    /\ pc \in [Coroutines -> {"idle", "adding", "waiting", "until", "gone"}]
    /\ on \in [Coroutines -> Wds \cup {0}]

Once(s) == \A i, j \in 1..Len(s) : s[i] = s[j] => i = j
InList(s, u) == \E i \in 1..Len(s) : s[i] = u
Waits(w, u) == InList(wd_waiters[w], u)

\* Whoever waits is in the list of its own Watch, once; whoever adds a watch has a result coming.
Lists ==
    /\ \A w \in Wds : Once(wd_waiters[w])
    /\ \A u \in Coroutines : pc[u] \in {"waiting", "until"} => on[u] \in Wds /\ Waits(on[u], u)
    /\ \A w \in Wds, u \in Coroutines : Waits(w, u) => on[u] = w /\ pc[u] \in {"waiting", "until", "gone"}
    /\ \A k \in 1..Len(results) : results[k].call = "add" => pc[results[k].user] = "adding"
    /\ \A j, k \in 1..Len(results) : results[j].call = "add" /\ results[k].call = "add" /\ results[j].user = results[k].user => j = k

\* No coroutine is cancelled, no event lost.
Quiet(cfg) == cfg.faults \subseteq {"until"}

InQueue(e)     == \E i \in 1..Len(kqueue) : kqueue[i] = e
InResult(k, e) == \E i \in 1..Len(results[k].events) : results[k].events[i] = e
InFlight(e)    == InQueue(e) \/ \E k \in 1..Len(results) : InResult(k, e)

Seen(w) == got[w] \o pending[w]
Rising(s) == \A i, j \in 1..Len(s) : i < j => s[i].n < s[j].n

OneRead ==
    /\ \A u \in Coroutines : pc[u] # "gone"
    /\ \A k \in 1..Len(results) : results[k].call = "read" => reader = "asked"
    /\ \A j, k \in 1..Len(results) : results[j].call = "read" /\ results[k].call = "read" => j = k

Numbered ==
    /\ Rising(kqueue) /\ \A k \in 1..Len(results) : Rising(results[k].events)
    /\ \A e \in Event : InFlight(e) => e.n <= events
    /\ \A k \in 1..Len(results) : \A e, g \in Event : InResult(k, e) /\ InQueue(g) => e.n < g.n

SeenFirst ==
    \A w \in Wds :
      /\ Rising(Seen(w))
      /\ \A i \in 1..Len(Seen(w)) : Seen(w)[i].n <= events /\ \A e \in Event : InFlight(e) => Seen(w)[i].n < e.n

IsSeen(n) == \E w \in Wds : \E i \in 1..Len(Seen(w)) : Seen(w)[i].n = n
Covered   == \A n \in 1..events : IsSeen(n) \/ \E e \in Event : InFlight(e) /\ e.n = n

AddAhead(w, k) == \E j \in 1..(k - 1) : results[j].call = "add" /\ results[j].wd = w
Reaches(w, k)  == watch[w] = "running" \/ (watch[w] = "none" /\ AddAhead(w, k))

AddComing(w)   == \E j \in 1..Len(results) : results[j].call = "add" /\ results[j].wd = w
Comes(w)       == watch[w] = "running" \/ (watch[w] = "none" /\ AddComing(w))

Reached ==
    /\ reader # "dead"
    /\ \A w \in watched : Comes(w)
    /\ \A u \in Coroutines : on[u] # 0 => watch[on[u]] # "none"
    /\ \A e \in Event : InQueue(e) => e.wd \in Wds /\ Comes(e.wd)
    /\ \A k \in 1..Len(results), e \in Event : InResult(k, e) => e.wd \in Wds /\ Reaches(e.wd, k)

Last ==
    \A e \in Event : InFlight(e) /\ e.kind = "ignored" =>
      /\ e.wd \notin watched /\ watch[e.wd] = "running"
      /\ \A g \in Event : InFlight(g) /\ g.wd = e.wd => g.n <= e.n

Sequence == OneRead /\ Numbered /\ SeenFirst /\ Covered
Found    == Reached /\ Last

\* The elements of a sequence that satisfy something, in order.
LEMMA OnlyEvents ==
    ASSUME NEW cfg, NEW s \in Seq(Event), NEW S
    PROVE  /\ Notify(cfg)!Only(s, S) \in Seq(Event)
           /\ \A j \in 1..Len(Notify(cfg)!Only(s, S)) : Notify(cfg)!Only(s, S)[j] \in S /\ \E i \in 1..Len(s) : Notify(cfg)!Only(s, S)[j] = s[i]
           /\ \A i \in 1..Len(s) : s[i] \in S => \E j \in 1..Len(Notify(cfg)!Only(s, S)) : Notify(cfg)!Only(s, S)[j] = s[i]
           /\ Rising(s) => Rising(Notify(cfg)!Only(s, S))
  <1> DEFINE q == Notify(cfg)!Only(s, S)
  <1>1. q \in Seq(Event) /\ Selects(s, S, Len(s), q)
    BY NotifySelects
  <1> HIDE DEF q
  <1>2. /\ \A j \in 1..Len(q) : q[j] \in S /\ \E i \in 1..Len(s) : q[j] = s[i]
        /\ \A i \in 1..Len(s) : s[i] \in S => \E j \in 1..Len(q) : q[j] = s[i]
    BY <1>1 DEF Selects
  <1>3. ASSUME Rising(s) PROVE Rising(q)
    <2>1. PICK at \in [1..Len(q) -> 1..Len(s)] : /\ \A j \in 1..Len(q) : q[j] = s[at[j]]
                                                /\ \A j, k \in 1..Len(q) : j < k => at[j] < at[k]
      BY <1>1 DEF Selects
    <2> QED BY <2>1, <1>3 DEF Rising
  <1> QED BY <1>1, <1>2, <1>3 DEF q

\* The events of a read that are for watch w, and what is done with them.
Evs(cfg, r, w) == Notify(cfg)!Only(r.events, {e \in Notify(cfg)!Range(r.events) : e.wd = w})
Bad(r)    == {i \in 1..Len(r.events) : r.events[i].wd \notin registered}
Sent(cfg, r)   == {w \in Wds : Evs(cfg, r, w) # << >> /\ \A i \in Bad(r) : \E j \in 1..(i - 1) : r.events[j].wd = w}
Ended(cfg, r, w) == Notify(cfg)!OfKind(Evs(cfg, r, w), "ignored") # << >>
Woken(cfg, r)  == {w \in Sent(cfg, r) : wd_waiters[w] # << >>}
Again(cfg, r, w) == w \in Woken(cfg, r) /\ ~Notify(cfg)!Satisfied(wd_waiters[w][1], Notify(cfg)!Deliver(w, Evs(cfg, r, w)))
  /\ pc[wd_waiters[w][1]] # "gone"

\* What a read's result does, part by part.
LEMMA GotFacts ==
    ASSUME NEW cfg, NEW r, Notify(cfg)!GotEvents(r)
    PROVE  /\ r.call = "read" /\ reader' = (IF Bad(r) = {} THEN "reading" ELSE "dead") /\ UNCHANGED on
           /\ pending' = [w \in Wds |-> IF w \in Woken(cfg, r) THEN << >> ELSE IF w \in Sent(cfg, r)
                          THEN Notify(cfg)!Deliver(w, Evs(cfg, r, w)) ELSE pending[w]]
           /\ got' = [w \in Wds |-> IF w \in Woken(cfg, r) /\ pc[wd_waiters[w][1]] # "gone"
                      THEN got[w] \o Notify(cfg)!Deliver(w, Evs(cfg, r, w)) ELSE got[w]]
           /\ watch' = [w \in Wds |-> IF w \in Sent(cfg, r) /\ Ended(cfg, r, w) THEN "removed" ELSE watch[w]]
           /\ registered' = registered \ {w \in Sent(cfg, r) : Ended(cfg, r, w)}
           /\ wd_waiters' = [w \in Wds |-> IF w \in Sent(cfg, r) /\ Ended(cfg, r, w) THEN << >>
                                           ELSE IF Again(cfg, r, w) THEN Append(Tail(wd_waiters[w]), wd_waiters[w][1])
                                           ELSE IF w \in Woken(cfg, r) THEN Tail(wd_waiters[w]) ELSE wd_waiters[w]]
           /\ pc' = [u \in Coroutines |-> IF \E w \in Sent(cfg, r) :
                                               (w \in Woken(cfg, r) /\ wd_waiters[w][1] = u /\ ~Again(cfg, r, w))
                                               \/ (Ended(cfg, r, w) /\ u \in Notify(cfg)!ToldRemoved(w))
                     THEN IF pc[u] = "gone" THEN "gone" ELSE "idle" ELSE pc[u]]
  <1>1. reader' = (IF Bad(r) = {} THEN "reading" ELSE "dead") /\ r.call = "read" /\ UNCHANGED on
    BY DEF Notify!GotEvents, Bad
  <1>2. pending' = [w \in Wds |-> IF w \in Woken(cfg, r) THEN << >> ELSE IF w \in Sent(cfg, r)
                    THEN Notify(cfg)!Deliver(w, Evs(cfg, r, w)) ELSE pending[w]]
    BY DEF Notify!GotEvents, Woken, Sent, Evs, Bad
  <1>3. got' = [w \in Wds |-> IF w \in Woken(cfg, r) /\ pc[wd_waiters[w][1]] # "gone"
                THEN got[w] \o Notify(cfg)!Deliver(w, Evs(cfg, r, w)) ELSE got[w]]
    BY DEF Notify!GotEvents, Woken, Sent, Evs, Bad
  <1>4. watch' = [w \in Wds |-> IF w \in Sent(cfg, r) /\ Ended(cfg, r, w) THEN "removed" ELSE watch[w]]
    BY DEF Notify!GotEvents, Sent, Evs, Bad, Ended
  <1>5. registered' = registered \ {w \in Sent(cfg, r) : Ended(cfg, r, w)}
    BY DEF Notify!GotEvents, Sent, Evs, Bad, Ended
  <1>6. wd_waiters' = [w \in Wds |-> IF w \in Sent(cfg, r) /\ Ended(cfg, r, w) THEN << >>
                                        ELSE IF Again(cfg, r, w) THEN Append(Tail(wd_waiters[w]), wd_waiters[w][1])
                                        ELSE IF w \in Woken(cfg, r) THEN Tail(wd_waiters[w]) ELSE wd_waiters[w]]
    BY DEF Notify!GotEvents, Woken, Sent, Evs, Bad, Ended, Again, Notify!PopFirst
  <1>7. pc' = [u \in Coroutines |-> IF \E w \in Sent(cfg, r) :
                                         (w \in Woken(cfg, r) /\ wd_waiters[w][1] = u /\ ~Again(cfg, r, w))
                                         \/ (Ended(cfg, r, w) /\ u \in Notify(cfg)!ToldRemoved(w))
                     THEN IF pc[u] = "gone" THEN "gone" ELSE "idle" ELSE pc[u]]
    BY DEF Notify!GotEvents, Woken, Sent, Evs, Bad, Ended, Again
  <1> QED BY <1>1, <1>2, <1>3, <1>4, <1>5, <1>6, <1>7

\* q is what s has of watch w; s has the last event of watch w.
OfWatch(s, w, q) ==
    /\ \A j \in 1..Len(q) : q[j].wd = w /\ \E i \in 1..Len(s) : q[j] = s[i]
    /\ \A i \in 1..Len(s) : s[i].wd = w => \E j \in 1..Len(q) : q[j] = s[i]
    /\ Rising(s) => Rising(q)
HasLast(s, w) == \E i \in 1..Len(s) : s[i].wd = w /\ s[i].kind = "ignored"

\* What a read has for one watch.
LEMMA EvsFacts ==
    ASSUME NEW cfg, NEW r, r.events \in Seq(Event), NEW w
    PROVE  /\ Evs(cfg, r, w) \in Seq(Event) /\ OfWatch(r.events, w, Evs(cfg, r, w))
           /\ Ended(cfg, r, w) => HasLast(r.events, w)
  <1> DEFINE S == {e \in Notify(cfg)!Range(r.events) : e.wd = w}
             s == r.events
             q == Notify(cfg)!Only(s, S)
  <1>1. \A i \in 1..Len(s) : s[i] \in S <=> s[i].wd = w
    BY DEF Notify!Range
  <1> HIDE DEF s
  <1>2. /\ q \in Seq(Event)
        /\ \A j \in 1..Len(q) : q[j] \in S /\ \E i \in 1..Len(s) : q[j] = s[i]
        /\ \A i \in 1..Len(s) : s[i] \in S => \E j \in 1..Len(q) : q[j] = s[i]
        /\ Rising(s) => Rising(q)
    <2>1. s \in Seq(Event)
      BY DEF s
    <2> HIDE DEF S
    <2> QED BY <2>1, OnlyEvents, Zenon
  <1>3. \A j \in 1..Len(q) : q[j].wd = w
    BY <1>2
  <1>4. Evs(cfg, r, w) = q
    BY DEF Evs, s
  <1> HIDE DEF S, q
  <1>5. ASSUME Notify(cfg)!OfKind(q, "ignored") # << >> PROVE \E i \in 1..Len(s) : s[i].wd = w /\ s[i].kind = "ignored"
    <2> DEFINE K == {e \in Notify(cfg)!Range(q) : e.kind = "ignored"}
               p == Notify(cfg)!Only(q, K)
    <2>1. p \in Seq(Event) /\ \A j \in 1..Len(p) : p[j] \in K /\ \E i \in 1..Len(q) : p[j] = q[i]
      <3> HIDE DEF K
      <3> QED BY <1>2, OnlyEvents, SMTT(20)
    <2>2. p # << >>
      BY <1>5 DEF Notify!OfKind
    <2> HIDE DEF p
    <2>3. 1 \in 1..Len(p)
      BY <2>1, <2>2
    <2>4. PICK i \in 1..Len(q) : p[1] = q[i] /\ q[i].kind = "ignored"
      BY <2>1, <2>3
    <2> QED BY <2>4, <1>2, <1>3
  <1>6. OfWatch(s, w, q)
    BY <1>1, <1>2, <1>3 DEF OfWatch
  <1>7. Ended(cfg, r, w) => HasLast(s, w)
    BY <1>4, <1>5 DEF Ended, HasLast
  <1> QED BY <1>2, <1>4, <1>6, <1>7 DEF s

\* The rest of a list, and a list with one more.
LEMMA TailList ==
    ASSUME NEW s \in Seq(Coroutines), s # << >>, Once(s)
    PROVE  /\ Tail(s) \in Seq(Coroutines) /\ s[1] \in Coroutines /\ InList(s, s[1]) /\ Once(Tail(s))
           /\ \A u : InList(Tail(s), u) <=> InList(s, u) /\ u # s[1]
  <1>1. Tail(s) \in Seq(Coroutines) /\ Len(s) \in Nat \ {0} /\ Len(Tail(s)) = Len(s) - 1 /\ \A i \in 1..Len(Tail(s)) : Tail(s)[i] = s[i + 1]
    OBVIOUS
  <1>2. 1 \in 1..Len(s) /\ s[1] \in Coroutines /\ \A i \in 1..Len(Tail(s)) : i + 1 \in 1..Len(s) /\ i + 1 # 1
    BY <1>1
  <1>3. Once(Tail(s))
    <2> SUFFICES ASSUME NEW i \in 1..Len(Tail(s)), NEW j \in 1..Len(Tail(s)), Tail(s)[i] = Tail(s)[j] PROVE i = j
      BY DEF Once
    <2>1. i + 1 = j + 1
      BY <1>1, <1>2 DEF Once
    <2> QED BY <2>1
  <1>4. ASSUME NEW u, InList(Tail(s), u) PROVE InList(s, u) /\ u # s[1]
    BY <1>1, <1>2, <1>4 DEF InList, Once
  <1>5. ASSUME NEW u, InList(s, u), u # s[1] PROVE InList(Tail(s), u)
    <2>1. PICK i \in 1..Len(s) : s[i] = u
      BY <1>5 DEF InList
    <2>2. i - 1 \in 1..Len(Tail(s)) /\ (i - 1) + 1 = i
      BY <2>1, <1>1, <1>5
    <2> QED BY <2>1, <2>2, <1>1 DEF InList
  <1> QED BY <1>1, <1>2, <1>3, <1>4, <1>5 DEF InList

\* A coroutine goes to the end of a list of waiters.
LEMMA AppendList ==
    ASSUME NEW s \in Seq(Coroutines), NEW u \in Coroutines, Once(s), ~InList(s, u)
    PROVE  /\ Append(s, u) \in Seq(Coroutines) /\ Once(Append(s, u))
           /\ \A v : InList(Append(s, u), v) <=> InList(s, v) \/ v = u
  <1> DEFINE t == Append(s, u)
  <1>1. t \in Seq(Coroutines) /\ Len(s) \in Nat /\ Len(t) = Len(s) + 1 /\ t[Len(t)] = u /\ \A i \in 1..Len(s) : t[i] = s[i]
    OBVIOUS
  <1> HIDE DEF t
  <1>2. \A i \in 1..Len(t) : i # Len(t) => i \in 1..Len(s)
    BY <1>1
  <1>3. Once(t)
    BY <1>1, <1>2 DEF Once, InList
  <1>4. ASSUME NEW v, InList(t, v) PROVE InList(s, v) \/ v = u
    BY <1>1, <1>2, <1>4 DEF InList
  <1>5. ASSUME NEW v, InList(s, v) \/ v = u PROVE InList(t, v)
    <2>1. Len(t) \in 1..Len(t) /\ \A i \in 1..Len(s) : i \in 1..Len(t)
      BY <1>1
    <2> QED BY <2>1, <1>1, <1>5 DEF InList
  <1> QED BY <1>1, <1>3, <1>4, <1>5 DEF t

\* Nothing is watched at first.
LEMMA NoInit ==
    ASSUME NEW cfg, Notify(cfg)!InotifyAssumption, Notify(cfg)!Init PROVE NoTypes /\ Lists
  <1>1. \A w \in Wds : wd_waiters[w] = << >>
    BY DEF Notify!Init
  <1>2. \A w \in Wds : \A u : ~Waits(w, u) /\ Once(wd_waiters[w])
    BY <1>1 DEF Waits, InList, Once
  <1>3. \A u \in Coroutines : pc[u] = "idle"
    BY DEF Notify!Init
  <1>4. Lists
    <2>1. results = << >>
      BY DEF Notify!Init
    <2> QED BY <1>2, <1>3, <2>1 DEF Lists
  <1> QED BY <1>4 DEF Notify!Init, NoTypes

\* Nobody begins to wait or stops it, and what is on its way stays.
LEMMA ListsSame ==
    ASSUME Lists, UNCHANGED <<wd_waiters, pc, on, results>> PROVE Lists'
  BY DEF Lists, Waits

\* The kernel, and the read that is performed.
LEMMA NoKernel ==
    ASSUME NEW cfg, Notify(cfg)!InotifyAssumption, NoTypes, Lists,
           \/ \E w \in Wds : Notify(cfg)!Happens(w, "match") \/ Notify(cfg)!Happens(w, "other")
           \/ Notify(cfg)!Overflow \/ (\E u \in Coroutines : Notify(cfg)!RmWatch(u))
    PROVE  NoTypes' /\ Lists' /\ UNCHANGED <<results, reader, watch, registered, pending, wd_waiters, pc, on, got, skipped>>
  <1>1. UNCHANGED <<results, reader, watch, registered, pending, wd_waiters, pc, on, got, skipped>>
    BY DEF Notify!Happens, Notify!Overflow, Notify!RmWatch
  <1>2. events' \in Nat /\ events' = events + 1 /\ watched' \subseteq Wds
    <2>1. events' = events + 1 /\ watched' \subseteq watched
      BY DEF Notify!Happens, Notify!Overflow, Notify!RmWatch
    <2> QED BY <2>1 DEF NoTypes
  <1>3. kqueue' \in Seq(Event)
    <2>1. ASSUME NEW w \in Wds \cup {0}, NEW kind \in {"match", "other", "ignored", "overflow"}
          PROVE  Append(kqueue, [wd |-> w, n |-> events + 1, kind |-> kind]) \in Seq(Event)
      BY DEF NoTypes, Event
    <2>2. ASSUME NEW u \in Coroutines, Notify(cfg)!RmWatch(u) PROVE kqueue' \in Seq(Event)
      BY <2>1, <2>2 DEF Notify!RmWatch, NoTypes
    <2>3. ASSUME Notify(cfg)!Overflow PROVE kqueue' \in Seq(Event)
      BY <2>1, <2>3 DEF Notify!Overflow
    <2>4. ASSUME NEW w \in Wds, Notify(cfg)!Happens(w, "match") \/ Notify(cfg)!Happens(w, "other") PROVE kqueue' \in Seq(Event)
      BY <2>1, <2>4 DEF Notify!Happens
    <2> QED BY <2>2, <2>3, <2>4
  <1> QED BY <1>1, <1>2, <1>3, ListsSame DEF NoTypes

\* A read takes the first events of the queue.
LEMMA NoRead ==
    ASSUME NEW cfg, Notify(cfg)!InotifyAssumption, NoTypes, Lists, Notify(cfg)!Read
    PROVE  NoTypes' /\ Lists' /\ UNCHANGED <<watched, events, watch, registered, pending, wd_waiters, pc, on, got, skipped>>
           /\ \E n \in 1..Len(kqueue) :
                /\ results' = Append(results, [call |-> "read", user |-> 0, wd |-> 0, events |-> SubSeq(kqueue, 1, n)])
                /\ kqueue' = SubSeq(kqueue, n + 1, Len(kqueue))
           /\ reader = "reading" /\ reader' = "asked"
  <1> DEFINE n == IF Len(kqueue) < BufEvents THEN Len(kqueue) ELSE BufEvents
  <1>1. /\ results' = Append(results, [call |-> "read", user |-> 0, wd |-> 0, events |-> SubSeq(kqueue, 1, n)])
        /\ kqueue' = SubSeq(kqueue, n + 1, Len(kqueue)) /\ kqueue # << >> /\ reader = "reading" /\ reader' = "asked"
        /\ UNCHANGED <<watched, events, watch, registered, pending, wd_waiters, pc, on, got, skipped>>
    BY DEF Notify!Read
  <1>2. kqueue \in Seq(Event) /\ n \in 1..Len(kqueue)
    BY <1>1 DEF NoTypes, Notify!InotifyAssumption
  <1> HIDE DEF n
  <1> DEFINE r == [call |-> "read", user |-> 0, wd |-> 0, events |-> SubSeq(kqueue, 1, n)]
  <1>3. SubSeq(kqueue, 1, n) \in Seq(Event) /\ kqueue' \in Seq(Event)
    BY <1>1, <1>2
  <1>4. r \in ReadResult /\ r.call = "read"
    BY <1>3 DEF ReadResult
  <1> HIDE DEF r
  <1>5. results' \in Seq(AddResult \cup ReadResult) /\ Len(results') = Len(results) + 1 /\ Len(results) \in Nat
        /\ results'[Len(results')] = r /\ \A k \in 1..Len(results) : results'[k] = results[k]
    <2>1. results' = Append(results, r)
      BY <1>1 DEF r
    <2> QED BY <2>1, <1>4 DEF NoTypes
  <1>6. NoTypes'
    BY <1>1, <1>3, <1>5 DEF NoTypes
  <1>7. \A k \in 1..Len(results') : results'[k].call = "add" => k \in 1..Len(results) /\ results'[k] = results[k]
    BY <1>4, <1>5
  <1>8. Lists'
    <2>1. \A k \in 1..Len(results') : results'[k].call = "add" => pc[results'[k].user] = "adding"
      BY <1>7 DEF Lists
    <2>2. \A j, k \in 1..Len(results') : results'[j].call = "add" /\ results'[k].call = "add" /\ results'[j].user = results'[k].user => j = k
      BY <1>7 DEF Lists
    <2> QED BY <2>1, <2>2, <1>1 DEF Lists, Waits
  <1> QED BY <1>1, <1>2, <1>6, <1>8

\* inotify_add_watch.
LEMMA NoAdd ==
    ASSUME NEW cfg, NoTypes, Lists, NEW u \in Coroutines, NEW w \in Wds, Notify(cfg)!Add(u, w)
    PROVE  NoTypes' /\ Lists'
  <1> DEFINE r == [call |-> "add", user |-> u, wd |-> w, events |-> << >>]
  <1>1. /\ pc[u] = "idle" /\ watched' = watched \cup {w} /\ pc' = [pc EXCEPT ![u] = "adding"] /\ results' = Append(results, r)
        /\ UNCHANGED <<kqueue, events, reader, watch, registered, pending, wd_waiters, on, got, skipped>>
    BY DEF Notify!Add
  <1>2. r \in AddResult /\ r.user = u
    BY DEF AddResult
  <1> HIDE DEF r
  <1>3. results' \in Seq(AddResult \cup ReadResult) /\ Len(results') = Len(results) + 1 /\ Len(results) \in Nat
        /\ results'[Len(results')] = r /\ \A k \in 1..Len(results) : results'[k] = results[k]
    BY <1>1, <1>2 DEF NoTypes
  <1>4. pc' \in [Coroutines -> {"idle", "adding", "waiting", "until", "gone"}] /\ pc'[u] = "adding" /\ \A v \in Coroutines \ {u} : pc'[v] = pc[v]
    BY <1>1 DEF NoTypes
  <1>5. NoTypes'
    BY <1>1, <1>3, <1>4 DEF NoTypes
  <1>6. \A k \in 1..Len(results') : k # Len(results') => k \in 1..Len(results) /\ results'[k] = results[k]
    BY <1>3
  <1>7. \A k \in 1..Len(results) : results[k].call = "add" => results[k].user # u /\ results[k].user \in Coroutines
    BY <1>1 DEF Lists, NoTypes, AddResult, ReadResult
  <1>8. \A k \in 1..Len(results') : results'[k].call = "add" => pc'[results'[k].user] = "adding"
    BY <1>2, <1>3, <1>4, <1>6, <1>7 DEF Lists
  <1>9. \A j, k \in 1..Len(results') : results'[j].call = "add" /\ results'[k].call = "add" /\ results'[j].user = results'[k].user => j = k
    BY <1>2, <1>3, <1>6, <1>7 DEF Lists
  <1>10. \A v \in Coroutines : pc'[v] \in {"waiting", "until"} => pc[v] = pc'[v]
    BY <1>4
  <1>11. \A v \in Coroutines : pc[v] \in {"waiting", "until", "gone"} => pc[v] = pc'[v]
    BY <1>1, <1>4
  <1>12. Lists'
    BY <1>1, <1>8, <1>9, <1>10, <1>11 DEF Lists, Waits
  <1> QED BY <1>5, <1>12

\* A coroutine that waits is cancelled.
LEMMA NoCancel ==
    ASSUME NEW cfg, NoTypes, Lists, NEW u \in Coroutines, Notify(cfg)!Cancel(u)
    PROVE  NoTypes' /\ Lists'
  <1>1. /\ pc[u] = "waiting" /\ pc' = [pc EXCEPT ![u] = "gone"]
        /\ UNCHANGED <<Notify(cfg)!kernel, results, reader, watch, registered, pending, wd_waiters, on, got, skipped>>
    BY DEF Notify!Cancel
  <1>2. pc' \in [Coroutines -> {"idle", "adding", "waiting", "until", "gone"}] /\ pc'[u] = "gone" /\ \A v \in Coroutines \ {u} : pc'[v] = pc[v]
    BY <1>1 DEF NoTypes
  <1>3. NoTypes'
    BY <1>1, <1>2 DEF NoTypes, Notify!kernel
  <1>4. \A k \in 1..Len(results) : results[k].call = "add" => results[k].user # u /\ results[k].user \in Coroutines
    BY <1>1 DEF Lists, NoTypes, AddResult, ReadResult
  <1>5. \A k \in 1..Len(results) : results[k].call = "add" => pc'[results[k].user] = "adding"
    BY <1>2, <1>4 DEF Lists
  <1>6. \A v \in Coroutines : (pc'[v] \in {"waiting", "until"} => pc[v] = pc'[v])
          /\ (pc[v] \in {"waiting", "until", "gone"} => pc'[v] \in {"waiting", "until", "gone"})
    BY <1>2
  <1>7. Lists'
    BY <1>1, <1>5, <1>6 DEF Lists, Waits
  <1> QED BY <1>3, <1>7

\* A coroutine waits for events of its watch.
LEMMA NoWait ==
    ASSUME NEW cfg, NoTypes, Lists, NEW u \in Coroutines, NEW place \in {"waiting", "until"}, Notify(cfg)!Wait(u, place)
    PROVE  /\ NoTypes' /\ Lists' /\ on[u] \in Wds /\ pc[u] = "idle"
           /\ UNCHANGED <<Notify(cfg)!kernel, results, reader, watch, registered, on>>
           /\ \A w \in Wds : Seen(w)' = Seen(w)
           /\ \A v \in Coroutines : pc'[v] = pc[v] \/ pc'[v] = place
  <1> DEFINE w == on[u]
  <1>1. /\ pc[u] = "idle" /\ w # 0 /\ UNCHANGED <<Notify(cfg)!kernel, results, reader, watch, registered, on>>
        /\ \/ /\ pending' = [pending EXCEPT ![w] = << >>] /\ got' = [got EXCEPT ![w] = @ \o pending[w]]
              /\ UNCHANGED <<wd_waiters, pc>>
           \/ /\ wd_waiters' = [wd_waiters EXCEPT ![w] = Append(@, u)] /\ pc' = [pc EXCEPT ![u] = place]
              /\ UNCHANGED <<pending, got>>
    BY DEF Notify!Wait
  <1>2. w \in Wds /\ wd_waiters \in [Wds -> Seq(Coroutines)] /\ pending \in [Wds -> Seq(Event)] /\ got \in [Wds -> Seq(Event)]
        /\ pc \in [Coroutines -> {"idle", "adding", "waiting", "until", "gone"}]
    BY <1>1 DEF NoTypes
  <1>3. CASE /\ pending' = [pending EXCEPT ![w] = << >>] /\ got' = [got EXCEPT ![w] = @ \o pending[w]]
             /\ UNCHANGED <<wd_waiters, pc>>
    <2>1. pending' \in [Wds -> Seq(Event)]
      <3>1. << >> \in Seq(Event)
        OBVIOUS
      <3> QED BY <3>1, <1>2, <1>3
    <2>2. got[w] \o pending[w] \in Seq(Event)
      BY <1>2
    <2>3. got' \in [Wds -> Seq(Event)]
      BY <2>2, <1>2, <1>3
    <2>4. NoTypes'
      BY <1>1, <1>3, <2>1, <2>3 DEF NoTypes, Notify!kernel
    <2>5. Lists'
      BY <1>1, <1>3, ListsSame
    <2>6. ASSUME NEW v \in Wds PROVE Seen(v)' = Seen(v)
      <3>1. CASE v = w
        <4>1. got'[v] = got[v] \o pending[v] /\ pending'[v] = << >>
          BY <3>1, <1>2, <1>3
        <4>2. (got[v] \o pending[v]) \o << >> = got[v] \o pending[v]
          BY <2>2, <3>1
        <4> QED BY <4>1, <4>2 DEF Seen
      <3>2. CASE v # w
        <4>1. got'[v] = got[v] /\ pending'[v] = pending[v]
          BY <3>2, <1>2, <1>3
        <4> QED BY <4>1 DEF Seen
      <3> QED BY <3>1, <3>2
    <2> QED BY <1>1, <1>2, <1>3, <2>4, <2>5, <2>6
  <1>4. CASE /\ wd_waiters' = [wd_waiters EXCEPT ![w] = Append(@, u)] /\ pc' = [pc EXCEPT ![u] = place]
             /\ UNCHANGED <<pending, got>>
    <2>1. wd_waiters[w] \in Seq(Coroutines) /\ Once(wd_waiters[w]) /\ \A v \in Wds : ~Waits(v, u)
      BY <1>1, <1>2 DEF Lists
    <2>2. /\ Append(wd_waiters[w], u) \in Seq(Coroutines) /\ Once(Append(wd_waiters[w], u))
          /\ \A v : InList(Append(wd_waiters[w], u), v) <=> InList(wd_waiters[w], v) \/ v = u
      BY <2>1, <1>2, AppendList DEF Waits
    <2>3. wd_waiters' \in [Wds -> Seq(Coroutines)] /\ wd_waiters'[w] = Append(wd_waiters[w], u) /\ \A v \in Wds \ {w} : wd_waiters'[v] = wd_waiters[v]
      BY <2>2, <1>2, <1>4
    <2>4. pc' \in [Coroutines -> {"idle", "adding", "waiting", "until", "gone"}] /\ pc'[u] = place /\ \A v \in Coroutines \ {u} : pc'[v] = pc[v]
      BY <1>2, <1>4
    <2> HIDE DEF w
    <2>5. \A v \in Wds : \A x : Waits(v, x)' <=> Waits(v, x) \/ (v = w /\ x = u)
      BY <2>2, <2>3 DEF Waits
    <2>6. NoTypes'
      BY <1>1, <1>4, <2>3, <2>4 DEF NoTypes, Notify!kernel
    <2>7. \A v \in Wds : Once(wd_waiters'[v])
      BY <2>2, <2>3 DEF Lists
    <2>8. ASSUME NEW v \in Coroutines, pc'[v] \in {"waiting", "until"} PROVE on[v] \in Wds /\ Waits(on[v], v)'
      <3>1. CASE v = u
        BY <3>1, <1>1, <1>2, <2>5 DEF w
      <3>2. CASE v # u
        <4>1. on[v] \in Wds /\ Waits(on[v], v)
          BY <3>2, <2>4, <2>8 DEF Lists
        <4>2. on'[v] = on[v]
          BY <1>1
        <4> QED BY <4>1, <4>2, <2>5
      <3> QED BY <3>1, <3>2
    <2>9. ASSUME NEW x \in Wds, NEW v \in Coroutines, Waits(x, v)' PROVE on[v] = x /\ pc'[v] \in {"waiting", "until", "gone"}
      <3>1. CASE v = u
        <4>1. x = w
          BY <3>1, <2>1, <2>5, <2>9
        <4> QED BY <3>1, <4>1, <2>4 DEF w
      <3>2. CASE v # u
        BY <3>2, <2>4, <2>5, <2>9 DEF Lists
      <3> QED BY <3>1, <3>2
    <2>10. \A k \in 1..Len(results) : results[k].call = "add" => pc'[results[k].user] = "adding"
      <3>1. \A k \in 1..Len(results) : results[k].call = "add" => results[k].user # u /\ results[k].user \in Coroutines
        BY <1>1 DEF Lists, NoTypes, AddResult, ReadResult
      <3> QED BY <3>1, <2>4 DEF Lists
    <2>11. Lists'
      BY <1>1, <2>7, <2>8, <2>9, <2>10 DEF Lists
    <2>12. \A v \in Wds : Seen(v)' = Seen(v)
      BY <1>4 DEF Seen
    <2> QED BY <1>1, <1>2, <2>4, <2>6, <2>11, <2>12 DEF w
  <1> QED BY <1>1, <1>3, <1>4

\* The result that is handled next.
LEMMA HeadResult ==
    ASSUME NoTypes, results # << >>, results' = Tail(results)
    PROVE  /\ Head(results) = results[1] /\ 1 \in 1..Len(results) /\ results' \in Seq(AddResult \cup ReadResult)
           /\ Len(results) \in Nat \ {0} /\ Len(results') = Len(results) - 1
           /\ \A k \in 1..Len(results') : k + 1 \in 1..Len(results) /\ results'[k] = results[k + 1] /\ k + 1 # 1
           /\ Head(results) \in AddResult \cup ReadResult
  <1>1. results \in Seq(AddResult \cup ReadResult)
    BY DEF NoTypes
  <1> QED BY <1>1

\* The result of inotify_add_watch is processed.
LEMMA NoAdded ==
    ASSUME NEW cfg, NoTypes, Lists, results # << >>, results' = Tail(results), Notify(cfg)!Added(Head(results)), UNCHANGED Notify(cfg)!kernel
    PROVE  LET r == Head(results) IN
           /\ NoTypes' /\ Lists' /\ r \in AddResult /\ r.user \in Coroutines /\ r.wd \in Wds /\ pc[r.user] = "adding"
           /\ \A w \in Wds : watch'[w] = IF w = r.wd /\ watch[w] = "none" THEN "running" ELSE watch[w]
           /\ \A u \in Coroutines : pc'[u] = (IF u = r.user THEN "idle" ELSE pc[u]) /\ on'[u] = IF u = r.user THEN r.wd ELSE on[u]
           /\ UNCHANGED <<reader, pending, wd_waiters, got, skipped>>
  <1> DEFINE r == Head(results)
  <1>1. /\ r = results[1] /\ 1 \in 1..Len(results) /\ results' \in Seq(AddResult \cup ReadResult)
        /\ Len(results) \in Nat \ {0} /\ Len(results') = Len(results) - 1
        /\ \A k \in 1..Len(results') : k + 1 \in 1..Len(results) /\ results'[k] = results[k + 1] /\ k + 1 # 1
        /\ r \in AddResult \cup ReadResult
    BY HeadResult
  <1>2. /\ r.call = "add"
        /\ watch' = [watch EXCEPT ![r.wd] = IF @ = "none" THEN "running" ELSE @]
        /\ registered' = IF watch[r.wd] = "none" THEN registered \cup {r.wd} ELSE registered
        /\ pc' = [pc EXCEPT ![r.user] = "idle"] /\ on' = [on EXCEPT ![r.user] = r.wd]
        /\ UNCHANGED <<reader, pending, wd_waiters, got, skipped>>
    BY DEF Notify!Added
  <1> HIDE DEF r
  <1>3. r \in AddResult /\ r.user \in Coroutines /\ r.wd \in Wds
    BY <1>1, <1>2 DEF AddResult, ReadResult
  <1>4. pc[r.user] = "adding"
    BY <1>1, <1>2 DEF Lists
  <1>5. /\ watch' \in [Wds -> {"none", "running", "removed"}]
        /\ \A w \in Wds : watch'[w] = IF w = r.wd /\ watch[w] = "none" THEN "running" ELSE watch[w]
    BY <1>2, <1>3 DEF NoTypes
  <1>6. /\ pc' \in [Coroutines -> {"idle", "adding", "waiting", "until", "gone"}] /\ on' \in [Coroutines -> Wds \cup {0}]
        /\ \A u \in Coroutines : pc'[u] = (IF u = r.user THEN "idle" ELSE pc[u]) /\ on'[u] = IF u = r.user THEN r.wd ELSE on[u]
    BY <1>2, <1>3 DEF NoTypes
  <1>7. registered' = {w \in Wds : watch'[w] = "running"}
    <2>1. registered = {w \in Wds : watch[w] = "running"}
      BY DEF NoTypes
    <2> QED BY <2>1, <1>2, <1>3, <1>5
  <1>8. NoTypes'
    BY <1>1, <1>2, <1>5, <1>6, <1>7 DEF NoTypes, Notify!kernel
  <1>9. \A w \in Wds : ~Waits(w, r.user)
    BY <1>3, <1>4 DEF Lists
  <1>10. ASSUME NEW u \in Coroutines, pc'[u] \in {"waiting", "until"} PROVE on'[u] \in Wds /\ Waits(on[u], u)'
    <2>1. u # r.user /\ pc'[u] = pc[u] /\ on'[u] = on[u]
      BY <1>6, <1>10
    <2> QED BY <2>1, <1>2, <1>10 DEF Lists, Waits
  <1>11. ASSUME NEW w \in Wds, NEW u \in Coroutines, Waits(w, u)' PROVE on'[u] = w /\ pc'[u] \in {"waiting", "until", "gone"}
    <2>1. Waits(w, u)
      BY <1>2, <1>11 DEF Waits
    <2>2. u # r.user
      BY <2>1, <1>9
    <2> QED BY <2>1, <2>2, <1>6 DEF Lists
  <1>12. \A k \in 1..Len(results') : results'[k].call = "add" => pc'[results'[k].user] = "adding"
    <2> SUFFICES ASSUME NEW k \in 1..Len(results'), results'[k].call = "add" PROVE pc'[results'[k].user] = "adding"
      OBVIOUS
    <2>1. results'[k] = results[k + 1] /\ k + 1 \in 1..Len(results) /\ results[k + 1].call = "add" /\ k + 1 # 1
      BY <1>1
    <2>2. results[k + 1].user # r.user /\ pc[results[k + 1].user] = "adding"
      BY <2>1, <1>1, <1>2 DEF Lists
    <2>3. results[k + 1].user \in Coroutines
      BY <2>1 DEF NoTypes, AddResult, ReadResult
    <2> QED BY <2>1, <2>2, <2>3, <1>6
  <1>13. \A j, k \in 1..Len(results') : results'[j].call = "add" /\ results'[k].call = "add" /\ results'[j].user = results'[k].user => j = k
    <2> SUFFICES ASSUME NEW j \in 1..Len(results'), NEW k \in 1..Len(results'),
                        results'[j].call = "add" /\ results'[k].call = "add" /\ results'[j].user = results'[k].user PROVE j = k
      OBVIOUS
    <2>1. j + 1 = k + 1
      BY <1>1 DEF Lists
    <2> QED BY <2>1
  <1>14. Lists'
    BY <1>2, <1>10, <1>11, <1>12, <1>13 DEF Lists
  <1> QED BY <1>2, <1>3, <1>4, <1>5, <1>6, <1>8, <1>14 DEF r

\* Who is on a list after the events of a read were handed out.
LEMMA GotLists ==
    ASSUME NEW cfg, NoTypes, Lists, NEW r, Notify(cfg)!GotEvents(r), NEW w \in Wds
    PROVE  /\ wd_waiters'[w] \in Seq(Coroutines) /\ Once(wd_waiters'[w])
           /\ \A u : Waits(w, u)' <=> Waits(w, u) /\ ~(w \in Sent(cfg, r) /\ Ended(cfg, r, w))
                /\ ~(w \in Woken(cfg, r) /\ ~Again(cfg, r, w) /\ u = wd_waiters[w][1])
           /\ w \in Woken(cfg, r) => wd_waiters[w][1] \in Coroutines /\ Waits(w, wd_waiters[w][1])
  <1>1. wd_waiters[w] \in Seq(Coroutines) /\ Once(wd_waiters[w])
    BY DEF NoTypes, Lists
  <1>2. wd_waiters'[w] = IF w \in Sent(cfg, r) /\ Ended(cfg, r, w) THEN << >>
                         ELSE IF Again(cfg, r, w) THEN Append(Tail(wd_waiters[w]), wd_waiters[w][1])
                         ELSE IF w \in Woken(cfg, r) THEN Tail(wd_waiters[w]) ELSE wd_waiters[w]
    <2>1. wd_waiters' = [x \in Wds |-> IF x \in Sent(cfg, r) /\ Ended(cfg, r, x) THEN << >>
                                       ELSE IF Again(cfg, r, x) THEN Append(Tail(wd_waiters[x]), wd_waiters[x][1])
                                       ELSE IF x \in Woken(cfg, r) THEN Tail(wd_waiters[x]) ELSE wd_waiters[x]]
      BY GotFacts
    <2> QED BY <2>1
  <1>3. w \in Woken(cfg, r) => /\ wd_waiters[w] # << >> /\ w \in Sent(cfg, r)
    BY DEF Woken
  <1>4. ASSUME wd_waiters[w] # << >>
        PROVE  /\ Tail(wd_waiters[w]) \in Seq(Coroutines) /\ wd_waiters[w][1] \in Coroutines
                    /\ InList(wd_waiters[w], wd_waiters[w][1]) /\ Once(Tail(wd_waiters[w]))
               /\ \A u : InList(Tail(wd_waiters[w]), u) <=> InList(wd_waiters[w], u) /\ u # wd_waiters[w][1]
    BY <1>1, <1>4, TailList
  <1>5. CASE w \in Sent(cfg, r) /\ Ended(cfg, r, w)
    <2>1. wd_waiters'[w] = << >> /\ << >> \in Seq(Coroutines) /\ Len(<< >>) = 0
      BY <1>2, <1>5
    <2>2. Once(wd_waiters'[w]) /\ \A u : ~InList(wd_waiters'[w], u)
      BY <2>1 DEF Once, InList
    <2> QED BY <2>1, <2>2, <1>3, <1>4, <1>5 DEF Waits
  <1>6. CASE ~(w \in Sent(cfg, r) /\ Ended(cfg, r, w)) /\ Again(cfg, r, w)
    <2>1. w \in Woken(cfg, r)
      BY <1>6 DEF Again
    <2> DEFINE t == Tail(wd_waiters[w])
               u == wd_waiters[w][1]
    <2>2. t \in Seq(Coroutines) /\ u \in Coroutines /\ Once(t) /\ ~InList(t, u) /\ \A v : InList(t, v) <=> InList(wd_waiters[w], v) /\ v # u
      BY <2>1, <1>3, <1>4
    <2>3. wd_waiters'[w] = Append(t, u)
      BY <1>2, <1>6
    <2>4. InList(wd_waiters[w], u)
      BY <2>1, <1>3, <1>4
    <2> HIDE DEF t, u
    <2>5. Append(t, u) \in Seq(Coroutines) /\ Once(Append(t, u)) /\ \A v : InList(Append(t, u), v) <=> InList(t, v) \/ v = u
      BY <2>2, AppendList
    <2>6. \A v : InList(wd_waiters'[w], v) <=> InList(wd_waiters[w], v)
      BY <2>2, <2>3, <2>4, <2>5
    <2> QED BY <2>2, <2>3, <2>4, <2>5, <2>6, <1>6 DEF Waits, u
  <1>7. CASE ~(w \in Sent(cfg, r) /\ Ended(cfg, r, w)) /\ ~Again(cfg, r, w) /\ w \in Woken(cfg, r)
    <2>1. wd_waiters'[w] = Tail(wd_waiters[w])
      BY <1>2, <1>7
    <2> QED BY <2>1, <1>3, <1>4, <1>7 DEF Waits
  <1>8. CASE ~(w \in Sent(cfg, r) /\ Ended(cfg, r, w)) /\ ~Again(cfg, r, w) /\ w \notin Woken(cfg, r)
    <2>1. wd_waiters'[w] = wd_waiters[w]
      BY <1>2, <1>8
    <2> QED BY <2>1, <1>1, <1>8 DEF Waits
  <1> QED BY <1>5, <1>6, <1>7, <1>8

\* What the coroutines do then.
LEMMA GotPlaces ==
    ASSUME NEW cfg, NoTypes, Lists, NEW r, Notify(cfg)!GotEvents(r)
    PROVE  /\ pc' \in [Coroutines -> {"idle", "adding", "waiting", "until", "gone"}]
           /\ \A u \in Coroutines : /\ pc[u] = "gone" => pc'[u] = "gone"
                                    /\ pc[u] \notin {"waiting", "until", "gone"} => pc'[u] = pc[u]
                                    /\ pc'[u] = pc[u] \/ pc'[u] = "idle"
                                    /\ pc[u] \in {"waiting", "until"} => (pc'[u] = pc[u] <=> Waits(on[u], u)')
           /\ \A w \in Wds, u \in Coroutines : Waits(w, u)' => pc'[u] = pc[u]
  <1> DEFINE Told(u, w) == \/ w \in Woken(cfg, r) /\ wd_waiters[w][1] = u /\ ~Again(cfg, r, w)
                           \/ Ended(cfg, r, w) /\ u \in Notify(cfg)!ToldRemoved(w)
  <1>1. pc' = [u \in Coroutines |-> IF \E w \in Sent(cfg, r) : Told(u, w) THEN IF pc[u] = "gone" THEN "gone" ELSE "idle" ELSE pc[u]]
    BY GotFacts
  <1>2. ASSUME NEW u \in Coroutines, NEW w \in Sent(cfg, r), Told(u, w) PROVE Waits(w, u) /\ w \in Wds /\ ~Waits(w, u)'
    <2>1. w \in Wds
      BY DEF Sent
    <2>2. CASE w \in Woken(cfg, r) /\ wd_waiters[w][1] = u /\ ~Again(cfg, r, w)
      BY <2>1, <2>2, GotLists
    <2>3. CASE Ended(cfg, r, w) /\ u \in Notify(cfg)!ToldRemoved(w)
      <3>1. Waits(w, u)
        <4>1. wd_waiters[w] \in Seq(Coroutines)
          BY <2>1 DEF NoTypes
        <4> QED BY <4>1, <2>3 DEF Notify!ToldRemoved, Notify!Range, Waits, InList
      <3> QED BY <3>1, <2>1, <2>3, GotLists
    <2> QED BY <2>1, <2>2, <2>3, <1>2
  <1>3. ASSUME NEW u \in Coroutines, NEW w \in Wds, Waits(w, u), ~Waits(w, u)' PROVE \E v \in Sent(cfg, r) : Told(u, v)
    <2>1. (w \in Sent(cfg, r) /\ Ended(cfg, r, w)) \/ (w \in Woken(cfg, r) /\ ~Again(cfg, r, w) /\ u = wd_waiters[w][1])
      BY <1>3, GotLists
    <2>2. u \in Notify(cfg)!ToldRemoved(w)
      <3>1. wd_waiters[w] \in Seq(Coroutines)
        BY DEF NoTypes
      <3> QED BY <3>1, <1>3 DEF Notify!ToldRemoved, Notify!Range, Waits, InList
    <2>3. w \in Woken(cfg, r) => w \in Sent(cfg, r)
      BY DEF Woken
    <2> QED BY <2>1, <2>2, <2>3
  <1> HIDE DEF Told
  <1>4. \A u \in Coroutines : pc'[u] = IF \E w \in Sent(cfg, r) : Told(u, w) THEN IF pc[u] = "gone" THEN "gone" ELSE "idle" ELSE pc[u]
    BY <1>1
  <1>5. pc \in [Coroutines -> {"idle", "adding", "waiting", "until", "gone"}]
    BY DEF NoTypes
  <1>6. pc' \in [Coroutines -> {"idle", "adding", "waiting", "until", "gone"}]
    BY <1>1, <1>5
  <1>7. ASSUME NEW w \in Wds, NEW u \in Coroutines, Waits(w, u)' PROVE pc'[u] = pc[u]
    <2>1. Waits(w, u)
      BY <1>7, GotLists
    <2>2. ~\E v \in Sent(cfg, r) : Told(u, v)
      <3> SUFFICES ASSUME NEW v \in Sent(cfg, r), Told(u, v) PROVE FALSE
        OBVIOUS
      <3>1. Waits(v, u) /\ v \in Wds /\ ~Waits(v, u)'
        BY <1>2
      <3>2. v = w
        BY <3>1, <2>1 DEF Lists
      <3> QED BY <3>1, <3>2, <1>7
    <2> QED BY <2>2, <1>4
  <1>8. ASSUME NEW u \in Coroutines
        PROVE  /\ pc[u] = "gone" => pc'[u] = "gone"
               /\ pc[u] \notin {"waiting", "until", "gone"} => pc'[u] = pc[u]
               /\ pc'[u] = pc[u] \/ pc'[u] = "idle"
               /\ pc[u] \in {"waiting", "until"} => (pc'[u] = pc[u] <=> Waits(on[u], u)')
    <2>1. pc[u] = "gone" => pc'[u] = "gone"
      BY <1>4
    <2>2. pc'[u] = pc[u] \/ pc'[u] = "idle"
      BY <1>4
    <2>3. ASSUME pc[u] \notin {"waiting", "until", "gone"} PROVE pc'[u] = pc[u]
      <3>1. ~\E v \in Sent(cfg, r) : Told(u, v)
        BY <1>2, <2>3 DEF Lists
      <3> QED BY <3>1, <1>4
    <2>4. ASSUME pc[u] \in {"waiting", "until"} PROVE pc'[u] = pc[u] <=> Waits(on[u], u)'
      <3>1. on[u] \in Wds /\ Waits(on[u], u) /\ on' = on
        BY <2>4, GotFacts DEF Lists
      <3>2. PICK w \in Wds : w = on[u] /\ w = on'[u]
        BY <3>1
      <3>3. Waits(w, u)' => pc'[u] = pc[u]
        BY <1>7
      <3>4. ~Waits(w, u)' => pc'[u] = "idle"
        <4> SUFFICES ASSUME ~Waits(w, u)' PROVE pc'[u] = "idle"
          OBVIOUS
        <4>1. \E v \in Sent(cfg, r) : Told(u, v)
          BY <3>1, <3>2, <1>3
        <4> QED BY <4>1, <1>4, <2>4
      <3> QED BY <3>2, <3>3, <3>4, <2>4
    <2> QED BY <2>1, <2>2, <2>3, <2>4
  <1> QED BY <1>6, <1>7, <1>8

\* The events of a read are processed.
LEMMA NoGot ==
    ASSUME NEW cfg, NoTypes, Lists, results # << >>, results' = Tail(results), Notify(cfg)!GotEvents(Head(results)), UNCHANGED Notify(cfg)!kernel
    PROVE  LET r == Head(results) IN
           /\ NoTypes' /\ Lists' /\ r \in ReadResult /\ r.call = "read" /\ r.events \in Seq(Event)
           /\ \A w \in Wds : watch'[w] = IF w \in Sent(cfg, r) /\ Ended(cfg, r, w) THEN "removed" ELSE watch[w]
           /\ UNCHANGED on
  <1> DEFINE r == Head(results)
  <1>1. /\ r = results[1] /\ 1 \in 1..Len(results) /\ results' \in Seq(AddResult \cup ReadResult)
        /\ Len(results) \in Nat \ {0} /\ Len(results') = Len(results) - 1
        /\ \A k \in 1..Len(results') : k + 1 \in 1..Len(results) /\ results'[k] = results[k + 1] /\ k + 1 # 1
        /\ r \in AddResult \cup ReadResult
    BY HeadResult
  <1>2. Notify(cfg)!GotEvents(r)
    OBVIOUS
  <1> HIDE DEF r
  <1>3. r \in ReadResult /\ r.call = "read" /\ r.events \in Seq(Event)
    <2>1. r.call = "read"
      BY <1>2, GotFacts
    <2> QED BY <2>1, <1>1 DEF AddResult, ReadResult
  <1>4. /\ reader' = (IF Bad(r) = {} THEN "reading" ELSE "dead") /\ UNCHANGED on
        /\ pending' = [w \in Wds |-> IF w \in Woken(cfg, r) THEN << >> ELSE IF w \in Sent(cfg, r)
                       THEN Notify(cfg)!Deliver(w, Evs(cfg, r, w)) ELSE pending[w]]
        /\ got' = [w \in Wds |-> IF w \in Woken(cfg, r) /\ pc[wd_waiters[w][1]] # "gone"
                   THEN got[w] \o Notify(cfg)!Deliver(w, Evs(cfg, r, w)) ELSE got[w]]
        /\ watch' = [w \in Wds |-> IF w \in Sent(cfg, r) /\ Ended(cfg, r, w) THEN "removed" ELSE watch[w]]
        /\ registered' = registered \ {w \in Sent(cfg, r) : Ended(cfg, r, w)}
    BY <1>2, GotFacts
  <1>5. ASSUME NEW w \in Wds
        PROVE  Notify(cfg)!Deliver(w, Evs(cfg, r, w)) \in Seq(Event) /\ pending[w] \in Seq(Event) /\ got[w] \in Seq(Event)
                 /\ << >> \in Seq(Event)
    <2>1. Evs(cfg, r, w) \in Seq(Event) /\ pending[w] \in Seq(Event) /\ got[w] \in Seq(Event)
      BY <1>3, EvsFacts DEF NoTypes
    <2> QED BY <2>1 DEF Notify!Deliver
  <1>6. pending' \in [Wds -> Seq(Event)]
    BY <1>4, <1>5
  <1>7. got' \in [Wds -> Seq(Event)]
    <2>1. \A w \in Wds : got[w] \o Notify(cfg)!Deliver(w, Evs(cfg, r, w)) \in Seq(Event)
      BY <1>5
    <2> QED BY <2>1, <1>4, <1>5
  <1>8. watch' \in [Wds -> {"none", "running", "removed"}]
    BY <1>4 DEF NoTypes
  <1>9. registered' = {w \in Wds : watch'[w] = "running"}
    <2>1. registered = {w \in Wds : watch[w] = "running"}
      BY DEF NoTypes
    <2> QED BY <2>1, <1>4
  <1>10. wd_waiters' \in [Wds -> Seq(Coroutines)]
    <2>1. \A w \in Wds : wd_waiters'[w] \in Seq(Coroutines)
      BY <1>2, GotLists
    <2>2. wd_waiters' = [w \in Wds |-> wd_waiters'[w]]
      BY <1>2, GotFacts
    <2> HIDE DEF NoTypes, Lists
    <2> QED BY <2>1, <2>2
  <1>11. pc' \in [Coroutines -> {"idle", "adding", "waiting", "until", "gone"}]
    BY <1>2, GotPlaces
  <1>12. NoTypes'
    BY <1>1, <1>4, <1>6, <1>7, <1>8, <1>9, <1>10, <1>11 DEF NoTypes, Notify!kernel
  <1>13. \A w \in Wds : Once(wd_waiters'[w])
    BY <1>2, GotLists
  <1>14. ASSUME NEW u \in Coroutines, pc'[u] \in {"waiting", "until"} PROVE on'[u] \in Wds /\ Waits(on[u], u)'
    <2>1. pc'[u] = pc[u]
      BY <1>2, <1>14, GotPlaces
    <2>2. on[u] \in Wds /\ Waits(on[u], u)'
      BY <2>1, <1>2, <1>14, GotPlaces DEF Lists
    <2> QED BY <2>2, <1>4
  <1>15. ASSUME NEW w \in Wds, NEW u \in Coroutines, Waits(w, u)' PROVE on'[u] = w /\ pc'[u] \in {"waiting", "until", "gone"}
    <2>1. Waits(w, u) /\ pc'[u] = pc[u]
      BY <1>2, <1>15, GotLists, GotPlaces
    <2> QED BY <2>1, <1>4 DEF Lists
  <1>16. \A k \in 1..Len(results') : results'[k].call = "add" => pc'[results'[k].user] = "adding"
    <2> SUFFICES ASSUME NEW k \in 1..Len(results'), results'[k].call = "add" PROVE pc'[results'[k].user] = "adding"
      OBVIOUS
    <2>1. results'[k] = results[k + 1] /\ k + 1 \in 1..Len(results) /\ results[k + 1].call = "add"
      BY <1>1
    <2>2. pc[results[k + 1].user] = "adding" /\ results[k + 1].user \in Coroutines
      BY <2>1 DEF Lists, NoTypes, AddResult, ReadResult
    <2> QED BY <2>1, <2>2, <1>2, GotPlaces
  <1>17. \A j, k \in 1..Len(results') : results'[j].call = "add" /\ results'[k].call = "add" /\ results'[j].user = results'[k].user => j = k
    <2> SUFFICES ASSUME NEW j \in 1..Len(results'), NEW k \in 1..Len(results'),
                        results'[j].call = "add" /\ results'[k].call = "add" /\ results'[j].user = results'[k].user PROVE j = k
      OBVIOUS
    <2>1. j + 1 = k + 1
      BY <1>1 DEF Lists
    <2> QED BY <2>1
  <1>18. Lists'
    BY <1>13, <1>14, <1>15, <1>16, <1>17 DEF Lists
  <1> QED BY <1>3, <1>4, <1>12, <1>18 DEF r

\* NoTypes and Lists say what TypeOK says.
LEMMA ListsMean ==
    ASSUME NEW cfg, NoTypes, Lists PROVE Notify(cfg)!TypeOK
  <1>1. \A w \in Wds : wd_waiters[w] \in Seq(Coroutines) /\ watch[w] \in {"none", "running", "removed"} /\ reader \in {"reading", "asked", "dead"}
    BY DEF NoTypes
  <1>2. \A w \in Wds : Notify(cfg)!IsInjective(wd_waiters[w])
    BY <1>1 DEF Lists, Once, Notify!IsInjective
  <1>3. \A u \in Coroutines : pc[u] \in {"waiting", "until"} => u \in Notify(cfg)!Range(wd_waiters[on[u]])
    BY DEF Lists, Waits, InList, Notify!Range
  <1>4. \A w \in Wds, u \in Coroutines : u \in Notify(cfg)!Range(wd_waiters[w]) => on[u] = w /\ pc[u] \in {"waiting", "until", "gone"}
    BY DEF Lists, Waits, InList, Notify!Range
  <1>5. reader \in {"reading", "asked", "dead"}
    BY DEF NoTypes
  <1> QED BY <1>1, <1>2, <1>3, <1>4, <1>5 DEF Notify!TypeOK

\* The steps of the inotify fd keep types and lists.
LEMMA NoStep ==
    ASSUME NEW cfg, Notify(cfg)!InotifyAssumption, NoTypes, Lists, Notify(cfg)!Next PROVE NoTypes' /\ Lists'
  <1>1. ASSUME Notify(cfg)!Result PROVE NoTypes' /\ Lists'
    BY <1>1, NoAdded, NoGot DEF Notify!Result
  <1>2. ASSUME NEW u \in Coroutines, Notify(cfg)!Wait(u, "waiting") \/ Notify(cfg)!Wait(u, "until") PROVE NoTypes' /\ Lists'
    BY <1>2, NoWait
  <1>3. ASSUME NEW u \in Coroutines, NEW w \in Wds, Notify(cfg)!Add(u, w) PROVE NoTypes' /\ Lists'
    BY <1>3, NoAdd
  <1>4. ASSUME NEW u \in Coroutines, Notify(cfg)!Cancel(u) PROVE NoTypes' /\ Lists'
    BY <1>4, NoCancel
  <1>5. CASE Notify(cfg)!Read
    BY <1>5, NoRead
  <1>6. CASE Notify(cfg)!Overflow \/ (\E w \in Wds : Notify(cfg)!Happens(w, "match") \/ Notify(cfg)!Happens(w, "other"))
               \/ (\E u \in Coroutines : Notify(cfg)!RmWatch(u))
    BY <1>6, NoKernel
  <1> QED BY <1>1, <1>2, <1>3, <1>4, <1>5, <1>6 DEF Notify!Next

\* At the start nothing has happened.
LEMMA SequenceInit ==
    ASSUME NEW cfg, Notify(cfg)!Init PROVE Sequence /\ Found
  <1>1. /\ kqueue = << >> /\ results = << >> /\ events = 0 /\ watched = {} /\ reader = "reading"
        /\ pc = [u \in Coroutines |-> "idle"] /\ on = [u \in Coroutines |-> 0] /\ got = [w \in Wds |-> << >>] /\ pending = [w \in Wds |-> << >>]
    BY DEF Notify!Init
  <1>2. Len(kqueue) = 0 /\ Len(results) = 0
    BY <1>1
  <1>3. \A e : ~InFlight(e)
    BY <1>2 DEF InFlight, InQueue
  <1>4. \A w \in Wds : Len(Seen(w)) = 0
    BY <1>1 DEF Seen
  <1>5. OneRead
    BY <1>1, <1>2 DEF OneRead
  <1>6. Numbered
    BY <1>2, <1>3 DEF Numbered, Rising
  <1>7. SeenFirst
    BY <1>4 DEF SeenFirst, Rising
  <1>8. Covered
    BY <1>1 DEF Covered
  <1>9. Reached
    BY <1>1, <1>2, <1>3 DEF Reached, InFlight
  <1>10. Last
    BY <1>3 DEF Last
  <1> QED BY <1>5, <1>6, <1>7, <1>8, <1>9, <1>10 DEF Sequence, Found

\* One more event at the end of the kernel's queue, at an inode that was watched.
LEMMA OneMore ==
    ASSUME NoTypes, Sequence, Found, NEW w \in watched, NEW kind \in {"match", "other", "ignored"},
           events' = events + 1, kqueue' = Append(kqueue, [wd |-> w, n |-> events + 1, kind |-> kind]),
           watched' = (IF kind = "ignored" THEN watched \ {w} ELSE watched),
           kind = "ignored" => watch[w] # "none",
           UNCHANGED <<results, reader, watch, registered, pending, pc, on, got>>
    PROVE  Sequence' /\ Found'
  <1> DEFINE e0 == [wd |-> w, n |-> events + 1, kind |-> kind]
  <1>1. e0 \in Event /\ e0.wd = w /\ e0.n = events + 1 /\ e0.kind = kind /\ events \in Nat /\ w \in Wds
    BY DEF NoTypes, Event
  <1>2. kqueue' = Append(kqueue, e0)
    OBVIOUS
  <1> HIDE DEF e0
  <1>3. Len(kqueue) \in Nat /\ Len(kqueue') = Len(kqueue) + 1 /\ kqueue'[Len(kqueue')] = e0 /\ \A i \in 1..Len(kqueue) : kqueue'[i] = kqueue[i]
    BY <1>1, <1>2 DEF NoTypes
  <1>4. \A i \in 1..Len(kqueue') : i # Len(kqueue') => i \in 1..Len(kqueue)
    BY <1>3
  <1>5. \A i \in 1..Len(kqueue) : kqueue[i] \in Event /\ InQueue(kqueue[i])
    BY DEF NoTypes, InQueue
  <1>6. \A e : InQueue(e)' <=> InQueue(e) \/ e = e0
    <2>1. ASSUME NEW e, InQueue(e)' PROVE InQueue(e) \/ e = e0
      BY <2>1, <1>3, <1>4 DEF InQueue
    <2>2. ASSUME NEW e, InQueue(e) \/ e = e0 PROVE InQueue(e)'
      <3>1. Len(kqueue') \in 1..Len(kqueue') /\ \A i \in 1..Len(kqueue) : i \in 1..Len(kqueue')
        BY <1>3
      <3> QED BY <2>2, <3>1, <1>3 DEF InQueue
    <2> QED BY <2>1, <2>2
  <1>7. \A k, e : InResult(k, e)' <=> InResult(k, e)
    BY DEF InResult
  <1>8. \A e : InFlight(e)' <=> InFlight(e) \/ e = e0
    BY <1>6, <1>7 DEF InFlight
  <1>9. OneRead'
    BY DEF OneRead, Sequence
  <1>10. \A e \in Event : InFlight(e) => e.n <= events
    BY DEF Sequence, Numbered
  <1>11. Rising(kqueue')
    <2> SUFFICES ASSUME NEW i \in 1..Len(kqueue'), NEW j \in 1..Len(kqueue'), i < j PROVE kqueue'[i].n < kqueue'[j].n
      BY DEF Rising
    <2>1. i \in 1..Len(kqueue) /\ kqueue'[i] = kqueue[i]
      BY <1>3, <1>4
    <2>2. kqueue[i].n <= events /\ kqueue[i].n \in Nat
      BY <2>1, <1>5, <1>10 DEF InFlight, Event
    <2>3. CASE j = Len(kqueue')
      BY <2>1, <2>2, <2>3, <1>1, <1>3
    <2>4. CASE j # Len(kqueue')
      BY <2>1, <2>4, <1>3, <1>4 DEF Sequence, Numbered, Rising
    <2> QED BY <2>3, <2>4
  <1>12. Numbered'
    <2>1. \A k \in 1..Len(results') : Rising(results'[k].events)
      BY DEF Sequence, Numbered
    <2>2. \A e \in Event : InFlight(e)' => e.n <= events'
      <3>1. \A e \in Event : e.n \in Nat
        BY DEF Event
      <3> QED BY <3>1, <1>1, <1>8, <1>10
    <2>3. ASSUME NEW k \in 1..Len(results'), NEW e \in Event, NEW g \in Event, InResult(k, e)', InQueue(g)' PROVE e.n < g.n
      <3>1. InResult(k, e) /\ k \in 1..Len(results) /\ InFlight(e) /\ e.n \in Nat
        BY <2>3, <1>7 DEF InFlight, Event
      <3>2. CASE InQueue(g)
        BY <3>1, <3>2 DEF Sequence, Numbered
      <3>3. CASE g = e0
        BY <3>1, <3>3, <1>1, <1>10
      <3> QED BY <3>2, <3>3, <2>3, <1>6
    <2> QED BY <1>11, <2>1, <2>2, <2>3 DEF Numbered
  <1>13. \A v \in Wds : Seen(v)' = Seen(v) /\ Seen(v) \in Seq(Event)
    BY DEF Seen, NoTypes
  <1>14. SeenFirst'
    <2> SUFFICES ASSUME NEW v \in Wds
                 PROVE  /\ Rising(Seen(v)')
                        /\ \A i \in 1..Len(Seen(v)') : Seen(v)'[i].n <= events' /\ \A e \in Event : InFlight(e)' => Seen(v)'[i].n < e.n
      BY DEF SeenFirst
    <2>1. Rising(Seen(v)')
      BY <1>13 DEF Sequence, SeenFirst
    <2>2. ASSUME NEW i \in 1..Len(Seen(v)') PROVE Seen(v)'[i].n <= events' /\ \A e \in Event : InFlight(e)' => Seen(v)'[i].n < e.n
      <3>1. i \in 1..Len(Seen(v)) /\ Seen(v)'[i] = Seen(v)[i]
        BY <1>13
      <3>2. Seen(v)[i].n <= events /\ Seen(v)[i].n \in Nat /\ \A e \in Event : InFlight(e) => Seen(v)[i].n < e.n
        <4>1. Seen(v)[i].n <= events /\ \A e \in Event : InFlight(e) => Seen(v)[i].n < e.n
          BY <3>1 DEF Sequence, SeenFirst
        <4>2. Seen(v)[i] \in Event
          BY <3>1, <1>13
        <4> QED BY <4>1, <4>2 DEF Event
      <3> QED BY <3>1, <3>2, <1>1, <1>8
    <2> QED BY <2>1, <2>2
  <1>15. Covered'
    <2> SUFFICES ASSUME NEW n \in 1..events' PROVE IsSeen(n)' \/ \E e \in Event : InFlight(e)' /\ e.n = n
      BY DEF Covered
    <2>1. CASE n = events + 1
      BY <2>1, <1>1, <1>8
    <2>2. CASE n # events + 1
      <3>1. n \in 1..events
        BY <2>2, <1>1
      <3>2. IsSeen(n) => IsSeen(n)'
        BY <1>13 DEF IsSeen
      <3> QED BY <3>1, <3>2, <1>8 DEF Sequence, Covered
    <2> QED BY <2>1, <2>2
  <1>16. \A v, k : Reaches(v, k)' <=> Reaches(v, k)
    BY DEF Reaches, AddAhead
  <1>17. \A v : Comes(v)' <=> Comes(v)
    BY DEF Comes, AddComing
  <1>18. Reached'
    <2>1. reader' # "dead" /\ \A u \in Coroutines : on'[u] # 0 => watch'[on'[u]] # "none"
      BY DEF Found, Reached
    <2>2. \A v \in watched' : Comes(v)'
      BY <1>17 DEF Found, Reached
    <2>3. \A e \in Event : InQueue(e)' => e.wd \in Wds /\ Comes(e.wd)'
      BY <1>1, <1>6, <1>17 DEF Found, Reached
    <2>4. \A k \in 1..Len(results'), e \in Event : InResult(k, e)' => e.wd \in Wds /\ Reaches(e.wd, k)'
      BY <1>7, <1>16 DEF Found, Reached
    <2> QED BY <2>1, <2>2, <2>3, <2>4 DEF Reached
  <1>19. Last'
    <2> SUFFICES ASSUME NEW e \in Event, InFlight(e)', e.kind = "ignored"
                 PROVE  /\ e.wd \notin watched' /\ watch'[e.wd] = "running"
                        /\ \A g \in Event : InFlight(g)' /\ g.wd = e.wd => g.n <= e.n
      BY DEF Last
    <2>1. CASE InFlight(e)
      <3>1. e.wd \notin watched /\ watch[e.wd] = "running" /\ \A g \in Event : InFlight(g) /\ g.wd = e.wd => g.n <= e.n
        BY <2>1 DEF Found, Last
      <3> QED BY <3>1, <1>1, <1>8
    <2>2. CASE e = e0
      <3>1. w \notin watched'
        BY <2>2, <1>1
      <3>2. watch[w] = "running"
        BY <2>2, <1>1 DEF Found, Reached, Comes
      <3>3. \A g \in Event : InFlight(g) => g.n <= events /\ g.n \in Nat
        BY <1>10 DEF Event
      <3> QED BY <2>2, <3>1, <3>2, <3>3, <1>1, <1>8
    <2> QED BY <2>1, <2>2, <1>8
  <1> QED BY <1>9, <1>12, <1>14, <1>15, <1>18, <1>19 DEF Sequence, Found

\* What is kept when the same events are in flight, nothing happens and nobody is given anything.
LEMMA SameFlight ==
    ASSUME Sequence, \A e \in Event : InFlight(e)' <=> InFlight(e), \A w \in Wds : Seen(w)' = Seen(w), UNCHANGED events
    PROVE  /\ SeenFirst' /\ Covered'
           /\ \A e \in Event : InFlight(e)' => e.n <= events'
  <1>1. SeenFirst'
    BY DEF Sequence, SeenFirst
  <1>2. \A n : IsSeen(n)' <=> IsSeen(n)
    BY DEF IsSeen
  <1>3. Covered'
    BY <1>2 DEF Sequence, Covered
  <1> QED BY <1>1, <1>3 DEF Sequence, Numbered

\* Reading moves the first events, in their order.
LEMMA SequenceRead ==
    ASSUME NEW cfg, Notify(cfg)!InotifyAssumption, NoTypes, Lists, Sequence, Found, Notify(cfg)!Read
    PROVE  Sequence' /\ Found'
  <1>1. PICK m \in 1..Len(kqueue) :
          /\ results' = Append(results, [call |-> "read", user |-> 0, wd |-> 0, events |-> SubSeq(kqueue, 1, m)])
          /\ kqueue' = SubSeq(kqueue, m + 1, Len(kqueue))
    BY NoRead
  <1>2. reader = "reading" /\ reader' = "asked" /\ UNCHANGED <<watched, events, watch, registered, pending, wd_waiters, pc, on, got, skipped>>
    BY NoRead
  <1> DEFINE r0 == [call |-> "read", user |-> 0, wd |-> 0, events |-> SubSeq(kqueue, 1, m)]
  <1>3. kqueue \in Seq(Event) /\ Len(kqueue) \in Nat
    BY DEF NoTypes
  <1>4. /\ Len(SubSeq(kqueue, 1, m)) = m /\ \A i \in 1..m : SubSeq(kqueue, 1, m)[i] = kqueue[i]
        /\ Len(kqueue') = Len(kqueue) - m /\ \A i \in 1..Len(kqueue') : kqueue'[i] = kqueue[i + m]
    BY <1>1, <1>3
  <1>5. r0.call = "read" /\ Len(r0.events) = m /\ \A i \in 1..m : r0.events[i] = kqueue[i]
    BY <1>4
  <1>6. results' = Append(results, r0)
    BY <1>1
  <1> HIDE DEF r0
  <1>7. Len(results) \in Nat /\ Len(results') = Len(results) + 1 /\ results'[Len(results')] = r0
          /\ \A k \in 1..Len(results) : results'[k] = results[k]
    BY <1>6 DEF NoTypes
  <1>0. PICK last \in Nat : last = Len(results') /\ last = Len(results) + 1
    BY <1>7
  <1>8. \A k \in 1..Len(results') : k # last => k \in 1..Len(results)
    BY <1>7, <1>0
  <1>9. \A e : InQueue(e) <=> InQueue(e)' \/ \E i \in 1..m : kqueue[i] = e
    <2>1. ASSUME NEW e, InQueue(e) PROVE InQueue(e)' \/ \E i \in 1..m : kqueue[i] = e
      <3>1. PICK i \in 1..Len(kqueue) : kqueue[i] = e
        BY <2>1 DEF InQueue
      <3>2. CASE i <= m
        <4>1. i \in 1..m
          BY <3>2
        <4> QED BY <3>1, <4>1
      <3>3. CASE ~(i <= m)
        <4>1. i - m \in 1..Len(kqueue') /\ (i - m) + m = i
          BY <3>3, <1>3, <1>4
        <4> QED BY <4>1, <3>1, <1>4 DEF InQueue
      <3> QED BY <3>2, <3>3
    <2>2. ASSUME NEW e, InQueue(e)' PROVE InQueue(e)
      <3>1. PICK i \in 1..Len(kqueue') : kqueue'[i] = e
        BY <2>2 DEF InQueue
      <3>2. i + m \in 1..Len(kqueue) /\ kqueue[i + m] = e
        BY <3>1, <1>3, <1>4
      <3> QED BY <3>2 DEF InQueue
    <2>3. ASSUME NEW e, NEW i \in 1..m, kqueue[i] = e PROVE InQueue(e)
      <3>1. i \in 1..Len(kqueue)
        BY <1>3
      <3> QED BY <3>1, <2>3 DEF InQueue
    <2> QED BY <2>1, <2>2, <2>3
  <1>10. \A e : InResult(last, e)' <=> \E i \in 1..m : kqueue[i] = e
    <2>1. results'[last] = r0
      BY <1>0, <1>7
    <2> QED BY <2>1, <1>5 DEF InResult
  <1>11. \A k \in 1..Len(results) : \A e : InResult(k, e)' <=> InResult(k, e)
    BY <1>7 DEF InResult
  <1>12. \A e : InFlight(e)' <=> InFlight(e)
    <2>1. ASSUME NEW e, InFlight(e) PROVE InFlight(e)'
      <3>1. CASE \E k \in 1..Len(results) : InResult(k, e)
        <4>1. \A k \in 1..Len(results) : k \in 1..Len(results')
          BY <1>7
        <4> QED BY <3>1, <4>1, <1>11 DEF InFlight
      <3>2. CASE InQueue(e)
        <4>1. last \in 1..Len(results')
          BY <1>0, <1>7
        <4> QED BY <3>2, <4>1, <1>9, <1>10 DEF InFlight
      <3> QED BY <3>1, <3>2, <2>1 DEF InFlight
    <2>2. ASSUME NEW e, InFlight(e)' PROVE InFlight(e)
      <3>1. CASE InQueue(e)'
        BY <3>1, <1>9 DEF InFlight
      <3>2. ASSUME NEW k \in 1..Len(results'), InResult(k, e)' PROVE InFlight(e)
        <4>1. CASE k \in 1..Len(results)
          BY <4>1, <3>2, <1>11 DEF InFlight
        <4>2. CASE k = last
          BY <4>2, <3>2, <1>9, <1>10 DEF InFlight
        <4> QED BY <4>1, <4>2, <1>7, <1>8
      <3> QED BY <3>1, <3>2, <2>2 DEF InFlight
    <2> QED BY <2>1, <2>2
  <1>13. \A w \in Wds : Seen(w)' = Seen(w)
    BY <1>2 DEF Seen
  <1>14. SeenFirst' /\ Covered' /\ \A e \in Event : InFlight(e)' => e.n <= events'
    BY <1>2, <1>12, <1>13, SameFlight
  <1>15. \A k \in 1..Len(results) : results[k].call # "read"
    BY <1>2 DEF Sequence, OneRead
  <1>16. OneRead'
    <2>1. \A k \in 1..Len(results') : results'[k].call = "read" => k = last
      BY <1>0, <1>7, <1>8, <1>15
    <2> QED BY <2>1, <1>2 DEF Sequence, OneRead
  <1>17. Numbered'
    <2>1. Rising(kqueue')
      <3> SUFFICES ASSUME NEW i \in 1..Len(kqueue'), NEW j \in 1..Len(kqueue'), i < j PROVE kqueue'[i].n < kqueue'[j].n
        BY DEF Rising
      <3>1. i + m \in 1..Len(kqueue) /\ j + m \in 1..Len(kqueue) /\ i + m < j + m
        BY <1>3, <1>4
      <3> QED BY <3>1, <1>4 DEF Sequence, Numbered, Rising
    <2>2. Rising(r0.events)
      <3>1. \A i \in 1..m : i \in 1..Len(kqueue)
        BY <1>3
      <3> QED BY <3>1, <1>5 DEF Sequence, Numbered, Rising
    <2>3. \A k \in 1..Len(results') : Rising(results'[k].events)
      BY <2>2, <1>0, <1>7, <1>8 DEF Sequence, Numbered
    <2>4. ASSUME NEW k \in 1..Len(results'), NEW e \in Event, NEW f \in Event, InResult(k, e)', InQueue(f)' PROVE e.n < f.n
      <3>1. CASE k \in 1..Len(results)
        BY <3>1, <2>4, <1>9, <1>11 DEF Sequence, Numbered
      <3>2. CASE k = last
        <4>1. PICK i \in 1..m : kqueue[i] = e
          BY <3>2, <2>4, <1>10
        <4>2. PICK j \in 1..Len(kqueue') : kqueue'[j] = f
          BY <2>4 DEF InQueue
        <4>3. j + m \in 1..Len(kqueue) /\ kqueue[j + m] = f /\ i \in 1..Len(kqueue) /\ i < j + m
          BY <4>2, <1>3, <1>4
        <4> QED BY <4>1, <4>3 DEF Sequence, Numbered, Rising
      <3> QED BY <3>1, <3>2, <1>7, <1>8
    <2> QED BY <2>1, <2>3, <2>4, <1>14 DEF Numbered
  <1>18. (\A w : Comes(w) => Comes(w)') /\ \A w : \A k \in 1..Len(results) : Reaches(w, k) => Reaches(w, k)'
    <2>1. ASSUME NEW w, Comes(w) PROVE Comes(w)'
      <3>1. \A k \in 1..Len(results) : k \in 1..Len(results')
        BY <1>7
      <3> QED BY <2>1, <3>1, <1>2, <1>7 DEF Comes, AddComing
    <2>2. ASSUME NEW w, NEW k \in 1..Len(results), Reaches(w, k) PROVE Reaches(w, k)'
      <3>1. \A j \in 1..(k - 1) : j \in 1..Len(results)
        BY <1>7
      <3> QED BY <2>2, <3>1, <1>2, <1>7 DEF Reaches, AddAhead
    <2> QED BY <2>1, <2>2
  <1>19. \A w : Comes(w) => Reaches(w, last)'
    <2>1. ASSUME NEW w, Comes(w) PROVE Reaches(w, last)'
      <3>1. \A j \in 1..Len(results) : j \in 1..(last - 1)
        BY <1>0, <1>7
      <3> QED BY <2>1, <3>1, <1>2, <1>7 DEF Comes, AddComing, Reaches, AddAhead
    <2> QED BY <2>1
  <1>20. Reached'
    <2>1. reader' # "dead" /\ (\A w \in watched' : Comes(w)') /\ (\A u \in Coroutines : on'[u] # 0 => watch'[on'[u]] # "none")
      BY <1>2, <1>18 DEF Found, Reached
    <2>2. \A e \in Event : InQueue(e)' => e.wd \in Wds /\ Comes(e.wd)'
      BY <1>9, <1>18 DEF Found, Reached
    <2>3. ASSUME NEW k \in 1..Len(results'), NEW e \in Event, InResult(k, e)' PROVE e.wd \in Wds /\ Reaches(e.wd, k)'
      <3>1. CASE k \in 1..Len(results)
        <4>1. InResult(k, e)
          BY <3>1, <2>3, <1>11
        <4>2. e.wd \in Wds /\ Reaches(e.wd, k)
          BY <3>1, <4>1 DEF Found, Reached
        <4>3. PICK w : w = e.wd
          OBVIOUS
        <4>4. Reaches(w, k)
          BY <4>2, <4>3
        <4>5. \A v : \A j \in 1..Len(results) : Reaches(v, j) => Reaches(v, j)'
          BY <1>18
        <4>6. Reaches(w, k)'
          BY <3>1, <4>4, <4>5
        <4> QED BY <4>2, <4>3, <4>6
      <3>2. CASE k = last
        <4>1. InQueue(e)
          BY <3>2, <2>3, <1>9, <1>10
        <4>2. e.wd \in Wds /\ Comes(e.wd)
          BY <4>1 DEF Found, Reached
        <4> QED BY <3>2, <4>2, <1>19
      <3> QED BY <3>1, <3>2, <1>7, <1>8
    <2> QED BY <2>1, <2>2, <2>3 DEF Reached
  <1>21. Last'
    BY <1>2, <1>12 DEF Found, Last
  <1> QED BY <1>14, <1>16, <1>17, <1>20, <1>21 DEF Sequence, Found

\* A watch is added: no event is for it yet.
LEMMA SequenceAdd ==
    ASSUME NEW cfg, NoTypes, Lists, Sequence, Found, NEW u \in Coroutines, NEW w \in Wds, Notify(cfg)!Add(u, w)
    PROVE  Sequence' /\ Found'
  <1> DEFINE r0 == [call |-> "add", user |-> u, wd |-> w, events |-> << >>]
  <1>1. /\ pc[u] = "idle" /\ on[u] = 0 /\ (w \in watched \/ watch[w] = "none") /\ watched' = watched \cup {w}
        /\ pc' = [pc EXCEPT ![u] = "adding"] /\ results' = Append(results, r0)
        /\ UNCHANGED <<kqueue, events, reader, watch, registered, pending, wd_waiters, on, got, skipped>>
    BY DEF Notify!Add
  <1>2. r0.call = "add" /\ r0.wd = w /\ r0.events = << >> /\ Len(r0.events) = 0
    OBVIOUS
  <1> HIDE DEF r0
  <1>3. Len(results) \in Nat /\ Len(results') = Len(results) + 1 /\ results'[Len(results')] = r0
          /\ \A k \in 1..Len(results) : results'[k] = results[k]
    BY <1>1 DEF NoTypes
  <1>4. PICK last \in Nat : last = Len(results') /\ last = Len(results) + 1
    BY <1>3
  <1>5. last \in 1..Len(results') /\ results'[last] = r0 /\ \A k \in 1..Len(results) : k \in 1..Len(results') /\ k # last
    BY <1>3, <1>4
  <1>6. \A k \in 1..Len(results') : k # last => k \in 1..Len(results)
    BY <1>3, <1>4
  <1>7. /\ \A e : ~InResult(last, e)' /\ (InQueue(e)' <=> InQueue(e))
        /\ \A k \in 1..Len(results) : \A e : InResult(k, e)' <=> InResult(k, e)
    BY <1>1, <1>2, <1>3, <1>5 DEF InResult, InQueue
  <1>8. \A e : InFlight(e)' <=> InFlight(e)
    BY <1>5, <1>6, <1>7 DEF InFlight
  <1>9. \A v \in Wds : Seen(v)' = Seen(v)
    BY <1>1 DEF Seen
  <1>10. SeenFirst' /\ Covered' /\ \A e \in Event : InFlight(e)' => e.n <= events'
    BY <1>1, <1>8, <1>9, SameFlight
  <1>11. OneRead'
    <2>1. \A k \in 1..Len(results') : results'[k].call = "read" => k \in 1..Len(results) /\ results'[k] = results[k]
      BY <1>2, <1>3, <1>5, <1>6
    <2>2. \A v \in Coroutines : pc'[v] # "gone"
      BY <1>1 DEF Sequence, OneRead, NoTypes
    <2> QED BY <2>1, <2>2, <1>1 DEF Sequence, OneRead
  <1>12. Numbered'
    <2>1. \A k \in 1..Len(results') : Rising(results'[k].events)
      BY <1>2, <1>3, <1>5, <1>6 DEF Sequence, Numbered, Rising
    <2>2. \A k \in 1..Len(results') : \A e, g \in Event : InResult(k, e)' /\ InQueue(g)' => e.n < g.n
      BY <1>6, <1>7 DEF Sequence, Numbered
    <2> QED BY <2>1, <2>2, <1>1, <1>10 DEF Sequence, Numbered
  <1>13. \A v : Comes(v) => Comes(v)'
    BY <1>1, <1>3, <1>5 DEF Comes, AddComing
  <1>14. \A v : \A k \in 1..Len(results) : Reaches(v, k) => Reaches(v, k)'
    <2> SUFFICES ASSUME NEW v, NEW k \in 1..Len(results), Reaches(v, k) PROVE Reaches(v, k)'
      OBVIOUS
    <2>1. \A j \in 1..(k - 1) : j \in 1..Len(results)
      BY <1>3
    <2> QED BY <2>1, <1>1, <1>3 DEF Reaches, AddAhead
  <1>15. Reached'
    <2>1. reader' # "dead" /\ \A v \in Coroutines : on'[v] # 0 => watch'[on'[v]] # "none"
      BY <1>1 DEF Found, Reached
    <2>2. Comes(w)'
      <3>1. CASE w \in watched
        BY <3>1, <1>13 DEF Found, Reached
      <3>2. CASE watch[w] = "none"
        BY <3>2, <1>1, <1>2, <1>5 DEF Comes, AddComing
      <3> QED BY <3>1, <3>2, <1>1
    <2>3. \A v \in watched' : Comes(v)'
      BY <2>2, <1>1, <1>13 DEF Found, Reached
    <2>4. \A e \in Event : InQueue(e)' => e.wd \in Wds /\ Comes(e.wd)'
      BY <1>7, <1>13 DEF Found, Reached
    <2>5. ASSUME NEW k \in 1..Len(results'), NEW e \in Event, InResult(k, e)' PROVE e.wd \in Wds /\ Reaches(e.wd, k)'
      <3>1. k \in 1..Len(results) /\ InResult(k, e)
        BY <2>5, <1>6, <1>7
      <3>2. e.wd \in Wds /\ Reaches(e.wd, k)
        BY <3>1 DEF Found, Reached
      <3>3. PICK v : v = e.wd
        OBVIOUS
      <3>4. Reaches(v, k)'
        BY <3>1, <3>2, <3>3, <1>14
      <3> QED BY <3>2, <3>3, <3>4
    <2> QED BY <2>1, <2>3, <2>4, <2>5 DEF Reached
  <1>16. Last'
    <2> SUFFICES ASSUME NEW e \in Event, InFlight(e)', e.kind = "ignored"
                 PROVE  /\ e.wd \notin watched' /\ watch'[e.wd] = "running"
                        /\ \A g \in Event : InFlight(g)' /\ g.wd = e.wd => g.n <= e.n
      BY DEF Last
    <2>1. e.wd \notin watched /\ watch[e.wd] = "running" /\ \A g \in Event : InFlight(g) /\ g.wd = e.wd => g.n <= e.n
      BY <1>8 DEF Found, Last
    <2>2. e.wd # w
      BY <2>1, <1>1
    <2> QED BY <2>1, <2>2, <1>1, <1>8
  <1> QED BY <1>10, <1>11, <1>12, <1>15, <1>16 DEF Sequence, Found

\* The coroutine that added a watch goes on: its result was the first.
LEMMA SequenceAdded ==
    ASSUME NEW cfg, NoTypes, Lists, Sequence, Found, results # << >>, results' = Tail(results),
           Notify(cfg)!Added(Head(results)), UNCHANGED Notify(cfg)!kernel
    PROVE  Sequence' /\ Found'
  <1>1. PICK r : r = Head(results)
    OBVIOUS
  <1>2. /\ r \in AddResult /\ r.user \in Coroutines /\ r.wd \in Wds /\ pc[r.user] = "adding"
        /\ \A w \in Wds : watch'[w] = IF w = r.wd /\ watch[w] = "none" THEN "running" ELSE watch[w]
        /\ \A u \in Coroutines : pc'[u] = (IF u = r.user THEN "idle" ELSE pc[u]) /\ on'[u] = IF u = r.user THEN r.wd ELSE on[u]
        /\ UNCHANGED <<reader, pending, wd_waiters, got, skipped>>
    BY <1>1, NoAdded
  <1>3. /\ r = results[1] /\ 1 \in 1..Len(results) /\ Len(results) \in Nat \ {0} /\ Len(results') = Len(results) - 1
        /\ \A k \in 1..Len(results') : k + 1 \in 1..Len(results) /\ results'[k] = results[k + 1] /\ k + 1 # 1
    BY <1>1, HeadResult
  <1>4. UNCHANGED <<watched, kqueue, events>>
    BY DEF Notify!kernel
  <1>5. r.call = "add" /\ r.events = << >> /\ Len(r.events) = 0
    BY <1>2 DEF AddResult
  <1>6. /\ \A e : InQueue(e)' <=> InQueue(e)
        /\ \A k \in 1..Len(results') : \A e : InResult(k, e)' <=> InResult(k + 1, e)
    BY <1>3, <1>4 DEF InQueue, InResult
  <1>7. \A e : InFlight(e)' <=> InFlight(e)
    <2>1. \A e : ~InResult(1, e)
      BY <1>3, <1>5 DEF InResult
    <2>2. \A k \in 1..Len(results) : k # 1 => k - 1 \in 1..Len(results') /\ (k - 1) + 1 = k
      BY <1>3
    <2>3. ASSUME NEW e, NEW k \in 1..Len(results), InResult(k, e) PROVE \E j \in 1..Len(results') : InResult(j, e)'
      <3>1. k - 1 \in 1..Len(results') /\ (k - 1) + 1 = k
        BY <2>1, <2>2, <2>3
      <3>2. PICK j \in 1..Len(results') : j = k - 1 /\ j + 1 = k
        BY <3>1
      <3> QED BY <3>2, <2>3, <1>6
    <2>4. ASSUME NEW e, NEW j \in 1..Len(results'), InResult(j, e)' PROVE \E k \in 1..Len(results) : InResult(k, e)
      BY <2>4, <1>3, <1>6
    <2> QED BY <2>3, <2>4, <1>6 DEF InFlight
  <1>8. \A v \in Wds : Seen(v)' = Seen(v)
    BY <1>2 DEF Seen
  <1>9. SeenFirst' /\ Covered' /\ \A e \in Event : InFlight(e)' => e.n <= events'
    BY <1>4, <1>7, <1>8, SameFlight
  <1>10. OneRead'
    <2>1. \A u \in Coroutines : pc'[u] # "gone"
      BY <1>2 DEF Sequence, OneRead
    <2>2. \A k \in 1..Len(results') : results'[k].call = "read" => reader' = "asked"
      BY <1>2, <1>3 DEF Sequence, OneRead
    <2>3. ASSUME NEW j \in 1..Len(results'), NEW k \in 1..Len(results'), results'[j].call = "read", results'[k].call = "read" PROVE j = k
      <3>1. j + 1 = k + 1
        BY <2>3, <1>3 DEF Sequence, OneRead
      <3> QED BY <3>1
    <2> QED BY <2>1, <2>2, <2>3 DEF OneRead
  <1>11. Numbered'
    <2>1. \A k \in 1..Len(results') : Rising(results'[k].events)
      BY <1>3 DEF Sequence, Numbered
    <2>2. \A k \in 1..Len(results') : \A e, g \in Event : InResult(k, e)' /\ InQueue(g)' => e.n < g.n
      BY <1>3, <1>6 DEF Sequence, Numbered
    <2> QED BY <2>1, <2>2, <1>4, <1>9 DEF Sequence, Numbered
  <1>12. ASSUME NEW w \in Wds, Comes(w) PROVE Comes(w)'
    <2>1. CASE watch[w] = "running" \/ w = r.wd
      BY <2>1, <1>2, <1>12 DEF Comes
    <2>2. CASE watch[w] = "none" /\ w # r.wd
      <3>1. PICK j \in 1..Len(results) : results[j].call = "add" /\ results[j].wd = w
        BY <2>2, <1>12 DEF Comes, AddComing
      <3>2. j - 1 \in 1..Len(results') /\ results'[j - 1] = results[(j - 1) + 1] /\ (j - 1) + 1 = j
        BY <3>1, <2>2, <1>3
      <3> QED BY <3>1, <3>2, <2>2, <1>2 DEF Comes, AddComing
    <2> QED BY <2>1, <2>2, <1>12 DEF Comes
  <1>13. ASSUME NEW w \in Wds, NEW k \in 1..Len(results'), Reaches(w, k + 1) PROVE Reaches(w, k)'
    <2>1. CASE watch[w] = "running" \/ w = r.wd
      BY <2>1, <1>2, <1>13 DEF Reaches
    <2>2. CASE watch[w] = "none" /\ w # r.wd
      <3>1. PICK j \in 1..((k + 1) - 1) : results[j].call = "add" /\ results[j].wd = w
        BY <2>2, <1>13 DEF Reaches, AddAhead
      <3>2. j # 1
        BY <3>1, <2>2, <1>3
      <3>3. j - 1 \in 1..(k - 1) /\ j - 1 \in 1..Len(results') /\ (j - 1) + 1 = j
        BY <3>1, <3>2, <1>3
      <3>4. results'[j - 1] = results[j]
        BY <3>3, <1>3
      <3> QED BY <3>1, <3>3, <3>4, <2>2, <1>2 DEF Reaches, AddAhead
    <2> QED BY <2>1, <2>2, <1>13 DEF Reaches
  <1>14. Reached'
    <2>1. reader' # "dead" /\ \A w \in watched' : Comes(w)'
      BY <1>2, <1>4, <1>12 DEF Found, Reached, NoTypes
    <2>2. \A u \in Coroutines : on'[u] # 0 => watch'[on'[u]] # "none"
      <3> SUFFICES ASSUME NEW u \in Coroutines, on'[u] # 0 PROVE watch'[on'[u]] # "none"
        OBVIOUS
      <3>1. CASE u = r.user
        BY <3>1, <1>2
      <3>2. CASE u # r.user
        <4>1. on'[u] = on[u] /\ on[u] \in Wds /\ watch[on[u]] # "none"
          BY <3>2, <1>2 DEF Found, Reached, NoTypes
        <4> QED BY <4>1, <1>2
      <3> QED BY <3>1, <3>2
    <2>3. \A e \in Event : InQueue(e)' => e.wd \in Wds /\ Comes(e.wd)'
      BY <1>6, <1>12 DEF Found, Reached
    <2>4. ASSUME NEW k \in 1..Len(results'), NEW e \in Event, InResult(k, e)' PROVE e.wd \in Wds /\ Reaches(e.wd, k)'
      <3>1. InResult(k + 1, e) /\ k + 1 \in 1..Len(results)
        BY <2>4, <1>3, <1>6
      <3>2. e.wd \in Wds /\ Reaches(e.wd, k + 1)
        BY <3>1 DEF Found, Reached
      <3>3. PICK v \in Wds : v = e.wd
        BY <3>2
      <3>4. Reaches(v, k)'
        BY <3>2, <3>3, <1>13
      <3> QED BY <3>3, <3>4
    <2> QED BY <2>1, <2>2, <2>3, <2>4 DEF Reached
  <1>15. Last'
    <2> SUFFICES ASSUME NEW e \in Event, InFlight(e)', e.kind = "ignored"
                 PROVE  /\ e.wd \notin watched' /\ watch'[e.wd] = "running"
                        /\ \A g \in Event : InFlight(g)' /\ g.wd = e.wd => g.n <= e.n
      BY DEF Last
    <2>1. e.wd \notin watched /\ watch[e.wd] = "running" /\ \A g \in Event : InFlight(g) /\ g.wd = e.wd => g.n <= e.n
      BY <1>7 DEF Found, Last
    <2>2. e.wd \in Wds
      <3>1. InFlight(e)
        BY <1>7
      <3> QED BY <3>1 DEF InFlight, Found, Reached
    <2> QED BY <2>1, <2>2, <1>2, <1>4, <1>7
  <1> QED BY <1>9, <1>10, <1>11, <1>14, <1>15 DEF Sequence, Found

\* Concatenation of events is associative.
LEMMA ConcatEvents ==
    ASSUME NEW s \in Seq(Event), NEW t \in Seq(Event), NEW u \in Seq(Event)
    PROVE  s \o (t \o u) = (s \o t) \o u /\ (s \o (t \o u)) \o << >> = (s \o t) \o u /\ (s \o t) \o << >> = s \o t
  BY SMTT(20)

\* What a read that finds every Watch does: each of them has seen its events too.
LEMMA GotAll ==
    ASSUME NEW cfg, NoTypes, Lists, Sequence, Found, results # << >>, results' = Tail(results), UNCHANGED Notify(cfg)!kernel,
           NEW r, r = Head(results), Notify(cfg)!GotEvents(r)
    PROVE  /\ r.events \in Seq(Event) /\ Bad(r) = {} /\ reader' = "reading"
           /\ \A e \in Event : InResult(1, e) <=> \E i \in 1..Len(r.events) : r.events[i] = e
           /\ \A w \in Wds : Seen(w)' = Seen(w) \o Evs(cfg, r, w) /\ Evs(cfg, r, w) \in Seq(Event)
  <1>1. r = results[1] /\ 1 \in 1..Len(results)
    BY HeadResult
  <1>2. r.events \in Seq(Event)
    BY NoGot
  <1>3. \A e : InResult(1, e) <=> \E i \in 1..Len(r.events) : r.events[i] = e
    BY <1>1 DEF InResult
  <1>4. Bad(r) = {}
    <2> SUFFICES ASSUME NEW i \in 1..Len(r.events), r.events[i].wd \notin registered PROVE FALSE
      BY DEF Bad
    <2>1. PICK e \in Event : e = r.events[i]
      BY <1>2
    <2>2. InResult(1, e)
      BY <2>1, <1>3
    <2>3. e.wd \in Wds /\ Reaches(e.wd, 1)
      BY <2>2, <1>1 DEF Found, Reached
    <2>4. watch[e.wd] = "running"
      BY <2>3 DEF Reaches, AddAhead
    <2> QED BY <2>1, <2>3, <2>4 DEF NoTypes
  <1>5. reader' = "reading"
    BY <1>4, GotFacts
  <1>6. \A w \in Wds : w \in Sent(cfg, r) <=> Evs(cfg, r, w) # << >>
    BY <1>4 DEF Sent
  <1>7. ASSUME NEW w \in Wds PROVE Seen(w)' = Seen(w) \o Evs(cfg, r, w) /\ Evs(cfg, r, w) \in Seq(Event)
    <2>1. Evs(cfg, r, w) \in Seq(Event) /\ pending[w] \in Seq(Event) /\ got[w] \in Seq(Event)
      BY <1>2, EvsFacts DEF NoTypes
    <2>2. pending' = [x \in Wds |-> IF x \in Woken(cfg, r) THEN << >> ELSE IF x \in Sent(cfg, r)
                      THEN Notify(cfg)!Deliver(x, Evs(cfg, r, x)) ELSE pending[x]]
      BY GotFacts
    <2>3. got' = [x \in Wds |-> IF x \in Woken(cfg, r) /\ pc[wd_waiters[x][1]] # "gone"
                  THEN got[x] \o Notify(cfg)!Deliver(x, Evs(cfg, r, x)) ELSE got[x]]
      BY ONLY Notify(cfg)!GotEvents(r), GotFacts
    <2>4. pending'[w] = IF w \in Woken(cfg, r) THEN << >> ELSE IF w \in Sent(cfg, r) THEN pending[w] \o Evs(cfg, r, w) ELSE pending[w]
      BY <2>2 DEF Notify!Deliver
    <2>5. got'[w] = IF w \in Woken(cfg, r) /\ pc[wd_waiters[w][1]] # "gone" THEN got[w] \o (pending[w] \o Evs(cfg, r, w)) ELSE got[w]
      BY <2>3 DEF Notify!Deliver
    <2>6. Seen(w)' = got'[w] \o pending'[w] /\ Seen(w) = got[w] \o pending[w]
      BY DEF Seen
    <2>7. /\ got[w] \o (pending[w] \o Evs(cfg, r, w)) = (got[w] \o pending[w]) \o Evs(cfg, r, w)
          /\ (got[w] \o (pending[w] \o Evs(cfg, r, w))) \o << >> = (got[w] \o pending[w]) \o Evs(cfg, r, w)
          /\ (got[w] \o pending[w]) \o << >> = got[w] \o pending[w]
      <3> DEFINE g == got[w]
                 p == pending[w]
                 e == Evs(cfg, r, w)
      <3>1. g \in Seq(Event) /\ p \in Seq(Event) /\ e \in Seq(Event)
        BY ONLY <2>1
      <3> HIDE DEF g, p, e
      <3>2. g \o (p \o e) = (g \o p) \o e /\ (g \o (p \o e)) \o << >> = (g \o p) \o e /\ (g \o p) \o << >> = g \o p
        BY ONLY <3>1, ConcatEvents
      <3> QED BY ONLY <3>2 DEF g, p, e
    <2>8. CASE w \in Woken(cfg, r)
      <3>1. wd_waiters[w][1] \in Coroutines
        BY <2>8, GotLists
      <3>2. pc[wd_waiters[w][1]] # "gone"
        BY <3>1 DEF Sequence, OneRead
      <3> QED BY <3>2, <2>1, <2>4, <2>5, <2>6, <2>7, <2>8
    <2>9. CASE w \notin Woken(cfg, r) /\ w \in Sent(cfg, r)
      BY <2>1, <2>4, <2>5, <2>6, <2>7, <2>9
    <2>10. CASE w \notin Woken(cfg, r) /\ w \notin Sent(cfg, r)
      <3>1. Evs(cfg, r, w) = << >>
        BY <2>10, <1>6
      <3> QED BY <3>1, <2>1, <2>4, <2>5, <2>6, <2>7, <2>10
    <2> QED BY <2>8, <2>9, <2>10
  <1> QED BY <1>2, <1>3, <1>4, <1>5, <1>7

\* A rising sequence after another one whose numbers are all lower.
LEMMA RisingConcat ==
    ASSUME NEW s \in Seq(Event), NEW t \in Seq(Event), Rising(s), Rising(t), \A i \in 1..Len(s), j \in 1..Len(t) : s[i].n < t[j].n
    PROVE  /\ Rising(s \o t)
           /\ \A i \in 1..Len(s \o t) : (\E k \in 1..Len(s) : (s \o t)[i] = s[k]) \/ (\E k \in 1..Len(t) : (s \o t)[i] = t[k])
           /\ \A k \in 1..Len(s) : \E i \in 1..Len(s \o t) : (s \o t)[i] = s[k]
           /\ \A k \in 1..Len(t) : \E i \in 1..Len(s \o t) : (s \o t)[i] = t[k]
  <1> DEFINE q == s \o t
  <1>1. /\ Len(s) \in Nat /\ Len(t) \in Nat /\ Len(q) = Len(s) + Len(t)
        /\ \A i \in 1..Len(s) : q[i] = s[i]
        /\ \A i \in 1..Len(q) : i > Len(s) => q[i] = t[i - Len(s)]
    OBVIOUS
  <1> HIDE DEF q
  <1>2. \A i \in 1..Len(q) : (i <= Len(s) /\ i \in 1..Len(s)) \/ (i > Len(s) /\ i - Len(s) \in 1..Len(t))
    BY <1>1
  <1>3. \A k \in 1..Len(s) : k \in 1..Len(q) /\ q[k] = s[k]
    BY <1>1
  <1>4. \A k \in 1..Len(t) : k + Len(s) \in 1..Len(q) /\ q[k + Len(s)] = t[k]
    <2> SUFFICES ASSUME NEW k \in 1..Len(t) PROVE k + Len(s) \in 1..Len(q) /\ q[k + Len(s)] = t[k]
      OBVIOUS
    <2>1. k + Len(s) \in 1..Len(q) /\ k + Len(s) > Len(s) /\ (k + Len(s)) - Len(s) = k
      BY <1>1
    <2> QED BY <2>1, <1>1
  <1>5. Rising(q)
    <2> SUFFICES ASSUME NEW i \in 1..Len(q), NEW j \in 1..Len(q), i < j PROVE q[i].n < q[j].n
      BY DEF Rising
    <2>1. CASE i \in 1..Len(s) /\ j \in 1..Len(s)
      BY <2>1, <1>1 DEF Rising
    <2>2. CASE i \in 1..Len(s) /\ j > Len(s)
      <3>1. j - Len(s) \in 1..Len(t) /\ q[j] = t[j - Len(s)]
        BY ONLY <2>2, <1>1, <1>2
      <3>2. q[i] = s[i]
        BY ONLY <2>2, <1>1
      <3> QED BY <2>2, <3>1, <3>2
    <2>3. CASE i > Len(s)
      <3>1. j > Len(s) /\ i - Len(s) \in 1..Len(t) /\ j - Len(s) \in 1..Len(t) /\ i - Len(s) < j - Len(s)
        BY <2>3, <1>1, <1>2
      <3>2. q[i] = t[i - Len(s)] /\ q[j] = t[j - Len(s)]
        BY <2>3, <3>1, <1>1
      <3> QED BY <3>1, <3>2 DEF Rising
    <2> QED BY <2>1, <2>2, <2>3, <1>1, <1>2
  <1>6. \A i \in 1..Len(q) : (\E k \in 1..Len(s) : q[i] = s[k]) \/ (\E k \in 1..Len(t) : q[i] = t[k])
    BY <1>1, <1>2
  <1> QED BY <1>3, <1>4, <1>5, <1>6 DEF q

\* Each event read goes to its watch once, after those before it.
LEMMA SequenceGot ==
    ASSUME NEW cfg, NoTypes, Lists, Sequence, Found, results # << >>, results' = Tail(results),
           Notify(cfg)!GotEvents(Head(results)), UNCHANGED Notify(cfg)!kernel
    PROVE  Sequence' /\ Found'
  <1>1. PICK r : r = Head(results) /\ Notify(cfg)!GotEvents(r)
    OBVIOUS
  <1>2. /\ r = results[1] /\ 1 \in 1..Len(results) /\ Len(results) \in Nat \ {0} /\ Len(results') = Len(results) - 1
        /\ \A k \in 1..Len(results') : k + 1 \in 1..Len(results) /\ results'[k] = results[k + 1] /\ k + 1 # 1
        /\ results \in Seq(AddResult \cup ReadResult)
    BY <1>1, HeadResult DEF NoTypes
  <1>3. r.call = "read" /\ UNCHANGED on /\ \A w \in Wds : watch'[w] = IF w \in Sent(cfg, r) /\ Ended(cfg, r, w) THEN "removed" ELSE watch[w]
    BY <1>1, NoGot
  <1>4. UNCHANGED <<watched, kqueue, events>>
    BY DEF Notify!kernel
  <1>5. /\ r.events \in Seq(Event) /\ Bad(r) = {} /\ reader' = "reading"
        /\ \A e \in Event : InResult(1, e) <=> \E i \in 1..Len(r.events) : r.events[i] = e
        /\ \A w \in Wds : Seen(w)' = Seen(w) \o Evs(cfg, r, w) /\ Evs(cfg, r, w) \in Seq(Event)
    BY <1>1, GotAll
  <1>6. \A k \in 1..Len(results) : k # 1 => results[k].call = "add" /\ results[k].events = << >>
    <2> SUFFICES ASSUME NEW k \in 1..Len(results), k # 1 PROVE results[k].call = "add" /\ results[k].events = << >>
      OBVIOUS
    <2>1. results[k].call # "read"
      BY <1>2, <1>3 DEF Sequence, OneRead
    <2>2. results[k] \in AddResult \cup ReadResult
      BY <1>2
    <2> QED BY <2>1, <2>2 DEF AddResult, ReadResult
  <1>7. \A k \in 1..Len(results') : results'[k].call = "add" /\ results'[k].events = << >> /\ Len(results'[k].events) = 0
    BY <1>2, <1>6
  <1>8. \A k \in 1..Len(results') : \A e : ~InResult(k, e)'
    BY <1>7 DEF InResult
  <1>9. \A e : (InQueue(e)' <=> InQueue(e)) /\ (InFlight(e)' <=> InQueue(e))
    <2>1. \A e : InQueue(e)' <=> InQueue(e)
      BY <1>4 DEF InQueue
    <2> QED BY <2>1, <1>8 DEF InFlight
  <1>10. \A e \in Event : InFlight(e) <=> InQueue(e) \/ InResult(1, e)
    <2>1. \A k \in 1..Len(results) : \A e : InResult(k, e) => k = 1
      <3>1. \A k \in 1..Len(results) : k # 1 => Len(results[k].events) = 0
        BY <1>6
      <3> QED BY <3>1 DEF InResult
    <2> QED BY <2>1, <1>2 DEF InFlight
  <1>11. ASSUME NEW w \in Wds
         PROVE  /\ Rising(Evs(cfg, r, w))
                /\ \A j \in 1..Len(Evs(cfg, r, w)) : Evs(cfg, r, w)[j] \in Event /\ InResult(1, Evs(cfg, r, w)[j])
                /\ \A e \in Event : InResult(1, e) /\ e.wd = w => \E j \in 1..Len(Evs(cfg, r, w)) : Evs(cfg, r, w)[j] = e
    <2>1. /\ \A j \in 1..Len(Evs(cfg, r, w)) : \E i \in 1..Len(r.events) : Evs(cfg, r, w)[j] = r.events[i]
          /\ \A i \in 1..Len(r.events) : r.events[i].wd = w => \E j \in 1..Len(Evs(cfg, r, w)) : Evs(cfg, r, w)[j] = r.events[i]
          /\ Rising(r.events) => Rising(Evs(cfg, r, w))
      <3>1. r.events \in Seq(Event)
        BY <1>5
      <3>2. OfWatch(r.events, w, Evs(cfg, r, w))
        BY <3>1, EvsFacts
      <3> QED BY <3>2 DEF OfWatch
    <2>2. Rising(r.events)
      BY <1>2 DEF Sequence, Numbered
    <2>3. \A i \in 1..Len(r.events) : r.events[i] \in Event
      BY <1>5
    <2> QED BY <2>1, <2>2, <2>3, <1>5
  <1>12. ASSUME NEW w \in Wds
         PROVE  /\ Seen(w) \in Seq(Event) /\ Rising(Seen(w)')
                /\ \A i \in 1..Len(Seen(w)') : (\E k \in 1..Len(Seen(w)) : Seen(w)'[i] = Seen(w)[k])
                     \/ (\E k \in 1..Len(Evs(cfg, r, w)) : Seen(w)'[i] = Evs(cfg, r, w)[k])
                /\ \A k \in 1..Len(Seen(w)) : \E i \in 1..Len(Seen(w)') : Seen(w)'[i] = Seen(w)[k]
                /\ \A k \in 1..Len(Evs(cfg, r, w)) : \E i \in 1..Len(Seen(w)') : Seen(w)'[i] = Evs(cfg, r, w)[k]
    <2> DEFINE s == Seen(w)
               t == Evs(cfg, r, w)
    <2>1. s \in Seq(Event) /\ t \in Seq(Event) /\ Seen(w)' = s \o t
      <3>1. Seen(w) \in Seq(Event)
        BY DEF Seen, NoTypes
      <3> QED BY <3>1, <1>5
    <2>2. Rising(s) /\ Rising(t)
      BY <1>11 DEF Sequence, SeenFirst
    <2>3. \A i \in 1..Len(s), j \in 1..Len(t) : s[i].n < t[j].n
      <3> SUFFICES ASSUME NEW i \in 1..Len(s), NEW j \in 1..Len(t) PROVE s[i].n < t[j].n
        OBVIOUS
      <3>1. t[j] \in Event /\ InFlight(t[j])
        BY <1>2, <1>11 DEF InFlight
      <3> QED BY <3>1 DEF Sequence, SeenFirst
    <2> HIDE DEF s, t
    <2>4. /\ Rising(s \o t)
          /\ \A i \in 1..Len(s \o t) : (\E k \in 1..Len(s) : (s \o t)[i] = s[k]) \/ (\E k \in 1..Len(t) : (s \o t)[i] = t[k])
          /\ \A k \in 1..Len(s) : \E i \in 1..Len(s \o t) : (s \o t)[i] = s[k]
          /\ \A k \in 1..Len(t) : \E i \in 1..Len(s \o t) : (s \o t)[i] = t[k]
      BY ONLY <2>1, <2>2, <2>3, RisingConcat, SMTT(20)
    <2>5. PICK q : q = Seen(w)' /\ q = s \o t
      BY <2>1
    <2>6. /\ Rising(q)
          /\ \A i \in 1..Len(q) : (\E k \in 1..Len(s) : q[i] = s[k]) \/ (\E k \in 1..Len(t) : q[i] = t[k])
          /\ \A k \in 1..Len(s) : \E i \in 1..Len(q) : q[i] = s[k]
          /\ \A k \in 1..Len(t) : \E i \in 1..Len(q) : q[i] = t[k]
      BY <2>4, <2>5
    <2>7. Rising(Seen(w)')
      BY <2>5, <2>6
    <2>8. q = Seen(w)'
      BY <2>5
    <2>9. \A i \in 1..Len(Seen(w)') : (\E k \in 1..Len(s) : Seen(w)'[i] = s[k]) \/ (\E k \in 1..Len(t) : Seen(w)'[i] = t[k])
      BY <2>6, <2>8
    <2>10. \A k \in 1..Len(s) : \E i \in 1..Len(Seen(w)') : Seen(w)'[i] = s[k]
      BY <2>6, <2>8
    <2>11. \A k \in 1..Len(t) : \E i \in 1..Len(Seen(w)') : Seen(w)'[i] = t[k]
      BY <2>6, <2>8
    <2> QED BY <2>1, <2>7, <2>9, <2>10, <2>11 DEF s, t
  <1>13. OneRead'
    <2>1. \A u \in Coroutines : pc'[u] # "gone"
      <3>1. \A u \in Coroutines : pc'[u] = pc[u] \/ pc'[u] = "idle"
        BY <1>1, GotPlaces
      <3> QED BY <3>1 DEF Sequence, OneRead
    <2> QED BY <2>1, <1>7 DEF OneRead
  <1>14. Numbered'
    <2>1. Rising(kqueue') /\ \A e \in Event : InFlight(e)' => e.n <= events'
      BY <1>4, <1>9 DEF Sequence, Numbered, InFlight
    <2>2. \A k \in 1..Len(results') : Rising(results'[k].events)
      BY <1>7 DEF Rising
    <2> QED BY <2>1, <2>2, <1>8 DEF Numbered
  <1>15. SeenFirst'
    <2> SUFFICES ASSUME NEW w \in Wds, NEW i \in 1..Len(Seen(w)')
                 PROVE  Seen(w)'[i].n <= events' /\ \A e \in Event : InFlight(e)' => Seen(w)'[i].n < e.n
      BY <1>12 DEF SeenFirst
    <2>1. ASSUME NEW k \in 1..Len(Seen(w)), Seen(w)'[i] = Seen(w)[k]
          PROVE  Seen(w)'[i].n <= events' /\ \A e \in Event : InFlight(e)' => Seen(w)'[i].n < e.n
      <3>1. Seen(w)[k].n <= events /\ \A e \in Event : InFlight(e) => Seen(w)[k].n < e.n
        BY DEF Sequence, SeenFirst
      <3> QED BY <3>1, <2>1, <1>4, <1>9 DEF InFlight
    <2>2. ASSUME NEW k \in 1..Len(Evs(cfg, r, w)), Seen(w)'[i] = Evs(cfg, r, w)[k]
          PROVE  Seen(w)'[i].n <= events' /\ \A e \in Event : InFlight(e)' => Seen(w)'[i].n < e.n
      <3>1. Evs(cfg, r, w)[k] \in Event /\ InResult(1, Evs(cfg, r, w)[k])
        BY <1>11
      <3>2. PICK g \in Event : g = Evs(cfg, r, w)[k] /\ InResult(1, g)
        BY <3>1
      <3>3. g.n <= events /\ \A e \in Event : InQueue(e) => g.n < e.n
        BY <3>2, <1>2, <1>10 DEF Sequence, Numbered
      <3> QED BY <3>2, <3>3, <2>2, <1>4, <1>9
    <2> QED BY <2>1, <2>2, <1>12
  <1>16. Covered'
    <2> SUFFICES ASSUME NEW n \in 1..events PROVE IsSeen(n)' \/ \E e \in Event : InFlight(e)' /\ e.n = n
      BY <1>4 DEF Covered
    <2>1. CASE IsSeen(n)
      <3>1. PICK w \in Wds : \E k \in 1..Len(Seen(w)) : Seen(w)[k].n = n
        BY <2>1 DEF IsSeen
      <3>2. \E i \in 1..Len(Seen(w)') : Seen(w)'[i].n = n
        BY <3>1, <1>12
      <3> QED BY <3>2 DEF IsSeen
    <2>2. ASSUME NEW e \in Event, InFlight(e), e.n = n PROVE IsSeen(n)' \/ \E x \in Event : InFlight(x)' /\ x.n = n
      <3>1. CASE InQueue(e)
        BY <3>1, <2>2, <1>9
      <3>2. CASE InResult(1, e)
        <4>1. e.wd \in Wds
          BY <3>2, <1>2 DEF Found, Reached
        <4>2. PICK w \in Wds : w = e.wd
          BY <4>1
        <4>4. PICK k \in 1..Len(Evs(cfg, r, w)) : Evs(cfg, r, w)[k] = e
          BY <4>2, <3>2, <1>11
        <4>3. \E i \in 1..Len(Seen(w)') : Seen(w)'[i] = e
          <5>1. \E i \in 1..Len(Seen(w)') : Seen(w)'[i] = Evs(cfg, r, w)[k]
            BY <1>12
          <5> QED BY <4>4, <5>1
        <4> QED BY <4>3, <2>2 DEF IsSeen
      <3> QED BY <3>1, <3>2, <2>2, <1>10
    <2> QED BY <2>1, <2>2 DEF Sequence, Covered
  \* a watch whose last event was among those has nothing to come
  <1>17. ASSUME NEW w \in Sent(cfg, r), Ended(cfg, r, w)
         PROVE  w \in Wds /\ w \notin watched /\ watch[w] = "running" /\ \A e \in Event : InQueue(e) => e.wd # w
    <2>1. PICK i \in 1..Len(r.events) : r.events[i].wd = w /\ r.events[i].kind = "ignored"
      <3>1. r.events \in Seq(Event)
        BY <1>5
      <3>2. Ended(cfg, r, w)
        BY <1>17
      <3>3. HasLast(r.events, w)
        BY <3>1, <3>2, EvsFacts
      <3> QED BY <3>3 DEF HasLast
    <2>2. PICK g \in Event : g = r.events[i] /\ InResult(1, g)
      BY <1>5
    <2>3. w \notin watched /\ watch[w] = "running" /\ \A e \in Event : InFlight(e) /\ e.wd = w => e.n <= g.n
      BY <2>1, <2>2, <1>10 DEF Found, Last
    <2>4. ASSUME NEW e \in Event, InQueue(e), e.wd = w PROVE FALSE
      <3>1. e.n <= g.n /\ g.n < e.n
        BY <2>2, <2>3, <2>4, <1>2, <1>10 DEF Sequence, Numbered
      <3> QED BY <3>1 DEF Event
    <2> QED BY <2>3, <2>4 DEF Sent
  <1>18. ASSUME NEW w \in Wds, Comes(w), ~(w \in Sent(cfg, r) /\ Ended(cfg, r, w)) PROVE Comes(w)'
    <2>1. watch'[w] = watch[w]
      BY <1>3, <1>18
    <2>2. CASE watch[w] = "running"
      BY <2>1, <2>2 DEF Comes
    <2>3. CASE watch[w] = "none" /\ AddComing(w)
      <3>1. PICK j \in 1..Len(results) : results[j].call = "add" /\ results[j].wd = w
        BY <2>3 DEF AddComing
      <3>2. j - 1 \in 1..Len(results') /\ (j - 1) + 1 = j /\ results'[j - 1] = results[(j - 1) + 1]
        BY <3>1, <1>2, <1>3
      <3> QED BY <3>1, <3>2, <2>1, <2>3 DEF Comes, AddComing
    <2> QED BY <2>2, <2>3, <1>18 DEF Comes
  <1>19. Reached'
    <2>1. \A w \in watched' : Comes(w)'
      <3>1. \A w \in watched : w \in Wds /\ Comes(w) /\ ~(w \in Sent(cfg, r) /\ Ended(cfg, r, w))
        BY <1>17 DEF Found, Reached, NoTypes
      <3> QED BY <3>1, <1>4, <1>18
    <2>2. \A u \in Coroutines : on'[u] # 0 => watch'[on'[u]] # "none"
      <3> SUFFICES ASSUME NEW u \in Coroutines, on[u] # 0 PROVE watch'[on[u]] # "none"
        BY <1>3
      <3>1. on[u] \in Wds /\ watch[on[u]] # "none"
        BY DEF Found, Reached, NoTypes
      <3> QED BY <3>1, <1>3
    <2>3. \A e \in Event : InQueue(e)' => e.wd \in Wds /\ Comes(e.wd)'
      <3> SUFFICES ASSUME NEW e \in Event, InQueue(e) PROVE e.wd \in Wds /\ Comes(e.wd)'
        BY <1>9
      <3>1. e.wd \in Wds /\ Comes(e.wd)
        BY DEF Found, Reached
      <3>2. ~(e.wd \in Sent(cfg, r) /\ Ended(cfg, r, e.wd))
        BY <1>17
      <3> QED BY <3>1, <3>2, <1>18
    <2> QED BY <2>1, <2>2, <2>3, <1>5, <1>8 DEF Reached
  <1>20. Last'
    <2> SUFFICES ASSUME NEW e \in Event, InQueue(e), e.kind = "ignored"
                 PROVE  /\ e.wd \notin watched' /\ watch'[e.wd] = "running"
                        /\ \A g \in Event : InFlight(g)' /\ g.wd = e.wd => g.n <= e.n
      BY <1>9 DEF Last
    <2>1. e.wd \notin watched /\ watch[e.wd] = "running" /\ \A g \in Event : InFlight(g) /\ g.wd = e.wd => g.n <= e.n
      BY <1>10 DEF Found, Last
    <2>2. e.wd \in Wds /\ ~(e.wd \in Sent(cfg, r) /\ Ended(cfg, r, e.wd))
      BY <1>17 DEF Found, Reached
    <2> QED BY <2>1, <2>2, <1>3, <1>4, <1>9 DEF InFlight
  <1> QED BY <1>13, <1>14, <1>15, <1>16, <1>19, <1>20 DEF Sequence, Found

\* Who waits gets what was pending, and the rest later.
LEMMA SequenceWait ==
    ASSUME NEW cfg, NoTypes, Lists, Sequence, Found, NEW u \in Coroutines, NEW place \in {"waiting", "until"}, Notify(cfg)!Wait(u, place)
    PROVE  Sequence' /\ Found'
  <1>1. /\ UNCHANGED <<Notify(cfg)!kernel, results, reader, watch, registered, on>> /\ \A w \in Wds : Seen(w)' = Seen(w)
        /\ \A v \in Coroutines : pc'[v] = pc[v] \/ pc'[v] = place
    BY NoWait
  <1>2. UNCHANGED <<watched, kqueue, events>>
    BY <1>1 DEF Notify!kernel
  <1>3. /\ \A e : (InQueue(e)' <=> InQueue(e)) /\ (InFlight(e)' <=> InFlight(e))
        /\ \A k, e : InResult(k, e)' <=> InResult(k, e)
        /\ \A w : Comes(w)' <=> Comes(w)
        /\ \A w, k : Reaches(w, k)' <=> Reaches(w, k)
    BY <1>1, <1>2 DEF InQueue, InFlight, InResult, Comes, AddComing, Reaches, AddAhead
  <1>4. SeenFirst' /\ Covered' /\ \A e \in Event : InFlight(e)' => e.n <= events'
    BY <1>1, <1>2, <1>3, SameFlight
  <1>5. OneRead'
    <2>1. \A v \in Coroutines : pc'[v] # "gone"
      BY <1>1 DEF Sequence, OneRead
    <2> QED BY <2>1, <1>1 DEF Sequence, OneRead
  <1>6. Numbered'
    BY <1>1, <1>2, <1>3, <1>4 DEF Sequence, Numbered
  <1>7. Reached' /\ Last'
    BY <1>1, <1>2, <1>3 DEF Found, Reached, Last
  <1> QED BY <1>4, <1>5, <1>6, <1>7 DEF Sequence, Found

\* Every step keeps the sequence of the events.
LEMMA SequenceStep ==
    ASSUME NEW cfg, Notify(cfg)!InotifyAssumption, Quiet(cfg), NoTypes, Lists, Sequence, Found, Notify(cfg)!Next PROVE Sequence' /\ Found'
  <1>1. ASSUME Notify(cfg)!Result PROVE Sequence' /\ Found'
    BY <1>1, SequenceAdded, SequenceGot DEF Notify!Result
  <1>2. ASSUME NEW u \in Coroutines, Notify(cfg)!Wait(u, "waiting") \/ Notify(cfg)!Wait(u, "until") PROVE Sequence' /\ Found'
    BY <1>2, SequenceWait
  <1>3. ASSUME NEW u \in Coroutines, NEW w \in Wds, Notify(cfg)!Add(u, w) PROVE Sequence' /\ Found'
    BY <1>3, SequenceAdd
  <1>4. CASE Notify(cfg)!Read
    BY <1>4, SequenceRead
  <1>5. ASSUME NEW w \in Wds, NEW kind \in {"match", "other"}, Notify(cfg)!Happens(w, kind) PROVE Sequence' /\ Found'
    <2>1. /\ w \in watched /\ events' = events + 1 /\ kqueue' = Append(kqueue, [wd |-> w, n |-> events + 1, kind |-> kind])
          /\ watched' = (IF kind = "ignored" THEN watched \ {w} ELSE watched)
          /\ UNCHANGED <<results, reader, watch, registered, pending, pc, on, got>>
      BY <1>5 DEF Notify!Happens
    <2> QED BY <2>1, OneMore
  <1>6. ASSUME NEW u \in Coroutines, Notify(cfg)!RmWatch(u) PROVE Sequence' /\ Found'
    <2>1. /\ on[u] \in watched /\ events' = events + 1 /\ kqueue' = Append(kqueue, [wd |-> on[u], n |-> events + 1, kind |-> "ignored"])
          /\ watched' = watched \ {on[u]}
          /\ UNCHANGED <<results, reader, watch, registered, pending, pc, on, got>>
      BY <1>6 DEF Notify!RmWatch
    <2>2. on[u] # 0 /\ watch[on[u]] # "none"
      BY <2>1 DEF NoTypes, Notify!InotifyAssumption, Found, Reached
    <2> QED BY <2>1, <2>2, OneMore
  <1>7. ~Notify(cfg)!Overflow /\ \A u \in Coroutines : ~Notify(cfg)!Cancel(u)
    BY DEF Quiet, Notify!Overflow, Notify!Cancel
  <1> QED BY <1>1, <1>2, <1>3, <1>4, <1>5, <1>6, <1>7 DEF Notify!Next

\* What the invariant means to the users.
LEMMA SequenceMeans ==
    ASSUME NEW cfg, NoTypes, Sequence, Found PROVE Notify(cfg)!EventsOnceInOrder /\ Notify(cfg)!EventsFindWatch
  <1>1. Notify(cfg)!EventsFindWatch
    BY DEF Found, Reached, Notify!EventsFindWatch
  <1>2. Notify(cfg)!EventsOnceInOrder
    <2> SUFFICES ASSUME NEW w \in Wds
                 PROVE  /\ \A i, j \in 1..Len(Seen(w)) : i < j => Seen(w)[i].n < Seen(w)[j].n
                        /\ \A n \in 1..events :
                             \/ \E i \in 1..Len(Seen(w)) : Seen(w)[i].n = n
                             \/ \E i \in 1..Len(kqueue) : kqueue[i].n = n
                             \/ \E i \in 1..Len(results) : \E j \in 1..Len(results[i].events) : results[i].events[j].n = n
                             \/ \E v \in Wds \ {w} : \E i \in 1..Len(Seen(v)) : Seen(v)[i].n = n
      BY DEF Notify!EventsOnceInOrder, Seen
    <2>1. \A i, j \in 1..Len(Seen(w)) : i < j => Seen(w)[i].n < Seen(w)[j].n
      BY DEF Sequence, SeenFirst, Rising
    <2>2. ASSUME NEW n \in 1..events
          PROVE  \/ \E i \in 1..Len(Seen(w)) : Seen(w)[i].n = n
                 \/ \E i \in 1..Len(kqueue) : kqueue[i].n = n
                 \/ \E i \in 1..Len(results) : \E j \in 1..Len(results[i].events) : results[i].events[j].n = n
                 \/ \E v \in Wds \ {w} : \E i \in 1..Len(Seen(v)) : Seen(v)[i].n = n
      <3>1. CASE IsSeen(n)
        BY <3>1 DEF IsSeen
      <3>2. CASE \E e \in Event : InFlight(e) /\ e.n = n
        BY <3>2 DEF InFlight, InQueue, InResult
      <3> QED BY <3>1, <3>2 DEF Sequence, Covered
    <2> QED BY <2>1, <2>2
  <1> QED BY <1>1, <1>2

-----------------------------------------------------------------------------
(* The suite                                                               *)

\* A step that leaves an epoller alone leaves alone what is known of it.
LEMMA EpStutter ==
    ASSUME NEW cfg, UNCHANGED epolls
    PROVE  /\ EpTypes(cfg) => EpTypes(cfg)'
           /\ Queues(cfg) => Queues(cfg)'
           /\ Numbers(cfg) => Numbers(cfg)'
           /\ ReadyInv(cfg) => ReadyInv(cfg)'
  <1>1. UNCHANGED <<level, rdlist, conn, arrivals, reg, number, pending_remove, waiter, received, callback, mask,
                    total, consumed, queue, waiters, call, answers, done>>
    BY DEF epolls
  <1>2. EpTypes(cfg) => EpTypes(cfg)'
    BY <1>1 DEF EpTypes, Busy, Makes
  <1>3. Queues(cfg) => Queues(cfg)'
    BY <1>1 DEF Queues, Poll!Waiting
  <1>4. Numbers(cfg) => Numbers(cfg)'
    BY <1>1 DEF Numbers
  <1>5. Calm(cfg) => Calm(cfg)'
    BY <1>1 DEF Calm
  <1>6. Counts(cfg) => Counts(cfg)'
    BY <1>1 DEF Counts
  <1>7. Order(cfg) => Order(cfg)'
    BY <1>1 DEF Order, Erred, Takes
  <1>8. Known(cfg) => Known(cfg)'
    BY <1>1 DEF Known, Coming, Believed, HungUp, Taken, Takes, Poll!InRdlist
  <1>9. NotForgotten(cfg) => NotForgotten(cfg)'
    BY <1>1 DEF NotForgotten, Coming, Poll!InRdlist
  <1> QED
    BY <1>2, <1>3, <1>4, <1>5, <1>6, <1>7, <1>8, <1>9 DEF ReadyInv

\* A step that leaves the inotify fd alone leaves alone what is known of it.
LEMMA NoStutter ==
    ASSUME UNCHANGED inotify
    PROVE  /\ NoTypes => NoTypes'
           /\ Lists => Lists'
           /\ Sequence => Sequence'
           /\ Found => Found'
  <1>1. UNCHANGED <<watched, kqueue, events, results, reader, watch, registered, pending, wd_waiters, pc, on, got>>
    BY DEF inotify
  <1>2. NoTypes => NoTypes'
    BY <1>1 DEF NoTypes
  <1>3. Lists => Lists'
    BY <1>1 DEF Lists, Once, Waits, InList
  <1>4. OneRead => OneRead'
    BY <1>1 DEF OneRead
  <1>5. \A e : InFlight(e)' <=> InFlight(e)
    BY <1>1 DEF InFlight, InQueue, InResult
  <1>6. Numbered => Numbered'
    BY <1>1 DEF Numbered, Rising, InFlight, InQueue, InResult
  <1>7. \A w : Seen(w)' = Seen(w)
    BY <1>1 DEF Seen
  <1>8. SeenFirst => SeenFirst'
    BY <1>1, <1>5, <1>7 DEF SeenFirst, Rising
  <1>9. Covered => Covered'
    BY <1>1, <1>5, <1>7 DEF Covered, IsSeen
  <1>10. Reached => Reached'
    BY <1>1 DEF Reached, Comes, AddComing, Reaches, AddAhead, InQueue, InResult
  <1>11. Last => Last'
    BY <1>1, <1>5 DEF Last
  <1> QED
    BY <1>2, <1>3, <1>4, <1>6, <1>8, <1>9, <1>10, <1>11 DEF Sequence, Found

\* What holds of the epoller that runs.
IoInv     == running = "io" => EpTypes(Io) /\ Queues(Io) /\ Numbers(Io) /\ ReadyInv(Io)
DeleteInv == running = "delete" => EpTypes(Delete) /\ Queues(Delete) /\ Numbers(Delete)

\* The connected sockets of the run io are what ReadyInv is about.
LEMMA IoPeaceful == Peaceful(Io)
  BY DEF Peaceful, Io, IoOps

\* IoInv and DeleteInv are inductive.
LEMMA EpollsStep ==
    ASSUME IoInv, DeleteInv, [Next]_vars
    PROVE  IoInv' /\ DeleteInv'
  <1>0. Poll(Io)!EpollerAssumption /\ Poll(Delete)!EpollerAssumption
    BY EventsAssumption
  <1>1. CASE UNCHANGED <<running, epolls>>
    BY <1>1, EpStutter DEF IoInv, DeleteInv
  <1>2. CASE running = "io" /\ Poll(Io)!Next /\ UNCHANGED running
    <2>1. EpTypes(Io) /\ Queues(Io) /\ Numbers(Io) /\ ReadyInv(Io)
      BY <1>2 DEF IoInv
    <2>2. EpTypes(Io)' /\ Queues(Io)'
      BY <1>0, <1>2, <2>1, EpStep
    <2>3. Numbers(Io)'
      BY <1>0, <1>2, <2>1, NumbersStep
    <2>4. ReadyInv(Io)'
      BY <1>0, <1>2, <2>1, <2>2, IoPeaceful, ReadyStep
    <2> QED
      BY <1>2, <2>2, <2>3, <2>4 DEF IoInv, DeleteInv
  <1>3. CASE running = "delete" /\ Poll(Delete)!Next /\ UNCHANGED running
    <2>1. EpTypes(Delete) /\ Queues(Delete) /\ Numbers(Delete)
      BY <1>3 DEF DeleteInv
    <2>2. EpTypes(Delete)' /\ Queues(Delete)'
      BY <1>0, <1>3, <2>1, EpStep
    <2>3. Numbers(Delete)'
      BY <1>0, <1>3, <2>1, NumbersStep
    <2> QED
      BY <1>3, <2>2, <2>3 DEF IoInv, DeleteInv
  <1> QED
    BY <1>1, <1>2, <1>3 DEF Next, vars

\* They hold at first.
LEMMA EpollsInit ==
    ASSUME Init
    PROVE  IoInv /\ DeleteInv
  <1>0. Poll(Io)!EpollerAssumption /\ Poll(Delete)!EpollerAssumption
    BY EventsAssumption
  <1>1. ASSUME running = "io" PROVE EpTypes(Io) /\ Queues(Io) /\ Numbers(Io) /\ ReadyInv(Io)
    <2>1. Poll(Io)!Init
      BY <1>1 DEF Init
    <2>2. EpTypes(Io)
      BY <1>0, <2>1, EpTypesInit
    <2>3. Queues(Io)
      BY <2>1, QueuesInit
    <2>4. Numbers(Io)
      BY <2>1, NumbersInit
    <2>5. ReadyInv(Io)
      BY <2>1, IoPeaceful, ReadyInit
    <2> QED
      BY <2>2, <2>3, <2>4, <2>5
  <1>2. ASSUME running = "delete" PROVE EpTypes(Delete) /\ Queues(Delete) /\ Numbers(Delete)
    <2>1. Poll(Delete)!Init
      BY <1>2 DEF Init
    <2>2. EpTypes(Delete)
      BY <1>0, <2>1, EpTypesInit
    <2>3. Queues(Delete)
      BY <2>1, QueuesInit
    <2>4. Numbers(Delete)
      BY <2>1, NumbersInit
    <2> QED
      BY <2>2, <2>3, <2>4
  <1> QED
    BY <1>1, <1>2 DEF IoInv, DeleteInv

(***************************************************************************)
(* A file that is ready is never taken for one that is not, for any number *)
(* of coroutines that read, write and are cancelled, and whatever arrives: *)
(* who waits for what is ready has an event coming.                        *)
(***************************************************************************)
THEOREM ReadinessKept == Spec => []NoLostReadiness
  <1>1. Init => IoInv /\ DeleteInv
    BY EpollsInit
  <1>2. (IoInv /\ DeleteInv) /\ [Next]_vars => (IoInv /\ DeleteInv)'
    BY EpollsStep
  <1>3. IoInv /\ DeleteInv => NoLostReadiness
    BY EpTypesMean, ReadyMeans DEF IoInv, NoLostReadiness
  <1> QED
    BY <1>1, <1>2, <1>3, PTL DEF Spec

\* What holds of the inotify fd that runs.
WatchInv == running = "watch" => NoTypes /\ Lists /\ Sequence /\ Found
LossyInv == running = "lossy" => NoTypes /\ Lists

\* WatchInv and LossyInv are inductive.
LEMMA WatchesStep ==
    ASSUME WatchInv, LossyInv, [Next]_vars
    PROVE  WatchInv' /\ LossyInv'
  <1>0. /\ Notify(Watch)!InotifyAssumption /\ Notify(Lossy)!InotifyAssumption
        /\ Quiet(Watch)
    BY EventsAssumption DEF Quiet, Watch
  <1>1. CASE UNCHANGED <<running, inotify>>
    BY <1>1, NoStutter DEF WatchInv, LossyInv
  <1>2. CASE running = "watch" /\ Notify(Watch)!Next /\ UNCHANGED running
    <2>1. NoTypes /\ Lists /\ Sequence /\ Found
      BY <1>2 DEF WatchInv
    <2>2. NoTypes' /\ Lists'
      BY <1>0, <1>2, <2>1, NoStep
    <2>3. Sequence' /\ Found'
      BY <1>0, <1>2, <2>1, SequenceStep
    <2> QED
      BY <1>2, <2>2, <2>3 DEF WatchInv, LossyInv
  <1>3. CASE running = "lossy" /\ Notify(Lossy)!Next /\ UNCHANGED running
    <2>1. NoTypes /\ Lists
      BY <1>3 DEF LossyInv
    <2>2. NoTypes' /\ Lists'
      BY <1>0, <1>3, <2>1, NoStep
    <2> QED
      BY <1>3, <2>2 DEF WatchInv, LossyInv
  <1> QED
    BY <1>1, <1>2, <1>3 DEF Next, vars

\* They hold at first.
LEMMA WatchesInit ==
    ASSUME Init
    PROVE  WatchInv /\ LossyInv
  <1>1. Notify(Watch)!Init /\ Notify(Watch)!InotifyAssumption
    BY EventsAssumption DEF Init
  <1>2. NoTypes /\ Lists
    BY <1>1, NoInit
  <1>3. Sequence /\ Found
    BY <1>1, SequenceInit
  <1> QED
    BY <1>2, <1>3 DEF WatchInv, LossyInv

(***************************************************************************)
(* The events of an inotify fd are seen once and in the order they         *)
(* happened, for any number of watches, coroutines and events, and however *)
(* few of them a read has room for.                                        *)
(***************************************************************************)
THEOREM EventsInOrder == Spec => []EventsOnceInOrder
  <1>1. Init => WatchInv /\ LossyInv
    BY WatchesInit
  <1>2. (WatchInv /\ LossyInv) /\ [Next]_vars => (WatchInv /\ LossyInv)'
    BY WatchesStep
  <1>3. WatchInv /\ LossyInv => EventsOnceInOrder
    BY SequenceMeans, ListsMean DEF WatchInv, LossyInv, EventsOnceInOrder
  <1> QED
    BY <1>1, <1>2, <1>3, PTL DEF Spec

(***************************************************************************)
(* Events reach who asked for them, for any number of registrations of one *)
(* fd number and of watches, when fds are closed while events for them are *)
(* on their way, connect fails or epoll_wait does.                         *)
(***************************************************************************)
THEOREM EventsReachTheirCallback == Spec => []EventsFindTheirCallback
  <1>1. Init => IoInv /\ DeleteInv /\ WatchInv /\ LossyInv
    BY EpollsInit, WatchesInit
  <1>2. (IoInv /\ DeleteInv /\ WatchInv /\ LossyInv) /\ [Next]_vars => (IoInv /\ DeleteInv /\ WatchInv /\ LossyInv)'
    BY EpollsStep, WatchesStep
  <1>3. DeleteInv /\ WatchInv => EventsFindTheirCallback
    BY NumbersFind, SequenceMeans DEF DeleteInv, WatchInv, EventsFindTheirCallback
  <1> QED
    BY <1>1, <1>2, <1>3, PTL DEF Spec

(***************************************************************************)
(* The same of any epoller: whatever is registered with it, under whatever *)
(* numbers, and whoever uses it.                                           *)
(***************************************************************************)
THEOREM AnyEpoller ==
    ASSUME NEW CONSTANT cfg, Poll(cfg)!EpollerAssumption
    PROVE  /\ Poll(cfg)!Spec => []Poll(cfg)!EventsFindTheirCallback
           /\ Poll(cfg)!Spec /\ Peaceful(cfg) => []Poll(cfg)!NoLostReadiness
  <1> DEFINE Inv == EpTypes(cfg) /\ Queues(cfg) /\ Numbers(cfg)
  <1>1. Poll(cfg)!Init => Inv
    BY EpTypesInit, QueuesInit, NumbersInit
  <1>2. Inv /\ [Poll(cfg)!Next]_(Poll(cfg)!vars) => Inv'
    <2>1. CASE Poll(cfg)!Next
      BY <2>1, EpStep, NumbersStep
    <2>2. CASE UNCHANGED Poll(cfg)!vars
      <3>1. UNCHANGED epolls
        BY <2>2 DEF epolls, Poll!vars, Poll!kernel, Poll!wait, Poll!epolled
      <3> QED
        BY <3>1, EpStutter
    <2> QED
      BY <2>1, <2>2
  <1>3. Inv => Poll(cfg)!EventsFindTheirCallback
    BY NumbersFind
  <1>4. Peaceful(cfg) /\ Poll(cfg)!Init => ReadyInv(cfg)
    BY ReadyInit
  <1>5. Peaceful(cfg) /\ Inv /\ Inv' /\ ReadyInv(cfg) /\ [Poll(cfg)!Next]_(Poll(cfg)!vars) => ReadyInv(cfg)'
    <2>1. CASE Poll(cfg)!Next
      BY <2>1, ReadyStep
    <2>2. CASE UNCHANGED Poll(cfg)!vars
      <3>1. UNCHANGED epolls
        BY <2>2 DEF epolls, Poll!vars, Poll!kernel, Poll!wait, Poll!epolled
      <3> QED
        BY <3>1, EpStutter
    <2> QED
      BY <2>1, <2>2
  <1>6. Inv /\ ReadyInv(cfg) => Poll(cfg)!NoLostReadiness
    BY ReadyMeans
  <1>7. Peaceful(cfg) <=> Peaceful(cfg)'
    BY DEF Peaceful
  <1> HIDE DEF Inv
  <1> QED
    BY <1>1, <1>2, <1>3, <1>4, <1>5, <1>6, <1>7, PTL DEF Poll!Spec
=============================================================================
