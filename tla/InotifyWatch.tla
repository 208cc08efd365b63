----------------------------- MODULE InotifyWatch -----------------------------
(***************************************************************************)
(* inotify_watch.py: one Inotify, whose coroutine reads the events of all  *)
(* watches from the kernel and hands them to the Watch objects; each Watch *)
(* gives them to the first coroutine that waits, or keeps them.            *)
(*                                                                         *)
(* The inotify fd is used through one task, so the results of its system   *)
(* calls come back in the order the calls were performed in.  Resuming is  *)
(* synchronous: what a result sets off happens in one step.                *)
(***************************************************************************)
EXTENDS Naturals, Sequences, Functions, Subsequences

CONSTANTS
    Users,            \* coroutines
    Wds,              \* watch descriptors: 1..n, one per inode and adding of it
    MaxEvents,        \* bound: how many events happen
    BufEvents,        \* how many events a read returns at most
    Faults            \* what may go wrong or be tried

InotifyAssumption ==
    /\ Wds \subseteq Nat \ {0} /\ MaxEvents \in Nat /\ BufEvents \in Nat \ {0}
    /\ Faults \subseteq {"overflow", "cancel", "until"}

VARIABLES
    watched,          \* kernel: wds that are watched
    kqueue,           \* kernel: events not read yet
    events,           \* how many events happened
    results,          \* results of add and read on their way, in order
    reader,           \* Inotify._run: "reading", "asked" or "dead"
    watch,            \* each Watch: "none", "running" or "removed"
    registered,       \* the Watch has asked Inotify for events
    pending,          \* Watch.pending_events
    waiters,          \* the coroutines that wait on each Watch
    pc,               \* what each coroutine does
    on,               \* the wd of its Watch; 0: none
    got,              \* the events of each wd that were given to some coroutine
    skipped           \* matching events that wait_until_event threw away

kernel == <<watched, kqueue, events>>
vars == <<kernel, results, reader, watch, registered, pending, waiters, pc, on, got, skipped>>

Init ==
    /\ watched = {} /\ kqueue = << >> /\ events = 0 /\ results = << >>
    /\ reader = "reading"
    /\ watch = [w \in Wds |-> "none"] /\ registered = {}
    /\ pending = [w \in Wds |-> << >>] /\ waiters = [w \in Wds |-> << >>]
    /\ pc = [u \in Users |-> "idle"] /\ on = [u \in Users |-> 0]
    /\ got = [w \in Wds |-> << >>] /\ skipped = {}

-----------------------------------------------------------------------------
(* The kernel *)

\* An event at a watched inode, of the kind that is waited for or another.
Happens(w, kind) ==
    /\ w \in watched /\ events < MaxEvents
    /\ events' = events + 1
    /\ kqueue' = Append(kqueue, [wd |-> w, n |-> events + 1, kind |-> kind])
    /\ UNCHANGED <<watched, results, reader, watch, registered, pending, waiters, pc, on, got, skipped>>

\* The kernel's queue is full: IN_Q_OVERFLOW, which has no wd.
Overflow ==
    /\ "overflow" \in Faults /\ events < MaxEvents /\ kqueue # << >>
    /\ events' = events + 1
    /\ kqueue' = Append(kqueue, [wd |-> 0, n |-> events + 1, kind |-> "overflow"])
    /\ UNCHANGED <<watched, results, reader, watch, registered, pending, waiters, pc, on, got, skipped>>

\* inotify_add_watch, performed: a new wd, or the one the inode has already.
Add(u, w) ==
    /\ pc[u] = "idle" /\ on[u] = 0
    /\ w \in watched \/ (\A v \in Wds : v < w => watch[v] # "none" \/ v \in watched)
    /\ watch[w] # "removed"
    /\ w \in watched \/ watch[w] = "none"
    /\ watched' = watched \cup {w}
    /\ pc' = [pc EXCEPT ![u] = "adding"]
    /\ results' = Append(results, [call |-> "add", user |-> u, wd |-> w, events |-> << >>])
    /\ UNCHANGED <<kqueue, events, reader, watch, registered, pending, waiters, on, got, skipped>>

\* remove: inotify_rm_watch ends with IN_IGNORED.
RmWatch(u) ==
    /\ pc[u] = "idle" /\ on[u] \in watched
    /\ watched' = watched \ {on[u]}
    /\ events' = events + 1
    /\ kqueue' = Append(kqueue, [wd |-> on[u], n |-> events + 1, kind |-> "ignored"])
    /\ UNCHANGED <<results, reader, watch, registered, pending, waiters, pc, on, got, skipped>>

\* Inotify._run's read is performed: as many whole events as there is room for.
Read ==
    /\ reader = "reading" /\ kqueue # << >>
    /\ LET n == IF Len(kqueue) < BufEvents THEN Len(kqueue) ELSE BufEvents IN
       /\ results' = Append(results, [call |-> "read", user |-> 0, wd |-> 0,
                                      events |-> SubSeq(kqueue, 1, n)])
       /\ kqueue' = SubSeq(kqueue, n + 1, Len(kqueue))
    /\ reader' = "asked"
    /\ UNCHANGED <<watched, events, watch, registered, pending, waiters, pc, on, got, skipped>>

-----------------------------------------------------------------------------
(* Inotify and Watch *)

\* add goes on: the Watch of that wd is made, and its _run asks for events.
Added(r) ==
    /\ r.call = "add"
    /\ watch' = [watch EXCEPT ![r.wd] = IF @ = "none" THEN "running" ELSE @]
    /\ registered' = IF watch[r.wd] = "none" THEN registered \cup {r.wd} ELSE registered
    /\ pc' = [pc EXCEPT ![r.user] = "idle"] /\ on' = [on EXCEPT ![r.user] = r.wd]
    /\ UNCHANGED <<reader, pending, waiters, got, skipped>>

\* Mutant of Deliver: the events of earlier reads are left behind.
DeliverFresh(w, evs) == evs

\* What the first waiter gets: the events kept so far, and the new ones.
Deliver(w, evs) == pending[w] \o evs

\* The waiters after the first was resumed.
PopFirst(list) == Tail(list)

\* Mutant of ToldRemoved: only the first is told.
ToldRemovedFirst(w) == {waiters[w][i] : i \in {1} \cap DOMAIN waiters[w]}

\* The coroutines that get an exception when the watch is removed: all that wait.
ToldRemoved(w) == Range(waiters[w])

OfKind(evs, kind) == Only(evs, {e \in Range(evs) : e.kind = kind})

\* Whether a coroutine that is given these events goes on: wait does, and
\* wait_until_event when one matches.
Satisfied(u, evs) == pc[u] # "until" \/ OfKind(evs, "match") # << >>

\* Matching events that wait_until_event does not return.
Dropped(u, evs) ==
    LET m == OfKind(evs, "match") IN
    IF pc[u] = "until" /\ m # << >> THEN {e.n : e \in Range(Tail(m))} ELSE {}

(***************************************************************************)
(* Inotify._run goes on: the events of a read are sorted by wd and sent to *)
(* the Watches, each of which resumes its first waiter.  An event whose wd *)
(* nobody asked for is a KeyError, which ends the coroutine.               *)
(***************************************************************************)
GotEvents(r) ==
    LET evs(w)  == Only(r.events, {e \in Range(r.events) : e.wd = w})
        bad     == {i \in 1..Len(r.events) : r.events[i].wd \notin registered}
        sent    == {w \in Wds : evs(w) # << >> /\ \A i \in bad : \E j \in 1..(i - 1) : r.events[j].wd = w}
        ended(w) == OfKind(evs(w), "ignored") # << >>
        woken   == {w \in sent : waiters[w] # << >>}
        first(w) == waiters[w][1]
        again(w) == w \in woken /\ ~Satisfied(first(w), Deliver(w, evs(w))) /\ pc[first(w)] # "gone"
    IN
    /\ r.call = "read"
    /\ reader' = IF bad = {} THEN "reading" ELSE "dead"
    /\ pending' = [w \in Wds |-> IF w \in woken THEN << >>
                                 ELSE IF w \in sent THEN Deliver(w, evs(w)) ELSE pending[w]]
    /\ got' = [w \in Wds |-> IF w \in woken /\ pc[first(w)] # "gone"
                             THEN got[w] \o Deliver(w, evs(w)) ELSE got[w]]
    /\ watch' = [w \in Wds |-> IF w \in sent /\ ended(w) THEN "removed" ELSE watch[w]]
    /\ registered' = registered \ {w \in sent : ended(w)}
    /\ waiters' = [w \in Wds |-> IF w \in sent /\ ended(w) THEN << >>
                                 ELSE IF again(w) THEN Append(PopFirst(waiters[w]), first(w))
                                 ELSE IF w \in woken THEN PopFirst(waiters[w]) ELSE waiters[w]]
    /\ pc' = [u \in Users |->
                IF \E w \in sent : \/ w \in woken /\ first(w) = u /\ ~again(w)
                                   \/ ended(w) /\ u \in ToldRemoved(w)
                THEN IF pc[u] = "gone" THEN "gone" ELSE "idle" ELSE pc[u]]
    /\ skipped' = skipped \cup UNION {Dropped(first(w), Deliver(w, evs(w))) : w \in woken}
    /\ UNCHANGED on

\* The next result is handled.
Result ==
    /\ results # << >> /\ results' = Tail(results)
    /\ Added(Head(results)) \/ GotEvents(Head(results))
    /\ UNCHANGED kernel

\* wait, or the loop of wait_until_event; of a removed Watch it raises.
Wait(u, place) ==
    LET w == on[u] IN
    /\ pc[u] = "idle" /\ w # 0
    /\ place = "until" => "until" \in Faults
    /\ \/ /\ pending[w] # << >>
          /\ pending' = [pending EXCEPT ![w] = << >>] /\ got' = [got EXCEPT ![w] = @ \o pending[w]]
          /\ skipped' = IF place = "until" /\ OfKind(pending[w], "match") # << >>
                        THEN skipped \cup {e.n : e \in Range(Tail(OfKind(pending[w], "match")))} ELSE skipped
          /\ UNCHANGED <<waiters, pc>>
       \/ /\ pending[w] = << >> /\ watch[w] = "running"
          /\ waiters' = [waiters EXCEPT ![w] = Append(@, u)] /\ pc' = [pc EXCEPT ![u] = place]
          /\ UNCHANGED <<pending, got, skipped>>
    /\ UNCHANGED <<kernel, results, reader, watch, registered, on>>

\* trio cancels a coroutine that waits; its continuation stays in the list, and
\* is given events like the others.
Cancel(u) ==
    /\ "cancel" \in Faults /\ pc[u] = "waiting"
    /\ pc' = [pc EXCEPT ![u] = "gone"]
    /\ UNCHANGED <<kernel, results, reader, watch, registered, pending, waiters, on, got, skipped>>

-----------------------------------------------------------------------------
Next ==
    \/ Read \/ Result \/ Overflow
    \/ \E w \in Wds : Happens(w, "match") \/ Happens(w, "other")
    \/ \E u \in Users : \/ RmWatch(u) \/ Wait(u, "waiting") \/ Wait(u, "until") \/ Cancel(u)
                        \/ \E w \in Wds : Add(u, w)

\* The kernel answers reads, and the event loop handles results.
Fairness == WF_vars(Read) /\ WF_vars(Result)

Spec == Init /\ [][Next]_vars /\ Fairness

-----------------------------------------------------------------------------
(* Properties *)

\* Every variable has a value the code can give it; a coroutine waits on its
\* own Watch, once.
TypeOK ==
    /\ reader \in {"reading", "asked", "dead"}
    /\ \A w \in Wds : watch[w] \in {"none", "running", "removed"} /\ IsInjective(waiters[w])
    /\ \A u \in Users : pc[u] \in {"waiting", "until"} => u \in Range(waiters[on[u]])
    /\ \A w \in Wds, u \in Users :
         u \in Range(waiters[w]) => on[u] = w /\ pc[u] \in {"waiting", "until", "gone"}

(***************************************************************************)
(* Events never arrive for a wd whose Watch does not exist yet, or exists  *)
(* no more, although they may happen as soon as the kernel adds the wd:    *)
(* the coroutine that reads goes on ("Wait for some events to happen").    *)
(***************************************************************************)
EventsFindWatch == reader # "dead"

(***************************************************************************)
(* The events of a watch reach its users once, in the order in which they  *)
(* happened, however reads cut them and waiters come and go.               *)
(***************************************************************************)
EventsOnceInOrder ==
    \A w \in Wds :
        LET seen == got[w] \o pending[w] IN
        /\ \A i, j \in 1..Len(seen) : i < j => seen[i].n < seen[j].n
        /\ \A n \in 1..events :
             \/ \E i \in 1..Len(seen) : seen[i].n = n
             \/ \E i \in 1..Len(kqueue) : kqueue[i].n = n
             \/ \E i \in 1..Len(results) : \E j \in 1..Len(results[i].events) : results[i].events[j].n = n
             \/ \E v \in Wds \ {w} : \E i \in 1..Len(got[v] \o pending[v]) : (got[v] \o pending[v])[i].n = n

\* wait_until_event "Discards non-matching events": a matching one that
\* happened is returned by some call.
MatchKept == skipped = {}

(***************************************************************************)
(* No lost wakeup: a coroutine that waits on a watch goes on when an event *)
(* happened there, or the watch is removed.                                *)
(***************************************************************************)
WaiterLearns ==
    \A u \in Users : (pc[u] = "waiting" /\ on[u] \notin watched) ~> pc[u] = "idle"
=============================================================================
