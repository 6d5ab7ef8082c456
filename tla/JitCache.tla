------------------------------ MODULE JitCache ------------------------------
(***************************************************************************)
(* The single-flight kernel cache of crates/fre-jit-cache (src/cache.rs):  *)
(* one Mutex around State, one Condvar, and reference-counted executable   *)
(* mappings whose destructor runs outside the lock.                        *)
(*                                                                         *)
(* One action is one critical section, or one effect a thread performs     *)
(* between two critical sections: unmapping a kernel, waking the waiters,  *)
(* dropping a reference.  Counters are u64/u128 in the code and cannot     *)
(* overflow in any reachable state, so the AccountingOverflow exits are    *)
(* left out; a decrement below zero is kept, because checked_sub_usage     *)
(* saturates and clears accounting_consistent.                             *)
(***************************************************************************)
EXTENDS Integers, FiniteSetsExt

CONSTANTS
    Threads,      \* callers of the cache
    Identities,   \* kernel identities (digests)
    Handles,      \* places where a matcher keeps a cloned lease
    None,         \* "no identity requested"
    MaxEntries,   \* CacheLimits::max_entries
    MaxInFlight,  \* CacheLimits::max_in_flight_builds
    Limit,        \* the four aggregate limits of CacheLimits
    Cost,         \* PublicationAccounting of the kernel of an identity
    MaxRequests,  \* bound: requests made in a behaviour
    MaxWaits      \* bound: spurious wake-ups happen below this wait_events

\* What one admitted mapping is charged for (aggregate_failure, add_live).
Resources == {"live_mappings", "mapped_bytes", "code_bytes", "data_bytes"}

\* The fields of CacheUsage that change.
Usage == Resources \cup
             {"entries", "reserved_entries", "in_flight_builds", "waiters"}

\* The fields of CacheTotals.
Events == {"hits", "misses", "wait_events", "builds_started",
           "builds_succeeded", "build_failures", "build_panics",
           "evictions", "refusals"}

ASSUME NoneAssumption == None \notin Identities
ASSUME LimitsAssumption ==
    /\ MaxEntries \in Nat
    /\ MaxInFlight \in Nat
    /\ Limit \in [Resources -> Nat]
    /\ Cost \in [Identities -> [Resources -> Nat]]
    /\ \A i \in Identities : Cost[i]["live_mappings"] = 1
ASSUME BoundsAssumption == MaxRequests \in Nat /\ MaxWaits \in Nat

VARIABLES
    entries,      \* resident entries: records [kernel, last_used]
    flights,      \* builds in flight: records [identity, generation, owner]
    live,         \* kernels that have a LiveRecord
    current, peak, totals, clock, generation,
    consistent,   \* State::accounting_consistent
    open,         \* some cache handle still exists
    mapped,       \* kernels whose executable pages are mapped
    lease,        \* lease[h]: {} or the kernel a matcher keeps alive
    requests,     \* requests made so far (for MaxRequests)
    pc, req, classified, gen,   \* a thread inside get_or_build
    held,         \* {} or the kernel the thread holds a strong reference to
    retired,      \* {} or the kernel whose reference the thread is dropping
    cont          \* where the thread goes after it has dropped or notified

tables   == <<entries, flights, live>>
counters == <<current, peak, totals, consistent>>
clocks   == <<clock, generation>>
locals   == <<req, classified, gen, held, retired, cont>>
vars     == <<tables, counters, clocks, open, mapped, lease, requests,
              pc, locals>>

\* A tracked kernel is named by its identity and its unique token: the
\* generation of the flight that built it.
Kernels == [identity : Identities, token : Nat]

PCs == {"idle", "lookup", "nested", "waiting", "woken", "building", "rejected",
        "finish_error", "finish_panic", "admit", "refused", "unflight",
        "drop", "unmap", "release", "notify", "holding", "failed"}

\* The thread is at the head of get_or_build's loop: for a request of its
\* own, or for one that the builder it runs has made.
Looks(t) == pc[t] \in {"lookup", "nested"}

-----------------------------------------------------------------------------
(* Strong references (Arc<TrackedKernel>).                                 *)

\* Some lease, or some thread, references k: strong_count minus the entry.
Referenced(k) ==
    \/ \E t \in Threads : \/ k \in held[t]
                          \/ pc[t] = "drop" /\ k \in retired[t]
    \/ \E h \in Handles : k \in lease[h]

Resident(k) == \E e \in entries : e.kernel = k

\* Weak::upgrade succeeds.
Strong(k) == Resident(k) \/ Referenced(k)

\* Inner is kept alive by the cache handles and by destructors that have
\* upgraded their weak owner pointer.
InnerAlive == open \/ \E t \in Threads : pc[t] \in {"release", "notify"}

\* The thread runs get_or_build and so borrows a cache handle.
Borrows(t) == /\ pc[t] \notin {"idle", "holding"}
              /\ pc[t] \in {"drop", "unmap", "release", "notify"}
                    => cont[t] # "idle"

-----------------------------------------------------------------------------
(* Helpers of State.                                                       *)

EntriesOf(i) == {e \in entries : e.kernel.identity = i}
LiveOf(i)    == {k \in live : k.identity = i}
FlightsOf(i) == {f \in flights : f.identity = i}

\* Bug: a live record whose kernel is dead counts as a miss.
AbsentOnceDead(i) == EntriesOf(i) = {} /\ \A k \in LiveOf(i) : ~Strong(k)

\* Lookup::Miss.
Absent(i) == EntriesOf(i) = {} /\ LiveOf(i) = {}

\* The thread's own flight is still registered (require_flight).
OwnFlights(t) == {f \in FlightsOf(req[t]) : f.generation = gen[t]}

Occupied == current["entries"] + current["reserved_entries"]

\* next_clock: the use sequence given to an entry.
NextClock == clock + 1

\* The candidates of eviction_index that were used least recently.
LeastRecent(S) == {e \in S : \A d \in S : e.last_used <= d.last_used}

\* Bug: the entry's own reference is taken for a lease.
CacheOnlyMiscounted == {e \in entries : ~Strong(e.kernel)}

\* eviction_index(true): nobody but the cache references the kernel.
CacheOnly == {e \in entries : ~Referenced(e.kernel)}

\* Bug: the limit is compared before the candidate is added.
FitsBefore(i) == \A r \in Resources : current[r] < Limit[r]

\* aggregate_failure finds no exceeded limit.
Fits(i) == \A r \in Resources : current[r] + Cost[i][r] <= Limit[r]

Bump(S) == totals' = [e \in Events |-> totals[e] + IF e \in S THEN 1 ELSE 0]

\* hits and misses count a request once, whatever the number of its rounds.
Once(t, e) == IF classified[t] THEN {} ELSE {e}

\* current after adding `more`, and after checked_sub_usage of `less`.
Plus(more) == [u \in Usage |-> current[u] + more[u]]

Minus(less) == [u \in Usage |-> IF current[u] >= less[u]
                                THEN current[u] - less[u] ELSE 0]
Charge(S) == [u \in Usage |-> IF u \in S THEN 1 ELSE 0]
\* Bug: the entry takes over the flight's reservation without being counted.
AdmissionWithoutEntry(i) ==
    [u \in Usage |-> IF u \in Resources THEN Cost[i][u] ELSE 0]

\* An admitted kernel is charged its resources and its entry.
AdmissionOf(i) == [u \in Usage |-> IF u \in Resources THEN Cost[i][u]
                                   ELSE IF u = "entries" THEN 1 ELSE 0]
ChargeOf(i) == [u \in Usage |-> IF u \in Resources THEN Cost[i][u] ELSE 0]

\* Both in one critical section.
Exchange(less, more) ==
    /\ current' = [u \in Usage |-> Minus(less)[u] + more[u]]
    /\ consistent' = (consistent /\ \A u \in Usage : current[u] >= less[u])

Subtract(less) ==
    /\ current' = Minus(less)
    /\ consistent' = (consistent /\ \A u \in Usage : current[u] >= less[u])

UpdatePeak == peak' = [u \in Usage |-> IF current'[u] > peak[u]
                                       THEN current'[u] ELSE peak[u]]

Go(t, label) == pc' = [pc EXCEPT ![t] = label]

\* A thread's locals when get_or_build returns.
ClearCall(t) == /\ req' = [req EXCEPT ![t] = None]
                /\ classified' = [classified EXCEPT ![t] = FALSE]
                /\ gen' = [gen EXCEPT ![t] = 0]

\* Let go of the reference to k, then continue at `label`.
DropThen(t, k, label) == /\ retired' = [retired EXCEPT ![t] = {k}]
                         /\ cont' = [cont EXCEPT ![t] = label]
                         /\ Go(t, "drop")

\* Bug: the tables change and nobody calls notify_all.
NoNotifyThen(t, label) == /\ cont' = [cont EXCEPT ![t] = "idle"]
                          /\ Go(t, label)

NotifyThen(t, label) == /\ cont' = [cont EXCEPT ![t] = label]
                        /\ Go(t, "notify")

-----------------------------------------------------------------------------
Init ==
    /\ entries = {} /\ flights = {} /\ live = {}
    /\ current = [u \in Usage |-> 0]
    /\ peak = [u \in Usage |-> 0]
    /\ totals = [e \in Events |-> 0]
    /\ clock = 0 /\ generation = 0
    /\ consistent = TRUE
    /\ open = TRUE
    /\ mapped = {}
    /\ lease = [h \in Handles |-> {}]
    /\ requests = 0
    /\ pc = [t \in Threads |-> "idle"]
    /\ req = [t \in Threads |-> None]
    /\ classified = [t \in Threads |-> FALSE]
    /\ gen = [t \in Threads |-> 0]
    /\ held = [t \in Threads |-> {}]
    /\ retired = [t \in Threads |-> {}]
    /\ cont = [t \in Threads |-> "idle"]

\* A caller enters get_or_build.
Request(t, i) ==
    /\ pc[t] = "idle" /\ open /\ requests < MaxRequests
    /\ requests' = requests + 1
    /\ req' = [req EXCEPT ![t] = i]
    /\ Go(t, "lookup")
    /\ UNCHANGED <<tables, counters, clocks, open, mapped, lease,
                   classified, gen, held, retired, cont>>

\* Lookup::Hit on a resident entry, whose recency it refreshes.
HitEntry(t) ==
    /\ Looks(t)
    /\ \E e \in EntriesOf(req[t]) :
          /\ entries' = (entries \ {e}) \cup
                            {[kernel |-> e.kernel, last_used |-> NextClock]}
          /\ held' = [held EXCEPT ![t] = {e.kernel}]
    /\ clock' = NextClock
    /\ Bump(Once(t, "hits"))
    /\ ClearCall(t)
    /\ Go(t, "holding")
    /\ UNCHANGED <<flights, live, current, peak, consistent, generation,
                   open, mapped, lease, requests, retired, cont>>

\* Lookup::Hit on an evicted kernel that a lease keeps alive.
HitLive(t) ==
    /\ Looks(t)
    /\ EntriesOf(req[t]) = {}
    /\ \E k \in LiveOf(req[t]) : Strong(k) /\ held' = [held EXCEPT ![t] = {k}]
    /\ Bump(Once(t, "hits"))
    /\ ClearCall(t)
    /\ Go(t, "holding")
    /\ UNCHANGED <<tables, current, peak, consistent, clocks, open, mapped,
                   lease, requests, retired, cont>>

\* Record the wait and release the lock on the condition variable.
Wait(t) ==
    /\ Bump(Once(t, "misses") \cup {"wait_events"})
    /\ classified' = [classified EXCEPT ![t] = TRUE]
    /\ current' = Plus(Charge({"waiters"}))
    /\ UpdatePeak
    /\ Go(t, "waiting")
    /\ UNCHANGED <<tables, consistent, clocks, open, mapped, lease, requests,
                   req, gen, held, retired, cont>>

\* Lookup::Retiring: the last reference is gone, the destructor still runs.
WaitRetiring(t) ==
    /\ Looks(t)
    /\ EntriesOf(req[t]) = {}
    /\ \E k \in LiveOf(req[t]) : ~Strong(k)
    /\ Wait(t)

\* Bug: whoever builds it, a flight is waited for.
WaitAnyFlight(t) ==
    /\ Looks(t)
    /\ Absent(req[t])
    /\ FlightsOf(req[t]) # {}
    /\ Wait(t)

\* Another thread builds this identity.
WaitFlight(t) ==
    /\ Looks(t)
    /\ Absent(req[t])
    /\ \E f \in FlightsOf(req[t]) : f.owner # t
    /\ Wait(t)

\* The condition variable may wake a waiter that nobody notified.
SpuriousWake(t) ==
    /\ pc[t] = "waiting" /\ totals["wait_events"] < MaxWaits
    /\ Go(t, "woken")
    /\ UNCHANGED <<tables, counters, clocks, open, mapped, lease, requests,
                   locals>>

\* The waiter has the lock again; it unlocks and looks up from the start.
Rewake(t) ==
    /\ pc[t] = "woken"
    /\ Subtract(Charge({"waiters"}))
    /\ Go(t, "lookup")
    /\ UNCHANGED <<tables, peak, totals, clocks, open, mapped, lease,
                   requests, locals>>

\* No entry, no record, no flight, but no room for a flight either.  With
\* max_entries = 0 there is never an entry to evict.
RefuseFlight(t) ==
    /\ Looks(t)
    /\ Absent(req[t]) /\ FlightsOf(req[t]) = {}
    /\ \/ current["in_flight_builds"] >= MaxInFlight
       \/ Occupied >= MaxEntries /\ entries = {}
    /\ Bump(Once(t, "misses") \cup {"refusals"})
    /\ Go(t, "failed")
    /\ UNCHANGED <<tables, current, peak, consistent, clocks, open, mapped,
                   lease, requests, locals>>

\* Register the flight and reserve its entry, in the tables left by the
\* eviction of `out`.
Launch(t, out) ==
    /\ entries' = entries \ out
    /\ flights' = flights \cup {[identity |-> req[t],
                                 generation |-> generation + 1, owner |-> t]}
    /\ generation' = generation + 1
    /\ gen' = [gen EXCEPT ![t] = generation + 1]
    /\ classified' = [classified EXCEPT ![t] = TRUE]
    /\ UpdatePeak
    /\ UNCHANGED <<live, clock, open, mapped, lease, requests, req, held>>

MayLaunch(t) ==
    /\ Looks(t)
    /\ Absent(req[t]) /\ FlightsOf(req[t]) = {}
    /\ current["in_flight_builds"] < MaxInFlight

StartFlight(t) ==
    /\ MayLaunch(t)
    /\ Occupied < MaxEntries
    /\ current' = Plus(Charge({"in_flight_builds", "reserved_entries"}))
    /\ Launch(t, {})
    /\ Bump(Once(t, "misses") \cup {"builds_started"})
    /\ Go(t, "building")
    /\ UNCHANGED <<consistent, retired, cont>>

\* The cache is full: the least recently used entry makes room, leased or
\* not, and its reference is dropped after the lock.
EvictAndStartFlight(t) ==
    /\ MayLaunch(t)
    /\ Occupied >= MaxEntries
    /\ Exchange(Charge({"entries"}),
                Charge({"in_flight_builds", "reserved_entries"}))
    /\ \E e \in LeastRecent(entries) :
          Launch(t, {e}) /\ DropThen(t, e.kernel, "building")
    /\ Bump(Once(t, "misses") \cup {"builds_started", "evictions"})

-----------------------------------------------------------------------------
(* The builder, outside the lock.                                          *)

\* The builder asks the cache for the identity it is building: get_or_build
\* is entered again, on the stack of the call that registered the flight.
Reenter(t) ==
    /\ pc[t] = "building" /\ requests < MaxRequests
    /\ requests' = requests + 1
    /\ classified' = [classified EXCEPT ![t] = FALSE]
    /\ Go(t, "nested")
    /\ UNCHANGED <<tables, counters, clocks, open, mapped, lease, req, gen,
                   held, retired, cont>>

\* CacheError::ReentrantBuild: the flight that was found is the thread's own.
\* The builder goes on with the error.
RefuseReentrant(t) ==
    /\ Looks(t)
    /\ Absent(req[t])
    /\ \E f \in FlightsOf(req[t]) : f.owner = t
    /\ Bump(Once(t, "misses") \cup {"refusals"})
    /\ classified' = [classified EXCEPT ![t] = TRUE]
    /\ Go(t, "building")
    /\ UNCHANGED <<tables, current, peak, consistent, clocks, open, mapped,
                   lease, requests, req, gen, held, retired, cont>>

Candidate(t) == [identity |-> req[t], token |-> gen[t]]

\* The builder publishes an executable mapping.  It goes to admission, or is
\* rejected by the checks on identity, ownership and publication limits.
BuildPublished(t) ==
    /\ pc[t] = "building"
    /\ mapped' = mapped \cup {Candidate(t)}
    /\ \E label \in {"admit", "rejected"} : Go(t, label)
    /\ held' = [held EXCEPT ![t] = {Candidate(t)}]
    /\ UNCHANGED <<tables, counters, clocks, open, lease, requests, req,
                   classified, gen, retired, cont>>

\* The builder returns an error or unwinds.
BuildFailed(t) ==
    /\ pc[t] = "building"
    /\ \E label \in {"finish_error", "finish_panic"} : Go(t, label)
    /\ UNCHANGED <<tables, counters, clocks, open, mapped, lease, requests,
                   locals>>

\* A candidate that was never accounted is dropped: its destructor only
\* unmaps.  A rejected one then counts as a failure, a refused one does not.
DropCandidate(t) ==
    /\ \/ pc[t] = "rejected" /\ Go(t, "finish_error")
       \/ pc[t] = "refused" /\ Go(t, "unflight")
    /\ mapped' = mapped \ held[t]
    /\ held' = [held EXCEPT ![t] = {}]
    /\ UNCHANGED <<tables, counters, clocks, open, lease, requests, req,
                   classified, gen, retired, cont>>

\* remove_flight.
RemoveFlight(t) ==
    /\ OwnFlights(t) # {}
    /\ flights' = flights \ OwnFlights(t)

\* finish_failed, and the second critical section of a refused admission.
FinishFailed(t) ==
    /\ \/ pc[t] = "finish_error" /\ Bump({"build_failures"})
       \/ pc[t] = "finish_panic" /\ Bump({"build_panics"})
       \/ pc[t] = "unflight" /\ Bump({})
    /\ RemoveFlight(t)
    /\ Subtract(Charge({"in_flight_builds", "reserved_entries"}))
    /\ NotifyThen(t, "failed")
    /\ UNCHANGED <<entries, live, peak, clocks, open, mapped, lease,
                   requests, req, classified, gen, held, retired>>

-----------------------------------------------------------------------------
(* Admission of a published candidate.                                     *)

Admit(t) ==
    /\ pc[t] = "admit"
    /\ Fits(req[t])
    /\ live' = live \cup {Candidate(t)}
    /\ entries' = entries \cup {[kernel |-> Candidate(t),
                                 last_used |-> NextClock]}
    /\ clock' = NextClock
    /\ RemoveFlight(t)
    /\ Exchange(Charge({"in_flight_builds", "reserved_entries"}),
                AdmissionOf(req[t]))
    /\ UpdatePeak
    /\ Bump({"builds_succeeded"})
    /\ ClearCall(t)
    /\ NotifyThen(t, "holding")
    /\ UNCHANGED <<generation, open, mapped, lease, requests, held, retired>>

\* Over a limit: give up the least recently used mapping that nobody leases
\* and try again once it has been unmapped.
AdmitEvict(t) ==
    /\ pc[t] = "admit" /\ OwnFlights(t) # {}
    /\ ~Fits(req[t])
    /\ \E e \in LeastRecent(CacheOnly) :
          entries' = entries \ {e} /\ DropThen(t, e.kernel, "admit")
    /\ Subtract(Charge({"entries"}))
    /\ Bump({"evictions"})
    /\ UNCHANGED <<flights, live, peak, clocks, open, mapped, lease,
                   requests, req, classified, gen, held>>

\* Bug: the flight of a refused candidate goes before its mapping.
AdmitRefuseUnflight(t) ==
    /\ pc[t] = "admit" /\ ~Fits(req[t]) /\ CacheOnly = {}
    /\ Bump({"refusals"})
    /\ Go(t, "unflight")
    /\ UNCHANGED <<tables, current, peak, consistent, clocks, open, mapped,
                   lease, requests, locals>>

AdmitRefuse(t) ==
    /\ pc[t] = "admit" /\ OwnFlights(t) # {}
    /\ ~Fits(req[t])
    /\ CacheOnly = {}
    /\ Bump({"refusals"})
    /\ Go(t, "refused")
    /\ UNCHANGED <<tables, current, peak, consistent, clocks, open, mapped,
                   lease, requests, locals>>

-----------------------------------------------------------------------------
(* Dropping references and retiring kernels.                               *)

\* Inner is freed: its tables go, and with them every mapping that only an
\* entry kept alive.  Those destructors find no owner to release.
FreeInner ==
    /\ entries' = {} /\ flights' = {} /\ live' = {}
    /\ mapped' = mapped \ {e.kernel : e \in CacheOnly}

\* Bug: what admission counted as cache-only under the lock is destroyed
\* after it.
IsLastWhenCounted(t, k) ==
    /\ ~Resident(k)
    /\ \/ cont[t] = "admit"
       \/ /\ \A h \in Handles : k \notin lease[h]
          /\ \A u \in Threads : k \notin held[u]
          /\ \A u \in Threads \ {t} : ~(pc[u] = "drop" /\ k \in retired[u])

\* t drops the only remaining Arc<TrackedKernel> of k.
IsLast(t, k) ==
    /\ ~Resident(k)
    /\ \A h \in Handles : k \notin lease[h]
    /\ \A u \in Threads : k \notin held[u]
    /\ \A u \in Threads \ {t} : ~(pc[u] = "drop" /\ k \in retired[u])

DropShared(t) ==
    /\ pc[t] = "drop"
    /\ \E k \in retired[t] : ~IsLast(t, k)
    /\ Go(t, cont[t])
    /\ retired' = [retired EXCEPT ![t] = {}]
    /\ cont' = [cont EXCEPT ![t] = "idle"]
    /\ UNCHANGED <<tables, counters, clocks, open, mapped, lease, requests,
                   req, classified, gen, held>>

\* The destructor starts: from here on the weak record cannot be upgraded.
DropLast(t) ==
    /\ pc[t] = "drop"
    /\ \E k \in retired[t] : IsLast(t, k)
    /\ Go(t, "unmap")
    /\ UNCHANGED <<tables, counters, clocks, open, mapped, lease, requests,
                   locals>>

\* Bug: the destructor finds no owner and leaves the record behind.
UnmapOnly(t) ==
    /\ pc[t] = "unmap"
    /\ mapped' = mapped \ retired[t]
    /\ Go(t, cont[t])
    /\ retired' = [retired EXCEPT ![t] = {}]
    /\ cont' = [cont EXCEPT ![t] = "idle"]
    /\ UNCHANGED <<tables, counters, clocks, open, lease, requests, req,
                   classified, gen, held>>

\* The destructor upgrades its owner and unmaps the kernel.
Unmap(t) ==
    /\ pc[t] = "unmap"
    /\ mapped' = mapped \ retired[t]
    /\ \/ InnerAlive /\ Go(t, "release") /\ UNCHANGED <<retired, cont>>
       \/ /\ ~InnerAlive
          /\ Go(t, cont[t])
          /\ retired' = [retired EXCEPT ![t] = {}]
          /\ cont' = [cont EXCEPT ![t] = "idle"]
    /\ UNCHANGED <<tables, counters, clocks, open, lease, requests, req,
                   classified, gen, held>>

\* remove_live: only now the record and the charge go.
Release(t) ==
    /\ pc[t] = "release"
    /\ \E k \in retired[t] :
          LET less == ChargeOf(k.identity)
          IN  /\ live' = live \ {k}
              /\ current' = Minus(less)
              /\ consistent' = (/\ consistent
                                /\ k \in live
                                /\ \A u \in Usage : current[u] >= less[u])
    /\ retired' = [retired EXCEPT ![t] = {}]
    /\ Go(t, "notify")
    /\ UNCHANGED <<entries, flights, peak, totals, clocks, open, mapped,
                   lease, requests, req, classified, gen, held, cont>>

\* notify_all, after the lock has been released; a destructor then drops its
\* owner pointer, which may be the last one.
Notify(t) ==
    /\ pc[t] = "notify"
    /\ pc' = [u \in Threads |-> IF u = t THEN cont[t]
                                ELSE IF pc[u] = "waiting" THEN "woken"
                                ELSE pc[u]]
    /\ cont' = [cont EXCEPT ![t] = "idle"]
    /\ \/ /\ open \/ \E u \in Threads \ {t} : pc[u] \in {"release", "notify"}
          /\ UNCHANGED <<tables, mapped>>
       \/ /\ ~open
          /\ \A u \in Threads \ {t} : pc[u] \notin {"release", "notify"}
          /\ FreeInner
    /\ UNCHANGED <<counters, clocks, open, lease, requests, req, classified,
                   gen, held, retired>>

\* get_or_build has returned an error.
ReturnError(t) ==
    /\ pc[t] = "failed"
    /\ ClearCall(t)
    /\ Go(t, "idle")
    /\ UNCHANGED <<tables, counters, clocks, open, mapped, lease, requests,
                   held, retired, cont>>

\* A matcher clones the lease.
CloneLease(t, h) ==
    /\ pc[t] = "holding" /\ lease[h] = {}
    /\ lease' = [lease EXCEPT ![h] = held[t]]
    /\ UNCHANGED <<tables, counters, clocks, open, mapped, requests, pc,
                   locals>>

\* A thread drops the lease it was given, or one that a matcher kept.
DropLease(t) ==
    /\ pc[t] = "holding"
    /\ \E k \in held[t] : DropThen(t, k, "idle")
    /\ held' = [held EXCEPT ![t] = {}]
    /\ UNCHANGED <<tables, counters, clocks, open, mapped, lease, requests,
                   req, classified, gen>>

DropClone(t, h) ==
    /\ pc[t] = "idle"
    /\ \E k \in lease[h] : DropThen(t, k, "idle")
    /\ lease' = [lease EXCEPT ![h] = {}]
    /\ UNCHANGED <<tables, counters, clocks, open, mapped, requests, req,
                   classified, gen, held>>

\* The last cache handle goes; no thread is inside get_or_build.
DropCache ==
    /\ open /\ \A t \in Threads : ~Borrows(t)
    /\ open' = FALSE
    /\ \/ /\ \E t \in Threads : pc[t] \in {"release", "notify"}
          /\ UNCHANGED <<tables, mapped>>
       \/ /\ \A t \in Threads : pc[t] \notin {"release", "notify"}
          /\ FreeInner
    /\ UNCHANGED <<counters, clocks, lease, requests, pc, locals>>

\* Everything has been given back; the process goes on without the cache.
Finished ==
    /\ ~open /\ \A t \in Threads : pc[t] = "idle"
    /\ \A h \in Handles : lease[h] = {}
    /\ UNCHANGED vars

-----------------------------------------------------------------------------
\* What a thread does without the caller's say.
Step(t) ==
    \/ HitEntry(t) \/ HitLive(t) \/ WaitRetiring(t) \/ WaitFlight(t)
    \/ RefuseReentrant(t) \/ Rewake(t) \/ RefuseFlight(t) \/ StartFlight(t)
    \/ EvictAndStartFlight(t) \/ BuildPublished(t) \/ BuildFailed(t)
    \/ DropCandidate(t) \/ FinishFailed(t) \/ Admit(t) \/ AdmitEvict(t)
    \/ AdmitRefuse(t) \/ DropShared(t) \/ DropLast(t) \/ Unmap(t)
    \/ Release(t) \/ Notify(t) \/ ReturnError(t)

Next ==
    \/ \E t \in Threads :
          \/ Step(t) \/ SpuriousWake(t) \/ Reenter(t) \/ DropLease(t)
          \/ \E i \in Identities : Request(t, i)
          \/ \E h \in Handles : CloneLease(t, h) \/ DropClone(t, h)
    \/ DropCache
    \/ Finished

Spec == Init /\ [][Next]_vars

\* Every thread keeps running: builders return and the lock is granted.
FairSpec == Spec /\ \A t \in Threads : WF_vars(Step(t))
-----------------------------------------------------------------------------
(* Properties.                                                             *)

\* Every variable keeps its type; a thread's labels come from the code.
TypeOK ==
    /\ entries \subseteq [kernel : Kernels, last_used : Nat]
    /\ flights \subseteq [identity : Identities, generation : Nat,
                          owner : Threads]
    /\ live \subseteq Kernels
    /\ mapped \subseteq Kernels
    /\ current \in [Usage -> Nat]
    /\ peak \in [Usage -> Nat]
    /\ totals \in [Events -> Nat]
    /\ clock \in Nat /\ generation \in Nat /\ requests \in Nat
    /\ consistent \in BOOLEAN /\ open \in BOOLEAN
    /\ lease \in [Handles -> SUBSET Kernels]
    /\ pc \in [Threads -> PCs]
    /\ req \in [Threads -> Identities \cup {None}]
    /\ classified \in [Threads -> BOOLEAN]
    /\ gen \in [Threads -> Nat]
    /\ held \in [Threads -> SUBSET Kernels]
    /\ retired \in [Threads -> SUBSET Kernels]
    /\ cont \in [Threads -> {"idle", "building", "admit", "holding", "failed"}]

\* An identity never has two executable mappings at once, whatever mixture
\* of builds, evictions, leases and running destructors there is: lookup
\* waits for the flight, and for the destructor of a dead live record.
SingleMapping ==
    \A k, l \in mapped : k.identity = l.identity => k = l

\* Whoever can call a kernel (a resident entry, a lease returned by
\* get_or_build, a clone kept by a matcher, before and after the cache is
\* dropped) finds its pages mapped.
LeasesCallable ==
    /\ \A e \in entries : e.kernel \in mapped
    /\ \A t \in Threads : held[t] \subseteq mapped
    /\ \A h \in Handles : lease[h] \subseteq mapped

\* Every mapped kernel is accounted for: it is charged through its live
\* record, or bounded by the flight that built it.  The destructor and a
\* refused admission unmap before they give up the record or the flight.
MappedIsCovered ==
    InnerAlive => \A k \in mapped :
        \/ k \in live
        \/ \E f \in flights : /\ f.identity = k.identity
                               /\ f.generation = k.token

\* A sleeping waiter waits for something: its identity is in flight, or its
\* kernel is being retired, or a thread is about to call notify_all.
NoLostWakeup ==
    \A t \in Threads : pc[t] = "waiting" =>
        \/ FlightsOf(req[t]) # {}
        \/ \E k \in LiveOf(req[t]) : ~Strong(k)
        \/ \E u \in Threads : pc[u] = "notify"

\* The hard limits of CacheLimits hold for what is charged now, and for
\* every peak ever reported.
WithinLimits ==
    /\ Occupied <= MaxEntries
    /\ current["in_flight_builds"] <= MaxInFlight
    /\ \A r \in Resources : peak[r] <= Limit[r] /\ current[r] <= peak[r]

\* What aggregate accounting charges for a set of kernels.
ChargedFor(S, r) == MapThenSumSet(LAMBDA k : Cost[k.identity][r], S)

\* Threads inside Condvar::wait, and requests not yet counted as hit or miss.
Waiters      == {t \in Threads : pc[t] \in {"waiting", "woken"}}
Unclassified == {t \in Threads : Looks(t) /\ ~classified[t]}

\* The counters of State agree with its tables, waiters included, and no
\* decrement ever underflowed: each exit path of get_or_build and of the
\* destructor gives back exactly what it took.  Of a request that waits and
\* looks up again, the first round alone is counted as a hit or a miss.
ExactAccounting ==
    InnerAlive =>
        /\ consistent
        /\ current["entries"] = Cardinality(entries)
        /\ current["in_flight_builds"] = Cardinality(flights)
        /\ current["reserved_entries"] = Cardinality(flights)
        /\ current["waiters"] = Cardinality(Waiters)
        /\ \A r \in Resources : current[r] = ChargedFor(live, r)
        /\ totals["hits"] + totals["misses"] + Cardinality(Unclassified)
           = requests

\* A kernel is in use: somebody references it, or its destructor has not yet
\* released its charge.
InUse(k) ==
    \/ Referenced(k)
    \/ \E t \in Threads : pc[t] \in {"unmap", "release"} /\ k \in retired[t]

\* The count of references is read under the lock and is stale outside it.
\* Still, a candidate is refused for an aggregate limit only when no charged
\* mapping can be reclaimed - each of them is in somebody's hands at that
\* moment - and what is reclaimed instead was in nobody's.
ReclaimsIdle ==
    [][\A t \in Threads : pc[t] = "admit" =>
         /\ pc'[t] = "refused" => \A k \in live : InUse(k)
         /\ pc'[t] = "drop" => \A k \in retired'[t] : ~InUse(k)]_vars

\* When traffic stops, every request returns: no lost wake-up, no flight
\* without a builder, no destructor waiting for a waiter, and no builder
\* waiting for the flight that it is itself to end.
RequestCompletes ==
    \A t \in Threads : Looks(t) ~> pc[t] \in {"holding", "idle"}
=============================================================================
