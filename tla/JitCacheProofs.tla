--------------------------- MODULE JitCacheProofs ---------------------------
(***************************************************************************)
(* Theorems about JitCache, for any number of threads, identities, leases  *)
(* and requests and for any limits.                                        *)
(***************************************************************************)
EXTENDS JitCacheRefinement, FiniteSetTheorems, WellFoundedInduction, TLAPS

DropPath == {"drop", "unmap", "release", "notify"}

\* The thread still needs its request: it is inside get_or_build and has not
\* yet got a kernel or an error.
Requesting(t) ==
    \/ pc[t] \in {"lookup", "waiting", "woken", "building", "nested",
                  "rejected", "finish_error", "finish_panic", "admit",
                  "refused", "unflight"}
    \/ pc[t] \in DropPath /\ cont[t] \in {"building", "admit"}

\* TypeOK is not inductive alone: a flight and a candidate are named after
\* the thread's request, which must be an identity.
ReqOK == \A t \in Threads : Requesting(t) => req[t] \in Identities

TypeInv == TypeOK /\ ReqOK

-----------------------------------------------------------------------------
LEMMA InitTypeInv == Init => TypeInv
  BY LimitsAssumption DEF Init, TypeInv, TypeOK, ReqOK, Requesting, DropPath,
     Kernels, PCs, Usage, Resources, Events

\* Bump keeps the totals natural numbers.
LEMMA BumpType ==
    ASSUME NEW S, totals \in [Events -> Nat], Bump(S)
    PROVE  totals' \in [Events -> Nat]
  BY DEF Bump

\* Every change of `current` the code makes keeps it a natural number.
LEMMA UsageType ==
    ASSUME current \in [Usage -> Nat], peak \in [Usage -> Nat]
    PROVE  /\ \A f \in [Usage -> Nat] : /\ Plus(f) \in [Usage -> Nat]
                                        /\ Minus(f) \in [Usage -> Nat]
           /\ \A S : Charge(S) \in [Usage -> Nat]
           /\ \A i \in Identities : /\ ChargeOf(i) \in [Usage -> Nat]
                                    /\ AdmissionOf(i) \in [Usage -> Nat]
           /\ \A f, g \in [Usage -> Nat] :
                 Exchange(f, g) => /\ current' \in [Usage -> Nat]
                                   /\ consistent' \in BOOLEAN
           /\ current' \in [Usage -> Nat] /\ UpdatePeak
                 => peak' \in [Usage -> Nat]
  <1>1. \A f \in [Usage -> Nat] : Plus(f) \in [Usage -> Nat]
    BY DEF Plus
  <1>2. \A f \in [Usage -> Nat] : Minus(f) \in [Usage -> Nat]
    BY DEF Minus
  <1>3. \A S : Charge(S) \in [Usage -> Nat]
    BY DEF Charge
  <1>4. \A i \in Identities : /\ ChargeOf(i) \in [Usage -> Nat]
                              /\ AdmissionOf(i) \in [Usage -> Nat]
    BY LimitsAssumption DEF ChargeOf, AdmissionOf, Usage
  <1>5. current' \in [Usage -> Nat] /\ UpdatePeak => peak' \in [Usage -> Nat]
    BY DEF UpdatePeak
  <1>6. \A f, g \in [Usage -> Nat] :
           Exchange(f, g) => /\ current' \in [Usage -> Nat]
                             /\ consistent' \in BOOLEAN
    BY <1>2 DEF Exchange
  <1> QED BY <1>1, <1>2, <1>3, <1>4, <1>5, <1>6

\* Every action keeps the types, and the request of a thread that needs it.
LEMMA NextTypeInv == TypeInv /\ [Next]_vars => TypeInv'
  <1> SUFFICES ASSUME TypeInv, [Next]_vars PROVE TypeInv'
    OBVIOUS
  <1> USE DEF TypeInv, TypeOK, ReqOK, Requesting, DropPath, PCs, Kernels,
              tables, counters, clocks, locals, Looks, Go
  <1>1. ASSUME NEW t \in Threads, HitEntry(t) PROVE TypeInv'
    BY <1>1, BumpType DEF HitEntry, ClearCall, EntriesOf, NextClock
  <1>2. ASSUME NEW t \in Threads, HitLive(t) PROVE TypeInv'
    BY <1>2, BumpType DEF HitLive, ClearCall, LiveOf
  <1>3. ASSUME NEW t \in Threads, WaitRetiring(t) PROVE TypeInv'
    BY <1>3, BumpType, UsageType DEF WaitRetiring, Wait
  <1>4. ASSUME NEW t \in Threads, WaitFlight(t) PROVE TypeInv'
    BY <1>4, BumpType, UsageType DEF WaitFlight, Wait
  <1>5. ASSUME NEW t \in Threads, Rewake(t) PROVE TypeInv'
    BY <1>5, UsageType DEF Rewake, Subtract
  <1>6. ASSUME NEW t \in Threads, RefuseFlight(t) PROVE TypeInv'
    BY <1>6, BumpType DEF RefuseFlight
  <1>7. ASSUME NEW t \in Threads, StartFlight(t) PROVE TypeInv'
    BY <1>7, BumpType, UsageType DEF StartFlight, MayLaunch, Launch
  <1>8. ASSUME NEW t \in Threads, EvictAndStartFlight(t) PROVE TypeInv'
    BY <1>8, SMTT(60), BumpType, UsageType DEF EvictAndStartFlight, MayLaunch,
        Launch, DropThen,
         LeastRecent
  <1>9. ASSUME NEW t \in Threads, BuildPublished(t) PROVE TypeInv'
    BY <1>9 DEF BuildPublished, Candidate
  <1>10. ASSUME NEW t \in Threads, BuildFailed(t) PROVE TypeInv'
    BY <1>10 DEF BuildFailed
  <1>11. ASSUME NEW t \in Threads, DropCandidate(t) PROVE TypeInv'
    BY <1>11 DEF DropCandidate
  <1>12. ASSUME NEW t \in Threads, FinishFailed(t) PROVE TypeInv'
    BY <1>12, BumpType, UsageType DEF FinishFailed, RemoveFlight, Subtract,
        NotifyThen
  <1>13. ASSUME NEW t \in Threads, Admit(t) PROVE TypeInv'
    BY <1>13, BumpType, UsageType DEF Admit, RemoveFlight, NotifyThen,
        ClearCall, Candidate,
         NextClock
  <1>14. ASSUME NEW t \in Threads, AdmitEvict(t) PROVE TypeInv'
    BY <1>14, BumpType, UsageType DEF AdmitEvict, DropThen, Subtract,
        LeastRecent,
         CacheOnly
  <1>15. ASSUME NEW t \in Threads, AdmitRefuse(t) PROVE TypeInv'
    BY <1>15, BumpType DEF AdmitRefuse
  <1>16. ASSUME NEW t \in Threads, DropShared(t) PROVE TypeInv'
    BY <1>16 DEF DropShared
  <1>17. ASSUME NEW t \in Threads, DropLast(t) PROVE TypeInv'
    BY <1>17 DEF DropLast
  <1>18. ASSUME NEW t \in Threads, Unmap(t) PROVE TypeInv'
    BY <1>18 DEF Unmap
  <1>19. ASSUME NEW t \in Threads, Release(t) PROVE TypeInv'
    BY <1>19, UsageType DEF Release
  <1>20. ASSUME NEW t \in Threads, Notify(t) PROVE TypeInv'
    BY <1>20 DEF Notify, FreeInner
  <1>21. ASSUME NEW t \in Threads, ReturnError(t) PROVE TypeInv'
    BY <1>21 DEF ReturnError, ClearCall
  <1>22. ASSUME NEW t \in Threads, SpuriousWake(t) PROVE TypeInv'
    BY <1>22 DEF SpuriousWake
  <1>23. ASSUME NEW t \in Threads, Reenter(t) PROVE TypeInv'
    BY <1>23 DEF Reenter
  <1>24. ASSUME NEW t \in Threads, DropLease(t) PROVE TypeInv'
    BY <1>24 DEF DropLease, DropThen
  <1>25. ASSUME NEW t \in Threads, NEW i \in Identities, Request(t, i)
                PROVE TypeInv'
    BY <1>25 DEF Request
  <1>26. ASSUME NEW t \in Threads, NEW h \in Handles, CloneLease(t, h)
                PROVE TypeInv'
    BY <1>26 DEF CloneLease
  <1>27. ASSUME NEW t \in Threads, NEW h \in Handles,
             DropClone(t, h) PROVE TypeInv'
    BY <1>27 DEF DropClone, DropThen
  <1>28. ASSUME DropCache PROVE TypeInv'
    BY <1>28 DEF DropCache, FreeInner
  <1>29. ASSUME NEW t \in Threads, RefuseReentrant(t) PROVE TypeInv'
    BY <1>29, BumpType DEF RefuseReentrant
  <1>30. CASE UNCHANGED vars
    BY <1>30 DEF vars
  <1> QED
    BY <1>1, <1>2, <1>3, <1>4, <1>5, <1>6, <1>7, <1>8, <1>9,
       <1>10, <1>11, <1>12, <1>13, <1>14, <1>15, <1>16, <1>17,
       <1>18, <1>19, <1>20, <1>21, <1>22, <1>23, <1>24, <1>25,
       <1>26, <1>27, <1>28, <1>29, <1>30
    DEF Next, Step, Finished

\* Type correctness: every reachable state of JitCache, however many threads
\* and kernels there are, has the types that TypeOK states.
THEOREM TypeCorrect == Spec => []TypeOK
  <1>1. TypeInv => TypeOK BY DEF TypeInv
  <1> QED BY <1>1, InitTypeInv, NextTypeInv, PTL DEF Spec

-----------------------------------------------------------------------------
(* The inductive invariant.                                                *)

\* The thread owns a flight.
Building(t) ==
    \/ pc[t] \in {"building", "nested", "rejected", "finish_error",
                  "finish_panic", "admit", "refused", "unflight"}
    \/ pc[t] \in DropPath /\ cont[t] \in {"building", "admit"}

\* The thread owns a mapping that the cache has not admitted.
HasCandidate(t) ==
    \/ pc[t] \in {"admit", "rejected", "refused"}
    \/ pc[t] \in DropPath /\ cont[t] = "admit"

\* The thread has been given a kernel.
HasLease(t) ==
    \/ pc[t] = "holding"
    \/ pc[t] \in DropPath /\ cont[t] = "holding"

FlightFor(t) == [identity |-> req[t], generation |-> gen[t], owner |-> t]

\* Flights and the threads inside a build correspond to each other.
FlightsOwned ==
    /\ \A t \in Threads : Building(t) => FlightFor(t) \in flights
    /\ \A f \in flights : Building(f.owner) /\ f = FlightFor(f.owner)

\* An identity has one flight, or one live record, or neither.
Exclusive ==
    /\ \A f, g \in flights : f.identity = g.identity => f = g
    /\ \A k, l \in live : k.identity = l.identity => k = l
    /\ \A f \in flights, k \in live : f.identity # k.identity

\* A call of get_or_build borrows the cache.
BorrowersOpen == \A t \in Threads : Borrows(t) => open

\* What a thread holds follows from where it is.
HeldOK ==
    \A t \in Threads :
        /\ HasCandidate(t) => held[t] = {Candidate(t)}
        /\ ~HasCandidate(t) /\ ~HasLease(t) => held[t] = {}
        /\ \A k, l \in retired[t] : k = l
        /\ pc[t] \notin {"drop", "unmap", "release"} => retired[t] = {}

\* As long as Inner exists, every admitted kernel that somebody references
\* or destroys has its live record.
Recorded ==
    InnerAlive =>
        /\ \A e \in entries : e.kernel \in live
        /\ \A h \in Handles : lease[h] \subseteq live
        /\ \A t \in Threads : retired[t] \subseteq live
        /\ \A t \in Threads : HasLease(t) => held[t] \subseteq live

\* Dropping is exclusive: nobody references a kernel whose destructor runs,
\* and only one thread runs it.
Dying(t) == pc[t] \in {"unmap", "release"}
DyingUnreferenced ==
    /\ \A t \in Threads : Dying(t) => \A k \in retired[t] : ~Strong(k)
    /\ \A t, u \in Threads :
          t # u /\ Dying(t) /\ Dying(u) => retired[t] \cap retired[u] = {}

\* References are to mapped kernels; a record is released after unmapping.
MappedOK ==
    /\ LeasesCallable
    /\ \A t \in Threads : pc[t] = "drop" => retired[t] \subseteq mapped
    /\ \A t \in Threads : pc[t] = "release" => retired[t] \cap mapped = {}

\* Mapped kernels are live records or the candidates of flights.
MappedKnown ==
    InnerAlive => \A k \in mapped :
        k \in live \/ \E t \in Threads : HasCandidate(t) /\ k = Candidate(t)

Inv == /\ TypeInv
       /\ FlightsOwned
       /\ Exclusive
       /\ BorrowersOpen
       /\ HeldOK
       /\ Recorded
       /\ DyingUnreferenced
       /\ MappedOK
       /\ MappedKnown
       /\ SingleMapping

-----------------------------------------------------------------------------
(* Inductiveness.                                                          *)

LEMMA InitInv == Init => Inv
  <1> SUFFICES ASSUME Init PROVE Inv
    OBVIOUS
  <1>1. TypeInv BY InitTypeInv
  <1> QED
    BY <1>1 DEF Init, Inv, FlightsOwned, Exclusive, BorrowersOpen, Borrows,
       HeldOK, Recorded, DyingUnreferenced, Dying, MappedOK, MappedKnown,
       SingleMapping, LeasesCallable, Building, HasCandidate, HasLease,
       DropPath

\* The flight that remove_flight finds is the thread's own, and only that.
LEMMA OwnFlight ==
    ASSUME FlightsOwned, Exclusive, NEW t \in Threads, Building(t)
    PROVE  OwnFlights(t) = {FlightFor(t)}
  <1>1. FlightFor(t) \in flights
    BY DEF FlightsOwned
  <1>2. FlightFor(t) \in OwnFlights(t)
    BY <1>1 DEF OwnFlights, FlightsOf, FlightFor
  <1>3. ASSUME NEW f \in OwnFlights(t) PROVE f = FlightFor(t)
    <2>1. f \in flights /\ f.identity = FlightFor(t).identity
      BY DEF OwnFlights, FlightsOf, FlightFor
    <2> QED BY <1>1, <2>1 DEF Exclusive
  <1> QED BY <1>2, <1>3

\* A flight keeps live records and mappings of its identity away.
LEMMA FlightAlone ==
    ASSUME FlightsOwned, Exclusive, BorrowersOpen, NEW t \in Threads,
           Building(t)
    PROVE  /\ open /\ InnerAlive
           /\ \A k \in live : k.identity # req[t]
           /\ \A u \in Threads : Building(u) /\ req[u] = req[t] => u = t
  <1>1. open /\ InnerAlive
    BY DEF BorrowersOpen, Borrows, Building, InnerAlive, DropPath
  <1>2. FlightFor(t) \in flights
    BY DEF FlightsOwned
  <1>3. \A k \in live : k.identity # req[t]
    BY <1>2 DEF Exclusive, FlightFor
  <1>4. ASSUME NEW u \in Threads, Building(u), req[u] = req[t] PROVE u = t
    <2>1. FlightFor(u) \in flights BY <1>4 DEF FlightsOwned
    <2>2. FlightFor(u) = FlightFor(t)
      BY <1>2, <1>4, <2>1 DEF Exclusive, FlightFor
    <2> QED BY <2>2 DEF FlightFor
  <1> QED BY <1>1, <1>3, <1>4

\* The actions that follow a lookup which does not end in ReentrantBuild.
AfterLookup(t) ==
    \/ HitEntry(t) \/ HitLive(t) \/ WaitRetiring(t) \/ WaitFlight(t)
    \/ RefuseFlight(t) \/ StartFlight(t) \/ EvictAndStartFlight(t)

\* The lookup that a builder makes for its own identity finds its own flight,
\* and nothing else; every other outcome belongs to an outermost request.
LEMMA OuterLookup ==
    ASSUME Inv, NEW t \in Threads
    PROVE  /\ AfterLookup(t) => pc[t] = "lookup"
           /\ RefuseReentrant(t) => pc[t] = "nested"
  <1>1. ASSUME pc[t] = "nested"
        PROVE  /\ EntriesOf(req[t]) = {} /\ LiveOf(req[t]) = {}
               /\ FlightsOf(req[t]) = {FlightFor(t)}
    <2>1. Building(t) BY <1>1 DEF Building
    <2>2. InnerAlive /\ \A k \in live : k.identity # req[t]
      BY <2>1, FlightAlone DEF Inv
    <2>3. FlightFor(t) \in flights BY <2>1 DEF Inv, FlightsOwned
    <2>4. EntriesOf(req[t]) = {} /\ LiveOf(req[t]) = {}
      BY <2>2 DEF Inv, Recorded, EntriesOf, LiveOf
    <2>5. \A f \in flights : f.identity = req[t] => f = FlightFor(t)
      BY <2>3 DEF Inv, Exclusive, FlightFor
    <2> QED BY <2>3, <2>4, <2>5 DEF FlightsOf, FlightFor
  <1>2. AfterLookup(t) => Looks(t)
    BY DEF AfterLookup, HitEntry, HitLive, WaitRetiring, WaitFlight,
       RefuseFlight, StartFlight, EvictAndStartFlight, MayLaunch
  <1>3. ASSUME pc[t] = "nested" PROVE ~AfterLookup(t)
    <2>1. ~HitEntry(t) /\ ~HitLive(t) /\ ~WaitRetiring(t)
      BY <1>1, <1>3 DEF HitEntry, HitLive, WaitRetiring
    <2>2. ~WaitFlight(t)
      BY <1>1, <1>3 DEF WaitFlight, FlightFor
    <2>3. ~RefuseFlight(t) /\ ~StartFlight(t) /\ ~EvictAndStartFlight(t)
      BY <1>1, <1>3 DEF RefuseFlight, StartFlight, EvictAndStartFlight,
         MayLaunch
    <2> QED BY <2>1, <2>2, <2>3 DEF AfterLookup
  <1>4. ASSUME RefuseReentrant(t) PROVE pc[t] = "nested"
    <2>1. PICK f \in flights : f.owner = t
      BY <1>4 DEF RefuseReentrant, FlightsOf
    <2>2. Building(t) BY <2>1 DEF Inv, FlightsOwned
    <2> QED BY <1>4, <2>2 DEF RefuseReentrant, Looks, Building, DropPath
  <1> QED BY <1>2, <1>3, <1>4 DEF Looks

\* Before its builder has published, an identity in flight is not mapped.
LEMMA FlightUnmapped ==
    ASSUME Inv, NEW t \in Threads, pc[t] = "building"
    PROVE  \A k \in mapped : k.identity # req[t]
  <1>1. Building(t) /\ ~HasCandidate(t)
    BY DEF Building, HasCandidate, DropPath
  <1>2. SUFFICES ASSUME NEW k \in mapped, k.identity = req[t] PROVE FALSE
    OBVIOUS
  <1>3. k \notin live
    BY <1>1, <1>2, FlightAlone DEF Inv
  <1>4. PICK u \in Threads : HasCandidate(u) /\ k = Candidate(u)
    BY <1>1, <1>3, FlightAlone DEF Inv, MappedKnown
  <1>5. Building(u) /\ req[u] = req[t]
    BY <1>2, <1>4 DEF Building, HasCandidate, Candidate
  <1> QED BY <1>1, <1>4, <1>5, FlightAlone DEF Inv

\* Nobody but its builder can reach a candidate.
LEMMA CandidatePrivate ==
    ASSUME Inv, NEW t \in Threads, HasCandidate(t)
    PROVE  /\ Candidate(t) \notin live
           /\ ~Resident(Candidate(t))
           /\ \A h \in Handles : Candidate(t) \notin lease[h]
           /\ \A u \in Threads : Candidate(t) \notin retired[u]
           /\ \A u \in Threads \ {t} : Candidate(t) \notin held[u]
  <1>1. Building(t) BY DEF Building, HasCandidate
  <1>2. InnerAlive /\ Candidate(t) \notin live
    BY <1>1, FlightAlone DEF Inv, Candidate
  <1>3. /\ ~Resident(Candidate(t))
        /\ \A h \in Handles : Candidate(t) \notin lease[h]
        /\ \A u \in Threads : Candidate(t) \notin retired[u]
    BY <1>2 DEF Inv, Recorded, Resident
  <1>4. ASSUME NEW u \in Threads \ {t} PROVE Candidate(t) \notin held[u]
    <2>1. CASE HasCandidate(u)
      <3>1. Building(u) BY <2>1 DEF Building, HasCandidate
      <3>2. req[u] # req[t] BY <1>1, <3>1, FlightAlone DEF Inv
      <3> QED BY <2>1, <3>2 DEF Inv, HeldOK, Candidate
    <2>2. CASE HasLease(u)
      BY <1>2, <2>2 DEF Inv, Recorded
    <2> QED BY <2>1, <2>2 DEF Inv, HeldOK
  <1> QED BY <1>2, <1>3, <1>4

LEMMA NextInv == Inv /\ TypeInv' /\ [Next]_vars => Inv'
  <1> SUFFICES ASSUME Inv, TypeInv', [Next]_vars PROVE Inv'
    OBVIOUS
  <1>0. \A t \in Threads : /\ AfterLookup(t) => pc[t] = "lookup"
                           /\ RefuseReentrant(t) => pc[t] = "nested"
    BY OuterLookup
  <1> USE DEF Inv, TypeInv, TypeOK, PCs, Kernels, ReqOK, Requesting,
        DropPath, Building, HasCandidate, HasLease, FlightFor, FlightsOwned,
        Exclusive, BorrowersOpen, HeldOK, Recorded, Dying, DyingUnreferenced,
        MappedOK, MappedKnown, SingleMapping, LeasesCallable, Borrows,
        InnerAlive, Candidate, Strong, Resident, Referenced, tables,
        counters, clocks, locals, Go
  <1>1. ASSUME NEW t \in Threads, pc[t] = "lookup",
               HitEntry(t) PROVE Inv'
    <2>1. (FlightsOwned /\ Exclusive /\ BorrowersOpen /\ HeldOK)'
      BY <1>1 DEF HitEntry, ClearCall, EntriesOf, NextClock
    <2>2. (Recorded /\ DyingUnreferenced)'
      BY <1>1 DEF HitEntry, ClearCall, EntriesOf, NextClock
    <2>3. (MappedOK /\ MappedKnown /\ SingleMapping)'
      BY <1>1 DEF HitEntry, ClearCall, EntriesOf, NextClock
    <2> QED BY <2>1, <2>2, <2>3 DEF Inv
  <1>2. ASSUME NEW t \in Threads, pc[t] = "lookup",
               HitLive(t) PROVE Inv'
    <2>1. (FlightsOwned /\ Exclusive /\ BorrowersOpen /\ HeldOK)'
      BY <1>2, SMTT(60) DEF HitLive, ClearCall, LiveOf, EntriesOf
    <2>2. (Recorded /\ DyingUnreferenced)'
      BY <1>2, SMTT(60) DEF HitLive, ClearCall, LiveOf, EntriesOf
    <2>3. MappedOK'
      BY <1>2, SMTT(60) DEF HitLive, ClearCall, LiveOf, EntriesOf
    <2>4. MappedKnown'
      BY <1>2, SMTT(60) DEF HitLive, ClearCall, LiveOf, EntriesOf
    <2>5. SingleMapping'
      BY <1>2, SMTT(60) DEF HitLive, ClearCall, LiveOf, EntriesOf
    <2> QED BY <2>1, <2>2, <2>3, <2>4, <2>5 DEF Inv
  <1>3. ASSUME NEW t \in Threads, pc[t] = "lookup",
               WaitRetiring(t) PROVE Inv'
    BY <1>3, SMTT(60) DEF WaitRetiring, Wait
  <1>4. ASSUME NEW t \in Threads, pc[t] = "lookup",
               WaitFlight(t) PROVE Inv'
    <2>1. (FlightsOwned /\ Exclusive /\ BorrowersOpen /\ HeldOK)'
      BY <1>4, SMTT(60) DEF WaitFlight, Wait
    <2>2. (Recorded /\ DyingUnreferenced)'
      BY <1>4, SMTT(60) DEF WaitFlight, Wait
    <2>3. (MappedOK /\ MappedKnown /\ SingleMapping)'
      BY <1>4, SMTT(60) DEF WaitFlight, Wait
    <2> QED BY <2>1, <2>2, <2>3 DEF Inv
  <1>5. ASSUME NEW t \in Threads, Rewake(t) PROVE Inv'
    <2>1. (FlightsOwned /\ Exclusive /\ BorrowersOpen /\ HeldOK)'
      BY <1>5 DEF Rewake
    <2>2. (Recorded /\ DyingUnreferenced)'
      BY <1>5 DEF Rewake
    <2>3. (MappedOK /\ MappedKnown /\ SingleMapping)'
      BY <1>5 DEF Rewake
    <2> QED BY <2>1, <2>2, <2>3 DEF Inv
  <1>6. ASSUME NEW t \in Threads, pc[t] = "lookup",
               RefuseFlight(t) PROVE Inv'
    <2>1. (FlightsOwned /\ Exclusive /\ BorrowersOpen /\ HeldOK)'
      BY <1>6, SMTT(60) DEF RefuseFlight
    <2>2. (Recorded /\ DyingUnreferenced)'
      BY <1>6, SMTT(60) DEF RefuseFlight
    <2>3. MappedOK'
      BY <1>6, SMTT(60) DEF RefuseFlight
    <2>4. MappedKnown'
      BY <1>6, SMTT(60) DEF RefuseFlight
    <2>5. SingleMapping'
      BY <1>6, SMTT(60) DEF RefuseFlight
    <2> QED BY <2>1, <2>2, <2>3, <2>4, <2>5 DEF Inv
  <1>7. ASSUME NEW t \in Threads, pc[t] = "lookup",
               StartFlight(t) PROVE Inv'
    <2>1. (FlightsOwned /\ Exclusive /\ BorrowersOpen /\ HeldOK)'
      BY <1>7, SMTT(60) DEF StartFlight, MayLaunch, Launch, Absent, LiveOf,
         FlightsOf
    <2>2. (Recorded /\ DyingUnreferenced)'
      BY <1>7, SMTT(60) DEF StartFlight, MayLaunch, Launch, Absent, LiveOf,
         FlightsOf
    <2>3. MappedOK'
      BY <1>7, SMTT(60) DEF StartFlight, MayLaunch, Launch, Absent, LiveOf,
         FlightsOf
    <2>4. MappedKnown'
      BY <1>7, SMTT(60) DEF StartFlight, MayLaunch, Launch, Absent, LiveOf,
         FlightsOf
    <2>5. SingleMapping'
      BY <1>7, SMTT(60) DEF StartFlight, MayLaunch, Launch, Absent, LiveOf,
         FlightsOf
    <2> QED BY <2>1, <2>2, <2>3, <2>4, <2>5 DEF Inv
  <1>8. ASSUME NEW t \in Threads, pc[t] = "lookup",
               EvictAndStartFlight(t) PROVE Inv'
    <2>1. (FlightsOwned /\ Exclusive /\ BorrowersOpen /\ HeldOK)'
      BY <1>8, SMTT(60) DEF EvictAndStartFlight, MayLaunch, Launch,
         DropThen, LeastRecent, Absent, LiveOf, FlightsOf
    <2>2. (Recorded /\ DyingUnreferenced)'
      BY <1>8, SMTT(60) DEF EvictAndStartFlight, MayLaunch, Launch,
         DropThen, LeastRecent, Absent, LiveOf, FlightsOf
    <2>3. MappedOK'
      BY <1>8, SMTT(60) DEF EvictAndStartFlight, MayLaunch, Launch,
         DropThen, LeastRecent, Absent, LiveOf, FlightsOf
    <2>4. MappedKnown'
      BY <1>8, SMTT(60) DEF EvictAndStartFlight, MayLaunch, Launch,
         DropThen, LeastRecent, Absent, LiveOf, FlightsOf
    <2>5. SingleMapping'
      BY <1>8, SMTT(60) DEF EvictAndStartFlight, MayLaunch, Launch,
         DropThen, LeastRecent, Absent, LiveOf, FlightsOf
    <2> QED BY <2>1, <2>2, <2>3, <2>4, <2>5 DEF Inv
  <1>9. ASSUME NEW t \in Threads, BuildPublished(t) PROVE Inv'
    <2>a. InnerAlive /\ \A k \in live : k.identity # req[t]
      BY <1>9, FlightAlone DEF BuildPublished
    <2>b. \A k \in mapped : k.identity # req[t]
      BY <1>9, FlightUnmapped DEF BuildPublished
    <2>c. Candidate(t) \notin live
      BY <2>a
    <2>1. (FlightsOwned /\ Exclusive /\ BorrowersOpen /\ HeldOK)'
      BY <1>9, <2>a, <2>b, <2>c DEF BuildPublished
    <2>2. (Recorded /\ DyingUnreferenced)'
      BY <1>9, <2>a, <2>b, <2>c DEF BuildPublished
    <2>3. (MappedOK /\ MappedKnown /\ SingleMapping)'
      BY <1>9, <2>a, <2>b, <2>c DEF BuildPublished
    <2> QED BY <2>1, <2>2, <2>3 DEF Inv
  <1>10. ASSUME NEW t \in Threads, BuildFailed(t) PROVE Inv'
    BY <1>10 DEF BuildFailed
  <1>11. ASSUME NEW t \in Threads, DropCandidate(t) PROVE Inv'
    <2>a. held[t] = {Candidate(t)}
      BY <1>11 DEF DropCandidate
    <2>b. /\ ~Resident(Candidate(t))
          /\ \A h \in Handles : Candidate(t) \notin lease[h]
          /\ \A u \in Threads : Candidate(t) \notin retired[u]
          /\ \A u \in Threads \ {t} : Candidate(t) \notin held[u]
      BY <1>11, CandidatePrivate DEF DropCandidate
    <2>1. FlightsOwned'
      BY <1>11, SMTT(60), <2>a, <2>b DEF DropCandidate
    <2>2. Exclusive'
      BY <1>11, SMTT(60), <2>a, <2>b DEF DropCandidate
    <2>3. BorrowersOpen'
      BY <1>11, SMTT(60), <2>a, <2>b DEF DropCandidate
    <2>4. HeldOK'
      BY <1>11, SMTT(60), <2>a, <2>b DEF DropCandidate
    <2>5. Recorded'
      BY <1>11, SMTT(60), <2>a, <2>b DEF DropCandidate
    <2>6. DyingUnreferenced'
      BY <1>11, SMTT(60), <2>a, <2>b DEF DropCandidate
    <2>7. MappedOK'
      BY <1>11, SMTT(60), <2>a, <2>b DEF DropCandidate
    <2>8. MappedKnown'
      BY <1>11, SMTT(60), <2>a, <2>b DEF DropCandidate
    <2>9. SingleMapping'
      BY <1>11, SMTT(60), <2>a, <2>b DEF DropCandidate
    <2> QED BY <2>1, <2>2, <2>3, <2>4, <2>5, <2>6, <2>7, <2>8, <2>9 DEF Inv
  <1>12. ASSUME NEW t \in Threads, FinishFailed(t) PROVE Inv'
    <2>a. OwnFlights(t) = {FlightFor(t)}
      BY <1>12, OwnFlight DEF FinishFailed
    <2>1. (FlightsOwned /\ Exclusive /\ BorrowersOpen /\ HeldOK)'
      BY <1>12, <2>a DEF FinishFailed, RemoveFlight, NotifyThen
    <2>2. (Recorded /\ DyingUnreferenced)'
      BY <1>12, <2>a DEF FinishFailed, RemoveFlight, NotifyThen
    <2>3. MappedOK'
      BY <1>12, <2>a DEF FinishFailed, RemoveFlight, NotifyThen
    <2>4. MappedKnown'
      BY <1>12, <2>a DEF FinishFailed, RemoveFlight, NotifyThen
    <2>5. SingleMapping'
      BY <1>12, <2>a DEF FinishFailed, RemoveFlight, NotifyThen
    <2> QED BY <2>1, <2>2, <2>3, <2>4, <2>5 DEF Inv
  <1>13. ASSUME NEW t \in Threads, Admit(t) PROVE Inv'
    <2>a. Building(t) /\ HasCandidate(t)
      BY <1>13 DEF Admit
    <2>b. OwnFlights(t) = {FlightFor(t)}
      BY <2>a, OwnFlight
    <2>c. \A k \in live : k.identity # req[t]
      BY <2>a, FlightAlone
    <2>d. /\ live' = live \cup {Candidate(t)}
          /\ flights' = flights \ {FlightFor(t)}
      BY <1>13, <2>b DEF Admit, RemoveFlight
    <2>1. FlightsOwned'
      BY <1>13, <2>a, <2>b, <2>c, <2>d DEF Admit, RemoveFlight, NotifyThen,
         ClearCall, NextClock
    <2>2. Exclusive'
      BY <2>a, <2>c, <2>d, FlightAlone
    <2>3. BorrowersOpen'
      BY <1>13, <2>a, <2>b, <2>c, <2>d DEF Admit, RemoveFlight, NotifyThen,
         ClearCall, NextClock
    <2>4. HeldOK'
      BY <1>13, <2>a, <2>b, <2>c, <2>d DEF Admit, RemoveFlight, NotifyThen,
         ClearCall, NextClock
    <2>5. (Recorded /\ DyingUnreferenced)'
      BY <1>13, <2>a, <2>b, <2>c, <2>d DEF Admit, RemoveFlight, NotifyThen,
         ClearCall, NextClock
    <2>6. (MappedOK /\ MappedKnown /\ SingleMapping)'
      BY <1>13, <2>a, <2>b, <2>c, <2>d DEF Admit, RemoveFlight, NotifyThen,
         ClearCall, NextClock
    <2> QED BY <2>1, <2>2, <2>3, <2>4, <2>5, <2>6 DEF Inv
  <1>14. ASSUME NEW t \in Threads, AdmitEvict(t) PROVE Inv'
    <2>1. (FlightsOwned /\ Exclusive /\ BorrowersOpen /\ HeldOK)'
      BY <1>14 DEF AdmitEvict, DropThen, LeastRecent, CacheOnly
    <2>2. (Recorded /\ DyingUnreferenced)'
      BY <1>14 DEF AdmitEvict, DropThen, LeastRecent, CacheOnly
    <2>3. (MappedOK /\ MappedKnown /\ SingleMapping)'
      BY <1>14 DEF AdmitEvict, DropThen, LeastRecent, CacheOnly
    <2> QED BY <2>1, <2>2, <2>3 DEF Inv
  <1>15. ASSUME NEW t \in Threads, AdmitRefuse(t) PROVE Inv'
    BY <1>15 DEF AdmitRefuse
  <1>16. ASSUME NEW t \in Threads, DropShared(t) PROVE Inv'
    <2>1. FlightsOwned'
      BY <1>16 DEF DropShared
    <2>2. Exclusive'
      BY <1>16 DEF DropShared
    <2>3. BorrowersOpen'
      BY <1>16 DEF DropShared
    <2>4. HeldOK'
      BY <1>16 DEF DropShared
    <2>5. (Recorded /\ DyingUnreferenced)'
      BY <1>16 DEF DropShared
    <2>6. MappedOK'
      BY <1>16 DEF DropShared
    <2>7. MappedKnown'
      BY <1>16 DEF DropShared
    <2>8. SingleMapping'
      BY <1>16 DEF DropShared
    <2> QED BY <2>1, <2>2, <2>3, <2>4, <2>5, <2>6, <2>7, <2>8 DEF Inv
  <1>17. ASSUME NEW t \in Threads, DropLast(t) PROVE Inv'
    <2>a. PICK k \in Kernels : retired[t] = {k} /\ IsLast(t, k)
      BY <1>17 DEF DropLast
    <2>1. FlightsOwned'
      BY <1>17, <2>a DEF DropLast, IsLast
    <2>2. Exclusive'
      BY <1>17, <2>a DEF DropLast, IsLast
    <2>3. BorrowersOpen'
      BY <1>17, <2>a DEF DropLast, IsLast
    <2>4. HeldOK'
      BY <1>17, <2>a DEF DropLast, IsLast
    <2>5. (Recorded /\ DyingUnreferenced)'
      BY <1>17, <2>a DEF DropLast, IsLast
    <2>6. MappedOK'
      BY <1>17, <2>a DEF DropLast, IsLast
    <2>7. MappedKnown'
      BY <1>17, <2>a DEF DropLast, IsLast
    <2>8. SingleMapping'
      BY <1>17, <2>a DEF DropLast, IsLast
    <2> QED BY <2>1, <2>2, <2>3, <2>4, <2>5, <2>6, <2>7, <2>8 DEF Inv
  <1>18. ASSUME NEW t \in Threads, Unmap(t) PROVE Inv'
    <2>a. \A k \in retired[t] : ~Resident(k) /\ ~Referenced(k)
      BY <1>18 DEF Unmap
    <2>1. FlightsOwned'
      BY <1>18, <2>a DEF Unmap
    <2>2. Exclusive'
      BY <1>18, <2>a DEF Unmap
    <2>3. BorrowersOpen'
      BY <1>18, <2>a DEF Unmap
    <2>4. HeldOK'
      BY <1>18, <2>a DEF Unmap
    <2>5. Recorded'
      BY <1>18, SMTT(60), <2>a DEF Unmap
    <2>6. DyingUnreferenced'
      BY <1>18, SMTT(60), <2>a DEF Unmap
    <2>7. MappedOK'
      BY <1>18, SMTT(60), <2>a DEF Unmap
    <2>8. (MappedKnown /\ SingleMapping)'
      BY <1>18, SMTT(60), <2>a DEF Unmap
    <2> QED BY <2>1, <2>2, <2>3, <2>4, <2>5, <2>6, <2>7, <2>8 DEF Inv
  <1>19. ASSUME NEW t \in Threads, Release(t) PROVE Inv'
    <2>1. (FlightsOwned /\ Exclusive /\ BorrowersOpen /\ HeldOK)'
      BY <1>19 DEF Release
    <2>2. (Recorded /\ DyingUnreferenced)'
      BY <1>19 DEF Release
    <2>3. (MappedOK /\ MappedKnown /\ SingleMapping)'
      BY <1>19 DEF Release
    <2> QED BY <2>1, <2>2, <2>3 DEF Inv
  <1>20. ASSUME NEW t \in Threads, Notify(t) PROVE Inv'
    <2>1. (FlightsOwned /\ Exclusive /\ BorrowersOpen /\ HeldOK)'
      BY <1>20 DEF Notify, FreeInner, CacheOnly
    <2>2. (Recorded /\ DyingUnreferenced)'
      BY <1>20 DEF Notify, FreeInner, CacheOnly
    <2>3. MappedOK'
      BY <1>20, SMTT(60) DEF Notify, FreeInner, CacheOnly
    <2>4. (MappedKnown /\ SingleMapping)'
      BY <1>20, SMTT(60) DEF Notify, FreeInner, CacheOnly
    <2> QED BY <2>1, <2>2, <2>3, <2>4 DEF Inv
  <1>21. ASSUME NEW t \in Threads, ReturnError(t) PROVE Inv'
    BY <1>21 DEF ReturnError, ClearCall
  <1>22. ASSUME NEW t \in Threads, SpuriousWake(t) PROVE Inv'
    BY <1>22, SMTT(60) DEF SpuriousWake
  <1>23. ASSUME NEW t \in Threads, Reenter(t) PROVE Inv'
    BY <1>23 DEF Reenter
  <1>24. ASSUME NEW t \in Threads, DropLease(t) PROVE Inv'
    <2>1. (FlightsOwned /\ Exclusive /\ BorrowersOpen /\ HeldOK)'
      BY <1>24 DEF DropLease, DropThen
    <2>2. (Recorded /\ DyingUnreferenced)'
      BY <1>24 DEF DropLease, DropThen
    <2>3. (MappedOK /\ MappedKnown /\ SingleMapping)'
      BY <1>24 DEF DropLease, DropThen
    <2> QED BY <2>1, <2>2, <2>3 DEF Inv
  <1>25. ASSUME NEW t \in Threads, NEW i \in Identities, Request(t, i) PROVE
     Inv'
    <2>1. (FlightsOwned /\ Exclusive /\ BorrowersOpen /\ HeldOK)'
      BY <1>25, SMTT(60) DEF Request
    <2>2. (Recorded /\ DyingUnreferenced)'
      BY <1>25, SMTT(60) DEF Request
    <2>3. (MappedOK /\ MappedKnown /\ SingleMapping)'
      BY <1>25, SMTT(60) DEF Request
    <2> QED BY <2>1, <2>2, <2>3 DEF Inv
  <1>26. ASSUME NEW t \in Threads, NEW h \in Handles, CloneLease(t, h) PROVE
     Inv'
    BY <1>26 DEF CloneLease
  <1>27. ASSUME NEW t \in Threads, NEW h \in Handles, DropClone(t, h) PROVE
     Inv'
    <2>1. (FlightsOwned /\ Exclusive /\ BorrowersOpen /\ HeldOK)'
      BY <1>27 DEF DropClone, DropThen
    <2>2. (Recorded /\ DyingUnreferenced)'
      BY <1>27 DEF DropClone, DropThen
    <2>3. (MappedOK /\ MappedKnown /\ SingleMapping)'
      BY <1>27 DEF DropClone, DropThen
    <2> QED BY <2>1, <2>2, <2>3 DEF Inv
  <1>28. ASSUME DropCache PROVE Inv'
    <2>1. (FlightsOwned /\ Exclusive /\ BorrowersOpen /\ HeldOK)'
      BY <1>28 DEF DropCache, FreeInner, CacheOnly
    <2>2. (Recorded /\ DyingUnreferenced)'
      BY <1>28 DEF DropCache, FreeInner, CacheOnly
    <2>3. (MappedOK /\ MappedKnown /\ SingleMapping)'
      BY <1>28 DEF DropCache, FreeInner, CacheOnly
    <2> QED BY <2>1, <2>2, <2>3 DEF Inv
  <1>29. ASSUME NEW t \in Threads, pc[t] = "nested", RefuseReentrant(t)
         PROVE  Inv'
    BY <1>29 DEF RefuseReentrant
  <1>30. CASE UNCHANGED vars
    BY <1>30 DEF vars
  <1> QED
    BY <1>0, <1>1, <1>2, <1>3, <1>4, <1>5, <1>6, <1>7, <1>8, <1>9, <1>10, <1>11,
       <1>12, <1>13, <1>14, <1>15, <1>16, <1>17, <1>18, <1>19, <1>20, <1>21,
       <1>22, <1>23, <1>24, <1>25, <1>26, <1>27, <1>28, <1>29,
       <1>30
    DEF Next, Step, Finished, AfterLookup

THEOREM Invariance == Spec => []Inv
  <1>1. Inv => TypeInv BY DEF Inv
  <1> QED BY <1>1, InitInv, NextInv, NextTypeInv, PTL DEF Spec

-----------------------------------------------------------------------------
(* What the invariant gives.                                               *)

\* At most one executable mapping per identity, for any number of threads:
\* single flight, the live registry and the retirement wait together.
THEOREM MappingUnique == Spec => []SingleMapping
  <1>1. Inv => SingleMapping BY DEF Inv
  <1> QED BY <1>1, Invariance, PTL

\* A lease is callable until it is dropped: no eviction, reclamation or drop
\* of the cache unmaps a kernel that somebody references.
THEOREM LeaseSafety == Spec => []LeasesCallable
  <1>1. Inv => LeasesCallable BY DEF Inv, MappedOK
  <1> QED BY <1>1, Invariance, PTL

\* No mapping escapes the accounting: the charge, or the flight, outlives it.
THEOREM MappingsCovered == Spec => []MappedIsCovered
  <1>1. ASSUME Inv PROVE MappedIsCovered
    <2>1. SUFFICES ASSUME InnerAlive, NEW k \in mapped, k \notin live
                   PROVE  \E f \in flights : /\ f.identity = k.identity
                                             /\ f.generation = k.token
      BY DEF MappedIsCovered
    <2>2. PICK t \in Threads : HasCandidate(t) /\ k = Candidate(t)
      BY <1>1, <2>1 DEF Inv, MappedKnown
    <2>3. FlightFor(t) \in flights
      BY <1>1, <2>2 DEF Inv, FlightsOwned, HasCandidate, Building
    <2> QED BY <2>2, <2>3 DEF FlightFor, Candidate
  <1> QED BY <1>1, Invariance, PTL

\* Sleeping waiters: every action that takes away what a waiter waits for
\* leaves its thread in front of notify_all.
LEMMA NextWakeup == Inv /\ NoLostWakeup /\ [Next]_vars => NoLostWakeup'
  <1> SUFFICES ASSUME Inv, NoLostWakeup, [Next]_vars PROVE NoLostWakeup'
    OBVIOUS
  <1>0. \A t \in Threads : /\ AfterLookup(t) => pc[t] = "lookup"
                           /\ RefuseReentrant(t) => pc[t] = "nested"
    BY OuterLookup
  <1> USE DEF NoLostWakeup, LiveOf, FlightsOf, Strong, Resident, Referenced,
        Inv, TypeInv, TypeOK, PCs, tables, counters, clocks, locals, Go
  <1>1. ASSUME NEW t \in Threads, pc[t] = "lookup",
               HitEntry(t) PROVE NoLostWakeup'
    BY <1>1 DEF HitEntry, ClearCall, EntriesOf, NextClock
  <1>2. ASSUME NEW t \in Threads, pc[t] = "lookup",
               HitLive(t) PROVE NoLostWakeup'
    BY <1>2, SMTT(60) DEF HitLive, ClearCall, LiveOf, EntriesOf
  <1>3. ASSUME NEW t \in Threads, pc[t] = "lookup",
               WaitRetiring(t) PROVE NoLostWakeup'
    BY <1>3, SMTT(60) DEF WaitRetiring, Wait
  <1>4. ASSUME NEW t \in Threads, pc[t] = "lookup",
               WaitFlight(t) PROVE NoLostWakeup'
    BY <1>4 DEF WaitFlight, Wait
  <1>5. ASSUME NEW t \in Threads, Rewake(t) PROVE NoLostWakeup'
    BY <1>5 DEF Rewake
  <1>6. ASSUME NEW t \in Threads, pc[t] = "lookup",
               RefuseFlight(t) PROVE NoLostWakeup'
    BY <1>6, SMTT(60) DEF RefuseFlight
  <1>7. ASSUME NEW t \in Threads, pc[t] = "lookup",
               StartFlight(t) PROVE NoLostWakeup'
    BY <1>7, SMTT(60) DEF StartFlight, MayLaunch, Launch, Absent, LiveOf,
       FlightsOf
  <1>8. ASSUME NEW t \in Threads, pc[t] = "lookup",
               EvictAndStartFlight(t) PROVE NoLostWakeup'
    BY <1>8, SMTT(60) DEF EvictAndStartFlight, MayLaunch, Launch, DropThen,
       LeastRecent, Absent, LiveOf, FlightsOf
  <1>9. ASSUME NEW t \in Threads, BuildPublished(t) PROVE NoLostWakeup'
    <2>1. Building(t)
      BY <1>9 DEF BuildPublished, Building
    <2>2. \A k \in live : k # Candidate(t)
      BY <2>1, FlightAlone DEF Candidate
    <2> QED BY <1>9, <2>2 DEF BuildPublished
  <1>10. ASSUME NEW t \in Threads, BuildFailed(t) PROVE NoLostWakeup'
    BY <1>10 DEF BuildFailed
  <1>11. ASSUME NEW t \in Threads, DropCandidate(t) PROVE NoLostWakeup'
    BY <1>11, SMTT(60) DEF DropCandidate
  <1>12. ASSUME NEW t \in Threads, FinishFailed(t) PROVE NoLostWakeup'
    BY <1>12 DEF FinishFailed, RemoveFlight, NotifyThen
  <1>13. ASSUME NEW t \in Threads, Admit(t) PROVE NoLostWakeup'
    BY <1>13 DEF Admit, RemoveFlight, NotifyThen, ClearCall, NextClock
  <1>14. ASSUME NEW t \in Threads, AdmitEvict(t) PROVE NoLostWakeup'
    BY <1>14 DEF AdmitEvict, DropThen, LeastRecent, CacheOnly
  <1>15. ASSUME NEW t \in Threads, AdmitRefuse(t) PROVE NoLostWakeup'
    BY <1>15 DEF AdmitRefuse
  <1>16. ASSUME NEW t \in Threads, DropShared(t) PROVE NoLostWakeup'
    BY <1>16 DEF DropShared
  <1>17. ASSUME NEW t \in Threads, DropLast(t) PROVE NoLostWakeup'
    BY <1>17 DEF DropLast, IsLast
  <1>18. ASSUME NEW t \in Threads, Unmap(t) PROVE NoLostWakeup'
    BY <1>18 DEF Unmap
  <1>19. ASSUME NEW t \in Threads, Release(t) PROVE NoLostWakeup'
    BY <1>19 DEF Release
  <1>20. ASSUME NEW t \in Threads, Notify(t) PROVE NoLostWakeup'
    BY <1>20 DEF Notify, FreeInner, CacheOnly, BorrowersOpen, Borrows
  <1>21. ASSUME NEW t \in Threads, ReturnError(t) PROVE NoLostWakeup'
    BY <1>21 DEF ReturnError, ClearCall
  <1>22. ASSUME NEW t \in Threads, SpuriousWake(t) PROVE NoLostWakeup'
    BY <1>22, SMTT(60) DEF SpuriousWake
  <1>23. ASSUME NEW t \in Threads, Reenter(t) PROVE NoLostWakeup'
    BY <1>23 DEF Reenter
  <1>24. ASSUME NEW t \in Threads, DropLease(t) PROVE NoLostWakeup'
    BY <1>24 DEF DropLease, DropThen
  <1>25. ASSUME NEW t \in Threads, NEW i \in Identities, Request(t, i) PROVE
     NoLostWakeup'
    BY <1>25 DEF Request
  <1>26. ASSUME NEW t \in Threads, NEW h \in Handles, CloneLease(t, h) PROVE
     NoLostWakeup'
    BY <1>26 DEF CloneLease
  <1>27. ASSUME NEW t \in Threads, NEW h \in Handles, DropClone(t, h) PROVE
     NoLostWakeup'
    BY <1>27 DEF DropClone, DropThen
  <1>28. ASSUME DropCache PROVE NoLostWakeup'
    BY <1>28 DEF DropCache, FreeInner, CacheOnly, BorrowersOpen, Borrows
  <1>29. ASSUME NEW t \in Threads, pc[t] = "nested", RefuseReentrant(t)
         PROVE  NoLostWakeup'
    BY <1>29 DEF RefuseReentrant
  <1>30. CASE UNCHANGED vars
    BY <1>30 DEF vars
  <1> QED
    BY <1>0, <1>1, <1>2, <1>3, <1>4, <1>5, <1>6, <1>7, <1>8, <1>9, <1>10, <1>11,
       <1>12, <1>13, <1>14, <1>15, <1>16, <1>17, <1>18, <1>19, <1>20, <1>21,
       <1>22, <1>23, <1>24, <1>25, <1>26, <1>27, <1>28, <1>29,
       <1>30
    DEF Next, Step, Finished, AfterLookup

\* No wake-up is lost, although the code unlocks before it notifies and the
\* condition variable is shared by all identities.
THEOREM WakeupSafety == Spec => []NoLostWakeup
  <1>1. Init => NoLostWakeup BY DEF Init, NoLostWakeup
  <1> QED BY <1>1, NextWakeup, Invariance, PTL DEF Spec
-----------------------------------------------------------------------------
(* Sums over finite sets of kernels.                                       *)

\* How MapThenSumSet goes through a set, and the recursion it uses.
Pick(s) == CHOOSE x \in s : TRUE

Recurrence(g, S, r) ==
    g = [s \in SUBSET S |->
           IF s = {} THEN 0
           ELSE Cost[Pick(s).identity][r]
                  + g[s \ {Pick(s)}]]

\* ChargedFor is the value of that recursive function on the whole set.
LEMMA ChargedDef ==
    ASSUME NEW S, NEW r
    PROVE  ChargedFor(S, r) = (CHOOSE g : Recurrence(g, S, r))[S]
  BY Zenon DEF ChargedFor, MapThenSumSet, MapThenFoldSet, Recurrence, Pick

\* Induction over finite sets, as a fact that mentions no predicate: a non-
\* empty family of subsets of a finite set has a minimal member.  Each
\* induction below is applied to the family of counterexamples.
LEMMA FiniteMinimal ==
    ASSUME NEW S, IsFiniteSet(S), NEW B \in SUBSET (SUBSET S), B # {}
    PROVE  \E T \in B : \A U \in B : U \subseteq T => U = T
  <1>1. IsWellFoundedOn(StrictSubsetOrdering(S), SUBSET S)
    BY FS_StrictSubsetOrderingWellFounded, FS_FiniteSubsetsOfFinite
  <1>2. PICK T \in B : \A U \in B : <<U, T>> \notin StrictSubsetOrdering(S)
    BY <1>1, WFMin
  <1>3. ASSUME NEW U \in B, U \subseteq T PROVE U = T
    <2>1. <<U, T>> \in (SUBSET S) \X (SUBSET S)
      OBVIOUS
    <2> QED BY <1>2, <1>3, <2>1 DEF StrictSubsetOrdering
  <1> QED BY <1>2, <1>3

\* g adds up the charges of every subset of S, in whatever order.
Additive(g, S, r) ==
    /\ g \in [SUBSET S -> Nat]
    /\ g[{}] = 0
    /\ \A s \in SUBSET S : \A x \in S \ s :
           g[s \cup {x}] = g[s] + Cost[x.identity][r]

\* An additive function can be extended to one more kernel.
LEMMA AdditiveExtends ==
    ASSUME NEW S \in SUBSET Kernels, NEW k \in Kernels, k \notin S,
           NEW r \in Resources, NEW g, Additive(g, S, r)
    PROVE  \E h : Additive(h, S \cup {k}, r)
  <1> DEFINE h == [s \in SUBSET (S \cup {k}) |->
                     g[s \ {k}] + IF k \in s THEN Cost[k.identity][r] ELSE 0]
  <1>0. \A x \in S \cup {k} : Cost[x.identity][r] \in Nat
    BY LimitsAssumption DEF Kernels
  <1>1. \A s \in SUBSET (S \cup {k}) : s \ {k} \in SUBSET S
    OBVIOUS
  <1>2. h \in [SUBSET (S \cup {k}) -> Nat]
    BY <1>0, <1>1 DEF Additive
  <1>3. h[{}] = 0
    <2>1. {} \ {k} = {} /\ {} \in SUBSET (S \cup {k})
      OBVIOUS
    <2> QED BY <2>1 DEF Additive
  <1>4. ASSUME NEW s \in SUBSET (S \cup {k}), NEW x \in (S \cup {k}) \ s
        PROVE  h[s \cup {x}] = h[s] + Cost[x.identity][r]
    <2>a. g[s \ {k}] \in Nat /\ Cost[x.identity][r] \in Nat
          /\ s \cup {x} \in SUBSET (S \cup {k})
      BY <1>0, <1>1 DEF Additive
    <2>b. /\ h[s] = g[s \ {k}] + IF k \in s THEN Cost[k.identity][r] ELSE 0
          /\ h[s \cup {x}] = g[(s \cup {x}) \ {k}]
                + IF k \in s \cup {x} THEN Cost[k.identity][r] ELSE 0
      BY <2>a
    <2> HIDE DEF h
    <2>1. CASE x = k
      <3>1. (s \cup {x}) \ {k} = s \ {k} /\ k \notin s
        BY <2>1
      <3>2. h[s] = g[s \ {k}] + 0
        BY <2>b, <3>1
      <3>3. h[s \cup {x}] = g[s \ {k}] + Cost[k.identity][r]
        BY <2>1, <2>b, <3>1
      <3> QED BY <2>1, <2>a, <3>2, <3>3
    <2>2. CASE x # k
      <3>1. (s \cup {x}) \ {k} = (s \ {k}) \cup {x} /\ x \in S \ (s \ {k})
        BY <2>2
      <3>2. g[(s \cup {x}) \ {k}] = g[s \ {k}] + Cost[x.identity][r]
        BY <1>1, <3>1 DEF Additive
      <3>3. k \in s \cup {x} <=> k \in s
        BY <2>2
      <3>4. Cost[k.identity][r] \in Nat BY <1>0
      <3> QED BY <2>a, <2>b, <3>2, <3>3, <3>4
    <2> QED BY <2>1, <2>2
  <1>5. Additive(h, S \cup {k}, r)
    <2> HIDE DEF h
    <2> QED BY <1>2, <1>3, <1>4 DEF Additive
  <1> QED BY <1>5, Zenon

\* Every finite set of kernels has an additive function.
LEMMA AdditiveExists ==
    ASSUME NEW S \in SUBSET Kernels, IsFiniteSet(S), NEW r \in Resources
    PROVE  \E g : Additive(g, S, r)
  <1> DEFINE B == {T \in SUBSET S : ~ \E g : Additive(g, T, r)}
  <1>1. SUFFICES ASSUME B # {} PROVE FALSE
    BY Zenon
  <1>2. PICK T \in B : \A U \in B : U \subseteq T => U = T
    <2> HIDE DEF B
    <2>1. B \in SUBSET (SUBSET S)
       BY DEF B
    <2> QED BY <1>1, <2>1, FiniteMinimal
  <1>3. CASE T = {}
    <2>1. Additive([s \in SUBSET {} |-> 0], {}, r)
      BY DEF Additive
    <2> QED BY <1>2, <1>3, <2>1, Zenon
  <1>4. CASE T # {}
    <2>1. PICK x \in T : TRUE BY <1>4
    <2>2. T \ {x} \in SUBSET S /\ T \ {x} \notin B
      BY <1>2, <2>1
    <2>3. PICK g : Additive(g, T \ {x}, r)
      BY <2>2
    <2>4. T \ {x} \in SUBSET Kernels /\ x \in Kernels /\ x \notin T \ {x}
      BY <1>2
    <2>5. \E h : Additive(h, (T \ {x}) \cup {x}, r)
      BY <2>3, <2>4, AdditiveExtends
    <2>6. (T \ {x}) \cup {x} = T
      BY <2>1
    <2>7. \E h : Additive(h, T, r)
      BY <2>5, <2>6
    <2> QED BY <1>2, <2>7
  <1> QED BY <1>3, <1>4

\* An additive function satisfies the recursion of MapThenSumSet.
LEMMA AdditiveRecurrence ==
    ASSUME NEW S \in SUBSET Kernels, NEW r \in Resources, NEW g,
           Additive(g, S, r)
    PROVE  Recurrence(g, S, r)
  <1>1. ASSUME NEW s \in SUBSET S, s # {}
        PROVE  g[s] = Cost[Pick(s).identity][r]
                  + g[s \ {Pick(s)}]
    <2> DEFINE y == Pick(s)
    <2>1. y \in s BY <1>1 DEF Pick
    <2> HIDE DEF y
    <2>2. s \ {y} \in SUBSET S /\ y \in S \ (s \ {y}) /\ (s \ {y}) \cup {y} = s
      BY <2>1
    <2>3. g[s] = g[s \ {y}] + Cost[y.identity][r]
      BY <2>2 DEF Additive
    <2>4. g[s \ {y}] \in Nat /\ Cost[y.identity][r] \in Nat
      BY <2>2, LimitsAssumption DEF Additive, Kernels
    <2>5. g[s] = Cost[y.identity][r] + g[s \ {y}]
      BY <2>3, <2>4
    <2> QED BY <2>5, Zenon DEF y
  <1>2. g = [s \in SUBSET S |-> g[s]]
    BY DEF Additive
  <1> DEFINE rec == [s \in SUBSET S |->
           IF s = {} THEN 0
           ELSE Cost[Pick(s).identity][r]
                  + g[s \ {Pick(s)}]]
  <1>3. \A s \in SUBSET S : g[s] = rec[s]
    BY <1>1, Zenon DEF Additive
  <1>4. g = rec
    <2>1. rec = [s \in SUBSET S |-> rec[s]]
      OBVIOUS
    <2> HIDE DEF rec
    <2>2. [s \in SUBSET S |-> g[s]] = [s \in SUBSET S |-> rec[s]]
      BY <1>3
    <2> QED BY <1>2, <2>1, <2>2, Zenon
  <1> QED BY <1>4, Zenon DEF Recurrence

\* The recursion of MapThenSumSet has one solution on a finite set.
LEMMA RecurrenceUnique ==
    ASSUME NEW S, IsFiniteSet(S), NEW r, NEW g, NEW h,
           Recurrence(g, S, r), Recurrence(h, S, r)
    PROVE  g[S] = h[S]
  <1> DEFINE B == {T \in SUBSET S : g[T] # h[T]}
  <1>1. SUFFICES ASSUME B # {} PROVE FALSE
    BY Zenon
  <1>2. PICK T \in B : \A U \in B : U \subseteq T => U = T
    <2> HIDE DEF B
    <2>1. B \in SUBSET (SUBSET S)
       BY DEF B
    <2> QED BY <1>1, <2>1, FiniteMinimal
  <1>3. \A s \in SUBSET S : /\ s = {} => g[s] = h[s]
                            /\ s # {} => /\ g[s] = Cost[Pick(s).identity][r]
                                                     + g[s \ {Pick(s)}]
                                         /\ h[s] = Cost[Pick(s).identity][r]
                                                     + h[s \ {Pick(s)}]
    BY Zenon DEF Recurrence
  <1> DEFINE y == Pick(T)
  <1>4. T # {}
    BY <1>2, <1>3
  <1>5. y \in T BY <1>4 DEF Pick
  <1>6. T \ {y} \in SUBSET S /\ T \ {y} \notin B
    <2> HIDE DEF y
    <2> QED BY <1>2, <1>5
  <1>7. g[T \ {y}] = h[T \ {y}]
    BY <1>6
  <1>8. g[T] = Cost[y.identity][r] + g[T \ {y}]
        /\ h[T] = Cost[y.identity][r] + h[T \ {y}]
    BY <1>2, <1>3, <1>4, Zenon
  <1> QED BY <1>2, <1>7, <1>8, Zenon

\* ChargedFor is what any additive function gives the whole set.
LEMMA ChargedIs ==
    ASSUME NEW S \in SUBSET Kernels, IsFiniteSet(S), NEW r \in Resources,
           NEW g, Additive(g, S, r)
    PROVE  ChargedFor(S, r) = g[S]
  <1>1. Recurrence(g, S, r) BY AdditiveRecurrence
  <1>2. Recurrence(CHOOSE h : Recurrence(h, S, r), S, r)
    BY <1>1, Zenon
  <1> QED BY <1>1, <1>2, RecurrenceUnique, ChargedDef, Zenon

\* No kernel, no charge.
LEMMA ChargedEmpty ==
    ASSUME NEW r \in Resources
    PROVE  ChargedFor({}, r) = 0
  <1>1. Additive([s \in SUBSET {} |-> 0], {}, r)
      BY DEF Additive
  <1>2. ChargedFor({}, r) = [s \in SUBSET {} |-> 0][{}]
    BY <1>1, ChargedIs, FS_EmptySet
  <1> QED BY <1>2

\* A kernel that is admitted adds its cost to the aggregate charge.
LEMMA ChargedAdd ==
    ASSUME NEW S \in SUBSET Kernels, IsFiniteSet(S), NEW r \in Resources,
           NEW k \in Kernels, k \notin S
    PROVE  /\ ChargedFor(S, r) \in Nat
           /\ ChargedFor(S \cup {k}, r)
                = ChargedFor(S, r) + Cost[k.identity][r]
  <1>1. S \cup {k} \in SUBSET Kernels /\ IsFiniteSet(S \cup {k})
    BY FS_AddElement
  <1>2. PICK g : Additive(g, S \cup {k}, r)
    BY <1>1, AdditiveExists
  <1> DEFINE h == [s \in SUBSET S |-> g[s]]
  <1>3. Additive(h, S, r)
    BY <1>2 DEF Additive
  <1>4. ChargedFor(S \cup {k}, r) = g[S \cup {k}]
    BY <1>1, <1>2, ChargedIs
  <1>5. ChargedFor(S, r) = h[S]
    BY <1>3, ChargedIs
  <1>6. g[S \cup {k}] = g[S] + Cost[k.identity][r] /\ g[S] \in Nat
    BY <1>2 DEF Additive
  <1> QED BY <1>4, <1>5, <1>6

\* A kernel that is released takes its cost away again.
LEMMA ChargedRemove ==
    ASSUME NEW S \in SUBSET Kernels, IsFiniteSet(S), NEW r \in Resources,
           NEW k \in S
    PROVE  /\ ChargedFor(S \ {k}, r) \in Nat
           /\ ChargedFor(S, r) = ChargedFor(S \ {k}, r) + Cost[k.identity][r]
  <1>1. S \ {k} \in SUBSET Kernels /\ IsFiniteSet(S \ {k})
        /\ k \notin S \ {k} /\ k \in Kernels
    BY FS_RemoveElement
  <1>2. (S \ {k}) \cup {k} = S OBVIOUS
  <1> QED BY <1>1, <1>2, ChargedAdd
-----------------------------------------------------------------------------
(* Accounting: each counter counts its table.                              *)

\* While Inner exists each counter counts its table.
Accounts ==
    InnerAlive =>
        /\ consistent
        /\ IsFiniteSet(entries) /\ current["entries"] = Cardinality(entries)
        /\ IsFiniteSet(flights)
        /\ current["in_flight_builds"] = Cardinality(flights)
        /\ current["reserved_entries"] = Cardinality(flights)
        /\ IsFiniteSet(Waiters) /\ current["waiters"] = Cardinality(Waiters)
        /\ IsFiniteSet(live)
        /\ \A r \in Resources : current[r] = ChargedFor(live, r)

\* Only a request that has waited or has started a flight is classified, and
\* a call that has returned leaves no mark.
ClassifiedOK ==
    \A t \in Threads :
        /\ pc[t] \in {"waiting", "woken"} => classified[t]
        /\ pc[t] \in {"idle", "holding"} => ~classified[t]
        /\ pc[t] \in DropPath /\ cont[t] \in {"idle", "holding"}
              => ~classified[t]

\* Each request has been counted once, or is still before its first round.
Classification ==
    /\ ClassifiedOK
    /\ IsFiniteSet(Unclassified)
    /\ totals["hits"] + totals["misses"] + Cardinality(Unclassified)
       = requests

\* No action brings a freed Inner back: a destructor that could not upgrade
\* its owner never touches the tables.
LEMMA InnerStaysFreed ==
    ASSUME Inv, [Next]_vars, InnerAlive'
    PROVE  InnerAlive
  <1> USE DEF InnerAlive, Go, tables, counters, clocks, locals
  <1>1. ASSUME NEW t \in Threads,
               pc[t] \in {"finish_error", "finish_panic", "unflight",
               "admit"} PROVE InnerAlive
    BY <1>1, FlightAlone DEF Inv, Building
  <1>2. CASE UNCHANGED vars
    BY <1>2 DEF vars
  <1>3. ASSUME NEW t \in Threads, Step(t) PROVE InnerAlive
    <2>0. CASE \/ FinishFailed(t) \/ Admit(t) \/ Unmap(t) \/ Release(t)
      BY <2>0, <1>1 DEF FinishFailed, Admit, Unmap, Release, Inv, TypeInv,
          TypeOK
    <2>1. CASE HitEntry(t) \/ HitLive(t) \/ WaitRetiring(t) \/ WaitFlight(t)
      BY <2>1 DEF HitEntry, HitLive, WaitRetiring, WaitFlight, Wait, Inv,
          TypeInv, TypeOK
    <2>2. CASE \/ Rewake(t) \/ RefuseFlight(t) \/ StartFlight(t)
               \/ EvictAndStartFlight(t) \/ RefuseReentrant(t)
      BY <2>2 DEF Rewake, RefuseFlight, RefuseReentrant, StartFlight, EvictAndStartFlight,
          Launch, DropThen, Inv, TypeInv, TypeOK
    <2>3. CASE \/ BuildPublished(t) \/ BuildFailed(t) \/ DropCandidate(t)
               \/ AdmitEvict(t)
               \/ AdmitRefuse(t)
      BY <2>3 DEF BuildPublished, BuildFailed, DropCandidate, AdmitEvict,
          AdmitRefuse, DropThen, Inv, TypeInv, TypeOK
    <2>4. CASE DropShared(t) \/ DropLast(t) \/ Notify(t) \/ ReturnError(t)
      BY <2>4 DEF DropShared, DropLast, Notify, ReturnError, Inv, TypeInv,
          TypeOK
    <2> QED BY <1>3, <2>0, <2>1, <2>2, <2>3, <2>4 DEF Step
  <1>4. ASSUME NEW t \in Threads, SpuriousWake(t) \/ Reenter(t)
               \/ DropLease(t) PROVE InnerAlive
    BY <1>4 DEF SpuriousWake, Reenter, DropLease, DropThen, Inv, TypeInv,
        TypeOK
  <1>5. ASSUME NEW t \in Threads, NEW i \in Identities, Request(t, i)
               PROVE InnerAlive
    BY <1>5 DEF Request
  <1>6. ASSUME NEW t \in Threads, NEW h \in Handles, CloneLease(t, h)
               \/ DropClone(t, h) PROVE InnerAlive
    BY <1>6 DEF CloneLease, DropClone, DropThen, Inv, TypeInv, TypeOK
  <1>7. CASE DropCache
    BY <1>7 DEF DropCache
  <1> QED BY <1>2, <1>3, <1>4, <1>5, <1>6, <1>7 DEF Next, Finished
\* The counters of CacheUsage are distinct.
LEMMA UsageNames ==
    /\ \A r \in Resources :
         /\ r \in Usage
         /\ r \notin {"entries", "reserved_entries"}
         /\ r \notin {"in_flight_builds", "waiters"}
    /\ {"entries", "reserved_entries"} \subseteq Usage
    /\ {"in_flight_builds", "waiters"} \subseteq Usage
  BY DEF Usage, Resources

\* What the charges of State hold for each counter.
LEMMA ChargeValue ==
    /\ \A S : /\ Charge(S) \in [Usage -> Nat]
              /\ \A u \in Usage : Charge(S)[u] = IF u \in S THEN 1 ELSE 0
    /\ \A i \in Identities :
         /\ ChargeOf(i) \in [Usage -> Nat]
         /\ AdmissionOf(i) \in [Usage -> Nat]
         /\ \A r \in Resources : /\ ChargeOf(i)[r] = Cost[i][r]
                                 /\ AdmissionOf(i)[r] = Cost[i][r]
         /\ \A u \in Usage \ Resources :
              /\ ChargeOf(i)[u] = 0
              /\ AdmissionOf(i)[u] = IF u = "entries" THEN 1 ELSE 0
  BY LimitsAssumption DEF Charge, ChargeOf, AdmissionOf, Usage

\* current after an addition.
LEMMA PlusValue ==
    ASSUME current \in [Usage -> Nat], NEW more \in [Usage -> Nat],
           current' = Plus(more)
    PROVE  \A u \in Usage : current'[u] = current[u] + more[u]
  BY DEF Plus

\* A decrement that does not underflow is exact, and keeps
\* accounting_consistent.
LEMMA ExchangeValue ==
    ASSUME current \in [Usage -> Nat], consistent \in BOOLEAN,
           NEW less \in [Usage -> Nat], NEW more \in [Usage -> Nat],
           \A u \in Usage : current[u] >= less[u], Exchange(less, more)
    PROVE  /\ consistent' = consistent
           /\ \A u \in Usage : current'[u] = current[u] - less[u] + more[u]
  BY DEF Exchange, Minus

\* The same for a decrement alone.
LEMMA SubtractValue ==
    ASSUME current \in [Usage -> Nat], consistent \in BOOLEAN,
           NEW less \in [Usage -> Nat],
           \A u \in Usage : current[u] >= less[u], Subtract(less)
    PROVE  /\ consistent' = consistent
           /\ \A u \in Usage : current'[u] = current[u] - less[u]
  BY DEF Subtract, Minus

\* A step that neither enters nor leaves the wait leaves the waiters alone.
LEMMA SameWaiters ==
    ASSUME pc \in [Threads -> PCs], NEW t \in Threads, NEW l, Go(t, l),
           pc[t] \notin {"waiting", "woken"}, l \notin {"waiting", "woken"}
    PROVE  Waiters' = Waiters
  BY DEF Waiters, Go

\* A step that touches neither a table nor a counter keeps the accounts.
LEMMA SameAccounts ==
    ASSUME Accounts, InnerAlive' => InnerAlive, Waiters' = Waiters,
           UNCHANGED <<entries, flights, live, current, consistent>>
    PROVE  Accounts'
  BY DEF Accounts

\* A table with one element more, or one less.
LEMMA CardinalitySteps ==
    ASSUME NEW S, IsFiniteSet(S), NEW x
    PROVE  /\ Cardinality(S) \in Nat
           /\ x \notin S => /\ IsFiniteSet(S \cup {x})
                            /\ Cardinality(S \cup {x}) = Cardinality(S) + 1
           /\ x \in S => /\ IsFiniteSet(S \ {x})
                         /\ Cardinality(S \ {x}) = Cardinality(S) - 1
                         /\ Cardinality(S) >= 1
  <1>1. x \in S => Cardinality(S) # 0 BY FS_EmptySet
  <1> QED BY <1>1, FS_AddElement, FS_RemoveElement, FS_CardinalityType

\* A kernel is resident at most once.
EntriesDistinct == \A e, d \in entries : e.kernel = d.kernel => e = d

\* No action inserts a second entry for a kernel.
LEMMA NextDistinct == Inv /\ EntriesDistinct /\ [Next]_vars => EntriesDistinct'
  <1> SUFFICES ASSUME Inv, EntriesDistinct, [Next]_vars PROVE EntriesDistinct'
    OBVIOUS
  <1> USE DEF EntriesDistinct, tables
  <1>1. ASSUME NEW t \in Threads, HitEntry(t) PROVE EntriesDistinct'
    BY <1>1 DEF HitEntry, EntriesOf
  <1>2. ASSUME NEW t \in Threads, Admit(t) PROVE EntriesDistinct'
    <2>1. ~Resident(Candidate(t))
      BY <1>2, CandidatePrivate DEF Admit, HasCandidate
    <2> QED BY <1>2, <2>1 DEF Admit, Resident
  <1>3. CASE entries' \subseteq entries
    BY <1>3
  <1>4. ASSUME NEW t \in Threads, Step(t), ~HitEntry(t), ~Admit(t)
               PROVE entries' \subseteq entries
    BY <1>4 DEF Step, HitLive, WaitRetiring, WaitFlight, Wait, Rewake,
        RefuseFlight, RefuseReentrant, StartFlight, EvictAndStartFlight,
       Launch, BuildPublished, BuildFailed, DropCandidate, FinishFailed,
           AdmitEvict, AdmitRefuse, DropShared, DropLast, Unmap, Release,
           Notify, FreeInner, ReturnError
  <1>5. ASSUME NEW t \in Threads, SpuriousWake(t) \/ Reenter(t)
               \/ DropLease(t) PROVE entries' \subseteq entries
    BY <1>5 DEF SpuriousWake, Reenter, DropLease
  <1>6. ASSUME NEW t \in Threads, NEW i \in Identities, Request(t, i)
               PROVE entries' \subseteq entries
    BY <1>6 DEF Request
  <1>7. ASSUME NEW t \in Threads, NEW h \in Handles, CloneLease(t, h)
               \/ DropClone(t, h) PROVE entries' \subseteq entries
    BY <1>7 DEF CloneLease, DropClone
  <1>8. CASE DropCache
    BY <1>8 DEF DropCache, FreeInner
  <1>9. CASE UNCHANGED vars
    BY <1>9 DEF vars
  <1> QED BY <1>1, <1>2, <1>3, <1>4, <1>5, <1>6, <1>7, <1>8, <1>9 DEF Next,
      Finished

\* Every action changes the tables and the counters alike.
LEMMA NextAccounts ==
    ASSUME Inv, EntriesDistinct, Accounts, [Next]_vars
    PROVE  Accounts'
  <1>a. InnerAlive' => InnerAlive BY InnerStaysFreed
  <1>b. /\ current \in [Usage -> Nat] /\ consistent \in BOOLEAN
        /\ pc \in [Threads -> PCs] /\ live \in SUBSET Kernels
    BY DEF Inv, TypeInv, TypeOK
  <1> USE DEF tables, counters, clocks, locals, Looks
  <1>1. ASSUME NEW t \in Threads, HitEntry(t) PROVE Accounts'
    <2>1. PICK e \in entries :
             entries' = (entries \ {e}) \cup {[kernel |-> e.kernel,
                 last_used |-> NextClock]}
      BY <1>1 DEF HitEntry, EntriesOf
    <2> DEFINE f == [kernel |-> e.kernel, last_used |-> NextClock]
    <2>2. f \notin entries \ {e}
      BY DEF EntriesDistinct
    <2> HIDE DEF f
    <2>3. IsFiniteSet(entries) => IsFiniteSet(entries')
          /\ Cardinality(entries') = Cardinality(entries)
      <3>1. ASSUME IsFiniteSet(entries) PROVE IsFiniteSet(entries')
                   /\ Cardinality(entries') = Cardinality(entries)
        <4>1. IsFiniteSet(entries \ {e})
              /\ Cardinality(entries \ {e}) = Cardinality(entries) - 1
              /\ Cardinality(entries) \in Nat
          BY <3>1, CardinalitySteps
        <4>2. entries' = (entries \ {e}) \cup {f} BY <2>1 DEF f
        <4> QED BY <2>2, <4>1, <4>2, CardinalitySteps
      <3> QED BY <3>1
    <2>4. Waiters' = Waiters
      BY <1>1, <1>b, SameWaiters DEF HitEntry
    <2> QED BY <1>1, <1>a, <2>3, <2>4 DEF HitEntry, Accounts
  <1>2. ASSUME NEW t \in Threads, WaitRetiring(t) \/ WaitFlight(t)
               PROVE Accounts'
    <2>1. Looks(t) /\ Wait(t)
      BY <1>2 DEF WaitRetiring, WaitFlight
    <2>2. Waiters' = Waiters \cup {t} /\ t \notin Waiters
      BY <2>1, <1>b DEF Wait, Waiters, Go
    <2>3. \A u \in Usage : current'[u] = current[u] + IF u = "waiters" THEN 1
          ELSE 0
      BY <2>1, <1>b, ChargeValue, PlusValue DEF Wait
    <2>4. UNCHANGED <<entries, flights, live, consistent>>
      BY <2>1 DEF Wait
    <2>5. IsFiniteSet(Waiters) => IsFiniteSet(Waiters')
          /\ Cardinality(Waiters') = Cardinality(Waiters) + 1
      BY <2>2, CardinalitySteps
    <2> QED BY <1>a, <1>b, <2>3, <2>4, <2>5, UsageNames DEF Accounts
  <1>3. ASSUME NEW t \in Threads, Rewake(t) PROVE Accounts'
    <2>1. Waiters' = Waiters \ {t} /\ t \in Waiters
      BY <1>3, <1>b DEF Rewake, Waiters, Go
    <2>2. UNCHANGED <<entries, flights, live>>
      BY <1>3 DEF Rewake
    <2>3. SUFFICES ASSUME InnerAlive PROVE Accounts'
      BY <1>a DEF Accounts
    <2>4. /\ IsFiniteSet(Waiters')
          /\ Cardinality(Waiters') = Cardinality(Waiters) - 1
          /\ Cardinality(Waiters) >= 1
      BY <2>1, <2>3, CardinalitySteps DEF Accounts
    <2>5. \A u \in Usage : current[u] >= Charge({"waiters"})[u]
      BY <2>3, <2>4, <1>b, ChargeValue DEF Accounts
    <2>6. /\ consistent' = consistent
          /\ \A u \in Usage :
               current'[u] = current[u] - IF u = "waiters" THEN 1 ELSE 0
      BY <1>3, <1>b, <2>5, ChargeValue, SubtractValue DEF Rewake
    <2>7. /\ current'["waiters"] = current["waiters"] - 1
          /\ \A u \in Usage \ {"waiters"} : current'[u] = current[u]
      BY <1>b, <2>6, UsageNames
    <2> QED BY <2>2, <2>3, <2>4, <2>6, <2>7, UsageNames DEF Accounts
  <1>4. ASSUME NEW t \in Threads, StartFlight(t) PROVE Accounts'
    <2> DEFINE f == [identity |-> req[t], generation |-> generation + 1,
        owner |-> t]
    <2>1. flights' = flights \cup {f} /\ UNCHANGED <<entries, live,
          consistent>>
      BY <1>4 DEF StartFlight, Launch
    <2>2. f \notin flights
      BY <1>4 DEF StartFlight, MayLaunch, FlightsOf
    <2> HIDE DEF f
    <2>3. Waiters' = Waiters
      BY <1>4, <1>b, SameWaiters DEF StartFlight, MayLaunch
    <2>4. SUFFICES ASSUME InnerAlive PROVE Accounts'
      BY <1>a DEF Accounts
    <2>5. IsFiniteSet(flights')
          /\ Cardinality(flights') = Cardinality(flights) + 1
      BY <2>1, <2>2, <2>4, CardinalitySteps DEF Accounts
    <2>6. \A u \in Usage :
          current'[u]
          = current[u] + IF u \in {"in_flight_builds",
          "reserved_entries"} THEN 1 ELSE 0
      BY <1>4, <1>b, ChargeValue, PlusValue DEF StartFlight
    <2>7. /\ current'["in_flight_builds"] = current["in_flight_builds"] + 1
          /\ current'["reserved_entries"] = current["reserved_entries"] + 1
          /\ \A u \in Usage \ {"in_flight_builds", "reserved_entries"} :
               current'[u] = current[u]
      BY <1>b, <2>6, UsageNames
    <2> QED BY <2>1, <2>3, <2>4, <2>5, <2>7, UsageNames DEF Accounts
  <1>5. ASSUME NEW t \in Threads, EvictAndStartFlight(t) PROVE Accounts'
    <2> DEFINE f == [identity |-> req[t], generation |-> generation + 1,
        owner |-> t]
    <2>1. PICK e \in entries : entries' = entries \ {e}
      BY <1>5 DEF EvictAndStartFlight, Launch, LeastRecent
    <2>2. flights' = flights \cup {f} /\ live' = live /\ Go(t, "drop")
          /\ Looks(t)
      BY <1>5 DEF EvictAndStartFlight, Launch, DropThen, MayLaunch
    <2>3. f \notin flights
      BY <1>5 DEF EvictAndStartFlight, MayLaunch, FlightsOf
    <2> HIDE DEF f
    <2>4. Waiters' = Waiters
      BY <2>2, <1>b, SameWaiters
    <2>5. SUFFICES ASSUME InnerAlive PROVE Accounts'
      BY <1>a DEF Accounts
    <2>6. /\ IsFiniteSet(flights')
          /\ Cardinality(flights') = Cardinality(flights) + 1
          /\ IsFiniteSet(entries')
          /\ Cardinality(entries') = Cardinality(entries) - 1
          /\ Cardinality(entries) >= 1
      BY <2>1, <2>2, <2>3, <2>5, CardinalitySteps DEF Accounts
    <2>7. \A u \in Usage : current[u] >= Charge({"entries"})[u]
      BY <2>5, <2>6, <1>b, ChargeValue DEF Accounts
    <2>8. /\ consistent' = consistent
          /\ \A u \in Usage :
               current'[u] = current[u] - (IF u = "entries" THEN 1 ELSE 0)
                                 + (IF u \in {"in_flight_builds",
                                     "reserved_entries"} THEN 1 ELSE 0)
      BY <1>5, <1>b, <2>7, ChargeValue, ExchangeValue DEF EvictAndStartFlight
    <2>9. /\ current'["in_flight_builds"] = current["in_flight_builds"] + 1
          /\ current'["reserved_entries"] = current["reserved_entries"] + 1
          /\ current'["entries"] = current["entries"] - 1
          /\ \A u \in Usage \ {"entries", "in_flight_builds",
               "reserved_entries"} : current'[u] = current[u]
      BY <1>b, <2>8, UsageNames
    <2> QED BY <2>2, <2>4, <2>5, <2>6, <2>8, <2>9, UsageNames DEF Accounts
  <1>6. ASSUME NEW t \in Threads, FinishFailed(t) PROVE Accounts'
    <2>0. pc[t] \in {"finish_error", "finish_panic", "unflight"}
      BY <1>6 DEF FinishFailed
    <2>1. Building(t) BY <2>0 DEF Building
    <2>2. FlightFor(t) \in flights /\ flights' = flights \ {FlightFor(t)}
      BY <1>6, <2>1, OwnFlight DEF FinishFailed, RemoveFlight, Inv,
          FlightsOwned
    <2>3. UNCHANGED <<entries, live>> /\ Go(t, "notify")
      BY <1>6 DEF FinishFailed, NotifyThen
    <2>4. Waiters' = Waiters
      BY <2>0, <2>3, <1>b, SameWaiters
    <2>5. SUFFICES ASSUME InnerAlive PROVE Accounts'
      BY <1>a DEF Accounts
    <2>6. /\ IsFiniteSet(flights')
          /\ Cardinality(flights') = Cardinality(flights) - 1
          /\ Cardinality(flights) >= 1
      BY <2>2, <2>5, CardinalitySteps DEF Accounts
    <2>7. \A u \in Usage :
          current[u] >= Charge({"in_flight_builds", "reserved_entries"})[u]
      BY <2>5, <2>6, <1>b, ChargeValue DEF Accounts
    <2>8. /\ consistent' = consistent
          /\ \A u \in Usage :
               current'[u]
               = current[u] - (IF u \in {"in_flight_builds",
               "reserved_entries"} THEN 1 ELSE 0)
      BY <1>6, <1>b, <2>7, ChargeValue, SubtractValue DEF FinishFailed
    <2>9. /\ current'["in_flight_builds"] = current["in_flight_builds"] - 1
          /\ current'["reserved_entries"] = current["reserved_entries"] - 1
          /\ \A u \in Usage \ {"in_flight_builds", "reserved_entries"} :
               current'[u] = current[u]
      BY <1>b, <2>8, UsageNames
    <2> QED BY <2>3, <2>4, <2>5, <2>6, <2>8, <2>9, UsageNames DEF Accounts
  <1>7. ASSUME NEW t \in Threads, Admit(t) PROVE Accounts'
    <2> DEFINE e == [kernel |-> Candidate(t), last_used |-> NextClock]
    <2>0. pc[t] = "admit" /\ Go(t, "notify") BY <1>7 DEF Admit, NotifyThen
    <2>1. Building(t) /\ HasCandidate(t) /\ req[t] \in Identities
      BY <2>0 DEF Building, HasCandidate, Inv, TypeInv, ReqOK, Requesting
    <2>2. /\ FlightFor(t) \in flights /\ flights' = flights \ {FlightFor(t)}
          /\ entries' = entries \cup {e} /\ live' = live \cup {Candidate(t)}
      BY <1>7, <2>1, OwnFlight DEF Admit, RemoveFlight, Inv, FlightsOwned
    <2>3. e \notin entries /\ Candidate(t) \notin live
      BY <2>1, CandidatePrivate DEF Resident
    <2>c. Candidate(t) \in Kernels /\ Candidate(t).identity = req[t]
      BY <2>1, <1>b DEF Candidate, Kernels, Inv, TypeInv, TypeOK
    <2> HIDE DEF e
    <2>4. Waiters' = Waiters
      BY <2>0, <1>b, SameWaiters
    <2>5. SUFFICES ASSUME InnerAlive PROVE Accounts'
      BY <1>a DEF Accounts
    <2>6. /\ IsFiniteSet(flights')
          /\ Cardinality(flights') = Cardinality(flights) - 1
          /\ Cardinality(flights) >= 1
          /\ IsFiniteSet(entries')
          /\ Cardinality(entries') = Cardinality(entries) + 1
      BY <2>2, <2>3, <2>5, CardinalitySteps DEF Accounts
    <2>k. IsFiniteSet(live')
          /\ \A r \in Resources :
          ChargedFor(live', r) = ChargedFor(live, r) + Cost[req[t]][r]
      BY <2>2, <2>3, <2>5, <2>c, <1>b, CardinalitySteps, ChargedAdd
          DEF Accounts
    <2>7. \A u \in Usage :
          current[u] >= Charge({"in_flight_builds", "reserved_entries"})[u]
      BY <2>5, <2>6, <1>b, ChargeValue DEF Accounts
    <2>8. /\ consistent' = consistent
          /\ \A u \in Usage :
               current'[u]
               = current[u] - Charge({"in_flight_builds",
               "reserved_entries"})[u]
                                 + AdmissionOf(req[t])[u]
      BY <1>7, <1>b, <2>1, <2>7, ChargeValue, ExchangeValue DEF Admit
    <2>9. /\ current'["in_flight_builds"] = current["in_flight_builds"] - 1
          /\ current'["reserved_entries"] = current["reserved_entries"] - 1
          /\ current'["entries"] = current["entries"] + 1
          /\ current'["waiters"] = current["waiters"]
          /\ \A r \in Resources : current'[r] = current[r] + Cost[req[t]][r]
      <3>1. \A r \in Resources : current'[r] = current[r] + Cost[req[t]][r]
        <4>1. SUFFICES ASSUME NEW r \in Resources
                       PROVE  current'[r] = current[r] + Cost[req[t]][r]
          OBVIOUS
        <4>2. /\ AdmissionOf(req[t])[r] = Cost[req[t]][r]
              /\ Charge({"in_flight_builds", "reserved_entries"})[r] = 0
              /\ r \in Usage
          BY <2>1, UsageNames, ChargeValue
        <4>3. Cost[req[t]][r] \in Nat /\ current[r] \in Nat
          BY <1>b, <2>1, <4>2, LimitsAssumption
        <4> QED BY <2>8, <4>2, <4>3
      <3> QED BY <1>b, <2>1, <2>8, <3>1, UsageNames, ChargeValue
    <2> QED BY <2>4, <2>5, <2>6, <2>8, <2>9, <2>k, UsageNames DEF Accounts
  <1>8. ASSUME NEW t \in Threads, AdmitEvict(t) PROVE Accounts'
    <2>1. PICK e \in entries : entries' = entries \ {e}
      BY <1>8 DEF AdmitEvict, LeastRecent, CacheOnly
    <2>2. UNCHANGED <<flights, live>> /\ Go(t, "drop") /\ pc[t] = "admit"
      BY <1>8 DEF AdmitEvict, DropThen
    <2>4. Waiters' = Waiters
      BY <2>2, <1>b, SameWaiters
    <2>5. SUFFICES ASSUME InnerAlive PROVE Accounts'
      BY <1>a DEF Accounts
    <2>6. /\ IsFiniteSet(entries')
          /\ Cardinality(entries') = Cardinality(entries) - 1
          /\ Cardinality(entries) >= 1
      BY <2>1, <2>5, CardinalitySteps DEF Accounts
    <2>7. \A u \in Usage : current[u] >= Charge({"entries"})[u]
      BY <2>5, <2>6, <1>b, ChargeValue DEF Accounts
    <2>8. /\ consistent' = consistent
          /\ \A u \in Usage :
               current'[u] = current[u] - (IF u = "entries" THEN 1 ELSE 0)
      BY <1>8, <1>b, <2>7, ChargeValue, SubtractValue DEF AdmitEvict
    <2>9. /\ current'["entries"] = current["entries"] - 1
          /\ \A u \in Usage \ {"entries"} : current'[u] = current[u]
      BY <1>b, <2>8, UsageNames
    <2> QED BY <2>2, <2>4, <2>5, <2>6, <2>8, <2>9, UsageNames DEF Accounts
  <1>9. ASSUME NEW t \in Threads, Release(t) PROVE Accounts'
    <2>1. PICK k \in retired[t] :
             /\ live' = live \ {k}
             /\ current' = Minus(ChargeOf(k.identity))
             /\ consistent' = (consistent /\ k \in live
                                 /\ \A u \in Usage :
                                      current[u] >= ChargeOf(k.identity)[u])
      BY <1>9 DEF Release
    <2>2. UNCHANGED <<entries, flights>> /\ Go(t, "notify")
          /\ pc[t] = "release"
      BY <1>9 DEF Release
    <2>4. Waiters' = Waiters
      BY <2>2, <1>b, SameWaiters
    <2>5. InnerAlive BY <2>2 DEF InnerAlive
    <2>6. k \in live /\ k \in Kernels /\ k.identity \in Identities
      BY <2>1, <2>5, <1>b DEF Inv, Recorded, Kernels
    <2>7. IsFiniteSet(live') /\ \A r \in Resources : /\ ChargedFor(live',
                                                          r) \in Nat
                                                  /\ ChargedFor(live, r)
                                                       = ChargedFor(live',
                                                       r) + Cost[k.identity][r]
      BY <2>1, <2>5, <2>6, <1>b, CardinalitySteps, ChargedRemove DEF Accounts
    <2>c. \A r \in Resources : Cost[k.identity][r] \in Nat
          /\ current[r] >= Cost[k.identity][r]
      BY <2>5, <2>6, <2>7, LimitsAssumption DEF Accounts
    <2>8. \A u \in Usage : current[u] >= ChargeOf(k.identity)[u]
      BY <2>6, <2>c, <1>b, ChargeValue
    <2>9. \A u \in Usage : current'[u] = current[u] - ChargeOf(k.identity)[u]
      BY <2>1, <2>8, <1>b DEF Minus
    <2>10. /\ \A u \in Usage \ Resources : current'[u] = current[u]
           /\ \A r \in Resources :
                current'[r] = current[r] - Cost[k.identity][r]
      BY <2>6, <2>9, <1>b, ChargeValue, UsageNames
    <2>11. \A r \in Resources : current'[r] = ChargedFor(live', r)
      BY <2>5, <2>7, <2>10, <2>c DEF Accounts
    <2>12. consistent'
      BY <2>1, <2>5, <2>6, <2>8 DEF Accounts
    <2>13. /\ current'["in_flight_builds"] = current["in_flight_builds"]
           /\ current'["reserved_entries"] = current["reserved_entries"]
           /\ current'["entries"] = current["entries"]
           /\ current'["waiters"] = current["waiters"]
      BY <2>10, UsageNames
    <2> QED BY <2>2, <2>4, <2>5, <2>7, <2>11, <2>12, <2>13 DEF Accounts
  <1>10. ASSUME NEW t \in Threads, Notify(t) PROVE Accounts'
    <2>1. CASE InnerAlive'
      <3>1. UNCHANGED <<entries, flights, live, current, consistent>>
        BY <1>10, <2>1, <1>b DEF Notify, InnerAlive, FreeInner, Inv, TypeInv,
            TypeOK, PCs
      <3>2. Waiters' = Waiters
        BY <1>10, <1>b DEF Notify, Waiters, Inv, TypeInv, TypeOK
      <3> QED BY <1>a, <3>1, <3>2, SameAccounts
    <2> QED BY <2>1 DEF Accounts
  <1>11. CASE DropCache
    <2>1. CASE InnerAlive'
      <3>1. UNCHANGED <<entries, flights, live, current, consistent, pc>>
        BY <1>11, <2>1, <1>b DEF DropCache, InnerAlive, FreeInner
      <3>2. Waiters' = Waiters
        BY <3>1 DEF Waiters
      <3> QED BY <1>a, <3>1, <3>2, SameAccounts
    <2> QED BY <2>1 DEF Accounts
  <1>12. ASSUME NEW t \in Threads,
                \/ HitLive(t) \/ RefuseFlight(t) \/ RefuseReentrant(t)
                \/ BuildPublished(t)
                \/ BuildFailed(t) \/ DropCandidate(t) \/ AdmitRefuse(t)
                \/ DropLast(t) \/ ReturnError(t) \/ DropLease(t)
                \/ SpuriousWake(t) \/ Reenter(t)
         PROVE  Accounts'
    <2>1. UNCHANGED <<entries, flights, live, current, consistent>>
      BY <1>12 DEF HitLive, RefuseFlight, RefuseReentrant, BuildPublished, BuildFailed,
         DropCandidate, AdmitRefuse, DropLast, ReturnError, DropLease,
         SpuriousWake, Reenter
    <2>2. CASE SpuriousWake(t) \/ Reenter(t)
      <3>1. Waiters' = Waiters
        BY <2>2, <1>b DEF SpuriousWake, Reenter, Waiters, Go
      <3> QED BY <1>a, <2>1, <3>1, SameAccounts
    <2>3. CASE ~(SpuriousWake(t) \/ Reenter(t))
      <3>1. /\ pc[t] \notin {"waiting", "woken"}
            /\ \E l : l \notin {"waiting", "woken"} /\ Go(t, l)
        BY <1>12, <2>3 DEF HitLive, RefuseFlight, RefuseReentrant, BuildPublished, BuildFailed,
           DropCandidate, AdmitRefuse, DropLast, ReturnError, DropLease,
           DropThen
      <3>2. Waiters' = Waiters
        BY <3>1, <1>b, SameWaiters
      <3> QED BY <1>a, <2>1, <3>2, SameAccounts
    <2> QED BY <2>2, <2>3
  <1>13. ASSUME NEW t \in Threads, DropShared(t) \/ Unmap(t) PROVE Accounts'
    <2>1. UNCHANGED <<entries, flights, live, current, consistent>>
      BY <1>13 DEF DropShared, Unmap
    <2>2. pc[t] \in {"drop", "unmap"} /\ (Go(t, cont[t]) \/ Go(t, "release"))
      BY <1>13 DEF DropShared, Unmap
    <2>3. cont[t] \notin {"waiting", "woken"}
      BY DEF Inv, TypeInv, TypeOK
    <2>4. Waiters' = Waiters
      BY <2>2, <2>3, <1>b, SameWaiters
    <2> QED BY <1>a, <2>1, <2>4, SameAccounts
  <1>14. ASSUME NEW t \in Threads, NEW i \in Identities, Request(t, i)
                PROVE Accounts'
    <2>1. Waiters' = Waiters
      BY <1>14, <1>b, SameWaiters DEF Request
    <2> QED BY <1>14, <1>a, <2>1, SameAccounts DEF Request
  <1>15. ASSUME NEW t \in Threads, NEW h \in Handles, CloneLease(t, h)
                \/ DropClone(t, h)
         PROVE Accounts'
    <2>1. UNCHANGED <<entries, flights, live, current, consistent>>
      BY <1>15 DEF CloneLease, DropClone
    <2>2. Waiters' = Waiters
      <3>1. CASE CloneLease(t, h) BY <3>1 DEF CloneLease, Waiters
      <3>2. CASE DropClone(t, h)
        BY <3>2, <1>b, SameWaiters DEF DropClone, DropThen
      <3> QED BY <1>15, <3>1, <3>2
    <2> QED BY <1>a, <2>1, <2>2, SameAccounts
  <1>16. CASE UNCHANGED vars
    <2>1. Waiters' = Waiters BY <1>16 DEF vars, Waiters
    <2> QED BY <1>16, <1>a, <2>1, SameAccounts DEF vars
  <1> QED
    BY <1>1, <1>2, <1>3, <1>4, <1>5, <1>6, <1>7, <1>8, <1>9, <1>10, <1>11,
       <1>12, <1>13, <1>14, <1>15, <1>16 DEF Next, Step, Finished

\* No action exceeds a limit: a flight reserves the entry that admission
\* uses, an eviction makes room for a reservation, and admission compares
\* before it adds.
LEMMA NextLimits ==
    ASSUME Inv, Accounts, WithinLimits, [Next]_vars
    PROVE  WithinLimits'
  <1>b. /\ current \in [Usage -> Nat] /\ peak \in [Usage -> Nat]
        /\ consistent \in BOOLEAN
    BY DEF Inv, TypeInv, TypeOK
  <1> USE DEF tables, counters
  <1>1. CASE UNCHANGED <<current, peak>>
    BY <1>1 DEF WithinLimits, Occupied
  <1>2. ASSUME current' \in [Usage -> Nat], UpdatePeak,
               \A r \in Resources : current'[r] <= Limit[r]
        PROVE \A r \in Resources : peak'[r] <= Limit[r]
              /\ current'[r] <= peak'[r]
    BY <1>2, <1>b, UsageNames, LimitsAssumption DEF UpdatePeak, WithinLimits
  <1>r. \A r \in Resources : current[r] <= Limit[r]
    BY <1>b, UsageNames, LimitsAssumption DEF WithinLimits
  <1>3. ASSUME peak' = peak, \A u \in Usage : current'[u] <= current[u]
               /\ current'[u] \in Nat
        PROVE WithinLimits'
    <2>1. Occupied' <= Occupied /\ Occupied \in Nat /\ Occupied' \in Nat
      BY <1>b, <1>3, UsageNames DEF Occupied
    <2>2. current'["in_flight_builds"] <= current["in_flight_builds"]
      BY <1>3, UsageNames
    <2>3. \A r \in Resources : peak'[r] <= Limit[r] /\ current'[r] <= peak'[r]
      BY <1>b, <1>3, UsageNames, LimitsAssumption DEF WithinLimits
    <2>4. Occupied' <= MaxEntries
      BY <2>1, LimitsAssumption DEF WithinLimits
    <2>5. current'["in_flight_builds"] <= MaxInFlight
      BY <1>b, <1>3, <2>2, UsageNames, LimitsAssumption DEF WithinLimits
    <2> QED BY <2>3, <2>4, <2>5 DEF WithinLimits
  <1>4. ASSUME NEW t \in Threads, WaitRetiring(t) \/ WaitFlight(t)
               PROVE WithinLimits'
    <2>1. \A u \in Usage : current'[u] = current[u] + IF u = "waiters" THEN 1
          ELSE 0
      BY <1>4, <1>b, ChargeValue, PlusValue DEF WaitRetiring, WaitFlight, Wait
    <2>2. current' \in [Usage -> Nat] /\ UpdatePeak
      BY <1>4, <1>b, UsageType, ChargeValue DEF WaitRetiring, WaitFlight, Wait
    <2>3. \A u \in Usage \ {"waiters"} : current'[u] = current[u]
      BY <2>1, <1>b
    <2>4. \A r \in Resources : current'[r] <= Limit[r]
      BY <1>r, <2>3, UsageNames
    <2>5. Occupied' = Occupied
          /\ current'["in_flight_builds"] = current["in_flight_builds"]
      BY <2>3, UsageNames DEF Occupied
    <2> QED BY <1>2, <2>2, <2>4, <2>5 DEF WithinLimits
  <1>5. ASSUME NEW t \in Threads, StartFlight(t) PROVE WithinLimits'
    <2>1. \A u \in Usage :
          current'[u]
          = current[u] + IF u \in {"in_flight_builds",
          "reserved_entries"} THEN 1 ELSE 0
      BY <1>5, <1>b, ChargeValue, PlusValue DEF StartFlight
    <2>2. current' \in [Usage -> Nat] /\ UpdatePeak
      BY <1>5, <1>b, UsageType, ChargeValue DEF StartFlight, Launch
    <2>3. /\ current'["in_flight_builds"] = current["in_flight_builds"] + 1
          /\ current'["reserved_entries"] = current["reserved_entries"] + 1
          /\ \A u \in Usage \ {"in_flight_builds", "reserved_entries"} :
               current'[u] = current[u]
      BY <1>b, <2>1, UsageNames
    <2>4. \A r \in Resources : current'[r] <= Limit[r]
      BY <1>r, <2>3, UsageNames
    <2>5. Occupied' = Occupied + 1 /\ Occupied < MaxEntries /\ Occupied \in Nat
      BY <1>5, <1>b, <2>3, UsageNames DEF StartFlight, Occupied
    <2>6. Occupied' <= MaxEntries BY <2>5, LimitsAssumption
    <2>7. current'["in_flight_builds"] <= MaxInFlight
      BY <1>5, <1>b, <2>3, UsageNames, LimitsAssumption DEF StartFlight,
          MayLaunch
    <2> QED BY <1>2, <2>2, <2>4, <2>6, <2>7 DEF WithinLimits
  <1>6. ASSUME NEW t \in Threads, EvictAndStartFlight(t) PROVE WithinLimits'
    <2>0. PICK e \in entries : TRUE
      BY <1>6 DEF EvictAndStartFlight, LeastRecent
    <2>i. InnerAlive
      <3>1. Looks(t) BY <1>6 DEF EvictAndStartFlight, MayLaunch
      <3> QED BY <3>1 DEF Inv, BorrowersOpen, Borrows, InnerAlive, Looks
    <2>c. current["entries"] >= 1
      BY <2>0, <2>i, <1>b, CardinalitySteps DEF Accounts
    <2>7. \A u \in Usage : current[u] >= Charge({"entries"})[u]
      BY <2>c, <1>b, ChargeValue
    <2>1. \A u \in Usage :
          current'[u] = current[u] - (IF u = "entries" THEN 1 ELSE 0)
                                 + (IF u \in {"in_flight_builds",
                                     "reserved_entries"} THEN 1 ELSE 0)
      BY <1>6, <1>b, <2>7, ChargeValue, ExchangeValue DEF EvictAndStartFlight
    <2>2. current' \in [Usage -> Nat] /\ UpdatePeak
      BY <1>6, <1>b, UsageType, ChargeValue DEF EvictAndStartFlight, Launch
    <2>3. /\ current'["in_flight_builds"] = current["in_flight_builds"] + 1
          /\ current'["reserved_entries"] = current["reserved_entries"] + 1
          /\ current'["entries"] = current["entries"] - 1
          /\ \A u \in Usage \ {"entries", "in_flight_builds",
               "reserved_entries"} : current'[u] = current[u]
      BY <1>b, <2>1, UsageNames
    <2>4. \A r \in Resources : current'[r] <= Limit[r]
      BY <1>r, <2>3, UsageNames
    <2>5. Occupied' = Occupied
      BY <1>b, <2>3, UsageNames DEF Occupied
    <2>8. current'["in_flight_builds"] <= MaxInFlight
      BY <1>6, <1>b, <2>3, UsageNames, LimitsAssumption
          DEF EvictAndStartFlight, MayLaunch
    <2> QED BY <1>2, <2>2, <2>4, <2>5, <2>8 DEF WithinLimits
  <1>7. ASSUME NEW t \in Threads, Admit(t) PROVE WithinLimits'
    <2>0. pc[t] = "admit" BY <1>7 DEF Admit
    <2>p. Building(t) /\ req[t] \in Identities
      BY <2>0 DEF Building, Inv, TypeInv, ReqOK, Requesting
    <2>i. InnerAlive /\ FlightFor(t) \in flights
      BY <2>p, FlightAlone DEF Inv, FlightsOwned
    <2>c. current["in_flight_builds"] >= 1 /\ current["reserved_entries"] >= 1
      BY <2>i, <1>b, CardinalitySteps DEF Accounts
    <2>7. \A u \in Usage :
          current[u] >= Charge({"in_flight_builds", "reserved_entries"})[u]
      BY <2>c, <1>b, ChargeValue
    <2>1. \A u \in Usage :
          current'[u]
          = current[u] - Charge({"in_flight_builds", "reserved_entries"})[u]
                                 + AdmissionOf(req[t])[u]
      BY <1>7, <1>b, <2>p, <2>7, ChargeValue, ExchangeValue DEF Admit
    <2>2. current' \in [Usage -> Nat] /\ UpdatePeak
      BY <1>7, <1>b, <2>p, UsageType, ChargeValue DEF Admit
    <2>3. /\ current'["in_flight_builds"] = current["in_flight_builds"] - 1
          /\ current'["reserved_entries"] = current["reserved_entries"] - 1
          /\ current'["entries"] = current["entries"] + 1
          /\ \A r \in Resources : current'[r] = current[r] + Cost[req[t]][r]
      BY <1>b, <2>p, <2>1, UsageNames, ChargeValue, LimitsAssumption
    <2>4. \A r \in Resources : current'[r] <= Limit[r]
      BY <1>7, <2>3 DEF Admit, Fits
    <2>5. Occupied' = Occupied
      BY <1>b, <2>3, UsageNames DEF Occupied
    <2>8. current'["in_flight_builds"] <= MaxInFlight
      BY <1>b, <2>3, UsageNames, LimitsAssumption DEF WithinLimits
    <2> QED BY <1>2, <2>2, <2>4, <2>5, <2>8 DEF WithinLimits
  <1>8. ASSUME NEW t \in Threads, Rewake(t) \/ FinishFailed(t)
               \/ AdmitEvict(t) PROVE WithinLimits'
    <2>1. peak' = peak /\ \E S : current' = Minus(Charge(S))
      BY <1>8 DEF Rewake, FinishFailed, AdmitEvict, Subtract
    <2>2. \A u \in Usage : current'[u] <= current[u] /\ current'[u] \in Nat
      BY <2>1, <1>b, ChargeValue DEF Minus
    <2> QED BY <1>3, <2>1, <2>2
  <1>9. ASSUME NEW t \in Threads, Release(t) PROVE WithinLimits'
    <2>1. PICK k \in retired[t] : peak' = peak
          /\ current' = Minus(ChargeOf(k.identity))
      BY <1>9 DEF Release
    <2>2. k.identity \in Identities
      BY <2>1 DEF Inv, TypeInv, TypeOK, Kernels
    <2>3. \A u \in Usage : current'[u] <= current[u] /\ current'[u] \in Nat
      BY <2>1, <2>2, <1>b, ChargeValue DEF Minus
    <2> QED BY <1>3, <2>1, <2>3
  <1>10. ASSUME NEW t \in Threads,
                \/ HitEntry(t) \/ HitLive(t) \/ RefuseFlight(t)
                \/ RefuseReentrant(t)
                \/ BuildPublished(t)
                \/ BuildFailed(t) \/ DropCandidate(t) \/ AdmitRefuse(t)
                \/ DropShared(t) \/ DropLast(t) \/ Unmap(t) \/ Notify(t)
                \/ ReturnError(t) \/ DropLease(t)
                \/ SpuriousWake(t) \/ Reenter(t)
         PROVE  UNCHANGED <<current, peak>>
    BY <1>10 DEF HitEntry, HitLive, RefuseFlight, RefuseReentrant, BuildPublished, BuildFailed,
       DropCandidate, AdmitRefuse, DropShared, DropLast, Unmap, Notify,
       ReturnError, DropLease, SpuriousWake, Reenter
  <1>11. ASSUME NEW t \in Threads, NEW i \in Identities, Request(t, i)
         PROVE  UNCHANGED <<current, peak>>
    BY <1>11 DEF Request
  <1>12. ASSUME NEW t \in Threads, NEW h \in Handles, CloneLease(t, h)
                \/ DropClone(t, h)
         PROVE  UNCHANGED <<current, peak>>
    BY <1>12 DEF CloneLease, DropClone
  <1>13. CASE DropCache
    BY <1>1, <1>13 DEF DropCache
  <1>14. CASE UNCHANGED vars
    BY <1>1, <1>14 DEF vars
  <1> QED
    BY <1>1, <1>4, <1>5, <1>6, <1>7, <1>8, <1>9, <1>10, <1>11,
       <1>12, <1>13, <1>14 DEF Next, Step, Finished

\* The empty cache is accounted for.
LEMMA InitAccounts == Init => EntriesDistinct /\ Accounts /\ WithinLimits
  <1> SUFFICES ASSUME Init PROVE EntriesDistinct /\ Accounts /\ WithinLimits
    OBVIOUS
  <1>1. \A u \in Usage : current[u] = 0 /\ peak[u] = 0 BY DEF Init
  <1>2. Waiters = {} BY DEF Init, Waiters
  <1>3. Accounts
    BY <1>1, <1>2, UsageNames, FS_EmptySet, ChargedEmpty DEF Init, Accounts
  <1>4. WithinLimits
    BY <1>1, UsageNames, LimitsAssumption DEF WithinLimits, Occupied
  <1> QED BY <1>3, <1>4 DEF Init, EntriesDistinct

\* The hard limits of CacheLimits hold in every reachable state, for what is
\* charged now and for every peak reported, whatever the limits are.
THEOREM LimitsHold == Spec => []WithinLimits
  <1>1. Spec => [](Accounts /\ EntriesDistinct)
    BY InitAccounts, NextAccounts, NextDistinct, Invariance, PTL DEF Spec
  <1> QED BY <1>1, InitAccounts, NextLimits, Invariance, PTL DEF Spec

\* Every action keeps each request counted once.
LEMMA NextClassification ==
    ASSUME Inv, Classification, [Next]_vars
    PROVE  Classification'
  <1>b. /\ totals \in [Events -> Nat] /\ classified \in [Threads -> BOOLEAN]
        /\ pc \in [Threads -> PCs] /\ requests \in Nat
    BY DEF Inv, TypeInv, TypeOK
  <1>c. Cardinality(Unclassified) \in Nat
    BY FS_CardinalityType DEF Classification
  <1> USE DEF tables, counters, clocks, locals, Looks
  <1>h. {"hits", "misses"} \subseteq Events BY DEF Events
  <1>1. ASSUME NEW t \in Threads, NEW S, S \cap {"hits", "misses"} = {},
               Bump(Once(t, "hits")) \/ Bump(Once(t, "misses") \cup S),
               Looks(t), Unclassified' = Unclassified \ {t},
                   requests' = requests, ClassifiedOK'
        PROVE Classification'
    <2>1. totals'["hits"] + totals'["misses"]
          = totals["hits"] + totals["misses"] + IF classified[t] THEN 0 ELSE 1
      BY <1>1, <1>b, <1>h DEF Bump, Once
    <2>2. t \in Unclassified <=> ~classified[t]
      BY <1>1 DEF Unclassified
    <2>3. CASE classified[t]
      <3>1. Unclassified' = Unclassified BY <1>1, <2>2, <2>3
      <3>2. totals'["hits"] + totals'["misses"]
            = totals["hits"] + totals["misses"]
        BY <2>1, <2>3, <1>b, <1>h
      <3> QED BY <1>1, <3>1, <3>2 DEF Classification
    <2>4. CASE ~classified[t]
      <3>1. IsFiniteSet(Unclassified')
            /\ Cardinality(Unclassified') = Cardinality(Unclassified) - 1
        BY <1>1, <2>2, <2>4, CardinalitySteps DEF Classification
      <3>2. totals'["hits"] + totals'["misses"]
            = totals["hits"] + totals["misses"] + 1
        BY <2>1, <2>4
      <3>3. totals["hits"] \in Nat /\ totals["misses"] \in Nat BY <1>b, <1>h
      <3> QED BY <1>1, <1>c, <3>1, <3>2, <3>3 DEF Classification
    <2> QED BY <2>3, <2>4
  <1>2. ASSUME NEW t \in Threads, Unclassified' = Unclassified,
               requests' = requests, ClassifiedOK',
               totals' = totals \/ \E S : Bump(S)
                   /\ S \cap {"hits", "misses"} = {}
        PROVE  Classification'
    <2>1. totals'["hits"] = totals["hits"]
          /\ totals'["misses"] = totals["misses"]
      BY <1>2, <1>b, <1>h DEF Bump
    <2>2. IsFiniteSet(Unclassified')
          /\ Cardinality(Unclassified') = Cardinality(Unclassified)
      BY <1>2 DEF Classification
    <2>3. totals'["hits"] + totals'["misses"] + Cardinality(Unclassified')
          = requests'
      BY <1>2, <2>1, <2>2 DEF Classification
    <2> QED BY <1>2, <2>2, <2>3 DEF Classification
  <1>3. ASSUME NEW t \in Threads, HitEntry(t) \/ HitLive(t)
               PROVE Classification'
    <2>1. /\ Looks(t) /\ Go(t, "holding") /\ ClearCall(t)
          /\ Bump(Once(t, "hits")) /\ UNCHANGED <<requests, cont>>
      BY <1>3 DEF HitEntry, HitLive
    <2>2. Unclassified' = Unclassified \ {t}
      BY <2>1, <1>b DEF Unclassified, Go, ClearCall
    <2>3. ClassifiedOK'
      BY <2>1, <1>b DEF ClassifiedOK, Classification, Go, ClearCall, DropPath
    <2>4. {} \cap {"hits", "misses"} = {} OBVIOUS
    <2> QED BY <1>1, <2>1, <2>2, <2>3, <2>4
  <1>4. ASSUME NEW t \in Threads, WaitRetiring(t) \/ WaitFlight(t)
               PROVE Classification'
    <2>1. Looks(t) /\ Wait(t)
      BY <1>4 DEF WaitRetiring, WaitFlight
    <2>2. Unclassified' = Unclassified \ {t}
      BY <2>1, <1>b DEF Unclassified, Go, Wait
    <2>3. ClassifiedOK'
      BY <2>1, <1>b DEF ClassifiedOK, Classification, Go, Wait, DropPath
    <2>4. Bump(Once(t, "misses") \cup {"wait_events"}) /\ requests' = requests
      BY <2>1 DEF Wait
    <2>e. {"wait_events"} \cap {"hits", "misses"} = {} OBVIOUS
    <2> QED BY <1>1, <2>1, <2>2, <2>3, <2>e, <2>4
  <1>5. ASSUME NEW t \in Threads, RefuseFlight(t) PROVE Classification'
    <2>1. Looks(t) /\ Bump(Once(t, "misses") \cup {"refusals"})
          /\ requests' = requests
      BY <1>5 DEF RefuseFlight
    <2>2. Unclassified' = Unclassified \ {t}
      BY <1>5, <1>b DEF RefuseFlight, Unclassified, Go
    <2>3. ClassifiedOK'
      BY <1>5, <1>b DEF ClassifiedOK, Classification, Go, RefuseFlight,
          DropPath
    <2>e. {"refusals"} \cap {"hits", "misses"} = {} OBVIOUS
    <2> QED BY <1>1, <2>1, <2>2, <2>3, <2>e
  <1>6. ASSUME NEW t \in Threads, StartFlight(t) PROVE Classification'
    <2>1. Looks(t) /\ Bump(Once(t, "misses") \cup {"builds_started"})
          /\ requests' = requests
      BY <1>6 DEF StartFlight, MayLaunch, Launch
    <2>2. Unclassified' = Unclassified \ {t}
      BY <1>6, <1>b DEF StartFlight, MayLaunch, Launch, Unclassified, Go
    <2>3. ClassifiedOK'
      BY <1>6, <1>b DEF ClassifiedOK, Classification, Go, StartFlight, Launch,
          DropPath
    <2>e. {"builds_started"} \cap {"hits", "misses"} = {} OBVIOUS
    <2> QED BY <1>1, <2>1, <2>2, <2>3, <2>e
  <1>7. ASSUME NEW t \in Threads, EvictAndStartFlight(t) PROVE Classification'
    <2>1. /\ Looks(t)
          /\ Bump(Once(t, "misses") \cup {"builds_started", "evictions"})
          /\ requests' = requests
          /\ classified' = [classified EXCEPT ![t] = TRUE]
          /\ Go(t, "drop") /\ cont' = [cont EXCEPT ![t] = "building"]
      BY <1>7 DEF EvictAndStartFlight, MayLaunch, Launch, DropThen
    <2>2. Unclassified' = Unclassified \ {t}
      BY <2>1, <1>b DEF Unclassified, Go
    <2>3. ClassifiedOK'
      BY <2>1, <1>b DEF ClassifiedOK, Classification, Go, DropPath, Inv,
          TypeInv, TypeOK
    <2>e. {"builds_started", "evictions"} \cap {"hits", "misses"} = {} OBVIOUS
    <2> QED BY <1>1, <2>1, <2>2, <2>3, <2>e
  <1>8. ASSUME NEW t \in Threads, NEW i \in Identities, Request(t, i)
               PROVE Classification'
    <2>1. t \notin Unclassified /\ Unclassified' = Unclassified \cup {t}
      BY <1>8, <1>b DEF Request, Unclassified, Go, Classification, ClassifiedOK
    <2>2. ClassifiedOK'
      BY <1>8, <1>b DEF Request, ClassifiedOK, Classification, Go, DropPath
    <2>3. IsFiniteSet(Unclassified')
          /\ Cardinality(Unclassified') = Cardinality(Unclassified) + 1
      BY <2>1, CardinalitySteps DEF Classification
    <2>4. requests' = requests + 1 /\ totals' = totals
      BY <1>8 DEF Request
    <2>5. totals["hits"] \in Nat /\ totals["misses"] \in Nat BY <1>b, <1>h
    <2> QED BY <1>b, <1>c, <2>2, <2>3, <2>4, <2>5 DEF Classification
  <1>9. ASSUME NEW t \in Threads, Reenter(t) PROVE Classification'
    <2>1. t \notin Unclassified /\ Unclassified' = Unclassified \cup {t}
      BY <1>9, <1>b DEF Reenter, Unclassified, Go
    <2>2. ClassifiedOK'
      BY <1>9, <1>b DEF Reenter, ClassifiedOK, Classification, Go, DropPath
    <2>3. IsFiniteSet(Unclassified')
          /\ Cardinality(Unclassified') = Cardinality(Unclassified) + 1
      BY <2>1, CardinalitySteps DEF Classification
    <2>4. requests' = requests + 1 /\ totals' = totals
      BY <1>9 DEF Reenter
    <2>5. totals["hits"] \in Nat /\ totals["misses"] \in Nat BY <1>b, <1>h
    <2> QED BY <1>b, <1>c, <2>2, <2>3, <2>4, <2>5 DEF Classification
  <1>10. ASSUME NEW t \in Threads,
                \/ Rewake(t) \/ BuildPublished(t) \/ BuildFailed(t)
                \/ DropCandidate(t)
                \/ AdmitRefuse(t) \/ DropLast(t) \/ SpuriousWake(t)
                \/ Release(t)
         PROVE  Classification'
    <2>1. /\ UNCHANGED <<requests, classified, cont>>
          /\ totals' = totals \/ \E S : Bump(S)
               /\ S \cap {"hits", "misses"} = {}
      BY <1>10 DEF Rewake, BuildPublished, BuildFailed, DropCandidate,
          AdmitRefuse, DropLast, SpuriousWake, Release
    <2>2. Unclassified' = Unclassified /\ ClassifiedOK'
      BY <1>10, <2>1, <1>b DEF Rewake, BuildPublished, BuildFailed,
          DropCandidate, AdmitRefuse, DropLast, SpuriousWake, Release,
         Unclassified, ClassifiedOK, Classification, Go, DropPath
    <2> QED BY <1>2, <2>1, <2>2
  <1>11. ASSUME NEW t \in Threads,
                \/ FinishFailed(t) \/ Admit(t) \/ AdmitEvict(t)
                \/ DropLease(t) \/ ReturnError(t)
         PROVE  Classification'
    <2>1. /\ requests' = requests
          /\ totals' = totals \/ \E S : Bump(S)
               /\ S \cap {"hits", "misses"} = {}
      BY <1>11 DEF FinishFailed, Admit, AdmitEvict, DropLease, ReturnError
    <2>2. Unclassified' = Unclassified
      BY <1>11, <1>b DEF FinishFailed, Admit, AdmitEvict, DropLease,
          ReturnError, DropThen, NotifyThen, ClearCall, Unclassified, Go
    <2>3. ClassifiedOK'
      BY <1>11, <1>b DEF FinishFailed, Admit, AdmitEvict, DropLease,
          ReturnError, DropThen, NotifyThen, ClearCall,
         ClassifiedOK, Classification, Go, DropPath, Inv, TypeInv, TypeOK
    <2> QED BY <1>2, <2>1, <2>2, <2>3
  <1>12. ASSUME NEW t \in Threads, DropShared(t) \/ Unmap(t) \/ Notify(t)
         PROVE  Classification'
    <2>1. UNCHANGED <<requests, classified, totals>>
      BY <1>12 DEF DropShared, Unmap, Notify
    <2>2. cont[t] \in {"idle", "building", "admit", "holding", "failed"}
      BY DEF Inv, TypeInv, TypeOK
    <2>3. Unclassified' = Unclassified
      BY <1>12, <1>b, <2>2 DEF DropShared, Unmap, Notify, Unclassified, Go
    <2>4. ClassifiedOK'
      BY <1>12, <1>b, <2>2 DEF DropShared, Unmap, Notify, ClassifiedOK,
          Classification, Go, DropPath, Inv, TypeInv, TypeOK
    <2> QED BY <1>2, <2>1, <2>3, <2>4
  <1>13. ASSUME NEW t \in Threads, NEW h \in Handles, CloneLease(t, h)
                \/ DropClone(t, h)
         PROVE  Classification'
    <2>1. UNCHANGED <<requests, classified, totals>>
      BY <1>13 DEF CloneLease, DropClone
    <2>2. Unclassified' = Unclassified /\ ClassifiedOK'
      BY <1>13, <1>b DEF CloneLease, DropClone, DropThen, Unclassified,
          ClassifiedOK, Classification, Go, DropPath, Inv, TypeInv, TypeOK
    <2> QED BY <1>2, <2>1, <2>2
  <1>14. CASE DropCache \/ UNCHANGED vars
    <2>1. UNCHANGED <<requests, classified, totals, pc, cont>>
      BY <1>14 DEF DropCache, vars
    <2>2. Unclassified' = Unclassified /\ ClassifiedOK'
      BY <2>1 DEF Unclassified, ClassifiedOK, Classification
    <2> QED BY <2>1, <2>2 DEF Classification
  <1>15. ASSUME NEW t \in Threads, RefuseReentrant(t) PROVE Classification'
    <2>1. Looks(t) /\ Bump(Once(t, "misses") \cup {"refusals"})
          /\ requests' = requests
      BY <1>15 DEF RefuseReentrant
    <2>2. Unclassified' = Unclassified \ {t}
      BY <1>15, <1>b DEF RefuseReentrant, Unclassified, Go
    <2>3. ClassifiedOK'
      BY <1>15, <1>b DEF ClassifiedOK, Classification, Go, RefuseReentrant,
          DropPath
    <2>e. {"refusals"} \cap {"hits", "misses"} = {} OBVIOUS
    <2> QED BY <1>1, <2>1, <2>2, <2>3, <2>e
  <1> QED
    BY <1>3, <1>4, <1>5, <1>6, <1>7, <1>8, <1>9, <1>10, <1>11,
       <1>12, <1>13, <1>14, <1>15 DEF Next, Step, Finished

\* The counters of State always agree with its tables, the aggregate charges
\* with the sum over the live records, and accounting_consistent is never
\* cleared: no path through get_or_build or the destructor underflows a
\* counter.
THEOREM AccountingExact == Spec => []ExactAccounting
  <1>1. Init => Classification
    <2> SUFFICES ASSUME Init PROVE Classification
      OBVIOUS
    <2>1. Unclassified = {} BY DEF Init, Unclassified, Looks
    <2>2. totals["hits"] = 0 /\ totals["misses"] = 0 /\ requests = 0
      BY DEF Init, Events
    <2> QED BY <2>1, <2>2, FS_EmptySet DEF Init, Classification, ClassifiedOK,
        DropPath
  <1>2. Spec => []Classification
    BY <1>1, NextClassification, Invariance, PTL DEF Spec
  <1>3. Spec => [](Accounts /\ EntriesDistinct)
    BY InitAccounts, NextAccounts, NextDistinct, Invariance, PTL DEF Spec
  <1>4. Accounts /\ Classification => ExactAccounting
    BY DEF Accounts, Classification, ExactAccounting
  <1> QED BY <1>2, <1>3, <1>4, PTL
-----------------------------------------------------------------------------
(* Refinement: the life cycle of each identity.                            *)

\* What the refinement needs beside Inv: a thread that drops a kernel goes
\* back to its build or to its caller,
ReturnsOK ==
    \A t \in Threads : pc[t] \in {"drop", "unmap", "release"}
                          => cont[t] \in {"idle", "building", "admit"}
\* nobody keeps two kernels in one place,
OneKernel ==
    /\ \A t \in Threads : \A k, l \in held[t] : k = l
    /\ \A h \in Handles : \A k, l \in lease[h] : k = l
\* and a freed Inner has left nothing in the tables.
FreedEmpty == ~InnerAlive => entries = {} /\ flights = {} /\ live = {}

RefInv == ReturnsOK /\ OneKernel /\ FreedEmpty

\* These hold of the empty cache.
LEMMA InitRefInv == Init => RefInv
  BY DEF Init, RefInv, ReturnsOK, OneKernel, FreedEmpty, InnerAlive

\* Every action keeps them.
LEMMA NextRefInv ==
    ASSUME Inv, RefInv, [Next]_vars
    PROVE  RefInv'
  <1>b. /\ pc \in [Threads -> PCs] /\ lease \in [Handles -> SUBSET Kernels]
        /\ held \in [Threads -> SUBSET Kernels]
        /\ cont \in [Threads -> {"idle", "building", "admit", "holding",
             "failed"}]
    BY DEF Inv, TypeInv, TypeOK
  <1> USE DEF tables, counters, clocks, locals, Looks, Go
  <1>1. ReturnsOK'
    <2>1. ASSUME NEW t \in Threads, Step(t) PROVE ReturnsOK'
      <3>1. CASE HitEntry(t) \/ HitLive(t) \/ WaitRetiring(t)
            \/ WaitFlight(t) \/ Rewake(t) \/ RefuseFlight(t) \/ StartFlight(t)
            \/ RefuseReentrant(t)
        BY <1>b, <3>1 DEF RefInv, ReturnsOK, HitEntry, HitLive, WaitRetiring,
            WaitFlight, Wait, Rewake, RefuseFlight, StartFlight,
            RefuseReentrant
      <3>2. CASE EvictAndStartFlight(t) \/ BuildPublished(t)
            \/ BuildFailed(t) \/ DropCandidate(t) \/ FinishFailed(t)
            \/ Admit(t) \/ AdmitEvict(t) \/ AdmitRefuse(t)
        BY <1>b, <3>2 DEF RefInv, ReturnsOK, EvictAndStartFlight,
            BuildPublished, BuildFailed, DropCandidate, FinishFailed, Admit,
            AdmitEvict, AdmitRefuse, DropThen, NotifyThen
      <3>3. CASE DropShared(t) \/ DropLast(t) \/ Unmap(t) \/ Release(t)
            \/ Notify(t) \/ ReturnError(t)
        BY <1>b, <3>3 DEF RefInv, ReturnsOK, DropShared, DropLast, Unmap,
            Release, Notify, ReturnError
      <3> QED BY <2>1, <3>1, <3>2, <3>3 DEF Step
    <2>2. ASSUME NEW t \in Threads, SpuriousWake(t) \/ Reenter(t)
                 \/ DropLease(t) PROVE ReturnsOK'
      BY <1>b, <2>2 DEF RefInv, ReturnsOK, SpuriousWake, Reenter, DropLease,
          DropThen
    <2>3. ASSUME NEW t \in Threads, NEW i \in Identities, Request(t, i)
                 PROVE ReturnsOK'
      BY <1>b, <2>3 DEF RefInv, ReturnsOK, Request
    <2>4. ASSUME NEW t \in Threads, NEW h \in Handles, CloneLease(t, h)
                 \/ DropClone(t, h) PROVE ReturnsOK'
      BY <1>b, <2>4 DEF RefInv, ReturnsOK, CloneLease, DropClone, DropThen
    <2>5. CASE DropCache \/ UNCHANGED vars
      BY <2>5 DEF DropCache, vars, RefInv, ReturnsOK
    <2> QED BY <2>1, <2>2, <2>3, <2>4, <2>5 DEF Next, Finished
  <1>2. OneKernel'
    <2>1. ASSUME NEW t \in Threads, Step(t) PROVE OneKernel'
      <3>1. CASE HitEntry(t) \/ HitLive(t) \/ BuildPublished(t)
            \/ DropCandidate(t)
        BY <1>b, <3>1 DEF RefInv, OneKernel, HitEntry, HitLive,
            BuildPublished, DropCandidate
      <3>2. CASE ~(HitEntry(t) \/ HitLive(t) \/ BuildPublished(t)
            \/ DropCandidate(t))
        <4>1. UNCHANGED <<held, lease>>
          BY <2>1, <3>2 DEF Step, WaitRetiring, WaitFlight, Wait, Rewake,
              RefuseFlight, RefuseReentrant, StartFlight,
              EvictAndStartFlight, Launch,
              BuildFailed, FinishFailed, Admit, AdmitEvict, AdmitRefuse,
              DropShared, DropLast, Unmap, Release, Notify, ReturnError
        <4> QED BY <4>1 DEF RefInv, OneKernel
      <3> QED BY <3>1, <3>2
    <2>2. ASSUME NEW t \in Threads, SpuriousWake(t) \/ Reenter(t)
                 \/ DropLease(t) PROVE OneKernel'
      BY <1>b, <2>2 DEF RefInv, OneKernel, SpuriousWake, Reenter, DropLease
    <2>3. ASSUME NEW t \in Threads, NEW i \in Identities, Request(t, i)
                 PROVE OneKernel'
      BY <1>b, <2>3 DEF RefInv, OneKernel, Request
    <2>4. ASSUME NEW t \in Threads, NEW h \in Handles, CloneLease(t, h)
                 \/ DropClone(t, h) PROVE OneKernel'
      BY <1>b, <2>4 DEF RefInv, OneKernel, CloneLease, DropClone
    <2>5. CASE DropCache \/ UNCHANGED vars
      BY <2>5 DEF DropCache, vars, RefInv, OneKernel
    <2> QED BY <2>1, <2>2, <2>3, <2>4, <2>5 DEF Next, Finished
  <1>3. FreedEmpty'
    <2>0. SUFFICES ASSUME ~InnerAlive'
                   PROVE (entries = {} /\ flights = {} /\ live = {})'
      BY DEF FreedEmpty
    <2>1. CASE ~InnerAlive
      <3>1. \A t \in Threads : ~Borrows(t)
            /\ pc[t] \notin {"release", "notify"}
        BY <2>1 DEF InnerAlive, Inv, BorrowersOpen
      <3>2. UNCHANGED <<entries, flights, live>>
        <4>1. ASSUME NEW t \in Threads, Step(t) PROVE UNCHANGED <<entries,
                     flights, live>>
          <5>1. pc[t] \notin {"lookup", "nested", "admit", "finish_error",
                "finish_panic", "unflight", "release", "notify"}
            BY <3>1 DEF Borrows
          <5> QED BY <4>1, <5>1 DEF Step, HitEntry, HitLive, WaitRetiring,
              WaitFlight, Wait, Rewake, RefuseFlight, StartFlight,
              EvictAndStartFlight, MayLaunch, RefuseReentrant,
               BuildPublished, BuildFailed, DropCandidate, FinishFailed,
                   Admit, AdmitEvict, AdmitRefuse, DropShared, DropLast,
                   Unmap, Release, Notify, ReturnError
        <4>2. ASSUME NEW t \in Threads, SpuriousWake(t) \/ Reenter(t)
                     \/ DropLease(t) PROVE UNCHANGED <<entries, flights,
                     live>>
          BY <4>2 DEF SpuriousWake, Reenter, DropLease
        <4>3. ASSUME NEW t \in Threads, NEW i \in Identities, Request(t, i)
                     PROVE UNCHANGED <<entries, flights, live>>
          BY <4>3 DEF Request
        <4>4. ASSUME NEW t \in Threads, NEW h \in Handles, CloneLease(t, h)
                     \/ DropClone(t, h) PROVE UNCHANGED <<entries, flights,
                     live>>
          BY <4>4 DEF CloneLease, DropClone
        <4>5. CASE DropCache \/ UNCHANGED vars
          BY <2>1, <4>5 DEF DropCache, InnerAlive, vars
        <4> QED BY <4>1, <4>2, <4>3, <4>4, <4>5 DEF Next, Finished
      <3> QED BY <2>1, <3>2 DEF RefInv, FreedEmpty
    <2>2. CASE InnerAlive
      <3>1. ASSUME NEW t \in Threads, Notify(t)
                   PROVE (entries = {} /\ flights = {} /\ live = {})'
        BY <2>0, <3>1, <1>b DEF Notify, FreeInner, InnerAlive, PCs
      <3>2. CASE DropCache
        BY <2>0, <3>2 DEF DropCache, FreeInner, InnerAlive
      <3>3. ASSUME NEW t \in Threads, Step(t), ~Notify(t) PROVE FALSE
        <4>1. open' = open /\ \A u \in Threads : u # t => pc'[u] = pc[u]
          BY <1>b, <3>3 DEF Step, HitEntry, HitLive, WaitRetiring, WaitFlight,
              Wait, Rewake, RefuseFlight, StartFlight, EvictAndStartFlight,
              RefuseReentrant, Launch, DropThen, NotifyThen,
               BuildPublished, BuildFailed, DropCandidate, FinishFailed,
                   Admit, AdmitEvict, AdmitRefuse, DropShared, DropLast,
                   Unmap, Release, ReturnError
        <4>2. pc[t] = "release" => pc'[t] = "notify"
          BY <1>b, <3>3 DEF Step, HitEntry, HitLive, WaitRetiring, WaitFlight,
              Wait, Rewake, RefuseFlight, StartFlight, EvictAndStartFlight,
              MayLaunch, RefuseReentrant,
               BuildPublished, BuildFailed, DropCandidate, FinishFailed,
                   Admit, AdmitEvict, AdmitRefuse, DropShared, DropLast,
                   Unmap, Release, ReturnError
        <4>3. pc[t] # "notify"
          BY <3>3 DEF Step, HitEntry, HitLive, WaitRetiring, WaitFlight, Wait,
              Rewake, RefuseFlight, StartFlight, EvictAndStartFlight,
              MayLaunch, RefuseReentrant,
               BuildPublished, BuildFailed, DropCandidate, FinishFailed,
                   Admit, AdmitEvict, AdmitRefuse, DropShared, DropLast,
                   Unmap, Release, ReturnError
        <4> QED BY <2>0, <2>2, <4>1, <4>2, <4>3 DEF InnerAlive
      <3>4. ASSUME NEW t \in Threads, SpuriousWake(t) \/ Reenter(t)
                   \/ DropLease(t) PROVE FALSE
        BY <1>b, <2>0, <2>2, <3>4 DEF SpuriousWake, Reenter, DropLease,
            DropThen, InnerAlive
      <3>5. ASSUME NEW t \in Threads, NEW i \in Identities, Request(t, i)
                   PROVE FALSE
        BY <1>b, <2>0, <2>2, <3>5 DEF Request, InnerAlive
      <3>6. ASSUME NEW t \in Threads, NEW h \in Handles, CloneLease(t, h)
                   \/ DropClone(t, h) PROVE FALSE
        BY <1>b, <2>0, <2>2, <3>6 DEF CloneLease, DropClone, DropThen,
            InnerAlive
      <3>7. CASE UNCHANGED vars
        BY <2>0, <2>2, <3>7 DEF vars, InnerAlive
      <3> QED BY <3>1, <3>2, <3>3, <3>4, <3>5, <3>6, <3>7 DEF Next, Finished
    <2> QED BY <2>1, <2>2
  <1> QED BY <1>1, <1>2, <1>3 DEF RefInv

\* A step of the cache, seen from identity i.
LifecycleStep(i) == Lifecycle(i)!Next \/ UNCHANGED Lifecycle(i)!vars

\* If the tables of i stay (non-)empty and its users stay, nothing happens
\* to it.  Users do not count while i is in flight.
LEMMA StutterStep ==
    ASSUME NEW i, InnerAlive' = InnerAlive,
           FlightsOf(i)' = {} <=> FlightsOf(i) = {},
           EntriesOf(i)' = {} <=> EntriesOf(i) = {},
           LiveOf(i)' = {} <=> LiveOf(i) = {},
           FlightsOf(i) # {}
               \/ (UsingThreads(i) \cup UsingLeases(i))'
               = UsingThreads(i) \cup UsingLeases(i)
    PROVE  LifecycleStep(i)
  <1>1. Users(i)' = Users(i) BY DEF Users
  <1>2. Phase(i)' = Phase(i) BY <1>1 DEF Phase
  <1> QED BY <1>1, <1>2 DEF LifecycleStep, Lifecycle!vars

\* A live kernel gains a user, loses one, or passes from one to another.
LEMMA ShareStep ==
    ASSUME NEW i, InnerAlive' = InnerAlive, FlightsOf(i) = {},
           FlightsOf(i)' = {},
           Users(i) # {} \/ EntriesOf(i) # {},
           (Users(i) # {} \/ EntriesOf(i) # {})',
           NEW c \in Clients, NEW d \in Clients,
           Users(i)' \in {Users(i) \cup {c}, Users(i) \ {c},
               (Users(i) \ {c}) \cup {d}}
    PROVE  LifecycleStep(i)
  <1>1. Phase(i) = "live" /\ Phase(i)' = "live" BY DEF Phase
  <1> QED BY <1>1 DEF LifecycleStep, Lifecycle!Next, Lifecycle!Share

\* A thread's reference to a kernel that is not in flight is to a mapped
\* kernel, and to a recorded one while Inner exists.
LEMMA UsesKnown ==
    ASSUME Inv, RefInv, NEW t \in Threads, NEW k \in Uses(t),
           FlightsOf(k.identity) = {}
    PROVE  k \in mapped /\ (InnerAlive => k \in live)
  <1>1. k \in mapped BY DEF Inv, MappedOK, LeasesCallable, Uses
  <1>2. ASSUME InnerAlive, k \notin live PROVE FALSE
    <2>1. k \in held[t] /\ HasCandidate(t)
      BY <1>2 DEF Uses, Inv, Recorded, HeldOK
    <2>2. k = Candidate(t) /\ FlightFor(t) \in flights
      BY <2>1 DEF Inv, HeldOK, FlightsOwned, HasCandidate, Building
    <2> QED BY <2>2 DEF FlightsOf, Candidate, FlightFor
  <1> QED BY <1>1, <1>2

\* So is a matcher's lease.
LEMMA LeaseKnown ==
    ASSUME Inv, NEW h \in Handles, NEW k \in lease[h]
    PROVE  k \in mapped /\ (InnerAlive => k \in live)
  BY DEF Inv, MappedOK, LeasesCallable, Recorded

\* A recorded kernel is not in flight.
LEMMA LiveNoFlight ==
    ASSUME Inv, NEW k \in live
    PROVE  FlightsOf(k.identity) = {}
  BY DEF Inv, Exclusive, FlightsOf

\* An identity without a record has no entry and no user.
LEMMA UnknownUnused ==
    ASSUME Inv, RefInv, InnerAlive, NEW i, LiveOf(i) = {}
    PROVE  /\ EntriesOf(i) = {}
           /\ UsingLeases(i) = {}
           /\ FlightsOf(i) = {} => UsingThreads(i) = {}
  <1>1. EntriesOf(i) = {} BY DEF EntriesOf, LiveOf, Inv, Recorded
  <1>2. UsingLeases(i) = {} BY DEF UsingLeases, LiveOf, Inv, Recorded
  <1>3. FlightsOf(i) = {} => UsingThreads(i) = {}
    BY UsesKnown DEF UsingThreads, LiveOf
  <1> QED BY <1>1, <1>2, <1>3

\* An identity in flight has no record, entry or lease, and only its builder
\* references its candidate.
LEMMA FlightUsers ==
    ASSUME Inv, RefInv, NEW t \in Threads, Building(t)
    PROVE  /\ LiveOf(req[t]) = {} /\ EntriesOf(req[t]) = {}
           /\ UsingLeases(req[t]) = {}
           /\ UsingThreads(req[t]) \subseteq {t}
           /\ FlightsOf(req[t]) = {FlightFor(t)}
  <1>1. InnerAlive /\ LiveOf(req[t]) = {}
    BY FlightAlone DEF Inv, LiveOf
  <1>2. EntriesOf(req[t]) = {} /\ UsingLeases(req[t]) = {}
    BY <1>1, UnknownUnused
  <1>3. ASSUME NEW u \in UsingThreads(req[t]) PROVE u = t
    <2>1. PICK k \in Uses(u) : k.identity = req[t] BY <1>3 DEF UsingThreads
    <2>2. u \in Threads /\ k \notin live
      BY <1>1, <1>3, <2>1 DEF UsingThreads, LiveOf
    <2>3. k \in held[u] /\ HasCandidate(u)
      BY <1>1, <2>1, <2>2 DEF Uses, Inv, Recorded, HeldOK
    <2>4. k = Candidate(u) /\ Building(u)
      BY <2>2, <2>3 DEF Inv, HeldOK, HasCandidate, Building
    <2> QED BY <2>1, <2>2, <2>4, FlightAlone DEF Inv, Candidate
  <1>4. FlightsOf(req[t]) = {FlightFor(t)}
    <2>1. FlightFor(t) \in flights /\ FlightFor(t).identity = req[t]
      BY DEF Inv, FlightsOwned, FlightFor
    <2> HIDE DEF FlightFor
    <2>2. FlightFor(t) \in FlightsOf(req[t]) BY <2>1 DEF FlightsOf
    <2>3. ASSUME NEW f \in FlightsOf(req[t]) PROVE f = FlightFor(t)
      BY <2>1 DEF FlightsOf, Inv, Exclusive
    <2> QED BY <2>2, <2>3
  <1> QED BY <1>1, <1>2, <1>3, <1>4

\* A step that leaves tables, leases and references alone.
LEMMA QuietStep ==
    ASSUME NEW i, UNCHANGED <<entries, flights, live, lease>>,
           InnerAlive' = InnerAlive,
           \A u \in Threads : Uses(u)' = Uses(u)
    PROVE  LifecycleStep(i)
  <1>1. UsingThreads(i)' = UsingThreads(i) BY DEF UsingThreads
  <1>2. UsingLeases(i)' = UsingLeases(i) BY DEF UsingLeases
  <1> QED BY <1>1, <1>2, StutterStep DEF FlightsOf, EntriesOf, LiveOf

\* Waiting, refusing, failing, unmapping and returning move no kernel; a
\* thread that drops its lease still references the kernel until the drop.
LEMMA QuietActions ==
    ASSUME Inv, RefInv, NEW i, NEW t \in Threads,
           \/ WaitRetiring(t) \/ WaitFlight(t) \/ Rewake(t)
           \/ RefuseFlight(t) \/ RefuseReentrant(t) \/ BuildFailed(t)
           \/ AdmitRefuse(t) \/ Unmap(t) \/ ReturnError(t) \/ SpuriousWake(t)
           \/ Reenter(t) \/ DropLease(t)
           \/ \E j \in Identities : Request(t, j)
    PROVE  LifecycleStep(i)
  <1>b. /\ pc \in [Threads -> PCs] /\ held \in [Threads -> SUBSET Kernels]
        /\ retired \in [Threads -> SUBSET Kernels]
        /\ cont[t] \in {"idle", "building", "admit", "holding", "failed"}
    BY DEF Inv, TypeInv, TypeOK
  <1> USE DEF tables, counters, clocks, locals, Looks, Go
  <1>1. UNCHANGED <<entries, flights, live, lease, open>>
    BY DEF WaitRetiring, WaitFlight, Wait, Rewake, RefuseFlight,
        RefuseReentrant, BuildFailed,
        AdmitRefuse, Unmap, ReturnError, SpuriousWake, Reenter, DropLease,
        Request
  <1>2. CASE DropLease(t)
    <2>1. PICK k \in held[t] : DropThen(t, k, "idle") BY <1>2 DEF DropLease
    <2>2. held[t] = {k} BY <2>1 DEF RefInv, OneKernel
    <2>3. pc[t] = "holding" /\ pc' = [pc EXCEPT ![t] = "drop"]
          /\ retired' = [retired EXCEPT ![t] = {k}]
          /\ held' = [held EXCEPT ![t] = {}]
      BY <1>2, <2>1 DEF DropLease, DropThen
    <2>4. \A u \in Threads : Uses(u)' = Uses(u)
      BY <2>2, <2>3, <1>b DEF Uses
    <2>5. InnerAlive' = InnerAlive
      BY <1>1, <2>3, <1>b DEF InnerAlive
    <2> QED BY <1>1, <2>4, <2>5, QuietStep
  <1>3. CASE Unmap(t)
    <2>1. \A u \in Threads : Uses(u)' = Uses(u)
      BY <1>3, <1>b DEF Unmap, Uses
    <2>2. InnerAlive' = InnerAlive
      BY <1>1, <1>3, <1>b DEF InnerAlive, Unmap
    <2> QED BY <1>1, <2>1, <2>2, QuietStep
  <1>4. CASE ~(DropLease(t) \/ Unmap(t))
    <2>1. /\ UNCHANGED <<held, retired>>
          /\ \A u \in Threads \ {t} : pc'[u] = pc[u]
          /\ pc[t] \notin {"drop", "release", "notify"}
          /\ pc'[t] \notin {"drop", "release", "notify"}
      BY <1>4, <1>b DEF WaitRetiring, WaitFlight, Wait, Rewake, RefuseFlight,
          RefuseReentrant, BuildFailed, AdmitRefuse, ReturnError, SpuriousWake, Reenter,
          Request
    <2>2. \A u \in Threads : Uses(u)' = Uses(u)
      BY <2>1 DEF Uses
    <2>3. InnerAlive' = InnerAlive
      BY <1>1, <2>1 DEF InnerAlive
    <2> QED BY <1>1, <2>2, <2>3, QuietStep
  <1> QED BY <1>2, <1>3, <1>4

\* A hit gives a live kernel one more user.
LEMMA HitActions ==
    ASSUME Inv, RefInv, NEW i \in Identities, NEW t \in Threads, HitEntry(t)
           \/ HitLive(t)
    PROVE  LifecycleStep(i)
  <1>b. /\ pc \in [Threads -> PCs] /\ held \in [Threads -> SUBSET Kernels]
        /\ retired \in [Threads -> SUBSET Kernels]
    BY DEF Inv, TypeInv, TypeOK
  <1>0. pc[t] = "lookup" /\ InnerAlive /\ InnerAlive' = InnerAlive
    <2>1. pc[t] = "lookup" BY OuterLookup DEF AfterLookup
    <2>a. open' = open BY DEF HitEntry, HitLive
    <2>2. open BY <2>1 DEF Inv, BorrowersOpen, Borrows
    <2> QED BY <2>1, <2>a, <2>2 DEF InnerAlive
  <1>1. PICK k \in live : /\ k.identity = req[t]
                          /\ held' = [held EXCEPT ![t] = {k}]
                          /\ Resident(k) \/ Referenced(k)
    <2>1. CASE HitEntry(t)
      <3>1. PICK e \in EntriesOf(req[t]) :
            held' = [held EXCEPT ![t] = {e.kernel}]
        BY <2>1 DEF HitEntry
      <3>2. e.kernel \in live /\ e.kernel.identity = req[t]
            /\ Resident(e.kernel)
        BY <1>0 DEF EntriesOf, Inv, Recorded, Resident
      <3> QED BY <3>1, <3>2
    <2>2. CASE HitLive(t)
      BY <2>2 DEF HitLive, LiveOf, Strong
    <2> QED BY <2>1, <2>2
  <1>2. FlightsOf(req[t]) = {} BY <1>1, LiveNoFlight
  <1>3. /\ UNCHANGED <<flights, live, lease>>
        /\ \A j : EntriesOf(j)' = {} <=> EntriesOf(j) = {}
    <2>1. CASE HitEntry(t)
      <3>1. UNCHANGED <<flights, live, lease>> BY <2>1 DEF HitEntry
      <3>2. PICK e \in entries :
            entries' = (entries \ {e}) \cup {[kernel |-> e.kernel,
            last_used |-> NextClock]}
        BY <2>1 DEF HitEntry, EntriesOf
      <3>3. \A j : EntriesOf(j)' = {} <=> EntriesOf(j) = {}
        <4> DEFINE f == [kernel |-> e.kernel, last_used |-> NextClock]
        <4>1. f.kernel = e.kernel /\ f \in entries' BY <3>2
        <4>2. entries' = (entries \ {e}) \cup {f} BY <3>2
        <4> HIDE DEF f
        <4>3. ASSUME NEW j PROVE EntriesOf(j)' = {} <=> EntriesOf(j) = {}
          <5>1. CASE e.kernel.identity = j
            <6>1. e \in EntriesOf(j) /\ f \in EntriesOf(j)'
              BY <4>1, <5>1 DEF EntriesOf
            <6> QED BY <6>1
          <5>2. CASE e.kernel.identity # j
            BY <4>1, <4>2, <5>2 DEF EntriesOf
          <5> QED BY <5>1, <5>2
        <4> QED BY <4>3
      <3> QED BY <3>1, <3>3
    <2>2. CASE HitLive(t)
      BY <2>2 DEF HitLive, tables, EntriesOf
    <2> QED BY <2>1, <2>2
  <1>4. held[t] = {} /\ Uses(t) = {}
    BY <1>0 DEF Inv, HeldOK, HasCandidate, HasLease, DropPath, Uses
  <1>5. \A u \in Threads : Uses(u)' = IF u = t THEN {k} ELSE Uses(u)
    BY <1>1, <1>b DEF Uses, HitEntry, HitLive, Go
  <1>6. CASE i = req[t]
    <2>1. UsingThreads(i)' = UsingThreads(i) \cup {t}
      BY <1>1, <1>4, <1>5, <1>6 DEF UsingThreads
    <2>2. UsingLeases(i)' = UsingLeases(i) /\ FlightsOf(i)' = FlightsOf(i)
      BY <1>3 DEF UsingLeases, FlightsOf
    <2>3. Users(i)' = Users(i) \cup {t} /\ Users(i)' # {}
      BY <1>2, <1>6, <2>1, <2>2 DEF Users
    <2>4. Users(i) # {} \/ EntriesOf(i) # {}
      <3>1. CASE Resident(k) BY <1>1, <1>6, <3>1 DEF Resident, EntriesOf
      <3>2. CASE Referenced(k)
        <4>1. UsingThreads(i) # {} \/ UsingLeases(i) # {}
          BY <1>1, <1>6, <3>2 DEF Referenced, UsingThreads, UsingLeases, Uses
        <4> QED BY <1>2, <1>6, <4>1 DEF Users
      <3> QED BY <1>1, <3>1, <3>2
    <2>5. t \in Clients BY DEF Clients
    <2> QED BY <1>0, <1>2, <1>6, <2>2, <2>3, <2>4, <2>5, ShareStep
  <1>7. CASE i # req[t]
    <2>1. UsingThreads(i)' = UsingThreads(i)
      BY <1>1, <1>4, <1>5, <1>7 DEF UsingThreads
    <2>2. UsingLeases(i)' = UsingLeases(i) /\ FlightsOf(i)' = FlightsOf(i)
          /\ LiveOf(i)' = LiveOf(i)
      BY <1>3 DEF UsingLeases, FlightsOf, LiveOf
    <2> QED BY <1>0, <1>3, <2>1, <2>2, StutterStep
  <1> QED BY <1>6, <1>7

\* A flight starts on an absent identity; the kernel evicted for it stays
\* live, with the evicting thread as one more user.
LEMMA LaunchActions ==
    ASSUME Inv, RefInv, NEW i \in Identities, NEW t \in Threads,
           StartFlight(t) \/ EvictAndStartFlight(t)
    PROVE  LifecycleStep(i)
  <1>b. /\ pc \in [Threads -> PCs] /\ held \in [Threads -> SUBSET Kernels]
        /\ retired \in [Threads -> SUBSET Kernels]
    BY DEF Inv, TypeInv, TypeOK
  <1>0. pc[t] = "lookup" /\ InnerAlive /\ InnerAlive' = InnerAlive
    <2>1. pc[t] = "lookup" BY OuterLookup DEF AfterLookup
    <2>a. open' = open
      BY DEF StartFlight, EvictAndStartFlight, MayLaunch, Launch
    <2>2. open BY <2>1 DEF Inv, BorrowersOpen, Borrows
    <2> QED BY <2>1, <2>a, <2>2 DEF InnerAlive
  <1>1. /\ EntriesOf(req[t]) = {} /\ LiveOf(req[t]) = {}
        /\ FlightsOf(req[t]) = {}
        /\ flights' = flights \cup {[identity |-> req[t],
             generation |-> generation + 1, owner |-> t]}
        /\ UNCHANGED <<live, lease, held>>
    BY DEF StartFlight, EvictAndStartFlight, MayLaunch, Launch, Absent
  <1>2. held[t] = {} /\ Uses(t) = {}
    BY <1>0 DEF Inv, HeldOK, HasCandidate, HasLease, DropPath, Uses
  <1>3. /\ i = req[t] => FlightsOf(i)' # {}
        /\ i # req[t] => FlightsOf(i)' = FlightsOf(i)
    <2> DEFINE f == [identity |-> req[t], generation |-> generation + 1,
        owner |-> t]
    <2>1. f.identity = req[t] /\ flights' = flights \cup {f} BY <1>1
    <2> HIDE DEF f
    <2> QED BY <2>1 DEF FlightsOf
  <1>4. CASE i = req[t]
    <2>1. Phase(i) = "absent" /\ Users(i) = {}
      BY <1>0, <1>1, <1>4, UnknownUnused DEF Phase, Users
    <2>2. Phase(i)' = "building" /\ Users(i)' = {}
      BY <1>3, <1>4 DEF Phase, Users
    <2> QED BY <1>0, <2>1, <2>2 DEF LifecycleStep, Lifecycle!Next,
        Lifecycle!Build
  <1>5. CASE i # req[t] /\ StartFlight(t)
    <2>1. entries' = entries /\ \A u \in Threads : Uses(u)' = Uses(u)
      BY <1>0, <1>1, <1>5, <1>b DEF StartFlight, Launch, Uses, Go
    <2>2. UsingThreads(i)' = UsingThreads(i)
          /\ UsingLeases(i)' = UsingLeases(i)
      BY <1>1, <2>1 DEF UsingThreads, UsingLeases
    <2>3. EntriesOf(i)' = EntriesOf(i) /\ LiveOf(i)' = LiveOf(i)
          /\ FlightsOf(i)' = FlightsOf(i)
      BY <1>1, <1>3, <1>5, <2>1 DEF EntriesOf, LiveOf
    <2> QED BY <1>0, <2>2, <2>3, StutterStep
  <1>6. CASE i # req[t] /\ EvictAndStartFlight(t)
    <2>1. PICK e \in entries : entries' = entries \ {e}
          /\ DropThen(t, e.kernel, "building")
      BY <1>6 DEF EvictAndStartFlight, LeastRecent, Launch
    <2>2. \A u \in Threads : Uses(u)' = IF u = t THEN {e.kernel} ELSE Uses(u)
      BY <1>1, <1>2, <2>1, <1>b DEF DropThen, Uses, Go
    <2>3. UsingLeases(i)' = UsingLeases(i) /\ FlightsOf(i)' = FlightsOf(i)
          /\ LiveOf(i)' = LiveOf(i)
      BY <1>1, <1>3, <1>6 DEF UsingLeases, LiveOf
    <2>4. CASE e.kernel.identity = i
      <3>1. e.kernel \in live BY <1>0 DEF Inv, Recorded
      <3>2. FlightsOf(i) = {} BY <2>4, <3>1, LiveNoFlight
      <3>3. UsingThreads(i)' = UsingThreads(i) \cup {t}
        BY <1>2, <2>2, <2>4 DEF UsingThreads
      <3>4. Users(i)' = Users(i) \cup {t} /\ Users(i)' # {}
        BY <2>3, <3>2, <3>3 DEF Users
      <3>5. EntriesOf(i) # {} BY <2>4 DEF EntriesOf
      <3>6. t \in Clients BY DEF Clients
      <3> QED BY <1>0, <2>3, <3>2, <3>4, <3>5, <3>6, ShareStep
    <2>5. CASE e.kernel.identity # i
      <3>1. UsingThreads(i)' = UsingThreads(i)
        BY <1>2, <2>2, <2>5 DEF UsingThreads
      <3>2. EntriesOf(i)' = EntriesOf(i)
        BY <2>1, <2>5 DEF EntriesOf
      <3> QED BY <1>0, <2>3, <3>1, <3>2, StutterStep
    <2> QED BY <2>4, <2>5
  <1> QED BY <1>4, <1>5, <1>6

\* Publishing or dropping a candidate shows only to its builder.
LEMMA CandidateActions ==
    ASSUME Inv, RefInv, NEW i \in Identities, NEW t \in Threads,
           BuildPublished(t) \/ DropCandidate(t)
    PROVE  LifecycleStep(i)
  <1>b. /\ pc \in [Threads -> PCs] /\ held \in [Threads -> SUBSET Kernels]
    BY DEF Inv, TypeInv, TypeOK
  <1>1. /\ pc[t] \in {"building", "rejected", "refused"}
        /\ UNCHANGED <<entries, flights, live, lease, retired, open>>
        /\ pc'[t] \notin {"drop", "release", "notify"}
        /\ \A u \in Threads \ {t} : pc'[u] = pc[u] /\ held'[u] = held[u]
        /\ held'[t] \subseteq {Candidate(t)}
    BY <1>b DEF BuildPublished, DropCandidate, tables, Go
  <1>2. Building(t) BY <1>1 DEF Building
  <1>3. held[t] \subseteq {Candidate(t)} /\ Uses(t) \subseteq {Candidate(t)}
        /\ Uses(t)' \subseteq {Candidate(t)}
    BY <1>1 DEF Inv, HeldOK, HasCandidate, HasLease, DropPath, Uses
  <1>4. FlightsOf(req[t]) # {} BY <1>2, FlightUsers
  <1>5. InnerAlive' = InnerAlive BY <1>1 DEF InnerAlive
  <1>6. FlightsOf(i)' = FlightsOf(i) /\ EntriesOf(i)' = EntriesOf(i)
        /\ LiveOf(i)' = LiveOf(i) /\ UsingLeases(i)' = UsingLeases(i)
    BY <1>1 DEF FlightsOf, EntriesOf, LiveOf, UsingLeases
  <1>7. CASE i = req[t] BY <1>4, <1>5, <1>6, <1>7, StutterStep
  <1>8. CASE i # req[t]
    <2>1. \A u \in Threads \ {t} : Uses(u)' = Uses(u) BY <1>1 DEF Uses
    <2>2. \A k \in Uses(t) \cup Uses(t)' : k.identity # i
      BY <1>3, <1>8 DEF Candidate
    <2>3. UsingThreads(i)' = UsingThreads(i) BY <2>1, <2>2 DEF UsingThreads
    <2> QED BY <1>5, <1>6, <2>3, StutterStep
  <1> QED BY <1>7, <1>8

\* A flight that ends without a kernel leaves its identity absent.
LEMMA FinishAction ==
    ASSUME Inv, RefInv, NEW i \in Identities, NEW t \in Threads,
           FinishFailed(t)
    PROVE  LifecycleStep(i)
  <1>b. /\ pc \in [Threads -> PCs]
    BY DEF Inv, TypeInv, TypeOK
  <1>1. /\ pc[t] \in {"finish_error", "finish_panic", "unflight"}
        /\ UNCHANGED <<entries, live, lease, held, retired, open>>
        /\ pc' = [pc EXCEPT ![t] = "notify"]
    BY DEF FinishFailed, NotifyThen, Go
  <1>2. Building(t) BY <1>1 DEF Building
  <1>3. flights' = flights \ {FlightFor(t)}
    BY <1>2, OwnFlight DEF Inv, FinishFailed, RemoveFlight
  <1>4. Uses(t) = {} /\ \A u \in Threads : Uses(u)' = Uses(u)
    BY <1>1, <1>b DEF Inv, HeldOK, HasCandidate, HasLease, DropPath, Uses
  <1>5. InnerAlive /\ InnerAlive' = InnerAlive
    BY <1>1, <1>2, FlightAlone DEF InnerAlive, Inv
  <1>6. UsingThreads(i)' = UsingThreads(i)
        /\ UsingLeases(i)' = UsingLeases(i) /\ EntriesOf(i)' = EntriesOf(i)
        /\ LiveOf(i)' = LiveOf(i)
    BY <1>1, <1>4 DEF UsingThreads, UsingLeases, EntriesOf, LiveOf
  <1>7. CASE i = req[t]
    <2>1. /\ UsingThreads(i) = {} /\ UsingLeases(i) = {} /\ EntriesOf(i) = {}
          /\ LiveOf(i) = {}
          /\ FlightsOf(i) = {FlightFor(t)}
      BY <1>2, <1>4, <1>7, FlightUsers DEF UsingThreads
    <2>2. FlightsOf(i)' = {}
      BY <1>3, <2>1 DEF FlightsOf
    <2>3. Phase(i) = "building" /\ Users(i) = {}
      BY <2>1 DEF Phase, Users
    <2>4. Phase(i)' = "absent" /\ Users(i)' = {}
      BY <1>6, <2>1, <2>2 DEF Phase, Users
    <2> QED BY <1>5, <2>3, <2>4 DEF LifecycleStep, Lifecycle!Next,
        Lifecycle!Abandon
  <1>8. CASE i # req[t]
    <2>1. FlightsOf(i)' = FlightsOf(i)
      BY <1>3, <1>8 DEF FlightsOf, FlightFor
    <2> QED BY <1>5, <1>6, <2>1, StutterStep
  <1> QED BY <1>7, <1>8

\* Admission makes the builder the first user of the kernel.
LEMMA AdmitAction ==
    ASSUME Inv, RefInv, NEW i \in Identities, NEW t \in Threads, Admit(t)
    PROVE  LifecycleStep(i)
  <1>b. pc \in [Threads -> PCs]
    BY DEF Inv, TypeInv, TypeOK
  <1> DEFINE e == [kernel |-> Candidate(t), last_used |-> NextClock]
  <1>1. /\ pc[t] = "admit"
        /\ live' = live \cup {Candidate(t)} /\ entries' = entries \cup {e}
        /\ UNCHANGED <<lease, held, retired, open>>
        /\ pc' = [pc EXCEPT ![t] = "notify"]
    BY DEF Admit, NotifyThen, Go
  <1>2. Building(t) /\ HasCandidate(t) BY <1>1 DEF Building, HasCandidate
  <1>3. flights' = flights \ {FlightFor(t)}
    BY <1>2, OwnFlight DEF Inv, Admit, RemoveFlight
  <1>4. Uses(t) = {Candidate(t)} /\ \A u \in Threads : Uses(u)' = Uses(u)
    BY <1>1, <1>2, <1>b DEF Inv, HeldOK, Uses
  <1>c. Candidate(t).identity = req[t] /\ e.kernel = Candidate(t)
    BY DEF Candidate
  <1> HIDE DEF e
  <1>5. InnerAlive /\ InnerAlive' = InnerAlive
    BY <1>1, <1>2, FlightAlone DEF InnerAlive, Inv
  <1>6. UsingThreads(i)' = UsingThreads(i) /\ UsingLeases(i)' = UsingLeases(i)
    BY <1>1, <1>4 DEF UsingThreads, UsingLeases
  <1>7. CASE i = req[t]
    <2>1. /\ UsingThreads(i) = {t} /\ UsingLeases(i) = {}
          /\ FlightsOf(i) = {FlightFor(t)}
      <3>1. t \in UsingThreads(i) BY <1>4, <1>7, <1>c DEF UsingThreads
      <3> QED BY <1>2, <1>7, <3>1, FlightUsers
    <2>2. FlightsOf(i)' = {}
      BY <1>3, <2>1 DEF FlightsOf
    <2>3. Phase(i) = "building" /\ Users(i) = {}
      BY <2>1 DEF Phase, Users
    <2>4. Users(i)' = {t}
      BY <1>6, <2>1, <2>2 DEF Users
    <2>5. Phase(i)' = "live"
      BY <2>2, <2>4 DEF Phase
    <2>6. t \in Clients BY DEF Clients
    <2> QED BY <1>5, <2>3, <2>4, <2>5, <2>6 DEF LifecycleStep, Lifecycle!Next,
        Lifecycle!Publish
  <1>8. CASE i # req[t]
    <2>1. FlightsOf(i)' = FlightsOf(i)
      BY <1>3, <1>8 DEF FlightsOf, FlightFor
    <2>2. EntriesOf(i)' = EntriesOf(i) /\ LiveOf(i)' = LiveOf(i)
      BY <1>1, <1>8, <1>c DEF EntriesOf, LiveOf
    <2> QED BY <1>5, <1>6, <2>1, <2>2, StutterStep
  <1> QED BY <1>7, <1>8

\* An entry evicted for the aggregate limits gains the evicting thread as a
\* user.
LEMMA AdmitEvictAction ==
    ASSUME Inv, RefInv, NEW i \in Identities, NEW t \in Threads, AdmitEvict(t)
    PROVE  LifecycleStep(i)
  <1>b. pc \in [Threads -> PCs] /\ retired \in [Threads -> SUBSET Kernels]
    BY DEF Inv, TypeInv, TypeOK
  <1>1. PICK e \in entries : entries' = entries \ {e}
        /\ DropThen(t, e.kernel, "admit")
    BY DEF AdmitEvict, LeastRecent, CacheOnly
  <1>2. pc[t] = "admit" /\ UNCHANGED <<flights, live, lease, held, open>>
    BY DEF AdmitEvict
  <1>3. Building(t) /\ HasCandidate(t) BY <1>2 DEF Building, HasCandidate
  <1>5. InnerAlive /\ InnerAlive' = InnerAlive
    BY <1>2, <1>3, FlightAlone DEF InnerAlive, Inv
  <1>4. \A u \in Threads : Uses(u)' = IF u = t THEN Uses(t) \cup {e.kernel}
        ELSE Uses(u)
    BY <1>1, <1>2, <1>b DEF DropThen, Go, Uses
  <1>6. UsingLeases(i)' = UsingLeases(i) /\ FlightsOf(i)' = FlightsOf(i)
        /\ LiveOf(i)' = LiveOf(i)
    BY <1>2 DEF UsingLeases, FlightsOf, LiveOf
  <1>7. CASE e.kernel.identity = i
    <2>1. e.kernel \in live BY <1>5 DEF Inv, Recorded
    <2>2. FlightsOf(i) = {} BY <1>7, <2>1, LiveNoFlight
    <2>3. UsingThreads(i)' = UsingThreads(i) \cup {t}
      BY <1>4, <1>7 DEF UsingThreads
    <2>4. Users(i)' = Users(i) \cup {t} /\ Users(i)' # {}
      BY <1>6, <2>2, <2>3 DEF Users
    <2>5. EntriesOf(i) # {} BY <1>7 DEF EntriesOf
    <2>6. t \in Clients BY DEF Clients
    <2> QED BY <1>5, <1>6, <2>2, <2>4, <2>5, <2>6, ShareStep
  <1>8. CASE e.kernel.identity # i
    <2>1. UsingThreads(i)' = UsingThreads(i)
      BY <1>4, <1>8 DEF UsingThreads
    <2>2. EntriesOf(i)' = EntriesOf(i)
      BY <1>1, <1>8 DEF EntriesOf
    <2> QED BY <1>5, <1>6, <2>1, <2>2, StutterStep
  <1> QED BY <1>7, <1>8

\* What a thread drops is mapped, is not what it builds, and is recorded
\* while Inner exists.
LEMMA DropKernel ==
    ASSUME Inv, RefInv, NEW t \in Threads, pc[t] = "drop", NEW k \in retired[t]
    PROVE  /\ retired[t] = {k} /\ k \in mapped
           /\ \A l \in held[t] : l.identity # k.identity
           /\ FlightsOf(k.identity) = {}
           /\ InnerAlive => k \in live
  <1>1. retired[t] = {k} /\ k \in mapped
    BY DEF Inv, HeldOK, MappedOK
  <1>2. InnerAlive => k \in live
    BY DEF Inv, Recorded
  <1>3. FlightsOf(k.identity) = {}
    BY <1>2, LiveNoFlight DEF RefInv, FreedEmpty, FlightsOf
  <1>4. ASSUME NEW l \in held[t], l.identity = k.identity PROVE FALSE
    <2>1. cont[t] \in {"idle", "building", "admit"} BY DEF RefInv, ReturnsOK
    <2>2. ~HasLease(t) BY <2>1 DEF HasLease
    <2>3. HasCandidate(t) BY <1>4, <2>2 DEF Inv, HeldOK
    <2>4. l = Candidate(t) BY <1>4, <2>3 DEF Inv, HeldOK
    <2>5. Building(t) BY <2>3 DEF HasCandidate, Building
    <2>6. FlightFor(t) \in flights BY <2>5 DEF Inv, FlightsOwned
    <2> QED BY <1>3, <1>4, <2>4, <2>6 DEF FlightsOf, FlightFor, Candidate
  <1> QED BY <1>1, <1>2, <1>3, <1>4

\* Dropping a shared reference takes one user away; the kernel stays live.
LEMMA DropSharedAction ==
    ASSUME Inv, RefInv, NEW i \in Identities, NEW t \in Threads, DropShared(t)
    PROVE  LifecycleStep(i)
  <1>b. /\ pc \in [Threads -> PCs] /\ retired \in [Threads -> SUBSET Kernels]
        /\ cont[t] \in {"idle", "building", "admit"} /\ pc[t] = "drop"
    BY DEF Inv, TypeInv, TypeOK, RefInv, ReturnsOK, DropShared
  <1>1. PICK k \in retired[t] : ~IsLast(t, k) BY DEF DropShared
  <1>2. /\ UNCHANGED <<entries, flights, live, lease, held, open>>
        /\ pc' = [pc EXCEPT ![t] = cont[t]]
        /\ retired' = [retired EXCEPT ![t] = {}]
    BY DEF DropShared, tables, Go
  <1>3. /\ retired[t] = {k} /\ FlightsOf(k.identity) = {}
        /\ \A l \in held[t] : l.identity # k.identity
    BY <1>b, DropKernel
  <1>4. InnerAlive' = InnerAlive BY <1>b, <1>2 DEF InnerAlive
  <1>5. UsingLeases(i)' = UsingLeases(i) /\ FlightsOf(i)' = FlightsOf(i)
        /\ LiveOf(i)' = LiveOf(i) /\ EntriesOf(i)' = EntriesOf(i)
    BY <1>2 DEF UsingLeases, FlightsOf, LiveOf, EntriesOf
  <1>6. Uses(t) = held[t] \cup {k}
        /\ \A u \in Threads : Uses(u)' = IF u = t THEN held[t] ELSE Uses(u)
    BY <1>b, <1>2, <1>3 DEF Uses
  <1>7. CASE k.identity = i
    <2>1. UsingThreads(i)' = UsingThreads(i) \ {t} /\ t \in UsingThreads(i)
      BY <1>3, <1>6, <1>7 DEF UsingThreads
    <2>2. Users(i) = UsingThreads(i) \cup UsingLeases(i)
          /\ Users(i)' = UsingThreads(i)' \cup UsingLeases(i)'
      BY <1>3, <1>5, <1>7 DEF Users
    <2>3. t \in Clients /\ t \notin UsingLeases(i)
      BY ClientsAssumption DEF Clients, UsingLeases
    <2>4. Users(i)' = Users(i) \ {t} BY <1>5, <2>1, <2>2, <2>3
    <2>5. (Users(i) # {} \/ EntriesOf(i) # {})'
      <3>1. CASE Resident(k) BY <1>5, <1>7, <3>1 DEF Resident, EntriesOf
      <3>2. ASSUME NEW h \in Handles, k \in lease[h] PROVE Users(i)' # {}
        BY <1>5, <1>7, <2>2, <3>2 DEF UsingLeases
      <3>3. ASSUME NEW u \in Threads \ {t}, k \in Uses(u) PROVE Users(i)' # {}
        BY <1>7, <2>1, <2>2, <3>3 DEF UsingThreads
      <3>4. k \notin held[t] BY <1>3
      <3> QED BY <1>1, <3>1, <3>2, <3>3, <3>4 DEF IsLast, Uses
    <2>6. Users(i) # {} BY <2>1, <2>2
    <2> QED BY <1>3, <1>4, <1>5, <1>7, <2>3, <2>4, <2>5, <2>6, ShareStep
  <1>8. CASE k.identity # i
    <2>1. UsingThreads(i)' = UsingThreads(i)
      BY <1>6, <1>8 DEF UsingThreads
    <2> QED BY <1>4, <1>5, <2>1, StutterStep
  <1> QED BY <1>7, <1>8

\* Dropping the last reference retires the kernel, or, once Inner is freed,
\* ends it.
LEMMA DropLastAction ==
    ASSUME Inv, RefInv, NEW i \in Identities, NEW t \in Threads, DropLast(t)
    PROVE  LifecycleStep(i)
  <1>b. pc \in [Threads -> PCs] /\ pc[t] = "drop"
    BY DEF Inv, TypeInv, TypeOK, DropLast
  <1>1. PICK k \in retired[t] : IsLast(t, k) BY DEF DropLast
  <1>2. /\ UNCHANGED <<entries, flights, live, lease, held, retired, open>>
        /\ pc' = [pc EXCEPT ![t] = "unmap"]
    BY DEF DropLast, tables, locals, Go
  <1>3. /\ retired[t] = {k} /\ FlightsOf(k.identity) = {}
        /\ \A l \in held[t] : l.identity # k.identity
        /\ k \in mapped /\ (InnerAlive => k \in live)
    BY <1>b, DropKernel
  <1>4. InnerAlive' = InnerAlive BY <1>b, <1>2 DEF InnerAlive
  <1>5. UsingLeases(i)' = UsingLeases(i) /\ FlightsOf(i)' = FlightsOf(i)
        /\ LiveOf(i)' = LiveOf(i) /\ EntriesOf(i)' = EntriesOf(i)
    BY <1>2 DEF UsingLeases, FlightsOf, LiveOf, EntriesOf
  <1>6. Uses(t) = held[t] \cup {k}
        /\ \A u \in Threads : Uses(u)' = IF u = t THEN held[t] ELSE Uses(u)
    BY <1>b, <1>2, <1>3 DEF Uses
  <1>7. CASE k.identity = i
    <2>1. \A l \in mapped : l.identity = i => l = k
      BY <1>3, <1>7 DEF Inv, SingleMapping
    <2>2. EntriesOf(i) = {}
      BY <1>1, <2>1 DEF IsLast, Resident, EntriesOf, Inv, MappedOK,
          LeasesCallable
    <2>3. UsingLeases(i) = {}
      BY <1>1, <2>1, LeaseKnown DEF IsLast, UsingLeases
    <2>4. UsingThreads(i) = {t}
      <3>1. t \in UsingThreads(i) BY <1>6, <1>7 DEF UsingThreads
      <3>2. ASSUME NEW u \in UsingThreads(i) PROVE u = t
        <4>1. PICK l \in Uses(u) : l.identity = i BY DEF UsingThreads
        <4>2. u \in Threads BY DEF UsingThreads
        <4>3. l = k BY <1>3, <1>7, <2>1, <4>1, <4>2, UsesKnown
        <4> QED BY <1>1, <4>1, <4>2, <4>3 DEF IsLast, Uses
      <3> QED BY <3>1, <3>2
    <2>5. UsingThreads(i)' = {}
      BY <1>3, <1>6, <1>7, <2>4 DEF UsingThreads
    <2>6. Users(i) = {t} /\ Users(i)' = {} /\ t \in Clients
      BY <1>3, <1>5, <1>7, <2>3, <2>4, <2>5 DEF Users, Clients
    <2>7. Phase(i) = "live" BY <1>3, <1>7, <2>6 DEF Phase
    <2>8. CASE InnerAlive
      <3>1. LiveOf(i) # {} BY <1>3, <1>7, <2>8 DEF LiveOf
      <3>2. Phase(i)' = "retiring"
        BY <1>3, <1>5, <1>7, <2>2, <2>6, <3>1 DEF Phase
      <3> QED BY <1>4, <2>6, <2>7, <2>8, <3>2 DEF LifecycleStep,
          Lifecycle!Next, Lifecycle!Retire
    <2>9. CASE ~InnerAlive
      <3>1. LiveOf(i) = {} BY <2>9 DEF LiveOf, RefInv, FreedEmpty
      <3>2. Phase(i)' = "absent"
        BY <1>3, <1>5, <1>7, <2>2, <2>6, <3>1 DEF Phase
      <3> QED BY <1>4, <2>6, <2>7, <2>9, <3>2 DEF LifecycleStep,
          Lifecycle!Next, Lifecycle!Leave
    <2> QED BY <2>8, <2>9
  <1>8. CASE k.identity # i
    <2>1. UsingThreads(i)' = UsingThreads(i)
      BY <1>6, <1>8 DEF UsingThreads
    <2> QED BY <1>4, <1>5, <2>1, StutterStep
  <1> QED BY <1>7, <1>8

\* Only the release of its record makes a retired identity absent.
LEMMA ReleaseAction ==
    ASSUME Inv, RefInv, NEW i \in Identities, NEW t \in Threads, Release(t)
    PROVE  LifecycleStep(i)
  <1>b. pc \in [Threads -> PCs] /\ pc[t] = "release"
        /\ retired \in [Threads -> SUBSET Kernels]
    BY DEF Inv, TypeInv, TypeOK, Release
  <1>1. PICK k \in retired[t] : live' = live \ {k} BY DEF Release
  <1>2. /\ UNCHANGED <<entries, flights, lease, held, open>>
        /\ pc' = [pc EXCEPT ![t] = "notify"]
        /\ retired' = [retired EXCEPT ![t] = {}]
    BY DEF Release, Go
  <1>3. InnerAlive /\ InnerAlive' BY <1>b, <1>2 DEF InnerAlive
  <1>4. k \in live /\ ~Strong(k)
    BY <1>b, <1>3 DEF Inv, Recorded, DyingUnreferenced, Dying
  <1>5. UsingLeases(i)' = UsingLeases(i) /\ FlightsOf(i)' = FlightsOf(i)
        /\ EntriesOf(i)' = EntriesOf(i)
    BY <1>2 DEF UsingLeases, FlightsOf, EntriesOf
  <1>6. \A u \in Threads : Uses(u)' = Uses(u)
    BY <1>b, <1>2 DEF Uses
  <1>7. UsingThreads(i)' = UsingThreads(i) BY <1>6 DEF UsingThreads
  <1>8. CASE k.identity = i
    <2>1. FlightsOf(i) = {} BY <1>4, <1>8, LiveNoFlight
    <2>2. \A l \in live : l.identity = i => l = k
      BY <1>4, <1>8 DEF Inv, Exclusive
    <2>3. EntriesOf(i) = {}
      BY <1>3, <1>4, <2>2 DEF EntriesOf, Inv, Recorded, Strong, Resident
    <2>4. UsingLeases(i) = {}
      BY <1>3, <1>4, <2>2, LeaseKnown DEF UsingLeases, Strong, Referenced
    <2>5. UsingThreads(i) = {}
      BY <1>3, <1>4, <2>1, <2>2, UsesKnown DEF UsingThreads, Uses, Strong,
          Referenced
    <2>6. LiveOf(i) # {} /\ LiveOf(i)' = {}
      BY <1>1, <1>4, <1>8, <2>2 DEF LiveOf
    <2>7. Users(i) = {} /\ Users(i)' = {} BY <1>5, <1>7, <2>4, <2>5 DEF Users
    <2>8. Phase(i) = "retiring" /\ Phase(i)' = "absent"
      BY <1>5, <2>1, <2>3, <2>6, <2>7 DEF Phase
    <2> QED BY <1>3, <2>7, <2>8 DEF LifecycleStep, Lifecycle!Next,
        Lifecycle!Forget
  <1>9. CASE k.identity # i
    <2>1. LiveOf(i)' = LiveOf(i) BY <1>1, <1>9 DEF LiveOf
    <2> QED BY <1>3, <1>5, <1>7, <2>1, StutterStep
  <1> QED BY <1>8, <1>9

\* Inner is freed: what only the cache kept is gone, what somebody uses
\* stays.
LEMMA CloseStep ==
    ASSUME Inv, RefInv, NEW i \in Identities, InnerAlive, ~InnerAlive',
           flights = {},
           FreeInner, lease' = lease, \A u \in Threads : Uses(u)' = Uses(u)
    PROVE  LifecycleStep(i)
  <1>1. FlightsOf(i) = {} /\ FlightsOf(i)' = {} /\ EntriesOf(i)' = {}
        /\ LiveOf(i)' = {}
    BY DEF FreeInner, FlightsOf, EntriesOf, LiveOf
  <1>2. Users(i)' = Users(i) BY <1>1 DEF Users, UsingThreads, UsingLeases
  <1>3. Phase(i) # "building" BY <1>1 DEF Phase
  <1>4. Phase(i)' = IF Users(i) = {} THEN "absent" ELSE Phase(i)
    BY <1>1, <1>2 DEF Phase
  <1> QED BY <1>2, <1>3, <1>4 DEF LifecycleStep, Lifecycle!Next,
      Lifecycle!Close

\* The destructor that drops the last owner pointer frees Inner.
LEMMA NotifyAction ==
    ASSUME Inv, RefInv, NEW i \in Identities, NEW t \in Threads, Notify(t)
    PROVE  LifecycleStep(i)
  <1>b. /\ pc \in [Threads -> PCs] /\ pc[t] = "notify"
        /\ cont[t] \in {"idle", "building", "admit", "holding", "failed"}
    BY DEF Inv, TypeInv, TypeOK, Notify
  <1>1. UNCHANGED <<lease, held, retired, open>> BY DEF Notify
  <1>2. \A u \in Threads : (pc'[u] = "drop" <=> pc[u] = "drop")
        /\ (u # t =>
        (pc'[u] \in {"release", "notify"} <=> pc[u] \in {"release",
        "notify"}))
    BY <1>b DEF Notify
  <1>3. pc'[t] \notin {"release", "notify"} BY <1>b DEF Notify
  <1>4. \A u \in Threads : Uses(u)' = Uses(u) BY <1>1, <1>2 DEF Uses
  <1>5. CASE open \/ \E u \in Threads \ {t} : pc[u] \in {"release", "notify"}
    <2>1. UNCHANGED <<entries, flights, live>> BY <1>5 DEF Notify, tables
    <2>2. InnerAlive /\ InnerAlive' BY <1>1, <1>2, <1>5 DEF InnerAlive
    <2> QED BY <1>1, <1>4, <2>1, <2>2, QuietStep
  <1>6. CASE ~open
        /\ \A u \in Threads \ {t} : pc[u] \notin {"release", "notify"}
    <2>1. FreeInner BY <1>6 DEF Notify
    <2>2. InnerAlive /\ ~InnerAlive'
      BY <1>b, <1>1, <1>2, <1>3, <1>6 DEF InnerAlive
    <2>3. flights = {}
      BY <1>6, FlightAlone DEF Inv, FlightsOwned, TypeInv, TypeOK
    <2> QED BY <1>1, <1>4, <2>1, <2>2, <2>3, CloseStep
  <1> QED BY <1>5, <1>6

\* So does the last cache handle, unless a destructor still runs.
LEMMA DropCacheAction ==
    ASSUME Inv, RefInv, NEW i \in Identities, DropCache
    PROVE  LifecycleStep(i)
  <1>1. UNCHANGED <<lease, held, retired, pc>> /\ open /\ ~open'
    BY DEF DropCache, locals
  <1>2. \A u \in Threads : Uses(u)' = Uses(u) BY <1>1 DEF Uses
  <1>3. CASE \E t \in Threads : pc[t] \in {"release", "notify"}
    <2>1. UNCHANGED <<entries, flights, live>> BY <1>3 DEF DropCache, tables
    <2>2. InnerAlive /\ InnerAlive' BY <1>1, <1>3 DEF InnerAlive
    <2> QED BY <1>1, <1>2, <2>1, <2>2, QuietStep
  <1>4. CASE \A t \in Threads : pc[t] \notin {"release", "notify"}
    <2>1. FreeInner BY <1>4 DEF DropCache
    <2>2. InnerAlive /\ ~InnerAlive' BY <1>1, <1>4 DEF InnerAlive
    <2>3. flights = {}
      BY DEF DropCache, Inv, FlightsOwned, TypeInv, TypeOK, Building, Borrows,
          DropPath
    <2> QED BY <1>1, <1>2, <2>1, <2>2, <2>3, CloseStep
  <1> QED BY <1>3, <1>4

\* A clone adds a user to the kernel of its original.
LEMMA CloneAction ==
    ASSUME Inv, RefInv, NEW i \in Identities, NEW t \in Threads,
           NEW h \in Handles, CloneLease(t, h)
    PROVE  LifecycleStep(i)
  <1>b. lease \in [Handles -> SUBSET Kernels] BY DEF Inv, TypeInv, TypeOK
  <1>1. /\ pc[t] = "holding" /\ lease[h] = {}
        /\ lease' = [lease EXCEPT ![h] = held[t]]
        /\ UNCHANGED <<entries, flights, live, open, pc, held, retired>>
    BY DEF CloneLease, tables, locals
  <1>2. /\ UsingThreads(i)' = UsingThreads(i) /\ FlightsOf(i)' = FlightsOf(i)
        /\ InnerAlive' = InnerAlive
        /\ EntriesOf(i)' = EntriesOf(i) /\ LiveOf(i)' = LiveOf(i)
    BY <1>1 DEF UsingThreads, Uses, FlightsOf, InnerAlive, EntriesOf, LiveOf
  <1>3. CASE \E k \in held[t] : k.identity = i
    <2>1. PICK k \in held[t] : k.identity = i BY <1>3
    <2>2. FlightsOf(i) = {}
      <3>1. InnerAlive => k \in live
        BY <1>1, <2>1 DEF Inv, Recorded, HasLease
      <3> QED BY <2>1, <3>1, LiveNoFlight DEF RefInv, FreedEmpty, FlightsOf
    <2>3. UsingLeases(i)' = UsingLeases(i) \cup {h}
      BY <1>b, <1>1, <2>1 DEF UsingLeases
    <2>4. t \in UsingThreads(i) BY <2>1 DEF UsingThreads, Uses
    <2>5. Users(i)' = Users(i) \cup {h} /\ Users(i) # {} /\ Users(i)' # {}
      BY <1>2, <2>2, <2>3, <2>4 DEF Users
    <2>6. h \in Clients BY DEF Clients
    <2> QED BY <1>2, <2>2, <2>5, <2>6, ShareStep
  <1>4. CASE ~ \E k \in held[t] : k.identity = i
    <2>1. UsingLeases(i)' = UsingLeases(i)
      BY <1>b, <1>1, <1>4 DEF UsingLeases
    <2> QED BY <1>2, <2>1, StutterStep
  <1> QED BY <1>3, <1>4

\* A matcher hands its reference to the thread that drops it.
LEMMA DropCloneAction ==
    ASSUME Inv, RefInv, NEW i \in Identities, NEW t \in Threads,
           NEW h \in Handles, DropClone(t, h)
    PROVE  LifecycleStep(i)
  <1>b. /\ lease \in [Handles -> SUBSET Kernels] /\ pc \in [Threads -> PCs]
        /\ retired \in [Threads -> SUBSET Kernels]
    BY DEF Inv, TypeInv, TypeOK
  <1>1. PICK k \in lease[h] : DropThen(t, k, "idle") BY DEF DropClone
  <1>2. /\ pc[t] = "idle" /\ lease' = [lease EXCEPT ![h] = {}]
        /\ UNCHANGED <<entries, flights, live, open, held>>
        /\ pc' = [pc EXCEPT ![t] = "drop"]
        /\ retired' = [retired EXCEPT ![t] = {k}]
    BY <1>1 DEF DropClone, DropThen, tables, Go
  <1>3. lease[h] = {k} BY <1>1 DEF RefInv, OneKernel
  <1>4. held[t] = {}
    BY <1>2 DEF Inv, HeldOK, HasCandidate, HasLease, DropPath
  <1>5. Uses(t) = {} /\ \A u \in Threads : Uses(u)' = IF u = t THEN {k}
        ELSE Uses(u)
    BY <1>b, <1>2, <1>4 DEF Uses
  <1>6. /\ FlightsOf(i)' = FlightsOf(i) /\ InnerAlive' = InnerAlive
        /\ EntriesOf(i)' = EntriesOf(i) /\ LiveOf(i)' = LiveOf(i)
    BY <1>2, <1>b DEF FlightsOf, InnerAlive, EntriesOf, LiveOf
  <1>7. CASE k.identity = i
    <2>1. FlightsOf(i) = {}
      <3>1. InnerAlive => k \in live BY LeaseKnown
      <3> QED BY <1>7, <3>1, LiveNoFlight DEF RefInv, FreedEmpty, FlightsOf
    <2>2. UsingThreads(i)' = UsingThreads(i) \cup {t}
      BY <1>5, <1>7 DEF UsingThreads
    <2>3. UsingLeases(i)' = UsingLeases(i) \ {h} /\ h \in UsingLeases(i)
      BY <1>b, <1>2, <1>3, <1>7 DEF UsingLeases
    <2>4. h \notin UsingThreads(i) /\ h # t /\ h \in Clients /\ t \in Clients
      BY ClientsAssumption DEF UsingThreads, Clients
    <2>5. Users(i)' = (Users(i) \ {h}) \cup {t} /\ Users(i) # {}
          /\ Users(i)' # {}
      BY <1>6, <2>1, <2>2, <2>3, <2>4 DEF Users
    <2> QED BY <1>6, <2>1, <2>4, <2>5, ShareStep
  <1>8. CASE k.identity # i
    <2>1. UsingLeases(i)' = UsingLeases(i)
      BY <1>b, <1>2, <1>3, <1>8 DEF UsingLeases
    <2>2. UsingThreads(i)' = UsingThreads(i)
      BY <1>5, <1>8 DEF UsingThreads
    <2> QED BY <1>6, <2>1, <2>2, StutterStep
  <1> QED BY <1>7, <1>8

\* Each step of the cache is, for each identity, a step of its life cycle or
\* a stutter.
LEMMA EveryStep ==
    ASSUME Inv, RefInv, [Next]_vars, NEW i \in Identities
    PROVE  LifecycleStep(i)
  <1>1. CASE UNCHANGED vars
    <2>1. UNCHANGED <<entries, flights, live, lease, held, retired, pc, open>>
      BY <1>1 DEF vars, tables, locals
    <2> QED BY <2>1, QuietStep DEF Uses, InnerAlive
  <1>2. ASSUME NEW t \in Threads, Step(t) PROVE LifecycleStep(i)
    BY <1>2, QuietActions, HitActions, LaunchActions, CandidateActions,
        FinishAction, AdmitAction, AdmitEvictAction,
       DropSharedAction, DropLastAction, ReleaseAction, NotifyAction DEF Step
  <1>3. ASSUME NEW t \in Threads,
               SpuriousWake(t) \/ Reenter(t) \/ DropLease(t)
                   \/ \E j \in Identities : Request(t, j)
        PROVE  LifecycleStep(i)
    BY <1>3, QuietActions
  <1> QED
    BY <1>1, <1>2, <1>3, CloneAction, DropCloneAction, DropCacheAction
        DEF Next, Finished

\* The cache implements KernelLifecycle for every identity, for any number
\* of threads, leases and identities: no kernel is built while another of
\* its identity is in use or still being unmapped, none is retired under a
\* user, and dropping the cache takes no kernel from a user.
THEOREM CacheImplementsLifecycle == Spec => ImplementsLifecycle
  <1>1. Init => \A i \in Identities : Lifecycle(i)!Init
    BY DEF Init, Lifecycle!Init, Phase, Users, UsingThreads, UsingLeases,
        Uses, FlightsOf, EntriesOf, LiveOf, InnerAlive
  <1>2. Spec => []RefInv
    BY InitRefInv, NextRefInv, Invariance, PTL DEF Spec
  <1>3. Inv /\ RefInv /\ [Next]_vars =>
          [\A i \in Identities : Lifecycle(i)!Next
              \/ UNCHANGED Lifecycle(i)!vars]_vars
    BY EveryStep DEF LifecycleStep
  <1> QED BY <1>1, <1>2, <1>3, Invariance, PTL DEF Spec, ImplementsLifecycle
-----------------------------------------------------------------------------
(* Reclamation under an aggregate limit.                                   *)

\* A charged kernel is in somebody's hands: an entry, a lease, a thread, or
\* the one destructor that is to release its record.
Kept(k) == Strong(k) \/ \E t \in Threads : Dying(t) /\ k \in retired[t]

LiveKept == InnerAlive => \A k \in live : Kept(k)

\* No action loses a charged kernel: a reference that is not passed on is
\* dropped by a thread, and the last one becomes a destructor, which lasts
\* until remove_live.
LEMMA NextLiveKept ==
    ASSUME Inv, RefInv, LiveKept, [Next]_vars
    PROVE  LiveKept'
  <1>a. InnerAlive' => InnerAlive BY InnerStaysFreed
  <1>b. /\ pc \in [Threads -> PCs] /\ held \in [Threads -> SUBSET Kernels]
        /\ lease \in [Handles -> SUBSET Kernels]
        /\ retired \in [Threads -> SUBSET Kernels]
        /\ cont \in [Threads -> {"idle", "building", "admit", "holding",
             "failed"}]
    BY DEF Inv, TypeInv, TypeOK
  <1>c. \A t \in Threads : /\ AfterLookup(t) => pc[t] = "lookup"
                           /\ RefuseReentrant(t) => pc[t] = "nested"
    BY OuterLookup
  <1>d. \A t \in Threads :
           /\ pc[t] \notin {"drop", "unmap", "release"} => retired[t] = {}
           /\ \A k, l \in retired[t] : k = l
           /\ pc[t] \in {"lookup", "building"} => held[t] = {}
           /\ pc[t] \in {"admit", "rejected", "refused"}
                 => held[t] = {Candidate(t)}
    BY DEF Inv, HeldOK, HasCandidate, HasLease, DropPath
  <1>e. /\ \A t \in Threads : \A k, l \in held[t] : k = l
        /\ \A h \in Handles : \A k, l \in lease[h] : k = l
    BY DEF RefInv, OneKernel
  <1>f. \A t \in Threads : pc[t] \in {"rejected", "refused"}
           => Candidate(t) \notin live
    BY CandidatePrivate DEF HasCandidate
  <1>g. SUFFICES ASSUME InnerAlive, InnerAlive', NEW k \in live' PROVE Kept(k)'
    BY <1>a DEF LiveKept
  <1>h. k \in live => Kept(k) BY <1>g DEF LiveKept
  <1> USE DEF Kept, Strong, Resident, Referenced, Dying, PCs, tables, counters,
        clocks, locals, Go
  <1>1. ASSUME NEW t \in Threads, HitEntry(t), pc[t] = "lookup"
        PROVE  Kept(k)'
    BY <1>b, <1>d, <1>e, <1>h, <1>1 DEF HitEntry, EntriesOf, NextClock
  <1>2. ASSUME NEW t \in Threads, HitLive(t), pc[t] = "lookup"
        PROVE  Kept(k)'
    BY <1>b, <1>d, <1>e, <1>h, <1>2 DEF HitLive, EntriesOf
  <1>3. ASSUME NEW t \in Threads, WaitRetiring(t), pc[t] = "lookup"
        PROVE  Kept(k)'
    BY <1>b, <1>d, <1>e, <1>h, <1>3 DEF WaitRetiring, Wait
  <1>4. ASSUME NEW t \in Threads, WaitFlight(t), pc[t] = "lookup"
        PROVE  Kept(k)'
    BY <1>b, <1>d, <1>e, <1>h, <1>4 DEF WaitFlight, Wait
  <1>5. ASSUME NEW t \in Threads, RefuseFlight(t), pc[t] = "lookup"
        PROVE  Kept(k)'
    BY <1>b, <1>d, <1>e, <1>h, <1>5 DEF RefuseFlight
  <1>6. ASSUME NEW t \in Threads, StartFlight(t), pc[t] = "lookup"
        PROVE  Kept(k)'
    BY <1>b, <1>d, <1>e, <1>h, <1>6 DEF StartFlight, MayLaunch, Launch
  <1>7. ASSUME NEW t \in Threads, EvictAndStartFlight(t), pc[t] = "lookup"
        PROVE  Kept(k)'
    BY <1>b, <1>d, <1>e, <1>h, <1>7 DEF EvictAndStartFlight, MayLaunch, Launch, DropThen,
       LeastRecent
  <1>8. ASSUME NEW t \in Threads, RefuseReentrant(t), pc[t] = "nested"
        PROVE  Kept(k)'
    BY <1>b, <1>d, <1>e, <1>h, <1>8 DEF RefuseReentrant
  <1>9. ASSUME NEW t \in Threads, Rewake(t)
        PROVE  Kept(k)'
    BY <1>b, <1>d, <1>e, <1>h, <1>9 DEF Rewake
  <1>10. ASSUME NEW t \in Threads, BuildPublished(t)
        PROVE  Kept(k)'
    BY <1>b, <1>d, <1>e, <1>h, <1>10 DEF BuildPublished
  <1>11. ASSUME NEW t \in Threads, BuildFailed(t)
        PROVE  Kept(k)'
    BY <1>b, <1>d, <1>e, <1>h, <1>11 DEF BuildFailed
  <1>12. ASSUME NEW t \in Threads, DropCandidate(t)
        PROVE  Kept(k)'
    BY <1>b, <1>d, <1>e, <1>f, <1>h, <1>12 DEF DropCandidate
  <1>13. ASSUME NEW t \in Threads, FinishFailed(t)
        PROVE  Kept(k)'
    BY <1>b, <1>d, <1>e, <1>h, <1>13 DEF FinishFailed, NotifyThen
  <1>14. ASSUME NEW t \in Threads, Admit(t)
        PROVE  Kept(k)'
    BY <1>b, <1>d, <1>e, <1>h, <1>14 DEF Admit, NotifyThen
  <1>15. ASSUME NEW t \in Threads, AdmitEvict(t)
        PROVE  Kept(k)'
    BY <1>b, <1>d, <1>e, <1>h, <1>15 DEF AdmitEvict, DropThen, LeastRecent, CacheOnly
  <1>16. ASSUME NEW t \in Threads, AdmitRefuse(t)
        PROVE  Kept(k)'
    BY <1>b, <1>d, <1>e, <1>h, <1>16 DEF AdmitRefuse
  <1>17. ASSUME NEW t \in Threads, DropShared(t)
        PROVE  Kept(k)'
    BY <1>b, <1>d, <1>e, <1>h, <1>17 DEF DropShared, IsLast
  <1>18. ASSUME NEW t \in Threads, DropLast(t)
        PROVE  Kept(k)'
    BY <1>b, <1>d, <1>e, <1>h, <1>18 DEF DropLast
  <1>19. ASSUME NEW t \in Threads, Unmap(t)
        PROVE  Kept(k)'
    BY <1>b, <1>d, <1>e, <1>g, <1>h, <1>19 DEF Unmap
  <1>20. ASSUME NEW t \in Threads, Release(t)
        PROVE  Kept(k)'
    BY <1>b, <1>d, <1>e, <1>h, <1>20 DEF Release
  <1>21. ASSUME NEW t \in Threads, Notify(t)
        PROVE  Kept(k)'
    BY <1>b, <1>d, <1>e, <1>h, <1>21 DEF Notify, FreeInner
  <1>22. ASSUME NEW t \in Threads, ReturnError(t)
        PROVE  Kept(k)'
    BY <1>b, <1>d, <1>e, <1>h, <1>22 DEF ReturnError
  <1>23. ASSUME NEW t \in Threads, SpuriousWake(t)
        PROVE  Kept(k)'
    BY <1>b, <1>d, <1>e, <1>h, <1>23 DEF SpuriousWake
  <1>24. ASSUME NEW t \in Threads, Reenter(t)
        PROVE  Kept(k)'
    BY <1>b, <1>d, <1>e, <1>h, <1>24 DEF Reenter
  <1>25. ASSUME NEW t \in Threads, DropLease(t)
        PROVE  Kept(k)'
    BY <1>b, <1>d, <1>e, <1>h, <1>25 DEF DropLease, DropThen
  <1>26. ASSUME NEW t \in Threads, NEW i \in Identities, Request(t, i)
        PROVE  Kept(k)'
    BY <1>b, <1>d, <1>e, <1>h, <1>26 DEF Request
  <1>27. ASSUME NEW t \in Threads, NEW h \in Handles, CloneLease(t, h)
        PROVE  Kept(k)'
    BY <1>b, <1>d, <1>e, <1>h, <1>27 DEF CloneLease
  <1>28. ASSUME NEW t \in Threads, NEW h \in Handles, DropClone(t, h)
        PROVE  Kept(k)'
    BY <1>b, <1>d, <1>e, <1>h, <1>28 DEF DropClone, DropThen
  <1>29. ASSUME DropCache
        PROVE  Kept(k)'
    BY <1>b, <1>d, <1>e, <1>h, <1>29 DEF DropCache, FreeInner
  <1>30. ASSUME UNCHANGED vars
        PROVE  Kept(k)'
    BY <1>b, <1>d, <1>e, <1>h, <1>30 DEF vars
  <1> QED
    BY <1>c, <1>1, <1>2, <1>3, <1>4, <1>5, <1>6, <1>7, <1>8, <1>9, <1>10, <1>11, <1>12, <1>13, <1>14, <1>15, <1>16, <1>17, <1>18, <1>19, <1>20, <1>21, <1>22, <1>23, <1>24, <1>25, <1>26, <1>27, <1>28, <1>29, <1>30
    DEF Next, Step, Finished, AfterLookup

\* Admission under an aggregate limit never gives up too early and never takes
\* what is in use, for any number of threads, leases and limits: it refuses a
\* candidate only when each charged mapping is referenced by somebody or is
\* being destroyed, and the mapping it reclaims is neither.
THEOREM ReclaimSound == Spec => ReclaimsIdle
  <1>1. Init => LiveKept BY DEF Init, LiveKept
  <1>2. Spec => []RefInv
    BY InitRefInv, NextRefInv, Invariance, PTL DEF Spec
  <1>3. Spec => []LiveKept
    BY <1>1, <1>2, NextLiveKept, Invariance, PTL DEF Spec
  <1>4. ASSUME Inv, LiveKept, [Next]_vars, NEW t \in Threads, pc[t] = "admit"
        PROVE  /\ pc'[t] = "refused" => \A k \in live : InUse(k)
               /\ pc'[t] = "drop" => \A k \in retired'[t] : ~InUse(k)
    <2>b. pc \in [Threads -> PCs] /\ retired \in [Threads -> SUBSET Kernels]
      BY <1>4 DEF Inv, TypeInv, TypeOK
    <2>1. ASSUME pc'[t] \in {"refused", "drop"}
          PROVE  AdmitRefuse(t) \/ AdmitEvict(t)
      <3> USE DEF tables, counters, clocks, locals, Looks, Go
      <3>1. ASSUME NEW u \in Threads \ {t}, Step(u) PROVE pc'[t] = "admit"
        <4>1. CASE Notify(u) BY <1>4, <2>b, <4>1 DEF Notify
        <4>2. CASE ~Notify(u)
          BY <1>4, <2>b, <3>1, <4>2 DEF Step, HitEntry, HitLive, WaitRetiring,
             WaitFlight, Wait, Rewake, RefuseFlight, RefuseReentrant,
             StartFlight, EvictAndStartFlight, DropThen, NotifyThen,
             BuildPublished, BuildFailed, DropCandidate, FinishFailed, Admit,
             AdmitEvict, AdmitRefuse, DropShared, DropLast, Unmap, Release,
             ReturnError
        <4> QED BY <4>1, <4>2
      <3>2. ASSUME Step(t) PROVE AdmitRefuse(t) \/ AdmitEvict(t)
        <4>1. ~Admit(t) BY <2>b, <2>1 DEF Admit, NotifyThen
        <4> QED BY <1>4, <3>2, <4>1 DEF Step, HitEntry, HitLive,
             WaitRetiring, WaitFlight, Rewake, RefuseFlight, RefuseReentrant,
             StartFlight, EvictAndStartFlight, MayLaunch, BuildPublished,
             BuildFailed, DropCandidate, FinishFailed, DropShared, DropLast,
             Unmap, Release, Notify, ReturnError
      <3>3. ASSUME NEW u \in Threads,
                   \/ SpuriousWake(u) \/ Reenter(u) \/ DropLease(u)
                   \/ \E i \in Identities : Request(u, i)
                   \/ \E h \in Handles : CloneLease(u, h) \/ DropClone(u, h)
            PROVE  pc'[t] = "admit"
        BY <1>4, <2>b, <3>3 DEF SpuriousWake, Reenter, DropLease, Request,
           CloneLease, DropClone, DropThen
      <3>4. DropCache \/ UNCHANGED vars => pc' = pc BY DEF DropCache, vars
      <3> QED BY <1>4, <2>1, <3>1, <3>2, <3>3, <3>4 DEF Next, Finished
    <2>2. ASSUME AdmitRefuse(t), NEW k \in live PROVE InUse(k)
      <3>1. InnerAlive BY <1>4, FlightAlone DEF Inv, Building
      <3>2. Kept(k) BY <1>4, <2>2, <3>1 DEF LiveKept
      <3>3. Resident(k) => Referenced(k)
        BY <2>2 DEF AdmitRefuse, CacheOnly, Resident
      <3> QED BY <3>2, <3>3 DEF Kept, InUse, Strong, Dying
    <2>3. ASSUME AdmitEvict(t), NEW k \in retired'[t] PROVE ~InUse(k)
      <3>1. PICK e \in CacheOnly : retired' = [retired EXCEPT ![t] = {e.kernel}]
        BY <2>3 DEF AdmitEvict, DropThen, LeastRecent
      <3>2. k = e.kernel /\ Resident(k) /\ ~Referenced(k)
        BY <2>b, <2>3, <3>1 DEF CacheOnly, Resident
      <3> QED BY <1>4, <3>2 DEF InUse, Inv, DyingUnreferenced, Dying, Strong
    <2>4. AdmitRefuse(t) => pc'[t] = "refused"
      BY <2>b DEF AdmitRefuse, Go
    <2>5. AdmitEvict(t) => pc'[t] = "drop"
      BY <2>b DEF AdmitEvict, DropThen, Go
    <2> QED BY <2>1, <2>2, <2>3, <2>4, <2>5
  <1>5. Inv /\ LiveKept /\ [Next]_vars =>
          [\A t \in Threads : pc[t] = "admit" =>
             /\ pc'[t] = "refused" => \A k \in live : InUse(k)
             /\ pc'[t] = "drop" => \A k \in retired'[t] : ~InUse(k)]_vars
    BY <1>4
  <1> QED BY <1>3, <1>5, Invariance, PTL DEF Spec, ReclaimsIdle
=============================================================================
