------------------------ MODULE JitCacheRefinement --------------------------
(***************************************************************************)
(* JitCache implements KernelLifecycle, for each of its identities.        *)
(***************************************************************************)
EXTENDS JitCache

\* A matcher's lease is not a thread.
ASSUME ClientsAssumption == Threads \cap Handles = {}

Clients == Threads \cup Handles

\* The kernels that t has a strong reference to.
Uses(t) == held[t] \cup IF pc[t] = "drop" THEN retired[t] ELSE {}

UsingThreads(i) == {t \in Threads : \E k \in Uses(t) : k.identity = i}
UsingLeases(i)  == {h \in Handles : \E k \in lease[h] : k.identity = i}

\* The clients with a strong reference to a published kernel of i.  The
\* candidate of a flight is private to its builder and does not count.
Users(i) == IF FlightsOf(i) # {} THEN {}
            ELSE UsingThreads(i) \cup UsingLeases(i)

Phase(i) ==
    IF FlightsOf(i) # {} THEN "building"
    ELSE IF Users(i) # {} \/ EntriesOf(i) # {} THEN "live"
    ELSE IF LiveOf(i) # {} THEN "retiring"
    ELSE "absent"

Lifecycle(i) == INSTANCE KernelLifecycle
                  WITH phase <- Phase(i), users <- Users(i),
                       serving <- InnerAlive

\* The cache implements the life cycle of every identity: no kernel is built
\* while another of its identity is in use or still being unmapped, none is
\* retired under a user, and dropping the cache takes no kernel from a user.
\* (It is \A i : Lifecycle(i)!Spec with the quantifier moved inwards.)
ImplementsLifecycle ==
    /\ \A i \in Identities : Lifecycle(i)!Init
    /\ [][\A i \in Identities : Lifecycle(i)!Next
                                \/ UNCHANGED Lifecycle(i)!vars]_vars

\* Flights end and retired kernels disappear, so that an identity can be
\* requested again.
LifecycleProgress ==
    \A i \in Identities : /\ Lifecycle(i)!BuildEnds
                          /\ Lifecycle(i)!RetirementEnds
=============================================================================
