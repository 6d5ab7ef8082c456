-------------------------- MODULE KernelLifecycle --------------------------
(***************************************************************************)
(* What the kernel cache promises about ONE identity, with no locks, no    *)
(* counters and no reference counts: a kernel of that identity is built by *)
(* one flight at a time, is live from its publication until the last user  *)
(* lets go of it, is then retired, and only afterwards may be built again. *)
(***************************************************************************)
CONSTANT Clients    \* whoever can hold a reference to a kernel

VARIABLES
    phase,    \* of the identity
    users,    \* the clients that reference its kernel
    serving   \* the cache still exists

vars == <<phase, users, serving>>

Init == phase = "absent" /\ users = {} /\ serving = TRUE

\* One flight starts, and ends without a kernel or with a published one,
\* whose first user is the builder.
Build   == /\ phase = "absent" /\ serving
           /\ phase' = "building" /\ UNCHANGED <<users, serving>>
Abandon == /\ phase = "building"
           /\ phase' = "absent" /\ UNCHANGED <<users, serving>>
Publish == /\ phase = "building"
           /\ phase' = "live" /\ UNCHANGED serving
           /\ \E c \in Clients : users' = {c}

\* A live kernel gains a user, loses one, or passes from one to another.
Share == /\ phase = "live" /\ UNCHANGED phase
         /\ UNCHANGED serving
         /\ \E c, d \in Clients : users' \in {users \cup {c}, users \ {c},
                                              (users \ {c}) \cup {d}}

\* The last user leaves a kernel that the cache does not keep either.
Retire == /\ phase = "live" /\ serving /\ UNCHANGED serving
          /\ \E c \in Clients : users = {c}
          /\ users' = {}
          /\ phase' = "retiring"
Forget == /\ phase = "retiring"
          /\ phase' = "absent" /\ UNCHANGED <<users, serving>>

\* The cache goes away: kernels in use stay until their last user leaves.
Close == /\ serving /\ ~serving'
         /\ phase # "building"
         /\ UNCHANGED users
         /\ phase' = IF users = {} THEN "absent" ELSE phase
Leave == /\ ~serving /\ UNCHANGED serving
         /\ phase = "live"
         /\ \E c \in Clients : users = {c}
         /\ users' = {} /\ phase' = "absent"

Next == Build \/ Abandon \/ Publish \/ Share \/ Retire \/ Forget \/ Close
            \/ Leave

Spec == Init /\ [][Next]_vars

\* A flight ends, and a retired kernel gives its identity free.
BuildEnds == phase = "building" ~> phase # "building"
RetirementEnds == phase = "retiring" ~> phase # "retiring"
=============================================================================
