------------------------------ MODULE OwnerLock ------------------------------
(***************************************************************************)
(* What a thread-owner slot promises, with every operation atomic: a       *)
(* try-lock that remembers for whom it keeps its value.  It is held on     *)
(* behalf of at most one thread; while it keeps a value for a thread, only *)
(* that thread acquires it; emptied, it is anybody's; a broken one is held *)
(* for ever.  OwnerSlot is checked to implement it (OwnerSlotRefinement),  *)
(* and WorkspacePool uses the slot through it alone.                       *)
(***************************************************************************)
CONSTANTS Threads, Nobody

VARIABLES
    phase,     \* "free", "kept", "held" or "broken"
    for,       \* the thread it is kept or held for
    filled     \* whether there is a value in it

lockVars == <<phase, for, filled>>

Init ==
    \/ phase = "free" /\ for = Nobody /\ filled \in BOOLEAN
    \/ phase = "kept" /\ for \in Threads /\ filled

Acquire(t) ==
    /\ phase = "free" \/ (phase = "kept" /\ for = t)
    /\ phase' = "held"
    /\ for' = t
    /\ UNCHANGED filled

\* Whoever holds it changes what is in it.
Fill ==
    /\ phase = "held"
    /\ filled' \in BOOLEAN
    /\ UNCHANGED <<phase, for>>

\* Given up with a value in it, which is kept for the thread it was held for.
Keep ==
    /\ phase = "held"
    /\ filled'
    /\ phase' = "kept"
    /\ UNCHANGED for

\* Given up empty.
Release ==
    /\ phase = "held"
    /\ phase' = "free"
    /\ for' = Nobody
    /\ filled' = FALSE

Break ==
    /\ phase = "held"
    /\ phase' = "broken"
    /\ for' = Nobody
    /\ filled' = FALSE

Next ==
    \/ \E t \in Threads : Acquire(t)
    \/ Fill \/ Keep \/ Release \/ Break

Spec == Init /\ [][Next]_lockVars
=============================================================================
