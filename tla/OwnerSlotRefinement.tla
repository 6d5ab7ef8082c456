------------------------- MODULE OwnerSlotRefinement -------------------------
(***************************************************************************)
(* OwnerSlot implements OwnerLock: the fine-grained slot, whose owner      *)
(* comes back by a load and a store, behaves as an atomic try-lock.        *)
(***************************************************************************)
EXTENDS OwnerSlot

Lost == \E g \in Guards : gstate[g] = "lost"

PhaseOf ==
    IF owner = Unowned THEN "free"
    ELSE IF owner \in Threads THEN "kept"
    ELSE IF Lost THEN "broken" ELSE "held"

\* The holder is the one guard that is active.
ForOf ==
    IF PhaseOf = "kept" THEN owner
    ELSE IF PhaseOf = "held" THEN gowner[CHOOSE g \in Guards : Active(g)]
    ELSE Unowned

Lock ==
    INSTANCE OwnerLock WITH
        Nobody <- Unowned,
        phase <- PhaseOf,
        for <- ForOf,
        filled <- value # "none"

\* Every behaviour of the slot, with its plain load and store, is a
\* behaviour of an atomic try-lock that keeps its value for one thread.
ImplementsLock == Lock!Spec
=============================================================================
