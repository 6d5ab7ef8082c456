------------------------------ MODULE OwnerSlot ------------------------------
(***************************************************************************)
(* ThreadOwnerSlot and ThreadOwnerGuard of                                 *)
(* src/crates/fre-exact-alloc/src/lib.rs: one reusable value, reserved for *)
(* the thread that first checks it out.                                    *)
(*                                                                         *)
(* The owner takes its value back with a plain load followed by a plain    *)
(* store; only an unowned slot is claimed by compare-and-swap.  Each of    *)
(* these atomic accesses is a step of its own here, so that every          *)
(* interleaving of two calls of try_checkout is explored.  A guard may     *)
(* move to another thread and is ended there: committed, dropped, or       *)
(* dropped with a destructor of the value that panics.                     *)
(***************************************************************************)
CONSTANTS
    Threads,   \* thread owner identifiers; never reused, lib.rs:21-31
    Guards,    \* the guards that may be alive at once (a bound)
    Unowned,   \* THREAD_OWNER_UNOWNED
    InUse      \* THREAD_OWNER_IN_USE

\* The two reserved words are no thread's identifier: identifiers start at 2.
ASSUME SlotAssumption ==
    /\ Unowned \notin Threads
    /\ InUse \notin Threads
    /\ Unowned # InUse

VARIABLES
    owner,     \* the atomic word of the slot
    value,     \* the cell: "none", "clean", or "dirty" when a transaction
               \* that has not been committed has written it
    pc,        \* per thread: "idle", or "loaded" inside try_checkout
    seen,      \* per thread: the word that try_checkout loaded
    gstate,    \* per guard: "dead", "live", "dropping" between the two
               \* stores of Drop, "lost" once a destructor panicked
    gholder,   \* per guard: the thread that holds it
    gowner     \* per guard: the owner identifier it captured

vars == <<owner, value, pc, seen, gstate, gholder, gowner>>

Words == Threads \cup {Unowned, InUse}

TypeOK ==
    /\ owner \in Words
    /\ value \in {"none", "clean", "dirty"}
    /\ pc \in [Threads -> {"idle", "loaded"}]
    /\ seen \in [Threads -> Words]
    /\ gstate \in [Guards -> {"dead", "live", "dropping", "lost"}]
    /\ gholder \in [Guards -> Threads]
    /\ gowner \in [Guards -> Threads]

-----------------------------------------------------------------------------
(* The constructors new, with_value and with_current_owner.                *)

Init ==
    /\ \/ owner = Unowned /\ value = "none"
       \/ owner = Unowned /\ value = "clean"
       \/ owner \in Threads /\ value = "clean"
    /\ pc = [t \in Threads |-> "idle"]
    /\ seen = [t \in Threads |-> Unowned]
    /\ gstate = [g \in Guards |-> "dead"]
    /\ gholder \in [Guards -> Threads]
    /\ gowner = gholder

-----------------------------------------------------------------------------
(* try_checkout.                                                           *)

\* The acquiring load of the word.
Load(t) ==
    /\ pc[t] = "idle"
    /\ pc' = [pc EXCEPT ![t] = "loaded"]
    /\ seen' = [seen EXCEPT ![t] = owner]
    /\ UNCHANGED <<owner, value, gstate, gholder, gowner>>

\* The call ends with a guard g: the slot is in use on behalf of t.
Granted(t, g) ==
    /\ gstate[g] = "dead"
    /\ owner' = InUse
    /\ pc' = [pc EXCEPT ![t] = "idle"]
    /\ gstate' = [gstate EXCEPT ![g] = "live"]
    /\ gholder' = [gholder EXCEPT ![g] = t]
    /\ gowner' = [gowner EXCEPT ![g] = t]
    /\ UNCHANGED <<value, seen>>

\* The word was the caller's own identifier: a plain store.
Reserve(t, g) ==
    /\ pc[t] = "loaded"
    /\ seen[t] = t
    /\ Granted(t, g)

\* Bug: a load and a store in place of the compare-and-swap.
ClaimUnchecked(t, g) ==
    /\ pc[t] = "loaded"
    /\ seen[t] = Unowned
    /\ Granted(t, g)

\* The word was unowned: compare_exchange succeeds only if it still is.
Claim(t, g) ==
    /\ pc[t] = "loaded"
    /\ seen[t] = Unowned
    /\ owner = Unowned
    /\ Granted(t, g)

\* None: the slot belongs to another thread or is in use, or the exchange
\* lost.
Refuse(t) ==
    /\ pc[t] = "loaded"
    /\ IF seen[t] = Unowned THEN owner # Unowned ELSE seen[t] # t
    /\ pc' = [pc EXCEPT ![t] = "idle"]
    /\ UNCHANGED <<owner, value, seen, gstate, gholder, gowner>>

-----------------------------------------------------------------------------
(* The guard.  Its holder is outside try_checkout while it uses the guard. *)

Uses(t, g) == gstate[g] = "live" /\ gholder[g] = t /\ pc[t] = "idle"

\* The holder changes the cell in place, without a step of the word.
Writes(t, g, v) ==
    /\ Uses(t, g)
    /\ value' = v
    /\ UNCHANGED <<owner, pc, seen, gstate, gholder, gowner>>

\* try_insert into an empty cell; into a populated one it changes nothing.
TryInsert(t, g) == value = "none" /\ Writes(t, g, "dirty")

\* The search runs on the retained value through value_mut.
ValueMut(t, g) == value # "none" /\ Writes(t, g, "dirty")

\* take moves the value out; clear discards it.
Take(t, g) == value # "none" /\ Writes(t, g, "none")

\* The guard is sent to another thread; it keeps the captured identifier.
Move(t, g) ==
    /\ gstate[g] = "live"
    /\ gholder[g] # t
    /\ gholder' = [gholder EXCEPT ![g] = t]
    /\ UNCHANGED <<owner, value, pc, seen, gstate, gowner>>

\* Bug: commit restores the owner without looking at the cell.
CommitAlways(t, g) ==
    /\ Uses(t, g)
    /\ owner' = gowner[g]
    /\ value' = IF value = "none" THEN "none" ELSE "clean"
    /\ gstate' = [gstate EXCEPT ![g] = "dead"]
    /\ UNCHANGED <<pc, seen, gholder, gowner>>

\* commit: a populated cell goes back to the captured owner, an empty one
\* releases the slot.
Commit(t, g) ==
    /\ Uses(t, g)
    /\ IF value = "none"
       THEN owner' = Unowned /\ value' = value
       ELSE owner' = gowner[g] /\ value' = "clean"
    /\ gstate' = [gstate EXCEPT ![g] = "dead"]
    /\ UNCHANGED <<pc, seen, gholder, gowner>>

\* Bug: the slot is released before the value is discarded.
DropKeepsValue(t, g) ==
    /\ Uses(t, g)
    /\ gstate' = [gstate EXCEPT ![g] = "dropping"]
    /\ UNCHANGED <<owner, value, pc, seen, gholder, gowner>>

\* Drop of an uncommitted guard, first half: the value is discarded.
DropClear(t, g) ==
    /\ Uses(t, g)
    /\ value' = "none"
    /\ gstate' = [gstate EXCEPT ![g] = "dropping"]
    /\ UNCHANGED <<owner, pc, seen, gholder, gowner>>

\* Second half: only then is the empty slot published as unowned.
DropRelease(g) ==
    /\ gstate[g] = "dropping"
    /\ owner' = Unowned
    /\ gstate' = [gstate EXCEPT ![g] = "dead"]
    /\ UNCHANGED <<value, pc, seen, gholder, gowner>>

\* The value's destructor panics: the cell is already empty, the unwinding
\* skips the releasing store, and the slot stays in use for good.
DropPanics(t, g) ==
    /\ Uses(t, g)
    /\ value # "none"
    /\ value' = "none"
    /\ gstate' = [gstate EXCEPT ![g] = "lost"]
    /\ UNCHANGED <<owner, pc, seen, gholder, gowner>>

Next ==
    \/ \E t \in Threads : Load(t) \/ Refuse(t)
    \/ \E t \in Threads, g \in Guards :
          \/ Reserve(t, g) \/ Claim(t, g)
          \/ TryInsert(t, g) \/ ValueMut(t, g) \/ Take(t, g) \/ Move(t, g)
          \/ Commit(t, g) \/ DropClear(t, g) \/ DropPanics(t, g)
    \/ \E g \in Guards : DropRelease(g)

Spec == Init /\ [][Next]_vars

-----------------------------------------------------------------------------
(* Properties.                                                             *)

Active(g) == gstate[g] \in {"live", "dropping"}

\* At most one guard can reach the cell.  This is the claim of the unsafe
\* Sync implementation (lib.rs:74-79), and it covers guards that have moved
\* away from the thread that checked them out.
Exclusive ==
    \A g, h \in Guards : Active(g) /\ Active(h) => g = h

\* The owner's load and store need no compare-and-swap: between the two, a
\* word that names the caller stays what it was (lib.rs:133-135).
ReservationStable ==
    \A t \in Threads : pc[t] = "loaded" /\ seen[t] = t => owner = t

\* What a transaction left unfinished is never seen again: outside a guard
\* the cell holds a committed value or nothing, a thread's reservation
\* always has a committed value behind it, and a slot whose value panicked
\* while being destroyed admits no further guard.
FailsClosed ==
    /\ owner # InUse => value # "dirty"
    /\ owner \in Threads => value = "clean"
    /\ \A g, h \in Guards : gstate[g] = "lost" => owner = InUse /\ ~Active(h)

\* A reservation is never taken over: the word leaves a thread's identifier
\* only for a guard that captured it, and comes back to no other thread
\* while that guard's value is kept.
Sticky ==
    [][/\ owner \in Threads /\ owner' # owner =>
             owner' = InUse /\ \E g \in Guards : ~Active(g) /\ Active(g)' /\ gowner'[g] = owner
       /\ owner = InUse /\ owner' \in Threads =>
             \E g \in Guards : Active(g) /\ ~Active(g)' /\ gowner[g] = owner']_vars
=============================================================================
