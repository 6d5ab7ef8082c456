--------------------------- MODULE OwnerSlotProofs ---------------------------
(***************************************************************************)
(* The thread-owner slot is safe for any number of threads and guards, and *)
(* implements the atomic try-lock.  The word InUse stands for exactly one  *)
(* guard that has not ended, and that is what the argument turns on: a     *)
(* second guard needs a word that is not InUse, and a thread that has      *)
(* loaded its own identifier can lose it to nobody, since every other      *)
(* thread either refuses or fails its exchange on that word.               *)
(***************************************************************************)
EXTENDS OwnerSlotRefinement, TLAPS

\* A guard that has not ended, a lost one included, and the word agree.
GuardedWord ==
    /\ \A g \in Guards : gstate[g] # "dead" => owner = InUse
    /\ owner = InUse => \E g \in Guards : gstate[g] # "dead"
    /\ \A g, h \in Guards : gstate[g] # "dead" /\ gstate[h] # "dead" => g = h

\* What the cell holds, by who may reach it.
CellState ==
    /\ owner # InUse => value # "dirty"
    /\ owner \in Threads => value = "clean"
    /\ \A g \in Guards : gstate[g] \in {"dropping", "lost"} => value = "none"

Inv == TypeOK /\ GuardedWord /\ CellState /\ ReservationStable

\* Every step of the slot preserves the inductive invariant; one case per
\* operation of the slot and of its guard.
LEMMA SlotStep == Inv /\ [Next]_vars => Inv'
<1> SUFFICES ASSUME Inv, [Next]_vars PROVE Inv'
  OBVIOUS
<1> USE SlotAssumption DEF Inv, TypeOK, GuardedWord, CellState,
                           ReservationStable, Words
<1>1. ASSUME NEW t \in Threads, Load(t) PROVE Inv'
  BY <1>1 DEF Load
<1>2. ASSUME NEW t \in Threads, Refuse(t) PROVE Inv'
  BY <1>2 DEF Refuse
<1>3. ASSUME NEW t \in Threads, NEW g \in Guards, owner # InUse,
             \A u \in Threads \ {t} : ~(pc[u] = "loaded" /\ seen[u] = u),
             Granted(t, g)
      PROVE Inv'
  <2>1. TypeOK'
    BY <1>3 DEF Granted
  <2>2. GuardedWord'
    BY <1>3 DEF Granted
  <2>3. CellState'
    BY <1>3 DEF Granted
  <2>4. ReservationStable'
    BY <1>3 DEF Granted
  <2> QED
    BY <2>1, <2>2, <2>3, <2>4
<1>4. ASSUME NEW t \in Threads, NEW g \in Guards, Reserve(t, g) PROVE Inv'
  <2>1. owner = t
    BY <1>4 DEF Reserve
  <2> QED
    BY <2>1, <1>3, <1>4 DEF Reserve
<1>5. ASSUME NEW t \in Threads, NEW g \in Guards, Claim(t, g) PROVE Inv'
  BY <1>3, <1>5 DEF Claim
<1>6. ASSUME NEW t \in Threads, NEW g \in Guards,
             TryInsert(t, g) \/ ValueMut(t, g) \/ Take(t, g)
      PROVE Inv'
  BY <1>6 DEF TryInsert, ValueMut, Take, Writes, Uses
<1>7. ASSUME NEW t \in Threads, NEW g \in Guards, Move(t, g) PROVE Inv'
  BY <1>7 DEF Move
<1>8. ASSUME NEW t \in Threads, NEW g \in Guards, Commit(t, g) PROVE Inv'
  BY <1>8 DEF Commit, Uses
<1>9. ASSUME NEW t \in Threads, NEW g \in Guards,
             DropClear(t, g) \/ DropPanics(t, g)
      PROVE Inv'
  BY <1>9 DEF DropClear, DropPanics, Uses
<1>10. ASSUME NEW g \in Guards, DropRelease(g) PROVE Inv'
  BY <1>10 DEF DropRelease
<1>11. CASE UNCHANGED vars
  BY <1>11 DEF vars
<1> QED
  BY <1>1, <1>2, <1>4, <1>5, <1>6, <1>7, <1>8, <1>9, <1>10, <1>11 DEF Next

\* The inductive invariant holds throughout every behaviour of the slot.
THEOREM SlotInvariance == Spec => []Inv
<1>1. Init => Inv
  BY SlotAssumption DEF Init, Inv, TypeOK, GuardedWord, CellState,
                        ReservationStable, Words
<1> QED
  BY <1>1, SlotStep, PTL DEF Spec

\* For every set of threads and guards at most one guard reaches the cell:
\* the claim behind the unsafe Sync implementation of the slot.
THEOREM SlotExclusive == Spec => []Exclusive
<1>1. Inv => Exclusive
  BY DEF Inv, GuardedWord, Exclusive, Active
<1> QED
  BY <1>1, SlotInvariance, PTL

\* The owner's separate load and store are as good as an exchange.
THEOREM SlotReservation == Spec => []ReservationStable
<1>1. Inv => ReservationStable
  BY DEF Inv
<1> QED
  BY <1>1, SlotInvariance, PTL

\* Errors, unwinding and panicking destructors never expose a value.
THEOREM SlotFailsClosed == Spec => []FailsClosed
<1>1. Inv => FailsClosed
  BY DEF Inv, TypeOK, GuardedWord, CellState, FailsClosed, Active
<1> QED
  BY <1>1, SlotInvariance, PTL

\* A reservation is never taken over by another thread.
THEOREM SlotSticky == Spec => Sticky
<1>1. Inv /\ [Next]_vars =>
        [/\ owner \in Threads /\ owner' # owner =>
              /\ owner' = InUse
              /\ \E g \in Guards : ~Active(g) /\ Active(g)' /\ gowner'[g] = owner
         /\ owner = InUse /\ owner' \in Threads =>
              \E g \in Guards : Active(g) /\ ~Active(g)' /\ gowner[g] = owner']_vars
  <2> SUFFICES ASSUME Inv, Next
               PROVE  /\ owner \in Threads /\ owner' # owner =>
                           /\ owner' = InUse
                           /\ \E g \in Guards : /\ ~Active(g) /\ Active(g)'
                                                /\ gowner'[g] = owner
                      /\ owner = InUse /\ owner' \in Threads =>
                           \E g \in Guards : /\ Active(g) /\ ~Active(g)'
                                             /\ gowner[g] = owner'
    OBVIOUS
  <2> USE SlotAssumption DEF Inv, TypeOK, GuardedWord, CellState,
                             ReservationStable, Words, Active
  <2>1. ASSUME NEW t \in Threads, Load(t) \/ Refuse(t)
        PROVE  owner' = owner
    BY <2>1 DEF Load, Refuse
  <2>2. ASSUME NEW t \in Threads, NEW g \in Guards,
               Reserve(t, g) \/ Claim(t, g)
        PROVE  /\ owner' = InUse
               /\ owner \in Threads =>
                    ~Active(g) /\ Active(g)' /\ gowner'[g] = owner
    BY <2>2 DEF Reserve, Claim, Granted
  <2>3. ASSUME NEW t \in Threads, NEW g \in Guards,
               TryInsert(t, g) \/ ValueMut(t, g) \/ Take(t, g) \/ Move(t, g)
               \/ DropClear(t, g) \/ DropPanics(t, g)
        PROVE  owner' = owner
    BY <2>3 DEF TryInsert, ValueMut, Take, Writes, Move, DropClear, DropPanics
  <2>4. ASSUME NEW t \in Threads, NEW g \in Guards, Commit(t, g)
        PROVE  /\ owner = InUse
               /\ owner' \in Threads =>
                    Active(g) /\ ~Active(g)' /\ gowner[g] = owner'
    BY <2>4 DEF Commit, Uses
  <2>5. ASSUME NEW g \in Guards, DropRelease(g)
        PROVE  owner = InUse /\ owner' = Unowned
    BY <2>5 DEF DropRelease
  <2> QED
    BY <2>1, <2>2, <2>3, <2>4, <2>5 DEF Next
<1> QED
  BY <1>1, SlotInvariance, PTL DEF Spec, Sticky

-----------------------------------------------------------------------------
(* The refinement.                                                         *)

\* While a guard is active the lock is held for the thread it captured.
HeldForGuard ==
    \A g \in Guards : Active(g) => PhaseOf = "held" /\ ForOf = gowner[g]

\* The inductive invariant makes the mapped holder the active guard's.
LEMMA HeldFor == Inv => HeldForGuard
<1> SUFFICES ASSUME Inv, NEW g \in Guards, Active(g)
             PROVE  PhaseOf = "held" /\ ForOf = gowner[g]
  BY DEF HeldForGuard
<1> USE SlotAssumption DEF Inv, GuardedWord, Active
<1>1. owner = InUse /\ ~Lost
  BY DEF Lost
<1>2. PhaseOf = "held"
  BY <1>1 DEF PhaseOf
<1>3. (CHOOSE h \in Guards : Active(h)) = g
  <2>1. \A h \in Guards : Active(h) <=> h = g
    OBVIOUS
  <2> QED
    BY <2>1
<1> QED
  BY <1>2, <1>3 DEF ForOf

\* Steps of the slot are steps of the lock, or change nothing it shows.
LEMMA LockStep ==
  Inv /\ Inv' /\ [Next]_vars => [Lock!Next]_(Lock!lockVars)
<1>0. Inv' => HeldForGuard'
  BY HeldFor, PTL
<1> SUFFICES ASSUME Inv, Inv', [Next]_vars
             PROVE  Lock!Next \/ UNCHANGED Lock!lockVars
  OBVIOUS
<1> USE SlotAssumption
<1>1. ASSUME UNCHANGED <<owner, value, gstate, gowner>>
      PROVE  UNCHANGED Lock!lockVars
  <2>1. PhaseOf' = PhaseOf
    BY <1>1 DEF PhaseOf, Lost
  <2>2. CASE PhaseOf # "held"
    BY <1>1, <2>1, <2>2 DEF ForOf, Lock!lockVars
  <2>3. CASE PhaseOf = "held"
    <3>1. owner = InUse /\ ~Lost
      BY <2>3 DEF PhaseOf, Inv, TypeOK, Words
    <3>2. PICK g \in Guards : Active(g)
      BY <3>1 DEF Lost, Active, Inv, TypeOK, GuardedWord
    <3>3. Active(g)'
      BY <1>1, <3>2 DEF Active
    <3>4. ForOf = gowner[g] /\ ForOf' = gowner'[g]
      BY <1>0, <3>2, <3>3, HeldFor DEF HeldForGuard
    <3> QED
      BY <1>1, <2>1, <3>4 DEF Lock!lockVars
  <2> QED
    BY <2>2, <2>3
<1>2. ASSUME NEW t \in Threads, NEW g \in Guards,
             Reserve(t, g) \/ Claim(t, g)
      PROVE  Lock!Acquire(t)
  <2>1. PhaseOf = "free" \/ (PhaseOf = "kept" /\ ForOf = t)
    BY <1>2 DEF Reserve, Claim, PhaseOf, ForOf, Inv, ReservationStable
  <2>2. Active(g)' /\ gowner'[g] = t /\ value' = value
    BY <1>2 DEF Reserve, Claim, Granted, Active, Inv, TypeOK
  <2> QED
    BY <1>0, <2>1, <2>2 DEF Lock!Acquire, HeldForGuard
<1>3. ASSUME NEW t \in Threads, NEW g \in Guards,
             TryInsert(t, g) \/ ValueMut(t, g) \/ Take(t, g) \/ Move(t, g)
             \/ DropClear(t, g)
      PROVE  Lock!Fill
  <2>1. Active(g) /\ Active(g)' /\ gowner'[g] = gowner[g]
    BY <1>3 DEF TryInsert, ValueMut, Take, Writes, Uses, Move, DropClear,
                Active, Inv, TypeOK
  <2> QED
    BY <1>0, <2>1, HeldFor DEF Lock!Fill, HeldForGuard
<1>4. ASSUME NEW t \in Threads, NEW g \in Guards, Commit(t, g)
      PROVE  Lock!Keep \/ Lock!Release
  <2>1. Active(g) /\ PhaseOf = "held" /\ ForOf = gowner[g]
    BY <1>4, HeldFor DEF Commit, Uses, Active, HeldForGuard
  <2>2. gowner[g] \in Threads
    BY DEF Inv, TypeOK
  <2>3. CASE value = "none"
    <3>1. owner' = Unowned /\ value' = "none"
      BY <1>4, <2>3 DEF Commit
    <3> QED
      BY <2>1, <3>1 DEF Lock!Release, PhaseOf, ForOf
  <2>4. CASE value # "none"
    <3>1. owner' = gowner[g] /\ value' = "clean"
      BY <1>4, <2>4 DEF Commit
    <3> QED
      BY <2>1, <2>2, <2>4, <3>1 DEF Lock!Keep, PhaseOf, ForOf
  <2> QED
    BY <2>3, <2>4
<1>5. ASSUME NEW t \in Threads, NEW g \in Guards, DropPanics(t, g)
      PROVE  Lock!Break
  <2>1. PhaseOf = "held"
    BY <1>5, HeldFor DEF DropPanics, Uses, Active, HeldForGuard
  <2>2. owner = InUse
    BY <1>5 DEF DropPanics, Uses, Inv, GuardedWord
  <2>3. owner' = InUse /\ gstate'[g] = "lost" /\ value' = "none"
    BY <1>5, <2>2 DEF DropPanics, Inv, TypeOK
  <2> QED
    BY <2>1, <2>3 DEF Lock!Break, PhaseOf, ForOf, Lost
<1>6. ASSUME NEW g \in Guards, DropRelease(g)
      PROVE  Lock!Release
  <2>1. PhaseOf = "held"
    BY <1>6, HeldFor DEF DropRelease, Active, HeldForGuard
  <2>2. owner' = Unowned /\ value' = "none"
    BY <1>6 DEF DropRelease, Inv, CellState
  <2> QED
    BY <2>1, <2>2 DEF Lock!Release, PhaseOf, ForOf
<1>7. CASE UNCHANGED vars
  BY <1>1, <1>7 DEF vars
<1>8. ASSUME NEW t \in Threads, Load(t) \/ Refuse(t)
      PROVE  UNCHANGED Lock!lockVars
  BY <1>1, <1>8 DEF Load, Refuse
<1> QED
  BY <1>2, <1>3, <1>4, <1>5, <1>6, <1>7, <1>8 DEF Next, Lock!Next

\* The slot, with its owner's plain load and store, implements the atomic
\* try-lock that the workspace pool relies on.
THEOREM SlotImplementsLock == Spec => ImplementsLock
<1>1. Init => Lock!Init
  BY SlotAssumption DEF Init, Lock!Init, PhaseOf, ForOf
<1> QED
  BY <1>1, LockStep, SlotInvariance, PTL DEF Spec, ImplementsLock, Lock!Spec
=============================================================================
