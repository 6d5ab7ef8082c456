------------------------- MODULE WorkspacePoolProofs -------------------------
(***************************************************************************)
(* The workspace pool is safe for any number of threads, workspaces, tiers *)
(* and sessions.  The inductive invariant is the conjunction of what the   *)
(* runs check, LaneExclusive and ExpectsHold, and of two facts about       *)
(* publication that they rest on: before the pool is published its lane is *)
(* empty and unowned, and whoever is past the OnceLock knows that it is    *)
(* published.  The action properties - envelopes, downgrades, the lane as  *)
(* a lock - need one more: what a call carries, and what it has found out  *)
(* about the workspace it is about to run on (Hands, Admitted).            *)
(***************************************************************************)
EXTENDS WorkspacePool, TLAPS

\* Points of a call that are reached only through the published pool.
PoolPoints ==
    GuardPoints \cup {"claim", "fallback", "cold", "return", "put", "reserve"}

\* Publication: nothing is in the lane before, and every way back to the
\* pool leads to a pool that exists.
Publication ==
    /\ ~published => owner = Unowned /\ lane = NoWs
    /\ \A t \in Threads : pc[t] \in PoolPoints => published
    /\ \A t \in Threads : pc[t] = "run" /\ route[t] = "pool" => published
    /\ \A s \in sessions : s.route = "pool" => published

Inv == TypeOK /\ LaneExclusive /\ ExpectsHold /\ Publication

-----------------------------------------------------------------------------
(* One lemma per group of operations; one step per operation.              *)

\* A call up to its claim of the lane.
LEMMA EnterStep ==
  ASSUME Inv, NEW t \in Threads,
         Call(t) \/ Probe(t) \/ Warm(t) \/ Enter(t) \/ Claim(t)
  PROVE  Inv'
<1> USE PoolAssumption DEF Inv, TypeOK, LaneExclusive, ExpectsHold, Publication,
      PoolPoints, GuardPoints, Points, OwnerSessions, Holds, Session, Routes,
      shared, Go
<1>1. CASE Call(t)
  BY <1>1 DEF Call
<1>2. CASE Probe(t)
  BY <1>2 DEF Probe, CanClaim
<1>3. CASE Warm(t)
  <2>1. CASE lane # NoWs /\ Fits(lane, req[t].limit) /\ Supports(lane, req[t])
    <3>1. TypeOK'
      BY <1>3, <2>1 DEF Warm, RunOwner, Carry, Committed
    <3>2. LaneExclusive'
      BY <1>3, <2>1 DEF Warm, RunOwner, Carry, Committed
    <3>3. ExpectsHold'
      BY <1>3, <2>1 DEF Warm, RunOwner, Carry, Committed
    <3>4. Publication'
      BY <1>3, <2>1 DEF Warm, RunOwner, Carry, Committed
    <3> QED
      BY <3>1, <3>2, <3>3, <3>4
  <2>2. CASE ~(lane # NoWs /\ Fits(lane, req[t].limit) /\ Supports(lane, req[t]))
    <3>1. TypeOK'
      BY <1>3, <2>2 DEF Warm, RunOwner, Carry, Committed
    <3>2. LaneExclusive'
      BY <1>3, <2>2 DEF Warm, RunOwner, Carry, Committed
    <3>3. ExpectsHold'
      BY <1>3, <2>2 DEF Warm, RunOwner, Carry, Committed
    <3>4. Publication'
      BY <1>3, <2>2 DEF Warm, RunOwner, Carry, Committed
    <3> QED
      BY <3>1, <3>2, <3>3, <3>4
  <2> QED
    BY <2>1, <2>2
<1>4. CASE Enter(t)
  BY <1>4 DEF Enter
<1>5. CASE Claim(t)
  BY <1>5 DEF Claim, CanClaim
<1> QED
  BY <1>1, <1>2, <1>3, <1>4, <1>5

\* With the guard of the lane in hand.
LEMMA LaneStep ==
  ASSUME Inv, NEW t \in Threads,
         LaneFill(t) \/ LaneDecline(t) \/ LaneRun(t) \/
         NoCandidate(t) \/ CandidateTooLarge(t) \/ CandidateRuns(t)
         \/ CandidateKept(t) \/ PutBack(t) \/ PromoteDeclined(t) \/
         PromoteBuilt(t) \/ PromoteFailed(t) \/ ColdLaneBuilt(t) \/
         ColdLaneFailed(t)
  PROVE  Inv'
<1> USE PoolAssumption DEF Inv, TypeOK, LaneExclusive, ExpectsHold, Publication,
      PoolPoints, GuardPoints, Points, OwnerSessions, Holds, Session, Routes,
      shared, Go
<1>1. CASE LaneFill(t)
  BY <1>1 DEF LaneFill
<1>2. CASE LaneDecline(t)
  BY <1>2 DEF LaneDecline
<1>3. CASE LaneRun(t)
  BY <1>3 DEF LaneRun, LaneFits, RunOwner, Carry
<1>4. CASE NoCandidate(t)
  BY <1>4 DEF NoCandidate, LaneWeak, LaneFits
<1>5. CASE CandidateTooLarge(t)
  BY <1>5 DEF CandidateTooLarge, LaneWeak, LaneFits, Carry
<1>6. CASE CandidateRuns(t)
  BY <1>6 DEF CandidateRuns, LaneWeak, LaneFits, RunOwned, Carry
<1>7. CASE CandidateKept(t)
  BY <1>7 DEF CandidateKept, LaneWeak, LaneFits
<1>8. CASE PutBack(t)
  BY <1>8 DEF PutBack, RunOwner, Carry, FallbackAfter
<1>9. CASE PromoteDeclined(t)
  BY <1>9 DEF PromoteDeclined, RunOwner, Carry
<1>10. CASE PromoteBuilt(t)
  BY <1>10 DEF PromoteBuilt, RunOwned, Carry, Fresh
<1>11. CASE PromoteFailed(t)
  BY <1>11 DEF PromoteFailed, DropGuard
<1>12. CASE ColdLaneBuilt(t)
  BY <1>12 DEF ColdLaneBuilt, RunOwner, Carry, Fresh
<1>13. CASE ColdLaneFailed(t)
  BY <1>13 DEF ColdLaneFailed, DropGuard
<1> QED
  BY <1>1, <1>2, <1>3, <1>4, <1>5, <1>6, <1>7, <1>8, <1>9, <1>10, <1>11, <1>12, <1>13

\* Without the lane, and publication.
LEMMA BuildStep ==
  ASSUME Inv, NEW t \in Threads,
         FallbackDecline(t) \/ FallbackRun(t) \/ FallbackEmpty(t) \/
         ColdBuilt(t) \/ BuildFailed(t) \/ Build(t) \/ Publish(t) \/
         Reserve(t)
  PROVE  Inv'
<1> USE PoolAssumption DEF Inv, TypeOK, LaneExclusive, ExpectsHold, Publication,
      PoolPoints, GuardPoints, Points, OwnerSessions, Holds, Session, Routes,
      shared, Go
<1>1. CASE FallbackDecline(t)
  BY <1>1 DEF FallbackDecline, Carry
<1>2. CASE FallbackRun(t)
  BY <1>2 DEF FallbackRun, RunOwned, Carry
<1>3. CASE FallbackEmpty(t)
  BY <1>3 DEF FallbackEmpty
<1>4. CASE ColdBuilt(t)
  BY <1>4 DEF ColdBuilt, RunOwned, Carry, Fresh
<1>5. CASE BuildFailed(t)
  BY <1>5 DEF BuildFailed
<1>6. CASE Build(t)
  <2>0. PICK w \in Workspaces :
            /\ pc[t] = "build"
            /\ \/ RunOwned(t, w, "none")
               \/ Go(t, "set") /\ Carry(t, w) /\ UNCHANGED route
            /\ UNCHANGED <<shared, req>>
    BY <1>6 DEF Build, Fresh
  <2>1. CASE RunOwned(t, w, "none")
    <3>1. TypeOK'
      BY <2>0, <2>1 DEF RunOwned, Carry
    <3>2. LaneExclusive'
      BY <2>0, <2>1 DEF RunOwned, Carry
    <3>3. ExpectsHold'
      BY <2>0, <2>1 DEF RunOwned, Carry
    <3>4. Publication'
      BY <2>0, <2>1 DEF RunOwned, Carry
    <3> QED
      BY <3>1, <3>2, <3>3, <3>4
  <2>2. CASE Go(t, "set") /\ Carry(t, w) /\ UNCHANGED route
    <3>1. TypeOK'
      BY <2>0, <2>2 DEF RunOwned, Carry
    <3>2. LaneExclusive'
      BY <2>0, <2>2 DEF RunOwned, Carry
    <3>3. ExpectsHold'
      BY <2>0, <2>2 DEF RunOwned, Carry
    <3>4. Publication'
      BY <2>0, <2>2 DEF RunOwned, Carry
    <3> QED
      BY <3>1, <3>2, <3>3, <3>4
  <2> QED
    BY <2>1, <2>2, <2>0
<1>7. CASE Publish(t)
  <2>1. CASE published
    <3>1. TypeOK'
      BY <1>7, <2>1 DEF Publish, RunOwned, Carry
    <3>2. LaneExclusive'
      BY <1>7, <2>1 DEF Publish, RunOwned, Carry
    <3>3. ExpectsHold'
      BY <1>7, <2>1 DEF Publish, RunOwned, Carry
    <3>4. Publication'
      BY <1>7, <2>1 DEF Publish, RunOwned, Carry
    <3> QED
      BY <3>1, <3>2, <3>3, <3>4
  <2>2. CASE ~published
    <3>1. TypeOK'
      BY <1>7, <2>2 DEF Publish, RunOwned, Carry
    <3>2. LaneExclusive'
      BY <1>7, <2>2 DEF Publish, RunOwned, Carry
    <3>3. ExpectsHold'
      BY <1>7, <2>2 DEF Publish, RunOwned, Carry
    <3>4. Publication'
      BY <1>7, <2>2 DEF Publish, RunOwned, Carry
    <3> QED
      BY <3>1, <3>2, <3>3, <3>4
  <2> QED
    BY <2>1, <2>2
<1>8. CASE Reserve(t)
  BY <1>8 DEF Reserve, CanClaim, RunOwner, Carry
<1> QED
  BY <1>1, <1>2, <1>3, <1>4, <1>5, <1>6, <1>7, <1>8

\* The end of a checkout, and the opening of a session.
LEMMA ReturnStep ==
  ASSUME Inv, NEW t \in Threads,
         Commit(t) \/ Abandon(t) \/ Return(t) \/ Swap(t) \/ Put(t) \/
         OpenSession(t) \/ Adopt(t)
  PROVE  Inv'
<1> USE PoolAssumption DEF Inv, TypeOK, LaneExclusive, ExpectsHold, Publication,
      PoolPoints, GuardPoints, Points, OwnerSessions, Holds, Session, Routes,
      shared, Go
<1>1. CASE Commit(t)
  BY <1>1 DEF Commit, Carry, Committed
<1>2. CASE Abandon(t)
  BY <1>2 DEF Abandon, Carry, DropGuard
<1>3. CASE Return(t)
  BY <1>3 DEF Return, CanClaim
<1>4. CASE Swap(t)
  BY <1>4 DEF Swap, Carry
<1>5. CASE Put(t)
  BY <1>5 DEF Put, Carry, FallbackAfter
<1>6. CASE OpenSession(t)
  <2>1. CASE route[t] = "owner"
    <3>1. TypeOK'
      BY <1>6, <2>1 DEF OpenSession, Carry
    <3>2. LaneExclusive'
      <4> DEFINE new == [ws |-> lane, route |-> "owner", owner |-> t]
      <4>1. Holds(t) /\ OwnerSessions = {} /\ owner = InUse /\ owner' = InUse
        BY <1>6, <2>1 DEF OpenSession
      <4>2. sessions' = sessions \cup {new}
        BY <1>6, <2>1 DEF OpenSession
      <4>3. OwnerSessions' = {new}
        BY <4>1, <4>2
      <4>4. \A u \in Threads : ~Holds(u)'
        BY <1>6, <2>1, <4>1 DEF OpenSession
      <4> QED
        BY <4>1, <4>3, <4>4
    <3>3. ExpectsHold'
      BY <1>6, <2>1 DEF OpenSession, Carry
    <3>4. Publication'
      BY <1>6, <2>1 DEF OpenSession, Carry
    <3> QED
      BY <3>1, <3>2, <3>3, <3>4
  <2>2. CASE route[t] # "owner"
    <3>1. TypeOK'
      BY <1>6, <2>2 DEF OpenSession, Carry
    <3>2. LaneExclusive'
      BY <1>6, <2>2 DEF OpenSession, Carry
    <3>3. ExpectsHold'
      BY <1>6, <2>2 DEF OpenSession, Carry
    <3>4. Publication'
      BY <1>6, <2>2 DEF OpenSession, Carry
    <3> QED
      BY <3>1, <3>2, <3>3, <3>4
  <2> QED
    BY <2>1, <2>2
<1>7. CASE Adopt(t)
  BY <1>7 DEF Adopt, Carry
<1> QED
  BY <1>1, <1>2, <1>3, <1>4, <1>5, <1>6, <1>7

\* Sessions given back, refreshed or dropped, on any thread.
LEMMA SessionStepInv ==
  ASSUME Inv, NEW s \in sessions,
         DropSession(s) \/ \E t \in Threads : SessionStep(t, s)
  PROVE  Inv'
<1> USE PoolAssumption DEF Inv, TypeOK, LaneExclusive, ExpectsHold, Publication,
      PoolPoints, GuardPoints, Points, OwnerSessions, Holds, Session, Routes,
      shared, Go
<1>1. CASE DropSession(s)
  BY <1>1 DEF DropSession, DropGuard
<1>2. ASSUME NEW t \in Threads, NEW w \in Workspaces, GiveBack(t, s, w)
      PROVE  Inv'
  BY <1>2 DEF GiveBack, Carry
<1>3. ASSUME NEW t \in Threads, SessionStep(t, s)
      PROVE  \E w \in Workspaces : GiveBack(t, s, w)
  BY <1>3 DEF SessionStep, CommitSession, RefreshSession, Fresh
<1> QED
  BY <1>1, <1>2, <1>3

\* Every step of the pool preserves the inductive invariant.
LEMMA PoolStep == Inv /\ [Next]_vars => Inv'
<1> SUFFICES ASSUME Inv, [Next]_vars PROVE Inv'
  OBVIOUS
<1>1. CASE UNCHANGED vars
  BY <1>1 DEF vars, Inv, TypeOK, LaneExclusive, ExpectsHold, Publication,
              OwnerSessions, Holds
<1>2. ASSUME NEW t \in Threads, CallStep(t) \/ EndStep(t) PROVE Inv'
  BY <1>2, EnterStep, LaneStep, BuildStep, ReturnStep DEF CallStep, EndStep
<1>3. ASSUME NEW s \in sessions,
             DropSession(s) \/ \E t \in Threads : SessionStep(t, s)
      PROVE  Inv'
  BY <1>3, SessionStepInv
<1> QED
  BY <1>1, <1>2, <1>3 DEF Next

\* The inductive invariant holds throughout every behaviour of the pool.
THEOREM PoolInvariance == Spec => []Inv
<1>1. Init => Inv
  <2> SUFFICES ASSUME Init PROVE Inv
    OBVIOUS
  <2> USE PoolAssumption DEF Init
  <2>1. TypeOK
    BY DEF TypeOK, Points, Routes
  <2>2. LaneExclusive
    BY DEF LaneExclusive, OwnerSessions, Holds, GuardPoints
  <2>3. ExpectsHold
    BY DEF ExpectsHold, OwnerSessions
  <2>4. Publication
    BY DEF Publication, PoolPoints, GuardPoints
  <2> QED
    BY <2>1, <2>2, <2>3, <2>4 DEF Inv
<1> QED
  BY <1>1, PoolStep, PTL DEF Spec

\* For every set of threads and however many sessions travel between them,
\* the lane's workspace is in one pair of hands.
THEOREM PoolLaneExclusive == Spec => []LaneExclusive
<1>1. Inv => LaneExclusive
  BY DEF Inv
<1> QED
  BY <1>1, PoolInvariance, PTL

\* No .expect of the pool can panic, in any interleaving.
THEOREM PoolExpectsHold == Spec => []ExpectsHold
<1>1. Inv => ExpectsHold
  BY DEF Inv
<1> QED
  BY <1>1, PoolInvariance, PTL

-----------------------------------------------------------------------------
(* What a call carries, and what it knows about the lane and its workspace *)
(* while it is between two steps.                                          *)

\* A thread carries a workspace only where its call knows of it, and finds
\* the lane empty where it is about to fill it.
HandsOf(t) ==
    /\ ws[t] # NoWs => \/ pc[t] \in {"set", "return", "swap", "put", "putback"}
                       \/ pc[t] = "run" /\ route[t] # "owner"
    /\ pc[t] = "coldlane" => lane = NoWs

\* It is so for every thread.
Hands == \A t \in Threads : HandsOf(t)

\* What a call knows of the workspace it is about to run on.
AdmittedOf(t) ==
    /\ pc[t] \in {"promote", "putback", "reserve"} =>
         lane # NoWs /\ Fits(lane, req[t].limit)
    /\ pc[t] = "promote" => ~Supports(lane, req[t])
    /\ pc[t] = "set" => Fits(ws[t], req[t].limit)

\* Every thread knows as much.
Admitted == \A t \in Threads : AdmittedOf(t)

\* A step of one thread leaves what belongs to the others alone.
LEMMA Frame ==
    ASSUME Inv, NEW t \in Threads, CallStep(t) \/ EndStep(t),
           NEW u \in Threads, u # t
    PROVE  /\ pc'[u] = pc[u] /\ req'[u] = req[u]
           /\ ws'[u] = ws[u] /\ route'[u] = route[u]
  <1> USE DEF Inv, TypeOK, Go, Carry, RunOwner, RunOwned
  <1>1. CASE \/ Call(t) \/ Probe(t) \/ Warm(t) \/ Enter(t) \/ Claim(t)
             \/ LaneFill(t) \/ LaneDecline(t) \/ LaneRun(t) \/ NoCandidate(t)
    BY <1>1 DEF Call, Probe, Warm, Enter, Claim, LaneFill, LaneDecline,
         LaneRun, NoCandidate
  <1>2. CASE \/ CandidateTooLarge(t) \/ CandidateRuns(t) \/ CandidateKept(t)
             \/ PutBack(t) \/ PromoteDeclined(t) \/ PromoteBuilt(t)
             \/ PromoteFailed(t) \/ ColdLaneBuilt(t) \/ ColdLaneFailed(t)
    BY <1>2 DEF CandidateTooLarge, CandidateRuns, CandidateKept, PutBack,
         PromoteDeclined, PromoteBuilt, PromoteFailed, ColdLaneBuilt,
         ColdLaneFailed
  <1>3. CASE \/ FallbackDecline(t) \/ FallbackRun(t) \/ FallbackEmpty(t)
             \/ ColdBuilt(t) \/ BuildFailed(t) \/ Build(t) \/ Publish(t)
             \/ Reserve(t)
    BY <1>3 DEF FallbackDecline, FallbackRun, FallbackEmpty, ColdBuilt,
         BuildFailed, Build, Publish, Reserve
  <1>4. CASE EndStep(t)
    BY <1>4 DEF EndStep, Commit, Abandon, Return, Swap, Put, OpenSession,
         Adopt
  <1> QED BY <1>1, <1>2, <1>3, <1>4 DEF CallStep

\* Only a thread with the guard, or the one that publishes the pool, changes
\* what is in the lane.
LEMMA LaneChange ==
    ASSUME Inv, NEW t \in Threads, CallStep(t) \/ EndStep(t), lane' # lane
    PROVE  Holds(t) \/ ~published
  <1> USE DEF shared, Holds, GuardPoints, RunOwner
  <1>1. CASE \/ Call(t) \/ Probe(t) \/ Warm(t) \/ Enter(t) \/ Claim(t)
             \/ LaneFill(t) \/ LaneDecline(t) \/ LaneRun(t) \/ NoCandidate(t)
    BY <1>1 DEF Call, Probe, Warm, Enter, Claim, LaneFill, LaneDecline,
         LaneRun, NoCandidate
  <1>2. CASE \/ CandidateTooLarge(t) \/ CandidateRuns(t) \/ CandidateKept(t)
             \/ PutBack(t) \/ PromoteDeclined(t) \/ PromoteBuilt(t)
             \/ PromoteFailed(t) \/ ColdLaneBuilt(t) \/ ColdLaneFailed(t)
    BY <1>2 DEF CandidateTooLarge, CandidateRuns, CandidateKept, LaneWeak,
         LaneFits, PutBack, PromoteDeclined, PromoteBuilt, PromoteFailed,
         ColdLaneBuilt, ColdLaneFailed
  <1>3. CASE \/ FallbackDecline(t) \/ FallbackRun(t) \/ FallbackEmpty(t)
             \/ ColdBuilt(t) \/ BuildFailed(t) \/ Build(t) \/ Publish(t)
             \/ Reserve(t)
    BY <1>3 DEF FallbackDecline, FallbackRun, FallbackEmpty, ColdBuilt,
         BuildFailed, Build, Publish, Reserve
  <1>4. CASE EndStep(t)
    BY <1>4 DEF EndStep, Commit, Abandon, Return, Swap, Put, OpenSession,
         Adopt
  <1> QED BY <1>1, <1>2, <1>3, <1>4 DEF CallStep

\* Points at which a call relies on what is in the lane.
LanePoints == {"promote", "putback", "coldlane", "reserve"}

\* What one thread relies on in the lane, no other thread changes.
LEMMA LaneStays ==
    ASSUME Inv, NEW t \in Threads, CallStep(t) \/ EndStep(t),
           NEW u \in Threads, u # t, pc[u] \in LanePoints
    PROVE  lane' = lane
  <1> SUFFICES ASSUME lane' # lane PROVE FALSE
    OBVIOUS
  <1>1. published
    BY DEF Inv, Publication, PoolPoints, GuardPoints, LanePoints
  <1>2. Holds(t) /\ owner = InUse
    BY <1>1, LaneChange DEF Inv, LaneExclusive
  <1>3. CASE pc[u] = "reserve"
    BY <1>2, <1>3, PoolAssumption DEF Inv, ExpectsHold
  <1>4. CASE pc[u] # "reserve"
    BY <1>2, <1>4 DEF Inv, LaneExclusive, Holds, GuardPoints, LanePoints
  <1> QED BY <1>3, <1>4

\* The others keep their hands and their admission through a step of t.
LEMMA OthersKeep ==
    ASSUME Inv, Hands, Admitted, NEW t \in Threads, CallStep(t) \/ EndStep(t),
           NEW u \in Threads, u # t
    PROVE  HandsOf(u)' /\ AdmittedOf(u)'
  <1>1. /\ pc'[u] = pc[u] /\ req'[u] = req[u]
        /\ ws'[u] = ws[u] /\ route'[u] = route[u]
    BY Frame
  <1>2. CASE pc[u] \in LanePoints
    <2>1. lane' = lane BY <1>2, LaneStays
    <2> QED BY <1>1, <2>1 DEF Hands, Admitted, HandsOf, AdmittedOf, Fits,
              Supports, Cost
  <1>3. CASE pc[u] \notin LanePoints
    BY <1>1, <1>3 DEF Hands, Admitted, HandsOf, AdmittedOf, Fits, LanePoints,
         Cost
  <1> QED BY <1>2, <1>3

\* The tier that selected_layout_with_policy picks is one of the automaton's,
\* and is admitted unless it is the Pike tier for want of an admitted one.
LEMMA SelectedFits ==
    ASSUME NEW want \in 0..2, NEW limit \in Int
    PROVE  /\ Selected(want, limit) \in Tiers
           /\ Selected(want, limit) \in 0..2
           /\ Selected(want, limit) # 0 =>
                TierCost[Selected(want, limit)] <= limit
           /\ MandatoryFits(limit) => TierCost[Selected(want, limit)] <= limit
  <1> DEFINE admitted == {r \in Tiers : r <= want /\ TierCost[r] <= limit}
  <1>1. CASE admitted = {}
    <2>1. Selected(want, limit) = 0 BY <1>1 DEF Selected
    <2>2. ~MandatoryFits(limit)
      BY <1>1, PoolAssumption DEF MandatoryFits
    <2> QED BY <2>1, <2>2, PoolAssumption
  <1>2. CASE admitted # {}
    <2>1. \E r \in admitted : \A s \in admitted : s <= r
      <3>0. admitted \subseteq 0..2 BY PoolAssumption
      <3>1. CASE 2 \in admitted BY <3>0, <3>1
      <3>2. CASE 2 \notin admitted /\ 1 \in admitted
        <4>1. \A s \in admitted : s <= 1 BY <3>0, <3>2
        <4> QED BY <3>2, <4>1
      <3>3. CASE 2 \notin admitted /\ 1 \notin admitted
        <4>1. \A s \in admitted : s = 0 BY <3>0, <3>3
        <4> QED BY <1>2, <4>1
      <3> QED BY <3>1, <3>2, <3>3
    <2>2. Selected(want, limit) = CHOOSE r \in admitted : \A s \in admitted :
          s <= r
      BY <1>2 DEF Selected
    <2>3. Selected(want, limit) \in admitted
      BY <2>1, <2>2
    <2> QED BY <2>3, PoolAssumption
  <1> QED BY <1>1, <1>2

\* A workspace costs a natural number.
LEMMA CostNat == \A w \in Workspaces : Cost(w) \in Nat /\ Tier[w] \in 0..2
  BY PoolAssumption DEF Cost

\* A new workspace of the tier selected below a limit that admits the Pike
\* tier fits the envelope.
LEMMA FreshFits ==
    ASSUME NEW q \in Requests, NEW limit \in Int, limit <= q.limit,
           MandatoryFits(limit), NEW w \in Fresh(Selected(q.want, limit))
    PROVE  w \in Workspaces /\ Fits(w, q.limit)
  <1>1. q.want \in 0..2 /\ q.limit \in Nat BY PoolAssumption
  <1>2. TierCost[Selected(q.want, limit)] <= limit
    BY <1>1, SelectedFits
  <1>3. w \in Workspaces /\ Tier[w] = Selected(q.want, limit) BY DEF Fresh
  <1> QED BY <1>1, <1>2, <1>3, CostNat DEF Fits, Cost

\* The limits of new construction are within the envelope.
LEMMA ColdLimits ==
    ASSUME NEW q \in Requests
    PROVE  /\ ColdLimit(q) \in Int /\ ColdLimit(q) <= q.limit
           /\ Lesser(q.limit, q.allow - PublicationWork) \in Int
           /\ Lesser(q.limit, q.allow - PublicationWork) <= q.limit
  BY PoolAssumption DEF ColdLimit, Lesser

\* A replacement of the tier that a too weak lane calls for fits beside it.
LEMMA ReplacementFits ==
    ASSUME Inv, Admitted, NEW t \in Threads, pc[t] = "promote",
           ReplacementTier(t) = RequiredTier(t),
               NEW w \in Fresh(RequiredTier(t))
    PROVE  /\ w \in Workspaces
           /\ Cost(lane) + Cost(w) <= req[t].limit
           /\ Fits(w, req[t].limit)
  <1>1. /\ req[t] \in Requests /\ lane \in Workspaces
        /\ req[t].want \in 0..2 /\ req[t].limit \in Nat /\ req[t].allow \in Nat
    BY PoolAssumption DEF Inv, TypeOK, Admitted, AdmittedOf
  <1>2. w \in Workspaces /\ Tier[w] = RequiredTier(t) BY DEF Fresh
  <1>3. Cost(lane) \in Nat /\ Cost(w) \in Nat /\ Tier[lane] \in 0..2
    BY <1>1, <1>2, CostNat
  <1>4. RequiredTier(t) \in 0..2 /\ Tier[lane] < RequiredTier(t)
    BY <1>1, <1>3, SelectedFits DEF Admitted, AdmittedOf, Supports,
        RequiredTier
  <1> DEFINE limit == Lesser(ResidualLimit(req[t], lane), req[t].allow)
  <1>5. limit \in Int /\ limit <= req[t].limit - Cost(lane)
    BY <1>1, <1>3 DEF Lesser, ResidualLimit
  <1> HIDE DEF limit
  <1>6. ReplacementTier(t) = Selected(req[t].want, limit)
    BY DEF ReplacementTier, limit
  <1>7. TierCost[RequiredTier(t)] <= limit
    BY <1>1, <1>3, <1>4, <1>5, <1>6, SelectedFits
  <1>8. Cost(w) <= limit BY <1>2, <1>7 DEF Cost
  <1> QED BY <1>1, <1>2, <1>3, <1>5, <1>8 DEF Fits

\* A step of a call keeps the caller's hands and its admission.
LEMMA OwnCall ==
    ASSUME Inv, Hands, Admitted, NEW t \in Threads, CallStep(t)
    PROVE  HandsOf(t)' /\ AdmittedOf(t)'
  <1> USE PoolAssumption DEF Hands, Admitted, HandsOf, AdmittedOf, shared,
        Go, Carry, RunOwner, RunOwned
  <1>0. /\ pc \in [Threads -> Points] /\ req \in [Threads -> Requests]
        /\ ws \in [Threads -> Workspaces \cup {NoWs}]
        /\ route \in [Threads -> Routes]
        /\ pc[t] \notin {"run", "idle"} => req' = req
    BY DEF Inv, TypeOK, CallStep, Call, Probe, Warm, Enter, Claim, LaneFill,
        LaneDecline,
         LaneRun, NoCandidate, CandidateTooLarge, CandidateRuns,
             CandidateKept, PutBack,
         PromoteDeclined, PromoteBuilt, PromoteFailed, ColdLaneBuilt,
         ColdLaneFailed, FallbackDecline, FallbackRun, FallbackEmpty,
             ColdBuilt,
         BuildFailed, Build, Publish, Reserve
  <1>1. CASE \/ Call(t) \/ Probe(t) \/ Warm(t) \/ Enter(t) \/ Claim(t)
             \/ LaneDecline(t) \/ LaneRun(t)
    BY <1>0, <1>1 DEF Call, Probe, Warm, Enter, Claim, LaneDecline, LaneRun,
        LaneFits
  <1>2. CASE LaneFill(t)
    BY <1>0, <1>2 DEF LaneFill
  <1>3. CASE NoCandidate(t)
    BY <1>0, <1>3 DEF NoCandidate, LaneWeak, LaneFits, Fits, Supports
  <1>4. CASE CandidateTooLarge(t)
    BY <1>0, <1>4 DEF CandidateTooLarge, LaneWeak, LaneFits, Fits
  <1>5. CASE CandidateKept(t)
    <2>1. /\ pc'[t] = "promote" /\ ws'[t] = ws[t] /\ ws[t] = NoWs
          /\ req'[t] = req[t]
      BY <1>0, <1>5 DEF CandidateKept, LaneWeak, LaneFits
    <2>2. lane' \in Workspaces /\ Fits(lane', req[t].limit)
          /\ ~Supports(lane', req[t])
      <3>1. /\ lane \in Workspaces /\ fallback \in Workspaces
            /\ req[t] \in Requests /\ req[t].limit \in Nat
        BY <1>5 DEF CandidateKept, LaneWeak, LaneFits, Inv, TypeOK
      <3>2. Fits(fallback, req[t].limit)
        BY <1>5, <3>1, CostNat DEF CandidateKept, CandidateFits,
            ResidualLimit, Fits
      <3> QED BY <1>5, <3>1, <3>2 DEF CandidateKept, LaneWeak, LaneFits
    <2> QED BY <2>1, <2>2 DEF Fits, Supports
  <1>6. CASE \/ CandidateRuns(t) \/ PutBack(t) \/ PromoteDeclined(t)
             \/ PromoteBuilt(t)
             \/ PromoteFailed(t) \/ ColdLaneBuilt(t) \/ ColdLaneFailed(t)
    BY <1>0, <1>6 DEF CandidateRuns, LaneWeak, LaneFits, PutBack,
        PromoteDeclined,
         PromoteBuilt, PromoteFailed, ColdLaneBuilt, ColdLaneFailed
  <1>7. CASE \/ FallbackDecline(t) \/ FallbackRun(t) \/ FallbackEmpty(t)
             \/ ColdBuilt(t) \/ BuildFailed(t) \/ Reserve(t)
    BY <1>0, <1>7 DEF FallbackDecline, FallbackRun, FallbackEmpty, ColdBuilt,
         BuildFailed, Reserve
  <1>8. CASE Build(t)
    <2> DEFINE limit == Lesser(req[t].limit, req[t].allow - PublicationWork)
    <2>0. req[t] \in Requests /\ limit \in Int /\ limit <= req[t].limit
      BY <1>0, ColdLimits
    <2> HIDE DEF limit
    <2>1. PICK w \in Fresh(Selected(req[t].want, limit)) :
             /\ pc[t] = "build" /\ req' = req /\ lane' = lane
             /\ MandatoryFits(limit)
             /\ \/ RunOwned(t, w, "none")
                \/ Go(t, "set") /\ Carry(t, w) /\ UNCHANGED route
      BY <1>8 DEF Build, limit
    <2>2. w \in Workspaces /\ Fits(w, req[t].limit)
      BY <2>0, <2>1, FreshFits
    <2> QED BY <1>0, <2>1, <2>2 DEF Fits, Cost
  <1>9. CASE Publish(t)
    <2>1. CASE published
      BY <1>0, <1>9, <2>1 DEF Publish
    <2>2. CASE ~published
      BY <1>0, <1>9, <2>2 DEF Publish, Inv, ExpectsHold, Fits
    <2> QED BY <2>1, <2>2
  <1> QED BY <1>1, <1>2, <1>3, <1>4, <1>5, <1>6, <1>7, <1>8, <1>9 DEF CallStep

\* So does the end of a checkout.
LEMMA OwnEnd ==
    ASSUME Inv, Hands, Admitted, NEW t \in Threads, EndStep(t)
    PROVE  HandsOf(t)' /\ AdmittedOf(t)'
  <1> USE PoolAssumption DEF Hands, Admitted, HandsOf, AdmittedOf, shared,
        Go, Carry, Inv, TypeOK
  <1>1. CASE Commit(t) BY <1>1 DEF Commit
  <1>2. CASE Abandon(t) BY <1>2 DEF Abandon
  <1>3. CASE Return(t) \/ Put(t) \/ OpenSession(t) \/ Adopt(t)
    BY <1>3 DEF Return, Put, OpenSession, Adopt
  <1>4. CASE Swap(t) BY <1>4 DEF Swap
  <1> QED BY <1>1, <1>2, <1>3, <1>4 DEF EndStep

\* And a session that is given back, refreshed or dropped.
LEMMA SessionKeeps ==
    ASSUME Inv, Hands, Admitted, NEW s \in sessions,
           DropSession(s) \/ \E t \in Threads : SessionStep(t, s)
    PROVE  Hands' /\ Admitted'
  <1>0. /\ pc \in [Threads -> Points] /\ req \in [Threads -> Requests]
        /\ ws \in [Threads -> Workspaces \cup {NoWs}]
    BY DEF Inv, TypeOK
  <1>1. \A u \in Threads : pc[u] \in LanePoints => lane' = lane
    <2> SUFFICES ASSUME NEW u \in Threads, pc[u] \in LanePoints
                 PROVE lane' = lane
      OBVIOUS
    <2>1. s.route # "owner"
      <3> SUFFICES ASSUME s.route = "owner" PROVE FALSE
        OBVIOUS
      <3>1. s \in OwnerSessions BY DEF OwnerSessions
      <3>2. owner = InUse BY <3>1 DEF Inv, LaneExclusive
      <3>3. ~Holds(u) BY <3>1 DEF Inv, LaneExclusive
      <3> QED BY <3>2, <3>3, PoolAssumption
            DEF Inv, ExpectsHold, LanePoints, Holds, GuardPoints
    <2> QED BY <2>1 DEF DropSession, SessionStep, CommitSession,
        RefreshSession, GiveBack
  <1>2. CASE DropSession(s)
    BY <1>1, <1>2 DEF DropSession, Hands, Admitted, HandsOf, AdmittedOf,
        LanePoints,
         Fits, Supports, Cost
  <1>3. ASSUME NEW t \in Threads, NEW w, GiveBack(t, s, w)
        PROVE  Hands' /\ Admitted'
    <2>1. req' = req /\ route' = route /\ pc[t] = "idle"
      BY <1>3 DEF GiveBack
    <2>2. \A u \in Threads \ {t} : pc'[u] = pc[u] /\ ws'[u] = ws[u]
      BY <1>0, <1>3 DEF GiveBack, Go, Carry
    <2>3. /\ pc'[t] \in {"idle", "return"}
          /\ (pc'[t] = "idle" => ws'[t] = ws[t])
      BY <1>0, <1>3 DEF GiveBack, Go, Carry
    <2>4. HandsOf(t)' /\ AdmittedOf(t)'
      BY <2>1, <2>3 DEF Hands, HandsOf, AdmittedOf
    <2>5. ASSUME NEW u \in Threads \ {t} PROVE HandsOf(u)' /\ AdmittedOf(u)'
      <3>1. CASE pc[u] \in LanePoints
        <4>1. lane' = lane BY <1>1, <3>1
        <4> QED BY <2>1, <2>2, <4>1 DEF Hands, Admitted, HandsOf, AdmittedOf,
            Fits,
                  Supports, Cost
      <3>2. CASE pc[u] \notin LanePoints
        BY <2>1, <2>2, <3>2 DEF Hands, Admitted, HandsOf, AdmittedOf, Fits,
            LanePoints,
             Cost
      <3> QED BY <3>1, <3>2
    <2> QED BY <2>4, <2>5 DEF Hands, Admitted
  <1> QED BY <1>2, <1>3 DEF SessionStep, CommitSession, RefreshSession

\* Every step of the pool preserves the two.
LEMMA NextAdmitted == Inv /\ Hands /\ Admitted /\ [Next]_vars => Hands'
    /\ Admitted'
  <1> SUFFICES ASSUME Inv, Hands, Admitted, [Next]_vars PROVE Hands'
               /\ Admitted'
    OBVIOUS
  <1>1. CASE UNCHANGED vars
    BY <1>1 DEF vars, Hands, Admitted, HandsOf, AdmittedOf, Fits, Supports,
        Cost
  <1>2. ASSUME NEW t \in Threads, CallStep(t) \/ EndStep(t) PROVE Hands'
               /\ Admitted'
    <2>1. HandsOf(t)' /\ AdmittedOf(t)' BY <1>2, OwnCall, OwnEnd
    <2>2. \A u \in Threads : u # t => HandsOf(u)' /\ AdmittedOf(u)'
      BY <1>2, OthersKeep
    <2> QED BY <2>1, <2>2 DEF Hands, Admitted
  <1>3. ASSUME NEW s \in sessions, DropSession(s)
               \/ \E t \in Threads : SessionStep(t, s)
        PROVE  Hands' /\ Admitted'
    BY <1>3, SessionKeeps
  <1> QED BY <1>1, <1>2, <1>3 DEF Next

\* They hold throughout every behaviour of the pool.
LEMMA AdmittedInvariance == Spec => [](Hands /\ Admitted)
  <1>1. Init => Hands /\ Admitted
    BY DEF Init, Hands, Admitted, HandsOf, AdmittedOf
  <1> QED BY <1>1, NextAdmitted, PoolInvariance, PTL DEF Spec

-----------------------------------------------------------------------------
(* A search only starts on a workspace that its envelope admits.           *)

\* What the start of a search by t owes to the request it serves.
StartsAdmitted(t) ==
    pc[t] # "run" /\ pc'[t] = "run" =>
      /\ Fits(IF route'[t] = "owner" THEN lane' ELSE ws'[t], req[t].limit)
      /\ Holds(t) /\ route'[t] = "pool" =>
            Cost(lane') + Cost(ws'[t]) <= req[t].limit

\* A call starts its search in the lane on a workspace that fits.
LEMMA StartInLane ==
    ASSUME Inv, Hands, Admitted, NEW t \in Threads,
           \/ Warm(t) \/ LaneRun(t) \/ PutBack(t) \/ PromoteDeclined(t)
           \/ Reserve(t) \/ ColdLaneBuilt(t)
    PROVE  StartsAdmitted(t)
  <1>0. /\ pc \in [Threads -> Points] /\ req \in [Threads -> Requests]
        /\ route \in [Threads -> Routes] /\ req[t] \in Requests
    BY DEF Inv, TypeOK
  <1>1. CASE \/ Warm(t) \/ LaneRun(t) \/ PutBack(t) \/ PromoteDeclined(t)
             \/ Reserve(t)
    <2>1. lane' = lane
          /\ (pc'[t] = "run" => route'[t] = "owner"
          /\ Fits(lane, req[t].limit))
      BY <1>0, <1>1 DEF Warm, LaneRun, LaneFits, PutBack, PromoteDeclined,
          Reserve,
           RunOwner, Go, shared, Admitted, AdmittedOf
    <2> QED BY <2>1 DEF StartsAdmitted
  <1>2. CASE ColdLaneBuilt(t)
    <2>1. route'[t] = "owner" BY <1>0, <1>2 DEF ColdLaneBuilt, RunOwner
    <2>2. Fits(lane', req[t].limit)
      <3>1. ColdLimit(req[t]) \in Int /\ ColdLimit(req[t]) <= req[t].limit
        BY <1>0, ColdLimits
      <3>2. /\ MandatoryFits(ColdLimit(req[t]))
            /\ lane' \in Fresh(Selected(req[t].want, ColdLimit(req[t])))
        BY <1>2 DEF ColdLaneBuilt
      <3> QED BY <1>0, <3>1, <3>2, FreshFits
    <2> QED BY <2>1, <2>2 DEF StartsAdmitted
  <1> QED BY <1>1, <1>2

\* A call starts its search by value on a workspace that fits, beside the
\* lane when the lane keeps another.
LEMMA StartByValue ==
    ASSUME Inv, Hands, Admitted, NEW t \in Threads,
           \/ CandidateRuns(t) \/ PromoteBuilt(t) \/ FallbackRun(t)
           \/ ColdBuilt(t) \/ Build(t) \/ Publish(t)
    PROVE  StartsAdmitted(t)
  <1>0. /\ pc \in [Threads -> Points] /\ req \in [Threads -> Requests]
        /\ ws \in [Threads -> Workspaces \cup {NoWs}]
        /\ route \in [Threads -> Routes] /\ req[t] \in Requests
        /\ req[t].limit \in Nat
    BY PoolAssumption DEF Inv, TypeOK
  <1>1. CASE CandidateRuns(t)
    <2>1. /\ lane \in Workspaces /\ fallback \in Workspaces /\ lane' = lane
          /\ route'[t] = "pool" /\ ws'[t] = fallback
          /\ Fits(fallback, ResidualLimit(req[t], lane))
      BY <1>0, <1>1 DEF CandidateRuns, LaneWeak, LaneFits, CandidateFits,
          RunOwned,
           Carry, Inv, TypeOK
    <2>2. Cost(lane) \in Nat /\ Cost(fallback) \in Nat BY <2>1, CostNat
    <2>3. /\ Cost(lane) + Cost(fallback) <= req[t].limit
          /\ Fits(fallback, req[t].limit)
      BY <1>0, <2>1, <2>2 DEF Fits, ResidualLimit
    <2> QED BY <2>1, <2>3 DEF StartsAdmitted
  <1>2. CASE PromoteBuilt(t)
    <2>1. PICK w \in Fresh(RequiredTier(t)) : RunOwned(t, w, "pool")
      BY <1>2 DEF PromoteBuilt
    <2>2. /\ pc[t] = "promote" /\ ReplacementTier(t) = RequiredTier(t)
          /\ lane' = lane
      BY <1>2 DEF PromoteBuilt
    <2>3. route'[t] = "pool" /\ ws'[t] = w BY <1>0, <2>1 DEF RunOwned, Carry
    <2>4. Cost(lane) + Cost(w) <= req[t].limit /\ Fits(w, req[t].limit)
      BY <2>2, ReplacementFits
    <2> QED BY <2>2, <2>3, <2>4 DEF StartsAdmitted
  <1>3. CASE FallbackRun(t)
    <2>1. route'[t] = "pool" /\ ws'[t] = fallback
          /\ Fits(fallback, req[t].limit) /\ ~Holds(t)
      BY <1>0, <1>3 DEF FallbackRun, RunOwned, Carry, Holds, GuardPoints
    <2> QED BY <2>1 DEF StartsAdmitted
  <1>4. CASE ColdBuilt(t)
    <2>0. ColdLimit(req[t]) \in Int /\ ColdLimit(req[t]) <= req[t].limit
      BY <1>0, ColdLimits
    <2>1. PICK w \in Fresh(Selected(req[t].want, ColdLimit(req[t]))) :
             MandatoryFits(ColdLimit(req[t])) /\ RunOwned(t, w, "pool")
                 /\ pc[t] = "cold"
      BY <1>4 DEF ColdBuilt
    <2>2. Fits(w, req[t].limit) BY <1>0, <2>0, <2>1, FreshFits
    <2>3. route'[t] = "pool" /\ ws'[t] = w /\ ~Holds(t)
      BY <1>0, <2>1 DEF RunOwned, Carry, Holds, GuardPoints
    <2> QED BY <2>2, <2>3 DEF StartsAdmitted
  <1>5. CASE Build(t)
    <2> DEFINE limit == Lesser(req[t].limit, req[t].allow - PublicationWork)
    <2>0. limit \in Int /\ limit <= req[t].limit BY <1>0, ColdLimits
    <2> HIDE DEF limit
    <2>1. PICK w \in Fresh(Selected(req[t].want, limit)) :
             /\ MandatoryFits(limit) /\ pc[t] = "build"
             /\ RunOwned(t, w, "none") \/ Go(t, "set")
      BY <1>5 DEF Build, limit
    <2>2. Fits(w, req[t].limit) BY <1>0, <2>0, <2>1, FreshFits
    <2>3. pc'[t] = "run" => route'[t] = "none" /\ ws'[t] = w
      BY <1>0, <2>1 DEF RunOwned, Carry, Go
    <2> QED BY <2>2, <2>3 DEF StartsAdmitted
  <1>6. CASE Publish(t)
    <2>1. /\ pc[t] = "set" /\ ~Holds(t) /\ Fits(ws[t], req[t].limit)
      BY <1>6 DEF Publish, Holds, GuardPoints, Admitted, AdmittedOf
    <2>2. pc'[t] = "run" => route'[t] = "pool" /\ ws'[t] = ws[t]
      BY <1>0, <1>6 DEF Publish, RunOwned, Carry, Go
    <2> QED BY <2>1, <2>2 DEF StartsAdmitted
  <1> QED BY <1>1, <1>2, <1>3, <1>4, <1>5, <1>6

\* No other step starts a search.
LEMMA NoOtherStart ==
    ASSUME Inv, NEW t \in Threads,
           \/ Call(t) \/ Probe(t) \/ Enter(t) \/ Claim(t) \/ LaneFill(t)
           \/ LaneDecline(t) \/ NoCandidate(t) \/ CandidateTooLarge(t)
           \/ CandidateKept(t) \/ PromoteFailed(t) \/ ColdLaneFailed(t)
           \/ FallbackDecline(t) \/ FallbackEmpty(t) \/ BuildFailed(t)
           \/ EndStep(t) \/ \E s \in sessions : SessionStep(t, s)
    PROVE  StartsAdmitted(t)
  <1>1. pc'[t] = "run" => pc[t] = "run"
    <2>0. pc \in [Threads -> Points] BY DEF Inv, TypeOK
    <2> QED BY <2>0 DEF Call, Probe, Enter, Claim, LaneFill, LaneDecline,
              NoCandidate, CandidateTooLarge, CandidateKept, PromoteFailed,
              ColdLaneFailed, FallbackDecline, FallbackEmpty, BuildFailed,
                  EndStep,
              Commit, Abandon, Return, Swap, Put, OpenSession, Adopt,
                  SessionStep,
              CommitSession, RefreshSession, GiveBack, Go
  <1> QED BY <1>1 DEF StartsAdmitted

\* For any tiers, costs and envelopes, every search starts on a workspace
\* that its own request admits, and one that runs beside the lane's weaker
\* workspace fits beside it: the checks along the way of a checkout are
\* enough, though the lane, the fallback and the pool itself change between
\* them.
THEOREM PoolWithinEnvelope == Spec => WithinEnvelope
  <1> DEFINE Started == \A t \in Threads : StartsAdmitted(t)
  <1>1. Inv /\ Hands /\ Admitted /\ [Next]_vars => Started \/ UNCHANGED vars
    <2> SUFFICES ASSUME Inv, Hands, Admitted, Next PROVE Started
      OBVIOUS
    <2>1. ASSUME NEW t \in Threads, CallStep(t) \/ EndStep(t) PROVE Started
      <3>1. StartsAdmitted(t)
        BY <2>1, StartInLane, StartByValue, NoOtherStart DEF CallStep
      <3>2. \A u \in Threads : u # t => StartsAdmitted(u)
        BY <2>1, Frame DEF StartsAdmitted
      <3> QED BY <3>1, <3>2
    <2>2. ASSUME NEW t \in Threads, NEW s \in sessions, SessionStep(t, s)
                 PROVE Started
      <3>1. StartsAdmitted(t) BY <2>2, NoOtherStart
      <3>2. \A u \in Threads : u # t => pc'[u] = pc[u]
        BY <2>2 DEF SessionStep, CommitSession, RefreshSession, GiveBack, Go,
            Inv, TypeOK
      <3> QED BY <3>1, <3>2 DEF StartsAdmitted
    <2>3. ASSUME NEW s \in sessions, DropSession(s) PROVE Started
      BY <2>3 DEF DropSession, StartsAdmitted
    <2> QED BY <2>1, <2>2, <2>3 DEF Next
  <1>2. Inv /\ Hands /\ Admitted /\ [Next]_vars =>
          [\A t \in Threads : pc[t] # "run" /\ pc'[t] = "run" =>
             /\ Fits(IF route'[t] = "owner" THEN lane' ELSE ws'[t],
                  req[t].limit)
             /\ Holds(t) /\ route'[t] = "pool" =>
                   Cost(lane') + Cost(ws'[t]) <= req[t].limit]_vars
    BY <1>1 DEF StartsAdmitted
  <1> QED BY <1>2, PoolInvariance, AdmittedInvariance, PTL DEF Spec,
      WithinEnvelope

-----------------------------------------------------------------------------
(* Successful traffic never lowers the strongest capability in the pool.   *)

\* A workspace at least as strong as w is in the pool after the step.
Covered(w) == \E v \in Pooled' : Tier[v] >= Tier[w]

\* What t carries is the pool's unless it runs uncached.
Counts(t) == ws[t] # NoWs /\ ~(pc[t] = "run" /\ route[t] = "none")

\* A step of t leaves alone what neither the lane, nor the fallback, nor t
\* has.
LEMMA ElsewherePooled ==
    ASSUME Inv, NEW t \in Threads, CallStep(t) \/ EndStep(t), NEW w \in Pooled
    PROVE  w \in Workspaces
           /\ (w \in {lane, fallback} \/ (w = ws[t] /\ Counts(t))
           \/ Covered(w))
  <1>0. w \in Workspaces /\ Tier[w] \in 0..2
    <2>1. w \in Workspaces BY DEF Pooled, Inv, TypeOK, Session
    <2> QED BY <2>1, CostNat
  <1>1. CASE w \in {lane, fallback} BY <1>0, <1>1
  <1>2. ASSUME NEW u \in Threads, w = ws[u],
               ~(pc[u] = "run" /\ route[u] = "none"), w # NoWs
        PROVE  (w = ws[t] /\ Counts(t)) \/ Covered(w)
    <2>1. CASE u = t BY <1>2, <2>1 DEF Counts
    <2>2. CASE u # t
      <3>1. ws'[u] = ws[u] /\ pc'[u] = pc[u] /\ route'[u] = route[u]
        BY <2>2, Frame
      <3>2. w \in Pooled' BY <1>2, <3>1 DEF Pooled
      <3> QED BY <1>0, <3>2 DEF Covered
    <2> QED BY <2>1, <2>2
  <1>3. ASSUME NEW s \in sessions, w = s.ws, s.route # "none", w # NoWs
        PROVE  Covered(w)
    <2>1. s \in sessions'
      BY DEF CallStep, Call, Probe, Warm, Enter, Claim, LaneFill, LaneDecline,
         LaneRun, NoCandidate, CandidateTooLarge, CandidateRuns,
             CandidateKept, PutBack,
         PromoteDeclined, PromoteBuilt, PromoteFailed, ColdLaneBuilt,
         ColdLaneFailed, FallbackDecline, FallbackRun, FallbackEmpty,
             ColdBuilt,
         BuildFailed, Build, Publish, Reserve, EndStep, Commit, Abandon,
             Return, Swap,
         Put, OpenSession, Adopt, shared
    <2>2. w \in Pooled' BY <1>3, <2>1 DEF Pooled
    <2> QED BY <1>0, <2>2 DEF Covered
  <1> QED BY <1>0, <1>1, <1>2, <1>3 DEF Pooled

\* Where a workspace can be found to be covered after a step of t.
LEMMA CoveredBy ==
    ASSUME NEW t \in Threads, NEW w \in Workspaces, NEW v \in Workspaces,
           Tier[v] >= Tier[w],
           v \in {lane', fallback'} \/ (v = ws'[t] /\ Counts(t)')
    PROVE  Covered(w)
  <1>1. v \in Pooled' BY PoolAssumption DEF Pooled, Counts
  <1> QED BY <1>1 DEF Covered

\* A step of t downgrades nothing when it covers the lane, the fallback and
\* what t carries.
LEMMA StepCovers ==
    ASSUME Inv, NEW t \in Threads, CallStep(t) \/ EndStep(t),
           lane # NoWs => Covered(lane), fallback # NoWs => Covered(fallback),
           Counts(t) => Covered(ws[t])
    PROVE  \A w \in Pooled : \E v \in Pooled' : Tier[v] >= Tier[w]
  <1> SUFFICES ASSUME NEW w \in Pooled
               PROVE  \E v \in Pooled' : Tier[v] >= Tier[w]
    OBVIOUS
  <1>1. w # NoWs BY DEF Pooled
  <1>2. w \in {lane, fallback} \/ (w = ws[t] /\ Counts(t)) \/ Covered(w)
    BY ElsewherePooled
  <1> QED BY <1>1, <1>2 DEF Covered

\* Nothing moves.
LEMMA StillCovers ==
    ASSUME Inv, NEW t \in Threads, CallStep(t) \/ EndStep(t),
           UNCHANGED <<lane, fallback>>,
           Counts(t) => ws'[t] = ws[t] /\ Counts(t)'
    PROVE  \A w \in Pooled : \E v \in Pooled' : Tier[v] >= Tier[w]
  <1>0. /\ lane \in Workspaces \cup {NoWs}
        /\ fallback \in Workspaces \cup {NoWs}
        /\ ws[t] \in Workspaces \cup {NoWs}
    BY DEF Inv, TypeOK
  <1>n. \A w \in Workspaces : Tier[w] >= Tier[w] BY CostNat
  <1>1. lane # NoWs => Covered(lane) BY <1>0, <1>n, CoveredBy
  <1>2. fallback # NoWs => Covered(fallback) BY <1>0, <1>n, CoveredBy
  <1>3. Counts(t) => Covered(ws[t]) BY <1>0, <1>n, CoveredBy DEF Counts
  <1> QED BY <1>1, <1>2, <1>3, StepCovers

\* A call downgrades nothing, unless its promotion fails.
LEMMA CallCovers ==
    ASSUME Inv, Hands, NEW t \in Threads, CallStep(t), ~PromoteFailed(t)
    PROVE  \A w \in Pooled : \E v \in Pooled' : Tier[v] >= Tier[w]
  <1> USE DEF Go, Carry, RunOwner, RunOwned, shared
  <1>0. /\ pc \in [Threads -> Points] /\ route \in [Threads -> Routes]
        /\ ws \in [Threads -> Workspaces \cup {NoWs}]
        /\ ws[t] \in Workspaces \cup {NoWs}
        /\ lane \in Workspaces \cup {NoWs}
        /\ fallback \in Workspaces \cup {NoWs}
    BY DEF Inv, TypeOK
  <1>n. \A w, v \in Workspaces : /\ Tier[w] \in 0..2 /\ Tier[w] >= Tier[w]
                                 /\ ~Stronger(w, v) => Tier[v] >= Tier[w]
                                 /\ Stronger(w, v) => Tier[w] >= Tier[v]
    <2>1. \A w \in Workspaces : Tier[w] \in 0..2 BY CostNat
    <2> QED BY <2>1 DEF Stronger
  <1>h. /\ pc[t] \notin {"set", "return", "swap", "put", "putback", "run"} =>
             ws[t] = NoWs
        /\ pc[t] = "coldlane" => lane = NoWs
    BY DEF Hands, HandsOf
  <1>1. CASE \/ Call(t) \/ Probe(t) \/ Enter(t) \/ Claim(t) \/ LaneDecline(t)
             \/ NoCandidate(t) \/ FallbackEmpty(t) \/ BuildFailed(t) \/ Warm(t)
             \/ LaneRun(t) \/ PromoteDeclined(t) \/ PromoteBuilt(t)
             \/ ColdBuilt(t)
             \/ Build(t) \/ Reserve(t)
    <2>1. UNCHANGED <<lane, fallback>> /\ ~Counts(t)
      BY <1>0, <1>1, <1>h DEF Call, Probe, Enter, Claim, LaneDecline,
          NoCandidate,
           FallbackEmpty, BuildFailed, Warm, LaneRun, LaneFits, LaneWeak,
               PromoteDeclined,
           PromoteBuilt, ColdBuilt, Build, Reserve, Counts
    <2> QED BY <2>1, StillCovers
  <1>2. CASE LaneFill(t) \/ ColdLaneBuilt(t) \/ ColdLaneFailed(t)
    <2>1. /\ lane = NoWs /\ ~Counts(t) /\ fallback \in {NoWs, lane', fallback'}
      BY <1>0, <1>2, <1>h DEF LaneFill, ColdLaneBuilt, ColdLaneFailed, Counts
    <2>2. fallback # NoWs => Covered(fallback) BY <1>0, <1>n, <2>1, CoveredBy
    <2> QED BY <2>1, <2>2, StepCovers
  <1>3. CASE CandidateTooLarge(t) \/ CandidateRuns(t) \/ FallbackDecline(t)
        \/ FallbackRun(t)
    <2>1. /\ lane' = lane /\ ~Counts(t) /\ ws'[t] = fallback /\ fallback # NoWs
          /\ ~(pc'[t] = "run" /\ route'[t] = "none")
      BY <1>0, <1>3, <1>h DEF CandidateTooLarge, CandidateRuns, LaneWeak,
          LaneFits,
           FallbackDecline, FallbackRun, Counts
    <2>2. Counts(t)' BY <2>1 DEF Counts
    <2>3. Covered(fallback) BY <1>0, <1>n, <2>1, <2>2, CoveredBy
    <2>4. lane # NoWs => Covered(lane) BY <1>0, <1>n, <2>1, CoveredBy
    <2> QED BY <2>1, <2>3, <2>4, StepCovers
  <1>4. CASE CandidateKept(t)
    <2>1. /\ lane \in Workspaces /\ fallback \in Workspaces /\ ~Counts(t)
          /\ lane' = IF Stronger(fallback, lane) THEN fallback ELSE lane
      BY <1>0, <1>4, <1>h DEF CandidateKept, LaneWeak, LaneFits, Counts
    <2>2. lane' \in Workspaces /\ Tier[lane'] >= Tier[lane]
          /\ Tier[lane'] >= Tier[fallback]
      BY <1>n, <2>1
    <2>3. Covered(lane) /\ Covered(fallback) BY <2>1, <2>2, CoveredBy
    <2> QED BY <2>1, <2>3, StepCovers
  <1>5. CASE PutBack(t)
    <2>1. ws[t] \in Workspaces /\ lane' = lane
          /\ fallback' = FallbackAfter(ws[t])
      BY <1>0, <1>5 DEF PutBack, Inv, ExpectsHold
    <2>2. /\ fallback' \in Workspaces /\ Tier[fallback'] >= Tier[ws[t]]
          /\ fallback # NoWs => Tier[fallback'] >= Tier[fallback]
      BY <1>0, <1>n, <2>1 DEF FallbackAfter
    <2>3. lane # NoWs => Covered(lane) BY <1>0, <1>n, <2>1, CoveredBy
    <2>4. Covered(ws[t]) /\ (fallback # NoWs => Covered(fallback))
      BY <1>0, <2>1, <2>2, CoveredBy
    <2> QED BY <2>3, <2>4, StepCovers
  <1>6. CASE Publish(t)
    <2>0. ws[t] \in Workspaces /\ pc[t] = "set" /\ fallback' = fallback
      BY <1>0, <1>6 DEF Publish, Inv, ExpectsHold
    <2>1. CASE published
      <3>1. lane' = lane /\ ws'[t] = ws[t] /\ Counts(t)'
        BY <1>0, <1>6, <2>0, <2>1, PoolAssumption DEF Publish, Counts
      <3> QED BY <2>0, <3>1, StillCovers
    <2>2. CASE ~published
      <3>1. lane = NoWs /\ lane' = ws[t]
        BY <1>6, <2>2 DEF Publish, Inv, Publication
      <3>2. Covered(ws[t]) /\ (fallback # NoWs => Covered(fallback))
        BY <1>0, <1>n, <2>0, <3>1, CoveredBy
      <3> QED BY <3>1, <3>2, StepCovers
    <2> QED BY <2>1, <2>2
  <1> QED BY <1>1, <1>2, <1>3, <1>4, <1>5, <1>6 DEF CallStep

\* Committing a search gives the pool back what it used.
LEMMA CommitCovers ==
    ASSUME Inv, Hands, NEW t \in Threads, Commit(t)
    PROVE  \A w \in Pooled : \E v \in Pooled' : Tier[v] >= Tier[w]
  <1> USE DEF Go, Carry
  <1>0. /\ pc \in [Threads -> Points] /\ route \in [Threads -> Routes]
        /\ ws \in [Threads -> Workspaces \cup {NoWs}]
    BY DEF Inv, TypeOK
  <1>1. UNCHANGED <<lane, fallback>> BY DEF Commit
  <1>2. Counts(t) => route[t] = "pool"
    BY <1>0 DEF Commit, Counts, Hands, HandsOf, Routes
  <1>3. Counts(t) => ws'[t] = ws[t] /\ Counts(t)'
    BY <1>0, <1>2 DEF Commit, Counts
  <1> QED BY <1>1, <1>3, StillCovers DEF EndStep

\* Neither does the end of a checkout, unless it is abandoned.
LEMMA EndCovers ==
    ASSUME Inv, Hands, NEW t \in Threads, EndStep(t), ~Abandon(t)
    PROVE  \A w \in Pooled : \E v \in Pooled' : Tier[v] >= Tier[w]
  <1> USE DEF Go, Carry, shared
  <1>0. /\ pc \in [Threads -> Points] /\ route \in [Threads -> Routes]
        /\ ws \in [Threads -> Workspaces \cup {NoWs}]
        /\ ws[t] \in Workspaces \cup {NoWs}
        /\ lane \in Workspaces \cup {NoWs}
        /\ fallback \in Workspaces \cup {NoWs}
    BY DEF Inv, TypeOK
  <1>n. \A w, v \in Workspaces : /\ Tier[w] \in 0..2 /\ Tier[w] >= Tier[w]
                                 /\ ~Stronger(w, v) => Tier[v] >= Tier[w]
                                 /\ Stronger(w, v) => Tier[w] >= Tier[v]
    <2>1. \A w \in Workspaces : Tier[w] \in 0..2 BY CostNat
    <2> QED BY <2>1 DEF Stronger
  <1>1. CASE Commit(t)
    BY <1>1, CommitCovers
  <1>2. CASE Return(t)
    <2>1. UNCHANGED <<lane, fallback>> /\ ws'[t] = ws[t] /\ pc'[t] # "run"
      BY <1>0, <1>2 DEF Return
    <2> QED BY <2>1, StillCovers DEF Counts
  <1>3. CASE Swap(t)
    <2>0. ws[t] \in Workspaces /\ fallback' = fallback /\ pc'[t] # "run"
      BY <1>0, <1>3 DEF Swap, Inv, ExpectsHold
    <2>1. fallback # NoWs => Covered(fallback) BY <1>0, <1>n, <2>0, CoveredBy
    <2>2. CASE lane = NoWs \/ Stronger(ws[t], lane)
      <3>1. lane' = ws[t] /\ ws'[t] = lane BY <1>0, <1>3, <2>2 DEF Swap
      <3>2. Covered(ws[t]) BY <1>n, <2>0, <3>1, CoveredBy
      <3>3. lane # NoWs => Counts(t)' BY <2>0, <3>1 DEF Counts
      <3>4. lane # NoWs => Covered(lane) BY <1>0, <1>n, <3>1, <3>3, CoveredBy
      <3> QED BY <2>1, <3>2, <3>4, StepCovers
    <2>3. CASE ~(lane = NoWs \/ Stronger(ws[t], lane))
      <3>1. UNCHANGED <<lane, fallback>> /\ ws'[t] = ws[t]
        BY <1>3, <2>0, <2>3 DEF Swap
      <3> QED BY <2>0, <3>1, StillCovers DEF Counts
    <2> QED BY <2>2, <2>3
  <1>4. CASE Put(t)
    <2>1. ws[t] \in Workspaces /\ lane' = lane
          /\ fallback' = FallbackAfter(ws[t])
      BY <1>0, <1>4 DEF Put, Inv, ExpectsHold
    <2>2. /\ fallback' \in Workspaces /\ Tier[fallback'] >= Tier[ws[t]]
          /\ fallback # NoWs => Tier[fallback'] >= Tier[fallback]
      BY <1>0, <1>n, <2>1 DEF FallbackAfter
    <2>3. lane # NoWs => Covered(lane) BY <1>0, <1>n, <2>1, CoveredBy
    <2>4. Covered(ws[t]) /\ (fallback # NoWs => Covered(fallback))
      BY <1>0, <2>1, <2>2, CoveredBy
    <2> QED BY <2>3, <2>4, StepCovers
  <1>5. CASE OpenSession(t)
    <2> DEFINE new == [ws |-> IF route[t] = "owner" THEN lane ELSE ws[t],
                       route |-> route[t], owner |-> t]
    <2>0. new \in sessions' /\ pc[t] = "run" /\ fallback' = fallback
      BY <1>5 DEF OpenSession
    <2>n. new.ws = (IF route[t] = "owner" THEN lane ELSE ws[t])
          /\ new.route = route[t]
      OBVIOUS
    <2> HIDE DEF new
    <2>1. fallback # NoWs => Covered(fallback) BY <1>0, <1>n, <2>0, CoveredBy
    <2>2. CASE route[t] = "owner"
      <3>1. ~Counts(t) BY <2>0, <2>2 DEF Counts, Hands, HandsOf
      <3>2. lane # NoWs => lane \in Pooled'
        BY <2>0, <2>n, <2>2 DEF Pooled
      <3>3. lane # NoWs => Covered(lane) BY <1>0, <1>n, <3>2 DEF Covered
      <3> QED BY <2>1, <3>1, <3>3, StepCovers
    <2>3. CASE route[t] # "owner"
      <3>1. lane' = lane BY <1>5, <2>3 DEF OpenSession
      <3>2. lane # NoWs => Covered(lane) BY <1>0, <1>n, <3>1, CoveredBy
      <3>3. Counts(t) => ws[t] \in Pooled'
        BY <2>0, <2>n, <2>3 DEF Pooled, Counts
      <3>4. Counts(t) => Covered(ws[t]) BY <1>0, <1>n, <3>3 DEF Covered, Counts
      <3> QED BY <2>1, <3>2, <3>4, StepCovers
    <2> QED BY <2>2, <2>3
  <1>6. CASE Adopt(t)
    <2>1. UNCHANGED <<lane, fallback>> /\ ~Counts(t)
      BY <1>6 DEF Adopt, Counts, Hands, HandsOf
    <2> QED BY <2>1, StillCovers
  <1> QED BY <1>1, <1>2, <1>3, <1>4, <1>5, <1>6 DEF EndStep

\* Committing a session does: by way of the lane the workspace is back in
\* it, by way of the pool the committing thread carries it there, and
\* everything else stays where it was.
LEMMA SessionCovers ==
    ASSUME Inv, Hands, NEW t \in Threads, NEW s \in sessions,
           CommitSession(t, s)
    PROVE  \A w \in Pooled : \E v \in Pooled' : Tier[v] >= Tier[w]
  <1> SUFFICES ASSUME NEW w \in Pooled
               PROVE  Covered(w)
    BY DEF Covered
  <1>0. /\ pc \in [Threads -> Points] /\ sessions \subseteq Session
        /\ ws \in [Threads -> Workspaces \cup {NoWs}]
    BY DEF Inv, TypeOK
  <1>1. w \in Workspaces /\ w # NoWs /\ Tier[w] >= Tier[w]
    <2>1. w \in Workspaces /\ w # NoWs BY DEF Pooled, Inv, TypeOK, Session
    <2>2. Tier[w] \in 0..2 BY <2>1, CostNat
    <2> QED BY <2>1, <2>2
  <1>2. SUFFICES w \in Pooled'
    BY <1>1 DEF Covered
  <1>3. /\ pc[t] = "idle" /\ sessions' = sessions \ {s}
        /\ fallback' = fallback /\ route' = route
        /\ s.route = "owner" => lane' = s.ws
        /\ s.route # "owner" => lane' = lane
        /\ s.route = "pool" => ws'[t] = s.ws /\ pc'[t] = "return"
        /\ \A u \in Threads \ {t} : ws'[u] = ws[u] /\ pc'[u] = pc[u]
    BY <1>0 DEF CommitSession, GiveBack, Go, Carry
  <1>4. ws[t] = NoWs
    BY <1>3 DEF Hands, HandsOf
  <1>5. CASE w = lane
    <2>1. s.route # "owner"
      BY <1>1, <1>5 DEF Inv, ExpectsHold, OwnerSessions
    <2> QED BY <1>1, <1>3, <1>5, <2>1 DEF Pooled
  <1>6. CASE w = fallback
    BY <1>1, <1>3, <1>6 DEF Pooled
  <1>7. ASSUME NEW u \in Threads, w = ws[u],
               ~(pc[u] = "run" /\ route[u] = "none")
        PROVE  w \in Pooled'
    <2>1. u # t BY <1>1, <1>4, <1>7
    <2> QED BY <1>1, <1>3, <1>7, <2>1 DEF Pooled
  <1>8. ASSUME NEW r \in sessions, w = r.ws, r.route # "none"
        PROVE  w \in Pooled'
    <2>1. CASE r # s BY <1>1, <1>3, <1>8, <2>1 DEF Pooled
    <2>2. CASE r = s /\ s.route = "owner"
      BY <1>1, <1>3, <1>8, <2>2 DEF Pooled
    <2>3. CASE r = s /\ s.route = "pool"
      BY <1>1, <1>3, <1>8, <2>3 DEF Pooled
    <2>4. s.route \in Routes BY <1>0 DEF Session
    <2> QED BY <1>8, <2>1, <2>2, <2>3, <2>4 DEF Routes
  <1> QED BY <1>5, <1>6, <1>7, <1>8 DEF Pooled

\* For any number of threads and sessions, whenever successful traffic drops
\* a workspace - an intermediate candidate, what return_workspace finds
\* weaker - one at least as strong stays in the pool; a search or session
\* that commits never loses the workspace it used.
THEOREM PoolNeverDowngraded == Spec => NeverDowngraded
  <1>1. Inv /\ Hands /\ [Next]_vars =>
          [\/ \A w \in Pooled : \E v \in Pooled' : Tier[v] >= Tier[w]
           \/ Discards /\ ~Succeeds]_vars
    <2> SUFFICES ASSUME Inv, Hands, Next
                 PROVE  \/ \A w \in Pooled : \E v \in Pooled' :
                             Tier[v] >= Tier[w]
                        \/ Discards /\ ~Succeeds
      OBVIOUS
    <2>1. CASE Succeeds
      BY <2>1, CommitCovers, SessionCovers DEF Succeeds
    <2>2. CASE ~Succeeds
      <3>1. CASE \E t \in Threads : CallStep(t) \/ EndStep(t)
        BY <2>2, <3>1, CallCovers, EndCovers DEF Discards
      <3>2. CASE \/ \E t \in Threads, s \in sessions : SessionStep(t, s)
                 \/ \E s \in sessions : DropSession(s)
        BY <2>2, <3>2 DEF SessionStep, Succeeds, Discards
      <3> QED BY <3>1, <3>2 DEF Next
    <2> QED BY <2>1, <2>2
  <1> QED BY <1>1, PoolInvariance, AdmittedInvariance, PTL DEF Spec,
      NeverDowngraded

-----------------------------------------------------------------------------
(* The lane is used as the atomic try-lock of OwnerLock.                   *)

\* Whom the lane is held for: the thread that keeps it, the thread that a
\* session was opened by, the thread inside a call, or nobody.
LaneForIs ==
    /\ owner \in Threads => LaneFor = owner
    /\ owner = Unowned => LaneFor = Unowned
    /\ \A t \in Threads : Holds(t) => LaneFor = t
    /\ \A s \in OwnerSessions : LaneFor = s.owner

\* LaneFor is never a matter of choice.
LEMMA LaneForKnown == Inv => LaneForIs
  <1> SUFFICES ASSUME Inv PROVE LaneForIs
    OBVIOUS
  <1>1. owner \in Threads => LaneFor = owner BY DEF LaneFor
  <1>2. owner = Unowned => LaneFor = Unowned
    BY PoolAssumption DEF LaneFor, Inv, LaneExclusive
  <1>3. ASSUME NEW t \in Threads, Holds(t) PROVE LaneFor = t
    <2>1. owner = InUse /\ OwnerSessions = {} /\ \A u \in Threads : Holds(u) =>
          u = t
      BY <1>3 DEF Inv, LaneExclusive
    <2>2. LaneFor = CHOOSE u \in Threads : Holds(u)
      BY <1>3, <2>1, PoolAssumption DEF LaneFor
    <2>3. (CHOOSE u \in Threads : Holds(u)) \in Threads
          /\ Holds(CHOOSE u \in Threads : Holds(u))
      BY <1>3
    <2> QED BY <2>1, <2>2, <2>3
  <1>4. ASSUME NEW s \in OwnerSessions PROVE LaneFor = s.owner
    <2>1. owner = InUse /\ OwnerSessions # {} /\ \A r \in OwnerSessions : r = s
      BY <1>4 DEF Inv, LaneExclusive
    <2>2. LaneFor = (CHOOSE r \in OwnerSessions : TRUE).owner
      BY <2>1, PoolAssumption DEF LaneFor
    <2>3. (CHOOSE r \in OwnerSessions : TRUE) = s BY <2>1
    <2> QED BY <2>2, <2>3
  <1> QED BY <1>1, <1>2, <1>3, <1>4 DEF LaneForIs

\* What a step of the pool may be to the lane.
LockStep == Lane!Next \/ UNCHANGED Lane!lockVars

\* The lane stays with whom it was: its contents change only in use.
LEMMA LockStutter ==
    ASSUME Inv, Inv', LaneForIs, LaneForIs', owner' = owner,
           owner = InUse \/ lane' = lane,
           owner = InUse => LaneFor' = LaneFor
    PROVE  LockStep
  <1>1. LaneFor' = LaneFor
    BY DEF LaneForIs, Inv, TypeOK
  <1>2. CASE owner = InUse
    <2>1. Lane!Fill
      BY <1>1, <1>2, PoolAssumption DEF Lane!Fill
    <2> QED BY <2>1 DEF LockStep, Lane!Next
  <1>3. CASE owner # InUse
    <2>1. UNCHANGED Lane!lockVars BY <1>1, <1>3 DEF Lane!lockVars
    <2> QED BY <2>1 DEF LockStep
  <1> QED BY <1>2, <1>3

\* The same for who holds the guard before and after.
LEMMA LockHolderStays ==
    ASSUME Inv, Inv', LaneForIs, LaneForIs', owner' = owner,
           NEW t \in Threads, Holds(t), Holds(t)'
    PROVE  LockStep
  <1>1. owner = InUse BY DEF Inv, LaneExclusive
  <1>2. LaneFor' = LaneFor BY DEF LaneForIs
  <1> QED BY <1>1, <1>2, LockStutter

\* And for a step of a thread that has nothing to do with the guard.
LEMMA LockOthers ==
    ASSUME Inv, Inv', LaneForIs, LaneForIs', owner' = owner, lane' = lane,
           NEW t \in Threads, ~Holds(t),
               OwnerSessions \subseteq OwnerSessions',
           \A u \in Threads : u # t => (Holds(u)' <=> Holds(u))
    PROVE  LockStep
  <1>1. ASSUME owner = InUse PROVE LaneFor' = LaneFor
    <2>1. CASE OwnerSessions # {}
      <3>1. PICK s \in OwnerSessions : TRUE BY <2>1
      <3> QED BY <3>1 DEF LaneForIs
    <2>2. CASE OwnerSessions = {}
      <3>1. PICK u \in Threads : Holds(u) BY <1>1, <2>2 DEF Inv, LaneExclusive
      <3> QED BY <3>1 DEF LaneForIs
    <2> QED BY <2>1, <2>2
  <1> QED BY <1>1, LockStutter

\* A successful try_checkout.
LEMMA LockAcquire ==
    ASSUME Inv, Inv', LaneForIs, LaneForIs', NEW t \in Threads, CanClaim(t),
           owner' = InUse, lane' = lane, Holds(t)'
    PROVE  LockStep
  <1>1. LaneFor' = t BY DEF LaneForIs
  <1>2. owner = Unowned \/ (owner = t /\ LaneFor = t)
    BY DEF CanClaim, LaneForIs
  <1>3. Lane!Acquire(t)
    BY <1>1, <1>2, PoolAssumption DEF Lane!Acquire
  <1> QED BY <1>3 DEF LockStep, Lane!Next

\* Given back with something in it, to the thread it is held for.
LEMMA LockKeep ==
    ASSUME Inv, Inv', LaneForIs, LaneForIs', owner = InUse,
           LaneFor \in Threads,
           owner' = LaneFor, lane' # NoWs
    PROVE  LockStep
  <1>1. LaneFor' = LaneFor BY DEF LaneForIs
  <1>2. Lane!Keep
    BY <1>1, PoolAssumption DEF Lane!Keep
  <1> QED BY <1>2 DEF LockStep, Lane!Next

\* Given up empty: the guard is dropped, or committed over nothing.
LEMMA LockRelease ==
    ASSUME Inv, Inv', LaneForIs, LaneForIs', owner = InUse, owner' = Unowned,
           lane' = NoWs
    PROVE  LockStep
  <1>1. LaneFor' = Unowned BY DEF LaneForIs
  <1>2. Lane!Release
    BY <1>1, PoolAssumption DEF Lane!Release
  <1> QED BY <1>2 DEF LockStep, Lane!Next

\* A call uses the lane as a lock.
LEMMA LockCall ==
    ASSUME Inv, Inv', LaneForIs, LaneForIs', published, NEW t \in Threads,
           CallStep(t)
    PROVE  LockStep
  <1> USE DEF Go, shared, RunOwner, RunOwned
  <1>0. /\ pc \in [Threads -> Points] /\ route \in [Threads -> Routes]
        /\ lane \in Workspaces \cup {NoWs}
    BY DEF Inv, TypeOK
  <1>f. /\ \A u \in Threads : u # t => (Holds(u)' <=> Holds(u))
    BY Frame DEF Holds
  <1>h. Holds(t) => LaneFor = t /\ owner = InUse
    BY DEF LaneForIs, Inv, LaneExclusive
  <1>1. CASE \/ Call(t) \/ Enter(t) \/ FallbackDecline(t) \/ FallbackRun(t)
             \/ FallbackEmpty(t) \/ ColdBuilt(t) \/ BuildFailed(t) \/ Build(t)
             \/ Publish(t)
    <2>1. owner' = owner /\ lane' = lane /\ sessions' = sessions /\ ~Holds(t)
      BY <1>1 DEF Call, Enter, FallbackDecline, FallbackRun, FallbackEmpty,
           ColdBuilt, BuildFailed, Build, Publish, Holds, GuardPoints
    <2> QED BY <2>1, <1>f, LockOthers DEF OwnerSessions
  <1>2. CASE Probe(t) \/ Claim(t) \/ Reserve(t)
    <2>1. lane' = lane /\ sessions' = sessions /\ ~Holds(t)
      BY <1>2 DEF Probe, Claim, Reserve, Holds, GuardPoints
    <2>2. CASE CanClaim(t)
      <3>1. owner' = InUse /\ Holds(t)'
        BY <1>0, <1>2, <2>2 DEF Probe, Claim, Reserve, Holds, GuardPoints
      <3> QED BY <2>1, <2>2, <3>1, LockAcquire
    <2>3. CASE ~CanClaim(t)
      <3>1. owner' = owner BY <1>2, <2>3 DEF Probe, Claim, Reserve
      <3> QED BY <2>1, <3>1, <1>f, LockOthers DEF OwnerSessions
    <2> QED BY <2>2, <2>3
  <1>3. CASE Warm(t)
    <2>1. Holds(t) /\ lane' = lane BY <1>3 DEF Warm, Holds, GuardPoints
    <2>2. CASE lane # NoWs /\ Fits(lane, req[t].limit)
          /\ Supports(lane, req[t])
      <3>1. owner' = owner /\ Holds(t)' BY <1>0, <1>3, <2>2 DEF Warm, Holds
      <3> QED BY <2>1, <3>1, LockHolderStays
    <2>3. CASE ~(lane # NoWs /\ Fits(lane, req[t].limit)
          /\ Supports(lane, req[t]))
      <3>1. owner' = Committed(t, lane) BY <1>3, <2>3 DEF Warm
      <3> QED BY <1>h, <2>1, <3>1, LockKeep, LockRelease DEF Committed
    <2> QED BY <2>2, <2>3
  <1>4. CASE \/ LaneFill(t) \/ LaneRun(t) \/ NoCandidate(t)
             \/ CandidateTooLarge(t)
             \/ CandidateKept(t) \/ PutBack(t) \/ PromoteDeclined(t)
             \/ ColdLaneBuilt(t)
    <2>1. owner' = owner /\ Holds(t) /\ Holds(t)'
      BY <1>0, <1>4 DEF LaneFill, LaneRun, NoCandidate, CandidateTooLarge,
          CandidateKept,
           LaneWeak, LaneFits, PutBack, PromoteDeclined, ColdLaneBuilt, Holds,
               GuardPoints
    <2> QED BY <2>1, LockHolderStays
  <1>5. CASE LaneDecline(t) \/ CandidateRuns(t) \/ PromoteBuilt(t)
    <2>1. owner' = t /\ Holds(t) /\ lane' = lane /\ lane # NoWs
      BY <1>5 DEF LaneDecline, CandidateRuns, LaneWeak, LaneFits, PromoteBuilt,
           Holds, GuardPoints, Inv, ExpectsHold
    <2> QED BY <1>h, <2>1, LockKeep
  <1>6. CASE PromoteFailed(t) \/ ColdLaneFailed(t)
    <2>1. owner' = Unowned /\ lane' = NoWs /\ Holds(t)
      BY <1>6 DEF PromoteFailed, ColdLaneFailed, DropGuard, Holds, GuardPoints
    <2> QED BY <1>h, <2>1, LockRelease
  <1> QED BY <1>1, <1>2, <1>3, <1>4, <1>5, <1>6 DEF CallStep

\* So does the end of a checkout; a session takes the guard along.
LEMMA LockEnd ==
    ASSUME Inv, Inv', LaneForIs, LaneForIs', published, NEW t \in Threads,
           EndStep(t)
    PROVE  LockStep
  <1> USE DEF Go, shared
  <1>0. /\ pc \in [Threads -> Points] /\ route \in [Threads -> Routes]
        /\ lane \in Workspaces \cup {NoWs}
    BY DEF Inv, TypeOK
  <1>f. /\ \A u \in Threads : u # t => (Holds(u)' <=> Holds(u))
    BY Frame DEF Holds
  <1>h. Holds(t) => LaneFor = t /\ owner = InUse
    BY DEF LaneForIs, Inv, LaneExclusive
  <1>1. CASE Commit(t)
    <2>1. lane' = lane /\ sessions' = sessions /\ pc[t] = "run"
      BY <1>1 DEF Commit
    <2>2. CASE route[t] = "owner"
      <3>1. owner' = Committed(t, lane) /\ Holds(t)
        BY <1>1, <2>2 DEF Commit, Holds
      <3> QED BY <1>h, <2>1, <3>1, LockKeep, LockRelease DEF Committed
    <2>3. CASE route[t] # "owner"
      <3>1. owner' = owner /\ ~Holds(t)
        BY <1>1, <2>1, <2>3 DEF Commit, Holds, GuardPoints
      <3> QED BY <1>f, <2>1, <3>1, LockOthers DEF OwnerSessions
    <2> QED BY <2>2, <2>3
  <1>2. CASE Abandon(t)
    <2>1. sessions' = sessions /\ pc[t] = "run" BY <1>2 DEF Abandon
    <2>2. CASE route[t] = "owner"
      <3>1. owner' = Unowned /\ lane' = NoWs /\ Holds(t)
        BY <1>2, <2>2 DEF Abandon, Holds, DropGuard
      <3> QED BY <1>h, <3>1, LockRelease
    <2>3. CASE route[t] # "owner"
      <3>1. owner' = owner /\ lane' = lane /\ ~Holds(t)
        BY <1>2, <2>1, <2>3 DEF Abandon, Holds, GuardPoints
      <3> QED BY <1>f, <2>1, <3>1, LockOthers DEF OwnerSessions
    <2> QED BY <2>2, <2>3
  <1>3. CASE Return(t)
    <2>1. lane' = lane /\ sessions' = sessions /\ ~Holds(t)
      BY <1>3 DEF Return, Holds, GuardPoints
    <2>2. CASE CanClaim(t)
      <3>1. owner' = InUse /\ Holds(t)'
        BY <1>0, <1>3, <2>2 DEF Return, Holds, GuardPoints
      <3> QED BY <2>1, <2>2, <3>1, LockAcquire
    <2>3. CASE ~CanClaim(t)
      <3>1. owner' = owner BY <1>3, <2>3 DEF Return
      <3> QED BY <2>1, <3>1, <1>f, LockOthers DEF OwnerSessions
    <2> QED BY <2>2, <2>3
  <1>4. CASE Swap(t)
    <2>1. owner' = t /\ Holds(t) BY <1>4 DEF Swap, Holds, GuardPoints
    <2>2. lane' # NoWs BY <1>4 DEF Swap, Inv, ExpectsHold
    <2> QED BY <1>h, <2>1, <2>2, LockKeep
  <1>5. CASE Put(t) \/ Adopt(t)
    <2>1. owner' = owner /\ lane' = lane /\ sessions' = sessions /\ ~Holds(t)
      BY <1>5 DEF Put, Adopt, Holds, GuardPoints
    <2> QED BY <2>1, <1>f, LockOthers DEF OwnerSessions
  <1>6. CASE OpenSession(t)
    <2> DEFINE new == [ws |-> IF route[t] = "owner" THEN lane ELSE ws[t],
                       route |-> route[t], owner |-> t]
    <2>0. sessions' = sessions \cup {new} /\ pc[t] = "run" /\ owner' = owner
      BY <1>6 DEF OpenSession
    <2>n. new.route = route[t] /\ new.owner = t
      OBVIOUS
    <2> HIDE DEF new
    <2>1. CASE route[t] = "owner"
      <3>1. Holds(t) /\ new \in OwnerSessions'
        BY <2>0, <2>n, <2>1 DEF Holds, OwnerSessions
      <3>2. LaneFor' = t BY <2>n, <3>1 DEF LaneForIs
      <3> QED BY <1>h, <2>0, <3>1, <3>2, LockStutter
    <2>2. CASE route[t] # "owner"
      <3>1. lane' = lane /\ ~Holds(t)
        BY <1>6, <2>0, <2>2 DEF OpenSession, Holds, GuardPoints
      <3>2. OwnerSessions \subseteq OwnerSessions' BY <2>0 DEF OwnerSessions
      <3> QED BY <1>f, <2>0, <3>1, <3>2, LockOthers
    <2> QED BY <2>1, <2>2
  <1> QED BY <1>1, <1>2, <1>3, <1>4, <1>5, <1>6 DEF EndStep

\* A session gives the lane back to the thread that it was opened by,
\* whoever ends it, or leaves it free.
LEMMA LockSession ==
    ASSUME Inv, Inv', LaneForIs, LaneForIs', published, NEW s \in sessions,
           DropSession(s) \/ \E t \in Threads : SessionStep(t, s)
    PROVE  LockStep
  <1>0. s \in Session /\ s.owner \in Threads /\ sessions \subseteq Session
    BY DEF Inv, TypeOK, Session
  <1>1. CASE s.route = "owner"
    <2>1. s \in OwnerSessions BY <1>1 DEF OwnerSessions
    <2>2. owner = InUse /\ LaneFor = s.owner
      BY <2>1 DEF Inv, LaneExclusive, LaneForIs
    <2>3. CASE DropSession(s)
      BY <1>1, <2>2, <2>3, LockRelease DEF DropSession, DropGuard
    <2>4. ASSUME NEW t \in Threads, SessionStep(t, s) PROVE LockStep
      <3>1. owner' = s.owner /\ lane' # NoWs
        BY <1>0, <1>1, <2>4, PoolAssumption
           DEF SessionStep, CommitSession, RefreshSession, Fresh, GiveBack,
               Session
      <3> QED BY <1>0, <2>2, <3>1, LockKeep
    <2> QED BY <2>3, <2>4
  <1>2. CASE s.route # "owner"
    <2>1. owner' = owner /\ lane' = lane /\ OwnerSessions' = OwnerSessions
      BY <1>2 DEF DropSession, SessionStep, CommitSession, RefreshSession,
          GiveBack,
           OwnerSessions
    <2>2. \A u \in Threads : Holds(u)' <=> Holds(u)
      BY DEF DropSession, SessionStep, CommitSession, RefreshSession,
          GiveBack, Holds,
           GuardPoints, Go, Inv, TypeOK
    <2>3. ASSUME owner = InUse PROVE LaneFor' = LaneFor
      <3>1. CASE OwnerSessions # {}
        <4>1. PICK r \in OwnerSessions : TRUE BY <3>1
        <4> QED BY <2>1, <4>1 DEF LaneForIs
      <3>2. CASE OwnerSessions = {}
        <4>1. PICK u \in Threads : Holds(u)
          BY <2>3, <3>2 DEF Inv, LaneExclusive
        <4> QED BY <2>2, <4>1 DEF LaneForIs
      <3> QED BY <3>1, <3>2
    <2> QED BY <2>1, <2>3, LockStutter
  <1> QED BY <1>1, <1>2

\* For any number of threads and travelling sessions, every step of the
\* published pool is a step of the atomic try-lock OwnerLock, or leaves it
\* alone: together with OwnerSlotProofs this justifies that the pool treats
\* try_checkout as one step.
THEOREM PoolLaneIsLock == Spec => LaneIsLock
  <1>1. Spec => []LaneForIs BY LaneForKnown, PoolInvariance, PTL
  <1>2. Inv /\ Inv' /\ LaneForIs /\ LaneForIs' /\ [Next]_vars =>
          [published => Lane!Next \/ UNCHANGED Lane!lockVars]_vars
    <2> SUFFICES ASSUME Inv, Inv', LaneForIs, LaneForIs', Next, published
                 PROVE LockStep
      BY DEF LockStep
    <2> QED BY LockCall, LockEnd, LockSession DEF Next
  <1> QED BY <1>1, <1>2, PoolInvariance, PTL DEF Spec, LaneIsLock
=============================================================================
