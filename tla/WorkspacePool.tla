---------------------------- MODULE WorkspacePool ----------------------------
(***************************************************************************)
(* The workspace pool of an automaton: PooledWorkspacePool and the         *)
(* transactions over it in src/crates/fre-automata/src/plan.rs, with the   *)
(* sessions of k0.rs and contract.rs that keep a checkout open.            *)
(*                                                                         *)
(* An immutable automaton is searched by many threads.  It retains up to   *)
(* two scratch workspaces: one in the lane of a thread-owner slot          *)
(* (OwnerSlot), one behind a mutex for everybody else.  A workspace has a  *)
(* capability tier fixed at construction, and a cost; a request names the  *)
(* tier it wants and the envelope it may spend.  A workspace is used       *)
(* outside every lock and comes back only after a successful search.       *)
(*                                                                         *)
(* The lane is used through the contract of OwnerLock: try_checkout is one *)
(* step.  A mutex section is one step, and so is a OnceLock access.  What  *)
(* a thread does in between without touching shared state is part of the   *)
(* step before it.                                                         *)
(***************************************************************************)
EXTENDS Integers, FiniteSets

CONSTANTS
    Threads,          \* the threads that search the automaton
    Workspaces,       \* the workspaces that may exist at once (a bound)
    NoWs,             \* Option::None
    Tier,             \* Workspaces -> Tiers: selected_capability_rank
    Tiers,            \* the tiers the automaton's shape admits
    TierCost,         \* Tiers -> Nat: what a workspace of a tier admits
    PublicationWork,  \* POOLED_WORKSPACE_OWNER_PUBLICATION_WORK
    Requests,         \* [want: tier, limit: envelope, allow: new work]
    Unowned, InUse,   \* the reserved words of the lane's slot
    MaxSessions       \* the sessions open at once (a bound)

ASSUME PoolAssumption ==
    /\ Unowned \notin Threads
    /\ InUse \notin Threads
    /\ Unowned # InUse
    /\ NoWs \notin Workspaces
    /\ Tiers \subseteq 0..2
    /\ 0 \in Tiers
    /\ Tier \in [Workspaces -> Tiers]
    /\ TierCost \in [Tiers -> Nat]
    /\ PublicationWork \in Nat
    /\ MaxSessions \in Nat
    /\ Requests \subseteq [want : 0..2, limit : Nat, allow : Nat]

VARIABLES
    published,  \* Automaton::pooled_workspace is set
    owner,      \* the word of the lane's slot
    lane,       \* the workspace in the lane, or NoWs
    fallback,   \* the workspace behind the mutex, or NoWs
    pc,         \* per thread: where its call is
    req,        \* per thread: the request being served
    ws,         \* per thread: the workspace it carries by value, or NoWs
    route,      \* per thread: how the running checkout returns:
                \* "owner" (in the lane), "pool", or "none" (uncached)
    sessions    \* the open sessions: workspace, route, captured owner

vars == <<published, owner, lane, fallback, pc, req, ws, route, sessions>>
shared == <<published, owner, lane, fallback, sessions>>

Routes == {"owner", "pool", "none"}
Session == [ws : Workspaces, route : Routes, owner : Threads]

\* Program points at which a thread has a guard of the lane in hand.
GuardPoints == {"warm", "lane", "putback", "promote", "coldlane", "swap"}
Points ==
    GuardPoints \cup
    {"idle", "probe", "enter", "claim", "fallback", "cold", "build", "set",
     "reserve", "run", "return", "put"}

TypeOK ==
    /\ published \in BOOLEAN
    /\ owner \in Threads \cup {Unowned, InUse}
    /\ lane \in Workspaces \cup {NoWs}
    /\ fallback \in Workspaces \cup {NoWs}
    /\ pc \in [Threads -> Points]
    /\ req \in [Threads -> Requests]
    /\ ws \in [Threads -> Workspaces \cup {NoWs}]
    /\ route \in [Threads -> Routes]
    /\ sessions \subseteq Session

-----------------------------------------------------------------------------
(* Envelopes and tiers.  One number stands for the pair of setup work and  *)
(* scratch bytes, both of which the code compares in the same way.         *)

Cost(w) == TierCost[Tier[w]]

Lesser(a, b) == IF a <= b THEN a ELSE b

\* pooled_workspace_fits.
Fits(w, limit) == Cost(w) <= limit

\* selected_layout_with_policy: the strongest tier wanted that is admitted;
\* the Pike tier when none is.
Selected(want, limit) ==
    LET admitted == {r \in Tiers : r <= want /\ TierCost[r] <= limit}
    IN  IF admitted = {} THEN 0
        ELSE CHOOSE r \in admitted : \A s \in admitted : s <= r

\* supports_selected_capabilities.
Supports(w, q) == Tier[w] >= Selected(q.want, q.limit)

\* pooled_workspace_mandatory_layout_fits.
MandatoryFits(limit) == TierCost[0] <= limit

\* pooled_new_workspace_limits: only new construction owes its work.
ColdLimit(q) == Lesser(q.limit, q.allow)

\* Bug: the replacement is admitted as if the lane were empty.
ResidualIgnored(q, incumbent) == q.limit

\* pooled_workspace_residual_limits, as it limits a replacement.
ResidualLimit(q, incumbent) == q.limit - Cost(incumbent)

Stronger(v, w) == Tier[v] > Tier[w]

\* Workspaces that exist nowhere, among which a constructor allocates.
Live ==
    ({lane, fallback} \cup {ws[t] : t \in Threads} \cup {s.ws : s \in sessions})
        \ {NoWs}

Fresh(tier) == {w \in Workspaces \ Live : Tier[w] = tier}

-----------------------------------------------------------------------------
(* The lane.                                                               *)

\* try_checkout succeeds for the thread it is kept for, and for anybody
\* when nobody has it.
CanClaim(t) == owner \in {t, Unowned}

\* ThreadOwnerGuard::commit of a guard captured for t, over contents w.
Committed(t, w) == IF w = NoWs THEN Unowned ELSE t

Go(t, p) == pc' = [pc EXCEPT ![t] = p]

Carry(t, w) == ws' = [ws EXCEPT ![t] = w]

\* The call of t returns a checkout of the lane itself.
RunOwner(t) ==
    /\ Go(t, "run")
    /\ Carry(t, NoWs)
    /\ route' = [route EXCEPT ![t] = "owner"]

\* The call returns workspace w by value, to be returned by way of r.
RunOwned(t, w, r) ==
    /\ Go(t, "run")
    /\ Carry(t, w)
    /\ route' = [route EXCEPT ![t] = r]

\* The guard is dropped uncommitted: its contents are discarded.
DropGuard ==
    /\ owner' = Unowned
    /\ lane' = NoWs

-----------------------------------------------------------------------------
(* A call.                                                                 *)

Init ==
    /\ published = FALSE
    /\ owner = Unowned
    /\ lane = NoWs
    /\ fallback = NoWs
    /\ pc = [t \in Threads |-> "idle"]
    /\ req \in {[t \in Threads |-> q] : q \in Requests}
    /\ ws = [t \in Threads |-> NoWs]
    /\ route = [t \in Threads |-> "none"]
    /\ sessions = {}

\* A search starts, by way of the warm lane or directly by the checkout.
Call(t) ==
    /\ pc[t] = "idle"
    /\ \E p \in {"probe", "enter"} : Go(t, p)
    /\ \E q \in Requests : req' = [req EXCEPT ![t] = q]
    /\ UNCHANGED <<shared, ws, route>>

\* try_with_warm_owner_workspace: the lane is claimed, if there is one.
Probe(t) ==
    /\ pc[t] = "probe"
    /\ IF published /\ CanClaim(t)
       THEN owner' = InUse /\ Go(t, "warm")
       ELSE owner' = owner /\ Go(t, "enter")
    /\ UNCHANGED <<published, lane, fallback, req, ws, route, sessions>>

\* The retained workspace is used in place when it is good enough; the
\* guard is committed untouched when it is not.
Warm(t) ==
    /\ pc[t] = "warm"
    /\ IF lane # NoWs /\ Fits(lane, req[t].limit) /\ Supports(lane, req[t])
       THEN owner' = owner /\ RunOwner(t)
       ELSE owner' = Committed(t, lane) /\ Go(t, "enter") /\ UNCHANGED <<ws, route>>
    /\ UNCHANGED <<published, lane, fallback, req, sessions>>

\* try_checkout_pooled_workspace_with: OnceLock::get.
Enter(t) ==
    /\ pc[t] = "enter"
    /\ Go(t, IF published THEN "claim" ELSE "build")
    /\ UNCHANGED <<shared, req, ws, route>>

Claim(t) ==
    /\ pc[t] = "claim"
    /\ IF CanClaim(t)
       THEN owner' = InUse /\ Go(t, "lane")
       ELSE owner' = owner /\ Go(t, "fallback")
    /\ UNCHANGED <<published, lane, fallback, req, ws, route, sessions>>

-----------------------------------------------------------------------------
(* With the lane's guard in hand.                                          *)

\* An empty lane takes over what the fallback retains, if anything.
LaneFill(t) ==
    /\ pc[t] = "lane"
    /\ lane = NoWs
    /\ lane' = fallback
    /\ fallback' = NoWs
    /\ Go(t, IF fallback = NoWs THEN "coldlane" ELSE "lane")
    /\ UNCHANGED <<published, owner, req, ws, route, sessions>>

LaneDecline(t) ==
    /\ pc[t] = "lane"
    /\ lane # NoWs
    /\ ~Fits(lane, req[t].limit)
    /\ owner' = t
    /\ Go(t, "idle")
    /\ UNCHANGED <<published, lane, fallback, req, ws, route, sessions>>

LaneFits(t) == pc[t] = "lane" /\ lane # NoWs /\ Fits(lane, req[t].limit)

LaneRun(t) ==
    /\ LaneFits(t)
    /\ Supports(lane, req[t])
    /\ RunOwner(t)
    /\ UNCHANGED <<shared, req>>

LaneWeak(t) == LaneFits(t) /\ ~Supports(lane, req[t])

\* The lane is too weak and the fallback has nothing to offer.
NoCandidate(t) ==
    /\ LaneWeak(t)
    /\ fallback = NoWs
    /\ Go(t, "promote")
    /\ UNCHANGED <<shared, req, ws, route>>

\* take_fallback finds a candidate, to be used beside the weaker lane.
CandidateFits(t) == Fits(fallback, ResidualLimit(req[t], lane))

CandidateTooLarge(t) ==
    /\ LaneWeak(t)
    /\ fallback # NoWs
    /\ ~CandidateFits(t)
    /\ Carry(t, fallback)
    /\ fallback' = NoWs
    /\ Go(t, "putback")
    /\ UNCHANGED <<published, owner, lane, req, route, sessions>>

\* The stronger candidate runs by value while the lane keeps the weaker.
CandidateRuns(t) ==
    /\ LaneWeak(t)
    /\ fallback # NoWs
    /\ CandidateFits(t)
    /\ Supports(fallback, req[t])
    /\ owner' = t
    /\ RunOwned(t, fallback, "pool")
    /\ fallback' = NoWs
    /\ UNCHANGED <<published, lane, req, sessions>>

\* Bug: the intermediate candidate is dropped, stronger or not.
CandidateLost(t) ==
    /\ LaneWeak(t)
    /\ fallback # NoWs
    /\ CandidateFits(t)
    /\ ~Supports(fallback, req[t])
    /\ fallback' = NoWs
    /\ Go(t, "promote")
    /\ UNCHANGED <<published, owner, lane, req, ws, route, sessions>>

\* An intermediate candidate replaces the lane if it is stronger, and is
\* dropped otherwise.
CandidateKept(t) ==
    /\ LaneWeak(t)
    /\ fallback # NoWs
    /\ CandidateFits(t)
    /\ ~Supports(fallback, req[t])
    /\ lane' = IF Stronger(fallback, lane) THEN fallback ELSE lane
    /\ fallback' = NoWs
    /\ Go(t, "promote")
    /\ UNCHANGED <<published, owner, req, ws, route, sessions>>

\* return_workspace behind the mutex: the fallback keeps the stronger.
FallbackAfter(w) ==
    IF fallback = NoWs \/ Stronger(w, fallback) THEN w ELSE fallback

\* The oversized candidate goes back; the weaker lane serves the call.
PutBack(t) ==
    /\ pc[t] = "putback"
    /\ fallback' = FallbackAfter(ws[t])
    /\ RunOwner(t)
    /\ UNCHANGED <<published, owner, lane, req, sessions>>

\* try_new_pooled_promotion_with: the tier a replacement would have beside
\* the incumbent, against the tier the whole envelope selects.
RequiredTier(t) == Selected(req[t].want, req[t].limit)

ReplacementTier(t) ==
    Selected(req[t].want, Lesser(ResidualLimit(req[t], lane), req[t].allow))

PromoteDeclined(t) ==
    /\ pc[t] = "promote"
    /\ ReplacementTier(t) < RequiredTier(t)
    /\ RunOwner(t)
    /\ UNCHANGED <<shared, req>>

\* The replacement runs by value while the lane keeps the incumbent.
PromoteBuilt(t) ==
    /\ pc[t] = "promote"
    /\ ReplacementTier(t) = RequiredTier(t)
    /\ \E w \in Fresh(RequiredTier(t)) : RunOwned(t, w, "pool")
    /\ owner' = t
    /\ UNCHANGED <<published, lane, fallback, req, sessions>>

\* The constructor cannot allocate: the error propagates with the guard
\* still uncommitted.
PromoteFailed(t) ==
    /\ pc[t] = "promote"
    /\ ReplacementTier(t) >= RequiredTier(t)
    /\ DropGuard
    /\ Go(t, "idle")
    /\ UNCHANGED <<published, fallback, req, ws, route, sessions>>

\* Nothing is retained: the lane is filled with a new workspace.
ColdLaneBuilt(t) ==
    /\ pc[t] = "coldlane"
    /\ MandatoryFits(ColdLimit(req[t]))
    /\ \E w \in Fresh(Selected(req[t].want, ColdLimit(req[t]))) : lane' = w
    /\ RunOwner(t)
    /\ UNCHANGED <<published, owner, fallback, req, sessions>>

\* The envelope is too small, or the constructor cannot allocate.
ColdLaneFailed(t) ==
    /\ pc[t] = "coldlane"
    /\ DropGuard
    /\ Go(t, "idle")
    /\ UNCHANGED <<published, fallback, req, ws, route, sessions>>

-----------------------------------------------------------------------------
(* Without the lane.                                                       *)

FallbackDecline(t) ==
    /\ pc[t] = "fallback"
    /\ fallback # NoWs
    /\ ~Fits(fallback, req[t].limit)
    /\ Carry(t, fallback)
    /\ fallback' = NoWs
    /\ Go(t, "return")
    /\ UNCHANGED <<published, owner, lane, req, route, sessions>>

\* A fitting fallback serves the call, strong enough or not.
FallbackRun(t) ==
    /\ pc[t] = "fallback"
    /\ fallback # NoWs
    /\ Fits(fallback, req[t].limit)
    /\ RunOwned(t, fallback, "pool")
    /\ fallback' = NoWs
    /\ UNCHANGED <<published, owner, lane, req, sessions>>

FallbackEmpty(t) ==
    /\ pc[t] = "fallback"
    /\ fallback = NoWs
    /\ Go(t, "cold")
    /\ UNCHANGED <<shared, req, ws, route>>

ColdBuilt(t) ==
    /\ pc[t] = "cold"
    /\ MandatoryFits(ColdLimit(req[t]))
    /\ \E w \in Fresh(Selected(req[t].want, ColdLimit(req[t]))) :
          RunOwned(t, w, "pool")
    /\ UNCHANGED <<shared, req>>

\* Declined, or the constructor failed: the call ends with nothing.
BuildFailed(t) ==
    /\ pc[t] \in {"cold", "build"}
    /\ Go(t, "idle")
    /\ UNCHANGED <<shared, req, ws, route>>

-----------------------------------------------------------------------------
(* Publication.                                                            *)

\* The first workspace is built, and a box for the pool allocated or not;
\* without one the workspace serves this call uncached.
Build(t) ==
    /\ pc[t] = "build"
    /\ req[t].allow >= PublicationWork
    /\ LET limit == Lesser(req[t].limit, req[t].allow - PublicationWork)
       IN  /\ MandatoryFits(limit)
           /\ \E w \in Fresh(Selected(req[t].want, limit)) :
                 \/ RunOwned(t, w, "none")
                 \/ Go(t, "set") /\ Carry(t, w) /\ UNCHANGED route
    /\ UNCHANGED <<shared, req>>

\* Bug: the pool is published with its lane unowned.
PublishUnowned(t) ==
    /\ pc[t] = "set"
    /\ IF published
       THEN RunOwned(t, ws[t], "pool") /\ UNCHANGED <<published, owner, lane>>
       ELSE /\ published' = TRUE
            /\ owner' = Unowned
            /\ lane' = ws[t]
            /\ Carry(t, NoWs)
            /\ Go(t, "reserve")
            /\ UNCHANGED route
    /\ UNCHANGED <<fallback, req, sessions>>

\* OnceLock::set: the winner's pool appears with its lane kept for it; the
\* loser's workspace is returned to the winner's pool.
Publish(t) ==
    /\ pc[t] = "set"
    /\ IF published
       THEN RunOwned(t, ws[t], "pool") /\ UNCHANGED <<published, owner, lane>>
       ELSE /\ published' = TRUE
            /\ owner' = t
            /\ lane' = ws[t]
            /\ Carry(t, NoWs)
            /\ Go(t, "reserve")
            /\ UNCHANGED route
    /\ UNCHANGED <<fallback, req, sessions>>

\* The winner checks out the lane it published; .expect: it never fails.
Reserve(t) ==
    /\ pc[t] = "reserve"
    /\ CanClaim(t)
    /\ owner' = InUse
    /\ RunOwner(t)
    /\ UNCHANGED <<published, lane, fallback, req, sessions>>

-----------------------------------------------------------------------------
(* The end of a checkout.                                                  *)

\* The search succeeded: commit.  The uncached workspace is dropped.
Commit(t) ==
    /\ pc[t] = "run"
    /\ owner' = IF route[t] = "owner" THEN Committed(t, lane) ELSE owner
    /\ Go(t, IF route[t] = "pool" THEN "return" ELSE "idle")
    /\ Carry(t, IF route[t] = "pool" THEN ws[t] ELSE NoWs)
    /\ route' = [route EXCEPT ![t] = "none"]
    /\ UNCHANGED <<published, lane, fallback, req, sessions>>

\* The search failed or unwound: what it used is discarded.
Abandon(t) ==
    /\ pc[t] = "run"
    /\ IF route[t] = "owner" THEN DropGuard ELSE UNCHANGED <<owner, lane>>
    /\ Go(t, "idle")
    /\ Carry(t, NoWs)
    /\ route' = [route EXCEPT ![t] = "none"]
    /\ UNCHANGED <<published, fallback, req, sessions>>

\* return_workspace: the lane is claimed first.
Return(t) ==
    /\ pc[t] = "return"
    /\ IF CanClaim(t)
       THEN owner' = InUse /\ Go(t, "swap")
       ELSE owner' = owner /\ Go(t, "put")
    /\ UNCHANGED <<published, lane, fallback, req, ws, route, sessions>>

\* The lane keeps the stronger of the two; the other goes on.
Swap(t) ==
    /\ pc[t] = "swap"
    /\ IF lane = NoWs \/ Stronger(ws[t], lane)
       THEN lane' = ws[t] /\ Carry(t, lane)
       ELSE UNCHANGED <<lane, ws>>
    /\ owner' = t
    /\ Go(t, IF lane = NoWs THEN "idle" ELSE "put")
    /\ UNCHANGED <<published, fallback, req, route, sessions>>

Put(t) ==
    /\ pc[t] = "put"
    /\ fallback' = FallbackAfter(ws[t])
    /\ Carry(t, NoWs)
    /\ Go(t, "idle")
    /\ UNCHANGED <<published, owner, lane, req, route, sessions>>

-----------------------------------------------------------------------------
(* Sessions: K0SearchSession::from_pooled_workspace moves the workspace    *)
(* out and keeps the way back.  A session may be ended by any thread, and  *)
(* its thread may search again while it is open.                           *)

\* Bug: the guard ends when the workspace moves into the session.
OpenSessionReleased(t) ==
    /\ pc[t] = "run"
    /\ Cardinality(sessions) < MaxSessions
    /\ sessions' = sessions \cup
           {[ws |-> IF route[t] = "owner" THEN lane ELSE ws[t],
             route |-> route[t], owner |-> t]}
    /\ owner' = IF route[t] = "owner" THEN Unowned ELSE owner
    /\ lane' = IF route[t] = "owner" THEN NoWs ELSE lane
    /\ Carry(t, NoWs)
    /\ Go(t, "idle")
    /\ route' = [route EXCEPT ![t] = "none"]
    /\ UNCHANGED <<published, fallback, req>>

\* into_session_parts.
OpenSession(t) ==
    /\ pc[t] = "run"
    /\ Cardinality(sessions) < MaxSessions
    /\ sessions' = sessions \cup
           {[ws |-> IF route[t] = "owner" THEN lane ELSE ws[t],
             route |-> route[t], owner |-> t]}
    /\ lane' = IF route[t] = "owner" THEN NoWs ELSE lane
    /\ Carry(t, NoWs)
    /\ Go(t, "idle")
    /\ route' = [route EXCEPT ![t] = "none"]
    /\ UNCHANGED <<published, owner, fallback, req>>

\* Bug: the lane is handed to the thread that ends the session.
GiveBackHere(t, s, w) ==
    /\ pc[t] = "idle"
    /\ sessions' = sessions \ {s}
    /\ IF s.route = "owner" THEN lane' = w /\ owner' = t
                            ELSE UNCHANGED <<lane, owner>>
    /\ IF s.route = "pool" THEN Carry(t, w) /\ Go(t, "return")
                           ELSE UNCHANGED <<ws, pc>>
    /\ UNCHANGED <<published, fallback, req, route>>

\* Bug: the guard is committed without its workspace, which is dropped.
GiveBackNothing(t, s, w) ==
    /\ pc[t] = "idle"
    /\ sessions' = sessions \ {s}
    /\ IF s.route = "owner" THEN lane' = lane /\ owner' = Committed(s.owner, lane)
                            ELSE UNCHANGED <<lane, owner>>
    /\ IF s.route = "pool" THEN Carry(t, w) /\ Go(t, "return")
                           ELSE UNCHANGED <<ws, pc>>
    /\ UNCHANGED <<published, fallback, req, route>>

\* PooledWorkspaceReturn::commit of workspace w by the route of session s.
GiveBack(t, s, w) ==
    /\ pc[t] = "idle"
    /\ sessions' = sessions \ {s}
    /\ IF s.route = "owner" THEN lane' = w /\ owner' = s.owner
                            ELSE UNCHANGED <<lane, owner>>
    /\ IF s.route = "pool" THEN Carry(t, w) /\ Go(t, "return")
                           ELSE UNCHANGED <<ws, pc>>
    /\ UNCHANGED <<published, fallback, req, route>>

CommitSession(t, s) == GiveBack(t, s, s.ws)

\* refresh_pooled_search_session: a new workspace takes the way back.
RefreshSession(t, s) ==
    \E want \in Tiers : \E w \in Fresh(want) : GiveBack(t, s, w)

DropSession(s) ==
    /\ sessions' = sessions \ {s}
    /\ IF s.route = "owner" THEN DropGuard ELSE UNCHANGED <<owner, lane>>
    /\ UNCHANGED <<published, fallback, pc, req, ws, route>>

\* adopt_unleased_pooled_workspace: an explicit session, built outside the
\* pool, is returned to it.
Adopt(t) ==
    /\ pc[t] = "idle"
    /\ published
    /\ \E w \in Workspaces \ Live : Carry(t, w)
    /\ Go(t, "return")
    /\ UNCHANGED <<shared, req, route>>

-----------------------------------------------------------------------------
CallStep(t) ==
    \/ Call(t) \/ Probe(t) \/ Warm(t) \/ Enter(t) \/ Claim(t)
    \/ LaneFill(t) \/ LaneDecline(t) \/ LaneRun(t) \/ NoCandidate(t)
    \/ CandidateTooLarge(t) \/ CandidateRuns(t) \/ CandidateKept(t)
    \/ PutBack(t) \/ PromoteDeclined(t) \/ PromoteBuilt(t) \/ PromoteFailed(t)
    \/ ColdLaneBuilt(t) \/ ColdLaneFailed(t)
    \/ FallbackDecline(t) \/ FallbackRun(t) \/ FallbackEmpty(t)
    \/ ColdBuilt(t) \/ BuildFailed(t) \/ Build(t) \/ Publish(t) \/ Reserve(t)

EndStep(t) ==
    \/ Commit(t) \/ Abandon(t) \/ Return(t) \/ Swap(t) \/ Put(t)
    \/ OpenSession(t) \/ Adopt(t)

SessionStep(t, s) == CommitSession(t, s) \/ RefreshSession(t, s)

Next ==
    \/ \E t \in Threads : CallStep(t) \/ EndStep(t)
    \/ \E t \in Threads, s \in sessions : SessionStep(t, s)
    \/ \E s \in sessions : DropSession(s)

Spec == Init /\ [][Next]_vars

-----------------------------------------------------------------------------
(* Properties.                                                             *)

\* A thread holds the lane's guard inside a call, or while it searches in
\* the lane.
Holds(t) == pc[t] \in GuardPoints \/ (pc[t] = "run" /\ route[t] = "owner")

OwnerSessions == {s \in sessions : s.route = "owner"}

\* The lane's workspace is in at most one pair of hands, whether those of a
\* thread inside a call or of a session that has travelled; and the slot is
\* in use exactly while it is in somebody's.
LaneExclusive ==
    /\ \A t, u \in Threads : Holds(t) /\ Holds(u) => t = u
    /\ \A s, r \in OwnerSessions : s = r
    /\ \A t \in Threads, s \in OwnerSessions : ~Holds(t)
    /\ owner = InUse <=> (\E t \in Threads : Holds(t)) \/ OwnerSessions # {}

\* None of the .expect calls of the pool can panic: the publishing thread
\* still has its reservation, a checkout of the lane finds its workspace, a
\* promotion its incumbent, a session an empty lane to put its workspace
\* back into, and a checkout by value the workspace it carries.
ExpectsHold ==
    /\ \A t \in Threads :
         /\ pc[t] = "reserve" => owner = t
         /\ pc[t] = "run" /\ route[t] = "owner" => lane # NoWs
         /\ pc[t] = "run" /\ route[t] # "owner" => ws[t] # NoWs
         /\ pc[t] \in {"promote", "putback"} => lane # NoWs
         /\ pc[t] \in {"set", "return", "swap", "put", "putback"} => ws[t] # NoWs
    /\ OwnerSessions # {} => lane = NoWs
    /\ owner \in Threads => lane # NoWs

\* Whom the lane is held for, across calls and sessions.
LaneFor ==
    IF owner \in Threads THEN owner
    ELSE IF OwnerSessions # {} THEN (CHOOSE s \in OwnerSessions : TRUE).owner
    ELSE IF \E t \in Threads : Holds(t) THEN CHOOSE t \in Threads : Holds(t)
    ELSE Unowned

Lane ==
    INSTANCE OwnerLock WITH
        Nobody <- Unowned,
        phase <- IF owner = Unowned THEN "free"
                 ELSE IF owner = InUse THEN "held" ELSE "kept",
        for <- LaneFor,
        filled <- lane # NoWs

\* Once published, the lane is used as a thread-owner slot only can be:
\* every step of the pool is one of the atomic try-lock, or leaves it alone.
\* Together with OwnerSlot's ImplementsLock this is what lets the pool treat
\* try_checkout as one step.
LaneIsLock == [][published => Lane!Next \/ UNCHANGED Lane!lockVars]_vars

\* A search only ever runs on a workspace that its own envelope admits,
\* whichever of the paths it came by; and a replacement or a candidate that
\* runs beside the lane's weaker workspace fits beside it.
WithinEnvelope ==
    [][\A t \in Threads : pc[t] # "run" /\ pc'[t] = "run" =>
         /\ Fits(IF route'[t] = "owner" THEN lane' ELSE ws'[t], req[t].limit)
         /\ Holds(t) /\ route'[t] = "pool" =>
               Cost(lane') + Cost(ws'[t]) <= req[t].limit]_vars

\* The strongest tier among the workspaces that the pool retains or will
\* get back.
Pooled ==
    ({lane, fallback}
        \cup {ws[t] : t \in {u \in Threads : ~(pc[u] = "run" /\ route[u] = "none")}}
        \cup {s.ws : s \in {r \in sessions : r.route # "none"}}) \ {NoWs}

\* The steps that discard a workspace: a failed search, a failed promotion,
\* a session that is dropped or deliberately refreshed.
Discards ==
    \/ \E t \in Threads : Abandon(t) \/ PromoteFailed(t)
    \/ \E s \in sessions : DropSession(s) \/ \E t \in Threads : RefreshSession(t, s)

\* The steps by which a successful search or session gives its workspace back.
Succeeds ==
    \/ \E t \in Threads : Commit(t)
    \/ \E t \in Threads, s \in sessions : CommitSession(t, s)

\* Successful traffic never lowers the strongest capability in the pool:
\* whenever a workspace goes away, one at least as strong stays.  Only a
\* failed search, a failed promotion and a dropped or deliberately refreshed
\* session discard one; committing a search or a session never does, even
\* where it would leave the pool as dropping it does.
NeverDowngraded ==
    [][\/ \A w \in Pooled : \E v \in Pooled' : Tier[v] >= Tier[w]
       \/ Discards /\ ~Succeeds]_vars

\* "A failed promotion must never lower capability" (plan.rs:1762): a call
\* that fails to promote the lane leaves the lane at least as strong as it
\* was.
FailedPromotionKeepsLane ==
    [][\A t \in Threads : pc[t] = "promote" /\ pc'[t] = "idle" =>
         lane' # NoWs /\ Tier[lane'] >= Tier[lane]]_vars
=============================================================================
