--------------------------- MODULE MCWorkspacePool ---------------------------
(* TLC instances of the workspace pool.                                    *)
EXTENDS WorkspacePool, TLC

CONSTANTS p1, e1, b1, b2

\* One Pike, one endpoint and two bidirectional workspaces.
MCWorkspaces == {p1, e1, b1, b2}
MCTier == [w \in MCWorkspaces |-> IF w = p1 THEN 0 ELSE IF w = e1 THEN 1 ELSE 2]
MCTierCost == [r \in 0..2 |-> <<1, 2, 4>>[r + 1]]

\* An endpoint and a bidirectional wish under an ample envelope; the latter
\* where there is no room for a replacement beside an endpoint workspace;
\* and where nothing beyond the Pike tier is admitted.
MCRequests ==
    {[want |-> 1, limit |-> 9, allow |-> 9], [want |-> 2, limit |-> 9, allow |-> 9],
     [want |-> 2, limit |-> 5, allow |-> 9], [want |-> 2, limit |-> 1, allow |-> 2]}

Symmetry == Permutations(Threads) \cup Permutations({b1, b2})
=============================================================================
