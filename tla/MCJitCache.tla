----------------------------- MODULE MCJitCache -----------------------------
(* Instances of JitCache for TLC.                                          *)
EXTENDS JitCacheRefinement, TLC

CONSTANTS t1, t2, t3, a, b, c, h1

\* Only b needs more code bytes than are left beside another kernel.
MCCost ==
    [i \in Identities |-> [r \in Resources |->
                             IF i = b /\ r = "code_bytes" THEN 2 ELSE 1]]

\* Room for two mappings, but not for the code of b and another one.
MCLimit == [r \in Resources |-> 2]

Symmetry == Permutations(Threads)
=============================================================================
