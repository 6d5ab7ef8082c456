------------------------- MODULE MCKernelPublication -------------------------
(***************************************************************************)
(* An instance of KernelPublication: a search image and a register image   *)
(* for one vector length, an aggregate for any, and one that the audit     *)
(* refuses.                                                                *)
(***************************************************************************)
EXTENDS KernelPublication, TLC

CONSTANTS t1, t2, s1, s2, search, register, aggregate, refused

MCAbi == search :> "search" @@ register :> "register" @@ aggregate :> "aggregate"
            @@ refused :> "search"
MCSound == {search, register, aggregate}
MCFixed == {search, register}
Symmetric == Permutations({t1, t2}) \cup Permutations({s1, s2})
==============================================================================
