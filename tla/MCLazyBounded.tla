---------------------------- MODULE MCLazyBounded ----------------------------
(***************************************************************************)
(* The instance of IteratorLab whose lazy repetition is not compiled to    *)
(* what its expression selects.                                            *)
(***************************************************************************)
EXTENDS IteratorLab, LabCompile

\* A lazy repetition with two optional iterations of unequal alternatives.
LazyExpressions ==
    {Concat(Repetition(Alt(Concat(Byte("a"), Byte("b")), Byte("a")), 0, 2, FALSE),
            Alt(Byte("c"), Byte("b")))}
LazyHaystacks == {<<"a", "b", "a", "c">>}

Slack == {-1, 0}
==============================================================================
