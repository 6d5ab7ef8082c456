---------------------------- MODULE MCIteratorLab ----------------------------
(***************************************************************************)
(* Instances of IteratorLab.                                               *)
(***************************************************************************)
EXTENDS LabContract, LabCompile

Leaf == {Empty, Byte("a"), Byte("any"), Start, End}
Pair == {Alt(x, y) : x, y \in Leaf} \cup {Concat(x, y) : x, y \in {Byte("a"), Byte("any"), End}}

\* Stars over two alternatives or two parts, alone and before a byte.
Stars == {Star(p, g) : p \in Pair, g \in BOOLEAN}
Followed == {Concat(Star(Alt(x, y), g), Byte("b")) :
                x, y \in {Empty, Byte("a"), Byte("any")}, g \in BOOLEAN}

\* Nested repetitions, each greedy or lazy: in an alternative, one after the
\* other in a body that may consume nothing, and three deep.
Nested ==
    {Star(Alt(x, Star(y, g)), h) :
        x \in {Empty, Byte("b"), Start}, y \in {Byte("a"), Alt(Empty, Byte("a"))},
        g, h \in BOOLEAN}
    \cup {Star(Concat(Star(Byte("a"), g), Star(Alt(x, Byte("b")), h)), k) :
        x \in {Empty, End}, g, h, k \in BOOLEAN}
    \cup {Concat(Star(Star(Star(Alt(Empty, Byte("a")), g), h), k), x) :
        x \in {Byte("b"), End}, g, h, k \in BOOLEAN}

\* Bounded repetitions and lists of atoms.
Bounded == {Repetition(x, m[1], m[2], g) :
                x \in {Byte("a"), Alt(Empty, Byte("a")), Concat(Byte("a"), Byte("b"))},
                m \in {<<0, 1>>, <<1, 2>>, <<1, Unbounded>>}, g \in BOOLEAN}
           \cup {Repetition(Alt(Byte("a"), Byte("any")), 0, 3, TRUE)}
AtomLists == {Atoms(<<x, y>>, g) : x, y \in {Empty, Byte("a"), End}, g \in BOOLEAN}

\* Refused: no alternative, no atom, a maximum below the minimum, and one
\* expression too deep.
Refused == {[op |-> "alt", kids |-> <<>>], Atoms(<<>>, TRUE),
            Repetition(Byte("a"), 2, 1, TRUE), Repetition(Byte("a"), 4, Unbounded, TRUE),
            Star(Star(Star(Star(Star(Star(Empty, TRUE), TRUE), TRUE), TRUE), TRUE), TRUE)}

AllExpressions == Leaf \cup Stars \cup Followed \cup Nested \cup Bounded \cup AtomLists \cup Refused

AllHaystacks == UNION {[1..n -> {"a", "b"}] : n \in 0..3}

Slack == {-1, 0}

-----------------------------------------------------------------------------
(* Witnesses of the contract between the compilers and the executors.      *)

\* Whoever reaches a check of g without the save of g is in its scope.
RECURSIVE Inside(_, _, _)
Inside(code, g, found) ==
    LET more == {i \in DOMAIN code \ found :
                    /\ ~(code[i].op = "save" /\ code[i].arg = g)
                    /\ \E n \in DOMAIN code[i].to : code[i].to[n] \in found}
    IN  IF more = {} THEN found ELSE Inside(code, g, found \cup more)

LoopScopes(code) ==
    LET checks == {i \in DOMAIN code : code[i].op = "check"}
        guards == {code[i].arg : i \in checks}
        inside == [g \in guards |-> Inside(code, g, {i \in checks : code[i].arg = g})]
    IN  [i \in DOMAIN code |-> {g \in guards : i \in inside[g]}]

\* The rows of the product program, from the last boundary to the first.
RECURSIVE RowsFrom(_, _, _, _)
RowsFrom(code, order, h, p) ==
    LET zeros == [i \in DOMAIN code |-> 0]
        behind == RowsFrom(code, order, h, p + 1)
        this == FoldLeft(LAMBDA r, i : [r EXCEPT ![i] = Evaluate(code[i], r, behind[p + 1], h, p)],
                         zeros, order)
    IN  IF p > Len(h) THEN p :> zeros ELSE p :> this @@ behind

ProductValues(e, h) ==
    LET code == Compile(FALSE, e).code IN RowsFrom(code, EpsilonOrder(code), h, 0)

\* The ends of the guarded program's configurations: those known, and those
\* that c needs.
RECURSIVE Decides(_, _, _, _)
Decides(code, h, c, ends) ==
    LET inst == code[c[1]]
        one == Child(code, h, c, 1)
        two == Child(code, h, c, 2)
        first == Decides(code, h, one, ends)
        both == Decides(code, h, two, first)
    IN  IF c \in DOMAIN ends THEN ends
        ELSE IF inst.op = "match" THEN c :> c[2] @@ ends
        ELSE IF ~Passes(inst, h, c[2]) THEN c :> Failure @@ ends
        ELSE IF inst.op = "split" /\ first[one] = Failure THEN c :> both[two] @@ both
        ELSE c :> first[one] @@ first

GuardedOutcomes(e, h) ==
    LET b == Compile(TRUE, e)
    IN  FoldLeft(LAMBDA ends, i : Decides(b.code, h, RootAt(b, h, i - 1), ends),
                 <<>>, [i \in 1..(Len(h) + 1) |-> i])
==============================================================================
