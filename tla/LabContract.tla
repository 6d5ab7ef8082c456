----------------------------- MODULE LabContract -----------------------------
(***************************************************************************)
(* What the executors of IteratorLab rely on in the two compilers, stated  *)
(* of the programs that they produce: the assumptions under which the      *)
(* executors are proved correct.  They speak of code and haystacks only,   *)
(* never of an execution.                                                  *)
(***************************************************************************)
EXTENDS IteratorLab

CONSTANTS
    Scopes(_),        \* code: instruction -> the guards whose loop body it is in
    Values(_, _),     \* expression, haystack: boundary -> row of the product program
    Outcomes(_, _)    \* expression, haystack: configuration of the guarded program -> end

\* No cycle of the product program reads nothing: its order is complete.
ASSUME OrderAssumption ==
    \A e \in Expressions : Accepts(e) =>
        LET code == Compiles(FALSE, e).code IN Len(Orders(code)) = Len(code)

-----------------------------------------------------------------------------
(* The guarded program is built from nested loops: a save opens the scope  *)
(* of its guard, and the check that goes around the loop closes it.        *)

\* The code without the transitions that go around a loop.
Forward(code) ==
    [i \in DOMAIN code |->
        IF code[i].op = "check" THEN [op |-> "check", to |-> <<code[i].to[2]>>] ELSE code[i]]

Scoped(b, scope) ==
    /\ scope \in [DOMAIN b.code -> SUBSET (0..(b.guards - 1))]
    /\ scope[b.at] = {}
    /\ \A i \in DOMAIN b.code : LET inst == b.code[i] IN
        /\ inst.op \in {"save", "check"} => inst.arg \in 0..(b.guards - 1)
        /\ inst.op = "check" => inst.arg \in scope[i] /\ inst.arg \notin scope[inst.to[1]]
        /\ \A n \in DOMAIN inst.to :
            scope[inst.to[n]] \subseteq scope[i] \cup (IF inst.op = "save" THEN {inst.arg} ELSE {})

\* The order of the code without loops is complete, and the scopes nest.
ASSUME ScopeAssumption ==
    \A e \in Expressions : Accepts(e) =>
        LET b == Compiles(TRUE, e)
            forward == Forward(b.code)
        IN  /\ Scoped(b, Scopes(b.code))
            /\ Topological(forward, Orders(forward))
            /\ Len(Orders(forward)) = Len(forward)

-----------------------------------------------------------------------------
(* The meaning of a program: the values that its instructions determine.   *)

\* Each boundary's row follows from the row behind it.
Solves(code, h, rows) ==
    /\ rows \in [0..(Len(h) + 1) -> [DOMAIN code -> Nat]]
    /\ rows[Len(h) + 1] = [i \in DOMAIN code |-> 0]
    /\ \A p \in 0..Len(h), i \in DOMAIN code :
        rows[p][i] = Evaluate(code[i], rows[p], rows[p + 1], h, p)

\* The end that a configuration of the guarded program leads to follows from
\* that of its child, or of the next one when the first fails.
Decided(code, h, ends, c) ==
    LET inst == code[c[1]]
        one == Child(code, h, c, 1)
        two == Child(code, h, c, 2)
    IN  IF inst.op = "match" THEN ends[c] = c[2]
        ELSE IF ~Passes(inst, h, c[2]) THEN ends[c] = Failure
        ELSE /\ one \in DOMAIN ends
             /\ IF inst.op = "split" /\ ends[one] = Failure
                THEN two \in DOMAIN ends /\ ends[c] = ends[two]
                ELSE ends[c] = ends[one]

RootAt(b, h, i) == <<b.at, i, Power(Radix(h), b.guards) - 1>>

\* The values solve both programs, and they are what the expression selects.
ASSUME MeaningAssumption ==
    \A e \in Expressions, h \in Haystacks : Accepts(e) =>
        LET product == Compiles(FALSE, e)
            guarded == Compiles(TRUE, e)
            rows == Values(e, h)
            ends == Outcomes(e, h)
            selection == Selects(e, h)
        IN  /\ Solves(product.code, h, rows)
            /\ \A c \in DOMAIN ends : Decided(guarded.code, h, ends, c)
            /\ \A i \in 0..Len(h) :
                /\ rows[i][product.at] = selection[i] + 1
                /\ RootAt(guarded, h, i) \in DOMAIN ends
                /\ ends[RootAt(guarded, h, i)] = selection[i]
==============================================================================
