---------------------------- MODULE MatchSequence ----------------------------
(***************************************************************************)
(* What every executor of the iterator laboratory promises: the complete   *)
(* non-overlapping sequence of matches of one haystack, or a failure.      *)
(*                                                                         *)
(* A regular expression is what it selects: for each start the end of the  *)
(* match preferred there, or NoMatch.  The next match is the leftmost one  *)
(* that begins at or after the end of the previous match and is not an     *)
(* empty match at that very end.                                           *)
(***************************************************************************)
EXTENDS Integers, Sequences

VARIABLES
    len,        \* bytes of the haystack
    selected,   \* start -> end of the match selected there, or NoMatch
    matches,    \* the spans delivered so far
    last,       \* end of the last of them, or NoMatch
    status      \* "running", "done" or "failed"

vars == <<len, selected, matches, last, status>>

NoMatch == -1

Selections(n) ==
    {f \in [0..n -> NoMatch..n] : \A i \in 0..n : f[i] = NoMatch \/ f[i] >= i}

Init ==
    /\ len \in Nat
    /\ selected \in Selections(len)
    /\ matches = <<>>
    /\ last = NoMatch
    /\ status = "running"

\* A match may be delivered from s.
Eligible(s) ==
    /\ selected[s] # NoMatch
    /\ s >= last
    /\ ~(selected[s] = s /\ last = s)

Deliver ==
    /\ status = "running"
    /\ \E s \in 0..len :
        /\ Eligible(s)
        /\ \A t \in 0..len : t < s => ~Eligible(t)
        /\ matches' = Append(matches, [start |-> s, end |-> selected[s]])
        /\ last' = selected[s]
    /\ UNCHANGED <<len, selected, status>>

Complete ==
    /\ status = "running"
    /\ \A s \in 0..len : ~Eligible(s)
    /\ status' = "done"
    /\ UNCHANGED <<len, selected, matches, last>>

Fail ==
    /\ status = "running"
    /\ status' = "failed"
    /\ UNCHANGED <<len, selected, matches, last>>

Next == Deliver \/ Complete \/ Fail

Spec == Init /\ [][Next]_vars
==============================================================================
