--------------------------- MODULE CollectSequence ---------------------------
(***************************************************************************)
(* collect_sequence: the loop that the executors of the iterator           *)
(* laboratory share.  It probes one start after the other, suppresses an   *)
(* empty match at the end of the previous one, and collects the rest into  *)
(* a vector reserved before the first probe.                               *)
(*                                                                         *)
(* The cursor of the code only ever becomes the next start to probe, so    *)
(* start stands for both.  What a probe answers is the parameter of        *)
(* Answer: here the selection, in IteratorLab what an executor computed.   *)
(***************************************************************************)
EXTENDS Integers, Sequences

CONSTANTS
    MaxLen,             \* bound on the haystacks of a run
    MaxOutputMatches    \* limits.max_output_matches

ASSUME CollectAssumption == MaxLen \in Nat /\ MaxOutputMatches \in Nat

VARIABLES
    len, selected,      \* the haystack's length and what is selected in it
    start,              \* next start to probe
    previous_end,       \* end of the last match, or NoMatch
    matches,            \* the output vector
    probes,             \* Accounting::root_probes
    status              \* "running", "done" or "failed"

collect_vars == <<len, selected, start, previous_end, matches, probes, status>>

NoMatch == -1

CollectInit ==
    /\ len \in 0..MaxLen
    /\ selected \in [0..len -> NoMatch..len]
    /\ \A i \in 0..len : selected[i] = NoMatch \/ selected[i] >= i
    /\ start = 0
    /\ previous_end = NoMatch
    /\ matches = <<>>
    /\ probes = 0
    /\ status = "running"

Probing == status = "running" /\ start <= len

\* No match begins here.
Miss(end) ==
    /\ end = NoMatch
    /\ start' = start + 1
    /\ UNCHANGED <<previous_end, matches, status>>

\* An empty match that touches the previous match.
Repeats(end) == end = start /\ previous_end = start

\* Bug: the loop steps to the end of the suppressed match, which is its start.
SuppressInPlace(end) ==
    /\ end # NoMatch
    /\ Repeats(end)
    /\ start' = end
    /\ UNCHANGED <<previous_end, matches, status>>

Suppress(end) ==
    /\ end # NoMatch
    /\ Repeats(end)
    /\ start' = start + 1
    /\ UNCHANGED <<previous_end, matches, status>>

\* Bug: the search goes on behind the first byte of the match.
EmitOverlapping(end) ==
    /\ end # NoMatch
    /\ ~Repeats(end)
    /\ Len(matches) < MaxOutputMatches
    /\ matches' = Append(matches, [start |-> start, end |-> end])
    /\ previous_end' = end
    /\ start' = start + 1
    /\ UNCHANGED status

Emit(end) ==
    /\ end # NoMatch
    /\ ~Repeats(end)
    /\ Len(matches) < MaxOutputMatches
    /\ matches' = Append(matches, [start |-> start, end |-> end])
    /\ previous_end' = end
    /\ start' = end
    /\ UNCHANGED status

\* Accounting::emit refuses one match too many; nothing is returned.
TooMany(end) ==
    /\ end # NoMatch
    /\ ~Repeats(end)
    /\ Len(matches) >= MaxOutputMatches
    /\ status' = "failed"
    /\ UNCHANGED <<start, previous_end, matches>>

\* One probe of a start, answered with the end selected there.
Answer(end) ==
    /\ Probing
    /\ probes' = probes + 1
    /\ Miss(end) \/ Suppress(end) \/ Emit(end) \/ TooMany(end)

Probe == Answer(selected[start]) /\ UNCHANGED <<len, selected>>

\* No start is left.
Stop ==
    /\ status = "running"
    /\ start > len
    /\ status' = "done"
    /\ UNCHANGED <<len, selected, start, previous_end, matches, probes>>

\* A probe that fails ends the operation without a result.
ProbeFails ==
    /\ Probing
    /\ status' = "failed"
    /\ UNCHANGED <<len, selected, start, previous_end, matches, probes>>

CollectNext == Probe \/ Stop \/ ProbeFails

CollectSpec == CollectInit /\ [][CollectNext]_collect_vars

-----------------------------------------------------------------------------

\* What was admitted before the first probe is enough: two units of probing
\* work for each boundary (root_work), and one match for each boundary in the
\* vector of reserve_output, which therefore never grows.
AdmissionSuffices ==
    /\ probes <= 2 * (len + 1)
    /\ Len(matches) <= len + 1

\* The loop delivers the sequence that MatchSequence describes.
Abstract == INSTANCE MatchSequence WITH last <- previous_end

ImplementsSequence == Abstract!Spec
==============================================================================
