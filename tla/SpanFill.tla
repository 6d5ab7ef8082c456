------------------------------- MODULE SpanFill -------------------------------
(***************************************************************************)
(* fre_aot_regex_runtime_fill_spans_exclusive_v1: the matches of a         *)
(* haystack handed out in refills of any capacity, with the iteration's    *)
(* state in a record the caller keeps between them.  The same rules drive  *)
(* PreparedAotMatches::next and the span reducers.                         *)
(*                                                                         *)
(* A compiled program is what it selects: for every start the end of the   *)
(* match the engine prefers there, if there is one.  Assertions see the    *)
(* whole haystack, so this does not depend on where a search begins.       *)
(***************************************************************************)
EXTENDS Naturals, Sequences

CONSTANTS
    HaystackLen,
    MaxCapacity     \* largest refill

ASSUME FillAssumption == HaystackLen \in Nat /\ MaxCapacity \in Nat

VARIABLES
    sel,         \* end of the match selected at each start, or NoMatch
    origin,      \* where the iteration begins
    next_start, last_match_end, flags,   \* FreAotRegexIterStateV1
    out,         \* every span written so far, over all refills
    pc,          \* "caller" or "loop"
    room,        \* results still free in this refill
    status,      \* what the last refill returned
    failed       \* history: a search failed or panicked

state == <<next_start, last_match_end, flags>>
vars == <<sel, origin, state, out, pc, room, status, failed>>

Offsets == 0..HaystackLen
NoMatch == HaystackLen + 1

Flags == {"has_last", "pending", "finished"}

\* FreAotRegexIterStateV1::initial_at.
Init ==
    /\ sel \in [Offsets -> 0..NoMatch]
    /\ \A i \in Offsets : sel[i] >= i
    /\ origin \in Offsets
    /\ next_start = origin
    /\ last_match_end = 0
    /\ flags = IF origin = 0 THEN {} ELSE {"has_last"}
    /\ out = <<>>
    /\ pc = "caller"
    /\ room = 0
    /\ status = "none"
    /\ failed = FALSE

\* exclusive_span_iter_state_is_valid.
StateIsValid ==
    /\ next_start \in Offsets
    /\ last_match_end \in Offsets
    /\ "pending" \in flags => /\ "has_last" \in flags
                              /\ "finished" \notin flags
                              /\ next_start = last_match_end
    /\ "has_last" \notin flags => next_start = 0 /\ last_match_end = 0
    /\ "has_last" \in flags => next_start >= last_match_end

-----------------------------------------------------------------------------
(* Entering a refill.                                                      *)

Return(result) ==
    /\ pc' = "caller"
    /\ room' = 0
    /\ status' = result

\* The record is checked; a zero capacity only asks whether it is finished.
Fill(capacity) ==
    /\ pc = "caller"
    /\ IF ~StateIsValid
       THEN Return("invalid_argument")
       ELSE IF capacity = 0
       THEN Return(IF "finished" \in flags THEN "no_match" ELSE "match")
       ELSE pc' = "loop" /\ room' = capacity /\ UNCHANGED status
    /\ UNCHANGED <<sel, origin, state, out, failed>>

-----------------------------------------------------------------------------
(* The loop of a refill.                                                   *)

\* finish_exclusive_span_iter.
FinishPending(result) ==
    /\ flags' = flags \cup {"finished"}
    /\ Return(result)

Finish(result) ==
    /\ flags' = (flags \cap {"has_last"}) \cup {"finished"}
    /\ Return(result)

\* The loop finds the iteration finished.
Fused ==
    /\ pc = "loop"
    /\ "finished" \in flags
    /\ Return("no_match")
    /\ UNCHANGED <<sel, origin, state, out, failed>>

\* Bug: an empty match before the last offset ends the iteration.
AtEndEarly == "pending" \in flags /\ next_start + 1 >= HaystackLen

\* Past an empty match there is one more byte to step over, or there is none.
AtEnd == "pending" \in flags /\ next_start = HaystackLen

StopAtEnd ==
    /\ pc = "loop"
    /\ "finished" \notin flags
    /\ AtEnd
    /\ Finish("no_match")
    /\ UNCHANGED <<sel, origin, next_start, last_match_end, out, failed>>

\* Where the next search starts.
SearchStart == IF "pending" \in flags THEN next_start + 1 ELSE next_start

Searches == pc = "loop" /\ "finished" \notin flags /\ ~AtEnd

\* search_exclusive_after_deactivation finds the match at i.
Finds(i) ==
    /\ Searches
    /\ i >= SearchStart
    /\ sel[i] # NoMatch
    /\ \A j \in SearchStart..(i - 1) : sel[j] = NoMatch

NoneLeft ==
    /\ Searches
    /\ \A i \in SearchStart..HaystackLen : sel[i] = NoMatch
    /\ next_start' = SearchStart
    /\ Finish("no_match")
    /\ UNCHANGED <<sel, origin, last_match_end, out, failed>>

\* The search returns an error, or the refill panics, before or after it has
\* stepped past the last match, and catch_unwind finishes the state.
SearchFails ==
    /\ Searches
    /\ next_start' \in {next_start, SearchStart}
    /\ Finish("runtime_failure")
    /\ failed' = TRUE
    /\ UNCHANGED <<sel, origin, last_match_end, out>>

\* Bug: takes the zero of a fresh record for the end of a match.
RepeatsFresh(i) == sel[i] = i /\ last_match_end = i

\* An empty match where the last match ended.
Repeats(i) == sel[i] = i /\ "has_last" \in flags /\ last_match_end = i

\* Bug: searches the same offset again.
SuppressInPlace(i) ==
    /\ Finds(i)
    /\ Repeats(i)
    /\ next_start' = SearchStart
    /\ flags' = flags \ {"pending"}
    /\ UNCHANGED <<sel, origin, last_match_end, out, pc, room, status, failed>>

\* It is not reported; the search moves on by one byte if there is one.
Suppress(i) ==
    /\ Finds(i)
    /\ Repeats(i)
    /\ IF SearchStart = HaystackLen
       THEN next_start' = SearchStart /\ Finish("no_match")
       ELSE /\ next_start' = SearchStart + 1
            /\ flags' = flags \ {"pending"}
            /\ UNCHANGED <<pc, room, status>>
    /\ UNCHANGED <<sel, origin, last_match_end, out, failed>>

\* The span is written, and a full refill returns.
Emit(i) ==
    /\ Finds(i)
    /\ ~Repeats(i)
    /\ next_start' = sel[i]
    /\ last_match_end' = sel[i]
    /\ flags' = {"has_last"} \cup (IF sel[i] = i THEN {"pending"} ELSE {})
    /\ out' = Append(out, [start |-> i, end |-> sel[i]])
    /\ IF room = 1
       THEN Return("match")
       ELSE room' = room - 1 /\ UNCHANGED <<pc, status>>
    /\ UNCHANGED <<sel, origin, failed>>

Loop ==
    \/ Fused \/ StopAtEnd \/ NoneLeft
    \/ \E i \in Offsets : Suppress(i) \/ Emit(i)

Next ==
    \/ \E capacity \in 0..MaxCapacity : Fill(capacity)
    \/ Loop
    \/ SearchFails

Spec == Init /\ [][Next]_vars

\* A refill keeps running; that a search fails is never needed to end it.
FairSpec == Spec /\ WF_vars(Loop)

-----------------------------------------------------------------------------
(* Properties.                                                             *)

\* The iteration's record and the caller's view of it have their types; the
\* search offset never leaves the haystack (lib.rs:5259, 5293).
TypeOK ==
    /\ sel \in [Offsets -> 0..NoMatch]
    /\ \A i \in Offsets : sel[i] >= i
    /\ origin \in Offsets
    /\ next_start \in Offsets
    /\ last_match_end \in Offsets
    /\ flags \subseteq Flags
    /\ out \in Seq([start : Offsets, end : Offsets])
    /\ pc \in {"caller", "loop"}
    /\ room \in 0..MaxCapacity
    /\ status \in {"none", "match", "no_match", "runtime_failure",
                   "invalid_argument"}
    /\ failed \in BOOLEAN

\* A record that a refill leaves behind, after success, exhaustion, failure or
\* panic, is accepted by the next one (lib.rs:5157-5173).
Resumable == pc = "caller" => StateIsValid /\ status # "invalid_argument"

\* Where the k-th span must look from, and the empty match it must not repeat.
From(k) == IF k = 1 THEN origin ELSE out[k - 1].end
Repeated(k, i) == k > 1 /\ i = From(k) /\ sel[i] = i

\* Offset i holds nothing that the k-th span may be.
Passed(k, i) == sel[i] = NoMatch \/ Repeated(k, i)

\* However the refills cut it up, what is written is the sequence of
\* non-overlapping matches: each span is what is selected at its start, no
\* earlier start since the last span's end was eligible, and an empty match is
\* not reported where the last match ended (lib.rs:3985 "an empty match at the
\* previous match end is suppressed").
Faithful ==
    \A k \in 1..Len(out) :
        /\ out[k].start >= From(k)
        /\ out[k].end = sel[out[k].start]
        /\ ~Passed(k, out[k].start)
        /\ \A i \in From(k)..(out[k].start - 1) : Passed(k, i)

\* An iteration that finishes without a failure has reported everything: no
\* eligible match is left, also one that is empty and at the very end, or at
\* a positive start where the record holds a synthetic last match
\* (lib.rs:719 "cannot suppress a real empty match").
Complete ==
    "finished" \in flags /\ ~failed =>
        \A i \in From(Len(out) + 1)..HaystackLen : Passed(Len(out) + 1, i)

\* Status zero means the state is finished and status one that it is not, for
\* a zero-capacity probe too (lib.rs:772-777).
StatusIsState ==
    pc = "caller" =>
        /\ status = "no_match" => "finished" \in flags
        /\ status = "match" => "finished" \notin flags

\* Once finished, by exhaustion or by a failure, no refill writes a span
\* (lib.rs:695 "the iterator is fused and later refills return no matches").
StaysFinished ==
    [][ "finished" \in flags => "finished" \in flags' /\ out' = out ]_vars

\* Every refill returns: empty matches cannot keep it in its loop.
RefillReturns == pc = "loop" ~> pc = "caller"
=============================================================================
