---------------------------- MODULE SpanFillProofs ----------------------------
(***************************************************************************)
(* Refills write exactly the non-overlapping matches, for every haystack   *)
(* length, every selection of matches, every start and every sequence of   *)
(* capacities.                                                             *)
(*                                                                         *)
(* The argument: every offset between the end of the last span and         *)
(* next_start is passed, that is, holds no match or the empty one that     *)
(* must not be repeated.  A search extends this to the match it finds or   *)
(* to the end, so no eligible match is ever stepped over.                  *)
(***************************************************************************)
EXTENDS SpanFill, TLAPS

Span == [start : Offsets, end : Offsets]

\* The record agrees with the spans written so far.
Record ==
    /\ out = <<>> =>
        /\ next_start = origin
        /\ last_match_end = 0
        /\ "pending" \notin flags
        /\ "has_last" \in flags <=> origin # 0
    /\ out # <<>> =>
        /\ "has_last" \in flags
        /\ last_match_end = out[Len(out)].end
        /\ next_start >= last_match_end
    /\ "pending" \in flags =>
        /\ "finished" \notin flags
        /\ next_start = last_match_end
        /\ sel[next_start] = next_start

\* Nothing eligible is behind the search.
Behind ==
    \A i \in From(Len(out) + 1)..(next_start - 1) : Passed(Len(out) + 1, i)

Inv == TypeOK /\ (pc = "loop" => room > 0) /\ Record /\ Behind /\ Faithful
       /\ Complete /\ StatusIsState /\ status # "invalid_argument"

\* Where the next span is looked for, from the record.
LEMMA FromRecord ==
  ASSUME TypeOK, Record
  PROVE  /\ From(Len(out) + 1) \in Offsets
         /\ From(Len(out) + 1) <= next_start
         /\ out # <<>> => From(Len(out) + 1) = last_match_end
         /\ out = <<>> => From(Len(out) + 1) = origin
         /\ Len(out) \in Nat /\ (out = <<>> <=> Len(out) = 0)
<1>1. Len(out) \in Nat /\ (out = <<>> <=> Len(out) = 0)
  BY DEF TypeOK
<1>2. CASE out = <<>>
  BY <1>1, <1>2, FillAssumption DEF TypeOK, Record, From, Offsets
<1>3. CASE out # <<>>
  <2>1. Len(out) \in 1..Len(out) /\ Len(out) + 1 # 1
        /\ Len(out) + 1 - 1 = Len(out)
    BY <1>1, <1>3
  <2>2. From(Len(out) + 1) = out[Len(out)].end
    BY <2>1 DEF From
  <2> QED
    BY <1>1, <1>3, <2>2 DEF TypeOK, Record
<1> QED
  BY <1>1, <1>2, <1>3

\* A record that agrees with the spans is one the next refill accepts.
LEMMA RecordValid == TypeOK /\ Record => StateIsValid
BY FillAssumption DEF TypeOK, Record, StateIsValid, Offsets

\* Every offset from the end of the last span to where a search starts is
\* passed: a pending empty match is the one that must not be repeated.
LEMMA SearchStartPassed ==
  ASSUME Inv, Searches
  PROVE  /\ SearchStart \in Offsets /\ SearchStart >= next_start
         /\ \A i \in From(Len(out) + 1)..(SearchStart - 1) :
                Passed(Len(out) + 1, i)
<1> USE FillAssumption
<1>1. CASE "pending" \notin flags
  BY <1>1 DEF SearchStart, Inv, Behind, TypeOK, Offsets
<1>2. CASE "pending" \in flags
  <2>1. next_start < HaystackLen /\ next_start \in Nat
    BY <1>2 DEF Searches, AtEnd, Inv, TypeOK, Offsets
  <2>2. /\ out # <<>> /\ next_start = last_match_end
        /\ sel[next_start] = next_start
    BY <1>2 DEF Inv, Record
  <2>3. Repeated(Len(out) + 1, next_start)
    BY <2>2, FromRecord DEF Repeated, Inv
  <2>4. SearchStart = next_start + 1
    BY <1>2 DEF SearchStart
  <2> QED
    BY <2>1, <2>3, <2>4, FromRecord DEF Inv, Behind, Passed, Offsets
<1> QED
  BY <1>1, <1>2

\* A span appended leaves the earlier ones, and what they passed, in place.
LEMMA AppendKeeps ==
  ASSUME TypeOK, NEW s \in Span, out' = Append(out, s), UNCHANGED <<sel, origin>>
  PROVE  /\ Len(out') = Len(out) + 1 /\ out'[Len(out) + 1] = s
         /\ out' \in Seq(Span) /\ out' # <<>>
         /\ Len(out) \in Nat
         /\ \A k \in 1..Len(out) : out'[k] = out[k]
         /\ \A k \in 1..(Len(out) + 1) : From(k)' = From(k)
         /\ \A k \in 1..(Len(out) + 1), i \in Offsets :
                Passed(k, i)' <=> Passed(k, i)
         /\ \A k : k = Len(out) + 2 => From(k)' = s.end
<1>1. /\ Len(out) \in Nat /\ Len(out') = Len(out) + 1
      /\ out'[Len(out) + 1] = s
      /\ \A k \in 1..Len(out) : out'[k] = out[k]
      /\ out' \in Seq(Span)
  BY DEF TypeOK, Span
<1>2. \A k \in 1..(Len(out) + 1) : From(k)' = From(k)
  BY <1>1 DEF From
<1>3. \A k \in 1..(Len(out) + 1), i \in Offsets : Passed(k, i)' <=> Passed(k, i)
  BY <1>2 DEF Passed, Repeated, NoMatch
<1>4. ASSUME NEW k, k = Len(out) + 2 PROVE From(k)' = s.end
  <2>1. k # 1 /\ k - 1 = Len(out) + 1
    BY <1>1, <1>4
  <2> QED
    BY <1>1, <2>1 DEF From
<1> QED
  BY <1>1, <1>2, <1>3, <1>4

\* While nothing is written and the program stays the same, neither does what
\* the next span may be.
LEMMA NothingWritten ==
  ASSUME UNCHANGED <<sel, origin, out>>
  PROVE  /\ \A k : From(k)' = From(k)
         /\ \A k, i : Passed(k, i)' <=> Passed(k, i)
         /\ Faithful => Faithful'
<1>1. \A k : From(k)' = From(k)
  BY DEF From
<1>2. \A k, i : Passed(k, i)' <=> Passed(k, i)
  BY <1>1 DEF Passed, Repeated
<1> QED
  BY <1>1, <1>2 DEF Faithful

\* The iteration finishes where nothing eligible is left, or by a failure.
LEMMA Finishes ==
  ASSUME Inv, NEW result \in {"no_match", "runtime_failure"}, Finish(result),
         next_start' \in Offsets, next_start' >= next_start,
         out = <<>> => next_start' = next_start,
         \A i \in From(Len(out) + 1)..(next_start' - 1) :
             Passed(Len(out) + 1, i),
         failed' \in BOOLEAN,
         \/ failed'
         \/ \A i \in From(Len(out) + 1)..HaystackLen : Passed(Len(out) + 1, i),
         UNCHANGED <<sel, origin, last_match_end, out>>
  PROVE  Inv'
<1> USE FillAssumption
<1>1. TypeOK' /\ pc' = "caller" /\ status' # "invalid_argument"
  BY DEF Inv, TypeOK, Finish, Return, Flags, Offsets
<1>2. Record'
  BY DEF Inv, TypeOK, Record, Finish, Offsets
<1>3. Behind'
  BY NothingWritten DEF Behind
<1>4. Complete'
  BY NothingWritten DEF Complete
<1>5. StatusIsState'
  BY DEF StatusIsState, Finish, Return
<1> QED
  BY <1>1, <1>2, <1>3, <1>4, <1>5, NothingWritten DEF Inv

\* Every step of a refill and every entry to one preserves the invariant; one
\* case per action.
LEMMA FillStep == Inv /\ [Next]_vars => Inv'
<1> SUFFICES ASSUME Inv, [Next]_vars PROVE Inv'
  OBVIOUS
<1> USE FillAssumption
<1>1. ASSUME NEW capacity \in 0..MaxCapacity, Fill(capacity) PROVE Inv'
  <2>1. StateIsValid
    BY RecordValid DEF Inv
  <2>2. UNCHANGED <<sel, origin, next_start, last_match_end, flags, out, failed>>
    BY <1>1 DEF Fill, state
  <2>3. Record' /\ Behind' /\ Complete' /\ Faithful'
    BY <2>2, NothingWritten DEF Inv, Record, Behind, Complete
  <2>4. CASE capacity = 0
    BY <1>1, <2>1, <2>2, <2>3, <2>4
       DEF Fill, Return, Inv, TypeOK, StatusIsState
  <2>5. CASE capacity # 0
    BY <1>1, <2>1, <2>2, <2>3, <2>5 DEF Fill, Inv, TypeOK, StatusIsState
  <2> QED
    BY <2>4, <2>5
<1>2. ASSUME Fused PROVE Inv'
  <2>1. UNCHANGED <<sel, origin, next_start, last_match_end, flags, out, failed>>
    BY <1>2 DEF Fused, state
  <2>2. Record' /\ Behind' /\ Complete' /\ Faithful'
    BY <2>1, NothingWritten DEF Inv, Record, Behind, Complete
  <2> QED
    BY <1>2, <2>1, <2>2 DEF Fused, Return, Inv, TypeOK, StatusIsState
<1>3. ASSUME StopAtEnd PROVE Inv'
  <2>1. "pending" \in flags /\ next_start = HaystackLen
    BY <1>3 DEF StopAtEnd, AtEnd
  <2>2. Repeated(Len(out) + 1, next_start)
    BY <2>1, FromRecord DEF Repeated, Inv, Record
  <2>3. \A i \in From(Len(out) + 1)..HaystackLen : Passed(Len(out) + 1, i)
    BY <2>1, <2>2, FromRecord DEF Inv, Behind, Passed, Offsets
  <2> QED
    BY <1>3, <2>3, Finishes DEF StopAtEnd, Inv, TypeOK, Behind, Offsets
<1>4. ASSUME NoneLeft PROVE Inv'
  <2>1. Searches /\ \A i \in SearchStart..HaystackLen : sel[i] = NoMatch
    BY <1>4 DEF NoneLeft
  <2>2. \A i \in From(Len(out) + 1)..HaystackLen : Passed(Len(out) + 1, i)
    BY <2>1, SearchStartPassed, FromRecord DEF Passed, Offsets, Inv
  <2>3. out = <<>> => SearchStart = next_start
    BY DEF SearchStart, Inv, Record
  <2> QED
    BY <1>4, <2>1, <2>2, <2>3, SearchStartPassed, Finishes
       DEF NoneLeft, Inv, TypeOK
<1>5. ASSUME SearchFails PROVE Inv'
  <2>1. out = <<>> => SearchStart = next_start
    BY DEF SearchStart, Inv, Record
  <2>2. CASE next_start' = SearchStart
    BY <1>5, <2>1, <2>2, SearchStartPassed, Finishes DEF SearchFails
  <2>3. CASE next_start' = next_start
    <3>1. /\ next_start' \in Offsets /\ next_start' >= next_start
          /\ \A i \in From(Len(out) + 1)..(next_start' - 1) :
                 Passed(Len(out) + 1, i)
      BY <2>3, FillAssumption DEF Inv, TypeOK, Behind, Offsets
    <3> QED BY <1>5, <2>3, <3>1, Finishes DEF SearchFails
  <2> QED
    BY <1>5, <2>2, <2>3 DEF SearchFails
<1>6. ASSUME NEW i \in Offsets, Suppress(i) PROVE Inv'
  <2>1. Searches /\ i >= SearchStart /\ sel[i] = i /\ "has_last" \in flags
        /\ last_match_end = i
    BY <1>6 DEF Suppress, Finds, Repeats
  <2>2. out # <<>>
    BY <2>1, SearchStartPassed DEF Inv, Record, TypeOK, Offsets
  <2>3. SearchStart = i /\ next_start = i
    <3>1. next_start >= last_match_end /\ next_start \in Nat
      BY <2>2 DEF Inv, Record, TypeOK, Offsets
    <3>2. SearchStart >= next_start /\ SearchStart \in Nat /\ i \in Nat
      BY <2>1, SearchStartPassed DEF Offsets
    <3> QED
      BY <2>1, <3>1, <3>2
  <2>4. Repeated(Len(out) + 1, i)
    BY <2>1, <2>2, FromRecord DEF Repeated, Inv
  <2>5. \A j \in From(Len(out) + 1)..i : Passed(Len(out) + 1, j)
    BY <2>3, <2>4, SearchStartPassed, <2>1, FromRecord
       DEF Passed, Offsets, Inv
  <2>6. CASE SearchStart = HaystackLen
    BY <1>6, <2>1, <2>2, <2>3, <2>5, <2>6, SearchStartPassed, Finishes
       DEF Suppress, Inv, TypeOK, Offsets
  <2>7. CASE SearchStart # HaystackLen
    <3>1. /\ next_start' = i + 1 /\ i + 1 \in Offsets
          /\ flags' = flags \ {"pending"}
          /\ UNCHANGED <<sel, origin, last_match_end, out, pc, room, status,
                         failed>>
      BY <1>6, <2>3, <2>7 DEF Suppress, Offsets
    <3>2. TypeOK' /\ (pc' = "loop" => room' > 0) /\ status' # "invalid_argument"
      BY <3>1 DEF Inv, TypeOK
    <3>3. Record'
      BY <2>1, <2>2, <2>3, <3>1 DEF Inv, Record, Offsets
    <3>4. Behind'
      <4>1. Len(out') = Len(out) /\ next_start' - 1 = i
        BY <3>1 DEF Offsets
      <4> QED
        BY <2>5, <3>1, <4>1, NothingWritten DEF Behind
    <3>5. Complete' /\ StatusIsState'
      BY <1>6, <2>1, <3>1 DEF Complete, StatusIsState, Searches
    <3> QED
      BY <3>1, <3>2, <3>3, <3>4, <3>5, NothingWritten DEF Inv
  <2> QED
    BY <2>6, <2>7
<1>7. ASSUME NEW i \in Offsets, Emit(i) PROVE Inv'
  <2> DEFINE s == [start |-> i, end |-> sel[i]]
  <2>0. PICK n \in Nat : n = Len(out)
    BY DEF Inv, TypeOK
  <2>1. /\ Searches /\ i >= SearchStart /\ sel[i] # NoMatch
        /\ \A j \in SearchStart..(i - 1) : sel[j] = NoMatch
        /\ ~Repeats(i)
        /\ next_start' = sel[i] /\ last_match_end' = sel[i]
        /\ flags' = {"has_last"} \cup (IF sel[i] = i THEN {"pending"} ELSE {})
        /\ out' = Append(out, s)
        /\ UNCHANGED <<sel, origin, failed>>
    BY <1>7 DEF Emit, Finds
  <2>2. sel[i] \in Offsets /\ sel[i] >= i /\ s \in Span
    BY <2>1 DEF Inv, TypeOK, Span, NoMatch, Offsets
  <2>3. /\ Len(out') = n + 1 /\ out'[n + 1] = s /\ n \in Nat
        /\ out' \in Seq(Span) /\ out' # <<>>
        /\ \A k \in 1..n : out'[k] = out[k]
        /\ \A k \in 1..(n + 1) : From(k)' = From(k)
        /\ \A k \in 1..(n + 1), j \in Offsets : Passed(k, j)' <=> Passed(k, j)
        /\ From(n + 2)' = s.end
    BY <2>0, <2>1, <2>2, AppendKeeps DEF Inv
  <2>4. TypeOK' /\ (pc' = "loop" => room' > 0) /\ status' # "invalid_argument"
    <3>1. /\ pc' \in {"caller", "loop"} /\ room' \in 0..MaxCapacity
          /\ pc' = "loop" => room' > 0
          /\ status' \in {"none", "match", "no_match", "runtime_failure"}
      BY <1>7, <2>1 DEF Emit, Return, Inv, TypeOK, Searches
    <3>2. flags' \subseteq Flags
      BY <2>1 DEF Flags
    <3> QED
      BY <2>1, <2>2, <2>3, <3>1, <3>2 DEF Inv, TypeOK, Span
  <2>5. Record'
    BY <2>1, <2>2, <2>3 DEF Record, Offsets
  <2>6. Behind'
    <3>1. Len(out') + 1 = n + 2 /\ From(n + 2)' = next_start'
      BY <2>1, <2>3
    <3>2. From(Len(out) + 1)' = next_start' /\ next_start' \in Nat
      BY <2>1, <2>2, <3>1 DEF From, Offsets
    <3>3. \A j : j \notin From(Len(out) + 1)'..(next_start' - 1)
      BY <3>2
    <3> QED
      BY <3>3 DEF Behind
  <2>7. Faithful'
    <3> SUFFICES ASSUME NEW k \in 1..(n + 1), NEW b, b = out'[k].start
                 PROVE  /\ b >= From(k)' /\ out'[k].end = sel[b]
                        /\ ~Passed(k, b)'
                        /\ \A j \in From(k)'..(b - 1) : Passed(k, j)'
      BY <2>1, <2>3 DEF Faithful
    <3>0. From(n + 1) \in Offsets /\ From(n + 1) <= next_start
      BY <2>0, FromRecord DEF Inv
    <3>1. CASE k = n + 1
      <4>0. b = i /\ out'[k].end = sel[b]
        BY <2>3, <3>1
      <4>1. i >= From(n + 1)
        <5>1. SearchStart >= next_start /\ SearchStart \in Nat
          BY <2>1, SearchStartPassed DEF Offsets
        <5>2. next_start \in Nat /\ From(n + 1) \in Nat /\ i \in Nat
          BY <3>0 DEF Inv, TypeOK, Offsets
        <5> QED
          BY <2>1, <3>0, <5>1, <5>2
      <4>2. ~Passed(n + 1, i)
        <5>1. CASE out = <<>>
          BY <2>0, <2>1, <5>1, FromRecord DEF Inv, Passed, Repeated
        <5>2. CASE out # <<>>
          BY <2>0, <2>1, <5>2, FromRecord
             DEF Inv, Passed, Repeated, Repeats, Record
        <5> QED
          BY <5>1, <5>2
      <4>3. \A j \in From(n + 1)..(i - 1) : Passed(n + 1, j)
        BY <2>0, <2>1, <3>0, SearchStartPassed DEF Passed, Offsets
      <4>4. From(k)' = From(n + 1) /\ n + 1 \in 1..(n + 1)
        BY <2>3, <3>1
      <4>5. \A j \in Offsets : Passed(k, j)' <=> Passed(n + 1, j)
        BY <2>3, <3>1
      <4>6. \A j \in From(n + 1)..(i - 1) : j \in Offsets
        BY <3>0 DEF Offsets
      <4> QED
        BY <4>0, <4>1, <4>2, <4>3, <4>4, <4>5, <4>6
    <3>2. CASE k \in 1..n
      <4>0. out'[k] = out[k] /\ From(k)' = From(k)
        BY <2>3, <3>2
      <4>1. /\ b >= From(k) /\ out[k].end = sel[b] /\ ~Passed(k, b)
            /\ \A j \in From(k)..(b - 1) : Passed(k, j)
        BY <2>0, <3>2, <4>0 DEF Inv, Faithful
      <4>2. b \in Offsets /\ From(k) \in Nat
        <5>1. \A m \in 1..n : out[m].start \in Offsets /\ out[m].end \in Offsets
          <6>1. out \in Seq(Span)
            BY DEF Inv, TypeOK, Span
          <6>2. \A m \in 1..n : out[m] \in Span
            BY <2>0, <6>1
          <6> QED
            BY <6>2 DEF Span
        <5>2. CASE k = 1
          BY <3>2, <4>0, <5>1, <5>2 DEF From, Offsets, Inv, TypeOK
        <5>3. CASE k # 1
          <6>1. k - 1 \in 1..n
            BY <3>2, <5>3
          <6> QED
            BY <3>2, <4>0, <5>1, <5>3, <6>1 DEF From, Offsets
        <5> QED
          BY <5>2, <5>3
      <4>3. \A j \in From(k)..(b - 1) : j \in Offsets
        BY <4>2 DEF Offsets
      <4> QED
        BY <2>3, <4>0, <4>1, <4>2, <4>3
    <3> QED
      BY <2>3, <3>1, <3>2
  <2>8. Complete' /\ StatusIsState'
    BY <1>7, <2>1 DEF Complete, StatusIsState, Emit, Return, Searches
  <2> QED
    BY <2>4, <2>5, <2>6, <2>7, <2>8 DEF Inv
<1>8. CASE UNCHANGED vars
  <2>1. UNCHANGED <<sel, origin, next_start, last_match_end, flags, out, pc,
                    room, status, failed>>
    BY <1>8 DEF vars, state
  <2> QED
    BY <2>1, NothingWritten
       DEF Inv, TypeOK, Record, Behind, Complete, StatusIsState
<1> QED
  BY <1>1, <1>2, <1>3, <1>4, <1>5, <1>6, <1>7, <1>8 DEF Next, Loop

\* The invariant holds in every reachable state.
THEOREM FillInvariance == Spec => []Inv
<1>1. Init => Inv
  <2> SUFFICES ASSUME Init PROVE Inv
    OBVIOUS
  <2> USE FillAssumption
  <2>1. TypeOK
    <3>1. /\ next_start \in Offsets /\ last_match_end \in Offsets
          /\ room \in 0..MaxCapacity
      BY DEF Init, Offsets
    <3>2. flags \subseteq Flags /\ out \in Seq([start : Offsets, end : Offsets])
      BY DEF Init, Flags
    <3> QED
      BY <3>1, <3>2 DEF Init, TypeOK
  <2>2. Record
    BY DEF Init, Record
  <2>3. Behind
    BY DEF Init, Behind, From, Offsets
  <2>4. Faithful /\ Complete /\ StatusIsState
    BY DEF Init, Faithful, Complete, StatusIsState
  <2> QED
    BY <2>1, <2>2, <2>3, <2>4 DEF Inv, Init
<1> QED
  BY <1>1, FillStep, PTL DEF Spec

\* The next refill accepts the record that any refill leaves behind.
THEOREM FillResumable == Spec => []Resumable
<1>1. Inv => Resumable
  BY RecordValid DEF Inv, Resumable
<1> QED
  BY <1>1, FillInvariance, PTL

\* What refills of any capacities write is the sequence of non-overlapping
\* matches.
THEOREM FillFaithful == Spec => []Faithful
<1>1. Inv => Faithful
  BY DEF Inv
<1> QED
  BY <1>1, FillInvariance, PTL

\* An iteration that finishes without a failure has left no match out.
THEOREM FillComplete == Spec => []Complete
<1>1. Inv => Complete
  BY DEF Inv
<1> QED
  BY <1>1, FillInvariance, PTL

\* The status of a refill says whether the iteration is finished.
THEOREM FillStatusIsState == Spec => []StatusIsState
<1>1. Inv => StatusIsState
  BY DEF Inv
<1> QED
  BY <1>1, FillInvariance, PTL

\* A finished iteration writes nothing and stays finished.
THEOREM FillStaysFinished == Spec => StaysFinished
<1>1. [Next]_vars =>
        ["finished" \in flags => "finished" \in flags' /\ out' = out]_vars
  BY DEF Next, Loop, Fill, Fused, StopAtEnd, NoneLeft, SearchFails, Suppress,
         Emit, Finds, Searches, state
<1> QED
  BY <1>1, PTL DEF Spec, StaysFinished
=============================================================================
