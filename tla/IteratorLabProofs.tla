-------------------------- MODULE IteratorLabProofs --------------------------
(***************************************************************************)
(* Proofs about the iterator laboratory, for every front end that keeps    *)
(* the contract of LabContract:                                            *)
(*   - the shared loop implements MatchSequence within what was admitted;  *)
(*   - the executors of the product program are never refused admitted     *)
(*     work (LabInv) and store what the program determines (ValuesInv);    *)
(*   - the guarded solver meets no cycle (GuardInv) and remembers what its *)
(*     program decides (MemoInv);                                          *)
(*   - so every executor implements the loop.                              *)
(* What RowAt and Power compute is shown with a least counterexample.      *)
(***************************************************************************)
EXTENDS LabContract, FiniteSetTheorems, SequenceTheorems, WellFoundedInduction, TLAPS

-----------------------------------------------------------------------------
(* The loop that the executors share.                                      *)

Spans == [start : Int, end : Int]

CollectTypeOK ==
    /\ len \in Nat
    /\ selected \in [0..len -> NoMatch..len]
    /\ \A i \in 0..len : selected[i] = NoMatch \/ selected[i] >= i
    /\ start \in 0..(len + 1)
    /\ previous_end \in NoMatch..len
    /\ matches \in Seq(Spans)
    /\ probes \in Nat
    /\ status \in {"running", "done", "failed"}

\* At the end of the last match one probe and one match more may have been
\* spent than two and one for each boundary passed.
Touching == IF previous_end = start THEN 1 ELSE 0

Spent ==
    /\ probes <= 2 * start + Touching
    /\ Len(matches) <= start + Touching

\* Nothing behind the cursor could still be delivered.
Behind ==
    /\ previous_end <= start
    /\ \A t \in 0..len : t < start => ~Abstract!Eligible(t)

CollectInv ==
    /\ CollectTypeOK
    /\ Behind
    /\ status = "running" => Spent
    /\ AdmissionSuffices

LEMMA Constants == NoMatch \in Int /\ NoMatch = 0 - 1 /\ Abstract!NoMatch = NoMatch
  BY DEF NoMatch, Abstract!NoMatch

\* While the loop runs, what is spent is within what was admitted.
LEMMA SpentAdmitted ==
  ASSUME CollectTypeOK, Spent
  PROVE  AdmissionSuffices
<1>1. /\ start \in Nat /\ probes \in Nat /\ Len(matches) \in Nat /\ len \in Nat
      /\ previous_end \in Int /\ previous_end <= len /\ start <= len + 1
  BY Constants DEF CollectTypeOK
<1>2. CASE start = len + 1
  <2>1. Touching = 0
    BY <1>1, <1>2 DEF Touching
  <2> QED
    BY <1>1, <1>2, <2>1 DEF Spent, AdmissionSuffices
<1>3. CASE start # len + 1
  <2>1. Touching \in 0..1
    BY DEF Touching
  <2> QED
    BY <1>1, <1>3, <2>1 DEF Spent, AdmissionSuffices
<1> QED
  BY <1>2, <1>3

LEMMA SpentAdmittedNext ==
  ASSUME CollectTypeOK', Spent'
  PROVE  AdmissionSuffices'
  BY SpentAdmitted, PTL

LEMMA CollectInitInv == CollectInit => CollectInv
<1> SUFFICES ASSUME CollectInit PROVE CollectInv
  OBVIOUS
<1>1. CollectTypeOK
  BY CollectAssumption DEF CollectInit, CollectTypeOK, Spans, NoMatch
<1>2. Spent
  BY DEF CollectInit, Spent, Touching, NoMatch
<1>3. Behind
  BY DEF CollectInit, Behind, NoMatch
<1> QED
  BY <1>1, <1>2, <1>3, SpentAdmitted DEF CollectInv

\* What a probe finds is an end in reach.
LEMMA ProbedEnd ==
  ASSUME CollectInv, Probing
  PROVE  /\ start \in 0..len
         /\ selected[start] \in NoMatch..len
         /\ selected[start] = NoMatch \/ selected[start] >= start
  BY Constants DEF CollectInv, CollectTypeOK, Probing

LEMMA MissInv ==
  ASSUME CollectInv, Probe, Miss(selected[start])
  PROVE  CollectInv'
<1> DEFINE end == selected[start]
<1>0. Probing /\ UNCHANGED <<len, selected>> /\ probes' = probes + 1
  BY DEF Probe, Answer
<1>1. start' = start + 1 /\ UNCHANGED <<previous_end, matches, status>> /\ end = NoMatch
  BY DEF Miss
<1>2. start \in 0..len
  BY <1>0, ProbedEnd
<1>3. CollectTypeOK'
  BY <1>0, <1>1, <1>2 DEF CollectInv, CollectTypeOK
<1>4. Spent'
  BY <1>0, <1>1, <1>2, Constants DEF CollectInv, CollectTypeOK, Spent, Touching, Probing
<1>5. previous_end' <= start'
  BY <1>1, <1>2, Constants DEF CollectInv, CollectTypeOK, Behind
<1>6. ASSUME NEW t \in 0..len, t < start + 1
      PROVE  ~Abstract!Eligible(t)
  <2>1. CASE t < start
    BY <2>1 DEF CollectInv, Behind
  <2>2. CASE t = start
    BY <2>2, <1>1, Constants DEF Abstract!Eligible
  <2> QED
    BY <2>1, <2>2, <1>2, <1>6
<1>7. \A t \in 0..len' : t < start' => ~Abstract!Eligible(t)'
  BY <1>0, <1>1, <1>6 DEF Abstract!Eligible
<1> QED
  BY <1>3, <1>4, <1>5, <1>7, SpentAdmittedNext DEF CollectInv, Behind

LEMMA SuppressInv ==
  ASSUME CollectInv, Probe, Suppress(selected[start])
  PROVE  CollectInv'
<1> DEFINE end == selected[start]
<1>0. Probing /\ UNCHANGED <<len, selected>> /\ probes' = probes + 1
  BY DEF Probe, Answer
<1>1. /\ start' = start + 1 /\ UNCHANGED <<previous_end, matches, status>>
      /\ end = start /\ previous_end = start
  BY DEF Suppress, Repeats
<1>2. start \in 0..len
  BY <1>0, ProbedEnd
<1>3. CollectTypeOK'
  BY <1>0, <1>1, <1>2 DEF CollectInv, CollectTypeOK
<1>4. Spent'
  BY <1>0, <1>1, <1>2, Constants DEF CollectInv, CollectTypeOK, Spent, Touching, Probing
<1>5. previous_end' <= start'
  BY <1>1, <1>2, Constants DEF CollectInv, CollectTypeOK, Behind
<1>6. ASSUME NEW t \in 0..len, t < start + 1
      PROVE  ~Abstract!Eligible(t)
  <2>1. CASE t < start
    BY <2>1 DEF CollectInv, Behind
  <2>2. CASE t = start
    BY <2>2, <1>1, Constants DEF Abstract!Eligible
  <2> QED
    BY <2>1, <2>2, <1>2, <1>6
<1>7. \A t \in 0..len' : t < start' => ~Abstract!Eligible(t)'
  BY <1>0, <1>1, <1>6 DEF Abstract!Eligible
<1> QED
  BY <1>3, <1>4, <1>5, <1>7, SpentAdmittedNext DEF CollectInv, Behind

LEMMA EmitInv ==
  ASSUME CollectInv, Probe, Emit(selected[start])
  PROVE  CollectInv'
<1> DEFINE end == selected[start]
<1>0. Probing /\ UNCHANGED <<len, selected>> /\ probes' = probes + 1
  BY DEF Probe, Answer
<1>1. /\ end # NoMatch /\ ~(end = start /\ previous_end = start)
      /\ matches' = Append(matches, [start |-> start, end |-> end])
      /\ previous_end' = end /\ start' = end /\ UNCHANGED status
  BY DEF Emit, Repeats
<1>2. start \in 0..len /\ end \in 0..len /\ end >= start
  BY <1>0, <1>1, ProbedEnd, Constants
<1>3. matches' \in Seq(Spans) /\ Len(matches') = Len(matches) + 1
  <2>1. [start |-> start, end |-> end] \in Spans
    BY <1>2 DEF Spans
  <2> QED
    BY <2>1, <1>1 DEF CollectInv, CollectTypeOK
<1>4. CollectTypeOK'
  BY <1>0, <1>1, <1>2, <1>3, Constants DEF CollectInv, CollectTypeOK
<1>5. Touching' = 1
  BY <1>1 DEF Touching
<1>6. Spent'
  <2>1. /\ probes \in Nat /\ Len(matches) \in Nat
        /\ probes <= 2 * start + Touching /\ Len(matches) <= start + Touching
    BY <1>0 DEF CollectInv, CollectTypeOK, Spent, Probing
  <2>2. CASE previous_end = start
    <3>1. Touching = 1 /\ end >= start + 1
      BY <2>2, <1>1, <1>2 DEF Touching
    <3> QED
      BY <3>1, <2>1, <1>0, <1>1, <1>2, <1>3, <1>5 DEF Spent
  <2>3. CASE previous_end # start
    <3>1. Touching = 0
      BY <2>3 DEF Touching
    <3> QED
      BY <3>1, <2>1, <1>0, <1>1, <1>2, <1>3, <1>5 DEF Spent
  <2> QED
    BY <2>2, <2>3
<1>7. Behind'
  BY <1>0, <1>1, <1>2 DEF Behind, Abstract!Eligible, CollectInv, CollectTypeOK
<1> QED
  BY <1>4, <1>6, <1>7, SpentAdmittedNext DEF CollectInv

LEMMA TooManyInv ==
  ASSUME CollectInv, Probe, TooMany(selected[start])
  PROVE  CollectInv'
<1>0. Probing /\ UNCHANGED <<len, selected>> /\ probes' = probes + 1
  BY DEF Probe, Answer
<1>1. status' = "failed" /\ UNCHANGED <<start, previous_end, matches>>
  BY DEF TooMany
<1>2. start \in 0..len
  BY <1>0, ProbedEnd
<1>3. probes <= 2 * start + 1
  BY <1>0, <1>2 DEF CollectInv, CollectTypeOK, Spent, Touching, Probing
<1>4. CollectTypeOK'
  BY <1>0, <1>1 DEF CollectInv, CollectTypeOK
<1>5. AdmissionSuffices'
  BY <1>0, <1>1, <1>2, <1>3 DEF CollectInv, CollectTypeOK, AdmissionSuffices
<1>6. Behind'
  BY <1>0, <1>1 DEF CollectInv, Behind, Abstract!Eligible
<1> QED
  BY <1>1, <1>4, <1>5, <1>6 DEF CollectInv

\* Every step of the loop preserves the invariant.
LEMMA CollectNextInv == CollectInv /\ [CollectNext]_collect_vars => CollectInv'
<1> SUFFICES ASSUME CollectInv, [CollectNext]_collect_vars PROVE CollectInv'
  OBVIOUS
<1>1. CASE Probe
  <2>1. \/ Miss(selected[start]) \/ Suppress(selected[start])
        \/ Emit(selected[start]) \/ TooMany(selected[start])
    BY <1>1 DEF Probe, Answer
  <2> QED
    BY <2>1, <1>1, MissInv, SuppressInv, EmitInv, TooManyInv
<1>2. ASSUME status' \in {"done", "failed"},
             UNCHANGED <<len, selected, start, previous_end, matches, probes>>
      PROVE  CollectInv'
  <2>1. CollectTypeOK'
    BY <1>2 DEF CollectInv, CollectTypeOK
  <2>2. Behind'
    BY <1>2 DEF CollectInv, Behind, Abstract!Eligible
  <2>3. AdmissionSuffices'
    BY <1>2 DEF CollectInv, AdmissionSuffices
  <2> QED
    BY <1>2, <2>1, <2>2, <2>3 DEF CollectInv
<1>3. CASE Stop
  BY <1>2, <1>3 DEF Stop
<1>4. CASE ProbeFails
  BY <1>2, <1>4 DEF ProbeFails
<1>5. CASE UNCHANGED collect_vars
  <2>1. UNCHANGED <<len, selected, start, previous_end, matches, probes, status>>
    BY <1>5 DEF collect_vars
  <2>2. CollectTypeOK'
    BY <2>1 DEF CollectInv, CollectTypeOK
  <2>3. Behind'
    BY <2>1 DEF CollectInv, Behind, Abstract!Eligible
  <2>4. AdmissionSuffices' /\ (status' = "running" => Spent')
    BY <2>1 DEF CollectInv, AdmissionSuffices, Spent, Touching
  <2> QED
    BY <2>2, <2>3, <2>4 DEF CollectInv
<1> QED
  BY <1>1, <1>3, <1>4, <1>5 DEF CollectNext

\* The inductive invariant of collect_sequence: nothing behind the cursor can
\* still be delivered, and what was spent is within two probes and one match
\* for each boundary passed.
THEOREM CollectInvariance == CollectSpec => []CollectInv
  BY CollectInitInv, CollectNextInv, PTL DEF CollectSpec

\* For every selection the work admitted for probing and the vector reserved
\* by reserve_output are enough.
THEOREM CollectAdmission == CollectSpec => []AdmissionSuffices
<1>1. CollectInv => AdmissionSuffices
  BY DEF CollectInv
<1> QED
  BY <1>1, CollectInvariance, PTL

-----------------------------------------------------------------------------
(* The loop implements MatchSequence.                                      *)

LEMMA AbstractInit == CollectInit => Abstract!Init
<1> SUFFICES ASSUME CollectInit PROVE Abstract!Init
  OBVIOUS
<1>1. len \in Nat
  BY CollectAssumption DEF CollectInit
<1>2. selected \in Abstract!Selections(len)
  BY Constants DEF CollectInit, Abstract!Selections
<1> QED
  BY <1>1, <1>2, Constants DEF CollectInit, Abstract!Init

LEMMA EmitDelivers ==
  ASSUME CollectInv, Probe, Emit(selected[start])
  PROVE  Abstract!Deliver
<1>0. Probing /\ UNCHANGED <<len, selected>>
  BY DEF Probe, Answer
<1>1. /\ selected[start] # NoMatch
      /\ ~(selected[start] = start /\ previous_end = start)
      /\ matches' = Append(matches, [start |-> start, end |-> selected[start]])
      /\ previous_end' = selected[start]
      /\ UNCHANGED status
  BY DEF Emit, Repeats
<1>2. start \in 0..len
  BY <1>0, ProbedEnd
<1>3. Abstract!Eligible(start)
  BY <1>1, <1>2, Constants DEF Abstract!Eligible, CollectInv, Behind, CollectTypeOK
<1>4. \A t \in 0..len : t < start => ~Abstract!Eligible(t)
  BY DEF CollectInv, Behind
<1> QED
  BY <1>0, <1>1, <1>2, <1>3, <1>4 DEF Abstract!Deliver, Probing

LEMMA AbstractNext == CollectInv /\ [CollectNext]_collect_vars => [Abstract!Next]_Abstract!vars
<1> SUFFICES ASSUME CollectInv, [CollectNext]_collect_vars PROVE [Abstract!Next]_Abstract!vars
  OBVIOUS
<1>1. CASE Probe
  <2>1. UNCHANGED <<len, selected>> /\ status = "running"
    BY <1>1 DEF Probe, Answer, Probing
  <2>2. CASE Miss(selected[start])
    BY <2>1, <2>2 DEF Miss, Abstract!vars
  <2>3. CASE Suppress(selected[start])
    BY <2>1, <2>3 DEF Suppress, Abstract!vars
  <2>4. CASE Emit(selected[start])
    BY <2>4, <1>1, EmitDelivers DEF Abstract!Next
  <2>5. CASE TooMany(selected[start])
    BY <2>1, <2>5 DEF TooMany, Abstract!Next, Abstract!Fail
  <2> QED
    BY <1>1, <2>2, <2>3, <2>4, <2>5 DEF Probe, Answer
<1>2. CASE Stop
  <2>1. \A s \in 0..len : ~Abstract!Eligible(s)
    BY <1>2 DEF Stop, CollectInv, Behind, CollectTypeOK
  <2> QED
    BY <1>2, <2>1 DEF Stop, Abstract!Next, Abstract!Complete
<1>3. CASE ProbeFails
  BY <1>3 DEF ProbeFails, Probing, Abstract!Next, Abstract!Fail
<1>4. CASE UNCHANGED collect_vars
  BY <1>4 DEF collect_vars, Abstract!vars
<1> QED
  BY <1>1, <1>2, <1>3, <1>4 DEF CollectNext

\* collect_sequence delivers, for every haystack and every selection, exactly
\* the non-overlapping sequence of MatchSequence.
THEOREM CollectImplements == CollectSpec => ImplementsSequence
  BY CollectInvariance, AbstractInit, AbstractNext, PTL
  DEF CollectSpec, ImplementsSequence, Abstract!Spec

-----------------------------------------------------------------------------
(* Induction over an interval, as a fact that mentions no predicate.       *)

LEMMA Interval ==
  ASSUME NEW n \in Nat
  PROVE  /\ IsFiniteSet(0..n) /\ Cardinality(0..n) = n + 1
         /\ IsFiniteSet(1..n) /\ Cardinality(1..n) = n
<1>1. IsFiniteSet(0..n) /\ Cardinality(0..n) = n + 1
  BY FS_Interval
<1>2. IsFiniteSet(1..n) /\ Cardinality(1..n) = IF 1 > n THEN 0 ELSE n - 1 + 1
  BY FS_Interval
<1> QED
  BY <1>1, <1>2

\* A nonempty set of numbers up to n has a least member.
LEMMA Least ==
  ASSUME NEW n \in Nat, NEW B \in SUBSET (0..n), B # {}
  PROVE  \E m \in B : \A k \in B : m <= k
<1> DEFINE S == 0..n
           F == {0..m : m \in B}
<1>1. IsFiniteSet(S)
  BY FS_Interval
<1>2. F \in SUBSET (SUBSET S) /\ F # {}
  <2>1. ASSUME NEW m \in B PROVE 0..m \in SUBSET S
    OBVIOUS
  <2> QED
    BY <2>1
<1>3. IsWellFoundedOn(StrictSubsetOrdering(S), SUBSET S)
  BY <1>1, FS_StrictSubsetOrderingWellFounded, FS_FiniteSubsetsOfFinite
<1>4. PICK T \in F : \A U \in F : <<U, T>> \notin StrictSubsetOrdering(S)
  BY <1>2, <1>3, WFMin
<1>5. PICK m \in B : T = 0..m
  OBVIOUS
<1>6. ASSUME NEW k \in B, k < m PROVE FALSE
  <2>1. 0..k \subseteq 0..m /\ 0..k # 0..m /\ 0..k \in F
    BY <1>6
  <2>2. <<0..k, T>> \in (SUBSET S) \X (SUBSET S)
    BY <1>2, <1>5, <2>1
  <2> QED
    BY <1>4, <1>5, <2>1, <2>2 DEF StrictSubsetOrdering
<1> QED
  BY <1>6

-----------------------------------------------------------------------------
(* The row of one boundary.                                                *)

RowStart(old) == [row |-> old, took |-> {}, work |-> 0]

\* g runs through the first m states of the row in epsilon order.
Runs(g, m, old, next, p) ==
    g = [k \in 0..m |-> IF k = 0 THEN RowStart(old)
                        ELSE RowStep(g[k - 1], RowOrder[k], next, p)]

LEMMA RunExists ==
  ASSUME NEW n \in Nat, NEW old, NEW next, NEW p
  PROVE  \E g : Runs(g, n, old, next, p)
<1> DEFINE B == {m \in 0..n : ~ \E g : Runs(g, m, old, next, p)}
<1> SUFFICES ASSUME B # {} PROVE FALSE
  OBVIOUS
<1>1. PICK m \in B : \A k \in B : m <= k
  BY Least
<1>2. CASE m = 0
  <2> DEFINE g == [k \in 0..0 |-> RowStart(old)]
  <2>1. Runs(g, 0, old, next, p)
    BY DEF Runs
  <2> QED
    BY <1>1, <1>2, <2>1
<1>3. CASE m # 0
  <2>1. m - 1 \in 0..n /\ m - 1 \notin B
    BY <1>1, <1>3
  <2>2. PICK g : Runs(g, m - 1, old, next, p)
    BY <2>1
  <2> DEFINE h == [k \in 0..m |-> IF k < m THEN g[k]
                                  ELSE RowStep(g[m - 1], RowOrder[m], next, p)]
  <2>3. ASSUME NEW k \in 0..m
        PROVE  h[k] = IF k = 0 THEN RowStart(old)
                      ELSE RowStep(h[k - 1], RowOrder[k], next, p)
    <3>1. CASE k = m
      BY <3>1, <1>3
    <3>2. CASE k # m /\ k # 0
      <4>1. k \in 0..(m - 1) /\ k - 1 \in 0..m /\ k - 1 < m /\ k < m
        BY <3>2
      <4>2. h[k] = g[k] /\ h[k - 1] = g[k - 1]
        BY <4>1
      <4>3. g[k] = RowStep(g[k - 1], RowOrder[k], next, p)
        BY <2>2, <4>1, <3>2 DEF Runs
      <4> QED
        BY <4>2, <4>3, <3>2
    <3>3. CASE k = 0
      <4>1. h[0] = g[0] /\ 0 \in 0..(m - 1)
        BY <1>3
      <4> QED
        BY <4>1, <3>3, <2>2 DEF Runs
    <3> QED
      BY <3>1, <3>2, <3>3
  <2>4. Runs(h, m, old, next, p)
    <3> HIDE DEF h
    <3>1. h = [k \in 0..m |-> h[k]]
      BY DEF h
    <3> QED
      BY <3>1, <2>3 DEF Runs
  <2> QED
    BY <1>1, <2>4
<1> QED
  BY <1>2, <1>3

\* What RowAt returns is the last of such a run.
LEMMA RowRun ==
  ASSUME Len(RowOrder) \in Nat, NEW old, NEW next, NEW p
  PROVE  \E g : /\ DOMAIN g = 0..Len(RowOrder)
                /\ g[0] = RowStart(old)
                /\ \A k \in 1..Len(RowOrder) : g[k] = RowStep(g[k - 1], RowOrder[k], next, p)
                /\ RowAt(old, next, p) = g[Len(RowOrder)]
<1> DEFINE n == Len(RowOrder)
           g == CHOOSE f : Runs(f, n, old, next, p)
<1>1. RowAt(old, next, p) = g[n]
  BY Zenon DEF RowAt, Runs, RowStart
<1>2. Runs(g, n, old, next, p)
  <2> HIDE DEF n
  <2>1. n \in Nat
    BY DEF n
  <2> QED
    BY <2>1, RunExists, Zenon
<1> HIDE DEF g
<1>3. /\ DOMAIN g = 0..n
      /\ g[0] = RowStart(old)
      /\ \A k \in 1..n : g[k] = RowStep(g[k - 1], RowOrder[k], next, p)
  BY <1>2 DEF Runs
<1> QED
  BY <1>1, <1>3

-----------------------------------------------------------------------------
(* The program of an executor.                                             *)

Runnable ==
    /\ States \in Nat
    /\ DOMAIN prog.code = 1..States
    /\ prog.entry \in 1..States
    /\ \A i \in 1..States : prog.code[i].to \in [1..Arity(prog.code[i].op) -> 1..States]

\* The epsilon order of a product program is complete.
Sorted ==
    /\ Topological(prog.code, prog.order)
    /\ Len(prog.order) = States

LEMMA ArityType ==
  ASSUME NEW op
  PROVE  Arity(op) \in 0..2
  BY DEF Arity

LEMMA Successors ==
  ASSUME Runnable, NEW i \in 1..States
  PROVE  /\ prog.code[i].to \in Seq(1..States)
         /\ Len(prog.code[i].to) = Arity(prog.code[i].op)
         /\ \A n \in 1..Arity(prog.code[i].op) : prog.code[i].to[n] \in 1..States
<1>1. prog.code[i].to \in [1..Arity(prog.code[i].op) -> 1..States]
  BY DEF Runnable
<1>2. Arity(prog.code[i].op) \in Nat
  BY ArityType
<1>3. prog.code[i].to \in Seq(1..States) /\ DOMAIN prog.code[i].to = 1..Arity(prog.code[i].op)
  BY <1>1, <1>2, SeqDef
<1>4. Len(prog.code[i].to) = Arity(prog.code[i].op)
  BY <1>2, <1>3
<1> QED
  BY <1>1, <1>3, <1>4

LEMMA OrderType ==
  ASSUME Runnable, Sorted
  PROVE  /\ Len(RowOrder) = States /\ States \in Nat
         /\ RowOrder \in [1..States -> 1..States]
         /\ \A j, k \in 1..States : RowOrder[j] = RowOrder[k] => j = k
  BY DEF Runnable, Sorted, Topological, RowOrder

\* Every state has its place in the order.
LEMMA OrderCovers ==
  ASSUME Runnable, Sorted, NEW i \in 1..States
  PROVE  \E k \in 1..States : RowOrder[k] = i
<1> DEFINE D == 1..States
<1>1. States \in Nat /\ RowOrder \in [D -> D]
      /\ \A j, k \in D : RowOrder[j] = RowOrder[k] => j = k
  BY OrderType
<1>2. IsFiniteSet(D)
  BY <1>1, FS_Interval
<1>3. RowOrder \in Injection(D, D)
  BY <1>1 DEF Injection, IsInjective
<1>4. RowOrder \in Surjection(D, D)
  BY <1>2, <1>3, FS_Injection
<1> QED
  BY <1>4 DEF Surjection

\* An instruction that reads nothing has its successors earlier in the order.
LEMMA OrderSorted ==
  ASSUME Runnable, Sorted, NEW k \in 1..States,
         prog.code[RowOrder[k]].op # "byte",
         NEW n \in 1..Arity(prog.code[RowOrder[k]].op)
  PROVE  \E j \in 1..(k - 1) : RowOrder[j] = prog.code[RowOrder[k]].to[n]
<1>1. RowOrder[k] \in 1..States /\ DOMAIN RowOrder = 1..States
  BY OrderType
<1>2. prog.code[RowOrder[k]].to \in [1..Arity(prog.code[RowOrder[k]].op) -> 1..States]
  BY <1>1 DEF Runnable
<1>3. DOMAIN prog.code[RowOrder[k]].to = 1..Arity(prog.code[RowOrder[k]].op)
  BY <1>2
<1> QED
  BY <1>1, <1>3 DEF Sorted, Topological, RowOrder

\* A row value is 0, or 1 + an end at or behind the boundary.
InReach(value, p) == value = 0 \/ value \in (p + 1)..(len + 1)

LEMMA EvaluateReach ==
  ASSUME Runnable, len = Len(hay), len \in Nat, NEW i \in 1..States, NEW p \in 0..len,
         NEW this, NEW next,
         prog.code[i].op # "byte" =>
            \A n \in 1..Arity(prog.code[i].op) : InReach(this[prog.code[i].to[n]], p),
         \A x \in 1..States : InReach(next[x], p + 1)
  PROVE  InReach(Evaluate(prog.code[i], this, next, hay, p), p)
<1> DEFINE inst == prog.code[i]
<1>1. CASE inst.op = "match"
  BY <1>1 DEF Evaluate, InReach
<1>2. CASE inst.op # "match" /\ ~Passes(inst, hay, p)
  BY <1>2 DEF Evaluate, InReach
<1>3. CASE inst.op = "byte" /\ Passes(inst, hay, p)
  <2>1. inst.to[1] \in 1..States
    BY <1>3, Successors DEF Arity
  <2>2. Evaluate(inst, this, next, hay, p) = next[inst.to[1]]
    BY <1>3 DEF Evaluate
  <2> QED
    BY <2>1, <2>2 DEF InReach
<1>4. CASE inst.op \notin {"match", "byte"} /\ Passes(inst, hay, p)
  <2>1. 1 \in 1..Arity(inst.op) /\ (inst.op = "split" => 2 \in 1..Arity(inst.op))
    BY <1>4 DEF Arity
  <2>2. InReach(this[inst.to[1]], p) /\ (inst.op = "split" => InReach(this[inst.to[2]], p))
    BY <1>4, <2>1
  <2> QED
    BY <1>4, <2>2 DEF Evaluate
<1> QED
  BY <1>1, <1>2, <1>3, <1>4

Row(r) == r \in [1..States -> Nat]

LEMMA EvaluateType ==
  ASSUME Runnable, NEW i \in 1..States, NEW p \in Nat, NEW this, NEW next,
         Row(this), Row(next)
  PROVE  Evaluate(prog.code[i], this, next, hay, p) \in Nat
<1> DEFINE inst == prog.code[i]
<1>1. CASE inst.op = "match"
  BY <1>1 DEF Evaluate
<1>2. CASE inst.op # "match"
  <2>1. inst.to[1] \in 1..States /\ (inst.op = "split" => inst.to[2] \in 1..States)
    BY <1>2, Successors DEF Arity
  <2>2. this[inst.to[1]] \in Nat /\ next[inst.to[1]] \in Nat
        /\ (inst.op = "split" => this[inst.to[2]] \in Nat)
    BY <2>1 DEF Row
  <2> QED
    BY <1>2, <2>2 DEF Evaluate
<1> QED
  BY <1>1, <1>2

\* A state depends on its successors at the same boundary only.
LEMMA EvaluateAgrees ==
  ASSUME Runnable, NEW i \in 1..States, NEW p, NEW this, NEW that, NEW next,
         prog.code[i].op # "byte" =>
            \A n \in 1..Arity(prog.code[i].op) : this[prog.code[i].to[n]] = that[prog.code[i].to[n]]
  PROVE  Evaluate(prog.code[i], this, next, hay, p) = Evaluate(prog.code[i], that, next, hay, p)
<1> DEFINE inst == prog.code[i]
<1>1. CASE inst.op \in {"match", "byte"}
  BY <1>1 DEF Evaluate
<1>2. CASE inst.op \notin {"match", "byte"}
  <2>1. 1 \in 1..Arity(inst.op) /\ (inst.op = "split" => 2 \in 1..Arity(inst.op))
    BY <1>2 DEF Arity
  <2> QED
    BY <1>2, <2>1 DEF Evaluate
<1> QED
  BY <1>1, <1>2

-----------------------------------------------------------------------------
(* What the pass over one boundary leaves, after the states in done.       *)

Done(k) == {RowOrder[j] : j \in 1..k}

LEMMA DoneStep ==
  ASSUME Runnable, Sorted, NEW k \in 1..States
  PROVE  /\ RowOrder[k] \in 1..States \ Done(k - 1)
         /\ Done(k) = Done(k - 1) \cup {RowOrder[k]}
         /\ Done(k) \subseteq 1..States
<1>1. /\ States \in Nat /\ RowOrder \in [1..States -> 1..States]
      /\ \A x, y \in 1..States : RowOrder[x] = RowOrder[y] => x = y
  BY OrderType
<1>2. 1..k = 1..(k - 1) \cup {k} /\ k \notin 1..(k - 1) /\ 1..k \subseteq 1..States
  BY <1>1
<1>3. RowOrder[k] \in 1..States
  BY <1>1
<1>4. RowOrder[k] \notin Done(k - 1)
  BY <1>1, <1>2 DEF Done
<1>5. Done(k) = Done(k - 1) \cup {RowOrder[k]}
  BY <1>2 DEF Done
<1>6. Done(k) \subseteq 1..States
  BY <1>1, <1>2 DEF Done
<1> QED
  BY <1>3, <1>4, <1>5, <1>6

\* The states in done contain the successors of their own that read nothing.
LEMMA DoneClosed ==
  ASSUME Runnable, Sorted, NEW k \in 0..States, NEW i \in Done(k),
         prog.code[i].op # "byte", NEW n \in 1..Arity(prog.code[i].op)
  PROVE  prog.code[i].to[n] \in Done(k)
<1>1. PICK j \in 1..k : i = RowOrder[j]
  BY DEF Done
<1>2. States \in Nat /\ j \in 1..States
  BY OrderType
<1>3. PICK m \in 1..(j - 1) : RowOrder[m] = prog.code[i].to[n]
  BY <1>1, <1>2, OrderSorted
<1> QED
  BY <1>2, <1>3 DEF Done

\* Those of the state about to be evaluated are done.
LEMMA DoneBefore ==
  ASSUME Runnable, Sorted, NEW k \in 1..States,
         prog.code[RowOrder[k]].op # "byte",
         NEW n \in 1..Arity(prog.code[RowOrder[k]].op)
  PROVE  prog.code[RowOrder[k]].to[n] \in Done(k - 1)
  BY OrderSorted DEF Done

LEMMA DoneAll ==
  ASSUME Runnable, Sorted
  PROVE  Done(States) = 1..States
<1>1. States \in Nat /\ RowOrder \in [1..States -> 1..States]
  BY OrderType
<1>2. \A i \in 1..States : \E k \in 1..States : RowOrder[k] = i
  BY OrderCovers
<1> QED
  BY <1>1, <1>2 DEF Done

UnitsOf(done) == UNION {Units(i) : i \in done}

LEMMA UnitsFinite ==
  ASSUME Runnable, NEW done \in SUBSET (1..States)
  PROVE  IsFiniteSet(UnitsOf(done)) /\ Cardinality(UnitsOf(done)) \in Nat
<1>1. ASSUME NEW i \in 1..States PROVE IsFiniteSet(Units(i))
  <2>1. Len(prog.code[i].to) \in Nat
    BY Successors, ArityType
  <2> QED
    BY <2>1, FS_Singleton, Interval, FS_Product DEF Units
<1>2. IsFiniteSet(done)
  BY Interval, FS_Subset DEF Runnable
<1> DEFINE F == {Units(i) : i \in done}
<1>3. IsFiniteSet(F)
  <2> DEFINE f == [i \in done |-> Units(i)]
  <2>1. f \in Surjection(done, F)
    BY DEF Surjection
  <2> QED
    BY <1>2, <2>1, FS_Surjection
<1>4. \A T \in F : IsFiniteSet(T)
  BY <1>1
<1> QED
  BY <1>3, <1>4, FS_UNION, FS_CardinalityType DEF UnitsOf

\* One state more pays for itself and its transitions.
LEMMA UnitsAdd ==
  ASSUME Runnable, NEW done \in SUBSET (1..States), NEW i \in 1..States, i \notin done
  PROVE  Cardinality(UnitsOf(done \cup {i}))
            = Cardinality(UnitsOf(done)) + 1 + Len(prog.code[i].to)
<1>1. Len(prog.code[i].to) \in Nat
  BY Successors, ArityType
<1>2. IsFiniteSet(Units(i)) /\ Cardinality(Units(i)) = Len(prog.code[i].to) + 1
  <2>1. IsFiniteSet(0..Len(prog.code[i].to))
        /\ Cardinality(0..Len(prog.code[i].to)) = Len(prog.code[i].to) + 1
    BY <1>1, Interval
  <2>2. IsFiniteSet({i}) /\ Cardinality({i}) = 1
    BY FS_Singleton
  <2>3. Cardinality({i} \X (0..Len(prog.code[i].to))) = 1 * (Len(prog.code[i].to) + 1)
        /\ IsFiniteSet({i} \X (0..Len(prog.code[i].to)))
    BY <2>1, <2>2, FS_Product
  <2> QED
    BY <1>1, <2>3 DEF Units
<1>3. UnitsOf(done \cup {i}) = UnitsOf(done) \cup Units(i)
  BY DEF UnitsOf
<1>4. UnitsOf(done) \cap Units(i) = {}
  BY DEF UnitsOf, Units
<1>5. Cardinality(UnitsOf(done) \cap Units(i)) = 0
  BY <1>4, FS_EmptySet
<1>6. IsFiniteSet(UnitsOf(done)) /\ Cardinality(UnitsOf(done)) \in Nat
  BY UnitsFinite
<1>7. Cardinality(UnitsOf(done) \cup Units(i))
        = Cardinality(UnitsOf(done)) + Cardinality(Units(i)) - Cardinality(UnitsOf(done) \cap Units(i))
  BY <1>2, <1>6, FS_Union
<1>8. Cardinality(UnitsOf(done \cup {i})) = Cardinality(UnitsOf(done) \cup Units(i))
  BY <1>3, Zenon
<1> DEFINE a == Cardinality(UnitsOf(done))
           b == Cardinality(Units(i))
           c == Cardinality(UnitsOf(done) \cap Units(i))
           d == Cardinality(UnitsOf(done \cup {i}))
           l == Len(prog.code[i].to)
<1>9. a \in Nat /\ l \in Nat /\ b = l + 1 /\ c = 0 /\ d = a + b - c
  BY <1>1, <1>2, <1>5, <1>6, <1>7, <1>8
<1> HIDE DEF a, b, c, d, l
<1>10. d = a + 1 + l
  BY <1>9
<1> QED
  BY <1>10 DEF a, d, l

\* The split takes its preferred successor.
Prefers(i, r) == prog.code[i].op = "split" /\ r[prog.code[i].to[1]] # 0

RowSound(acc, done, next, p) ==
    /\ Row(acc.row)
    /\ acc.work \in Nat
    /\ acc.work <= Cardinality(UnitsOf(done))
    /\ \A i \in done : acc.row[i] = Evaluate(prog.code[i], acc.row, next, hay, p)
    /\ acc.took = {i \in done : Prefers(i, acc.row)}
    /\ (\A x \in 1..States : InReach(next[x], p + 1)) => \A i \in done : InReach(acc.row[i], p)

LEMMA StepSound ==
  ASSUME Runnable, Sorted, len = Len(hay), len \in Nat, NEW k \in 1..States,
         NEW p \in 0..len, NEW next, Row(next),
         NEW acc, RowSound(acc, Done(k - 1), next, p)
  PROVE  RowSound(RowStep(acc, RowOrder[k], next, p), Done(k), next, p)
<1> DEFINE i == RowOrder[k]
           inst == prog.code[i]
           new == RowStep(acc, i, next, p)
<1>1. /\ i \in 1..States /\ i \notin Done(k - 1)
      /\ Done(k) = Done(k - 1) \cup {i}
      /\ Done(k) \subseteq 1..States
  BY DoneStep
<1>2. /\ Row(acc.row)
      /\ acc.work \in Nat
      /\ acc.work <= Cardinality(UnitsOf(Done(k - 1)))
      /\ \A x \in Done(k - 1) : acc.row[x] = Evaluate(prog.code[x], acc.row, next, hay, p)
      /\ acc.took = {x \in Done(k - 1) : Prefers(x, acc.row)}
      /\ (\A x \in 1..States : InReach(next[x], p + 1)) => \A x \in Done(k - 1) : InReach(acc.row[x], p)
  BY DEF RowSound
<1>3. Evaluate(inst, acc.row, next, hay, p) \in Nat
  <2>1. p \in Nat
    OBVIOUS
  <2> QED
    BY <1>1, <1>2, <2>1, EvaluateType
<1>4. Row(new.row)
  BY <1>1, <1>2, <1>3 DEF RowStep, Row
<1>5. /\ new.row[i] = Evaluate(inst, acc.row, next, hay, p)
      /\ \A x \in 1..States : x # i => new.row[x] = acc.row[x]
  BY <1>1, <1>2 DEF Row, RowStep
<1>6. /\ new.took = IF Prefers(i, acc.row) THEN acc.took \cup {i} ELSE acc.took
      /\ new.work = acc.work + 1 + (IF Prefers(i, acc.row) THEN 1 ELSE Len(inst.to))
  BY DEF RowStep, Prefers
\* The successors that a state in Done(k) reads are not written.
<1>7. ASSUME NEW x \in Done(k), prog.code[x].op # "byte",
             NEW n \in 1..Arity(prog.code[x].op)
      PROVE  /\ prog.code[x].to[n] \in Done(k - 1)
             /\ new.row[prog.code[x].to[n]] = acc.row[prog.code[x].to[n]]
  <2>1. prog.code[x].to[n] \in Done(k - 1)
    <3>1. CASE x = i
      BY <3>1, <1>7, DoneBefore
    <3>2. CASE x \in Done(k - 1)
      <4>1. k - 1 \in 0..States
        BY OrderType
      <4> QED
        BY <3>2, <4>1, <1>7, DoneClosed
    <3> QED
      BY <3>1, <3>2, <1>1
  <2> QED
    BY <2>1, <1>1, <1>5
<1>8. ASSUME NEW x \in Done(k)
      PROVE  new.row[x] = Evaluate(prog.code[x], new.row, next, hay, p)
  <2>1. Evaluate(prog.code[x], new.row, next, hay, p) = Evaluate(prog.code[x], acc.row, next, hay, p)
    <3>1. prog.code[x].op # "byte" =>
            \A n \in 1..Arity(prog.code[x].op) : new.row[prog.code[x].to[n]] = acc.row[prog.code[x].to[n]]
      BY <1>7
    <3>2. x \in 1..States
      BY <1>1
    <3> DEFINE this == new.row
               that == acc.row
    <3>3. prog.code[x].op # "byte" =>
            \A n \in 1..Arity(prog.code[x].op) : this[prog.code[x].to[n]] = that[prog.code[x].to[n]]
      BY <3>1
    <3> HIDE DEF new, this, that
    <3>4. Evaluate(prog.code[x], this, next, hay, p) = Evaluate(prog.code[x], that, next, hay, p)
      BY <3>2, <3>3, EvaluateAgrees
    <3> QED
      BY <3>4 DEF this, that
  <2>2. CASE x = i
    BY <2>1, <2>2, <1>5
  <2>3. CASE x # i
    BY <2>1, <2>3, <1>1, <1>2, <1>5
  <2> QED
    BY <2>2, <2>3
<1>9. \A x \in Done(k) : Prefers(x, new.row) <=> Prefers(x, acc.row)
  <2> SUFFICES ASSUME NEW x \in Done(k), prog.code[x].op = "split"
               PROVE  new.row[prog.code[x].to[1]] = acc.row[prog.code[x].to[1]]
    BY DEF Prefers
  <2>1. 1 \in 1..Arity(prog.code[x].op)
    BY DEF Arity
  <2> QED
    BY <2>1, <1>7
<1>10. new.took = {x \in Done(k) : Prefers(x, new.row)}
  BY <1>1, <1>2, <1>6, <1>9
<1>11. new.work \in Nat /\ new.work <= Cardinality(UnitsOf(Done(k)))
  <2>1. Len(inst.to) \in Nat /\ (inst.op = "split" => Len(inst.to) = 2)
    <3>1. Len(inst.to) = Arity(inst.op)
      BY <1>1, Successors
    <3>2. Arity(inst.op) \in 0..2 /\ (inst.op = "split" => Arity(inst.op) = 2)
      BY DEF Arity
    <3> QED
      BY <3>1, <3>2
  <2>2. Cardinality(UnitsOf(Done(k))) = Cardinality(UnitsOf(Done(k - 1))) + 1 + Len(inst.to)
    BY <1>1, UnitsAdd
  <2>3. Cardinality(UnitsOf(Done(k - 1))) \in Nat
    BY <1>1, UnitsFinite
  <2>4. Prefers(i, acc.row) => Len(inst.to) = 2
    BY <2>1 DEF Prefers
  <2> DEFINE w == new.work
             v == acc.work
             l == Len(inst.to)
             a == Cardinality(UnitsOf(Done(k - 1)))
             b == Cardinality(UnitsOf(Done(k)))
  <2>5. v \in Nat /\ l \in Nat /\ a \in Nat /\ v <= a /\ b = a + 1 + l
    BY <1>2, <2>1, <2>2, <2>3
  <2>6. (w = v + 1 + 1 /\ l = 2) \/ w = v + 1 + l
    BY <1>6, <2>4
  <2> HIDE DEF w, v, l, a, b
  <2>7. w \in Nat /\ w <= b
    BY <2>5, <2>6
  <2> QED
    BY <2>7 DEF w, b
<1>12. ASSUME \A x \in 1..States : InReach(next[x], p + 1), NEW x \in Done(k)
       PROVE  InReach(new.row[x], p)
  <2>1. CASE x = i
    <3>1. inst.op # "byte" =>
            \A n \in 1..Arity(inst.op) : InReach(acc.row[inst.to[n]], p)
      BY <1>2, <1>7, <1>12, <2>1
    <3>2. InReach(Evaluate(inst, acc.row, next, hay, p), p)
      BY <3>1, <1>1, <1>12, EvaluateReach
    <3> QED
      BY <3>2, <2>1, <1>5
  <2>2. CASE x # i
    BY <2>2, <1>1, <1>2, <1>5, <1>12
  <2> QED
    BY <2>1, <2>2
<1> QED
  BY <1>4, <1>8, <1>10, <1>11, <1>12 DEF RowSound

\* The finished row solves the equations of its boundary, whatever the buffer
\* held before, and its work is within what maximum_build_work allows.
LEMMA RowIsSound ==
  ASSUME Runnable, Sorted, len = Len(hay), len \in Nat,
         NEW p \in 0..len, NEW old, Row(old), NEW next, Row(next)
  PROVE  RowSound(RowAt(old, next, p), 1..States, next, p)
<1> DEFINE n == Len(RowOrder)
<1>1. n = States /\ n \in Nat
  BY OrderType
<1>2. PICK g : /\ g[0] = RowStart(old)
               /\ \A k \in 1..n : g[k] = RowStep(g[k - 1], RowOrder[k], next, p)
               /\ RowAt(old, next, p) = g[n]
  BY <1>1, RowRun
<1> DEFINE B == {k \in 0..n : ~RowSound(g[k], Done(k), next, p)}
<1>3. ASSUME B # {} PROVE FALSE
  <2>1. PICK k \in B : \A j \in B : k <= j
    BY <1>1, <1>3, Least
  <2>2. CASE k = 0
    <3>1. Done(0) = {}
      BY DEF Done
    <3>2. UnitsOf({}) = {} /\ Cardinality({}) = 0
      BY FS_EmptySet DEF UnitsOf
    <3>3. RowSound(RowStart(old), {}, next, p)
      <4>1. /\ RowStart(old).row = old
            /\ RowStart(old).took = {}
            /\ RowStart(old).work = 0
        BY DEF RowStart
      <4>2. Cardinality(UnitsOf({})) = 0
        BY <3>2, Zenon
      <4> QED
        BY <4>1, <4>2 DEF RowSound
    <3> QED
      BY <2>1, <2>2, <3>1, <3>3, <1>2
  <2>3. CASE k # 0
    <3>1. k \in 1..States /\ k - 1 \in 0..n /\ k - 1 \notin B
      BY <1>1, <2>1, <2>3
    <3>2. RowSound(g[k - 1], Done(k - 1), next, p)
      BY <3>1
    <3>3. RowSound(RowStep(g[k - 1], RowOrder[k], next, p), Done(k), next, p)
      BY <3>1, <3>2, StepSound
    <3> QED
      BY <2>1, <3>1, <3>3, <1>1, <1>2
  <2> QED
    BY <2>2, <2>3
<1>4. RowSound(g[n], Done(n), next, p)
  BY <1>1, <1>3
<1> QED
  BY <1>1, <1>2, <1>4, DoneAll

-----------------------------------------------------------------------------
(* The invariant of the executors that run the product program.            *)

Inputs ==
    /\ job \in [ast : Expressions, hay : Haystacks, engine : AllEngines]
    /\ len = Len(hay) /\ len \in Nat
    /\ selected = Selects(job.ast, hay)

\* The loop, whatever the probes answer.
Loop ==
    /\ start \in 0..(len + 1)
    /\ previous_end \in NoMatch..len
    /\ previous_end <= start
    /\ matches \in Seq(Spans)
    /\ probes \in Nat
    /\ status \in {"running", "done", "failed"}
    /\ status = "running" => Spent

\* What a row may cost.
CostOf(code) == Cardinality(UNION {{i} \X (0..Len(code[i].to)) : i \in 1..Len(code)})
RowCost == CostOf(prog.code)

\* The place of a state in the epsilon order.
PlaceIn(order, i) == CHOOSE k \in DOMAIN order : order[k] = i
Place(i) == PlaceIn(prog.order, i)

\* What the replay under way has cost at most: a probe, one visit of each
\* state at each boundary it has left, and the states of this boundary that
\* come after the present one in the order.
Replayed ==
    IF phase = "replay" THEN 1 + States * (at - start) + (States - Place(pc)) ELSE 0

\* The work done is covered by the rows built, the starts probed and, for a
\* log, the boundaries that replays have crossed.
Paid ==
    CASE job.engine = "full"   -> work <= (len - position) * RowCost + probes
      [] job.engine = "oracle" -> work <= probes * BuildWork + (len - position) * RowCost + probes
      [] OTHER -> work <= (len - position) * RowCost + probes + States * (start + probes) + Replayed

\* The rows that are built reach no boundary before their own.
Reaches(r, p) == r \in [1..States -> Nat] /\ \A i \in 1..States : InReach(r[i], p)

Pass ==
    /\ limit \in Int /\ limit >= MaximumWork
    /\ work \in Nat
    /\ position \in -1..len
    /\ phase = "build" <=> position >= 0
    /\ phase = "build" => start <= len /\ Row(row) /\ Reaches(next_row, position + 1)
    /\ Table => /\ store \in Seq([1..States -> Nat])
                /\ Len(store) = len - position
                /\ \A p \in 0..len : p > position => Reaches(store[len - p + 1], p)
    /\ phase = "replay" => /\ job.engine \in {"log", "rows"}
                           /\ start <= len /\ at \in start..len /\ pc \in 1..States
    /\ Paid

Product ==
    /\ phase \in {"new", "compiled", "build", "collect", "replay"}
    /\ phase # "new" => Runnable /\ Sorted
    /\ phase = "compiled" => work = 0 /\ probes = 0 /\ start = 0 /\ (Table => store = <<>>)
    /\ phase = "new" => work = 0 /\ probes = 0 /\ start = 0 /\ (Table => store = <<>>)
    /\ status = "running" /\ phase \in {"build", "collect", "replay"} => Pass

LabInv ==
    /\ Inputs
    /\ ~Guarded => Loop /\ Product /\ error # "work"

-----------------------------------------------------------------------------
(* One step of the loop.                                                   *)

LEMMA SpentProbe ==
  ASSUME Loop, Inputs, Probing
  PROVE  /\ probes \in 0..(2 * len + 1)
         /\ start \in 0..len
<1>1. start \in 0..len /\ len \in Nat /\ probes \in Nat /\ probes <= 2 * start + Touching
  BY DEF Loop, Inputs, Probing, Spent
<1>2. Touching \in 0..1
  BY DEF Touching
<1> QED
  BY <1>1, <1>2

\* An answer in reach keeps the loop within two probes for each boundary, and
\* the next start is not before the end of the match.
LEMMA AnswerLoop ==
  ASSUME Inputs, Loop, NEW STATE end, end = NoMatch \/ end \in start..len,
         Answer(end), len' = len
  PROVE  /\ Loop'
         /\ probes' = probes + 1
         /\ start' >= start
         /\ status' = "running" => end = NoMatch \/ start' >= end
<1>0. /\ Probing /\ probes' = probes + 1
      /\ len \in Nat /\ start \in 0..len /\ probes \in Nat
      /\ previous_end \in Int /\ previous_end >= 0 - 1 /\ previous_end <= len /\ previous_end <= start
      /\ matches \in Seq(Spans) /\ Len(matches) \in Nat
      /\ status = "running" /\ Spent
  BY Constants DEF Answer, Loop, Inputs, Probing
<1>1. CASE Miss(end)
  BY <1>0, <1>1, Constants DEF Miss, Loop, Spent, Touching
<1>2. CASE Suppress(end)
  BY <1>0, <1>2, Constants DEF Suppress, Repeats, Loop, Spent, Touching
<1>3. CASE Emit(end)
  <2>1. /\ end \in start..len /\ ~(end = start /\ previous_end = start)
        /\ matches' = Append(matches, [start |-> start, end |-> end])
        /\ previous_end' = end /\ start' = end /\ status' = "running"
    BY <1>0, <1>3 DEF Emit, Repeats
  <2>2. matches' \in Seq(Spans) /\ Len(matches') = Len(matches) + 1
    <3>1. [start |-> start, end |-> end] \in Spans
      BY <1>0, <2>1 DEF Spans
    <3> QED
      BY <1>0, <2>1, <3>1
  <2>3. Spent'
    <3>1. CASE end = start
      BY <3>1, <1>0, <2>1, <2>2 DEF Spent, Touching
    <3>2. CASE end > start
      BY <3>2, <1>0, <2>1, <2>2 DEF Spent, Touching
    <3> QED
      BY <3>1, <3>2, <2>1, <1>0
  <2> QED
    BY <1>0, <2>1, <2>2, <2>3, Constants DEF Loop
<1>4. CASE TooMany(end)
  BY <1>0, <1>4, Constants DEF TooMany, Loop
<1> QED
  BY <1>1, <1>2, <1>3, <1>4 DEF Answer

-----------------------------------------------------------------------------
(* The arithmetic of the admission.                                        *)

LEMMA CostType ==
  ASSUME Runnable, Inputs
  PROVE  /\ RowCost \in Nat
         /\ RowCost = Cardinality(UnitsOf(1..States))
         /\ BuildWork = (len + 1) * RowCost
         /\ BuildWork \in Nat
<1>1. RowCost = Cardinality(UnitsOf(1..States))
  BY Zenon DEF RowCost, CostOf, UnitsOf, Units, States
<1>2. RowCost \in Nat
  BY <1>1, UnitsFinite
<1>3. BuildWork = (len + 1) * RowCost
  BY Zenon DEF BuildWork, RowCost, CostOf, Units, States, Boundaries
<1>4. len \in Nat
  BY DEF Inputs
<1> HIDE DEF RowCost
<1>5. (len + 1) * RowCost \in Nat
  BY <1>2, <1>4
<1> QED
  BY <1>1, <1>2, <1>3, <1>5

LEMMA PlaceType ==
  ASSUME Runnable, Sorted, NEW i \in 1..States
  PROVE  Place(i) \in 1..States /\ RowOrder[Place(i)] = i
<1>1. DOMAIN prog.order = 1..States
  BY OrderType DEF RowOrder
<1>2. \E k \in DOMAIN prog.order : prog.order[k] = i
  BY <1>1, OrderCovers DEF RowOrder
<1> QED
  BY <1>1, <1>2 DEF Place, PlaceIn, RowOrder

\* A step that reads nothing goes to an earlier place.
LEMMA PlaceDecreases ==
  ASSUME Runnable, Sorted, NEW i \in 1..States, prog.code[i].op # "byte",
         NEW n \in 1..Arity(prog.code[i].op)
  PROVE  Place(prog.code[i].to[n]) < Place(i)
<1> DEFINE to == prog.code[i].to[n]
<1>1. Place(i) \in 1..States /\ RowOrder[Place(i)] = i
  BY PlaceType
<1>2. PICK j \in 1..(Place(i) - 1) : RowOrder[j] = to
  BY <1>1, OrderSorted
<1>3. to \in 1..States
  BY Successors
<1>4. Place(to) \in 1..States /\ RowOrder[Place(to)] = to
  BY <1>3, PlaceType
<1>5. j \in 1..States /\ States \in Nat
  BY <1>1, <1>2, OrderType
<1>6. Place(to) = j
  BY <1>2, <1>4, <1>5, OrderType
<1> QED
  BY <1>1, <1>2, <1>6

\* One row more.
LEMMA OneRow ==
  ASSUME NEW l \in Nat, NEW p \in 0..l, NEW c \in Nat
  PROVE  /\ (l - (p - 1)) * c = (l - p) * c + c
         /\ (l - (p - 1)) * c <= (l + 1) * c
         /\ (l - p) * c \in Nat
         /\ (l - (p - 1)) * c \in Nat
<1>1. (l - (p - 1)) * c = (l - p) * c + c
  OBVIOUS
<1>2. (l + 1) * c = (l - (p - 1)) * c + p * c
  OBVIOUS
<1>3. p * c \in Nat /\ (l - p) * c \in Nat
  OBVIOUS
<1> QED
  BY <1>1, <1>2, <1>3

LEMMA Monotone ==
  ASSUME NEW a \in Nat, NEW b \in Nat, NEW c \in Nat, a <= b
  PROVE  c * a <= c * b /\ a * c <= b * c /\ a * c \in Nat /\ c * a = a * c
<1>1. PICK d \in Nat : b = a + d
  <2> WITNESS b - a \in Nat
  <2> QED
    OBVIOUS
<1>2. b * c = a * c + d * c /\ d * c \in Nat /\ a * c \in Nat
  BY <1>1
<1>3. c * a = a * c /\ c * b = b * c
  OBVIOUS
<1> QED
  BY <1>2, <1>3

\* The bound of each executor, spelled out.
LEMMA Maximum ==
  ASSUME Runnable, Inputs
  PROVE  /\ job.engine = "full" => MaximumWork = BuildWork + 2 * (len + 1)
         /\ job.engine = "oracle" => MaximumWork = BuildWork * (2 * (len + 1) + 1) + 2 * (len + 1)
         /\ job.engine \in {"log", "rows"} =>
                MaximumWork = BuildWork + 2 * (len + 1) + 4 * States * (len + 1)
  BY DEF MaximumWork, RootWork, ReplayWork, Boundaries

\* A row more is within what was admitted.
LEMMA BuildCovered ==
  ASSUME Inputs, Loop, Runnable, Pass, status = "running", phase = "build", ~Guarded,
         NEW w \in Nat, w <= RowCost
  PROVE  /\ work + w <= limit
         /\ job.engine = "full" => work + w <= (len - (position - 1)) * RowCost + probes
         /\ job.engine = "oracle" =>
                work + w <= probes * BuildWork + (len - (position - 1)) * RowCost + probes
         /\ job.engine \in {"log", "rows"} =>
                work + w <= (len - (position - 1)) * RowCost + probes + States * (start + probes)
<1> DEFINE C == RowCost
           B == BuildWork
           q == (len - position) * C
           r == (len - (position - 1)) * C
           s == States * (start + probes)
           o == probes * B
<1>1. start <= len /\ position \in 0..len /\ len \in Nat /\ work \in Nat /\ limit \in Int
      /\ limit >= MaximumWork
  BY DEF Pass, Inputs
<1>2. probes \in 0..(2 * len + 1) /\ start \in 0..len
  BY <1>1, SpentProbe DEF Probing
<1>3. C \in Nat /\ B = (len + 1) * C /\ B \in Nat
  BY CostType
<1>4. States \in Nat
  BY DEF Runnable
<1> HIDE DEF C, B
<1>5. r = q + C /\ r <= B /\ q \in Nat /\ r \in Nat
  BY <1>1, <1>3, OneRow
<1>6. s <= States * (4 * (len + 1)) /\ s \in Nat
  <2>1. start + probes \in Nat /\ 4 * (len + 1) \in Nat /\ start + probes <= 4 * (len + 1)
    BY <1>1, <1>2
  <2> HIDE DEF s
  <2>2. States * (start + probes) <= States * (4 * (len + 1))
        /\ (start + probes) * States \in Nat
        /\ States * (start + probes) = (start + probes) * States
    BY <2>1, <1>4, Monotone
  <2> QED
    BY <2>2 DEF s
<1>7. o <= (2 * len + 1) * B /\ o \in Nat
  <2>1. probes \in Nat /\ 2 * len + 1 \in Nat /\ probes <= 2 * len + 1
    BY <1>1, <1>2
  <2> QED
    BY <2>1, <1>3, Monotone
<1>8. CASE job.engine = "full"
  <2>1. work <= q + probes
    BY <1>8 DEF Pass, Paid, C
  <2>2. MaximumWork = B + 2 * (len + 1)
    BY <1>8, Maximum DEF B
  <2> HIDE DEF q, r
  <2>3. work + w <= r + probes /\ work + w <= limit
    BY <2>1, <2>2, <1>1, <1>2, <1>3, <1>5 DEF C
  <2> QED
    BY <2>3, <1>8 DEF r, C
<1>9. CASE job.engine = "oracle"
  <2>1. work <= o + q + probes
    BY <1>9 DEF Pass, Paid, C, B
  <2>2. MaximumWork = B * (2 * (len + 1) + 1) + 2 * (len + 1)
    BY <1>9, Maximum DEF B
  <2>3. B * (2 * (len + 1) + 1) = (2 * len + 1) * B + B + B
    BY <1>1, <1>3
  <2> DEFINE m == (2 * len + 1) * B
  <2>4. m \in Int /\ o <= m /\ MaximumWork = m + B + B + 2 * (len + 1)
    BY <1>1, <1>3, <1>7, <2>2, <2>3
  <2> HIDE DEF q, r, o, m
  <2>5. work + w <= o + r + probes /\ work + w <= limit
    BY <2>1, <2>4, <1>1, <1>2, <1>3, <1>5, <1>7 DEF C
  <2> QED
    BY <2>5, <1>9 DEF r, o, C, B
<1>10. CASE job.engine \in {"log", "rows"}
  <2>1. work <= q + probes + s
    <3>1. work <= (len - position) * RowCost + probes + States * (start + probes) + 0
      BY <1>10 DEF Pass, Paid, Replayed
    <3> QED
      BY <3>1, <1>1, <1>2, <1>5, <1>6 DEF C
  <2>2. MaximumWork = B + 2 * (len + 1) + 4 * States * (len + 1)
    BY <1>10, Maximum DEF B
  <2>3. 4 * States * (len + 1) = States * (4 * (len + 1)) /\ States * (4 * (len + 1)) \in Nat
    BY <1>1, <1>4
  <2> HIDE DEF q, r, s
  <2>4. work + w <= r + probes + s
    BY <2>1, <1>1, <1>2, <1>3, <1>5, <1>6 DEF C
  <2> DEFINE m == States * (4 * (len + 1))
  <2>5. m \in Nat /\ s <= m /\ MaximumWork = B + 2 * (len + 1) + m
    BY <2>2, <2>3, <1>6
  <2> HIDE DEF m
  <2>6. work + w <= limit
    BY <2>4, <2>5, <1>1, <1>2, <1>3, <1>5, <1>6
  <2> QED
    BY <2>4, <2>6, <1>10 DEF r, s, C
<1> QED
  BY <1>8, <1>9, <1>10 DEF Inputs, AllEngines, Guarded

\* One probe more is within what was admitted, unless it begins a replay, in
\* which case the replay is paid for as it goes.
LEMMA ProbeCovered ==
  ASSUME Inputs, Loop, Runnable, Pass, Probing, phase = "collect", ~Guarded
  PROVE  work + 1 <= limit
<1> DEFINE B == BuildWork
           s == States * (start + probes)
           o == probes * B
<1>1. position = -1 /\ len \in Nat /\ work \in Nat /\ limit \in Int /\ limit >= MaximumWork
  BY DEF Pass, Inputs
<1>2. probes \in 0..(2 * len + 1) /\ start \in 0..len
  BY <1>1, SpentProbe
<1>3. (len - position) * RowCost = B /\ B \in Nat
  <2>1. len - position = len + 1
    BY <1>1
  <2> QED
    BY <2>1, CostType
<1>4. States \in Nat
  BY DEF Runnable
<1> HIDE DEF B
<1>6. s <= States * (4 * (len + 1)) /\ s \in Nat
  <2>1. start + probes \in Nat /\ 4 * (len + 1) \in Nat /\ start + probes <= 4 * (len + 1)
    BY <1>1, <1>2
  <2>2. States * (start + probes) <= States * (4 * (len + 1))
        /\ (start + probes) * States \in Nat
        /\ States * (start + probes) = (start + probes) * States
    BY <2>1, <1>4, Monotone
  <2> QED
    BY <2>2
<1>7. o <= (2 * len + 1) * B /\ o \in Nat
  <2>1. probes \in Nat /\ 2 * len + 1 \in Nat /\ probes <= 2 * len + 1
    BY <1>1, <1>2
  <2> QED
    BY <2>1, <1>3, Monotone
<1>8. CASE job.engine = "full"
  <2>1. work <= B + probes
    BY <1>3, <1>8 DEF Pass, Paid
  <2>2. MaximumWork = B + 2 * (len + 1)
    BY <1>8, Maximum DEF B
  <2> QED
    BY <2>1, <2>2, <1>1, <1>2, <1>3
<1>9. CASE job.engine = "oracle"
  <2>1. work <= o + B + probes
    BY <1>3, <1>9 DEF Pass, Paid, B
  <2>2. MaximumWork = B * (2 * (len + 1) + 1) + 2 * (len + 1)
    BY <1>9, Maximum DEF B
  <2>3. B * (2 * (len + 1) + 1) = (2 * len + 1) * B + B + B
    BY <1>1, <1>3
  <2> DEFINE m == (2 * len + 1) * B
  <2>4. m \in Int /\ o <= m /\ MaximumWork = m + B + B + 2 * (len + 1)
    BY <1>1, <1>3, <1>7, <2>2, <2>3
  <2> HIDE DEF o, m
  <2> QED
    BY <2>1, <2>4, <1>1, <1>2, <1>3, <1>7
<1>10. CASE job.engine \in {"log", "rows"}
  <2>1. work <= B + probes + s
    <3>1. work <= (len - position) * RowCost + probes + States * (start + probes) + 0
      BY <1>10 DEF Pass, Paid, Replayed
    <3> QED
      BY <3>1, <1>1, <1>2, <1>3, <1>6
  <2>2. MaximumWork = B + 2 * (len + 1) + 4 * States * (len + 1)
    BY <1>10, Maximum DEF B
  <2>3. 4 * States * (len + 1) = States * (4 * (len + 1)) /\ States * (4 * (len + 1)) \in Nat
    BY <1>1, <1>4
  <2> DEFINE m == States * (4 * (len + 1))
  <2>5. m \in Nat /\ s <= m /\ MaximumWork = B + 2 * (len + 1) + m
    BY <2>2, <2>3, <1>6
  <2> HIDE DEF m, s
  <2> QED
    BY <2>1, <2>5, <1>1, <1>2, <1>3, <1>6
<1> QED
  BY <1>8, <1>9, <1>10 DEF Inputs, AllEngines, Guarded

\* So is one visit more of a replay.
LEMMA ReplayCovered ==
  ASSUME Inputs, Loop, Runnable, Sorted, Pass, Replaying, ~Guarded
  PROVE  work + 1 <= limit
<1> DEFINE B == BuildWork
           P == Place(pc)
<1>1. /\ position = -1 /\ len \in Nat /\ work \in Nat /\ limit \in Int /\ limit >= MaximumWork
      /\ start <= len /\ at \in start..len /\ pc \in 1..States /\ job.engine \in {"log", "rows"}
  BY DEF Pass, Inputs, Replaying
<1>2. probes \in 0..(2 * len + 1) /\ start \in 0..len
  BY <1>1, SpentProbe DEF Probing, Replaying
<1>3. (len - position) * RowCost = B /\ B \in Nat
  <2>1. len - position = len + 1
    BY <1>1
  <2> QED
    BY <2>1, CostType
<1>4. States \in Nat /\ P \in 1..States
  BY <1>1, PlaceType DEF Runnable
<1> HIDE DEF B, P
<1>5. work <= B + probes + States * (start + probes) + (1 + States * (at - start) + (States - P))
  BY <1>1, <1>3 DEF Pass, Paid, Replayed, Replaying, P
<1>6. States * (start + probes) + States * (at - start) + States = States * (at + probes + 1)
  BY <1>1, <1>2, <1>4
<1>7. at + probes + 1 \in Nat /\ 4 * (len + 1) \in Nat /\ at + probes + 1 <= 4 * (len + 1)
  BY <1>1, <1>2
<1>8. States * (at + probes + 1) <= States * (4 * (len + 1))
  BY <1>4, <1>7, Monotone
<1>9. MaximumWork = B + 2 * (len + 1) + States * (4 * (len + 1))
  <2>1. MaximumWork = B + 2 * (len + 1) + 4 * States * (len + 1)
    BY <1>1, Maximum DEF B
  <2>2. 4 * States * (len + 1) = States * (4 * (len + 1))
    BY <1>1, <1>4
  <2> QED
    BY <2>1, <2>2
<1> DEFINE x == States * (start + probes)
           y == States * (at - start)
           z == States * (at + probes + 1)
           m == States * (4 * (len + 1))
<1>10. x \in Int /\ y \in Int /\ z \in Int /\ m \in Int
  BY <1>1, <1>2, <1>4
<1> HIDE DEF x, y, z, m
<1>11. work <= B + probes + x + (1 + y + (States - P)) /\ x + y + States = z /\ z <= m
       /\ MaximumWork = B + 2 * (len + 1) + m
  BY <1>5, <1>6, <1>8, <1>9 DEF x, y, z, m
<1> QED
  BY <1>11, <1>10, <1>1, <1>2, <1>3, <1>4

-----------------------------------------------------------------------------
(* Steps that keep the program and the input.                              *)

Frozen == job' = job /\ len' = len /\ selected' = selected /\ prog' = prog

LEMMA FrozenProgram ==
  ASSUME Frozen
  PROVE  /\ Inputs => Inputs'
         /\ Runnable => Runnable'
         /\ Sorted => Sorted'
         /\ States' = States /\ RowCost' = RowCost /\ BuildWork' = BuildWork
         /\ MaximumWork' = MaximumWork
         /\ \A i : Place(i)' = Place(i)
         /\ Guarded' = Guarded /\ Table' = Table
         /\ \A r, p : Reaches(r, p)' = Reaches(r, p)
         /\ \A r : Row(r)' = Row(r)
<1>1. Inputs => Inputs'
  BY DEF Frozen, Inputs, hay
<1>2. States' = States
  BY DEF Frozen, States
<1>3. Runnable => Runnable'
  BY <1>2 DEF Frozen, Runnable
<1>4. Sorted => Sorted'
  BY <1>2 DEF Frozen, Sorted
<1>5. RowCost' = RowCost
  BY DEF Frozen, RowCost
<1>6. BuildWork' = BuildWork
  BY DEF Frozen, BuildWork, Units, States, Boundaries
<1>7. MaximumWork' = MaximumWork
  BY <1>2, <1>6 DEF Frozen, MaximumWork, RootWork, ReplayWork, Boundaries, Cells, GuardSpace, Radix, hay
<1>8. \A i : Place(i)' = Place(i)
  BY DEF Frozen, Place
<1>9. Guarded' = Guarded /\ Table' = Table
  BY DEF Frozen, Guarded, Table
<1>10. \A r, p : Reaches(r, p)' = Reaches(r, p)
  BY <1>2 DEF Frozen, Reaches, InReach
<1>11. \A r : Row(r)' = Row(r)
  BY <1>2 DEF Row
<1> QED
  BY <1>1, <1>2, <1>3, <1>4, <1>5, <1>6, <1>7, <1>8, <1>9, <1>10, <1>11

LEMMA LabInitInv == Init => LabInv
<1> SUFFICES ASSUME Init PROVE LabInv
  OBVIOUS
<1>1. PICK e \in Expressions, h \in Haystacks :
        /\ selected = Selects(e, h)
        /\ len = Len(h)
        /\ job \in [ast : {e}, hay : {h}, engine : Engines]
  BY DEF Init
<1>2. job.ast = e /\ job.hay = h /\ job \in [ast : Expressions, hay : Haystacks, engine : AllEngines]
  BY <1>1, InputAssumption
<1>3. len \in Nat
  BY <1>1, SelectionAssumption, CollectAssumption
<1>4. Inputs
  BY <1>1, <1>2, <1>3 DEF Inputs, hay
<1>5. Loop
  BY <1>3, Constants DEF Init, Loop, Spent, Touching, Spans
<1>6. Product /\ error # "work"
  BY DEF Init, Product, Table
<1> QED
  BY <1>4, <1>5, <1>6 DEF LabInv

LEMMA FailLabInv ==
  ASSUME LabInv, NEW reason, reason # "work", Fail(reason)
  PROVE  LabInv'
<1>1. Frozen /\ status' = "failed" /\ error' = reason
      /\ UNCHANGED <<phase, work, store, collecting>>
  BY DEF Fail, Frozen, input, building
<1>2. Inputs' /\ (Runnable => Runnable') /\ (Sorted => Sorted') /\ Guarded' = Guarded /\ Table' = Table
  BY <1>1, FrozenProgram DEF LabInv
<1>3. ASSUME ~Guarded PROVE Loop' /\ Product'
  <2>1. Loop /\ Product
    BY <1>3 DEF LabInv
  <2>2. Loop'
    BY <1>1, <2>1 DEF Loop, collecting, Frozen
  <2>3. Product'
    BY <1>1, <1>2, <2>1 DEF Product, collecting
  <2> QED
    BY <2>2, <2>3
<1> QED
  BY <1>1, <1>2, <1>3 DEF LabInv

\* The assumption on the compiler gives a program that can be run.
LEMMA NewLabInv ==
  ASSUME LabInv, New
  PROVE  LabInv'
<1> DEFINE b == Compiles(Guarded, job.ast)
           order == IF Guarded THEN <<>> ELSE Orders(b.code)
<1>1. CASE \E reason \in {"invalid", "limit", "cycle"} : Fail(reason)
  BY <1>1, FailLabInv
<1>2. CASE /\ Accepts(job.ast)
           /\ Guarded \/ Len(order) = Len(b.code)
           /\ prog' = [code |-> b.code, entry |-> b.at, guards |-> b.guards, order |-> order]
           /\ phase' = "compiled"
           /\ phase = "new"
           /\ UNCHANGED <<job, len, selected, limit, work, building, replaying, solving, error, collecting, status>>
  <2>1. Inputs'
    BY <1>2 DEF LabInv, Inputs, hay
  <2>2. ASSUME ~Guarded PROVE Loop' /\ Product' /\ error' # "work"
    <3>1. Loop /\ Product /\ error # "work" /\ job.ast \in Expressions
      BY <2>2 DEF LabInv, Inputs
    <3>2. b = Compiles(FALSE, job.ast) /\ order = Orders(b.code)
      <4>1. Guarded = FALSE
        BY <2>2 DEF Guarded
      <4> QED
        BY <4>1, Zenon
    <3>3. Executable(b) /\ Topological(b.code, order)
      BY <1>2, <3>1, <3>2, CompilerAssumption
    <3>4. prog'.code = b.code /\ prog'.entry = b.at /\ prog'.order = order
      BY <1>2
    <3> HIDE DEF b, order
    <3>5. Runnable'
      BY <3>3, <3>4 DEF Runnable, Executable, States
    <3>6. Sorted'
      BY <1>2, <2>2, <3>3, <3>4 DEF Sorted, States
    <3>7. Loop'
      BY <1>2, <3>1 DEF Loop, collecting, Spent, Touching
    <3>8. Product'
      BY <1>2, <3>1, <3>5, <3>6 DEF Product, collecting, building, Table
    <3> QED
      BY <1>2, <3>1, <3>7, <3>8
  <2>3. Guarded' = Guarded
    BY <1>2 DEF Guarded
  <2> QED
    BY <2>1, <2>2, <2>3 DEF LabInv
<1> QED
  BY <1>1, <1>2 DEF New, CompileJob

LEMMA ZerosReach ==
  ASSUME Inputs, Runnable, NEW p
  PROVE  Row(Zeros) /\ Reaches(Zeros, p)
  BY DEF Row, Reaches, InReach, Zeros

LEMMA AdmitLabInv ==
  ASSUME LabInv, Admit
  PROVE  LabInv'
<1>1. PICK slack \in WorkSlack :
        IF slack < 0 THEN Fail("limit")
        ELSE /\ limit' = MaximumWork + slack
             /\ phase' = IF Guarded THEN "collect" ELSE "build"
             /\ row' = Zeros /\ next_row' = Zeros
             /\ position' = len
             /\ UNCHANGED <<job, len, selected, prog, work, store, replaying, solving, error, collecting, status>>
  BY DEF Admit
<1>2. slack \in Int
  BY InputAssumption
<1>3. CASE slack < 0
  BY <1>1, <1>3, FailLabInv
<1>4. CASE ~(slack < 0)
  <2>1. /\ limit' = MaximumWork + slack
        /\ phase' = IF Guarded THEN "collect" ELSE "build"
        /\ row' = Zeros /\ next_row' = Zeros
        /\ position' = len
        /\ UNCHANGED <<job, len, selected, prog, work, store, replaying, solving, error, collecting, status>>
        /\ phase = "compiled"
    BY <1>1, <1>4 DEF Admit
  <2>2. Frozen
    BY <2>1 DEF Frozen
  <2>3. Inputs' /\ Guarded' = Guarded
    BY <2>2, FrozenProgram DEF LabInv
  <2>4. ASSUME ~Guarded PROVE Loop' /\ Product' /\ error' # "work"
    <3>1. Inputs /\ Loop /\ Product /\ error # "work" /\ Runnable /\ Sorted
          /\ work = 0 /\ probes = 0 /\ start = 0 /\ (Table => store = <<>>)
      BY <2>1, <2>4 DEF LabInv, Product
    <3>2. Runnable' /\ Sorted' /\ States' = States /\ RowCost' = RowCost /\ BuildWork' = BuildWork
          /\ MaximumWork' = MaximumWork /\ Table' = Table
          /\ (\A r, p : Reaches(r, p)' = Reaches(r, p)) /\ (\A r : Row(r)' = Row(r))
      BY <2>2, <3>1, FrozenProgram
    <3>3. Loop'
      BY <2>1, <3>1 DEF Loop, collecting, Spent, Touching
    <3>4. phase' = "build" /\ len \in Nat
      BY <2>1, <2>4, <3>1 DEF Inputs
    <3>5. RowCost \in Nat /\ BuildWork \in Nat /\ States \in Nat
      BY <3>1, CostType DEF Runnable
    <3>6. limit' \in Int /\ limit' >= MaximumWork
      <4>1. MaximumWork \in Int
        <5>1. BuildWork * (2 * (len + 1) + 1) \in Int /\ 4 * States * (len + 1) \in Int
          BY <3>4, <3>5
        <5> QED
          BY <3>1, <3>4, <3>5, <5>1, <2>4, Maximum DEF Inputs, AllEngines, Guarded
      <4> QED
        BY <4>1, <1>2, <1>4, <2>1
    <3>7. Paid'
      <4>1. (len - len) * RowCost = 0 /\ 0 * BuildWork = 0 /\ States * (0 + 0) = 0
        BY <3>4, <3>5
      <4>2. Replayed' = 0
        BY <3>4 DEF Replayed
      <4> QED
        BY <4>1, <4>2, <3>1, <3>2, <3>4, <2>1 DEF Paid, collecting
    <3>8. Row(row)' /\ Reaches(next_row, position + 1)'
      <4>1. Row(Zeros) /\ Reaches(Zeros, len + 1)
        BY <3>1, ZerosReach
      <4> QED
        BY <4>1, <2>1, <3>2 DEF Row, Reaches, InReach
    <3>9. Table => /\ store' \in Seq([1..States -> Nat])
                   /\ Len(store') = len - position'
                   /\ \A p \in 0..len : ~(p > position')
      BY <2>1, <3>1, <3>4
    <3>10. Pass'
      BY <2>1, <3>1, <3>2, <3>4, <3>6, <3>7, <3>8, <3>9 DEF Pass, collecting
    <3>11. Product'
      BY <3>2, <3>4, <3>10 DEF Product
    <3> QED
      BY <2>1, <3>1, <3>3, <3>11
  <2> QED
    BY <2>3, <2>4 DEF LabInv
<1> QED
  BY <1>3, <1>4

LEMMA AllocationLabInv ==
  ASSUME LabInv, AllocationFails
  PROVE  LabInv'
  BY FailLabInv DEF AllocationFails

\* A row is charged, stored and becomes the one the next is computed from.
LEMMA BuildRowLabInv ==
  ASSUME LabInv, BuildRow
  PROVE  LabInv'
<1> DEFINE old == IF Table THEN Zeros ELSE row
           r == RowAt(old, next_row, position)
<1> SUFFICES ASSUME ~Guarded PROVE LabInv'
  <2>1. Inputs' /\ Guarded' = Guarded
    BY FrozenProgram DEF BuildRow, Charged, Fail, Frozen, input, LabInv
  <2> QED
    BY <2>1 DEF LabInv
<1>1. /\ Inputs /\ Loop /\ Product /\ error # "work" /\ Runnable /\ Sorted /\ Pass
      /\ status = "running" /\ phase = "build"
  BY DEF LabInv, Product, BuildRow
<1>2. /\ position \in 0..len /\ len \in Nat /\ len = Len(hay) /\ start <= len
      /\ Row(old) /\ Row(next_row) /\ \A x \in 1..States : InReach(next_row[x], position + 1)
  BY <1>1, ZerosReach DEF Pass, Inputs, Reaches, Row
<1>3. RowSound(r, 1..States, next_row, position)
  BY <1>1, <1>2, RowIsSound
<1>4. r.work \in Nat /\ r.work <= RowCost /\ Reaches(r.row, position)
  <2>1. RowCost = Cardinality(UnitsOf(1..States))
    BY <1>1, CostType
  <2> QED
    BY <2>1, <1>2, <1>3 DEF RowSound, Reaches, Row
<1>5. /\ work + r.work <= limit
      /\ job.engine = "full" => work + r.work <= (len - (position - 1)) * RowCost + probes
      /\ job.engine = "oracle" =>
            work + r.work <= probes * BuildWork + (len - (position - 1)) * RowCost + probes
      /\ job.engine \in {"log", "rows"} =>
            work + r.work <= (len - (position - 1)) * RowCost + probes + States * (start + probes)
  <2> HIDE DEF r
  <2> QED
    BY <1>1, <1>4, BuildCovered
<1>6. work \in Nat /\ limit \in Int /\ limit >= MaximumWork
  BY <1>1 DEF Pass
<1>7. /\ work' = work + r.work
      /\ next_row' = r.row
      /\ row' = next_row
      /\ Table => store' = Append(store, r.row)
      /\ position' = position - 1
      /\ phase' = IF position = 0 THEN "collect" ELSE "build"
      /\ UNCHANGED <<input, replaying, solving, error, collecting, status>>
  <2>1. ~(work + r.work > limit)
    <3> HIDE DEF r
    <3> QED
      BY <1>4, <1>5, <1>6
  <2> QED
    BY <2>1 DEF BuildRow, Charged, Table
<1> HIDE DEF r, old
<1>8. Frozen /\ limit' = limit
  BY <1>7 DEF input, Frozen
<1>9. /\ Inputs' /\ Runnable' /\ Sorted' /\ States' = States /\ RowCost' = RowCost /\ BuildWork' = BuildWork
      /\ MaximumWork' = MaximumWork /\ Table' = Table /\ Guarded' = Guarded
      /\ (\A x, p : Reaches(x, p)' = Reaches(x, p)) /\ (\A x : Row(x)' = Row(x))
  BY <1>1, <1>8, FrozenProgram
<1>10. Loop'
  BY <1>1, <1>7, <1>8 DEF Loop, collecting, Spent, Touching, Frozen
<1>11. Table => /\ store' \in Seq([1..States -> Nat])
                /\ Len(store') = len - position'
                /\ \A p \in 0..len : p > position' => Reaches(store'[len - p + 1], p)
  <2> SUFFICES ASSUME Table PROVE /\ store' \in Seq([1..States -> Nat])
                                  /\ Len(store') = len - position'
                                  /\ \A p \in 0..len : p > position' => Reaches(store'[len - p + 1], p)
    OBVIOUS
  <2>1. /\ store \in Seq([1..States -> Nat])
        /\ Len(store) = len - position
        /\ \A p \in 0..len : p > position => Reaches(store[len - p + 1], p)
    BY <1>1 DEF Pass
  <2>2. r.row \in [1..States -> Nat]
    BY <1>4 DEF Reaches
  <2>3. /\ store' \in Seq([1..States -> Nat])
        /\ Len(store') = Len(store) + 1
        /\ \A k \in 1..Len(store) : store'[k] = store[k]
        /\ store'[Len(store) + 1] = r.row
    <3> DEFINE T == [1..States -> Nat]
    <3>1. store \in Seq(T) /\ r.row \in T /\ store' = Append(store, r.row)
      BY <2>1, <2>2, <1>7
    <3> HIDE DEF T
    <3>2. /\ store' \in Seq(T)
          /\ Len(store') = Len(store) + 1
          /\ \A k \in 1..Len(store) : store'[k] = store[k]
          /\ store'[Len(store) + 1] = r.row
      BY <3>1, AppendProperties
    <3> QED
      BY <3>2 DEF T
  <2>4. ASSUME NEW p \in 0..len, p > position'
        PROVE  Reaches(store'[len - p + 1], p)
    <3>1. CASE p = position
      <4>1. len - p + 1 = Len(store) + 1
        BY <3>1, <2>1, <1>2
      <4> QED
        BY <4>1, <3>1, <2>3, <1>4
    <3>2. CASE p > position
      <4>1. len - p + 1 \in 1..Len(store)
        BY <3>2, <2>1, <1>2
      <4> QED
        BY <4>1, <3>2, <2>1, <2>3
    <3> QED
      BY <3>1, <3>2, <2>4, <1>2, <1>7
  <2>5. Len(store') = len - position'
    BY <2>1, <2>3, <1>2, <1>7
  <2> QED
    BY <2>3, <2>4, <2>5
<1>12. Paid'
  <2>1. Replayed' = 0
    BY <1>7 DEF Replayed
  <2>2. (len - (position - 1)) * RowCost + probes + States * (start + probes) \in Int
    <3>0. RowCost \in Nat
      BY <1>1, CostType
    <3>1. RowCost \in Nat /\ States \in Nat /\ start \in Int /\ probes \in Int /\ len - (position - 1) \in Int
      BY <3>0, <1>1, <1>2 DEF Runnable, Loop
    <3>2. (len - (position - 1)) * RowCost \in Int /\ States * (start + probes) \in Int
      BY <3>1
    <3> QED
      BY <3>1, <3>2
  <2>3. job.engine \in {"full", "oracle", "log", "rows"}
    BY <1>1 DEF Inputs, AllEngines, Guarded
  <2> QED
    BY <2>1, <2>2, <2>3, <1>5, <1>7, <1>8, <1>9 DEF Paid, collecting, Frozen
<1>13. phase' = "build" => start' <= len' /\ Row(row)' /\ Reaches(next_row, position + 1)'
  <2>1. position' + 1 = position
    BY <1>2, <1>7
  <2>2. Reaches(next_row', position' + 1) /\ Row(row')
    BY <2>1, <1>2, <1>4, <1>7
  <2> QED
    BY <2>2, <1>2, <1>7, <1>8, <1>9 DEF collecting, Frozen, Reaches, Row, InReach
<1>14. Pass'
  <2>1. position' \in -1..len /\ (phase' = "build" <=> position' >= 0) /\ phase' # "replay"
    BY <1>2, <1>7
  <2>2. work' \in Nat
    BY <1>4, <1>6, <1>7
  <2>3. Table' => /\ store' \in Seq([1..States' -> Nat])
                  /\ Len(store') = len' - position'
                  /\ \A p \in 0..len' : p > position' => Reaches(store[len - p + 1], p)'
    BY <1>8, <1>9, <1>11 DEF Frozen, Reaches, InReach
  <2> QED
    BY <2>1, <2>2, <2>3, <1>6, <1>8, <1>9, <1>12, <1>13 DEF Pass, Frozen
<1>15. Product'
  BY <1>7, <1>9, <1>14 DEF Product
<1> QED
  BY <1>1, <1>7, <1>9, <1>10, <1>15 DEF LabInv

\* What a probe of the table finds.
LEMMA TableAnswer ==
  ASSUME Inputs, Loop, Runnable, Pass, Probing, phase = "collect", Table
  PROVE  /\ Appended(start) = store[len - start + 1]
         /\ Appended(start)[prog.entry] - 1 = NoMatch \/ Appended(start)[prog.entry] - 1 \in start..len
         /\ Appended(start)[prog.entry] \in Nat
<1>1. position = -1 /\ len \in Nat /\ start \in 0..len
      /\ Len(store) = len - position
      /\ \A p \in 0..len : p > position => Reaches(store[len - p + 1], p)
  BY SpentProbe DEF Pass, Inputs
<1>2. Len(store) - start = len - start + 1
  BY <1>1
<1>3. Appended(start) = store[len - start + 1]
  BY <1>2 DEF Appended
<1>4. Reaches(Appended(start), start)
  BY <1>1, <1>3
<1>5. prog.entry \in 1..States
  BY DEF Runnable
<1>6. Appended(start)[prog.entry] \in Nat /\ InReach(Appended(start)[prog.entry], start)
  BY <1>4, <1>5 DEF Reaches
<1> QED
  BY <1>1, <1>3, <1>6, Constants DEF InReach

LEMMA ProbeTableLabInv ==
  ASSUME LabInv, ProbeTable
  PROVE  LabInv'
<1> DEFINE value == Appended(start)[prog.entry]
<1>1. /\ ~Guarded /\ Inputs /\ Loop /\ Product /\ error # "work" /\ Runnable /\ Sorted /\ Pass
      /\ status = "running" /\ phase = "collect" /\ Probing /\ Table
  BY DEF LabInv, Product, ProbeTable, AtProbe, Probing, Table, Guarded
<1>2. value - 1 = NoMatch \/ value - 1 \in start..len
  BY <1>1, TableAnswer
<1>3. work + 1 <= limit /\ work \in Nat /\ limit \in Int /\ limit >= MaximumWork /\ position = -1
      /\ len \in Nat
  BY <1>1, ProbeCovered DEF Pass, Inputs
<1> HIDE DEF value
<1>4. /\ work' = work + 1
      /\ Answer(value - 1) /\ NextSearch(value # 0) /\ Refusal
      /\ UNCHANGED <<input, replaying, solving>>
  BY <1>3 DEF ProbeTable, Charged, value
<1>5. Frozen /\ limit' = limit
  BY <1>4 DEF Frozen, input
<1>6. /\ Inputs' /\ Runnable' /\ Sorted' /\ States' = States /\ RowCost' = RowCost /\ BuildWork' = BuildWork
      /\ MaximumWork' = MaximumWork /\ Table' = Table /\ Guarded' = Guarded
      /\ (\A x, p : Reaches(x, p)' = Reaches(x, p)) /\ (\A x : Row(x)' = Row(x))
  BY <1>1, <1>5, FrozenProgram
<1>7. Loop' /\ probes' = probes + 1
  BY <1>1, <1>2, <1>4, <1>5, AnswerLoop DEF Frozen
<1>8. error' # "work"
  BY <1>1, <1>4 DEF Refusal
<1>9. RowCost \in Nat /\ BuildWork \in Nat /\ BuildWork = (len + 1) * RowCost /\ probes \in Nat
  BY <1>1, CostType DEF Loop
<1>10. (len - position) * RowCost = BuildWork
  <2>1. len - position = len + 1
    BY <1>3
  <2> QED
    BY <2>1, <1>9
<1>11. CASE /\ phase' = "build" /\ job.engine = "oracle" /\ start' <= len
            /\ row' = Zeros /\ next_row' = Zeros /\ position' = len /\ store' = <<>>
  <2>1. Row(Zeros) /\ Reaches(Zeros, len + 1)
    BY <1>1, ZerosReach
  <2>2. Row(row)' /\ Reaches(next_row, position + 1)'
    BY <2>1, <1>5, <1>6, <1>11 DEF Row, Reaches, InReach, Frozen
  <2>3. Paid'
    <3>1. work <= probes * BuildWork + BuildWork + probes
      BY <1>1, <1>10, <1>11 DEF Pass, Paid
    <3>2. (probes + 1) * BuildWork = probes * BuildWork + BuildWork /\ probes * BuildWork \in Int
          /\ (len - len) * RowCost = 0
      BY <1>9, <1>3
    <3>3. work + 1 <= (probes + 1) * BuildWork + (len - len) * RowCost + (probes + 1)
      BY <3>1, <3>2, <1>3, <1>9
    <3> QED
      BY <3>3, <1>4, <1>5, <1>6, <1>7, <1>11 DEF Paid, Frozen
  <2>4. store' \in Seq([1..States -> Nat]) /\ Len(store') = len - position'
        /\ \A p \in 0..len : ~(p > position')
    BY <1>3, <1>11
  <2>5. Pass'
    BY <2>2, <2>3, <2>4, <1>3, <1>4, <1>5, <1>6, <1>11 DEF Pass, Frozen
  <2>6. Product'
    BY <2>5, <1>6, <1>11 DEF Product
  <2> QED
    BY <2>6, <1>6, <1>7, <1>8 DEF LabInv
<1>12. CASE phase' = "collect" /\ UNCHANGED building
  <2>1. row' = row /\ next_row' = next_row /\ position' = position /\ store' = store
    BY <1>12 DEF building
  <2>2. Paid'
    <3>1. CASE job.engine = "full"
      <4>1. work <= BuildWork + probes
        BY <1>1, <1>10, <3>1 DEF Pass, Paid
      <4>2. work + 1 <= BuildWork + (probes + 1)
        BY <4>1, <1>3, <1>9
      <4> QED
        BY <4>2, <3>1, <2>1, <1>4, <1>5, <1>6, <1>7, <1>10 DEF Paid, Frozen
    <3>2. CASE job.engine = "oracle"
      <4>1. work <= probes * BuildWork + BuildWork + probes
        BY <1>1, <1>10, <3>2 DEF Pass, Paid
      <4>2. (probes + 1) * BuildWork = probes * BuildWork + BuildWork /\ probes * BuildWork \in Int
        BY <1>9, <1>3
      <4>3. work + 1 <= (probes + 1) * BuildWork + BuildWork + (probes + 1)
        BY <4>1, <4>2, <1>3, <1>9
      <4> QED
        BY <4>3, <3>2, <2>1, <1>4, <1>5, <1>6, <1>7, <1>10 DEF Paid, Frozen
    <3> QED
      BY <3>1, <3>2, <1>1 DEF Table
  <2>3. Pass'
    <3>1. Table' => /\ store' \in Seq([1..States' -> Nat])
                    /\ Len(store') = len' - position'
                    /\ \A p \in 0..len' : p > position' => Reaches(store[len - p + 1], p)'
      BY <2>1, <1>1, <1>5, <1>6 DEF Pass, Frozen, Reaches, InReach
    <3> QED
      BY <3>1, <2>1, <2>2, <1>3, <1>4, <1>5, <1>6, <1>12 DEF Pass, Frozen
  <2>4. Product'
    BY <2>3, <1>6, <1>12 DEF Product
  <2> QED
    BY <2>4, <1>6, <1>7, <1>8 DEF LabInv
<1> QED
  BY <1>4, <1>5, <1>11, <1>12 DEF NextSearch, Frozen

Logged == job.engine \in {"log", "rows"}

\* A probe of a log: a miss is answered at once, a hit begins a replay.
LEMMA ProbeRootLabInv ==
  ASSUME LabInv, AtProbe, Logged, NEW STATE root,
         work' = work + 1, ProbeRoot(root), UNCHANGED <<input, building>>
  PROVE  LabInv'
<1>1. /\ ~Guarded /\ Inputs /\ Loop /\ Product /\ error # "work" /\ Runnable /\ Sorted /\ Pass
      /\ status = "running" /\ phase = "collect" /\ Probing /\ ~Table
  BY DEF LabInv, Product, AtProbe, Probing, Table, Guarded, Logged
<1>2. work + 1 <= limit /\ work \in Nat /\ limit \in Int /\ limit >= MaximumWork /\ position = -1
      /\ len \in Nat /\ start \in 0..len /\ probes \in Nat
  BY <1>1, ProbeCovered, SpentProbe DEF Pass, Inputs
<1>3. Frozen /\ limit' = limit /\ position' = position /\ row' = row /\ next_row' = next_row
  BY DEF Frozen, input, building
<1>4. /\ Inputs' /\ Runnable' /\ Sorted' /\ States' = States /\ RowCost' = RowCost
      /\ MaximumWork' = MaximumWork /\ Table' = Table /\ Guarded' = Guarded
      /\ (\A i : Place(i)' = Place(i))
  BY <1>1, <1>3, FrozenProgram
<1>5. (len - position) * RowCost \in Nat /\ States \in Nat /\ States * (start + probes) \in Nat
  <2>1. RowCost \in Nat /\ States \in Nat /\ len - position \in Nat /\ start + probes \in Nat
    BY <1>1, <1>2, CostType DEF Runnable
  <2> QED
    BY <2>1
<1>6. work <= (len - position) * RowCost + probes + States * (start + probes)
  <2>1. work <= (len - position) * RowCost + probes + States * (start + probes) + 0
    BY <1>1 DEF Pass, Paid, Replayed, Logged
  <2> QED
    BY <2>1, <1>2, <1>5
<1>7. CASE root
  <2>1. phase' = "replay" /\ pc' = prog.entry /\ at' = start /\ UNCHANGED <<status, error, collecting>>
    BY <1>7 DEF ProbeRoot
  <2>2. Loop'
    BY <2>1, <1>1, <1>3 DEF Loop, collecting, Spent, Touching, Frozen
  <2>3. pc' \in 1..States /\ Place(pc') \in 1..States
    BY <2>1, <1>1, PlaceType DEF Runnable
  <2>4. Replayed' = 1 + States * (start - start) + (States - Place(pc'))
    BY <2>1, <1>3, <1>4 DEF Replayed, collecting, Place, Frozen
  <2>5. Paid'
    <3>1. States * (start - start) = 0
      BY <1>2, <1>5
    <3>2. work + 1 <= (len - position) * RowCost + probes + States * (start + probes) + Replayed'
      <4> DEFINE a == (len - position) * RowCost
                 b == States * (start + probes)
                 c == Place(pc')
      <4>1. Replayed' = 1 + (States - c)
        BY <2>4, <2>3, <3>1, <1>5
      <4>2. a \in Nat /\ b \in Nat /\ c \in 1..States /\ work <= a + probes + b
        BY <1>5, <1>6, <2>3
      <4> HIDE DEF a, b, c
      <4>3. work + 1 <= a + probes + b + Replayed'
        BY <4>1, <4>2, <1>2, <1>5
      <4> QED
        BY <4>3 DEF a, b
    <3> QED
      BY <3>2, <2>1, <1>3, <1>4 DEF Paid, Logged, collecting, Frozen
  <2>6. Pass'
    BY <2>1, <2>3, <2>5, <1>1, <1>2, <1>3, <1>4 DEF Pass, Frozen, collecting, Logged
  <2> QED
    BY <2>1, <2>2, <2>6, <1>1, <1>4 DEF LabInv, Product
<1>8. CASE ~root
  <2>1. Answer(NoMatch) /\ UNCHANGED <<phase, pc, at, error>>
    BY <1>8 DEF ProbeRoot
  <2>2. Loop' /\ probes' = probes + 1 /\ start' >= start
    BY <2>1, <1>1, <1>3, AnswerLoop DEF Frozen
  <2>3. Replayed' = 0 /\ start' \in Nat
    BY <2>1, <2>2, <1>1 DEF Replayed, Loop
  <2>4. States * (start + probes) <= States * (start' + probes')
    <3>0. start' \in Nat /\ start \in Nat /\ probes \in Nat /\ start' >= start /\ probes' = probes + 1
      BY <2>2, <2>3, <1>2
    <3>1. PICK s \in Nat : start' = s
      BY <3>0
    <3>2. start + probes \in Nat /\ s + (probes + 1) \in Nat /\ start + probes <= s + (probes + 1)
      BY <3>0, <3>1
    <3>3. States * (start + probes) <= States * (s + (probes + 1))
      BY <3>2, <1>5, Monotone
    <3> QED
      BY <3>0, <3>1, <3>3
  <2>5. Paid'
    <3> DEFINE a == (len - position) * RowCost
               b == States * (start + probes)
               c == States * (start' + probes')
    <3>0. c \in Int
      <4>1. PICK s \in Nat : start' = s
        BY <2>3
      <4>2. States * (s + (probes + 1)) \in Int
        BY <1>2, <1>5
      <4> QED
        BY <4>1, <4>2, <2>2
    <3>1. a \in Nat /\ b \in Nat /\ b <= c /\ work <= a + probes + b /\ c \in Int
      BY <3>0, <2>4, <1>5, <1>6
    <3> HIDE DEF a, b, c
    <3>2. work + 1 <= a + (probes + 1) + c + 0
      BY <3>1, <1>2
    <3> HIDE DEF Replayed, Place
    <3>3. work + 1 <= (len - position) * RowCost + probes' + States * (start' + probes') + Replayed'
      BY <3>2, <2>2, <2>3 DEF a, c
    <3> QED
      BY <3>3, <1>3, <1>4 DEF Paid, Logged, Frozen
  <2>6. Pass'
    BY <2>1, <2>5, <1>1, <1>2, <1>3, <1>4 DEF Pass, Frozen
  <2> QED
    BY <2>1, <2>2, <2>6, <1>1, <1>4 DEF LabInv, Product
<1> QED
  BY <1>7, <1>8

LEMMA ProbeLogLabInv ==
  ASSUME LabInv, ProbeLog
  PROVE  LabInv'
<1>1. /\ ~Guarded /\ Inputs /\ Loop /\ Runnable /\ Pass /\ phase = "collect" /\ Probing
  BY DEF LabInv, Product, ProbeLog, AtProbe, Probing, Guarded
<1>2. work + 1 <= limit /\ work \in Nat /\ limit \in Int
  BY <1>1, ProbeCovered DEF Pass
<1>3. ~(work + 1 > limit)
  BY <1>2
<1> QED
  BY <1>3, ProbeRootLabInv DEF ProbeLog, Charged, Logged

LEMMA ProbeRowsLabInv ==
  ASSUME LabInv, ProbeRows
  PROVE  LabInv'
<1>1. /\ ~Guarded /\ Inputs /\ Loop /\ Runnable /\ Pass /\ phase = "collect" /\ Probing
  BY DEF LabInv, Product, ProbeRows, AtProbe, Probing, Guarded
<1>2. work + 1 <= limit /\ work \in Nat /\ limit \in Int
  BY <1>1, ProbeCovered DEF Pass
<1>3. ~(work + 1 > limit)
  BY <1>2
<1>4. CASE Fail("log")
  BY <1>4, FailLabInv
<1> QED
  BY <1>3, <1>4, ProbeRootLabInv DEF ProbeRows, Charged, Logged

\* The end of a replay is in reach of its start.
LEMMA ReplayMatchLabInv ==
  ASSUME LabInv, ReplayMatch
  PROVE  LabInv'
<1> SUFFICES ASSUME ~Guarded PROVE LabInv'
  <2>1. Inputs' /\ Guarded' = Guarded
    BY FrozenProgram DEF ReplayMatch, Charged, Fail, Frozen, input, LabInv
  <2> QED
    BY <2>1 DEF LabInv
<1>1. /\ ~Guarded /\ Inputs /\ Loop /\ Product /\ error # "work" /\ Runnable /\ Sorted /\ Pass
      /\ status = "running" /\ phase = "replay" /\ Replaying
  BY DEF LabInv, Product, ReplayMatch, Replaying
<1>2. /\ work + 1 <= limit /\ work \in Nat /\ limit \in Int /\ limit >= MaximumWork /\ position = -1
      /\ len \in Nat /\ start \in 0..len /\ probes \in Nat
      /\ at \in start..len /\ pc \in 1..States /\ job.engine \in {"log", "rows"} /\ ~Table
  BY <1>1, ReplayCovered DEF Pass, Inputs, Loop, Table
<1>3. /\ work' = work + 1 /\ Answer(at) /\ Refusal /\ phase' = "collect"
      /\ UNCHANGED <<input, building, replaying, solving>>
  <2>1. ~(work + 1 > limit)
    BY <1>2
  <2> QED
    BY <2>1 DEF ReplayMatch, Charged
<1>4. Frozen /\ limit' = limit /\ position' = position
  BY <1>3 DEF Frozen, input, building
<1>5. /\ Inputs' /\ Runnable' /\ Sorted' /\ States' = States /\ RowCost' = RowCost
      /\ MaximumWork' = MaximumWork /\ Table' = Table /\ Guarded' = Guarded
  BY <1>1, <1>4, FrozenProgram
<1>6. Loop' /\ probes' = probes + 1 /\ (status' = "running" => at = NoMatch \/ start' >= at)
  BY <1>1, <1>2, <1>3, <1>4, AnswerLoop DEF Frozen
<1>7. error' # "work"
  BY <1>1, <1>3 DEF Refusal
<1>8. ASSUME status' = "running" PROVE Pass'
  <2>1. start' >= at /\ start' \in Nat
    BY <1>2, <1>6, <1>8, Constants DEF Loop
  <2>2. RowCost \in Nat /\ States \in Nat /\ Place(pc) \in 1..States
    BY <1>1, <1>2, CostType, PlaceType DEF Runnable
  <2> DEFINE a == (len - position) * RowCost
             b == States * (start + probes)
             c == States * (at - start)
             d == States * (at + probes + 1)
             e == States * (start' + probes + 1)
  <2>3. a \in Nat /\ b \in Nat /\ c \in Nat /\ d \in Nat /\ e \in Nat /\ b + c + States = d
    <3>1. len - position \in Nat
      BY <1>2
    <3>2. a \in Nat
      BY <3>1, <2>2
    <3>3. States \in Nat /\ start \in Nat /\ probes \in Nat /\ at \in Nat /\ at - start \in Nat
      BY <2>2, <1>2
    <3>4. PICK s \in Nat : start' = s
      BY <2>1
    <3>5. States * (s + probes + 1) \in Nat
      BY <3>3
    <3>6. e \in Nat
      BY <3>4, <3>5
    <3>7. b \in Nat /\ c \in Nat /\ d \in Nat
      BY <3>3
    <3>8. b + c + States = d
      BY <3>3
    <3> QED
      BY <3>2, <3>6, <3>7, <3>8
  <2>4. d <= e
    <3>1. PICK s \in Nat : start' = s
      BY <2>1
    <3>2. at + probes + 1 \in Nat /\ s + probes + 1 \in Nat /\ at + probes + 1 <= s + probes + 1
      BY <3>1, <2>1, <1>2
    <3>3. States * (at + probes + 1) <= States * (s + probes + 1)
      BY <3>2, <2>2, Monotone
    <3> QED
      BY <3>1, <3>3
  <2>5. work <= a + probes + b + (1 + c + (States - Place(pc)))
    BY <1>1, <1>2 DEF Pass, Paid, Replayed
  <2>6. start' + (probes + 1) = start' + probes + 1
    BY <2>1, <1>2
  <2> HIDE DEF a, b, c, d, e, Place
  <2>7. work + 1 <= a + (probes + 1) + e
    BY <2>2, <2>3, <2>4, <2>5, <1>2
  <2>8. Replayed' = 0
    BY <1>3 DEF Replayed
  <2>9. work' <= (len' - position') * RowCost' + probes' + States' * (start' + probes') + Replayed'
    <3>1. (len' - position') * RowCost' = a /\ States' * (start' + probes') = e
      BY <2>6, <1>4, <1>5, <1>6 DEF Frozen, a, e
    <3> QED
      BY <3>1, <2>3, <2>7, <2>8, <1>2, <1>3, <1>6
  <2>10. Paid'
    BY <2>9, <1>2, <1>4 DEF Paid, Frozen
  <2> QED
    BY <2>10, <1>2, <1>3, <1>4, <1>5 DEF Pass, Frozen
<1>9. Product'
  BY <1>3, <1>5, <1>8 DEF Product
<1> QED
  BY <1>5, <1>6, <1>7, <1>9 DEF LabInv

\* A replayed step goes to an earlier place of the order or on to the next
\* boundary.
LEMMA ReplayStepLabInv ==
  ASSUME LabInv, ReplayStep
  PROVE  LabInv'
<1> DEFINE inst == prog.code[pc]
           first == inst.op # "split" \/ Decision
           to == IF first THEN inst.to[1] ELSE inst.to[2]
<1> SUFFICES ASSUME ~Guarded PROVE LabInv'
  <2>1. Inputs' /\ Guarded' = Guarded
    BY FrozenProgram DEF ReplayStep, Charged, Fail, Frozen, input, LabInv
  <2> QED
    BY <2>1 DEF LabInv
<1>1. /\ ~Guarded /\ Inputs /\ Loop /\ Product /\ error # "work" /\ Runnable /\ Sorted /\ Pass
      /\ status = "running" /\ phase = "replay" /\ Replaying /\ inst.op # "match"
  BY DEF LabInv, Product, ReplayStep, Replaying
<1>2. /\ work + 1 <= limit /\ work \in Nat /\ limit \in Int /\ limit >= MaximumWork /\ position = -1
      /\ len \in Nat /\ start \in 0..len /\ probes \in Nat /\ len = Len(hay)
      /\ at \in start..len /\ pc \in 1..States /\ job.engine \in {"log", "rows"} /\ ~Table
  <2>1. work + 1 <= limit
    BY <1>1, ReplayCovered
  <2>2. len \in Nat /\ len = Len(hay) /\ start \in 0..(len + 1) /\ probes \in Nat
    BY <1>1 DEF Inputs, Loop
  <2>3. /\ work \in Nat /\ limit \in Int /\ limit >= MaximumWork /\ position \in -1..len
        /\ ~(position >= 0) /\ start <= len /\ at \in start..len /\ pc \in 1..States
        /\ job.engine \in {"log", "rows"}
    BY <1>1 DEF Pass
  <2> QED
    BY <2>1, <2>2, <2>3 DEF Table
<1>3. CASE Fail("log")
  BY <1>3, FailLabInv
<1>4. CASE ~Fail("log")
  <2>1. /\ Passes(inst, hay, at)
        /\ work' = work + 1 /\ pc' = to /\ at' = IF inst.op = "byte" THEN at + 1 ELSE at
        /\ UNCHANGED <<input, phase, building, solving, error, collecting, status>>
    <3>1. ~(work + 1 > limit) /\ work < limit
      BY <1>2
    <3> QED
      BY <3>1, <1>4 DEF ReplayStep, Charged
  <2>2. PICK n \in 1..Arity(inst.op) : to = inst.to[n]
    <3>1. 1 \in 1..Arity(inst.op) /\ (inst.op = "split" => 2 \in 1..Arity(inst.op))
      BY <1>1 DEF Arity
    <3> QED
      BY <3>1
  <2>3. to \in 1..States
    BY <2>2, <1>1, <1>2, Successors
  <2>4. Place(pc) \in 1..States /\ Place(to) \in 1..States /\ States \in Nat
    BY <2>3, <1>1, <1>2, PlaceType DEF Runnable
  <2>5. inst.op # "byte" => Place(to) < Place(pc)
    BY <2>2, <1>1, <1>2, PlaceDecreases
  <2>6. inst.op = "byte" => at < len
    BY <2>1, <1>2 DEF Passes, Reads
  <2>7. Frozen /\ limit' = limit /\ position' = position
    BY <2>1 DEF Frozen, input, building
  <2>8. /\ Inputs' /\ Runnable' /\ Sorted' /\ States' = States /\ RowCost' = RowCost
        /\ MaximumWork' = MaximumWork /\ Table' = Table /\ Guarded' = Guarded
    BY <1>1, <2>7, FrozenProgram
  <2>9. Loop'
    BY <2>1, <2>7, <1>1 DEF Loop, collecting, Spent, Touching, Frozen
  <2> HIDE DEF to, inst
  <2>10. at' \in start..len
    BY <2>1, <2>6, <1>2
  <2>11. States * (at - start) + (States - Place(pc)) + 1 <= States * (at' - start) + (States - Place(to))
    <3>1. CASE inst.op = "byte"
      <4>1. States * (at' - start) = States * (at - start) + States
        <5>1. at' = at + 1
          BY <3>1, <2>1
        <5> QED
          BY <5>1, <2>4, <1>2
      <4>2. States * (at - start) \in Int
        BY <2>4, <1>2
      <4> HIDE DEF Place
      <4> QED
        BY <4>1, <4>2, <2>4
    <3>2. CASE inst.op # "byte"
      <4>1. at' = at /\ States * (at - start) \in Int
        BY <3>2, <2>1, <2>4, <1>2
      <4> HIDE DEF Place
      <4> QED
        BY <4>1, <3>2, <2>4, <2>5
    <3> QED
      BY <3>1, <3>2
  <2>12. Replayed' = 1 + States * (at' - start) + (States - Place(to))
    <3>1. Place(pc)' = Place(to)
      BY <2>1, <2>7 DEF Place, Frozen
    <3> QED
      BY <3>1, <2>1, <2>8, <1>1 DEF Replayed, collecting
  <2>13. Paid'
    <3> DEFINE a == (len - position) * RowCost
               b == States * (start + probes)
               c == States * (at - start)
               d == States * (at' - start)
               x == Place(pc)
               y == Place(to)
    <3>1. work <= a + probes + b + (1 + c + (States - x))
      BY <1>1, <1>2 DEF Pass, Paid, Replayed
    <3>2. a \in Nat /\ b \in Nat /\ c \in Nat /\ d \in Nat
      <4>1. RowCost \in Nat /\ len - position \in Nat
        BY <1>1, <1>2, CostType
      <4>2. a \in Nat
        BY <4>1
      <4>3. start + probes \in Nat /\ at - start \in Nat /\ States \in Nat
        BY <2>4, <1>2
      <4>4. PICK q \in start..len : at' = q
        BY <2>10
      <4>5. q - start \in Nat
        BY <1>2, <4>4
      <4>6. States * (q - start) \in Nat /\ b \in Nat /\ c \in Nat
        BY <4>3, <4>5
      <4> QED
        BY <4>2, <4>4, <4>6
    <3>3. x \in 1..States /\ y \in 1..States /\ States \in Nat
          /\ c + (States - x) + 1 <= d + (States - y)
      BY <2>4, <2>11
    <3>4. Replayed' = 1 + d + (States - y)
      BY <2>12
    <3>5. (len' - position') * RowCost' = a /\ States' * (start' + probes') = b /\ probes' = probes
      BY <2>1, <2>7, <2>8 DEF Frozen, collecting
    <3> HIDE DEF a, b, c, d, x, y
    <3>6. work + 1 <= a + probes + b + (1 + d + (States - y))
      BY <3>1, <3>2, <3>3, <1>2
    <3>7. work' <= (len' - position') * RowCost' + probes' + States' * (start' + probes') + Replayed'
      BY <3>4, <3>5, <3>6, <2>1
    <3> QED
      BY <3>7, <1>2, <2>7 DEF Paid, Frozen
  <2>14. Pass'
    BY <2>1, <2>3, <2>7, <2>8, <2>10, <2>13, <1>1, <1>2 DEF Pass, Frozen, collecting
  <2> QED
    BY <2>1, <2>8, <2>9, <2>14, <1>1 DEF LabInv, Product
<1> QED
  BY <1>3, <1>4

LEMMA FinishLabInv ==
  ASSUME LabInv, Finish
  PROVE  LabInv'
<1>1. /\ Frozen /\ phase' = phase /\ work' = work /\ store' = store /\ error' = error
      /\ status' = "done" /\ UNCHANGED collecting
  BY DEF Finish, Stop, Frozen, building, collecting
<1>2. Inputs' /\ (Runnable => Runnable') /\ (Sorted => Sorted') /\ Guarded' = Guarded /\ Table' = Table
  BY <1>1, FrozenProgram DEF LabInv
<1>3. ASSUME ~Guarded PROVE Loop' /\ Product' /\ error' # "work"
  <2>1. Loop /\ Product /\ error # "work"
    BY <1>3 DEF LabInv
  <2>2. Loop'
    BY <1>1, <2>1 DEF Loop, collecting, Frozen
  <2>3. Product'
    BY <1>1, <1>2, <2>1 DEF Product, collecting
  <2> QED
    BY <1>1, <2>1, <2>2, <2>3
<1> QED
  BY <1>2, <1>3 DEF LabInv

\* The guarded executor keeps the inputs, and the others never solve.
LEMMA SolverLabInv ==
  ASSUME LabInv, ProbeGuarded \/ Solve \/ Solved
  PROVE  LabInv'
<1>1. Guarded
  <2>1. phase = "solve" => Guarded
    BY DEF LabInv, Product
  <2> QED
    BY <2>1 DEF ProbeGuarded, Solve, Solved
<1>2. Frozen
  BY DEF ProbeGuarded, Solve, Solved, Charged, Fail, Frozen, input
<1>3. Inputs' /\ Guarded'
  BY <1>1, <1>2, FrozenProgram DEF LabInv
<1> QED
  BY <1>3 DEF LabInv

LEMMA StutterLabInv ==
  ASSUME LabInv, UNCHANGED vars
  PROVE  LabInv'
<1>1. /\ Frozen
      /\ UNCHANGED <<phase, work, limit, row, next_row, position, store, reader, pc, at, error, status>>
      /\ UNCHANGED <<start, previous_end, matches, probes>>
  BY DEF vars, input, building, replaying, collecting, Frozen
<1>2. /\ Inputs' /\ (Runnable => Runnable') /\ (Sorted => Sorted') /\ Guarded' = Guarded /\ Table' = Table
      /\ States' = States /\ RowCost' = RowCost /\ BuildWork' = BuildWork /\ MaximumWork' = MaximumWork
      /\ (\A i : Place(i)' = Place(i))
  BY <1>1, FrozenProgram DEF LabInv
<1>3. ASSUME ~Guarded PROVE Loop' /\ Product' /\ error' # "work"
  <2>1. Loop /\ Product /\ error # "work"
    BY <1>3 DEF LabInv
  <2>2. Loop'
    BY <1>1, <2>1 DEF Loop, Spent, Touching, Frozen
  <2>3. Replayed' = Replayed
    BY <1>1, <1>2 DEF Replayed, Place, Frozen
  <2>4. Paid' = Paid
    BY <1>1, <1>2, <2>3 DEF Paid, Frozen
  <2>5. Pass => Pass'
    <3> SUFFICES ASSUME Pass PROVE Pass'
      OBVIOUS
    <3>1. Table' => /\ store' \in Seq([1..States' -> Nat])
                    /\ Len(store') = len' - position'
                    /\ \A p \in 0..len' : p > position' => Reaches(store[len - p + 1], p)'
      BY <1>1, <1>2 DEF Pass, Frozen, Reaches, InReach
    <3>2. phase' = "build" => start' <= len' /\ Row(row)' /\ Reaches(next_row, position + 1)'
      BY <1>1, <1>2 DEF Pass, Frozen, Reaches, InReach, Row
    <3> QED
      BY <3>1, <3>2, <2>4, <1>1, <1>2 DEF Pass, Frozen
  <2>6. Product'
    BY <1>1, <1>2, <2>1, <2>5 DEF Product
  <2> QED
    BY <1>1, <2>1, <2>2, <2>6
<1> QED
  BY <1>2, <1>3 DEF LabInv

LEMMA LabNextInv == LabInv /\ [Next]_vars => LabInv'
<1> SUFFICES ASSUME LabInv, [Next]_vars PROVE LabInv'
  OBVIOUS
<1>1. CASE New
  BY <1>1, NewLabInv
<1>2. CASE Admit
  BY <1>2, AdmitLabInv
<1>3. CASE AllocationFails
  BY <1>3, AllocationLabInv
<1>4. CASE BuildRow
  BY <1>4, BuildRowLabInv
<1>5. CASE ProbeTable
  BY <1>5, ProbeTableLabInv
<1>6. CASE ProbeLog
  BY <1>6, ProbeLogLabInv
<1>7. CASE ProbeRows
  BY <1>7, ProbeRowsLabInv
<1>8. CASE ReplayMatch
  BY <1>8, ReplayMatchLabInv
<1>9. CASE ReplayStep
  BY <1>9, ReplayStepLabInv
<1>10. CASE ProbeGuarded \/ Solve \/ Solved
  BY <1>10, SolverLabInv
<1>11. CASE Finish
  BY <1>11, FinishLabInv
<1>12. CASE Returned \/ UNCHANGED vars
  BY <1>12, StutterLabInv DEF Returned
<1> QED
  BY <1>1, <1>2, <1>3, <1>4, <1>5, <1>6, <1>7, <1>8, <1>9, <1>10, <1>11, <1>12 DEF Next, Step

\* The work of the table, log, row and oracle executors never outruns what is
\* paid for: the rows built, the starts probed and the boundaries crossed.
THEOREM LabInvariance == Spec => []LabInv
<1>1. Init => LabInv
  BY LabInitInv
<1>2. LabInv /\ [Next]_vars => LabInv'
  BY LabNextInv
<1> QED
  BY <1>1, <1>2, PTL DEF Spec

\* An operation that find_all_full_dp, find_all_oracle, admit_log or
\* admit_row_log has admitted is never refused work, for every program, every
\* haystack and every limit at or above the bound.
THEOREM LabAdmission == Spec => []AdmittedFinishes
<1>1. LabInv => AdmittedFinishes
  BY DEF LabInv, AdmittedFinishes
<1> QED
  BY <1>1, LabInvariance, PTL

-----------------------------------------------------------------------------
(* What the executors that run the product program store is what the       *)
(* program determines.                                                     *)

Rows == Values(job.ast, hay)

Valued == Solves(prog.code, hay, Rows)
Meant == \A i \in 0..len : Rows[i][prog.entry] = selected[i] + 1

\* The splits that prefer their first successor at a boundary, and what the
\* log and the record of that boundary hold.
Preferred(p) == {i \in 1..States : Prefers(i, Rows[p])}
Bits(p) ==
    {DecisionIndex(p, i) : i \in Preferred(p)}
        \cup (IF Rows[p][prog.entry] # 0 THEN {RootIndex(p)} ELSE {})
Marks(p) ==
    {SplitRank(i) : i \in Preferred(p)}
        \cup (IF Rows[p][prog.entry] # 0 THEN {SplitCount} ELSE {})

\* A replay keeps to the match that the probe has found, and the reader of
\* the records is never ahead of it.
Stored ==
    /\ phase = "build" => next_row = Rows[position + 1]
    /\ Table => \A p \in 0..len : p > position => store[len - p + 1] = Rows[p]
    /\ job.engine = "log" => store = UNION {Bits(p) : p \in (position + 1)..len}
    /\ job.engine = "rows" =>
        /\ store \in Seq(SUBSET Nat) /\ Len(store) = len - position
        /\ \A p \in 0..len : p > position => store[len - p + 1] = Marks(p)
        /\ reader \in Int
        /\ reader <= IF phase = "replay" THEN at ELSE start
    /\ phase = "replay" => Rows[at][pc] # 0 /\ Rows[at][pc] = Rows[start][prog.entry]

ValuesInv ==
    ~Guarded =>
        /\ error \notin {"cycle", "log"}
        /\ phase # "new" => Valued /\ Meant
        /\ phase \in {"new", "compiled"} =>
            /\ reader = -1
            /\ job.engine = "log" => store = {}
            /\ job.engine = "rows" => store = <<>>
        /\ status = "running" /\ phase \in {"build", "collect", "replay"} => Stored

\* The equations of a boundary have one solution.
LEMMA RowUnique ==
  ASSUME Runnable, Sorted, NEW p, NEW next, NEW x, NEW y, Row(x), Row(y),
         \A i \in 1..States : x[i] = Evaluate(prog.code[i], x, next, hay, p),
         \A i \in 1..States : y[i] = Evaluate(prog.code[i], y, next, hay, p)
  PROVE  x = y
<1>1. States \in Nat /\ RowOrder \in [1..States -> 1..States]
  BY OrderType
<1> DEFINE B == {k \in 1..States : x[RowOrder[k]] # y[RowOrder[k]]}
<1>2. B = {}
  <2> SUFFICES ASSUME B # {} PROVE FALSE
    OBVIOUS
  <2>1. B \subseteq 0..States
    BY <1>1
  <2> HIDE DEF B
  <2>2. PICK k \in B : \A j \in B : k <= j
    BY <1>1, <2>1, Least
  <2> USE DEF B
  <2> DEFINE i == RowOrder[k]
  <2>3. k \in 1..States /\ i \in 1..States /\ x[i] # y[i]
    BY <1>1
  <2>4. ASSUME prog.code[i].op # "byte", NEW n \in 1..Arity(prog.code[i].op)
        PROVE  x[prog.code[i].to[n]] = y[prog.code[i].to[n]]
    <3>1. PICK j \in 1..(k - 1) : RowOrder[j] = prog.code[i].to[n]
      BY <2>3, <2>4, OrderSorted
    <3>2. j \in 1..States /\ j < k
      BY <1>1, <2>3
    <3> QED
      BY <2>2, <3>1, <3>2
  <2>5. Evaluate(prog.code[i], x, next, hay, p) = Evaluate(prog.code[i], y, next, hay, p)
    <3> HIDE DEF i
    <3> QED
      BY <2>3, <2>4, EvaluateAgrees
  <2> QED
    BY <2>3, <2>5
<1>3. \A i \in 1..States : x[i] = y[i]
  BY <1>2, OrderCovers
<1>4. x = [i \in 1..States |-> x[i]] /\ y = [i \in 1..States |-> y[i]]
  BY DEF Row
<1> QED
  BY <1>3, <1>4, Zenon

LEMMA RowsType ==
  ASSUME Valued, Runnable, Inputs
  PROVE  /\ \A p \in 0..(len + 1) : Row(Rows[p])
         /\ Rows[len + 1] = Zeros
         /\ \A p \in 0..len, i \in 1..States :
                Rows[p][i] = Evaluate(prog.code[i], Rows[p], Rows[p + 1], hay, p)
  BY DEF Valued, Solves, Runnable, Inputs, Row, Zeros

\* A row that is built on the right one is the right one.
LEMMA RowIsValue ==
  ASSUME Valued, Runnable, Sorted, Inputs, NEW p \in 0..len, NEW old, Row(old),
         NEW next, next = Rows[p + 1]
  PROVE  /\ RowAt(old, next, p).row = Rows[p]
         /\ RowAt(old, next, p).took = Preferred(p)
<1> DEFINE r == RowAt(old, next, p)
<1>1. len \in Nat /\ len = Len(hay) /\ p + 1 \in 0..(len + 1) /\ p \in 0..(len + 1)
  BY DEF Inputs
<1>2. Row(next) /\ Row(Rows[p])
  BY <1>1, RowsType
<1>3. RowSound(r, 1..States, next, p)
  BY <1>1, <1>2, RowIsSound
<1>4. /\ Row(r.row)
      /\ \A i \in 1..States : r.row[i] = Evaluate(prog.code[i], r.row, next, hay, p)
      /\ r.took = {i \in 1..States : Prefers(i, r.row)}
  BY <1>3 DEF RowSound
<1> HIDE DEF r
<1>5. \A i \in 1..States : Rows[p][i] = Evaluate(prog.code[i], Rows[p], next, hay, p)
  BY RowsType
<1> DEFINE x == r.row
           y == Rows[p]
<1>6. x = y
  <2>1. /\ Row(x) /\ Row(y)
        /\ \A i \in 1..States : x[i] = Evaluate(prog.code[i], x, next, hay, p)
        /\ \A i \in 1..States : y[i] = Evaluate(prog.code[i], y, next, hay, p)
    BY <1>2, <1>4, <1>5
  <2> HIDE DEF x, y
  <2> QED
    BY <2>1, RowUnique
<1>7. r.row = Rows[p]
  BY <1>6
<1>8. r.took = Preferred(p)
  BY <1>4, <1>7 DEF Preferred
<1> QED
  BY <1>7, <1>8 DEF r

-----------------------------------------------------------------------------
(* No two decisions share a bit.                                           *)

SplitsBefore(i) == {j \in 1..(i - 1) : prog.code[j].op = "split"}
Splits == {i \in 1..States : prog.code[i].op = "split"}

LEMMA SplitsFinite ==
  ASSUME Runnable, NEW i \in 1..(States + 1)
  PROVE  /\ IsFiniteSet(SplitsBefore(i)) /\ Cardinality(SplitsBefore(i)) \in Nat
         /\ SplitRank(i) = Cardinality(SplitsBefore(i))
<1>1. i - 1 \in Nat
  BY DEF Runnable
<1>2. IsFiniteSet(1..(i - 1))
  BY <1>1, FS_Interval
<1>3. SplitsBefore(i) \subseteq 1..(i - 1)
  BY DEF SplitsBefore
<1>4. IsFiniteSet(SplitsBefore(i))
  BY <1>2, <1>3, FS_Subset
<1> QED
  BY <1>4, FS_CardinalityType DEF SplitRank, SplitsBefore

LEMMA RankGrows ==
  ASSUME Runnable, NEW i \in Splits, NEW j \in 1..(States + 1), i < j
  PROVE  SplitRank(i) < SplitRank(j)
<1>1. States \in Nat /\ i \in 1..States /\ i \in 1..(States + 1) /\ prog.code[i].op = "split"
  BY DEF Splits, Runnable
<1>2. SplitsBefore(i) \subseteq SplitsBefore(j) /\ SplitsBefore(i) # SplitsBefore(j)
  <2>1. i \in SplitsBefore(j) /\ i \notin SplitsBefore(i)
    BY <1>1 DEF SplitsBefore
  <2>2. SplitsBefore(i) \subseteq SplitsBefore(j)
    BY <1>1 DEF SplitsBefore
  <2> QED
    BY <2>1, <2>2
<1>3. Cardinality(SplitsBefore(i)) < Cardinality(SplitsBefore(j))
  BY <1>1, <1>2, SplitsFinite, FS_Subset
<1> QED
  BY <1>1, <1>3, SplitsFinite

LEMMA RankType ==
  ASSUME Runnable
  PROVE  /\ SplitCount \in Nat
         /\ \A i \in Splits : SplitRank(i) \in Nat /\ SplitRank(i) < SplitCount
         /\ \A i, j \in Splits : SplitRank(i) = SplitRank(j) => i = j
<1>0. States \in Nat /\ States + 1 \in 1..(States + 1)
  BY DEF Runnable
<1>1. SplitCount = SplitRank(States + 1)
  <2>1. PICK n \in Nat : n = States + 1
    BY <1>0
  <2>2. SplitsBefore(States + 1) = Splits
    <3>1. n - 1 = States
      BY <1>0, <2>1
    <3>2. SplitsBefore(n) = Splits
      BY <3>1, Zenon DEF SplitsBefore, Splits
    <3> QED
      BY <2>1, <3>2
  <2>3. SplitCount = Cardinality(Splits)
    BY DEF SplitCount, Splits
  <2>4. SplitRank(States + 1) = Cardinality(SplitsBefore(States + 1))
    BY <1>0, SplitsFinite
  <2> QED
    BY <2>2, <2>3, <2>4, Zenon
<1>2. SplitCount \in Nat
  BY <1>0, <1>1, SplitsFinite
<1>3. ASSUME NEW i \in Splits PROVE SplitRank(i) \in Nat /\ SplitRank(i) < SplitCount
  <2>1. i \in 1..(States + 1) /\ i < States + 1
    BY <1>0 DEF Splits
  <2> QED
    BY <1>0, <1>1, <2>1, SplitsFinite, RankGrows
<1>4. ASSUME NEW i \in Splits, NEW j \in Splits, SplitRank(i) = SplitRank(j) PROVE i = j
  <2>1. i \in 1..(States + 1) /\ j \in 1..(States + 1)
    BY <1>0 DEF Splits
  <2>2. SplitRank(i) \in Nat /\ SplitRank(j) \in Nat
    BY <1>3
  <2>3. i < j => SplitRank(i) < SplitRank(j)
    BY <2>1, RankGrows
  <2>4. j < i => SplitRank(j) < SplitRank(i)
    BY <2>1, RankGrows
  <2> QED
    BY <1>0, <1>4, <2>1, <2>2, <2>3, <2>4
<1> QED
  BY <1>2, <1>3, <1>4

\* A number has one quotient and one remainder.
LEMMA Division ==
  ASSUME NEW n \in Nat, NEW a \in Nat, NEW b \in Nat, NEW x \in Nat, NEW y \in Nat,
         x < n, y < n, a * n + x = b * n + y
  PROVE  a = b /\ x = y
<1>1. ASSUME NEW c \in Nat, NEW d \in Nat, NEW u \in Nat, NEW v \in Nat, u < n, v < n,
             c * n + u = d * n + v
      PROVE  ~(c < d)
  <2> SUFFICES ASSUME c < d PROVE FALSE
    OBVIOUS
  <2>1. c + 1 \in Nat /\ c + 1 <= d
    OBVIOUS
  <2>2. (c + 1) * n <= d * n
    BY <2>1, Monotone
  <2>3. (c + 1) * n = c * n + n /\ c * n \in Nat /\ d * n \in Nat
    OBVIOUS
  <2> DEFINE s == c * n
             t == d * n
  <2>4. s \in Nat /\ t \in Nat /\ s + n <= t /\ s + u = t + v
    BY <1>1, <2>2, <2>3
  <2> HIDE DEF s, t
  <2> QED
    BY <1>1, <2>4
<1>2. ~(a < b) /\ ~(b < a)
  BY <1>1
<1>3. a = b
  BY <1>2
<1>4. a * n \in Nat
  OBVIOUS
<1> QED
  BY <1>3, <1>4

LEMMA IndexInjective ==
  ASSUME Runnable, Inputs, NEW p \in 0..len, NEW q \in 0..len
  PROVE  /\ \A i, j \in Splits : DecisionIndex(p, i) = DecisionIndex(q, j) => p = q /\ i = j
         /\ \A i \in Splits : DecisionIndex(p, i) # RootIndex(q)
         /\ RootIndex(p) = RootIndex(q) => p = q
<1> DEFINE n == SplitCount
<1>1. n \in Nat /\ len \in Nat /\ p \in Nat /\ q \in Nat
  BY RankType DEF Inputs
<1>2. ASSUME NEW i \in Splits, NEW j \in Splits, DecisionIndex(p, i) = DecisionIndex(q, j)
      PROVE  p = q /\ i = j
  <2> DEFINE x == SplitRank(i)
             y == SplitRank(j)
  <2>1. x \in Nat /\ y \in Nat /\ x < n /\ y < n
    BY RankType
  <2>2. p * n + x = q * n + y
    BY <1>2 DEF DecisionIndex
  <2>3. p = q /\ x = y
    <3> HIDE DEF n, x, y
    <3> QED
      BY <1>1, <2>1, <2>2, Division
  <2> QED
    BY <2>3, RankType
<1>3. ASSUME NEW i \in Splits PROVE DecisionIndex(p, i) # RootIndex(q)
  <2> DEFINE x == SplitRank(i)
  <2>1. x \in Nat /\ x < n
    BY RankType
  <2>2. DecisionIndex(p, i) = p * n + x /\ RootIndex(q) = n * (len + 1) + q
    BY DEF DecisionIndex, RootIndex, Boundaries
  <2> HIDE DEF n, x
  <2>3. p + 1 \in Nat /\ len + 1 \in Nat /\ p + 1 <= len + 1
    BY <1>1
  <2>4. n * (p + 1) <= n * (len + 1)
    BY <1>1, <2>3, Monotone
  <2>5. n * (p + 1) = p * n + n /\ p * n \in Nat /\ n * (len + 1) \in Nat
    BY <1>1
  <2> DEFINE s == p * n
             t == n * (len + 1)
  <2>6. s \in Nat /\ t \in Nat /\ s + n <= t
    BY <2>4, <2>5
  <2> HIDE DEF s, t
  <2>7. s + x # t + q
    BY <1>1, <2>1, <2>6
  <2> QED
    BY <2>2, <2>7 DEF s, t
<1>4. ASSUME RootIndex(p) = RootIndex(q) PROVE p = q
  <2>1. n * (len + 1) \in Nat /\ n * (len + 1) + p = n * (len + 1) + q
    BY <1>1, <1>4 DEF RootIndex, Boundaries
  <2> QED
    BY <1>1, <2>1
<1> QED
  BY <1>2, <1>3, <1>4

-----------------------------------------------------------------------------
(* Each step stores what the program determines.                           *)

LEMMA FrozenValues ==
  ASSUME Frozen
  PROVE  /\ Rows' = Rows /\ hay' = hay
         /\ Valued => Valued'
         /\ Meant => Meant'
         /\ \A p : Bits(p)' = Bits(p)
         /\ \A p : Marks(p)' = Marks(p)
         /\ Zeros' = Zeros /\ SplitCount' = SplitCount
         /\ \A p : RootIndex(p)' = RootIndex(p)
<1>1. hay' = hay /\ Rows' = Rows
  BY DEF Frozen, hay, Rows
<1>2. Valued => Valued'
  BY <1>1 DEF Frozen, Valued
<1>3. Meant => Meant'
  BY <1>1 DEF Frozen, Meant
<1>4. States' = States /\ SplitCount' = SplitCount /\ Zeros' = Zeros
  BY DEF Frozen, States, SplitCount, Zeros
<1>5. \A i : SplitRank(i)' = SplitRank(i)
  BY DEF Frozen, SplitRank
<1>6. \A p : Preferred(p)' = Preferred(p)
  BY <1>1, <1>4 DEF Frozen, Preferred, Prefers
<1>7. \A p : RootIndex(p)' = RootIndex(p)
  BY <1>4 DEF Frozen, RootIndex, Boundaries
<1>8. \A p : Marks(p)' = Marks(p)
  BY <1>1, <1>4, <1>5, <1>6 DEF Frozen, Marks
<1>9. \A p, i : DecisionIndex(p, i)' = DecisionIndex(p, i)
  BY <1>4, <1>5 DEF DecisionIndex
<1>10. \A p : Bits(p)' = Bits(p)
  BY <1>1, <1>6, <1>7, <1>9 DEF Frozen, Bits
<1> QED
  BY <1>1, <1>2, <1>3, <1>4, <1>7, <1>8, <1>10

LEMMA InitValuesInv == Init => ValuesInv
  BY DEF Init, ValuesInv

LEMMA FailValuesInv ==
  ASSUME ValuesInv, NEW reason, reason \notin {"cycle", "log"}, Fail(reason)
  PROVE  ValuesInv'
<1>1. Frozen /\ status' = "failed" /\ error' = reason
      /\ UNCHANGED <<phase, store, reader>>
  BY DEF Fail, Frozen, input, building, replaying
<1>2. Guarded' = Guarded /\ job'.engine = job.engine /\ (Valued => Valued') /\ (Meant => Meant')
  BY <1>1, FrozenProgram, FrozenValues DEF Frozen
<1> QED
  BY <1>1, <1>2 DEF ValuesInv

LEMMA NewValuesInv ==
  ASSUME LabInv, ValuesInv, New
  PROVE  ValuesInv'
<1> DEFINE b == Compiles(Guarded, job.ast)
           order == IF Guarded THEN <<>> ELSE Orders(b.code)
<1>1. CASE \E reason \in {"invalid", "limit"} : Fail(reason)
  BY <1>1, FailValuesInv
<1>2. CASE ~Guarded /\ Accepts(job.ast) /\ Len(order) # Len(b.code)
  <2>1. Guarded = FALSE
    BY <1>2 DEF Guarded
  <2>2. b = Compiles(FALSE, job.ast) /\ order = Orders(b.code)
    BY <2>1, Zenon
  <2>3. job.ast \in Expressions
    BY DEF LabInv, Inputs
  <2>4. Len(Orders(b.code)) = Len(b.code)
    BY <1>2, <2>2, <2>3, OrderAssumption
  <2> QED
    BY <1>2, <2>2, <2>4
<1>3. CASE /\ Accepts(job.ast)
           /\ prog' = [code |-> b.code, entry |-> b.at, guards |-> b.guards, order |-> order]
           /\ phase' = "compiled"
           /\ phase = "new"
           /\ UNCHANGED <<job, len, selected, limit, work, building, replaying, solving, error, collecting, status>>
  <2>1. Guarded' = Guarded
    BY <1>3 DEF Guarded
  <2> SUFFICES ASSUME ~Guarded PROVE ValuesInv'
    BY <2>1 DEF ValuesInv
  <2>2. /\ job.ast \in Expressions /\ hay \in Haystacks /\ len = Len(hay)
        /\ selected = Selects(job.ast, hay)
    BY DEF LabInv, Inputs, hay
  <2>3. b = Compiles(FALSE, job.ast)
    <3>1. Guarded = FALSE
      BY DEF Guarded
    <3> QED
      BY <3>1, Zenon
  <2>4. /\ Solves(b.code, hay, Rows)
        /\ \A i \in 0..Len(hay) : Rows[i][b.at] = selected[i] + 1
    BY <1>3, <2>2, <2>3, MeaningAssumption DEF Rows
  <2>5. prog'.code = b.code /\ prog'.entry = b.at /\ hay' = hay /\ Rows' = Rows
    BY <1>3 DEF hay, Rows
  <2> HIDE DEF b, order
  <2>6. Valued' /\ Meant'
    BY <1>3, <2>2, <2>4, <2>5 DEF Valued, Meant
  <2> QED
    BY <1>3, <2>6 DEF ValuesInv, replaying, building
<1> QED
  BY <1>1, <1>2, <1>3 DEF New, CompileJob

LEMMA AdmitValuesInv ==
  ASSUME LabInv, ValuesInv, Admit
  PROVE  ValuesInv'
<1>1. CASE Fail("limit")
  BY <1>1, FailValuesInv
<1>2. CASE /\ phase' = IF Guarded THEN "collect" ELSE "build"
           /\ row' = Zeros /\ next_row' = Zeros
           /\ position' = len
           /\ phase = "compiled" /\ status = "running"
           /\ UNCHANGED <<job, len, selected, prog, work, store, replaying, solving, error, collecting, status>>
  <2>1. Frozen /\ reader' = reader /\ store' = store /\ error' = error /\ start' = start
    BY <1>2 DEF Frozen, replaying, collecting
  <2>2. Guarded' = Guarded /\ Table' = Table
    BY <2>1, FrozenProgram
  <2> SUFFICES ASSUME ~Guarded PROVE ValuesInv'
    BY <2>2 DEF ValuesInv
  <2>3. /\ Inputs /\ Loop /\ Runnable /\ Valued /\ Meant /\ error \notin {"cycle", "log"}
        /\ reader = -1 /\ (job.engine = "log" => store = {}) /\ (job.engine = "rows" => store = <<>>)
        /\ start = 0 /\ len \in Nat
    BY <1>2 DEF LabInv, ValuesInv, Product, Inputs
  <2>4. Rows[len + 1] = Zeros
    BY <2>3, RowsType
  <2>5. /\ Valued' /\ Meant' /\ Rows' = Rows
        /\ (\A p : Bits(p)' = Bits(p)) /\ (\A p : Marks(p)' = Marks(p))
    BY <2>1, <2>3, FrozenValues
  <2>6. phase' = "build" /\ position' = len /\ next_row' = Rows[len + 1] /\ len' = len
    BY <1>2, <2>1, <2>4 DEF Frozen
  <2>7. (position' + 1)..len' = {} /\ \A p \in 0..len' : ~(p > position')
    BY <2>3, <2>6
  <2>8. job'.engine = "log" => store' = UNION {Bits(p)' : p \in (position' + 1)..len'}
    <3>1. UNION {Bits(p)' : p \in (position' + 1)..len'} = {}
      BY <2>7
    <3> QED
      BY <2>1, <2>3, <3>1 DEF Frozen
  <2>9. job'.engine = "rows" =>
            /\ store' \in Seq(SUBSET Nat) /\ Len(store') = len' - position'
            /\ reader' \in Int /\ reader' <= start'
    <3>1. <<>> \in Seq(SUBSET Nat) /\ Len(<<>>) = 0 /\ len - len = 0
      BY <2>3
    <3> QED
      BY <2>1, <2>3, <2>6, <3>1 DEF Frozen
  <2>10. Stored'
    BY <2>5, <2>6, <2>7, <2>8, <2>9 DEF Stored
  <2> QED
    BY <2>1, <2>3, <2>5, <2>6, <2>10 DEF ValuesInv
<1> QED
  BY <1>1, <1>2 DEF Admit

LEMMA PreferredType ==
  ASSUME Runnable, NEW p
  PROVE  Preferred(p) \subseteq Splits /\ Marks(p) \in SUBSET Nat
<1>1. Preferred(p) \subseteq Splits
  BY DEF Preferred, Prefers, Splits
<1> QED
  BY <1>1, RankType DEF Marks

LEMMA BuildRowValuesInv ==
  ASSUME LabInv, ValuesInv, BuildRow
  PROVE  ValuesInv'
<1> DEFINE old == IF Table THEN Zeros ELSE row
           r == RowAt(old, next_row, position)
<1>1. CASE Fail("work")
  BY <1>1, FailValuesInv
<1>2. CASE /\ next_row' = r.row
           /\ row' = next_row
           /\ store' = CASE job.engine = "log"  -> store \cup LogBits(r, position)
                         [] job.engine = "rows" -> Append(store, Record(r))
                         [] OTHER               -> Append(store, r.row)
           /\ position' = position - 1
           /\ phase' = IF position = 0 THEN "collect" ELSE "build"
           /\ UNCHANGED <<input, replaying, solving, error, collecting, status>>
  <2>1. /\ Frozen /\ reader' = reader /\ error' = error /\ start' = start /\ status = "running" /\ phase = "build"
    BY <1>2 DEF Frozen, replaying, collecting, input, BuildRow
  <2>2. Guarded' = Guarded /\ Table' = Table
    BY <2>1, FrozenProgram
  <2> SUFFICES ASSUME ~Guarded PROVE ValuesInv'
    BY <2>2 DEF ValuesInv
  <2>3. /\ Inputs /\ Loop /\ Runnable /\ Sorted /\ Valued /\ Meant /\ error \notin {"cycle", "log"}
        /\ Pass /\ Stored
    BY <2>1 DEF LabInv, ValuesInv, Product
  <2>4. position \in 0..len /\ len \in Nat /\ next_row = Rows[position + 1] /\ Row(row) /\ States \in Nat
    BY <2>1, <2>3 DEF Pass, Inputs, Stored, Runnable
  <2>5. Row(old)
    BY <2>4, ZerosReach, <2>3 DEF Reaches, Row
  <2> HIDE DEF old
  <2>6. r.row = Rows[position] /\ r.took = Preferred(position)
    BY <2>3, <2>4, <2>5, RowIsValue
  <2>7. LogBits(r, position) = Bits(position) /\ Record(r) = Marks(position)
    BY <2>6 DEF LogBits, Record, Bits, Marks
  <2>8. /\ Valued' /\ Meant' /\ Rows' = Rows
        /\ (\A p : Bits(p)' = Bits(p)) /\ (\A p : Marks(p)' = Marks(p))
    BY <2>1, <2>3, FrozenValues
  <2> HIDE DEF r
  <2>9. phase' # "replay" /\ phase' # "new" /\ phase' # "compiled"
    BY <1>2
  <2>10. next_row' = Rows'[position' + 1]
    <3>1. position - 1 + 1 = position
      BY <2>4
    <3> QED
      BY <1>2, <2>6, <2>8, <3>1
  <2>11. Table' => \A p \in 0..len' : p > position' => store'[len' - p + 1] = Rows'[p]
    <3> SUFFICES ASSUME Table, NEW p \in 0..len, p > position - 1
                 PROVE  store'[len - p + 1] = Rows[p]
      BY <1>2, <2>1, <2>2, <2>8 DEF Frozen
    <3>1. store' = Append(store, Rows[position])
      BY <1>2, <2>6 DEF Table
    <3>2. store \in Seq([1..States -> Nat]) /\ Len(store) = len - position
      BY <2>3 DEF Pass
    <3>3. CASE p = position
      BY <3>1, <3>2, <3>3, <2>4
    <3>4. CASE p > position
      <4>1. store[len - p + 1] = Rows[p]
        BY <2>3, <3>4 DEF Stored
      <4>2. len - p + 1 \in 1..Len(store)
        BY <2>4, <3>2, <3>4
      <4> QED
        BY <3>1, <3>2, <4>1, <4>2
    <3> QED
      BY <3>3, <3>4, <2>4
  <2>12. job'.engine = "log" => store' = UNION {Bits(p)' : p \in (position' + 1)..len'}
    <3> SUFFICES ASSUME job.engine = "log"
                 PROVE  store' = UNION {Bits(p) : p \in (position' + 1)..len}
      BY <2>1, <2>8 DEF Frozen
    <3>1. store' = store \cup Bits(position)
      BY <1>2, <2>7
    <3>2. store = UNION {Bits(p) : p \in (position + 1)..len}
      BY <2>3 DEF Stored
    <3>3. (position' + 1)..len = ((position + 1)..len) \cup {position}
      BY <1>2, <2>4
    <3> QED
      BY <3>1, <3>2, <3>3
  <2>13. job'.engine = "rows" =>
            /\ store' \in Seq(SUBSET Nat) /\ Len(store') = len' - position'
            /\ \A p \in 0..len' : p > position' => store'[len' - p + 1] = Marks(p)'
            /\ reader' \in Int /\ reader' <= start'
    <3> SUFFICES ASSUME job.engine = "rows"
                 PROVE  /\ store' \in Seq(SUBSET Nat) /\ Len(store') = len - position'
                        /\ \A p \in 0..len : p > position - 1 => store'[len - p + 1] = Marks(p)
                        /\ reader' \in Int /\ reader' <= start'
      BY <1>2, <2>1, <2>8 DEF Frozen
    <3>1. store' = Append(store, Marks(position))
      BY <1>2, <2>7
    <3>2. /\ store \in Seq(SUBSET Nat) /\ Len(store) = len - position
          /\ reader \in Int /\ reader <= start
          /\ \A p \in 0..len : p > position => store[len - p + 1] = Marks(p)
      BY <2>1, <2>3 DEF Stored
    <3>3. Marks(position) \in SUBSET Nat
      BY <2>3, PreferredType
    <3>4. store' \in Seq(SUBSET Nat) /\ Len(store') = len - (position - 1)
      BY <3>1, <3>2, <3>3, <2>4
    <3>5. ASSUME NEW p \in 0..len, p > position - 1 PROVE store'[len - p + 1] = Marks(p)
      <4>1. CASE p = position
        BY <3>1, <3>2, <4>1, <2>4
      <4>2. CASE p > position
        <5>1. len - p + 1 \in 1..Len(store)
          BY <2>4, <3>2, <4>2
        <5> QED
          BY <3>1, <3>2, <4>2, <5>1
      <4> QED
        BY <3>5, <4>1, <4>2, <2>4
    <3> QED
      BY <1>2, <2>1, <3>2, <3>4, <3>5
  <2>14. Stored'
    BY <2>9, <2>10, <2>11, <2>12, <2>13 DEF Stored
  <2> QED
    BY <2>1, <2>3, <2>8, <2>9, <2>14 DEF ValuesInv
<1> QED
  BY <1>1, <1>2 DEF BuildRow, Charged

\* What was stored for a boundary is found there.
LEMMA StoredValue ==
  ASSUME Inputs, Runnable, Valued, Pass, Stored, position = -1, NEW p \in 0..len
  PROVE  /\ Table => Appended(p) = Rows[p]
         /\ job.engine = "log" =>
                /\ RootIndex(p) \in store <=> Rows[p][prog.entry] # 0
                /\ \A i \in Splits : DecisionIndex(p, i) \in store <=> Prefers(i, Rows[p])
         /\ job.engine = "rows" =>
                /\ SplitCount \in Appended(p) <=> Rows[p][prog.entry] # 0
                /\ \A i \in Splits : SplitRank(i) \in Appended(p) <=> Prefers(i, Rows[p])
<1>1. len \in Nat /\ p > position /\ position + 1 = 0
  BY DEF Inputs
<1>2. ASSUME Table \/ job.engine = "rows" PROVE Appended(p) = store[len - p + 1]
  <2>1. Len(store) = len - position
    BY <1>2 DEF Pass, Stored
  <2>2. Len(store) - p = len - p + 1
    BY <1>1, <2>1
  <2> QED
    BY <2>2 DEF Appended
<1>3. Table => Appended(p) = Rows[p]
  BY <1>1, <1>2 DEF Stored
<1>4. ASSUME NEW q \in 0..len
      PROVE  Preferred(q) \subseteq Splits /\ \A i \in Splits : i \in Preferred(q) <=> Prefers(i, Rows[q])
  BY PreferredType DEF Preferred, Splits
<1>5. ASSUME job.engine = "log"
      PROVE  /\ RootIndex(p) \in store <=> Rows[p][prog.entry] # 0
             /\ \A i \in Splits : DecisionIndex(p, i) \in store <=> Prefers(i, Rows[p])
  <2>1. store = UNION {Bits(q) : q \in 0..len}
    BY <1>1, <1>5 DEF Stored
  <2>2. RootIndex(p) \in store <=> Rows[p][prog.entry] # 0
    <3>1. ASSUME RootIndex(p) \in store PROVE Rows[p][prog.entry] # 0
      <4>1. PICK q \in 0..len : RootIndex(p) \in Bits(q)
        BY <2>1, <3>1
      <4>2. RootIndex(p) \notin {DecisionIndex(q, i) : i \in Preferred(q)}
        BY <1>4, IndexInjective
      <4>3. Rows[q][prog.entry] # 0 /\ RootIndex(p) = RootIndex(q)
        BY <4>1, <4>2 DEF Bits
      <4> QED
        BY <4>3, IndexInjective
    <3>2. ASSUME Rows[p][prog.entry] # 0 PROVE RootIndex(p) \in store
      BY <2>1, <3>2 DEF Bits
    <3> QED
      BY <3>1, <3>2
  <2>3. ASSUME NEW i \in Splits
        PROVE  DecisionIndex(p, i) \in store <=> Prefers(i, Rows[p])
    <3>1. ASSUME DecisionIndex(p, i) \in store PROVE Prefers(i, Rows[p])
      <4>1. PICK q \in 0..len : DecisionIndex(p, i) \in Bits(q)
        BY <2>1, <3>1
      <4>2. DecisionIndex(p, i) # RootIndex(q)
        BY IndexInjective
      <4>3. PICK j \in Preferred(q) : DecisionIndex(p, i) = DecisionIndex(q, j)
        BY <4>1, <4>2 DEF Bits
      <4>4. p = q /\ i = j
        BY <1>4, <4>3, IndexInjective
      <4> QED
        BY <1>4, <4>3, <4>4
    <3>2. ASSUME Prefers(i, Rows[p]) PROVE DecisionIndex(p, i) \in store
      <4>1. i \in Preferred(p)
        BY <1>4, <3>2
      <4> QED
        BY <2>1, <4>1 DEF Bits
    <3> QED
      BY <3>1, <3>2
  <2> QED
    BY <2>2, <2>3
<1>6. ASSUME job.engine = "rows"
      PROVE  /\ SplitCount \in Appended(p) <=> Rows[p][prog.entry] # 0
             /\ \A i \in Splits : SplitRank(i) \in Appended(p) <=> Prefers(i, Rows[p])
  <2>1. Appended(p) = Marks(p)
    BY <1>1, <1>2, <1>6 DEF Stored
  <2>2. \A i \in Splits : SplitRank(i) # SplitCount
    BY RankType
  <2>3. SplitCount \in Marks(p) <=> Rows[p][prog.entry] # 0
    BY <1>4, <2>2 DEF Marks
  <2>4. \A i \in Splits : SplitRank(i) \in Marks(p) <=> i \in Preferred(p)
    BY <1>4, <2>2, RankType DEF Marks
  <2> QED
    BY <2>1, <2>3, <2>4, <1>4
<1> QED
  BY <1>3, <1>5, <1>6

\* The table answers with the end that the program determines.
LEMMA ProbeTableValuesInv ==
  ASSUME LabInv, ValuesInv, ProbeTable
  PROVE  ValuesInv'
<1> DEFINE value == Appended(start)[prog.entry]
<1>1. CASE Fail("work")
  BY <1>1, FailValuesInv
<1>2. CASE Answer(value - 1) /\ NextSearch(value # 0) /\ Refusal /\ UNCHANGED <<input, replaying, solving>>
  <2>1. Frozen /\ reader' = reader /\ Table /\ status = "running" /\ phase = "collect" /\ ~Guarded
    BY <1>2 DEF Frozen, replaying, input, ProbeTable, AtProbe, Probing, Guarded, Table
  <2>2. Guarded' = Guarded /\ Table' = Table /\ job' = job /\ len' = len
    BY <2>1, FrozenProgram DEF Frozen
  <2>3. /\ Inputs /\ Runnable /\ Valued /\ Meant /\ error \notin {"cycle", "log"} /\ Stored /\ len \in Nat
    BY <2>1 DEF LabInv, ValuesInv, Product, Inputs
  <2>4. /\ Valued' /\ Meant' /\ Rows' = Rows
    BY <2>1, <2>3, FrozenValues
  <2>5. error' \notin {"cycle", "log"}
    BY <1>2, <2>3 DEF Refusal
  <2>6. job'.engine # "log" /\ job'.engine # "rows"
    BY <2>1, <2>2 DEF Table
  <2>7. CASE phase' = "collect" /\ UNCHANGED building
    <3>1. Stored'
      BY <2>2, <2>3, <2>4, <2>6, <2>7 DEF Stored, building
    <3> QED
      BY <3>1, <2>4, <2>5, <2>7 DEF ValuesInv
  <2>8. CASE phase' = "build" /\ next_row' = Zeros /\ position' = len
    <3>1. Rows[len + 1] = Zeros
      BY <2>3, RowsType
    <3>2. next_row' = Rows'[position' + 1]
      BY <3>1, <2>4, <2>8
    <3>3. \A p \in 0..len' : ~(p > position')
      BY <2>2, <2>3, <2>8
    <3>4. Stored'
      BY <3>2, <3>3, <2>6, <2>8 DEF Stored
    <3> QED
      BY <3>4, <2>4, <2>5, <2>8 DEF ValuesInv
  <2> QED
    BY <1>2, <2>7, <2>8 DEF NextSearch
<1> QED
  BY <1>1, <1>2 DEF ProbeTable, Charged

LEMMA ProbeRootValuesInv ==
  ASSUME LabInv, ValuesInv, AtProbe, Logged, NEW STATE root, root <=> Rows[start][prog.entry] # 0,
         ProbeRoot(root), UNCHANGED <<input, building>>,
         job.engine = "rows" => reader' = start
  PROVE  ValuesInv'
<1>1. Frozen /\ status = "running" /\ phase = "collect" /\ ~Guarded /\ Probing /\ ~Table
      /\ store' = store /\ position' = position
  BY DEF Frozen, input, building, AtProbe, Probing, Guarded, Logged, Table
<1>2. Guarded' = Guarded /\ Table' = Table /\ job' = job /\ len' = len /\ prog' = prog
  BY <1>1, FrozenProgram DEF Frozen
<1>3. /\ Inputs /\ Loop /\ Runnable /\ Valued /\ Meant /\ error \notin {"cycle", "log"} /\ Stored
      /\ len \in Nat /\ start \in Int
  BY <1>1 DEF LabInv, ValuesInv, Product, Inputs, Loop
<1>4. /\ Valued' /\ Meant' /\ Rows' = Rows
      /\ (\A p : Bits(p)' = Bits(p)) /\ (\A p : Marks(p)' = Marks(p))
  BY <1>1, <1>3, FrozenValues
<1>5. job'.engine = "log" => store' = UNION {Bits(p)' : p \in (position' + 1)..len'}
  BY <1>1, <1>2, <1>3, <1>4 DEF Stored
<1>6. job'.engine = "rows" =>
        /\ store' \in Seq(SUBSET Nat) /\ Len(store') = len' - position'
        /\ \A p \in 0..len' : p > position' => store'[len' - p + 1] = Marks(p)'
  BY <1>1, <1>2, <1>3, <1>4 DEF Stored
<1>7. CASE root
  <2>1. phase' = "replay" /\ pc' = prog.entry /\ at' = start /\ UNCHANGED <<status, error, collecting>>
    BY <1>7 DEF ProbeRoot
  <2>2. start' = start /\ error' = error
    BY <2>1 DEF collecting
  <2>3. Rows'[at'][pc'] # 0 /\ Rows'[at'][pc'] = Rows'[start'][prog'.entry]
    BY <1>2, <1>4, <1>7, <2>1, <2>2
  <2>4. job'.engine = "rows" => reader' \in Int /\ reader' <= at'
    BY <1>2, <1>3, <2>1
  <2>5. Stored'
    BY <1>1, <1>2, <1>5, <1>6, <2>1, <2>3, <2>4 DEF Stored
  <2> QED
    BY <1>3, <1>4, <2>1, <2>2, <2>5 DEF ValuesInv
<1>8. CASE ~root
  <2>1. Answer(NoMatch) /\ UNCHANGED <<phase, pc, at, error>>
    BY <1>8 DEF ProbeRoot
  <2>2. Loop' /\ start' >= start
    BY <2>1, <1>1, <1>2, <1>3, AnswerLoop
  <2>3. job'.engine = "rows" => reader' \in Int /\ reader' <= start'
    <3>1. PICK s \in Int : start' = s
      BY <1>2, <1>3, <2>2 DEF Loop
    <3> QED
      BY <1>2, <1>3, <2>2, <3>1
  <2>4. Stored'
    BY <1>1, <1>2, <1>5, <1>6, <2>1, <2>3 DEF Stored
  <2> QED
    BY <1>1, <1>3, <1>4, <2>1, <2>4 DEF ValuesInv
<1> QED
  BY <1>7, <1>8

LEMMA ProbeLogValuesInv ==
  ASSUME LabInv, ValuesInv, ProbeLog
  PROVE  ValuesInv'
<1>1. CASE Fail("work")
  BY <1>1, FailValuesInv
<1>2. CASE ProbeRoot(RootIndex(start) \in store) /\ UNCHANGED <<input, building, solving, reader>>
  <2>1. /\ Inputs /\ Loop /\ Runnable /\ Valued /\ Pass /\ Stored /\ phase = "collect" /\ Probing
        /\ AtProbe /\ Logged /\ job.engine = "log"
    BY DEF LabInv, ValuesInv, Product, ProbeLog, AtProbe, Probing, Guarded, Logged
  <2>2. position = -1 /\ start \in 0..len
    BY <2>1, SpentProbe DEF Pass, Inputs
  <2>3. RootIndex(start) \in store <=> Rows[start][prog.entry] # 0
    BY <2>1, <2>2, StoredValue
  <2> DEFINE root == RootIndex(start) \in store
  <2>4. ProbeRoot(root) /\ (root <=> Rows[start][prog.entry] # 0)
    BY <1>2, <2>3
  <2> HIDE DEF root
  <2> QED
    BY <1>2, <2>1, <2>4, ProbeRootValuesInv
<1> QED
  BY <1>1, <1>2 DEF ProbeLog, Charged

LEMMA ProbeRowsValuesInv ==
  ASSUME LabInv, ValuesInv, ProbeRows
  PROVE  ValuesInv'
<1>1. /\ Inputs /\ Loop /\ Runnable /\ Valued /\ Pass /\ Stored /\ phase = "collect" /\ Probing
      /\ AtProbe /\ Logged /\ job.engine = "rows"
  BY DEF LabInv, ValuesInv, Product, ProbeRows, AtProbe, Probing, Guarded, Logged
<1>2. position = -1 /\ start \in 0..len /\ len \in Nat
  BY <1>1, SpentProbe DEF Pass, Inputs
<1>3. ~(start < reader)
  BY <1>1, <1>2 DEF Stored
<1>4. CASE Fail("work")
  BY <1>4, FailValuesInv
<1>5. CASE ProbeRoot(SplitCount \in Appended(start)) /\ reader' = start /\ UNCHANGED <<input, building, solving>>
  <2>1. SplitCount \in Appended(start) <=> Rows[start][prog.entry] # 0
    BY <1>1, <1>2, StoredValue
  <2> DEFINE root == SplitCount \in Appended(start)
  <2>2. ProbeRoot(root) /\ (root <=> Rows[start][prog.entry] # 0)
    BY <1>5, <2>1
  <2> HIDE DEF root
  <2> QED
    BY <1>1, <1>5, <2>2, ProbeRootValuesInv
<1> QED
  BY <1>3, <1>4, <1>5 DEF ProbeRows, Charged

LEMMA ReplayMatchValuesInv ==
  ASSUME LabInv, ValuesInv, ReplayMatch
  PROVE  ValuesInv'
<1>1. CASE Fail("work")
  BY <1>1, FailValuesInv
<1>2. CASE Answer(at) /\ Refusal /\ phase' = "collect" /\ UNCHANGED <<input, building, replaying, solving>>
  <2>1. Frozen /\ status = "running" /\ phase = "replay" /\ store' = store /\ position' = position /\ reader' = reader
    BY <1>2 DEF Frozen, input, building, replaying, ReplayMatch, Replaying
  <2>2. Guarded' = Guarded /\ Table' = Table /\ job' = job /\ len' = len /\ prog' = prog
    BY <2>1, FrozenProgram DEF Frozen
  <2> SUFFICES ASSUME ~Guarded PROVE ValuesInv'
    BY <2>2 DEF ValuesInv
  <2>3. /\ Inputs /\ Loop /\ Runnable /\ Valued /\ Meant /\ error \notin {"cycle", "log"} /\ Pass /\ Stored
        /\ len \in Nat /\ start \in Nat /\ job.engine \in {"log", "rows"} /\ at \in start..len
    BY <2>1 DEF LabInv, ValuesInv, Product, Inputs, Loop, Pass
  <2>4. /\ Valued' /\ Meant' /\ Rows' = Rows
        /\ (\A p : Bits(p)' = Bits(p)) /\ (\A p : Marks(p)' = Marks(p))
    BY <2>1, <2>3, FrozenValues
  <2>5. error' \notin {"cycle", "log"}
    BY <1>2, <2>3 DEF Refusal
  <2>6. Loop' /\ (status' = "running" => at = NoMatch \/ start' >= at)
    BY <1>2, <2>2, <2>3, AnswerLoop
  <2>7. ASSUME status' = "running" PROVE Stored'
    <3>1. PICK s \in Int : start' = s
      BY <2>2, <2>3, <2>6 DEF Loop
    <3>2. s >= at
      BY <2>3, <2>6, <2>7, <3>1, Constants
    <3>3. job.engine = "rows" => reader \in Int /\ reader <= at
      BY <2>1, <2>3 DEF Stored
    <3>4. job'.engine = "rows" => reader' \in Int /\ reader' <= start'
      BY <2>1, <2>2, <2>3, <3>1, <3>2, <3>3
    <3>5. ~Table'
      BY <2>2, <2>3 DEF Table
    <3>6. job'.engine = "log" => store' = UNION {Bits(p)' : p \in (position' + 1)..len'}
      BY <2>1, <2>2, <2>3, <2>4 DEF Stored
    <3>7. job'.engine = "rows" =>
            /\ store' \in Seq(SUBSET Nat) /\ Len(store') = len' - position'
            /\ \A p \in 0..len' : p > position' => store'[len' - p + 1] = Marks(p)'
      BY <2>1, <2>2, <2>3, <2>4 DEF Stored
    <3> QED
      BY <1>2, <3>4, <3>5, <3>6, <3>7 DEF Stored
  <2> QED
    BY <1>2, <2>4, <2>5, <2>7 DEF ValuesInv
<1> QED
  BY <1>1, <1>2 DEF ReplayMatch, Charged

\* An instruction that leads to an end lets the match go on, and hands its
\* end on.
LEMMA ValueStep ==
  ASSUME Inputs, Runnable, Valued, NEW p \in 0..len, NEW i \in 1..States,
         Rows[p][i] # 0, prog.code[i].op # "match"
  PROVE  /\ Passes(prog.code[i], hay, p)
         /\ prog.code[i].op = "byte" => Rows[p + 1][prog.code[i].to[1]] = Rows[p][i]
         /\ prog.code[i].op = "split" =>
                Rows[p][IF Prefers(i, Rows[p]) THEN prog.code[i].to[1] ELSE prog.code[i].to[2]] = Rows[p][i]
         /\ prog.code[i].op \notin {"byte", "split"} => Rows[p][prog.code[i].to[1]] = Rows[p][i]
<1>1. Rows[p][i] = Evaluate(prog.code[i], Rows[p], Rows[p + 1], hay, p)
  BY RowsType
<1>2. Passes(prog.code[i], hay, p)
  BY <1>1 DEF Evaluate
<1> QED
  BY <1>1, <1>2 DEF Evaluate, Prefers

LEMMA ReplayStepValuesInv ==
  ASSUME LabInv, ValuesInv, ReplayStep
  PROVE  ValuesInv'
<1> DEFINE inst == prog.code[pc]
           reads == job.engine = "rows" /\ inst.op = "split"
           to == IF inst.op # "split" \/ Decision THEN inst.to[1] ELSE inst.to[2]
<1>1. status = "running" /\ phase = "replay" /\ inst.op # "match"
  BY DEF ReplayStep, Replaying
<1>2. Guarded' = Guarded
  BY DEF ReplayStep, Charged, Fail, input, Guarded
<1> SUFFICES ASSUME ~Guarded PROVE ValuesInv'
  BY <1>2 DEF ValuesInv
<1>3. /\ Inputs /\ Loop /\ Runnable /\ Valued /\ Meant /\ error \notin {"cycle", "log"} /\ Pass /\ Stored
      /\ len \in Nat /\ start \in Nat
  BY <1>1 DEF LabInv, ValuesInv, Product, Inputs, Loop
<1>4. /\ position = -1 /\ at \in start..len /\ pc \in 1..States /\ job.engine \in {"log", "rows"}
      /\ at \in 0..len
  BY <1>1, <1>3 DEF Pass
<1>5. /\ Rows[at][pc] # 0 /\ Rows[at][pc] = Rows[start][prog.entry]
      /\ job.engine = "rows" => reader \in Int /\ reader <= at
  BY <1>1, <1>3 DEF Stored
<1>6. Passes(inst, hay, at) /\ ~(reads /\ at < reader)
  BY <1>1, <1>3, <1>4, <1>5, ValueStep
<1>7. inst.op = "split" => (Decision <=> Prefers(pc, Rows[at]))
  <2>1. inst.op = "split" => pc \in Splits
    BY <1>4 DEF Splits
  <2> QED
    BY <1>3, <1>4, <2>1, StoredValue DEF Decision
<1>8. CASE Fail("work")
  BY <1>8, FailValuesInv
<1>9. CASE /\ pc' = to
           /\ at' = IF inst.op = "byte" THEN at + 1 ELSE at
           /\ reader' = IF reads THEN at ELSE reader
           /\ UNCHANGED <<input, phase, building, solving, error, collecting, status>>
  <2>1. Rows[at'][pc'] = Rows[at][pc]
    <3>1. CASE inst.op = "byte"
      BY <3>1, <1>1, <1>3, <1>4, <1>5, <1>9, ValueStep
    <3>2. CASE inst.op = "split"
      BY <3>2, <1>1, <1>3, <1>4, <1>5, <1>7, <1>9, ValueStep
    <3>3. CASE inst.op \notin {"byte", "split"}
      BY <3>3, <1>1, <1>3, <1>4, <1>5, <1>9, ValueStep
    <3> QED
      BY <3>1, <3>2, <3>3
  <2>2. /\ Frozen /\ store' = store /\ position' = position /\ error' = error /\ start' = start
        /\ phase' = phase /\ status' = status
    BY <1>9 DEF Frozen, input, building, collecting
  <2>3. Table' = Table /\ job' = job /\ len' = len /\ prog' = prog
    BY <2>2, FrozenProgram DEF Frozen
  <2>4. /\ Valued' /\ Meant' /\ Rows' = Rows
        /\ (\A p : Bits(p)' = Bits(p)) /\ (\A p : Marks(p)' = Marks(p))
    BY <2>2, <1>3, FrozenValues
  <2>5. Rows'[at'][pc'] # 0 /\ Rows'[at'][pc'] = Rows'[start'][prog'.entry]
    BY <1>5, <2>1, <2>2, <2>3, <2>4
  <2>6. job'.engine = "rows" => reader' \in Int /\ reader' <= at'
    <3>1. job.engine = "rows" => reader' \in Int /\ reader' <= at
      BY <1>4, <1>5, <1>9, <1>3
    <3>2. at' = at \/ at' = at + 1
      BY <1>9
    <3>3. PICK q \in Int : at' = q /\ at <= q
      BY <1>3, <1>4, <3>2
    <3>4. PICK x : reader' = x
      OBVIOUS
    <3> QED
      BY <2>3, <3>1, <3>3, <3>4, <1>3, <1>4
  <2>7. ~Table'
    BY <1>4, <2>3 DEF Table
  <2>8. job'.engine = "log" => store' = UNION {Bits(p)' : p \in (position' + 1)..len'}
    BY <1>3, <2>2, <2>3, <2>4 DEF Stored
  <2>9. job'.engine = "rows" =>
          /\ store' \in Seq(SUBSET Nat) /\ Len(store') = len' - position'
          /\ \A p \in 0..len' : p > position' => store'[len' - p + 1] = Marks(p)'
    BY <1>3, <2>2, <2>3, <2>4 DEF Stored
  <2>10. Stored'
    BY <1>1, <2>2, <2>5, <2>6, <2>7, <2>8, <2>9 DEF Stored
  <2> QED
    BY <1>1, <1>3, <2>2, <2>4, <2>10 DEF ValuesInv
<1> QED
  BY <1>6, <1>8, <1>9 DEF ReplayStep, Charged

LEMMA FinishValuesInv ==
  ASSUME ValuesInv, Finish
  PROVE  ValuesInv'
<1>1. Frozen /\ phase' = phase /\ phase = "collect" /\ error' = error /\ status' = "done"
  BY DEF Finish, Stop, Frozen
<1>2. Guarded' = Guarded /\ (Valued => Valued') /\ (Meant => Meant')
  BY <1>1, FrozenProgram, FrozenValues
<1> QED
  BY <1>1, <1>2 DEF ValuesInv

LEMMA SolverValuesInv ==
  ASSUME LabInv, ProbeGuarded \/ Solve \/ Solved
  PROVE  ValuesInv'
<1>1. Guarded
  <2>1. phase = "solve" => Guarded
    BY DEF LabInv, Product
  <2> QED
    BY <2>1 DEF ProbeGuarded, Solve, Solved
<1>2. Guarded'
  BY <1>1 DEF ProbeGuarded, Solve, Solved, Charged, Fail, Guarded, input
<1> QED
  BY <1>2 DEF ValuesInv

LEMMA StutterValuesInv ==
  ASSUME ValuesInv, UNCHANGED vars
  PROVE  ValuesInv'
<1>1. /\ Frozen
      /\ UNCHANGED <<phase, row, next_row, position, store, reader, pc, at, error, status, start>>
  BY DEF vars, input, building, replaying, collecting, Frozen
<1>2. Guarded' = Guarded /\ Table' = Table /\ job' = job /\ len' = len /\ prog' = prog
  BY <1>1, FrozenProgram DEF Frozen
<1>3. /\ (Valued => Valued') /\ (Meant => Meant') /\ Rows' = Rows
      /\ (\A p : Bits(p)' = Bits(p)) /\ (\A p : Marks(p)' = Marks(p))
  BY <1>1, FrozenValues
<1>4. Stored => Stored'
  BY <1>1, <1>2, <1>3 DEF Stored
<1> QED
  BY <1>1, <1>2, <1>3, <1>4 DEF ValuesInv

LEMMA NextValuesInv == LabInv /\ ValuesInv /\ [Next]_vars => ValuesInv'
<1> SUFFICES ASSUME LabInv, ValuesInv, [Next]_vars PROVE ValuesInv'
  OBVIOUS
<1>1. CASE New
  BY <1>1, NewValuesInv
<1>2. CASE Admit
  BY <1>2, AdmitValuesInv
<1>3. CASE AllocationFails
  BY <1>3, FailValuesInv DEF AllocationFails
<1>4. CASE BuildRow
  BY <1>4, BuildRowValuesInv
<1>5. CASE ProbeTable
  BY <1>5, ProbeTableValuesInv
<1>6. CASE ProbeLog
  BY <1>6, ProbeLogValuesInv
<1>7. CASE ProbeRows
  BY <1>7, ProbeRowsValuesInv
<1>8. CASE ReplayMatch
  BY <1>8, ReplayMatchValuesInv
<1>9. CASE ReplayStep
  BY <1>9, ReplayStepValuesInv
<1>10. CASE ProbeGuarded \/ Solve \/ Solved
  BY <1>10, SolverValuesInv
<1>11. CASE Finish
  BY <1>11, FinishValuesInv
<1>12. CASE Returned \/ UNCHANGED vars
  BY <1>12, StutterValuesInv DEF Returned
<1> QED
  BY <1>1, <1>2, <1>3, <1>4, <1>5, <1>6, <1>7, <1>8, <1>9, <1>10, <1>11, <1>12 DEF Next, Step

\* Tables, logs and records hold what the product program determines, a replay
\* keeps to the match that its probe has found, and the reader of the records
\* is never ahead of it.
THEOREM ValuesInvariance == Spec => []ValuesInv
<1>1. Init => ValuesInv
  BY InitValuesInv
<1>2. LabInv /\ ValuesInv /\ [Next]_vars => ValuesInv'
  BY NextValuesInv
<1> QED
  BY <1>1, <1>2, LabInvariance, PTL DEF Spec

-----------------------------------------------------------------------------
(* Saved positions are the digits of a number.                             *)

PowersUpTo(f, n, base) == f = [k \in 0..n |-> IF k = 0 THEN 1 ELSE f[k - 1] * base]

LEMMA PowersExist ==
  ASSUME NEW n \in Nat, NEW base
  PROVE  \E f : PowersUpTo(f, n, base)
<1> DEFINE B == {m \in 0..n : ~ \E f : PowersUpTo(f, m, base)}
<1> SUFFICES ASSUME B # {} PROVE FALSE
  OBVIOUS
<1>1. PICK m \in B : \A k \in B : m <= k
  BY Least
<1>2. CASE m = 0
  <2> DEFINE g == [k \in 0..0 |-> 1]
  <2>1. PowersUpTo(g, 0, base)
    BY DEF PowersUpTo
  <2> QED
    BY <1>1, <1>2, <2>1
<1>3. CASE m # 0
  <2>1. m - 1 \in 0..n /\ m - 1 \notin B
    BY <1>1, <1>3
  <2>2. PICK g : PowersUpTo(g, m - 1, base)
    BY <2>1
  <2> DEFINE h == [k \in 0..m |-> IF k < m THEN g[k] ELSE g[m - 1] * base]
  <2>3. ASSUME NEW k \in 0..m
        PROVE  h[k] = IF k = 0 THEN 1 ELSE h[k - 1] * base
    <3>1. CASE k = m
      BY <3>1, <1>3
    <3>2. CASE k # m /\ k # 0
      <4>1. k \in 0..(m - 1) /\ k - 1 \in 0..m /\ k - 1 < m /\ k < m
        BY <3>2
      <4>2. h[k] = g[k] /\ h[k - 1] = g[k - 1]
        BY <4>1
      <4>3. g[k] = g[k - 1] * base
        BY <2>2, <4>1, <3>2 DEF PowersUpTo
      <4> QED
        BY <4>2, <4>3, <3>2
    <3>3. CASE k = 0
      <4>1. h[0] = g[0] /\ 0 \in 0..(m - 1)
        BY <1>3
      <4> QED
        BY <4>1, <3>3, <2>2 DEF PowersUpTo
    <3> QED
      BY <3>1, <3>2, <3>3
  <2>4. PowersUpTo(h, m, base)
    <3> HIDE DEF h
    <3>1. h = [k \in 0..m |-> h[k]]
      BY DEF h
    <3> QED
      BY <3>1, <2>3 DEF PowersUpTo
  <2> QED
    BY <1>1, <2>4
<1> QED
  BY <1>2, <1>3

LEMMA PowersAgree ==
  ASSUME NEW m \in Nat, NEW n \in Nat, m <= n, NEW base, NEW f, NEW g,
         PowersUpTo(f, m, base), PowersUpTo(g, n, base)
  PROVE  f[m] = g[m]
<1> DEFINE B == {k \in 0..m : f[k] # g[k]}
<1>1. ASSUME B # {} PROVE FALSE
  <2>1. PICK k \in B : \A j \in B : k <= j
    BY <1>1, Least
  <2>2. k \in 0..m /\ k \in 0..n
    OBVIOUS
  <2>3. CASE k = 0
    BY <2>1, <2>2, <2>3 DEF PowersUpTo
  <2>4. CASE k # 0
    <3>1. k - 1 \in 0..m /\ k - 1 \notin B
      BY <2>1, <2>2, <2>4
    <3>2. f[k] = f[k - 1] * base /\ g[k] = g[k - 1] * base
      BY <2>2, <2>4 DEF PowersUpTo
    <3> QED
      BY <2>1, <3>1, <3>2
  <2> QED
    BY <2>3, <2>4
<1> QED
  BY <1>1

LEMMA PowerOf ==
  ASSUME NEW n \in Nat, NEW base
  PROVE  \E f : PowersUpTo(f, n, base) /\ Power(base, n) = f[n]
<1> DEFINE g == CHOOSE f : PowersUpTo(f, n, base)
<1>1. Power(base, n) = g[n]
  BY Zenon DEF Power, PowersUpTo
<1>2. PowersUpTo(g, n, base)
  BY PowersExist, Zenon
<1> QED
  BY <1>1, <1>2

\* The recurrence of checked_pow.
LEMMA PowerStep ==
  ASSUME NEW base
  PROVE  /\ Power(base, 0) = 1
         /\ \A n \in Nat : Power(base, n + 1) = Power(base, n) * base
<1>1. Power(base, 0) = 1
  BY PowerOf DEF PowersUpTo
<1>2. ASSUME NEW n \in Nat PROVE Power(base, n + 1) = Power(base, n) * base
  <2>1. PICK f : PowersUpTo(f, n, base) /\ Power(base, n) = f[n]
    BY PowerOf
  <2>2. n + 1 \in Nat /\ n <= n + 1
    OBVIOUS
  <2>3. PICK g : PowersUpTo(g, n + 1, base) /\ Power(base, n + 1) = g[n + 1]
    BY <2>2, PowerOf
  <2>4. f[n] = g[n]
    BY <2>1, <2>2, <2>3, PowersAgree
  <2>5. g[n + 1] = g[n] * base
    <3>1. n + 1 \in 0..(n + 1) /\ n + 1 # 0 /\ n + 1 - 1 = n
      OBVIOUS
    <3> QED
      BY <2>3, <3>1 DEF PowersUpTo
  <2> QED
    BY <2>1, <2>3, <2>4, <2>5
<1> QED
  BY <1>1, <1>2

Positive == Nat \ {0}

LEMMA PositiveProduct ==
  ASSUME NEW a \in Positive, NEW b \in Positive
  PROVE  a * b \in Positive
<1>1. a \in Nat /\ b \in Nat /\ 1 <= a /\ 1 <= b
  BY DEF Positive
<1>2. 1 * b <= a * b /\ a * b \in Nat
  BY <1>1, Monotone
<1> QED
  BY <1>1, <1>2 DEF Positive

LEMMA PowerType ==
  ASSUME NEW base \in Positive, NEW n \in Nat
  PROVE  Power(base, n) \in Positive
<1> DEFINE B == {k \in 0..n : Power(base, k) \notin Positive}
<1>1. ASSUME B # {} PROVE FALSE
  <2>1. PICK k \in B : \A j \in B : k <= j
    BY <1>1, Least
  <2>2. CASE k = 0
    BY <2>1, <2>2, PowerStep DEF Positive
  <2>3. CASE k # 0
    <3>1. k - 1 \in 0..n /\ k - 1 \notin B /\ k - 1 \in Nat /\ k - 1 + 1 = k
      BY <2>1, <2>3
    <3>2. Power(base, k - 1) \in Positive
      BY <3>1
    <3>3. Power(base, k - 1 + 1) = Power(base, k - 1) * base
      BY <3>1, PowerStep
    <3> QED
      BY <2>1, <3>1, <3>2, <3>3, PositiveProduct
  <2> QED
    BY <2>2, <2>3
<1>2. n \in 0..n
  OBVIOUS
<1> QED
  BY <1>1, <1>2

\* A higher power is a multiple of the next one.
LEMMA PowerFactor ==
  ASSUME NEW base \in Positive, NEW k \in Nat, NEW n \in Nat, k < n
  PROVE  \E q \in Positive : Power(base, n) = Power(base, k) * base * q
<1> DEFINE B == {m \in 0..n : m > k /\ ~ \E q \in Positive : Power(base, m) = Power(base, k) * base * q}
<1>1. ASSUME B # {} PROVE FALSE
  <2>1. PICK m \in B : \A j \in B : m <= j
    BY <1>1, Least
  <2>2. m \in Nat /\ m > k /\ m - 1 \in Nat /\ m - 1 + 1 = m
    BY <2>1
  <2> DEFINE a == Power(base, k)
  <2>3. a \in Positive /\ base \in Positive
    BY PowerType
  <2>4. Power(base, m) = Power(base, m - 1) * base
    <3>1. Power(base, m - 1 + 1) = Power(base, m - 1) * base
      BY <2>2, PowerStep
    <3> QED
      BY <2>2, <3>1
  <2> HIDE DEF a
  <2>5. CASE m - 1 = k
    <3>1. Power(base, m) = a * base * 1 /\ 1 \in Positive
      <4>1. a * base \in Nat
        BY <2>3, PositiveProduct DEF Positive
      <4>2. Power(base, m) = a * base
        BY <2>4, <2>5 DEF a
      <4> QED
        BY <4>1, <4>2 DEF Positive
    <3> QED
      BY <2>1, <3>1 DEF a
  <2>6. CASE m - 1 > k
    <3>1. m - 1 \in 0..n /\ m - 1 \notin B
      BY <2>1, <2>2
    <3>2. PICK q \in Positive : Power(base, m - 1) = a * base * q
      BY <2>6, <3>1 DEF a
    <3>3. Power(base, m) = a * base * (q * base) /\ q * base \in Positive
      <4>1. a \in Nat /\ base \in Nat /\ q \in Nat
        BY <2>3 DEF Positive
      <4>2. a * base * q * base = a * base * (q * base)
        BY <4>1
      <4> QED
        BY <2>3, <2>4, <3>2, <4>2, PositiveProduct
    <3> QED
      BY <2>1, <3>3 DEF a
  <2> QED
    BY <2>2, <2>5, <2>6
<1>2. n \in 0..n /\ n > k
  OBVIOUS
<1> QED
  BY <1>1, <1>2

\* Quotients and remainders.
LEMMA Quotient ==
  ASSUME NEW x \in Nat, NEW n \in Positive
  PROVE  \E q \in Nat, r \in 0..(n - 1) :
            q = x \div n /\ r = x % n /\ x = q * n + r
<1>1. n \in Nat \ {0}
  BY DEF Positive
<1> DEFINE q == x \div n
<1>2. q \in Nat /\ q * n <= x /\ x < q * n + n
  BY <1>1
<1>3. q * n \in Nat
  BY <1>1, <1>2
<1> DEFINE r == x - q * n
<1> HIDE DEF q
<1>4. r \in 0..(n - 1) /\ x = q * n + r
  BY <1>1, <1>2, <1>3
<1> HIDE DEF r
<1>5. x % n = r
  BY <1>1, <1>2, <1>4
<1>6. q = x \div n /\ r = x % n
  BY <1>5 DEF q
<1> QED
  BY <1>2, <1>4, <1>6

LEMMA Dividing ==
  ASSUME NEW n \in Positive, NEW q \in Nat, NEW r \in 0..(n - 1)
  PROVE  (q * n + r) \div n = q /\ (q * n + r) % n = r
<1>1. n \in Nat \ {0}
  BY DEF Positive
<1>2. PICK x \in Nat : x = q * n + r
  BY <1>1
<1>3. x \div n = q /\ x % n = r
  BY <1>1, <1>2
<1> QED
  BY <1>2, <1>3

LEMMA Multiple ==
  ASSUME NEW n \in Positive, NEW k \in Nat, NEW x \in Nat
  PROVE  (k * n + x) \div n = k + x \div n /\ (k * n + x) % n = x % n
<1>1. PICK q \in Nat, r \in 0..(n - 1) : q = x \div n /\ r = x % n /\ x = q * n + r
  BY Quotient
<1>2. n \in Nat
  BY DEF Positive
<1>3. k + q \in Nat /\ k * n + x = (k + q) * n + r
  BY <1>1, <1>2
<1>4. ((k + q) * n + r) \div n = k + q /\ ((k + q) * n + r) % n = r
  BY <1>1, <1>3, Dividing
<1> QED
  BY <1>1, <1>3, <1>4

LEMMA Twice ==
  ASSUME NEW x \in Nat, NEW m \in Positive, NEW n \in Positive
  PROVE  (x \div m) \div n = x \div (m * n)
<1>1. m \in Nat \ {0} /\ n \in Nat \ {0}
  BY DEF Positive
<1> QED
  BY <1>1

\* The number t is s with the digit that f is the weight of replaced by p.
Replaces(t, s, f, r, p) ==
    /\ t \in Nat
    /\ (t \div f) % r = p
    /\ \A q \in Positive : s < f * r * q => t < f * r * q
    /\ \A q \in Positive : t \div (f * r * q) = s \div (f * r * q)
    /\ \A q, b \in Positive : f = b * r * q => (t \div b) % r = (s \div b) % r

LEMMA DigitWritten ==
  ASSUME NEW r \in Positive, NEW f \in Positive, NEW s \in Nat, NEW p \in 0..(r - 1),
         NEW d, d = (s \div f) % r, NEW t, t = s - d * f + p * f
  PROVE  Replaces(t, s, f, r, p)
<1>0. PICK a \in Nat, lo \in 0..(f - 1) : a = s \div f /\ lo = s % f /\ s = a * f + lo
  BY Quotient
<1>1. PICK hi \in Nat, e \in 0..(r - 1) : hi = a \div r /\ e = a % r /\ a = hi * r + e
  BY Quotient
<1>3. r \in Nat /\ f \in Nat
  BY DEF Positive
<1>4. lo \in Nat /\ d \in Nat /\ p \in Nat /\ lo < f /\ d = e
  BY <1>0, <1>1, <1>3
<1>2. s = (hi * r + d) * f + lo /\ t = (hi * r + p) * f + lo
  <2>1. PICK u \in Nat : u = hi * r
    BY <1>3
  <2>2. s = (u + d) * f + lo
    BY <2>1, <1>0, <1>1, <1>4
  <2>3. (u + d) * f = u * f + d * f /\ (u + p) * f = u * f + p * f
    BY <1>3, <1>4
  <2> DEFINE x == u * f
             y == d * f
             z == p * f
  <2>4. x \in Nat /\ y \in Nat /\ z \in Nat /\ s = x + y + lo /\ (u + p) * f = x + z /\ t = s - y + z
    BY <2>2, <2>3, <1>3, <1>4
  <2> HIDE DEF x, y, z
  <2>5. t = x + z + lo
    BY <2>4, <1>4
  <2> QED
    BY <2>1, <2>2, <2>4, <2>5
<1>5. hi * r + p \in Nat /\ hi * r + d \in Nat
  BY <1>3, <1>4
<1>6. t \in Nat
  BY <1>2, <1>3, <1>4, <1>5
<1>7. t \div f = hi * r + p
  BY <1>2, <1>5, Dividing
<1>8. (t \div f) % r = p /\ (t \div f) \div r = hi
  BY <1>7, Dividing
<1>9. ASSUME NEW q \in Positive, s < f * r * q PROVE t < f * r * q
  <2> DEFINE m == f * r
  <2>1. q \in Nat /\ m \in Nat
    BY <1>3 DEF Positive
  <2>2. s = hi * m + (d * f + lo)
    BY <1>2, <1>3, <1>4
  <2>3. t = hi * m + (p * f + lo)
    BY <1>2, <1>3, <1>4
  <2>4. d * f \in Nat /\ p * f \in Nat /\ (p + 1) * f = p * f + f /\ r * f = m
    BY <1>3, <1>4
  <2>5. p + 1 \in Nat /\ p + 1 <= r
    BY <1>3, <1>4
  <2>6. (p + 1) * f <= r * f
    BY <1>3, <2>5, Monotone
  <2> HIDE DEF m
  <2>7. hi * m \in Nat /\ q * m \in Nat /\ (hi + 1) * m = hi * m + m
    BY <2>1
  <2>8. s < q * m
    <3>1. m * q = q * m
      BY <2>1
    <3> QED
      BY <1>9, <3>1 DEF m
  <2> DEFINE x == hi * m
             y == p * f
             z == d * f
             w == q * m
  <2>9. /\ x \in Nat /\ y \in Nat /\ z \in Nat /\ w \in Nat
        /\ s = x + (z + lo) /\ t = x + (y + lo) /\ y + f <= m /\ s < w
    BY <2>2, <2>3, <2>4, <2>6, <2>7, <2>8
  <2>10. hi + 1 <= q
    <3> SUFFICES ASSUME q <= hi PROVE FALSE
      BY <2>1
    <3>1. w <= x
      BY <2>1, Monotone
    <3> HIDE DEF x, y, z, w
    <3> QED
      BY <2>9, <3>1, <1>4
  <2>11. x + m <= w
    <3>1. hi + 1 \in Nat /\ (hi + 1) * m <= q * m
      BY <2>1, <2>10, Monotone
    <3> QED
      BY <3>1, <2>7
  <2> HIDE DEF x, y, z, w
  <2>12. t < w
    BY <2>1, <2>9, <2>11, <1>3, <1>4
  <2>13. m * q = q * m
    BY <2>1
  <2> QED
    BY <2>12, <2>13 DEF w, m
<1>10. ASSUME NEW q \in Positive PROVE t \div (f * r * q) = s \div (f * r * q)
  <2>1. f * r \in Positive
    BY PositiveProduct
  <2>2. ASSUME NEW x \in Nat PROVE x \div (f * r * q) = ((x \div f) \div r) \div q
    <3>1. (x \div f) \div r = x \div (f * r)
      BY Twice
    <3>2. (x \div (f * r)) \div q = x \div (f * r * q)
      BY <2>1, Twice
    <3> QED
      BY <3>1, <3>2
  <2>3. (s \div f) \div r = hi
    BY <1>0, <1>1
  <2> QED
    BY <1>6, <1>8, <2>2, <2>3
<1>11. ASSUME NEW q \in Positive, NEW b \in Positive, f = b * r * q
       PROVE  (t \div b) % r = (s \div b) % r
  <2>1. q \in Nat /\ b \in Nat
    BY DEF Positive
  <2>2. ASSUME NEW x \in Nat PROVE ((x * f + lo) \div b) % r = (lo \div b) % r
    <3>1. x * r * q \in Nat /\ x * q \in Nat /\ x * r * q = (x * q) * r
      BY <1>3, <2>1
    <3>2. x * f + lo = (x * r * q) * b + lo
      BY <1>3, <1>4, <1>11, <2>1
    <3>3. ((x * r * q) * b + lo) \div b = x * r * q + lo \div b
      BY <3>1, <1>4, Multiple
    <3>4. PICK y \in Nat : y = lo \div b
      BY <1>4, Quotient
    <3>5. ((x * q) * r + y) % r = y % r
      BY <3>1, Multiple
    <3> QED
      BY <3>1, <3>2, <3>3, <3>4, <3>5
  <2> QED
    BY <2>2, <1>2, <1>5
<1> QED
  BY <1>6, <1>8, <1>9, <1>10, <1>11 DEF Replaces

\* Saving a position changes one digit and no other.
LEMMA Guards ==
  ASSUME NEW h, Len(h) \in Nat, NEW n \in Nat, NEW g \in 0..(n - 1), NEW p \in 0..Len(h),
         NEW s \in 0..(Power(Radix(h), n) - 1)
  PROVE  /\ WriteGuard(h, s, g, p) \in 0..(Power(Radix(h), n) - 1)
         /\ ReadGuard(h, WriteGuard(h, s, g, p), g) = p
         /\ \A k \in 0..(n - 1) : k # g =>
                ReadGuard(h, WriteGuard(h, s, g, p), k) = ReadGuard(h, s, k)
<1>1. PICK r \in Positive : r = Radix(h)
  BY DEF Radix, Positive
<1>2. p \in 0..(r - 1) /\ g \in Nat /\ g < n
  BY <1>1 DEF Radix
<1>3. PICK f \in Positive : f = Power(r, g)
  BY <1>2, PowerType
<1>4. PICK t : t = WriteGuard(h, s, g, p)
  OBVIOUS
<1>5. PICK d : d = (s \div f) % r /\ t = s - d * f + p * f
  BY <1>1, <1>3, <1>4 DEF WriteGuard, ReadGuard
<1>6. PICK m \in Positive : m = Power(r, n)
  BY PowerType
<1>7. s \in Nat /\ s < m /\ m \in Nat
  BY <1>1, <1>6 DEF Positive
<1>8. /\ t \in Nat
      /\ (t \div f) % r = p
      /\ \A q \in Positive : s < f * r * q => t < f * r * q
      /\ \A q \in Positive : t \div (f * r * q) = s \div (f * r * q)
      /\ \A q, b \in Positive : f = b * r * q => (t \div b) % r = (s \div b) % r
  <2>1. Replaces(t, s, f, r, p)
    BY <1>2, <1>5, <1>7, DigitWritten
  <2> QED
    BY <2>1 DEF Replaces
<1>9. t < m
  <2>1. PICK q \in Positive : Power(r, n) = f * r * q
    BY <1>2, <1>3, PowerFactor
  <2> QED
    BY <2>1, <1>6, <1>7, <1>8
<1>10. ASSUME NEW k \in 0..(n - 1), k # g
       PROVE  (t \div Power(r, k)) % r = (s \div Power(r, k)) % r
  <2>1. PICK b \in Positive : b = Power(r, k)
    BY PowerType
  <2>2. CASE k > g
    <3>1. PICK q \in Positive : Power(r, k) = f * r * q
      BY <1>2, <1>3, <2>2, PowerFactor
    <3> QED
      BY <3>1, <1>8
  <2>3. CASE k < g
    <3>1. PICK q \in Positive : Power(r, g) = Power(r, k) * r * q
      BY <1>2, <2>3, PowerFactor
    <3> QED
      BY <3>1, <1>3, <1>8, <2>1
  <2> QED
    BY <1>2, <1>10, <2>2, <2>3
<1>11. t \in 0..(m - 1)
  BY <1>7, <1>8, <1>9
<1>12. \A x, k : ReadGuard(h, x, k) = (x \div Power(r, k)) % r
  BY <1>1 DEF ReadGuard
<1> QED
  BY <1>1, <1>3, <1>4, <1>6, <1>8, <1>10, <1>11, <1>12

-----------------------------------------------------------------------------
(* The guarded executor.                                                   *)

Nested ==
    /\ prog.guards \in Nat
    /\ Scoped([code |-> prog.code, at |-> prog.entry, guards |-> prog.guards], Scopes(prog.code))
    /\ Topological(Forward(prog.code), Orders(Forward(prog.code)))
    /\ Len(Orders(Forward(prog.code))) = States

Scope(i) == Scopes(prog.code)[i]
Depth(i) == PlaceIn(Orders(Forward(prog.code)), i)

\* The configurations of the table, and those that the program can reach:
\* every guard in scope was saved, and not behind the present boundary.
Configs == (1..States) \X (0..len) \X (0..(GuardSpace - 1))
Reachable(c) ==
    /\ c \in Configs
    /\ \A g \in Scope(c[1]) : ReadGuard(hay, c[3], g) \in 0..c[2]

\* The loops around c that were not begun anew at its boundary.
Stale(c) == {g \in Scope(c[1]) : ReadGuard(hay, c[3], g) # c[2]}

\* A child is further to the right, or has left one such loop for good, or is
\* further down the code without loops.
Below(x, y) ==
    \/ x[2] > y[2]
    \/ /\ x[2] = y[2]
       /\ Stale(x) \subseteq Stale(y)
       /\ Stale(x) # Stale(y) \/ Depth(x[1]) < Depth(y[1])

Frames == [config : Configs, next : Positive]

Solving ==
    /\ stack \in Seq(Frames)
    /\ \A k \in 1..Len(stack) : Reachable(stack[k].config)
    /\ \A j, k \in 1..Len(stack) : j < k => Below(stack[k].config, stack[j].config)
    /\ \A c \in DOMAIN memo :
        /\ c \in Configs
        /\ memo[c] \in {Visiting, Failure} \cup c[2]..len
        /\ memo[c] = Visiting => \E k \in 1..Len(stack) : stack[k].config = c
    /\ phase = "collect" => stack = <<>>
    /\ phase = "solve" =>
        /\ start <= len
        /\ IF stack = <<>> THEN Root \in DOMAIN memo ELSE stack[1].config = Root

GuardInv ==
    Guarded =>
        /\ error \notin {"cycle", "log"}
        /\ Loop
        /\ phase \in {"new", "compiled", "collect", "solve"}
        /\ phase # "new" => Runnable /\ Nested
        /\ phase \in {"new", "compiled"} => memo = <<>> /\ stack = <<>> /\ start = 0
        /\ status = "running" /\ phase \in {"collect", "solve"} => Solving

\* Every instruction has its place in the order of the code without loops.
LEMMA DepthType ==
  ASSUME Runnable, Nested, NEW i \in 1..States
  PROVE  Depth(i) \in 1..States /\ Orders(Forward(prog.code))[Depth(i)] = i
<1> DEFINE D == 1..States
           order == Orders(Forward(prog.code))
<1>1. States \in Nat /\ DOMAIN Forward(prog.code) = D
  BY DEF Runnable, Forward
<1>2. order \in Seq(D) /\ Len(order) = States /\ \A j, k \in DOMAIN order : order[j] = order[k] => j = k
  BY <1>1 DEF Nested, Topological
<1>3. order \in [D -> D] /\ DOMAIN order = D
  BY <1>1, <1>2
<1>4. IsFiniteSet(D)
  BY <1>1, FS_Interval
<1>5. order \in Injection(D, D)
  BY <1>2, <1>3 DEF Injection, IsInjective
<1>6. order \in Surjection(D, D)
  BY <1>4, <1>5, FS_Injection
<1>7. \E k \in DOMAIN order : order[k] = i
  BY <1>3, <1>6 DEF Surjection
<1> QED
  BY <1>3, <1>7 DEF Depth, PlaceIn

\* A transition that reads nothing and goes around no loop leads further down.
LEMMA DepthDecreases ==
  ASSUME Runnable, Nested, NEW i \in 1..States, prog.code[i].op # "byte",
         NEW n \in 1..Arity(prog.code[i].op), prog.code[i].op = "check" => n = 2
  PROVE  Depth(prog.code[i].to[n]) < Depth(i)
<1> DEFINE D == 1..States
           forward == Forward(prog.code)
           order == Orders(forward)
           to == prog.code[i].to[n]
<1>1. Depth(i) \in D /\ order[Depth(i)] = i /\ States \in Nat
  BY DepthType DEF Runnable
<1>2. to \in D /\ DOMAIN prog.code = D /\ DOMAIN prog.code[i].to = 1..Arity(prog.code[i].op)
  BY Successors DEF Runnable
<1>3. Depth(to) \in D /\ order[Depth(to)] = to
  BY <1>2, DepthType
<1>4. /\ order \in Seq(D) /\ Len(order) = States
      /\ \A j, k \in DOMAIN order : order[j] = order[k] => j = k
      /\ \A k \in DOMAIN order :
            forward[order[k]].op # "byte" =>
                \A m \in DOMAIN forward[order[k]].to :
                    \E j \in 1..(k - 1) : order[j] = forward[order[k]].to[m]
  <2>1. DOMAIN forward = D
    BY <1>2 DEF Forward
  <2> QED
    BY <2>1 DEF Nested, Topological
<1>5. DOMAIN order = D
  BY <1>1, <1>4
<1>6. forward[i].op # "byte" /\ \E m \in DOMAIN forward[i].to : forward[i].to[m] = to
  <2>1. forward[i] = IF prog.code[i].op = "check" THEN [op |-> "check", to |-> <<prog.code[i].to[2]>>]
                     ELSE prog.code[i]
    BY <1>2 DEF Forward
  <2>2. CASE prog.code[i].op = "check"
    <3>1. forward[i].to = <<to>> /\ forward[i].op = "check"
      BY <2>1, <2>2
    <3> QED
      BY <3>1
  <2>3. CASE prog.code[i].op # "check"
    BY <2>1, <2>3, <1>2
  <2> QED
    BY <2>2, <2>3
<1> HIDE DEF forward, order, to
<1>7. PICK j \in 1..(Depth(i) - 1) : order[j] = to
  <2>1. PICK d \in D : d = Depth(i) /\ order[d] = i
    BY <1>1
  <2>2. PICK m \in DOMAIN forward[i].to : forward[i].to[m] = to
    BY <1>6
  <2>3. d \in DOMAIN order /\ forward[order[d]].op # "byte" /\ m \in DOMAIN forward[order[d]].to
    BY <1>5, <1>6, <2>1, <2>2
  <2>4. \E j \in 1..(d - 1) : order[j] = forward[order[d]].to[m]
    BY <1>4, <2>3, Zenon
  <2> QED
    BY <2>1, <2>2, <2>4
<1>8. j = Depth(to)
  BY <1>1, <1>3, <1>4, <1>5, <1>7
<1> QED
  BY <1>1, <1>7, <1>8 DEF to

LEMMA ScopeType ==
  ASSUME Runnable, Nested, NEW i \in 1..States
  PROVE  /\ prog.guards \in Nat
         /\ Scope(i) \subseteq 0..(prog.guards - 1)
         /\ Scope(prog.entry) = {}
         /\ prog.code[i].op \in {"save", "check"} => prog.code[i].arg \in 0..(prog.guards - 1)
         /\ prog.code[i].op = "check" =>
                prog.code[i].arg \in Scope(i) /\ prog.code[i].arg \notin Scope(prog.code[i].to[1])
         /\ \A n \in 1..Arity(prog.code[i].op) :
                Scope(prog.code[i].to[n]) \subseteq
                    Scope(i) \cup (IF prog.code[i].op = "save" THEN {prog.code[i].arg} ELSE {})
<1>1. DOMAIN prog.code = 1..States /\ DOMAIN prog.code[i].to = 1..Arity(prog.code[i].op)
  BY Successors DEF Runnable
<1> DEFINE b == [code |-> prog.code, at |-> prog.entry, guards |-> prog.guards]
<1>2. b.code = prog.code /\ b.at = prog.entry /\ b.guards = prog.guards
  OBVIOUS
<1>3. Scoped(b, Scopes(prog.code)) /\ prog.guards \in Nat
  BY DEF Nested
<1> HIDE DEF b
<1>4. /\ Scopes(prog.code) \in [1..States -> SUBSET (0..(prog.guards - 1))]
      /\ Scope(prog.entry) = {}
  BY <1>1, <1>2, <1>3 DEF Scoped, Scope
<1>5. Scope(i) \subseteq 0..(prog.guards - 1)
  BY <1>4 DEF Scope
<1>6. LET inst == prog.code[i] IN
        /\ inst.op \in {"save", "check"} => inst.arg \in 0..(prog.guards - 1)
        /\ inst.op = "check" => inst.arg \in Scope(i) /\ inst.arg \notin Scope(inst.to[1])
        /\ \A n \in DOMAIN inst.to :
            Scope(inst.to[n]) \subseteq Scope(i) \cup (IF inst.op = "save" THEN {inst.arg} ELSE {})
  BY <1>1, <1>2, <1>3, Zenon DEF Scoped, Scope
<1> QED
  BY <1>1, <1>3, <1>4, <1>5, <1>6

LEMMA BelowOrders ==
  ASSUME Runnable, Nested, NEW x \in Configs, NEW y \in Configs, NEW z \in Configs
  PROVE  /\ ~Below(x, x)
         /\ Below(x, y) /\ Below(y, z) => Below(x, z)
<1>1. x[1] \in 1..States /\ y[1] \in 1..States /\ z[1] \in 1..States
      /\ x[2] \in Int /\ y[2] \in Int /\ z[2] \in Int
  BY DEF Configs
<1>2. Depth(x[1]) \in Int /\ Depth(y[1]) \in Int /\ Depth(z[1]) \in Int
  <2>1. Depth(x[1]) \in 1..States /\ Depth(y[1]) \in 1..States /\ Depth(z[1]) \in 1..States
    BY <1>1, DepthType
  <2> QED
    BY <2>1
<1>3. ~Below(x, x)
  BY <1>1, <1>2 DEF Below
<1>4. ASSUME Below(x, y), Below(y, z) PROVE Below(x, z)
  <2>1. CASE x[2] > y[2] \/ y[2] > z[2]
    BY <1>1, <1>4, <2>1 DEF Below
  <2>2. CASE ~(x[2] > y[2] \/ y[2] > z[2])
    <3>1. /\ x[2] = y[2] /\ y[2] = z[2]
          /\ Stale(x) \subseteq Stale(y) /\ (Stale(x) # Stale(y) \/ Depth(x[1]) < Depth(y[1]))
          /\ Stale(y) \subseteq Stale(z) /\ (Stale(y) # Stale(z) \/ Depth(y[1]) < Depth(z[1]))
      BY <1>4, <2>2 DEF Below
    <3>2. Stale(x) \subseteq Stale(z) /\ (Stale(x) # Stale(z) \/ Depth(x[1]) < Depth(z[1]))
      <4>1. CASE Stale(x) = Stale(z)
        <5>1. Stale(x) = Stale(y) /\ Stale(y) = Stale(z)
          BY <3>1, <4>1
        <5> QED
          BY <1>2, <3>1, <5>1
      <4>2. CASE Stale(x) # Stale(z)
        BY <3>1, <4>2
      <4> QED
        BY <4>1, <4>2
    <3> QED
      BY <3>1, <3>2 DEF Below
  <2> QED
    BY <2>1, <2>2
<1> QED
  BY <1>3, <1>4

\* Every child of a reachable configuration is reachable, below it and not
\* before it.
LEMMA ChildBelow ==
  ASSUME Inputs, Runnable, Nested, NEW c, Reachable(c),
         prog.code[c[1]].op # "match", Passes(prog.code[c[1]], hay, c[2]),
         NEW n \in 1..Children(prog.code[c[1]])
  PROVE  LET child == Child(prog.code, hay, c, n)
         IN  /\ ~Unguarded(prog.code, hay, c)
             /\ Reachable(child)
             /\ Below(child, c)
             /\ child[2] >= c[2]
<1> DEFINE i == c[1]
           p == c[2]
           s == c[3]
           inst == prog.code[i]
           child == Child(prog.code, hay, c, n)
           space == 0..(Power(Radix(hay), prog.guards) - 1)
<1>1. /\ i \in 1..States /\ p \in 0..len /\ s \in space /\ c = <<i, p, s>>
      /\ len \in Nat /\ len = Len(hay) /\ prog.guards \in Nat /\ States \in Nat
  <2>1. /\ i \in 1..States /\ p \in 0..len /\ s \in 0..(GuardSpace - 1) /\ c = <<i, p, s>>
    BY DEF Reachable, Configs
  <2>2. prog.guards \in Nat /\ States \in Nat /\ len \in Nat /\ len = Len(hay)
    BY DEF Nested, Runnable, Inputs
  <2> QED
    BY <2>1, <2>2 DEF GuardSpace
<1>2. \A g \in Scope(i) : ReadGuard(hay, s, g) \in 0..p
  BY DEF Reachable
<1>3. \A m \in 1..Arity(inst.op) : inst.to[m] \in 1..States
  BY <1>1, Successors
<1>4. /\ Scope(i) \subseteq 0..(prog.guards - 1)
      /\ inst.op \in {"save", "check"} => inst.arg \in 0..(prog.guards - 1)
      /\ inst.op = "check" => inst.arg \in Scope(i) /\ inst.arg \notin Scope(inst.to[1])
      /\ \A m \in 1..Arity(inst.op) :
            Scope(inst.to[m]) \subseteq Scope(i) \cup (IF inst.op = "save" THEN {inst.arg} ELSE {})
  BY <1>1, ScopeType
<1>5. \A m \in 1..Arity(inst.op) : inst.op # "byte" /\ (inst.op = "check" => m = 2) =>
            Depth(inst.to[m]) < Depth(i)
  BY <1>1, DepthDecreases
<1>6. /\ 1 \in 1..Arity(inst.op)
      /\ inst.op = "check" => 2 \in 1..Arity(inst.op)
      /\ inst.op # "check" => n \in 1..Arity(inst.op)
  BY DEF Arity, Children
<1>7. CASE inst.op = "byte"
  <2>1. child = <<inst.to[1], p + 1, s>>
    BY <1>7 DEF Child
  <2>2. p + 1 \in 0..len
    BY <1>1, <1>7 DEF Passes, Reads
  <2> HIDE DEF child
  <2>3. child \in Configs /\ child[1] = inst.to[1] /\ child[2] = p + 1 /\ child[3] = s
    BY <1>1, <1>3, <1>6, <2>1, <2>2 DEF Configs, GuardSpace
  <2>4. \A g \in Scope(child[1]) : ReadGuard(hay, child[3], g) \in 0..child[2]
    <3>1. Scope(child[1]) \subseteq Scope(i)
      BY <1>4, <1>6, <1>7, <2>3
    <3>2. 0..p \subseteq 0..(p + 1)
      BY <1>1
    <3> QED
      BY <1>2, <2>3, <3>1, <3>2
  <2>5. Below(child, c) /\ child[2] >= c[2]
    BY <1>1, <2>3 DEF Below
  <2> QED
    BY <1>7, <2>3, <2>4, <2>5 DEF Reachable, Unguarded, child
<1>8. CASE inst.op = "save"
  <2> DEFINE t == WriteGuard(hay, s, inst.arg, p)
  <2>1. child = <<inst.to[1], p, t>>
    BY <1>8 DEF Child
  <2>2. /\ t \in space
        /\ ReadGuard(hay, t, inst.arg) = p
        /\ \A k \in 0..(prog.guards - 1) : k # inst.arg => ReadGuard(hay, t, k) = ReadGuard(hay, s, k)
    BY <1>1, <1>4, <1>8, Guards
  <2> HIDE DEF child, t
  <2>3. child \in Configs /\ child[1] = inst.to[1] /\ child[2] = p /\ child[3] = t
    BY <1>1, <1>3, <1>6, <2>1, <2>2 DEF Configs, GuardSpace
  <2>4. \A g \in Scope(child[1]) : g # inst.arg =>
            g \in Scope(i) /\ ReadGuard(hay, child[3], g) = ReadGuard(hay, s, g)
    BY <1>4, <1>6, <1>8, <2>2, <2>3
  <2>5. Reachable(child)
    BY <1>1, <1>2, <2>2, <2>3, <2>4 DEF Reachable
  <2>6. Stale(child) \subseteq Stale(c)
    BY <2>2, <2>3, <2>4 DEF Stale
  <2>7. Depth(child[1]) < Depth(i)
    BY <1>5, <1>6, <1>8, <2>3
  <2>8. Below(child, c) /\ child[2] >= c[2]
    BY <1>1, <2>3, <2>6, <2>7 DEF Below
  <2> QED
    BY <1>8, <2>5, <2>8 DEF Unguarded, child
<1>9. CASE inst.op = "check"
  <2> DEFINE saved == ReadGuard(hay, s, inst.arg)
  <2>1. saved \in 0..p
    BY <1>2, <1>4, <1>9
  <2>2. ~Unguarded(prog.code, hay, c)
    BY <1>1, <2>1 DEF Unguarded
  <2>3. PICK j \in {inst.to[1], inst.to[2]} : child = <<j, p, s>> /\ j = IF p > saved THEN inst.to[1] ELSE inst.to[2]
    BY <1>9 DEF Child
  <2> HIDE DEF child, saved
  <2>4. child \in Configs /\ child[1] = j /\ child[2] = p /\ child[3] = s
    BY <1>1, <1>3, <1>6, <1>9, <2>3 DEF Configs, GuardSpace
  <2>5. Scope(j) \subseteq Scope(i)
    BY <1>4, <1>6, <1>9, <2>3
  <2>6. Reachable(child)
    BY <1>2, <2>4, <2>5 DEF Reachable
  <2>7. Stale(child) \subseteq Stale(c)
    BY <2>4, <2>5 DEF Stale
  <2>8. p > saved => inst.arg \in Stale(c) /\ inst.arg \notin Stale(child)
    BY <1>1, <1>4, <1>9, <2>1, <2>3, <2>4 DEF Stale, saved
  <2>9. ~(p > saved) => Depth(child[1]) < Depth(i)
    BY <1>5, <1>6, <1>9, <2>3, <2>4
  <2>10. Below(child, c) /\ child[2] >= c[2]
    BY <1>1, <2>4, <2>7, <2>8, <2>9 DEF Below
  <2> QED
    BY <2>2, <2>6, <2>10 DEF child
<1>10. CASE inst.op \notin {"byte", "save", "check"}
  <2>1. child = <<inst.to[n], p, s>>
    BY <1>10 DEF Child
  <2> HIDE DEF child
  <2>2. child \in Configs /\ child[1] = inst.to[n] /\ child[2] = p /\ child[3] = s
    BY <1>1, <1>3, <1>6, <1>10, <2>1 DEF Configs, GuardSpace
  <2>3. Scope(inst.to[n]) \subseteq Scope(i)
    BY <1>4, <1>6, <1>10
  <2>4. Reachable(child)
    BY <1>2, <2>2, <2>3 DEF Reachable
  <2>5. Stale(child) \subseteq Stale(c)
    BY <2>2, <2>3 DEF Stale
  <2>6. Depth(child[1]) < Depth(i)
    BY <1>5, <1>6, <1>10, <2>2
  <2>7. Below(child, c) /\ child[2] >= c[2]
    BY <1>1, <2>2, <2>5, <2>6 DEF Below
  <2> QED
    BY <1>10, <2>4, <2>7 DEF Unguarded, child
<1> QED
  BY <1>7, <1>8, <1>9, <1>10

LEMMA CellsType ==
  ASSUME Inputs, Runnable, Nested
  PROVE  GuardSpace \in Positive /\ Cells \in Nat
<1>1. len \in Nat /\ len = Len(hay) /\ prog.guards \in Nat /\ States \in Nat
  BY DEF Inputs, Nested, Runnable
<1>2. Radix(hay) \in Positive
  BY <1>1 DEF Radix, Positive
<1>3. GuardSpace \in Positive
  BY <1>1, <1>2, PowerType DEF GuardSpace
<1>4. PICK s \in Nat : s = GuardSpace
  BY <1>3 DEF Positive
<1>5. States * (len + 1) \in Nat
  BY <1>1
<1>6. States * (len + 1) * s \in Nat
  BY <1>4, <1>5
<1> QED
  BY <1>3, <1>4, <1>6 DEF Cells, Boundaries

\* There are no more configurations than cells in the table.
LEMMA ConfigsCount ==
  ASSUME Inputs, Runnable, Nested, NEW m \in Nat, NEW f \in [1..m -> Configs],
         \A j, k \in 1..m : f[j] = f[k] => j = k
  PROVE  m <= Cells
<1> DEFINE A == 1..States
           B == 0..len
           C == 0..(GuardSpace - 1)
           T == (A \X B) \X C
           g == [k \in 1..m |-> <<<<f[k][1], f[k][2]>>, f[k][3]>>]
<1>1. len \in Nat /\ States \in Nat /\ GuardSpace \in Nat /\ GuardSpace >= 1
  BY CellsType DEF Inputs, Runnable, Positive
<1>2. IsFiniteSet(A) /\ Cardinality(A) = States
  BY <1>1, Interval
<1>3. IsFiniteSet(B) /\ Cardinality(B) = len + 1
  BY <1>1, Interval
<1>4. IsFiniteSet(C) /\ Cardinality(C) = GuardSpace
  <2>1. PICK n \in Nat : n = GuardSpace - 1
    BY <1>1
  <2>2. IsFiniteSet(0..n) /\ Cardinality(0..n) = n + 1
    BY Interval
  <2> QED
    BY <1>1, <2>1, <2>2
<1> HIDE DEF A, B, C
<1>5. IsFiniteSet(A \X B) /\ Cardinality(A \X B) = States * (len + 1)
  BY <1>2, <1>3, FS_Product
<1>6. IsFiniteSet(T) /\ Cardinality(T) = States * (len + 1) * GuardSpace
  BY <1>4, <1>5, FS_Product
<1>7. \A k \in 1..m : f[k] = <<f[k][1], f[k][2], f[k][3]>> /\ f[k][1] \in A /\ f[k][2] \in B /\ f[k][3] \in C
  BY DEF Configs, A, B, C
<1>8. g \in [1..m -> T]
  BY <1>7
<1>9. ASSUME NEW j \in 1..m, NEW k \in 1..m, g[j] = g[k] PROVE j = k
  <2>1. f[j][1] = f[k][1] /\ f[j][2] = f[k][2] /\ f[j][3] = f[k][3]
    BY <1>9
  <2>2. f[j] = f[k]
    BY <1>7, <2>1
  <2> QED
    BY <2>2
<1>10. g \in Injection(1..m, T)
  BY <1>8, <1>9 DEF Injection, IsInjective
<1> HIDE DEF g, T
<1>11. Cardinality(1..m) <= Cardinality(T)
  BY <1>6, <1>10, FS_Injection
<1>12. Cardinality(1..m) = m
  BY Interval
<1> QED
  BY <1>6, <1>11, <1>12 DEF Cells, Boundaries

\* A configuration below those on the stack finds room on it.
LEMMA PushFits ==
  ASSUME Inputs, Runnable, Nested, stack \in Seq(Frames),
         \A j, k \in 1..Len(stack) : j < k => Below(stack[k].config, stack[j].config),
         NEW x \in Configs, \A k \in 1..Len(stack) : Below(x, stack[k].config)
  PROVE  /\ Len(stack) < Cells
         /\ \A k \in 1..Len(stack) : stack[k].config # x
<1> DEFINE m == Len(stack) + 1
           f == [k \in 1..m |-> IF k = m THEN x ELSE stack[k].config]
<1>1. Len(stack) \in Nat /\ m \in Nat /\ \A k \in 1..Len(stack) : stack[k].config \in Configs
  <2>1. Len(stack) \in Nat /\ \A k \in 1..Len(stack) : stack[k] \in Frames
    OBVIOUS
  <2>2. \A frame \in Frames : frame.config \in Configs
    BY DEF Frames
  <2> QED
    BY <2>1, <2>2
<1>2. f \in [1..m -> Configs]
  BY <1>1
<1>3. \A j, k \in 1..m : j < k => Below(f[k], f[j])
  <2> SUFFICES ASSUME NEW j \in 1..m, NEW k \in 1..m, j < k PROVE Below(f[k], f[j])
    OBVIOUS
  <2>1. j \in 1..Len(stack) /\ f[j] = stack[j].config
    BY <1>1
  <2>2. CASE k = m
    BY <2>1, <2>2
  <2>3. CASE k # m
    BY <1>1, <2>1, <2>3
  <2> QED
    BY <2>2, <2>3
<1>4. \A y \in Configs : ~Below(y, y)
  BY BelowOrders
<1> HIDE DEF f
<1>5. \A j, k \in 1..m : f[j] = f[k] => j = k
  <2> SUFFICES ASSUME NEW j \in 1..m, NEW k \in 1..m, f[j] = f[k], j # k PROVE FALSE
    OBVIOUS
  <2>1. f[j] \in Configs
    BY <1>2
  <2>2. Below(f[j], f[j])
    <3>1. j < k \/ k < j
      OBVIOUS
    <3> QED
      BY <1>3, <3>1
  <2> QED
    BY <1>4, <2>1, <2>2
<1>6. m <= Cells
  BY <1>1, <1>2, <1>5, ConfigsCount
<1>7. Cells \in Nat
  BY CellsType
<1> QED
  BY <1>1, <1>4, <1>6, <1>7

LEMMA FrozenGuards ==
  ASSUME Frozen
  PROVE  /\ Nested => Nested'
         /\ Configs' = Configs /\ Frames' = Frames
         /\ \A c : Reachable(c)' = Reachable(c)
         /\ \A x, y : Below(x, y)' = Below(x, y)
         /\ GuardSpace' = GuardSpace
<1>1. States' = States /\ hay' = hay /\ GuardSpace' = GuardSpace
  BY DEF Frozen, States, hay, GuardSpace, Radix
<1>2. Nested => Nested'
  BY <1>1 DEF Frozen, Nested
<1>3. Configs' = Configs
  BY <1>1 DEF Frozen, Configs
<1>4. \A i : Scope(i)' = Scope(i) /\ Depth(i)' = Depth(i)
  BY DEF Frozen, Scope, Depth
<1>5. \A c : Reachable(c)' = Reachable(c)
  BY <1>1, <1>3, <1>4 DEF Reachable
<1>6. \A c : Stale(c)' = Stale(c)
  BY <1>1, <1>4 DEF Stale
<1>7. \A x, y : Below(x, y)' = Below(x, y)
  BY <1>4, <1>6 DEF Below
<1> QED
  BY <1>1, <1>2, <1>3, <1>5, <1>7 DEF Frames

-----------------------------------------------------------------------------
(* One step of the solver.                                                 *)

Top == Last(stack)
TopInst == prog.code[Top.config[1]]
TopChild == Child(prog.code, hay, Top.config, Top.next)

\* The frame on top goes on to a child.
Goes ==
    /\ TopInst.op # "match"
    /\ Passes(TopInst, hay, Top.config[2])
    /\ Top.next \in 1..Children(TopInst)

\* A step of the solver that does not fail, by what it does to the stack.
Ends == TopInst.op = "match" /\ Pop(Top.config, Top.config[2])
GivesUp ==
    /\ TopInst.op # "match"
    /\ ~Passes(TopInst, hay, Top.config[2]) \/ Top.next > Children(TopInst)
    /\ Pop(Top.config, Failure)
Enters ==
    /\ Goes /\ TopChild \notin DOMAIN memo
    /\ memo' = Remember(Top.config, Visiting)
    /\ stack' = Append(stack, [config |-> TopChild, next |-> 1])
Skips ==
    /\ Goes /\ TopChild \in DOMAIN memo /\ memo[TopChild] = Failure
    /\ memo' = Remember(Top.config, Visiting)
    /\ stack' = [stack EXCEPT ![Len(stack)].next = Top.next + 1]
Takes ==
    /\ Goes /\ TopChild \in DOMAIN memo /\ memo[TopChild] \notin {Failure, Visiting}
    /\ Pop(Top.config, memo[TopChild])

LEMMA TopType ==
  ASSUME Inputs, Runnable, Nested, Solving, stack # <<>>
  PROVE  /\ Len(stack) \in Positive /\ Top = stack[Len(stack)]
         /\ Top \in Frames /\ Top.config \in Configs /\ Top.next \in Positive
         /\ Reachable(Top.config)
         /\ \A k \in 1..Len(stack) : stack[k] \in Frames /\ stack[k].config \in Configs
<1>1. stack \in Seq(Frames)
  BY DEF Solving
<1>2. Len(stack) \in Positive /\ Top = stack[Len(stack)]
  BY <1>1 DEF Top, Last, Positive
<1>3. \A k \in 1..Len(stack) : stack[k] \in Frames
  BY <1>1
<1>4. Len(stack) \in 1..Len(stack)
  BY <1>2 DEF Positive
<1>5. \A f \in Frames : f.config \in Configs /\ f.next \in Positive
  BY DEF Frames
<1> QED
  BY <1>2, <1>3, <1>4, <1>5 DEF Solving

\* A child is below every frame, so it is not being visited and has room.
LEMMA ChildFree ==
  ASSUME Inputs, Runnable, Nested, Solving, stack # <<>>, Goes
  PROVE  /\ ~Unguarded(prog.code, hay, Top.config)
         /\ ~Cyclic(Top.config, TopChild)
         /\ Reachable(TopChild)
         /\ \A k \in 1..Len(stack) : Below(TopChild, stack[k].config)
         /\ TopChild[2] >= Top.config[2]
<1>1. /\ Len(stack) \in Positive /\ Top = stack[Len(stack)] /\ Top.config \in Configs
      /\ Reachable(Top.config)
      /\ \A k \in 1..Len(stack) : stack[k].config \in Configs
  BY TopType
<1>2. /\ ~Unguarded(prog.code, hay, Top.config) /\ Reachable(TopChild)
      /\ Below(TopChild, Top.config) /\ TopChild[2] >= Top.config[2]
  BY <1>1, ChildBelow DEF Goes, TopInst, TopChild
<1>3. TopChild \in Configs
  BY <1>2 DEF Reachable
<1>4. /\ stack \in Seq(Frames)
      /\ \A j, k \in 1..Len(stack) : j < k => Below(stack[k].config, stack[j].config)
      /\ \A c \in DOMAIN memo : memo[c] = Visiting => \E k \in 1..Len(stack) : stack[k].config = c
  BY DEF Solving
<1>5. \A k \in 1..Len(stack) : Below(TopChild, stack[k].config)
  <2> SUFFICES ASSUME NEW k \in 1..Len(stack) PROVE Below(TopChild, stack[k].config)
    OBVIOUS
  <2>1. CASE k = Len(stack)
    BY <1>1, <1>2, <2>1
  <2>2. CASE k # Len(stack)
    <3>1. Below(Top.config, stack[k].config)
      BY <1>1, <1>4, <2>2 DEF Positive
    <3> QED
      BY <1>1, <1>2, <1>3, <3>1, BelowOrders
  <2> QED
    BY <2>1, <2>2
<1>6. Len(stack) < Cells /\ \A k \in 1..Len(stack) : stack[k].config # TopChild
  BY <1>3, <1>4, <1>5, PushFits
<1>7. TopChild # Top.config
  BY <1>1, <1>6 DEF Positive
<1>8. ~(TopChild \in DOMAIN memo /\ memo[TopChild] = Visiting)
  BY <1>4, <1>6
<1>9. ~(Len(stack) >= Cells)
  BY <1>1, <1>6, CellsType DEF Positive
<1> QED
  BY <1>2, <1>5, <1>7, <1>8, <1>9 DEF Cyclic, Known

\* The consistency checks of the solver are never met.
LEMMA SolveCases ==
  ASSUME Inputs, Runnable, Nested, Solving, Solve
  PROVE  \/ Fail("work")
         \/ /\ Frozen /\ UNCHANGED <<phase, error, status, start, previous_end, matches, probes>>
            /\ Ends \/ GivesUp \/ Enters \/ Skips \/ Takes
<1>1. /\ stack # <<>> /\ Top.next \in Positive
  BY TopType DEF Solve
<1> DEFINE ends == TopInst.op = "match"
           fails == ~Passes(TopInst, hay, Top.config[2]) \/ Top.next > Children(TopInst)
           first == IF Known(Top.config) THEN 0 ELSE 1
           cost == IF ends \/ fails THEN first ELSE first + 1
           cycle == \/ Unguarded(prog.code, hay, Top.config) /\ work + first <= limit
                    \/ Cyclic(Top.config, TopChild) /\ work + cost <= limit
           what == /\ IF ends THEN Pop(Top.config, Top.config[2])
                      ELSE IF fails THEN Pop(Top.config, Failure)
                      ELSE Inspect(Top.config, Top.next, TopChild)
                   /\ UNCHANGED <<input, phase, building, replaying, error, collecting, status>>
<1>2. IF ~ends /\ ~fails /\ cycle THEN Fail("cycle") ELSE Charged(cost, what)
  BY Zenon DEF Solve, Top, TopInst, TopChild
<1>3. ~ends /\ ~fails => Goes
  <2>1. Children(TopInst) \in Nat
    BY DEF Children
  <2> QED
    BY <1>1, <2>1 DEF Goes, Positive
<1>4. ~ends /\ ~fails => ~cycle
  BY <1>1, <1>3, ChildFree
<1> HIDE DEF cost, cycle
<1>5. Fail("work") \/ what
  BY <1>2, <1>4, Zenon DEF Charged
<1>6. ASSUME what PROVE Frozen /\ UNCHANGED <<phase, error, status, start, previous_end, matches, probes>>
  BY <1>6 DEF Frozen, input, collecting
<1>7. ASSUME what, ends PROVE Ends
  BY <1>7 DEF Ends
<1>8. ASSUME what, ~ends, fails PROVE GivesUp
  BY <1>8 DEF GivesUp
<1>9. ASSUME what, ~ends, ~fails PROVE Enters \/ Skips \/ Takes
  <2>1. Inspect(Top.config, Top.next, TopChild) /\ Goes
    BY <1>3, <1>9
  <2>2. ~(TopChild \in DOMAIN memo /\ memo[TopChild] = Visiting)
    BY <1>1, <2>1, ChildFree DEF Cyclic, Known
  <2> QED
    BY <2>1, <2>2 DEF Inspect, Known, Enters, Skips, Takes
<1> QED
  BY <1>5, <1>6, <1>7, <1>8, <1>9

\* What every step of the solver keeps.
Resumes == Frozen /\ phase = "solve" /\ phase' = "solve" /\ start' = start

LEMMA ValueType ==
  ASSUME Inputs, NEW c \in Configs
  PROVE  /\ c[2] \in 0..len
         /\ Visiting \notin {Failure} \cup c[2]..len
         /\ Failure \notin c[2]..len
  BY DEF Inputs, Configs, Visiting, Failure

LEMMA RememberType ==
  ASSUME NEW c, NEW value, memo' = Remember(c, value)
  PROVE  /\ DOMAIN memo' = {c} \cup DOMAIN memo
         /\ memo'[c] = value
         /\ \A x \in DOMAIN memo : x # c => memo'[x] = memo[x]
  BY DEF Remember

LEMMA RootFrozen ==
  ASSUME Frozen, start' = start
  PROVE  Root' = Root
  BY FrozenGuards DEF Frozen, Root

LEMMA FrontType ==
  ASSUME NEW S, stack \in Seq(S), stack # <<>>, stack' = Front(stack)
  PROVE  /\ stack' \in Seq(S) /\ Len(stack') = Len(stack) - 1
         /\ \A k \in 1..(Len(stack) - 1) : stack'[k] = stack[k]
<1>1. PICK m \in Nat : m = Len(stack) - 1
  OBVIOUS
<1>2. stack' = SubSeq(stack, 1, m) /\ \A k \in 1..m : stack[k] \in S
  BY <1>1 DEF Front
<1>3. /\ SubSeq(stack, 1, m) \in Seq(S)
      /\ Len(SubSeq(stack, 1, m)) = IF 1 <= m THEN m - 1 + 1 ELSE 0
      /\ \A k \in 1..(m - 1 + 1) : SubSeq(stack, 1, m)[k] = stack[1 + k - 1]
  BY <1>2, SubSeqProperties
<1>4. m - 1 + 1 = m /\ (IF 1 <= m THEN m - 1 + 1 ELSE 0) = m /\ \A k \in 1..m : 1 + k - 1 = k
  OBVIOUS
<1>5. \A k \in 1..m : SubSeq(stack, 1, m)[k] = stack[k]
  BY <1>3, <1>4
<1> QED
  BY <1>1, <1>2, <1>3, <1>4, <1>5

LEMMA PopSolving ==
  ASSUME Inputs, Runnable, Nested, Solving, Resumes, stack # <<>>,
         NEW value \in {Failure} \cup Top.config[2]..len, Pop(Top.config, value)
  PROVE  Solving'
<1> DEFINE c == Top.config
           L == Len(stack)
<1>1. /\ L \in Nat /\ L >= 1 /\ Top = stack[L] /\ c \in Configs
  BY TopType DEF Positive
<1>2. /\ stack \in Seq(Frames)
      /\ \A k \in 1..L : Reachable(stack[k].config)
      /\ \A j, k \in 1..L : j < k => Below(stack[k].config, stack[j].config)
      /\ \A x \in DOMAIN memo :
            /\ x \in Configs
            /\ memo[x] \in {Visiting, Failure} \cup x[2]..len
            /\ memo[x] = Visiting => \E k \in 1..L : stack[k].config = x
      /\ start <= len /\ stack[1].config = Root
  BY DEF Solving, Resumes
<1>3. /\ stack' \in Seq(Frames) /\ Len(stack') = L - 1
      /\ \A k \in 1..(L - 1) : stack'[k] = stack[k]
  <2>1. stack' = Front(stack)
    BY DEF Pop
  <2> QED
    BY <1>2, <2>1, FrontType
<1>4. /\ DOMAIN memo' = {c} \cup DOMAIN memo
      /\ memo'[c] = value
      /\ \A x \in DOMAIN memo : x # c => memo'[x] = memo[x]
  BY RememberType DEF Pop
<1>5. /\ Configs' = Configs /\ Frames' = Frames /\ len' = len /\ start' = start /\ Root' = Root
      /\ \A x : Reachable(x)' = Reachable(x)
      /\ \A x, y : Below(x, y)' = Below(x, y)
  BY FrozenGuards, RootFrozen DEF Resumes, Frozen
<1>6. value # Visiting
  BY <1>1, ValueType
<1> HIDE DEF c, L
<1>7. ASSUME NEW x \in DOMAIN memo'
      PROVE  /\ x \in Configs
             /\ memo'[x] \in {Visiting, Failure} \cup x[2]..len
             /\ memo'[x] = Visiting => \E k \in 1..Len(stack') : stack'[k].config = x
  <2>1. CASE x = c
    BY <1>1, <1>4, <1>6, <2>1 DEF c
  <2>2. CASE x # c
    <3>1. x \in DOMAIN memo /\ memo'[x] = memo[x]
      BY <1>4, <2>2
    <3>2. ASSUME memo[x] = Visiting PROVE \E k \in 1..Len(stack') : stack'[k].config = x
      <4>1. PICK k \in 1..L : stack[k].config = x
        BY <1>2, <3>1, <3>2
      <4>2. k # L
        BY <1>1, <2>2, <4>1 DEF c
      <4>3. k \in 1..(L - 1)
        BY <1>1, <4>2
      <4> QED
        BY <1>3, <4>1, <4>3
    <3> QED
      BY <1>2, <3>1, <3>2
  <2> QED
    BY <2>1, <2>2
<1>8. IF stack' = <<>> THEN Root \in DOMAIN memo' ELSE stack'[1].config = Root
  <2>1. CASE stack' = <<>>
    <3>1. L = 1
      BY <1>1, <1>3, <2>1
    <3> QED
      BY <1>1, <1>2, <1>4, <2>1, <3>1 DEF c
  <2>2. CASE stack' # <<>>
    <3>1. Len(stack') # 0
      BY <1>3, <2>2
    <3>2. 1 \in 1..(L - 1)
      BY <1>1, <1>3, <3>1
    <3> QED
      BY <1>2, <1>3, <2>2, <3>2
  <2> QED
    BY <2>1, <2>2
<1>9. /\ stack' \in Seq(Frames')
      /\ \A k \in 1..Len(stack') : Reachable(stack'[k].config)
      /\ \A j, k \in 1..Len(stack') : j < k => Below(stack'[k].config, stack'[j].config)
  <2>1. 1..Len(stack') = 1..(L - 1) /\ \A k \in 1..(L - 1) : k \in 1..L
    BY <1>1, <1>3
  <2>2. stack' \in Seq(Frames')
    BY <1>3, <1>5
  <2>3. \A k \in 1..Len(stack') : Reachable(stack'[k].config)
    BY <1>2, <1>3, <2>1
  <2>4. \A j, k \in 1..Len(stack') : j < k => Below(stack'[k].config, stack'[j].config)
    BY <1>2, <1>3, <2>1
  <2> QED
    BY <2>2, <2>3, <2>4
<1>10. \A k \in 1..Len(stack') : Reachable(stack[k].config)'
  BY <1>5, <1>9
<1>11. \A j, k \in 1..Len(stack') : j < k => Below(stack[k].config, stack[j].config)'
  BY <1>5, <1>9
<1>12. phase' = "solve"
  BY DEF Resumes
<1> QED
  BY <1>2, <1>5, <1>7, <1>8, <1>9, <1>10, <1>11, <1>12 DEF Solving

LEMMA EntersSolving ==
  ASSUME Inputs, Runnable, Nested, Solving, Resumes, stack # <<>>, Enters
  PROVE  Solving'
<1> DEFINE c == Top.config
           L == Len(stack)
           frame == [config |-> TopChild, next |-> 1]
<1>1. /\ L \in Nat /\ L >= 1 /\ Top = stack[L] /\ c \in Configs
  BY TopType DEF Positive
<1>2. /\ stack \in Seq(Frames)
      /\ \A k \in 1..L : Reachable(stack[k].config)
      /\ \A j, k \in 1..L : j < k => Below(stack[k].config, stack[j].config)
      /\ \A x \in DOMAIN memo :
            /\ x \in Configs
            /\ memo[x] \in {Visiting, Failure} \cup x[2]..len
            /\ memo[x] = Visiting => \E k \in 1..L : stack[k].config = x
      /\ start <= len /\ stack[1].config = Root
  BY DEF Solving, Resumes
<1>3. /\ Reachable(TopChild) /\ TopChild \in Configs
      /\ \A k \in 1..L : Below(TopChild, stack[k].config)
  BY ChildFree DEF Enters, Reachable
<1>4. frame \in Frames
  BY <1>3 DEF Frames, Positive
<1>5. /\ stack' \in Seq(Frames) /\ Len(stack') = L + 1
      /\ \A k \in 1..L : stack'[k] = stack[k]
      /\ stack'[L + 1].config = TopChild
  BY <1>1, <1>2, <1>4 DEF Enters
<1>6. /\ DOMAIN memo' = {c} \cup DOMAIN memo
      /\ memo'[c] = Visiting
      /\ \A x \in DOMAIN memo : x # c => memo'[x] = memo[x]
  BY RememberType DEF Enters
<1>7. /\ Configs' = Configs /\ Frames' = Frames /\ len' = len /\ start' = start /\ Root' = Root
      /\ \A x : Reachable(x)' = Reachable(x)
      /\ \A x, y : Below(x, y)' = Below(x, y)
  BY FrozenGuards, RootFrozen DEF Resumes, Frozen
<1> HIDE DEF c, L
<1>8. ASSUME NEW x \in DOMAIN memo'
      PROVE  /\ x \in Configs
             /\ memo'[x] \in {Visiting, Failure} \cup x[2]..len
             /\ memo'[x] = Visiting => \E k \in 1..Len(stack') : stack'[k].config = x
  <2>1. CASE x = c
    <3>1. L \in 1..Len(stack') /\ stack'[L].config = c
      BY <1>1, <1>5 DEF c
    <3> QED
      BY <1>1, <1>6, <2>1, <3>1
  <2>2. CASE x # c
    <3>1. x \in DOMAIN memo /\ memo'[x] = memo[x]
      BY <1>6, <2>2
    <3>2. ASSUME memo[x] = Visiting PROVE \E k \in 1..Len(stack') : stack'[k].config = x
      <4>1. PICK k \in 1..L : stack[k].config = x
        BY <1>2, <3>1, <3>2
      <4> QED
        BY <1>1, <1>5, <4>1
    <3> QED
      BY <1>2, <3>1, <3>2
  <2> QED
    BY <2>1, <2>2
<1>9. stack' # <<>> /\ stack'[1].config = Root
  BY <1>1, <1>2, <1>5
<1>10. \A k \in 1..Len(stack') : k \in 1..L \/ k = L + 1
  BY <1>1, <1>5
<1>11. \A k \in 1..Len(stack') : Reachable(stack'[k].config)
  BY <1>2, <1>3, <1>5, <1>10
<1>12. ASSUME NEW j \in 1..Len(stack'), NEW k \in 1..Len(stack'), j < k
       PROVE  Below(stack'[k].config, stack'[j].config)
  <2>1. j \in 1..L
    BY <1>1, <1>5, <1>12
  <2> QED
    BY <1>2, <1>3, <1>5, <1>10, <1>12, <2>1
<1>13. \A k \in 1..Len(stack') : Reachable(stack[k].config)'
  BY <1>7, <1>11
<1>14. \A j, k \in 1..Len(stack') : j < k => Below(stack[k].config, stack[j].config)'
  BY <1>7, <1>12
<1>15. phase' = "solve" /\ stack' \in Seq(Frames')
  BY <1>5, <1>7 DEF Resumes
<1> QED
  BY <1>2, <1>7, <1>8, <1>9, <1>13, <1>14, <1>15 DEF Solving

LEMMA SkipType ==
  ASSUME Inputs, Runnable, Nested, Solving, stack # <<>>,
         stack' = [stack EXCEPT ![Len(stack)].next = Top.next + 1]
  PROVE  /\ stack' \in Seq(Frames) /\ Len(stack') = Len(stack)
         /\ \A k \in 1..Len(stack) : stack'[k].config = stack[k].config
         /\ \A k \in 1..Len(stack) : k # Len(stack) => stack'[k] = stack[k]
         /\ stack'[Len(stack)].next = Top.next + 1
<1>1. /\ Len(stack) \in Nat /\ Len(stack) >= 1 /\ Top = stack[Len(stack)] /\ Top \in Frames
      /\ Top.config \in Configs /\ Top.next \in Positive /\ stack \in Seq(Frames)
  BY TopType DEF Positive, Solving
<1>2. PICK f : f = [Top EXCEPT !.next = Top.next + 1]
  OBVIOUS
<1>3. f \in Frames /\ f.config = Top.config /\ f.next = Top.next + 1
  <2>1. PICK n \in Positive : n = Top.next + 1
    BY <1>1 DEF Positive
  <2>2. f = [Top EXCEPT !.next = n]
    BY <1>2, <2>1
  <2>3. f \in Frames /\ f.config = Top.config /\ f.next = n
    BY <1>1, <2>2 DEF Frames
  <2> QED
    BY <2>1, <2>3
<1>4. PICK m \in Nat : m = Len(stack)
  BY <1>1
<1>5. stack' = [stack EXCEPT ![m] = f] /\ m \in 1..Len(stack)
  BY <1>1, <1>2, <1>4
<1>6. stack' \in Seq(Frames) /\ Len(stack') = m
  BY <1>1, <1>3, <1>4, <1>5, ExceptSeq
<1>7. stack'[m] = f /\ \A k \in 1..m : k # m => stack'[k] = stack[k]
  BY <1>1, <1>4, <1>5
<1> QED
  BY <1>1, <1>3, <1>4, <1>6, <1>7

LEMMA SkipsSolving ==
  ASSUME Inputs, Runnable, Nested, Solving, Resumes, stack # <<>>, Skips
  PROVE  Solving'
<1> DEFINE c == Top.config
           L == Len(stack)
<1>1. /\ L \in Nat /\ L >= 1 /\ Top = stack[L] /\ c \in Configs
  BY TopType DEF Positive
<1>2. /\ \A k \in 1..L : Reachable(stack[k].config)
      /\ \A j, k \in 1..L : j < k => Below(stack[k].config, stack[j].config)
      /\ \A x \in DOMAIN memo :
            /\ x \in Configs
            /\ memo[x] \in {Visiting, Failure} \cup x[2]..len
            /\ memo[x] = Visiting => \E k \in 1..L : stack[k].config = x
      /\ start <= len /\ stack[1].config = Root
  BY DEF Solving, Resumes
<1>3. /\ stack' \in Seq(Frames) /\ Len(stack') = L
      /\ \A k \in 1..L : stack'[k].config = stack[k].config
  BY SkipType DEF Skips
<1>4. /\ DOMAIN memo' = {c} \cup DOMAIN memo
      /\ memo'[c] = Visiting
      /\ \A x \in DOMAIN memo : x # c => memo'[x] = memo[x]
  BY RememberType DEF Skips
<1>5. /\ Configs' = Configs /\ Frames' = Frames /\ len' = len /\ start' = start /\ Root' = Root
      /\ \A x : Reachable(x)' = Reachable(x)
      /\ \A x, y : Below(x, y)' = Below(x, y)
  BY FrozenGuards, RootFrozen DEF Resumes, Frozen
<1> HIDE DEF c, L
<1>6. ASSUME NEW x \in DOMAIN memo'
      PROVE  /\ x \in Configs
             /\ memo'[x] \in {Visiting, Failure} \cup x[2]..len
             /\ memo'[x] = Visiting => \E k \in 1..Len(stack') : stack'[k].config = x
  <2>1. CASE x = c
    <3>1. L \in 1..Len(stack') /\ stack'[L].config = c
      BY <1>1, <1>3 DEF c
    <3> QED
      BY <1>1, <1>4, <2>1, <3>1
  <2>2. CASE x # c
    <3>1. x \in DOMAIN memo /\ memo'[x] = memo[x]
      BY <1>4, <2>2
    <3> QED
      BY <1>2, <1>3, <3>1
  <2> QED
    BY <2>1, <2>2
<1>7. stack' # <<>> /\ stack'[1].config = Root
  BY <1>1, <1>2, <1>3
<1>8. /\ \A k \in 1..Len(stack') : Reachable(stack[k].config)'
      /\ \A j, k \in 1..Len(stack') : j < k => Below(stack[k].config, stack[j].config)'
  BY <1>2, <1>3, <1>5
<1>9. phase' = "solve" /\ stack' \in Seq(Frames')
  BY <1>3, <1>5 DEF Resumes
<1> QED
  BY <1>2, <1>5, <1>6, <1>7, <1>8, <1>9 DEF Solving

-----------------------------------------------------------------------------
(* The guarded executor keeps to its invariant.                            *)

LEMMA InitGuardInv == Init => GuardInv
<1> SUFFICES ASSUME Init PROVE GuardInv
  OBVIOUS
<1>1. Inputs
  BY LabInitInv DEF LabInv
<1>2. Loop
  BY <1>1, Constants DEF Inputs, Init, Loop, Spent, Touching, Spans
<1> QED
  BY <1>2 DEF Init, GuardInv

LEMMA FailGuardInv ==
  ASSUME GuardInv, NEW reason, reason \notin {"cycle", "log"}, Fail(reason)
  PROVE  GuardInv'
<1>1. Frozen /\ status' = "failed" /\ error' = reason
      /\ UNCHANGED <<phase, memo, stack, start, previous_end, matches, probes>>
  BY DEF Fail, Frozen, input, solving, collecting
<1>2. Guarded' = Guarded /\ (Runnable => Runnable') /\ (Nested => Nested')
  BY <1>1, FrozenProgram, FrozenGuards
<1>3. ASSUME Guarded PROVE Loop'
  BY <1>1, <1>3 DEF GuardInv, Loop, Frozen
<1> QED
  BY <1>1, <1>2, <1>3 DEF GuardInv

LEMMA NewGuardInv ==
  ASSUME LabInv, GuardInv, New
  PROVE  GuardInv'
<1> DEFINE b == Compiles(Guarded, job.ast)
           order == IF Guarded THEN <<>> ELSE Orders(b.code)
<1>1. CASE \E reason \in {"invalid", "limit"} : Fail(reason)
  BY <1>1, FailGuardInv
<1>2. CASE ~Guarded /\ Fail("cycle")
  <2>1. ~Guarded'
    BY <1>2 DEF Fail, input, Guarded
  <2> QED
    BY <2>1 DEF GuardInv
<1>3. CASE /\ Accepts(job.ast)
           /\ prog' = [code |-> b.code, entry |-> b.at, guards |-> b.guards, order |-> order]
           /\ phase' = "compiled"
           /\ phase = "new"
           /\ UNCHANGED <<job, len, selected, limit, work, building, replaying, solving, error, collecting, status>>
  <2>1. Guarded' = Guarded
    BY <1>3 DEF Guarded
  <2> SUFFICES ASSUME Guarded PROVE GuardInv'
    BY <2>1 DEF GuardInv
  <2>2. job.ast \in Expressions
    BY DEF LabInv, Inputs
  <2>3. b = Compiles(TRUE, job.ast)
    <3>1. Guarded = TRUE
      BY DEF Guarded
    <3> QED
      BY <3>1, Zenon
  <2>4. Executable(b)
    BY <1>3, <2>2, <2>3, CompilerAssumption
  <2>5. /\ Scoped(b, Scopes(b.code))
        /\ Topological(Forward(b.code), Orders(Forward(b.code)))
        /\ Len(Orders(Forward(b.code))) = Len(Forward(b.code))
    BY <1>3, <2>2, <2>3, ScopeAssumption
  <2>6. prog'.code = b.code /\ prog'.entry = b.at /\ prog'.guards = b.guards
    BY <1>3
  <2> HIDE DEF b, order
  <2>7. Runnable'
    BY <2>4, <2>6 DEF Runnable, Executable, States
  <2>8. Len(Forward(b.code)) = Len(b.code)
    <3>1. DOMAIN Forward(b.code) = 1..Len(b.code) /\ Len(b.code) \in Nat
      BY <2>4 DEF Executable, Forward
    <3> QED
      BY <3>1
  <2>9. Scoped([code |-> prog'.code, at |-> prog'.entry, guards |-> prog'.guards], Scopes(prog'.code))
    BY <2>5, <2>6 DEF Scoped
  <2>10. Nested'
    BY <2>4, <2>5, <2>6, <2>8, <2>9 DEF Nested, States, Executable
  <2>11. Loop'
    BY <1>3 DEF GuardInv, Loop, collecting, Spent, Touching
  <2> QED
    BY <1>3, <2>7, <2>10, <2>11 DEF GuardInv, solving, collecting
<1> QED
  BY <1>1, <1>2, <1>3 DEF New, CompileJob

LEMMA AdmitGuardInv ==
  ASSUME GuardInv, Admit
  PROVE  GuardInv'
<1>1. CASE Fail("limit")
  BY <1>1, FailGuardInv
<1>2. CASE /\ phase' = IF Guarded THEN "collect" ELSE "build"
           /\ phase = "compiled"
           /\ UNCHANGED <<job, len, selected, prog, work, store, replaying, solving, error, collecting, status>>
  <2>1. Frozen /\ UNCHANGED <<error, status, memo, stack, start, previous_end, matches, probes>>
    BY <1>2 DEF Frozen, solving, collecting
  <2>2. Guarded' = Guarded /\ (Runnable => Runnable') /\ (Nested => Nested')
    BY <2>1, FrozenProgram, FrozenGuards
  <2> SUFFICES ASSUME Guarded PROVE GuardInv'
    BY <2>2 DEF GuardInv
  <2>3. phase' = "collect" /\ memo' = <<>> /\ stack' = <<>>
    BY <1>2, <2>1 DEF GuardInv
  <2>4. DOMAIN memo' = {} /\ Len(stack') = 0 /\ stack' \in Seq(Frames')
    BY <2>3
  <2>5. Solving'
    BY <2>3, <2>4 DEF Solving
  <2>6. Loop'
    BY <2>1 DEF GuardInv, Loop, Frozen, Spent, Touching
  <2> QED
    BY <1>2, <2>1, <2>2, <2>3, <2>5, <2>6 DEF GuardInv
<1> QED
  BY <1>1, <1>2 DEF Admit

\* Every root is a configuration that the program can reach: no guard is in
\* scope there.
LEMMA RootType ==
  ASSUME Inputs, Loop, Runnable, Nested, start <= len
  PROVE  Root \in Configs /\ Reachable(Root) /\ Root[1] = prog.entry /\ Root[2] = start
<1>1. prog.entry \in 1..States /\ start \in 0..len
  BY DEF Inputs, Loop, Runnable
<1>2. GuardSpace - 1 \in 0..(GuardSpace - 1)
  BY CellsType DEF Positive
<1>3. Root = <<prog.entry, start, GuardSpace - 1>>
  BY DEF Root
<1>4. Root \in Configs /\ Root[1] = prog.entry /\ Root[2] = start
  BY <1>1, <1>2, <1>3 DEF Configs
<1>5. Scope(prog.entry) = {}
  BY <1>1, ScopeType
<1> QED
  BY <1>4, <1>5 DEF Reachable

\* The value of a solved root answers the probe.
LEMMA AnswerGuardInv ==
  ASSUME LabInv, GuardInv, Guarded, status = "running", phase \in {"collect", "solve"},
         stack = <<>>, Root \in DOMAIN memo, Answer(memo[Root]), Refusal, Frozen,
         phase' = "collect", UNCHANGED solving
  PROVE  GuardInv'
<1>1. Inputs /\ Loop /\ Runnable /\ Nested /\ Solving /\ error \notin {"cycle", "log"}
  BY DEF LabInv, GuardInv
<1>2. start <= len
  BY DEF Answer, Probing
<1>3. Root \in Configs /\ Root[2] = start
  BY <1>1, <1>2, RootType
<1>4. memo[Root] = NoMatch \/ memo[Root] \in start..len
  <2>1. /\ memo[Root] \in {Visiting, Failure} \cup Root[2]..len
        /\ memo[Root] = Visiting => \E k \in 1..Len(stack) : stack[k].config = Root
    BY <1>1 DEF Solving
  <2>2. 1..Len(stack) = {}
    OBVIOUS
  <2> QED
    BY <1>3, <2>1, <2>2 DEF Failure, NoMatch
<1>5. Loop'
  BY <1>1, <1>4, AnswerLoop DEF Frozen
<1>6. Guarded' /\ Runnable' /\ Nested' /\ Configs' = Configs /\ Frames' = Frames /\ len' = len
  BY <1>1, FrozenProgram, FrozenGuards DEF Frozen
<1>7. memo' = memo /\ stack' = <<>> /\ Len(stack') = 0 /\ stack' \in Seq(Frames')
  BY DEF solving
<1>8. Solving'
  <2>1. \A c \in DOMAIN memo : c \in Configs /\ memo[c] \in {Visiting, Failure} \cup c[2]..len /\ memo[c] # Visiting
    BY <1>1 DEF Solving
  <2> QED
    BY <1>6, <1>7, <2>1 DEF Solving
<1>9. error' \notin {"cycle", "log"}
  BY <1>1 DEF Refusal
<1> QED
  BY <1>5, <1>6, <1>8, <1>9 DEF GuardInv

LEMMA ProbeGuardInv ==
  ASSUME LabInv, GuardInv, ProbeGuarded
  PROVE  GuardInv'
<1>1. Guarded /\ status = "running" /\ start <= len /\ phase = "collect"
  BY DEF ProbeGuarded, AtProbe, Probing
<1>2. Inputs /\ Loop /\ Runnable /\ Nested /\ Solving /\ stack = <<>> /\ error \notin {"cycle", "log"}
  BY <1>1 DEF LabInv, GuardInv, Solving
<1>3. CASE Fail("work")
  BY <1>3, FailGuardInv
<1>4. CASE /\ Known(Root) /\ Answer(memo[Root]) /\ Refusal
           /\ UNCHANGED <<input, phase, building, replaying, solving>>
  <2>1. Frozen /\ phase' = "collect" /\ UNCHANGED solving
    BY <1>1, <1>4 DEF Frozen, input
  <2> QED
    BY <1>1, <1>2, <1>4, <2>1, AnswerGuardInv DEF Known
<1>5. CASE /\ phase' = "solve"
           /\ stack' = <<[config |-> Root, next |-> 1]>>
           /\ UNCHANGED <<input, building, replaying, memo, error, collecting, status>>
  <2>1. Frozen /\ UNCHANGED <<memo, error, status, start, previous_end, matches, probes>>
    BY <1>5 DEF Frozen, input, collecting
  <2>2. /\ Guarded' /\ Runnable' /\ Nested' /\ Configs' = Configs /\ Frames' = Frames /\ len' = len
        /\ (\A x : Reachable(x)' = Reachable(x)) /\ Root' = Root
    BY <1>1, <1>2, <2>1, FrozenProgram, FrozenGuards, RootFrozen DEF Frozen
  <2>3. Root \in Configs /\ Reachable(Root)
    BY <1>1, <1>2, RootType
  <2> DEFINE frame == [config |-> Root, next |-> 1]
  <2>4. frame \in Frames /\ frame.config = Root
    BY <2>3 DEF Frames, Positive
  <2> HIDE DEF frame
  <2>5. stack' = <<frame>>
    BY <1>5 DEF frame
  <2>6. stack' \in Seq(Frames') /\ Len(stack') = 1 /\ stack'[1].config = Root /\ stack' # <<>>
    BY <2>2, <2>4, <2>5
  <2>7. \A c \in DOMAIN memo : c \in Configs /\ memo[c] \in {Visiting, Failure} \cup c[2]..len /\ memo[c] # Visiting
    BY <1>2 DEF Solving
  <2>8. \A k \in 1..Len(stack') : Reachable(stack[k].config)'
    BY <2>2, <2>3, <2>6
  <2>9. \A j, k \in 1..Len(stack') : ~(j < k)
    BY <2>6
  <2>10. Solving'
    BY <1>1, <1>5, <2>1, <2>2, <2>6, <2>7, <2>8, <2>9 DEF Solving
  <2>11. Loop'
    BY <1>2, <2>1 DEF Loop, Frozen, Spent, Touching
  <2> QED
    BY <1>2, <1>5, <2>1, <2>2, <2>10, <2>11 DEF GuardInv
<1> QED
  BY <1>3, <1>4, <1>5 DEF ProbeGuarded, Charged

LEMMA SolveGuardInv ==
  ASSUME LabInv, GuardInv, Solve
  PROVE  GuardInv'
<1>1. status = "running" /\ phase = "solve" /\ stack # <<>>
  BY DEF Solve
<1>2. Guarded
  BY <1>1 DEF LabInv, Product
<1>3. Inputs /\ Loop /\ Runnable /\ Nested /\ Solving /\ error \notin {"cycle", "log"}
  BY <1>1, <1>2 DEF LabInv, GuardInv
<1>4. CASE Fail("work")
  BY <1>4, FailGuardInv
<1>5. CASE /\ Frozen /\ UNCHANGED <<phase, error, status, start, previous_end, matches, probes>>
           /\ Ends \/ GivesUp \/ Enters \/ Skips \/ Takes
  <2>1. Resumes
    BY <1>1, <1>5 DEF Resumes
  <2>2. Top.config \in Configs /\ Top.config[2] \in 0..len /\ len \in Nat
    BY <1>1, <1>3, TopType, ValueType DEF Inputs
  <2>3. ASSUME Ends PROVE Solving'
    <3>1. Top.config[2] \in {Failure} \cup Top.config[2]..len
      BY <2>2
    <3> QED
      BY <1>1, <1>3, <2>1, <2>3, <3>1, PopSolving DEF Ends
  <2>4. ASSUME GivesUp PROVE Solving'
    BY <1>1, <1>3, <2>1, <2>4, PopSolving DEF GivesUp
  <2>5. ASSUME Enters PROVE Solving'
    BY <1>1, <1>3, <2>1, <2>5, EntersSolving
  <2>6. ASSUME Skips PROVE Solving'
    BY <1>1, <1>3, <2>1, <2>6, SkipsSolving
  <2>7. ASSUME Takes PROVE Solving'
    <3>1. /\ Goes /\ TopChild \in DOMAIN memo /\ memo[TopChild] \notin {Failure, Visiting}
          /\ Pop(Top.config, memo[TopChild])
      BY <2>7 DEF Takes
    <3>2. TopChild[2] >= Top.config[2] /\ TopChild \in Configs
      BY <1>1, <1>3, <3>1, ChildFree DEF Reachable
    <3>3. TopChild[2] \in 0..len
      BY <1>3, <3>2, ValueType
    <3>4. memo[TopChild] \in TopChild[2]..len
      BY <1>3, <3>1 DEF Solving
    <3>5. memo[TopChild] \in {Failure} \cup Top.config[2]..len
      BY <2>2, <3>2, <3>3, <3>4
    <3> QED
      BY <1>1, <1>3, <2>1, <3>1, <3>5, PopSolving
  <2>8. Solving'
    BY <1>5, <2>3, <2>4, <2>5, <2>6, <2>7
  <2>9. Guarded' /\ Runnable' /\ Nested'
    BY <1>2, <1>3, <1>5, FrozenProgram, FrozenGuards
  <2>10. Loop'
    BY <1>3, <1>5 DEF Loop, Frozen, Spent, Touching
  <2> QED
    BY <1>1, <1>3, <1>5, <2>8, <2>9, <2>10 DEF GuardInv
<1> QED
  BY <1>3, <1>4, <1>5, SolveCases

LEMMA SolvedGuardInv ==
  ASSUME LabInv, GuardInv, Solved
  PROVE  GuardInv'
<1>1. status = "running" /\ phase = "solve" /\ stack = <<>>
  BY DEF Solved
<1>2. Guarded
  BY <1>1 DEF LabInv, Product
<1>3. Root \in DOMAIN memo
  BY <1>1, <1>2 DEF GuardInv, Solving
<1>4. Answer(memo[Root]) /\ Refusal /\ phase' = "collect" /\ UNCHANGED solving /\ Frozen
  BY DEF Solved, Frozen, input
<1> QED
  BY <1>1, <1>2, <1>3, <1>4, AnswerGuardInv

LEMMA FinishGuardInv ==
  ASSUME GuardInv, Finish
  PROVE  GuardInv'
<1>1. Frozen /\ status' = "done" /\ phase = "collect"
      /\ UNCHANGED <<phase, error, memo, stack, start, previous_end, matches, probes>>
  BY DEF Finish, Stop, Frozen, solving
<1>2. Guarded' = Guarded /\ (Runnable => Runnable') /\ (Nested => Nested')
  BY <1>1, FrozenProgram, FrozenGuards
<1>3. ASSUME Guarded PROVE Loop'
  BY <1>1, <1>3 DEF GuardInv, Loop, Frozen
<1> QED
  BY <1>1, <1>2, <1>3 DEF GuardInv

\* The guarded executor builds no rows and replays nothing.
LEMMA OthersGuardInv ==
  ASSUME GuardInv, BuildRow \/ ProbeTable \/ ProbeLog \/ ProbeRows \/ ReplayMatch \/ ReplayStep
  PROVE  GuardInv'
<1>1. ~Guarded
  <2>1. Guarded => phase \notin {"build", "replay"}
    BY DEF GuardInv
  <2> QED
    BY <2>1 DEF BuildRow, ProbeTable, ProbeLog, ProbeRows, ReplayMatch, ReplayStep, Replaying, Table, Guarded
<1>2. job' = job
  BY DEF BuildRow, ProbeTable, ProbeLog, ProbeRows, ReplayMatch, ReplayStep, Charged, Fail, input
<1> QED
  BY <1>1, <1>2 DEF GuardInv, Guarded

LEMMA StutterGuardInv ==
  ASSUME GuardInv, UNCHANGED vars
  PROVE  GuardInv'
<1>1. Frozen
      /\ UNCHANGED <<phase, status, error, memo, stack, start, previous_end, matches, probes>>
  BY DEF vars, input, solving, collecting, Frozen
<1>2. /\ Guarded' = Guarded /\ (Runnable => Runnable') /\ (Nested => Nested')
      /\ Configs' = Configs /\ Frames' = Frames /\ len' = len /\ Root' = Root
      /\ \A x : Reachable(x)' = Reachable(x)
      /\ \A x, y : Below(x, y)' = Below(x, y)
  BY <1>1, FrozenProgram, FrozenGuards, RootFrozen DEF Frozen
<1>3. ASSUME Guarded PROVE Loop'
  BY <1>1, <1>3 DEF GuardInv, Loop, Frozen, Spent, Touching
<1>4. ASSUME Solving PROVE Solving'
  <2>1. \A k \in 1..Len(stack') : Reachable(stack[k].config)'
    BY <1>1, <1>2, <1>4 DEF Solving
  <2>2. \A j, k \in 1..Len(stack') : j < k => Below(stack[k].config, stack[j].config)'
    BY <1>1, <1>2, <1>4 DEF Solving
  <2> QED
    BY <1>1, <1>2, <1>4, <2>1, <2>2 DEF Solving
<1> QED
  BY <1>1, <1>2, <1>3, <1>4 DEF GuardInv

LEMMA NextGuardInv == LabInv /\ GuardInv /\ [Next]_vars => GuardInv'
<1> SUFFICES ASSUME LabInv, GuardInv, [Next]_vars PROVE GuardInv'
  OBVIOUS
<1>1. CASE New
  BY <1>1, NewGuardInv
<1>2. CASE Admit
  BY <1>2, AdmitGuardInv
<1>3. CASE AllocationFails
  BY <1>3, FailGuardInv DEF AllocationFails
<1>4. CASE BuildRow \/ ProbeTable \/ ProbeLog \/ ProbeRows \/ ReplayMatch \/ ReplayStep
  BY <1>4, OthersGuardInv
<1>5. CASE ProbeGuarded
  BY <1>5, ProbeGuardInv
<1>6. CASE Solve
  BY <1>6, SolveGuardInv
<1>7. CASE Solved
  BY <1>7, SolvedGuardInv
<1>8. CASE Finish
  BY <1>8, FinishGuardInv
<1>9. CASE Returned \/ UNCHANGED vars
  BY <1>9, StutterGuardInv DEF Returned
<1> QED
  BY <1>1, <1>2, <1>3, <1>4, <1>5, <1>6, <1>7, <1>8, <1>9 DEF Next, Step

\* The guarded solver visits configurations in a strictly descending order:
\* each frame of its stack is further to the right, has left a stale loop or is
\* further down the code than the frames below it.
THEOREM GuardInvariance == Spec => []GuardInv
<1>1. Init => GuardInv
  BY InitGuardInv
<1>2. LabInv /\ GuardInv /\ [Next]_vars => GuardInv'
  BY NextGuardInv
<1> QED
  BY <1>1, <1>2, LabInvariance, PTL DEF Spec

\* No executor runs into its own consistency checks, for every program that
\* keeps to the contract: no same-boundary cycle (compile.rs, guarded.rs), no
\* decision that cannot be replayed (decision_log.rs), no record behind the
\* reader (sequential_log.rs).
THEOREM LabConsistency == Spec => []NoInternalError
<1>1. ValuesInv /\ GuardInv => NoInternalError
  BY DEF ValuesInv, GuardInv, NoInternalError
<1> QED
  BY <1>1, ValuesInvariance, GuardInvariance, PTL

-----------------------------------------------------------------------------
(* What the guarded solver remembers is what the guarded program decides.  *)

Verdicts == Outcomes(job.ast, hay)

Determined ==
    /\ \A c \in DOMAIN Verdicts : Decided(prog.code, hay, Verdicts, c)
    /\ \A i \in 0..len :
        /\ <<prog.entry, i, GuardSpace - 1>> \in DOMAIN Verdicts
        /\ Verdicts[<<prog.entry, i, GuardSpace - 1>>] = selected[i]

\* The children that a frame has passed over are failures.
Tried(frame) ==
    /\ frame.config \in DOMAIN Verdicts
    /\ \A n \in 1..2 : n < frame.next => Verdicts[Child(prog.code, hay, frame.config, n)] = Failure

Remembered ==
    /\ \A c \in DOMAIN memo : memo[c] # Visiting => memo[c] = Verdicts[c]
    /\ \A k \in 1..Len(stack) : Tried(stack[k])

MemoInv ==
    Guarded =>
        /\ phase # "new" => Determined
        /\ status = "running" /\ phase \in {"collect", "solve"} => Remembered

LEMMA FrozenVerdicts ==
  ASSUME Frozen
  PROVE  /\ Verdicts' = Verdicts /\ hay' = hay
         /\ Determined => Determined'
         /\ \A f : Tried(f)' = Tried(f)
<1>1. hay' = hay /\ Verdicts' = Verdicts
  BY DEF Frozen, hay, Verdicts
<1>2. GuardSpace' = GuardSpace
  BY FrozenGuards
<1>3. Determined => Determined'
  BY <1>1, <1>2 DEF Frozen, Determined
<1>4. \A f : Tried(f)' = Tried(f)
  BY <1>1 DEF Frozen, Tried
<1> QED
  BY <1>1, <1>3, <1>4

\* The verdict of the frame on top, by what it does next.
LEMMA TopVerdict ==
  ASSUME Determined, Tried(Top), Top.next \in Positive
  PROVE  /\ TopInst.op = "match" => Verdicts[Top.config] = Top.config[2]
         /\ /\ TopInst.op # "match"
            /\ ~Passes(TopInst, hay, Top.config[2]) \/ Top.next > Children(TopInst)
            => Verdicts[Top.config] = Failure
         /\ Goes => /\ TopChild \in DOMAIN Verdicts
                    /\ Verdicts[TopChild] # Failure => Verdicts[Top.config] = Verdicts[TopChild]
<1> DEFINE c == Top.config
           one == Child(prog.code, hay, c, 1)
           two == Child(prog.code, hay, c, 2)
<1>1. /\ TopInst.op = "match" => Verdicts[c] = c[2]
      /\ TopInst.op # "match" /\ ~Passes(TopInst, hay, c[2]) => Verdicts[c] = Failure
      /\ TopInst.op # "match" /\ Passes(TopInst, hay, c[2]) =>
            /\ one \in DOMAIN Verdicts
            /\ IF TopInst.op = "split" /\ Verdicts[one] = Failure
               THEN two \in DOMAIN Verdicts /\ Verdicts[c] = Verdicts[two]
               ELSE Verdicts[c] = Verdicts[one]
  <2>1. Decided(prog.code, hay, Verdicts, c)
    BY DEF Determined, Tried
  <2> QED
    BY <2>1, Zenon DEF Decided, TopInst
<1>2. /\ 1 < Top.next => Verdicts[one] = Failure
      /\ 2 < Top.next => Verdicts[two] = Failure
  BY DEF Tried
<1>3. Top.next = 1 => TopChild = one
  BY DEF TopChild
<1>4. Top.next = 2 => TopChild = two
  BY DEF TopChild
<1>5. Top.next \in Nat /\ Top.next >= 1 /\ Children(TopInst) = IF TopInst.op = "split" THEN 2 ELSE 1
  BY DEF Positive, Children
<1> HIDE DEF c, one, two
<1>6. ASSUME TopInst.op # "match", Passes(TopInst, hay, c[2]), Top.next > Children(TopInst)
      PROVE  Verdicts[c] = Failure
  BY <1>1, <1>2, <1>5, <1>6
<1>7. ASSUME Goes
      PROVE  /\ TopChild \in DOMAIN Verdicts
             /\ Verdicts[TopChild] # Failure => Verdicts[c] = Verdicts[TopChild]
  <2>1. TopInst.op # "match" /\ Passes(TopInst, hay, c[2])
    BY <1>7 DEF Goes, c
  <2>2. Top.next = 1 \/ (Top.next = 2 /\ TopInst.op = "split")
    BY <1>5, <1>7 DEF Goes
  <2> QED
    BY <1>1, <1>2, <1>3, <1>4, <2>1, <2>2
<1> QED
  BY <1>1, <1>6, <1>7 DEF c

LEMMA PopRemembered ==
  ASSUME Remembered, Frozen, NEW S, stack \in Seq(S), stack # <<>>,
         Pop(Top.config, Verdicts[Top.config])
  PROVE  Remembered'
<1>1. /\ Len(stack') = Len(stack) - 1
      /\ \A k \in 1..(Len(stack) - 1) : stack'[k] = stack[k]
  BY FrontType DEF Pop
<1>2. /\ DOMAIN memo' = {Top.config} \cup DOMAIN memo
      /\ memo'[Top.config] = Verdicts[Top.config]
      /\ \A x \in DOMAIN memo : x # Top.config => memo'[x] = memo[x]
  BY RememberType DEF Pop
<1>3. Verdicts' = Verdicts /\ \A f : Tried(f)' = Tried(f)
  BY FrozenVerdicts
<1>4. \A c \in DOMAIN memo' : memo'[c] # Visiting => memo'[c] = Verdicts[c]
  BY <1>2 DEF Remembered
<1>5. \A k \in 1..Len(stack') : k \in 1..Len(stack) /\ stack'[k] = stack[k]
  <2>1. Len(stack) \in Nat
    OBVIOUS
  <2> QED
    BY <1>1, <2>1
<1>6. \A k \in 1..Len(stack') : Tried(stack[k])'
  BY <1>3, <1>5 DEF Remembered
<1> QED
  BY <1>3, <1>4, <1>6 DEF Remembered

LEMMA VisitRemembered ==
  ASSUME Remembered, memo' = Remember(Top.config, Visiting)
  PROVE  \A c \in DOMAIN memo' : memo'[c] # Visiting => memo'[c] = Verdicts[c]
<1>1. /\ DOMAIN memo' = {Top.config} \cup DOMAIN memo
      /\ memo'[Top.config] = Visiting
      /\ \A x \in DOMAIN memo : x # Top.config => memo'[x] = memo[x]
  BY RememberType
<1> QED
  BY <1>1 DEF Remembered

LEMMA SolveRemembered ==
  ASSUME Inputs, Runnable, Nested, Solving, Determined, Remembered, Frozen, stack # <<>>,
         Ends \/ GivesUp \/ Enters \/ Skips \/ Takes
  PROVE  Remembered'
<1>1. /\ Len(stack) \in Nat /\ Len(stack) >= 1 /\ Top = stack[Len(stack)]
      /\ Top.next \in Positive /\ stack \in Seq(Frames)
  BY TopType DEF Positive, Solving
<1>2. Tried(Top) /\ Top.config \in DOMAIN Verdicts
  BY <1>1 DEF Remembered, Tried
<1>3. /\ TopInst.op = "match" => Verdicts[Top.config] = Top.config[2]
      /\ /\ TopInst.op # "match"
         /\ ~Passes(TopInst, hay, Top.config[2]) \/ Top.next > Children(TopInst)
         => Verdicts[Top.config] = Failure
      /\ Goes => /\ TopChild \in DOMAIN Verdicts
                 /\ Verdicts[TopChild] # Failure => Verdicts[Top.config] = Verdicts[TopChild]
  BY <1>1, <1>2, TopVerdict
<1>4. Verdicts' = Verdicts /\ \A f : Tried(f)' = Tried(f)
  BY FrozenVerdicts
<1>5. CASE Ends
  BY <1>1, <1>3, <1>5, PopRemembered DEF Ends
<1>6. CASE GivesUp
  BY <1>1, <1>3, <1>6, PopRemembered DEF GivesUp
<1>7. CASE Takes
  <2>1. Pop(Top.config, memo[TopChild]) /\ memo[TopChild] = Verdicts[Top.config]
    BY <1>3, <1>7 DEF Takes, Remembered
  <2> QED
    BY <1>1, <2>1, PopRemembered
<1>8. CASE Enters
  <2>1. \A c \in DOMAIN memo' : memo'[c] # Visiting => memo'[c] = Verdicts[c]
    BY <1>8, VisitRemembered DEF Enters
  <2> DEFINE frame == [config |-> TopChild, next |-> 1]
  <2>2. Tried(frame)
    BY <1>3, <1>8 DEF Enters, Tried
  <2> HIDE DEF frame
  <2>3. stack' = Append(stack, frame)
    BY <1>8 DEF Enters, frame
  <2>4. \A k \in 1..Len(stack') : Tried(stack'[k])
    <3>1. Len(stack') = Len(stack) + 1 /\ stack'[Len(stack) + 1] = frame
          /\ \A k \in 1..Len(stack) : stack'[k] = stack[k]
      BY <1>1, <2>3
    <3>2. \A k \in 1..Len(stack') : k \in 1..Len(stack) \/ k = Len(stack) + 1
      BY <1>1, <3>1
    <3> QED
      BY <2>2, <3>1, <3>2 DEF Remembered
  <2>5. \A k \in 1..Len(stack') : Tried(stack[k])'
    BY <1>4, <2>4
  <2> QED
    BY <1>4, <2>1, <2>5 DEF Remembered
<1>9. CASE Skips
  <2>1. \A c \in DOMAIN memo' : memo'[c] # Visiting => memo'[c] = Verdicts[c]
    BY <1>9, VisitRemembered DEF Skips
  <2>2. Verdicts[TopChild] = Failure
    BY <1>9 DEF Skips, Remembered, Visiting, Failure
  <2>3. /\ Len(stack') = Len(stack)
        /\ \A k \in 1..Len(stack) : stack'[k].config = stack[k].config
        /\ \A k \in 1..Len(stack) : k # Len(stack) => stack'[k] = stack[k]
        /\ stack'[Len(stack)].next = Top.next + 1
    BY <1>9, SkipType DEF Skips
  <2>4. PICK f : f = stack'[Len(stack)]
    OBVIOUS
  <2>5. f.config = Top.config /\ f.next = Top.next + 1
    BY <1>1, <2>3, <2>4
  <2>6. \A n \in 1..2 : n < f.next => Verdicts[Child(prog.code, hay, Top.config, n)] = Failure
    <3> SUFFICES ASSUME NEW n \in 1..2, n < f.next
                 PROVE  Verdicts[Child(prog.code, hay, Top.config, n)] = Failure
      OBVIOUS
    <3>1. n < Top.next \/ n = Top.next
      BY <1>1, <2>5 DEF Positive
    <3> QED
      BY <1>2, <2>2, <3>1 DEF Tried, TopChild
  <2>7. Tried(f)
    BY <1>2, <2>5, <2>6 DEF Tried
  <2>8. \A k \in 1..Len(stack') : Tried(stack'[k])
    BY <1>1, <2>3, <2>4, <2>7 DEF Remembered
  <2>9. \A k \in 1..Len(stack') : Tried(stack[k])'
    BY <1>4, <2>8
  <2> QED
    BY <1>4, <2>1, <2>9 DEF Remembered
<1> QED
  BY <1>5, <1>6, <1>7, <1>8, <1>9

LEMMA NewMemoInv ==
  ASSUME LabInv, MemoInv, New
  PROVE  MemoInv'
<1> DEFINE b == Compiles(Guarded, job.ast)
           order == IF Guarded THEN <<>> ELSE Orders(b.code)
<1>1. CASE \E reason : Fail(reason)
  <2>1. Frozen /\ phase' = phase /\ status' = "failed" /\ phase = "new"
    BY <1>1 DEF Fail, Frozen, input, New
  <2> QED
    BY <2>1 DEF MemoInv
<1>2. CASE /\ Accepts(job.ast)
           /\ prog' = [code |-> b.code, entry |-> b.at, guards |-> b.guards, order |-> order]
           /\ phase' = "compiled"
           /\ UNCHANGED <<job, len, selected, limit, work, building, replaying, solving, error, collecting, status>>
  <2>1. Guarded' = Guarded
    BY <1>2 DEF Guarded
  <2> SUFFICES ASSUME Guarded PROVE MemoInv'
    BY <2>1 DEF MemoInv
  <2>2. /\ job.ast \in Expressions /\ hay \in Haystacks /\ len = Len(hay)
        /\ selected = Selects(job.ast, hay)
    BY DEF LabInv, Inputs, hay
  <2>3. b = Compiles(TRUE, job.ast)
    <3>1. Guarded = TRUE
      BY DEF Guarded
    <3> QED
      BY <3>1, Zenon
  <2>4. /\ \A c \in DOMAIN Verdicts : Decided(b.code, hay, Verdicts, c)
        /\ \A i \in 0..Len(hay) :
            RootAt(b, hay, i) \in DOMAIN Verdicts /\ Verdicts[RootAt(b, hay, i)] = selected[i]
    BY <1>2, <2>2, <2>3, MeaningAssumption DEF Verdicts
  <2>5. prog'.code = b.code /\ prog'.entry = b.at /\ prog'.guards = b.guards
        /\ hay' = hay /\ Verdicts' = Verdicts
    BY <1>2 DEF hay, Verdicts
  <2> HIDE DEF b, order
  <2>6. \A i : RootAt(b, hay, i) = <<prog'.entry, i, GuardSpace' - 1>>
    BY <2>5 DEF RootAt, GuardSpace
  <2>7. Determined'
    BY <1>2, <2>2, <2>4, <2>5, <2>6 DEF Determined
  <2> QED
    BY <1>2, <2>7 DEF MemoInv
<1> QED
  BY <1>1, <1>2 DEF New, CompileJob

LEMMA AdmitMemoInv ==
  ASSUME GuardInv, MemoInv, Admit
  PROVE  MemoInv'
<1>1. Frozen /\ phase = "compiled" /\ UNCHANGED <<memo, stack>>
  BY DEF Admit, Fail, Frozen, input, solving
<1>2. Guarded' = Guarded /\ (Determined => Determined')
  BY <1>1, FrozenProgram, FrozenVerdicts
<1>3. Guarded => DOMAIN memo' = {} /\ Len(stack') = 0
  BY <1>1 DEF GuardInv
<1>4. Guarded => Remembered'
  BY <1>3 DEF Remembered
<1> QED
  BY <1>1, <1>2, <1>4 DEF MemoInv

\* Steps that stop the operation, or leave the memo and the stack alone.
LEMMA IdleMemoInv ==
  ASSUME MemoInv, Frozen,
         \/ phase' = phase /\ status' \in {"failed", "done"}
         \/ /\ status = "running" \/ status' # "running"
            /\ phase \in {"collect", "solve"} <=> phase' \in {"collect", "solve"}
            /\ phase # "new" /\ UNCHANGED solving
         \/ UNCHANGED <<phase, status, solving>>
  PROVE  MemoInv'
<1>1. Guarded' = Guarded /\ (Determined => Determined')
  BY FrozenProgram, FrozenVerdicts
<1>2. ASSUME UNCHANGED solving, Remembered PROVE Remembered'
  <2>1. Verdicts' = Verdicts /\ \A f : Tried(f)' = Tried(f)
    BY FrozenVerdicts
  <2>2. memo' = memo /\ stack' = stack
    BY <1>2 DEF solving
  <2>3. \A k \in 1..Len(stack') : Tried(stack[k])'
    BY <1>2, <2>1, <2>2 DEF Remembered
  <2> QED
    BY <1>2, <2>1, <2>2, <2>3 DEF Remembered
<1> QED
  BY <1>1, <1>2 DEF MemoInv

LEMMA ProbeMemoInv ==
  ASSUME GuardInv, MemoInv, ProbeGuarded
  PROVE  MemoInv'
<1>1. Guarded /\ status = "running" /\ start <= len /\ phase = "collect" /\ Frozen
  BY DEF ProbeGuarded, AtProbe, Probing, Charged, Fail, Frozen, input
<1>2. Determined /\ Remembered /\ Loop /\ stack = <<>>
  BY <1>1 DEF MemoInv, GuardInv, Solving
<1>3. CASE Fail("work")
  BY <1>1, <1>3, IdleMemoInv DEF Fail
<1>4. CASE UNCHANGED <<input, phase, building, replaying, solving>>
  BY <1>1, <1>4, IdleMemoInv
<1>5. CASE /\ phase' = "solve"
           /\ stack' = <<[config |-> Root, next |-> 1]>>
           /\ UNCHANGED <<input, building, replaying, memo, error, collecting, status>>
  <2>1. Guarded' /\ Determined' /\ Verdicts' = Verdicts /\ \A f : Tried(f)' = Tried(f)
    BY <1>1, <1>2, FrozenProgram, FrozenVerdicts
  <2> DEFINE frame == [config |-> Root, next |-> 1]
  <2>2. start \in 0..len
    BY <1>1, <1>2 DEF Loop
  <2>3. Root \in DOMAIN Verdicts
    BY <1>2, <2>2 DEF Determined, Root
  <2>4. Tried(frame)
    BY <2>3 DEF Tried
  <2> HIDE DEF frame
  <2>5. stack' = <<frame>>
    BY <1>5 DEF frame
  <2>6. \A k \in 1..Len(stack') : Tried(stack'[k])
    BY <2>4, <2>5
  <2>7. \A k \in 1..Len(stack') : Tried(stack[k])'
    BY <2>1, <2>6
  <2>8. Remembered'
    BY <1>2, <1>5, <2>1, <2>7 DEF Remembered
  <2> QED
    BY <2>1, <2>8 DEF MemoInv
<1> QED
  BY <1>3, <1>4, <1>5 DEF ProbeGuarded, Charged

LEMMA SolveMemoInv ==
  ASSUME LabInv, GuardInv, MemoInv, Solve
  PROVE  MemoInv'
<1>1. status = "running" /\ phase = "solve" /\ stack # <<>>
  BY DEF Solve
<1>2. Guarded
  BY <1>1 DEF LabInv, Product
<1>3. Inputs /\ Runnable /\ Nested /\ Solving /\ Determined /\ Remembered
  BY <1>1, <1>2 DEF LabInv, GuardInv, MemoInv
<1>4. CASE Fail("work")
  <2>1. Frozen /\ phase' = phase /\ status' = "failed"
    BY <1>4 DEF Fail, Frozen, input
  <2> QED
    BY <2>1, IdleMemoInv
<1>5. CASE /\ Frozen /\ UNCHANGED <<phase, error, status, start, previous_end, matches, probes>>
           /\ Ends \/ GivesUp \/ Enters \/ Skips \/ Takes
  <2>1. Remembered'
    BY <1>1, <1>3, <1>5, SolveRemembered
  <2>2. Determined'
    BY <1>3, <1>5, FrozenVerdicts
  <2> QED
    BY <2>1, <2>2 DEF MemoInv
<1> QED
  BY <1>3, <1>4, <1>5, SolveCases

LEMMA NextMemoInv == LabInv /\ GuardInv /\ MemoInv /\ [Next]_vars => MemoInv'
<1> SUFFICES ASSUME LabInv, GuardInv, MemoInv, [Next]_vars PROVE MemoInv'
  OBVIOUS
<1>1. CASE New
  BY <1>1, NewMemoInv
<1>2. CASE Admit
  BY <1>2, AdmitMemoInv
<1>3. CASE AllocationFails
  BY <1>3, IdleMemoInv DEF AllocationFails, Fail, Frozen, input
<1>4. CASE BuildRow \/ ProbeTable \/ ProbeLog \/ ProbeRows \/ ReplayMatch \/ ReplayStep
  <2>1. ~Guarded
    <3>1. Guarded => phase \notin {"build", "replay"}
      BY DEF GuardInv
    <3> QED
      BY <1>4, <3>1 DEF BuildRow, ProbeTable, ProbeLog, ProbeRows, ReplayMatch, ReplayStep, Replaying,
                        Table, Guarded
  <2>2. job' = job
    BY <1>4 DEF BuildRow, ProbeTable, ProbeLog, ProbeRows, ReplayMatch, ReplayStep, Charged, Fail, input
  <2> QED
    BY <2>1, <2>2 DEF MemoInv, Guarded
<1>5. CASE ProbeGuarded
  BY <1>5, ProbeMemoInv
<1>6. CASE Solve
  BY <1>6, SolveMemoInv
<1>7. CASE Solved
  BY <1>7, IdleMemoInv DEF Solved, Frozen, input
<1>8. CASE Finish
  BY <1>8, IdleMemoInv DEF Finish, Stop, Frozen
<1>9. CASE Returned \/ UNCHANGED vars
  BY <1>9, IdleMemoInv DEF Returned, vars, Frozen, input, solving
<1> QED
  BY <1>1, <1>2, <1>3, <1>4, <1>5, <1>6, <1>7, <1>8, <1>9 DEF Next, Step

\* Every end that the memo of the guarded solver holds is the one that the
\* guarded program decides, in whatever order the stack has met it.
THEOREM MemoInvariance == Spec => []MemoInv
<1>1. Init => MemoInv
  BY DEF Init, MemoInv
<1>2. LabInv /\ GuardInv /\ MemoInv /\ [Next]_vars => MemoInv'
  BY NextMemoInv
<1> QED
  BY <1>1, <1>2, LabInvariance, GuardInvariance, PTL DEF Spec

-----------------------------------------------------------------------------
(* Every executor drives the loop with what is selected.                   *)

\* The buffer of the row reader is reserved by the first probe.
ReaderInv ==
    job.engine = "rows" /\ status = "running" =>
        reader \in Nat \/ (start = 0 /\ phase # "replay")

LEMMA NextReaderInv == LabInv /\ ReaderInv /\ [Next]_vars => ReaderInv'
<1> SUFFICES ASSUME LabInv, ReaderInv, [Next]_vars PROVE ReaderInv'
  OBVIOUS
<1>0. ASSUME NEW reason, Fail(reason) PROVE ReaderInv'
  BY <1>0 DEF Fail, ReaderInv
<1>1. CASE New
  BY <1>0, <1>1 DEF New, CompileJob, ReaderInv, replaying, collecting
<1>2. CASE Admit
  BY <1>0, <1>2 DEF Admit, ReaderInv, replaying, collecting
<1>3. CASE AllocationFails
  BY <1>0, <1>3 DEF AllocationFails
<1>4. CASE BuildRow
  BY <1>0, <1>4 DEF BuildRow, Charged, ReaderInv, input, replaying, collecting
<1>5. CASE ProbeTable \/ ProbeLog \/ ProbeGuarded
  <2>1. job.engine # "rows" /\ job' = job
    BY <1>5 DEF ProbeTable, ProbeLog, ProbeGuarded, Table, Guarded, Charged, Fail, input
  <2> QED
    BY <2>1 DEF ReaderInv
<1>6. CASE ProbeRows
  <2>1. start \in Nat
    BY <1>6 DEF ProbeRows, LabInv, Guarded, Loop
  <2> QED
    BY <1>0, <1>6, <2>1 DEF ProbeRows, Charged, ReaderInv
<1>7. CASE ReplayMatch
  BY <1>0, <1>7 DEF ReplayMatch, Replaying, Charged, ReaderInv, input, replaying
<1>8. CASE ReplayStep
  <2>1. job.engine = "rows" => at \in Nat
    BY <1>8 DEF ReplayStep, Replaying, LabInv, Guarded, Loop, Product, Pass
  <2> QED
    BY <1>0, <1>8, <2>1 DEF ReplayStep, Replaying, Charged, ReaderInv, input
<1>9. CASE Solve \/ Solved
  <2>1. Guarded /\ job' = job
    BY <1>9 DEF Solve, Solved, LabInv, Product, Charged, Fail, input
  <2> QED
    BY <2>1 DEF ReaderInv, Guarded
<1>10. CASE Finish
  BY <1>10 DEF Finish, Stop, ReaderInv
<1>11. CASE Returned \/ UNCHANGED vars
  BY <1>11 DEF Returned, vars, input, replaying, collecting, ReaderInv
<1> QED
  BY <1>1, <1>2, <1>3, <1>4, <1>5, <1>6, <1>7, <1>8, <1>9, <1>10, <1>11 DEF Next, Step

LEMMA ReaderInvariance == Spec => []ReaderInv
<1>1. Init => ReaderInv
  BY DEF Init, ReaderInv
<1>2. LabInv /\ ReaderInv /\ [Next]_vars => ReaderInv'
  BY NextReaderInv
<1> QED
  BY <1>1, <1>2, LabInvariance, PTL DEF Spec

LEMMA RefinesInit == Init => CollectInit
<1> SUFFICES ASSUME Init PROVE CollectInit
  OBVIOUS
<1>1. PICK e \in Expressions, h \in Haystacks : selected = Selects(e, h) /\ len = Len(h)
  BY DEF Init
<1>2. /\ len \in 0..MaxLen
      /\ selected \in [0..len -> NoMatch..len]
      /\ \A i \in 0..len : selected[i] = NoMatch \/ selected[i] >= i
  BY <1>1, SelectionAssumption
<1> QED
  BY <1>2 DEF Init, CollectInit, NoMatch

LEMMA SelectedType ==
  ASSUME Inputs
  PROVE  \A i \in 0..len : selected[i] \in Int
<1>1. job.ast \in Expressions /\ hay \in Haystacks /\ selected = Selects(job.ast, hay) /\ len = Len(hay)
  BY DEF Inputs, hay
<1>2. selected \in [0..len -> NoMatch..len]
  BY <1>1, SelectionAssumption
<1> QED
  BY <1>2

\* A failure of an executor is a probe that fails.
LEMMA RefinesFail ==
  ASSUME NEW reason, Fail(reason), status = "running", start <= len
  PROVE  ProbeFails
  BY DEF Fail, ProbeFails, Probing, input, collecting

LEMMA RefinesProbe ==
  ASSUME Inputs, Loop, NEW end, Answer(end), end = selected[start], UNCHANGED <<len, selected>>
  PROVE  Probe
  BY DEF Probe

\* The executors that run the product program.
LEMMA RefinesProduct ==
  ASSUME LabInv, ValuesInv, ReaderInv, ~Guarded, Step
  PROVE  CollectNext \/ UNCHANGED collect_vars
<1>1. /\ Inputs /\ Loop /\ Product /\ len \in Nat
  BY DEF LabInv, Inputs
<1>2. ASSUME NEW reason, Fail(reason), status = "running", start <= len PROVE CollectNext
  BY <1>2, RefinesFail DEF CollectNext
<1>3. phase \in {"new", "compiled"} => start <= len
  BY <1>1 DEF Product
<1>4. status = "running" /\ phase \in {"build", "replay"} => start <= len
  BY <1>1 DEF Product, Pass
<1>5. ASSUME status = "running", phase \in {"build", "collect", "replay"}
      PROVE  /\ Runnable /\ Valued /\ Meant /\ Pass /\ Stored
             /\ \A i \in 0..len : Rows[i][prog.entry] - 1 = selected[i] /\ selected[i] \in Int
  <2>1. Runnable /\ Valued /\ Meant /\ Pass /\ Stored
    BY <1>1, <1>5 DEF ValuesInv, Product
  <2>2. \A i \in 0..len : Rows[i][prog.entry] = selected[i] + 1 /\ selected[i] \in Int
    BY <1>1, <2>1, SelectedType DEF Meant
  <2> QED
    BY <2>1, <2>2
<1>6. ASSUME AtProbe
      PROVE  /\ start \in 0..len /\ status = "running" /\ phase = "collect" /\ position = -1
  <2>1. status = "running" /\ phase = "collect" /\ start \in 0..len
    BY <1>1, <1>6 DEF AtProbe, Probing, Loop
  <2>2. position \in -1..len /\ ~(position >= 0)
    BY <1>5, <2>1 DEF Pass
  <2> QED
    BY <1>1, <2>1, <2>2
<1>7. ASSUME NEW end, Answer(end), end = selected[start], UNCHANGED <<len, selected>> PROVE CollectNext
  BY <1>1, <1>7, RefinesProbe DEF CollectNext
<1>8. CASE New
  BY <1>2, <1>3, <1>8 DEF New, CompileJob, collecting, collect_vars
<1>9. CASE Admit
  BY <1>2, <1>3, <1>9 DEF Admit, collecting, collect_vars
<1>10. CASE AllocationFails
  <2>1. job.engine = "rows" /\ status = "running" /\ reader = -1 => start = 0
    BY DEF ReaderInv
  <2> QED
    BY <1>1, <1>2, <1>3, <1>4, <1>10, <2>1 DEF AllocationFails
<1>11. CASE BuildRow
  BY <1>2, <1>4, <1>11 DEF BuildRow, Charged, input, collecting, collect_vars
<1>12. CASE ProbeTable
  <2> DEFINE value == Appended(start)[prog.entry]
  <2>1. AtProbe /\ Table /\ (Fail("work") \/ (Answer(value - 1) /\ UNCHANGED input))
    BY <1>12 DEF ProbeTable, Charged
  <2>2. Appended(start) = Rows[start]
    BY <1>1, <1>5, <1>6, <2>1, StoredValue
  <2>3. value - 1 = selected[start]
    BY <1>5, <1>6, <2>1, <2>2
  <2> HIDE DEF value
  <2> QED
    BY <1>2, <1>6, <1>7, <2>1, <2>3 DEF input
<1>13. ASSUME AtProbe, UNCHANGED input,
              Rows[start][prog.entry] # 0 => UNCHANGED <<status, collecting>>,
              Rows[start][prog.entry] = 0 => Answer(NoMatch)
       PROVE  CollectNext \/ UNCHANGED collect_vars
  <2>1. CASE Rows[start][prog.entry] # 0
    BY <1>13, <2>1 DEF input, collecting, collect_vars
  <2>2. CASE Rows[start][prog.entry] = 0
    <3>1. Rows[start][prog.entry] - 1 = selected[start]
      BY <1>5, <1>6, <1>13
    <3>2. NoMatch = selected[start]
      BY <2>2, <3>1 DEF NoMatch
    <3> QED
      BY <1>7, <1>13, <2>2, <3>2 DEF input
  <2> QED
    BY <2>1, <2>2
<1>14. CASE ProbeLog
  <2>1. AtProbe /\ job.engine = "log" /\ (Fail("work") \/ (ProbeRoot(RootIndex(start) \in store) /\ UNCHANGED input))
    BY <1>14 DEF ProbeLog, Charged
  <2>2. RootIndex(start) \in store <=> Rows[start][prog.entry] # 0
    BY <1>1, <1>5, <1>6, <2>1, StoredValue
  <2>3. CASE Fail("work")
    BY <1>2, <1>6, <2>1, <2>3
  <2>4. CASE ProbeRoot(RootIndex(start) \in store) /\ UNCHANGED input
    <3>1. /\ Rows[start][prog.entry] # 0 => UNCHANGED <<status, collecting>>
          /\ Rows[start][prog.entry] = 0 => Answer(NoMatch)
      BY <2>2, <2>4 DEF ProbeRoot
    <3> QED
      BY <1>13, <2>1, <2>4, <3>1
  <2> QED
    BY <2>1, <2>3, <2>4
<1>15. CASE ProbeRows
  <2>1. /\ AtProbe /\ job.engine = "rows"
        /\ Fail("log") \/ Fail("work") \/ (ProbeRoot(SplitCount \in Appended(start)) /\ UNCHANGED input)
    BY <1>15 DEF ProbeRows, Charged
  <2>2. SplitCount \in Appended(start) <=> Rows[start][prog.entry] # 0
    BY <1>1, <1>5, <1>6, <2>1, StoredValue
  <2>3. CASE Fail("log") \/ Fail("work")
    BY <1>2, <1>6, <2>1, <2>3
  <2>4. CASE ProbeRoot(SplitCount \in Appended(start)) /\ UNCHANGED input
    <3>1. /\ Rows[start][prog.entry] # 0 => UNCHANGED <<status, collecting>>
          /\ Rows[start][prog.entry] = 0 => Answer(NoMatch)
      BY <2>2, <2>4 DEF ProbeRoot
    <3> QED
      BY <1>13, <2>1, <2>4, <3>1
  <2> QED
    BY <2>1, <2>3, <2>4
<1>16. CASE ReplayMatch
  <2>1. /\ status = "running" /\ phase = "replay" /\ prog.code[pc].op = "match"
        /\ Fail("work") \/ (Answer(at) /\ UNCHANGED input)
    BY <1>16 DEF ReplayMatch, Replaying, Charged
  <2>2. /\ start \in 0..len /\ at \in 0..len /\ pc \in 1..States
        /\ Rows[at][pc] = Rows[start][prog.entry]
    BY <1>1, <1>5, <2>1 DEF Pass, Stored, Loop
  <2>3. Rows[at][pc] = at + 1
    <3>1. Rows[at][pc] = Evaluate(prog.code[pc], Rows[at], Rows[at + 1], hay, at)
      BY <1>1, <1>5, <2>1, <2>2, RowsType
    <3> QED
      BY <2>1, <3>1 DEF Evaluate
  <2>4. Rows[start][prog.entry] - 1 = selected[start]
    BY <1>5, <2>1, <2>2
  <2>5. at = selected[start]
    BY <2>2, <2>3, <2>4
  <2> QED
    BY <1>2, <1>4, <1>7, <2>1, <2>5 DEF input
<1>17. CASE ReplayStep
  BY <1>2, <1>4, <1>17 DEF ReplayStep, Replaying, Charged, input, collecting, collect_vars
<1>18. CASE Finish
  BY <1>18 DEF Finish, CollectNext
<1>19. ~(ProbeGuarded \/ Solve \/ Solved)
  BY <1>1 DEF ProbeGuarded, Solve, Solved, Product
<1> QED
  BY <1>8, <1>9, <1>10, <1>11, <1>12, <1>14, <1>15, <1>16, <1>17, <1>18, <1>19 DEF Step

\* The guarded executor.
LEMMA RefinesGuarded ==
  ASSUME LabInv, GuardInv, MemoInv, Guarded, Step
  PROVE  CollectNext \/ UNCHANGED collect_vars
<1>1. /\ Inputs /\ Loop /\ len \in Nat
      /\ phase \in {"new", "compiled", "collect", "solve"}
      /\ phase \in {"new", "compiled"} => start <= len
  BY DEF LabInv, Inputs, GuardInv
<1>2. ASSUME NEW reason, Fail(reason), status = "running", start <= len PROVE CollectNext
  BY <1>2, RefinesFail DEF CollectNext
<1>3. ASSUME status = "running", phase \in {"collect", "solve"}, start <= len,
             stack = <<>>, Root \in DOMAIN memo
      PROVE  memo[Root] = selected[start]
  <2>1. Solving /\ Determined /\ Remembered
    BY <1>3 DEF GuardInv, MemoInv
  <2>2. start \in 0..len
    BY <1>1, <1>3 DEF Loop
  <2>3. Verdicts[Root] = selected[start]
    BY <2>1, <2>2 DEF Determined, Root
  <2>4. memo[Root] # Visiting
    BY <1>3, <2>1 DEF Solving
  <2> QED
    BY <1>3, <2>1, <2>3, <2>4 DEF Remembered
<1>4. ASSUME NEW end, Answer(end), end = selected[start], UNCHANGED <<len, selected>> PROVE CollectNext
  BY <1>1, <1>4, RefinesProbe DEF CollectNext
<1>5. CASE New
  BY <1>1, <1>2, <1>5 DEF New, CompileJob, collecting, collect_vars
<1>6. CASE Admit
  BY <1>1, <1>2, <1>6 DEF Admit, collecting, collect_vars
<1>7. CASE AllocationFails
  BY <1>1, <1>2, <1>7 DEF AllocationFails, Guarded
<1>8. CASE ProbeGuarded
  <2>1. /\ status = "running" /\ start <= len /\ phase = "collect"
        /\ \/ Fail("work")
           \/ Root \in DOMAIN memo /\ Answer(memo[Root]) /\ UNCHANGED input
           \/ UNCHANGED <<input, collecting, status>>
    BY <1>8 DEF ProbeGuarded, AtProbe, Probing, Charged, Known
  <2>2. stack = <<>>
    BY <2>1 DEF GuardInv, Solving
  <2> QED
    BY <1>2, <1>3, <1>4, <2>1, <2>2 DEF input, collecting, collect_vars
<1>9. CASE Solve
  <2>1. status = "running" /\ phase = "solve"
    BY <1>9 DEF Solve
  <2>2. start <= len
    BY <2>1 DEF GuardInv, Solving
  <2>3. (\E reason \in {"cycle", "work"} : Fail(reason)) \/ UNCHANGED <<input, collecting, status>>
    BY <1>9, Zenon DEF Solve, Charged
  <2> QED
    BY <1>2, <2>1, <2>2, <2>3 DEF input, collecting, collect_vars
<1>10. CASE Solved
  <2>1. /\ status = "running" /\ phase = "solve" /\ stack = <<>>
        /\ Answer(memo[Root]) /\ UNCHANGED input
    BY <1>10 DEF Solved
  <2>2. start <= len /\ Root \in DOMAIN memo
    BY <2>1 DEF GuardInv, Solving
  <2> QED
    BY <1>3, <1>4, <2>1, <2>2 DEF input
<1>11. CASE Finish
  BY <1>11 DEF Finish, CollectNext
<1>12. ~(BuildRow \/ ProbeTable \/ ProbeLog \/ ProbeRows \/ ReplayMatch \/ ReplayStep)
  BY <1>1 DEF BuildRow, ProbeTable, ProbeLog, ProbeRows, ReplayMatch, ReplayStep, Replaying, Table, Guarded
<1> QED
  BY <1>5, <1>6, <1>7, <1>8, <1>9, <1>10, <1>11, <1>12 DEF Step

LEMMA RefinesNext ==
  LabInv /\ ValuesInv /\ GuardInv /\ MemoInv /\ ReaderInv /\ [Next]_vars => [CollectNext]_collect_vars
<1> SUFFICES ASSUME LabInv, ValuesInv, GuardInv, MemoInv, ReaderInv, [Next]_vars
             PROVE  CollectNext \/ UNCHANGED collect_vars
  OBVIOUS
<1>1. CASE Step
  BY <1>1, RefinesProduct, RefinesGuarded
<1>2. CASE Returned \/ UNCHANGED vars
  BY <1>2 DEF Returned, vars, input, collecting, collect_vars
<1> QED
  BY <1>1, <1>2 DEF Next

\* Every executor drives collect_sequence with exactly the matches that the
\* expression selects, whatever table, log, record or memo it answers from.
THEOREM LabImplements == Spec => ImplementsCollect
<1>1. Init => CollectInit
  BY RefinesInit
<1>2. LabInv /\ ValuesInv /\ GuardInv /\ MemoInv /\ ReaderInv /\ [Next]_vars => [CollectNext]_collect_vars
  BY RefinesNext
<1> QED
  BY <1>1, <1>2, LabInvariance, ValuesInvariance, GuardInvariance, MemoInvariance, ReaderInvariance, PTL
     DEF Spec, ImplementsCollect, CollectSpec

\* So each of the five delivers the sequence of MatchSequence, within two
\* probes and one match for each boundary.
THEOREM LabDelivers == Spec => ImplementsSequence /\ []AdmissionSuffices
<1>1. CollectSpec => ImplementsSequence
  BY CollectImplements
<1>2. CollectSpec => []AdmissionSuffices
  BY CollectAdmission
<1>3. Spec => CollectSpec
  BY LabImplements DEF ImplementsCollect
<1> QED
  BY <1>1, <1>2, <1>3
==============================================================================
