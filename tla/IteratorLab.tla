----------------------------- MODULE IteratorLab -----------------------------
(***************************************************************************)
(* One whole-haystack operation of the iterator laboratory, by any of its  *)
(* five executors:                                                         *)
(*   "full"     find_all_full_dp: a table of every (state, boundary);      *)
(*   "log"      find_all_decision_log: two rows and a packed bit log that  *)
(*              is replayed from each successful start;                    *)
(*   "rows"     find_all_sequential_row_log: the same decisions as fixed   *)
(*              records that are read strictly backward;                   *)
(*   "guarded"  find_all_guarded_dp: a memo over states, boundaries and    *)
(*              saved positions, filled by an explicit stack;              *)
(*   "oracle"   find_all_oracle: a fresh table for every search.           *)
(* The first three and the oracle run the product program, the guarded     *)
(* executor its own.  All share the loop of CollectSequence.               *)
(*                                                                         *)
(* The front end is a parameter: LabCompile defines what an expression     *)
(* selects, whether it is accepted, and both compilers.                    *)
(*                                                                         *)
(* Instructions are numbered from 1, boundaries from 0.  A row maps each   *)
(* instruction to 0, or to 1 + the end of the match it leads to.           *)
(***************************************************************************)
EXTENDS CollectSequence, FiniteSets, SequencesExt

CONSTANTS
    Expressions, Haystacks, Engines,
    Selects(_, _),        \* Ast: start -> end of the match selected, or NoMatch
    Accepts(_),           \* validate_ast
    Compiles(_, _),       \* guarded or not: the code, its entry, its guards
    Orders(_),            \* epsilon_order
    WorkSlack,            \* how far max_work may lie from the admitted bound
    MaxStates, MaxGuards  \* CompileLimits

AllEngines == {"full", "log", "rows", "guarded", "oracle"}

\* A selection covers every start and ends no match before it begins.
ASSUME SelectionAssumption ==
    \A e \in Expressions, h \in Haystacks : LET ends == Selects(e, h) IN
        /\ Len(h) \in 0..MaxLen
        /\ ends \in [0..Len(h) -> NoMatch..Len(h)]
        /\ \A i \in 0..Len(h) : ends[i] = NoMatch \/ ends[i] >= i

ASSUME InputAssumption == Engines \subseteq AllEngines /\ WorkSlack \subseteq Int

\* The successors that an instruction of the kind has.
Arity(op) ==
    CASE op = "match" -> 0
      [] op \in {"split", "check"} -> 2
      [] OTHER -> 1

\* Every successor is an instruction of the program.
Executable(b) ==
    /\ Len(b.code) \in Nat
    /\ DOMAIN b.code = 1..Len(b.code)
    /\ b.at \in DOMAIN b.code
    /\ b.guards \in Nat
    /\ \A i \in DOMAIN b.code : b.code[i].to \in [1..Arity(b.code[i].op) -> DOMAIN b.code]

\* No instruction is repeated, and none precedes a successor that it reaches
\* without reading a byte.
Topological(code, order) ==
    /\ order \in Seq(DOMAIN code)
    /\ \A j, k \in DOMAIN order : order[j] = order[k] => j = k
    /\ \A k \in DOMAIN order :
        LET inst == code[order[k]]
        IN  inst.op # "byte" =>
                \A n \in DOMAIN inst.to : \E j \in 1..(k - 1) : order[j] = inst.to[n]

ASSUME CompilerAssumption ==
    \A e \in Expressions : Accepts(e) =>
        LET product == Compiles(FALSE, e)
            guarded == Compiles(TRUE, e)
        IN  /\ Executable(product) /\ Executable(guarded)
            /\ Topological(product.code, Orders(product.code))

VARIABLES
    job,        \* the expression, the haystack and the executor
    phase,      \* "new", "compiled", "build", "collect", "replay" or "solve"
    prog,       \* the program: code, entry, guards, order
    limit,      \* limits.max_work
    work,       \* Accounting::total_work
    row, next_row, position,   \* the pass over the boundaries, right to left
    store,      \* the table, the packed bits, or the records
    reader,     \* boundary of the record in the row reader's buffer, or -1
    pc, at,     \* replay of one match
    memo, stack,   \* GuardSolver
    error       \* why the operation failed

input == <<job, len, selected, limit, prog>>
building == <<row, next_row, position, store>>
replaying == <<pc, at, reader>>
solving == <<memo, stack>>
collecting == <<start, previous_end, matches, probes>>
vars == <<input, phase, work, building, replaying, solving, error, collecting, status>>

hay == job.hay
Boundaries == len + 1

Init ==
    /\ \E e \in Expressions, h \in Haystacks :
        /\ selected = Selects(e, h)
        /\ len = Len(h)
        /\ job \in [ast : {e}, hay : {h}, engine : Engines]
    /\ phase = "new"
    /\ prog = [code |-> <<>>, entry |-> 0, guards |-> 0, order |-> <<>>]
    /\ limit = 0 /\ work = 0
    /\ row = <<>> /\ next_row = <<>> /\ position = 0
    /\ store = IF job.engine = "log" THEN {} ELSE <<>>
    /\ reader = -1 /\ pc = 0 /\ at = 0
    /\ memo = <<>> /\ stack = <<>>
    /\ error = "none"
    /\ start = 0 /\ previous_end = -1 /\ matches = <<>> /\ probes = 0
    /\ status = "running"

\* An error ends the operation; the matches found so far are not returned.
Fail(reason) ==
    /\ status' = "failed"
    /\ error' = reason
    /\ UNCHANGED <<input, phase, work, building, replaying, solving, collecting>>

\* Accounting::charge_total, then the step.
Charged(n, Step) ==
    IF work + n > limit THEN Fail("work") ELSE work' = work + n /\ Step

-----------------------------------------------------------------------------
(* CompiledRegex::new and GuardedRegex::new.                               *)

Guarded == job.engine = "guarded"

CompileJob ==
    LET b == Compiles(Guarded, job.ast)
        order == IF Guarded THEN <<>> ELSE Orders(b.code)
    IN  IF Len(b.code) > MaxStates \/ b.guards > MaxGuards THEN Fail("limit")
        ELSE IF ~Guarded /\ Len(order) # Len(b.code) THEN Fail("cycle")
        ELSE /\ prog' = [code |-> b.code, entry |-> b.at, guards |-> b.guards, order |-> order]
             /\ phase' = "compiled"
             /\ UNCHANGED <<job, len, selected, limit, work, building, replaying, solving, error, collecting, status>>

New ==
    /\ status = "running"
    /\ phase = "new"
    /\ IF Accepts(job.ast) THEN CompileJob ELSE Fail("invalid")

-----------------------------------------------------------------------------
(* Admission: the whole work is bounded before any of it is done.          *)

States == Len(prog.code)

\* One unit for a state and one for each of its transitions.
Units(i) == {i} \X (0..Len(prog.code[i].to))

\* maximum_build_work.
BuildWork == Boundaries * Cardinality(UNION {Units(i) : i \in 1..States})

Radix(h) == Len(h) + 2

\* checked_pow multiplies once for each unit of the exponent.
Power(base, exponent) ==
    LET result[k \in 0..exponent] == IF k = 0 THEN 1 ELSE result[k - 1] * base
    IN  result[exponent]

GuardSpace == Power(Radix(hay), prog.guards)
Cells == States * Boundaries * GuardSpace

RootWork == 2 * Boundaries

\* Bug: the admission allows for one visit of each state and boundary.
ReplayWorkOnce == States * Boundaries

\* Replays may meet at a boundary.
ReplayWork == 4 * States * Boundaries

MaximumWork ==
    CASE job.engine = "full"    -> BuildWork + RootWork
      [] job.engine = "oracle"  -> BuildWork * (2 * Boundaries + 1) + RootWork
      [] job.engine = "guarded" -> 3 * Cells + RootWork
      [] OTHER                  -> BuildWork + RootWork + ReplayWork

Zeros == [i \in 1..States |-> 0]

\* The configured limit is an input that is read here for the first time.
Admit ==
    /\ status = "running"
    /\ phase = "compiled"
    /\ \E slack \in WorkSlack :
        IF slack < 0 THEN Fail("limit")
        ELSE /\ limit' = MaximumWork + slack
             /\ phase' = IF Guarded THEN "collect" ELSE "build"
             /\ row' = Zeros /\ next_row' = Zeros
             /\ position' = len
             /\ UNCHANGED <<job, len, selected, prog, work, store, replaying, solving, error, collecting, status>>

\* Some reservation is refused by the allocator: while compiling, on
\* admission, for a further table of the oracle, for the reader's buffer.
AllocationFails ==
    /\ status = "running"
    /\ \/ phase \in {"new", "compiled"}
       \/ job.engine = "oracle" /\ phase = "build" /\ position = len
       \/ job.engine = "rows" /\ phase = "collect" /\ reader = -1
    /\ Fail("allocation")

-----------------------------------------------------------------------------
(* The pass over the boundaries, from the last to the first.               *)

Reads(byte, h, p) == p < Len(h) /\ byte \in {"any", h[p + 1]}

\* Does the instruction let a match go on at boundary p?
Passes(inst, h, p) ==
    CASE inst.op = "byte"  -> Reads(inst.arg, h, p)
      [] inst.op = "start" -> p = 0
      [] inst.op = "end"   -> p = Len(h)
      [] OTHER             -> TRUE

\* One state in the row of boundary p; this is the row so far.
Evaluate(inst, this, next, h, p) ==
    IF inst.op = "match" THEN p + 1
    ELSE IF ~Passes(inst, h, p) THEN 0
    ELSE CASE inst.op = "byte"  -> next[inst.to[1]]
           [] inst.op = "split" -> IF this[inst.to[1]] # 0 THEN this[inst.to[1]]
                                   ELSE this[inst.to[2]]
           [] OTHER             -> this[inst.to[1]]

\* Bug: the states are evaluated in the order of their numbers.
RowOrderByNumber == [k \in 1..States |-> k]

RowOrder == prog.order

\* One state more of the row of boundary p; the splits that took their
\* preferred successor; the work charged.
RowStep(acc, i, next, p) ==
    LET inst == prog.code[i]
        prefers == inst.op = "split" /\ acc.row[inst.to[1]] # 0
    IN  [row  |-> [acc.row EXCEPT ![i] = Evaluate(inst, acc.row, next, hay, p)],
         took |-> IF prefers THEN acc.took \cup {i} ELSE acc.took,
         work |-> acc.work + 1 + (IF prefers THEN 1 ELSE Len(inst.to))]

\* The row in epsilon order, over what the buffer held before.
RowAt(old, next, p) ==
    LET acc[k \in 0..Len(RowOrder)] ==
            IF k = 0 THEN [row |-> old, took |-> {}, work |-> 0]
            ELSE RowStep(acc[k - 1], RowOrder[k], next, p)
    IN  acc[Len(RowOrder)]

SplitCount == Cardinality({i \in 1..States : prog.code[i].op = "split"})
SplitRank(i) == Cardinality({j \in 1..(i - 1) : prog.code[j].op = "split"})

\* BitLog: decisions boundary by boundary, and the roots behind all of them.
DecisionIndex(p, i) == p * SplitCount + SplitRank(i)

\* Bug: the decisions of the last boundary are not counted.
RootIndexEarly(p) == SplitCount * len + p

RootIndex(p) == SplitCount * Boundaries + p

\* The decisions of one boundary: the bits set in the packed log, or the
\* record whose last bit is the root.
LogBits(r, p) ==
    {DecisionIndex(p, i) : i \in r.took}
        \cup (IF r.row[prog.entry] # 0 THEN {RootIndex(p)} ELSE {})
Record(r) ==
    {SplitRank(i) : i \in r.took}
        \cup (IF r.row[prog.entry] # 0 THEN {SplitCount} ELSE {})

Table == job.engine \in {"full", "oracle"}

\* A table starts zeroed; the two rows are swapped and keep old values.
BuildRow ==
    /\ status = "running"
    /\ phase = "build"
    /\ LET r == RowAt(IF Table THEN Zeros ELSE row, next_row, position)
       IN  Charged(r.work,
            /\ next_row' = r.row
            /\ row' = next_row
            /\ store' = CASE job.engine = "log"  -> store \cup LogBits(r, position)
                          [] job.engine = "rows" -> Append(store, Record(r))
                          [] OTHER               -> Append(store, r.row)
            /\ position' = position - 1
            /\ phase' = IF position = 0 THEN "collect" ELSE "build"
            /\ UNCHANGED <<input, replaying, solving, error, collecting, status>>)

\* Boundary p was the last but p to be appended.
Appended(p) == store[Len(store) - p]

-----------------------------------------------------------------------------
(* Probing a start.                                                        *)

AtProbe == Probing /\ phase = "collect"

\* The oracle searches again in a new table after every match.
NextSearch(found) ==
    IF job.engine = "oracle" /\ found /\ start' <= len
    THEN /\ phase' = "build"
         /\ row' = Zeros /\ next_row' = Zeros
         /\ position' = len
         /\ store' = <<>>
    ELSE phase' = "collect" /\ UNCHANGED building

\* Accounting::emit has refused the match.
Refusal == error' = IF status' = "failed" THEN "output" ELSE error

ProbeTable ==
    /\ AtProbe
    /\ Table
    /\ LET value == Appended(start)[prog.entry]
       IN  Charged(1, /\ Answer(value - 1)
                      /\ NextSearch(value # 0)
                      /\ Refusal
                      /\ UNCHANGED <<input, replaying, solving>>)

\* A start without a root bit is a miss, otherwise its match is replayed.
ProbeRoot(root) ==
    IF root
    THEN /\ phase' = "replay"
         /\ pc' = prog.entry
         /\ at' = start
         /\ UNCHANGED <<status, error, collecting>>
    ELSE /\ Answer(NoMatch)
         /\ UNCHANGED <<phase, pc, at, error>>

ProbeLog ==
    /\ AtProbe
    /\ job.engine = "log"
    /\ Charged(1, /\ ProbeRoot(RootIndex(start) \in store)
                  /\ UNCHANGED <<input, building, solving, reader>>)

\* ReverseRowReader::ensure never goes back.
ProbeRows ==
    /\ AtProbe
    /\ job.engine = "rows"
    /\ IF start < reader /\ work < limit THEN Fail("log")
       ELSE Charged(1, /\ ProbeRoot(SplitCount \in Appended(start))
                       /\ reader' = start
                       /\ UNCHANGED <<input, building, solving>>)

-----------------------------------------------------------------------------
(* Replaying the logged decisions of one match.                            *)

Decision ==
    IF job.engine = "rows" THEN SplitRank(pc) \in Appended(at)
    ELSE DecisionIndex(at, pc) \in store

Replaying == status = "running" /\ phase = "replay"

ReplayMatch ==
    /\ Replaying
    /\ prog.code[pc].op = "match"
    /\ Charged(1, /\ Answer(at)
                  /\ Refusal
                  /\ phase' = "collect"
                  /\ UNCHANGED <<input, building, replaying, solving>>)

ReplayStep ==
    /\ Replaying
    /\ prog.code[pc].op # "match"
    /\ LET inst == prog.code[pc]
           reads == job.engine = "rows" /\ inst.op = "split"
           invalid == ~Passes(inst, hay, at) \/ (reads /\ at < reader)
       IN  IF invalid /\ work < limit THEN Fail("log")
           ELSE Charged(1,
                /\ pc' = IF inst.op # "split" \/ Decision THEN inst.to[1] ELSE inst.to[2]
                /\ at' = IF inst.op = "byte" THEN at + 1 ELSE at
                /\ reader' = IF reads THEN at ELSE reader
                /\ UNCHANGED <<input, phase, building, solving, error, collecting, status>>)

-----------------------------------------------------------------------------
(* GuardSolver::solve.  A configuration is <<pc, position, guard code>>;   *)
(* the code holds one digit for each guard, Boundaries when never saved.   *)

Visiting == -2
Failure == -1

ReadGuard(h, saves, g) == (saves \div Power(Radix(h), g)) % Radix(h)
WriteGuard(h, saves, g, p) ==
    LET factor == Power(Radix(h), g)
    IN  saves - ReadGuard(h, saves, g) * factor + p * factor

Root == <<prog.entry, start, GuardSpace - 1>>

\* The children of a configuration that lets a match go on.
Children(inst) == IF inst.op = "split" THEN 2 ELSE 1

Child(code, h, c, n) ==
    LET inst == code[c[1]]
        saved == ReadGuard(h, c[3], inst.arg)
    IN  CASE inst.op = "byte"  -> <<inst.to[1], c[2] + 1, c[3]>>
          [] inst.op = "save"  -> <<inst.to[1], c[2], WriteGuard(h, c[3], inst.arg, c[2])>>
          [] inst.op = "check" -> <<IF c[2] > saved THEN inst.to[1] ELSE inst.to[2], c[2], c[3]>>
          [] OTHER             -> <<inst.to[n], c[2], c[3]>>

\* CheckProgress without a saved position, or behind it.
Unguarded(code, h, c) ==
    /\ code[c[1]].op = "check"
    /\ LET saved == ReadGuard(h, c[3], code[c[1]].arg)
       IN  saved = Len(h) + 1 \/ c[2] < saved

Known(c) == c \in DOMAIN memo

ProbeGuarded ==
    /\ AtProbe
    /\ Guarded
    /\ Charged(1,
        IF Known(Root)
        THEN /\ Answer(memo[Root])
             /\ Refusal
             /\ UNCHANGED <<input, phase, building, replaying, solving>>
        ELSE /\ phase' = "solve"
             /\ stack' = <<[config |-> Root, next |-> 1]>>
             /\ UNCHANGED <<input, building, replaying, memo, error, collecting, status>>)

Remember(c, value) ==
    [x \in {c} \cup DOMAIN memo |-> IF x = c THEN value ELSE memo[x]]

\* The frame on top has its value.
Pop(c, value) ==
    /\ memo' = Remember(c, value)
    /\ stack' = Front(stack)

\* What the child of the frame on top is known to be.
Inspect(c, n, child) ==
    CASE ~Known(child) ->
            /\ memo' = Remember(c, Visiting)
            /\ stack' = Append(stack, [config |-> child, next |-> 1])
      [] Known(child) /\ memo[child] = Failure ->
            /\ memo' = Remember(c, Visiting)
            /\ stack' = [stack EXCEPT ![Len(stack)].next = n + 1]
      [] OTHER -> Pop(c, memo[child])

\* A child that is being visited, or a stack as deep as the table has
\* configurations, which push refuses as a limit and only a cycle could need.
Cyclic(c, child) ==
    \/ child = c
    \/ Known(child) /\ memo[child] = Visiting
    \/ ~Known(child) /\ Len(stack) >= Cells

Solve ==
    /\ status = "running"
    /\ phase = "solve"
    /\ stack # <<>>
    /\ LET top == Last(stack)
           c == top.config
           inst == prog.code[c[1]]
           ends == inst.op = "match"
           fails == ~Passes(inst, hay, c[2]) \/ top.next > Children(inst)
           child == Child(prog.code, hay, c, top.next)
           first == IF Known(c) THEN 0 ELSE 1
           cost == IF ends \/ fails THEN first ELSE first + 1
           cycle == \/ Unguarded(prog.code, hay, c) /\ work + first <= limit
                    \/ Cyclic(c, child) /\ work + cost <= limit
       IN  IF ~ends /\ ~fails /\ cycle THEN Fail("cycle")
           ELSE Charged(cost,
                    /\ IF ends THEN Pop(c, c[2])
                       ELSE IF fails THEN Pop(c, Failure)
                       ELSE Inspect(c, top.next, child)
                    /\ UNCHANGED <<input, phase, building, replaying, error, collecting, status>>)

Solved ==
    /\ status = "running"
    /\ phase = "solve"
    /\ stack = <<>>
    /\ Answer(memo[Root])
    /\ Refusal
    /\ phase' = "collect"
    /\ UNCHANGED <<input, work, building, replaying, solving>>

-----------------------------------------------------------------------------

Finish ==
    /\ phase = "collect"
    /\ Stop
    /\ UNCHANGED <<job, limit, prog, phase, work, building, replaying, solving, error>>

Returned == status # "running" /\ UNCHANGED vars

Step ==
    \/ New \/ Admit \/ AllocationFails
    \/ BuildRow
    \/ ProbeTable \/ ProbeLog \/ ProbeRows \/ ProbeGuarded
    \/ ReplayMatch \/ ReplayStep
    \/ Solve \/ Solved
    \/ Finish

Next == Step \/ Returned

Spec == Init /\ [][Next]_vars

-----------------------------------------------------------------------------

\* No executor runs into its own consistency checks: no same-boundary cycle
\* (compile.rs, guarded.rs), no decision that cannot be replayed and no
\* record behind the reader (decision_log.rs, sequential_log.rs).
NoInternalError == error \notin {"cycle", "log"}

\* An operation that was admitted is never refused work: the bound computed
\* by find_all_full_dp, find_all_oracle, admit_log and admit_row_log covers
\* everything the executor then charges.  Not so GuardedRegex::admit: it counts
\* three units for a configuration, and a split whose two children have yet to
\* be solved is charged five.
AdmittedFinishes == ~Guarded => error # "work"

\* Every executor drives collect_sequence with the matches that the
\* expression selects, whatever the compiler, table, log or memo it uses.
ImplementsCollect == CollectSpec

\* Every match delivered is the one that the expression selects at its start:
\* leftmost-first as Ast describes it, with the exit of a lazy repetition
\* before a further iteration.
MatchesSelected ==
    \A k \in DOMAIN matches : matches[k].end = selected[matches[k].start]
==============================================================================
