# TLA+ models of fre

`fre` is a regex engine in Rust.  A pattern is parsed, lowered to an automaton,
classified into one of several execution families, and run by portable kernels,
by automata, or by machine code generated at run time (JIT) or ahead of time
(AOT).  Most of the repository is sequential and pure.  What is shared between
threads, has a life cycle, or is cut into calls that a caller strings together
sits in a few places, and these modules are about those places.

Paths below are relative to `src/crates/` unless they begin with `src/`.

## Inventory

### Parts with state, and what makes them correct

| Part | State | Operations | Hard behaviour | Correct when |
|---|---|---|---|---|
| JIT kernel cache, `fre-jit-cache/src/cache.rs` | resident entries, flights, weak live records, charges and peaks, event totals, LRU clock; one mutex, one condition variable; strong references held by matchers | `get_or_build` (look up, wait, evict, build, admit, refuse), clone and drop of a lease, the kernel's destructor, drop of the cache | destructors and notifications run outside the lock; builders fail and panic; eviction against live leases | one mapping per identity; leases callable; charges exact and within limits; admission reclaims what is idle and nothing else; no lost wake-up; every request returns, the one of a builder for its own identity included |
| Thread-owner slot, `fre-exact-alloc/src/lib.rs` | an atomic owner word and a cell | `try_checkout`, `try_insert`, `value_mut`, `take`, `commit`, drop of the guard | the owner comes back by load and store without compare-and-swap; guards are `Send`; a destructor may panic | one accessor; no reservation lost; nothing unfinished is handed out |
| Automaton workspace pool, `fre-automata/src/plan.rs`, sessions in `k0.rs` | a `OnceLock` pool with a lane (a thread-owner slot) and a fallback workspace behind a mutex | checkout (warm, lane, fallback, cold), publication, promotion, return, sessions and adoption | two threads publish at once; a workspace displaced on return; a session that travels; two workspaces alive during a promotion | no workspace shared; no `expect` fails; nothing runs outside its envelope; capability is not lost by success |
| Prepared-handle registry (C ABI), `fre-aot-regex-runtime/src/lib.rs` | token map, token counter, a mutex per handle with its poison flag, a one-entry thread-local cache | `prepare_v1`, `search_prepared_v1`, `destroy_prepared_v1`, thread exit | stale cached entries; destroy racing search; a panic under the mutex; tokens running out | no use after destroy; exactly one destroy succeeds; no program leaks; status codes are true |
| Match iteration, same file | the record `FreAotRegexIterStateV1`, kept by the caller | `fill_spans_exclusive_v1`; `PreparedAotMatches::next`; count and span-sum reducers | an iteration is cut at arbitrary places; empty matches; a failure in the middle of a refill | spans are the non-overlapping matches, none lost or doubled; every record is accepted again; every refill returns |
| Iterator laboratory, `fre-iterator-lab` | compiled programs, rows, packed and sequential decision logs, a memo table and solver stack, work accounting | two compilers; `find_all_oracle`, `_full_dp`, `_decision_log`, `_sequential_row_log`, `_guarded_dp`; the shared `collect_sequence` | work admitted in advance; reused buffers; a reader that cannot go back; memo entries of unfinished visits | all executors deliver the leftmost-first matches; what was admitted finishes; no internal error |
| JIT executable memory, `fre-jit-runtime` | a mapping that is reserved, writable, executable, gone; clones; current-thread sessions | publish in seven stages, clone, begin a session, call, drop | addresses are reused while the instruction cache holds old code; every stage may fail; vector length is a property of the thread | a call runs the audited image it was made for; every mapping has an owner; sessions fit |
| Supervised child processes, `src/tools/rust-regex-conformance/src/automata_corpus.rs` 3678-3923 | the child, its process group and pipes, two reader threads, a flag, timers | poll, time out, overflow, terminate, kill, reap, drain | descendants that keep pipes, ignore TERM, leave the group; signals that fail; a deadline racing an exit | returned output is complete; only a failed cleanup leaves something behind; the call returns |
| Promotion transaction, `src/tools/search-production-family-promotion/src/lib.rs` 2658-2707 | an output directory with four files | create, write, sync, mark | competing invocations; a process or the machine stops half way | a marker vouches for a complete directory |
| Start-filter proof cell, `fre-automata/src/plan.rs` 1040-1115 | a lazily published classification | publish, read | concurrent publication | planned |
| Exclusive sessions and operation sets, `fre-aot-regex-runtime` | direct pointers, native-row admission tickets | open, admit, settle, close | settlement on every exit path | planned |
| Static AOT registry, `fre-aot-static-runtime` | linked descriptors in `OnceLock` slots | validate, call | re-entrance, concurrent first use | planned |
| AOT object loader, `fre-aot-regex-loader` | loaded image and bindings | load, bind, call, unload | failure between two steps | planned |

The parts interact as follows.  Public searches (`fre`, `fre-capi`) borrow a
workspace from the automaton's pool, and the pool's lane is a thread-owner slot.
JIT matchers hold leases of the kernel cache; the cache calls the JIT runtime to
map and to unmap: `BuildPublished` and `Unmap` of `JitCache` are the `Publish` and
the last `Drop` of `KernelPublication`.  The C ABI of the AOT runtime finds a prepared program by its
token and searches it under the handle's mutex; exclusive entries skip the
registry and drive the match iteration with a record that the caller keeps.

### Parts that keep no state between calls

Syntax front ends, lowering, the reference engine, the kernel IR, portable and
SIMD kernels, aggregates, JIT back ends, AOT compilers and object writers, the
contracts, the capture and required-literal laboratories, the
conformance harness and target-feature detection are pure or batch code.  The
repository tests them differentially; their interesting inputs are far larger
than a bounded model can enumerate.  `PROJECT.json` lists each with its reason.
The one shared word of the facade, a relaxed bit set of disabled window
classes, only ever gains bits.

## Modules

| Module | What it is |
|---|---|
| `JitCache` | `CacheCore<C>`, one action per critical section or per effect between two |
| `KernelLifecycle` | abstract: the life of ONE identity, without locks, counters or reference counts |
| `JitCacheRefinement` | the cache implements `KernelLifecycle` for each identity |
| `JitCacheProofs` | theorems about `JitCache`, the refinement included |
| `OwnerSlot` | `ThreadOwnerSlot` and its guard, one action per atomic access |
| `OwnerLock` | abstract: a try-lock that remembers for whom it keeps its value |
| `OwnerSlotRefinement` | the slot implements `OwnerLock` |
| `OwnerSlotProofs` | theorems about `OwnerSlot`, the refinement included |
| `WorkspacePool` | `PooledWorkspacePool` and the checkouts and sessions over it; composes with the slot through `OwnerLock` |
| `WorkspacePoolProofs` | theorems about `WorkspacePool` |
| `PreparedRegistry` | the token registry of the C ABI |
| `PreparedRegistryProofs` | theorems about `PreparedRegistry` |
| `SpanFill` | a refill of spans with a caller-kept record |
| `SpanFillProofs` | theorems about `SpanFill` |
| `MatchSequence` | abstract: the non-overlapping leftmost matches of a selection, one step per match |
| `CollectSequence` | `collect_sequence` of the iterator laboratory, probe by probe; implements `MatchSequence` |
| `LabCompile` | both compilers of the laboratory and the epsilon order, as operators (recursive: TLC only) |
| `IteratorLab` | admission and the five executors, for any front end; extends `CollectSequence` with what answers its probes, and implements it |
| `LabContract` | what the executors rely on in the compilers, as assumptions on the programs they produce |
| `IteratorLabProofs` | theorems about `CollectSequence` and `IteratorLab`, both refinements included |
| `KernelPublication` | publication, sharing, sessions, calls and release of executable memory |
| `KernelPublicationProofs` | theorems about `KernelPublication` |
| `Supervisor` | a supervised command with its readers, deadline and cleanup |
| `PromotionTransaction` | `write_transaction` over a file system that may lose what is not synced |
| `ToolProofs` | theorems about `Supervisor` and `PromotionTransaction` |
| `MC...` | instances for TLC |

Definitions marked `Bug:` are faulty variants of the definition that follows
them; no specification uses them.  `PROJECT.json` names, for every checked
property, the variant under which TLC finds it violated.

### JitCache

`Request` enters `get_or_build`.  From label `lookup` a thread hits an entry or
a live record (`HitEntry`, `HitLive`), waits for a retiring kernel or a flight
(`WaitRetiring`, `WaitFlight`), refuses, or launches a flight, with an eviction
if the cache is full.  `Reenter` is a builder that asks the cache for the
identity it is building: its request goes through the same lookup, from label
`nested`, and what keeps it from waiting for the flight that it is itself to end
is the owner recorded in the flight (`RefuseReentrant` against `WaitFlight`).
Builders are publishers of this repository that do not call the cache, so a
builder that asks for another identity is left out.  `BuildPublished` and `BuildFailed` are the builder's
outcomes, a panic included; `DropCandidate` is a published kernel that a later
check rejects.  `Admit`, `AdmitEvict`, `AdmitRefuse` are the admission loop;
`FinishFailed` is `finish_failed`.  A reference is given up by `DropShared` or
`DropLast`; the last one unmaps (`Unmap`), releases the record under the lock
(`Release`) and notifies (`Notify`), each its own step because the code performs
them outside or after the lock.  `SpuriousWake` and `Rewake` model the condition
variable.  `DropCache` is the end of the last handle; kernels with users stay.
A kernel is named by its identity and its flight's generation (the code's token).
Strong counts are not stored: they are what the references of the state add up
to.  What admission reads of them under the lock may be stale when it drops the
entry it chose; `ReclaimsIdle` says what the choice is worth all the same.
`checked_sub_usage` saturates and clears `consistent`, as in the code.

### OwnerSlot and OwnerLock

`Load` and then `Reserve`, `Claim` or `Refuse` are `try_checkout`; between the
load and the second access any other step may happen.  `Move` hands the guard to
another thread.  `Commit` ends it; `DropClear`, `DropRelease` are the two effects
of `Drop`, and `DropPanics` a destructor that unwinds between them, after which
the word stays `InUse` for ever.  `value` is `dirty` while a transaction that has
not been committed has written the cell.

### WorkspacePool

The lane's `try_checkout` is one step, which `ImplementsLock` justifies and
`LaneIsLock` completes: every step of the pool on the lane is one of
`OwnerLock`.  `Probe`, `Warm`, `Claim` and the `Lane...` actions are the checkout
of the lane; `Candidate...` and `PutBack` the search for a stronger workspace in
the fallback while the lane's guard is held; `Promote...` the construction of a
replacement; `Fallback...`, `Cold...`, `Build`, `Publish` and `Reserve` the ways
around the lane.  `Commit`, `Abandon`, `Return`, `Swap`, `Put` end a checkout.
`OpenSession`, `CommitSession`, `RefreshSession`, `DropSession` and `Adopt` are
the sessions.  A search is one step that succeeds or is abandoned (an error or
an unwinding panic).  A workspace is a model value with a tier and a cost; one
resource stands for setup work and scratch bytes alike, since every comparison
of the code treats the two in the same way.  The width of the lazy cache is
dropped.  The error exits of `supports_selected_capabilities` are not modelled:
they come from a layout that was already computed when the workspace was built.

### PreparedRegistry

`Register` is `prepare_v1`'s insertion, `PrepareFails` every exit of it without
an insertion.  A search looks its token up (`CacheHit`, `CacheFill`, `CacheMiss`,
or `NoCache` after the thread-locals are gone), takes the handle's mutex with
`try_lock` (`TryLock`), looks at the state (`Enter`), and returns or panics.  A
destroy removes the entry from the map and leaves every thread's cached copy
where it is (`Remove`), blocks on the mutex (`DestroyLock`), and takes the program
out (`Take`).  Arguments that
are refused before any lookup change nothing and have no action.  Poisoning of
the registry's own mutex is not modelled: nothing panics while it is held.
`issued`, `destroyed` and `stale` are history and guard nothing.

### SpanFill

`Fill` checks the record and the capacity; the loop is `Fused`, `StopAtEnd`,
`NoneLeft`, `SearchFails`, `Suppress` (an empty match where the last one ended)
and `Emit`.  A compiled program is the function from a start to the end of the
match it prefers there.  Assertions see the whole haystack, so that function does
not depend on where a search begins.  TLC tries all such functions.

### CollectSequence and IteratorLab

A selection maps each start to the end of the match preferred there, or to none.
`Miss`, `Suppress` and `Emit` are the three ways a probe can go (`Answer` is their
choice), `TooMany` the refusal of `Accounting::emit`, `ProbeFails` any error of the
executor.  `IteratorLab` extends the module with the executor behind the probe:
its actions end in `Answer` with the end they computed, and `Finish` is `Stop`.  The
front end is a parameter (`Selects`, `Accepts`, `Compiles`, `Orders`), so that the
executors can be proved about without the recursive compilers; the configurations
give it the definitions of `LabCompile`.  `New` compiles an
expression with `CompiledRegex` or `GuardedRegex`, `Admit` computes the work bound,
`BuildRow` evaluates one boundary into the table, the bit log or a record of the
sequential log; `ProbeTable`, `ProbeLog`, `ProbeRows` and `ProbeGuarded` look at a
start; `ReplayStep` and `ReplayMatch` follow logged decisions; `Solve` is one round
of the guarded solver's loop and `Solved` its answer.  `Selection` in
`LabCompile` is the reference that fills `selected`: a backtracking matcher over the
expression itself, in priority order, that knows nothing of programs.  The limit on work is
chosen at admission relative to the computed bound, which is where the code reads
it first.  Other byte limits are one refusal (`Fail("limit")`), since all are
checked before work begins and lead to the same return.

`LabContract` states what the executors need of the programs they run, as
assumptions about code and haystacks that mention no execution.  `OrderAssumption`:
the epsilon order of a product program is complete.  `ScopeAssumption`: the guarded
program is built from nested loops, so that each check lies in the scope of its
own save and the code without the loops' back edges has a complete order.
`MeaningAssumption`: each program has values that satisfy its own instructions,
one equation for each state and boundary (`Solves`) or configuration (`Decided`),
and at the entry they are what the expression selects.  The contract says nothing
about rows that are reused, packed bits, records, memos, stacks or work.  TLC evaluates all
assumptions in `iterator_lab`, for every expression and haystack of the run, with
the witnesses of `MCIteratorLab` (`LoopScopes`, `ProductValues`,
`GuardedOutcomes`).  The expression of `lazy_bounded` breaks `MeaningAssumption`,
which is what its finding says; `MCLazyBounded` extends `IteratorLab` alone.

### KernelPublication

`Preflight`, `Reserve`, `MakeWritable`, `Copy`, `Verify`, `MakeExecutable`,
`Synchronize` and `Publish` are the stages of `publish_source` and its callers;
`ReserveFails` and `Abandon` the exits between them, the last of which is the check
of the finished mapping's entry, identity and call contract.  `memory` is what a range
holds and `fetchable` what an instruction fetch may yield: old content stays
fetchable until `Synchronize`, also across an unmapping and a new reservation.
`Copy` may go wrong, as `FailureInjection::CorruptCopy` makes it.  `Share` and
`Drop` are the clones of a kernel (borrowing, checked by the Rust compiler, keeps
a thread from dropping what it is calling).  `BeginSession` reads the thread's
vector length, for search kernels (`lib.rs:476`) and register kernels
(`selected_end_register_v2.rs:226`) alike; `SetVectorLength` is the host program, which per the comment on
`PublishedKernelThreadSession` gives up its session first.  Direct calls of
search kernels make no check of the length, and `SessionFits` claims nothing for
them.

### Supervisor

The polling loop is `LoadExceeded`, `Poll` or `PollFails`, `CheckDone`,
`CheckDeadline`, and `Join` at its end, which blocks until both readers have ended.  The cleanup is `SignalTerm`, `GracePoll`,
`GraceOver`, `SignalKill`, `Wait` or `WaitFails`, `Reaped`, and `Drained` or
`DrainOver`.  Processes fork, write, close their pipes, leave the group and exit
as they please; a `/bin/kill` may fail before or after it reached the group.
Each timed loop has one clock that turns `late` at any moment.

### PromotionTransaction

`CreateDirectory`, then for each file `CreateFile`, `WriteFile` and `SealFile`, then
`SyncDirectory`; `Stop` is an error or the death of the process at any of them.
`WriteBack` and `PowerLoss` are the file system: an entry survives if the directory
was synced or written back, content if the file was.

## Runs

| Run | Instance | Shows |
|---|---|---|
| `jit_cache_safety` | 3 threads, 2 identities, 1 cloned lease, 1 entry, 2 flights, 4 requests | unique mappings, covered mappings, no lost wake-up, limits, refinement of the life cycle |
| `jit_cache_liveness` | 2 threads, 3 identities, 2 entries, one kernel too large beside another, 3 requests | admission that reclaims cache-only mappings refuses only when nothing is idle, takes nothing that is in use, leaves every lease callable, keeps every counter exact and counts each request once; requests return, a builder's own included, flights end, retired kernels free their identity |
| `owner_slot` | 3 threads, 2 guards | exclusion, failing closed, refinement of the try-lock |
| `workspace_pool` | 2 threads, 4 workspaces of 3 tiers, 4 requests, 2 sessions | exclusion, `expect`s, lane discipline, envelopes, no downgrade by success |
| `failed_promotion` | the same with 1 session | a violation, see Findings |
| `prepared_registry` | 2 threads, 2 programs, 3 tokens | exclusion, no use after destroy, one successful destroy, no leak, true `STATUS_INVALID_HANDLE`; a destroy that removed its entry returns once searches stop |
| `span_fill` | haystack of 4 bytes, capacities 0 to 3 | the spans are the matches, records are accepted again, refills return |
| `iterator_lab` | 189 expressions, every haystack of up to 3 bytes over two letters, 5 executors, the least work that is admitted | all executors deliver what backtracking selects; the loop delivers the abstract sequence within two probes and one match per boundary; no internal error; admitted work suffices (all but the guarded executor) |
| `lazy_bounded` | one expression, one haystack | a violation, see Findings |
| `supervisor` | a command and a descendant, one byte allowed and two written per pipe | complete output, nothing left but by a failed cleanup, return |
| `kernel_publication` | 2 threads, 2 address ranges, 4 images of three kinds, one unsound | right code, owned mappings, fitting sessions |
| `promotion` | 2 invocations, power losses | a marker vouches for a complete directory |

### Bounds

`MaxRequests` ends the traffic on the cache; four requests of three threads are
enough for a builder, a waiter, and a request that meets a retiring kernel, with
one more to evict.  `MaxWaits` bounds spurious wake-ups through `wait_events`.
`MaxEntries` is one in the safety run so that every second identity evicts.
`Guards` bounds guards alive at once: the invariant allows one, so two suffice to
break it.  The pool's four workspaces are one per tier and a second of the
strongest, enough for an incumbent, a candidate, a replacement and a session; the
four requests are an ample envelope for two tiers, one without room beside an
incumbent, and one that admits the weakest tier only.  `TokenMax` stands for
`u64::MAX`; two threads are one that caches and one that destroys and prepares
anew, and all five safety properties are theorems for any number of threads and
programs.  The bound is small so that the counter runs out, and its last value is never
issued, as in the code.  A haystack of four bytes has room for a match, an empty
match at its end, a gap and the end of the input; a capacity of three cuts every
iteration at every place.  The laboratory's 189 expressions
over two letters are chosen by shape: every leaf, greedy and lazy stars over all
pairs of leaves, stars followed by a byte, stars in stars up to three deep with
nullable bodies, bounded repetitions, lists of atoms, and expressions that are
refused; lazy repetitions have at most one optional iteration (see
`lazy_bounded`).  Three bytes let a match, an empty match and a gap meet.
`CollectSequence` is checked with the selections of these expressions; its theorems
hold for every selection, and those of `IteratorLab` for every front end that
keeps the contract.  One
descendant is enough to outlive the command, hold one pipe or both and leave the
group; two bytes on a bound of one make each pipe complete, full and over.  Two
address ranges make one reusable while the other is in use.  Symmetry is used over
threads, invocations or the two equal workspaces in runs that check invariants and step properties only.

### Fairness

* `JitCache`: weak fairness of each thread's own steps inside a call.  The
  operating system schedules threads; builders terminate.  Requests, cloning,
  spurious wake-ups and the drop of the cache are not fair.  Nothing is assumed
  of the condition variable but that `notify_all` wakes whoever waits.
* `PreparedRegistry`: weak fairness of a call's next step.  The order in which a
  contended mutex is granted is free, so `DestroyReturns` is conditioned on
  searches coming to an end: with endless searches `std::sync::Mutex` promises
  nothing.
* `Supervisor`: the supervising thread runs, time passes, and a process that KILL
  has reached ends.  Nothing is assumed of the command, its descendants or the
  readers, and no call has to fail for the supervisor to get on (`CallFails` is
  not fair).  `Child::kill` of a command that was not reaped reaches it.
* `SpanFill`: weak fairness of the loop; a failing search is never needed to end
  a refill.

`jit_cache_liveness`, `supervisor` and `promotion` do not check deadlock: when the
bounded traffic, the call or the invocations are over the system may stop.

## Theorems

Every theorem holds for all values of the constants that satisfy the named
`ASSUME`s: reserved words are no threads, "none" values are not members, limits
and costs are natural numbers and a kernel costs one mapping; for the life cycle,
that a cloned lease is no thread (`ClientsAssumption`: both are users of a kernel
there, under one set of names).  No set of threads, identities, workspaces, guards,
programs or invocations is assumed to be finite.  All follow the
same scheme: `Init => Inv`, `Inv /\ [Next]_vars => Inv'`, `Inv` implies the
property.  An action property and a step of a refinement are proved from the
invariant of the state before it, one lemma per action or per group of actions
that touch the same part of the state.

* **`JitCacheProofs`.**  Type correctness needs that a thread in a build still
  has its request (`TypeInv`).  `Inv` adds what ties tables, threads and mappings
  together: flights correspond to building threads; an identity has a flight or a
  live record, never both; as long as the tables exist, whatever is referenced or
  being destroyed has its record; a kernel whose destructor runs is referenced by
  nobody and destroyed by one thread.  From it: `MappingUnique`, `LeaseSafety`,
  `MappingsCovered`; and with one more induction `WakeupSafety`, that a sleeping
  waiter always has a flight, a running destructor or a pending `notify_all`.

  *Accounting.*  The charged resources are sums over the live records, so
  `AccountingExact` first needs to know what adding or removing one kernel does to
  a sum over a finite set (`ChargedAdd`, `ChargedRemove`).  The sum is defined by a
  fold, and induction over finite sets is replaced by a smallest counterexample
  (`FiniteMinimal`): a family of subsets of a finite set has a minimal member, and
  a minimal set without an additive sum, or on which two recurrences differ, leads
  to a smaller one.  `Accounts` then says that every charge is its sum and every
  other counter the size of its table, and that `consistent` is still set (no
  subtraction ever saturated), for as long as the tables exist; it needs that no
  two entries hold one kernel (`EntriesDistinct`), so that an eviction takes one
  entry away.  `Classification` counts every request once, as a hit, a miss or
  not yet past its first round.
  A builder's own request counts like any other; that its lookup can only end in
  `ReentrantBuild` follows from `Inv` (`OuterLookup`): its flight keeps entries,
  records and other flights of the identity away.
  `LimitsHold` follows from exact charges: each guard of the code compares what is
  charged now, so a peak beyond a limit would need a charge that was not counted.

  *Life cycle.*  `CacheImplementsLifecycle` maps each identity to
  `KernelLifecycle`.  It needs that a thread that drops a kernel goes back to its
  build or to its caller (`ReturnsOK`), that nobody keeps two kernels in one place
  (`OneKernel`) and that a freed cache has empty tables (`FreedEmpty`).  A step for
  another identity leaves the abstract state alone (`StutterStep`, `QuietStep`); a
  drop is an abstract `Share` while somebody else still uses the kernel, and
  otherwise `Retire`, or `Leave` when the cache is gone (`DropSharedAction`,
  `DropLastAction`).

  *Reclamation.*  `ReclaimSound` (`ReclaimsIdle`) needs one more induction,
  `LiveKept`: as long as the tables exist, each charged kernel has a reference or
  the one destructor that is to release it.  So when no entry is cache-only, every
  charge is in somebody's hands, and an entry that is has no destructor.

* **`OwnerSlotProofs`.**  The word `InUse` stands for exactly one guard that has
  not ended.  Hence `SlotExclusive`, `SlotReservation`, `SlotFailsClosed`,
  `SlotSticky`, and `SlotImplementsLock`, that every step of the slot is a step of
  the try-lock or a stutter.
* **`WorkspacePoolProofs`.**  The invariant is `LaneExclusive` and `ExpectsHold`
  with two facts of publication: before it the lane is empty and unowned, and
  whoever is past the `OnceLock` knows the pool exists.  Three properties of steps need to know what a
  thread carries between them: at which places of a checkout it has a workspace in
  hand (`Hands`), and that what it selected, the lane's incumbent or a workspace of
  its own, was compared with its own envelope (`Admitted`), whatever other threads
  did meanwhile.  From these, `PoolWithinEnvelope`: no search starts in a
  workspace outside the envelope of its call, and a replacement or a candidate that
  runs beside the lane's incumbent fits beside it (`SelectedFits`, `FreshFits`,
  `ReplacementFits`).
  `PoolNeverDowngraded`: a workspace leaves the pool only if one at least as strong
  stays, or by one of the four steps that discard it (an abandoned search, a failed
  promotion, a session dropped or refreshed); a step that commits, `CommitSession`
  included, has no such excuse (`CommitCovers`, `SessionCovers`, `ElsewherePooled`,
  `CoveredBy`).
  `PoolLaneIsLock`: every step is a step of `OwnerLock` on the lane or leaves
  it alone (`LockStep`), given who is on the lane (`LaneForIs`).
* **`PreparedRegistryProofs`.**  A token is issued for one state and no other, so
  map, caches and running calls agree with it however old they are; an entry
  leaves the map once, and only the call that removed it empties the state.  Hence
  `RegistrySearchExclusive`, `RegistryNoUseAfterDestroy`, `RegistryDestroyOnce`,
  `RegistryNoLeak`, `RegistryInvalidIsTrue`.
* **`SpanFillProofs`.**  Every offset between the end of the last span and the
  next search holds no match, or the empty one that must not be repeated
  (`Behind`), and the record agrees with the spans written (`Record`).  Hence
  `FillFaithful`, `FillComplete`, `FillResumable`, `FillStatusIsState`,
  `FillStaysFinished`, for every haystack length, program, start and sequence of
  capacities.
* **`IteratorLabProofs`.**  *The loop.*  Nothing selectable lies between the last
  match and the next start but the empty match that must not be repeated, and each
  probe is paid for by a boundary passed or by the match before it.  Hence
  `CollectAdmission` and `CollectImplements`, for every length and selection.

  *Work.*  `LabAdmission` (`AdmittedFinishes`): a row costs at most one unit for
  each state and transition (`RowIsSound`), whatever the splits prefer, and `Paid`
  bounds the work by the rows built, the starts probed and, for the two logs,
  the boundaries that replays have crossed.  The last part is the one that is
  easily wrong: a replay descends in the epsilon order while it reads nothing
  (`PlaceDecreases`), so it visits a boundary at most once for each state, but
  replays of consecutive matches may share a boundary; since a start is probed at
  most twice, four visits of each state and boundary suffice.

  *Values.*  `ValuesInvariance`: the row that is computed over a buffer with old
  values is the only solution of the program's equations, because no state reads one
  that comes later in the order (`RowUnique`, `RowIsValue`); the bits of different
  boundaries, splits and roots do not collide in the packed log
  (`IndexInjective`); a replay holds the value of its start from instruction to
  instruction, so every instruction it meets can go on (`ValueStep`), and the
  reader is never asked for a record behind it.

  *The guarded solver.*  `GuardInvariance`: a guard code is a number with one
  digit for each guard, and saving a position changes that digit and no other
  (`DigitWritten`, `Guards`, over `Power`).  A child is further to the right, or
  has the same boundary and fewer stale loops (loops around it that were not
  begun anew at this boundary), or the same and a place further down the code
  without back edges (`Below`, `ChildBelow`).  The stack descends in this order,
  so no configuration is on it twice, a child is never one that is being
  visited, and by counting (`ConfigsCount`) a push always finds room.  With
  `ValuesInvariance` this gives `LabConsistency` (`NoInternalError`).
  `MemoInvariance`: what is remembered is what the program decides, because the
  children that a frame has passed over are failures (`Tried`).

  *Refinement.*  `LabImplements` maps every step of every executor to a step of the
  loop: an answer to `Probe` with the end that is selected at the start, an error
  to `ProbeFails`, the rest to stutters.  `LabDelivers` adds the loop's own
  theorems.

  What `RowAt` and `Power` compute is an induction; it is done with a least
  counterexample (`Least`, from the well-foundedness of inclusion on finite sets),
  which needs no schema over a predicate.
* **`KernelPublicationProofs`.**  Each stage of a publication owns its range alone
  with that stage's protection and content (`Staged`); a published range is
  executable, holds its image and nothing else can be fetched from it
  (`Callable`); sessions and calls are of clones their thread holds (`Borrowed`).
  Hence `PublicationRunsItsImage`, `PublicationMappedIsOwned` and
  `PublicationSessionFits`.
* **`ToolProofs`.**  A reader at the end of its pipe has read all that was
  written, and no live process holds the pipe, which no later fork can change
  (`EndIsFinal`); a reaped command has ended (`ReapedEnded`); a result other than an
  error of the readers or the cleanup means that both have ended
  (`ResultReaders`).  Hence `SupervisorOkComplete` and `SupervisorNothingLeft`.

  Of the promotion: whoever created the directory writes in it alone, and not
  after a power loss (`OneWriter`); the files behind its place are its own,
  complete and synced, and the later ones do not exist (`Progress`).  `CommitIsWhole`
  alone is not inductive, since a power loss keeps what is durable and not what is
  complete; the strengthening is that an invocation that has returned left all of
  its files durable, their entries included (`ReturnedDurable`).  Hence
  `PromotionCommitIsWhole`.

The type invariants, and the slot's stable reservations and stickiness and the
refill's status and finality, are proved and not run: a theorem covers every
instance.

Only model-checked: all liveness (`RequestCompletes`, `LifecycleProgress`,
`DestroyReturns`, `RefillReturns`, `Returns`), out of the prover's reach like
anything about `ENABLED`; and the contract of the laboratory's compilers.  The
compilers are recursive operators, which the prover does not accept, and that what
they produce means what the expression selects is an induction over expressions:
TLC evaluates `LabContract` on the run's expressions and haystacks, and the
theorems on the executors start from it.

## Findings

* `failed_promotion`: `plan.rs:1802` returns a construction failure with `?`
  while the guard of the lane's incumbent is live and uncommitted.  The guard's
  `Drop` then discards the incumbent, and the lane is empty.  `plan.rs:1762` says
  "A failed promotion must never lower capability."  Nothing unsafe follows: the
  next search builds anew.
* `lazy_bounded`: `compile_repetition` (`compile.rs:261`, and `guarded.rs:313`) lets a
  lazy optional iteration be skipped in favour of the next optional iteration
  instead of the exit.  With two or more optional iterations of an ambiguous child
  the priority differs from the leftmost-first order the crate documents:
  `(?:ab|a){0,2}?(?:c|b)` on `abac` selects [0,2) instead of [0,4).

Three more disagreements follow from the models and have no run of their own; the
properties that are checked are stated so as to leave them out.

* `guarded.rs:194` admits three units of work per configuration; the solver
  inspects an unsolved child twice and may need five (`Solve` charges a unit for
  each inspection).  With a limit of exactly what was computed for it,
  `(?:){0,7}b` on an empty haystack is admitted with 29 units, needs 30 and fails
  half way, where `guarded.rs:84` says the bound is checked before recurrence work.
  `AdmittedFinishes` therefore speaks of the other four executors.
* `lib.rs:5035` of the AOT runtime answers `STATUS_RUNTIME_FAILURE` for a poisoned
  mutex before it looks at the state, and destroy does not clear the poison.  A
  thread that still caches the handle gets that status after the destroy, where
  `lib.rs:4958` promises `STATUS_INVALID_HANDLE`.  The program itself is not
  reached.  `InvalidIsTrue` therefore has one direction only.
* `write_transaction` syncs the directory only after the marker.  A power loss
  before that may keep the marker's entry and lose others, where `lib.rs:2677` says
  "A partial directory has no commit."  `CommitIsWhole` therefore speaks, after a
  power loss, of invocations that had returned.

## Limits of the models

Memory is sequentially consistent; the acquire and release orderings of the slot
are not modelled.  The `u64`/`u128` counters of the cache cannot overflow in a
reachable state and are natural numbers; thread identifiers are never reused.
Digests and construction checks are constants.  What a search computes is left to
its program; allocation failure is modelled where the code's paths differ by it.

Process identifiers are never reused in `Supervisor`, so the signal that
`automata_corpus.rs:3835` may send to a group whose leader was reaped cannot meet a
stranger there.  The file system of
`PromotionTransaction` is the weakest one `sync_all` allows, not a particular one.

## Not modelled

The map covers what has state or a protocol, a small share of a repository whose
bulk is generated tables, instruction encodings, SIMD scanners, parsers and
qualification tools: code without state between calls, for which a bounded model
would be a second implementation.  Of the parts with state these are left: the
page arithmetic of `PublicationPlan` and the decoding of native results
(`fre-jit-runtime`), the start-filter proof cell, exclusive sessions and operation
sets, the static AOT registry, and the object loader.  `PreparedAotMatches::next`
and the count and span-sum reducers follow the rules of `SpanFill` and
`CollectSequence` and have no module of their own.

## Plan

1. Theorems: every safety invariant, action property and refinement that a
   passing run checks has one.  Left is the contract of the two compilers, which
   needs induction over expressions.
2. `StartFilterCell`: the lazily published classification of `plan.rs`.
3. `StaticRegistry`: validation once into `OnceLock` slots, re-entrance.
4. `LoadedObject`: the loader's life cycle with a failure after each step.
5. `RowTickets`: admission tickets of exclusive sessions and their settlement.
