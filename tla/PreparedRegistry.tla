--------------------------- MODULE PreparedRegistry ---------------------------
(***************************************************************************)
(* The registry of prepared programs behind the C ABI of                   *)
(* fre-aot-regex-runtime: prepare_v1, search_prepared_v1 and               *)
(* destroy_prepared_v1, called from any thread with any token.             *)
(*                                                                         *)
(* A program lives in a PreparedHandleState, a Mutex<Option<..>> shared by *)
(* the registry's map, by the thread-local cache of every thread that      *)
(* searched it last and by a destroy in progress.  The registry's own      *)
(* mutex is held for one map operation at a time, so each of those is one  *)
(* step; a state's mutex is held across a whole search and is explicit.    *)
(***************************************************************************)
EXTENDS Naturals

CONSTANTS
    Threads,
    States,      \* the PreparedHandleStates that are ever allocated
    TokenMax,    \* stands for u64::MAX
    Nobody,      \* holder of a free mutex
    NoState      \* absence of an entry

ASSUME RegistryAssumption ==
    /\ TokenMax \in Nat \ {0}
    /\ Nobody \notin Threads
    /\ NoState \notin States

VARIABLES
    nextToken,   \* PreparedRegistry::next_token
    entries,     \* PreparedRegistry::entries
    content,     \* Option<PreparedAotRegex> of each state
    mutex,       \* who holds the mutex of each state
    poisoned,    \* whether a search panicked under that mutex
    cache,       \* PREPARED_ENTRY_CACHE of each thread
    tls,         \* whether the thread-locals of a thread still exist
    pc, arg, own,  \* where a call is, its token and the state it works on
    status,      \* what the last call to return, of any thread, returned
    issued,      \* history: the state a token was returned for
    destroyed,   \* history: tokens whose destroy returned STATUS_SUCCESS
    stale        \* history: threads whose call began with such a token

vars == <<nextToken, entries, content, mutex, poisoned, cache, tls, pc, arg,
          own, status, issued, destroyed, stale>>

Tokens == 1..TokenMax

NoEntry == [token |-> 0, state |-> NoState]

Init ==
    /\ nextToken = 1
    /\ entries = [k \in Tokens |-> NoState]
    /\ content = [s \in States |-> "unborn"]
    /\ mutex = [s \in States |-> Nobody]
    /\ poisoned = [s \in States |-> FALSE]
    /\ cache = [t \in Threads |-> NoEntry]
    /\ tls = [t \in Threads |-> TRUE]
    /\ pc = [t \in Threads |-> "idle"]
    /\ arg = [t \in Threads |-> 0]
    /\ own = [t \in Threads |-> NoState]
    /\ status = "none"
    /\ issued = [k \in Tokens |-> NoState]
    /\ destroyed = {}
    /\ stale = {}

-----------------------------------------------------------------------------
(* Calls and returns.                                                      *)

\* The call goes on, working on state s.
Work(t, s, label) ==
    /\ pc' = [pc EXCEPT ![t] = label]
    /\ own' = [own EXCEPT ![t] = s]
    /\ UNCHANGED <<arg, stale, status>>

Goto(t, label) == Work(t, own[t], label)

\* The call ends; its locals go out of scope with it.
Return(t, result) ==
    /\ pc' = [pc EXCEPT ![t] = "idle"]
    /\ own' = [own EXCEPT ![t] = NoState]
    /\ arg' = [arg EXCEPT ![t] = 0]
    /\ stale' = stale \ {t}
    /\ status' = result

Acquire(t) == mutex' = [mutex EXCEPT ![own[t]] = t]
Unlock(t) == mutex' = [mutex EXCEPT ![own[t]] = Nobody]

\* The caller supplies any token at all: a copy of a live one, a destroyed
\* one, one that was never returned.  A zero token is refused on entry; a call
\* whose pointers or window are refused changes nothing and is left out.
Call(t, k, label) ==
    /\ pc[t] = "idle"
    /\ IF k = 0
       THEN Return(t, "invalid")
       ELSE /\ pc' = [pc EXCEPT ![t] = label]
            /\ arg' = [arg EXCEPT ![t] = k]
            /\ stale' = IF k \in destroyed THEN stale \cup {t} ELSE stale
            /\ UNCHANGED <<own, status>>
    /\ UNCHANGED <<nextToken, entries, content, mutex, poisoned, cache, tls,
                   issued, destroyed>>

-----------------------------------------------------------------------------
(* fre_aot_regex_runtime_prepare_v1.                                       *)

\* PreparedRegistry::insert after next_token: the token is taken if it has a
\* successor and names no entry.
Insert(s, token) ==
    /\ token + 1 <= TokenMax
    /\ entries[token] = NoState
    /\ nextToken' = token + 1
    /\ entries' = [entries EXCEPT ![token] = s]
    /\ content' = [content EXCEPT ![s] = "full"]
    /\ issued' = [issued EXCEPT ![token] = s]

\* Bug: takes the first token that names no entry.
RegisterFirstFree(t, s) ==
    /\ pc[t] = "idle"
    /\ content[s] = "unborn"
    /\ \E token \in Tokens :
        /\ Insert(s, token)
        /\ \A k \in 1..(token - 1) : entries[k] # NoState
    /\ Return(t, "ok")
    /\ UNCHANGED <<mutex, poisoned, cache, tls, destroyed>>

Register(t, s) ==
    /\ pc[t] = "idle"
    /\ content[s] = "unborn"
    /\ Insert(s, nextToken)
    /\ Return(t, "ok")
    /\ UNCHANGED <<mutex, poisoned, cache, tls, destroyed>>

\* The program does not deserialize, or the tokens are used up.
PrepareFails(t) ==
    /\ pc[t] = "idle"
    /\ Return(t, "failure")
    /\ UNCHANGED <<nextToken, entries, content, mutex, poisoned, cache, tls,
                   issued, destroyed>>

-----------------------------------------------------------------------------
(* fre_aot_regex_runtime_search_prepared_v1.                               *)

Search(t, k) == Call(t, k, "lookup")

\* with_cached_prepared_entry finds the token in the thread's cache.
CacheHit(t) ==
    /\ pc[t] = "lookup"
    /\ tls[t]
    /\ cache[t].token = arg[t]
    /\ Work(t, cache[t].state, "trying")
    /\ UNCHANGED <<nextToken, entries, content, mutex, poisoned, cache, tls,
                   issued, destroyed>>

\* It does not: prepared_entry asks the registry, and a hit replaces what was
\* cached.
CacheFill(t) ==
    /\ pc[t] = "lookup"
    /\ tls[t]
    /\ cache[t].token # arg[t]
    /\ entries[arg[t]] # NoState
    /\ cache' = [cache EXCEPT ![t] = [token |-> arg[t],
                                      state |-> entries[arg[t]]]]
    /\ Work(t, entries[arg[t]], "trying")
    /\ UNCHANGED <<nextToken, entries, content, mutex, poisoned, tls, issued,
                   destroyed>>

CacheMiss(t) ==
    /\ pc[t] = "lookup"
    /\ tls[t]
    /\ cache[t].token # arg[t]
    /\ entries[arg[t]] = NoState
    /\ Return(t, "invalid")
    /\ UNCHANGED <<nextToken, entries, content, mutex, poisoned, cache, tls,
                   issued, destroyed>>

\* try_with fails: the thread is past the destruction of its locals.
NoCache(t) ==
    /\ pc[t] = "lookup"
    /\ ~tls[t]
    /\ Return(t, "failure")
    /\ UNCHANGED <<nextToken, entries, content, mutex, poisoned, cache, tls,
                   issued, destroyed>>

\* Bug: searches whether or not try_lock succeeded.
TryLockIgnored(t) ==
    /\ pc[t] = "trying"
    /\ Acquire(t)
    /\ Goto(t, "locked")
    /\ UNCHANGED <<nextToken, entries, content, poisoned, cache, tls, issued,
                   destroyed>>

\* entry.prepared.try_lock().
TryLock(t) ==
    /\ pc[t] = "trying"
    /\ IF mutex[own[t]] = Nobody
       THEN Acquire(t) /\ Goto(t, "locked")
       ELSE Return(t, "busy") /\ UNCHANGED mutex
    /\ UNCHANGED <<nextToken, entries, content, poisoned, cache, tls, issued,
                   destroyed>>

\* What is behind the lock: a poisoned mutex, whose guard comes back as an
\* error and is dropped, a program to search, or a destroyed handle.
Enter(t) ==
    /\ pc[t] = "locked"
    /\ \/ poisoned[own[t]] /\ Unlock(t) /\ Return(t, "failure")
       \/ /\ ~poisoned[own[t]]
          /\ content[own[t]] = "full"
          /\ Goto(t, "searching")
          /\ UNCHANGED mutex
       \/ /\ ~poisoned[own[t]]
          /\ content[own[t]] # "full"
          /\ Unlock(t)
          /\ Return(t, "invalid")
    /\ UNCHANGED <<nextToken, entries, content, poisoned, cache, tls, issued,
                   destroyed>>

\* execute_search returns a result or an error; the guard is dropped.
SearchReturns(t) ==
    /\ pc[t] = "searching"
    /\ Unlock(t)
    /\ \E result \in {"ok", "failure"} : Return(t, result)
    /\ UNCHANGED <<nextToken, entries, content, poisoned, cache, tls, issued,
                   destroyed>>

\* It panics: the unwinding guard poisons the mutex and catch_unwind answers.
SearchPanics(t) ==
    /\ pc[t] = "searching"
    /\ Unlock(t)
    /\ poisoned' = [poisoned EXCEPT ![own[t]] = TRUE]
    /\ Return(t, "failure")
    /\ UNCHANGED <<nextToken, entries, content, cache, tls, issued,
                   destroyed>>

-----------------------------------------------------------------------------
(* fre_aot_regex_runtime_destroy_prepared_v1.                              *)

Destroy(t, k) == Call(t, k, "removing")

\* Bug: looks the entry up and leaves it in the map until it is emptied.
RemoveLater(t) ==
    /\ pc[t] = "removing"
    /\ IF entries[arg[t]] # NoState /\ content[entries[arg[t]]] = "full"
       THEN Work(t, entries[arg[t]], "waiting")
       ELSE Return(t, "invalid")
    /\ UNCHANGED <<nextToken, entries, content, mutex, poisoned, cache, tls,
                   issued, destroyed>>

\* Bug: forgets the entry and leaves the program to its last owner.
RemoveOnly(t) ==
    /\ pc[t] = "removing"
    /\ IF entries[arg[t]] # NoState
       THEN /\ entries' = [entries EXCEPT ![arg[t]] = NoState]
            /\ destroyed' = destroyed \cup {arg[t]}
            /\ Return(t, "ok")
       ELSE /\ Return(t, "invalid")
            /\ UNCHANGED <<entries, destroyed>>
    /\ UNCHANGED <<nextToken, content, mutex, poisoned, cache, tls, issued>>

\* remove_prepared_entry.
Remove(t) ==
    /\ pc[t] = "removing"
    /\ IF entries[arg[t]] # NoState
       THEN /\ entries' = [entries EXCEPT ![arg[t]] = NoState]
            /\ Work(t, entries[arg[t]], "waiting")
       ELSE /\ Return(t, "invalid")
            /\ UNCHANGED entries
    /\ UNCHANGED <<nextToken, content, mutex, poisoned, cache, tls, issued,
                   destroyed>>

\* Bug: gives up on a poisoned mutex.
DestroyLockHealthy(t) ==
    /\ pc[t] = "waiting"
    /\ mutex[own[t]] = Nobody
    /\ IF poisoned[own[t]]
       THEN Return(t, "failure") /\ UNCHANGED mutex
       ELSE Acquire(t) /\ Goto(t, "taking")
    /\ UNCHANGED <<nextToken, entries, content, poisoned, cache, tls, issued,
                   destroyed>>

\* Bug: waits for the cached owners to go away as well.
DestroyLockSole(t) ==
    /\ pc[t] = "waiting"
    /\ mutex[own[t]] = Nobody
    /\ \A u \in Threads : cache[u].state # own[t]
    /\ Acquire(t)
    /\ Goto(t, "taking")
    /\ UNCHANGED <<nextToken, entries, content, poisoned, cache, tls, issued,
                   destroyed>>

\* entry.prepared.lock(), poisoned or not.
DestroyLock(t) ==
    /\ pc[t] = "waiting"
    /\ mutex[own[t]] = Nobody
    /\ Acquire(t)
    /\ Goto(t, "taking")
    /\ UNCHANGED <<nextToken, entries, content, poisoned, cache, tls, issued,
                   destroyed>>

\* state.take(), which releases program and workspace, and the unlock.
Take(t) ==
    /\ pc[t] = "taking"
    /\ Unlock(t)
    /\ IF content[own[t]] = "full"
       THEN /\ content' = [content EXCEPT ![own[t]] = "gone"]
            /\ destroyed' = destroyed \cup {arg[t]}
            /\ Return(t, "ok")
       ELSE /\ Return(t, "invalid")
            /\ UNCHANGED <<content, destroyed>>
    /\ UNCHANGED <<nextToken, entries, poisoned, cache, tls, issued>>

-----------------------------------------------------------------------------

\* A thread's locals are destroyed; its destructors may still make calls.
ThreadExit(t) ==
    /\ pc[t] = "idle"
    /\ tls[t]
    /\ tls' = [tls EXCEPT ![t] = FALSE]
    /\ cache' = [cache EXCEPT ![t] = NoEntry]
    /\ UNCHANGED <<nextToken, entries, content, mutex, poisoned, pc, arg, own,
                   status, issued, destroyed, stale>>

\* What a call in progress does next.
Proceed(t) ==
    \/ CacheHit(t) \/ CacheFill(t) \/ CacheMiss(t) \/ NoCache(t)
    \/ TryLock(t) \/ Enter(t) \/ SearchReturns(t) \/ SearchPanics(t)
    \/ Remove(t) \/ DestroyLock(t) \/ Take(t)

Begin(t) ==
    \/ \E s \in States : Register(t, s)
    \/ PrepareFails(t)
    \/ \E k \in 0..TokenMax : Search(t, k) \/ Destroy(t, k)
    \/ ThreadExit(t)

Next == \E t \in Threads : Begin(t) \/ Proceed(t)

Spec == Init /\ [][Next]_vars

\* A call that can take its next step takes it: searches are bounded by their
\* window and the operating system schedules every thread.  Nothing is assumed
\* of the order in which a contended mutex is granted.
FairSpec == Spec /\ \A t \in Threads : WF_vars(Proceed(t))

-----------------------------------------------------------------------------
(* Properties.                                                             *)

Labels == {"idle", "lookup", "trying", "locked", "searching", "removing",
           "waiting", "taking"}

Entries == [token : Tokens, state : States]

\* The registry's state has its type; a cache that holds a token holds a state
\* for it (lib.rs:4493-4500), and a call past its lookup works on one.
TypeOK ==
    /\ nextToken \in Tokens
    /\ entries \in [Tokens -> States \cup {NoState}]
    /\ content \in [States -> {"unborn", "full", "gone"}]
    /\ mutex \in [States -> Threads \cup {Nobody}]
    /\ poisoned \in [States -> BOOLEAN]
    /\ cache \in [Threads -> Entries \cup {NoEntry}]
    /\ tls \in [Threads -> BOOLEAN]
    /\ pc \in [Threads -> Labels]
    /\ arg \in [Threads -> 0..TokenMax]
    /\ own \in [Threads -> States \cup {NoState}]
    /\ status \in {"none", "ok", "busy", "invalid", "failure"}
    /\ issued \in [Tokens -> States \cup {NoState}]
    /\ destroyed \subseteq Tokens
    /\ stale \subseteq Threads
    /\ \A t \in Threads :
        /\ pc[t] # "idle" => arg[t] # 0
        /\ pc[t] \notin {"idle", "lookup", "removing"} => own[t] # NoState

\* A running search has the program to itself (lib.rs:4965 "at most one search
\* per handle may execute at a time"): it holds the state's mutex, no other
\* call is inside, the program is still there, and it is the one the token was
\* returned for and not another that came to the same cache slot.
SearchExclusive ==
    \A t \in Threads :
        pc[t] = "searching" =>
            /\ mutex[own[t]] = t
            /\ content[own[t]] = "full"
            /\ own[t] = issued[arg[t]]
            /\ \A u \in Threads \ {t} :
                own[u] = own[t] => pc[u] \notin {"locked", "searching", "taking"}

\* No search that begins after a destroy of its token has returned gets to
\* the program, whatever the thread has cached (lib.rs:4483 "a cached entry
\* cannot revive an invalidated handle").
NoUseAfterDestroy ==
    \A t \in Threads : pc[t] = "searching" => t \notin stale

\* The caller who removed the entry finds the program and succeeds, so of any
\* number of overlapping destroys of a token exactly one does and the branch
\* at lib.rs:8275 is never taken; nobody else can be there.
DestroyOnce ==
    \A t \in Threads :
        pc[t] \in {"waiting", "taking"} =>
            /\ content[own[t]] = "full"
            /\ arg[t] \notin destroyed
            /\ \A u \in Threads \ {t} :
                pc[u] \in {"waiting", "taking"} => own[u] # own[t]

\* A program that was not released can still be: its token names it in the
\* registry, or a destroy that will release it is under way, also after a
\* search panicked on it (lib.rs:8269-8272).
NoLeak ==
    \A s \in States :
        content[s] = "full" =>
            \/ \E k \in Tokens : entries[k] = s /\ issued[k] = s
            \/ \E t \in Threads : pc[t] \in {"waiting", "taking"} /\ own[t] = s

\* STATUS_INVALID_HANDLE is the truth: when a call returns it, its token is
\* not registered, so a live handle is never taken for a dead one because its
\* token was used before.
InvalidIsTrue ==
    [][\A t \in Threads :
        pc[t] # "idle" /\ pc'[t] = "idle" /\ status' = "invalid" =>
            entries[arg[t]] = NoState]_vars

\* Once no thread tries to search, a destroy that removed its entry returns: a
\* running search, one that panicked, or a cached owner does not block it for
\* ever (lib.rs:8247 "waits for an already-running search to finish").
DestroyReturns ==
    <>[](\A u \in Threads : pc[u] # "trying") =>
        \A t \in Threads : pc[t] = "waiting" ~> pc[t] = "idle"
=============================================================================
