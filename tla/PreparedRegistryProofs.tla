------------------------ MODULE PreparedRegistryProofs ------------------------
(***************************************************************************)
(* The registry's safety properties for any number of threads, programs    *)
(* and tokens.                                                             *)
(*                                                                         *)
(* The argument: a token is returned for one state and for no other, so an *)
(* entry, a cached entry and a call's own state all agree with what was    *)
(* issued, however old they are; an entry leaves the map once, with the    *)
(* program in it, and only the call that removed it empties the state; a   *)
(* mutex is held exactly by the call that is at a label inside it.         *)
(***************************************************************************)
EXTENDS PreparedRegistry, TLAPS

Inside == {"locked", "searching", "taking"}
Removed == {"waiting", "taking"}

\* Tokens below next_token are issued, each for its own state.
TokensIssued ==
    /\ \A k \in Tokens : issued[k] # NoState => k < nextToken
    /\ \A k \in Tokens : issued[k] # NoState => content[issued[k]] # "unborn"
    /\ \A j, k \in Tokens :
        issued[j] = issued[k] /\ issued[j] # NoState => j = k

CacheAgrees ==
    \A t \in Threads :
        cache[t].token # 0 => cache[t].state = issued[cache[t].token]

\* Whoever knows a state by a token knows the one the token was issued for.
Agreement ==
    /\ \A k \in Tokens :
        entries[k] # NoState => entries[k] = issued[k]
                                /\ content[entries[k]] = "full"
    /\ CacheAgrees
    /\ \A t \in Threads :
        IF pc[t] \in {"idle", "lookup", "removing"}
        THEN own[t] = NoState
        ELSE own[t] = issued[arg[t]]

\* Calls inside a mutex are the ones that hold it.
MutexHeld ==
    /\ \A t \in Threads : pc[t] \in Inside => mutex[own[t]] = t
    /\ \A t \in Threads : pc[t] = "searching" => content[own[t]] = "full"

\* A destroy past the map owns the right to empty the state.
Removal ==
    \A t \in Threads : pc[t] \in Removed =>
        /\ content[own[t]] = "full"
        /\ entries[arg[t]] = NoState
        /\ \A u \in Threads \ {t} : pc[u] \in Removed => own[u] # own[t]

\* Destroyed tokens name emptied states, and calls remember that they were.
DestroyedGone ==
    /\ \A k \in destroyed : issued[k] # NoState /\ content[issued[k]] = "gone"
    /\ \A t \in stale : pc[t] # "idle" /\ arg[t] \in destroyed

\* A state that still holds its program can be reached by a destroy.
Reachable == NoLeak

Inv == TypeOK /\ TokensIssued /\ Agreement /\ MutexHeld /\ Removal
       /\ DestroyedGone /\ Reachable

\* A step of t leaves the mutexes that others hold alone.
OthersKeep(t) ==
    /\ mutex' \in [States -> Threads \cup {Nobody}]
    /\ \A s \in States : mutex[s] \notin {t, Nobody} => mutex'[s] = mutex[s]

Statuses == {"none", "ok", "busy", "invalid", "failure"}

\* A call that is not a destroy past the map may return at any time, giving up
\* the mutex it holds, and the rest of the registry stays as it is.
LEMMA Returns ==
  ASSUME Inv, NEW t \in Threads, NEW result \in Statuses,
         Return(t, result), OthersKeep(t), pc[t] \notin Removed,
         poisoned' \in [States -> BOOLEAN],
         UNCHANGED <<nextToken, entries, content, cache, tls, issued,
                     destroyed>>
  PROVE  Inv'
<1> USE RegistryAssumption DEF Inv
<1>1. TypeOK'
  BY DEF TypeOK, Labels, Tokens, Return, OthersKeep, Statuses
<1>2. TokensIssued'
  BY DEF TokensIssued
<1>3. Agreement'
  BY DEF Agreement, CacheAgrees, TypeOK, Return
<1>4. MutexHeld'
  BY DEF MutexHeld, Inside, TypeOK, Return, OthersKeep, Agreement
<1>5. Removal'
  BY DEF Removal, Removed, TypeOK, Return
<1>6. DestroyedGone'
  BY DEF DestroyedGone, TypeOK, Return
<1>7. Reachable'
  <2> SUFFICES ASSUME NEW s \in States, content'[s] = "full"
               PROVE  \/ \E k \in Tokens : entries'[k] = s /\ issued'[k] = s
                      \/ \E u \in Threads :
                            pc'[u] \in Removed /\ own'[u] = s
    BY DEF Reachable, NoLeak, Removed
  <2>1. CASE \E k \in Tokens : entries[k] = s /\ issued[k] = s
    BY <2>1
  <2>2. CASE \E u \in Threads : pc[u] \in Removed /\ own[u] = s
    <3>1. PICK u \in Threads : pc[u] \in Removed /\ own[u] = s
      BY <2>2
    <3>2. pc'[u] = pc[u] /\ own'[u] = own[u]
      BY <3>1 DEF Return, TypeOK
    <3> QED
      BY <3>1, <3>2
  <2> QED
    BY <2>1, <2>2 DEF Reachable, NoLeak, Removed
<1> QED
  BY <1>1, <1>2, <1>3, <1>4, <1>5, <1>6, <1>7

\* A call goes on with the state its token was issued for, taking the mutex or
\* finding the program as the label it goes to requires; a destroy past the
\* map stays one.
LEMMA Works ==
  ASSUME Inv, NEW t \in Threads, NEW s \in States, NEW label \in Labels,
         Work(t, s, label), pc[t] # "idle",
         label \in {"trying", "locked", "searching", "taking"},
         s = issued[arg[t]], OthersKeep(t),
         label \in Inside => mutex'[s] = t,
         label = "searching" => content[s] = "full",
         pc[t] \in Removed <=> label = "taking",
         label = "taking" => own[t] = s,
         cache' \in [Threads -> Entries \cup {NoEntry}], CacheAgrees',
         UNCHANGED <<nextToken, entries, content, poisoned, tls, issued,
                     destroyed>>
  PROVE  Inv'
<1> USE RegistryAssumption DEF Inv
<1>1. TypeOK'
  BY DEF TypeOK, Labels, Tokens, Work, OthersKeep
<1>2. TokensIssued'
  BY DEF TokensIssued
<1>3. Agreement'
  BY DEF Agreement, TypeOK, Work, Labels
<1>4. MutexHeld'
  BY DEF MutexHeld, Inside, TypeOK, Work, OthersKeep, Agreement
<1>5. Removal'
  BY DEF Removal, Removed, TypeOK, Work
<1>6. DestroyedGone'
  BY DEF DestroyedGone, TypeOK, Work
<1>7. Reachable'
  <2> SUFFICES ASSUME NEW r \in States, content'[r] = "full"
               PROVE  \/ \E k \in Tokens : entries'[k] = r /\ issued'[k] = r
                      \/ \E u \in Threads :
                            pc'[u] \in Removed /\ own'[u] = r
    BY DEF Reachable, NoLeak, Removed
  <2>1. CASE \E k \in Tokens : entries[k] = r /\ issued[k] = r
    BY <2>1
  <2>2. CASE \E u \in Threads : pc[u] \in Removed /\ own[u] = r
    <3>1. PICK u \in Threads : pc[u] \in Removed /\ own[u] = r
      BY <2>2
    <3>2. pc'[u] \in Removed /\ own'[u] = own[u]
      BY <3>1 DEF Work, TypeOK, Removed
    <3> QED
      BY <3>1, <3>2
  <2> QED
    BY <2>1, <2>2 DEF Reachable, NoLeak, Removed
<1> QED
  BY <1>1, <1>2, <1>3, <1>4, <1>5, <1>6, <1>7
\* Every step preserves the invariant; one case per action of the registry.
LEMMA RegistryStep == Inv /\ [Next]_vars => Inv'
<1> SUFFICES ASSUME Inv, [Next]_vars PROVE Inv'
  OBVIOUS
<1> USE RegistryAssumption
<1>1. ASSUME NEW t \in Threads, NEW s \in States, Register(t, s) PROVE Inv'
  <2> USE <1>1 DEF Inv, Register, Insert, Return, Tokens
  <2>0. /\ nextToken \in Tokens /\ issued[nextToken] = NoState
        /\ \A k \in Tokens : issued[k] # s
        /\ \A k \in Tokens : entries[k] # s
    BY DEF TypeOK, TokensIssued, Agreement
  <2>1. TypeOK'
    BY DEF TypeOK, Labels
  <2>2. TokensIssued'
    BY <2>0 DEF TypeOK, TokensIssued
  <2>3. Agreement'
    <3>1. \A k \in Tokens : entries'[k] # NoState =>
            entries'[k] = issued'[k] /\ content'[entries'[k]] = "full"
      BY <2>0 DEF TypeOK, Agreement
    <3>2. CacheAgrees'
      <4> SUFFICES ASSUME NEW u \in Threads, cache[u].token # 0
                   PROVE  cache[u].state = issued'[cache[u].token]
        BY DEF CacheAgrees
      <4>1. cache[u].token \in Tokens /\ cache[u].state \in States
        BY DEF TypeOK, Entries, NoEntry
      <4>2. cache[u].token # nextToken
        BY <2>0, <4>1 DEF Agreement, CacheAgrees
      <4> QED
        BY <2>0, <4>1, <4>2 DEF Agreement, CacheAgrees, TypeOK
    <3>3. \A u \in Threads :
            IF pc'[u] \in {"idle", "lookup", "removing"}
            THEN own'[u] = NoState
            ELSE own'[u] = issued'[arg'[u]]
      BY <2>0 DEF TypeOK, Agreement
    <3> QED
      BY <3>1, <3>2, <3>3 DEF Agreement
  <2>4. MutexHeld'
    BY DEF TypeOK, MutexHeld, Inside
  <2>5. Removal'
    <3>1. \A u \in Threads :
            pc[u] \in Removed => u # t /\ arg[u] # nextToken /\ own[u] # s
      BY <2>0 DEF TypeOK, Removed, Agreement, Removal
    <3> QED
      BY <3>1 DEF TypeOK, Removal, Removed
  <2>6. DestroyedGone'
    BY <2>0 DEF TypeOK, DestroyedGone
  <2>7. Reachable'
    <3> SUFFICES ASSUME NEW r \in States, content'[r] = "full"
                 PROVE  \/ \E k \in Tokens : entries'[k] = r /\ issued'[k] = r
                        \/ \E u \in Threads :
                              pc'[u] \in Removed /\ own'[u] = r
      BY DEF Reachable, NoLeak, Removed
    <3>1. CASE r = s
      BY <2>0, <3>1 DEF TypeOK
    <3>2. CASE r # s
      <4>1. content[r] = "full"
        BY <3>2 DEF TypeOK
      <4>2. CASE \E k \in Tokens : entries[k] = r /\ issued[k] = r
        BY <2>0, <4>2 DEF TypeOK
      <4>3. CASE \E u \in Threads : pc[u] \in Removed /\ own[u] = r
        BY <4>3 DEF TypeOK, Removed
      <4> QED
        BY <4>1, <4>2, <4>3 DEF Reachable, NoLeak, Removed
    <3> QED
      BY <3>1, <3>2
  <2> QED
    BY <2>1, <2>2, <2>3, <2>4, <2>5, <2>6, <2>7
<1>2. ASSUME NEW t \in Threads, PrepareFails(t) PROVE Inv'
  BY <1>2, Returns
     DEF PrepareFails, Inv, TypeOK, OthersKeep, Removed, Statuses
<1>3. ASSUME NEW t \in Threads, NEW k \in 0..TokenMax, NEW label \in Labels,
             label \in {"lookup", "removing"}, Call(t, k, label)
      PROVE Inv'
  <2>1. CASE k = 0
    BY <1>3, <2>1, Returns DEF Call, Inv, TypeOK, OthersKeep, Removed, Statuses
  <2>2. CASE k # 0
    <3> USE <1>3, <2>2 DEF Inv, Call
    <3>0. k \in Tokens /\ stale' \subseteq Threads
      BY DEF TypeOK, Tokens
    <3>1. TypeOK'
      BY <3>0 DEF TypeOK, Labels
    <3>2. TokensIssued'
      BY DEF TokensIssued
    <3>3. Agreement'
      BY DEF Agreement, CacheAgrees, TypeOK
    <3>4. MutexHeld'
      BY DEF MutexHeld, Inside, TypeOK
    <3>5. Removal'
      BY DEF Removal, Removed, TypeOK
    <3>6. DestroyedGone'
      BY DEF DestroyedGone, TypeOK
    <3>7. Reachable'
      BY DEF Reachable, NoLeak, TypeOK
    <3> QED
      BY <3>1, <3>2, <3>3, <3>4, <3>5, <3>6, <3>7
  <2> QED
    BY <2>1, <2>2
<1>4. ASSUME NEW t \in Threads, ThreadExit(t) PROVE Inv'
  <2>1. CacheAgrees'
    BY <1>4 DEF ThreadExit, CacheAgrees, Inv, Agreement, TypeOK, NoEntry
  <2>2. TypeOK'
    BY <1>4 DEF ThreadExit, Inv, TypeOK, Labels
  <2> QED
    BY <1>4, <2>1, <2>2
       DEF ThreadExit, Inv, TokensIssued, Agreement, MutexHeld, Removal,
           DestroyedGone, Reachable, NoLeak
<1>5. ASSUME NEW t \in Threads, CacheHit(t) PROVE Inv'
  <2>1. cache[t].state = issued[arg[t]] /\ cache[t].state \in States
    BY <1>5 DEF CacheHit, Inv, TypeOK, Agreement, CacheAgrees, Entries, NoEntry
  <2> QED
    BY <1>5, <2>1, Works
       DEF CacheHit, Inv, TypeOK, Agreement, CacheAgrees, OthersKeep, Inside,
           Removed, Labels
<1>6. ASSUME NEW t \in Threads, CacheFill(t) PROVE Inv'
  <2>0. arg[t] \in Tokens
    BY <1>6 DEF CacheFill, Inv, TypeOK, Tokens
  <2>1. entries[arg[t]] = issued[arg[t]] /\ entries[arg[t]] \in States
    BY <1>6, <2>0 DEF CacheFill, Inv, TypeOK, Agreement
  <2>2. cache' \in [Threads -> Entries \cup {NoEntry}] /\ CacheAgrees'
    BY <1>6, <2>0, <2>1
       DEF CacheFill, Inv, TypeOK, Agreement, CacheAgrees, Entries
  <2> QED
    BY <1>6, <2>1, <2>2, Works
       DEF CacheFill, Inv, TypeOK, OthersKeep, Inside, Removed, Labels
<1>7. ASSUME NEW t \in Threads, CacheMiss(t) \/ NoCache(t) PROVE Inv'
  BY <1>7, Returns
     DEF CacheMiss, NoCache, Inv, TypeOK, OthersKeep, Removed, Statuses
<1>8. ASSUME NEW t \in Threads, TryLock(t) PROVE Inv'
  <2>0. own[t] = issued[arg[t]] /\ own[t] \in States
    BY <1>8 DEF TryLock, Inv, TypeOK, Agreement
  <2>1. CASE mutex[own[t]] = Nobody
    <3>1. OthersKeep(t) /\ mutex'[own[t]] = t
      BY <1>8, <2>0, <2>1 DEF TryLock, Acquire, OthersKeep, Inv, TypeOK
    <3> QED
      BY <1>8, <2>0, <2>1, <3>1, Works
         DEF TryLock, Goto, Inv, TypeOK, Agreement, CacheAgrees, Inside,
             Removed, Labels
  <2>2. CASE mutex[own[t]] # Nobody
    BY <1>8, <2>2, Returns DEF TryLock, Inv, TypeOK, OthersKeep, Removed, Statuses
  <2> QED
    BY <2>1, <2>2
<1>9. ASSUME NEW t \in Threads, Unlock(t), own[t] \in States,
             pc[t] \in Inside
      PROVE OthersKeep(t)
  BY <1>9 DEF Unlock, OthersKeep, Inv, TypeOK, MutexHeld
<1>10. ASSUME NEW t \in Threads, Enter(t) PROVE Inv'
  <2>0. own[t] = issued[arg[t]] /\ own[t] \in States /\ pc[t] \in Inside
    BY <1>10 DEF Enter, Inv, TypeOK, Agreement, Inside
  <2>1. CASE poisoned[own[t]] \/ content[own[t]] # "full"
    <3>1. /\ Unlock(t)
          /\ Return(t, "failure") \/ Return(t, "invalid")
      BY <1>10, <2>1 DEF Enter
    <3> QED
      BY <1>9, <1>10, <2>0, <3>1, Returns
         DEF Enter, Inv, TypeOK, Removed, Statuses
  <2>2. CASE ~poisoned[own[t]] /\ content[own[t]] = "full"
    <3>1. mutex[own[t]] = t
      BY <2>0 DEF Inv, MutexHeld
    <3>2. Work(t, own[t], "searching") /\ mutex' = mutex
      BY <1>10, <2>2 DEF Enter, Goto
    <3>3. OthersKeep(t)
      BY <3>2 DEF OthersKeep, Inv, TypeOK
    <3> QED
      BY <1>10, <2>0, <2>2, <3>1, <3>2, <3>3, Works
         DEF Enter, Inv, TypeOK, Agreement, CacheAgrees, Inside, Removed,
             Labels
  <2> QED
    BY <2>1, <2>2
<1>11. ASSUME NEW t \in Threads, SearchReturns(t) \/ SearchPanics(t)
       PROVE  Inv'
  <2>0. own[t] \in States /\ pc[t] \in Inside /\ pc[t] \notin Removed
    BY <1>11 DEF SearchReturns, SearchPanics, Inv, TypeOK, Inside, Removed
  <2>1. /\ Unlock(t) /\ poisoned' \in [States -> BOOLEAN]
        /\ Return(t, "ok") \/ Return(t, "failure")
    BY <1>11, <2>0 DEF SearchReturns, SearchPanics, Inv, TypeOK
  <2> QED
    BY <1>9, <1>11, <2>0, <2>1, Returns
       DEF SearchReturns, SearchPanics, Statuses
<1>12. ASSUME NEW t \in Threads, Remove(t) PROVE Inv'
  <2>1. CASE entries[arg[t]] = NoState
    BY <1>12, <2>1, Returns DEF Remove, Inv, TypeOK, OthersKeep, Removed, Statuses
  <2>2. CASE entries[arg[t]] # NoState
    <3> DEFINE s == entries[arg[t]]
    <3>0. /\ arg[t] \in Tokens /\ s \in States /\ s = issued[arg[t]]
          /\ content[s] = "full"
      BY <1>12, <2>2 DEF Remove, Inv, TypeOK, Tokens, Agreement
    <3>1. /\ entries' = [entries EXCEPT ![arg[t]] = NoState]
          /\ Work(t, s, "waiting")
          /\ UNCHANGED <<nextToken, content, mutex, poisoned, cache, tls,
                         issued, destroyed>>
      BY <1>12, <2>2 DEF Remove
    <3> HIDE DEF s
    <3> USE <3>0, <3>1 DEF Inv, Work
    <3>2. TypeOK'
      <4>1. entries' \in [Tokens -> States \cup {NoState}]
        BY DEF TypeOK
      <4>2. /\ pc' \in [Threads -> Labels]
            /\ own' \in [Threads -> States \cup {NoState}]
        BY DEF TypeOK, Labels
      <4>3. \A u \in Threads : pc'[u] # "idle" => arg'[u] # 0
        BY <1>12 DEF TypeOK, Remove
      <4>4. \A u \in Threads :
              pc'[u] \notin {"idle", "lookup", "removing"} =>
                  own'[u] # NoState
        BY DEF TypeOK
      <4> QED
        BY <4>1, <4>2, <4>3, <4>4 DEF TypeOK
    <3>3. TokensIssued'
      BY DEF TokensIssued
    <3>4. Agreement'
      BY DEF Agreement, CacheAgrees, TypeOK
    <3>5. MutexHeld'
      BY DEF MutexHeld, Inside, TypeOK
    <3>6. Removal'
      <4>1. \A u \in Threads \ {t} : pc[u] \in Removed => own[u] # s
        <5> SUFFICES ASSUME NEW u \in Threads, pc[u] \in Removed, own[u] = s
                     PROVE  FALSE
          OBVIOUS
        <5>1. arg[u] \in Tokens /\ own[u] = issued[arg[u]]
          BY DEF TypeOK, Removed, Agreement, Tokens
        <5>2. arg[u] = arg[t]
          BY <5>1 DEF TokensIssued
        <5> QED
          BY <2>2, <5>2 DEF Removal
      <4> QED
        BY <4>1 DEF Removal, Removed, TypeOK
    <3>7. DestroyedGone'
      BY <1>12 DEF DestroyedGone, TypeOK, Remove
    <3>8. Reachable'
      <4> SUFFICES ASSUME NEW r \in States, content[r] = "full"
                   PROVE  \/ \E k \in Tokens :
                                entries'[k] = r /\ issued[k] = r
                          \/ \E u \in Threads :
                                pc'[u] \in Removed /\ own'[u] = r
        BY DEF Reachable, NoLeak, Removed
      <4>1. CASE r = s
        BY <4>1 DEF TypeOK, Removed
      <4>2. CASE \E k \in Tokens : r # s /\ entries[k] = r /\ issued[k] = r
        BY <4>2 DEF TypeOK
      <4>3. CASE \E u \in Threads : pc[u] \in Removed /\ own[u] = r
        <5>1. pc[t] \notin Removed
          BY <1>12 DEF Remove, Removed
        <5> QED
          BY <4>3, <5>1 DEF TypeOK
      <4> QED
        BY <4>1, <4>2, <4>3 DEF Reachable, NoLeak, Removed
    <3> QED
      BY <3>2, <3>3, <3>4, <3>5, <3>6, <3>7, <3>8
  <2> QED
    BY <2>1, <2>2
<1>13. ASSUME NEW t \in Threads, DestroyLock(t) PROVE Inv'
  <2>0. own[t] = issued[arg[t]] /\ own[t] \in States
    BY <1>13 DEF DestroyLock, Inv, TypeOK, Agreement
  <2>1. OthersKeep(t) /\ mutex'[own[t]] = t
    BY <1>13, <2>0 DEF DestroyLock, Acquire, OthersKeep, Inv, TypeOK
  <2> QED
    BY <1>13, <2>0, <2>1, Works
       DEF DestroyLock, Goto, Inv, TypeOK, Agreement, CacheAgrees, Inside,
           Removed, Labels
<1>14. ASSUME NEW t \in Threads, Take(t) PROVE Inv'
  <2>0. /\ arg[t] \in Tokens /\ own[t] \in States /\ own[t] = issued[arg[t]]
        /\ content[own[t]] = "full" /\ entries[arg[t]] = NoState
        /\ pc[t] \in Inside /\ pc[t] \in Removed /\ mutex[own[t]] = t
    BY <1>14 DEF Take, Inv, TypeOK, Tokens, Agreement, Removal, Removed,
                 MutexHeld, Inside
  <2>1. /\ Unlock(t)
        /\ content' = [content EXCEPT ![own[t]] = "gone"]
        /\ destroyed' = destroyed \cup {arg[t]}
        /\ Return(t, "ok")
        /\ UNCHANGED <<nextToken, entries, poisoned, cache, tls, issued>>
    BY <1>14, <2>0 DEF Take
  <2>2. OthersKeep(t)
    BY <1>9, <2>0, <2>1
  <2> USE <2>0, <2>1 DEF Inv, Return
  <2>3. TypeOK'
    <3>0. 0 \in 0..TokenMax
      BY DEF Tokens
    <3>1. /\ arg' \in [Threads -> 0..TokenMax]
          /\ destroyed' \subseteq Tokens /\ stale' \subseteq Threads
      BY <3>0 DEF TypeOK
    <3>2. content' \in [States -> {"unborn", "full", "gone"}]
      BY DEF TypeOK
    <3> QED
      BY <2>2, <3>1, <3>2 DEF TypeOK, Labels, OthersKeep
  <2>4. TokensIssued'
    BY DEF TokensIssued, TypeOK
  <2>5. Agreement'
    <3>1. \A k \in Tokens : entries[k] # own[t]
      BY DEF Agreement, TokensIssued, TypeOK
    <3> QED
      BY <3>1 DEF Agreement, CacheAgrees, TypeOK
  <2>6. MutexHeld'
    BY <2>2 DEF MutexHeld, Inside, TypeOK, OthersKeep, Agreement
  <2>7. Removal'
    BY DEF Removal, Removed, TypeOK
  <2>8. DestroyedGone'
    BY DEF DestroyedGone, TypeOK
  <2>9. Reachable'
    <3> SUFFICES ASSUME NEW r \in States, content'[r] = "full"
                 PROVE  \/ \E k \in Tokens : entries[k] = r /\ issued[k] = r
                        \/ \E u \in Threads :
                              pc'[u] \in Removed /\ own'[u] = r
      BY DEF Reachable, NoLeak, Removed
    <3>1. r # own[t] /\ content[r] = "full"
      BY DEF TypeOK
    <3>2. CASE \E u \in Threads : pc[u] \in Removed /\ own[u] = r
      BY <3>1, <3>2 DEF TypeOK
    <3> QED
      BY <3>1, <3>2 DEF Reachable, NoLeak, Removed
  <2> QED
    BY <2>3, <2>4, <2>5, <2>6, <2>7, <2>8, <2>9
<1>15. CASE UNCHANGED vars
  BY <1>15 DEF vars, Inv, TypeOK, TokensIssued, Agreement, CacheAgrees,
               MutexHeld, Removal, DestroyedGone, Reachable, NoLeak
<1>16. ASSUME NEW t \in Threads, NEW k \in 0..TokenMax,
              Search(t, k) \/ Destroy(t, k)
       PROVE  Inv'
  BY <1>3, <1>16 DEF Search, Destroy, Labels
<1> QED
  BY <1>1, <1>2, <1>4, <1>5, <1>6, <1>7, <1>8, <1>10, <1>11, <1>12, <1>13,
     <1>14, <1>15, <1>16 DEF Next, Begin, Proceed

\* The invariant holds in every reachable state, whatever the number of
\* threads, programs and tokens.
THEOREM RegistryInvariance == Spec => []Inv
<1>1. Init => Inv
  BY RegistryAssumption
     DEF Init, Inv, TypeOK, Labels, Entries, NoEntry, Tokens, TokensIssued,
         Agreement, CacheAgrees, MutexHeld, Removal, DestroyedGone, Reachable,
         NoLeak, Inside, Removed
<1> QED
  BY <1>1, RegistryStep, PTL DEF Spec

\* A running search is alone with the program its token was issued for.
THEOREM RegistrySearchExclusive == Spec => []SearchExclusive
<1>1. Inv => SearchExclusive
  <2> SUFFICES ASSUME Inv, NEW t \in Threads, pc[t] = "searching"
               PROVE  /\ mutex[own[t]] = t /\ content[own[t]] = "full"
                      /\ own[t] = issued[arg[t]]
                      /\ \A u \in Threads \ {t} :
                           own[u] = own[t] =>
                               pc[u] \notin {"locked", "searching", "taking"}
    BY DEF SearchExclusive
  <2> QED
    BY DEF Inv, MutexHeld, Inside, Agreement
<1> QED
  BY <1>1, RegistryInvariance, PTL

\* A cached entry never revives a handle whose destroy has returned.
THEOREM RegistryNoUseAfterDestroy == Spec => []NoUseAfterDestroy
<1>1. Inv => NoUseAfterDestroy
  <2> SUFFICES ASSUME Inv, NEW t \in stale, pc[t] = "searching", t \in Threads
               PROVE  FALSE
    BY DEF NoUseAfterDestroy
  <2>1. content[issued[arg[t]]] = "gone"
    BY DEF Inv, DestroyedGone
  <2>2. own[t] = issued[arg[t]] /\ content[own[t]] = "full"
    BY DEF Inv, MutexHeld, Agreement
  <2> QED
    BY <2>1, <2>2
<1> QED
  BY <1>1, RegistryInvariance, PTL

\* Exactly one of the overlapping destroys of a token succeeds: the one that
\* took the entry out of the map, and it always finds the program.
THEOREM RegistryDestroyOnce == Spec => []DestroyOnce
<1>1. Inv => DestroyOnce
  <2> SUFFICES ASSUME Inv, NEW t \in Threads, pc[t] \in Removed
               PROVE  /\ content[own[t]] = "full" /\ arg[t] \notin destroyed
                      /\ \A u \in Threads \ {t} :
                           pc[u] \in Removed => own[u] # own[t]
    BY DEF DestroyOnce, Removed
  <2>1. own[t] = issued[arg[t]]
    BY DEF Inv, Agreement, Removed
  <2> QED
    BY <2>1 DEF Inv, Removal, DestroyedGone
<1> QED
  BY <1>1, RegistryInvariance, PTL

\* No program is left behind where no destroy can release it.
THEOREM RegistryNoLeak == Spec => []NoLeak
<1>1. Inv => NoLeak
  BY DEF Inv, Reachable
<1> QED
  BY <1>1, RegistryInvariance, PTL

\* STATUS_INVALID_HANDLE is only ever said of a token that is not registered.
THEOREM RegistryInvalidIsTrue == Spec => InvalidIsTrue
<1>1. ASSUME Inv, [Next]_vars
      PROVE  [\A t \in Threads :
                pc[t] # "idle" /\ pc'[t] = "idle" /\ status' = "invalid" =>
                    entries[arg[t]] = NoState]_vars
  <2> SUFFICES ASSUME NEW t \in Threads, Next, pc[t] # "idle",
                      pc'[t] = "idle", status' = "invalid"
               PROVE  entries[arg[t]] = NoState
    BY <1>1
  <2>0. PICK u \in Threads : Begin(u) \/ Proceed(u)
    BY DEF Next
  <2>1. u = t
    BY <1>1, <2>0
       DEF Inv, TypeOK, Begin, Proceed, Register, PrepareFails, Search,
           Destroy, Call, ThreadExit, CacheHit, CacheFill, CacheMiss, NoCache,
           TryLock, Enter, SearchReturns, SearchPanics, Remove, DestroyLock,
           Take, Return, Work, Goto
  <2>2. CacheMiss(t) \/ Enter(t) \/ Remove(t) \/ Take(t)
    BY <1>1, <2>0, <2>1
       DEF Inv, TypeOK, Begin, Proceed, Register, PrepareFails, Search,
           Destroy, Call, ThreadExit, CacheHit, CacheFill, NoCache, TryLock,
           SearchReturns, SearchPanics, DestroyLock, Return, Work, Goto
  <2>3. CASE CacheMiss(t)
    BY <2>3 DEF CacheMiss
  <2>4. CASE Enter(t)
    <3>1. content[own[t]] # "full"
      BY <1>1, <2>4 DEF Enter, Return, Goto, Work, Inv, TypeOK
    <3>2. own[t] = issued[arg[t]] /\ arg[t] \in Tokens
      BY <1>1, <2>4, RegistryAssumption
         DEF Enter, Inv, TypeOK, Tokens, Agreement
    <3> QED
      BY <1>1, <3>1, <3>2 DEF Inv, Agreement
  <2>5. CASE Remove(t)
    BY <1>1, <2>5 DEF Remove, Work, Inv, TypeOK
  <2>6. CASE Take(t)
    BY <1>1, <2>6 DEF Take, Inv, Removal, Removed
  <2> QED
    BY <2>2, <2>3, <2>4, <2>5, <2>6
<1> QED
  BY <1>1, RegistryInvariance, PTL DEF Spec, InvalidIsTrue
=============================================================================
