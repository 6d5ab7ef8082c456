------------------------------ MODULE ToolProofs ------------------------------
(***************************************************************************)
(* Proofs about the two tools beside the engine that outlive a step of     *)
(* their own: Supervisor, for any number of descendants and any bound on   *)
(* the output, and PromotionTransaction, for any number of invocations.    *)
(***************************************************************************)
EXTENDS Supervisor, PromotionTransaction, TLAPS

\* A reader that has reached the end has read everything, and nobody is left
\* to write more.
Ended(i) == read[i] = written[i] /\ Holders(i) = {}

EndIsFinal == \A i \in Pipes : reader[i] = "eof" => Ended(i)

\* A command that was reaped has ended, and the places behind which it must
\* have been reaped are reached with its status.
ReapedEnded ==
    /\ reaped => Child \notin live
    /\ pc \in {"join", "drain"} => reaped
    /\ pc = "reaped" => reaped \/ signal_error
    /\ pc = "returned" => reaped \/ result = "cleanup_failed"

\* What a place and a result say of the readers.
AllEnded == \A i \in Pipes : reader[i] = "eof"

ResultReaders ==
    /\ pc = "join" => Finished
    /\ pc # "returned" => result = "none"
    /\ result \in {"ok", "timeout", "poll_error", "exceeded"} => AllEnded
    /\ result = "ok" => \A i \in Pipes : read[i] <= MaxOutput

Inv == TypeOK /\ EndIsFinal /\ ReapedEnded /\ ResultReaders

LEMMA InitInv == Init => Inv
<1> SUFFICES ASSUME Init PROVE Inv
  OBVIOUS
<1>1. TypeOK
  BY DEF Init, TypeOK, Procs
<1>2. EndIsFinal /\ ReapedEnded /\ ResultReaders
  BY DEF Init, EndIsFinal, ReapedEnded, ResultReaders
<1> QED
  BY <1>1, <1>2 DEF Inv

-----------------------------------------------------------------------------
(* The processes: a pipe that has ended stays without a writer, since only *)
(* a holder can write to it or hand it on.                                 *)

\* What the rest of the invariant needs of a step of the processes.
Settled ==
    /\ live' \subseteq Procs /\ group' \subseteq Procs /\ killed' \subseteq Procs
    /\ holds' \in [Procs -> SUBSET Pipes]
    /\ written' \in [Pipes -> Nat]
    /\ Child \notin live => Child \notin live'
    /\ \A i \in Pipes : Holders(i) = {} => written'[i] = written[i] /\ Holders(i)' = {}

LEMMA ForkSettled ==
  ASSUME TypeOK, NEW p \in Procs, NEW q \in Procs, Fork(p, q)
  PROVE  Settled
<1> USE SupervisorAssumption DEF Fork, TypeOK, Procs
<1>1. /\ live' \subseteq Procs /\ group' \subseteq Procs /\ killed' \subseteq Procs
      /\ holds' \in [Procs -> SUBSET Pipes]
      /\ written' \in [Pipes -> Nat]
      /\ Child \notin live => Child \notin live'
  OBVIOUS
<1>2. ASSUME NEW i \in Pipes, Holders(i) = {} PROVE written'[i] = written[i] /\ Holders(i)' = {}
  <2>1. i \notin holds[p]
    BY <1>2 DEF Holders
  <2>2. \A r \in live' : i \notin holds'[r]
    <3> SUFFICES ASSUME NEW r \in live' PROVE i \notin holds'[r]
      OBVIOUS
    <3>1. CASE r = q
      BY <3>1, <2>1
    <3>2. CASE r # q
      <4>1. r \in live /\ holds'[r] = holds[r]
        BY <3>2
      <4> QED
        BY <4>1, <1>2 DEF Holders
    <3> QED
      BY <3>1, <3>2
  <2> QED
    BY <2>2 DEF Holders
<1> QED
  BY <1>1, <1>2 DEF Settled

LEMMA ProcessesInv ==
  ASSUME Inv, Processes
  PROVE  Inv'
<1>1. UNCHANGED <<read, reader, exceeded, pc, clock, reaped, reason, signal_error, result>>
  BY DEF Processes, LeaveGroup, Exit, Fork, Write, Close, readers, supervising
<1>2. Settled
  <2>1. ASSUME NEW p \in Procs, LeaveGroup(p) PROVE Settled
    BY <2>1 DEF LeaveGroup, Settled, Holders, Inv, TypeOK
  <2>2. ASSUME NEW p \in Procs, Exit(p) PROVE Settled
    BY <2>2 DEF Exit, Settled, Holders, Inv, TypeOK
  <2>3. ASSUME NEW p \in Procs, NEW q \in Procs, Fork(p, q) PROVE Settled
    BY <2>3, ForkSettled DEF Inv
  <2>4. ASSUME NEW p \in Procs, NEW i \in Pipes, Write(p, i) PROVE Settled
    BY <2>4 DEF Write, Settled, Holders, Inv, TypeOK
  <2>5. ASSUME NEW p \in Procs, NEW i \in Pipes, Close(p, i) PROVE Settled
    BY <2>5 DEF Close, Settled, Holders, Inv, TypeOK
  <2> QED
    BY <2>1, <2>2, <2>3, <2>4, <2>5 DEF Processes
<1>3. TypeOK'
  BY <1>1, <1>2 DEF Settled, Inv, TypeOK
<1>4. EndIsFinal'
  BY <1>1, <1>2 DEF Settled, Inv, EndIsFinal, Ended
<1>5. ReapedEnded'
  BY <1>1, <1>2 DEF Settled, Inv, ReapedEnded
<1>6. ResultReaders'
  BY <1>1 DEF Inv, ResultReaders, Finished, AllEnded
<1> QED
  BY <1>3, <1>4, <1>5, <1>6 DEF Inv

-----------------------------------------------------------------------------
(* The readers: one that has ended takes no further step.                  *)

LEMMA ReadersInv ==
  ASSUME Inv, Readers
  PROVE  Inv'
<1> PICK i \in Pipes : ReadEnd(i) \/ ReadFails(i) \/ \E n \in 1..WriteBound : ReadSome(i, n)
  BY DEF Readers
<1>0. /\ UNCHANGED <<live, group, holds, killed, written, pc, clock, reaped, reason, signal_error, result>>
      /\ reader[i] = "reading"
      /\ \A j \in Pipes \ {i} : reader'[j] = reader[j] /\ read'[j] = read[j]
  BY DEF ReadEnd, ReadFails, ReadSome, processes, supervising, Inv, TypeOK
<1>1. TypeOK'
  <2>1. CASE ReadEnd(i)
    BY <2>1, <1>0 DEF ReadEnd, Inv, TypeOK
  <2>2. CASE ReadFails(i)
    BY <2>2, <1>0 DEF ReadFails, Inv, TypeOK
  <2>3. ASSUME NEW n \in 1..WriteBound, ReadSome(i, n) PROVE TypeOK'
    <3>1. n \in Nat
      BY <2>3, SupervisorAssumption
    <3>2. read' \in [Pipes -> Nat]
      BY <3>1, <2>3 DEF ReadSome, Inv, TypeOK
    <3>3. exceeded' \in BOOLEAN /\ UNCHANGED reader
      BY <2>3 DEF ReadSome
    <3> QED
      BY <3>2, <3>3, <1>0 DEF Inv, TypeOK
  <2> QED
    BY <2>1, <2>2, <2>3
<1>2. EndIsFinal'
  <2> SUFFICES ASSUME NEW j \in Pipes, reader'[j] = "eof" PROVE Ended(j)'
    BY DEF EndIsFinal
  <2>1. CASE j # i
    BY <2>1, <1>0 DEF Inv, EndIsFinal, Ended, Holders
  <2>2. CASE j = i
    <3>1. ReadEnd(i)
      BY <2>2, <1>0 DEF ReadFails, ReadSome, Inv, TypeOK
    <3> QED
      BY <3>1, <2>2, <1>0 DEF ReadEnd, Ended, Holders
  <2> QED
    BY <2>1, <2>2
<1>3. ReapedEnded'
  BY <1>0 DEF Inv, ReapedEnded
<1>4. ResultReaders'
  <2>1. ~AllEnded /\ ~Finished
    BY <1>0 DEF AllEnded, Finished
  <2> QED
    BY <2>1, <1>0 DEF Inv, ResultReaders
<1> QED
  BY <1>1, <1>2, <1>3, <1>4 DEF Inv

-----------------------------------------------------------------------------
(* The supervisor.                                                         *)

LEMMA SuperviseInv ==
  ASSUME Inv, Supervise \/ CallFails \/ Tick
  PROVE  Inv'
<1>0. /\ UNCHANGED <<live, group, holds, written, read, reader, exceeded>>
      /\ killed' \subseteq Procs
  <2>1. CASE SignalKill
    BY <2>1, SupervisorAssumption DEF SignalKill, readers, Inv, TypeOK, Procs
  <2>2. CASE ~SignalKill
    BY <2>2 DEF Supervise, CallFails, Tick, LoadExceeded, Poll, PollFails, CheckDone, CheckDeadline, Join,
        SignalTerm, GracePoll, GraceOver, Wait, WaitFails, Reaped, Drained, DrainOver, processes, readers, Inv, TypeOK
  <2> QED
    BY <2>1, <2>2
<1>1. TypeOK'
  <2>1. /\ reaped' \in BOOLEAN /\ signal_error' \in BOOLEAN
        /\ clock' \in {"early", "late"}
    BY DEF Supervise, CallFails, Tick, LoadExceeded, Poll, PollFails, CheckDone, CheckDeadline, Join,
        SignalTerm, GracePoll, GraceOver, SignalKill, Wait, WaitFails, Reaped, Drained, DrainOver, Return, Inv, TypeOK
  <2>2. /\ reason' \in {"none", "exceeded", "timeout", "poll_error"}
        /\ pc' \in {"load", "poll", "check", "join", "term", "grace", "kill", "wait",
                    "reaped", "drain", "returned"}
    BY DEF Supervise, CallFails, Tick, LoadExceeded, Poll, PollFails, CheckDone, CheckDeadline, Join,
        SignalTerm, GracePoll, GraceOver, SignalKill, Wait, WaitFails, Reaped, Drained, DrainOver, Return,
        Terminate, Inv, TypeOK
  <2>3. result' \in {"none", "ok", "reader_error", "cleanup_failed",
                     "exceeded", "timeout", "poll_error"}
    BY DEF Supervise, CallFails, Tick, LoadExceeded, Poll, PollFails, CheckDone, CheckDeadline, Join,
        SignalTerm, GracePoll, GraceOver, SignalKill, Wait, WaitFails, Reaped, Drained, DrainOver, Return,
        Inv, TypeOK
  <2> QED
    BY <1>0, <2>1, <2>2, <2>3 DEF Inv, TypeOK
<1>2. EndIsFinal'
  BY <1>0 DEF Inv, EndIsFinal, Ended, Holders
<1>3. ReapedEnded'
  <2>1. reaped' => reaped \/ Child \notin live
    BY DEF Supervise, CallFails, Tick, LoadExceeded, Poll, PollFails, CheckDone, CheckDeadline, Join,
        SignalTerm, GracePoll, GraceOver, SignalKill, Wait, WaitFails, Reaped, Drained, DrainOver
  <2>2. /\ pc' \in {"join", "drain"} => reaped'
        /\ pc' = "reaped" => reaped' \/ signal_error'
        /\ pc' = "returned" => reaped' \/ result' = "cleanup_failed"
    BY DEF Supervise, CallFails, Tick, LoadExceeded, Poll, PollFails, CheckDone, CheckDeadline, Join,
        SignalTerm, GracePoll, GraceOver, SignalKill, Wait, WaitFails, Reaped, Drained, DrainOver, Return,
        Terminate, Inv, TypeOK, ReapedEnded
  <2> QED
    BY <2>1, <2>2, <1>0 DEF Inv, ReapedEnded
<1>4. ResultReaders'
  <2>0. UNCHANGED <<Finished, AllEnded>>
    BY <1>0 DEF Finished, AllEnded
  <2>1. CASE Join
    <3>1. Finished /\ pc' = "returned"
      BY <2>1 DEF Join, Return, Inv, ResultReaders
    <3>2. result' \in {"ok", "timeout", "poll_error", "exceeded"} => AllEnded
      BY <3>1, <2>1 DEF Join, Return, SomeFailed, Finished, AllEnded, Inv, TypeOK
    <3>3. result' = "ok" => \A i \in Pipes : read[i] <= MaxOutput
      BY <2>1, SupervisorAssumption DEF Join, Return, OverLimit, Inv, TypeOK
    <3> QED
      BY <3>1, <3>2, <3>3, <2>0, <1>0 DEF ResultReaders
  <2>2. CASE Drained
    <3>1. Finished /\ pc' = "returned" /\ result' # "ok"
      BY <2>2 DEF Drained, Return, Inv, TypeOK
    <3>2. result' \in {"ok", "timeout", "poll_error", "exceeded"} => AllEnded
      BY <3>1, <2>2 DEF Drained, Return, SomeFailed, Finished, AllEnded, Inv, TypeOK
    <3> QED
      BY <3>1, <3>2, <2>0 DEF ResultReaders
  <2>3. CASE CheckDone
    BY <2>3, <2>0, <1>0 DEF CheckDone, Inv, ResultReaders
  <2>4. CASE Reaped \/ DrainOver
    BY <2>4, <2>0, <1>0 DEF Reaped, DrainOver, Return, Inv, ResultReaders
  <2>5. CASE Tick
    BY <2>5, <2>0, <1>0 DEF Tick, Inv, ResultReaders
  <2>6. CASE LoadExceeded \/ Poll \/ PollFails \/ CheckDeadline \/ SignalTerm \/ GracePoll
             \/ GraceOver \/ SignalKill \/ Wait \/ WaitFails
    <3>1. pc' \notin {"join", "returned"} /\ pc # "returned" /\ result' = result
      BY <2>6 DEF LoadExceeded, Poll, PollFails, CheckDeadline, SignalTerm, GracePoll, GraceOver,
          SignalKill, Wait, WaitFails, Terminate
    <3> QED
      BY <3>1, <2>0, <1>0 DEF Inv, ResultReaders
  <2> QED
    BY <2>1, <2>2, <2>3, <2>4, <2>5, <2>6 DEF Supervise, CallFails
<1> QED
  BY <1>1, <1>2, <1>3, <1>4 DEF Inv

LEMMA StutterInv == Inv /\ UNCHANGED vars => Inv'
<1> SUFFICES ASSUME Inv, UNCHANGED vars PROVE Inv'
  OBVIOUS
<1> USE DEF vars, processes, readers
<1>1. TypeOK'
  BY DEF Inv, TypeOK
<1>2. EndIsFinal' /\ ReapedEnded' /\ ResultReaders'
  BY DEF Inv, EndIsFinal, Ended, Holders, ReapedEnded, ResultReaders, Finished, AllEnded
<1> QED
  BY <1>1, <1>2 DEF Inv

\* A reader that has seen the end of its pipe has read all that is ever
\* written to it; the command is reaped only when it has ended, and before
\* the supervisor returns unless the cleanup failed; a result other than an
\* error of the readers or of the cleanup is returned only when both readers
\* have ended.
THEOREM SupervisorInvariance == Spec => []Inv
<1>1. Inv /\ [Next]_vars => Inv'
  BY ProcessesInv, ReadersInv, SuperviseInv, StutterInv DEF Next
<1> QED
  BY InitInv, <1>1, PTL DEF Spec

\* Output that is returned is complete and within the bound, for any number
\* of processes that share the pipes.
THEOREM SupervisorOkComplete == Spec => []OkIsComplete
<1>1. Inv => OkIsComplete
  BY DEF Inv, ResultReaders, AllEnded, EndIsFinal, Ended, OkIsComplete
<1> QED
  BY SupervisorInvariance, <1>1, PTL

\* Unless the cleanup failed the command has been reaped, and a timeout or an
\* overflow is reported only when no process holds a pipe and no reader runs.
THEOREM SupervisorNothingLeft == Spec => []NothingLeft
<1>1. Inv => NothingLeft
  <2> SUFFICES ASSUME Inv, pc = "returned", result # "cleanup_failed" PROVE NothingLeft
    BY DEF NothingLeft
  <2>1. reaped /\ Child \notin live
    BY DEF Inv, ReapedEnded
  <2>2. ASSUME result \in {"exceeded", "timeout", "poll_error"}, NEW i \in Pipes
        PROVE  reader[i] # "reading" /\ Holders(i) = {}
    <3>1. reader[i] = "eof"
      BY <2>2 DEF Inv, ResultReaders, AllEnded
    <3> QED
      BY <3>1 DEF Inv, EndIsFinal, Ended
  <2> QED
    BY <2>1, <2>2 DEF NothingLeft
<1> QED
  BY SupervisorInvariance, <1>1, PTL

-----------------------------------------------------------------------------

Places == {"start", "create", "write", "seal", "sync", "returned", "stopped"}

PromotionTypeOK ==
    /\ directory \in BOOLEAN
    /\ author \in [Files -> Writers \cup {NoWriter}]
    /\ whole \subseteq Files /\ synced \subseteq Files /\ listed \subseteq Files
    /\ stage \in [Writers -> Places]
    /\ position \in [Writers -> 1 .. 4]
    /\ lost \in BOOLEAN

\* A writer that still has something to do in the directory.
Active(w) == stage[w] \in {"create", "write", "seal", "sync"}

\* Only who created the directory writes in it, and a power loss ends that.
OneWriter ==
    /\ \A w, v \in Writers : Active(w) /\ Active(v) => w = v
    /\ \A w \in Writers : Active(w) => directory /\ ~lost
    /\ \A w \in Writers : stage[w] = "start" => position[w] = 1
    /\ ~directory => whole = {} /\ \A f \in Files : author[f] = NoWriter

\* The active writer's files up to its place are its own and finished; the
\* one it is at is as far as the place says, and the later ones do not exist.
Done(w, f) == author[f] = w /\ f \in whole /\ f \in synced
Behind(w, k) == k < position[w] \/ stage[w] = "sync"

Progress ==
    \A w \in Writers : Active(w) =>
        /\ \A k \in 1 .. 4 : Behind(w, k) => Done(w, Order[k])
        /\ \A k \in 1 .. 4 : ~Behind(w, k) /\ (k # position[w] \/ stage[w] = "create")
                                => author[Order[k]] = NoWriter
        /\ stage[w] \in {"write", "seal"} => author[Current(w)] = w
        /\ stage[w] = "seal" => Current(w) \in whole

\* Without a power loss a marker is enough.
MarkedComplete == Marker \in whole /\ ~lost => Complete

\* What an invocation that has returned left under its marker is durable.
ReturnedDurable ==
    \A w \in Writers : stage[w] = "returned" /\ author[Marker] = w =>
        directory /\ \A f \in Files : Done(w, f) /\ f \in listed

PromotionInv ==
    PromotionTypeOK /\ OneWriter /\ Progress /\ MarkedComplete /\ ReturnedDurable

\* The order of the files names each file once, the marker last.
LEMMA OrderFacts ==
    /\ Len(Order) = 4 /\ Order[4] = Marker
    /\ \A k \in 1 .. 4 : Order[k] \in Files
    /\ \A f \in Files : \E k \in 1 .. 4 : f = Order[k]
    /\ \A j, k \in 1 .. 4 : Order[j] = Order[k] => j = k
<1>1. /\ Len(Order) = 4 /\ Order[1] = "source" /\ Order[2] = "receipt" /\ Order[3] = "sums"
      /\ Order[4] = Marker
  BY DEF Order
<1>2. \A k \in 1 .. 4 : k = 1 \/ k = 2 \/ k = 3 \/ k = 4
  OBVIOUS
<1>3. 1 \in 1 .. 4 /\ 2 \in 1 .. 4 /\ 3 \in 1 .. 4 /\ 4 \in 1 .. 4
  OBVIOUS
<1> QED
  BY <1>1, <1>2, <1>3 DEF Marker, Files

LEMMA PromotionInitInv == PromotionInit => PromotionInv
<1> SUFFICES ASSUME PromotionInit PROVE PromotionInv
  OBVIOUS
<1>1. PromotionTypeOK
  <2>1. stage \in [Writers -> Places] /\ position \in [Writers -> 1 .. 4]
    BY DEF PromotionInit, Places
  <2>2. author \in [Files -> Writers \cup {NoWriter}]
    BY DEF PromotionInit
  <2> QED
    BY <2>1, <2>2 DEF PromotionInit, PromotionTypeOK
<1>2. \A w \in Writers : stage[w] = "start" /\ position[w] = 1
  BY DEF PromotionInit
<1>3. OneWriter /\ Progress
  BY <1>2 DEF PromotionInit, OneWriter, Progress, Active
<1>4. MarkedComplete /\ ReturnedDurable
  BY <1>2 DEF PromotionInit, MarkedComplete, ReturnedDurable
<1> QED
  BY <1>1, <1>3, <1>4 DEF PromotionInv

LEMMA CreateDirectoryInv ==
    ASSUME PromotionInv, NEW w \in Writers, CreateDirectory(w) PROVE PromotionInv'
<1> USE DEF CreateDirectory, Goto
<1>1. PromotionTypeOK'
  BY DEF PromotionInv, PromotionTypeOK, Places
<1>2. /\ \A v \in Writers : ~Active(v)
      /\ \A v \in Writers : Active(v)' => v = w
      /\ stage'[w] = "create" /\ position'[w] = 1
  BY DEF PromotionInv, OneWriter, Active, PromotionTypeOK
<1>3. OneWriter'
  BY <1>2 DEF PromotionInv, OneWriter, Active, PromotionTypeOK
<1>4. Progress'
  BY <1>2, OrderFacts DEF PromotionInv, OneWriter, Active, Progress, Behind
<1>5. MarkedComplete' /\ ReturnedDurable'
  BY PromotionAssumption DEF PromotionInv, OneWriter, MarkedComplete, ReturnedDurable, Files, Marker
<1> QED
  BY <1>1, <1>3, <1>4, <1>5 DEF PromotionInv

\* A complete directory has no room for a file that is only created where
\* there is none.
LEMMA CreateFileInv ==
    ASSUME PromotionInv, NEW w \in Writers, CreateFile(w) PROVE PromotionInv'
<1> USE DEF CreateFile, Goto
<1> DEFINE c == Current(w)
<1>1. /\ position[w] \in 1 .. 4 /\ c \in Files /\ Active(w)
      /\ \A v \in Writers : Active(v)' => v = w
      /\ stage'[w] = "write" /\ Current(w)' = c
  BY OrderFacts DEF PromotionInv, OneWriter, Active, PromotionTypeOK, Current
<1>2. PromotionTypeOK'
  BY <1>1 DEF PromotionInv, PromotionTypeOK, Places
<1>3. OneWriter'
  BY <1>1 DEF PromotionInv, OneWriter, Active, PromotionTypeOK
<1>4. author'[c] = w /\ \A f \in Files : f # c => author'[f] = author[f]
  BY <1>1 DEF PromotionInv, PromotionTypeOK
<1>5. Progress'
  <2> SUFFICES /\ \A k \in 1 .. 4 : Behind(w, k)' => Done(w, Order[k])'
               /\ \A k \in 1 .. 4 : ~Behind(w, k)' /\ k # position[w] => author'[Order[k]] = NoWriter
    BY <1>1, <1>4 DEF Progress
  <2>1. ASSUME NEW k \in 1 .. 4, k # position[w]
        PROVE  Order[k] \in Files /\ Order[k] # c
    BY <2>1, <1>1, OrderFacts DEF Current
  <2>2. ASSUME NEW k \in 1 .. 4 PROVE Behind(w, k)' <=> Behind(w, k)
    BY <1>1 DEF Behind
  <2>3. ~Behind(w, position[w])
    BY <1>1 DEF Behind
  <2> QED
    BY <1>1, <1>4, <2>1, <2>2, <2>3 DEF PromotionInv, Progress, Done
<1>6. MarkedComplete'
  BY <1>1, PromotionAssumption DEF PromotionInv, MarkedComplete, Complete
<1>7. ReturnedDurable'
  <2> SUFFICES ASSUME NEW v \in Writers, stage'[v] = "returned", author'[Marker] = v PROVE FALSE
    BY DEF ReturnedDurable
  <2>1. v # w /\ stage[v] = "returned"
    BY <1>1 DEF PromotionInv, PromotionTypeOK
  <2>2. author[Marker] = v
    BY <2>1, <1>4 DEF Files, Marker
  <2> QED
    BY <2>1, <2>2, <1>1, PromotionAssumption DEF PromotionInv, ReturnedDurable, Done
<1> QED
  BY <1>2, <1>3, <1>5, <1>6, <1>7 DEF PromotionInv

LEMMA WriteFileInv ==
    ASSUME PromotionInv, NEW w \in Writers, WriteFile(w) PROVE PromotionInv'
<1> USE DEF WriteFile, Goto
<1>1. /\ position[w] \in 1 .. 4 /\ Current(w) \in Files /\ Active(w) /\ ~lost
      /\ \A v \in Writers : Active(v)' => v = w
      /\ stage'[w] = "seal" /\ Current(w)' = Current(w)
      /\ \A v \in Writers : v # w => stage'[v] = stage[v]
  BY OrderFacts DEF PromotionInv, OneWriter, Active, PromotionTypeOK, Current
<1>2. PromotionTypeOK'
  BY <1>1 DEF PromotionInv, PromotionTypeOK, Places
<1>3. OneWriter'
  BY <1>1 DEF PromotionInv, OneWriter, Active, PromotionTypeOK
<1>4. ASSUME NEW k \in 1 .. 4 PROVE Behind(w, k)' <=> Behind(w, k)
  BY <1>1 DEF Behind
<1>5. Progress'
  BY <1>1, <1>4 DEF PromotionInv, Progress, Done
<1>6. MarkedComplete'
  <2>1. CASE position[w] = 4
    <3>1. \A k \in 1 .. 4 : k # 4 => Done(w, Order[k])
      BY <1>1, <2>1 DEF PromotionInv, Progress, Behind
    <3>2. author[Order[4]] = w /\ Order[4] \in whole'
      BY <1>1, <2>1 DEF PromotionInv, Progress, Current
    <3>3. \A k \in 1 .. 4 : author'[Order[k]] = w /\ Order[k] \in whole'
      BY <3>1, <3>2 DEF Done
    <3> QED
      BY <3>3, OrderFacts DEF MarkedComplete, Complete
  <2>2. CASE position[w] # 4
    <3>1. Current(w) # Marker
      BY <1>1, <2>2, OrderFacts DEF Current
    <3> QED
      BY <3>1 DEF PromotionInv, MarkedComplete, Complete
  <2> QED
    BY <2>1, <2>2
<1>7. ReturnedDurable'
  BY <1>1 DEF PromotionInv, ReturnedDurable, Done
<1> QED
  BY <1>2, <1>3, <1>5, <1>6, <1>7 DEF PromotionInv

LEMMA SealFileInv ==
    ASSUME PromotionInv, NEW w \in Writers, SealFile(w) PROVE PromotionInv'
<1> USE DEF SealFile, Goto
<1>1. /\ position[w] \in 1 .. 4 /\ Current(w) \in Files /\ Active(w)
      /\ \A v \in Writers : Active(v)' => v = w
      /\ \A v \in Writers : v # w => stage'[v] = stage[v] /\ position'[v] = position[v]
      /\ stage'[w] \in {"create", "sync"}
      /\ stage'[w] = "sync" => position[w] = 4
      /\ stage'[w] = "create" => position[w] \in 1 .. 3 /\ position'[w] = position[w] + 1
  BY OrderFacts DEF PromotionInv, OneWriter, Active, PromotionTypeOK, Current
<1>2. PromotionTypeOK'
  BY <1>1, OrderFacts DEF PromotionInv, PromotionTypeOK, Places
<1>3. OneWriter'
  BY <1>1 DEF PromotionInv, OneWriter, Active, PromotionTypeOK
<1>4. author'[Current(w)] = w /\ Current(w) \in whole' /\ Current(w) \in synced'
  BY <1>1 DEF PromotionInv, Progress
<1>5. ASSUME NEW k \in 1 .. 4
      PROVE  Behind(w, k)' <=> Behind(w, k) \/ k = position[w]
  BY <1>1 DEF Behind
<1>6. \A k \in 1 .. 4 : Behind(w, k)' => Done(w, Order[k])'
  BY <1>1, <1>4, <1>5 DEF PromotionInv, Progress, Done, Current
<1>7. \A k \in 1 .. 4 : ~Behind(w, k)' => author'[Order[k]] = NoWriter
  BY <1>1, <1>5 DEF PromotionInv, Progress
<1>8. Progress'
  BY <1>1, <1>6, <1>7 DEF Progress
<1>9. MarkedComplete' /\ ReturnedDurable'
  BY <1>1 DEF PromotionInv, MarkedComplete, Complete, ReturnedDurable, Done
<1> QED
  BY <1>2, <1>3, <1>8, <1>9 DEF PromotionInv

LEMMA SyncDirectoryInv ==
    ASSUME PromotionInv, NEW w \in Writers, SyncDirectory(w) PROVE PromotionInv'
<1> USE DEF SyncDirectory, Goto
<1>1. /\ Active(w) /\ directory
      /\ \A v \in Writers : ~Active(v)'
      /\ \A v \in Writers : v # w => stage'[v] = stage[v]
      /\ stage'[w] = "returned"
  BY DEF PromotionInv, OneWriter, Active, PromotionTypeOK
<1>2. PromotionTypeOK'
  BY <1>1 DEF PromotionInv, PromotionTypeOK, Places
<1>3. OneWriter' /\ Progress' /\ MarkedComplete'
  BY <1>1 DEF PromotionInv, OneWriter, Progress, MarkedComplete, Complete
<1>4. \A f \in Files : Done(w, f)
  BY <1>1, OrderFacts DEF PromotionInv, Progress, Behind
<1>5. \A f \in Files : f \in listed'
  BY <1>4, PromotionAssumption DEF Done
<1>6. ReturnedDurable'
  BY <1>1, <1>4, <1>5 DEF ReturnedDurable, Done, Files, Marker
<1> QED
  BY <1>2, <1>3, <1>6 DEF PromotionInv

LEMMA StopInv ==
    ASSUME PromotionInv, NEW w \in Writers, Stop(w) PROVE PromotionInv'
<1> USE DEF Stop, Goto, disk
<1>1. /\ stage'[w] = "stopped" /\ ~Active(w)'
      /\ \A v \in Writers : v # w => stage'[v] = stage[v] /\ (Active(v)' <=> Active(v))
  BY DEF PromotionInv, Active, PromotionTypeOK
<1>2. PromotionTypeOK'
  BY <1>1 DEF PromotionInv, PromotionTypeOK, Places
<1>3. OneWriter' /\ MarkedComplete' /\ ReturnedDurable'
  BY <1>1 DEF PromotionInv, OneWriter, MarkedComplete, Complete, ReturnedDurable, Done
<1>4. Progress'
  BY <1>1 DEF PromotionInv, Progress, Behind, Done, Current
<1> QED
  BY <1>2, <1>3, <1>4 DEF PromotionInv

LEMMA WriteBackInv ==
    ASSUME PromotionInv, NEW f \in Files, WriteBack(f) PROVE PromotionInv'
<1> USE DEF WriteBack
<1>1. PromotionTypeOK'
  BY DEF PromotionInv, PromotionTypeOK, Places
<1>2. OneWriter' /\ MarkedComplete' /\ ReturnedDurable'
  BY DEF PromotionInv, OneWriter, Active, MarkedComplete, Complete, ReturnedDurable, Done
<1>3. Progress'
  BY DEF PromotionInv, Progress, Active, Behind, Done, Current
<1> QED
  BY <1>1, <1>2, <1>3 DEF PromotionInv

\* Nobody goes on after a power loss, and what a returned invocation left is
\* either all there or gone with its directory.
LEMMA PowerLossInv ==
    ASSUME PromotionInv, PowerLoss PROVE PromotionInv'
<1> USE DEF PowerLoss
<1>1. /\ \A w \in Writers : stage'[w] \in {"start", "returned", "stopped"} /\ ~Active(w)'
      /\ \A w \in Writers : stage'[w] \in {"start", "returned"} => stage'[w] = stage[w]
      /\ \A f \in Files : author'[f] = IF directory' /\ f \in listed THEN author[f] ELSE NoWriter
  BY DEF Active
<1>2. PromotionTypeOK'
  <2>1. stage' \in [Writers -> Places]
    BY DEF PromotionInv, PromotionTypeOK, Places
  <2>2. author' \in [Files -> Writers \cup {NoWriter}]
    BY <1>1 DEF PromotionInv, PromotionTypeOK
  <2> QED
    BY <2>1, <2>2 DEF PromotionInv, PromotionTypeOK
<1>3. OneWriter' /\ Progress' /\ MarkedComplete'
  BY <1>1 DEF PromotionInv, OneWriter, Progress, MarkedComplete
<1>4. ReturnedDurable'
  <2> SUFFICES ASSUME NEW w \in Writers, stage'[w] = "returned", author'[Marker] = w
               PROVE  directory' /\ \A f \in Files : Done(w, f)' /\ f \in listed'
    BY DEF ReturnedDurable
  <2>1. directory' /\ stage[w] = "returned" /\ author[Marker] = w
    BY <1>1, PromotionAssumption DEF Files, Marker
  <2> QED
    BY <1>1, <2>1 DEF PromotionInv, ReturnedDurable, Done
<1> QED
  BY <1>2, <1>3, <1>4 DEF PromotionInv

\* The inductive invariant of the transaction.
THEOREM PromotionInvariance == PromotionSpec => []PromotionInv
<1>1. PromotionInv /\ [PromotionNext]_promotion_vars => PromotionInv'
  <2> SUFFICES ASSUME PromotionInv, [PromotionNext]_promotion_vars PROVE PromotionInv'
    OBVIOUS
  <2>1. CASE \E w \in Writers : CreateDirectory(w) \/ CreateFile(w) \/ WriteFile(w)
                                  \/ SealFile(w) \/ SyncDirectory(w) \/ Stop(w)
    BY <2>1, CreateDirectoryInv, CreateFileInv, WriteFileInv, SealFileInv, SyncDirectoryInv, StopInv
  <2>2. CASE \E f \in Files : WriteBack(f)
    BY <2>2, WriteBackInv
  <2>3. CASE PowerLoss
    BY <2>3, PowerLossInv
  <2>4. CASE UNCHANGED promotion_vars
    <3>1. PromotionTypeOK' /\ OneWriter' /\ Progress'
      BY <2>4 DEF promotion_vars, PromotionInv, PromotionTypeOK, OneWriter, Progress, Active,
                  Behind, Done, Current
    <3>2. MarkedComplete' /\ ReturnedDurable'
      BY <2>4 DEF promotion_vars, PromotionInv, MarkedComplete, Complete, ReturnedDurable, Done
    <3> QED
      BY <3>1, <3>2 DEF PromotionInv
  <2> QED
    BY <2>1, <2>2, <2>3, <2>4 DEF PromotionNext
<1> QED
  BY PromotionInitInv, <1>1, PTL DEF PromotionSpec

\* For any number of competing invocations, with errors, deaths and power
\* losses anywhere: a directory with a marker is complete and of one
\* invocation; after a power loss, when that invocation had returned.
THEOREM PromotionCommitIsWhole == PromotionSpec => []CommitIsWhole
<1>1. PromotionInv => CommitIsWhole
  BY DEF PromotionInv, MarkedComplete, ReturnedDurable, Done, Complete, CommitIsWhole
<1> QED
  BY PromotionInvariance, <1>1, PTL
===============================================================================
