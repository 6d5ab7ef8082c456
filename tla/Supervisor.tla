------------------------------ MODULE Supervisor ------------------------------
(***************************************************************************)
(* supervised_command_output_with_limit: a command is run in a process     *)
(* group of its own, two threads read its pipes up to a bound, and one     *)
(* thread polls the command, the readers and a deadline.  On any failure   *)
(* the group is terminated, the command reaped and the readers are waited  *)
(* for.                                                                    *)
(*                                                                         *)
(* The kernel is modelled from how this code uses it: a pipe ends for its  *)
(* reader when no live process holds it; a process may ignore TERM, leave  *)
(* the group, or hand its pipes to a descendant; KILL is final.  Bytes are *)
(* counted.  Each timed loop has one clock, early until its time is up.    *)
(***************************************************************************)
EXTENDS Integers, FiniteSets

CONSTANTS
    Child,          \* the command
    Descendants,    \* the processes it may start
    MaxOutput,      \* maximum_output_bytes
    WriteBound      \* bytes written to a pipe in a run

ASSUME SupervisorAssumption ==
    /\ Child \notin Descendants
    /\ MaxOutput \in Nat \ {0}
    /\ WriteBound \in Nat

Procs == {Child} \cup Descendants
Pipes == {"stdout", "stderr"}

VARIABLES
    live,       \* running processes
    group,      \* processes in the process group, dead or alive
    holds,      \* write ends of the pipes a process holds
    killed,     \* processes that KILL has reached
    written, read,   \* bytes written to and read from each pipe
    reader,     \* "reading", "eof" or "failed"
    exceeded,   \* the flag the readers share with the supervisor
    pc, clock,  \* the supervisor's place and its running timer
    reaped,     \* the command's status was collected
    reason,     \* why the group is being terminated
    signal_error,    \* first_error of terminate_process_group_and_reap
    result

processes == <<live, group, holds, killed, written>>
readers == <<read, reader, exceeded>>
vars == <<processes, readers, pc, clock, reaped, reason, signal_error, result>>

\* The command was spawned and both readers started.
Init ==
    /\ live = {Child}
    /\ group = {Child}
    /\ holds = [p \in Procs |-> IF p = Child THEN Pipes ELSE {}]
    /\ killed = {}
    /\ written = [i \in Pipes |-> 0]
    /\ read = [i \in Pipes |-> 0]
    /\ reader = [i \in Pipes |-> "reading"]
    /\ exceeded = FALSE
    /\ pc = "load" /\ clock = "early"
    /\ reaped = FALSE
    /\ reason = "none" /\ signal_error = FALSE
    /\ result = "none"

-----------------------------------------------------------------------------
(* The processes.                                                          *)

supervising == <<pc, clock, reaped, reason, signal_error, result>>

Fork(p, q) ==
    /\ p \in live \ killed
    /\ q \in Descendants \ live
    /\ holds[q] = {} /\ q \notin killed \cup group
    /\ live' = live \cup {q}
    /\ group' = IF p \in group THEN group \cup {q} ELSE group
    /\ holds' = [holds EXCEPT ![q] = holds[p]]
    /\ UNCHANGED <<killed, written, readers, supervising>>

\* A descendant starts a session of its own.
LeaveGroup(p) ==
    /\ p \in (live \cap group) \ {Child}
    /\ p \notin killed
    /\ group' = group \ {p}
    /\ UNCHANGED <<live, holds, killed, written, readers, supervising>>

Write(p, i) ==
    /\ p \in live
    /\ i \in holds[p]
    /\ reader[i] = "reading"
    /\ written[i] < WriteBound
    /\ written' = [written EXCEPT ![i] = @ + 1]
    /\ UNCHANGED <<live, group, holds, killed, readers, supervising>>

Close(p, i) ==
    /\ p \in live
    /\ i \in holds[p]
    /\ holds' = [holds EXCEPT ![p] = @ \ {i}]
    /\ UNCHANGED <<live, group, killed, written, readers, supervising>>

Exit(p) ==
    /\ p \in live
    /\ live' = live \ {p}
    /\ UNCHANGED <<group, holds, killed, written, readers, supervising>>

-----------------------------------------------------------------------------
(* The two reader threads.                                                 *)

Holders(i) == {p \in live : i \in holds[p]}

\* One read of n bytes; those over the bound are dropped and flagged, but
\* the pipe is drained further.
ReadSome(i, n) ==
    /\ reader[i] = "reading"
    /\ n \in 1..(written[i] - read[i])
    /\ read' = [read EXCEPT ![i] = @ + n]
    /\ exceeded' = (exceeded \/ read[i] + n > MaxOutput)
    /\ UNCHANGED <<processes, reader, supervising>>

ReadEnd(i) ==
    /\ reader[i] = "reading"
    /\ read[i] = written[i]
    /\ Holders(i) = {}
    /\ reader' = [reader EXCEPT ![i] = "eof"]
    /\ UNCHANGED <<processes, read, exceeded, supervising>>

ReadFails(i) ==
    /\ reader[i] = "reading"
    /\ reader' = [reader EXCEPT ![i] = "failed"]
    /\ UNCHANGED <<processes, read, exceeded, supervising>>

Finished == \A i \in Pipes : reader[i] # "reading"
SomeFailed == \E i \in Pipes : reader[i] = "failed"
OverLimit == \E i \in Pipes : read[i] > MaxOutput

-----------------------------------------------------------------------------
(* The polling loop.                                                       *)

Tick ==
    /\ pc # "returned"
    /\ clock = "early"
    /\ clock' = "late"
    /\ UNCHANGED <<processes, readers, pc, reaped, reason, signal_error, result>>

Terminate(why) == pc' = "term" /\ reason' = why

Return(outcome) == pc' = "returned" /\ result' = outcome

LoadExceeded ==
    /\ pc = "load"
    /\ IF exceeded THEN Terminate("exceeded") ELSE pc' = "poll" /\ UNCHANGED reason
    /\ UNCHANGED <<processes, readers, clock, reaped, signal_error, result>>

\* child.try_wait() unless the status is known.
Poll ==
    /\ pc = "poll"
    /\ pc' = "check"
    /\ reaped' = (reaped \/ Child \notin live)
    /\ UNCHANGED <<processes, readers, clock, reason, signal_error, result>>

PollFails ==
    /\ pc = "poll"
    /\ ~reaped
    /\ Terminate("poll_error")
    /\ UNCHANGED <<processes, readers, clock, reaped, signal_error, result>>

\* Bug: the readers are joined, deadline or not, once the command has ended.
CheckDoneStatusOnly ==
    /\ pc = "check"
    /\ reaped
    /\ pc' = "join"
    /\ UNCHANGED <<processes, readers, clock, reaped, reason, signal_error, result>>

CheckDone ==
    /\ pc = "check"
    /\ reaped /\ Finished
    /\ pc' = "join"
    /\ UNCHANGED <<processes, readers, clock, reaped, reason, signal_error, result>>

CheckDeadline ==
    /\ pc = "check"
    /\ ~(reaped /\ Finished)
    /\ IF clock = "late" THEN Terminate("timeout") ELSE pc' = "load" /\ UNCHANGED reason
    /\ UNCHANGED <<processes, readers, clock, reaped, signal_error, result>>

\* Bug: a failed read is taken for the end of the pipe.
JoinReadErrors ==
    /\ pc = "join"
    /\ Finished
    /\ Return(IF OverLimit THEN "exceeded" ELSE "ok")
    /\ UNCHANGED <<processes, readers, clock, reaped, reason, signal_error>>

\* JoinHandle::join blocks until its reader has ended; the first error or
\* overflow decides.
Join ==
    /\ pc = "join"
    /\ Finished
    /\ Return(IF SomeFailed THEN "reader_error" ELSE IF OverLimit THEN "exceeded" ELSE "ok")
    /\ UNCHANGED <<processes, readers, clock, reaped, reason, signal_error>>

-----------------------------------------------------------------------------
(* cleanup_supervised_failure.                                             *)

\* /bin/kill is waited for with a deadline of its own: it may fail before or
\* after it reached the group.  TERM may be ignored, so only KILL is state.
SignalTerm ==
    /\ pc = "term"
    /\ pc' = "grace" /\ clock' = "early"
    /\ signal_error' \in BOOLEAN
    /\ UNCHANGED <<processes, readers, reaped, reason, result>>

\* A poll of the command within the grace period; an error is kept.
GracePoll ==
    /\ pc = "grace"
    /\ clock = "early"
    /\ ~reaped
    /\ \/ reaped' = (Child \notin live) /\ UNCHANGED signal_error
       \/ signal_error' = TRUE /\ UNCHANGED reaped
    /\ UNCHANGED <<processes, readers, pc, clock, reason, result>>

GraceOver ==
    /\ pc = "grace"
    /\ clock = "late"
    /\ pc' = "kill"
    /\ UNCHANGED <<processes, readers, clock, reaped, reason, signal_error, result>>

\* Bug: the command itself is left to the signal for its group.
SignalKillGroupOnly ==
    /\ pc = "kill"
    /\ \E reached, fails \in BOOLEAN :
        /\ killed' = killed \cup (IF reached THEN group \cap live ELSE {})
        /\ signal_error' = (signal_error \/ fails)
    /\ pc' = IF reaped THEN "reaped" ELSE "wait"
    /\ UNCHANGED <<live, group, holds, written, readers, clock, reaped, reason, result>>

\* KILL for the group, then Child::kill when the command was not reaped.
SignalKill ==
    /\ pc = "kill"
    /\ \E reached, fails \in BOOLEAN :
        /\ killed' = killed \cup (IF reached THEN group \cap live ELSE {})
                            \cup (IF reaped THEN {} ELSE {Child} \cap live)
        /\ signal_error' = (signal_error \/ fails)
    /\ pc' = IF reaped THEN "reaped" ELSE "wait"
    /\ UNCHANGED <<live, group, holds, written, readers, clock, reaped, reason, result>>

\* Child::wait blocks until the command has ended.
Wait ==
    /\ pc = "wait"
    /\ Child \notin live
    /\ reaped' = TRUE
    /\ pc' = "reaped"
    /\ UNCHANGED <<processes, readers, clock, reason, signal_error, result>>

WaitFails ==
    /\ pc = "wait"
    /\ signal_error' = TRUE
    /\ pc' = "reaped"
    /\ UNCHANGED <<processes, readers, clock, reaped, reason, result>>

\* Bug: the cleanup does not wait for the readers.
ReapedUnchecked ==
    /\ pc = "reaped"
    /\ Return(IF signal_error THEN "cleanup_failed" ELSE reason)
    /\ UNCHANGED <<processes, readers, clock, reaped, reason, signal_error>>

Reaped ==
    /\ pc = "reaped"
    /\ IF signal_error
       THEN Return("cleanup_failed") /\ UNCHANGED clock
       ELSE pc' = "drain" /\ clock' = "early" /\ UNCHANGED result
    /\ UNCHANGED <<processes, readers, reaped, reason, signal_error>>

Drained ==
    /\ pc = "drain"
    /\ Finished
    /\ Return(IF SomeFailed THEN "cleanup_failed" ELSE reason)
    /\ UNCHANGED <<processes, readers, clock, reaped, reason, signal_error>>

\* A reader is still at it: some process outside the group holds the pipe.
DrainOver ==
    /\ pc = "drain"
    /\ ~Finished
    /\ clock = "late"
    /\ Return("cleanup_failed")
    /\ UNCHANGED <<processes, readers, clock, reaped, reason, signal_error>>

-----------------------------------------------------------------------------

Processes ==
    \/ \E p \in Procs : LeaveGroup(p) \/ Exit(p)
    \/ \E p, q \in Procs : Fork(p, q)
    \/ \E p \in Procs, i \in Pipes : Write(p, i) \/ Close(p, i)

Readers ==
    \E i \in Pipes : ReadEnd(i) \/ ReadFails(i) \/ \E n \in 1..WriteBound : ReadSome(i, n)

Supervise ==
    \/ LoadExceeded \/ Poll \/ CheckDone \/ CheckDeadline \/ Join
    \/ SignalTerm \/ GracePoll \/ GraceOver \/ SignalKill \/ Wait
    \/ Reaped \/ Drained \/ DrainOver

\* A failure of the calls that wait for the command, which nothing forces.
CallFails == PollFails \/ WaitFails

Next == Processes \/ Readers \/ Supervise \/ CallFails \/ Tick

Spec == Init /\ [][Next]_vars

\* The supervisor runs, time passes, and a killed process ends.  Nothing is
\* assumed of the command, its descendants or the readers.
Fairness ==
    /\ WF_vars(Supervise)
    /\ WF_vars(Tick)
    /\ \A p \in Procs : WF_vars(p \in killed /\ Exit(p))

FairSpec == Spec /\ Fairness

-----------------------------------------------------------------------------

TypeOK ==
    /\ live \subseteq Procs /\ group \subseteq Procs /\ killed \subseteq Procs
    /\ holds \in [Procs -> SUBSET Pipes]
    /\ written \in [Pipes -> Nat] /\ read \in [Pipes -> Nat]
    /\ reader \in [Pipes -> {"reading", "eof", "failed"}]
    /\ exceeded \in BOOLEAN /\ reaped \in BOOLEAN /\ signal_error \in BOOLEAN
    /\ pc \in {"load", "poll", "check", "join", "term", "grace", "kill", "wait",
               "reaped", "drain", "returned"}
    /\ clock \in {"early", "late"}
    /\ reason \in {"none", "exceeded", "timeout", "poll_error"}
    /\ result \in {"none", "ok", "reader_error", "cleanup_failed",
                   "exceeded", "timeout", "poll_error"}

\* Output that is returned is all that the command and every process it
\* handed its pipes to have written, and it is within the bound: nobody can
\* still add to it.
OkIsComplete ==
    result = "ok" =>
        \A i \in Pipes : /\ read[i] = written[i]
                         /\ read[i] <= MaxOutput
                         /\ Holders(i) = {}

\* Whatever is returned but a failed cleanup, the command has ended and was
\* reaped; and a timeout, an overflow or a failed poll is reported only when
\* it has left no process with a pipe and no reader behind: a failed signal
\* with a live pipe holder is never mistaken for a successful cleanup.
NothingLeft ==
    pc = "returned" /\ result # "cleanup_failed" =>
        /\ reaped /\ Child \notin live
        /\ result \in {"exceeded", "timeout", "poll_error"} =>
              \A i \in Pipes : reader[i] # "reading" /\ Holders(i) = {}

\* The supervisor returns although the command never ends, ignores TERM,
\* floods a pipe, or leaves a descendant behind that keeps the pipes open.
Returns == <>(pc = "returned")
===============================================================================
