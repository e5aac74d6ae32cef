----------------------------- MODULE ProcessKill ----------------------------
(***************************************************************************)
(* Stopping one gateway process (src/cmd/frkrup/cleanup.go,                *)
(* killProcessWithTimeout and what it calls).                              *)
(*                                                                         *)
(* Several goroutines may stop the same exec.Cmd at a time: the worker of  *)
(* the handler's clean-up, the worker of the main goroutine's clean-up and *)
(* killProcess in setupLocal.  Each sends SIGTERM, waits for the grace     *)
(* period, then sends SIGKILL by PID up to MaxKillRetries times, looking   *)
(* at the PID before and after.  Independently of them exec.CommandContext *)
(* kills the process when its context is cancelled.                        *)
(*                                                                         *)
(* A process that has ended keeps its PID, and answers signal 0, until one *)
(* cmd.Wait has collected it; after that the PID may be given to another   *)
(* process.                                                                *)
(***************************************************************************)
EXTENDS Integers

CONSTANTS
    Killers,         \* concurrent calls of killProcessWithTimeout
    Bounded,         \* those whose context has a deadline (CleanupLocal)
    MaxKillRetries,  \* maxKillRetries
    Cancellable,     \* the context the process was started with is cancelled
    PidReuse         \* the kernel may hand out the PID again

ASSUME BoundedAssumption == Bounded \subseteq Killers
ASSUME RetriesAssumption == MaxKillRetries \in Nat \ {0}
ASSUME SwitchAssumption == Cancellable \in BOOLEAN /\ PidReuse \in BOOLEAN

VARIABLES
    proc,      \* the process behind the PID
    sigkilled, \* SIGKILL was sent to our process
    cancelled, \* the context of the process is cancelled
    waiting,   \* calls with a goroutine in cmd.Wait
    expired,   \* calls whose deadline has passed
    pc,        \* where each call is
    attempt,   \* the loop counter of killProcessWithRetries
    result,    \* what each call returned
    graceOver  \* calls whose grace period has elapsed (history)

vars == <<proc, sigkilled, cancelled, waiting, expired, pc, attempt, result, graceOver>>
processVars == <<proc, sigkilled, cancelled>>

TypeOK ==
    /\ proc \in {"running", "zombie", "reaped", "reused"}
    /\ sigkilled \in BOOLEAN
    /\ cancelled \in BOOLEAN
    /\ waiting \subseteq Killers
    /\ expired \subseteq Bounded
    /\ pc \in [Killers -> {"terminate", "grace", "check", "kill", "interval", "returned"}]
    /\ attempt \in [Killers -> 1..MaxKillRetries + 1]
    /\ result \in [Killers -> {"none", "stopped", "gaveUp"}]
    /\ graceOver \subseteq Killers

Init ==
    /\ proc = "running"
    /\ sigkilled = FALSE
    /\ cancelled = FALSE
    /\ waiting = {}
    /\ expired = {}
    /\ pc = [k \in Killers |-> "terminate"]
    /\ attempt = [k \in Killers |-> 1]
    /\ result = [k \in Killers |-> "none"]
    /\ graceOver = {}

-----------------------------------------------------------------------------
(* The process and the kernel.                                             *)

\* os.FindProcess and signal 0: the PID exists and may be signalled.
\* A PID that a process of another user has taken over reads as vanished.
IsProcessRunning == proc # "reaped"

\* The handle of the exec.Cmd knows that the process was collected.
Collected == proc \in {"reaped", "reused"}

\* The process ends: on SIGTERM, on SIGKILL or for reasons of its own.
ProcessEnds ==
    /\ proc = "running"
    /\ proc' = "zombie"
    /\ UNCHANGED <<sigkilled, cancelled, waiting, expired, pc, attempt, result, graceOver>>

Reaped ==
    /\ proc = "zombie"
    /\ waiting # {}
    /\ proc' = "reaped"
    /\ UNCHANGED <<sigkilled, cancelled, waiting, expired, pc, attempt, result, graceOver>>

PidReused ==
    /\ PidReuse
    /\ proc = "reaped"
    /\ proc' = "reused"
    /\ UNCHANGED <<sigkilled, cancelled, waiting, expired, pc, attempt, result, graceOver>>

\* exec.CommandContext: cancelling the context sends SIGKILL.
ContextKills ==
    /\ Cancellable
    /\ ~cancelled
    /\ cancelled' = TRUE
    /\ sigkilled' = (sigkilled \/ ~Collected)
    /\ UNCHANGED <<proc, waiting, expired, pc, attempt, result, graceOver>>

-----------------------------------------------------------------------------
(* One call of killProcessWithTimeout.                                     *)

Return(k, answer) ==
    /\ pc' = [pc EXCEPT ![k] = "returned"]
    /\ result' = [result EXCEPT ![k] = answer]

Continue(k, to) ==
    /\ pc' = [pc EXCEPT ![k] = to]
    /\ UNCHANGED result

\* SIGTERM through the handle.  It fails for a process that was collected: the
\* call goes on with the PID.  Otherwise a goroutine waits for the end.
Terminate(k) ==
    /\ pc[k] = "terminate"
    /\ IF Collected
       THEN Continue(k, "check") /\ UNCHANGED waiting
       ELSE Continue(k, "grace") /\ waiting' = waiting \cup {k}
    /\ UNCHANGED <<processVars, expired, attempt, graceOver>>

\* Mutant of WaitReturned: a second cmd.Wait fails at once.
WaitReturnedTwice(k) == Collected \/ waiting # {k}

\* cmd.Wait returns when the process is collected, by this call's goroutine or
\* by another's (waitid then reports that there is no such child).
WaitReturned(k) == Collected

WaitReturns(k) ==
    /\ pc[k] = "grace"
    /\ WaitReturned(k)
    /\ IF IsProcessRunning THEN Continue(k, "check") ELSE Return(k, "stopped")
    /\ UNCHANGED <<processVars, waiting, expired, attempt, graceOver>>

GraceElapses(k) ==
    /\ pc[k] = "grace"
    /\ graceOver' = graceOver \cup {k}
    /\ Continue(k, "check")
    /\ UNCHANGED <<processVars, waiting, expired, attempt>>

\* Mutant of ExpiresInGrace: the deadline ends the call at once.
ExpiresInGraceReturns(k) ==
    /\ pc[k] = "grace"
    /\ k \in expired
    /\ Return(k, "gaveUp")
    /\ UNCHANGED <<processVars, waiting, expired, attempt, graceOver>>

\* The deadline of the clean-up cuts the grace period short, not the kill.
ExpiresInGrace(k) ==
    /\ pc[k] = "grace"
    /\ k \in expired
    /\ Continue(k, "check")
    /\ UNCHANGED <<processVars, waiting, expired, attempt, graceOver>>

DeadlinePasses(k) ==
    /\ k \in Bounded \ expired
    /\ expired' = expired \cup {k}
    /\ UNCHANGED <<processVars, waiting, pc, attempt, result, graceOver>>

\* Mutant of Check: one attempt too many.
CheckOnceMore(k) ==
    /\ pc[k] = "check"
    /\ IF ~IsProcessRunning THEN Return(k, "stopped")
       ELSE IF attempt[k] <= MaxKillRetries + 1 THEN Continue(k, "kill")
       ELSE Return(k, "gaveUp")
    /\ UNCHANGED <<processVars, waiting, expired, attempt, graceOver>>

\* Mutant of Check: the attempts are over, so the process must be.
CheckAssumesStopped(k) ==
    /\ pc[k] = "check"
    /\ IF IsProcessRunning /\ attempt[k] <= MaxKillRetries
       THEN Continue(k, "kill")
       ELSE Return(k, "stopped")
    /\ UNCHANGED <<processVars, waiting, expired, attempt, graceOver>>

\* The head of the retry loop, and the final check behind it.
Check(k) ==
    /\ pc[k] = "check"
    /\ IF ~IsProcessRunning THEN Return(k, "stopped")
       ELSE IF attempt[k] <= MaxKillRetries THEN Continue(k, "kill")
       ELSE Return(k, "gaveUp")
    /\ UNCHANGED <<processVars, waiting, expired, attempt, graceOver>>

\* Mutant of AttemptKill: the signal is one the process may ignore.
AttemptTerminate(k) ==
    /\ pc[k] = "kill"
    /\ UNCHANGED sigkilled
    /\ Continue(k, "interval")
    /\ UNCHANGED <<proc, cancelled, waiting, expired, attempt, graceOver>>

\* SIGKILL by PID.  A PID that vanished meanwhile counts as an attempt made.
AttemptKill(k) ==
    /\ pc[k] = "kill"
    /\ sigkilled' = (sigkilled \/ ~Collected)
    /\ Continue(k, "interval")
    /\ UNCHANGED <<proc, cancelled, waiting, expired, attempt, graceOver>>

\* The PID vanished and came back between the two looks at it: the loop goes on
\* without waiting.
AttemptFails(k) ==
    /\ pc[k] = "kill"
    /\ proc = "reused"
    /\ Continue(k, "check")
    /\ attempt' = [attempt EXCEPT ![k] = @ + 1]
    /\ UNCHANGED <<processVars, waiting, expired, graceOver>>

\* Mutant of IntervalElapses: a SIGKILL that was sent counts as success.
IntervalElapsesUnverified(k) ==
    /\ pc[k] = "interval"
    /\ Return(k, "stopped")
    /\ UNCHANGED <<processVars, waiting, expired, attempt, graceOver>>

\* Mutant of IntervalElapses: the attempt is not counted.
IntervalElapsesUncounted(k) ==
    /\ pc[k] = "interval"
    /\ IF IsProcessRunning THEN Continue(k, "check") ELSE Return(k, "stopped")
    /\ UNCHANGED <<processVars, waiting, expired, attempt, graceOver>>

IntervalElapses(k) ==
    /\ pc[k] = "interval"
    /\ IF IsProcessRunning
       THEN Continue(k, "check") /\ attempt' = [attempt EXCEPT ![k] = @ + 1]
       ELSE Return(k, "stopped") /\ UNCHANGED attempt
    /\ UNCHANGED <<processVars, waiting, expired, graceOver>>

ExpiresInInterval(k) ==
    /\ pc[k] = "interval"
    /\ k \in expired
    /\ Return(k, "gaveUp")
    /\ UNCHANGED <<processVars, waiting, expired, attempt, graceOver>>

-----------------------------------------------------------------------------
Call(k) ==
    \/ Terminate(k)
    \/ WaitReturns(k) \/ GraceElapses(k) \/ ExpiresInGrace(k)
    \/ Check(k) \/ AttemptKill(k) \/ AttemptFails(k)
    \/ IntervalElapses(k) \/ ExpiresInInterval(k)

AllReturned == \A k \in Killers : pc[k] = "returned"

Terminated == AllReturned /\ UNCHANGED vars

Next ==
    \/ \E k \in Killers : Call(k) \/ DeadlinePasses(k)
    \/ ProcessEnds \/ Reaped \/ PidReused \/ ContextKills
    \/ Terminated

Spec == Init /\ [][Next]_vars

\* The timers of a call fire and its goroutines run; SIGKILL ends a process;
\* the goroutine in cmd.Wait collects it.
SigkillWorks == ProcessEnds /\ sigkilled
Fairness ==
    /\ \A k \in Killers : WF_vars(Call(k))
    /\ WF_vars(SigkillWorks)
    /\ WF_vars(Reaped)

FairSpec == Spec /\ Fairness

-----------------------------------------------------------------------------
(* What holds.                                                             *)

\* A call that reports success is right: the process was collected, whatever
\* the other calls, the context and the reuse of the PID did meanwhile.
KillReportSound == \A k \in Killers : result[k] = "stopped" => Collected

\* A call gives up only on a process that was sent SIGKILL, unless the process
\* has ended anyway: a deadline in the grace period does not skip the kill.
GivesUpOnlyAfterKill ==
    \A k \in Killers : result[k] = "gaveUp" => sigkilled \/ Collected

\* As long as the context is not cancelled SIGKILL is sent only when the grace
\* period of some call or the deadline of some clean-up is over: calls that
\* compete for cmd.Wait do not hasten one another.
ForceNeedsReason == sigkilled => graceOver # {} \/ expired # {} \/ cancelled

\* The promise to the callers of killProcessWithTimeout.
Contract == INSTANCE KillContract WITH ended <- Collected, answer <- result
ContractHolds == Contract!Spec

\* Every call returns, with or without a deadline.
EveryCallReturns == \A k \in Killers : <>(pc[k] = "returned")

\* A call on a process leads to the end of the process.
ProcessEndsAtLast == Killers # {} => <>(proc # "running")
=============================================================================
