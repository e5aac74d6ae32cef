-------------------------- MODULE ProcessKillProofs -------------------------
(* Proofs about ProcessKill, for any number of calls and of retries.       *)
EXTENDS ProcessKill, TLAPS

\* Beyond the loop head a call has a reason to use force, unless the process
\* was collected; past an attempt SIGKILL was sent.  The counter stays within
\* the retries while an attempt is made; a call that has not returned has no
\* result.
InLoop(k) == pc[k] \in {"check", "kill", "interval"}
HasReason == graceOver # {} \/ expired # {} \/ cancelled

CallInv(k) ==
    /\ InLoop(k) => HasReason \/ Collected
    /\ pc[k] = "interval" \/ attempt[k] > 1 => sigkilled \/ Collected
    /\ pc[k] \in {"kill", "interval"} => attempt[k] <= MaxKillRetries
    /\ result[k] # "none" => pc[k] = "returned"

IInv ==
    /\ TypeOK
    /\ \A k \in Killers : CallInv(k)
    /\ KillReportSound
    /\ GivesUpOnlyAfterKill
    /\ ForceNeedsReason

\* The inductive invariant holds initially.
LEMMA InitIInv == Init => IInv
  <1> SUFFICES ASSUME Init PROVE IInv
    OBVIOUS
  <1> USE DEF Init
  <1>1. TypeOK
    <2>1. 1 \in 1..MaxKillRetries + 1
      BY RetriesAssumption
    <2> QED
      BY <2>1 DEF TypeOK
  <1>2. ASSUME NEW k \in Killers PROVE CallInv(k)
    <2>1. pc[k] = "terminate" /\ attempt[k] = 1 /\ result[k] = "none"
      OBVIOUS
    <2> QED
      BY <2>1 DEF CallInv, InLoop
  <1>3. KillReportSound /\ GivesUpOnlyAfterKill /\ ForceNeedsReason
    BY DEF KillReportSound, GivesUpOnlyAfterKill, ForceNeedsReason
  <1> QED
    BY <1>1, <1>2, <1>3 DEF IInv

\* A step of the kernel or of the context keeps it: a process that was
\* collected stays so.
LEMMA MachineStep ==
    ASSUME IInv, ProcessEnds \/ Reaped \/ PidReused \/ ContextKills
    PROVE  IInv'
  <1> USE DEF IInv, TypeOK, CallInv, InLoop, HasReason, KillReportSound,
          GivesUpOnlyAfterKill, ForceNeedsReason, Collected
  <1>1. CASE ProcessEnds
    BY <1>1 DEF ProcessEnds
  <1>2. CASE Reaped
    BY <1>2 DEF Reaped
  <1>3. CASE PidReused
    BY <1>3 DEF PidReused
  <1>4. CASE ContextKills
    BY <1>4 DEF ContextKills
  <1> QED
    BY <1>1, <1>2, <1>3, <1>4

\* A deadline that passes is one more reason to use force.
LEMMA DeadlineStep ==
    ASSUME IInv, NEW k \in Killers, DeadlinePasses(k)
    PROVE  IInv'
  BY DEF DeadlinePasses, processVars, IInv, TypeOK, CallInv, InLoop, HasReason,
     KillReportSound, GivesUpOnlyAfterKill, ForceNeedsReason, Collected

\* Every step of a call keeps it.
LEMMA CallStep ==
    ASSUME IInv, NEW k \in Killers, Call(k)
    PROVE  IInv'
  <1> USE RetriesAssumption
      DEF IInv, TypeOK, CallInv, InLoop, HasReason, KillReportSound,
          GivesUpOnlyAfterKill, ForceNeedsReason, Collected, processVars,
          Continue, Return, IsProcessRunning
  <1>1. CASE Terminate(k)
    BY <1>1 DEF Terminate
  <1>2. CASE WaitReturns(k)
    BY <1>2 DEF WaitReturns, WaitReturned
  <1>3. CASE GraceElapses(k)
    BY <1>3 DEF GraceElapses
  <1>4. CASE ExpiresInGrace(k)
    BY <1>4 DEF ExpiresInGrace
  <1>5. CASE Check(k)
    BY <1>5 DEF Check
  <1>6. CASE AttemptKill(k)
    BY <1>6 DEF AttemptKill
  <1>7. CASE AttemptFails(k)
    BY <1>7 DEF AttemptFails
  <1>8. CASE IntervalElapses(k)
    BY <1>8 DEF IntervalElapses
  <1>9. CASE ExpiresInInterval(k)
    BY <1>9 DEF ExpiresInInterval
  <1> QED
    BY <1>1, <1>2, <1>3, <1>4, <1>5, <1>6, <1>7, <1>8, <1>9 DEF Call

\* The inductive invariant of the specification.
THEOREM Invariance == Spec => []IInv
  <1>1. Init => IInv
    BY InitIInv
  <1>2. IInv /\ [Next]_vars => IInv'
    <2> SUFFICES ASSUME IInv, [Next]_vars PROVE IInv'
      OBVIOUS
    <2>1. CASE UNCHANGED vars
      BY <2>1 DEF vars, IInv, TypeOK, CallInv, InLoop, HasReason, KillReportSound,
         GivesUpOnlyAfterKill, ForceNeedsReason, Collected
    <2>2. CASE Next
      BY <2>1, <2>2, MachineStep, DeadlineStep, CallStep DEF Next, Terminated
    <2> QED
      BY <2>1, <2>2
  <1> QED
    BY <1>1, <1>2, PTL DEF Spec

\* Type correctness.
THEOREM TypeCorrect == Spec => []TypeOK
  BY Invariance, PTL DEF IInv

\* killProcessWithTimeout never reports a process as stopped that was not
\* collected, for any number of concurrent calls.
THEOREM ReportsAreSound == Spec => []KillReportSound
  BY Invariance, PTL DEF IInv

\* A call gives up only after SIGKILL was sent.
THEOREM GivingUpIsLast == Spec => []GivesUpOnlyAfterKill
  BY Invariance, PTL DEF IInv

\* Without a cancelled context SIGKILL follows a grace period or a deadline.
THEOREM ForceIsJustified == Spec => []ForceNeedsReason
  BY Invariance, PTL DEF IInv

\* killProcessWithTimeout keeps the contract its callers rely on: each step is
\* the end of the process, one answer of one call, or invisible to the callers.
THEOREM KeepsContract == Spec => ContractHolds
  <1>1. Init => Contract!Init
    BY DEF Init, Contract!Init, Collected
  <1>2. IInv /\ [Next]_vars => [Contract!Next]_(Contract!vars)
    <2> SUFFICES ASSUME IInv, [Next]_vars PROVE [Contract!Next]_(Contract!vars)
      OBVIOUS
    <2> USE DEF Contract!vars, Contract!Next, Contract!End, Contract!Answer, Collected
    <2>1. CASE UNCHANGED vars
      BY <2>1 DEF vars
    <2>2. CASE ProcessEnds \/ Reaped \/ PidReused \/ ContextKills
      BY <2>2 DEF ProcessEnds, Reaped, PidReused, ContextKills
    <2>3. ASSUME NEW k \in Killers, Call(k) \/ DeadlinePasses(k)
          PROVE  [Contract!Next]_(Contract!vars)
      <3> DEFINE Silent == UNCHANGED <<proc, result>>
                 Answers(a) == /\ result[k] = "none"
                               /\ UNCHANGED proc
                               /\ result' = [result EXCEPT ![k] = a]
      <3>1. pc[k] # "returned" => result[k] = "none"
        BY DEF IInv, CallInv
      <3>2. Silent \/ Answers("gaveUp") \/ (Collected /\ Answers("stopped"))
        BY <2>3, <3>1 DEF Call, DeadlinePasses, Terminate, WaitReturns, WaitReturned,
           GraceElapses, ExpiresInGrace, Check, AttemptKill, AttemptFails,
           IntervalElapses, ExpiresInInterval, Return, Continue, processVars,
           IsProcessRunning
      <3> QED
        BY <3>2
    <2> QED
      BY <2>1, <2>2, <2>3 DEF Next, Terminated
  <1> QED
    BY <1>1, <1>2, Invariance, PTL DEF Spec, ContractHolds, Contract!Spec

-----------------------------------------------------------------------------
\* What a call may still do: three steps for each attempt that is left (check,
\* kill, interval), SIGTERM and the grace period before, one check behind.
Rest(k) == 3 * (MaxKillRetries + 1 - attempt[k])
StepsLeft(k) ==
    CASE pc[k] = "terminate" -> Rest(k) + 3
      [] pc[k] = "grace"     -> Rest(k) + 2
      [] pc[k] = "check"     -> Rest(k) + 1
      [] pc[k] = "kill"      -> Rest(k)
      [] pc[k] = "interval"  -> Rest(k) - 1
      [] pc[k] = "returned"  -> 0

\* Each step of a call takes some of its supply, and no step adds to it.
UsesUpSteps ==
    \A k \in Killers : /\ Call(k) => StepsLeft(k)' < StepsLeft(k)
                       /\ StepsLeft(k)' <= StepsLeft(k)

\* The supply is a natural number, empty only when the call has returned.
LEMMA RestIsNatural ==
    ASSUME IInv, NEW k \in Killers
    PROVE  /\ Rest(k) \in 0 .. 3 * MaxKillRetries
           /\ pc[k] \in {"kill", "interval"} => Rest(k) >= 3
           /\ StepsLeft(k) \in 0 .. 3 * MaxKillRetries + 3
           /\ StepsLeft(k) = 0 => pc[k] = "returned"
  <1>1. attempt[k] \in 1 .. MaxKillRetries + 1 /\ MaxKillRetries \in Nat
    BY RetriesAssumption DEF IInv, TypeOK
  <1>2. pc[k] \in {"kill", "interval"} => attempt[k] <= MaxKillRetries
    BY DEF IInv, CallInv
  <1>3. pc[k] \in {"terminate", "grace", "check", "kill", "interval", "returned"}
    BY DEF IInv, TypeOK
  <1> QED
    BY <1>1, <1>2, <1>3 DEF Rest, StepsLeft

\* A step of a call leaves the other calls where they are.
LEMMA OthersWait ==
    ASSUME TypeOK, NEW k \in Killers, Call(k), NEW j \in Killers \ {k}
    PROVE  pc'[j] = pc[j] /\ attempt'[j] = attempt[j]
  BY DEF TypeOK, Call, Terminate, WaitReturns, GraceElapses, ExpiresInGrace, Check, AttemptKill,
     AttemptFails, IntervalElapses, ExpiresInInterval, Continue, Return

LEMMA CallUsesUp ==
    ASSUME IInv, NEW k \in Killers, Call(k)
    PROVE  StepsLeft(k)' < StepsLeft(k) /\ StepsLeft(k)' <= StepsLeft(k)
  <1>1. attempt[k] \in 1 .. MaxKillRetries + 1 /\ MaxKillRetries \in Nat
    BY RetriesAssumption DEF IInv, TypeOK
  <1>2. \/ pc[k] = "terminate" /\ pc'[k] \in {"check", "grace"} /\ attempt'[k] = attempt[k]
        \/ pc[k] = "grace" /\ pc'[k] \in {"check", "returned"} /\ attempt'[k] = attempt[k]
        \/ pc[k] = "check" /\ pc'[k] \in {"returned", "kill"} /\ attempt'[k] = attempt[k]
        \/ pc[k] = "kill" /\ pc'[k] = "interval" /\ attempt'[k] = attempt[k]
        \/ pc[k] = "kill" /\ pc'[k] = "check" /\ attempt'[k] = attempt[k] + 1
        \/ pc[k] = "interval" /\ pc'[k] = "check" /\ attempt'[k] = attempt[k] + 1
        \/ pc[k] = "interval" /\ pc'[k] = "returned" /\ attempt'[k] = attempt[k]
    BY DEF IInv, TypeOK, Call, Terminate, WaitReturns, GraceElapses, ExpiresInGrace, Check,
       AttemptKill, AttemptFails, IntervalElapses, ExpiresInInterval, Continue, Return
  <1>3. pc[k] \in {"kill", "interval"} => attempt[k] <= MaxKillRetries
    BY DEF IInv, CallInv
  <1> QED
    BY <1>1, <1>2, <1>3 DEF Rest, StepsLeft

\* Every call of killProcessWithTimeout is bounded: it takes at most
\* 3 * maxKillRetries + 3 steps, whatever the process, the kernel and the other
\* calls do, and it is over when it has none left.
THEOREM CallsAreBounded ==
    Spec => /\ [](\A k \in Killers : /\ StepsLeft(k) \in 0 .. 3 * MaxKillRetries + 3
                                     /\ StepsLeft(k) = 0 => pc[k] = "returned")
            /\ [][UsesUpSteps]_vars
  <1>1. IInv => \A k \in Killers : /\ StepsLeft(k) \in 0 .. 3 * MaxKillRetries + 3
                                   /\ StepsLeft(k) = 0 => pc[k] = "returned"
    BY RestIsNatural
  <1>2. IInv /\ [Next]_vars => [UsesUpSteps]_vars
    <2> SUFFICES ASSUME IInv, Next, vars' # vars, NEW k \in Killers
                 PROVE  /\ Call(k) => StepsLeft(k)' < StepsLeft(k)
                        /\ StepsLeft(k)' <= StepsLeft(k)
      BY DEF UsesUpSteps
    <2>1. StepsLeft(k) \in Int
      BY RestIsNatural
    <2>2. CASE Call(k)
      BY <2>2, CallUsesUp
    <2>3. CASE ~Call(k)
      <3>1. pc'[k] = pc[k] /\ attempt'[k] = attempt[k]
        <4>1. CASE \E j \in Killers : Call(j)
          BY <2>3, <4>1, OthersWait DEF IInv
        <4>2. CASE ~\E j \in Killers : Call(j)
          BY <4>2 DEF Next, Terminated, DeadlinePasses, ProcessEnds, Reaped, PidReused,
             ContextKills
        <4> QED
          BY <4>1, <4>2
      <3>2. StepsLeft(k)' = StepsLeft(k)
        BY <3>1 DEF StepsLeft, Rest
      <3> QED
        BY <2>1, <2>3, <3>2
    <2> QED
      BY <2>2, <2>3
  <1> QED
    BY <1>1, <1>2, Invariance, PTL DEF Spec
=============================================================================
