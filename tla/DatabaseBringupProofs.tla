----------------------- MODULE DatabaseBringupProofs ------------------------
(***************************************************************************)
(* The invariants of DatabaseBringup, for any number of sessions and every *)
(* bound.  None of them but CheckedIsUsable is inductive: Knowing, Racing  *)
(* and Driving below say why they hold.                                    *)
(***************************************************************************)
EXTENDS DatabaseBringup, TLAPS

\* A session that knew of frkrdb tries to create it only after it misread the list.
Knowing ==
    \A s \in knew : /\ "frkrdb" \in dbs
                    /\ \/ sess[s].pc = "createMissing"
                       \/ sess[s].outcome = "createFailed"
                       => s \in misread

\* Who is about to fail, or has failed, to create frkrdb without having misread the
\* list has lost a race, and the one who won it does not lose another one.
Racing ==
    /\ \A s \in creator : /\ "frkrdb" \in dbs
                          /\ \/ sess[s].pc = "createMissing"
                             \/ sess[s].outcome = "createFailed"
                             => s \in misread
    /\ \A s \in Sessions \ misread :
          \/ sess[s].outcome = "createFailed"
          \/ sess[s].pc = "createMissing" /\ "frkrdb" \in dbs
          => creator # {}

\* The driver of CockroachDB is chosen for CockroachDB only, and an outcome is final.
Driving ==
    \A s \in Sessions : /\ sess[s].driver = "cockroachdb" => server.cockroach
                        /\ sess[s].outcome # "none" => sess[s].pc = "ended"

IInv == TypeOK /\ CheckedIsUsable /\ Knowing /\ Racing /\ Driving /\ MigratedAsConfigured

-----------------------------------------------------------------------------
\* One session changes and remains a session.
LEMMA Change ==
    ASSUME TypeOK, NEW s \in Sessions, NEW v \in Session, Becomes(s, v)
    PROVE  /\ sess' \in [Sessions -> Session]
           /\ sess'[s] = v
           /\ \A t \in Sessions \ {s} : sess'[t] = sess[t]
  BY DEF TypeOK, Becomes

\* A session that moves on, or ends.
LEMMA Moves ==
    ASSUME TypeOK, NEW s \in Sessions, NEW pc \in PCs, Goto(s, pc)
    PROVE  /\ sess' \in [Sessions -> Session]
           /\ sess'[s].pc = pc
           /\ sess'[s].driver = sess[s].driver
           /\ sess'[s].outcome = sess[s].outcome
           /\ \A t \in Sessions \ {s} : sess'[t] = sess[t]
  <1>1. sess[s] \in Session
    BY DEF TypeOK
  <1> DEFINE v == [sess[s] EXCEPT !.pc = pc]
  <1>2. v \in Session /\ v.pc = pc /\ v.driver = sess[s].driver /\ v.outcome = sess[s].outcome
    BY <1>1 DEF Session
  <1>3. Becomes(s, v)
    BY DEF Goto
  <1> HIDE DEF v
  <1> QED BY <1>2, <1>3, Change

LEMMA Finishes ==
    ASSUME TypeOK, NEW s \in Sessions, NEW how \in Outcomes, Ends(s, how)
    PROVE  /\ sess' \in [Sessions -> Session]
           /\ sess'[s].pc = "ended"
           /\ sess'[s].driver = sess[s].driver
           /\ sess'[s].outcome = how
           /\ \A t \in Sessions \ {s} : sess'[t] = sess[t]
  <1>1. sess[s] \in Session
    BY DEF TypeOK
  <1> DEFINE v == [sess[s] EXCEPT !.pc = "ended", !.outcome = how]
  <1>2. v \in Session /\ v.pc = "ended" /\ v.driver = sess[s].driver /\ v.outcome = how
    BY <1>1 DEF Session, PCs
  <1>3. Becomes(s, v)
    BY DEF Ends
  <1> HIDE DEF v
  <1> QED BY <1>2, <1>3, Change

LEMMA ChecksAgain ==
    ASSUME TypeOK, NEW s \in Sessions, NEW stage \in Stages, NEW polls \in 0..MaxWait - 1,
           Checks(s, stage, polls)
    PROVE  /\ sess' \in [Sessions -> Session]
           /\ sess'[s].pc = "ping"
           /\ sess'[s].driver = sess[s].driver
           /\ sess'[s].outcome = sess[s].outcome
           /\ \A t \in Sessions \ {s} : sess'[t] = sess[t]
  <1>1. sess[s] \in Session
    BY DEF TypeOK
  <1>2. 0 \in 0..MaxRetries - 1 /\ 0 \in 0..Timeout
    BY MaxRetriesAssumption, TimeoutAssumption
  <1> DEFINE v == [sess[s] EXCEPT !.pc = "ping", !.stage = stage, !.polls = polls,
                                  !.tries = 0, !.clock = 0]
  <1>3. v \in Session /\ v.pc = "ping" /\ v.driver = sess[s].driver /\ v.outcome = sess[s].outcome
    BY <1>1, <1>2 DEF Session, PCs
  <1>4. Becomes(s, v)
    BY DEF Checks
  <1> HIDE DEF v
  <1> QED BY <1>3, <1>4, Change

\* What a session is after its Check: it checks again, goes on or gives up.
LEMMA CheckOver ==
    ASSUME TypeOK, NEW s \in Sessions, CheckSucceeds(s) \/ CheckFails(s)
    PROVE  /\ sess' \in [Sessions -> Session]
           /\ sess'[s].pc \in {"ping", "pingTarget", "ended"}
           /\ sess'[s].pc = "pingTarget" => ~CheckFails(s)
           /\ sess'[s].driver = sess[s].driver
           /\ \/ sess'[s].outcome = sess[s].outcome
              \/ /\ sess'[s].pc = "ended"
                 /\ sess'[s].outcome \in {"refused", "notReady", "checkFailed"}
           /\ \A t \in Sessions \ {s} : sess'[t] = sess[t]
  <1>1. sess[s].polls \in 0..MaxWait - 1 /\ 0 \in 0..MaxWait - 1
    BY MaxWaitAssumption DEF TypeOK, Session
  <1> DEFINE Over == /\ sess' \in [Sessions -> Session]
                    /\ sess'[s].pc \in {"ping", "ended"}
                    /\ sess'[s].driver = sess[s].driver
                    /\ \/ sess'[s].outcome = sess[s].outcome
                       \/ /\ sess'[s].pc = "ended"
                          /\ sess'[s].outcome \in {"refused", "notReady", "checkFailed"}
                    /\ \A t \in Sessions \ {s} : sess'[t] = sess[t]
  <1>2. ASSUME NEW how \in {"refused", "notReady", "checkFailed"}, Ends(s, how) PROVE Over
    BY <1>2, Finishes DEF Outcomes
  <1>3. ASSUME NEW stage \in Stages, NEW polls \in 0..MaxWait - 1, Checks(s, stage, polls) PROVE Over
    BY <1>3, ChecksAgain
  <1>4. ASSUME NotYet(s) PROVE Over
    <2>1. sess[s].polls + 1 < MaxWait => sess[s].polls + 1 \in 0..MaxWait - 1
      BY <1>1, MaxWaitAssumption
    <2> HIDE DEF Over
    <2> QED BY <1>1, <1>2, <1>3, <1>4, <2>1 DEF NotYet, Stages
  <1>5. ASSUME CheckFails(s) PROVE Over
    <2> HIDE DEF Over
    <2> QED BY <1>2, <1>4, <1>5 DEF CheckFails
  <1>6. CASE CheckSucceeds(s) /\ Goto(s, "pingTarget")
    BY <1>5, <1>6, Moves DEF PCs
  <1>7. CASE CheckSucceeds(s) /\ ~Goto(s, "pingTarget")
    <2> HIDE DEF Over
    <2>1. Over
      BY <1>1, <1>3, <1>4, <1>7 DEF CheckSucceeds, Stages
    <2> QED BY <2>1 DEF Over
  <1> QED BY <1>5, <1>6, <1>7

-----------------------------------------------------------------------------
\* The session s changed into what it may be without a change to the server.
MayBe(s) ==
    /\ sess' \in [Sessions -> Session]
    /\ \A t \in Sessions \ {s} : sess'[t] = sess[t]
    /\ sess'[s].pc \in PastChecks => name[s] \in usable
    /\ sess'[s].pc = "createMissing" => "frkrdb" \notin dbs \/ s \in misread'
    /\ sess'[s].outcome \notin {"createFailed", "migrated"}
    /\ sess'[s].outcome # "none" => sess'[s].pc = "ended"
    /\ sess'[s].driver = "cockroachdb" => server.cockroach

\* A session that is not through has no outcome.
LEMMA Open ==
    ASSUME IInv, NEW s \in Sessions, sess[s].pc # "ended"
    PROVE  /\ sess[s].outcome = "none"
           /\ sess[s].driver = "cockroachdb" => server.cockroach
           /\ sess[s].pc \in PastChecks => name[s] \in usable
  BY DEF IInv, Driving, CheckedIsUsable

\* A step that leaves the server alone keeps the invariant.
LEMMA Quiet ==
    ASSUME IInv, NEW s \in Sessions, MayBe(s), sess[s].pc # "ended",
           UNCHANGED <<server, dbs, usable, schema, name, creator>>,
           knew' = knew \/ (knew' = knew \cup {s} /\ "frkrdb" \in dbs),
           misread' = misread \/ misread' = misread \cup {s}
    PROVE  IInv'
  <1>1. TypeOK'
    BY DEF IInv, TypeOK, MayBe
  <1>2. CheckedIsUsable'
    BY DEF IInv, CheckedIsUsable, MayBe
  <1>3. Knowing'
    BY DEF IInv, Knowing, MayBe, TypeOK
  <1>4. Racing'
    BY DEF IInv, Racing, MayBe, TypeOK
  <1>5. Driving'
    BY DEF IInv, Driving, MayBe
  <1>6. MigratedAsConfigured'
    <2>1. \A t \in Sessions : sess'[t].outcome = "migrated" <=> sess[t].outcome = "migrated"
      BY Open DEF MayBe
    <2>2. \A t \in Sessions : sess'[t].outcome = "migrated" => sess'[t].driver = sess[t].driver
      BY <2>1 DEF MayBe
    <2> QED BY <2>1, <2>2 DEF IInv, MigratedAsConfigured
  <1> QED BY <1>1, <1>2, <1>3, <1>4, <1>5, <1>6 DEF IInv

\* A Check that is over, successfully only if the database accepts connections.
LEMMA CheckKeeps ==
    ASSUME IInv, NEW s \in Sessions, sess[s].pc # "ended",
           CheckFails(s) \/ (CheckSucceeds(s) /\ name[s] \in usable)
    PROVE  MayBe(s)
  <1>1. TypeOK
    BY DEF IInv
  <1> QED BY <1>1, Open, CheckOver DEF MayBe, PastChecks

\* The same for a session that goes to pc, or ends without having touched the server.
LEMMA GotoKeeps ==
    ASSUME IInv, NEW s \in Sessions, sess[s].pc # "ended", NEW pc \in PCs, Goto(s, pc),
           pc \in PastChecks => name[s] \in usable,
           pc = "createMissing" => "frkrdb" \notin dbs \/ s \in misread'
    PROVE  MayBe(s)
  <1>1. TypeOK
    BY DEF IInv
  <1> QED BY <1>1, Open, Moves DEF MayBe

LEMMA EndKeeps ==
    ASSUME IInv, NEW s \in Sessions, sess[s].pc # "ended", NEW how \in Outcomes, Ends(s, how),
           how \notin {"createFailed", "migrated"}
    PROVE  MayBe(s)
  <1>1. TypeOK
    BY DEF IInv
  <1> QED BY <1>1, Open, Finishes DEF MayBe, PastChecks

-----------------------------------------------------------------------------
(* The actions.                                                            *)

LEMMA InitInv == ASSUME Init PROVE IInv
  <1>1. TypeOK
    BY MaxWaitAssumption, MaxRetriesAssumption, TimeoutAssumption
       DEF Init, TypeOK, Session, PCs, Stages, Outcomes, Names
  <1>2. CheckedIsUsable /\ Knowing /\ Racing /\ Driving /\ MigratedAsConfigured
    BY DEF Init, CheckedIsUsable, PastChecks, Knowing, Racing, Driving, MigratedAsConfigured
  <1> QED BY <1>1, <1>2 DEF IInv

LEMMA StartInv == ASSUME IInv, NEW s \in Sessions, Start(s) PROVE IInv'
  <1>1. sess[s].pc # "ended" /\ MayBe(s)
    BY GotoKeeps DEF Start, At, PCs, PastChecks
  <1> QED BY <1>1, Quiet DEF Start, machineVars

LEMMA PingInv == ASSUME IInv, NEW s \in Sessions, Ping(s) PROVE IInv'
  <1>1. sess[s].pc # "ended"
    BY DEF Ping, At
  <1>2. MayBe(s)
    BY <1>1, GotoKeeps, CheckKeeps DEF Ping, Opens, PCs, PastChecks
  <1> QED BY <1>1, <1>2, Quiet DEF Ping, machineVars, historyVars

LEMMA PingDefaultInv == ASSUME IInv, NEW s \in Sessions, PingDefault(s) PROVE IInv'
  <1>1. sess[s].pc # "ended"
    BY DEF PingDefault, At
  <1>2. MayBe(s)
    BY <1>1, GotoKeeps, CheckKeeps DEF PingDefault, PCs, PastChecks
  <1> QED BY <1>1, <1>2, Quiet DEF PingDefault, machineVars, historyVars

\* A retry that is counted changes only its counters.
LEMMA RetryInv == ASSUME IInv, NEW s \in Sessions, Retry(s) PROVE IInv'
  <1>1. sess[s].pc = "retry" /\ sess[s] \in Session /\ TypeOK
    BY DEF Retry, At, IInv, TypeOK
  <1>2. CASE CheckFails(s) \/ (CheckSucceeds(s) /\ name[s] \in usable)
    BY <1>1, <1>2, CheckKeeps, Quiet DEF Retry, machineVars, historyVars
  <1>3. CASE /\ sess[s].tries + 1 # MaxRetries
             /\ Becomes(s, [sess[s] EXCEPT !.tries = @ + 1,
                               !.clock = IF @ < Timeout THEN @ + 1 ELSE @])
    <2> DEFINE v == [sess[s] EXCEPT !.tries = @ + 1,
                               !.clock = IF @ < Timeout THEN @ + 1 ELSE @]
    <2>1. sess[s].tries + 1 \in 0..MaxRetries - 1
      BY <1>1, <1>3, MaxRetriesAssumption DEF Session
    <2>2. (IF sess[s].clock < Timeout THEN sess[s].clock + 1 ELSE sess[s].clock) \in 0..Timeout
      BY <1>1, TimeoutAssumption DEF Session
    <2>3. v \in Session /\ v.pc = "retry" /\ v.driver = sess[s].driver /\ v.outcome = sess[s].outcome
      BY <1>1, <2>1, <2>2 DEF Session
    <2>4. Becomes(s, v)
      BY <1>3
    <2> HIDE DEF v
    <2>5. MayBe(s)
      BY <1>1, <2>3, <2>4, Change, Open DEF MayBe, PastChecks
    <2> QED BY <1>1, <2>5, Quiet DEF Retry, machineVars, historyVars
  <1> QED BY <1>2, <1>3 DEF Retry, Opens

LEMMA PingTargetInv == ASSUME IInv, NEW s \in Sessions, PingTarget(s) PROVE IInv'
  <1>1. sess[s].pc # "ended"
    BY DEF PingTarget, At
  <1>2. MayBe(s)
    BY <1>1, GotoKeeps, EndKeeps DEF PingTarget, Opens, PCs, PastChecks, Outcomes
  <1> QED BY <1>1, <1>2, Quiet DEF PingTarget, machineVars, historyVars

LEMMA LookInv == ASSUME IInv, NEW s \in Sessions, Look(s) PROVE IInv'
  <1>1. sess[s].pc # "ended" /\ name[s] \in usable
    BY Open DEF Look, At, PastChecks
  <1>2. MayBe(s) /\ (misread' = misread \/ misread' = misread \cup {s})
    BY <1>1, GotoKeeps DEF Look, Misreads, PCs
  <1> QED BY <1>1, <1>2, Quiet DEF Look, machineVars

LEMMA DetectDriverInv == ASSUME IInv, NEW s \in Sessions, DetectDriver(s) PROVE IInv'
  <1>1. sess[s].pc = "detect" /\ sess[s] \in Session /\ TypeOK
    BY DEF DetectDriver, At, IInv, TypeOK
  <1>2. PICK answered \in BOOLEAN :
           Becomes(s, [sess[s] EXCEPT !.pc = "migrate",
                        !.driver = IF answered /\ server.cockroach
                                   THEN "cockroachdb" ELSE "postgres"])
    BY DEF DetectDriver
  <1> DEFINE d == IF answered /\ server.cockroach THEN "cockroachdb" ELSE "postgres"
             v == [sess[s] EXCEPT !.pc = "migrate", !.driver = d]
  <1>3. v \in Session /\ v.pc = "migrate" /\ v.driver = d /\ v.outcome = sess[s].outcome
    BY <1>1 DEF Session, PCs
  <1>4. Becomes(s, v)
    BY <1>2
  <1>5. d = "cockroachdb" => server.cockroach
    OBVIOUS
  <1> HIDE DEF v, d
  <1>6. MayBe(s)
    BY <1>1, <1>3, <1>4, <1>5, Change, Open DEF MayBe, PastChecks
  <1> QED BY <1>1, <1>6, Quiet DEF DetectDriver, machineVars, historyVars

\* A creation makes the creator known, and frkrdb missing for nobody.
LEMMA CreationKeeps ==
    ASSUME IInv, NEW s \in Sessions, sess[s].pc \in {"create", "createMissing"}, Creates(s),
           UNCHANGED <<server, usable, schema, name, knew, misread>>,
           sess' \in [Sessions -> Session], \A t \in Sessions \ {s} : sess'[t] = sess[t],
           sess'[s].pc \in PastChecks => name[s] \in usable,
           sess'[s].pc # "createMissing", sess'[s].outcome # "migrated",
           sess'[s].outcome = "createFailed"
              => sess[s].pc = "createMissing" /\ "frkrdb" \in dbs,
           sess'[s].outcome # "none" => sess'[s].pc = "ended",
           sess'[s].driver = "cockroachdb" => server.cockroach
    PROVE  IInv'
  <1>1. TypeOK'
    BY DEF IInv, TypeOK, Creates, Names
  <1>2. CheckedIsUsable'
    BY DEF IInv, CheckedIsUsable
  <1>3. Knowing'
    BY DEF IInv, Knowing, Creates, TypeOK
  <1>4. "frkrdb" \in dbs' /\ creator \subseteq creator'
    BY DEF Creates
  <1>5. ASSUME NEW t \in creator'
        PROVE  \/ sess'[t].pc = "createMissing"
               \/ sess'[t].outcome = "createFailed"
               => t \in misread'
    <2>1. CASE t \in creator
      BY <2>1 DEF IInv, Racing, TypeOK
    <2>2. CASE t = s /\ "frkrdb" \notin dbs
      BY <2>2
    <2> QED BY <1>5, <2>1, <2>2 DEF Creates
  <1>6. creator' # {} \/ ("frkrdb" \in dbs /\ creator' = creator)
    BY DEF Creates
  <1>7. ASSUME NEW t \in Sessions \ misread,
               sess'[t].outcome = "createFailed" \/ sess'[t].pc = "createMissing"
        PROVE  creator' # {}
    BY <1>6, <1>7 DEF IInv, Racing
  <1>8. Racing'
    BY <1>4, <1>5, <1>7 DEF Racing
  <1>9. Driving'
    BY DEF IInv, Driving
  <1>10. MigratedAsConfigured'
    <2>1. \A t \in Sessions : sess'[t].outcome = "migrated" <=> sess[t].outcome = "migrated"
      BY Open
    <2>2. \A t \in Sessions : sess'[t].outcome = "migrated" => sess'[t].driver = sess[t].driver
      BY <2>1
    <2> QED BY <2>1, <2>2 DEF IInv, MigratedAsConfigured
  <1> QED BY <1>1, <1>2, <1>3, <1>8, <1>9, <1>10 DEF IInv

LEMMA CreateInCheckInv == ASSUME IInv, NEW s \in Sessions, CreateInCheck(s) PROVE IInv'
  <1>1. sess[s].pc = "create" /\ sess[s] \in Session /\ TypeOK
    BY DEF CreateInCheck, At, IInv, TypeOK
  <1>2. UNCHANGED <<server, usable, schema, name, knew, misread>>
    BY DEF CreateInCheck
  <1>3. CASE Creates(s) /\ Becomes(s, [sess[s] EXCEPT !.pc = "retry", !.clock = 2])
    <2> DEFINE v == [sess[s] EXCEPT !.pc = "retry", !.clock = 2]
    <2>1. 2 \in 0..Timeout
      BY TimeoutAssumption
    <2>2. v \in Session /\ v.pc = "retry" /\ v.driver = sess[s].driver /\ v.outcome = sess[s].outcome
      BY <1>1, <2>1 DEF Session, PCs
    <2>3. Becomes(s, v)
      BY <1>3
    <2> HIDE DEF v
    <2> QED BY <1>1, <1>2, <1>3, <2>2, <2>3, Change, Open, CreationKeeps DEF PastChecks
  <1>4. CASE Creates(s) /\ CheckFails(s)
    <2>1. MayBe(s) /\ sess'[s].pc # "createMissing"
      BY <1>1, <1>4, CheckKeeps, CheckOver
    <2> QED BY <1>1, <1>2, <1>4, <2>1, CreationKeeps DEF MayBe
  <1>5. CASE CheckFails(s) /\ UNCHANGED <<dbs, creator>>
    BY <1>1, <1>2, <1>5, CheckKeeps, Quiet
  <1> QED BY <1>3, <1>4, <1>5 DEF CreateInCheck

LEMMA CreateMissingInv == ASSUME IInv, NEW s \in Sessions, CreateMissing(s) PROVE IInv'
  <1>1. sess[s].pc = "createMissing" /\ TypeOK /\ name[s] \in usable
    BY Open DEF CreateMissing, At, IInv, PastChecks
  <1>2. UNCHANGED <<server, usable, schema, name, knew, misread>>
    BY DEF CreateMissing
  <1>3. CASE Creates(s) /\ Goto(s, "detect")
    BY <1>1, <1>2, <1>3, Moves, Open, CreationKeeps DEF PCs
  <1>4. CASE Creates(s) /\ "frkrdb" \in dbs /\ Ends(s, "createFailed")
    BY <1>1, <1>2, <1>4, Finishes, Open, CreationKeeps DEF Outcomes, PastChecks
  <1>5. CASE Creates(s) /\ Ends(s, "denied")
    BY <1>1, <1>2, <1>5, Finishes, Open, CreationKeeps DEF Outcomes, PastChecks
  <1>6. CASE Ends(s, "denied") /\ UNCHANGED <<dbs, creator>>
    BY <1>1, <1>2, <1>6, EndKeeps, Quiet DEF Outcomes
  <1> QED BY <1>3, <1>4, <1>5, <1>6 DEF CreateMissing

LEMMA MigrateInv == ASSUME IInv, NEW s \in Sessions, Migrate(s) PROVE IInv'
  <1>1. sess[s].pc = "migrate" /\ TypeOK
    BY DEF Migrate, At, IInv
  <1>2. UNCHANGED <<server, dbs, usable, name, knew, creator, misread>>
    BY DEF Migrate, historyVars
  <1>3. CASE /\ server.cockroach => sess[s].driver = "cockroachdb"
             /\ schema' = schema \cup {name[s]}
             /\ Ends(s, "migrated")
    <2>1. /\ sess' \in [Sessions -> Session]
          /\ sess'[s].pc = "ended" /\ sess'[s].outcome = "migrated"
          /\ sess'[s].driver = sess[s].driver
          /\ \A t \in Sessions \ {s} : sess'[t] = sess[t]
      BY <1>1, <1>3, Finishes DEF Outcomes
    <2>2. TypeOK'
      BY <1>1, <1>2, <1>3, <2>1 DEF TypeOK
    <2>3. CheckedIsUsable' /\ Knowing' /\ Racing' /\ Driving'
      BY <1>1, <1>2, <2>1 DEF IInv, TypeOK, CheckedIsUsable, PastChecks, Knowing, Racing, Driving
    <2>4. MigratedAsConfigured'
      BY <1>1, <1>2, <1>3, <2>1, Open DEF IInv, MigratedAsConfigured
    <2> QED BY <2>2, <2>3, <2>4 DEF IInv
  <1>4. CASE Ends(s, "migrationFailed") /\ UNCHANGED schema
    BY <1>1, <1>2, <1>4, EndKeeps, Quiet DEF Outcomes
  <1> QED BY <1>3, <1>4 DEF Migrate

\* The server comes and goes, and its databases become usable.
LEMMA EnvironmentInv ==
    ASSUME IInv, ServerSwitches \/ (\E d \in Names : BecomesUsable(d)) \/ UNCHANGED vars
    PROVE  IInv'
  <1>1. CASE ServerSwitches
    <2>1. server' \in [up : BOOLEAN, default : BOOLEAN, cockroach : BOOLEAN]
          /\ server'.cockroach = server.cockroach
      BY <1>1 DEF ServerSwitches, IInv, TypeOK
    <2> QED BY <1>1, <2>1 DEF ServerSwitches, historyVars, IInv, TypeOK, CheckedIsUsable,
                              Knowing, Racing, Driving, MigratedAsConfigured
  <1>2. CASE \E d \in Names : BecomesUsable(d)
    BY <1>2 DEF BecomesUsable, historyVars, IInv, TypeOK, CheckedIsUsable, Knowing, Racing,
                Driving, MigratedAsConfigured
  <1>3. CASE UNCHANGED vars
    BY <1>3 DEF vars, IInv, TypeOK, CheckedIsUsable, Knowing, Racing, Driving,
                MigratedAsConfigured
  <1> QED BY <1>1, <1>2, <1>3

LEMMA NextInv == ASSUME IInv, [Next]_vars PROVE IInv'
  <1>1. ASSUME NEW s \in Sessions, Start(s) \/ Step(s) PROVE IInv'
    BY <1>1, StartInv, PingInv, PingDefaultInv, CreateInCheckInv, RetryInv, PingTargetInv,
       LookInv, CreateMissingInv, DetectDriverInv, MigrateInv DEF Step
  <1> QED BY <1>1, EnvironmentInv DEF Next, Terminated

LEMMA Invariance == Spec => []IInv
  BY InitInv, NextInv, PTL DEF Spec

-----------------------------------------------------------------------------
(* The results.                                                            *)

\* Every variable has its type.
THEOREM TypeCorrect == Spec => []TypeOK
  <1>1. IInv => TypeOK
    BY DEF IInv
  <1> QED BY <1>1, Invariance, PTL

\* What has got past Check and its callers works with a usable database
\* (DatabaseChecker.Check, whichever of its returns was taken).
THEOREM PastChecksUsable == Spec => []CheckedIsUsable
  <1>1. IInv => CheckedIsUsable
    BY DEF IInv
  <1> QED BY <1>1, Invariance, PTL

\* A session that starts when frkrdb is there fails to create it only after a
\* broken list (ensureDatabaseExists): to run frkrup again is a way out of the
\* lost race.
THEOREM RerunHelps == Spec => []RerunGetsPastCreation
  <1>1. IInv => RerunGetsPastCreation
    BY DEF IInv, Knowing, RerunGetsPastCreation
  <1> QED BY <1>1, Invariance, PTL

\* Not every session loses the race of ensureDatabaseExists: who won it has not
\* lost it, and misread nothing, so it must have migrated.
THEOREM RaceHasWinner == Spec => []SomeoneMigrates
  <1>1. IInv => SomeoneMigrates
    BY DEF IInv, TypeOK, Racing, SomeoneMigrates
  <1> QED BY <1>1, Invariance, PTL

\* Migrations reach the databases of the sessions that report them and no others,
\* with the driver of the server (RunMigrations, the driver query).
THEOREM MigrationsAsConfigured == Spec => []MigratedAsConfigured
  <1>1. IInv => MigratedAsConfigured
    BY DEF IInv
  <1> QED BY <1>1, Invariance, PTL

-----------------------------------------------------------------------------
(* Every session ends: what a session may still do shrinks with each of    *)
(* its steps, whatever the server and the other sessions do meanwhile.     *)

\* The steps of one Check: three pings or statements, and the retries.
CheckSteps == MaxRetries + 3

\* The calls of Check still to come after the current one of session v, what is
\* left of the current one, and what comes behind the last.
ChecksToCome(v) ==
    CASE v.stage = "ensure" -> MaxWait + 1
      [] v.stage = "wait"   -> MaxWait - v.polls
      [] v.stage = "check"  -> 0

CheckLeft(v) ==
    CASE v.pc \in {"idle", "ping"} -> MaxRetries + 3
      [] v.pc = "pingDefault"      -> MaxRetries + 2
      [] v.pc = "create"           -> MaxRetries + 1
      [] v.pc = "retry"            -> MaxRetries - v.tries

InCheck == {"idle", "ping", "pingDefault", "create", "retry"}

Behind(v) ==
    CASE v.pc = "pingTarget"    -> 5
      [] v.pc = "look"          -> 4
      [] v.pc = "createMissing" -> 3
      [] v.pc = "detect"        -> 2
      [] v.pc = "migrate"       -> 1
      [] v.pc = "ended"         -> 0

Left(v) == IF v.pc \in InCheck THEN ChecksToCome(v) * CheckSteps + CheckLeft(v) + 5
                               ELSE Behind(v)

StepsLeft(s) == Left(sess[s])
MostSteps == (MaxWait + 2) * CheckSteps + 5

\* A product grows by a factor with the other.
LEMMA Rounds ==
    ASSUME NEW a \in Nat, NEW b \in Nat, NEW c \in Nat, a < b
    PROVE  a * c + c <= b * c
  <1>1. PICK d \in Nat : b = a + 1 + d
    <2>1. b - a - 1 \in Nat /\ b = a + 1 + (b - a - 1)
      OBVIOUS
    <2> QED BY <2>1
  <1>2. b * c = a * c + c + d * c
    BY <1>1
  <1>3. a * c \in Nat /\ d * c \in Nat /\ b * c \in Nat
    BY <1>1
  <1> QED BY <1>2, <1>3

\* The parts are natural numbers, and bounded.
LEMMA PartsBounded ==
    ASSUME NEW v \in Session
    PROVE  /\ CheckSteps \in Nat
           /\ ChecksToCome(v) \in Nat /\ ChecksToCome(v) < MaxWait + 2
           /\ v.pc \in InCheck => CheckLeft(v) \in 1 .. CheckSteps
           /\ v.pc \notin InCheck => Behind(v) \in 0 .. 5
  <1>1. /\ v.pc \in PCs /\ v.stage \in Stages
        /\ v.polls \in 0 .. MaxWait - 1 /\ v.tries \in 0 .. MaxRetries - 1
    BY DEF Session
  <1> QED
    BY <1>1, MaxWaitAssumption, MaxRetriesAssumption
       DEF CheckSteps, ChecksToCome, CheckLeft, Behind, InCheck, PCs, Stages

LEMMA LeftBounded ==
    ASSUME NEW v \in Session
    PROVE  /\ Left(v) \in 0 .. MostSteps
           /\ v.pc \in InCheck => Left(v) > 5
  <1> DEFINE a == ChecksToCome(v)
             c == CheckSteps
  <1>1. a \in Nat /\ c \in Nat /\ MaxWait + 2 \in Nat /\ a < MaxWait + 2
    BY PartsBounded, MaxWaitAssumption
  <1>2. a * c + c <= (MaxWait + 2) * c /\ a * c \in Nat /\ (MaxWait + 2) * c \in Nat
    <2> HIDE DEF a, c
    <2> QED BY <1>1, Rounds
  <1>3. CASE v.pc \in InCheck
    <2>1. CheckLeft(v) \in 1 .. c
      BY <1>3, PartsBounded
    <2>2. Left(v) = a * c + CheckLeft(v) + 5
      BY <1>3 DEF Left
    <2> HIDE DEF a, c
    <2>3. MostSteps = (MaxWait + 2) * c + 5
      BY DEF MostSteps, c
    <2> QED BY <1>1, <1>2, <2>1, <2>2, <2>3
  <1>4. CASE v.pc \notin InCheck
    <2>1. Left(v) \in 0 .. 5
      BY <1>4, PartsBounded DEF Left
    <2> HIDE DEF a, c
    <2>2. MostSteps = (MaxWait + 2) * c + 5
      BY DEF MostSteps, c
    <2> QED BY <1>2, <1>4, <2>1, <2>2
  <1> QED BY <1>3, <1>4

\* The three ways in which less is left: the session is through with its checks,
\* begins the next one, or goes on with this one.
LEMMA Through ==
    ASSUME NEW v \in Session, NEW w \in Session, w.pc \notin InCheck,
           v.pc \in InCheck \/ Behind(w) < Behind(v)
    PROVE  Left(w) < Left(v)
  <1>1. Left(w) = Behind(w) /\ Behind(w) \in 0 .. 5
    BY PartsBounded DEF Left
  <1>2. CASE v.pc \in InCheck
    <2>1. Left(v) > 5 /\ Left(v) \in Nat
      BY <1>2, LeftBounded
    <2> QED BY <1>1, <2>1
  <1>3. CASE v.pc \notin InCheck
    BY <1>1, <1>3 DEF Left
  <1> QED BY <1>2, <1>3

LEMMA NextRound ==
    ASSUME NEW v \in Session, NEW w \in Session, v.pc \in InCheck, w.pc = "ping",
           ChecksToCome(w) < ChecksToCome(v)
    PROVE  Left(w) < Left(v)
  <1> DEFINE a == ChecksToCome(w)
             b == ChecksToCome(v)
             c == CheckSteps
  <1>1. a \in Nat /\ b \in Nat /\ c \in Nat /\ CheckLeft(v) \in 1 .. c
    BY PartsBounded
  <1>2. CheckLeft(w) = c
    BY DEF CheckLeft, CheckSteps
  <1>3. Left(w) = a * c + c + 5 /\ Left(v) = b * c + CheckLeft(v) + 5
    BY <1>2 DEF Left, InCheck
  <1>4. a < b
    OBVIOUS
  <1> HIDE DEF a, b, c
  <1>5. a * c + c <= b * c /\ a * c \in Nat /\ b * c \in Nat
    BY <1>1, <1>4, Rounds
  <1> QED BY <1>1, <1>3, <1>5

LEMMA SameRound ==
    ASSUME NEW v \in Session, NEW w \in Session, v.pc \in InCheck, w.pc \in InCheck,
           ChecksToCome(w) = ChecksToCome(v)
    PROVE  /\ CheckLeft(w) < CheckLeft(v) => Left(w) < Left(v)
           /\ CheckLeft(w) = CheckLeft(v) => Left(w) = Left(v)
  <1> DEFINE a == ChecksToCome(v) * CheckSteps
  <1>1. a \in Nat /\ CheckLeft(v) \in Nat /\ CheckLeft(w) \in Nat
    BY PartsBounded
  <1>2. Left(w) = a + CheckLeft(w) + 5 /\ Left(v) = a + CheckLeft(v) + 5
    BY DEF Left
  <1> HIDE DEF a
  <1> QED BY <1>1, <1>2

-----------------------------------------------------------------------------
\* A session that only goes elsewhere.
LEMMA GotoLeft ==
    ASSUME TypeOK, NEW s \in Sessions, NEW pc \in PCs, Goto(s, pc)
    PROVE  /\ sess[s] \in Session /\ sess'[s] \in Session
           /\ sess'[s].pc = pc
           /\ ChecksToCome(sess'[s]) = ChecksToCome(sess[s])
           /\ sess'[s].tries = sess[s].tries
  <1>1. sess[s] \in Session
    BY DEF TypeOK
  <1> DEFINE v == [sess[s] EXCEPT !.pc = pc]
  <1>2. v \in Session /\ v.pc = pc /\ ChecksToCome(v) = ChecksToCome(sess[s])
        /\ v.tries = sess[s].tries
    BY <1>1 DEF Session, ChecksToCome
  <1>3. sess'[s] = v
    BY DEF Goto, Becomes, TypeOK
  <1> HIDE DEF v
  <1> QED BY <1>1, <1>2, <1>3

LEMMA EndsLeft ==
    ASSUME TypeOK, NEW s \in Sessions, sess[s].pc # "ended", NEW how \in Outcomes, Ends(s, how)
    PROVE  StepsLeft(s)' < StepsLeft(s)
  <1>1. sess[s] \in Session /\ sess'[s] \in Session /\ sess'[s].pc = "ended"
    BY Finishes DEF TypeOK
  <1>2. sess[s].pc \in InCheck \/ Behind(sess'[s]) < Behind(sess[s])
    BY <1>1 DEF Session, PCs, InCheck, Behind
  <1>3. Left(sess'[s]) < Left(sess[s])
    BY <1>1, <1>2, Through DEF InCheck
  <1> QED BY <1>3 DEF StepsLeft

\* The end of a Check leaves less to do, however it ends.
LEMMA CheckOverLeft ==
    ASSUME TypeOK, NEW s \in Sessions, sess[s].pc \in InCheck, CheckSucceeds(s) \/ CheckFails(s)
    PROVE  StepsLeft(s)' < StepsLeft(s)
  <1>1. sess[s] \in Session /\ sess[s].polls \in 0 .. MaxWait - 1 /\ 0 \in 0 .. MaxWait - 1
    BY MaxWaitAssumption DEF TypeOK, Session
  <1>2. ASSUME NEW how \in Outcomes, Ends(s, how) PROVE StepsLeft(s)' < StepsLeft(s)
    BY <1>2, EndsLeft DEF InCheck
  <1>3. ASSUME Goto(s, "pingTarget") PROVE StepsLeft(s)' < StepsLeft(s)
    <2>1. Left(sess'[s]) < Left(sess[s])
      BY <1>3, GotoLeft, Through DEF PCs, InCheck
    <2> QED BY <2>1 DEF StepsLeft
  <1>4. ASSUME NEW stage \in Stages, NEW polls \in 0 .. MaxWait - 1, Checks(s, stage, polls),
               \/ sess[s].stage = "ensure" /\ stage \in {"wait", "check"}
               \/ sess[s].stage = "wait" /\ stage = "check"
               \/ sess[s].stage = "wait" /\ stage = "wait" /\ polls = sess[s].polls + 1
        PROVE  StepsLeft(s)' < StepsLeft(s)
    <2> DEFINE v == [sess[s] EXCEPT !.pc = "ping", !.stage = stage, !.polls = polls,
                                    !.tries = 0, !.clock = 0]
    <2>1. sess'[s] = v
      BY <1>4 DEF Checks, Becomes, TypeOK
    <2>2. v.pc = "ping" /\ v.stage = stage /\ v.polls = polls
      BY <1>1 DEF Session
    <2>3. sess'[s] \in Session
      BY <1>4, ChecksAgain
    <2> HIDE DEF v
    <2>4. ChecksToCome(sess'[s]) < ChecksToCome(sess[s])
      BY <1>1, <1>4, <2>1, <2>2, MaxWaitAssumption DEF ChecksToCome
    <2>5. Left(sess'[s]) < Left(sess[s])
      BY <1>1, <2>1, <2>2, <2>3, <2>4, NextRound
    <2> QED BY <2>5 DEF StepsLeft
  <1>5. ASSUME NotYet(s) PROVE StepsLeft(s)' < StepsLeft(s)
    <2>1. sess[s].polls + 1 < MaxWait => sess[s].polls + 1 \in 0 .. MaxWait - 1
      BY <1>1, MaxWaitAssumption
    <2> QED BY <1>1, <1>2, <1>4, <1>5, <2>1 DEF NotYet, Stages, Outcomes
  <1>6. ASSUME CheckFails(s) PROVE StepsLeft(s)' < StepsLeft(s)
    BY <1>2, <1>5, <1>6 DEF CheckFails, Outcomes
  <1>7. sess[s].stage \in Stages
    BY <1>1 DEF Session
  <1>8. ASSUME CheckSucceeds(s), sess[s].stage # "check", Checks(s, "check", sess[s].polls)
        PROVE  StepsLeft(s)' < StepsLeft(s)
    BY <1>1, <1>4, <1>7, <1>8 DEF Stages
  <1> QED BY <1>3, <1>5, <1>6, <1>8 DEF CheckSucceeds

\* A step of Check uses up a part of it, or ends it.
LEMMA CheckStepLeft ==
    ASSUME TypeOK, NEW s \in Sessions,
           Ping(s) \/ PingDefault(s) \/ CreateInCheck(s) \/ Retry(s)
    PROVE  StepsLeft(s)' < StepsLeft(s)
  <1>1. sess[s] \in Session
    BY DEF TypeOK
  <1>2. sess[s].pc \in InCheck
    BY DEF Ping, PingDefault, CreateInCheck, Retry, At, InCheck
  <1>3. ASSUME NEW pc \in {"pingDefault", "create"}, Goto(s, pc),
               sess[s].pc = "ping" \/ (sess[s].pc = "pingDefault" /\ pc = "create")
        PROVE  StepsLeft(s)' < StepsLeft(s)
    <2>1. /\ sess'[s] \in Session /\ sess'[s].pc = pc /\ sess'[s].pc \in InCheck
          /\ ChecksToCome(sess'[s]) = ChecksToCome(sess[s])
      BY <1>3, GotoLeft DEF PCs, InCheck
    <2>2. CheckLeft(sess'[s]) < CheckLeft(sess[s])
      BY <1>3, <2>1, MaxRetriesAssumption DEF CheckLeft
    <2>3. Left(sess'[s]) < Left(sess[s])
      BY <1>1, <1>2, <2>1, <2>2, SameRound
    <2> QED BY <2>3 DEF StepsLeft
  <1>4. ASSUME Becomes(s, [sess[s] EXCEPT !.pc = "retry", !.clock = 2]), sess[s].pc = "create"
        PROVE  StepsLeft(s)' < StepsLeft(s)
    <2> DEFINE v == [sess[s] EXCEPT !.pc = "retry", !.clock = 2]
    <2>0. 2 \in 0 .. Timeout
      BY TimeoutAssumption
    <2>1. v \in Session /\ v.pc = "retry" /\ v.tries = sess[s].tries
          /\ v.stage = sess[s].stage /\ v.polls = sess[s].polls
      BY <1>1, <2>0 DEF Session, PCs
    <2>2. sess'[s] = v
      BY <1>4 DEF Becomes, TypeOK
    <2>3. sess[s].tries \in 0 .. MaxRetries - 1
      BY <1>1 DEF Session
    <2> HIDE DEF v
    <2>4. CheckLeft(v) < CheckLeft(sess[s]) /\ ChecksToCome(v) = ChecksToCome(sess[s])
      BY <1>4, <2>1, <2>3, MaxRetriesAssumption DEF CheckLeft, ChecksToCome
    <2>5. Left(v) < Left(sess[s])
      BY <1>1, <1>2, <2>1, <2>4, SameRound DEF InCheck
    <2> QED BY <2>2, <2>5 DEF StepsLeft
  <1>5. ASSUME sess[s].pc = "retry", sess[s].tries + 1 # MaxRetries,
               Becomes(s, [sess[s] EXCEPT !.tries = @ + 1,
                              !.clock = IF @ < Timeout THEN @ + 1 ELSE @])
        PROVE  StepsLeft(s)' < StepsLeft(s)
    <2> DEFINE v == [sess[s] EXCEPT !.tries = @ + 1,
                                    !.clock = IF @ < Timeout THEN @ + 1 ELSE @]
    <2>1. sess[s].tries \in 0 .. MaxRetries - 1 /\ sess[s].clock \in 0 .. Timeout
      BY <1>1 DEF Session
    <2>0. /\ sess[s].tries + 1 \in 0 .. MaxRetries - 1
          /\ (IF sess[s].clock < Timeout THEN sess[s].clock + 1 ELSE sess[s].clock)
                \in 0 .. Timeout
      BY <1>5, <2>1, MaxRetriesAssumption, TimeoutAssumption
    <2>2. v \in Session /\ v.pc = "retry" /\ v.tries = sess[s].tries + 1
          /\ v.stage = sess[s].stage /\ v.polls = sess[s].polls
      BY <1>1, <1>5, <2>0 DEF Session
    <2>3. sess'[s] = v
      BY <1>5 DEF Becomes, TypeOK
    <2> HIDE DEF v
    <2>4. CheckLeft(v) < CheckLeft(sess[s]) /\ ChecksToCome(v) = ChecksToCome(sess[s])
      BY <1>5, <2>1, <2>2, MaxRetriesAssumption DEF CheckLeft, ChecksToCome
    <2>5. Left(v) < Left(sess[s])
      BY <1>1, <1>2, <2>2, <2>4, SameRound DEF InCheck
    <2> QED BY <2>3, <2>5 DEF StepsLeft
  <1>6. CASE Ping(s)
    <2>1. Goto(s, "pingDefault") \/ CheckSucceeds(s) \/ CheckFails(s)
      BY <1>6 DEF Ping
    <2>2. sess[s].pc = "ping"
      BY <1>6 DEF Ping, At
    <2> QED BY <1>2, <1>3, <2>1, <2>2, CheckOverLeft
  <1>7. CASE PingDefault(s)
    BY <1>2, <1>3, <1>7, CheckOverLeft DEF PingDefault, At
  <1>8. CASE CreateInCheck(s)
    BY <1>2, <1>4, <1>8, CheckOverLeft DEF CreateInCheck, At
  <1>9. CASE Retry(s)
    BY <1>2, <1>5, <1>9, CheckOverLeft DEF Retry, At
  <1> QED BY <1>6, <1>7, <1>8, <1>9

\* A step of RunMigrations goes forward, or is the last one.
LEMMA MigrationStepLeft ==
    ASSUME TypeOK, NEW s \in Sessions,
           PingTarget(s) \/ Look(s) \/ CreateMissing(s) \/ DetectDriver(s) \/ Migrate(s)
    PROVE  StepsLeft(s)' < StepsLeft(s)
  <1>1. sess[s] \in Session
    BY DEF TypeOK
  <1>2. sess[s].pc \in {"pingTarget", "look", "createMissing", "detect", "migrate"}
    BY DEF PingTarget, Look, CreateMissing, DetectDriver, Migrate, At
  <1>3. ASSUME NEW how \in Outcomes, Ends(s, how) PROVE StepsLeft(s)' < StepsLeft(s)
    BY <1>2, <1>3, EndsLeft
  <1>4. ASSUME NEW pc \in {"look", "createMissing", "detect"}, Goto(s, pc),
               \/ sess[s].pc = "pingTarget"
               \/ sess[s].pc = "look" /\ pc # "look"
               \/ sess[s].pc = "createMissing" /\ pc = "detect"
        PROVE  StepsLeft(s)' < StepsLeft(s)
    <2>1. sess'[s] \in Session /\ sess'[s].pc = pc /\ sess'[s].pc \notin InCheck
      BY <1>4, GotoLeft DEF PCs, InCheck
    <2>2. Behind(sess'[s]) < Behind(sess[s])
      BY <1>4, <2>1 DEF Behind
    <2>3. Left(sess'[s]) < Left(sess[s])
      BY <1>1, <2>1, <2>2, Through
    <2> QED BY <2>3 DEF StepsLeft
  <1>5. CASE PingTarget(s)
    BY <1>3, <1>4, <1>5 DEF PingTarget, At, Outcomes
  <1>6. CASE Look(s)
    BY <1>4, <1>6 DEF Look, Misreads, At
  <1>7. CASE CreateMissing(s)
    BY <1>3, <1>4, <1>7 DEF CreateMissing, At, Outcomes
  <1>8. CASE DetectDriver(s)
    <2>1. PICK driver \in {"postgres", "cockroachdb"} :
             Becomes(s, [sess[s] EXCEPT !.pc = "migrate", !.driver = driver])
      BY <1>8 DEF DetectDriver
    <2> DEFINE v == [sess[s] EXCEPT !.pc = "migrate", !.driver = driver]
    <2>2. v \in Session /\ v.pc = "migrate"
      BY <1>1 DEF Session, PCs
    <2>3. sess'[s] = v
      BY <2>1 DEF Becomes, TypeOK
    <2>4. sess[s].pc = "detect"
      BY <1>8 DEF DetectDriver, At
    <2> HIDE DEF v
    <2>5. Left(v) < Left(sess[s])
      BY <1>1, <2>2, <2>4, Through DEF Behind, InCheck
    <2> QED BY <2>3, <2>5 DEF StepsLeft
  <1>9. CASE Migrate(s)
    BY <1>3, <1>9 DEF Migrate, Outcomes
  <1> QED BY <1>5, <1>6, <1>7, <1>8, <1>9

LEMMA StepLeft ==
    ASSUME TypeOK, NEW s \in Sessions, Step(s)
    PROVE  StepsLeft(s)' < StepsLeft(s)
  BY CheckStepLeft, MigrationStepLeft DEF Step

-----------------------------------------------------------------------------
\* A session that was started never has more to do than before, and less with
\* each step of its own.
UsesUpSteps ==
    \A s \in Sessions : /\ Step(s) => StepsLeft(s)' < StepsLeft(s)
                        /\ StepsLeft(s)' <= StepsLeft(s)

LEMMA StepLeftElsewhere ==
    ASSUME TypeOK, NEW s \in Sessions, Start(s) \/ Step(s), NEW t \in Sessions, t # s
    PROVE  sess'[t] = sess[t]
  <1>1. CASE Ping(s) \/ PingDefault(s) \/ Look(s) \/ PingTarget(s) \/ Start(s)
    BY <1>1, CheckOver, Moves, Finishes
       DEF Ping, PingDefault, Look, Misreads, PingTarget, Start, PCs, Outcomes
  <1>2. CASE CreateInCheck(s) \/ Retry(s) \/ DetectDriver(s)
    BY <1>2, CheckOver DEF CreateInCheck, Retry, DetectDriver, Becomes, TypeOK
  <1>3. CASE CreateMissing(s) \/ Migrate(s)
    BY <1>3, Moves, Finishes DEF CreateMissing, Migrate, PCs, Outcomes
  <1> QED BY <1>1, <1>2, <1>3 DEF Step

LEMMA StartLeft ==
    ASSUME TypeOK, NEW s \in Sessions, Start(s)
    PROVE  Left(sess'[s]) = Left(sess[s])
  <1>1. Goto(s, "ping") /\ sess[s].pc = "idle"
    BY DEF Start, At
  <1>2. /\ sess[s] \in Session /\ sess'[s] \in Session /\ sess'[s].pc = "ping"
        /\ ChecksToCome(sess'[s]) = ChecksToCome(sess[s])
    BY <1>1, GotoLeft DEF PCs
  <1>3. CheckLeft(sess'[s]) = CheckLeft(sess[s])
    BY <1>1, <1>2 DEF CheckLeft
  <1> QED BY <1>1, <1>2, <1>3, SameRound DEF InCheck

LEMMA NextLeft == ASSUME TypeOK, TypeOK', [Next]_vars PROVE UsesUpSteps
  <1> SUFFICES ASSUME NEW t \in Sessions
               PROVE  /\ Step(t) => StepsLeft(t)' < StepsLeft(t)
                      /\ StepsLeft(t)' <= StepsLeft(t)
    BY DEF UsesUpSteps
  <1>1. Left(sess[t]) \in Nat /\ Left(sess'[t]) \in Nat
    <2>1. sess[t] \in Session /\ sess'[t] \in Session
      BY DEF TypeOK
    <2> QED BY <2>1, LeftBounded
  <1>2. Step(t) => Left(sess'[t]) < Left(sess[t])
    BY StepLeft DEF StepsLeft
  <1>3. Left(sess'[t]) <= Left(sess[t])
    <2>1. CASE Step(t)
      BY <1>1, <1>2, <2>1
    <2>2. CASE Start(t)
      BY <1>1, <2>2, StartLeft
    <2>3. ASSUME NEW s \in Sessions, s # t, Start(s) \/ Step(s)
          PROVE  Left(sess'[t]) <= Left(sess[t])
      <3>1. sess'[t] = sess[t]
        BY <2>3, StepLeftElsewhere
      <3> QED BY <1>1, <3>1
    <2>4. CASE UNCHANGED sess
      BY <1>1, <2>4
    <2> QED BY <2>1, <2>2, <2>3, <2>4
            DEF Next, ServerSwitches, BecomesUsable, Terminated, vars
  <1> QED BY <1>2, <1>3 DEF StepsLeft

\* A session has a bounded number of steps to take, and has ended when there is
\* none left: (MaxWait + 2) checks of MaxRetries + 3 pings and statements, and
\* five steps of RunMigrations, however often the server goes and comes back and
\* whatever the other sessions create meanwhile (EnsureRunning, Check,
\* RunMigrations: no loop of theirs starts over).
THEOREM SessionsAreBounded ==
    Spec => /\ [](\A s \in Sessions : /\ StepsLeft(s) \in 0 .. MostSteps
                                      /\ StepsLeft(s) = 0 <=> At(s, "ended"))
            /\ [][UsesUpSteps]_vars
  <1>1. ASSUME TypeOK, NEW s \in Sessions
        PROVE  StepsLeft(s) \in 0 .. MostSteps /\ (StepsLeft(s) = 0 <=> At(s, "ended"))
    <2>1. sess[s] \in Session
      BY <1>1 DEF TypeOK
    <2>2. sess[s].pc \notin InCheck => (Left(sess[s]) = 0 <=> sess[s].pc = "ended")
      BY <2>1 DEF Left, Behind, Session, PCs, InCheck
    <2>3. Left(sess[s]) \in 0 .. MostSteps /\ (sess[s].pc \in InCheck => Left(sess[s]) > 5)
      BY <2>1, LeftBounded
    <2>4. Left(sess[s]) = 0 <=> sess[s].pc = "ended"
      BY <2>2, <2>3 DEF InCheck
    <2> QED BY <2>3, <2>4 DEF StepsLeft, At
  <1>2. TypeOK => \A s \in Sessions : /\ StepsLeft(s) \in 0 .. MostSteps
                                      /\ StepsLeft(s) = 0 <=> At(s, "ended")
    BY <1>1
  <1>3. TypeOK /\ TypeOK' /\ [Next]_vars => [UsesUpSteps]_vars
    BY NextLeft
  <1> QED BY <1>2, <1>3, TypeCorrect, PTL DEF Spec
=============================================================================
