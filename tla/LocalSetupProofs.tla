-------------------------- MODULE LocalSetupProofs --------------------------
(* Proofs about LocalSetup: for any number of verification attempts, any   *)
(* stack that was up before and any command that may fail.                 *)
EXTENDS LocalSetup, TLAPS

\* Before `docker compose up` has succeeded nothing says it has.
BeforeUp == {"ensure", "offer", "up", "upRunning"}
UpInv ==
    /\ pc \in BeforeUp => "composeUp" \notin happened
    /\ startedDocker => "composeUp" \in happened

\* A clean-up of the main goroutine begins once; one that has not begun or has
\* completed has no work.  When both handles are dropped the ingest gateway has
\* been killed already.
CleanupInv ==
    /\ pc \notin {"cleanupFailed", "cleanupReturned"} => phase["main"] = "idle"
    /\ \A c \in Cleaners : phase[c] \in {"idle", "done"} => work[c] = NoWork
    /\ \A c \in Cleaners : work[c]["docker"] = "down" => "composeUp" \in happened
    /\ pc = "unverifiedStreaming" /\ wrapper["ingest"] = "alive" => "failure" \in happened

IInv ==
    /\ TypeOK
    /\ UpInv
    /\ CleanupInv
    /\ ComposeRemembered
    /\ HandleCoversWrapper
    /\ PanicOnlyAfterDeadline

\* The inductive invariant holds initially.
LEMMA InitIInv == Init => IInv
  <1> SUFFICES ASSUME Init PROVE IInv
    OBVIOUS
  <1> USE DEF Init
  <1>1. TypeOK
    <2>1. 1 \in 1..VerifyAttempts
      BY VerifyAttemptsAssumption
    <2>2. NobodyWorks \in [Cleaners -> [Workers -> WorkStates]]
      BY DEF NobodyWorks, NoWork, WorkStates
    <2>3. stale \subseteq Gateways
      BY StaleAssumption
    <2> QED
      BY <2>1, <2>2, <2>3, TestOIDCAssumption DEF TypeOK, PCs, Events, Cleaners, Gateways, Services
  <1>2. CleanupInv
    BY DEF CleanupInv, NobodyWorks, NoWork, Cleaners, Workers
  <1>3. UpInv /\ ComposeRemembered /\ HandleCoversWrapper /\ PanicOnlyAfterDeadline
    BY DEF UpInv, ComposeRemembered, Noted, HandleCoversWrapper, LiveWrappers, PanicOnlyAfterDeadline
  <1> QED
    BY <1>1, <1>2, <1>3 DEF IInv

\* A step that only moves the main goroutine, and not back to where Docker is
\* not up yet nor into a clean-up.
LEMMA MainMoves ==
    ASSUME IInv, MainOnly, pc' \in PCs,
           pc' \in BeforeUp => pc \in BeforeUp,
           pc' # "unverifiedStreaming",
           pc \notin {"cleanupFailed", "cleanupReturned"},
           \A g \in Gateways : pc # StorePC[g]
    PROVE  IInv'
  BY DEF IInv, TypeOK, UpInv, CleanupInv, ComposeRemembered, HandleCoversWrapper, Noted,
     LiveWrappers, PanicOnlyAfterDeadline, NoExpiry, MainOnly, setupVars, configVars,
     machineVars, signalVars, cleanupVars

\* Killing a wrapper keeps its type and only ever ends it.
LEMMA WrapperGoneType ==
    ASSUME TypeOK, NEW g \in Gateways
    PROVE  /\ WrapperGone(g) \in [Gateways -> {"none", "alive", "dead"}]
           /\ WrapperGone(g)[g] # "alive"
           /\ \A h \in Gateways : WrapperGone(g)[h] = "alive" => wrapper[h] = "alive"
  BY DEF TypeOK, WrapperGone

\* The steps of the main goroutine that change nothing but where it is.
LEMMA MovingSteps ==
    ASSUME IInv,
           \/ InfrastructureReady \/ InfrastructureNotReady \/ OfferAnswered
           \/ ComposeStarts \/ ServicesReady \/ ServicesNotReady
           \/ \E check \in DOMAIN NextCheck : CheckPasses(check) \/ CheckFails(check)
           \/ OIDCNotWanted \/ ContextCancelled
    PROVE  IInv'
  <1> USE DEF BeforeUp, PCs, StorePC, Gateways, Goto
  <1>1. CASE InfrastructureReady
    BY <1>1, MainMoves DEF InfrastructureReady
  <1>2. CASE InfrastructureNotReady
    BY <1>2, MainMoves DEF InfrastructureNotReady
  <1>3. CASE OfferAnswered
    BY <1>3, MainMoves DEF OfferAnswered
  <1>4. CASE ComposeStarts
    BY <1>4, MainMoves DEF ComposeStarts
  <1>5. CASE ServicesReady \/ ServicesNotReady
    BY <1>5, MainMoves DEF ServicesReady, ServicesNotReady
  <1>6. CASE \E check \in DOMAIN NextCheck : CheckPasses(check) \/ CheckFails(check)
    BY <1>6, MainMoves DEF NextCheck, CheckPasses, CheckFails
  <1>7. CASE OIDCNotWanted \/ ContextCancelled
    BY <1>7, MainMoves DEF OIDCNotWanted, ContextCancelled
  <1> QED
    BY <1>1, <1>2, <1>3, <1>4, <1>5, <1>6, <1>7

\* The steps that bring the compose stack up or down in the main goroutine.
LEMMA ComposeSteps ==
    ASSUME IInv,
           \/ \E s \in Services : ComposeStartsService(s)
           \/ ComposeUp \/ ComposeUpFails
           \/ AfterWaitCleanupDocker \/ AfterErrorCleanupDocker
    PROVE  IInv'
  <1> USE DEF IInv, TypeOK, UpInv, CleanupInv, ComposeRemembered, HandleCoversWrapper,
          Noted, LiveWrappers, PanicOnlyAfterDeadline, NoExpiry,
          setupVars, configVars, machineVars, signalVars, cleanupVars, Goto, BeforeUp, StorePC, Gateways
  <1>1. ASSUME NEW s \in Services, ComposeStartsService(s) PROVE IInv'
    BY <1>1 DEF ComposeStartsService
  <1>2. CASE ComposeUp
    BY <1>2 DEF ComposeUp, PCs, Events
  <1>3. CASE ComposeUpFails
    BY <1>3 DEF ComposeUpFails, PCs, Events
  <1>4. ASSUME MainCleanupDocker("giveUpWaiting", "dropDocker")
               \/ MainCleanupDocker("dropDocker", "failed")
        PROVE  IInv'
    <2>1. TypeOK'
      <3>1. compose' \in [Services -> {"absent", "foreign", "ours"}]
        BY <1>4 DEF MainCleanupDocker, DownSucceeds, DownFails
      <3>2. startedDocker' \in BOOLEAN /\ happened' \subseteq Events /\ pc' \in PCs
        BY <1>4 DEF MainCleanupDocker, DownSucceeds, DownFails, PCs, Events
      <3> QED
        BY <1>4, <3>1, <3>2 DEF MainCleanupDocker
    <2>2. UpInv'
      BY <1>4 DEF MainCleanupDocker, DownSucceeds, DownFails, PCs, Events
    <2>3. CleanupInv'
      BY <1>4 DEF MainCleanupDocker, DownSucceeds, DownFails, PCs, Events
    <2>4. ComposeRemembered'
      BY <1>4 DEF MainCleanupDocker, DownSucceeds, DownFails, PCs, Events
    <2>5. HandleCoversWrapper'
      BY <1>4 DEF MainCleanupDocker, DownSucceeds, DownFails, PCs, Events
    <2>6. PanicOnlyAfterDeadline'
      BY <1>4 DEF MainCleanupDocker, DownSucceeds, DownFails, PCs, Events
    <2> QED
      BY <2>1, <2>2, <2>3, <2>4, <2>5, <2>6
  <1> QED
    BY <1>1, <1>2, <1>3, <1>4 DEF AfterWaitCleanupDocker, AfterErrorCleanupDocker

\* The steps that start, store and verify the gateways.
LEMMA GatewaySteps ==
    ASSUME IInv,
           \/ StartMockOIDC \/ NotifySetup
           \/ StartIngest \/ StoreIngest \/ StartStreaming \/ StoreStreaming
           \/ IngestDoesNotStart \/ StreamingDoesNotStart
           \/ IngestHealthy \/ StreamingHealthy \/ GatewayUnhealthy
    PROVE  IInv'
  <1> USE DEF IInv, TypeOK, UpInv, CleanupInv, ComposeRemembered, HandleCoversWrapper,
          Noted, LiveWrappers, PanicOnlyAfterDeadline, NoExpiry,
          setupVars, configVars, machineVars, signalVars, cleanupVars, Goto, BeforeUp, StorePC, Gateways, PCs
  <1>1. CASE StartMockOIDC
    BY <1>1 DEF StartMockOIDC
  <1>2. CASE NotifySetup
    BY <1>2 DEF NotifySetup
  <1>3. CASE StartIngest
    BY <1>3 DEF StartIngest, GatewayStarts
  <1>4. CASE StartStreaming
    BY <1>4 DEF StartStreaming, GatewayStarts
  <1>5. CASE StoreIngest
    BY <1>5 DEF StoreIngest, GatewayStored
  <1>6. CASE StoreStreaming
    BY <1>6 DEF StoreStreaming, GatewayStored
  <1>7. CASE IngestDoesNotStart \/ StreamingDoesNotStart
    <2>1. TypeOK'
      BY <1>7 DEF IngestDoesNotStart, StreamingDoesNotStart
    <2>2. UpInv'
      BY <1>7 DEF IngestDoesNotStart, StreamingDoesNotStart
    <2>3. CleanupInv'
      BY <1>7 DEF IngestDoesNotStart, StreamingDoesNotStart
    <2>4. ComposeRemembered'
      BY <1>7 DEF IngestDoesNotStart, StreamingDoesNotStart
    <2>5. HandleCoversWrapper'
      BY <1>7 DEF IngestDoesNotStart, StreamingDoesNotStart
    <2>6. PanicOnlyAfterDeadline'
      BY <1>7 DEF IngestDoesNotStart, StreamingDoesNotStart
    <2> QED
      BY <2>1, <2>2, <2>3, <2>4, <2>5, <2>6
  <1>8. CASE IngestHealthy \/ StreamingHealthy
    <2>1. TypeOK'
      BY <1>8 DEF IngestHealthy, StreamingHealthy, KeepsConnection
    <2>2. UpInv'
      BY <1>8 DEF IngestHealthy, StreamingHealthy, KeepsConnection
    <2>3. CleanupInv'
      BY <1>8 DEF IngestHealthy, StreamingHealthy, KeepsConnection
    <2>4. ComposeRemembered'
      BY <1>8 DEF IngestHealthy, StreamingHealthy, KeepsConnection
    <2>5. HandleCoversWrapper'
      BY <1>8 DEF IngestHealthy, StreamingHealthy, KeepsConnection
    <2>6. PanicOnlyAfterDeadline'
      BY <1>8 DEF IngestHealthy, StreamingHealthy, KeepsConnection
    <2> QED
      BY <2>1, <2>2, <2>3, <2>4, <2>5, <2>6
  <1>9. CASE GatewayUnhealthy
    <2>1. TypeOK'
      <3>1. attempt' \in 1..VerifyAttempts
        BY <1>9, VerifyAttemptsAssumption DEF GatewayUnhealthy, NoGoodAnswer, KeepsConnection
      <3>2. pc' \in PCs /\ ctxDone' \in BOOLEAN
        BY <1>9 DEF GatewayUnhealthy, NoGoodAnswer, KeepsConnection
      <3> QED
        BY <1>9, <3>1, <3>2 DEF GatewayUnhealthy, NoGoodAnswer, KeepsConnection
    <2>2. UpInv'
      BY <1>9, VerifyAttemptsAssumption DEF GatewayUnhealthy, NoGoodAnswer, KeepsConnection
    <2>3. CleanupInv'
      BY <1>9, VerifyAttemptsAssumption DEF GatewayUnhealthy, NoGoodAnswer, KeepsConnection
    <2>4. ComposeRemembered'
      BY <1>9, VerifyAttemptsAssumption DEF GatewayUnhealthy, NoGoodAnswer, KeepsConnection
    <2>5. HandleCoversWrapper'
      BY <1>9, VerifyAttemptsAssumption DEF GatewayUnhealthy, NoGoodAnswer, KeepsConnection
    <2>6. PanicOnlyAfterDeadline'
      BY <1>9, VerifyAttemptsAssumption DEF GatewayUnhealthy, NoGoodAnswer, KeepsConnection
    <2> QED
      BY <2>1, <2>2, <2>3, <2>4, <2>5, <2>6
  <1> QED
    BY <1>1, <1>2, <1>3, <1>4, <1>5, <1>6, <1>7, <1>8, <1>9

\* The main goroutine kills a wrapper and forgets handles: only the one it
\* killed, or both after it has killed both.
LEMMA MainKillStep ==
    ASSUME IInv, NEW g \in Gateways, NEW dropped \in SUBSET Gateways,
           NEW from \in PCs, NEW to \in PCs \ BeforeUp,
           from \notin {"storeIngest", "storeStreaming", "cleanupFailed", "cleanupReturned"},
           to = "unverifiedStreaming" => g = "ingest",
           from # "unverifiedStreaming" => dropped \subseteq {g},
           from = "unverifiedStreaming" => g # "ingest",
           MainKills(g, dropped, from, to)
    PROVE  IInv'
  <1> USE DEF IInv, TypeOK, UpInv, CleanupInv, ComposeRemembered, HandleCoversWrapper,
          Noted, LiveWrappers, PanicOnlyAfterDeadline, NoExpiry,
          setupVars, configVars, machineVars, signalVars, cleanupVars, Goto, BeforeUp,
          StorePC, Gateways
  <1>0. /\ pc = from /\ pc' = to /\ cmd' = cmd \ dropped
        /\ happened' \in {happened, happened \cup {"failure"}}
        /\ \A h \in Gateways : wrapper'[h] = "alive" => wrapper[h] = "alive"
        /\ wrapper'[g] = "alive" => "failure" \in happened'
    <2>1. \A h \in Gateways : WrapperGone(g)[h] = "alive" => wrapper[h] = "alive"
      BY WrapperGoneType
    <2>2. WrapperGone(g)[g] # "alive"
      BY WrapperGoneType
    <2>3. CASE g \in cmd
      BY <2>1, <2>2, <2>3 DEF MainKills, KillWrapper
    <2>4. CASE g \notin cmd
      BY <2>4 DEF MainKills
    <2> QED
      BY <2>3, <2>4
  <1>1. TypeOK'
    <2>1. happened' \subseteq Events
      BY DEF MainKills, KillWrapper, Events
    <2>3. wrapper' \in [Gateways -> {"none", "alive", "dead"}]
      BY WrapperGoneType DEF MainKills, KillWrapper
    <2>2. pc' \in PCs /\ cmd' \subseteq Gateways
      BY DEF MainKills
    <2> QED
      BY <2>1, <2>2, <2>3 DEF MainKills
  <1>2. UpInv'
    BY DEF MainKills, KillWrapper, WrapperGone, Events
  <1>3. CleanupInv'
    <2>1. UNCHANGED <<phase, work>>
      BY DEF MainKills
    <2> QED
      BY <1>0, <2>1
  <1>4. ComposeRemembered'
    BY DEF MainKills, KillWrapper, WrapperGone, Events
  <1>5. HandleCoversWrapper'
    BY <1>0
  <1>6. PanicOnlyAfterDeadline'
    BY DEF MainKills, KillWrapper, WrapperGone, Events
  <1> QED
    BY <1>1, <1>2, <1>3, <1>4, <1>5, <1>6

LEMMA MainKillSteps ==
    ASSUME IInv,
           \/ DropIngest \/ UnverifiedKillIngest \/ UnverifiedKillStreaming
           \/ StopStreaming
    PROVE  IInv'
  <1>1. /\ "ingest" \in Gateways /\ "streaming" \in Gateways
        /\ {"dropIngest", "unverified", "unverifiedStreaming", "stopStreaming"} \subseteq PCs
        /\ {"failed", "unverifiedStreaming", "returned"} \subseteq PCs \ BeforeUp
    BY DEF PCs, Gateways, BeforeUp
  <1>2. CASE DropIngest
    <2>1. MainKills("ingest", {"ingest"}, "dropIngest", "failed")
      BY <1>2 DEF DropIngest
    <2> QED
      BY <1>1, <2>1, MainKillStep
  <1>3. CASE UnverifiedKillIngest
    <2>1. MainKills("ingest", {}, "unverified", "unverifiedStreaming")
      BY <1>3 DEF UnverifiedKillIngest
    <2> QED
      BY <1>1, <2>1, MainKillStep
  <1>4. CASE UnverifiedKillStreaming
    <2>1. MainKills("streaming", Gateways, "unverifiedStreaming", "failed")
      BY <1>4 DEF UnverifiedKillStreaming
    <2> QED
      BY <1>1, <2>1, MainKillStep
  <1>5. CASE StopStreaming
    <2>1. MainKills("streaming", {"streaming"}, "stopStreaming", "returned")
      BY <1>5 DEF StopStreaming
    <2> QED
      BY <1>1, <2>1, MainKillStep
  <1> QED
    BY <1>2, <1>3, <1>4, <1>5

\* A clean-up starts, completes or runs into its deadline.
LEMMA CleanupSteps ==
    ASSUME IInv, exit = "alive",
           \/ MainCleansUp \/ HandlerTakesSignal
           \/ \E c \in Cleaners : CleanupEnds(c)
    PROVE  IInv'
  <1> USE DEF IInv, TypeOK, UpInv, CleanupInv, ComposeRemembered, HandleCoversWrapper,
          Noted, LiveWrappers, PanicOnlyAfterDeadline, NoExpiry, setupVars, configVars, machineVars, signalVars, cleanupVars, Goto, BeforeUp,
          StorePC
  <1>1. InitialWork \in [Workers -> WorkStates \ {"down"}]
    BY DEF InitialWork, WorkStates
  <1>2. ASSUME NEW c \in Cleaners, phase[c] = "idle", BeginCleanup(c)
        PROVE  /\ work' \in [Cleaners -> [Workers -> WorkStates]]
               /\ phase' \in [Cleaners -> {"idle", "running", "done", "expired"}]
               /\ \A d \in Cleaners : phase'[d] \in {"idle", "done"} => work'[d] = NoWork
               /\ \A d \in Cleaners : work'[d]["docker"] = "down"
                                        => work[d]["docker"] = "down"
               /\ \A d \in Cleaners \ {c} : phase'[d] = phase[d]
    <2>1. /\ phase \in [Cleaners -> {"idle", "running", "done", "expired"}]
          /\ work \in [Cleaners -> [Workers -> WorkStates]]
          /\ \A d \in Cleaners : phase[d] \in {"idle", "done"} => work[d] = NoWork
      OBVIOUS
    <2>2. CASE HasAnythingToCleanup
      <3>1. phase' = [phase EXCEPT ![c] = "running"] /\ work' = [work EXCEPT ![c] = InitialWork]
        BY <1>2, <2>2 DEF BeginCleanup
      <3> HIDE DEF IInv, TypeOK, UpInv, CleanupInv, ComposeRemembered, HandleCoversWrapper,
                   PanicOnlyAfterDeadline
      <3> QED
        BY <1>1, <1>2, <2>1, <3>1 DEF Workers
    <2>3. CASE ~HasAnythingToCleanup
      <3>1. phase' = [phase EXCEPT ![c] = "done"] /\ work' = work
        BY <1>2, <2>3 DEF BeginCleanup
      <3> HIDE DEF IInv, TypeOK, UpInv, CleanupInv, ComposeRemembered, HandleCoversWrapper,
                   PanicOnlyAfterDeadline
      <3> QED
        BY <1>2, <2>1, <3>1
    <2> QED
      BY <2>2, <2>3
  <1>3. CASE MainCleansUp
    <2>0. "main" \in Cleaners /\ phase["main"] = "idle" /\ BeginCleanup("main")
      BY <1>3 DEF MainCleansUp, Cleaners
    <2>1. TypeOK'
      BY <1>2, <1>3, <2>0 DEF MainCleansUp, PCs
    <2>2. UpInv'
      BY <1>2, <1>3, <2>0 DEF MainCleansUp, PCs
    <2>3. CleanupInv'
      BY <1>2, <1>3, <2>0 DEF MainCleansUp, PCs
    <2>4. ComposeRemembered'
      BY <1>2, <1>3, <2>0 DEF MainCleansUp, PCs
    <2>5. HandleCoversWrapper'
      BY <1>3 DEF MainCleansUp, Gateways
    <2>6. PanicOnlyAfterDeadline'
      BY <1>2, <1>3, <2>0 DEF MainCleansUp, PCs
    <2> QED
      BY <2>1, <2>2, <2>3, <2>4, <2>5, <2>6
  <1>4. CASE HandlerTakesSignal
    <2>1. "handler" \in Cleaners /\ phase["handler"] = "idle" /\ BeginCleanup("handler")
      BY <1>4 DEF HandlerTakesSignal, Cleaners
    <2>2. happened' \subseteq Events /\ ("composeUp" \in happened' <=> "composeUp" \in happened)
          /\ ("failure" \in happened' <=> "failure" \in happened)
      BY <1>4 DEF HandlerTakesSignal, SetupStage, Events
    <2> QED
      BY <1>2, <1>4, <2>1, <2>2 DEF HandlerTakesSignal, Cleaners
  <1>5. ASSUME NEW c \in Cleaners, CleanupEnds(c) PROVE IInv'
    <2>1. TypeOK'
      <3>1. phase' \in [Cleaners -> {"idle", "running", "done", "expired"}]
        BY <1>5 DEF CleanupEnds, CleanupCompletes, CleanupDeadline
      <3>2. UNCHANGED <<setupVars, configVars, machineVars, signalVars, work, exit, happened>>
        BY <1>5 DEF CleanupEnds, CleanupCompletes, CleanupDeadline
      <3> QED
        BY <3>1, <3>2
    <2>2. UpInv'
      BY <1>5 DEF CleanupEnds, CleanupCompletes, CleanupDeadline
    <2>3. CleanupInv'
      <3>1. phase[c] = "running" /\ UNCHANGED <<pc, work, happened, wrapper>>
        BY <1>5 DEF CleanupEnds, CleanupCompletes, CleanupDeadline
      <3>2. \/ work[c] = NoWork /\ phase' = [phase EXCEPT ![c] = "done"]
            \/ phase' = [phase EXCEPT ![c] = "expired"]
        BY <1>5 DEF CleanupEnds, CleanupCompletes, CleanupDeadline
      <3>3. pc \notin {"cleanupFailed", "cleanupReturned"} => phase'["main"] = "idle"
        BY <3>1, <3>2 DEF Cleaners
      <3>4. \A d \in Cleaners : phase'[d] \in {"idle", "done"} => work[d] = NoWork
        BY <3>1, <3>2
      <3> QED
        BY <3>1, <3>3, <3>4
    <2>4. ComposeRemembered'
      BY <1>5 DEF CleanupEnds, CleanupCompletes, CleanupDeadline
    <2>5. HandleCoversWrapper'
      BY <1>5 DEF CleanupEnds, CleanupCompletes, CleanupDeadline
    <2>6. PanicOnlyAfterDeadline'
      BY <1>5 DEF CleanupEnds, CleanupCompletes, CleanupDeadline
    <2> QED
      BY <2>1, <2>2, <2>3, <2>4, <2>5, <2>6
  <1> QED
    BY <1>3, <1>4, <1>5

\* What a change of one worker's state, and the end of the process, do to the
\* clean-ups: only a worker with work moves, so its clean-up is under way.
WorkOnlyMoves ==
    /\ work' \in [Cleaners -> [Workers -> WorkStates]]
    /\ \A d \in Cleaners : phase[d] \in {"idle", "done"} => work'[d] = NoWork

NoNewDown == \A d \in Cleaners : work'[d]["docker"] = "down" => work[d]["docker"] = "down"

LEMMA WorkMoves ==
    ASSUME IInv, NEW c \in Cleaners, NEW w \in Workers, work[c][w] # "done",
           NEW to \in WorkStates, work' = [work EXCEPT ![c][w] = to]
    PROVE  /\ WorkOnlyMoves
           /\ to # "down" => NoNewDown
           /\ phase[c] \in {"running", "expired"}
  <1>1. phase[c] \notin {"idle", "done"}
    BY DEF IInv, CleanupInv, NoWork
  <1>2. work' \in [Cleaners -> [Workers -> WorkStates]]
    BY DEF IInv, TypeOK
  <1>3. \A d \in Cleaners \ {c} : work'[d] = work[d]
    BY DEF IInv, TypeOK
  <1>4. \A v \in Workers : work'[c][v] = IF v = w THEN to ELSE work[c][v]
    BY DEF IInv, TypeOK
  <1>5. "docker" \in Workers
    BY DEF Workers
  <1> QED
    BY <1>1, <1>2, <1>3, <1>4, <1>5 DEF WorkOnlyMoves, NoNewDown, IInv, TypeOK, CleanupInv

LEMMA ProcessEnd ==
    ASSUME NEW how, Ends(how)
    PROVE  WorkOnlyMoves /\ NoNewDown
  BY DEF Ends, WorkOnlyMoves, NoNewDown, NobodyWorks, NoWork, WorkStates, Workers

LEMMA Reports ==
    ASSUME IInv, exit = "alive", NEW c \in Cleaners, NEW w \in Workers,
           work[c][w] # "done", Report(c, w)
    PROVE  /\ WorkOnlyMoves
           /\ NoNewDown
           /\ exit' \in {"alive", "panic"}
           /\ exit' = "panic" => phase[c] = "expired"
  <1>1. CASE phase[c] = "running"
    BY <1>1, WorkMoves DEF Report, WorkStates
  <1>2. CASE phase[c] # "running"
    <2>1. phase[c] = "expired"
      BY <1>2 DEF IInv, TypeOK, CleanupInv, NoWork
    <2> QED
      BY <1>2, <2>1, ProcessEnd DEF Report, Ends
  <1> QED
    BY <1>1, <1>2

\* What is left to show of a worker's step once its work and the machine are
\* accounted for.
LEMMA WorkerKeeps ==
    ASSUME IInv, exit = "alive", UNCHANGED <<setupVars, oidc, idleConn, signalVars, phase>>,
           WorkOnlyMoves,
           \A c \in Cleaners : work'[c]["docker"] = "down" => "composeUp" \in happened,
           exit' \in {"alive", "panic", "selfKilled"},
           exit' = "panic" => ~NoExpiry,
           happened' \in {happened, happened \cup {"failure"}},
           cmd' \subseteq Gateways,
           wrapper' \in [Gateways -> {"none", "alive", "dead"}],
           \A g \in Gateways : wrapper'[g] = "alive" => wrapper[g] = "alive",
           server' \in [Gateways -> {"none", "starting", "serving"}],
           stale' \subseteq Gateways,
           compose' \in [Services -> {"absent", "foreign", "ours"}],
           startedDocker' \in BOOLEAN,
           startedDocker' => "composeUp" \in happened,
           ComposeRemembered', HandleCoversWrapper'
    PROVE  IInv'
  <1>1. TypeOK'
    BY DEF IInv, TypeOK, WorkOnlyMoves, setupVars, signalVars, Events
  <1>2. UpInv' /\ CleanupInv'
    BY DEF IInv, UpInv, CleanupInv, WorkOnlyMoves, setupVars, signalVars, BeforeUp, Gateways
  <1>3. PanicOnlyAfterDeadline'
    BY DEF PanicOnlyAfterDeadline, NoExpiry
  <1> QED
    BY <1>1, <1>2, <1>3 DEF IInv

\* The machine as far as the workers of a clean-up leave it alone.
LEMMA Untouched ==
    ASSUME IInv, UNCHANGED <<pc, startedDocker, compose>>,
           happened' \in {happened, happened \cup {"failure"}},
           cmd' \subseteq cmd,
           \A g \in Gateways : wrapper'[g] = "alive" =>
               wrapper[g] = "alive" /\ (g \in cmd => g \in cmd' \/ "failure" \in happened')
    PROVE  ComposeRemembered' /\ HandleCoversWrapper'
  BY DEF IInv, ComposeRemembered, HandleCoversWrapper, LiveWrappers, Noted

\* The steps of a worker that kills a gateway's wrapper.
LEMMA GatewayWorkerStep ==
    ASSUME IInv, exit = "alive", NEW c \in Cleaners, NEW g \in Gateways, GatewayWorker(c, g)
    PROVE  IInv'
  <1>1. g \in Workers /\ work[c][g] # "done" /\ Report(c, g)
    BY DEF GatewayWorker, Workers
  <1>2. /\ WorkOnlyMoves /\ NoNewDown /\ exit' \in {"alive", "panic"}
        /\ exit' = "panic" => ~NoExpiry
    BY <1>1, Reports DEF NoExpiry
  <1>3. /\ wrapper' \in [Gateways -> {"none", "alive", "dead"}]
        /\ happened' \in {happened, happened \cup {"failure"}}
        /\ \A h \in Gateways : wrapper'[h] = "alive" => wrapper[h] = "alive"
        /\ wrapper'[g] = "alive" => "failure" \in happened'
    <2>1. \/ wrapper' = WrapperGone(g) /\ happened' = happened
          \/ wrapper' \in {wrapper, WrapperGone(g)} /\ happened' = happened \cup {"failure"}
      BY DEF GatewayWorker, KillWrapper
    <2>2. TypeOK /\ wrapper \in [Gateways -> {"none", "alive", "dead"}]
      BY DEF IInv, TypeOK
    <2> QED
      BY <2>1, <2>2, WrapperGoneType
  <1>4. cmd' = cmd \ {g}
    BY DEF GatewayWorker
  <1>5. ComposeRemembered' /\ HandleCoversWrapper'
    BY <1>3, <1>4, Untouched DEF GatewayWorker, setupVars
  <1> QED
    BY <1>2, <1>3, <1>4, <1>5, WorkerKeeps
       DEF GatewayWorker, IInv, TypeOK, UpInv, CleanupInv, NoNewDown

\* The steps of a worker that kills what holds a port.
LEMMA PortWorkerStep ==
    ASSUME IInv, exit = "alive", NEW c \in Cleaners,
           NEW from \in DOMAIN PortOf,
           KillPortProcesses(c, from) \/ KillPortProcessesHitsSelf(c, from) \/ LsofFails(c, from)
    PROVE  IInv'
  <1> USE DEF PortOf
  <1>1. ASSUME work[c]["ports"] = from, PortWorkerAdvances(c, from)
        PROVE  /\ WorkOnlyMoves /\ NoNewDown /\ exit' \in {"alive", "panic"}
               /\ exit' = "panic" => ~NoExpiry
    <2>1. "ports" \in Workers /\ work[c]["ports"] # "done"
      BY <1>1 DEF Workers
    <2>2. CASE from = "lsofIngest"
      BY <1>1, <2>1, <2>2, WorkMoves DEF PortWorkerAdvances, WorkStates
    <2>3. CASE from = "lsofStreaming"
      BY <1>1, <2>1, <2>3, Reports DEF PortWorkerAdvances, NoExpiry
    <2> QED
      BY <1>1, <2>2, <2>3
  <1>2. ASSUME NEW g \in Gateways, PortFreed(g)
        PROVE  /\ wrapper' \in [Gateways -> {"none", "alive", "dead"}]
               /\ server' \in [Gateways -> {"none", "starting", "serving"}]
               /\ stale' \subseteq Gateways
               /\ \A h \in Gateways : wrapper'[h] = "alive" => wrapper[h] = "alive"
    BY <1>2, WrapperGoneType DEF IInv, TypeOK, PortFreed
  <1>3. CASE KillPortProcesses(c, from)
    <2>1. PortOf[from] \in Gateways /\ PortFreed(PortOf[from])
      BY <1>3 DEF KillPortProcesses, Gateways
    <2>2. ComposeRemembered' /\ HandleCoversWrapper'
      BY <1>2, <1>3, <2>1, Untouched DEF KillPortProcesses, setupVars, configVars
    <2> QED
      BY <1>1, <1>2, <1>3, <2>1, <2>2, WorkerKeeps
         DEF KillPortProcesses, configVars, IInv, TypeOK, UpInv, CleanupInv, NoNewDown
  <1>4. CASE LsofFails(c, from)
    <2>1. ComposeRemembered' /\ HandleCoversWrapper'
      BY <1>4, Untouched DEF LsofFails, setupVars, configVars, machineVars
    <2> QED
      BY <1>1, <1>4, <2>1, WorkerKeeps
         DEF LsofFails, configVars, machineVars, IInv, TypeOK, UpInv, CleanupInv, NoNewDown
  <1>5. CASE KillPortProcessesHitsSelf(c, from)
    <2>1. /\ wrapper' \in [Gateways -> {"none", "alive", "dead"}]
          /\ server' \in [Gateways -> {"none", "starting", "serving"}]
          /\ stale' \subseteq Gateways
          /\ \A h \in Gateways : wrapper'[h] = "alive" => wrapper[h] = "alive"
      BY <1>2, <1>5 DEF KillPortProcessesHitsSelf, PortOf, Gateways, IInv, TypeOK
    <2>2. ComposeRemembered' /\ HandleCoversWrapper'
      BY <1>5, <2>1, Untouched DEF KillPortProcessesHitsSelf, setupVars, configVars
    <2>3. WorkOnlyMoves /\ NoNewDown /\ exit' = "selfKilled"
      BY <1>5, ProcessEnd DEF KillPortProcessesHitsSelf, Ends
    <2> QED
      BY <1>5, <2>1, <2>2, <2>3, WorkerKeeps
         DEF KillPortProcessesHitsSelf, configVars, IInv, TypeOK, UpInv, CleanupInv, NoNewDown
  <1> QED
    BY <1>3, <1>4, <1>5

\* The steps of a worker that stops Docker.
LEMMA DockerWorkerStep ==
    ASSUME IInv, exit = "alive", NEW c \in Cleaners,
           DockerWorkerGuard(c) \/ DockerWorkerDown(c)
    PROVE  IInv'
  <1>1. "docker" \in Workers /\ work[c]["docker"] # "done"
    BY DEF DockerWorkerGuard, DockerWorkerDown, Workers
  <1>2. CASE DockerWorkerGuard(c)
    <2>1. ComposeRemembered' /\ HandleCoversWrapper'
      BY <1>2, Untouched DEF DockerWorkerGuard, setupVars, configVars, machineVars
    <2>2. CASE startedDocker
      BY <1>1, <1>2, <2>1, <2>2, WorkMoves, WorkerKeeps
         DEF DockerWorkerGuard, configVars, machineVars, IInv, TypeOK, UpInv, CleanupInv,
             WorkStates
    <2>3. CASE ~startedDocker
      <3>1. /\ WorkOnlyMoves /\ NoNewDown /\ exit' \in {"alive", "panic"}
            /\ exit' = "panic" => ~NoExpiry
        BY <1>1, <1>2, <2>3, Reports DEF DockerWorkerGuard, NoExpiry
      <3> QED
        BY <1>2, <2>1, <3>1, WorkerKeeps
           DEF DockerWorkerGuard, configVars, machineVars, IInv, TypeOK, UpInv, CleanupInv,
               NoNewDown
    <2> QED
      BY <2>2, <2>3
  <1>3. CASE DockerWorkerDown(c)
    <2>1. /\ WorkOnlyMoves /\ NoNewDown /\ exit' \in {"alive", "panic"}
          /\ exit' = "panic" => ~NoExpiry
      BY <1>1, <1>3, Reports DEF DockerWorkerDown, NoExpiry
    <2>2. /\ compose' \in [Services -> {"absent", "foreign", "ours"}]
          /\ startedDocker' \in {startedDocker, FALSE}
          /\ happened' \in {happened, happened \cup {"failure"}}
      BY <1>3 DEF DockerWorkerDown, DownSucceeds, DownFails, IInv, TypeOK
    <2>3. ComposeRemembered'
      BY <1>3 DEF DockerWorkerDown, DownSucceeds, DownFails, IInv, TypeOK, ComposeRemembered,
         Noted
    <2>4. HandleCoversWrapper'
      BY <1>3, <2>2 DEF DockerWorkerDown, setupVars, IInv, HandleCoversWrapper, LiveWrappers, Noted
    <2> QED
      BY <1>3, <2>1, <2>2, <2>3, <2>4, WorkerKeeps
         DEF DockerWorkerDown, IInv, TypeOK, UpInv, CleanupInv, NoNewDown
  <1> QED
    BY <1>2, <1>3

\* The end of main and of the handler.
LEMMA ExitSteps ==
    ASSUME IInv, exit = "alive", MainExits \/ HandlerExits
    PROVE  IInv'
  <1>1. /\ WorkOnlyMoves /\ NoNewDown
        /\ exit' \in {"ok", "setupFailed", "handler"}
        /\ UNCHANGED <<setupVars, configVars, machineVars, signalVars, phase, happened>>
    BY ProcessEnd DEF MainExits, HandlerExits, Ends
  <1>2. TypeOK'
    BY <1>1 DEF IInv, TypeOK, WorkOnlyMoves, setupVars, configVars, machineVars, signalVars
  <1>3. UpInv' /\ CleanupInv'
    BY <1>1 DEF IInv, UpInv, CleanupInv, WorkOnlyMoves, NoNewDown, setupVars, configVars,
       machineVars
  <1>4. ComposeRemembered' /\ HandleCoversWrapper' /\ PanicOnlyAfterDeadline'
    BY <1>1 DEF IInv, ComposeRemembered, HandleCoversWrapper, LiveWrappers, Noted,
       PanicOnlyAfterDeadline, setupVars, configVars, machineVars
  <1> QED
    BY <1>2, <1>3, <1>4 DEF IInv

\* Signals on their way, and what the gateways' processes do by themselves.
LEMMA MachineSteps ==
    ASSUME IInv,
           \/ Interrupt \/ ListenerTakesSignal
           \/ \E g \in Gateways : \/ ContextKills(g) \/ WrapperFails(g) \/ ServerStarts(g)
                                  \/ ServerListens(g) \/ ServerExits(g)
    PROVE  IInv'
  <1>1. /\ UNCHANGED <<setupVars, configVars, compose, oidc, stale, idleConn, cleanupVars,
                       exit, happened>>
        /\ wrapper' \in [Gateways -> {"none", "alive", "dead"}]
        /\ \A g \in Gateways : wrapper'[g] = "alive" => wrapper[g] = "alive"
    BY WrapperGoneType DEF Interrupt, ListenerTakesSignal, ContextKills, WrapperFails,
       ServerStarts, ServerListens, ServerExits, machineVars, IInv, TypeOK
  <1>2. /\ server' \in [Gateways -> {"none", "starting", "serving"}]
        /\ ctxDone' \in BOOLEAN
        /\ listener' \in {"off", "waiting", "done"}
        /\ pending' \subseteq {"main", "setup"}
    BY DEF Interrupt, Readers, ListenerTakesSignal, ContextKills, WrapperFails,
       ServerStarts, ServerListens, ServerExits, machineVars, signalVars, IInv, TypeOK
  <1>3. TypeOK'
    BY <1>1, <1>2 DEF IInv, TypeOK, setupVars, configVars, cleanupVars
  <1>4. UpInv' /\ CleanupInv' /\ ComposeRemembered' /\ PanicOnlyAfterDeadline'
    BY <1>1 DEF IInv, UpInv, CleanupInv, ComposeRemembered, PanicOnlyAfterDeadline, NoExpiry,
       Noted, setupVars, configVars, cleanupVars, Gateways
  <1>5. HandleCoversWrapper'
    BY <1>1 DEF IInv, HandleCoversWrapper, LiveWrappers, Noted, setupVars, configVars
  <1> QED
    BY <1>3, <1>4, <1>5 DEF IInv

\* Every step of the program and of the machine keeps the invariant.
LEMMA NextIInv == IInv /\ [Next]_vars => IInv'
  <1> SUFFICES ASSUME IInv, [Next]_vars PROVE IInv'
    OBVIOUS
  <1>1. CASE UNCHANGED vars
    BY <1>1 DEF vars, IInv, TypeOK, UpInv, CleanupInv, ComposeRemembered, HandleCoversWrapper,
       PanicOnlyAfterDeadline, NoExpiry, LiveWrappers, Noted, setupVars, configVars,
       machineVars, signalVars, cleanupVars
  <1>2. ASSUME exit = "alive", MainStep \/ OfferAnswered PROVE IInv'
    BY <1>2, MovingSteps, ComposeSteps, GatewaySteps, MainKillSteps, CleanupSteps, ExitSteps
       DEF MainStep, EnsureRunning, Checks, GatewaysUp
  <1>3. ASSUME exit = "alive", NEW c \in Cleaners, CleanupWorker(c) \/ CleanupEnds(c)
        PROVE  IInv'
    BY <1>3, GatewayWorkerStep, PortWorkerStep, DockerWorkerStep, CleanupSteps
       DEF CleanupWorker
  <1>4. ASSUME exit = "alive", HandlerTakesSignal \/ HandlerExits \/ ListenerTakesSignal
                               \/ Machine \/ Interrupt
        PROVE  IInv'
    BY <1>4, CleanupSteps, ExitSteps, MachineSteps, ComposeSteps DEF Machine
  <1> QED
    BY <1>1, <1>2, <1>3, <1>4 DEF Next, Alive, Terminated

\* The inductive invariant of the specification.
THEOREM Invariance == Spec => []IInv
  BY InitIInv, NextIInv, PTL DEF Spec

\* Type correctness.
THEOREM TypeCorrect == Spec => []TypeOK
  BY Invariance, PTL DEF IInv

\* frkrup never forgets a stack it brought up: when startedDocker is cleared,
\* the stack is down.
THEOREM ComposeIsRemembered == Spec => []ComposeRemembered
  BY Invariance, PTL DEF IInv

\* No handle of a running wrapper is lost, unless a killer gave up on it.
THEOREM HandlesCoverWrappers == Spec => []HandleCoversWrapper
  BY Invariance, PTL DEF IInv

\* A worker never finds the channel of results closed before the deadline.
THEOREM PanicsAreLate == Spec => []PanicOnlyAfterDeadline
  BY Invariance, PTL DEF IInv
=============================================================================
