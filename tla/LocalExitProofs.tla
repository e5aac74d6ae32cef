--------------------------- MODULE LocalExitProofs --------------------------
(* Proofs about how a session of LocalSetup ends: what an orderly exit     *)
(* leaves behind, and that a stack of somebody else is left alone.         *)
EXTENDS LocalSetupProofs

\* A clean-up that began when setup had nothing left to acquire.
Settled(c) == phase[c] # "idle" /\ (c = "main" \/ "acquiring" \notin happened)

\* What a worker of such a clean-up has done when it is done.
Accounted(c) ==
    /\ work[c]["docker"] = "done" => ~startedDocker \/ "failure" \in happened
    /\ \A g \in Gateways : work[c][g] = "done" => g \notin cmd

OursRemembered ==
    Ours # {} => startedDocker \/ pc = "upRunning" \/ "failure" \in happened

OrderlyInv ==
    /\ OursRemembered
    /\ exit = "alive" => \A c \in Cleaners : Settled(c) =>
           /\ ~Acquiring
           /\ phase[c] # "expired" => Accounted(c)
    /\ OrderlyExitStopsCompose
    /\ OrderlyExitStopsWrappers

\* The invariant holds initially: no clean-up has begun.
LEMMA InitOrderly == Init => OrderlyInv
  BY StaleAssumption, ForeignAssumption
     DEF Init, OrderlyInv, OursRemembered, Ours, Settled, Cleaners, OrderlyExitStopsCompose,
         OrderlyExitStopsWrappers, Orderly

\* A step that lets no clean-up begin or advance, acquires nothing and stays
\* where the main goroutine was or goes on.
LEMMA QuietStep ==
    ASSUME IInv, OrderlyInv, exit = "alive",
           UNCHANGED <<phase, work, exit>>,
           happened \subseteq happened',
           cmd' \subseteq cmd,
           startedDocker' => startedDocker,
           OursRemembered',
           Acquiring' => Acquiring
    PROVE  OrderlyInv'
  <1>1. \A c \in Cleaners : Settled(c)' => Settled(c)
    BY DEF Settled
  <1>2. \A c \in Cleaners : Accounted(c) => Accounted(c)'
    BY DEF Accounted
  <1>3. ~Orderly'
    BY DEF Orderly
  <1> QED
    BY <1>1, <1>2, <1>3 DEF OrderlyInv, OrderlyExitStopsCompose, OrderlyExitStopsWrappers

\* The main goroutine moves, or kills a wrapper, or cleans up after Docker.
LEMMA MainQuiet ==
    ASSUME IInv, OrderlyInv, exit = "alive",
           \/ InfrastructureReady \/ InfrastructureNotReady \/ OfferAnswered
           \/ ComposeStarts \/ ServicesReady \/ ServicesNotReady
           \/ \E check \in DOMAIN NextCheck : CheckPasses(check) \/ CheckFails(check)
           \/ OIDCNotWanted \/ StreamingHealthy \/ ContextCancelled
           \/ StartMockOIDC \/ NotifySetup \/ StartIngest \/ StartStreaming
           \/ IngestDoesNotStart \/ StreamingDoesNotStart
           \/ IngestHealthy \/ GatewayUnhealthy
    PROVE  OrderlyInv'
  <1>1. UNCHANGED <<phase, work, exit, happened, cmd, startedDocker, compose>>
    BY DEF InfrastructureReady, InfrastructureNotReady, OfferAnswered, ComposeStarts,
       ServicesReady, ServicesNotReady, CheckPasses, CheckFails, OIDCNotWanted,
       StreamingHealthy, ContextCancelled, StartMockOIDC, NotifySetup, StartIngest,
       StartStreaming, GatewayStarts, IngestDoesNotStart, StreamingDoesNotStart,
       IngestHealthy, GatewayUnhealthy, NoGoodAnswer, KeepsConnection, MainOnly, configVars,
       machineVars, cleanupVars
  <1>2. pc # "upRunning"
    BY DEF InfrastructureReady, InfrastructureNotReady, OfferAnswered, ComposeStarts,
       ServicesReady, ServicesNotReady, CheckPasses, CheckFails, OIDCNotWanted,
       StreamingHealthy, ContextCancelled, StartMockOIDC, NotifySetup, StartIngest,
       StartStreaming, GatewayStarts, IngestDoesNotStart, StreamingDoesNotStart,
       IngestHealthy, GatewayUnhealthy, Goto, NextCheck
  <1>3. Acquiring' => Acquiring
    BY DEF InfrastructureReady, InfrastructureNotReady, OfferAnswered, ComposeStarts,
       ServicesReady, ServicesNotReady, CheckPasses, CheckFails, OIDCNotWanted,
       StreamingHealthy, ContextCancelled, StartMockOIDC, NotifySetup, StartIngest,
       StartStreaming, GatewayStarts, IngestDoesNotStart, StreamingDoesNotStart,
       IngestHealthy, GatewayUnhealthy, Goto, NextCheck, Acquiring
  <1>4. OursRemembered'
    BY <1>1, <1>2 DEF OrderlyInv, OursRemembered, Ours
  <1> QED
    BY <1>1, <1>3, <1>4, QuietStep

\* Docker brings services up, the main goroutine takes them down.
LEMMA ComposeOrderly ==
    ASSUME IInv, OrderlyInv, exit = "alive",
           \/ \E s \in Services : ComposeStartsService(s)
           \/ ComposeUp \/ ComposeUpFails
           \/ AfterWaitCleanupDocker \/ AfterErrorCleanupDocker
    PROVE  OrderlyInv'
  <1>1. ASSUME NEW s \in Services, ComposeStartsService(s) PROVE OrderlyInv'
    BY <1>1, QuietStep DEF ComposeStartsService, setupVars, configVars, cleanupVars,
       Acquiring, OursRemembered
  <1>2. CASE ComposeUp
    <2>1. Acquiring /\ \A c \in Cleaners : ~Settled(c)
      BY <1>2 DEF OrderlyInv, ComposeUp, Goto, Acquiring
    <2>2. \A c \in Cleaners : ~Settled(c)'
      BY <1>2, <2>1 DEF ComposeUp, Settled, cleanupVars
    <2>3. OursRemembered' /\ ~Orderly'
      BY <1>2 DEF ComposeUp, OursRemembered, Orderly
    <2> QED
      BY <2>2, <2>3 DEF OrderlyInv, OrderlyExitStopsCompose, OrderlyExitStopsWrappers
  <1>3. CASE ComposeUpFails
    BY <1>3, QuietStep DEF ComposeUpFails, Goto, configVars, cleanupVars, Acquiring, OursRemembered
  <1>4. ASSUME MainCleanupDocker("giveUpWaiting", "dropDocker")
               \/ MainCleanupDocker("dropDocker", "failed")
        PROVE  OrderlyInv'
    <2>1. /\ UNCHANGED <<phase, work, exit, cmd>>
          /\ happened \subseteq happened'
          /\ startedDocker' => startedDocker
          /\ ~Acquiring'
      BY <1>4 DEF MainCleanupDocker, DownSucceeds, DownFails, Goto, cleanupVars, Acquiring
    <2>2. OursRemembered'
      BY <1>4 DEF MainCleanupDocker, DownSucceeds, DownFails, Goto, OrderlyInv,
         OursRemembered, Ours
    <2> QED
      BY <2>1, <2>2, QuietStep
  <1> QED
    BY <1>1, <1>2, <1>3, <1>4 DEF AfterWaitCleanupDocker, AfterErrorCleanupDocker

\* Handles are stored only while no settled clean-up has begun, and cleared at
\* any time.
LEMMA HandlesOrderly ==
    ASSUME IInv, OrderlyInv, exit = "alive",
           \/ StoreIngest \/ StoreStreaming
           \/ DropIngest \/ UnverifiedKillIngest \/ UnverifiedKillStreaming \/ StopStreaming
    PROVE  OrderlyInv'
  <1>1. ASSUME NEW g, NEW from \in {"storeIngest", "storeStreaming"}, NEW to,
               GatewayStored(g, from, to)
        PROVE  OrderlyInv'
    <2>1. Acquiring /\ \A c \in Cleaners : ~Settled(c)
      BY <1>1 DEF OrderlyInv, GatewayStored, Goto, Acquiring
    <2>2. \A c \in Cleaners : ~Settled(c)'
      BY <1>1, <2>1 DEF GatewayStored, Settled, cleanupVars
    <2>3. OursRemembered' /\ ~Orderly'
      BY <1>1 DEF GatewayStored, Goto, OrderlyInv, OursRemembered, Ours, Orderly, machineVars
    <2> QED
      BY <2>2, <2>3 DEF OrderlyInv, OrderlyExitStopsCompose, OrderlyExitStopsWrappers
  <1>2. ASSUME NEW g, NEW dropped, NEW from,
               NEW to \in {"failed", "returned", "unverifiedStreaming"},
               from # "upRunning", MainKills(g, dropped, from, to)
        PROVE  OrderlyInv'
    <2>1. /\ UNCHANGED <<phase, work, exit, startedDocker, compose>>
          /\ happened \subseteq happened'
          /\ cmd' \subseteq cmd
          /\ ~Acquiring' /\ pc # "upRunning"
      BY <1>2 DEF MainKills, KillWrapper, Goto, cleanupVars, Acquiring
    <2>2. OursRemembered'
      BY <2>1 DEF OrderlyInv, OursRemembered, Ours
    <2> QED
      BY <2>1, <2>2, QuietStep
  <1> QED
    BY <1>1, <1>2 DEF StoreIngest, StoreStreaming, DropIngest, UnverifiedKillIngest,
       UnverifiedKillStreaming, StopStreaming

\* A clean-up begins with one piece of work for everything that is named.
LEMMA BeginsAccounted ==
    ASSUME NEW c \in Cleaners, IInv, UNCHANGED <<startedDocker, cmd>>,
           phase[c] = "idle", BeginCleanup(c)
    PROVE  Accounted(c)' /\ phase'[c] # "expired"
  <1>1. CASE HasAnythingToCleanup
    <2>1. work'[c] = InitialWork /\ phase'[c] = "running"
      BY <1>1 DEF BeginCleanup, IInv, TypeOK
    <2>2. InitialWork["docker"] = "guard"
      BY DEF InitialWork, Workers, Gateways, IInv, TypeOK
    <2>3. \A g \in Gateways : g \in cmd => InitialWork[g] = "kill"
      <3>1. \A g \in Gateways : g \in Workers /\ g # "ports" /\ g # "docker"
        BY DEF Workers, Gateways
      <3> QED
        BY <3>1 DEF InitialWork
    <2> QED
      BY <2>1, <2>2, <2>3 DEF Accounted
  <1>2. CASE ~HasAnythingToCleanup
    BY <1>2 DEF BeginCleanup, HasAnythingToCleanup, Accounted, IInv, TypeOK
  <1> QED
    BY <1>1, <1>2

LEMMA BeginOrderly ==
    ASSUME IInv, OrderlyInv, exit = "alive", MainCleansUp \/ HandlerTakesSignal
    PROVE  OrderlyInv'
  <1>1. PICK c \in Cleaners :
            /\ phase[c] = "idle" /\ BeginCleanup(c)
            /\ c = "main" \/ "acquiring" \notin happened' => ~Acquiring'
    BY DEF MainCleansUp, HandlerTakesSignal, SetupStage, Acquiring, Goto, Cleaners, IInv,
       CleanupInv, setupVars
  <1>2. /\ UNCHANGED <<startedDocker, cmd, exit, compose>>
        /\ happened \subseteq happened'
        /\ Acquiring' => Acquiring
        /\ pc = "upRunning" => pc' = "upRunning"
    BY DEF MainCleansUp, HandlerTakesSignal, Goto, Acquiring, setupVars, configVars, machineVars
  <1>3. \A d \in Cleaners \ {c} : phase'[d] = phase[d] /\ work'[d] = work[d]
    BY <1>1 DEF BeginCleanup, IInv, TypeOK
  <1>4. \A d \in Cleaners \ {c} : /\ Settled(d)' => Settled(d)
                                  /\ Accounted(d) => Accounted(d)'
    BY <1>2, <1>3 DEF Settled, Accounted
  <1>5. Accounted(c)'
    BY <1>1, <1>2, BeginsAccounted
  <1>6. OursRemembered' /\ ~Orderly'
    BY <1>2 DEF OrderlyInv, OursRemembered, Ours, Orderly
  <1>7. Settled(c)' => ~Acquiring'
    BY <1>1 DEF Settled
  <1> QED
    BY <1>2, <1>3, <1>4, <1>5, <1>6, <1>7
       DEF OrderlyInv, OrderlyExitStopsCompose, OrderlyExitStopsWrappers

LEMMA EndOrderly ==
    ASSUME IInv, OrderlyInv, exit = "alive", NEW c \in Cleaners, CleanupEnds(c)
    PROVE  OrderlyInv'
  <1>1. /\ UNCHANGED <<pc, startedDocker, cmd, work, exit, compose, happened>>
        /\ phase[c] = "running"
        /\ phase' \in {[phase EXCEPT ![c] = "done"], [phase EXCEPT ![c] = "expired"]}
    BY DEF CleanupEnds, CleanupCompletes, CleanupDeadline, setupVars, configVars, machineVars
  <1>2. \A d \in Cleaners : /\ Settled(d)' => Settled(d)
                            /\ phase'[d] # "expired" => phase[d] # "expired"
                            /\ Accounted(d) => Accounted(d)'
    BY <1>1 DEF Settled, Accounted, IInv, TypeOK
  <1>3. OursRemembered' /\ ~Orderly' /\ (Acquiring' <=> Acquiring)
    BY <1>1 DEF OrderlyInv, OursRemembered, Ours, Orderly, Acquiring
  <1> QED
    BY <1>1, <1>2, <1>3 DEF OrderlyInv, OrderlyExitStopsCompose, OrderlyExitStopsWrappers

\* A worker that is done has cleared what it stands for; the process may end in
\* a panic, which is not an orderly exit.
LEMMA WorkerOrderly ==
    ASSUME IInv, OrderlyInv, exit = "alive", NEW c \in Cleaners, CleanupWorker(c)
    PROVE  OrderlyInv'
  <1>1. ASSUME NEW w \in Workers, NEW to \in {"done", "down", "lsofStreaming"},
               UNCHANGED <<pc, phase>>, happened \subseteq happened',
               "acquiring" \in happened' => "acquiring" \in happened,
               cmd' \subseteq cmd, startedDocker' => startedDocker,
               w = "docker" /\ to = "done" => ~startedDocker' \/ "failure" \in happened',
               w \in Gateways => w \notin cmd',
               \/ work' = [work EXCEPT ![c][w] = to] /\ exit' = exit
               \/ exit' \in {"panic", "selfKilled"},
               OursRemembered'
        PROVE  OrderlyInv'
    <2>1. ~Orderly'
      BY <1>1 DEF Orderly
    <2>2. CASE exit' # "alive"
      BY <1>1, <2>1, <2>2 DEF OrderlyInv, OrderlyExitStopsCompose, OrderlyExitStopsWrappers
    <2>3. CASE exit' = "alive"
      <3>1. work' = [work EXCEPT ![c][w] = to]
        BY <1>1, <2>3
      <3>2. \A d \in Cleaners, v \in Workers :
               work'[d][v] = IF d = c /\ v = w THEN to ELSE work[d][v]
        BY <3>1 DEF IInv, TypeOK
      <3>3. "docker" \in Workers /\ Gateways \subseteq Workers
        BY DEF Workers
      <3>4. \A d \in Cleaners : Accounted(d) => Accounted(d)'
        BY <1>1, <3>2, <3>3 DEF Accounted
      <3>5. \A d \in Cleaners : Settled(d)' => Settled(d)
        BY <1>1 DEF Settled
      <3> QED
        BY <1>1, <2>1, <3>4, <3>5
           DEF OrderlyInv, OrderlyExitStopsCompose, OrderlyExitStopsWrappers, Acquiring
    <2> QED
      BY <2>2, <2>3
  <1>2. ASSUME NEW g \in Gateways, GatewayWorker(c, g) PROVE OrderlyInv'
    <2>1. g \in Workers /\ g # "docker"
      BY DEF Workers, Gateways
    <2>2. /\ UNCHANGED <<pc, phase, startedDocker, compose>>
          /\ happened' \in {happened, happened \cup {"failure"}}
          /\ cmd' = cmd \ {g}
          /\ \/ work' = [work EXCEPT ![c][g] = "done"] /\ exit' = exit
             \/ exit' = "panic"
      BY <1>2 DEF GatewayWorker, KillWrapper, Report, Ends, setupVars
    <2>3. OursRemembered'
      BY <2>2 DEF OrderlyInv, OursRemembered, Ours
    <2> QED
      BY <1>1, <2>1, <2>2, <2>3
  <1>3. ASSUME NEW from \in DOMAIN PortOf,
               KillPortProcesses(c, from) \/ KillPortProcessesHitsSelf(c, from)
               \/ LsofFails(c, from)
        PROVE  OrderlyInv'
    <2>1. "ports" \in Workers /\ "ports" \notin Gateways /\ "ports" # "docker"
      BY DEF Workers, Gateways
    <2>2. /\ UNCHANGED <<pc, phase, startedDocker, compose, cmd>>
          /\ happened' \in {happened, happened \cup {"failure"}}
          /\ \/ exit' = exit /\ \/ work' = [work EXCEPT ![c]["ports"] = "done"]
                                \/ work' = [work EXCEPT ![c]["ports"] = "lsofStreaming"]
             \/ exit' \in {"panic", "selfKilled"}
      BY <1>3 DEF KillPortProcesses, LsofFails, KillPortProcessesHitsSelf, PortWorkerAdvances,
         Report, Ends, setupVars, configVars, machineVars
    <2>3. OursRemembered'
      BY <2>2 DEF OrderlyInv, OursRemembered, Ours
    <2> QED
      BY <1>1, <2>1, <2>2, <2>3
  <1>4. ASSUME DockerWorkerGuard(c) \/ DockerWorkerDown(c) PROVE OrderlyInv'
    <2>1. "docker" \in Workers /\ "docker" \notin Gateways
      BY DEF Workers, Gateways
    <2>2. CASE DockerWorkerGuard(c)
      <3>1. /\ UNCHANGED <<pc, phase, startedDocker, compose, cmd, happened>>
            /\ \/ /\ exit' = exit
                  /\ \/ work' = [work EXCEPT ![c]["docker"] = "down"]
                     \/ work' = [work EXCEPT ![c]["docker"] = "done"] /\ ~startedDocker
               \/ exit' = "panic"
        BY <2>2 DEF DockerWorkerGuard, Report, Ends, setupVars, configVars, machineVars
      <3>2. OursRemembered'
        BY <3>1 DEF OrderlyInv, OursRemembered, Ours
      <3>3. CASE exit' = exit /\ work' = [work EXCEPT ![c]["docker"] = "down"]
        BY <1>1, <2>1, <3>1, <3>2, <3>3
      <3>4. CASE ~(exit' = exit /\ work' = [work EXCEPT ![c]["docker"] = "down"])
        <4>1. CASE exit' = "panic"
          BY <1>1, <2>1, <3>1, <3>2, <4>1
        <4>2. CASE exit' = exit /\ work' = [work EXCEPT ![c]["docker"] = "done"] /\ ~startedDocker
          BY <1>1, <2>1, <3>1, <3>2, <4>2
        <4> QED
          BY <3>1, <3>4, <4>1, <4>2
      <3> QED
        BY <3>3, <3>4
    <2>3. CASE DockerWorkerDown(c)
      <3>1. /\ UNCHANGED <<pc, phase, cmd>>
            /\ \/ work' = [work EXCEPT ![c]["docker"] = "done"] /\ exit' = exit
               \/ exit' = "panic"
            /\ \/ startedDocker' = FALSE /\ Ours' = {} /\ happened' = happened
               \/ startedDocker' = startedDocker /\ happened' = happened \cup {"failure"}
        BY <2>3 DEF DockerWorkerDown, DownSucceeds, DownFails, Report, Ends, Ours, setupVars
      <3>2. OursRemembered'
        BY <3>1 DEF OursRemembered
      <3> QED
        BY <1>1, <2>1, <3>1, <3>2
    <2> QED
      BY <1>4, <2>2, <2>3
  <1> QED
    BY <1>2, <1>3, <1>4 DEF CleanupWorker

\* The end: everything the session started is accounted for.
LEMMA ExitOrderly ==
    ASSUME IInv, OrderlyInv, exit = "alive", MainExits \/ HandlerExits
    PROVE  OrderlyInv'
  <1>1. PICK c \in Cleaners : phase[c] \in {"done", "expired"}
    BY DEF MainExits, HandlerExits, CleanupOver, Cleaners
  <1>2. /\ UNCHANGED <<pc, phase, startedDocker, compose, cmd, wrapper, happened>>
        /\ exit' # "alive"
    BY DEF MainExits, HandlerExits, Ends, setupVars, configVars, machineVars
  <1>3. OursRemembered'
    BY <1>2 DEF OrderlyInv, OursRemembered, Ours
  <1>4. ASSUME Orderly' PROVE Ours' = {} /\ LiveWrappers' = {}
    <2>1. /\ phase[c] = "done"
          /\ "failure" \notin happened /\ "acquiring" \notin happened
      BY <1>1, <1>2, <1>4 DEF Orderly, NoExpiry, Noted
    <2>2. Settled(c) /\ work[c] = NoWork
      BY <2>1 DEF Settled, IInv, CleanupInv
    <2>3. ~Acquiring /\ Accounted(c)
      BY <2>1, <2>2 DEF OrderlyInv
    <2>4. ~startedDocker /\ \A g \in Gateways : g \notin cmd
      BY <2>1, <2>2, <2>3 DEF Accounted, NoWork, Workers
    <2>5. Ours = {}
      BY <2>1, <2>3, <2>4 DEF OrderlyInv, OursRemembered, Acquiring
    <2>6. LiveWrappers = {}
      BY <2>1, <2>3, <2>4 DEF IInv, HandleCoversWrapper, LiveWrappers, Noted, StorePC, Acquiring,
         Gateways
    <2> QED
      BY <1>2, <2>5, <2>6 DEF Ours, LiveWrappers
  <1> QED
    BY <1>2, <1>3, <1>4 DEF OrderlyInv, OrderlyExitStopsCompose, OrderlyExitStopsWrappers

\* Signals and the gateways' processes.
LEMMA MachineOrderly ==
    ASSUME IInv, OrderlyInv, exit = "alive",
           \/ Interrupt \/ ListenerTakesSignal
           \/ \E g \in Gateways : \/ ContextKills(g) \/ WrapperFails(g) \/ ServerStarts(g)
                                  \/ ServerListens(g) \/ ServerExits(g)
    PROVE  OrderlyInv'
  <1>1. UNCHANGED <<pc, phase, work, exit, happened, cmd, startedDocker, compose>>
    BY DEF Interrupt, ListenerTakesSignal, ContextKills, WrapperFails, ServerStarts,
       ServerListens, ServerExits, setupVars, configVars, machineVars, cleanupVars
  <1>2. OursRemembered' /\ (Acquiring' => Acquiring)
    BY <1>1 DEF OrderlyInv, OursRemembered, Ours, Acquiring
  <1> QED
    BY <1>1, <1>2, QuietStep

LEMMA NextOrderly == IInv /\ OrderlyInv /\ [Next]_vars => OrderlyInv'
  <1> SUFFICES ASSUME IInv, OrderlyInv, [Next]_vars PROVE OrderlyInv'
    OBVIOUS
  <1>1. CASE UNCHANGED vars
    BY <1>1 DEF vars, OrderlyInv, OursRemembered, Ours, Settled, Accounted, Acquiring,
       OrderlyExitStopsCompose, OrderlyExitStopsWrappers, Orderly, NoExpiry, Noted,
       LiveWrappers, setupVars, configVars, machineVars, cleanupVars
  <1>2. ASSUME exit = "alive", MainStep \/ OfferAnswered PROVE OrderlyInv'
    BY <1>2, MainQuiet, ComposeOrderly, HandlesOrderly, BeginOrderly, ExitOrderly
       DEF MainStep, EnsureRunning, Checks, GatewaysUp
  <1>3. ASSUME exit = "alive", NEW c \in Cleaners, CleanupWorker(c) \/ CleanupEnds(c)
        PROVE  OrderlyInv'
    BY <1>3, WorkerOrderly, EndOrderly
  <1>4. ASSUME exit = "alive", HandlerTakesSignal \/ HandlerExits \/ ListenerTakesSignal
                               \/ Machine \/ Interrupt
        PROVE  OrderlyInv'
    BY <1>4, BeginOrderly, ExitOrderly, MachineOrderly, ComposeOrderly DEF Machine
  <1> QED
    BY <1>1, <1>2, <1>3, <1>4 DEF Next, Alive, Terminated

LEMMA OrderlyInvariance == Spec => []OrderlyInv
  <1>1. Init => OrderlyInv
    BY InitOrderly
  <1>2. IInv /\ OrderlyInv /\ [Next]_vars => OrderlyInv'
    BY NextOrderly
  <1> QED
    BY <1>1, <1>2, Invariance, PTL DEF Spec

\* However frkrup ends by itself, an orderly exit leaves none of its services up.
THEOREM OrderlyExitCompose == Spec => []OrderlyExitStopsCompose
  BY OrderlyInvariance, PTL DEF OrderlyInv

\* ... and no `go run` process running.
THEOREM OrderlyExitWrappers == Spec => []OrderlyExitStopsWrappers
  BY OrderlyInvariance, PTL DEF OrderlyInv

\* A step leaves the services alone, unless docker starts one that is absent,
\* or frkrup stops the stack after it brought it up.
LEMMA ComposeSteady ==
    ASSUME IInv, [Next]_vars
    PROVE  \/ UNCHANGED compose
           \/ \E s \in Services : compose[s] = "absent" /\ compose' = [compose EXCEPT ![s] = "ours"]
           \/ "composeUp" \in happened
  <1>1. CASE UNCHANGED vars \/ Terminated
    BY <1>1 DEF vars, machineVars, Terminated
  <1>2. ASSUME \E s \in Services : ComposeStartsService(s)
        PROVE  \E s \in Services : /\ compose[s] = "absent"
                                   /\ compose' = [compose EXCEPT ![s] = "ours"]
    BY <1>2 DEF ComposeStartsService
  <1>3. ASSUME AfterWaitCleanupDocker \/ AfterErrorCleanupDocker
        PROVE  UNCHANGED compose \/ "composeUp" \in happened
    BY <1>3 DEF AfterWaitCleanupDocker, AfterErrorCleanupDocker, MainCleanupDocker, IInv, UpInv
  <1>4. ASSUME NEW c \in Cleaners, DockerWorkerDown(c) PROVE "composeUp" \in happened
    BY <1>4 DEF DockerWorkerDown, IInv, CleanupInv
  <1>5. ASSUME EnsureRunning \/ Checks \/ OfferAnswered,
               ~(AfterWaitCleanupDocker \/ AfterErrorCleanupDocker)
        PROVE  UNCHANGED compose
    BY <1>5 DEF EnsureRunning, Checks, OfferAnswered, MainOnly, machineVars,
       InfrastructureReady, InfrastructureNotReady, ComposeStarts, ComposeUp, ComposeUpFails,
       ServicesReady, ServicesNotReady, CheckPasses, CheckFails, OIDCNotWanted, StartMockOIDC
  <1>6. ASSUME GatewaysUp PROVE UNCHANGED compose
    BY <1>6 DEF GatewaysUp, MainOnly, machineVars, NotifySetup, StartIngest, StoreIngest,
       StartStreaming, StoreStreaming, GatewayStarts, GatewayStored, IngestDoesNotStart,
       StreamingDoesNotStart, DropIngest, UnverifiedKillIngest, UnverifiedKillStreaming,
       StopStreaming, MainKills, IngestHealthy, StreamingHealthy, KeepsConnection,
       GatewayUnhealthy, NoGoodAnswer,
       ContextCancelled
  <1>7. ASSUME \/ MainCleansUp \/ MainExits \/ HandlerTakesSignal \/ HandlerExits
               \/ ListenerTakesSignal \/ Interrupt
        PROVE  UNCHANGED compose
    BY <1>7 DEF MainCleansUp, MainExits, HandlerTakesSignal, HandlerExits, ListenerTakesSignal,
       Interrupt, machineVars
  <1>8. ASSUME NEW c \in Cleaners, CleanupWorker(c) \/ CleanupEnds(c), ~DockerWorkerDown(c)
        PROVE  UNCHANGED compose
    BY <1>8 DEF CleanupWorker, CleanupEnds, CleanupCompletes, CleanupDeadline, GatewayWorker,
       KillPortProcesses, LsofFails, KillPortProcessesHitsSelf, DockerWorkerGuard, machineVars
  <1>9. ASSUME Machine, ~\E s \in Services : ComposeStartsService(s) PROVE UNCHANGED compose
    BY <1>9 DEF Machine, ContextKills, WrapperFails, ServerStarts, ServerListens, ServerExits
  <1> QED
    BY <1>1, <1>2, <1>3, <1>4, <1>5, <1>6, <1>7, <1>8, <1>9 DEF Next, MainStep

\* A service that was up before frkrup started is stopped only by a run that
\* brought the stack up itself.
THEOREM ForeignIsKept == Spec => ForeignStackKept
  <1>1. IInv /\ [Next]_vars =>
          [\A s \in Services : compose[s] = "foreign" /\ compose'[s] # "foreign"
                                 => Noted({"composeUp"})]_vars
    <2> SUFFICES ASSUME IInv, [Next]_vars, NEW s \in Services,
                        compose[s] = "foreign", compose'[s] # "foreign"
                 PROVE  Noted({"composeUp"})
      OBVIOUS
    <2>1. ~UNCHANGED compose
      OBVIOUS
    <2>2. ~\E t \in Services : /\ compose[t] = "absent"
                               /\ compose' = [compose EXCEPT ![t] = "ours"]
      BY DEF IInv, TypeOK
    <2> QED
      BY <2>1, <2>2, ComposeSteady DEF Noted
  <1> QED
    BY <1>1, Invariance, PTL DEF Spec, ForeignStackKept

-----------------------------------------------------------------------------
(* The ports.  A gateway that was verified without the help of an earlier  *)
(* run serves, or has ended and taken its wrapper with it.                 *)
Answered(g) == \/ server[g] = "serving"
               \/ server[g] = "none" /\ wrapper[g] # "alive"

\* Where the handle of a gateway is stored, and where its port has answered.
Started == [ingest |-> {"startStreaming", "storeStreaming", "verifyIngest",
                        "verifyStreaming", "running"},
            streaming |-> {"verifyIngest", "verifyStreaming", "running"}]
VerifiedAt == [ingest |-> {"verifyStreaming", "running"}, streaming |-> {"running"}]

BeforeSignal ==
    phase["handler"] = "idle" => \A g \in Gateways :
        /\ pc \in Started[g] => g \in cmd
        /\ pc \in VerifiedAt[g] /\ stale = {} => Answered(g)

\* Once the handler cleans up, its search of the ports leaves them behind free.
AfterRunning == {"running", "stopStreaming", "returned", "cleanupReturned"}
Undisturbed == ~Noted({"failure", "beforeVerified", "portHeld"})
AfterSignal ==
    phase["handler"] # "idle" /\ Undisturbed =>
        /\ pc \in AfterRunning
        /\ \A g \in Gateways : Answered(g)
        /\ exit = "alive" /\ phase["handler"] # "expired" =>
              /\ work["handler"]["ports"] # "lsofIngest" => server["ingest"] # "serving"
              /\ work["handler"]["ports"] = "done" => server["streaming"] # "serving"

PortsInv == BeforeSignal /\ AfterSignal /\ HandlerExitFreesPorts

\* The invariant holds initially: nothing is verified and no signal taken.
LEMMA InitPorts == Init => PortsInv
  BY DEF Init, PortsInv, BeforeSignal, AfterSignal, HandlerExitFreesPorts, Started, VerifiedAt,
     Cleaners, Gateways

\* A server that has answered is not started again, and one that has ended
\* does not come back.
LEMMA ServersEbb ==
    ASSUME IInv, [Next]_vars, NEW g \in Gateways, Answered(g),
           pc \notin {"startIngest", "startStreaming"}
    PROVE  Answered(g)' /\ (server'[g] = "serving" => server[g] = "serving")
  <1>1. CASE UNCHANGED <<server, wrapper>>
    BY <1>1 DEF Answered
  <1>2. ASSUME server' = server, NEW h \in Gateways, wrapper' \in {wrapper, WrapperGone(h)}
        PROVE  Answered(g)'
    BY <1>2 DEF Answered, WrapperGone, IInv, TypeOK
  <1>3. ASSUME MainStep \/ OfferAnswered, ~UNCHANGED <<server, wrapper>>
        PROVE  server' = server /\ \E h \in Gateways : wrapper' \in {wrapper, WrapperGone(h)}
    <2>1. ASSUME EnsureRunning \/ Checks \/ OfferAnswered PROVE UNCHANGED <<server, wrapper>>
      BY <2>1 DEF EnsureRunning, Checks, OfferAnswered, MainOnly, machineVars,
         InfrastructureReady, InfrastructureNotReady, ComposeStarts, ComposeUp, ComposeUpFails,
         ServicesReady, ServicesNotReady, AfterWaitCleanupDocker, AfterErrorCleanupDocker,
         MainCleanupDocker, CheckPasses, CheckFails, OIDCNotWanted, StartMockOIDC
    <2>2. ASSUME MainCleansUp \/ MainExits PROVE UNCHANGED <<server, wrapper>>
      BY <2>2 DEF MainCleansUp, MainExits, machineVars
    <2>3. ASSUME GatewaysUp, ~(DropIngest \/ UnverifiedKillIngest
                               \/ UnverifiedKillStreaming \/ StopStreaming)
          PROVE  UNCHANGED <<server, wrapper>>
      BY <2>3 DEF GatewaysUp, MainOnly, machineVars, NotifySetup, StartIngest, StoreIngest,
         StartStreaming, StoreStreaming, GatewayStarts, GatewayStored, IngestDoesNotStart,
         StreamingDoesNotStart, IngestHealthy, StreamingHealthy, KeepsConnection,
         GatewayUnhealthy, NoGoodAnswer,
         ContextCancelled, Goto
    <2>4. ASSUME DropIngest \/ UnverifiedKillIngest \/ UnverifiedKillStreaming \/ StopStreaming
          PROVE  server' = server /\ \E h \in Gateways : wrapper' \in {wrapper, WrapperGone(h)}
      BY <2>4 DEF DropIngest, UnverifiedKillIngest, UnverifiedKillStreaming, StopStreaming,
         MainKills, KillWrapper, Gateways
    <2> QED
      BY <1>3, <2>1, <2>2, <2>3, <2>4 DEF MainStep
  <1>4. ASSUME NEW h \in Gateways, PortFreed(h)
        PROVE  Answered(g)' /\ (server'[g] = "serving" => server[g] = "serving")
    BY <1>4 DEF PortFreed, Answered, WrapperGone, IInv, TypeOK
  <1>5. ASSUME NEW c \in Cleaners, CleanupWorker(c) \/ CleanupEnds(c)
        PROVE  Answered(g)' /\ (server'[g] = "serving" => server[g] = "serving")
    <2>1. ASSUME NEW h \in Gateways, GatewayWorker(c, h)
          PROVE  server' = server /\ wrapper' \in {wrapper, WrapperGone(h)}
      BY <2>1 DEF GatewayWorker, KillWrapper
    <2>2. ASSUME NEW from \in DOMAIN PortOf, KillPortProcesses(c, from)
          PROVE  \E h \in Gateways : PortFreed(h)
      BY <2>2 DEF KillPortProcesses, PortOf, Gateways
    <2>3. ASSUME NEW from \in DOMAIN PortOf, KillPortProcessesHitsSelf(c, from)
          PROVE  (\E h \in Gateways : PortFreed(h)) \/ UNCHANGED <<server, wrapper>>
      BY <2>3 DEF KillPortProcessesHitsSelf, PortOf, Gateways
    <2>4. ASSUME \/ \E from \in DOMAIN PortOf : LsofFails(c, from)
                 \/ DockerWorkerGuard(c) \/ DockerWorkerDown(c) \/ CleanupEnds(c)
          PROVE  UNCHANGED <<server, wrapper>>
      BY <2>4 DEF LsofFails, DockerWorkerGuard, DockerWorkerDown, CleanupEnds, CleanupCompletes,
         CleanupDeadline, machineVars
    <2> QED
      BY <1>1, <1>2, <1>4, <1>5, <2>1, <2>2, <2>3, <2>4 DEF CleanupWorker
  <1>6. ASSUME Machine
        PROVE  Answered(g)' /\ (server'[g] = "serving" => server[g] = "serving")
    <2>1. ASSUME NEW s \in Services, ComposeStartsService(s) PROVE UNCHANGED <<server, wrapper>>
      BY <2>1 DEF ComposeStartsService
    <2>2. ASSUME NEW h \in Gateways, ContextKills(h) \/ WrapperFails(h)
          PROVE  server' = server /\ wrapper' \in {wrapper, WrapperGone(h)}
      BY <2>2 DEF ContextKills, WrapperFails
    <2>3. ASSUME NEW h \in Gateways, ServerStarts(h) \/ ServerListens(h) \/ ServerExits(h)
          PROVE  Answered(g)' /\ (server'[g] = "serving" => server[g] = "serving")
      BY <2>3 DEF ServerStarts, ServerListens, ServerExits, Answered, WrapperGone, IInv, TypeOK
    <2> QED
      BY <1>1, <1>2, <1>6, <2>1, <2>2, <2>3 DEF Machine
  <1>7. ASSUME HandlerTakesSignal \/ HandlerExits \/ ListenerTakesSignal \/ Interrupt
        PROVE  UNCHANGED <<server, wrapper>>
    BY <1>7 DEF HandlerTakesSignal, HandlerExits, ListenerTakesSignal, Interrupt, machineVars
  <1>8. CASE UNCHANGED vars \/ Terminated
    BY <1>1, <1>8 DEF vars, machineVars, Terminated
  <1> QED
    BY <1>1, <1>2, <1>3, <1>5, <1>6, <1>7, <1>8 DEF Next

\* The handler stays idle: handles are kept while the gateways start, and a port
\* that answers is the gateway's own.
LEMMA IdlePorts ==
    ASSUME IInv, PortsInv, [Next]_vars,
           phase["handler"] = "idle", phase'["handler"] = "idle",
           exit' # "handler", stale' = stale,
           \A g \in Gateways :
               /\ pc' \in Started[g] => g \in cmd'
               /\ pc' \in VerifiedAt[g] /\ stale = {} => pc \in VerifiedAt[g] \/ Answered(g)'
    PROVE  PortsInv'
  <1>1. \A g \in Gateways : pc \in VerifiedAt[g] => pc \notin {"startIngest", "startStreaming"}
    BY DEF VerifiedAt, Gateways
  <1>2. \A g \in Gateways : pc \in VerifiedAt[g] /\ stale = {} => Answered(g)'
    BY <1>1, ServersEbb DEF PortsInv, BeforeSignal
  <1> QED
    BY <1>2 DEF PortsInv, BeforeSignal, AfterSignal, HandlerExitFreesPorts

\* The handler has taken its signal, and neither it nor the search of the ports
\* moves.
LEMMA SignalledPorts ==
    ASSUME IInv, PortsInv, [Next]_vars,
           phase["handler"] # "idle", phase'["handler"] # "idle",
           exit' # "handler", happened \subseteq happened',
           pc \in AfterRunning => pc' \in AfterRunning,
           exit' = "alive" /\ phase'["handler"] # "expired" =>
               /\ exit = "alive" /\ phase["handler"] # "expired"
               /\ work'["handler"]["ports"] = work["handler"]["ports"]
    PROVE  PortsInv'
  <1>1. CASE Undisturbed
    <2>1. pc \in AfterRunning /\ \A g \in Gateways : Answered(g)
      BY <1>1 DEF PortsInv, AfterSignal
    <2>2. \A g \in Gateways : Answered(g)' /\ (server'[g] = "serving" => server[g] = "serving")
      BY <2>1, ServersEbb DEF AfterRunning
    <2> QED
      BY <1>1, <2>1, <2>2
         DEF PortsInv, BeforeSignal, AfterSignal, HandlerExitFreesPorts, Gateways
  <1>2. CASE ~Undisturbed
    BY <1>2 DEF Undisturbed, Noted, PortsInv, BeforeSignal, AfterSignal, HandlerExitFreesPorts
  <1> QED
    BY <1>1, <1>2

\* The main goroutine, up to its own clean-up.
LEMMA MainPorts ==
    ASSUME IInv, PortsInv, [Next]_vars, exit = "alive",
           EnsureRunning \/ Checks \/ OfferAnswered \/ GatewaysUp
    PROVE  PortsInv'
  <1>1. UNCHANGED <<phase, work, exit, stale>> /\ happened \subseteq happened'
    <2>1. CASE EnsureRunning \/ Checks \/ OfferAnswered
      BY <2>1 DEF EnsureRunning, Checks, OfferAnswered, MainOnly, machineVars, cleanupVars,
         InfrastructureReady, InfrastructureNotReady, ComposeStarts, ComposeUp, ComposeUpFails,
         ServicesReady, ServicesNotReady, AfterWaitCleanupDocker, AfterErrorCleanupDocker,
         MainCleanupDocker, DownSucceeds, DownFails, CheckPasses, CheckFails, OIDCNotWanted,
         StartMockOIDC
    <2>2. CASE GatewaysUp
      BY <2>2 DEF GatewaysUp, MainOnly, machineVars, cleanupVars, NotifySetup, StartIngest,
         StoreIngest, StartStreaming, StoreStreaming, GatewayStarts, GatewayStored,
         IngestDoesNotStart, StreamingDoesNotStart, DropIngest, UnverifiedKillIngest,
         UnverifiedKillStreaming, StopStreaming, MainKills, KillWrapper, IngestHealthy,
         StreamingHealthy, KeepsConnection, GatewayUnhealthy, NoGoodAnswer, ContextCancelled
    <2> QED
      BY <2>1, <2>2
  <1>2. pc \in AfterRunning => pc' \in AfterRunning
    BY DEF AfterRunning, EnsureRunning, Checks, OfferAnswered, GatewaysUp, Goto, NextCheck,
       InfrastructureReady, InfrastructureNotReady, ComposeStarts, ComposeUp, ComposeUpFails,
       ServicesReady, ServicesNotReady, AfterWaitCleanupDocker, AfterErrorCleanupDocker,
       MainCleanupDocker, CheckPasses, CheckFails, OIDCNotWanted, StartMockOIDC, NotifySetup,
       StartIngest, StoreIngest, StartStreaming, StoreStreaming, GatewayStarts, GatewayStored,
       IngestDoesNotStart, StreamingDoesNotStart, DropIngest, UnverifiedKillIngest,
       UnverifiedKillStreaming, StopStreaming, MainKills, IngestHealthy, StreamingHealthy,
       GatewayUnhealthy, ContextCancelled
  <1>3. ASSUME phase["handler"] = "idle", NEW g \in Gateways
        PROVE  /\ pc' \in Started[g] => g \in cmd'
               /\ pc' \in VerifiedAt[g] /\ stale = {} => pc \in VerifiedAt[g] \/ Answered(g)'
    <2>1. pc \in Started[g] => g \in cmd
      BY <1>3 DEF PortsInv, BeforeSignal
    <2>2. CASE EnsureRunning \/ Checks \/ OfferAnswered
      <3>1. pc' \notin Started[g] /\ pc' \notin VerifiedAt[g]
        BY <2>2 DEF Started, VerifiedAt, Gateways, EnsureRunning, Checks, OfferAnswered, Goto,
           NextCheck, InfrastructureReady, InfrastructureNotReady, ComposeStarts,
           ComposeStartsService, ComposeUp, ComposeUpFails, ServicesReady, ServicesNotReady,
           AfterWaitCleanupDocker, AfterErrorCleanupDocker, MainCleanupDocker, CheckPasses,
           CheckFails, OIDCNotWanted, StartMockOIDC
      <3> QED
        BY <3>1
    <2>3. CASE StoreIngest \/ StoreStreaming
      BY <2>1, <2>3 DEF StoreIngest, StoreStreaming, GatewayStored, Goto, Started, VerifiedAt,
         Gateways
    <2>4. CASE \/ NotifySetup \/ StartIngest \/ IngestDoesNotStart \/ StreamingDoesNotStart
               \/ DropIngest \/ UnverifiedKillIngest \/ UnverifiedKillStreaming
               \/ ContextCancelled \/ StopStreaming
      <3>1. pc' \notin Started[g] /\ pc' \notin VerifiedAt[g]
        BY <2>4 DEF Started, VerifiedAt, Gateways, Goto, NotifySetup, StartIngest, GatewayStarts,
           IngestDoesNotStart, StreamingDoesNotStart, DropIngest, UnverifiedKillIngest,
           UnverifiedKillStreaming, StopStreaming, MainKills, ContextCancelled
      <3> QED
        BY <3>1
    <2>5. CASE StartStreaming \/ GatewayUnhealthy
      BY <2>1, <2>5 DEF StartStreaming, GatewayStarts, GatewayUnhealthy, Goto, Started,
         VerifiedAt, Gateways, configVars
    <2>6. CASE IngestHealthy \/ StreamingHealthy
      BY <2>1, <2>6 DEF IngestHealthy, StreamingHealthy, KeepsConnection, Goto, Started,
         VerifiedAt, Gateways, Answers, Answered, configVars, machineVars
    <2> QED
      BY <2>2, <2>3, <2>4, <2>5, <2>6 DEF GatewaysUp
  <1> QED
    BY <1>1, <1>2, <1>3, IdlePorts, SignalledPorts

\* A worker with work to do belongs to a clean-up that has begun and has not
\* completed.
LEMMA WorkersWork ==
    ASSUME IInv, NEW c \in Cleaners, CleanupWorker(c)
    PROVE  phase[c] \notin {"idle", "done"}
  <1>1. Gateways \subseteq Workers /\ "ports" \in Workers /\ "docker" \in Workers
    BY DEF Workers
  <1>2. \E w \in Workers : work[c][w] # "done"
    BY <1>1 DEF CleanupWorker, GatewayWorker, KillPortProcesses, LsofFails,
       KillPortProcessesHitsSelf, DockerWorkerGuard, DockerWorkerDown, PortOf
  <1> QED
    BY <1>2 DEF IInv, CleanupInv, NoWork

\* What a worker leaves alone.
LEMMA WorkerLeaves ==
    ASSUME IInv, NEW c \in Cleaners, CleanupWorker(c), exit = "alive"
    PROVE  /\ UNCHANGED <<pc, phase>>
           /\ happened \subseteq happened'
           /\ exit' # "handler"
  BY DEF CleanupWorker, GatewayWorker, KillWrapper, KillPortProcesses, LsofFails,
     KillPortProcessesHitsSelf, DockerWorkerGuard, DockerWorkerDown, DownSucceeds, DownFails,
     PortWorkerAdvances, Report, Ends, setupVars

\* While the handler is idle the workers are those of the main goroutine, which is
\* past the verification then; afterwards only the search of the ports matters.
LEMMA WorkerPorts ==
    ASSUME IInv, PortsInv, [Next]_vars, exit = "alive",
           NEW c \in Cleaners, CleanupWorker(c)
    PROVE  PortsInv'
  <1>1. UNCHANGED <<pc, phase>> /\ happened \subseteq happened' /\ exit' # "handler"
    BY WorkerLeaves
  <1>2. CASE phase["handler"] = "idle"
    <2>1. c = "main"
      BY <1>2, WorkersWork DEF Cleaners
    <2>2. pc \in {"cleanupFailed", "cleanupReturned"}
      BY <2>1, WorkersWork DEF IInv, CleanupInv
    <2> QED
      BY <1>1, <1>2, <2>2 DEF PortsInv, BeforeSignal, AfterSignal, HandlerExitFreesPorts,
         Started, VerifiedAt, Gateways
  <1>3. CASE /\ phase["handler"] # "idle"
             /\ exit' = "alive" => work'["handler"]["ports"] = work["handler"]["ports"]
    BY <1>1, <1>3, SignalledPorts
  <1>4. ASSUME \/ \E g \in Gateways : GatewayWorker(c, g)
               \/ DockerWorkerGuard(c) \/ DockerWorkerDown(c)
               \/ \E from \in DOMAIN PortOf : KillPortProcessesHitsSelf(c, from)
               \/ c = "main"
        PROVE  exit' = "alive" => work'["handler"]["ports"] = work["handler"]["ports"]
    <2>1. "ports" \in Workers /\ "ports" \notin Gateways
      BY DEF Workers, Gateways
    <2>2. CASE \/ \E g \in Gateways : GatewayWorker(c, g)
               \/ DockerWorkerGuard(c) \/ DockerWorkerDown(c)
               \/ \E from \in DOMAIN PortOf : KillPortProcessesHitsSelf(c, from)
      <3>1. \/ exit' # "alive"
            \/ \E w \in Workers \ {"ports"}, to \in WorkStates :
                  work' = [work EXCEPT ![c][w] = to]
        BY <2>1, <2>2 DEF GatewayWorker, DockerWorkerGuard, DockerWorkerDown,
           KillPortProcessesHitsSelf, Report, Ends, Workers, WorkStates
      <3> QED
        BY <2>1, <3>1 DEF IInv, TypeOK, Cleaners
    <2>3. CASE /\ c = "main"
               /\ \E from \in DOMAIN PortOf : KillPortProcesses(c, from) \/ LsofFails(c, from)
      BY <2>3 DEF KillPortProcesses, LsofFails, PortWorkerAdvances, Report, Ends, IInv, TypeOK,
         Cleaners
    <2> QED
      BY <1>4, <2>2, <2>3 DEF CleanupWorker
  <1>5. ASSUME NEW from \in DOMAIN PortOf, LsofFails(c, from) PROVE PortsInv'
    <2>1. "failure" \in happened'
      BY <1>5 DEF LsofFails
    <2> QED
      BY <1>1, <1>2, <2>1 DEF PortsInv, BeforeSignal, AfterSignal, Undisturbed, Noted,
         HandlerExitFreesPorts
  <1>6. ASSUME c = "handler", NEW from \in DOMAIN PortOf, KillPortProcesses(c, from)
        PROVE  PortsInv'
    <2>1. phase["handler"] # "idle" /\ happened' = happened
      BY <1>6, WorkersWork DEF KillPortProcesses
    <2>2. CASE Undisturbed
      <3>1. pc \in AfterRunning /\ \A g \in Gateways : Answered(g)
        BY <2>1, <2>2 DEF PortsInv, AfterSignal
      <3>2. \A g \in Gateways :
               Answered(g)' /\ (server'[g] = "serving" => server[g] = "serving")
        BY <3>1, ServersEbb DEF AfterRunning
      <3>3. server'[PortOf[from]] # "serving"
        BY <1>6 DEF KillPortProcesses, PortFreed, PortOf, Gateways, IInv, TypeOK
      <3>4. ASSUME exit' = "alive"
            PROVE  /\ work["handler"]["ports"] = from
                   /\ work'["handler"]["ports"] = IF from = "lsofIngest" THEN "lsofStreaming"
                                                                         ELSE "done"
        BY <1>6, <3>4 DEF KillPortProcesses, PortWorkerAdvances, Report, Ends, Workers, IInv,
           TypeOK
      <3>5. from \in {"lsofIngest", "lsofStreaming"}
        BY DEF PortOf
      <3>6. ASSUME exit' = "alive", phase'["handler"] # "expired"
            PROVE  /\ server'["ingest"] # "serving"
                   /\ work'["handler"]["ports"] = "done" => server'["streaming"] # "serving"
        <4>1. CASE from = "lsofIngest"
          BY <3>3, <3>4, <3>6, <4>1 DEF PortOf
        <4>2. CASE from = "lsofStreaming"
          <5>1. server["ingest"] # "serving"
            BY <1>1, <2>1, <2>2, <3>4, <3>6, <4>2 DEF PortsInv, AfterSignal
          <5> QED
            BY <3>2, <3>3, <4>2, <5>1 DEF PortOf, Gateways
        <4> QED
          BY <3>5, <4>1, <4>2
      <3> QED
        BY <1>1, <2>1, <3>1, <3>2, <3>6
           DEF PortsInv, BeforeSignal, AfterSignal, HandlerExitFreesPorts
    <2>3. CASE ~Undisturbed
      BY <1>1, <2>1, <2>3 DEF PortsInv, BeforeSignal, AfterSignal, Undisturbed, Noted,
         HandlerExitFreesPorts
    <2> QED
      BY <2>2, <2>3
  <1> QED
    BY <1>2, <1>3, <1>4, <1>5, <1>6 DEF CleanupWorker, Cleaners

\* The handler takes its signal.  In a session that runs, with both ports its own,
\* everything is still named in the configuration, so the clean-up has a search
\* of the ports ahead of it.
LEMMA SignalPorts ==
    ASSUME IInv, PortsInv, exit = "alive", HandlerTakesSignal
    PROVE  PortsInv'
  <1>1. /\ UNCHANGED <<pc, cmd, server, wrapper, stale, startedDocker, exit>>
        /\ happened' = happened \cup SetupStage
        /\ phase["handler"] = "idle" /\ BeginCleanup("handler")
    BY DEF HandlerTakesSignal, setupVars, configVars, machineVars
  <1>2. phase'["handler"] # "idle"
    BY <1>1 DEF BeginCleanup, IInv, TypeOK, Cleaners
  <1>3. ASSUME Undisturbed' PROVE AfterSignal'
    <2>1. pc = "running" /\ stale = {}
      BY <1>1, <1>3 DEF Undisturbed, Noted, SetupStage
    <2>2. Gateways \subseteq cmd /\ \A g \in Gateways : Answered(g)
      BY <1>1, <2>1 DEF PortsInv, BeforeSignal, Started, VerifiedAt, Gateways
    <2>3. work' = [work EXCEPT !["handler"] = InitialWork]
      BY <1>1, <2>2 DEF BeginCleanup, HasAnythingToCleanup, Gateways
    <2>4. InitialWork["ports"] = "lsofIngest"
      BY DEF InitialWork, Workers, Gateways, IInv, TypeOK
    <2>5. work'["handler"]["ports"] = "lsofIngest"
      BY <2>3, <2>4 DEF IInv, TypeOK, Cleaners
    <2> QED
      BY <1>1, <2>1, <2>2, <2>5 DEF AfterSignal, AfterRunning, Answered
  <1> QED
    BY <1>1, <1>2, <1>3 DEF PortsInv, BeforeSignal, AfterSignal, HandlerExitFreesPorts

\* The handler ends the process when its clean-up is over.
LEMMA HandlerExitPorts ==
    ASSUME IInv, PortsInv, exit = "alive", HandlerExits
    PROVE  PortsInv'
  <1>1. /\ UNCHANGED <<pc, phase, cmd, server, wrapper, stale, happened>>
        /\ phase["handler"] # "idle" /\ exit' = "handler"
    BY DEF HandlerExits, CleanupOver, Ends, setupVars, configVars, machineVars
  <1>2. HandlerExitFreesPorts'
    <2> SUFFICES ASSUME phase["handler"] = "done", Undisturbed
                 PROVE  \A g \in Gateways : server[g] # "serving"
      BY <1>1 DEF HandlerExitFreesPorts, Undisturbed, Noted
    <2>1. work["handler"]["ports"] = "done"
      BY DEF IInv, CleanupInv, NoWork, Workers, Cleaners
    <2> QED
      BY <2>1 DEF PortsInv, AfterSignal, Gateways
  <1> QED
    BY <1>1, <1>2 DEF PortsInv, BeforeSignal, AfterSignal, Undisturbed, Noted, Answered

LEMMA NextPorts == IInv /\ PortsInv /\ [Next]_vars => PortsInv'
  <1> SUFFICES ASSUME IInv, PortsInv, [Next]_vars PROVE PortsInv'
    OBVIOUS
  <1>1. CASE UNCHANGED vars
    BY <1>1 DEF vars, PortsInv, BeforeSignal, AfterSignal, HandlerExitFreesPorts, Undisturbed,
       Noted, Answered, setupVars, configVars, machineVars, cleanupVars
  <1>2. ASSUME exit = "alive", MainCleansUp PROVE PortsInv'
    <2>1. /\ pc \in {"failed", "returned"} /\ pc' \in {"cleanupFailed", "cleanupReturned"}
          /\ pc \in AfterRunning => pc' \in AfterRunning
          /\ phase'["handler"] = phase["handler"]
          /\ work'["handler"] = work["handler"]
          /\ UNCHANGED <<exit, happened, stale>>
      BY <1>2 DEF MainCleansUp, Goto, BeginCleanup, AfterRunning, IInv, TypeOK, Cleaners,
         machineVars
    <2>2. \A g \in Gateways : pc' \notin Started[g] /\ pc' \notin VerifiedAt[g]
      BY <2>1 DEF Started, VerifiedAt, Gateways
    <2> QED
      BY <1>2, <2>1, <2>2, IdlePorts, SignalledPorts
  <1>3. ASSUME exit = "alive", NEW c \in Cleaners, CleanupEnds(c) PROVE PortsInv'
    <2>1. /\ UNCHANGED <<pc, cmd, exit, happened, stale, work>>
          /\ phase[c] = "running"
          /\ phase' \in {[phase EXCEPT ![c] = "done"], [phase EXCEPT ![c] = "expired"]}
      BY <1>3 DEF CleanupEnds, CleanupCompletes, CleanupDeadline, setupVars, configVars,
         machineVars
    <2>2. /\ phase'["handler"] = "idle" <=> phase["handler"] = "idle"
          /\ phase'["handler"] # "expired" => phase["handler"] # "expired"
      BY <2>1 DEF IInv, TypeOK, Cleaners
    <2>3. CASE phase["handler"] = "idle"
      BY <1>3, <2>1, <2>2, <2>3, IdlePorts DEF PortsInv, BeforeSignal
    <2>4. CASE phase["handler"] # "idle"
      BY <1>3, <2>1, <2>2, <2>4, SignalledPorts
    <2> QED
      BY <2>3, <2>4
  <1>4. ASSUME exit = "alive", MainExits \/ ListenerTakesSignal \/ Machine \/ Interrupt
        PROVE  PortsInv'
    <2>1. /\ UNCHANGED <<pc, phase, cmd, stale, happened>> /\ exit' # "handler"
          /\ exit' = "alive" => UNCHANGED work
      BY <1>4 DEF MainExits, ListenerTakesSignal, Machine, Interrupt, Ends,
         ComposeStartsService, ContextKills, WrapperFails, ServerStarts, ServerListens,
         ServerExits, setupVars, configVars, machineVars, cleanupVars
    <2>2. CASE phase["handler"] = "idle"
      BY <1>4, <2>1, <2>2, IdlePorts DEF PortsInv, BeforeSignal
    <2>3. CASE phase["handler"] # "idle"
      BY <1>4, <2>1, <2>3, SignalledPorts
    <2> QED
      BY <2>2, <2>3
  <1> QED
    BY <1>1, <1>2, <1>3, <1>4, MainPorts, WorkerPorts, SignalPorts, HandlerExitPorts
       DEF Next, Alive, MainStep, Terminated

\* A handler that ends the process after a complete clean-up leaves neither
\* gateway serving, servers that outlive their wrappers included.
THEOREM HandlerFreesPorts == Spec => []HandlerExitFreesPorts
  <1>1. Init => PortsInv
    BY InitPorts
  <1>2. IInv /\ PortsInv /\ [Next]_vars => PortsInv'
    BY NextPorts
  <1>3. PortsInv => HandlerExitFreesPorts
    BY DEF PortsInv
  <1> QED
    BY <1>1, <1>2, <1>3, Invariance, PTL DEF Spec

-----------------------------------------------------------------------------
(* No livelock.  Every step frkrup takes uses up some of a supply that     *)
(* nobody renews: the main goroutine goes forward, but for the attempts to *)
(* verify the gateways, and each clean-up begins once.                     *)
MainRank ==
    [ensure |-> 20, offer |-> 19, up |-> 18, upRunning |-> 17, waitReady |-> 16,
     giveUpWaiting |-> 3, dropDocker |-> 2,
     database |-> 15, broker |-> 14, migrate |-> 13, oidc |-> 12, notify |-> 11,
     startIngest |-> 9, storeIngest |-> 8, startStreaming |-> 7, storeStreaming |-> 6,
     dropIngest |-> 2, verifyIngest |-> 5, verifyStreaming |-> 4,
     unverified |-> 3, unverifiedStreaming |-> 2,
     running |-> 3, stopStreaming |-> 2, failed |-> 1, returned |-> 1,
     cleanupFailed |-> 0, cleanupReturned |-> 0]
\* The main goroutine, and the listener it starts.
ListenerRank == IF listener = "waiting" THEN 1 ELSE 0
MainLeft == MainRank[pc] + 2 * (VerifyAttempts - attempt) + ListenerRank

PhaseRank == [idle |-> 8, running |-> 1, done |-> 0, expired |-> 0]
WorkRank == [guard |-> 2, down |-> 1, lsofIngest |-> 2, lsofStreaming |-> 1,
             kill |-> 1, done |-> 0]
WorkLeft(c) == WorkRank[work[c]["ingest"]] + WorkRank[work[c]["streaming"]]
             + WorkRank[work[c]["ports"]] + WorkRank[work[c]["docker"]]
CleanupLeft(c) == PhaseRank[phase[c]] + WorkLeft(c)

ExitRank == IF exit = "alive" THEN 1 ELSE 0

StepsLeft == MainLeft + CleanupLeft("main") + CleanupLeft("handler") + ExitRank

\* What frkrup does, as opposed to the machine and to the user's signals.
FrkrupStep ==
    \/ MainStep \/ OfferAnswered
    \/ HandlerTakesSignal \/ HandlerExits \/ ListenerTakesSignal
    \/ \E c \in Cleaners : CleanupWorker(c) \/ CleanupEnds(c)

UsesUpSteps == StepsLeft' <= StepsLeft /\ (FrkrupStep => StepsLeft' < StepsLeft)

\* Each part of the supply is a natural number.
NaturalRanks ==
    /\ MainLeft \in Nat
    /\ \A c \in Cleaners : /\ PhaseRank[phase[c]] \in Nat
                           /\ WorkLeft(c) \in Nat
                           /\ CleanupLeft(c) \in Nat
    /\ ExitRank \in Nat
    /\ StepsLeft \in Nat

LEMMA RanksAreNatural == TypeOK => NaturalRanks
  <1> SUFFICES ASSUME TypeOK PROVE NaturalRanks
    OBVIOUS
  <1>1. VerifyAttempts - attempt \in Nat
    BY VerifyAttemptsAssumption DEF TypeOK
  <1>2. MainRank[pc] \in Nat
    BY DEF TypeOK, PCs, MainRank
  <1>3. MainLeft \in Nat
    BY <1>1, <1>2 DEF MainLeft, ListenerRank
  <1>4. \A c \in Cleaners, w \in Workers : WorkRank[work[c][w]] \in Nat
    <2>1. \A a \in WorkStates : WorkRank[a] \in Nat
      BY DEF WorkStates, WorkRank
    <2> QED
      BY <2>1 DEF TypeOK
  <1>5. \A c \in Cleaners : WorkLeft(c) \in Nat
    BY <1>4 DEF WorkLeft, Workers, Gateways
  <1>6. \A c \in Cleaners : PhaseRank[phase[c]] \in Nat
    BY DEF TypeOK, PhaseRank
  <1>7. ExitRank \in Nat
    BY DEF ExitRank
  <1>8. \A c \in Cleaners : CleanupLeft(c) \in Nat
    BY <1>5, <1>6 DEF CleanupLeft
  <1>9. StepsLeft \in Nat
    BY <1>3, <1>7, <1>8 DEF StepsLeft, Cleaners
  <1> QED
    BY <1>3, <1>5, <1>6, <1>7, <1>8, <1>9 DEF NaturalRanks

LEMMA RanksStayNatural == TypeOK' => NaturalRanks'
  BY RanksAreNatural, PTL

\* A supply of which one part shrinks and no part grows.
LEMMA Shrinks ==
    ASSUME TypeOK, TypeOK',
           MainLeft' <= MainLeft,
           \A c \in Cleaners : CleanupLeft(c)' <= CleanupLeft(c),
           ExitRank' <= ExitRank
    PROVE  /\ StepsLeft' <= StepsLeft
           /\ \/ MainLeft' < MainLeft
              \/ \E c \in Cleaners : CleanupLeft(c)' < CleanupLeft(c)
              \/ ExitRank' < ExitRank
              => StepsLeft' < StepsLeft
  BY RanksAreNatural, RanksStayNatural DEF NaturalRanks, StepsLeft, Cleaners

\* The main goroutine goes forward.
LEMMA MainForward ==
    ASSUME TypeOK, TypeOK', EnsureRunning \/ Checks \/ OfferAnswered \/ GatewaysUp
    PROVE  /\ UNCHANGED <<phase, work, exit>>
           /\ MainLeft' < MainLeft
  <1>1. VerifyAttempts \in Int /\ attempt \in Int /\ attempt' \in Int
    BY VerifyAttemptsAssumption DEF TypeOK
  <1>2. CASE EnsureRunning \/ Checks \/ OfferAnswered
    <2>1. UNCHANGED <<phase, work, exit, listener, attempt>>
      BY <1>2 DEF EnsureRunning, Checks, OfferAnswered, MainOnly, machineVars, cleanupVars,
         signalVars, InfrastructureReady, InfrastructureNotReady, ComposeStarts, ComposeUp,
         ComposeUpFails, ServicesReady, ServicesNotReady, AfterWaitCleanupDocker,
         AfterErrorCleanupDocker, MainCleanupDocker, CheckPasses, CheckFails, OIDCNotWanted,
         StartMockOIDC
    <2>2. MainRank[pc'] < MainRank[pc]
      BY <1>2 DEF EnsureRunning, Checks, OfferAnswered, Goto, NextCheck, MainRank,
         InfrastructureReady, InfrastructureNotReady, ComposeStarts, ComposeUp,
         ComposeUpFails, ServicesReady, ServicesNotReady, AfterWaitCleanupDocker,
         AfterErrorCleanupDocker, MainCleanupDocker, CheckPasses, CheckFails, OIDCNotWanted,
         StartMockOIDC
    <2>3. MainRank[pc] \in Int /\ MainRank[pc'] \in Int
      BY DEF TypeOK, PCs, MainRank
    <2> QED
      BY <1>1, <2>1, <2>2, <2>3 DEF MainLeft, ListenerRank
  <1>3. CASE NotifySetup
    BY <1>1, <1>3 DEF NotifySetup, Goto, MainLeft, MainRank, ListenerRank, cleanupVars
  <1>4. CASE GatewayUnhealthy
    <2>1. /\ UNCHANGED <<phase, work, exit, listener>>
          /\ pc \in {"verifyIngest", "verifyStreaming"}
          /\ \/ pc' = "verifyIngest" /\ attempt' = attempt + 1
             \/ pc' = "unverified" /\ attempt' = attempt
      BY <1>4 DEF GatewayUnhealthy, cleanupVars
    <2>2. MainRank[pc] \in {4, 5}
      BY <2>1 DEF MainRank
    <2>3. MainRank["verifyIngest"] = 5 /\ MainRank["unverified"] = 3
      BY DEF MainRank
    <2> QED
      BY <1>1, <2>1, <2>2, <2>3 DEF MainLeft, ListenerRank
  <1>5. CASE GatewaysUp /\ ~NotifySetup /\ ~GatewayUnhealthy
    <2>1. UNCHANGED <<phase, work, exit, listener, attempt>>
      BY <1>5 DEF GatewaysUp, MainOnly, cleanupVars, signalVars, StartIngest, StoreIngest,
         StartStreaming, StoreStreaming, GatewayStarts, GatewayStored, IngestDoesNotStart,
         StreamingDoesNotStart, DropIngest, UnverifiedKillIngest, UnverifiedKillStreaming,
         StopStreaming, MainKills, IngestHealthy, StreamingHealthy, ContextCancelled
    <2>2. MainRank[pc'] < MainRank[pc]
      BY <1>5 DEF GatewaysUp, Goto, MainRank, StartIngest, StoreIngest, StartStreaming,
         StoreStreaming, GatewayStarts, GatewayStored, IngestDoesNotStart,
         StreamingDoesNotStart, DropIngest, UnverifiedKillIngest, UnverifiedKillStreaming,
         StopStreaming, MainKills, IngestHealthy, StreamingHealthy, ContextCancelled
    <2>3. MainRank[pc] \in Int /\ MainRank[pc'] \in Int
      BY DEF TypeOK, PCs, MainRank
    <2> QED
      BY <1>1, <2>1, <2>2, <2>3 DEF MainLeft, ListenerRank
  <1> QED
    BY <1>2, <1>3, <1>4, <1>5

\* A clean-up begins with less than it had before it, and only its own changes.
LEMMA BeginsWithLess ==
    ASSUME TypeOK, TypeOK', NEW c \in Cleaners, phase[c] = "idle", BeginCleanup(c)
    PROVE  /\ CleanupLeft(c)' < CleanupLeft(c)
           /\ \A d \in Cleaners \ {c} : CleanupLeft(d)' = CleanupLeft(d)
  <1>1. \A d \in Cleaners \ {c} : phase'[d] = phase[d] /\ work'[d] = work[d]
    BY DEF BeginCleanup, TypeOK
  <1>2. CASE HasAnythingToCleanup
    <2>1. phase'[c] = "running" /\ work'[c] = InitialWork
      BY <1>2 DEF BeginCleanup, TypeOK
    <2>2. /\ \A g \in Gateways : InitialWork[g] \in {"kill", "done"}
          /\ InitialWork["ports"] = "lsofIngest"
          /\ InitialWork["docker"] = "guard"
      BY DEF InitialWork, Workers, Gateways, TypeOK
    <2>3. WorkLeft(c)' <= 6
      BY <2>1, <2>2 DEF WorkLeft, WorkRank, Gateways
    <2> QED
      BY <1>1, <2>1, <2>3, RanksAreNatural, RanksStayNatural
         DEF NaturalRanks, CleanupLeft, PhaseRank, WorkLeft
  <1>3. CASE ~HasAnythingToCleanup
    <2>1. phase'[c] = "done" /\ work' = work
      BY <1>3 DEF BeginCleanup, TypeOK
    <2> QED
      BY <1>1, <2>1, RanksAreNatural, RanksStayNatural
         DEF NaturalRanks, CleanupLeft, PhaseRank, WorkLeft
  <1> QED
    BY <1>2, <1>3

\* A worker has less to do after each of its steps; the end of the process is the
\* end of all of it.
LEMMA WorksOff ==
    ASSUME TypeOK, TypeOK', exit = "alive", UNCHANGED phase,
           \/ exit' # "alive" /\ work' = NobodyWorks
           \/ /\ exit' = exit
              /\ \E c \in Cleaners, w \in Workers, to \in WorkStates :
                    /\ WorkRank[to] < WorkRank[work[c][w]]
                    /\ work' = [work EXCEPT ![c][w] = to]
    PROVE  /\ \A d \in Cleaners : CleanupLeft(d)' <= CleanupLeft(d)
           /\ ExitRank' <= ExitRank
           /\ ExitRank' < ExitRank \/ \E c \in Cleaners : CleanupLeft(c)' < CleanupLeft(c)
  <1>1. CASE exit' # "alive" /\ work' = NobodyWorks
    <2>1. \A d \in Cleaners : WorkLeft(d)' = 0
      BY <1>1 DEF WorkLeft, WorkRank, NobodyWorks, NoWork, Workers, Gateways
    <2> QED
      BY <1>1, <2>1, RanksAreNatural, RanksStayNatural
         DEF NaturalRanks, CleanupLeft, ExitRank
  <1>2. ASSUME exit' = exit, NEW c \in Cleaners, NEW w \in Workers, NEW to \in WorkStates,
               WorkRank[to] < WorkRank[work[c][w]],
               work' = [work EXCEPT ![c][w] = to]
        PROVE  /\ \A d \in Cleaners : CleanupLeft(d)' <= CleanupLeft(d)
               /\ CleanupLeft(c)' < CleanupLeft(c)
    <2>1. \A d \in Cleaners, v \in Workers :
             work'[d][v] = IF d = c /\ v = w THEN to ELSE work[d][v]
      BY <1>2 DEF TypeOK
    <2>2. \A d \in Cleaners, v \in Workers : WorkRank[work[d][v]] \in Nat
      <3>1. \A a \in WorkStates : WorkRank[a] \in Nat
        BY DEF WorkStates, WorkRank
      <3> QED
        BY <3>1 DEF TypeOK
    <2>3. WorkRank[to] \in Nat
      BY DEF WorkStates, WorkRank
    <2>4. WorkLeft(c)' < WorkLeft(c) /\ \A d \in Cleaners \ {c} : WorkLeft(d)' = WorkLeft(d)
      BY <1>2, <2>1, <2>2, <2>3 DEF WorkLeft, Workers, Gateways
    <2> QED
      BY <2>4, RanksAreNatural, RanksStayNatural
         DEF NaturalRanks, CleanupLeft
  <1> QED
    BY <1>1, <1>2 DEF ExitRank

\* Each step of a worker is such a step.
LEMMA WorkerWorksOff ==
    ASSUME TypeOK, exit = "alive", NEW c \in Cleaners, CleanupWorker(c)
    PROVE  /\ UNCHANGED <<setupVars, listener, phase>>
           /\ \/ exit' # "alive" /\ work' = NobodyWorks
              \/ /\ exit' = exit
                 /\ \E w \in Workers, to \in WorkStates :
                       /\ WorkRank[to] < WorkRank[work[c][w]]
                       /\ work' = [work EXCEPT ![c][w] = to]
  <1>1. Gateways \subseteq Workers /\ "ports" \in Workers /\ "docker" \in Workers
    BY DEF Workers
  <1>2. UNCHANGED <<setupVars, listener, phase>>
    BY DEF CleanupWorker, GatewayWorker, KillPortProcesses, KillPortProcessesHitsSelf, LsofFails,
       DockerWorkerGuard, DockerWorkerDown, signalVars
  <1> DEFINE Off(w) == \/ exit' # "alive" /\ work' = NobodyWorks
                       \/ /\ exit' = exit
                          /\ \E to \in WorkStates : /\ WorkRank[to] < WorkRank[work[c][w]]
                                                    /\ work' = [work EXCEPT ![c][w] = to]
  <1>3. ASSUME NEW w \in Workers, Report(c, w), work[c][w] \in WorkStates \ {"done"}
        PROVE  Off(w)
    BY <1>3 DEF Report, Ends, WorkStates, WorkRank
  <1>4. ASSUME NEW g \in Gateways, GatewayWorker(c, g) PROVE Off(g)
    BY <1>1, <1>3, <1>4 DEF GatewayWorker, WorkStates
  <1>5. ASSUME NEW from \in DOMAIN PortOf, KillPortProcesses(c, from) \/ LsofFails(c, from)
        PROVE  Off("ports")
    <2>1. work[c]["ports"] = from /\ PortWorkerAdvances(c, from)
      BY <1>5 DEF KillPortProcesses, LsofFails
    <2>2. CASE from = "lsofIngest"
      BY <2>1, <2>2 DEF PortWorkerAdvances, WorkStates, WorkRank
    <2>3. CASE from # "lsofIngest"
      <3> HIDE DEF Off
      <3> QED
        BY <1>1, <1>3, <2>1, <2>3 DEF PortWorkerAdvances, PortOf, WorkStates
    <2> QED
      BY <2>2, <2>3
  <1>6. ASSUME NEW from \in DOMAIN PortOf, KillPortProcessesHitsSelf(c, from) PROVE Off("ports")
    BY <1>6 DEF KillPortProcessesHitsSelf, Ends
  <1>7. ASSUME DockerWorkerGuard(c) \/ DockerWorkerDown(c) PROVE Off("docker")
    <2>1. CASE DockerWorkerGuard(c) /\ startedDocker
      BY <2>1 DEF DockerWorkerGuard, WorkStates, WorkRank
    <2>2. CASE ~(DockerWorkerGuard(c) /\ startedDocker)
      <3> HIDE DEF Off
      <3> QED
        BY <1>1, <1>3, <1>7, <2>2 DEF DockerWorkerGuard, DockerWorkerDown, WorkStates
    <2> QED
      BY <2>1, <2>2
  <1> HIDE DEF Off
  <1>8. \E w \in Workers : Off(w)
    BY <1>1, <1>4, <1>5, <1>6, <1>7 DEF CleanupWorker
  <1> QED
    BY <1>2, <1>8 DEF Off

LEMMA NextUsesUp == IInv /\ TypeOK' /\ [Next]_vars => [UsesUpSteps]_vars
  <1> SUFFICES ASSUME IInv, TypeOK', Next, vars' # vars PROVE UsesUpSteps
    OBVIOUS
  <1>1. TypeOK /\ exit = "alive" /\ NaturalRanks /\ NaturalRanks'
    BY RanksAreNatural, RanksStayNatural DEF IInv, Next, Alive, Terminated
  <1>2. ASSUME EnsureRunning \/ Checks \/ OfferAnswered \/ GatewaysUp
        PROVE  StepsLeft' < StepsLeft
    <2>1. /\ CleanupLeft("main")' = CleanupLeft("main")
          /\ CleanupLeft("handler")' = CleanupLeft("handler")
      BY <1>1, <1>2, MainForward DEF CleanupLeft, WorkLeft
    <2>2. ExitRank' = ExitRank
      BY <1>1, <1>2, MainForward DEF ExitRank
    <2>3. MainLeft' < MainLeft
      BY <1>1, <1>2, MainForward
    <2>4. MainLeft' <= MainLeft
      BY <1>1, <2>3 DEF NaturalRanks
    <2> QED
      BY <1>1, <2>1, <2>2, <2>3, <2>4, Shrinks
         DEF NaturalRanks, ExitRank, Cleaners, CleanupLeft
  <1>3. ASSUME MainCleansUp PROVE StepsLeft' < StepsLeft
    <2>1. MainLeft' <= MainLeft
      <3>1. MainRank[pc'] <= MainRank[pc] /\ MainRank[pc'] \in Int /\ MainRank[pc] \in Int
        BY <1>3 DEF MainCleansUp, Goto, MainRank
      <3>2. VerifyAttempts \in Int /\ attempt \in Int /\ attempt' = attempt
        BY <1>1, <1>3, VerifyAttemptsAssumption DEF TypeOK, MainCleansUp
      <3> QED
        BY <1>3, <3>1, <3>2 DEF MainCleansUp, MainLeft, ListenerRank, signalVars
    <2>2. phase["main"] = "idle" /\ BeginCleanup("main") /\ UNCHANGED <<listener, exit>>
      BY <1>3 DEF MainCleansUp, Goto, IInv, CleanupInv, signalVars
    <2>3. /\ CleanupLeft("main")' < CleanupLeft("main")
          /\ CleanupLeft("handler")' = CleanupLeft("handler")
      BY <1>1, <2>2, BeginsWithLess DEF Cleaners
    <2> QED
      BY <1>1, <2>1, <2>2, <2>3, Shrinks DEF NaturalRanks, ExitRank, Cleaners, CleanupLeft
  <1>4. ASSUME HandlerTakesSignal PROVE StepsLeft' < StepsLeft
    <2>1. UNCHANGED <<pc, attempt, listener, exit>>
      BY <1>4 DEF HandlerTakesSignal, setupVars
    <2>2. /\ CleanupLeft("handler")' < CleanupLeft("handler")
          /\ CleanupLeft("main")' = CleanupLeft("main")
      BY <1>1, <1>4, BeginsWithLess DEF HandlerTakesSignal, Cleaners
    <2> QED
      BY <1>1, <2>1, <2>2, Shrinks
         DEF NaturalRanks, MainLeft, ExitRank, Cleaners, CleanupLeft, ListenerRank
  <1>5. ASSUME NEW c \in Cleaners, CleanupEnds(c) PROVE StepsLeft' < StepsLeft
    <2>1. /\ UNCHANGED <<pc, attempt, listener, exit, work>>
          /\ phase[c] = "running"
          /\ phase' \in {[phase EXCEPT ![c] = "done"], [phase EXCEPT ![c] = "expired"]}
      BY <1>5 DEF CleanupEnds, CleanupCompletes, CleanupDeadline, setupVars, signalVars
    <2>2. /\ PhaseRank[phase'[c]] < PhaseRank[phase[c]]
          /\ \A d \in Cleaners \ {c} : phase'[d] = phase[d]
      BY <1>1, <2>1 DEF TypeOK, PhaseRank
    <2>3. /\ CleanupLeft(c)' < CleanupLeft(c)
          /\ \A d \in Cleaners \ {c} : CleanupLeft(d)' = CleanupLeft(d)
      BY <1>1, <2>1, <2>2 DEF NaturalRanks, CleanupLeft, WorkLeft
    <2> QED
      BY <1>1, <2>1, <2>3, Shrinks
         DEF NaturalRanks, MainLeft, ExitRank, ListenerRank, CleanupLeft
  <1>6. ASSUME NEW c \in Cleaners, CleanupWorker(c) PROVE StepsLeft' < StepsLeft
    <2>1. UNCHANGED <<pc, attempt, listener, phase>>
      BY <1>1, <1>6, WorkerWorksOff DEF setupVars
    <2>2. /\ \A d \in Cleaners : CleanupLeft(d)' <= CleanupLeft(d)
          /\ ExitRank' <= ExitRank
          /\ ExitRank' < ExitRank \/ \E d \in Cleaners : CleanupLeft(d)' < CleanupLeft(d)
      BY <1>1, <1>6, WorkerWorksOff, WorksOff
    <2> QED
      BY <1>1, <2>1, <2>2, Shrinks DEF NaturalRanks, MainLeft, ListenerRank
  <1>7. ASSUME MainExits \/ HandlerExits PROVE StepsLeft' < StepsLeft
    <2>1. /\ UNCHANGED <<pc, attempt, listener, phase>>
          /\ exit' # "alive" /\ work' = NobodyWorks
      BY <1>7 DEF MainExits, HandlerExits, Ends, setupVars, signalVars
    <2>2. /\ \A d \in Cleaners : CleanupLeft(d)' <= CleanupLeft(d)
          /\ ExitRank' < ExitRank
      BY <1>1, <2>1, WorksOff DEF ExitRank
    <2> QED
      BY <1>1, <2>1, <2>2, Shrinks DEF NaturalRanks, MainLeft, ExitRank, ListenerRank
  <1>8. ASSUME ListenerTakesSignal PROVE StepsLeft' < StepsLeft
    <2>1. /\ UNCHANGED <<pc, attempt, phase, work, exit>>
          /\ listener = "waiting" /\ listener' = "done"
      BY <1>8 DEF ListenerTakesSignal, setupVars, cleanupVars
    <2>2. MainLeft' <= MainLeft /\ MainLeft' < MainLeft
      <3>1. VerifyAttempts \in Int /\ attempt \in Int
        BY <1>1, VerifyAttemptsAssumption DEF TypeOK
      <3>2. MainRank[pc] \in Int
        BY <1>1 DEF TypeOK, PCs, MainRank
      <3> QED
        BY <2>1, <3>1, <3>2 DEF MainLeft, ListenerRank
    <2> QED
      BY <1>1, <2>1, <2>2, Shrinks DEF NaturalRanks, CleanupLeft, WorkLeft, ExitRank
  <1>9. ASSUME Machine \/ Interrupt PROVE StepsLeft' = StepsLeft
    <2>1. UNCHANGED <<pc, attempt, phase, work, exit, listener>>
      BY <1>9 DEF Machine, Interrupt, ComposeStartsService, ContextKills, WrapperFails,
         ServerStarts, ServerListens, ServerExits, setupVars, signalVars, cleanupVars
    <2> QED
      BY <2>1 DEF StepsLeft, MainLeft, ListenerRank, CleanupLeft, WorkLeft, ExitRank
  <1>10. FrkrupStep => StepsLeft' < StepsLeft
    BY <1>2, <1>3, <1>4, <1>5, <1>6, <1>7, <1>8 DEF FrkrupStep, MainStep
  <1>11. ~FrkrupStep => StepsLeft' = StepsLeft
    BY <1>9 DEF FrkrupStep, Next, Terminated, MainStep
  <1>12. StepsLeft \in Nat /\ StepsLeft' \in Nat
    BY <1>1 DEF NaturalRanks
  <1> QED
    BY <1>10, <1>11, <1>12 DEF UsesUpSteps

\* frkrup has no livelock: whatever Docker, the gateways, the user and the order
\* of its goroutines do, a session takes at most 2 * VerifyAttempts + 35 steps of
\* its own (setupLocal with the loop of VerifyGatewaysWithRetries, two calls of
\* CleanupLocal with their workers, the signal handlers).
THEOREM StepsAreBounded ==
    Spec => /\ [](StepsLeft \in 0 .. 2 * VerifyAttempts + 35)
            /\ [][UsesUpSteps]_vars
  <1>1. Init => StepsLeft <= 2 * VerifyAttempts + 35
    <2>1. ASSUME Init
          PROVE  /\ MainLeft = 20 + 2 * (VerifyAttempts - 1)
                 /\ \A c \in Cleaners : CleanupLeft(c) = 8
                 /\ ExitRank = 1
      <3>1. pc = "ensure" /\ attempt = 1 /\ listener = "off" /\ exit = "alive"
        BY <2>1 DEF Init
      <3>2. MainLeft = 20 + 2 * (VerifyAttempts - 1)
        BY <3>1, VerifyAttemptsAssumption DEF MainLeft, MainRank, ListenerRank
      <3>3. ASSUME NEW c \in Cleaners PROVE CleanupLeft(c) = 8
        <4>1. phase[c] = "idle" /\ \A w \in Workers : work[c][w] = "done"
          BY <2>1 DEF Init, NobodyWorks, NoWork
        <4> QED
          BY <4>1 DEF CleanupLeft, PhaseRank, WorkLeft, WorkRank, Workers, Gateways
      <3> QED
        BY <3>1, <3>2, <3>3 DEF ExitRank
    <2> QED
      BY <2>1, VerifyAttemptsAssumption DEF StepsLeft, Cleaners
  <1>2. TypeOK => StepsLeft \in Nat
    BY RanksAreNatural DEF NaturalRanks
  <1>3. /\ TypeOK /\ StepsLeft <= 2 * VerifyAttempts + 35
        /\ TypeOK' /\ [UsesUpSteps]_vars
        => (StepsLeft <= 2 * VerifyAttempts + 35)'
    <2>1. UNCHANGED vars => UNCHANGED StepsLeft
      BY DEF vars, StepsLeft, MainLeft, CleanupLeft, WorkLeft, ExitRank, ListenerRank,
         setupVars, signalVars, cleanupVars
    <2>2. TypeOK' => StepsLeft' \in Nat
      BY RanksStayNatural DEF NaturalRanks
    <2> QED
      BY <1>2, <2>1, <2>2, VerifyAttemptsAssumption DEF UsesUpSteps
  <1>4. TypeOK /\ StepsLeft <= 2 * VerifyAttempts + 35
        => StepsLeft \in 0 .. 2 * VerifyAttempts + 35
    BY <1>2, VerifyAttemptsAssumption
  <1> QED
    BY <1>1, <1>3, <1>4, NextUsesUp, Invariance, TypeCorrect, PTL DEF Spec

-----------------------------------------------------------------------------
(* Signals.                                                                *)

\* A signal that sits in a channel has a goroutine that will still read it.
SignalsHaveReaders ==
    /\ "main" \in pending => phase["handler"] = "idle"
    /\ "setup" \in pending => listener = "waiting"

\* No signal is lost on its way: it is put into the channel of a goroutine that
\* has not read one yet, stays there until that goroutine takes it, and is in
\* nobody's way afterwards (signal.Notify with a buffer of one in main and in
\* setupLocal).
THEOREM SignalsAreRead ==
    Spec => /\ []SignalsHaveReaders
            /\ [][/\ "main" \in pending \ pending' => HandlerTakesSignal
                  /\ "setup" \in pending \ pending' => ListenerTakesSignal]_vars
  <1>1. Init => SignalsHaveReaders
    BY DEF Init, SignalsHaveReaders
  <1>2. ASSUME IInv, [Next]_vars
        PROVE  \/ UNCHANGED <<pending, phase, listener>>
               \/ Interrupt \/ HandlerTakesSignal \/ ListenerTakesSignal
               \/ NotifySetup
               \/ MainCleansUp \/ \E c \in Cleaners : CleanupEnds(c)
    <2>1. CASE EnsureRunning \/ Checks \/ OfferAnswered
      BY <2>1 DEF EnsureRunning, Checks, OfferAnswered, MainOnly, machineVars, cleanupVars,
         signalVars, InfrastructureReady, InfrastructureNotReady, ComposeStarts, ComposeUp,
         ComposeUpFails, ServicesReady, ServicesNotReady, AfterWaitCleanupDocker,
         AfterErrorCleanupDocker, MainCleanupDocker, CheckPasses, CheckFails, OIDCNotWanted,
         StartMockOIDC
    <2>2. CASE GatewaysUp
      BY <2>2 DEF GatewaysUp, MainOnly, cleanupVars, signalVars, StartIngest, StoreIngest,
         StartStreaming, StoreStreaming, GatewayStarts, GatewayStored, IngestDoesNotStart,
         StreamingDoesNotStart, DropIngest, UnverifiedKillIngest, UnverifiedKillStreaming,
         StopStreaming, MainKills, IngestHealthy, StreamingHealthy, KeepsConnection,
       GatewayUnhealthy, NoGoodAnswer,
         ContextCancelled
    <2>3. CASE MainExits \/ HandlerExits \/ Machine
      BY <2>3 DEF MainExits, HandlerExits, Machine, ComposeStartsService, ContextKills,
         WrapperFails, ServerStarts, ServerListens, ServerExits, signalVars, cleanupVars
    <2>4. ASSUME NEW c \in Cleaners, CleanupWorker(c) PROVE UNCHANGED <<pending, phase, listener>>
      BY <2>4 DEF CleanupWorker, GatewayWorker, KillPortProcesses, KillPortProcessesHitsSelf,
         LsofFails, DockerWorkerGuard, DockerWorkerDown, signalVars
    <2>5. CASE UNCHANGED vars
      BY <2>5 DEF vars, signalVars, cleanupVars
    <2> QED
      BY <1>2, <2>1, <2>2, <2>3, <2>4, <2>5 DEF Next, MainStep, Terminated
  <1>3. IInv /\ SignalsHaveReaders /\ [Next]_vars => SignalsHaveReaders'
    <2> SUFFICES ASSUME IInv, SignalsHaveReaders, [Next]_vars PROVE SignalsHaveReaders'
      OBVIOUS
    <2>1. CASE UNCHANGED <<pending, phase, listener>>
      BY <2>1 DEF SignalsHaveReaders
    <2>2. CASE Interrupt
      BY <2>2 DEF Interrupt, Readers, SignalsHaveReaders, cleanupVars
    <2>3. CASE HandlerTakesSignal
      BY <2>3 DEF HandlerTakesSignal, SignalsHaveReaders
    <2>4. CASE ListenerTakesSignal
      BY <2>4 DEF ListenerTakesSignal, SignalsHaveReaders, cleanupVars
    <2>5. CASE NotifySetup
      BY <2>5 DEF NotifySetup, SignalsHaveReaders, cleanupVars
    <2>6. ASSUME MainCleansUp \/ \E c \in Cleaners : CleanupEnds(c)
          PROVE  /\ phase["handler"] = "idle" => phase'["handler"] = "idle"
                 /\ UNCHANGED <<pending, listener>>
      BY <2>6 DEF MainCleansUp, BeginCleanup, CleanupEnds, CleanupCompletes, CleanupDeadline,
         signalVars, IInv, TypeOK, Cleaners
    <2> QED
      BY <1>2, <2>1, <2>2, <2>3, <2>4, <2>5, <2>6 DEF SignalsHaveReaders
  <1>4. IInv /\ [Next]_vars =>
          [/\ "main" \in pending \ pending' => HandlerTakesSignal
           /\ "setup" \in pending \ pending' => ListenerTakesSignal]_vars
    <2> SUFFICES ASSUME IInv, [Next]_vars
                 PROVE  /\ "main" \in pending \ pending' => HandlerTakesSignal
                        /\ "setup" \in pending \ pending' => ListenerTakesSignal
      OBVIOUS
    <2> QED
      BY <1>2 DEF Interrupt, HandlerTakesSignal, ListenerTakesSignal, NotifySetup, MainCleansUp,
         CleanupEnds, CleanupCompletes, CleanupDeadline, signalVars
  <1> QED
    BY <1>1, <1>3, <1>4, Invariance, PTL DEF Spec
=============================================================================
