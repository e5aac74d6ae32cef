----------------------------- MODULE LocalSetup -----------------------------
(***************************************************************************)
(* One run of `frkrup` in local mode, from the start of setupLocal to the  *)
(* end of the process (src/cmd/frkrup/main.go, infrastructure.go,          *)
(* gateway.go, cleanup.go).                                                *)
(*                                                                         *)
(* Five kinds of actors share the configuration object and the machine:    *)
(*   - the main goroutine (variable pc), from EnsureRunning to main's end; *)
(*   - the signal handler main registers first: CleanupLocal, os.Exit(1);  *)
(*   - the signal handler setupLocal registers later: cancel(ctx);         *)
(*   - the workers of at most two CleanupLocal calls, "main" and           *)
(*     "handler": one per gateway, one for the ports, one for Docker;      *)
(*   - the machine: Docker, the `go run` wrappers and their servers, the   *)
(*     user at the keyboard.                                               *)
(*                                                                         *)
(* A gateway is started as `go run ./cmd/gateway`: the process frkrup      *)
(* holds (the wrapper) builds the gateway and runs it as a child (the      *)
(* server).  A wrapper that is killed does not take its server with it.    *)
(* How one process is killed (SIGTERM, grace period, SIGKILL with retries) *)
(* is module ProcessKill; here killing a process is a single step that     *)
(* succeeds or gives up.                                                   *)
(***************************************************************************)
EXTENDS Integers, FiniteSets

CONSTANTS
    TestOIDC,        \* config.TestOIDC: a mock identity provider is wanted
    VerifyAttempts,  \* maxRetries in setupLocal (10 in the code)
    Faults,          \* the external commands that may fail: docker, kill, lsof
    StaleChoices,    \* sets of gateway ports an earlier run may still hold
    ForeignChoices   \* sets of services that may be up before frkrup starts

Gateways == {"ingest", "streaming"}
Services == {"database", "broker"}
Cleaners == {"main", "handler"}
Workers  == Gateways \cup {"ports", "docker"}

ASSUME TestOIDCAssumption == TestOIDC \in BOOLEAN
ASSUME VerifyAttemptsAssumption == VerifyAttempts \in Nat \ {0}
ASSUME FaultsAssumption == Faults \subseteq {"docker", "kill", "lsof"}
ASSUME StaleAssumption == StaleChoices \subseteq SUBSET Gateways
ASSUME ForeignAssumption == ForeignChoices \subseteq SUBSET Services

VARIABLES
    pc,             \* where the main goroutine is
    startedDocker,  \* config.StartedDocker
    cmd,            \* gateways whose handle (IngestCmd, StreamingCmd) is set
    attempt,        \* the loop counter of VerifyGatewaysWithRetries
    compose,        \* the state of each service of the compose project
    oidc,           \* the mock identity provider's container
    wrapper,        \* the `go run` process of each gateway
    server,         \* the gateway process each wrapper started
    stale,          \* ports held by a server of an earlier run
    idleConn,       \* the ports frkrup may hold an idle connection to
    ctxDone,        \* the context of setupLocal is cancelled
    listener,       \* the goroutine behind setupLocal's signal channel
    pending,        \* signal channels with a signal in their buffer
    phase,          \* how far each CleanupLocal call is
    work,           \* what each worker of each CleanupLocal call does next
    exit,           \* how the process ended, "alive" before
    happened        \* the noteworthy events so far (history)

setupVars   == <<pc, attempt>>
configVars  == <<startedDocker, cmd>>
machineVars == <<compose, oidc, wrapper, server, stale, idleConn>>
signalVars  == <<ctxDone, listener, pending>>
cleanupVars == <<phase, work>>
vars == <<setupVars, configVars, machineVars, signalVars, cleanupVars,
          exit, happened>>

PCs == {"ensure", "offer", "up", "upRunning", "waitReady", "giveUpWaiting",
        "database", "broker", "migrate", "dropDocker", "oidc", "notify",
        "startIngest", "storeIngest", "startStreaming", "storeStreaming",
        "dropIngest", "verifyIngest", "verifyStreaming", "unverified",
        "unverifiedStreaming", "running", "stopStreaming",
        "failed", "cleanupFailed", "returned", "cleanupReturned"}

WorkStates == {"kill", "lsofIngest", "lsofStreaming", "guard", "down", "done"}

\* What the runs note: the failures the clean-up cannot do anything about,
\* where setup was when the handler took the signal, and whether an earlier
\* run held a port then.
Events == {"composeUp", "failure", "acquiring", "beforeVerified", "portHeld"}

TypeOK ==
    /\ pc \in PCs
    /\ startedDocker \in BOOLEAN
    /\ cmd \subseteq Gateways
    /\ attempt \in 1..VerifyAttempts
    /\ compose \in [Services -> {"absent", "foreign", "ours"}]
    /\ oidc \in {"absent", "up"}
    /\ wrapper \in [Gateways -> {"none", "alive", "dead"}]
    /\ server \in [Gateways -> {"none", "starting", "serving"}]
    /\ stale \subseteq Gateways
    /\ idleConn \subseteq Gateways
    /\ ctxDone \in BOOLEAN
    /\ listener \in {"off", "waiting", "done"}
    /\ pending \subseteq {"main", "setup"}
    /\ phase \in [Cleaners -> {"idle", "running", "done", "expired"}]
    /\ work \in [Cleaners -> [Workers -> WorkStates]]
    /\ exit \in {"alive", "ok", "setupFailed", "handler", "panic", "selfKilled"}
    /\ happened \subseteq Events

NoWork == [w \in Workers |-> "done"]
NobodyWorks == [c \in Cleaners |-> NoWork]

Init ==
    /\ pc = "ensure"
    /\ startedDocker = FALSE
    /\ cmd = {}
    /\ attempt = 1
    /\ \E up \in ForeignChoices :
          compose = [s \in Services |-> IF s \in up THEN "foreign" ELSE "absent"]
    /\ oidc \in (IF TestOIDC THEN {"absent", "up"} ELSE {"absent"})
    /\ wrapper = [g \in Gateways |-> "none"]
    /\ server = [g \in Gateways |-> "none"]
    /\ stale \in StaleChoices
    /\ idleConn = {}
    /\ ctxDone = FALSE
    /\ listener = "off"
    /\ pending = {}
    /\ phase = [c \in Cleaners |-> "idle"]
    /\ work = NobodyWorks
    /\ exit = "alive"
    /\ happened = {}

-----------------------------------------------------------------------------
(* Infrastructure: EnsureRunning and the checks that follow it.            *)

AllUp == \A s \in Services : compose[s] # "absent"

Goto(from, to) == /\ pc = from
                  /\ pc' = to

MainOnly == UNCHANGED <<attempt, configVars, machineVars, signalVars,
                        cleanupVars, exit, happened>>

\* A service that is up may still not accept connections.
InfrastructureReady ==
    /\ AllUp
    /\ Goto("ensure", "database")
    /\ MainOnly

\* Not ready: without the docker repository or its compose file setup fails,
\* otherwise the user is asked.
InfrastructureNotReady ==
    /\ \E next \in {"offer", "dropDocker"} : Goto("ensure", next)
    /\ MainOnly

\* The user answers.  Containers that docker reports as running are not
\* started again, so startedDocker stays FALSE for them; an error of
\* `docker compose ps` counts as "not running".
OfferAnswered ==
    /\ \/ Goto("offer", "dropDocker")
       \/ AllUp /\ Goto("offer", "waitReady")
       \/ Goto("offer", "up")
    /\ MainOnly

\* `docker compose up -d` brings the missing services up one by one ...
ComposeStarts ==
    /\ Goto("up", "upRunning")
    /\ MainOnly

ComposeStartsService(s) ==
    /\ pc = "upRunning"
    /\ compose[s] = "absent"
    /\ compose' = [compose EXCEPT ![s] = "ours"]
    /\ UNCHANGED <<setupVars, configVars, oidc, wrapper, server, stale, idleConn,
                   signalVars, cleanupVars, exit, happened>>

\* ... and only its success is recorded in the configuration.
ComposeUp ==
    /\ AllUp
    /\ Goto("upRunning", "waitReady")
    /\ startedDocker' = TRUE
    /\ happened' = happened \cup {"composeUp"}
    /\ UNCHANGED <<attempt, cmd, machineVars, signalVars, cleanupVars, exit>>

ComposeUpFails ==
    /\ "docker" \in Faults
    /\ Goto("upRunning", "dropDocker")
    /\ happened' = happened \cup {"failure"}
    /\ UNCHANGED <<attempt, configVars, machineVars, signalVars, cleanupVars, exit>>

ServicesReady ==
    /\ AllUp
    /\ Goto("waitReady", "database")
    /\ MainOnly

ServicesNotReady ==
    /\ Goto("waitReady", "giveUpWaiting")
    /\ MainOnly

\* `docker compose down`, or `docker compose kill` of some services when that
\* fails.  Only success clears startedDocker.
DownSucceeds ==
    /\ compose' = [s \in Services |-> "absent"]
    /\ startedDocker' = FALSE
    /\ happened' = happened

\* Mutant of DownFails: the flag is cleared whatever `down` returned.
DownFailsForgets ==
    /\ "docker" \in Faults
    /\ \E stopped \in SUBSET Services :
          compose' = [s \in Services |-> IF s \in stopped THEN "absent" ELSE compose[s]]
    /\ startedDocker' = FALSE
    /\ happened' = happened \cup {"failure"}

DownFails ==
    /\ "docker" \in Faults
    /\ \E stopped \in SUBSET Services :
          compose' = [s \in Services |-> IF s \in stopped THEN "absent" ELSE compose[s]]
    /\ startedDocker' = startedDocker
    /\ happened' = happened \cup {"failure"}

\* Mutant of MainCleanupDocker: Docker is stopped whoever started it.
MainCleanupDockerAlways(from, to) ==
    /\ Goto(from, to)
    /\ DownSucceeds \/ DownFails
    /\ UNCHANGED <<attempt, cmd, oidc, wrapper, server, stale, idleConn,
                   signalVars, cleanupVars, exit>>

\* CleanupDocker as the main goroutine calls it: at the end of a wait that
\* timed out, and again on every failure up to the migrations.
MainCleanupDocker(from, to) ==
    /\ Goto(from, to)
    /\ \/ /\ ~startedDocker
          /\ UNCHANGED <<compose, startedDocker, happened>>
       \/ /\ startedDocker
          /\ DownSucceeds \/ DownFails
    /\ UNCHANGED <<attempt, cmd, oidc, wrapper, server, stale, idleConn,
                   signalVars, cleanupVars, exit>>

AfterWaitCleanupDocker  == MainCleanupDocker("giveUpWaiting", "dropDocker")
AfterErrorCleanupDocker == MainCleanupDocker("dropDocker", "failed")

\* The database check, the broker check and the migrations, in this order.
NextCheck == [database |-> "broker", broker |-> "migrate", migrate |-> "oidc"]
ServiceOf == [database |-> "database", broker |-> "broker", migrate |-> "database"]

CheckPasses(check) ==
    /\ compose[ServiceOf[check]] # "absent"
    /\ Goto(check, NextCheck[check])
    /\ MainOnly

CheckFails(check) ==
    /\ Goto(check, "dropDocker")
    /\ MainOnly

OIDCNotWanted ==
    /\ ~TestOIDC
    /\ Goto("oidc", "notify")
    /\ MainOnly

\* A container that already runs is used as it is.  One that was started is
\* kept even when it does not answer in time; Docker is left running then.
StartMockOIDC ==
    /\ TestOIDC
    /\ \/ /\ oidc # "absent"
          /\ Goto("oidc", "notify")
          /\ UNCHANGED oidc
       \/ /\ oidc = "absent"
          /\ \/ Goto("oidc", "notify") /\ oidc' = "up"
             \/ Goto("oidc", "failed") /\ oidc' \in {"absent", "up"}
    /\ UNCHANGED <<attempt, configVars, compose, wrapper, server, stale, idleConn,
                   signalVars, cleanupVars, exit, happened>>

-----------------------------------------------------------------------------
(* Gateways.                                                               *)

\* From here on a signal also cancels the context.
NotifySetup ==
    /\ Goto("notify", "startIngest")
    /\ listener' = "waiting"
    /\ UNCHANGED <<attempt, configVars, machineVars, ctxDone, pending,
                   cleanupVars, exit, happened>>

\* exec.Cmd.Start refuses once the context is cancelled.
GatewayStarts(g, from, to) ==
    /\ ~ctxDone
    /\ Goto(from, to)
    /\ wrapper' = [wrapper EXCEPT ![g] = "alive"]
    /\ UNCHANGED <<attempt, configVars, compose, oidc, server, stale, idleConn,
                   signalVars, cleanupVars, exit, happened>>

GatewayStored(g, from, to) ==
    /\ Goto(from, to)
    /\ cmd' = cmd \cup {g}
    /\ UNCHANGED <<attempt, startedDocker, machineVars, signalVars, cleanupVars,
                   exit, happened>>

StartIngest    == GatewayStarts("ingest", "startIngest", "storeIngest")
StoreIngest    == GatewayStored("ingest", "storeIngest", "startStreaming")
StartStreaming == GatewayStarts("streaming", "startStreaming", "storeStreaming")
StoreStreaming == GatewayStored("streaming", "storeStreaming", "verifyIngest")

\* The deferred cancel() runs on every return of setupLocal after NotifySetup.
IngestDoesNotStart ==
    /\ Goto("startIngest", "failed")
    /\ ctxDone' = TRUE
    /\ UNCHANGED <<attempt, configVars, machineVars, listener, pending,
                   cleanupVars, exit, happened>>

StreamingDoesNotStart ==
    /\ Goto("startStreaming", "dropIngest")
    /\ ctxDone' = TRUE
    /\ UNCHANGED <<attempt, configVars, machineVars, listener, pending,
                   cleanupVars, exit, happened>>

\* Killing the wrapper of g: it is gone, or the killer gave up on it (it may
\* be gone all the same).  The server of g is not touched.
WrapperGone(g) == IF wrapper[g] = "alive" THEN [wrapper EXCEPT ![g] = "dead"]
                                          ELSE wrapper

\* Mutant of KillWrapper: a signal that was sent counts as a process that ended.
KillWrapperUnverified(g) ==
    \/ /\ wrapper' \in {wrapper, WrapperGone(g)}
       /\ happened' = happened
    \/ /\ "kill" \in Faults
       /\ wrapper' \in {wrapper, WrapperGone(g)}
       /\ happened' = happened \cup {"failure"}

KillWrapper(g) ==
    \/ /\ wrapper' = WrapperGone(g)
       /\ happened' = happened
    \/ /\ "kill" \in Faults
       /\ wrapper' \in {wrapper, WrapperGone(g)}
       /\ happened' = happened \cup {"failure"}

\* killProcess(handle of g), then the handles in dropped are set to nil,
\* whatever the outcome.  A handle the handler's clean-up has cleared meanwhile
\* is skipped.
MainKills(g, dropped, from, to) ==
    /\ Goto(from, to)
    /\ IF g \in cmd THEN KillWrapper(g) ELSE UNCHANGED <<wrapper, happened>>
    /\ cmd' = cmd \ dropped
    /\ UNCHANGED <<attempt, startedDocker, compose, oidc, server, stale, idleConn,
                   signalVars, cleanupVars, exit>>

DropIngest == MainKills("ingest", {"ingest"}, "dropIngest", "failed")

\* After a failed verification both are killed, then both handles dropped.
UnverifiedKillIngest    == MainKills("ingest", {}, "unverified", "unverifiedStreaming")
UnverifiedKillStreaming == MainKills("streaming", Gateways, "unverifiedStreaming", "failed")

\* The deferred kill of the streaming gateway when setupLocal returns nil.
StopStreaming == MainKills("streaming", {"streaming"}, "stopStreaming", "returned")

\* A health request is answered by whatever listens on the port: the server
\* of this run or one an earlier run left behind.
Answers(g) == server[g] = "serving" \/ g \in stale

\* The client's transport keeps the connection of an answer for the next request.
KeepsConnection(g) ==
    /\ idleConn' = idleConn \cup {g}
    /\ UNCHANGED <<compose, oidc, wrapper, server, stale>>

\* Nobody answers, or an answer is not what it should be.
NoGoodAnswer(g) == UNCHANGED machineVars \/ (Answers(g) /\ KeepsConnection(g))

IngestHealthy ==
    /\ Answers("ingest")
    /\ Goto("verifyIngest", "verifyStreaming")
    /\ KeepsConnection("ingest")
    /\ UNCHANGED <<attempt, configVars, signalVars, cleanupVars, exit, happened>>

StreamingHealthy ==
    /\ Answers("streaming")
    /\ Goto("verifyStreaming", "running")
    /\ KeepsConnection("streaming")
    /\ UNCHANGED <<attempt, configVars, signalVars, cleanupVars, exit, happened>>

\* Mutant of GatewayUnhealthy: the attempt is not counted.
GatewayUnhealthyUncounted ==
    /\ pc \in {"verifyIngest", "verifyStreaming"}
    /\ pc' = "verifyIngest"
    /\ NoGoodAnswer(IF pc = "verifyIngest" THEN "ingest" ELSE "streaming")
    /\ UNCHANGED <<attempt, configVars, signalVars, cleanupVars, exit, happened>>

\* Mutant of GatewayUnhealthy: one attempt too many.
GatewayUnhealthyOnceMore ==
    /\ pc \in {"verifyIngest", "verifyStreaming"}
    /\ \/ /\ attempt <= VerifyAttempts
          /\ pc' = "verifyIngest"
          /\ attempt' = attempt + 1
          /\ UNCHANGED ctxDone
       \/ /\ attempt > VerifyAttempts
          /\ pc' = "unverified"
          /\ ctxDone' = TRUE
          /\ UNCHANGED attempt
    /\ NoGoodAnswer(IF pc = "verifyIngest" THEN "ingest" ELSE "streaming")
    /\ UNCHANGED <<configVars, listener, pending, cleanupVars, exit, happened>>

\* Every failure repeats both checks, until the attempts are used up; then
\* setupLocal cancels the context and kills both gateways.
GatewayUnhealthy ==
    /\ pc \in {"verifyIngest", "verifyStreaming"}
    /\ \/ /\ attempt < VerifyAttempts
          /\ pc' = "verifyIngest"
          /\ attempt' = attempt + 1
          /\ UNCHANGED ctxDone
       \/ /\ attempt = VerifyAttempts
          /\ pc' = "unverified"
          /\ ctxDone' = TRUE
          /\ UNCHANGED attempt
    /\ NoGoodAnswer(IF pc = "verifyIngest" THEN "ingest" ELSE "streaming")
    /\ UNCHANGED <<configVars, listener, pending, cleanupVars, exit, happened>>

ContextCancelled ==
    /\ ctxDone
    /\ Goto("running", "stopStreaming")
    /\ MainOnly

-----------------------------------------------------------------------------
(* CleanupLocal.                                                           *)

\* Mutant of HasAnythingToCleanup: Docker alone is not worth a clean-up.
HasGatewaysToCleanup == cmd # {}

HasAnythingToCleanup == startedDocker \/ cmd # {}

\* Mutant of InitialWork: no worker for the streaming gateway.
InitialWorkOneGateway ==
    [w \in Workers |-> CASE w = "ingest" /\ w \in cmd -> "kill"
                         [] w = "ports"  -> "lsofIngest"
                         [] w = "docker" -> "guard"
                         [] OTHER        -> "done"]

InitialWork ==
    [w \in Workers |-> CASE w \in cmd     -> "kill"
                         [] w = "ports"  -> "lsofIngest"
                         [] w = "docker" -> "guard"
                         [] OTHER        -> "done"]

BeginCleanup(c) ==
    IF HasAnythingToCleanup
    THEN /\ phase' = [phase EXCEPT ![c] = "running"]
         /\ work' = [work EXCEPT ![c] = InitialWork]
    ELSE /\ phase' = [phase EXCEPT ![c] = "done"]
         /\ UNCHANGED work

\* The main goroutine cleans up explicitly after a failed setup, through the
\* defer after a successful one.
MainCleansUp ==
    /\ Goto("failed", "cleanupFailed") \/ Goto("returned", "cleanupReturned")
    /\ BeginCleanup("main")
    /\ UNCHANGED <<attempt, configVars, machineVars, signalVars, exit, happened>>

\* Mutant of CleanupCompletes: the Docker worker is not counted.
CleanupCompletesWithoutDocker(c) ==
    /\ phase[c] = "running"
    /\ \A w \in Workers \ {"docker"} : work[c][w] = "done"
    /\ phase' = [phase EXCEPT ![c] = "done"]
    /\ UNCHANGED <<setupVars, configVars, machineVars, signalVars, work, exit, happened>>

\* waitForCleanup: all workers are done, or the overall deadline has passed.
\* Either way the channel of results is closed.
CleanupCompletes(c) ==
    /\ phase[c] = "running"
    /\ work[c] = NoWork
    /\ phase' = [phase EXCEPT ![c] = "done"]
    /\ UNCHANGED <<setupVars, configVars, machineVars, signalVars, work, exit, happened>>

CleanupDeadline(c) ==
    /\ phase[c] = "running"
    /\ phase' = [phase EXCEPT ![c] = "expired"]
    /\ UNCHANGED <<setupVars, configVars, machineVars, signalVars, work, exit, happened>>

\* The end of the process is the end of all its goroutines.
Ends(how) ==
    /\ exit' = how
    /\ work' = NobodyWorks

\* A worker reports its result; on a channel that is closed that panics.
Report(c, w) ==
    IF phase[c] = "running"
    THEN /\ work' = [work EXCEPT ![c][w] = "done"]
         /\ UNCHANGED exit
    ELSE Ends("panic")

GatewayWorker(c, g) ==
    /\ work[c][g] = "kill"
    /\ KillWrapper(g)
    /\ cmd' = cmd \ {g}
    /\ Report(c, g)
    /\ UNCHANGED <<setupVars, startedDocker, compose, oidc, server, stale, idleConn,
                   signalVars, phase>>

\* `lsof -ti :port` names every process with a socket on that port, listening
\* or connected.  All of them get SIGKILL, in the order of the output.
PortOf == [lsofIngest |-> "ingest", lsofStreaming |-> "streaming"]

PortFreed(g) ==
    /\ server' = IF server[g] = "serving" THEN [server EXCEPT ![g] = "none"] ELSE server
    /\ wrapper' = IF server[g] = "serving" THEN WrapperGone(g) ELSE wrapper
    /\ stale' = stale \ {g}

\* Mutant of PortWorkerAdvances: only the ingest port is searched.
PortWorkerStops(c, from) == Report(c, "ports")

PortWorkerAdvances(c, from) ==
    IF from = "lsofIngest"
    THEN /\ work' = [work EXCEPT ![c]["ports"] = "lsofStreaming"]
         /\ UNCHANGED exit
    ELSE Report(c, "ports")

KillPortProcesses(c, from) ==
    /\ work[c]["ports"] = from
    /\ PortFreed(PortOf[from])
    /\ PortWorkerAdvances(c, from)
    /\ UNCHANGED <<setupVars, configVars, compose, oidc, idleConn, signalVars, phase,
                   happened>>

\* frkrup itself is in the list while the connection of its own health check
\* is kept alive; the others on the port may or may not come before it.
KillPortProcessesHitsSelf(c, from) ==
    /\ work[c]["ports"] = from
    /\ PortOf[from] \in idleConn
    /\ Answers(PortOf[from])
    /\ PortFreed(PortOf[from]) \/ UNCHANGED <<server, wrapper, stale>>
    /\ Ends("selfKilled")
    /\ UNCHANGED <<setupVars, configVars, compose, oidc, idleConn, signalVars,
                   phase, happened>>

\* lsof missing, failing or cut short reads as "no process on the port".
LsofFails(c, from) ==
    /\ "lsof" \in Faults
    /\ work[c]["ports"] = from
    /\ PortWorkerAdvances(c, from)
    /\ happened' = happened \cup {"failure"}
    /\ UNCHANGED <<setupVars, configVars, machineVars, signalVars, phase>>

DockerWorkerGuard(c) ==
    /\ work[c]["docker"] = "guard"
    /\ IF startedDocker
       THEN /\ work' = [work EXCEPT ![c]["docker"] = "down"]
            /\ UNCHANGED exit
       ELSE Report(c, "docker")
    /\ UNCHANGED <<setupVars, configVars, machineVars, signalVars, phase, happened>>

DockerWorkerDown(c) ==
    /\ work[c]["docker"] = "down"
    /\ DownSucceeds \/ DownFails
    /\ Report(c, "docker")
    /\ UNCHANGED <<setupVars, cmd, oidc, wrapper, server, stale, idleConn, signalVars,
                   phase>>

\* The end of main and of main's handler ends the process.
CleanupOver(c) == phase[c] \in {"done", "expired"}

MainExits ==
    /\ CleanupOver("main")
    /\ Ends(IF pc = "cleanupReturned" THEN "ok" ELSE "setupFailed")
    /\ UNCHANGED <<setupVars, configVars, machineVars, signalVars, phase, happened>>

HandlerExits ==
    /\ CleanupOver("handler")
    /\ Ends("handler")
    /\ UNCHANGED <<setupVars, configVars, machineVars, signalVars, phase, happened>>

-----------------------------------------------------------------------------
(* Signals.                                                                *)

\* A signal goes to every registered channel with room in its buffer of one.
\* Each channel is read once; what is put into it later is never looked at.
Readers == (IF phase["handler"] = "idle" THEN {"main"} ELSE {})
      \cup (IF listener = "waiting" THEN {"setup"} ELSE {})

Interrupt ==
    /\ pending' = pending \cup Readers
    /\ pending' # pending
    /\ UNCHANGED <<setupVars, configVars, machineVars, ctxDone, listener, cleanupVars,
                   exit, happened>>

\* What the handler finds when it looks at the configuration: setup is still
\* acquiring what the clean-up would have to know of, or not verified yet; an
\* earlier run holds a port.
Acquiring == pc \in {"ensure", "offer", "up", "upRunning", "waitReady", "database",
                     "broker", "migrate", "oidc", "notify", "startIngest",
                     "storeIngest", "startStreaming", "storeStreaming"}

SetupStage == (IF Acquiring THEN {"acquiring"} ELSE {})
         \cup (IF pc = "running" THEN {} ELSE {"beforeVerified"})
         \cup (IF stale = {} THEN {} ELSE {"portHeld"})

HandlerTakesSignal ==
    /\ "main" \in pending
    /\ phase["handler"] = "idle"
    /\ pending' = pending \ {"main"}
    /\ BeginCleanup("handler")
    /\ happened' = happened \cup SetupStage
    /\ UNCHANGED <<setupVars, configVars, machineVars, ctxDone, listener, exit>>

ListenerTakesSignal ==
    /\ "setup" \in pending
    /\ listener = "waiting"
    /\ pending' = pending \ {"setup"}
    /\ listener' = "done"
    /\ ctxDone' = TRUE
    /\ UNCHANGED <<setupVars, configVars, machineVars, cleanupVars, exit, happened>>

\* exec.CommandContext kills the wrapper once the context is cancelled.
ContextKills(g) ==
    /\ ctxDone
    /\ wrapper[g] = "alive"
    /\ wrapper' = WrapperGone(g)
    /\ UNCHANGED <<setupVars, configVars, compose, oidc, server, stale, idleConn,
                   signalVars, cleanupVars, exit, happened>>

-----------------------------------------------------------------------------
(* The gateways' own processes and the connection to them.                 *)

WrapperFails(g) ==
    /\ wrapper[g] = "alive"
    /\ server[g] = "none"
    /\ wrapper' = WrapperGone(g)
    /\ UNCHANGED <<setupVars, configVars, compose, oidc, server, stale, idleConn,
                   signalVars, cleanupVars, exit, happened>>

ServerStarts(g) ==
    /\ wrapper[g] = "alive"
    /\ server[g] = "none"
    /\ server' = [server EXCEPT ![g] = "starting"]
    /\ UNCHANGED <<setupVars, configVars, compose, oidc, wrapper, stale, idleConn,
                   signalVars, cleanupVars, exit, happened>>

ServerListens(g) ==
    /\ server[g] = "starting"
    /\ g \notin stale
    /\ server' = [server EXCEPT ![g] = "serving"]
    /\ UNCHANGED <<setupVars, configVars, compose, oidc, wrapper, stale, idleConn,
                   signalVars, cleanupVars, exit, happened>>

\* A server that ends (the port is taken, it crashes, it heeds the signal)
\* ends its wrapper.
ServerExits(g) ==
    /\ server[g] # "none"
    /\ server' = [server EXCEPT ![g] = "none"]
    /\ wrapper' = WrapperGone(g)
    /\ UNCHANGED <<setupVars, configVars, compose, oidc, stale, idleConn,
                   signalVars, cleanupVars, exit, happened>>

-----------------------------------------------------------------------------
EnsureRunning ==
    \/ InfrastructureReady \/ InfrastructureNotReady
    \/ ComposeStarts \/ ComposeUp \/ ComposeUpFails
    \/ ServicesReady \/ ServicesNotReady \/ AfterWaitCleanupDocker

Checks ==
    \/ \E check \in DOMAIN NextCheck : CheckPasses(check) \/ CheckFails(check)
    \/ AfterErrorCleanupDocker
    \/ OIDCNotWanted \/ StartMockOIDC

GatewaysUp ==
    \/ NotifySetup
    \/ StartIngest \/ StoreIngest \/ StartStreaming \/ StoreStreaming
    \/ IngestDoesNotStart \/ StreamingDoesNotStart \/ DropIngest
    \/ IngestHealthy \/ StreamingHealthy \/ GatewayUnhealthy
    \/ UnverifiedKillIngest \/ UnverifiedKillStreaming
    \/ ContextCancelled \/ StopStreaming

\* What the main goroutine does by itself; the answer to the offer is the user's.
MainStep == EnsureRunning \/ Checks \/ GatewaysUp \/ MainCleansUp \/ MainExits

CleanupWorker(c) ==
    \/ \E g \in Gateways : GatewayWorker(c, g)
    \/ \E from \in DOMAIN PortOf : \/ KillPortProcesses(c, from)
                                   \/ KillPortProcessesHitsSelf(c, from)
                                   \/ LsofFails(c, from)
    \/ DockerWorkerGuard(c) \/ DockerWorkerDown(c)

\* Mutant of CleanupEnds: waitForCleanup without its deadline.
CleanupEndsWithoutDeadline(c) == CleanupCompletes(c)

CleanupEnds(c) == CleanupCompletes(c) \/ CleanupDeadline(c)

Machine ==
    \/ \E s \in Services : ComposeStartsService(s)
    \/ \E g \in Gateways : \/ ContextKills(g) \/ WrapperFails(g)
                           \/ ServerStarts(g) \/ ServerListens(g) \/ ServerExits(g)

Alive == exit = "alive"

Terminated == ~Alive /\ UNCHANGED vars

Next ==
    \/ /\ Alive
       /\ \/ MainStep
          \/ OfferAnswered
          \/ HandlerTakesSignal \/ HandlerExits \/ ListenerTakesSignal
          \/ \E c \in Cleaners : CleanupWorker(c) \/ CleanupEnds(c)
          \/ Machine
          \/ Interrupt
    \/ Terminated

Spec == Init /\ [][Next]_vars

\* The main goroutine, the handlers and the clean-up timers are scheduled;
\* docker, lsof and the health requests return.  Nothing is assumed of the
\* user, of signals or of the gateways.
Fairness ==
    /\ WF_vars(Alive /\ MainStep)
    /\ WF_vars(Alive /\ \E s \in Services : ComposeStartsService(s))
    /\ WF_vars(Alive /\ (HandlerTakesSignal \/ HandlerExits))
    /\ WF_vars(Alive /\ ListenerTakesSignal)
    /\ \A c \in Cleaners : WF_vars(Alive /\ CleanupEnds(c))

FairSpec == Spec /\ Fairness

-----------------------------------------------------------------------------
(* What holds.                                                             *)

Ours == {s \in Services : compose[s] = "ours"}
LiveWrappers == {g \in Gateways : wrapper[g] = "alive"}
Noted(events) == events \cap happened # {}

\* Once `docker compose up` has succeeded, a cleared startedDocker means that
\* the stack is down: no order of the main goroutine, two clean-ups and their
\* failures makes frkrup forget a stack it started (CleanupDocker).
ComposeRemembered ==
    Noted({"composeUp"}) /\ ~startedDocker => \A s \in Services : compose[s] = "absent"

\* A wrapper that runs is one the configuration still names, one that
\* setupLocal is about to store, or one that a killer gave up on: handles are
\* cleared by three parties, never ahead of the process they stand for.
StorePC == [ingest |-> "storeIngest", streaming |-> "storeStreaming"]
HandleCoversWrapper ==
    \A g \in LiveWrappers : g \in cmd \/ pc = StorePC[g] \/ Noted({"failure"})

\* However frkrup ends by itself (setup failed, main returned, the handler
\* called os.Exit), if no command failed, no deadline passed and the signal did
\* not arrive while setup was still acquiring things, then the services it
\* started are down.
NoExpiry == \A c \in Cleaners : phase[c] # "expired"
Orderly == /\ exit \in {"ok", "setupFailed", "handler"}
           /\ NoExpiry
           /\ ~Noted({"failure", "acquiring"})
OrderlyExitStopsCompose == Orderly => Ours = {}

\* Under the same conditions no `go run` process outlives frkrup, although the
\* main goroutine may end the process while the handler's clean-up is at work.
OrderlyExitStopsWrappers == Orderly => LiveWrappers = {}

\* If the handler ends the process, its clean-up was complete, frkrup was
\* running when the signal came, and the ports were not held by an earlier run
\* then, neither gateway still serves: killPortProcesses catches the servers
\* that survive their wrappers.
HandlerExitFreesPorts ==
    /\ exit = "handler"
    /\ phase["handler"] = "done"
    /\ ~Noted({"failure", "beforeVerified", "portHeld"})
    => \A g \in Gateways : server[g] # "serving"

\* The channel of results is closed under a worker only by the deadline, never
\* by a clean-up that completes (waitForCleanup, the WaitGroup).
PanicOnlyAfterDeadline == exit = "panic" => ~NoExpiry

\* A service that was up before frkrup started is stopped only by a run in
\* which frkrup brought the stack up itself (EnsureRunning, CleanupDocker).
ForeignStackKept ==
    [][\A s \in Services : compose[s] = "foreign" /\ compose'[s] # "foreign"
                              => Noted({"composeUp"})]_vars

\* A signal in the handler's channel ends the process, whatever hangs: the
\* workers have no fairness, the clean-up's deadline does.
InterruptExits == "main" \in pending ~> ~Alive

\* Setup never gets stuck between two waits for the user: it reaches the
\* offer, the running state or the end of the process.
SetupSettles == Alive ~> (pc \in {"offer", "running"} \/ ~Alive)

-----------------------------------------------------------------------------
(* What the documentation or a comment says and the code does not do.      *)

\* QUICKSTART.md:58, "Press Ctrl+C to stop everything": once frkrup runs, a
\* signal stops the gateways if no command fails and no deadline passes.
CtrlCStopsGateways ==
    /\ exit \in {"ok", "handler"}
    /\ NoExpiry
    /\ ~Noted({"failure", "beforeVerified"})
    => \A g \in Gateways : server[g] # "serving"
=============================================================================
