# A TLA+ verification of frkr-tools

frkr-tools holds two command line programs. `frkrup` brings up the frkr stack,
either on this machine (Docker Compose for the database and the broker, two
gateways as `go run` processes) or on a Kubernetes cluster (images, add-ons, a
Helm chart). `frkrcfg` administers tenants, streams, clients and users in the
database. This directory models the parts whose correctness depends on the
order of things: goroutines and external processes, signals, deadlines,
failures, runs that are cut short, several processes on one database, and
settings that are decided in several places.

Paths below are relative to `src/cmd/frkrup/` unless they name another directory.

## 1. The system

| Component | State it keeps | Operations | Module |
|---|---|---|---|
| Local session (`main.go`, `infrastructure.go`, `gateway.go`, `cleanup.go`) | `StartedDocker`, `IngestCmd`, `StreamingCmd`; context, two signal channels; containers, processes and ports of the machine | `setupLocal`, `EnsureRunning`, `StartMockOIDC`, `StartGateway`, `VerifyGatewaysWithRetries`, two signal handlers, `CleanupLocal` with its workers | `LocalSetup` |
| Killing a process (`cleanup.go`) | the process, its PID, retries, deadlines | `killProcessWithTimeout`, `killProcessWithRetries`, `attemptKillProcess` | `ProcessKill`, contract in `KillContract` |
| Database bring-up (`database.go`, `infrastructure.go`) | the databases of a server, their schema | `DatabaseChecker.Check`, `RunMigrations`, `ensureDatabaseExists` | `DatabaseBringup` |
| Kubernetes deployment (`kubernetes.go`, `helm.go`) | in memory: changed images, password; on the machine: tags; in the cluster: images, releases, volume, pods | `Setup`, `PushImages` and what they call | `K8sDeploy` (partly) |
| cert-manager CRD migration (`kubernetes.go`) | owner and resource policy of six CRDs, two releases | `installCertManager`, `adoptCertManagerCRDs` | `CertManagerMigration` |
| Configuration and prompts (`main.go`, `frkrup_config.go`, `prompt.go`) and Helm values (`helm.go`) | the configuration | `loadConfigFromFile`, `applyDefaults`, `validateConfig`, `promptConfig`, flags, `generateValuesFile` | `Configuration` (partly) |
| Administration (`src/cmd/frkrcfg`, `src/pkg/db`) | tenants, streams, clients and users in the database | create, list, get, delete | `StreamRegistry`, contract in `RegistryContract` (partly) |
| Port forwarding (`kubernetes.go`) | restart loops around `kubectl` children | `runPortForwarding`, `startPortForward` | not modelled |
| Gateway logs (`gateway.go`) | pipes | `StreamLogs` and the stderr readers | not modelled |
| `broker.go`, `src/build.go`, scripts | - | `CreateTopic` is never called; build and test drivers | not modelled |

How they interact. `main` registers a signal handler that runs `CleanupLocal` and
exits; `setupLocal` later registers a second one that cancels a context. One
Ctrl+C reaches both. The main goroutine, the handler and the workers of up to two
clean-ups share the configuration object without a lock, and all of them act on
the same processes, ports and containers. `CleanupLocal` calls
`killProcessWithTimeout` for each gateway, and so does the main goroutine
(`killProcess`). Between `EnsureRunning` and the gateways, setup waits for the
database and migrates it; other sessions, and other commands of `frkrcfg`, may be
at the same server. In Kubernetes mode a run is sequential; the interaction is
between a run and the next one, through what the machine and the cluster have kept.
Which mode a run is in, and with which values, is decided by file or dialogue,
defaults, validation and flags, in that order.

What makes each part hard, and what would make it correct:

- *Local session.* Setup may be interrupted between acquiring something and noting
  it; two clean-ups may work at a time; a clean-up has a deadline of 15 s and one
  of its workers a deadline of 30 s; a killed `go run` leaves its server alive;
  external commands fail half-way. Correct: frkrup does not forget what it
  started, does not stop what it did not start, leaves nothing behind when it
  ends in order, and always ends when told to.
- *Killing a process.* Several callers, one `exec.Cmd`, a context that kills on its
  own, PIDs that are reused. Correct: a report of success is true, force is used
  for a reason, the deadline never skips the kill, every call returns.
- *Database bring-up.* The server comes and goes; a database is created before it
  can be used; ten retries share a context of 5 s; several sessions find the same
  database missing; what cannot be asked is passed over, and a list of databases that
  breaks off reads as complete. Correct: a session past its checks has a usable
  database, a race has a winner, a second run gets past it, nothing else is migrated.
- *Administration.* A command is a few SQL statements without a transaction, others
  run in between, the process may die and a reply be lost. Correct: what a command
  reports is true of the tables.
- *Kubernetes.* What one run knows the next does not: which images changed, which
  password was generated. Ignored errors; `kubectl`'s context is global; whether a pod pulls
  depends on a value that a provider throws away. Correct:
  pods catch up with the images, the password fits the volume, other clusters are
  left alone.
- *cert-manager.* Six CRDs move from one Helm release to another, one at a time and
  with errors ignored; the installation takes away what the adoption has set; a later
  run looks at one of them. Correct: a run never leaves a part of them, and a run
  that finds none restores them.
- *Configuration.* Two fields say the mode; the flags come after defaults and
  validation; one assignment to a map of values may undo another. Correct: the
  fields agree, every URL has a host, the authentication that was configured is applied.

The hazards, each at its line with the properties that cover it, are in
`PROJECT.json`.

## 2. Modules

### LocalSetup

One run in local mode, from `EnsureRunning` to the end of the process.

| Variables | Code |
|---|---|
| `pc`, `attempt` | the main goroutine in `main`/`setupLocal`; the counter of `VerifyGatewaysWithRetries` |
| `startedDocker`, `cmd` | `config.StartedDocker`; the set of gateways whose `IngestCmd`/`StreamingCmd` is not nil |
| `compose`, `oidc` | the containers: absent, up before frkrup (`foreign`), or started by it (`ours`) |
| `wrapper`, `server`, `stale` | the `go run` process frkrup holds; the gateway it built and started; ports held by an earlier run's server |
| `idleConn` | the gateways to whose port a health check may have left a keep-alive connection |
| `ctxDone`, `listener`, `pending` | the context; `setupLocal`'s handler; the buffers of the two signal channels |
| `phase`, `work` | each `CleanupLocal` call (by main, by the handler) and what its four workers do next |
| `exit`, `happened` | how the process ended; history of failures and of where setup was when the signal was taken |

Actions are named for the code: `InfrastructureReady`, `ComposeUp`,
`StoreIngest`, `GatewayUnhealthy`, `BeginCleanup`, `DockerWorkerDown`, ... An
action ends where another actor may see or change shared state: between the start
of a gateway and the assignment of its handle, between the two kills after a
failed verification, between the check of `StartedDocker` and `docker compose
down`. A kill is one step here, with a result; its inside is `ProcessKill`. The
checks of the database and its migration have an outcome here; their inside is
`DatabaseBringup`.

A health check that is answered may leave a connection behind, whether the answer is good
or not (`KeepsConnection`, `NoGoodAnswer`). The streaming gateway's health endpoint is on its port
plus 1000, which is never its own port but may be any other one; the model lets
either port be the one frkrup holds a connection to, so that `KillPortProcessesHitsSelf` is
possible more often than in a given configuration.

`docker compose up` is split into its start, one step per container and its end.
`docker compose down` is one step, which may fail with any subset of the
containers stopped. lsof failing, and a `kill -9` that fails, are the fault
`lsof`: nobody on the port is killed. `Faults` says which commands may fail in
a run. Values the interrupted reads could have seen half-written do not exist:
the shared fields are a boolean and two pointers.

### ProcessKill and KillContract

`ProcessKill` is one process and any number of concurrent
`killProcessWithTimeout` calls for it: SIGTERM through the handle, `cmd.Wait` in a
goroutine, grace period, deadline, SIGKILL by PID with `maxKillRetries`, the check
with signal 0 before and after. A process that has ended answers signal 0 until it
is collected; after that its PID may be another's (`PidReuse`).
`exec.CommandContext` is `ContextKills`. `KillContract` is what a caller relies on: one answer per
call, `stopped` only for a process that has ended. `ContractHolds` says that
`ProcessKill` implements it, with `ended <- Collected, answer <- result`.

`LocalSetup!KillWrapper` is the caller's view of this contract: a kill succeeds and the
wrapper is gone, or it gives up and the wrapper may be there or not.

### DatabaseBringup

Any number of local sessions and one database server.

| Variables | Code |
|---|---|
| `server` | is it up, does the nameless connection of `Check` work, is it CockroachDB |
| `dbs`, `usable`, `schema` | its databases, those that accept connections yet, those that are migrated |
| `name` | `config.DBName` of each session: `frkr` or `frkrdb` |
| `sess` | where a session is: the step, the caller of `Check`, the polls of `EnsureRunning`, the retries and the seconds of the context of `Check`, the driver, the outcome |
| `knew`, `creator`, `misread` | history: sessions that found `frkrdb` at their start, that created it, and whose list of the databases broke off |

`Ping`, `PingDefault`, `CreateInCheck` and `Retry` are `Check`; `NotYet` is what its
callers make of a failure. `PingTarget`, `Look`, `CreateMissing`, `DetectDriver` and
`Migrate` are `RunMigrations` with `ensureDatabaseExists`. `Look` has three outcomes: the list is
read, the query fails (the creation is passed over), or it breaks off before `frkrdb`
(`Misreads`: `rows.Err` is not asked and a row that does not scan is skipped,
`database.go:88-97`), which leads to a creation of what may exist. The string replacements in the URL are modelled by what
they do: only a URL with `/frkrdb` leads to a creation, the default connection has
lost its parameters, a URL without the name stays as it is. The server
(`ServerSwitches`, `BecomesUsable`) does what it likes. The migrations are one
external call, which works or does not.

### StreamRegistry and RegistryContract

Commands that run at a time, each a sequence of SQL statements:
`CreateOrGetTenant` first, in all of them, those that only read too; then
`CreateStream`, or `ShowStream`, `FindStream`, `UpdateDeleted` (a deletion), or `ScopeClient` and
`CreateAccount`. `CutShort` ends a command between any two statements, and
`LostReplies` lets a statement take effect and its command fail. Commands that
only read are commands that stop before their last step. The statements of
frkr-common are external: they are modelled by what the callers and the tests in
`src/pkg/db` say of them; whether the name of a deleted stream can be taken again is
not said there, so it is a constant (`Recreate`).

`RegistryContract` has no statements: rows are added, removed, opened one at a time,
and a command speaks once and says what is true of the registry it leaves
(`True`). `ContractHolds` says that the commands implement it; `said` is the
refinement mapping, made of the commands' records.

`DatabaseManager.CreateStream` of frkrup is in package `main` and has no caller; it is left out.

### K8sDeploy

Successive runs (`frkrup`, `frkrup --rebuild`, `frkrup push`) against one cluster. Every
step of `Setup` is an action; `Fails` and `Killed` end a run between any two
steps, and the memory of the run (`updated`, `password`) is gone. What remains:
`built` (local tags), `available` (what the registry or the nodes have for a tag), `pods`,
`cached` (what nodes have pulled), `pulls` (the pull policy of the deployments), `release`
and `disk` (the passwords of the Helm release and of the Postgres volume), `addon`, `saved` (frkrup.yaml). Between the steps the user edits
sources, saves the password, uninstalls, deletes the volume or switches the
context. `missed` and `happened` are history: changes that a run saw and did not
bring to the deployment, and what went wrong unnoticed.

In load mode a pod that starts runs the image that was loaded. With a registry it is
sure of the image that was pushed only under the pull policy `Always`, which a
`--rebuild` puts into the values (`helm.go:138-141`) and a provider throws away again
(`helm.go:262-266`): `PullsAlways`. Without it a pod may run anything a node has of the tag,
or what the old pod ran, or the newest image (`NewPod`). `Providers` says which runs have a
provider; it may be different in each upgrade. A provider drops the registry from the image
names as well; that such a name may then not be found at all only means that the pod stays
what it was, which `NewPod` includes. Nodes never forget an image.

Simplifications: `db_host` is the default `frkr-db`; exactly one of
`image_load_command` and `image_registry` is set; a failing `docker image
inspect` is not distinguished from a missing image; Helm creates the Postgres
volume in the step that upgrades the release; of another cluster only the fact
that it was changed (`touched`) is kept; the Redpanda volume only causes a
warning and is left out, as are Helm repositories and dependencies, whose errors
are ignored, and the infrastructure images' versions.

### CertManagerMigration

The same runs, seen from the CRDs of cert-manager: `owner` and `keep` are the labels and
annotations `adoptCertManagerCRDs` sets, `release` and `manifest` what Helm has
stored. `FastPath`, `Adopt` (once per CRD), `Install`, `InstallFails`, `Upgrade` and
`UpgradeFails` are the steps of a run that concern them; `CutShort` ends a run between
them. Helm is external. Its first installation refuses objects of another release
(`Refused`). With `--force` (`kubernetes.go:505`) it replaces what is there by the object of the
chart, and that of cert-manager 1.14 is taken to have no resource policy, so that `Install`
empties `keep`. An upgrade deletes what the last manifest lists and the chart no longer has, unless the
object's policy says "keep" (`Dropped`), and may fail with a part of it deleted. `listed` and
`disturbed` are history: whether the frkr chart listed the CRDs when the run began, and whether
an error or a deletion has made the fast path take a state for a complete one (`Deceptive`).
`DeleteCRD` and `Uninstall` are the user's.

### Configuration

One run from its command line to the mode it takes and, for a cluster, the values of
the chart. `LoadFile` is reading, `ApplyDefaults` and `Valid` in this order; `AskMode` to
`DefaultAnswers` are the dialogue, which has defaults and no validation;
`ApplyFlags` and `Dispatch` are `main`; `GenerateValues` is `generateValuesFile`. A field
is kept as far as something is decided by it: a host name, a registry, an issuer
is there or not; a database host is the chart's own, localhost or another one.

## 3. Runs

| Run | Module, config | Question |
|---|---|---|
| `local_compose` | `MCLocalSetup`, `MCLocalCompose.cfg` | a session with the mock identity provider, signals at any time, the database up before frkrup, docker and lsof that fail |
| `local_gateways` | `MCLocalSetup`, `MCLocalGateways.cfg` | the same with the ingest port held by an earlier run and kills that fail |
| `local_live` | `MCLocalSetup`, `MCLocalLive.cfg` | fair scheduling, clean-up workers that may hang: `InterruptExits`, `SetupSettles` |
| `kill` | `MCProcessKill`, `MCProcessKill.cfg` | a worker's call with a deadline and one of main without, cancellation and PID reuse, a process that may ignore SIGTERM |
| `database` | `MCDatabaseBringup`, `MCDatabase.cfg` | two sessions on every kind of server, which goes up and down, with every set of databases, failing statements and lists that break off |
| `registry` | `MCStreamRegistry`, `MCRegistry.cfg` | three commands: a deletion that another deletion and a creation overtake, two that create one account |
| `k8s_load` | `MCK8sDeploy`, `MCK8sLoad.cfg` | successive runs on a local cluster, ignored errors: `OutdatedOnlyIfMissed`, `CredentialsMatch` |
| `k8s_push` | `MCK8sDeploy`, `MCK8sPush.cfg` | a registry, runs with and without a provider, cert-manager and a second cluster: `RebuildCatchesUp`, `StrayOnlyAfterSwitch` |
| `certmanager` | `MCCertManager`, `MCCertManager.cfg` | runs with and without cert-manager, interrupted and repeated, commands that fail, users who delete |
| `config` | `MCConfiguration`, `MCConfiguration.cfg` | files, dialogues and flags in the combinations that matter |
| `v_ctrlc_gateways` | `MCLocalSetup`, `VCtrlCStopsGateways.cfg` | expected to be violated, see below |
| `v_auth` | `MCConfiguration`, `VAuthApplied.cfg` | expected to be violated, see below |

What holds:

- `ComposeRemembered`: after a successful `docker compose up`, `StartedDocker` is false only
  when the stack is down. Main and two clean-ups may call `CleanupDocker` at a
  time and each call may fail.
- `HandleCoversWrapper`: a `go run` process that is alive is named by the
  configuration, about to be stored, or was given up on.
- `OrderlyExitStopsCompose`, `OrderlyExitStopsWrappers`: if no command failed, no
  deadline passed and the signal did not come while setup was acquiring things,
  then frkrup's services are down and its `go run` processes gone at the end,
  although main may end the process under the handler's clean-up.
- `HandlerExitFreesPorts`: if it is the handler that ends the process, after a signal to a
  running frkrup and a complete clean-up, the gateways' servers are gone too.
- `PanicOnlyAfterDeadline`: the results channel is closed under a worker by the
  deadline only.
- `ForeignStackKept`: services that were up are stopped only after frkrup's own
  `docker compose up` succeeded.
- `InterruptExits`, `SetupSettles`: a signal ends the process; setup reaches the offer,
  the running state or an end.
- `KillReportSound`, `GivesUpOnlyAfterKill`, `ForceNeedsReason`, `ContractHolds`,
  `EveryCallReturns`, `ProcessEndsAtLast`: what is asked of killing in section 1.
- `CheckedIsUsable`: past the checks a session's database accepts connections,
  whichever way through `Check` it took and however the context ran out.
- `RerunGetsPastCreation`, `SomeoneMigrates`: "already exists" ends a session only in
  a race, only a session that did not find the database at its start, and never all of them.
  A session whose list of the databases broke off is exempt from both.
- `MigratedAsConfigured`: the databases that are migrated are those of the sessions that report
  it and no others, each with the driver of the server, although the question for the driver may fail.
- `SessionsEnd`: a session that was started ends, whatever the server does.
- `DeletedAsReported`: a deletion that reports success has deleted what it showed and what it
  looked up afterwards, also when the two are different rows.
- `ToldSecretIsStored`: a secret that is shown is the one that was stored.
- `OutdatedOnlyIfMissed`: with a load command a deployment is behind the cluster's image only if a run
  has the change in hand, or the run that saw it ended or failed to restart it.
- `RebuildCatchesUp`: one `--rebuild` run whose pods pull makes up for all lost changes.
- `CredentialsMatch`: release and volume have the same password whatever runs were cut
  short, as long as `kubectl get pvc` worked and asked the right cluster.
- `StrayOnlyAfterSwitch`: with `k8s_cluster_name` set another cluster is changed only after a
  switch of the context during the run.
- `CompleteOrMigrating`: a run with cert-manager leaves all six CRDs, after any number of
  runs that were interrupted or whose upgrade failed, or none if it is the run that moves
  them; never a part. Exempt are states in which the fast path is deceived: a command of
  its own fails, an installation fails half-way, somebody deletes a CRD.
- `ModeFollowsTarget`, `EveryURLHasHost`: the two fields for the mode agree and no URL lacks a
  host, also when a flag changes the mode the defaults were made for.

### What the code does not do

Two runs are expected to find a violation; each checks one statement of a
document or comment (quoted in `PROJECT.json`, "findings"):

| Property | The program |
|---|---|
| `CtrlCStopsGateways` | after Ctrl+C main may end the process before the servers are killed (`main.go:287`, against `QUICKSTART.md:58`) |
| `AuthApplied` | with a provider set, `helm.go:263` replaces the map of global values, and the authentication, the registry and the pull policy go with it (against `helm.go:225`) |

Further disagreements follow directly from the code, or were met while modelling, and
have no run of their own:

- A failed verification leaves the servers on their ports (`main.go:264`, against `main.go:108`).
- `down` also stops a service that was up before (`cleanup.go:47`, against `cleanup.go:32`).
- After the deadline a worker's report panics on the closed channel
  (`cleanup.go:151`, against `cleanup.go:147`); `PanicOnlyAfterDeadline` is what is left.
- The port clean-up kills frkrup itself when its idle connection is listed
  (`cleanup.go:264-266`).
- A signal during `docker compose up` finds `StartedDocker` false and leaves the
  services up (`main.go:77-83`, `infrastructure.go:98-101`), and so does an `up` that
  fails half-way. `Orderly` excludes both (`acquiring`, `failure`).
- The container of the mock identity provider is never stopped (`infrastructure.go:204`).
- The cancelled context sends SIGKILL before any SIGTERM (`gateway.go:56`,
  `main.go:203`, against `cleanup.go:166`); hence `cancelled` in `ForceNeedsReason`.
- A server an earlier run left on a port passes the health check of the one just started.
- After a failed run the changed image is not rolled out (`helm.go:92`,
  `kubernetes.go:200`); `OutdatedOnlyIfMissed` says that this is the only way.
- A failing `kubectl get pvc` reads as "no volume" (`helm.go:32`, against
  `docs/GENERIC-K8S.md:73`); `CredentialsMatch` excludes it (`checkFailed`).
- A run that moves the CRDs of cert-manager away from the frkr chart ends without them:
  `--force` (`kubernetes.go:505`) takes off the resource policy that the adoption has just set
  and the upgrade of the frkr chart deletes them (against `kubernetes.go:522`). This rests on
  what Helm does with `--force` and on the chart of cert-manager 1.14, neither of which is in this
  repository. The next run puts them back; `CompleteOrMigrating` says that it does.
- A row that does not scan, or a list of databases that breaks off, reads as "frkrdb is not
  there" (`database.go:88-97`), and the session fails to create it; `misread` exempts it.
- With a registry and a provider the pods need not run what `--rebuild` has pushed
  (`helm.go:262`, against `helm.go:139`); hence `pulls` in `RebuildCatchesUp`.
- The stale data check comes after the installations (`helm.go:29`, against
  `docs/GENERIC-K8S.md:54-58`), and the context is compared once, early
  (`kubernetes.go:128`, against `docs/GENERIC-K8S.md:63`); `StrayOnlyAfterSwitch` states
  what is left of the latter.
- An unfinished release of cert-manager or Envoy Gateway passes for an installed one
  (`kubernetes.go:449`, `483`), and one CRD stands for six; hence `disturbed`.
- `ensureDatabaseExists` looks for and creates `frkrdb` whatever database is configured
  (`database.go:92`).
- `--registry` does not turn port forwarding off, as `image_registry` in a file does: it
  comes after the defaults (`main.go:66`).
- The dialogue for a cluster sets the database host to localhost, so the chart's Postgres
  is not deployed (`prompt.go:110`).
- A lost reply to the creation of an account leaves an account nobody knows the secret of
  (`src/cmd/frkrcfg/client.go:76`).

`README.md:166` of the repository also says that frkrup synchronises the migrations
before the Helm installation. There is no such step in the code, hence none in the
model.

### Bounds

- Two gateways, two services, two clean-ups, six CRDs: as in the code, not a bound.
- `VerifyAttempts` is 1 or, in `local_compose`, 2 instead of 10: an attempt that fails with attempts
  left, and the last one, are both there.
- `Faults`, `StaleChoices`, `ForeignChoices` share the faults out over the local runs: docker
  and lsof concern the compose stack, the ports and the deadline; kills and a stale
  server concern the gateways. `HandlerExitFreesPorts` is checked where no port is held from before.
- `ProcessKill`: the two kinds of callers there are, one bounded and one not, with the
  code's three attempts. The theorems are for any number of both.
- `DatabaseBringup`: two sessions are enough for a race; `MaxWait` 2 of 60; `MaxRetries` 4 of
  10 with the code's `Timeout` of 5 s, two of which pass before the first retry: the
  context runs out before the retries do, as in the code.
- `StreamRegistry`: three commands with the kinds a conflict needs, two tenants, one name
  (more names do not conflict), two ids, any rows of earlier commands.
- `K8sDeploy`: `MaxVersion` = 2 (one edit of each source), `MaxIssued` = 2 (a second generated
  password is the first that can be wrong), one or two built images, one of them
  possibly without a repository. The number of runs is not bounded, nor is it in
  `CertManagerMigration`.
- `Configuration`: two families of files (`ModeFiles`: mode, hosts, ingress; `ClusterFiles`:
  images, certificates, passwords, authentication), every command line, every answer. The
  theorems are for all files.

### Fairness

`LocalSetup!FairSpec` assumes that the main goroutine, the two handlers and the clean-ups'
timers are scheduled, and that `docker compose up` gets on with its containers or
fails. Nothing is assumed of the user at the offer, of signals, of the gateways
or of the clean-up's workers: `InterruptExits` therefore covers a `docker compose
down` or an `lsof` that hangs. It assumes that the command main itself waits for
returns (`docker compose up`, a health request with its 5 s timeout, a kill, for
which `EveryCallReturns` is the reason, the migration, for which `SessionsEnd` is).
`ProcessKill!FairSpec` assumes that timers fire,
goroutines run, SIGKILL ends a process and `wait` collects it; it does not assume
that a process heeds SIGTERM. `DatabaseBringup!FairSpec` assumes that a started session
goes on, its calls returning one way or the other; nothing is assumed of the server.

`Terminated` is the end of a session (or of all calls and commands); with it deadlock checking
stays on in every run.

## 4. Proofs

TLAPS proves for every value of the constants, from the assumptions on them that the
modules state:

| Module | Theorems |
|---|---|
| `LocalSetupProofs` | `TypeCorrect`, `ComposeIsRemembered`, `HandlesCoverWrappers`, `PanicsAreLate` |
| `LocalExitProofs` | `OrderlyExitCompose`, `OrderlyExitWrappers`, `ForeignIsKept`, `HandlerFreesPorts`, `StepsAreBounded`, `SignalsAreRead` |
| `ProcessKillProofs` | `TypeCorrect`, `ReportsAreSound`, `GivingUpIsLast`, `ForceIsJustified`, `KeepsContract`, `CallsAreBounded` |
| `DatabaseBringupProofs` | `TypeCorrect`, `PastChecksUsable`, `RerunHelps`, `RaceHasWinner`, `MigrationsAsConfigured`, `SessionsAreBounded` |
| `StreamRegistryProofs` | `TypeCorrect`, `DeletionsTruthful`, `SecretsStored`, `ScopesWithinTenant`, `RegistryImplementsContract` |
| `K8sDeployProofs` | `TypeCorrect`, `PasswordsMatch`, `StraysFollowSwitches`, `OutdatedIsMissed`, `RebuildsCatchUp`, `NoRollback`, `RunsAreBounded` |
| `CertManagerProofs` | `TypeCorrect`, `NeverAPart` |
| `ConfigurationProofs` | `TypeCorrect`, `ModeIsTarget`, `URLsHaveHosts` |

*ProcessKill.* `MaxKillRetries` is a positive natural
number, `Bounded` a subset of `Killers`; any number of callers. The properties
speak of results; the induction needs to know what a call that has not returned
yet has done: `CallInv` says that a call in the retry loop has a reason to use force
(or the process is collected), that past its first attempt SIGKILL was sent, and
that a call without an end has no result. The refinement then maps each step of a
call that returns to `Answer`, `Reaped` to `End` and everything else to a stutter.

*LocalSetup.* `IInv` joins the type invariant and the three properties with two facts.
`UpInv`: as long as `docker compose up` has not succeeded nothing says it has, and
`StartedDocker` means that it has. `CleanupInv`: the main goroutine's clean-up begins once, a clean-up that
has not begun or is complete has no work left, a worker is at `docker compose
down` only after a successful up, and when both handles are dropped after a failed
verification the ingest process was killed before or given up on. The last one is what
`HandleCoversWrapper` needs at `main.go:262-265`, where handles are cleared after both kills.

*Exits.* `OrderlyInv` follows a clean-up that began when setup had nothing left to acquire
(`Settled`): until its deadline, what its workers are done with is accounted for
(`StartedDocker` is cleared, the handle is gone, or a failure is noted), and setup does
not go back to acquiring. `OursRemembered` ties the containers to `StartedDocker`.

*Ports.* `HandlerExitFreesPorts` speaks of servers, which live on when their `go run` wrapper
dies, and of one instant, the exit. `PortsInv` follows them through the whole session. Before
the handler has taken the signal (`BeforeSignal`), a gateway that setup has started is in
`cmd`, and one that is verified was `Answered`: it serves, or has ended together with its
wrapper, so that no server can still appear. From the signal on (`AfterSignal`), in a run nothing
disturbs, setup starts nothing more, and the handler's worker for ports leaves each port
only when nobody serves on it. A server left by an earlier session (`stale`), a signal
before the verification is over and a command of the clean-up that fails are in the premise.

*Bounded steps.* Four theorems are what safety can say about termination: a measure, a
natural number, gets less with each step of the program's own, and no step of its environment
makes it greater. What they need from fairness is only that a step which can be taken
is taken. In a session of frkrup (`StepsLeft`) the verification attempts, the listener, both
clean-ups with their workers and the exit add up; its environment is Docker, the gateways and the user.
In `ProcessKill` the measure is the retries left times the steps of one, for each call apart.
In `DatabaseBringup` it is the checks still to come (`ChecksToCome`) times the
length of one (`CheckSteps`), plus what is left of the current one (`CheckLeft`) and of
`RunMigrations` (`Behind`): a server that goes away can send a session to its next check but never back
to an earlier one. In `K8sDeploy` it is the stages left, three steps for each
image to come and one for each image noted as changed. `SignalsAreRead` completes the first:
a signal that was delivered has a goroutine that still reads it.

*DatabaseBringup.* `Knowing`: a session that found `frkrdb` at its start gets to create it only by a list
that broke off, because databases are not dropped. `Racing`: who created it does not fail on it,
and who is to fail on it has somebody to have lost to, both but for such a list. `Driving`: the driver of CockroachDB is chosen for CockroachDB only.

*StreamRegistry.* `Keys`: ids identify rows, and a live name is unique in its tenant. `Progress`
is what a command has found out that no other command can take back: rows are never
removed and no deletion is undone. Its key conjunct is that between its two looks a
deletion may lose the stream it showed, but that stream is then deleted already. One
lemma (`ActsKeeps`) shows the invariant for any step that has one of four effects on
the tables (`Effect`) and tells its command no more than `Progress`; one lemma for each action
shows that it is such a step. The refinement follows from the same lemmas.

*K8sDeploy.* Each property has a strengthening of its own over the types. `Credentials`: there is one
password at a time, the last that was generated, wherever there is one; and a run that
is to generate one has seen that there is no volume. `Losses`: an image that was built and not
brought to the cluster, or is there and not in the pods, is missed or in a run's hands. `Rebuilds`: with
a registry every image that was built is noted, and a `--rebuild` run has built all of them
before it goes to the cluster; from there on what it has restarted is up to date, if the pods pull.
`Strays`: with a cluster name set, a run acts on another cluster only after a switch.
`Versions`: a version goes from the repository to the local tag, the cluster and the deployment and
is nowhere ahead of where it comes from, and without the release there are no pods; with this
no step takes a deployment back to an older version, but for a pod that takes what its node
has of a registry's image because it need not pull.

*CertManagerMigration.* `Reliable`: as long as nothing has deceived it, what the fast path goes
by stands for a state that the upgrade leaves complete, or empties; a run that adopts has
not found it, and one that upgrades has. The property alone is not inductive: it speaks of
the end of a run, and what the run skipped was decided by earlier ones. `Listed`: from its
beginning to its upgrade a run sees what the frkr chart listed.

*Configuration.* The dialogue is not validated: `Answered` says that its answers name both hosts
before they get the defaults. One lemma (`Defaults`) says what `ApplyDefaults` makes of any
configuration.

Only model-checked: the liveness properties (`InterruptExits`, `SetupSettles`,
`EveryCallReturns`, `ProcessEndsAtLast`, `SessionsEnd`). The prover has no rules for fairness
and ENABLED here: that a step is possible as long as something is left stays with TLC, while
that there are boundedly many of them is proved. `ScopedWithinTenant`, `NoRollback` and the
bounds on steps are theorems without a run of their own.

## 5. Not modelled, and the plan

Next:

1. Port forwarding over successive runs: the restart loops, their `kubectl` children, and the
   ports these hold after frkrup has ended.
2. The gateways' log pipes as bounded buffers, read only after the verification.

Partly modelled: of `K8sDeploy` see the simplifications in section 2; of the configuration, ports,
URLs beyond their host and the search for repositories (`frkrup_paths.go`) are left out, and
of the values those that are handed on unchanged; of frkrcfg, `migrate` (one external call)
and what the commands that read print.

Left out for good: log output, `broker.go` and other functions that nothing calls
(`RunMigrationsK8s`, `DatabaseManager.CreateStream`, `generateDefaultConfig`, `cleanupLocal`), the build program,
scripts and the operator and gateways themselves, whose code is in other repositories.
