--------------------------- MODULE DatabaseBringup --------------------------
(***************************************************************************)
(* How local sessions of `frkrup` get to a migrated database               *)
(* (src/cmd/frkrup/infrastructure.go, DatabaseChecker.Check and its        *)
(* callers; database.go, RunMigrations and ensureDatabaseExists).          *)
(*                                                                         *)
(* Several sessions use one server, each with the database its             *)
(* configuration names: "frkr", the default, or "frkrdb".  Only "frkrdb"   *)
(* is ever created, by Check when the database a session wants is missing  *)
(* and by ensureDatabaseExists when it finds none of that name.  A         *)
(* database that was created takes a while to accept connections.          *)
(*                                                                         *)
(* The context of a Check is counted in seconds, the unit of its sleeps.   *)
(***************************************************************************)
EXTENDS Integers

CONSTANTS
    Sessions,    \* frkrup processes
    MaxWait,     \* polls of the wait loop in EnsureRunning (60 in the code)
    MaxRetries,  \* pings of Check after the creation (10 in the code)
    Timeout,     \* seconds of the context of Check (5 in the code)
    Faults       \* commands that may fail: create, query, migrate

Names == {"frkr", "frkrdb"}

ASSUME MaxWaitAssumption == MaxWait \in Nat \ {0}
ASSUME MaxRetriesAssumption == MaxRetries \in Nat \ {0}
ASSUME TimeoutAssumption == Timeout \in Nat /\ Timeout > 2
ASSUME FaultsAssumption == Faults \subseteq {"create", "query", "migrate"}

VARIABLES
    server,  \* up; the nameless connection of Check works; is CockroachDB
    dbs,     \* the databases of the server
    usable,  \* those that accept connections
    schema,  \* those the migrations have been applied to
    name,    \* config.DBName of each session
    sess,    \* where each session is
    knew,    \* sessions that found frkrdb on the server at their start (history)
    creator, \* sessions that created frkrdb (history)
    misread  \* sessions whose list of the databases broke off before frkrdb (history)

vars == <<server, dbs, usable, schema, name, sess, knew, creator, misread>>
historyVars == <<knew, creator, misread>>
machineVars == <<server, dbs, usable, schema>>

PCs == {"idle", "ping", "pingDefault", "create", "retry", "pingTarget", "look",
        "createMissing", "detect", "migrate", "ended"}
Stages == {"ensure", "wait", "check"}
Outcomes == {"none", "refused", "notReady", "checkFailed", "unreachable",
             "denied", "createFailed", "migrationFailed", "migrated"}

Session == [pc : PCs, stage : Stages, polls : 0..MaxWait - 1, tries : 0..MaxRetries - 1,
            clock : 0..Timeout, driver : {"postgres", "cockroachdb"},
            outcome : Outcomes]

TypeOK ==
    /\ server \in [up : BOOLEAN, default : BOOLEAN, cockroach : BOOLEAN]
    /\ dbs \subseteq Names \cup {"defaultdb"}
    /\ usable \subseteq dbs
    /\ schema \subseteq Names
    /\ name \in [Sessions -> Names]
    /\ sess \in [Sessions -> Session]
    /\ knew \subseteq Sessions
    /\ creator \subseteq Sessions
    /\ misread \subseteq Sessions

\* CockroachDB comes with a defaultdb.  The nameless connection of Check has
\* lost "?sslmode=disable" with the name: it wants TLS, and a database that is
\* called like the user.
Init ==
    /\ server \in [up : BOOLEAN, default : BOOLEAN, cockroach : BOOLEAN]
    /\ \E some \in SUBSET Names :
          dbs = some \cup (IF server.cockroach THEN {"defaultdb"} ELSE {})
    /\ usable = dbs
    /\ schema = {}
    /\ name \in [Sessions -> Names]
    /\ sess = [s \in Sessions |->
                 [pc |-> "idle", stage |-> "ensure", polls |-> 0, tries |-> 0,
                  clock |-> 0, driver |-> "postgres", outcome |-> "none"]]
    /\ knew = {}
    /\ creator = {}
    /\ misread = {}

-----------------------------------------------------------------------------
(* The steps of a session.                                                 *)

At(s, pc) == sess[s].pc = pc
Becomes(s, state) == sess' = [sess EXCEPT ![s] = state]
Goto(s, to) == Becomes(s, [sess[s] EXCEPT !.pc = to])
Ends(s, how) == Becomes(s, [sess[s] EXCEPT !.pc = "ended", !.outcome = how])

Opens(d) == server.up /\ d \in usable

Start(s) ==
    /\ At(s, "idle")
    /\ Goto(s, "ping")
    /\ knew' = IF "frkrdb" \in dbs THEN knew \cup {s} ELSE knew
    /\ UNCHANGED <<machineVars, name, creator, misread>>

\* EnsureRunning calls Check once, then in its wait loop unless the user
\* declines or there is no compose file; the broker must be ready as well.
Checks(s, stage, polls) ==
    Becomes(s, [sess[s] EXCEPT !.pc = "ping", !.stage = stage, !.polls = polls,
                               !.tries = 0, !.clock = 0])

NotYet(s) ==
    \/ sess[s].stage = "ensure" /\ (Ends(s, "refused") \/ Checks(s, "wait", 0))
    \/ /\ sess[s].stage = "wait"
       /\ IF sess[s].polls + 1 < MaxWait THEN Checks(s, "wait", sess[s].polls + 1)
                                         ELSE Ends(s, "notReady")

\* setupLocal checks once more before the migrations.
CheckSucceeds(s) ==
    IF sess[s].stage = "check"
    THEN Goto(s, "pingTarget")
    ELSE Checks(s, "check", sess[s].polls) \/ NotYet(s)

CheckFails(s) ==
    IF sess[s].stage = "check" THEN Ends(s, "checkFailed") ELSE NotYet(s)

\* Only a URL with "/frkrdb" in it leads to the creation of the database.
Ping(s) ==
    /\ At(s, "ping")
    /\ IF Opens(name[s]) THEN CheckSucceeds(s)
       ELSE IF server.up /\ name[s] = "frkrdb" THEN Goto(s, "pingDefault")
       ELSE CheckFails(s)
    /\ UNCHANGED <<machineVars, name, historyVars>>

PingDefault(s) ==
    /\ At(s, "pingDefault")
    /\ IF server.up /\ server.default THEN Goto(s, "create") ELSE CheckFails(s)
    /\ UNCHANGED <<machineVars, name, historyVars>>

\* The creation on the server; without an effect if the database is there.
Creates(s) ==
    /\ dbs' = dbs \cup {"frkrdb"}
    /\ creator' = IF "frkrdb" \in dbs THEN creator ELSE creator \cup {s}

\* A database that is there by now is as good as one that was created.  Two
\* seconds are slept away before the first retry.
CreateInCheck(s) ==
    /\ At(s, "create")
    /\ \/ /\ server.up
          /\ Creates(s)
          /\ Becomes(s, [sess[s] EXCEPT !.pc = "retry", !.clock = 2])
       \/ /\ server.up /\ "create" \in Faults
          /\ Creates(s)
          /\ CheckFails(s)
       \/ /\ ~server.up \/ "create" \in Faults
          /\ CheckFails(s)
          /\ UNCHANGED <<dbs, creator>>
    /\ UNCHANGED <<server, usable, schema, name, knew, misread>>

\* Mutant of Retry: when the retries are over the loop is left as if by break.
RetryFallsThrough(s) ==
    /\ At(s, "retry")
    /\ IF \/ Opens(name[s]) /\ sess[s].clock < Timeout
          \/ sess[s].tries + 1 = MaxRetries
       THEN CheckSucceeds(s)
       ELSE Becomes(s, [sess[s] EXCEPT !.tries = @ + 1,
                           !.clock = IF @ < Timeout THEN @ + 1 ELSE @])
    /\ UNCHANGED <<machineVars, name, historyVars>>

\* Mutant of Retry: the retries are not counted.
RetryUncounted(s) ==
    /\ At(s, "retry")
    /\ IF Opens(name[s]) /\ sess[s].clock < Timeout THEN CheckSucceeds(s)
       ELSE Becomes(s, [sess[s] EXCEPT !.clock = IF @ < Timeout THEN @ + 1 ELSE @])
    /\ UNCHANGED <<machineVars, name, historyVars>>

\* Mutant of Retry: one retry too many.
RetryOnceMore(s) ==
    /\ At(s, "retry")
    /\ IF Opens(name[s]) /\ sess[s].clock < Timeout THEN CheckSucceeds(s)
       ELSE IF sess[s].tries = MaxRetries THEN CheckFails(s)
       ELSE Becomes(s, [sess[s] EXCEPT !.tries = @ + 1,
                           !.clock = IF @ < Timeout THEN @ + 1 ELSE @])
    /\ UNCHANGED <<machineVars, name, historyVars>>

\* Once the context has expired every further ping fails.
Retry(s) ==
    /\ At(s, "retry")
    /\ IF Opens(name[s]) /\ sess[s].clock < Timeout THEN CheckSucceeds(s)
       ELSE IF sess[s].tries + 1 = MaxRetries THEN CheckFails(s)
       ELSE Becomes(s, [sess[s] EXCEPT !.tries = @ + 1,
                           !.clock = IF @ < Timeout THEN @ + 1 ELSE @])
    /\ UNCHANGED <<machineVars, name, historyVars>>

-----------------------------------------------------------------------------
(* RunMigrations.                                                          *)

PingTarget(s) ==
    /\ At(s, "pingTarget")
    /\ IF Opens(name[s]) THEN Goto(s, "look") ELSE Ends(s, "unreachable")
    /\ UNCHANGED <<machineVars, name, historyVars>>

\* "/frkrdb" in the URL is replaced by "/defaultdb"; a URL without it stays.
Lobby(s) == IF name[s] = "frkrdb" THEN "defaultdb" ELSE name[s]

\* Mutant of Look: the list of the databases is not looked at.
LookAway(s) ==
    /\ At(s, "look")
    /\ Goto(s, IF Opens(Lobby(s)) THEN "createMissing" ELSE "detect")
    /\ UNCHANGED <<machineVars, name, historyVars>>

\* The list breaks off before frkrdb; nobody asks the rows for their error.
Misreads(s) ==
    /\ "query" \in Faults /\ Opens(Lobby(s)) /\ "frkrdb" \in dbs
    /\ Goto(s, "createMissing")
    /\ misread' = misread \cup {s}

\* What cannot be verified is left alone, but a list that breaks off reads as a
\* list without frkrdb.
Look(s) ==
    /\ At(s, "look")
    /\ \/ /\ Goto(s, IF Opens(Lobby(s)) /\ "frkrdb" \notin dbs THEN "createMissing"
                                                              ELSE "detect")
          /\ UNCHANGED misread
       \/ "query" \in Faults /\ Goto(s, "detect") /\ UNCHANGED misread
       \/ Misreads(s)
    /\ UNCHANGED <<machineVars, name, knew, creator>>

\* Mutant of CreateMissing: the statement is repeated after its success.
CreateMissingRepeats(s) ==
    /\ At(s, "createMissing")
    /\ IF "frkrdb" \in dbs THEN Ends(s, "createFailed") ELSE Goto(s, "createMissing")
    /\ server.up
    /\ dbs' = dbs \cup {"frkrdb"}
    /\ creator' = IF "frkrdb" \in dbs THEN creator ELSE creator \cup {s}
    /\ UNCHANGED <<server, usable, schema, name, knew, misread>>

\* Whoever comes second in a race fails here, with its migrations.  Of a
\* statement that fails the reply alone may be lost.
CreateMissing(s) ==
    /\ At(s, "createMissing")
    /\ \/ /\ server.up
          /\ Creates(s)
          /\ IF "frkrdb" \in dbs THEN Ends(s, "createFailed") ELSE Goto(s, "detect")
       \/ /\ server.up /\ "create" \in Faults
          /\ Creates(s)
          /\ Ends(s, "denied")
       \/ /\ ~server.up \/ "create" \in Faults
          /\ Ends(s, "denied")
          /\ UNCHANGED <<dbs, creator>>
    /\ UNCHANGED <<server, usable, schema, name, knew, misread>>

\* Mutant of DetectDriver: an error of the query reads as "no advisory locks".
DetectDriverEager(s) ==
    /\ At(s, "detect")
    /\ \E answered \in BOOLEAN :
       /\ answered \/ ~server.up \/ "query" \in Faults
       /\ answered => server.up
       /\ Becomes(s, [sess[s] EXCEPT !.pc = "migrate",
                        !.driver = IF answered => server.cockroach
                                   THEN "cockroachdb" ELSE "postgres"])
    /\ UNCHANGED <<machineVars, name, historyVars>>

\* A server without advisory locks is CockroachDB.
DetectDriver(s) ==
    /\ At(s, "detect")
    /\ \E answered \in BOOLEAN :
       /\ answered \/ ~server.up \/ "query" \in Faults
       /\ answered => server.up
       /\ Becomes(s, [sess[s] EXCEPT !.pc = "migrate",
                        !.driver = IF answered /\ server.cockroach
                                   THEN "cockroachdb" ELSE "postgres"])
    /\ UNCHANGED <<machineVars, name, historyVars>>

\* The Postgres driver takes an advisory lock, which CockroachDB has not.
Migrate(s) ==
    /\ At(s, "migrate")
    /\ \/ /\ Opens(name[s])
          /\ server.cockroach => sess[s].driver = "cockroachdb"
          /\ schema' = schema \cup {name[s]}
          /\ Ends(s, "migrated")
       \/ /\ \/ ~Opens(name[s]) \/ "migrate" \in Faults
             \/ server.cockroach /\ sess[s].driver = "postgres"
          /\ Ends(s, "migrationFailed")
          /\ UNCHANGED schema
    /\ UNCHANGED <<server, dbs, usable, name, historyVars>>

-----------------------------------------------------------------------------
\* Another session's clean-up may also take the compose stack down.
ServerSwitches ==
    /\ server' = [server EXCEPT !.up = ~@]
    /\ UNCHANGED <<dbs, usable, schema, name, sess, historyVars>>

BecomesUsable(d) ==
    /\ d \in dbs \ usable
    /\ usable' = usable \cup {d}
    /\ UNCHANGED <<server, dbs, schema, name, sess, historyVars>>

Step(s) ==
    \/ Ping(s) \/ PingDefault(s) \/ CreateInCheck(s) \/ Retry(s)
    \/ PingTarget(s) \/ Look(s) \/ CreateMissing(s) \/ DetectDriver(s) \/ Migrate(s)

AllEnded == \A s \in Sessions : At(s, "ended")
Terminated == AllEnded /\ UNCHANGED vars

Next ==
    \/ \E s \in Sessions : Start(s) \/ Step(s)
    \/ ServerSwitches
    \/ \E d \in Names : BecomesUsable(d)
    \/ Terminated

Spec == Init /\ [][Next]_vars

\* A session runs once it was started, and the calls it makes return.
FairSpec == Spec /\ \A s \in Sessions : WF_vars(Step(s))

-----------------------------------------------------------------------------
(* What holds.                                                             *)

\* A session that has got past the checks works with a database that accepts
\* connections, whichever of the four ways through Check it took.
PastChecks == {"pingTarget", "look", "createMissing", "detect", "migrate"}
CheckedIsUsable == \A s \in Sessions : sess[s].pc \in PastChecks => name[s] \in usable

\* A session that starts when frkrdb is there fails to create it only if its
\* list of the databases broke off: a race is lost once, and running frkrup again
\* gets past it (ensureDatabaseExists).
RerunGetsPastCreation ==
    \A s \in knew : sess[s].outcome = "createFailed" => s \in misread

\* Not everybody loses the race: if every session either lost it, its list of
\* the databases complete, or migrated its database, there is one that has
\* migrated it (ensureDatabaseExists, RunMigrations).
SomeoneMigrates ==
    /\ Sessions # {}
    /\ \A s \in Sessions : \/ sess[s].outcome = "migrated"
                           \/ sess[s].outcome = "createFailed" /\ s \notin misread
    => \E s \in Sessions : sess[s].outcome = "migrated"

\* The databases with the schema are those that the sessions which report their
\* migrations are configured with, no more and no fewer, and each of them was
\* migrated with the driver of the server (RunMigrations).
MigratedAsConfigured ==
    LET Done == {s \in Sessions : sess[s].outcome = "migrated"}
    IN  /\ schema = {name[s] : s \in Done}
        /\ \A s \in Done : server.cockroach <=> sess[s].driver = "cockroachdb"

\* A session that was started ends, whatever the server does.
SessionsEnd == \A s \in Sessions : At(s, "ping") ~> At(s, "ended")
=============================================================================
