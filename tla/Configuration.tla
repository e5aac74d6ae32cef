---------------------------- MODULE Configuration ---------------------------
(***************************************************************************)
(* How the configuration of a run comes about (src/cmd/frkrup): from a     *)
(* file, with defaults and a validation (frkrup_config.go), or from the    *)
(* answers of a dialogue (prompt.go), then the flags and the choice of the *)
(* mode (main.go), and for a cluster the values of the Helm chart          *)
(* (helm.go, generateValuesFile).                                          *)
(*                                                                         *)
(* A field is reduced to what is decided by it: a host name, a registry or *)
(* an issuer is there or not, a database host is the chart's own or        *)
(* another one.  Fields that are only handed on are left out, the path     *)
(* of the migrations among them.                                           *)
(***************************************************************************)
EXTENDS Integers

CONSTANTS
    Files,    \* configuration files
    FlagSets, \* command lines
    Attempts  \* at typing a password twice (3 in the code)

Targets == {"", "local", "k8s", "other"}
Hosts == {"", "localhost", "chart", "elsewhere"}  \* chart: frkr-db, frkr-redpanda
Passwords == {"", "default", "typed", "generated"}
Config == [target : Targets, k8s : BOOLEAN, skipForward : BOOLEAN,
           access : {"", "none", "ingress"}, shared : BOOLEAN, ingest : BOOLEAN,
           streaming : BOOLEAN, secret : BOOLEAN, certManager : BOOLEAN,
           registry : BOOLEAN, rebuild : BOOLEAN, provider : BOOLEAN,
           dbHost : Hosts, brokerHost : Hosts, password : Passwords,
           mock : BOOLEAN, issuer : BOOLEAN, client : BOOLEAN]
Flags == [push : BOOLEAN, rebuild : BOOLEAN, target : Targets, registry : BOOLEAN,
          noForward : BOOLEAN]

ASSUME FilesAssumption == Files \subseteq Config
ASSUME FlagSetsAssumption == FlagSets \subseteq Flags
ASSUME AttemptsAssumption == Attempts \in Nat \ {0}

VARIABLES
    stage,   \* where the process is
    source,  \* "file" or "prompt"
    flags,   \* of the command line
    config,  \* the configuration
    tries,   \* at the password
    values   \* of the chart

vars == <<stage, source, flags, config, tries, values>>

Blank == [target |-> "", k8s |-> FALSE, skipForward |-> FALSE, access |-> "",
          shared |-> FALSE, ingest |-> FALSE, streaming |-> FALSE, secret |-> FALSE,
          certManager |-> FALSE, registry |-> FALSE, rebuild |-> FALSE,
          provider |-> FALSE, dbHost |-> "", brokerHost |-> "", password |-> "",
          mock |-> FALSE, issuer |-> FALSE, client |-> FALSE]

NoValues == [postgres |-> FALSE, redpanda |-> FALSE, password |-> "", registry |-> FALSE,
             pullAlways |-> FALSE, auth |-> "none", audience |-> FALSE, mock |-> FALSE,
             hosts |-> {}, tls |-> FALSE, secret |-> FALSE, certManager |-> FALSE]

Init ==
    /\ stage = "start"
    /\ source \in {"file", "prompt"}
    /\ flags \in FlagSets
    /\ config = Blank
    /\ tries = 0
    /\ values = NoValues

-----------------------------------------------------------------------------
(* From a file.                                                            *)

\* Mutant of ApplyDefaults: the Boolean of an old configuration file is kept.
ApplyDefaultsUnsynced(c) ==
    [c EXCEPT !.target = IF c.target # "" THEN c.target
                         ELSE IF c.k8s THEN "k8s" ELSE "local",
              !.skipForward = c.skipForward \/ c.registry,
              !.dbHost = IF c.dbHost = "" /\ c.k8s THEN "chart" ELSE c.dbHost,
              !.brokerHost = IF c.brokerHost = "" /\ c.k8s THEN "chart" ELSE c.brokerHost]

\* The target decides and `k8s` is derived from it.  Only a cluster has hosts
\* to fall back to; with a registry ports are not forwarded.
ApplyDefaults(c) ==
    LET target == IF c.target # "" THEN c.target ELSE IF c.k8s THEN "k8s" ELSE "local"
        k8s == target = "k8s"
        Host(h) == IF h = "" /\ k8s THEN "chart" ELSE h
    IN [c EXCEPT !.target = target, !.k8s = k8s, !.skipForward = c.skipForward \/ c.registry,
                 !.dbHost = Host(c.dbHost), !.brokerHost = Host(c.brokerHost)]

HostsExclusive(c) ==
    /\ c.shared => ~c.ingest /\ ~c.streaming
    /\ c.ingest = c.streaming

\* Mutant of Valid: nobody asks for the host of the broker.
ValidDatabaseOnly(c) == (~c.k8s => c.dbHost # "") /\ HostsExclusive(c)

Valid(c) ==
    /\ ~c.k8s => c.dbHost # "" /\ c.brokerHost # ""
    /\ HostsExclusive(c)

LoadFile ==
    /\ stage = "start" /\ source = "file"
    /\ \E f \in Files :
          /\ config' = ApplyDefaults(f)
          /\ stage' = IF Valid(config') THEN "flags" ELSE "failed"
    /\ UNCHANGED <<source, flags, tries, values>>

LoadFails ==
    /\ stage = "start" /\ source = "file"
    /\ stage' = "failed"
    /\ UNCHANGED <<source, flags, config, tries, values>>

-----------------------------------------------------------------------------
(* From the answers of the user.                                           *)

Asks(now, next, c) ==
    /\ stage = now
    /\ stage' = next
    /\ config' = c
    /\ UNCHANGED <<source, flags, values>>

AskMode ==
    /\ source = "prompt"
    /\ \E k8s \in BOOLEAN :
          Asks("start", IF k8s THEN "access" ELSE "services", [Blank EXCEPT !.k8s = k8s])
    /\ UNCHANGED tries

\* Forwarded ports, no access from outside, one host or a host per service.  The
\* hosts of the database and the broker are those of forwarded ports.
AskAccess ==
    /\ \E skip \in BOOLEAN, shared \in BOOLEAN, pair \in BOOLEAN, secret \in BOOLEAN :
          /\ shared \/ pair => skip
          /\ ~(shared /\ pair)
          /\ secret => shared \/ pair
          /\ Asks("access", "password",
                  [config EXCEPT !.skipForward = skip,
                                 !.access = IF shared \/ pair THEN "ingress" ELSE "none",
                                 !.shared = shared, !.ingest = pair, !.streaming = pair,
                                 !.secret = secret, !.dbHost = "localhost",
                                 !.brokerHost = "localhost"])
    /\ UNCHANGED tries

\* Mutant of AskPassword: one attempt too many.
AskPasswordOnceMore ==
    \/ Asks("password", "defaults", [config EXCEPT !.password = "typed"]) /\ UNCHANGED tries
    \/ /\ Asks("password", IF tries = Attempts THEN "failed" ELSE "password", config)
       /\ tries' = tries + 1

\* An empty password and two that differ cost an attempt.
AskPassword ==
    \/ Asks("password", "defaults", [config EXCEPT !.password = "typed"]) /\ UNCHANGED tries
    \/ /\ Asks("password", IF tries + 1 = Attempts THEN "failed" ELSE "password", config)
       /\ tries' = tries + 1

\* An answer that is empty stands for localhost and the default password.
AskServices ==
    /\ \E db, broker \in {"localhost", "elsewhere"}, password \in {"default", "typed"},
          mock \in BOOLEAN :
          Asks("services", "defaults",
               [config EXCEPT !.dbHost = db, !.brokerHost = broker,
                              !.password = password, !.mock = mock])
    /\ UNCHANGED tries

\* No host for the ingress, an answer that is no choice, no migrations.
AskFails ==
    /\ stage \in {"access", "services"}
    /\ Asks(stage, "failed", config)
    /\ UNCHANGED tries

\* What was answered gets the defaults but is not validated.
DefaultAnswers == Asks("defaults", "flags", ApplyDefaults(config)) /\ UNCHANGED tries

-----------------------------------------------------------------------------
(* Flags, mode and values.                                                 *)

\* The flags come after the defaults and the validation.
ApplyFlags ==
    /\ stage = "flags"
    /\ config' = [config EXCEPT !.rebuild = @ \/ flags.rebuild,
                    !.target = IF flags.target = "" THEN @ ELSE flags.target,
                    !.k8s = IF flags.target = "" THEN @ ELSE flags.target = "k8s",
                    !.registry = @ \/ flags.registry,
                    !.skipForward = @ \/ flags.noForward]
    /\ stage' = "dispatch"
    /\ UNCHANGED <<source, flags, tries, values>>

\* `push` is for clusters only.
Dispatch ==
    /\ stage = "dispatch"
    /\ stage' = CASE config.k8s /\ flags.push -> "push"
                  [] config.k8s /\ ~flags.push -> "values"
                  [] ~config.k8s /\ flags.push -> "failed"
                  [] OTHER -> "local"
    /\ UNCHANGED <<source, flags, config, tries, values>>

\* The database is deployed with a password, the user's or a new one.
EnsuredPassword ==
    IF config.dbHost = "chart" /\ config.password = "" THEN "generated" ELSE config.password

AuthOf(c) == IF c.issuer THEN "real" ELSE IF c.mock THEN "mock" ELSE "none"

\* The hosts of an ingress are handed on as they are.  A provider takes the
\* place of everything global: registry, pull policy and authentication.
Values ==
    LET ingress == config.access = "ingress"
    IN [postgres |-> config.dbHost = "chart",
        redpanda |-> config.brokerHost = "chart",
        password |-> EnsuredPassword,
        registry |-> config.registry /\ ~config.provider,
        pullAlways |-> config.rebuild /\ ~config.provider,
        auth |-> IF config.provider THEN "none" ELSE AuthOf(config),
        audience |-> config.issuer /\ config.client,
        mock |-> config.mock,
        hosts |-> {h \in {"shared", "ingest", "streaming"} : ingress /\ config[h]},
        tls |-> ingress /\ (config.secret \/ config.certManager),
        secret |-> ingress /\ config.secret,
        certManager |-> config.certManager]

GenerateValues ==
    /\ stage = "values"
    /\ values' = Values
    /\ config' = [config EXCEPT !.password = EnsuredPassword]
    /\ stage' = "k8s"
    /\ UNCHANGED <<source, flags, tries>>

\* No random password, or no file to write the values to.
GenerateValuesFails ==
    /\ stage = "values"
    /\ \E password \in {config.password, EnsuredPassword} :
          config' = [config EXCEPT !.password = password]
    /\ stage' = "failed"
    /\ UNCHANGED <<source, flags, tries, values>>

Over == {"failed", "local", "push", "k8s"}
Terminated == stage \in Over /\ UNCHANGED vars

Next ==
    \/ LoadFile \/ LoadFails
    \/ AskMode \/ AskAccess \/ AskPassword \/ AskServices \/ AskFails \/ DefaultAnswers
    \/ ApplyFlags \/ Dispatch \/ GenerateValues
    \/ GenerateValuesFails
    \/ Terminated

Spec == Init /\ [][Next]_vars

-----------------------------------------------------------------------------
(* What holds.                                                             *)

TypeOK ==
    /\ stage \in {"start", "access", "services", "password", "defaults", "flags",
                  "dispatch", "values"} \cup Over
    /\ source \in {"file", "prompt"}
    /\ flags \in Flags
    /\ config \in Config
    /\ tries \in 0..Attempts

\* Where the two fields that say the same are kept in step.
Settled == stage \in {"flags", "dispatch", "values", "local", "push", "k8s"}

\* The field the code branches on and the one the user sets agree, whichever of
\* them a file has, the answers have or a flag overrides.
ModeFollowsTarget == Settled => (config.k8s <=> config.target = "k8s")

\* The URLs of the database and the broker have a host in every mode, also when
\* a flag turned the one the defaults were made for into the other.
EveryURLHasHost == Settled => config.dbHost # "" /\ config.brokerHost # ""

-----------------------------------------------------------------------------
(* What helm.go:225 says and the code does not do.                         *)

\* "Apply global auth if either Mock or Real is configured".
AuthApplied == stage = "k8s" /\ (config.issuer \/ config.mock) => values.auth # "none"
=============================================================================
