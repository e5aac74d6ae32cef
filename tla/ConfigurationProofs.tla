------------------------- MODULE ConfigurationProofs ------------------------
(***************************************************************************)
(* The invariants of Configuration, for any files and command lines.       *)
(***************************************************************************)
EXTENDS Configuration, TLAPS

\* The answers name a host for the database and the broker before they get the
\* defaults: nothing validates them afterwards.
Answered ==
    /\ stage \in {"password", "defaults"} => config.dbHost # "" /\ config.brokerHost # ""
    /\ stage \in {"start", "access", "password"} => tries < Attempts

IInv == TypeOK /\ Answered /\ ModeFollowsTarget /\ EveryURLHasHost

-----------------------------------------------------------------------------
LEMMA BlankTyped == Blank \in Config
  BY DEF Blank, Config, Targets, Hosts, Passwords

\* What the defaults make of a configuration.
LEMMA Defaults ==
    ASSUME NEW c \in Config
    PROVE  LET d == ApplyDefaults(c)
           IN /\ d \in Config
              /\ d.k8s <=> d.target = "k8s"
              /\ c.dbHost # "" \/ d.k8s => d.dbHost # ""
              /\ c.brokerHost # "" \/ d.k8s => d.brokerHost # ""
  <1> DEFINE target == IF c.target # "" THEN c.target ELSE IF c.k8s THEN "k8s" ELSE "local"
             k8s == target = "k8s"
             skip == c.skipForward \/ c.registry
             Host(h) == IF h = "" /\ k8s THEN "chart" ELSE h
             db == Host(c.dbHost)
             broker == Host(c.brokerHost)
  <1>1. /\ target \in Targets /\ k8s \in BOOLEAN /\ skip \in BOOLEAN
        /\ db \in Hosts /\ broker \in Hosts
    BY DEF Config, Targets, Hosts
  <1>2. /\ k8s <=> target = "k8s"
        /\ c.dbHost # "" \/ k8s => db # ""
        /\ c.brokerHost # "" \/ k8s => broker # ""
    OBVIOUS
  <1>3. ApplyDefaults(c) = [c EXCEPT !.target = target, !.k8s = k8s, !.skipForward = skip,
                                     !.dbHost = db, !.brokerHost = broker]
    BY DEF ApplyDefaults
  <1> HIDE DEF target, k8s, skip, Host, db, broker
  <1>4. ApplyDefaults(c) \in Config
    BY <1>1, <1>3 DEF Config
  <1>5. /\ ApplyDefaults(c).target = target /\ ApplyDefaults(c).k8s = k8s
        /\ ApplyDefaults(c).dbHost = db /\ ApplyDefaults(c).brokerHost = broker
    BY <1>1, <1>3 DEF Config
  <1> QED BY <1>2, <1>4, <1>5

\* Between the first question and the defaults no configuration is in use.
LEMMA DialogueInv ==
    ASSUME IInv, AskMode \/ AskAccess \/ AskPassword \/ AskServices \/ AskFails
    PROVE  IInv'
  <1>2. config' \in Config
    <2>1. config \in Config
      BY DEF IInv, TypeOK
    <2>2. CASE AskMode
      BY BlankTyped, <2>2 DEF AskMode, Asks, Config
    <2>3. CASE AskAccess
      <3>1. PICK skip \in BOOLEAN, shared \in BOOLEAN, pair \in BOOLEAN, secret \in BOOLEAN,
                 access \in {"ingress", "none"} :
               config' = [config EXCEPT !.skipForward = skip, !.access = access,
                                 !.shared = shared, !.ingest = pair, !.streaming = pair,
                                 !.secret = secret, !.dbHost = "localhost",
                                 !.brokerHost = "localhost"]
        BY <2>3 DEF AskAccess, Asks
      <3> DEFINE half == [config EXCEPT !.skipForward = skip, !.access = access,
                                        !.shared = shared, !.ingest = pair]
      <3>2. half \in Config
        BY <2>1, <3>1 DEF Config
      <3>3. config' = [half EXCEPT !.streaming = pair, !.secret = secret,
                                   !.dbHost = "localhost", !.brokerHost = "localhost"]
        BY <3>1
      <3> HIDE DEF half
      <3> QED BY <3>2, <3>3 DEF Config, Hosts
    <2>4. CASE AskPassword
      BY <2>1, <2>4 DEF AskPassword, Asks, Config, Passwords
    <2>5. CASE AskServices
      <3>1. PICK db, broker \in {"localhost", "elsewhere"}, password \in {"default", "typed"},
                 mock \in BOOLEAN :
               config' = [config EXCEPT !.dbHost = db, !.brokerHost = broker,
                                        !.password = password, !.mock = mock]
        BY <2>5 DEF AskServices, Asks
      <3>2. db \in Hosts /\ broker \in Hosts /\ password \in Passwords
        BY DEF Hosts, Passwords
      <3> QED BY <2>1, <3>1, <3>2 DEF Config
    <2>6. CASE AskFails
      BY <2>1, <2>6 DEF AskFails, Asks
    <2> QED BY <2>2, <2>3, <2>4, <2>5, <2>6
  <1>3. tries' \in 0..Attempts
    <2>1. tries \in 0..Attempts /\ (stage = "password" => tries < Attempts)
      BY DEF IInv, TypeOK, Answered
    <2>2. tries' = tries \/ (stage = "password" /\ tries' = tries + 1)
      BY DEF AskMode, AskAccess, AskPassword, AskServices, AskFails, Asks
    <2> QED BY <2>1, <2>2, AttemptsAssumption
  <1>4. stage' \in {"access", "services", "password", "defaults", "failed"}
    BY DEF AskMode, AskAccess, AskPassword, AskServices, AskFails, Asks
  <1>5. source' = source /\ flags' = flags
    BY DEF AskMode, AskAccess, AskPassword, AskServices, AskFails, Asks
  <1>6. TypeOK'
    BY <1>2, <1>3, <1>4, <1>5 DEF IInv, TypeOK, Over
  <1>7. Answered'
    <2>1. config \in Config /\ Answered /\ tries \in 0..Attempts
      BY DEF IInv, TypeOK
    <2>2. CASE AskMode \/ AskFails
      BY <2>1, <2>2 DEF AskMode, AskFails, Asks, Answered
    <2>3. CASE AskAccess
      <3>1. config'.dbHost = "localhost" /\ config'.brokerHost = "localhost"
        BY <2>1, <2>3 DEF AskAccess, Asks, Config
      <3> QED BY <2>1, <2>3, <3>1 DEF AskAccess, Asks, Answered
    <2>4. CASE AskPassword
      <3>1. config'.dbHost = config.dbHost /\ config'.brokerHost = config.brokerHost
        BY <2>1, <2>4 DEF AskPassword, Asks, Config
      <3>2. stage' = "password" => tries + 1 # Attempts /\ tries' = tries + 1
        BY <2>4 DEF AskPassword, Asks
      <3>3. stage = "password" /\ stage' \in {"password", "defaults", "failed"}
        BY <2>4 DEF AskPassword, Asks
      <3>4. stage' = "password" => tries' < Attempts
        <4>1. tries < Attempts
          BY <2>1, <3>3 DEF Answered
        <4>2. tries \in Nat /\ Attempts \in Nat
          BY <2>1, AttemptsAssumption
        <4> QED BY <3>2, <4>1, <4>2
      <3> QED BY <2>1, <3>1, <3>3, <3>4 DEF Answered
    <2>5. CASE AskServices
      <3>1. config'.dbHost # "" /\ config'.brokerHost # ""
        BY <2>1, <2>5 DEF AskServices, Asks, Config
      <3> QED BY <2>5, <3>1 DEF AskServices, Asks, Answered
    <2> QED BY <2>2, <2>3, <2>4, <2>5
  <1> QED BY <1>4, <1>6, <1>7
          DEF IInv, Settled, ModeFollowsTarget, EveryURLHasHost

LEMMA LoadFileInv == ASSUME IInv, LoadFile PROVE IInv'
  <1>1. PICK f \in Files : config' = ApplyDefaults(f)
                           /\ stage' = IF Valid(config') THEN "flags" ELSE "failed"
    BY DEF LoadFile
  <1>2. /\ config' \in Config
        /\ config'.k8s <=> config'.target = "k8s"
        /\ f.dbHost # "" \/ config'.k8s => config'.dbHost # ""
        /\ f.brokerHost # "" \/ config'.k8s => config'.brokerHost # ""
    BY <1>1, Defaults, FilesAssumption
  <1>3. Valid(config') => config'.k8s \/ (config'.dbHost # "" /\ config'.brokerHost # "")
    BY DEF Valid
  <1>4. TypeOK'
    BY <1>1, <1>2 DEF LoadFile, IInv, TypeOK, Over
  <1> QED BY <1>1, <1>2, <1>3, <1>4
          DEF IInv, Answered, Settled, ModeFollowsTarget, EveryURLHasHost

LEMMA DefaultAnswersInv == ASSUME IInv, DefaultAnswers PROVE IInv'
  <1>1. /\ config' \in Config
        /\ config'.k8s <=> config'.target = "k8s"
        /\ config'.dbHost # "" /\ config'.brokerHost # ""
    BY Defaults DEF DefaultAnswers, Asks, IInv, TypeOK, Answered
  <1>2. TypeOK'
    BY <1>1 DEF DefaultAnswers, Asks, IInv, TypeOK, Over
  <1> QED BY <1>1, <1>2 DEF DefaultAnswers, Asks, IInv, Answered, Settled, ModeFollowsTarget,
                            EveryURLHasHost

\* A flag sets both fields of the mode, and no host.
LEMMA ApplyFlagsInv == ASSUME IInv, ApplyFlags PROVE IInv'
  <1>1. config \in Config /\ flags \in Flags /\ stage = "flags" /\ stage' = "dispatch"
    BY DEF ApplyFlags, IInv, TypeOK
  <1>2. /\ config'.dbHost = config.dbHost /\ config'.brokerHost = config.brokerHost
        /\ config'.target = IF flags.target = "" THEN config.target ELSE flags.target
        /\ config'.k8s = IF flags.target = "" THEN config.k8s ELSE flags.target = "k8s"
    BY <1>1 DEF ApplyFlags, Config
  <1>3. config' \in Config
    <2>1. ASSUME NEW c \in Config, NEW t \in Targets, NEW k \in BOOLEAN, NEW r \in BOOLEAN,
                 NEW i \in BOOLEAN, NEW p \in BOOLEAN
          PROVE  [c EXCEPT !.rebuild = r, !.target = t, !.k8s = k, !.registry = i,
                           !.skipForward = p] \in Config
      BY DEF Config
    <2>2. PICK t \in Targets, k \in BOOLEAN, r \in BOOLEAN, i \in BOOLEAN, p \in BOOLEAN :
             config' = [config EXCEPT !.rebuild = r, !.target = t, !.k8s = k, !.registry = i,
                                      !.skipForward = p]
      BY <1>1 DEF ApplyFlags, Config, Flags
    <2> QED BY <1>1, <2>1, <2>2
  <1>4. TypeOK'
    BY <1>1, <1>3 DEF ApplyFlags, IInv, TypeOK
  <1> QED BY <1>1, <1>2, <1>4 DEF IInv, Answered, Settled, ModeFollowsTarget, EveryURLHasHost

LEMMA DispatchInv == ASSUME IInv, Dispatch PROVE IInv'
  <1>1. stage = "dispatch" /\ stage' \in {"push", "values", "failed", "local"}
    BY DEF Dispatch, IInv, TypeOK, Config, Flags
  <1> QED BY <1>1 DEF Dispatch, IInv, TypeOK, Over, Answered, Settled, ModeFollowsTarget,
                      EveryURLHasHost

\* Of the configuration only the password changes with the values.
LEMMA GenerateInv == ASSUME IInv, GenerateValues \/ GenerateValuesFails PROVE IInv'
  <1>1. config \in Config /\ stage = "values"
    BY DEF GenerateValues, GenerateValuesFails, IInv, TypeOK
  <1>2. EnsuredPassword \in Passwords /\ config.password \in Passwords
    BY <1>1 DEF EnsuredPassword, Config, Passwords
  <1>3. PICK password \in Passwords : config' = [config EXCEPT !.password = password]
    BY <1>2 DEF GenerateValues, GenerateValuesFails
  <1>4. /\ config' \in Config
        /\ config'.k8s = config.k8s /\ config'.target = config.target
        /\ config'.dbHost = config.dbHost /\ config'.brokerHost = config.brokerHost
    BY <1>1, <1>3 DEF Config
  <1>5. TypeOK'
    BY <1>4 DEF GenerateValues, GenerateValuesFails, IInv, TypeOK, Over
  <1>6. CASE GenerateValues
    BY <1>1, <1>4, <1>5, <1>6 DEF GenerateValues, IInv, Answered, Settled,
                                  ModeFollowsTarget, EveryURLHasHost
  <1>7. CASE GenerateValuesFails
    BY <1>5, <1>7 DEF GenerateValuesFails, IInv, Answered, Settled, ModeFollowsTarget,
                      EveryURLHasHost
  <1> QED BY <1>6, <1>7

LEMMA Invariance == Spec => []IInv
  <1>1. Init => IInv
    <2>1. ASSUME Init PROVE TypeOK
      BY <2>1, BlankTyped, FlagSetsAssumption, AttemptsAssumption DEF Init, TypeOK
    <2> QED BY <2>1, AttemptsAssumption DEF Init, IInv, Answered, Settled, Over, ModeFollowsTarget, EveryURLHasHost
  <1>2. IInv /\ [Next]_vars => IInv'
    <2> SUFFICES ASSUME IInv, [Next]_vars PROVE IInv'
      OBVIOUS
    <2>1. CASE UNCHANGED vars
      BY <2>1 DEF vars, IInv, TypeOK, Answered, Settled, ModeFollowsTarget, EveryURLHasHost
    <2>2. CASE LoadFails
      BY <2>2 DEF LoadFails, IInv, TypeOK, Over, Answered, Settled, ModeFollowsTarget,
                  EveryURLHasHost
    <2> QED BY <2>1, <2>2, DialogueInv, LoadFileInv, DefaultAnswersInv, ApplyFlagsInv,
               DispatchInv, GenerateInv DEF Next, Terminated
  <1> QED BY <1>1, <1>2, PTL DEF Spec

-----------------------------------------------------------------------------
(* The results.                                                            *)

\* Every variable has its type.
THEOREM TypeCorrect == Spec => []TypeOK
  <1>1. IInv => TypeOK
    BY DEF IInv
  <1> QED BY <1>1, Invariance, PTL

\* Whatever file, answers and flags there are, the mode the code branches on is the
\* target of the user (applyDefaults, main.go).
THEOREM ModeIsTarget == Spec => []ModeFollowsTarget
  <1>1. IInv => ModeFollowsTarget
    BY DEF IInv
  <1> QED BY <1>1, Invariance, PTL

\* No mode is entered with a URL that has no host, although the flags come after
\* the validation and the answers are not validated.
THEOREM URLsHaveHosts == Spec => []EveryURLHasHost
  <1>1. IInv => EveryURLHasHost
    BY DEF IInv
  <1> QED BY <1>1, Invariance, PTL
=============================================================================
