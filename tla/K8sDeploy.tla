------------------------------ MODULE K8sDeploy -----------------------------
(***************************************************************************)
(* Successive runs of `frkrup` in Kubernetes mode against one cluster      *)
(* (src/cmd/frkrup/kubernetes.go, helm.go, main.go).                       *)
(*                                                                         *)
(* A run is sequential, but it may fail or be killed between any two of    *)
(* its steps, and everything it learned is in its memory: which images     *)
(* changed, the password it generated.  The next run starts from what the  *)
(* machine and the cluster kept: the tags of the local Docker, the images  *)
(* the cluster can start, the Helm releases, the Postgres volume.          *)
(*                                                                         *)
(* Versions of images are numbers, 0 for "there is none"; passwords are    *)
(* numbers, 0 for "".  The model has one of the two image settings, a load *)
(* command or a registry, and db_host "frkr-db", the default.              *)
(***************************************************************************)
EXTENDS Integers, Sequences

CONSTANTS
    BuildOrder,   \* the gateways and the operator, in the order they are built
    Found,        \* those whose repository findGatewayRepoPath finds
    Registry,     \* image_registry is set; otherwise image_load_command is
    Providers,    \* whether a run may have a provider: a set of BOOLEANs
    Ingress,      \* external_access is "ingress"
    CertManager,  \* install_cert_manager
    Named,        \* k8s_cluster_name is set
    Switches,     \* someone may switch kubectl's context while frkrup runs
    Ignored,      \* errors the code ignores that may happen: pvcCheck, rollout
    MaxVersion,   \* bound on the edits of the sources
    MaxIssued     \* bound on the passwords that are generated

Images == {BuildOrder[n] : n \in DOMAIN BuildOrder}
Addons == (IF Ingress THEN {"envoy"} ELSE {})
     \cup (IF CertManager THEN {"certManager"} ELSE {})

ASSUME BuildOrderAssumption == BuildOrder \in Seq(STRING)
ASSUME SettingsAssumption == /\ Registry \in BOOLEAN /\ Ingress \in BOOLEAN
                             /\ CertManager \in BOOLEAN /\ Named \in BOOLEAN
                             /\ Switches \in BOOLEAN
                             /\ Providers \subseteq BOOLEAN
ASSUME IgnoredAssumption == Ignored \subseteq {"pvcCheck", "rollout"}
ASSUME BoundsAssumption == MaxVersion \in Nat \ {0} /\ MaxIssued \in Nat

VARIABLES
    pc,         \* where the run is, "idle" between two runs
    kind,       \* plain, with --rebuild, or `frkrup push`
    next,       \* the image in BuildOrder the run is at
    differs,    \* hasChanged of that image
    updated,    \* updatedImages: the images noted as changed
    password,   \* config.DBPassword
    source,     \* the version of each repository
    built,      \* the version behind each local Docker tag
    available,  \* the version a new pod of the cluster gets
    pods,       \* the version each deployment runs
    pulls,      \* the pods of the release pull their image whenever they start
    cached,     \* the versions a node has pulled of each image
    release,    \* the password in the release "frkr", 0 without a release
    disk,       \* the password the Postgres volume was initialised with
    addon,      \* the releases of Envoy Gateway and cert-manager
    context,    \* kubectl's current context
    saved,      \* db_password in frkrup.yaml
    issued,     \* passwords generated so far
    touched,    \* the clusters this run, or the last one, has changed
    outcome,    \* how the last run ended
    missed,     \* images that changed without their deployment (history)
    happened    \* what went wrong unnoticed (history)

runVars     == <<pc, kind, next, differs, updated, password>>
imageVars   == <<source, built, available>>
podVars     == <<pods, pulls, cached>>
clusterVars == <<podVars, release, disk, addon>>
userVars    == <<context, saved>>
historyVars == <<missed, happened>>
vars == <<runVars, imageVars, clusterVars, userVars, issued, touched, outcome,
          historyVars>>

PCs == {"idle", "prerequisites", "cluster", "build", "load", "infraImages",
        "gatewayAPI", "envoy", "envoyInstalls", "certManager",
        "certManagerInstalls", "staleCheck", "values", "upgrade", "restart",
        "waitOperator", "waitInit", "waitDataPlane", "forwarding"}

TypeOK ==
    /\ pc \in PCs
    /\ kind \in {"plain", "rebuild", "push"}
    /\ next \in 1..Len(BuildOrder) + 1
    /\ pc = "load" => next <= Len(BuildOrder)
    /\ differs \in BOOLEAN
    /\ updated \subseteq Images
    /\ password \in 0..MaxIssued
    /\ source \in [Images -> 1..MaxVersion]
    /\ built \in [Images -> 0..MaxVersion]
    /\ available \in [Images -> 0..MaxVersion]
    /\ pods \in [Images -> 0..MaxVersion]
    /\ pulls \in BOOLEAN
    /\ cached \in [Images -> SUBSET (1..MaxVersion)]
    /\ release \in 0..MaxIssued
    /\ disk \in 0..MaxIssued
    /\ pc \in {"upgrade", "restart"} => password # 0
    /\ addon \in [{"envoy", "certManager"} -> {"absent", "unfinished", "deployed"}]
    /\ context \in {"target", "other"}
    /\ saved \in 0..issued
    /\ issued \in 0..MaxIssued
    /\ touched \subseteq {"target", "other"}
    /\ outcome \in {"none", "ok", "failed", "refused", "killed"}
    /\ missed \subseteq Images
    /\ happened \subseteq {"otherCluster", "checkFailed", "switched"}

Init ==
    /\ pc = "idle"
    /\ kind = "plain"
    /\ next = 1
    /\ differs = FALSE
    /\ updated = {}
    /\ password = 0
    /\ source = [i \in Images |-> 1]
    /\ built = [i \in Images |-> 0]
    /\ available = [i \in Images |-> 0]
    /\ pods = [i \in Images |-> 0]
    /\ pulls = FALSE
    /\ cached = [i \in Images |-> {}]
    /\ release = 0
    /\ disk = 0
    /\ addon = [a \in {"envoy", "certManager"} |-> "absent"]
    /\ context \in (IF Switches THEN {"target", "other"} ELSE {"target"})
    /\ saved = 0
    /\ issued = 0
    /\ touched = {}
    /\ outcome = "none"
    /\ missed = {}
    /\ happened = {}

-----------------------------------------------------------------------------
(* The shape of a run.                                                     *)

Goto(from, to) == /\ pc = from
                  /\ pc' = to

RunOnly == UNCHANGED <<kind, next, differs, updated, password, imageVars, clusterVars,
                       userVars, issued, touched, outcome, historyVars>>

\* The memory of the process is gone with it.
Ends(how) ==
    /\ pc' = "idle"
    /\ outcome' = how
    /\ kind' = "plain"
    /\ next' = 1
    /\ differs' = FALSE
    /\ updated' = {}
    /\ password' = 0

\* The changes a run has seen and not yet brought to the deployments.
InHand == updated \cup (IF pc = "load" /\ differs THEN {BuildOrder[next]} ELSE {})

Aborts(how) ==
    /\ Ends(how)
    /\ missed' = missed \cup InHand
    /\ UNCHANGED <<userVars, issued, touched, happened>>

Kinds == {"plain"} \cup (IF Registry THEN {"rebuild", "push"} ELSE {})

Builds == ~Registry \/ kind \in {"rebuild", "push"}

Start(k) ==
    /\ k \in Kinds
    /\ Goto("idle", IF k = "push" THEN "build" ELSE "prerequisites")
    /\ kind' = k
    /\ password' = saved
    /\ touched' = {}
    /\ UNCHANGED <<next, differs, updated, imageVars, clusterVars, userVars, issued,
                   outcome, historyVars>>

\* A command that fails ends the run with an error, one that is waited for
\* included; only these steps have no such command, or ignore its errors.
Fails ==
    /\ pc \notin {"idle", "restart", "waitDataPlane", "forwarding"}
    /\ Aborts("failed")
    /\ UNCHANGED <<imageVars, clusterVars>>

\* No signal is caught before the port forwarding: Ctrl+C ends the process.
Killed ==
    /\ pc \notin {"idle", "forwarding"}
    /\ Aborts("killed")
    /\ UNCHANGED <<imageVars, clusterVars>>

CheckPrerequisites == Goto("prerequisites", "cluster") /\ RunOnly

\* Mutant of DetermineClusterName: a cluster that is configured is not compared.
DetermineClusterNameTrusts ==
    /\ Goto("cluster", IF Builds THEN "build" ELSE "gatewayAPI")
    /\ happened' = happened \ {"switched"}
    /\ UNCHANGED <<kind, next, differs, updated, password, imageVars, clusterVars,
                   userVars, issued, touched, outcome, missed>>

\* The active context must be the configured cluster.
DetermineClusterName ==
    /\ Named => context = "target"
    /\ Goto("cluster", IF Builds THEN "build" ELSE "gatewayAPI")
    /\ happened' = happened \ {"switched"}
    /\ UNCHANGED <<kind, next, differs, updated, password, imageVars, clusterVars,
                   userVars, issued, touched, outcome, missed>>

-----------------------------------------------------------------------------
(* Images.                                                                 *)

\* With a load command a repository that is not found is skipped; in
\* PushImages it is an error (Fails).
SkipsImage ==
    /\ pc = "build"
    /\ next <= Len(BuildOrder)
    /\ ~Registry
    /\ BuildOrder[next] \notin Found
    /\ next' = next + 1
    /\ UNCHANGED <<pc, kind, differs, updated, password, imageVars, clusterVars,
                   userVars, issued, touched, outcome, historyVars>>

\* Mutant of HasChanged: PushImages notes only the images whose id changed.
HasChangedSincePush(i) == built[i] # source[i]

\* The image ids before and after the build are compared; PushImages notes
\* every image.
HasChanged(i) == Registry \/ built[i] # source[i]

BuildImage ==
    /\ next <= Len(BuildOrder)
    /\ Goto("build", "load")
    /\ LET i == BuildOrder[next] IN
       /\ i \in Found
       /\ differs' = HasChanged(i)
       /\ built' = [built EXCEPT ![i] = source[i]]
    /\ UNCHANGED <<kind, next, updated, password, source, available, clusterVars,
                   userVars, issued, touched, outcome, historyVars>>

\* Mutant of LoadImage: the image is noted before it is loaded, but only the
\* last one is kept.
LoadImageForgets ==
    /\ Goto("load", "build")
    /\ LET i == BuildOrder[next] IN
       /\ available' = [available EXCEPT ![i] = built[i]]
       /\ updated' = IF differs THEN {i} ELSE updated
    /\ differs' = FALSE
    /\ next' = next + 1
    /\ UNCHANGED <<kind, password, source, built, clusterVars, userVars, issued,
                   touched, outcome, historyVars>>

\* The load command, or docker push.
LoadImage ==
    /\ Goto("load", "build")
    /\ LET i == BuildOrder[next] IN
       /\ available' = [available EXCEPT ![i] = built[i]]
       /\ updated' = IF differs THEN updated \cup {i} ELSE updated
    /\ differs' = FALSE
    /\ next' = next + 1
    /\ UNCHANGED <<kind, password, source, built, clusterVars, userVars, issued,
                   touched, outcome, historyVars>>

AllBuilt == pc = "build" /\ next > Len(BuildOrder)

\* `frkrup push` is over here.
PushOver ==
    /\ AllBuilt
    /\ kind = "push"
    /\ Ends("ok")
    /\ missed' = missed \cup updated
    /\ UNCHANGED <<imageVars, clusterVars, userVars, issued, touched, happened>>

ImagesReady ==
    /\ AllBuilt
    /\ kind # "push"
    /\ pc' = IF Registry THEN "gatewayAPI" ELSE "infraImages"
    /\ RunOnly

PullAndLoadImages == Goto("infraImages", "gatewayAPI") /\ RunOnly

-----------------------------------------------------------------------------
(* The cluster.                                                            *)

\* Every command goes to the context that is current when it runs.
Touches ==
    /\ touched' = touched \cup {context}
    /\ happened' = IF context = "other" THEN happened \cup {"otherCluster"} ELSE happened

OnTarget == context = "target"

InstallGatewayAPICRDs ==
    /\ Goto("gatewayAPI", "envoy")
    /\ Touches
    /\ UNCHANGED <<kind, next, differs, updated, password, imageVars, clusterVars,
                   userVars, issued, outcome, missed>>

\* kubectl apply may have changed a part of the objects when it fails.
CRDsCutShort ==
    /\ pc = "gatewayAPI"
    /\ \E how \in {"failed", "killed"} : Ends(how)
    /\ missed' = missed \cup updated
    /\ Touches
    /\ UNCHANGED <<imageVars, clusterVars, userVars, issued>>

After == [envoy |-> "certManager", certManager |-> "staleCheck"]
Installing == [envoy |-> "envoyInstalls", certManager |-> "certManagerInstalls"]

SkipsAddon(a) ==
    /\ a \notin Addons
    /\ Goto(a, After[a])
    /\ RunOnly

\* `helm status` finds any release of that name, also one whose installation
\* was cut short; cert-manager must have its CRD in addition.
FindsAddon(a) ==
    /\ a \in Addons
    /\ OnTarget => addon[a] # "absent"
    /\ Goto(a, After[a])
    /\ RunOnly

\* `helm upgrade --install --wait`: the release is there from its start.
InstallStarts(a) ==
    /\ a \in Addons
    /\ OnTarget /\ a = "envoy" => addon[a] = "absent"
    /\ Goto(a, Installing[a])
    /\ addon' = IF OnTarget THEN [addon EXCEPT ![a] = "unfinished"] ELSE addon
    /\ Touches
    /\ UNCHANGED <<kind, next, differs, updated, password, imageVars, podVars, release, disk,
                   userVars, issued, outcome, missed>>

InstallEnds(a) ==
    /\ Goto(Installing[a], After[a])
    /\ addon' = IF OnTarget THEN [addon EXCEPT ![a] = "deployed"] ELSE addon
    /\ Touches
    /\ UNCHANGED <<kind, next, differs, updated, password, imageVars, podVars, release, disk,
                   userVars, issued, outcome, missed>>

-----------------------------------------------------------------------------
(* The chart.                                                              *)

\* A password of the user's is used as it is; a password that is to be
\* generated needs a cluster without a Postgres volume.
StaleDataRefused ==
    /\ pc = "staleCheck"
    /\ password = 0
    /\ OnTarget => disk # 0
    /\ Aborts("refused")
    /\ UNCHANGED <<imageVars, clusterVars>>

\* Mutant of NoStaleData: the check looks for the release, not for the volume.
NoStaleDataByRelease ==
    /\ Goto("staleCheck", "values")
    /\ \/ password # 0 /\ UNCHANGED happened
       \/ password = 0 /\ OnTarget /\ release = 0 /\ UNCHANGED happened
       \/ /\ password = 0
          /\ ~OnTarget
          /\ happened' = happened \cup {"otherCluster"}
       \/ /\ password = 0
          /\ "pvcCheck" \in Ignored
          /\ happened' = happened \cup {"checkFailed"}
    /\ UNCHANGED <<kind, next, differs, updated, password, imageVars, clusterVars,
                   userVars, issued, touched, outcome, missed>>

\* Any failure of `kubectl get pvc` reads as "there is no volume".
NoStaleData ==
    /\ Goto("staleCheck", "values")
    /\ \/ password # 0 /\ UNCHANGED happened
       \/ password = 0 /\ OnTarget /\ disk = 0 /\ UNCHANGED happened
       \/ /\ password = 0
          /\ ~OnTarget
          /\ happened' = happened \cup {"otherCluster"}
       \/ /\ password = 0
          /\ "pvcCheck" \in Ignored
          /\ happened' = happened \cup {"checkFailed"}
    /\ UNCHANGED <<kind, next, differs, updated, password, imageVars, clusterVars,
                   userVars, issued, touched, outcome, missed>>

\* Mutant of GenerateValuesFile: the password stays in a local variable.
GenerateValuesFileLocal ==
    /\ Goto("values", "upgrade")
    /\ IF password # 0
       THEN UNCHANGED <<password, issued>>
       ELSE /\ issued < MaxIssued
            /\ issued' = issued + 1
            /\ UNCHANGED password
    /\ UNCHANGED <<kind, next, differs, updated, imageVars, clusterVars, userVars,
                   touched, outcome, historyVars>>

GenerateValuesFile ==
    /\ Goto("values", "upgrade")
    /\ IF password # 0
       THEN UNCHANGED <<password, issued>>
       ELSE /\ issued < MaxIssued
            /\ issued' = issued + 1
            /\ password' = issued + 1
    /\ UNCHANGED <<kind, next, differs, updated, imageVars, clusterVars, userVars,
                   touched, outcome, historyVars>>

\* The values name the registry and, after a rebuild, the pull policy Always; a
\* provider replaces them both.
PullsAlways(provider) == kind = "rebuild" /\ ~provider

\* What a pod that starts may run.  A load command has put the image on every
\* node; from a registry, without the policy, what a node has of the tag will
\* do, and without the registry's name the old pod may be all there is.
NewPod(i, always) ==
    IF Registry /\ ~always THEN cached[i] \cup {pods[i], available[i]} ELSE {available[i]}

Caches == cached' = [i \in Images |-> IF Registry THEN cached[i] \cup ({pods'[i]} \ {0})
                                                  ELSE cached[i]]

\* A deployment that is there keeps its pods; a volume that is there keeps the
\* password it has.
FirstPods(chosen, always) ==
    {new \in [Images -> 0..MaxVersion] :
       \A i \in Images : IF pods[i] = 0 /\ i \in chosen THEN new[i] \in NewPod(i, always)
                                                       ELSE new[i] = pods[i]}

VolumeWith(p) == IF disk = 0 THEN p ELSE disk

HelmUpgrade ==
    /\ Goto("upgrade", "restart")
    /\ IF OnTarget
       THEN \E provider \in Providers :
            /\ release' = password
            /\ disk' = VolumeWith(password)
            /\ pulls' = PullsAlways(provider)
            /\ pods' \in FirstPods(Images, PullsAlways(provider))
            /\ Caches
       ELSE UNCHANGED <<release, disk, podVars>>
    /\ Touches
    /\ UNCHANGED <<kind, next, differs, updated, password, imageVars, addon, userVars,
                   issued, outcome, missed>>

\* An upgrade that fails or is killed may have changed a part of the objects;
\* only a policy that old and new ones share is one to rely on.
HelmUpgradeCutShort ==
    /\ pc = "upgrade"
    /\ \E how \in {"failed", "killed"} : Ends(how)
    /\ missed' = missed \cup updated
    /\ IF OnTarget
       THEN \E provider \in Providers, chosen \in SUBSET Images :
            /\ release' = password
            /\ disk' \in {disk, VolumeWith(password)}
            /\ pulls' = (pulls /\ PullsAlways(provider))
            /\ pods' \in FirstPods(chosen, pulls /\ PullsAlways(provider))
            /\ Caches
       ELSE UNCHANGED <<release, disk, podVars>>
    /\ Touches
    /\ UNCHANGED <<imageVars, addon, userVars, issued>>

\* kubectl rollout restart, in the order the map is ranged over.  The new pod is
\* sure of the new image only if it pulls, or if the image was loaded.
RestartDeployment(i) ==
    /\ pc = "restart"
    /\ i \in updated
    /\ updated' = updated \ {i}
    /\ \/ /\ OnTarget
          /\ \E v \in (IF release = 0 THEN {0} ELSE NewPod(i, pulls)) :
             /\ pods' = [pods EXCEPT ![i] = v]
             /\ missed' = IF v \in {0, available[i]} THEN missed \ {i} ELSE missed \cup {i}
          /\ Caches
       \/ /\ OnTarget => "rollout" \in Ignored
          /\ missed' = missed \cup {i}
          /\ UNCHANGED <<pods, cached>>
    /\ Touches
    /\ UNCHANGED <<pc, kind, next, differs, password, imageVars, pulls, release, disk, addon,
                   userVars, issued, outcome>>

RestartsDone ==
    /\ updated = {}
    /\ Goto("restart", "waitOperator")
    /\ RunOnly

OperatorAvailable == Goto("waitOperator", "waitInit") /\ RunOnly
InitReady         == Goto("waitInit", "waitDataPlane") /\ RunOnly

\* A data plane that is not ready in time is only warned about.  A registry
\* disables the port forwarding.
DataPlaneWaitedFor ==
    /\ pc = "waitDataPlane"
    /\ IF Registry
       THEN Ends("ok")
       ELSE /\ pc' = "forwarding"
            /\ UNCHANGED <<kind, next, differs, updated, password, outcome>>
    /\ UNCHANGED <<imageVars, clusterVars, userVars, issued, touched, historyVars>>

ForwardingInterrupted ==
    /\ pc = "forwarding"
    /\ Ends("ok")
    /\ UNCHANGED <<imageVars, clusterVars, userVars, issued, touched, historyVars>>

-----------------------------------------------------------------------------
(* The user and the cluster between the steps.                             *)

EditSource(i) ==
    /\ source[i] < MaxVersion
    /\ source' = [source EXCEPT ![i] = @ + 1]
    /\ UNCHANGED <<runVars, built, available, clusterVars, userVars, issued, touched,
                   outcome, historyVars>>

\* Helm reads the context when it starts.
SwitchContext ==
    /\ Switches
    /\ pc \notin {Installing[a] : a \in DOMAIN Installing}
    /\ context' \in {"target", "other"} \ {context}
    /\ happened' = happened \cup {"switched"}
    /\ UNCHANGED <<runVars, imageVars, clusterVars, saved, issued, touched, outcome, missed>>

\* The user writes the password the last run printed to frkrup.yaml.
SavePassword ==
    /\ pc = "idle"
    /\ saved # issued
    /\ saved' = issued
    /\ UNCHANGED <<runVars, imageVars, clusterVars, context, issued, touched, outcome,
                   historyVars>>

\* helm uninstall frkr leaves the volume of the stateful set.
Uninstall ==
    /\ pc = "idle"
    /\ release # 0
    /\ release' = 0
    /\ pods' = [i \in Images |-> 0]
    /\ pulls' = FALSE
    /\ missed' = missed \ {i \in Images : built[i] = available[i]}
    /\ UNCHANGED <<runVars, imageVars, cached, disk, addon, userVars, issued, touched, outcome,
                   happened>>

\* A volume is deleted only when no pod uses it.
DeleteVolume ==
    /\ pc = "idle"
    /\ release = 0
    /\ disk # 0
    /\ disk' = 0
    /\ UNCHANGED <<runVars, imageVars, podVars, release, addon, userVars, issued, touched,
                   outcome, historyVars>>

\* A pod is recreated, maybe on another node.
PodRestarts(i) ==
    /\ release # 0
    /\ \E v \in NewPod(i, pulls) \ {pods[i]} :
       /\ pods' = [pods EXCEPT ![i] = v]
       /\ missed' = IF v = available[i] /\ built[i] = available[i] THEN missed \ {i}
                                                                 ELSE missed
    /\ Caches
    /\ UNCHANGED <<runVars, imageVars, pulls, release, disk, addon, userVars, issued, touched,
                   outcome, happened>>

-----------------------------------------------------------------------------
Run ==
    \/ CheckPrerequisites \/ DetermineClusterName
    \/ SkipsImage \/ BuildImage \/ LoadImage \/ PushOver \/ ImagesReady
    \/ PullAndLoadImages \/ InstallGatewayAPICRDs \/ CRDsCutShort
    \/ \E a \in {"envoy", "certManager"} :
          SkipsAddon(a) \/ FindsAddon(a) \/ InstallStarts(a) \/ InstallEnds(a)
    \/ StaleDataRefused \/ NoStaleData \/ GenerateValuesFile
    \/ HelmUpgrade \/ HelmUpgradeCutShort
    \/ \E i \in Images : RestartDeployment(i)
    \/ RestartsDone \/ OperatorAvailable \/ InitReady \/ DataPlaneWaitedFor

User ==
    \/ \E k \in {"plain", "rebuild", "push"} : Start(k)
    \/ Killed \/ ForwardingInterrupted
    \/ \E i \in Images : EditSource(i)
    \/ SwitchContext \/ SavePassword \/ Uninstall \/ DeleteVolume

Next == Run \/ Fails \/ User \/ \E i \in Images : PodRestarts(i)

Spec == Init /\ [][Next]_vars

-----------------------------------------------------------------------------
(* What holds.                                                             *)

Noted(events) == events \cap happened # {}
Outdated(i) == pods[i] \notin {0, available[i]}

\* With a load command a deployment runs another version than the cluster has
\* for it only while the change is in the hands of a run, or because the run
\* that saw the change ended, or its rollout failed, before the restart: there
\* is no other way to lose a change (buildAndLoadImage, installHelmChart).  With
\* a registry a pod may also start what its node has of the tag.
OutdatedOnlyIfMissed ==
    ~Registry => \A i \in Images : Outdated(i) => i \in missed \cup InHand

\* PushImages notes every image, so one --rebuild run that gets as far as the
\* readiness checks makes up for all changes earlier runs have lost, provided
\* that the pods pull: a provider throws the pull policy away that the rebuild
\* has put into the values (PushImages, generateValuesFile, installHelmChart).
RebuildCatchesUp ==
    /\ pc = "waitOperator"
    /\ kind = "rebuild"
    /\ pulls
    /\ "rollout" \notin Ignored
    /\ ~Noted({"otherCluster"})
    => \A i \in Images : ~Outdated(i)

\* The gateways' password is the one Postgres was initialised with, whatever
\* runs failed or were killed, whatever was uninstalled, deleted and saved in
\* between, as long as `kubectl get pvc` asked the right cluster and worked.
CredentialsMatch ==
    /\ ~Noted({"checkFailed", "otherCluster"})
    /\ release # 0
    /\ disk # 0
    => release = disk

\* With k8s_cluster_name set, a run changes another cluster only if someone
\* switched the context after determineClusterName had compared it.
StrayOnlyAfterSwitch == Named /\ "other" \in touched => Noted({"switched"})
=============================================================================
