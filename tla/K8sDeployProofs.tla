--------------------------- MODULE K8sDeployProofs --------------------------
(***************************************************************************)
(* What holds of successive deployments, for every list of images, every   *)
(* setting, every set of ignored errors and every bound.                   *)
(*                                                                         *)
(* Each property has a strengthening of its own: Credentials, Losses,      *)
(* Rebuilds, Strays and Versions.  They share the types and nothing else.  *)
(***************************************************************************)
EXTENDS K8sDeploy, FiniteSets, FiniteSetTheorems, TLAPS

\* There is one password at a time: the last one that was generated is the one
\* in the file, in the run and on the volume, wherever there is one.  Until the
\* file has it no run has one of its own, and a run that is to generate one has
\* seen that there is no volume.
Credentials ==
    /\ saved \in {0, issued}
    /\ password \in {0, issued}
    /\ pc # "idle" /\ saved # 0 => password # 0
    /\ ~Noted({"checkFailed", "otherCluster"}) =>
          /\ disk \in {0, issued}
          /\ release # 0 /\ disk # 0 => release = disk
          /\ pc = "values" /\ password = 0 => disk = 0

\* A change is lost in two places: between the build and the cluster, and
\* between the cluster and the deployment.
Losses ==
    /\ OutdatedOnlyIfMissed
    /\ \A i \in Images : built[i] # available[i] => i \in missed \cup InHand
    /\ \A i \in updated : built[i] = available[i] \/ (pc = "load" /\ i = BuildOrder[next])
    /\ pc \in {"waitOperator", "waitInit", "waitDataPlane", "forwarding"} => updated = {}

BeforeRestart == PCs \ {"restart", "waitOperator", "waitInit", "waitDataPlane", "forwarding"}
ImagesDone == BeforeRestart \ {"idle", "prerequisites", "cluster", "build", "load"}

\* With a registry every image that was built is noted, and a run with
\* --rebuild has built all of them before it goes to the cluster.
Rebuilds ==
    /\ kind # "plain" => Registry
    /\ pc = "idle" => kind = "plain"
    /\ kind = "push" => pc \in {"build", "load"}
    /\ Registry /\ pc = "load" => differs
    /\ Registry /\ pc \in BeforeRestart =>
          \A n \in 1..Len(BuildOrder) : n < next => BuildOrder[n] \in updated
    /\ kind = "rebuild" /\ pc \in ImagesDone => next = Len(BuildOrder) + 1
    /\ /\ kind = "rebuild" /\ pc \in {"restart", "waitOperator"}
       /\ "rollout" \notin Ignored /\ ~Noted({"otherCluster"}) /\ pulls
       => \A i \in Images \ updated : ~Outdated(i)

\* A run that is past the comparison of the context is on another cluster only
\* after a switch, and a run that is before it, or pushes, has touched none.
Strays ==
    /\ StrayOnlyAfterSwitch
    /\ pc = "idle" => kind = "plain"
    /\ kind = "push" => pc \in {"build", "load"}
    /\ pc \in {"prerequisites", "cluster"} \/ kind = "push" => touched = {}
    /\ /\ Named /\ context = "other" /\ kind # "push"
       /\ pc \notin {"idle", "prerequisites", "cluster"}
       => Noted({"switched"})

-----------------------------------------------------------------------------
(* Types.                                                                  *)

USE SettingsAssumption, IgnoredAssumption, BoundsAssumption

LEMMA OrderOfImages ==
    /\ Len(BuildOrder) \in Nat
    /\ \A n \in 1..Len(BuildOrder) : BuildOrder[n] \in Images
    /\ \A i \in Images : \E n \in 1..Len(BuildOrder) : i = BuildOrder[n]
  BY BuildOrderAssumption DEF Images


USE DEF Goto, RunOnly, Ends, Aborts, Touches, OnTarget, Noted, runVars, imageVars,
        podVars, clusterVars, userVars, historyVars, Caches

LEMMA InitType == Init => TypeOK
  <1> SUFFICES ASSUME Init PROVE TypeOK
    OBVIOUS
  <1>1. /\ 1 \in 1..Len(BuildOrder) + 1
        /\ [i \in Images |-> 1] \in [Images -> 1..MaxVersion]
        /\ [i \in Images |-> 0] \in [Images -> 0..MaxVersion]
        /\ [i \in Images |-> {}] \in [Images -> SUBSET (1..MaxVersion)]
        /\ [a \in {"envoy", "certManager"} |-> "absent"]
             \in [{"envoy", "certManager"} -> {"absent", "unfinished", "deployed"}]
    BY OrderOfImages
  <1>2. /\ next \in 1..Len(BuildOrder) + 1
        /\ source \in [Images -> 1..MaxVersion]
        /\ built \in [Images -> 0..MaxVersion] /\ available \in [Images -> 0..MaxVersion]
        /\ pods \in [Images -> 0..MaxVersion] /\ pulls \in BOOLEAN
        /\ cached \in [Images -> SUBSET (1..MaxVersion)]
        /\ addon \in [{"envoy", "certManager"} -> {"absent", "unfinished", "deployed"}]
    BY <1>1 DEF Init
  <1>3. /\ pc = "idle" /\ kind = "plain" /\ differs \in BOOLEAN /\ updated = {} /\ missed = {}
        /\ password = 0 /\ release = 0 /\ disk = 0 /\ saved = 0 /\ issued = 0
        /\ context \in {"target", "other"} /\ touched = {} /\ outcome = "none" /\ happened = {}
    BY DEF Init
  <1> QED BY <1>2, <1>3 DEF TypeOK, PCs

\* What nodes have pulled are versions.
LEMMA CachesType ==
    ASSUME TypeOK, pods' \in [Images -> 0..MaxVersion], Caches
    PROVE  cached' \in [Images -> SUBSET (1..MaxVersion)]
  <1>1. ASSUME NEW i \in Images
        PROVE  (IF Registry THEN cached[i] \cup ({pods'[i]} \ {0}) ELSE cached[i])
                 \in SUBSET (1..MaxVersion)
    <2>1. cached[i] \in SUBSET (1..MaxVersion) /\ pods'[i] \in 0..MaxVersion
      BY DEF TypeOK
    <2> QED BY <2>1
  <1> QED BY <1>1

\* What a new pod may run is a version.
LEMMA NewPodType ==
    ASSUME TypeOK, NEW i \in Images, NEW always \in BOOLEAN
    PROVE  NewPod(i, always) \subseteq 0..MaxVersion
  <1>1. /\ cached[i] \subseteq 0..MaxVersion
        /\ pods[i] \in 0..MaxVersion /\ available[i] \in 0..MaxVersion
    BY DEF TypeOK
  <1> QED BY <1>1 DEF NewPod

\* First pods change only deployments that have none.
LEMMA FirstPodsType ==
    ASSUME NEW chosen \in SUBSET Images, NEW always \in BOOLEAN,
           pods' \in FirstPods(chosen, always)
    PROVE  /\ pods' \in [Images -> 0..MaxVersion]
           /\ \A i \in Images : \/ pods'[i] = pods[i]
                                \/ pods[i] = 0 /\ pods'[i] \in NewPod(i, always)
  BY DEF FirstPods

LEMMA PolicyType ==
    ASSUME TypeOK, NEW provider \in Providers
    PROVE  PullsAlways(provider) \in BOOLEAN /\ (pulls /\ PullsAlways(provider)) \in BOOLEAN
  BY DEF PullsAlways, TypeOK

\* Both ways an upgrade leaves the pods.
LEMMA UpgradeOfPods ==
    ASSUME TypeOK, HelmUpgrade \/ HelmUpgradeCutShort
    PROVE  /\ pods' \in [Images -> 0..MaxVersion] /\ pulls' \in BOOLEAN
           /\ \A i \in Images : \/ pods'[i] = pods[i]
                                \/ pods[i] = 0 /\ pods'[i] \in NewPod(i, pulls')
           /\ Caches \/ UNCHANGED <<pods, cached>>
           /\ release' = release \/ release' = password
           /\ pods' = pods \/ release' = password
  <1>1. CASE ~OnTarget
    BY <1>1 DEF HelmUpgrade, HelmUpgradeCutShort, TypeOK
  <1>2. CASE OnTarget /\ HelmUpgrade
    <2>1. PICK provider \in Providers :
             /\ release' = password
             /\ pulls' = PullsAlways(provider)
             /\ pods' \in FirstPods(Images, PullsAlways(provider))
             /\ Caches
      BY <1>2 DEF HelmUpgrade
    <2> QED BY <2>1, FirstPodsType, PolicyType
  <1>3. CASE OnTarget /\ HelmUpgradeCutShort
    <2>1. PICK provider \in Providers, chosen \in SUBSET Images :
             /\ release' = password
             /\ pulls' = (pulls /\ PullsAlways(provider))
             /\ pods' \in FirstPods(chosen, pulls /\ PullsAlways(provider))
             /\ Caches
      BY <1>3 DEF HelmUpgradeCutShort
    <2>2. PICK always \in BOOLEAN : pulls' = always /\ pods' \in FirstPods(chosen, always)
      BY <2>1, PolicyType
    <2> QED BY <2>1, <2>2, FirstPodsType
  <1> QED BY <1>1, <1>2, <1>3

\* Steps of a run that move on and leave the rest alone, or decide to.
LEMMA MovesOn ==
    ASSUME TypeOK,
           \/ CheckPrerequisites \/ DetermineClusterName \/ PullAndLoadImages
           \/ ImagesReady \/ RestartsDone \/ OperatorAvailable \/ InitReady
           \/ InstallGatewayAPICRDs \/ NoStaleData
           \/ \E a \in {"envoy", "certManager"} :
                 SkipsAddon(a) \/ FindsAddon(a) \/ InstallStarts(a) \/ InstallEnds(a)
    PROVE  TypeOK'
  <1> USE DEF TypeOK, PCs
  <1>1. CASE CheckPrerequisites \/ PullAndLoadImages \/ OperatorAvailable \/ InitReady
    BY <1>1 DEF CheckPrerequisites, PullAndLoadImages, OperatorAvailable, InitReady
  <1>2. CASE DetermineClusterName
    BY <1>2 DEF DetermineClusterName
  <1>3. CASE ImagesReady \/ RestartsDone
    BY <1>3 DEF ImagesReady, AllBuilt, RestartsDone
  <1>4. CASE InstallGatewayAPICRDs
    BY <1>4 DEF InstallGatewayAPICRDs
  <1>5. CASE NoStaleData
    BY <1>5 DEF NoStaleData
  <1>6. ASSUME NEW a \in {"envoy", "certManager"},
               SkipsAddon(a) \/ FindsAddon(a) \/ InstallStarts(a) \/ InstallEnds(a)
        PROVE  TypeOK'
    <2>1. CASE SkipsAddon(a) \/ FindsAddon(a)
      <3>1. pc' \in {"certManager", "staleCheck"}
        BY <1>6, <2>1 DEF SkipsAddon, FindsAddon, After
      <3> QED BY <2>1, <3>1 DEF SkipsAddon, FindsAddon
    <2>2. ASSUME NEW how \in {"unfinished", "deployed"},
                 addon' = IF OnTarget THEN [addon EXCEPT ![a] = how] ELSE addon
          PROVE  addon' \in [{"envoy", "certManager"} -> {"absent", "unfinished", "deployed"}]
      BY <2>2
    <2>3. CASE InstallStarts(a)
      <3>1. pc' \in PCs \ {"load", "upgrade", "restart"}
        BY <1>6, <2>3 DEF InstallStarts, Installing
      <3> QED BY <2>2, <2>3, <3>1 DEF InstallStarts
    <2>4. CASE InstallEnds(a)
      <3>1. pc' \in PCs \ {"load", "upgrade", "restart"}
        BY <1>6, <2>4 DEF InstallEnds, After
      <3> QED BY <2>2, <2>4, <3>1 DEF InstallEnds
    <2> QED BY <1>6, <2>1, <2>3, <2>4
  <1> QED BY <1>1, <1>2, <1>3, <1>4, <1>5, <1>6

\* What is left of a run.
OverAndDone ==
    /\ pc' = "idle" /\ kind' = "plain" /\ next' \in 1..Len(BuildOrder) + 1
    /\ differs' \in BOOLEAN /\ updated' = {} /\ password' = 0
    /\ outcome' \in {"none", "ok", "failed", "refused", "killed"}

LEMMA EndsForgets ==
    ASSUME NEW how \in {"ok", "failed", "refused", "killed"}, Ends(how)
    PROVE  OverAndDone
  <1>1. differs' \in BOOLEAN
    OBVIOUS
  <1>2. next' \in 1..Len(BuildOrder) + 1
    BY OrderOfImages
  <1> QED BY <1>1, <1>2 DEF OverAndDone

\* Steps that work on images, passwords and the chart.
LEMMA Works ==
    ASSUME TypeOK,
           \/ SkipsImage \/ BuildImage \/ LoadImage \/ GenerateValuesFile \/ HelmUpgrade
           \/ DataPlaneWaitedFor
           \/ \E i \in Images : RestartDeployment(i)
    PROVE  TypeOK'
  <1> USE DEF TypeOK, PCs
  <1>1. CASE SkipsImage
    BY <1>1, OrderOfImages DEF SkipsImage
  <1>2. CASE BuildImage
    <2>1. BuildOrder[next] \in Images /\ source[BuildOrder[next]] \in 0..MaxVersion
      BY <1>2, OrderOfImages DEF BuildImage
    <2>2. built' \in [Images -> 0..MaxVersion]
      BY <1>2, <2>1 DEF BuildImage
    <2>3. differs' \in BOOLEAN
      BY <1>2 DEF BuildImage, HasChanged
    <2> QED BY <1>2, <2>2, <2>3 DEF BuildImage
  <1>3. CASE LoadImage
    <2>1. next \in 1..Len(BuildOrder) /\ BuildOrder[next] \in Images
      BY <1>3, OrderOfImages DEF LoadImage
    <2>2. available' \in [Images -> 0..MaxVersion]
      BY <1>3, <2>1 DEF LoadImage
    <2>3. updated' \subseteq Images /\ differs' \in BOOLEAN
      BY <1>3, <2>1 DEF LoadImage
    <2>4. next' \in 1..Len(BuildOrder) + 1
      BY <1>3, <2>1, OrderOfImages DEF LoadImage
    <2> QED BY <1>3, <2>2, <2>3, <2>4 DEF LoadImage
  <1>4. CASE GenerateValuesFile
    BY <1>4 DEF GenerateValuesFile
  <1>5. CASE HelmUpgrade
    <2>1. VolumeWith(password) \in 0..MaxIssued
      BY DEF VolumeWith
    <2>2. /\ pods' \in [Images -> 0..MaxVersion] /\ pulls' \in BOOLEAN
          /\ cached' \in [Images -> SUBSET (1..MaxVersion)]
      BY <1>5, UpgradeOfPods, CachesType
    <2> QED BY <1>5, <2>1, <2>2 DEF HelmUpgrade
  <1>6. CASE DataPlaneWaitedFor
    <2>1. CASE Registry
      <3>1. OverAndDone
        BY <1>6, <2>1, EndsForgets DEF DataPlaneWaitedFor
      <3> QED BY <1>6, <3>1 DEF DataPlaneWaitedFor, OverAndDone
    <2>2. CASE ~Registry
      BY <1>6, <2>2 DEF DataPlaneWaitedFor
    <2> QED BY <2>1, <2>2
  <1>7. ASSUME NEW i \in Images, RestartDeployment(i) PROVE TypeOK'
    <2>1. CASE UNCHANGED <<pods, cached>> /\ missed' = missed \cup {i}
      BY <1>7, <2>1 DEF RestartDeployment
    <2>2. CASE Caches /\ missed' \subseteq Images
               /\ \E v \in (IF release = 0 THEN {0} ELSE NewPod(i, pulls)) :
                     pods' = [pods EXCEPT ![i] = v]
      <3>1. (IF release = 0 THEN {0} ELSE NewPod(i, pulls)) \subseteq 0..MaxVersion
        BY NewPodType
      <3>2. pods' \in [Images -> 0..MaxVersion]
        BY <2>2, <3>1
      <3>3. cached' \in [Images -> SUBSET (1..MaxVersion)]
        BY <2>2, <3>2, CachesType
      <3> QED BY <1>7, <2>2, <3>2, <3>3 DEF RestartDeployment
    <2>3. ASSUME NEW v, missed' = IF v \in {0, available[i]} THEN missed \ {i}
                                                         ELSE missed \cup {i}
          PROVE  missed' \subseteq Images
      BY <2>3
    <2> QED BY <1>7, <2>1, <2>2, <2>3 DEF RestartDeployment
  <1> QED BY <1>1, <1>2, <1>3, <1>4, <1>5, <1>6, <1>7

\* Steps that end a run.
LEMMA IsOver ==
    ASSUME TypeOK,
           \/ PushOver \/ CRDsCutShort \/ StaleDataRefused \/ HelmUpgradeCutShort
           \/ Fails \/ Killed \/ ForwardingInterrupted
    PROVE  TypeOK'
  <1> USE DEF TypeOK, PCs, OverAndDone
  <1>1. \A how \in {"ok", "failed", "refused", "killed"} : Ends(how) => OverAndDone
    BY EndsForgets
  <1>2. InHand \subseteq Images
    BY OrderOfImages DEF InHand
  <1> HIDE DEF Ends
  <1>3. CASE PushOver \/ ForwardingInterrupted
    <2>1. OverAndDone
      BY <1>1, <1>3 DEF PushOver, ForwardingInterrupted
    <2>2. missed' \subseteq Images
      BY <1>3 DEF PushOver, ForwardingInterrupted
    <2>3. UNCHANGED <<imageVars, clusterVars, userVars, issued, touched, happened>>
      BY <1>3 DEF PushOver, ForwardingInterrupted
    <2> QED BY <2>1, <2>2, <2>3
  <1>4. CASE StaleDataRefused \/ Fails \/ Killed
    <2>1. OverAndDone /\ missed' \subseteq Images
      BY <1>1, <1>2, <1>4 DEF StaleDataRefused, Fails, Killed
    <2>2. UNCHANGED <<imageVars, clusterVars, userVars, issued, touched, happened>>
      BY <1>4 DEF StaleDataRefused, Fails, Killed
    <2> QED BY <2>1, <2>2
  <1>5. CASE CRDsCutShort
    BY <1>1, <1>5 DEF CRDsCutShort
  <1>6. CASE HelmUpgradeCutShort
    <2>1. VolumeWith(password) \in 0..MaxIssued
      BY DEF VolumeWith
    <2>2. disk' \in 0..MaxIssued /\ release' \in 0..MaxIssued
      BY <1>6, <2>1 DEF HelmUpgradeCutShort
    <2>3. /\ pods' \in [Images -> 0..MaxVersion] /\ pulls' \in BOOLEAN
          /\ cached' \in [Images -> SUBSET (1..MaxVersion)]
      BY <1>6, UpgradeOfPods, CachesType
    <2>4. UNCHANGED <<imageVars, addon, userVars, issued>> /\ missed' \subseteq Images
      BY <1>6 DEF HelmUpgradeCutShort
    <2>5. /\ touched' \subseteq {"target", "other"}
          /\ happened' \subseteq {"otherCluster", "checkFailed", "switched"}
      BY <1>6 DEF HelmUpgradeCutShort
    <2>6. OverAndDone
      BY <1>1, <1>6 DEF HelmUpgradeCutShort
    <2> QED BY <2>2, <2>3, <2>4, <2>5, <2>6
  <1> QED BY <1>3, <1>4, <1>5, <1>6

\* The user and the cluster.
LEMMA Outside ==
    ASSUME TypeOK,
           \/ \E k \in {"plain", "rebuild", "push"} : Start(k)
           \/ \E i \in Images : EditSource(i) \/ PodRestarts(i)
           \/ SwitchContext \/ SavePassword \/ Uninstall \/ DeleteVolume
    PROVE  TypeOK'
  <1> USE DEF TypeOK, PCs
  <1>1. ASSUME NEW k \in {"plain", "rebuild", "push"}, Start(k) PROVE TypeOK'
    BY <1>1 DEF Start
  <1>2. ASSUME NEW i \in Images, EditSource(i) \/ PodRestarts(i) PROVE TypeOK'
    <2>1. CASE EditSource(i)
      <3>1. source' \in [Images -> 1..MaxVersion]
        BY <2>1 DEF EditSource
      <3> QED BY <2>1, <3>1 DEF EditSource
    <2>2. CASE PodRestarts(i)
      <3>1. pods' \in [Images -> 0..MaxVersion]
        BY <1>2, <2>2, NewPodType DEF PodRestarts
      <3>2. cached' \in [Images -> SUBSET (1..MaxVersion)]
        BY <2>2, <3>1, CachesType DEF PodRestarts
      <3>3. missed' \subseteq Images
        BY <2>2 DEF PodRestarts
      <3>4. UNCHANGED <<runVars, imageVars, pulls, release, disk, addon, userVars, issued,
                        touched, outcome, happened>>
        BY <2>2 DEF PodRestarts
      <3> QED BY <3>1, <3>2, <3>3, <3>4
    <2> QED BY <1>2, <2>1, <2>2
  <1>3. CASE SwitchContext \/ SavePassword
    <2>1. CASE SwitchContext
      <3>1. /\ context' \in {"target", "other"}
            /\ happened' \subseteq {"otherCluster", "checkFailed", "switched"}
        BY <2>1 DEF SwitchContext
      <3> QED BY <2>1, <3>1 DEF SwitchContext
    <2>2. CASE SavePassword
      BY <2>2 DEF SavePassword
    <2> QED BY <1>3, <2>1, <2>2
  <1>4. CASE Uninstall
    <2>1. [i \in Images |-> 0] \in [Images -> 0..MaxVersion]
      OBVIOUS
    <2>2. missed' \subseteq Images /\ pulls' \in BOOLEAN
      BY <1>4 DEF Uninstall
    <2> QED BY <1>4, <2>1, <2>2 DEF Uninstall
  <1>5. CASE DeleteVolume
    BY <1>5 DEF DeleteVolume
  <1> QED BY <1>1, <1>2, <1>3, <1>4, <1>5

\* The variables of the deployment keep their types (the whole of kubernetes.go's
\* Setup, PushImages and installHelmChart), for every setting and bound.
THEOREM TypeCorrect == Spec => []TypeOK
  <1>1. TypeOK /\ [Next]_vars => TypeOK'
    <2> SUFFICES ASSUME TypeOK, [Next]_vars PROVE TypeOK'
      OBVIOUS
    <2>1. CASE Next
      BY <2>1, MovesOn, Works, IsOver, Outside DEF Next, Run, User
    <2>2. CASE UNCHANGED vars
      BY <2>2 DEF vars, TypeOK
    <2> QED BY <2>1, <2>2
  <1> QED BY InitType, <1>1, PTL DEF Spec

-----------------------------------------------------------------------------
(* Passwords.                                                              *)

\* Most steps have nothing to do with passwords.
LEMMA KeepsPasswords ==
    ASSUME TypeOK,
           \/ CheckPrerequisites \/ DetermineClusterName \/ SkipsImage \/ BuildImage
           \/ LoadImage \/ ImagesReady \/ PullAndLoadImages \/ InstallGatewayAPICRDs
           \/ \E a \in {"envoy", "certManager"} :
                 SkipsAddon(a) \/ FindsAddon(a) \/ InstallStarts(a) \/ InstallEnds(a)
           \/ \E i \in Images : RestartDeployment(i) \/ EditSource(i) \/ PodRestarts(i)
           \/ RestartsDone \/ OperatorAvailable \/ InitReady \/ SwitchContext
    PROVE  /\ UNCHANGED <<saved, issued, password, disk, release>>
           /\ pc' = pc \/ (pc # "idle" /\ pc' \notin {"idle", "values"})
           /\ happened \ {"switched"} \subseteq happened'
  <1>1. CASE \/ CheckPrerequisites \/ DetermineClusterName \/ SkipsImage \/ BuildImage
             \/ LoadImage \/ ImagesReady \/ PullAndLoadImages \/ InstallGatewayAPICRDs
    BY <1>1 DEF CheckPrerequisites, DetermineClusterName, SkipsImage, BuildImage, LoadImage,
                ImagesReady, AllBuilt, PullAndLoadImages, InstallGatewayAPICRDs
  <1>2. CASE RestartsDone \/ OperatorAvailable \/ InitReady \/ SwitchContext
    BY <1>2 DEF RestartsDone, OperatorAvailable, InitReady, SwitchContext
  <1>3. ASSUME NEW a \in {"envoy", "certManager"},
               SkipsAddon(a) \/ FindsAddon(a) \/ InstallStarts(a) \/ InstallEnds(a)
        PROVE  /\ UNCHANGED <<saved, issued, password, disk, release>>
               /\ pc # "idle" /\ pc' \notin {"idle", "values"}
               /\ happened \ {"switched"} \subseteq happened'
    BY <1>3 DEF SkipsAddon, FindsAddon, InstallStarts, InstallEnds, After, Installing
  <1>4. ASSUME NEW i \in Images, RestartDeployment(i) \/ EditSource(i) \/ PodRestarts(i)
        PROVE  UNCHANGED <<saved, issued, password, disk, release, pc>>
               /\ happened \ {"switched"} \subseteq happened'
    BY <1>4 DEF RestartDeployment, EditSource, PodRestarts
  <1> QED BY <1>1, <1>2, <1>3, <1>4

LEMMA CredentialsKept == ASSUME TypeOK, Credentials, [Next]_vars PROVE Credentials'
  <1> USE DEF Credentials, TypeOK
  <1>1. CASE /\ UNCHANGED <<saved, issued, password, disk, release>>
             /\ pc' = pc \/ (pc # "idle" /\ pc' \notin {"idle", "values"})
             /\ happened \ {"switched"} \subseteq happened'
    BY <1>1
  <1>2. CASE \/ PushOver \/ CRDsCutShort \/ StaleDataRefused \/ Fails \/ Killed
             \/ DataPlaneWaitedFor \/ ForwardingInterrupted
    BY <1>2 DEF PushOver, AllBuilt, CRDsCutShort, StaleDataRefused, Fails, Killed,
                DataPlaneWaitedFor, ForwardingInterrupted
  <1>3. CASE NoStaleData
    BY <1>3 DEF NoStaleData
  <1>4. CASE GenerateValuesFile
    BY <1>4 DEF GenerateValuesFile
  <1>5. CASE HelmUpgrade
    BY <1>5 DEF HelmUpgrade, VolumeWith
  <1>6. CASE HelmUpgradeCutShort
    BY <1>6 DEF HelmUpgradeCutShort, VolumeWith
  <1>7. ASSUME NEW k \in {"plain", "rebuild", "push"}, Start(k) PROVE Credentials'
    BY <1>7 DEF Start
  <1>8. CASE SavePassword \/ Uninstall \/ DeleteVolume
    BY <1>8 DEF SavePassword, Uninstall, DeleteVolume
  <1>9. CASE UNCHANGED vars
    BY <1>9 DEF vars
  <1> QED BY <1>1, <1>2, <1>3, <1>4, <1>5, <1>6, <1>7, <1>8, <1>9, KeepsPasswords
          DEF Next, Run, User

\* The password the gateways are deployed with is the one Postgres knows
\* (installHelmChart, generateValuesFile): no number of runs, cut short anywhere,
\* and no order of uninstalling, deleting and saving makes them differ.
THEOREM PasswordsMatch == Spec => []CredentialsMatch
  <1>1. Init => Credentials
    BY DEF Init, Credentials
  <1>2. Credentials => CredentialsMatch
    BY DEF Credentials, CredentialsMatch
  <1> QED BY <1>1, <1>2, TypeCorrect, CredentialsKept, PTL DEF Spec

-----------------------------------------------------------------------------
(* Contexts.                                                               *)

LEMMA StraysKept == ASSUME TypeOK, Strays, [Next]_vars PROVE Strays'
  <1> USE DEF Strays, StrayOnlyAfterSwitch, TypeOK, PCs
  <1>1. CASE \/ CheckPrerequisites \/ DetermineClusterName \/ SkipsImage \/ BuildImage
             \/ LoadImage \/ ImagesReady \/ PullAndLoadImages
    BY <1>1 DEF CheckPrerequisites, DetermineClusterName, SkipsImage, BuildImage, LoadImage,
                ImagesReady, AllBuilt, PullAndLoadImages
  <1>2. CASE \/ PushOver \/ StaleDataRefused \/ Fails \/ Killed \/ DataPlaneWaitedFor
             \/ ForwardingInterrupted \/ CRDsCutShort \/ HelmUpgradeCutShort
    BY <1>2 DEF PushOver, AllBuilt, StaleDataRefused, Fails, Killed, DataPlaneWaitedFor,
                ForwardingInterrupted, CRDsCutShort, HelmUpgradeCutShort
  <1>3. CASE InstallGatewayAPICRDs \/ NoStaleData \/ GenerateValuesFile \/ HelmUpgrade
    BY <1>3 DEF InstallGatewayAPICRDs, NoStaleData, GenerateValuesFile, HelmUpgrade
  <1>4. ASSUME NEW a \in {"envoy", "certManager"},
               SkipsAddon(a) \/ FindsAddon(a) \/ InstallStarts(a) \/ InstallEnds(a)
        PROVE  Strays'
    <2>1. /\ pc \in {a, Installing[a]} /\ pc' \in {"staleCheck", "certManager", Installing[a]}
          /\ Installing[a] \in {"envoyInstalls", "certManagerInstalls"}
      BY <1>4 DEF SkipsAddon, FindsAddon, InstallStarts, InstallEnds, After, Installing
    <2> QED BY <1>4, <2>1 DEF SkipsAddon, FindsAddon, InstallStarts, InstallEnds
  <1>5. ASSUME NEW i \in Images, RestartDeployment(i) \/ EditSource(i) \/ PodRestarts(i)
        PROVE  Strays'
    BY <1>5 DEF RestartDeployment, EditSource, PodRestarts
  <1>6. CASE RestartsDone \/ OperatorAvailable \/ InitReady
    BY <1>6 DEF RestartsDone, OperatorAvailable, InitReady
  <1>7. ASSUME NEW k \in {"plain", "rebuild", "push"}, Start(k) PROVE Strays'
    BY <1>7 DEF Start
  <1>8. CASE SwitchContext \/ SavePassword \/ Uninstall \/ DeleteVolume \/ UNCHANGED vars
    BY <1>8 DEF SwitchContext, SavePassword, Uninstall, DeleteVolume, vars
  <1> QED BY <1>1, <1>2, <1>3, <1>4, <1>5, <1>6, <1>7, <1>8 DEF Next, Run, User

\* With k8s_cluster_name set, a run changes another cluster only after a switch
\* of the context that came behind the comparison (determineClusterName).
THEOREM StraysFollowSwitches == Spec => []StrayOnlyAfterSwitch
  <1>1. Init => Strays
    BY DEF Init, Strays, StrayOnlyAfterSwitch
  <1>2. Strays => StrayOnlyAfterSwitch
    BY DEF Strays
  <1> QED BY <1>1, <1>2, TypeCorrect, StraysKept, PTL DEF Spec

-----------------------------------------------------------------------------
(* Changes.                                                                *)

LEMMA LossesKept == ASSUME TypeOK, Losses, [Next]_vars PROVE Losses'
  <1> USE DEF Losses, OutdatedOnlyIfMissed, Outdated, InHand
  <1>1. CASE SkipsImage
    BY <1>1 DEF SkipsImage
  <1>2. CASE BuildImage
    BY <1>2 DEF BuildImage, HasChanged, TypeOK
  <1>3. CASE LoadImage
    <2> DEFINE loaded == BuildOrder[next]
    <2>1. /\ pc = "load" /\ pc' = "build" /\ UNCHANGED <<built, pods, missed>>
          /\ updated' = IF differs THEN updated \cup {loaded} ELSE updated
          /\ InHand' = updated' /\ InHand = updated'
      BY <1>3 DEF LoadImage
    <2>2. \A i \in Images : available'[i] = IF i = loaded THEN built[i] ELSE available[i]
      BY <1>3 DEF LoadImage, TypeOK
    <2> HIDE DEF loaded, InHand
    <2>3. OutdatedOnlyIfMissed'
      <3> SUFFICES ASSUME ~Registry, NEW i \in Images, pods[i] # 0, pods[i] # available'[i]
                   PROVE  i \in missed \cup updated'
        BY <2>1
      <3> QED BY <2>1, <2>2
    <2>4. \A i \in Images : built'[i] # available'[i] => i \in missed' \cup InHand'
      BY <2>1, <2>2
    <2>5. \A i \in updated' : built'[i] = available'[i]
      <3>1. updated' \subseteq Images
        BY <2>1, OrderOfImages DEF TypeOK, loaded
      <3> QED BY <2>1, <2>2, <3>1 DEF loaded
    <2> QED BY <2>1, <2>3, <2>4, <2>5
  <1>4. CASE \/ CheckPrerequisites \/ DetermineClusterName \/ ImagesReady
             \/ PullAndLoadImages \/ InstallGatewayAPICRDs \/ NoStaleData
             \/ GenerateValuesFile
    BY <1>4 DEF CheckPrerequisites, DetermineClusterName, ImagesReady, AllBuilt,
                PullAndLoadImages, InstallGatewayAPICRDs, NoStaleData, GenerateValuesFile
  <1>5. ASSUME NEW a \in {"envoy", "certManager"},
               SkipsAddon(a) \/ FindsAddon(a) \/ InstallStarts(a) \/ InstallEnds(a)
        PROVE  Losses'
    BY <1>5 DEF SkipsAddon, FindsAddon, InstallStarts, InstallEnds, After, Installing
  <1>6. CASE HelmUpgrade
    <2>1. ~Registry => \A i \in Images : pods'[i] \in {pods[i], available[i]}
      BY <1>6, UpgradeOfPods DEF NewPod
    <2> QED BY <1>6, <2>1 DEF HelmUpgrade
  <1>7. CASE PushOver \/ CRDsCutShort
    BY <1>7 DEF PushOver, AllBuilt, CRDsCutShort
  <1>16. CASE HelmUpgradeCutShort
    <2>1. ~Registry => \A i \in Images : pods'[i] \in {pods[i], available[i]}
      BY <1>16, UpgradeOfPods DEF NewPod
    <2> QED BY <1>16, <2>1 DEF HelmUpgradeCutShort
  <1>8. CASE StaleDataRefused \/ Fails \/ Killed
    BY <1>8 DEF StaleDataRefused, Fails, Killed
  <1>9. CASE DataPlaneWaitedFor \/ ForwardingInterrupted
    BY <1>9 DEF DataPlaneWaitedFor, ForwardingInterrupted
  <1>10. ASSUME NEW i \in Images, RestartDeployment(i) PROVE Losses'
    <2>1. PICK v \in (IF release = 0 THEN {0} ELSE NewPod(i, pulls)) \cup {pods[i]} :
             /\ pods' = [pods EXCEPT ![i] = v]
             /\ \/ missed' = missed \ {i} /\ v \in {0, available[i]}
                \/ missed' = missed \cup {i}
      BY <1>10 DEF RestartDeployment, TypeOK
    <2>2. /\ pc = "restart" /\ pc' = pc /\ i \in updated /\ updated' = updated \ {i}
          /\ UNCHANGED <<next, differs, built, available>>
      BY <1>10 DEF RestartDeployment
    <2> QED BY <2>1, <2>2 DEF TypeOK
  <1>11. CASE RestartsDone \/ OperatorAvailable \/ InitReady
    BY <1>11 DEF RestartsDone, OperatorAvailable, InitReady
  <1>12. ASSUME NEW i \in Images, EditSource(i) \/ PodRestarts(i) PROVE Losses'
    <2>1. CASE EditSource(i)
      BY <2>1 DEF EditSource
    <2>2. CASE PodRestarts(i)
      <3>1. PICK v \in NewPod(i, pulls) :
               /\ pods' = [pods EXCEPT ![i] = v]
               /\ \/ missed' = missed \ {i} /\ v = available[i] /\ built[i] = available[i]
                  \/ missed' = missed
        BY <2>2 DEF PodRestarts
      <3>2. UNCHANGED <<runVars, imageVars>>
        BY <2>2 DEF PodRestarts
      <3>3. ~Registry => v = available[i]
        BY DEF NewPod
      <3> QED BY <3>1, <3>2, <3>3 DEF TypeOK
    <2> QED BY <1>12, <2>1, <2>2
  <1>13. ASSUME NEW k \in {"plain", "rebuild", "push"}, Start(k) PROVE Losses'
    BY <1>13 DEF Start
  <1>14. CASE Uninstall
    BY <1>14 DEF Uninstall
  <1>15. CASE SwitchContext \/ SavePassword \/ DeleteVolume \/ UNCHANGED vars
    BY <1>15 DEF SwitchContext, SavePassword, DeleteVolume, vars
  <1> QED BY <1>1, <1>2, <1>3, <1>4, <1>5, <1>6, <1>7, <1>8, <1>9, <1>10, <1>11, <1>12,
             <1>13, <1>14, <1>15, <1>16 DEF Next, Run, User

\* A deployment that is not at the version the cluster has for it is in the
\* hands of the run or was missed by one that ended early (buildAndLoadImage,
\* PushImages, installHelmChart).
THEOREM OutdatedIsMissed == Spec => []OutdatedOnlyIfMissed
  <1>1. Init => Losses
    BY DEF Init, Losses, OutdatedOnlyIfMissed, Outdated
  <1>2. Losses => OutdatedOnlyIfMissed
    BY DEF Losses
  <1> QED BY <1>1, <1>2, TypeCorrect, LossesKept, PTL DEF Spec

LEMMA RebuildsKept == ASSUME TypeOK, Rebuilds, [Next]_vars PROVE Rebuilds'
  <1> USE DEF Rebuilds, BeforeRestart, ImagesDone, PCs
  <1>1. CASE SkipsImage
    BY <1>1 DEF SkipsImage
  <1>2. CASE BuildImage
    BY <1>2 DEF BuildImage, HasChanged
  <1>3. CASE LoadImage
    BY <1>3, OrderOfImages DEF LoadImage, TypeOK
  <1>4. CASE ImagesReady
    BY <1>4, OrderOfImages DEF ImagesReady, AllBuilt, TypeOK
  <1>5. CASE \/ CheckPrerequisites \/ DetermineClusterName \/ PullAndLoadImages
             \/ InstallGatewayAPICRDs \/ NoStaleData \/ GenerateValuesFile
    BY <1>5 DEF CheckPrerequisites, DetermineClusterName, PullAndLoadImages, Builds,
                InstallGatewayAPICRDs, NoStaleData, GenerateValuesFile
  <1>6. ASSUME NEW a \in {"envoy", "certManager"},
               SkipsAddon(a) \/ FindsAddon(a) \/ InstallStarts(a) \/ InstallEnds(a)
        PROVE  Rebuilds'
    BY <1>6 DEF SkipsAddon, FindsAddon, InstallStarts, InstallEnds, After, Installing
  <1>7. CASE HelmUpgrade
    <2>1. pc = "upgrade" /\ pc' = "restart" /\ UNCHANGED <<kind, next, differs, updated>>
      BY <1>7 DEF HelmUpgrade
    <2>2. ASSUME kind = "rebuild" PROVE Images \subseteq updated
      <3>1. \A n \in 1..Len(BuildOrder) : BuildOrder[n] \in updated
        BY <2>1, <2>2, OrderOfImages
      <3> QED BY <3>1, OrderOfImages
    <2> QED BY <2>1, <2>2
  <1>8. CASE \/ PushOver \/ StaleDataRefused \/ Fails \/ Killed \/ DataPlaneWaitedFor
             \/ ForwardingInterrupted \/ CRDsCutShort \/ HelmUpgradeCutShort
    BY <1>8 DEF PushOver, AllBuilt, StaleDataRefused, Fails, Killed, DataPlaneWaitedFor,
                ForwardingInterrupted, CRDsCutShort, HelmUpgradeCutShort
  <1>9. ASSUME NEW i \in Images, RestartDeployment(i) PROVE Rebuilds'
    <2>1. /\ pc = "restart" /\ pc' = pc /\ updated' = updated \ {i}
          /\ UNCHANGED <<kind, next, differs, pulls, available>>
      BY <1>9 DEF RestartDeployment
    <2>2. \A j \in Images \ {i} : pods'[j] = pods[j]
      BY <1>9 DEF RestartDeployment, TypeOK
    <2>3. \/ Noted({"otherCluster"})' \/ "rollout" \in Ignored
          \/ pulls => pods'[i] \in {0, available[i]}
      BY <1>9 DEF RestartDeployment, NewPod, TypeOK
    <2>4. happened \subseteq happened'
      BY <1>9 DEF RestartDeployment
    <2> QED BY <2>1, <2>2, <2>3, <2>4 DEF Outdated
  <1>10. CASE RestartsDone \/ OperatorAvailable \/ InitReady
    BY <1>10 DEF RestartsDone, OperatorAvailable, InitReady, Outdated
  <1>11. ASSUME NEW i \in Images, EditSource(i) \/ PodRestarts(i) PROVE Rebuilds'
    <2>1. CASE EditSource(i)
      BY <2>1 DEF EditSource, Outdated
    <2>2. CASE PodRestarts(i)
      <3>1. PICK v \in NewPod(i, pulls) : pods' = [pods EXCEPT ![i] = v]
        BY <2>2 DEF PodRestarts
      <3>2. UNCHANGED <<runVars, imageVars, pulls, happened>>
        BY <2>2 DEF PodRestarts
      <3>3. pulls => v = available[i]
        BY DEF NewPod
      <3> QED BY <3>1, <3>2, <3>3 DEF Outdated, TypeOK
    <2> QED BY <1>11, <2>1, <2>2
  <1>12. ASSUME NEW k \in {"plain", "rebuild", "push"}, Start(k) PROVE Rebuilds'
    BY <1>12 DEF Start, Kinds
  <1>13. CASE \/ SwitchContext \/ SavePassword \/ Uninstall \/ DeleteVolume
              \/ UNCHANGED vars
    BY <1>13 DEF SwitchContext, SavePassword, Uninstall, DeleteVolume, Outdated, vars
  <1> QED BY <1>1, <1>2, <1>3, <1>4, <1>5, <1>6, <1>7, <1>8, <1>9, <1>10, <1>11, <1>12,
             <1>13 DEF Next, Run, User

\* One run with --rebuild that gets to the readiness checks leaves no deployment
\* behind, whatever earlier runs have lost (PushImages, installHelmChart).
THEOREM RebuildsCatchUp == Spec => []RebuildCatchesUp
  <1>1. Init => Rebuilds
    BY DEF Init, Rebuilds
  <1>2. ASSUME TypeOK, Rebuilds, Losses PROVE RebuildCatchesUp
    BY <1>2 DEF Rebuilds, Losses, RebuildCatchesUp
  <1>3. Init => Losses
    BY DEF Init, Losses, OutdatedOnlyIfMissed, Outdated
  <1> QED BY <1>1, <1>2, <1>3, TypeCorrect, RebuildsKept, LossesKept, PTL DEF Spec

-----------------------------------------------------------------------------
(* Versions.                                                               *)

\* A version passes through four hands, from the repository to the deployment,
\* and is nowhere ahead of where it comes from.
Versions ==
    /\ \A i \in Images : /\ pods[i] <= available[i]
                         /\ \A v \in cached[i] : v <= available[i]
                         /\ available[i] <= built[i]
                         /\ built[i] <= source[i]
    /\ release = 0 => \A i \in Images : pods[i] = 0

\* An image is not replaced by an older one, and a deployment goes back only
\* to be gone, with its release, or to what a node has of the tag if its pods
\* need not pull.
GoesForward ==
    \A i \in Images : /\ built[i] <= built'[i] /\ available[i] <= available'[i]
                      /\ pods'[i] < pods[i] => \/ pods'[i] = 0 /\ release' = 0
                                               \/ Registry /\ ~pulls

\* The versions are numbers.
LEMMA VersionsType ==
    ASSUME TypeOK, NEW i \in Images
    PROVE  /\ source[i] \in Nat /\ built[i] \in Nat
           /\ available[i] \in Nat /\ pods[i] \in Nat
           /\ cached[i] \subseteq Nat
  <1>1. /\ source[i] \in 1..MaxVersion /\ built[i] \in 0..MaxVersion
        /\ available[i] \in 0..MaxVersion /\ pods[i] \in 0..MaxVersion
        /\ cached[i] \subseteq 1..MaxVersion
    BY DEF TypeOK
  <1> QED BY <1>1

\* What starts is not ahead of the cluster, and what nodes keep is neither.
LEMMA PodsForward ==
    ASSUME TypeOK, Versions, pods' \in [Images -> 0..MaxVersion],
           UNCHANGED <<available, built, source>>,
           Caches \/ UNCHANGED <<pods, cached>>, release' \in Nat,
           \A i \in Images : pods'[i] \in {0, pods[i], available[i]} \cup cached[i],
           \A i \in Images : pods'[i] # 0 => release' # 0,
           \A i \in Images : \/ pods[i] <= pods'[i]
                             \/ pods'[i] = 0 /\ release' = 0
                             \/ Registry /\ ~pulls
    PROVE  Versions' /\ GoesForward
  <1>1. ASSUME NEW i \in Images
        PROVE  /\ pods'[i] <= available'[i] /\ available'[i] <= built'[i]
               /\ built'[i] <= source'[i] /\ built[i] <= built'[i]
               /\ available[i] <= available'[i]
               /\ pods'[i] \in Nat
    <2>1. /\ pods[i] <= available[i] /\ available[i] <= built[i] /\ built[i] <= source[i]
          /\ \A v \in cached[i] : v <= available[i]
      BY DEF Versions
    <2>2. pods'[i] \in 0..MaxVersion
      OBVIOUS
    <2> QED BY <2>1, <2>2, VersionsType
  <1>2. ASSUME NEW i \in Images, NEW v \in cached'[i] PROVE v <= available'[i]
    <2>1. v \in cached[i] \/ v = pods'[i]
      BY <1>2
    <2> QED BY <1>1, <2>1 DEF Versions
  <1>3. release' = 0 => \A i \in Images : pods'[i] = 0
    OBVIOUS
  <1>4. ASSUME NEW i \in Images, pods'[i] < pods[i]
        PROVE  (pods'[i] = 0 /\ release' = 0) \/ (Registry /\ ~pulls)
    <2>1. ~(pods[i] <= pods'[i])
      BY <1>1, <1>4, VersionsType
    <2> QED BY <2>1
  <1>5. \A i \in Images : built[i] <= built'[i] /\ available[i] <= available'[i]
    BY <1>1
  <1>6. GoesForward
    <2>1. SUFFICES ASSUME NEW i \in Images
                   PROVE  /\ built[i] <= built'[i] /\ available[i] <= available'[i]
                          /\ pods'[i] < pods[i] => \/ pods'[i] = 0 /\ release' = 0
                                                   \/ Registry /\ ~pulls
      BY DEF GoesForward
    <2>2. CASE pods'[i] < pods[i]
      BY <1>4, <1>5, <2>2
    <2>3. CASE ~(pods'[i] < pods[i])
      BY <1>5, <2>3
    <2> QED BY <2>2, <2>3
  <1> QED BY <1>1, <1>2, <1>3, <1>6 DEF Versions

LEMMA VersionsKept == ASSUME TypeOK, Versions, [Next]_vars PROVE Versions' /\ GoesForward
  <1>0. ASSUME UNCHANGED <<source, built, available, pods, cached>>, release' = release \/ release' # 0
        PROVE  Versions' /\ GoesForward
    BY <1>0, VersionsType DEF Versions, GoesForward
  <1>1. CASE BuildImage
    <2>1. /\ BuildOrder[next] \in Images /\ UNCHANGED <<source, available, pods, cached, release>>
          /\ built' = [built EXCEPT ![BuildOrder[next]] = source[BuildOrder[next]]]
      BY <1>1, OrderOfImages DEF BuildImage, TypeOK
    <2>2. ASSUME NEW i \in Images
          PROVE  available[i] <= built'[i] /\ built[i] <= built'[i] /\ built'[i] <= source[i]
      BY <2>1, VersionsType DEF Versions, TypeOK
    <2> QED BY <2>1, <2>2, VersionsType DEF Versions, GoesForward
  <1>2. CASE LoadImage
    <2>1. /\ BuildOrder[next] \in Images /\ UNCHANGED <<source, built, pods, cached, release>>
          /\ available' = [available EXCEPT ![BuildOrder[next]] = built[BuildOrder[next]]]
      BY <1>2, OrderOfImages DEF LoadImage, TypeOK
    <2>2. ASSUME NEW i \in Images
          PROVE  /\ pods[i] <= available'[i] /\ available[i] <= available'[i]
                 /\ available'[i] <= built[i] /\ available'[i] \in Nat
                 /\ \A v \in cached[i] : v <= available'[i]
      <3>1. available'[i] \in {available[i], built[i]}
        BY <2>1 DEF TypeOK
      <3> QED BY <3>1, VersionsType DEF Versions
    <2> QED BY <2>1, <2>2, VersionsType DEF Versions, GoesForward
  <1>3. CASE HelmUpgrade \/ HelmUpgradeCutShort
    <2>1. UNCHANGED imageVars /\ release \in Nat /\ password \in Nat /\ password # 0
      BY <1>3 DEF HelmUpgrade, HelmUpgradeCutShort, TypeOK
    <2>2. /\ pods' \in [Images -> 0..MaxVersion]
          /\ Caches \/ UNCHANGED <<pods, cached>>
          /\ \A i \in Images : \/ pods'[i] = pods[i]
                               \/ pods[i] = 0 /\ pods'[i] \in NewPod(i, pulls')
          /\ release' \in Nat
          /\ (pods' = pods /\ release' = release) \/ release' # 0
      BY <1>3, <2>1, UpgradeOfPods
    <2>3. ASSUME NEW i \in Images
          PROVE  /\ pods'[i] \in {0, pods[i], available[i]} \cup cached[i]
                 /\ pods[i] <= pods'[i]
      <3>1. pods'[i] \in 0..MaxVersion
        BY <2>2
      <3> QED BY <2>2, <3>1, VersionsType DEF NewPod
    <2>4. ASSUME NEW i \in Images PROVE pods'[i] # 0 => release' # 0
      BY <2>2 DEF Versions
    <2> QED BY <2>1, <2>2, <2>3, <2>4, PodsForward
  <1>5. ASSUME NEW i \in Images, RestartDeployment(i) \/ PodRestarts(i)
        PROVE  Versions' /\ GoesForward
    <2>1. /\ UNCHANGED <<source, built, available, release>> /\ release \in Nat
          /\ Caches \/ UNCHANGED <<pods, cached>>
      <3>1. release \in Nat
        BY DEF TypeOK
      <3> QED BY <1>5, <3>1 DEF RestartDeployment, PodRestarts
    <2> DEFINE May(v) == /\ pods' = [pods EXCEPT ![i] = v]
                         /\ \/ v = pods[i]
                            \/ release # 0 /\ v \in NewPod(i, pulls)
                            \/ release = 0 /\ v = 0
    <2>9. \E v \in {pods[i]} \cup NewPod(i, pulls) \cup {0} : May(v)
      <3>1. CASE UNCHANGED pods
        BY <3>1 DEF TypeOK
      <3>2. CASE PodRestarts(i)
        BY <3>2 DEF PodRestarts
      <3>3. CASE \E v \in (IF release = 0 THEN {0} ELSE NewPod(i, pulls)) :
                    pods' = [pods EXCEPT ![i] = v]
        BY <3>3
      <3> QED BY <1>5, <3>1, <3>2, <3>3 DEF RestartDeployment
    <2>2. PICK v \in {pods[i]} \cup NewPod(i, pulls) \cup {0} :
             /\ pods' = [pods EXCEPT ![i] = v]
             /\ \/ v = pods[i]
                \/ release # 0 /\ v \in NewPod(i, pulls)
                \/ release = 0 /\ v = 0
      BY <2>9
    <2>3. v \in {0, pods[i], available[i]} \cup cached[i]
      BY <2>2 DEF NewPod
    <2>4. v \in 0..MaxVersion
      BY <2>2, NewPodType DEF TypeOK
    <2>5. \/ pods[i] <= v
          \/ v = 0 /\ release = 0
          \/ Registry /\ ~pulls
      BY <2>2, VersionsType DEF NewPod, Versions
    <2>6. v # 0 => release # 0
      BY <2>2 DEF Versions
    <2>7. ASSUME NEW j \in Images
          PROVE  /\ pods'[j] \in {0, pods[j], available[j]} \cup cached[j]
                 /\ pods'[j] # 0 => release' # 0
                 /\ \/ pods[j] <= pods'[j]
                    \/ pods'[j] = 0 /\ release' = 0
                    \/ Registry /\ ~pulls
      BY <2>1, <2>2, <2>3, <2>5, <2>6, VersionsType DEF Versions, TypeOK
    <2>8. pods' \in [Images -> 0..MaxVersion]
      BY <2>2, <2>4 DEF TypeOK
    <2> QED BY <2>1, <2>7, <2>8, PodsForward
  <1>6. ASSUME NEW i \in Images, EditSource(i) PROVE Versions' /\ GoesForward
    <2>1. /\ UNCHANGED <<built, available, pods, cached, release>>
          /\ \A j \in Images : source[j] <= source'[j] /\ source'[j] \in Nat
      BY <1>6, VersionsType DEF EditSource, TypeOK
    <2> QED BY <2>1, VersionsType DEF Versions, GoesForward
  <1>7. CASE Uninstall
    <2>1. /\ UNCHANGED <<source, built, available, cached>> /\ release' = 0
          /\ \A i \in Images : pods'[i] = 0
      BY <1>7 DEF Uninstall
    <2>4. ASSUME NEW i \in Images
          PROVE  /\ built[i] <= built'[i] /\ available[i] <= available'[i]
                 /\ pods'[i] = 0 /\ release' = 0
      BY <2>1, VersionsType
    <2>2. GoesForward
      <3>1. SUFFICES ASSUME NEW i \in Images
                     PROVE  /\ built[i] <= built'[i] /\ available[i] <= available'[i]
                            /\ pods'[i] < pods[i] => \/ pods'[i] = 0 /\ release' = 0
                                                     \/ Registry /\ ~pulls
        BY DEF GoesForward
      <3> QED BY <2>4
    <2>3. \A i \in Images : pods'[i] <= available[i]
      BY <2>1, VersionsType
    <2> QED BY <2>1, <2>2, <2>3 DEF Versions
  <1>8. CASE \/ CheckPrerequisites \/ DetermineClusterName \/ SkipsImage \/ ImagesReady
             \/ PullAndLoadImages \/ InstallGatewayAPICRDs \/ NoStaleData
             \/ GenerateValuesFile \/ RestartsDone \/ OperatorAvailable \/ InitReady
    BY <1>0, <1>8 DEF CheckPrerequisites, DetermineClusterName, SkipsImage, ImagesReady,
          PullAndLoadImages, InstallGatewayAPICRDs, NoStaleData, GenerateValuesFile,
          RestartsDone, OperatorAvailable, InitReady
  <1>9. ASSUME NEW a \in {"envoy", "certManager"},
               SkipsAddon(a) \/ FindsAddon(a) \/ InstallStarts(a) \/ InstallEnds(a)
        PROVE  Versions' /\ GoesForward
    BY <1>0, <1>9 DEF SkipsAddon, FindsAddon, InstallStarts, InstallEnds
  <1>10. CASE PushOver \/ CRDsCutShort \/ StaleDataRefused \/ Fails \/ Killed
    BY <1>0, <1>10 DEF PushOver, CRDsCutShort, StaleDataRefused, Fails, Killed
  <1>11. CASE DataPlaneWaitedFor \/ ForwardingInterrupted \/ UNCHANGED vars
    BY <1>0, <1>11 DEF DataPlaneWaitedFor, ForwardingInterrupted, vars
  <1>12. ASSUME NEW k \in {"plain", "rebuild", "push"}, Start(k) PROVE Versions' /\ GoesForward
    BY <1>0, <1>12 DEF Start
  <1>13. CASE SwitchContext \/ SavePassword \/ DeleteVolume
    BY <1>0, <1>13 DEF SwitchContext, SavePassword, DeleteVolume
  <1> QED BY <1>1, <1>2, <1>3, <1>5, <1>6, <1>7, <1>8, <1>9, <1>10, <1>11, <1>12,
             <1>13 DEF Next, Run, User

\* No deployment goes back to an older version, whichever runs are cut short and
\* whenever the sources are edited - but for pods that may take what a node has
\* of a registry's image - and no version is ahead of the one it comes from
\* (buildAndLoadImage, PushImages, installHelmChart: build, load, restart).
THEOREM NoRollback == Spec => []Versions /\ [][GoesForward]_vars
  <1>1. Init => Versions
    BY DEF Init, Versions
  <1>2. TypeOK /\ Versions /\ [Next]_vars => Versions' /\ [GoesForward]_vars
    BY VersionsKept
  <1> QED BY <1>1, <1>2, TypeCorrect, PTL DEF Spec
-----------------------------------------------------------------------------
(* Every run ends: it has fewer steps to take after each of its steps,     *)
(* whatever the user and the cluster do meanwhile.                         *)

\* The stages, counted from the end; an image goes from build to load and back.
StagesLeft ==
    [idle |-> 0, forwarding |-> 1, waitDataPlane |-> 2, waitInit |-> 3,
     waitOperator |-> 4, restart |-> 5, upgrade |-> 6, values |-> 7, staleCheck |-> 8,
     certManagerInstalls |-> 9, certManager |-> 10, envoyInstalls |-> 11, envoy |-> 12,
     gatewayAPI |-> 13, infraImages |-> 14, load |-> 14, build |-> 15, cluster |-> 16,
     prerequisites |-> 17]

\* An image is built, loaded and, if it has changed, restarted.
Left(p, n, changed) ==
    IF p = "idle" THEN 0
    ELSE StagesLeft[p] + 3 * (Len(BuildOrder) + 1 - n) + Cardinality(changed)

RunLeft == Left(pc, next, updated)
MostRun == 4 * Len(BuildOrder) + 17

RunStep == Run \/ Fails \/ Killed \/ ForwardingInterrupted

\* A run has less to do after each of its steps; nothing but its start gives it more.
UsesUpRun == /\ RunStep => RunLeft' < RunLeft
             /\ RunLeft' > RunLeft => pc = "idle"

\* There are no more changed images than images in the build order.
LEMMA ChangedImages ==
    ASSUME NEW changed \in SUBSET Images
    PROVE  /\ IsFiniteSet(changed)
           /\ Cardinality(changed) \in 0 .. Len(BuildOrder)
  <1>1. /\ Len(BuildOrder) \in Nat /\ DOMAIN BuildOrder = 1 .. Len(BuildOrder)
    BY BuildOrderAssumption
  <1>2. IsFiniteSet(1 .. Len(BuildOrder)) /\ Cardinality(1 .. Len(BuildOrder)) = Len(BuildOrder)
    BY <1>1, FS_Interval
  <1> DEFINE f == [n \in 1 .. Len(BuildOrder) |-> BuildOrder[n]]
  <1>3. f \in Surjection(1 .. Len(BuildOrder), Images)
    BY <1>1, OrderOfImages DEF Surjection
  <1>4. IsFiniteSet(Images) /\ Cardinality(Images) <= Len(BuildOrder)
    <2> HIDE DEF f
    <2> QED BY <1>2, <1>3, FS_Surjection
  <1>5. /\ IsFiniteSet(changed) /\ Cardinality(changed) <= Cardinality(Images)
        /\ Cardinality(changed) \in Nat /\ Cardinality(Images) \in Nat
    BY <1>4, FS_Subset, FS_CardinalityType
  <1> QED BY <1>1, <1>4, <1>5

LEMMA LeftBounded ==
    ASSUME NEW p \in PCs, NEW n \in 1 .. Len(BuildOrder) + 1, NEW changed \in SUBSET Images
    PROVE  /\ Left(p, n, changed) \in 0 .. MostRun
           /\ Left(p, n, changed) = 0 <=> p = "idle"
  <1>1. Len(BuildOrder) \in Nat /\ Cardinality(changed) \in 0 .. Len(BuildOrder)
    BY OrderOfImages, ChangedImages
  <1>2. StagesLeft[p] \in 0 .. 17 /\ (p # "idle" => StagesLeft[p] > 0)
    BY DEF StagesLeft, PCs
  <1>3. 3 * (Len(BuildOrder) + 1 - n) \in 0 .. 3 * Len(BuildOrder)
    BY <1>1
  <1>4. p = "idle" => Left(p, n, changed) = 0
    BY DEF Left
  <1>5. p # "idle" => Left(p, n, changed) \in 1 .. MostRun
    <2> DEFINE a == StagesLeft[p]
               b == 3 * (Len(BuildOrder) + 1 - n)
               c == Cardinality(changed)
    <2>1. p # "idle" => Left(p, n, changed) = a + b + c
      BY DEF Left
    <2>2. MostRun = 4 * Len(BuildOrder) + 17
      BY DEF MostRun
    <2> HIDE DEF a, b, c
    <2>3. /\ a \in 0 .. 17 /\ (p # "idle" => a > 0)
          /\ b \in 0 .. 3 * Len(BuildOrder) /\ c \in 0 .. Len(BuildOrder)
      BY <1>1, <1>2, <1>3 DEF a, b, c
    <2> QED BY <1>1, <2>1, <2>2, <2>3
  <1>6. MostRun \in Nat
    BY <1>1 DEF MostRun
  <1> QED BY <1>4, <1>5, <1>6

\* What is left gets less when a stage is over, an image is, or a restart.
LEMMA NextStage ==
    ASSUME NEW p \in PCs, NEW q \in PCs, StagesLeft[q] < StagesLeft[p],
           NEW n \in 1 .. Len(BuildOrder) + 1, NEW changed \in SUBSET Images
    PROVE  Left(q, n, changed) < Left(p, n, changed)
  <1>1. /\ Len(BuildOrder) \in Nat /\ Cardinality(changed) \in Nat
        /\ StagesLeft[p] \in Nat /\ StagesLeft[q] \in Nat
    BY OrderOfImages, ChangedImages DEF StagesLeft, PCs
  <1>2. p # "idle"
    BY <1>1 DEF StagesLeft
  <1>3. 3 * (Len(BuildOrder) + 1 - n) \in Nat
    BY <1>1
  <1> QED BY <1>1, <1>2, <1>3 DEF Left

LEMMA NextImage ==
    ASSUME NEW p \in {"build", "load"}, NEW n \in 1 .. Len(BuildOrder),
           NEW changed \in SUBSET Images, NEW i \in Images,
           NEW more \in {changed, changed \cup {i}}
    PROVE  Left("build", n + 1, more) < Left(p, n, changed)
  <1>1. /\ IsFiniteSet(changed) /\ Cardinality(changed) \in Nat /\ Cardinality(more) \in Nat
    BY ChangedImages
  <1>2. Cardinality(more) <= Cardinality(changed) + 1
    <2>1. CASE more = changed
      BY <1>1, <2>1
    <2>2. CASE more = changed \cup {i}
      <3>1. Cardinality(more)
              = IF i \in changed THEN Cardinality(changed) ELSE Cardinality(changed) + 1
        BY <1>1, <2>2, FS_AddElement
      <3> QED BY <1>1, <3>1
    <2> QED BY <2>1, <2>2
  <1>3. Len(BuildOrder) \in Nat
    BY OrderOfImages
  <1>4. /\ Left("build", n + 1, more)
              = StagesLeft["build"] + 3 * (Len(BuildOrder) + 1 - (n + 1)) + Cardinality(more)
        /\ Left(p, n, changed)
              = StagesLeft[p] + 3 * (Len(BuildOrder) + 1 - n) + Cardinality(changed)
    <2>1. p # "idle" /\ "build" # "idle"
      OBVIOUS
    <2> QED BY <2>1 DEF Left
  <1>5. StagesLeft["build"] = 15 /\ StagesLeft[p] \in {14, 15}
    BY DEF StagesLeft
  <1> DEFINE l == Len(BuildOrder)
             x == Cardinality(more)
             y == Cardinality(changed)
             s == StagesLeft[p]
             before == Left(p, n, changed)
             after == Left("build", n + 1, more)
  <1>6. /\ l \in Nat /\ n \in 1 .. l /\ x \in Nat /\ y \in Nat /\ x <= y + 1
        /\ s \in {14, 15}
        /\ after = 15 + 3 * (l + 1 - (n + 1)) + x
        /\ before = s + 3 * (l + 1 - n) + y
    BY <1>1, <1>2, <1>3, <1>4, <1>5
  <1> HIDE DEF l, x, y, s, before, after
  <1>7. after < before
    BY <1>6
  <1> QED BY <1>7 DEF before, after

LEMMA NextRestart ==
    ASSUME NEW n \in 1 .. Len(BuildOrder) + 1, NEW changed \in SUBSET Images, NEW i \in changed
    PROVE  Left("restart", n, changed \ {i}) < Left("restart", n, changed)
  <1>1. IsFiniteSet(changed) /\ Cardinality(changed) \in Nat
    BY ChangedImages
  <1>2. Cardinality(changed \ {i}) = Cardinality(changed) - 1
    BY <1>1, FS_RemoveElement
  <1>3. Len(BuildOrder) \in Nat
    BY OrderOfImages
  <1> QED BY <1>1, <1>2, <1>3 DEF Left, StagesLeft

LEMMA RunStepLeft == ASSUME TypeOK, RunStep PROVE RunLeft' < RunLeft
  <1> USE DEF TypeOK
  <1>1. ASSUME pc # "idle", pc' = "idle" PROVE RunLeft' < RunLeft
    <2>1. pc \in PCs /\ next \in 1 .. Len(BuildOrder) + 1 /\ updated \in SUBSET Images
      OBVIOUS
    <2>2. RunLeft \in 0 .. MostRun /\ RunLeft # 0
      BY <1>1, <2>1, LeftBounded DEF RunLeft
    <2>3. RunLeft' = 0
      BY <1>1 DEF RunLeft, Left
    <2> QED BY <2>2, <2>3
  <1>2. ASSUME pc' \in PCs, StagesLeft[pc'] < StagesLeft[pc], UNCHANGED <<next, updated>>
        PROVE  RunLeft' < RunLeft
    BY <1>2, NextStage DEF RunLeft
  <1>3. CASE \/ PushOver \/ CRDsCutShort \/ StaleDataRefused \/ HelmUpgradeCutShort
             \/ Fails \/ Killed \/ ForwardingInterrupted
    <2>1. pc # "idle" /\ pc' = "idle"
      BY <1>3 DEF PushOver, AllBuilt, CRDsCutShort, StaleDataRefused, HelmUpgradeCutShort,
                  Fails, Killed, ForwardingInterrupted
    <2> QED BY <1>1, <2>1
  <1>4. CASE \/ CheckPrerequisites \/ DetermineClusterName \/ ImagesReady
             \/ PullAndLoadImages \/ InstallGatewayAPICRDs \/ NoStaleData
             \/ GenerateValuesFile \/ HelmUpgrade \/ RestartsDone \/ OperatorAvailable
             \/ InitReady \/ BuildImage
    <2>3. \/ pc = "prerequisites" /\ pc' = "cluster"
          \/ pc = "cluster" /\ pc' \in {"build", "gatewayAPI"}
          \/ pc = "build" /\ pc' \in {"load", "gatewayAPI", "infraImages"}
          \/ pc = "infraImages" /\ pc' = "gatewayAPI"
          \/ pc = "gatewayAPI" /\ pc' = "envoy"
          \/ pc = "staleCheck" /\ pc' = "values"
          \/ pc = "values" /\ pc' = "upgrade"
          \/ pc = "upgrade" /\ pc' = "restart"
          \/ pc = "restart" /\ pc' = "waitOperator"
          \/ pc = "waitOperator" /\ pc' = "waitInit"
          \/ pc = "waitInit" /\ pc' = "waitDataPlane"
      BY <1>4 DEF CheckPrerequisites, DetermineClusterName, ImagesReady, AllBuilt,
                  PullAndLoadImages, InstallGatewayAPICRDs, NoStaleData,
                  GenerateValuesFile, HelmUpgrade, RestartsDone, OperatorAvailable,
                  InitReady, BuildImage
    <2>1. pc' \in PCs /\ StagesLeft[pc'] < StagesLeft[pc]
      BY <2>3 DEF StagesLeft, PCs
    <2>2. UNCHANGED <<next, updated>>
      BY <1>4 DEF CheckPrerequisites, DetermineClusterName, ImagesReady, AllBuilt,
                  PullAndLoadImages, InstallGatewayAPICRDs, NoStaleData,
                  GenerateValuesFile, HelmUpgrade, RestartsDone, OperatorAvailable,
                  InitReady, BuildImage
    <2> QED BY <1>2, <2>1, <2>2
  <1>5. ASSUME NEW a \in {"envoy", "certManager"},
               SkipsAddon(a) \/ FindsAddon(a) \/ InstallStarts(a) \/ InstallEnds(a)
        PROVE  RunLeft' < RunLeft
    <2>1. /\ \/ pc = a /\ pc' \in {After[a], Installing[a]}
             \/ pc = Installing[a] /\ pc' = After[a]
          /\ UNCHANGED <<next, updated>>
      BY <1>5 DEF SkipsAddon, FindsAddon, InstallStarts, InstallEnds
    <2>2. /\ After[a] \in PCs /\ Installing[a] \in PCs
          /\ StagesLeft[After[a]] < StagesLeft[Installing[a]]
          /\ StagesLeft[After[a]] < StagesLeft[a]
          /\ StagesLeft[Installing[a]] < StagesLeft[a]
      BY DEF After, Installing, StagesLeft, PCs
    <2> QED BY <1>2, <2>1, <2>2
  <1>6. CASE SkipsImage \/ LoadImage
    <2>1. /\ pc \in {"build", "load"} /\ pc' = "build" /\ next' = next + 1
          /\ next \in 1 .. Len(BuildOrder)
      BY <1>6, OrderOfImages DEF SkipsImage, LoadImage
    <2>2. BuildOrder[next] \in Images /\ updated' \in {updated, updated \cup {BuildOrder[next]}}
      BY <1>6, <2>1, OrderOfImages DEF SkipsImage, LoadImage
    <2>3. Left("build", next + 1, updated') < Left(pc, next, updated)
      BY <2>1, <2>2, NextImage
    <2> QED BY <2>1, <2>3 DEF RunLeft
  <1>7. ASSUME NEW i \in Images, RestartDeployment(i) PROVE RunLeft' < RunLeft
    <2>1. /\ pc = "restart" /\ pc' = pc /\ next' = next
          /\ i \in updated /\ updated' = updated \ {i}
      BY <1>7 DEF RestartDeployment
    <2> QED BY <2>1, NextRestart DEF RunLeft
  <1>8. CASE DataPlaneWaitedFor
    <2>1. CASE Registry
      BY <1>1, <1>8, <2>1 DEF DataPlaneWaitedFor
    <2>2. CASE ~Registry
      BY <1>2, <1>8, <2>2 DEF DataPlaneWaitedFor, StagesLeft, PCs
    <2> QED BY <2>1, <2>2
  <1> QED BY <1>3, <1>4, <1>5, <1>6, <1>7, <1>8 DEF RunStep, Run

LEMMA RunLeftKept == ASSUME TypeOK, TypeOK', [Next]_vars PROVE UsesUpRun
  <1>1. RunLeft \in Nat /\ RunLeft' \in Nat
    BY LeftBounded DEF RunLeft, TypeOK
  <1>2. CASE RunStep
    BY <1>1, <1>2, RunStepLeft DEF UsesUpRun
  <1>3. CASE ~RunStep
    <2>1. pc = "idle" \/ UNCHANGED <<pc, next, updated>>
      BY <1>3 DEF Next, RunStep, User, Start, EditSource, SwitchContext, SavePassword,
                  Uninstall, DeleteVolume, PodRestarts, vars
    <2> QED BY <1>1, <1>3, <2>1 DEF UsesUpRun, RunLeft
  <1> QED BY <1>2, <1>3

\* A run takes a bounded number of steps, four for each image and one for each
\* stage at most, and is over when there is none left, whatever the user and
\* the cluster do meanwhile (KubernetesManager.Setup, PushImages: no stage is
\* gone back to; retryKubectlWait, which polls until its deadline, is one step).
THEOREM RunsAreBounded ==
    Spec => /\ [](RunLeft \in 0 .. MostRun /\ (RunLeft = 0 <=> pc = "idle"))
            /\ [][UsesUpRun]_vars
  <1>1. TypeOK => RunLeft \in 0 .. MostRun /\ (RunLeft = 0 <=> pc = "idle")
    BY LeftBounded DEF RunLeft, TypeOK
  <1>2. TypeOK /\ TypeOK' /\ [Next]_vars => [UsesUpRun]_vars
    BY RunLeftKept
  <1> QED BY <1>1, <1>2, TypeCorrect, PTL DEF Spec
=============================================================================
