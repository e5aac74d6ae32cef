------------------------ MODULE CertManagerMigration ------------------------
(***************************************************************************)
(* The CRDs of cert-manager over several runs of `frkrup`                  *)
(* (src/cmd/frkrup/kubernetes.go, installCertManager and                   *)
(* adoptCertManagerCRDs).  They belonged to the release of the frkr chart  *)
(* once; a run adopts those it finds, one at a time and errors ignored,    *)
(* installs cert-manager as a release of its own, and upgrades the frkr    *)
(* chart, which no longer has them.  A release and one CRD that are there  *)
(* let a run skip all this.                                                *)
(*                                                                         *)
(* Helm is external: a first installation refuses objects of another       *)
(* release; --force replaces what is there by the object of the chart, and *)
(* that of cert-manager 1.14 has no resource policy; an upgrade deletes    *)
(* what the last deployed manifest lists and the chart no longer has,      *)
(* unless the object carries the resource policy "keep"; an uninstallation *)
(* deletes what its manifest lists.                                        *)
(***************************************************************************)
CONSTANTS
    CRDs,          \* six in the code
    Certificates,  \* the one that is looked at
    Faults         \* what may fail: "kubectl", "helm"

ASSUME CertificatesAssumption == Certificates \in CRDs
ASSUME FaultsAssumption == Faults \subseteq {"kubectl", "helm"}

VARIABLES
    owner,      \* the release each CRD belongs to, "absent" if there is none
    keep,       \* CRDs with the resource policy "keep"
    release,    \* is there a release cert-manager?
    manifest,   \* does the last manifest of frkr list the CRDs?
    pc,         \* where the run is
    todo,       \* CRDs still to be adopted
    wanted,     \* config.InstallCertManager
    listed,     \* did frkr list them when this run began? (history)
    disturbed   \* did an error or a deletion put the fast path in the wrong? (history)

vars == <<owner, keep, release, manifest, pc, todo, wanted, listed, disturbed>>

Present == {c \in CRDs : owner[c] # "absent"}

TypeOK ==
    /\ owner \in [CRDs -> {"absent", "frkr", "cert-manager"}]
    /\ keep \subseteq Present
    /\ release \in BOOLEAN
    /\ manifest \in BOOLEAN
    /\ pc \in {"idle", "check", "adopt", "install", "upgrade", "done"}
    /\ todo \subseteq CRDs
    /\ wanted \in BOOLEAN
    /\ listed \in BOOLEAN
    /\ disturbed \in BOOLEAN

\* cert-manager has been part of the frkr chart, or was never there.
Init ==
    /\ manifest \in BOOLEAN
    /\ owner = [c \in CRDs |-> IF manifest THEN "frkr" ELSE "absent"]
    /\ keep = {}
    /\ release = FALSE
    /\ pc = "idle"
    /\ todo = {}
    /\ wanted \in BOOLEAN
    /\ listed = FALSE
    /\ disturbed = FALSE

-----------------------------------------------------------------------------
Begin ==
    /\ pc \in {"idle", "done"}
    /\ wanted' \in BOOLEAN
    /\ pc' = IF wanted' THEN "check" ELSE "upgrade"
    /\ listed' = manifest
    /\ UNCHANGED <<owner, keep, release, manifest, todo, disturbed>>

\* Mutant of FastPath: the CRD is not asked for.
FastPathByRelease ==
    /\ pc = "check"
    /\ \/ /\ release
          /\ pc' = "upgrade"
          /\ UNCHANGED <<todo, disturbed>>
       \/ /\ ~release
          /\ pc' = "adopt"
          /\ todo' = CRDs
          /\ UNCHANGED disturbed
       \/ /\ Faults # {} /\ release
          /\ pc' = "adopt"
          /\ todo' = CRDs
          /\ disturbed' = TRUE
    /\ UNCHANGED <<owner, keep, release, manifest, wanted, listed>>

\* A release and one of the CRDs.  A command that fails reads as "not there".
FastPath ==
    /\ pc = "check"
    /\ \/ /\ release /\ Certificates \in Present
          /\ pc' = "upgrade"
          /\ UNCHANGED <<todo, disturbed>>
       \/ /\ ~(release /\ Certificates \in Present)
          /\ pc' = "adopt"
          /\ todo' = CRDs
          /\ UNCHANGED disturbed
       \/ /\ release /\ Certificates \in Present /\ Faults # {}
          /\ pc' = "adopt"
          /\ todo' = CRDs
          /\ disturbed' = TRUE
    /\ UNCHANGED <<owner, keep, release, manifest, wanted, listed>>

\* Mutant of Adopt: it is not asked whether a CRD is there.
AdoptBlindly ==
    /\ pc = "adopt" /\ todo # {}
    /\ \E c \in todo :
          /\ todo' = todo \ {c}
          /\ owner' = [owner EXCEPT ![c] = IF c \in Present THEN "cert-manager" ELSE @]
          /\ keep' = keep \cup {c}
    /\ UNCHANGED <<release, manifest, pc, wanted, listed, disturbed>>

\* A CRD that is not found, or cannot be annotated, is passed over.
Adopt ==
    /\ pc = "adopt" /\ todo # {}
    /\ \E c \in todo :
          /\ todo' = todo \ {c}
          /\ \/ /\ c \in Present
                /\ owner' = [owner EXCEPT ![c] = "cert-manager"]
                /\ keep' = keep \cup {c}
             \/ /\ c \notin Present \/ "kubectl" \in Faults
                /\ UNCHANGED <<owner, keep>>
    /\ UNCHANGED <<release, manifest, pc, wanted, listed, disturbed>>

Adopted ==
    /\ pc = "adopt" /\ todo = {}
    /\ pc' = "install"
    /\ UNCHANGED <<owner, keep, release, manifest, todo, wanted, listed, disturbed>>

\* A release that is recorded has the CRDs in its manifest already.
Refused == ~release /\ \E c \in Present : owner[c] # "cert-manager"

\* What is missing is created, what is there replaced: the policy is gone.
Install ==
    /\ pc = "install" /\ ~Refused
    /\ owner' = [c \in CRDs |-> "cert-manager"]
    /\ keep' = {}
    /\ release' = TRUE
    /\ pc' = "upgrade"
    /\ UNCHANGED <<manifest, todo, wanted, listed, disturbed>>

\* The fast path will be taken, to an upgrade after which a part of the CRDs is
\* there, or none although frkr has not listed them.
Deceptive ==
    /\ release /\ Certificates \in Present
    /\ IF manifest THEN keep \notin {{}, CRDs} ELSE Present # CRDs

\* An installation is refused, or fails after some of the CRDs; the release may
\* be recorded.  The run is over.
InstallFails ==
    /\ pc = "install"
    /\ \/ /\ Refused
          /\ UNCHANGED <<owner, keep, release>>
       \/ /\ ~Refused /\ "helm" \in Faults
          /\ \E some \in SUBSET CRDs :
                /\ owner' = [c \in CRDs |-> IF c \in some THEN "cert-manager" ELSE owner[c]]
                /\ keep' = keep \ some
          /\ release' \in {release, TRUE}
    /\ pc' = "idle"
    /\ UNCHANGED <<manifest, todo, wanted, listed>>
    /\ disturbed' = (disturbed \/ Deceptive')

\* What the upgrade of the frkr chart deletes.
Dropped == IF manifest THEN Present \ keep ELSE {}

Upgrade ==
    /\ pc = "upgrade"
    /\ owner' = [c \in CRDs |-> IF c \in Dropped THEN "absent" ELSE owner[c]]
    /\ manifest' = FALSE
    /\ pc' = "done"
    /\ UNCHANGED <<keep, release, todo, wanted, listed, disturbed>>

\* The upgrade fails on its way; the next one will compare with the same
\* manifest again.
UpgradeFails ==
    /\ pc = "upgrade"
    /\ \E some \in SUBSET Dropped :
          owner' = [c \in CRDs |-> IF c \in some THEN "absent" ELSE owner[c]]
    /\ pc' = "idle"
    /\ UNCHANGED <<keep, release, manifest, todo, wanted, listed, disturbed>>

\* The user interrupts the run before helm has begun to install.
CutShort ==
    /\ pc \in {"check", "adopt", "install"}
    /\ pc' = "idle"
    /\ UNCHANGED <<owner, keep, release, manifest, todo, wanted, listed, disturbed>>

-----------------------------------------------------------------------------
\* The user removes a CRD, or the release with all that its manifest lists.
DeleteCRD ==
    /\ pc \in {"idle", "done"}
    /\ \E c \in Present :
          /\ owner' = [owner EXCEPT ![c] = "absent"]
          /\ keep' = keep \ {c}
    /\ pc' = "idle"
    /\ UNCHANGED <<release, manifest, todo, wanted, listed>>
    /\ disturbed' = (disturbed \/ Deceptive')

Uninstall ==
    /\ pc \in {"idle", "done"} /\ release
    /\ release' = FALSE
    /\ owner' = [c \in CRDs |-> "absent"]
    /\ keep' = {}
    /\ pc' = "idle"
    /\ UNCHANGED <<manifest, todo, wanted, listed, disturbed>>

Next ==
    \/ Begin \/ FastPath \/ Adopt \/ Adopted \/ Install \/ InstallFails \/ Upgrade
    \/ UpgradeFails \/ CutShort \/ DeleteCRD \/ Uninstall

Spec == Init /\ [][Next]_vars

-----------------------------------------------------------------------------
(* What holds.                                                             *)

\* A run with cert-manager leaves all of its CRDs, over any number of runs that
\* were interrupted or whose upgrade failed, with and without cert-manager, from
\* either kind of start - but for the run that moves them: the installation has
\* taken the policy off them, and the upgrade of the frkr chart deletes every
\* one.  It never leaves a part, and since the fast path asks for a CRD as well
\* as for the release, the next run puts them back.  A command that fails while
\* the fast path looks, an installation that fails half-way and a CRD that
\* somebody deletes can lead to another end.
CompleteOrMigrating ==
    pc = "done" /\ wanted /\ ~disturbed => \/ Present = CRDs
                                           \/ listed /\ Present = {}
=============================================================================
