-------------------------- MODULE CertManagerProofs -------------------------
(***************************************************************************)
(* The invariants of CertManagerMigration, for any set of CRDs.            *)
(***************************************************************************)
EXTENDS CertManagerMigration, TLAPS

\* What the fast path goes by can be relied on, as long as nothing is disturbed;
\* a run that adopts has not found it, and one that upgrades has.
Reliable ==
    ~disturbed =>
       /\ ~Deceptive
       /\ pc \in {"adopt", "install"} => ~(release /\ Certificates \in Present)
       /\ pc = "upgrade" /\ wanted => release /\ Certificates \in Present

\* Only the upgrade changes what the frkr chart lists.
Listed == pc \in {"check", "adopt", "install", "upgrade"} => listed = manifest

IInv == TypeOK /\ Reliable /\ Listed /\ CompleteOrMigrating

-----------------------------------------------------------------------------
LEMMA InitInv == ASSUME Init PROVE IInv
  <1>1. TypeOK
    BY DEF Init, TypeOK, Present
  <1> QED BY <1>1 DEF Init, IInv, Reliable, Deceptive, Listed, CompleteOrMigrating

\* The steps that leave the CRDs alone.
LEMMA SkipInv ==
    ASSUME IInv, Begin \/ FastPath \/ Adopted \/ CutShort \/ UNCHANGED vars
    PROVE  IInv'
  <1>1. UNCHANGED <<owner, keep, release, manifest>> /\ Present' = Present
    BY DEF Begin, FastPath, Adopted, CutShort, vars, Present
  <1>2. Deceptive' = Deceptive
    BY <1>1 DEF Deceptive
  <1>3. TypeOK'
    BY <1>1 DEF IInv, TypeOK, Begin, FastPath, Adopted, CutShort, vars
  <1>4. Reliable'
    <2>1. CASE Begin
      BY <1>1, <1>2, <2>1 DEF IInv, Reliable, Begin
    <2>2. CASE FastPath
      BY <1>1, <1>2, <2>2 DEF IInv, Reliable, FastPath
    <2>3. CASE Adopted \/ CutShort \/ UNCHANGED vars
      BY <1>1, <1>2, <2>3 DEF IInv, Reliable, Adopted, CutShort, vars
    <2> QED BY <2>1, <2>2, <2>3
  <1>5. Listed' /\ CompleteOrMigrating'
    BY <1>1 DEF IInv, Listed, CompleteOrMigrating, Begin, FastPath, Adopted, CutShort, vars
  <1> QED BY <1>3, <1>4, <1>5 DEF IInv

\* An adoption takes no CRD away.
LEMMA AdoptInv == ASSUME IInv, Adopt PROVE IInv'
  <1>1. PICK c \in todo :
          /\ todo' = todo \ {c}
          /\ \/ /\ c \in Present
                /\ owner' = [owner EXCEPT ![c] = "cert-manager"]
                /\ keep' = keep \cup {c}
             \/ /\ c \notin Present \/ "kubectl" \in Faults
                /\ UNCHANGED <<owner, keep>>
    BY DEF Adopt
  <1>2. /\ UNCHANGED <<release, manifest, pc, wanted, listed, disturbed>>
        /\ pc = "adopt" /\ c \in CRDs
    BY <1>1 DEF Adopt, IInv, TypeOK
  <1>3. Present' = Present
    BY <1>1, <1>2 DEF Present, IInv, TypeOK
  <1>4. TypeOK'
    BY <1>1, <1>2, <1>3 DEF IInv, TypeOK
  <1>5. Reliable'
    BY <1>2, <1>3 DEF IInv, Reliable, Deceptive
  <1> QED BY <1>2, <1>4, <1>5 DEF IInv, Listed, CompleteOrMigrating

\* An installation that succeeds leaves all of the CRDs, none of them kept.
LEMMA InstallInv == ASSUME IInv, Install PROVE IInv'
  <1>1. Present' = CRDs
    BY DEF Install, Present
  <1>2. TypeOK'
    BY <1>1 DEF Install, IInv, TypeOK
  <1>3. Reliable'
    BY <1>1, CertificatesAssumption DEF Install, Reliable, Deceptive
  <1> QED BY <1>2, <1>3 DEF Install, IInv, Listed, CompleteOrMigrating

LEMMA InstallFailsInv == ASSUME IInv, InstallFails PROVE IInv'
  <1>1. /\ pc' = "idle" /\ (Deceptive' => disturbed')
        /\ UNCHANGED <<manifest, todo, wanted, listed>> /\ release' \in BOOLEAN
    BY DEF InstallFails, IInv, TypeOK
  <1>2. TypeOK'
    <2>1. CASE UNCHANGED <<owner, keep>>
      BY <1>1, <2>1 DEF IInv, TypeOK, Present, InstallFails
    <2>2. ASSUME NEW some \in SUBSET CRDs,
                 owner' = [c \in CRDs |-> IF c \in some THEN "cert-manager" ELSE owner[c]],
                 keep' = keep \ some
          PROVE  TypeOK'
      <3>1. owner' \in [CRDs -> {"absent", "frkr", "cert-manager"}] /\ Present \subseteq Present'
        BY <2>2 DEF IInv, TypeOK, Present
      <3> QED BY <1>1, <2>2, <3>1 DEF IInv, TypeOK, InstallFails
    <2> QED BY <2>1, <2>2 DEF InstallFails
  <1> QED BY <1>1, <1>2 DEF IInv, Reliable, Listed, CompleteOrMigrating

\* The upgrade deletes all of the CRDs or none, once a run has got that far.
LEMMA UpgradeInv == ASSUME IInv, Upgrade PROVE IInv'
  <1>1. Present' = Present \ Dropped
    BY DEF Upgrade, Present, IInv, TypeOK
  <1>2. TypeOK'
    <2>1. owner' \in [CRDs -> {"absent", "frkr", "cert-manager"}]
      BY DEF Upgrade, IInv, TypeOK
    <2>2. keep \subseteq Present'
      BY <1>1 DEF Dropped, IInv, TypeOK
    <2> QED BY <2>1, <2>2 DEF Upgrade, IInv, TypeOK
  <1>3. ~disturbed /\ release /\ Certificates \in Present
           => Present' = CRDs \/ (manifest /\ Present' = {})
    <2>1. CASE manifest
      BY <1>1, <2>1 DEF Dropped, Deceptive, IInv, Reliable, TypeOK, Present
    <2>2. CASE ~manifest
      BY <1>1, <2>2 DEF Dropped, Deceptive, IInv, Reliable
    <2> QED BY <2>1, <2>2
  <1>4. Reliable'
    BY <1>1, <1>3 DEF Upgrade, Reliable, Deceptive
  <1>5. CompleteOrMigrating'
    BY <1>3 DEF Upgrade, IInv, Reliable, Listed, CompleteOrMigrating
  <1> QED BY <1>2, <1>4, <1>5 DEF Upgrade, IInv, Listed

\* One that fails deletes some, but the manifest still lists them.
LEMMA UpgradeFailsInv == ASSUME IInv, UpgradeFails PROVE IInv'
  <1>1. PICK some \in SUBSET Dropped :
          owner' = [c \in CRDs |-> IF c \in some THEN "absent" ELSE owner[c]]
    BY DEF UpgradeFails
  <1>2. Present' = Present \ some /\ owner' \in [CRDs -> {"absent", "frkr", "cert-manager"}]
    BY <1>1 DEF Present, IInv, TypeOK
  <1>3. /\ UNCHANGED <<keep, release, manifest, todo, wanted, listed, disturbed>>
        /\ pc' = "idle"
    BY DEF UpgradeFails
  <1>4. TypeOK'
    BY <1>2, <1>3 DEF Dropped, IInv, TypeOK
  <1>5. Deceptive' => Deceptive
    BY <1>2, <1>3 DEF Dropped, Deceptive
  <1> QED BY <1>3, <1>4, <1>5 DEF IInv, Reliable, Listed, CompleteOrMigrating

LEMMA UserInv == ASSUME IInv, DeleteCRD \/ Uninstall PROVE IInv'
  <1>1. CASE DeleteCRD
    <2>1. PICK c \in Present : owner' = [owner EXCEPT ![c] = "absent"] /\ keep' = keep \ {c}
      BY <1>1 DEF DeleteCRD
    <2>2. Present' = Present \ {c} /\ c \in CRDs
      BY <2>1 DEF Present, IInv, TypeOK
    <2>3. TypeOK'
      BY <1>1, <2>1, <2>2 DEF DeleteCRD, IInv, TypeOK
    <2> QED BY <1>1, <2>3 DEF DeleteCRD, IInv, Reliable, Listed, CompleteOrMigrating
  <1>2. CASE Uninstall
    <2>1. TypeOK'
      BY <1>2 DEF Uninstall, IInv, TypeOK
    <2>2. ~Deceptive' /\ pc' = "idle"
      BY <1>2 DEF Uninstall, Deceptive
    <2> QED BY <2>1, <2>2 DEF IInv, Reliable, Listed, CompleteOrMigrating
  <1> QED BY <1>1, <1>2

LEMMA Invariance == Spec => []IInv
  <1>1. IInv /\ [Next]_vars => IInv'
    BY SkipInv, AdoptInv, InstallInv, InstallFailsInv, UpgradeInv, UpgradeFailsInv, UserInv
    DEF Next
  <1> QED BY InitInv, <1>1, PTL DEF Spec

-----------------------------------------------------------------------------
(* The results.                                                            *)

\* Every variable has its type.
THEOREM TypeCorrect == Spec => []TypeOK
  <1>1. IInv => TypeOK
    BY DEF IInv
  <1> QED BY <1>1, Invariance, PTL

\* However often runs were interrupted or failed to upgrade, one with cert-manager
\* that comes to its end leaves all the CRDs, or none if it is the one whose upgrade
\* moves them out of the frkr chart; never a part of them (installCertManager,
\* adoptCertManagerCRDs, installHelmChart).
THEOREM NeverAPart == Spec => []CompleteOrMigrating
  <1>1. IInv => CompleteOrMigrating
    BY DEF IInv
  <1> QED BY <1>1, Invariance, PTL
=============================================================================
