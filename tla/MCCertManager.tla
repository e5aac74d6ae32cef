---------------------------- MODULE MCCertManager ----------------------------
(* Values of the constants of CertManagerMigration for TLC.                *)
EXTENDS CertManagerMigration, TLC

CONSTANTS requests, certificates, challenges, clusterissuers, issuers, orders

TheCRDs == {requests, certificates, challenges, clusterissuers, issuers, orders}
Watched == certificates
AnyFault == {"kubectl", "helm"}
Interchangeable == Permutations(TheCRDs \ {certificates})
=============================================================================
