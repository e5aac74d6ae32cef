-------------------------- MODULE MCDatabaseBringup -------------------------
(* Values of the constants of DatabaseBringup for TLC.                     *)
EXTENDS DatabaseBringup

CONSTANTS first, second

TwoSessions == {first, second}
AnyFault == {"create", "query", "migrate"}
=============================================================================
