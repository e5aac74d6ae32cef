---------------------------- MODULE MCLocalSetup ----------------------------
(* Values of the constants of LocalSetup for TLC.                          *)
EXTENDS LocalSetup

\* Nothing runs before frkrup does, or the database alone.
NoForeign == {{}}
DatabaseUp == {{"database"}}

NoFault == {}
DockerOrLsof == {"docker", "lsof"}
KillFails == {"kill"}

\* An earlier run may have left a server on the ingest port.
NoStale == {{}}
IngestHeld == {{"ingest"}}
=============================================================================
