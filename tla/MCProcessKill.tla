---------------------------- MODULE MCProcessKill ---------------------------
(* Two calls for one process: the worker of a clean-up, which has a         *)
(* deadline, and killProcess in setupLocal, which has none.                *)
EXTENDS ProcessKill

CONSTANTS worker, killProcess

TwoCalls == {worker, killProcess}
Workers == {worker}
=============================================================================
