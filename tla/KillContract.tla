---------------------------- MODULE KillContract ----------------------------
(***************************************************************************)
(* What a caller of killProcessWithTimeout is promised (src/cmd/frkrup/    *)
(* cleanup.go): it gets one answer, the answer "stopped" is given only for *)
(* a process that has ended, and a process that has ended stays so.  The   *)
(* answer "gaveUp" promises nothing.                                       *)
(***************************************************************************)
CONSTANT Killers  \* the calls that are made for the same process

VARIABLES
    ended,        \* the process has ended and was waited for
    answer        \* what each call returned

vars == <<ended, answer>>

Init ==
    /\ ended = FALSE
    /\ answer = [k \in Killers |-> "none"]

End ==
    /\ ~ended
    /\ ended' = TRUE
    /\ UNCHANGED answer

Answer(k) ==
    /\ answer[k] = "none"
    /\ \/ ended /\ answer' = [answer EXCEPT ![k] = "stopped"]
       \/ answer' = [answer EXCEPT ![k] = "gaveUp"]
    /\ UNCHANGED ended

Next == End \/ \E k \in Killers : Answer(k)

Spec == Init /\ [][Next]_vars
=============================================================================
