--------------------------- MODULE MCStreamRegistry --------------------------
(* Values of the constants of StreamRegistry for TLC.                      *)
EXTENDS StreamRegistry, TLC

CONSTANTS remover, maker, other, tenantA, tenantB, api, id1, id2

Three == {remover, maker, other}
\* Enough for a deletion that another deletion and a creation overtake.
SomeOffers == remover :> {"delete", "user"} @@ maker :> {"create"}
                 @@ other :> {"delete", "client", "user"}
TwoTenants == {tenantA, tenantB}
OneName == {api}
TwoIds == {id1, id2}
Interchangeable == Permutations(TwoTenants) \cup Permutations(TwoIds)
=============================================================================
