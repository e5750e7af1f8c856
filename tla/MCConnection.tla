---------------------------- MODULE MCConnection ----------------------------
(* Connection for TLC: the nicks and who else has them.                    *)
EXTENDS Connection

MCNickName == <<"schumix", "schumix2", "schumix3">>
\* Somebody has the first; an operator may ask for it, for one that is free, and
\* for one that no server takes.
MCTakenSets == {{"schumix"}}
MCOperNicks == {"schumix", "guest", "#1"}
MCErroneous == {"#1"}
=============================================================================
