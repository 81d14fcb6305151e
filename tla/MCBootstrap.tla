----------------------------- MODULE MCBootstrap -----------------------------
(* Three requests for one cluster ID: two tokens, two capabilities, so that  *)
(* creations, edits, conflicts and refusals all meet.                        *)
EXTENDS Bootstrap, TLC

CONSTANTS r1, r2, r3, t1, t2, metrics, logs

MCTokenOf == (r1 :> t1) @@ (r2 :> t1) @@ (r3 :> t2)
MCCapOf == (r1 :> metrics) @@ (r2 :> logs) @@ (r3 :> logs)
=============================================================================
