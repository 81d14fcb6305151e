--------------------------- MODULE MCClusterStore ---------------------------
(* Bootstrap requests that create the cluster (c1, c2), one that adds a      *)
(* capability (u1), an EditCluster call (u2), one more capability (u3), and  *)
(* DeleteCluster calls.                                                      *)
EXTENDS ClusterStore, TLC

CONSTANTS c1, c2, u1, u2, u3, metrics, logs, traces

MCCapOf == (c1 :> metrics) @@ (c2 :> logs) @@ (u1 :> logs) @@ (u2 :> metrics) @@ (u3 :> traces)
=============================================================================
