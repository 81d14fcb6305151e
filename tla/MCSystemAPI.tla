----------------------------- MODULE MCSystemAPI -----------------------------
(* A plugin that uses the store (p1), one that used it before and is no longer *)
(* there (p2), and one with a malformed module path that uses the management   *)
(* API (p3).                                                                   *)
EXTENDS SystemAPI

CONSTANTS p1, p2, p3

\* The second module's name begins with the first one's.
MCModule == [p \in Plugins |-> CASE p = p1 -> <<"a">> [] p = p2 -> <<"a", "b">> [] p = p3 -> <<"c">>]
MCKeys == {<<"x">>, <<"x", "y">>}
MCAsked == {<<>>, <<"x", "/">>, <<"x", "y">>}
MCOld == [p \in Plugins |-> [k \in MCKeys |->
             IF p = p2 \/ (p = p1 /\ k = <<"x", "y">>) THEN 1 ELSE 0]]
MCOrder == <<p3, p1>>
MCSessions == {<<p1, "kv">>, <<p3, "kv">>, <<p3, "mgmt">>}
=============================================================================
