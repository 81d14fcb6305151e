---------------------------- MODULE MCTokenStore ----------------------------
(* Three concurrent UpdateToken calls (two of handleCreate, which add a join *)
(* capability, and one of handleEdit, which adds none) and two DeleteToken   *)
(* calls.                                                                    *)
EXTENDS TokenStore, TLC

CONSTANTS u1, u2, u3, c1, c2

MCAdds == (u1 :> {c1}) @@ (u2 :> {c2}) @@ (u3 :> {})
=============================================================================
