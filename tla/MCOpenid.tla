------------------------------ MODULE MCOpenid ------------------------------
(* Two requests at a time, two opaque tokens and two users. *)
EXTENDS Openid

CONSTANTS r1, r2, t1, t2, u1, u2
=============================================================================
