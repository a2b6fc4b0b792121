------------------------------ MODULE MCLeader ------------------------------
(* Instances of Leader for TLC: an old and a new client.                     *)
EXTENDS Leader, TLC
CONSTANTS old, new

MCVersion == (old :> 1) @@ (new :> 2)
=============================================================================
