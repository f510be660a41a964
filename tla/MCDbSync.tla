------------------------------ MODULE MCDbSync ------------------------------
(* Instances of DbSync for TLC. *)
EXTENDS DbSync, TLC

CONSTANTS d1, d2, k1, p1, p2

(* One process per device: an export and a pass of one device do not overlap. *)
OneEach == p1 :> d1 @@ p2 :> d2
=============================================================================
