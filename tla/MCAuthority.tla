------------------------------ MODULE MCAuthority ------------------------------
(* Two hosts; one of them has two transports. *)
EXTENDS Authority, TLC

CONSTANTS a1, a2, b1, A, B
MCRolesOf == a1 :> {"stream"} @@ a2 :> Roles @@ b1 :> {"stream", "attachment"}
MCHostOf == a1 :> A @@ a2 :> A @@ b1 :> B
===============================================================================
