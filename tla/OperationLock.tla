--------------------------- MODULE OperationLock ---------------------------
(* What acquirePrivateOperationLock promises its callers: at most one call *)
(* is between its acquisition and its release, and the end of a holder's   *)
(* process frees the lock as its release would.                            *)
CONSTANT Calls

VARIABLE holders

Acquire(c) == holders = {} /\ holders' = {c}
Leave(c) == c \in holders /\ holders' = holders \ {c}

Init == holders = {}
Next == \E c \in Calls : Acquire(c) \/ Leave(c)
Spec == Init /\ [][Next]_holders
=============================================================================
