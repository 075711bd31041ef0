------------------------- MODULE MCDaemonOwnership -------------------------
(* Any two commands against each other, or three daemons started at once. *)
EXTENDS DaemonOwnership, TLC

MCCrews == {c \in [Procs -> AllIntents \cup {None}] : Cardinality({p \in Procs : c[p] # None}) = 2}
             \cup {[p \in Procs |-> "ordinary"]}

OrdinaryCrews == {[p \in Procs |-> "ordinary"]}

Symmetry == Permutations(Procs)
=============================================================================
