----------------------------- MODULE LatestMirror -----------------------------
(***************************************************************************)
(* What a delivery lane promises its viewers, whatever happens in between: *)
(* a viewer shows states the source really published, moves only forward   *)
(* through them, and may skip any number of them.  A lane that ends shows  *)
(* nothing any more.                                                       *)
(***************************************************************************)
EXTENDS Integers

CONSTANT Viewers

VARIABLES
  head,    \* the last revision the source published, -1 before the first
  shown    \* shown[v]: the revision viewer v shows, -1 when it shows none

Init == head = -1 /\ shown = [v \in Viewers |-> -1]

Publish == head' = head + 1 /\ UNCHANGED shown

Show(v) ==
  \E r \in (shown[v] + 1)..head :
    shown' = [shown EXCEPT ![v] = r] /\ UNCHANGED head

Drop(v) == shown' = [shown EXCEPT ![v] = -1] /\ UNCHANGED head

Next == Publish \/ \E v \in Viewers : Show(v) \/ Drop(v)

Spec == Init /\ [][Next]_<<head, shown>>

=============================================================================
