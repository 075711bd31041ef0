-------------------------- MODULE MCTerminalDelivery --------------------------
(* Instances of TerminalDelivery small enough for TLC. *)
EXTENDS TerminalDelivery, TLC

ViewerSymmetry == Permutations(Clients)
NoAcks == {}
NoNacks == {}
=============================================================================
