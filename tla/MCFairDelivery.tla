---------------------------- MODULE MCFairDelivery ----------------------------
(* Instances of FairDelivery small enough for TLC. *)
EXTENDS FairDelivery

NoAcks == {}
NoNacks == {}
=============================================================================
