------------------------------ MODULE MCOutbox ------------------------------
(* TLC instance of Outbox. *)
EXTENDS Outbox, TLC

DispatcherSymmetry == Permutations(Dispatchers)
=============================================================================
