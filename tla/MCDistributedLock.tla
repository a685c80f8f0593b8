-------------------------- MODULE MCDistributedLock --------------------------
(* TLC instance of DistributedLock: three requests on two wallets. *)
EXTENDS DistributedLock
=============================================================================
