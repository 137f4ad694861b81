------------------------------ MODULE MCMutexes ------------------------------
(* An instance of Mutexes for TLC: a request that counts its subscribers first, one that *)
(* does not, and a response. *)
EXTENDS Mutexes

NewYCatch == {"NEW", "CATCH"}
SoloCatch == {"CATCH"}
SoloAppeared == {"APPEARED"}
==============================================================================
