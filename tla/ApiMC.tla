--------------------------------- MODULE ApiMC ---------------------------------
(***************************************************************************)
(* TLC instances of Api.                                                   *)
(***************************************************************************)
EXTENDS Api, TLC

ApiSymmetry == Permutations(Users) \cup Permutations(Requests)
=============================================================================
