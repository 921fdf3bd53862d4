------------------------------- MODULE SessionsMC -------------------------------
(***************************************************************************)
(* TLC instances of Sessions.                                              *)
(***************************************************************************)
EXTENDS Sessions, TLC

\* Users, credential ids and requests are interchangeable.
SessionSymmetry ==
  Permutations(Users) \cup Permutations(Credentials) \cup Permutations(Requests)
=============================================================================
