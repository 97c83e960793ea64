------------------------------- MODULE MCAPIKeys -------------------------------
(***************************************************************************)
(* Small instances of APIKeys for TLC.                                     *)
(***************************************************************************)
EXTENDS APIKeys, TLC

(* strings.ToUpper on the names of the configurations.                     *)
UpperNames ==
  [n \in PermissionNames |-> IF n = "transfer" THEN "TRANSFER" ELSE n]

(* Goroutines and users are interchangeable, and so are the random keys.   *)
KeySymmetry ==
  Permutations(Requests) \cup Permutations(Keys) \cup Permutations(Users)
=============================================================================
