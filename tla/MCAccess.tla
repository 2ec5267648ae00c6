------------------------------- MODULE MCAccess -------------------------------
(* Tokens and keys on small instances; requests, accounts and ids are      *)
(* interchangeable.                                                        *)
EXTENDS Access, TLC

AccessSymmetry == Permutations(Users) \cup Permutations(Requests) \cup Permutations(Ids)
=============================================================================
