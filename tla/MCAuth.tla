------------------------------- MODULE MCAuth -------------------------------
(***************************************************************************)
(* A small instance of Auth.                                               *)
(***************************************************************************)
EXTENDS Auth, TLC

MCSymmetry == Permutations(Requests) \cup Permutations(Rows) \cup Permutations(Users)

=============================================================================
