------------------------------ MODULE MCFileReads ------------------------------
(***************************************************************************)
(* A small instance of FileReads.                                          *)
(***************************************************************************)
EXTENDS FileReads, TLC

MCSymmetry == Permutations(Files) \cup Permutations(Users)

=============================================================================
