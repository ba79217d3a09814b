---------------------------- MODULE MCArchiveRequest ----------------------------
(***************************************************************************)
(* A small instance of ArchiveRequest.                                     *)
(***************************************************************************)
EXTENDS ArchiveRequest

=============================================================================
