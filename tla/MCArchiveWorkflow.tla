-------------------------- MODULE MCArchiveWorkflow --------------------------
(***************************************************************************)
(* A small instance of ArchiveWorkflow: two files, two workers.            *)
(***************************************************************************)
EXTENDS ArchiveWorkflow

CONSTANTS f1, f2

MCFiles == <<f1, f2>>

=============================================================================
