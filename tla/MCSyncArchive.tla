----------------------------- MODULE MCSyncArchive -----------------------------
(***************************************************************************)
(* A small instance of SyncArchive.                                        *)
(***************************************************************************)
EXTENDS SyncArchive, TLC

=============================================================================
