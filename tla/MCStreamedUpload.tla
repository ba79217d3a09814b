--------------------------- MODULE MCStreamedUpload ---------------------------
(***************************************************************************)
(* A small instance of StreamedUpload: its constants are numbers.          *)
(***************************************************************************)
EXTENDS StreamedUpload, TLC

=============================================================================
