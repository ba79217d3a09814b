------------------------------- MODULE MCStartup -------------------------------
(***************************************************************************)
(* One flaw at a time: under compose any one, that of a directory with the *)
(* local store and every other with S3; on Cloud Run, where main.tf fixes  *)
(* S3, the buckets, the sizes and the endpoints, those of a secret or of   *)
(* the service account.                                                    *)
(***************************************************************************)
EXTENDS Startup

MCSettings == {s \in SettingType :
    IF s.platform = "compose"
    THEN s.flaw = "none" \/ s.backend = (IF s.flaw = "dirs" THEN "local" ELSE "s3")
    ELSE s.backend = "s3" /\ s.flaw \in {"none", "ttl", "google", "database", "target"}}

=============================================================================
