-------------------------------- MODULE Startup --------------------------------
(***************************************************************************)
(* How the storage service, the file server and the worker start, stay up  *)
(* and end: what each main function checks before it serves, in the order  *)
(* of the code, while the services that it checks come and go, and what    *)
(* starts the processes: docker compose, once, in the order of depends_on, *)
(* or Cloud Run, in any order, the worker again after each exit, the other *)
(* two, which it also takes down, when a request waits for them.           *)
(***************************************************************************)
EXTENDS Naturals, Sequences

CONSTANTS
    Settings,    \* the deployments, of SettingType
    MaxOutages   \* bound: services that fail and processes that are killed

Processes == {"storage", "server", "worker"}
Services == {"postgres", "redis", "temporal", "objects"}

(* A flaw is a bucket for archives without a name, a size or a lifetime of *)
(* tokens that is not a number, a directory that cannot be made, no Google *)
(* credentials, a wrong DATABASE_URL, a wrong address or key for the       *)
(* storage service, or a public endpoint of S3 that browsers do not reach. *)
Flaws == {"archives", "sizes", "ttl", "dirs", "google", "database", "target", "public"}
SettingType == [platform : {"compose", "cloudrun"}, backend : {"local", "s3", "other"},
                flaw : Flaws \cup {"none"}]

ASSUME SettingsAssumption == Settings \subseteq SettingType /\ MaxOutages \in Nat

VARIABLES
    setting,
    up,         \* the services that answer
    made,       \* the schema and the buckets that exist
    pc,         \* where each process is
    todo,       \* the checks of its main function that are left
    asked,      \* those for which a request waits, on Cloud Run
    outages     \* the outages left

vars == <<setting, up, made, pc, todo, asked, outages>>

Google == setting.flaw # "google"

-----------------------------------------------------------------------------
(* The checks, and their order in each main function.                      *)

(* NewProviderFromConfig: the store of files needs nothing, the one for S3 *)
(* looks for its two buckets.                                              *)
NewProvider ==
    CASE setting.backend = "local" -> <<>> [] setting.backend = "s3" -> <<"files", "archives">>
      [] OTHER -> <<"unknown">>

Checks == {"load", "observe", "files", "archives", "unknown", "repository", "redis", "client",
           "temporal"}

StorageMain == <<"load", "observe">> \o NewProvider \o <<"repository">>
ServerMain == <<"load", "observe", "redis", "client", "temporal">>
WorkerMain == <<"load", "observe", "temporal", "client">>

Main == [storage |-> StorageMain, server |-> ServerMain, worker |-> WorkerMain]

(* Load, of the storage service and of the file server and worker: the     *)
(* latter drops the errors of both lifetimes and goes on with 0.           *)
LoadStorage == setting.backend = "local" => setting.flaw # "dirs"
LoadServer == setting.flaw # "sizes"

HeadBucket(bucket) == "objects" \in up /\ bucket \in made

NewStore(bucket) == HeadBucket(bucket) /\ (bucket = "archives" => setting.flaw # "archives")

(* Its Ping is the first to use DATABASE_URL.                              *)
NewRepository == "postgres" \in up /\ setting.flaw # "database"

(* observability.Init: it does without Google.                             *)
InitTelemetry == TRUE

(* The client does not look for the storage service, only for a source of  *)
(* identity tokens.                                                        *)
(* Mutant: the client does without tokens, as telemetry does.              *)
NewStorageClient_Degrades == TRUE
NewStorageClient == Google

(* Dial waits for an answer; the worker's main has the same function.      *)
NewTemporalClient == "temporal" \in up

(* Of the database the file server only opens a handle, without asking:    *)
(* no check reads its DATABASE_URL.                                        *)
Ping == "redis" \in up

Passed(p) ==
    LET check == Head(todo[p])
    IN  CASE check = "load" -> IF p = "storage" THEN LoadStorage ELSE LoadServer
          [] check = "observe" -> InitTelemetry
          [] check \in {"files", "archives"} -> NewStore(check)
          [] check = "repository" -> NewRepository
          [] check = "redis" -> Ping
          [] check = "client" -> NewStorageClient
          [] check = "temporal" -> NewTemporalClient
          [] OTHER -> FALSE

-----------------------------------------------------------------------------
(* What starts the processes, and what they need.                          *)

Init ==
    /\ setting \in Settings
    /\ up = IF setting.platform = "compose" THEN {} ELSE Services
    /\ made = IF setting.platform = "compose" THEN {} ELSE {"files", "archives"}
    /\ pc = [p \in Processes |-> "off"]
    /\ todo = [p \in Processes |-> <<>>]
    /\ asked = {}
    /\ outages = MaxOutages

(* depends_on: the storage service waits for the migrations, but not for   *)
(* the buckets, and the other two wait until it is healthy.                *)
(* Mutant: nobody waits for the migrations.                                *)
DependsOn_Database(p) ==
    IF p = "storage" THEN {"postgres", "objects"} \subseteq up ELSE pc["storage"] = "serving"
DependsOn(p) ==
    IF p = "storage" THEN "schema" \in made /\ {"postgres", "objects"} \subseteq up
    ELSE pc["storage"] = "serving"

(* Cloud Run: only the worker has a minimum of instances.                  *)
OnDemand == Processes \ {"worker"}

Ask(p) ==
    /\ setting.platform = "cloudrun" /\ p \in OnDemand \ asked
    /\ asked' = asked \cup {p}
    /\ UNCHANGED <<setting, up, made, pc, todo, outages>>

Start(p) ==
    /\ \/ setting.platform = "compose" /\ pc[p] = "off" /\ DependsOn(p)
       \/ setting.platform = "cloudrun" /\ pc[p] \in {"off", "exited"} /\ p \in asked \cup {"worker"}
    /\ pc' = [pc EXCEPT ![p] = "booting"]
    /\ todo' = [todo EXCEPT ![p] = Main[p]]
    /\ UNCHANGED <<setting, up, made, asked, outages>>

(* The migrations, by the service of that name or by hand.                 *)
Migrate ==
    /\ "postgres" \in up /\ "schema" \notin made
    /\ made' = made \cup {"schema"}
    /\ UNCHANGED <<setting, up, pc, todo, asked, outages>>

(* minio-init makes one bucket after the other.                            *)
MakeBucket(bucket) ==
    /\ "objects" \in up /\ bucket \notin made /\ (bucket = "archives" => "files" \in made)
    /\ made' = made \cup {bucket}
    /\ UNCHANGED <<setting, up, pc, todo, asked, outages>>

Recover(s) ==
    /\ s \notin up
    /\ up' = up \cup {s}
    /\ UNCHANGED <<setting, made, pc, todo, asked, outages>>

Outage(s) ==
    /\ s \in up /\ outages > 0
    /\ up' = up \ {s} /\ outages' = outages - 1
    /\ UNCHANGED <<setting, made, pc, todo, asked>>

-----------------------------------------------------------------------------
(* The processes.                                                          *)

(* The end of a process, with os.Exit, log.Fatalf or a signal.             *)
Exit(p) == pc' = [pc EXCEPT ![p] = "exited"]

Check(p) ==
    /\ pc[p] = "booting" /\ todo[p] # <<>> /\ Passed(p)
    /\ todo' = [todo EXCEPT ![p] = Tail(@)]
    /\ UNCHANGED <<setting, up, made, pc, asked, outages>>

CheckFails(p) ==
    /\ pc[p] = "booting" /\ todo[p] # <<>> /\ ~ Passed(p)
    /\ Exit(p)
    /\ UNCHANGED <<setting, up, made, todo, asked, outages>>

ListenAndServe(p) ==
    /\ p # "worker" /\ pc[p] = "booting" /\ todo[p] = <<>>
    /\ pc' = [pc EXCEPT ![p] = "serving"]
    /\ UNCHANGED <<setting, up, made, todo, asked, outages>>

(* The worker: Run needs Temporal once more.                               *)
Run ==
    /\ pc["worker"] = "booting" /\ todo["worker"] = <<>> /\ "temporal" \in up
    /\ pc' = [pc EXCEPT !["worker"] = "serving"]
    /\ UNCHANGED <<setting, up, made, todo, asked, outages>>

(* Mutant: the error of Run is only logged, and the process stays idle.    *)
RunFails_Logged ==
    /\ pc["worker"] = "booting" /\ todo["worker"] = <<>> /\ "temporal" \notin up
    /\ pc' = [pc EXCEPT !["worker"] = "idle"]
    /\ UNCHANGED <<setting, up, made, todo, asked, outages>>
RunFails ==
    /\ pc["worker"] = "booting" /\ todo["worker"] = <<>> /\ "temporal" \notin up
    /\ Exit("worker")
    /\ UNCHANGED <<setting, up, made, todo, asked, outages>>

(* A process is killed or interrupted, or cannot listen on its port.       *)
Die(p) ==
    /\ pc[p] \in {"booting", "serving"} /\ outages > 0
    /\ outages' = outages - 1
    /\ Exit(p)
    /\ UNCHANGED <<setting, up, made, todo, asked>>

(* The request is served.                                                  *)
Serve(p) ==
    /\ pc[p] = "serving" /\ p \in asked
    /\ asked' = asked \ {p}
    /\ UNCHANGED <<setting, up, made, pc, todo, outages>>

(* An instance for which nobody asks is taken down.                        *)
ScaleDown(p) ==
    /\ setting.platform = "cloudrun" /\ p \in OnDemand \ asked /\ pc[p] = "serving"
    /\ pc' = [pc EXCEPT ![p] = "off"]
    /\ UNCHANGED <<setting, up, made, todo, asked, outages>>

-----------------------------------------------------------------------------
ProcessStep(p) == Check(p) \/ CheckFails(p) \/ ListenAndServe(p)
WorkerStep == Run \/ RunFails

Next ==
    \/ \E p \in Processes : Start(p) \/ ProcessStep(p) \/ Die(p)
    \/ \E p \in Processes : Ask(p) \/ Serve(p) \/ ScaleDown(p)
    \/ WorkerStep
    \/ \E s \in Services : Recover(s) \/ Outage(s)
    \/ Migrate \/ \E bucket \in {"files", "archives"} : MakeBucket(bucket)

(* Processes run, services that have failed come back, and Cloud Run       *)
(* starts the worker, and the others for a request that waits.  Nobody has *)
(* to ask, or to run the migrations.                                       *)
Fairness ==
    /\ \A p \in Processes : /\ WF_vars(ProcessStep(p))
                            /\ WF_vars(setting.platform = "cloudrun" /\ Start(p))
    /\ WF_vars(WorkerStep)
    /\ \A s \in Services : WF_vars(Recover(s))

Spec == Init /\ [][Next]_vars
LiveSpec == Spec /\ Fairness

-----------------------------------------------------------------------------
(* Properties.                                                             *)

(* The parts of the state have their types.                                *)
TypeOK ==
    /\ setting \in Settings
    /\ up \subseteq Services
    /\ made \subseteq {"schema", "files", "archives"}
    /\ pc \in [Processes -> {"off", "booting", "serving", "exited"}]
    /\ todo \in [Processes -> Seq(Checks)]
    /\ asked \subseteq OnDemand
    /\ outages \in 0..MaxOutages

Serving(p) == pc[p] = "serving"

(* Under compose nothing serves before the tables exist, whoever has been  *)
(* down in between: the storage service waits for the migrations, and the  *)
(* others for it.                                                          *)
ServesOnSchema ==
    setting.platform = "compose" => \A p \in Processes : Serving(p) => "schema" \in made

(* What the code of each process uses once it serves: the store of the     *)
(* backend, and its signatures, without which no file is uploaded; the     *)
(* tables, and the settings that are used request by request.              *)
Needs(p) ==
    CASE p = "storage" -> {"backend", "signatures", "database", "schema"} \cup
                          IF setting.backend = "s3" THEN {"files", "archives", "public"} ELSE {"dirs"}
      [] p = "server" -> {"sizes", "ttl", "database", "schema", "google", "target"}
      [] OTHER -> {"sizes", "google", "target"}

Met(need) ==
    /\ setting.flaw # need
    /\ need = "backend" => setting.backend \in {"local", "s3"}
    /\ need = "signatures" => setting.backend = "s3"
    /\ need \in {"schema", "files", "archives"} => need \in made

(* The needs that no check looks at: that the local store signs nothing,   *)
(* what browsers reach, the file server's lifetimes and database, whether  *)
(* the storage service takes the address and the key, and, where no order  *)
(* is given, the tables.                                                   *)
Unasked(p) ==
    CASE p = "storage" -> {"signatures", "public"}
      [] p = "server" -> {"ttl", "database", "target"}
      [] OTHER -> {"target"}
Unordered == IF setting.platform = "cloudrun" THEN {"schema"} ELSE {}

(* What the checks vouch for.                                              *)
Vouched(p) == \A need \in Needs(p) \ (Unasked(p) \cup Unordered) : Met(need)

(* What serves can work, up to the needs just listed: whatever else it     *)
(* uses, a check was there that fails without it, wherever the services    *)
(* failed and came back in between, and what was found is still there.     *)
ServingCanWork ==
    \A p \in Processes : Serving(p) => Vouched(p)

(* On Cloud Run, what no check refuses comes to serve: the worker serves   *)
(* for good in the end, and the others whenever a request waits for them,  *)
(* however the services, and they themselves, have failed before.          *)
ServesOnDemand ==
    /\ setting.platform = "cloudrun" /\ Vouched("worker") => <>[]Serving("worker")
    /\ \A p \in OnDemand :
          (setting.platform = "cloudrun" /\ Vouched(p) /\ p \in asked) ~> Serving(p)

=============================================================================
