---------------------------- MODULE FileTransfer ----------------------------
(***************************************************************************)
(* Uploading and downloading files: the file server's HTTP handlers        *)
(* composed with the storage service and the object store.                 *)
(*                                                                         *)
(* An upload request carries a batch of parts.  For each part, in order,   *)
(* the file server reserves a row and a presigned URL by RPC, PUTs the     *)
(* bytes to the object store itself, and confirms size and checksum by     *)
(* RPC; the first failure ends the request, and what the earlier parts     *)
(* stored stays.  A handler may stop waiting at any time (the client hangs *)
(* up, a timeout, a lost reply, a crash): its RPC or PUT is then still     *)
(* under way and takes effect later, or never.                             *)
(*                                                                         *)
(* A download selects the row, then opens the object, and answers with the *)
(* row's size as Content-Length and the object's bytes as the body.        *)
(***************************************************************************)
EXTENDS StorageService

CONSTANTS
    Downloads,     \* the download requests
    Batches,       \* the batches of parts an upload request may carry
    MaxFileSize    \* the file server's limit on one part

ASSUME TransferAssumption ==
    /\ Batches \subseteq Seq(Content) \ {<<>>}
    /\ MaxFileSize \in Nat
    /\ None \notin [owner : Users, content : Content]
    /\ None \notin [user : Users, parts : Seq(Content), ids : Seq(Ids)]

VARIABLES
    up,     \* the upload handlers
    puts,   \* the last PUT each upload request sent to the object store
    dl      \* the download handlers

vars == <<files, objects, minted, rpc, up, puts, dl>>

(* An upload handler: `done` is the slice of results, one for each part    *)
(* that was confirmed; `id` is the reservation of the part under way.      *)
Upload == [pc : {"idle", "part", "reserving", "putting", "confirming",
                 "created", "rejected", "failed"},
           user : Users \cup {None},
           parts : Seq(Content),
           done : Seq([id : Ids, file : FileRow]),
           id : Ids \cup {None}]

Put == [state : {"none", "sent", "stored"},
        id : Ids \cup {None}, content : Content \cup {None}]

(* A download handler: `row` is what the SELECT returned, `body` the       *)
(* object opened after it, `got` what the client takes for the file.       *)
(* `seen` is history: the confirmed content the user had in the table when *)
(* the request arrived.                                                    *)
Download == [pc : {"idle", "lookup", "fetch", "stream", "ok", "cut", "missing", "error"},
             user : Users \cup {None},
             id : Ids \cup {None},
             seen : Content \cup {None},
             row : FileRow \cup {None},
             body : Content \cup {None},
             got : Content \cup {None}]

TypeOK ==
    /\ StorageTypeOK
    /\ up \in [Uploads -> Upload]
    /\ puts \in [Uploads -> Put]
    /\ dl \in [Downloads -> Download]

Init ==
    /\ StorageInit
    /\ up = [r \in Uploads |-> [pc |-> "idle", user |-> None, parts |-> <<>>,
                                done |-> <<>>, id |-> None]]
    /\ puts = [r \in Uploads |-> [state |-> "none", id |-> None, content |-> None]]
    /\ dl = [d \in Downloads |-> [pc |-> "idle", user |-> None, id |-> None, seen |-> None,
                                  row |-> None, body |-> None, got |-> None]]

-----------------------------------------------------------------------------
(* Uploads.                                                                *)

(* The part being worked on.                                               *)
Part(r) == up[r].parts[Len(up[r].done) + 1]

UpStart(r) ==
    /\ up[r].pc = "idle"
    /\ \E u \in Users, b \in Batches :
          up' = [up EXCEPT ![r].pc = "part", ![r].user = u, ![r].parts = b]
    /\ UNCHANGED <<files, objects, minted, rpc, puts, dl>>

(* A part over the limit is refused before anything is reserved for it.    *)
UpReject(r) ==
    /\ up[r].pc = "part"
    /\ Len(up[r].done) < Len(up[r].parts)
    /\ SizeOf[Part(r)] > MaxFileSize
    /\ up' = [up EXCEPT ![r].pc = "rejected"]
    /\ UNCHANGED <<files, objects, minted, rpc, puts, dl>>

UpReserve(r) ==
    /\ up[r].pc = "part"
    /\ Len(up[r].done) < Len(up[r].parts)
    /\ SizeOf[Part(r)] <= MaxFileSize
    /\ up' = [up EXCEPT ![r].pc = "reserving"]
    /\ CallGetUploadURL(r, up[r].user)
    /\ UNCHANGED <<files, objects, minted, puts, dl>>

(* The URL arrives, and the body is sent to it.                            *)
UpPut(r) ==
    /\ up[r].pc = "reserving" /\ rpc[r].stage = "ok"
    /\ up' = [up EXCEPT ![r].pc = "putting", ![r].id = rpc[r].id]
    /\ puts' = [puts EXCEPT ![r] = [state |-> "sent", id |-> rpc[r].id, content |-> Part(r)]]
    /\ UNCHANGED <<files, objects, minted, rpc, dl>>

(* The object store takes a PUT, whether or not its sender still waits.    *)
StorePut(r) ==
    /\ puts[r].state = "sent"
    /\ PutObject(puts[r].id, puts[r].content)
    /\ puts' = [puts EXCEPT ![r].state = "stored"]
    /\ UNCHANGED <<files, minted, rpc, up, dl>>

(* Mutated form: confirming without waiting for the object store's answer. *)
UpConfirm_Unanswered(r) ==
    /\ up[r].pc = "putting"
    /\ up' = [up EXCEPT ![r].pc = "confirming"]
    /\ CallConfirmUpload(r, up[r].user, up[r].id, Part(r))
    /\ UNCHANGED <<files, objects, minted, puts, dl>>

(* 200 from the object store: confirm what was sent.                       *)
UpConfirm(r) ==
    /\ up[r].pc = "putting" /\ puts[r].state = "stored"
    /\ up' = [up EXCEPT ![r].pc = "confirming"]
    /\ CallConfirmUpload(r, up[r].user, up[r].id, Part(r))
    /\ UNCHANGED <<files, objects, minted, puts, dl>>

(* The confirmed row joins the results, and the loop goes on.              *)
UpConfirmed(r) ==
    /\ up[r].pc = "confirming" /\ rpc[r].stage = "ok"
    /\ up' = [up EXCEPT ![r].pc = "part",
                        ![r].done = Append(@, [id |-> rpc[r].id, file |-> rpc[r].reply])]
    /\ UNCHANGED <<files, objects, minted, rpc, puts, dl>>

(* Mutated form: answering after the first part.                           *)
UpCreated_Early(r) ==
    /\ up[r].pc = "part"
    /\ Len(up[r].done) > 0
    /\ up' = [up EXCEPT ![r].pc = "created"]
    /\ UNCHANGED <<files, objects, minted, rpc, puts, dl>>

(* 201 with the results.                                                   *)
UpCreated(r) ==
    /\ up[r].pc = "part"
    /\ Len(up[r].done) = Len(up[r].parts)
    /\ up' = [up EXCEPT ![r].pc = "created"]
    /\ UNCHANGED <<files, objects, minted, rpc, puts, dl>>

(* Mutated form: trying the part again instead of ending the request.      *)
UpRpcError_Retries(r) ==
    /\ up[r].pc \in {"reserving", "confirming"} /\ rpc[r].stage = "error"
    /\ up' = [up EXCEPT ![r].pc = "part"]
    /\ UNCHANGED <<files, objects, minted, rpc, puts, dl>>

(* An RPC answered with an error: 500.                                     *)
UpRpcError(r) ==
    /\ up[r].pc \in {"reserving", "confirming"} /\ rpc[r].stage = "error"
    /\ up' = [up EXCEPT ![r].pc = "failed"]
    /\ UNCHANGED <<files, objects, minted, rpc, puts, dl>>

(* Mutated form: no timeout, only an answer ends the wait.                 *)
UpPutError_NoTimeout(r) ==
    /\ up[r].pc = "putting" /\ puts[r].state = "stored"
    /\ up' = [up EXCEPT ![r].pc = "failed"]
    /\ UNCHANGED <<files, objects, minted, rpc, puts, dl>>

(* A PUT refused, failed, or ended by http.Client after five minutes: 500. *)
UpPutError(r) ==
    /\ up[r].pc = "putting"
    /\ up' = [up EXCEPT ![r].pc = "failed"]
    /\ UNCHANGED <<files, objects, minted, rpc, puts, dl>>

(* The client goes away, the connection to the storage service breaks, or  *)
(* the file server dies.                                                   *)
UpGiveUp(r) ==
    /\ up[r].pc \in {"part", "reserving", "confirming"}
    /\ up' = [up EXCEPT ![r].pc = "failed"]
    /\ UNCHANGED <<files, objects, minted, rpc, puts, dl>>

-----------------------------------------------------------------------------
(* Downloads.                                                              *)

DlStart(d) ==
    /\ dl[d].pc = "idle"
    /\ \E u \in Users, i \in Ids :
          dl' = [dl EXCEPT ![d].pc = "lookup", ![d].user = u, ![d].id = i,
                           ![d].seen = IF IsConfirmed(i) /\ files[i].owner = u
                                       THEN files[i].checksum ELSE None]
    /\ UNCHANGED <<files, objects, minted, rpc, up, puts>>

(* Fetch: SELECT the row by id and owner.                                  *)
DlLookup(d) ==
    LET i == dl[d].id
    IN  /\ dl[d].pc = "lookup"
        /\ IF files[i] # None /\ files[i].owner = dl[d].user
           THEN dl' = [dl EXCEPT ![d].pc = "fetch", ![d].row = files[i]]
           ELSE dl' = [dl EXCEPT ![d].pc = "missing"]
        /\ UNCHANGED <<files, objects, minted, rpc, up, puts>>

(* Fetch: open the object at the row's path, as it is by then.             *)
DlFetch(d) ==
    LET i == dl[d].id
    IN  /\ dl[d].pc = "fetch"
        /\ IF objects[i] # None
           THEN dl' = [dl EXCEPT ![d].pc = "stream", ![d].body = objects[i]]
           ELSE dl' = [dl EXCEPT ![d].pc = "missing"]
        /\ UNCHANGED <<files, objects, minted, rpc, up, puts>>

(* The response: Content-Length is the size in the row, and net/http lets  *)
(* no byte past it out.  A size of 0 makes an empty body a complete one; a *)
(* body of any other length than announced is one the client sees cut.     *)
DlDeliver(d) ==
    LET announced == dl[d].row.size
        actual == SizeOf[dl[d].body]
    IN  /\ dl[d].pc = "stream"
        /\ IF announced \in {actual, 0}
           THEN dl' = [dl EXCEPT ![d].pc = "ok",
                                 ![d].got = IF announced = actual THEN dl[d].body ELSE EmptyBytes]
           ELSE dl' = [dl EXCEPT ![d].pc = "cut"]
        /\ UNCHANGED <<files, objects, minted, rpc, up, puts>>

(* The database, the object store, the stream or either process fails.     *)
DlFail(d) ==
    /\ dl[d].pc \in {"lookup", "fetch", "stream"}
    /\ dl' = [dl EXCEPT ![d].pc = "error"]
    /\ UNCHANGED <<files, objects, minted, rpc, up, puts>>

-----------------------------------------------------------------------------

UpStep(r) ==
    \/ UpReject(r) \/ UpReserve(r) \/ UpPut(r) \/ UpConfirm(r)
    \/ UpConfirmed(r) \/ UpCreated(r) \/ UpRpcError(r) \/ UpPutError(r)

StorageStep(r) == RpcStep(r) /\ UNCHANGED <<up, puts, dl>>

DlStep(d) == DlLookup(d) \/ DlFetch(d) \/ DlDeliver(d)

Next ==
    \/ \E r \in Uploads :
          \/ UpStart(r) \/ UpStep(r) \/ UpGiveUp(r)
          \/ StorageStep(r) \/ StorePut(r)
    \/ \E d \in Downloads : DlStart(d) \/ DlStep(d) \/ DlFail(d)

Spec == Init /\ [][Next]_vars

(* Handlers that can take a step do, and the storage service ends every    *)
(* RPC it was sent.  The object store owes nobody an answer: a PUT may be  *)
(* swallowed, and only the HTTP client's timeout ends the wait for it.     *)
Fairness ==
    /\ \A r \in Uploads : WF_vars(UpStep(r)) /\ WF_vars(StorageStep(r))
    /\ \A d \in Downloads : WF_vars(DlStep(d))

FairSpec == Spec /\ Fairness

-----------------------------------------------------------------------------
(* Safety.                                                                 *)

(* A row with a checksum describes its object: the object is there, with   *)
(* the row's size and checksum, whichever handlers were abandoned and      *)
(* however late their RPCs and PUTs arrived.                               *)
ConfirmedIsStored ==
    \A i \in Ids : IsConfirmed(i) =>
        /\ objects[i] = files[i].checksum
        /\ files[i].size = SizeOf[objects[i]]

(* Every result a handler holds, and so every file of a 201, is a row that *)
(* is still in the table as it was returned: confirmed, owned by the       *)
(* requester, for the part in that position, and no two parts share a row. *)
ResultsAreDurable ==
    \A r \in Uploads :
        LET done == up[r].done
        IN  /\ Len(done) <= Len(up[r].parts)
            /\ up[r].pc = "created" => Len(done) = Len(up[r].parts)
            /\ \A k \in 1..Len(done) :
                  /\ files[done[k].id] = done[k].file
                  /\ done[k].file.owner = up[r].user
                  /\ done[k].file.checksum = up[r].parts[k]
                  /\ \A j \in 1..(k-1) : done[j].id # done[k].id

(* A download that began after the file was confirmed finds it, and what   *)
(* the client takes for the file is the file.                              *)
ConfirmedIsServed ==
    \A d \in Downloads : dl[d].seen # None =>
        /\ dl[d].pc \notin {"missing", "cut"}
        /\ dl[d].pc = "ok" => dl[d].got = dl[d].seen

(* A failed request leaves at most one reserved row behind: the loop stops *)
(* at the first failure, so reserved rows never outnumber the requests     *)
(* that are unfinished or failed.                                          *)
LeftoversAreBounded ==
    Cardinality({i \in Ids : IsReserved(i)})
        <= Cardinality({r \in Uploads : up[r].pc \notin {"idle", "part", "created", "rejected"}})

(* No object is without a row that names it: the row is inserted before    *)
(* the URL exists.                                                         *)
ObjectsHaveRows == \A i \in Ids : objects[i] # None => files[i] # None

(* A confirmed file never changes again, in either store: no late PUT or   *)
(* RPC of any request touches it.                                          *)
ConfirmedIsFinal ==
    [][\A i \in Ids : IsConfirmed(i) =>
          files'[i] = files[i] /\ objects'[i] = objects[i]]_vars

(* The two handlers together implement the catalog: a file appears with    *)
(* the UPDATE that confirms it.                                            *)
CatalogOf(i) ==
    IF IsConfirmed(i) THEN [owner |-> files[i].owner, content |-> files[i].checksum] ELSE None

AcceptedBy(r) ==
    IF up[r].pc = "created"
    THEN [user |-> up[r].user, parts |-> up[r].parts,
          ids |-> [k \in DOMAIN up[r].done |-> up[r].done[k].id]]
    ELSE None

ReadOf(d) ==
    LET phase == CASE dl[d].pc = "idle" -> "idle"
                   [] dl[d].pc \in {"lookup", "fetch", "stream"} -> "reading"
                   [] OTHER -> "answered"
    IN  [phase |-> phase, seen |-> dl[d].seen,
         answer |-> IF dl[d].pc = "error" THEN "fault" ELSE dl[d].got]

Catalog == INSTANCE FileCatalog WITH
    catalog <- [i \in Ids |-> CatalogOf(i)],
    accepted <- [r \in Uploads |-> AcceptedBy(r)],
    reads <- [d \in Downloads |-> ReadOf(d)]

ImplementsCatalog == Catalog!Spec

-----------------------------------------------------------------------------
(* Liveness.                                                               *)

(* Every upload request is answered, even when the object store swallows   *)
(* the PUT.                                                                *)
UploadsAreAnswered ==
    \A r \in Uploads :
        up[r].pc = "part" ~> up[r].pc \in {"created", "rejected", "failed"}

=============================================================================
