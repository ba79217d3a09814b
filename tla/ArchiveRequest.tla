----------------------------- MODULE ArchiveRequest -----------------------------
(***************************************************************************)
(* How an archive is asked for and waited for: the request that checks the *)
(* files and starts a workflow, and the web sockets on which browsers are  *)
(* told of its end.  A socket has two goroutines, the handler that waits   *)
(* for the workflow and a reader that only notices that the browser left.  *)
(* What the workflow does is ArchiveWorkflow's; here it runs and ends.     *)
(***************************************************************************)
EXTENDS Naturals, Sequences, FiniteSets

CONSTANTS
    Users,
    Files,
    Requests,   \* the requests for an archive
    Archives,   \* the ids that can be drawn
    Watchers,   \* the browsers that can watch at once
    MaxIds,     \* bound on the ids of a request
    None

ASSUME RequestAssumption == MaxIds \in Nat /\ None \notin Archives

VARIABLES
    owner,      \* whose each file is
    presigns,   \* whether the object store signs URLs: S3 does, the local one does not
    req,        \* the requests
    workflow,   \* the workflow of each archive
    socket      \* the sockets, each with its browser and goroutines

vars == <<owner, presigns, req, workflow, socket>>

IdLists == UNION {[1..n -> Files] : n \in 0..MaxIds}

Request == [pc : {"new", "check", "start", "answered"}, user : Users, ids : IdLists,
            status : {0, 202, 400, 500}, archive : Archives \cup {None}]

Socket == [handler : {"idle", "auth", "get", "write", "ended"},
           reader : {"none", "reading", "ended"},
           conn : {"none", "open", "closed"},
           browser : {"none", "there", "left"},
           canceled : BOOLEAN,
           archive : Archives \cup {None},
           result : {"none", "completed", "error"},
           told : {"none", "completed", "error"}]

NoSocket == [handler |-> "idle", reader |-> "none", conn |-> "none", browser |-> "none",
             canceled |-> FALSE, archive |-> None, result |-> "none", told |-> "none"]

Init ==
    /\ owner \in [Files -> Users]
    /\ presigns \in BOOLEAN
    /\ req \in [Requests -> [pc : {"new"}, user : Users, ids : IdLists, status : {0}, archive : {None}]]
    /\ workflow = [a \in Archives |-> "none"]
    /\ socket = [w \in Watchers |-> NoSocket]

Ids(r) == {req[r].ids[i] : i \in DOMAIN req[r].ids}

-----------------------------------------------------------------------------
(* The request for an archive.                                             *)

Answer(r, status, a) ==
    req' = [req EXCEPT ![r] = [pc |-> "answered", user |-> @.user, ids |-> @.ids,
                               status |-> status, archive |-> a]]

DownloadMultiple(r) ==
    /\ req[r].pc = "new" /\ req[r].ids # <<>>
    /\ req' = [req EXCEPT ![r].pc = "check"]
    /\ UNCHANGED <<owner, presigns, workflow, socket>>

EmptyList(r) ==
    /\ req[r].pc = "new" /\ req[r].ids = <<>>
    /\ Answer(r, 400, None)
    /\ UNCHANGED <<owner, presigns, workflow, socket>>

(* GetDownloadURLs: as many rows of the user's as ids, or none of them;    *)
(* the URLs themselves are dropped.                                        *)
(* Mutant: it is enough that some are found.                               *)
AllFound_Some(r) == \E f \in Ids(r) : owner[f] = req[r].user
AllFound(r) == Cardinality({f \in Ids(r) : owner[f] = req[r].user}) = Len(req[r].ids)

GetDownloadURLs(r) ==
    /\ req[r].pc = "check" /\ AllFound(r) /\ presigns
    /\ req' = [req EXCEPT ![r].pc = "start"]
    /\ UNCHANGED <<owner, presigns, workflow, socket>>

FilesMissing(r) ==
    /\ req[r].pc = "check" /\ ~ AllFound(r)
    /\ Answer(r, 500, None)
    /\ UNCHANGED <<owner, presigns, workflow, socket>>

PresignRefused(r) ==
    /\ req[r].pc = "check" /\ AllFound(r) /\ ~ presigns
    /\ Answer(r, 500, None)
    /\ UNCHANGED <<owner, presigns, workflow, socket>>

(* The call of the storage service fails, or of Temporal before it took    *)
(* effect.                                                                 *)
RequestFail(r) ==
    /\ req[r].pc \in {"check", "start"}
    /\ Answer(r, 500, None)
    /\ UNCHANGED <<owner, presigns, workflow, socket>>

ExecuteWorkflow(r, a) ==
    /\ req[r].pc = "start" /\ workflow[a] = "none"
    /\ workflow' = [workflow EXCEPT ![a] = "running"]
    /\ Answer(r, 202, a)
    /\ UNCHANGED <<owner, presigns, socket>>

(* The workflow is started and the answer is lost: nobody knows its id.    *)
StartFail(r, a) ==
    /\ req[r].pc = "start" /\ workflow[a] = "none"
    /\ workflow' = [workflow EXCEPT ![a] = "running"]
    /\ Answer(r, 500, None)
    /\ UNCHANGED <<owner, presigns, socket>>

(* Temporal.                                                               *)
WorkflowEnds(a, how) ==
    /\ workflow[a] = "running"
    /\ workflow' = [workflow EXCEPT ![a] = how]
    /\ UNCHANGED <<owner, presigns, req, socket>>

-----------------------------------------------------------------------------
(* A web socket.                                                           *)

Become(w, s) == socket' = [socket EXCEPT ![w] = s] /\ UNCHANGED <<owner, presigns, req, workflow>>

(* A browser opens the endpoint that a 202 named.                          *)
Connect(w, a) ==
    /\ socket[w].handler = "idle"
    /\ \E r \in Requests : req[r].status = 202 /\ req[r].archive = a
    /\ Become(w, [NoSocket EXCEPT !.handler = "auth", !.browser = "there", !.archive = a])

(* No cookie, an invalid token, no upgrade.                                *)
Refuse(w) ==
    /\ socket[w].handler = "auth"
    /\ Become(w, [socket[w] EXCEPT !.handler = "ended"])

(* The reader starts before the handler asks Temporal.                     *)
Upgrade(w) ==
    /\ socket[w].handler = "auth"
    /\ Become(w, [socket[w] EXCEPT !.handler = "get", !.reader = "reading", !.conn = "open"])

(* The browser leaves, by closing or by losing its connection.             *)
Leave(w) ==
    /\ socket[w].browser = "there"
    /\ Become(w, [socket[w] EXCEPT !.browser = "left"])

(* ReadMessage returns an error.  Mutant: the handler is not told.         *)
ReaderEnds_Silent(w) ==
    /\ socket[w].reader = "reading" /\ socket[w].browser = "left"
    /\ Become(w, [socket[w] EXCEPT !.reader = "ended", !.conn = "closed"])
ReaderEnds(w) ==
    /\ socket[w].reader = "reading" /\ socket[w].browser = "left"
    /\ Become(w, [socket[w] EXCEPT !.reader = "ended", !.conn = "closed", !.canceled = TRUE])

(* run.Get returns when the workflow has ended.                            *)
(* Mutants: the kind of its end is not looked at; a failure is waited out. *)
GetResult_Waits(w) ==
    /\ socket[w].handler = "get" /\ workflow[socket[w].archive] = "completed"
    /\ Become(w, [socket[w] EXCEPT !.handler = "write", !.result = "completed"])
GetResult_Any(w) ==
    /\ socket[w].handler = "get" /\ workflow[socket[w].archive] \in {"completed", "failed"}
    /\ Become(w, [socket[w] EXCEPT !.handler = "write", !.result = "completed"])
GetResult(w) ==
    /\ socket[w].handler = "get" /\ workflow[socket[w].archive] \in {"completed", "failed"}
    /\ Become(w, [socket[w] EXCEPT !.handler = "write",
           !.result = IF workflow[socket[w].archive] = "completed" THEN "completed" ELSE "error"])

(* Temporal cannot be reached.                                             *)
GetFails(w) ==
    /\ socket[w].handler = "get"
    /\ Become(w, [socket[w] EXCEPT !.handler = "write", !.result = "error"])

(* The context ended while the handler waited, or by the time it looks.    *)
Canceled(w) ==
    /\ socket[w].handler \in {"get", "write"} /\ socket[w].canceled
    /\ Become(w, [socket[w] EXCEPT !.handler = "ended"])

(* The message reaches a browser that is still there.  Returning cancels   *)
(* the context and leaves the connection to the reader.                    *)
Write(w) ==
    /\ socket[w].handler = "write"
    /\ Become(w, [socket[w] EXCEPT !.handler = "ended", !.canceled = TRUE,
           !.told = IF socket[w].browser = "there" THEN socket[w].result ELSE "none"])

(* The place of a socket that is over is taken by the next.                *)
Forget(w) ==
    /\ socket[w].handler = "ended" /\ socket[w].conn # "open"
    /\ Become(w, NoSocket)

-----------------------------------------------------------------------------
SocketStep(w) == GetResult(w) \/ Canceled(w) \/ Write(w)
ReaderStep(w) == ReaderEnds(w)

Next ==
    \/ \E r \in Requests :
          \/ DownloadMultiple(r) \/ EmptyList(r) \/ GetDownloadURLs(r) \/ FilesMissing(r)
          \/ PresignRefused(r) \/ RequestFail(r)
          \/ \E a \in Archives : ExecuteWorkflow(r, a) \/ StartFail(r, a)
    \/ \E a \in Archives, how \in {"completed", "failed"} : WorkflowEnds(a, how)
    \/ \E w \in Watchers :
          \/ \E a \in Archives : Connect(w, a)
          \/ Refuse(w) \/ Upgrade(w) \/ Leave(w) \/ Forget(w)
          \/ SocketStep(w) \/ ReaderStep(w) \/ GetFails(w)

(* The goroutines of a socket run when they can.  Nothing obliges a        *)
(* workflow to end, a browser to leave or a call to fail.                  *)
Fairness == \A w \in Watchers : WF_vars(SocketStep(w)) /\ WF_vars(ReaderStep(w))

Spec == Init /\ [][Next]_vars
LiveSpec == Spec /\ Fairness

-----------------------------------------------------------------------------
(* Properties.                                                             *)

(* Requests, workflows and sockets have their types, and the two           *)
(* goroutines of a socket belong to its connection.                        *)
TypeOK ==
    /\ owner \in [Files -> Users] /\ presigns \in BOOLEAN
    /\ req \in [Requests -> Request]
    /\ workflow \in [Archives -> {"none", "running", "completed", "failed"}]
    /\ socket \in [Watchers -> Socket]
    /\ \A w \in Watchers :
          socket[w].handler \in {"get", "write"} /\ socket[w].reader = "reading"
              => socket[w].conn = "open"

(* FileService.StartArchiveWorkflow: an accepted request has a workflow of *)
(* its own, and its files, no two the same, are all the user's.            *)
AcceptedIsOwned ==
    \A r \in Requests : req[r].status = 202 =>
        /\ workflow[req[r].archive] # "none"
        /\ Cardinality(Ids(r)) = Len(req[r].ids)
        /\ \A f \in Ids(r) : owner[f] = req[r].user
        /\ \A s \in Requests \ {r} : req[s].archive # req[r].archive

(* ArchiveWSHandler: a browser is told that its archive is completed only  *)
(* when it is, whatever ended beside it.                                   *)
ToldIsTrue ==
    \A w \in Watchers : socket[w].told = "completed" => workflow[socket[w].archive] = "completed"

(* A browser that stays is told of the end of its workflow.                *)
StayingIsTold ==
    \A w \in Watchers :
        (socket[w].handler = "get" /\ workflow[socket[w].archive] \in {"completed", "failed"})
            ~> (socket[w].told # "none" \/ socket[w].browser # "there")

(* A browser that leaves, at any moment, takes its socket along: both      *)
(* goroutines end and the connection is closed, also while the workflow    *)
(* still runs.                                                             *)
LeavingReleases ==
    \A w \in Watchers :
        (socket[w].browser = "left" /\ socket[w].conn = "open")
            ~> (socket[w].handler \in {"ended", "idle"} /\ socket[w].conn # "open")

=============================================================================
