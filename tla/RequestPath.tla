------------------------------ MODULE RequestPath ------------------------------
(***************************************************************************)
(* The way of a browser's request through the file server and, as RPCs, to *)
(* the storage service: the middleware that counts, the redirect of paths  *)
(* with a trailing slash, the mux, RequireAuth, which puts the user into   *)
(* the context of the request, the handler, whose RPCs carry that user and *)
(* the service key in headers, the guards of the storage service, and the  *)
(* status on the way back.  What the operations do is in other modules.    *)
(***************************************************************************)
EXTENDS Naturals, Sequences

CONSTANTS
    Users,
    Requests,
    Wishes,   \* what may be asked by each request
    Keys,     \* the values of SERVICE_KEY, with None for no key
    None

ASSUME NoneAssumption == None \notin Users

(* The routes of the mux; list and upload share their path.                *)
Method == [health |-> "GET", sign_in |-> "POST", logout_all |-> "POST", list |-> "GET",
           upload |-> "POST", metadata |-> "GET", download |-> "GET", archive |-> "POST",
           ws |-> "GET"]

(* A page for a listing, and for an upload the files in its form.          *)
WishType == [op : DOMAIN Method, slash : BOOLEAN, page : {1, 2}, parts : Nat \ {0},
             token : Users \cup {None}]

ASSUME WishesAssumption == Wishes \in [Requests -> SUBSET WishType]

Path(op) == IF op = "upload" THEN "list" ELSE op
Unprotected == {"health", "sign_in"}

(* The calls of each handler, in order: RPCs, and the start of a workflow. *)
(* Each file of an upload is reserved, stored and confirmed before the     *)
(* next is looked at.                                                      *)
Calls(op, parts) ==
    CASE op = "list" -> <<"ListFiles">>
      [] op = "metadata" -> <<"GetMetadata">>
      [] op = "download" -> <<"GetFile">>
      [] op = "upload" -> [i \in 1..2 * parts |->
                              IF i % 2 = 1 THEN "GetUploadURL" ELSE "ConfirmUpload"]
      [] op = "archive" -> <<"GetDownloadURLs", "ExecuteWorkflow">>
      [] OTHER -> <<>>

Success(op) == CASE op = "upload" -> 201 [] op = "archive" -> 202 [] op = "ws" -> 101 [] OTHER -> 200

VARIABLES
    keys,      \* SERVICE_KEY as the file server and the storage service have it
    sessions,  \* the users whose access token is valid
    wish,      \* what a browser has asked for; token is the token's owner
    req,       \* the request as it is served now, which a redirect changes
    at,        \* where its handler is
    user,      \* the user in the context of the request
    left,      \* the calls its handler has still to make
    call,      \* the call under way, with its headers
    did,       \* what the storage service and Temporal have done for it
    seen,      \* the statuses the browser has got
    counted,   \* the statuses in http.server.requests.total
    gone       \* the requests whose browser has left

vars == <<keys, sessions, wish, req, at, user, left, call, did, seen, counted, gone>>

NoCall == [st |-> "none", rpc |-> "none", key |-> None, user |-> None, page |-> 1]

Init ==
    /\ keys \in [server : Keys, storage : Keys]
    /\ sessions \in SUBSET Users
    /\ wish = [r \in Requests |-> [op |-> "list", slash |-> FALSE, page |-> 1, parts |-> 1,
                               token |-> None]]
    /\ req = [r \in Requests |-> [path |-> "list", method |-> "GET", slash |-> FALSE, page |-> 1]]
    /\ at = [r \in Requests |-> "idle"]
    /\ user = [r \in Requests |-> None]
    /\ left = [r \in Requests |-> <<>>]
    /\ call = [r \in Requests |-> NoCall]
    /\ did = [r \in Requests |-> <<>>]
    /\ seen = [r \in Requests |-> <<>>] /\ counted = [r \in Requests |-> <<>>]
    /\ gone = {}

-----------------------------------------------------------------------------
(* The browser.  Of a query, only the page matters, and of a form the      *)
(* number of its files.                                                    *)

Send(r) ==
    /\ at[r] = "idle"
    /\ \E w \in Wishes[r] :
          /\ wish' = [wish EXCEPT ![r] = w]
          /\ req' = [req EXCEPT ![r] = [path |-> Path(w.op), method |-> Method[w.op],
                                        slash |-> w.slash, page |-> w.page]]
    /\ at' = [at EXCEPT ![r] = "arrived"]
    /\ UNCHANGED <<keys, sessions, user, left, call, did, seen, counted, gone>>

(* After a 301 a browser asks again with GET, at the path it was given,    *)
(* which has lost its query.                                               *)
Follow(r) ==
    /\ at[r] = "redirected" /\ r \notin gone
    /\ req' = [req EXCEPT ![r] = [path |-> @.path, method |-> "GET", slash |-> FALSE, page |-> 1]]
    /\ at' = [at EXCEPT ![r] = "arrived"]
    /\ UNCHANGED <<keys, sessions, wish, user, left, call, did, seen, counted, gone>>

Leave(r) ==
    /\ at[r] \notin {"idle", "done"} /\ r \notin gone
    /\ gone' = gone \cup {r}
    /\ UNCHANGED <<keys, sessions, wish, req, at, user, left, call, did, seen, counted>>

(* A logout on another device.                                             *)
Revoke(u) ==
    /\ u \in sessions
    /\ sessions' = sessions \ {u}
    /\ UNCHANGED <<keys, wish, req, at, user, left, call, did, seen, counted, gone>>

-----------------------------------------------------------------------------
(* The file server.  Route is the route that the mux finds, if any.        *)

Matches(q) == {op \in DOMAIN Method : Path(op) = q.path /\ Method[op] = q.method}
Route(r) == CHOOSE op \in Matches(req[r]) : TRUE
CallsOf(r) == Calls(Route(r), wish[r].parts)
Served(r, pc) == at[r] = pc /\ Matches(req[r]) # {}

Goes(r, pc) == at' = [at EXCEPT ![r] = pc]

WithUserID(r, u) == user' = [user EXCEPT ![r] = u]
UserIDFromContext(r) == user[r]

HTTPStatus == [Invalid |-> 400, Unauthorized |-> 401, Forbidden |-> 403, Internal |-> 500]

(* What the recorder of the middleware has when the handler returns: the   *)
(* status of the first WriteHeader, or 200; an upgrade writes its 101      *)
(* beside it, on the connection itself.                                    *)
(* Mutant: the status that a response starts with is counted.              *)
Recorded_Initial(status) == 200
Recorded(status) == IF status = 101 THEN 200 ELSE status

Tell(r, status) ==
    seen' = IF r \in gone THEN seen ELSE [seen EXCEPT ![r] = Append(@, status)]

(* The middleware, when the handler has returned: /health is not counted.  *)
Count(r, status) ==
    counted' = IF req[r].path = "health" /\ ~ req[r].slash THEN counted
               ELSE [counted EXCEPT ![r] = Append(@, Recorded(status))]

Answer(r, status, pc) == Tell(r, status) /\ Count(r, status) /\ Goes(r, pc)

(* stripTrailingSlash: before the mux, and so before any check.            *)
Redirect(r) ==
    /\ at[r] = "arrived" /\ req[r].slash
    /\ Answer(r, 301, "redirected")
    /\ UNCHANGED <<keys, sessions, wish, req, user, left, call, did, gone>>

(* The path is there, for another method.                                  *)
NotAllowed(r) ==
    /\ at[r] = "arrived" /\ ~ req[r].slash /\ Matches(req[r]) = {}
    /\ Answer(r, 405, "done")
    /\ UNCHANGED <<keys, sessions, wish, req, user, left, call, did, gone>>

(* Mutant: the path is served as it is.                                    *)
Dispatch_AsIs(r) ==
    /\ Served(r, "arrived")
    /\ Goes(r, IF Route(r) \in Unprotected THEN "handler" ELSE "auth")
    /\ left' = [left EXCEPT ![r] = CallsOf(r)]
    /\ UNCHANGED <<keys, sessions, wish, req, user, call, did, seen, counted, gone>>
Dispatch(r) ==
    /\ Served(r, "arrived") /\ ~ req[r].slash
    /\ Goes(r, IF Route(r) \in Unprotected THEN "handler" ELSE "auth")
    /\ left' = [left EXCEPT ![r] = CallsOf(r)]
    /\ UNCHANGED <<keys, sessions, wish, req, user, call, did, seen, counted, gone>>

(* RequireAuth: the context that the handler gets has the user.            *)
Accept(r) ==
    /\ Served(r, "auth") /\ wish[r].token \in sessions
    /\ Goes(r, "handler")
    /\ WithUserID(r, wish[r].token)
    /\ UNCHANGED <<keys, sessions, wish, req, left, call, did, seen, counted, gone>>

(* The token is not valid, or the look-up of the user or of the blacklist  *)
(* fails.                                                                  *)
Reject(r) ==
    /\ Served(r, "auth")
    /\ Answer(r, HTTPStatus.Unauthorized, "done")
    /\ UNCHANGED <<keys, sessions, wish, req, user, left, call, did, gone>>

(* A form or a body that is not one, before any call; and a file that is   *)
(* too large, when it is its turn and those before it are confirmed.       *)
(* Mutant: what was sent is looked at as it is needed.                     *)
BadInput_Late(r) ==
    /\ Served(r, "handler") /\ Route(r) \in {"upload", "archive", "sign_in"}
    /\ Answer(r, HTTPStatus.Invalid, "done")
    /\ UNCHANGED <<keys, sessions, wish, req, user, left, call, did, gone>>
BadInput(r) ==
    /\ Served(r, "handler")
    /\ \/ Route(r) \in {"archive", "sign_in"} /\ left[r] = CallsOf(r)
       \/ left[r] # <<>> /\ Head(left[r]) = "GetUploadURL"
    /\ Answer(r, HTTPStatus.Invalid, "done")
    /\ UNCHANGED <<keys, sessions, wish, req, user, left, call, did, gone>>

(* An archive of files that are not all the user's.                        *)
Forbid(r) ==
    /\ Served(r, "handler") /\ left[r] = <<"ExecuteWorkflow">>
    /\ Answer(r, HTTPStatus.Forbidden, "done")
    /\ UNCHANGED <<keys, sessions, wish, req, user, left, call, did, gone>>

(* LogoutAll looks for the user under another key than RequireAuth has     *)
(* put it, and panics: net/http drops the connection, and the middleware   *)
(* does not get to its counter.                                            *)
Panic(r) ==
    /\ Served(r, "handler") /\ Route(r) = "logout_all"
    /\ Tell(r, 0) /\ Goes(r, "done")
    /\ UNCHANGED <<keys, sessions, wish, req, user, left, call, did, counted, gone>>

(* authTransport: the headers of a call come from its context and from the *)
(* transport, which all requests share.                                    *)
(* Mutant: a user that was accepted is kept in the transport too.          *)
Headers_Shared(r) ==
    [key |-> keys.server, user |-> user[CHOOSE q \in Requests : user[q] # None]]
Headers(r) == [key |-> keys.server, user |-> UserIDFromContext(r)]

RoundTrip(r) ==
    /\ Served(r, "handler") /\ left[r] # <<>>
    /\ call' = [call EXCEPT ![r] = [st |-> "sent", rpc |-> Head(left[r]), key |-> Headers(r).key,
                                    user |-> Headers(r).user, page |-> req[r].page]]
    /\ Goes(r, "waiting")
    /\ UNCHANGED <<keys, sessions, wish, req, user, left, did, seen, counted, gone>>

CallReturns(r) ==
    /\ Served(r, "waiting") /\ call[r].st = "ok"
    /\ left' = [left EXCEPT ![r] = Tail(@)]
    /\ call' = [call EXCEPT ![r].st = "none"]
    /\ Goes(r, "handler")
    /\ UNCHANGED <<keys, sessions, wish, req, user, did, seen, counted, gone>>

(* WriteError: whatever went wrong with a call is an internal error.  A    *)
(* download has failed so when its stream broke before the first message.  *)
(* Mutant: the call is given up, but not answered as an error.             *)
CallFails_Unseen(r) ==
    /\ Served(r, "waiting") /\ call[r].st = "error"
    /\ Answer(r, Success(Route(r)), "done")
    /\ UNCHANGED <<keys, sessions, wish, req, user, left, call, did, gone>>
CallFails(r) ==
    /\ Served(r, "waiting") /\ call[r].st = "error"
    /\ Answer(r, HTTPStatus.Internal, "done")
    /\ UNCHANGED <<keys, sessions, wish, req, user, left, call, did, gone>>

(* There is no identity token for the storage service, or a file of an     *)
(* upload cannot be opened, or its PUT fails.                              *)
NoCallMade(r) ==
    /\ Served(r, "handler") /\ left[r] # <<>>
    /\ Answer(r, HTTPStatus.Internal, "done")
    /\ UNCHANGED <<keys, sessions, wish, req, user, left, call, did, gone>>

(* The context of the request ends with its browser, and its call with it. *)
(* Mutant: the call has a context of its own.                              *)
Cancel_Never(r) == FALSE /\ UNCHANGED vars
Cancel(r) ==
    /\ Served(r, "waiting") /\ r \in gone
    /\ Answer(r, HTTPStatus.Internal, "done")
    /\ UNCHANGED <<keys, sessions, wish, req, user, left, call, did, gone>>

(* Of a download, as much as was announced has been copied.                *)
Finish(r) ==
    /\ Served(r, "handler") /\ left[r] = <<>> /\ Route(r) \notin {"logout_all", "ws"}
    /\ Answer(r, Success(Route(r)), "done")
    /\ UNCHANGED <<keys, sessions, wish, req, user, left, call, did, gone>>

(* The stream of a download breaks after its first message, with the       *)
(* status and the length already written: the handler can but return, and  *)
(* net/http drops the connection, which stands for 0 here.                 *)
Break(r) ==
    /\ Served(r, "handler") /\ left[r] = <<>> /\ Route(r) = "download"
    /\ seen' = IF r \in gone THEN seen ELSE [seen EXCEPT ![r] = @ \o <<200, 0>>]
    /\ Count(r, 200) /\ Goes(r, "done")
    /\ UNCHANGED <<keys, sessions, wish, req, user, left, call, did, gone>>

(* The web socket validates the cookie once more, and is counted when it   *)
(* closes.                                                                 *)
Upgrade(r) ==
    /\ Served(r, "handler") /\ Route(r) = "ws" /\ wish[r].token \in sessions
    /\ Tell(r, 101) /\ Goes(r, "upgraded")
    /\ UNCHANGED <<keys, sessions, wish, req, user, left, call, did, counted, gone>>

RefuseUpgrade(r) ==
    /\ Served(r, "handler") /\ Route(r) = "ws"
    /\ \E status \in {400, 401} : Answer(r, status, "done")
    /\ UNCHANGED <<keys, sessions, wish, req, user, left, call, did, gone>>

(* The workflow has ended, or the reader has found the connection closed.  *)
Close(r) ==
    /\ at[r] = "upgraded"
    /\ Count(r, 101) /\ Goes(r, "done")
    /\ UNCHANGED <<keys, sessions, wish, req, user, left, call, did, seen, gone>>

-----------------------------------------------------------------------------
(* The storage service, and Temporal, which is asked with a credential of  *)
(* its own.  A call that was cancelled may still be served.                *)

(* The procedures that are mounted; any other path is not found.           *)
Mounted == {"UploadFile", "GetFile", "GetMetadata", "ListFiles", "DownloadArchive", "GetDownloadURLs",
            "GetUploadURL", "ConfirmUpload", "GetArchiveUploadURL", "GetArchiveDownloadURL"}

(* validateServiceKey, and the check of X-User-Id.                         *)
Passes(c) ==
    \/ c.rpc = "ExecuteWorkflow"
    \/ c.rpc \in Mounted /\ keys.storage \in {None, c.key} /\ c.user # None

(* The operation is done; its reply may be lost.                           *)
Act(r) ==
    /\ call[r].st = "sent" /\ Passes(call[r])
    /\ did' = [did EXCEPT ![r] = Append(@, [rpc |-> call[r].rpc, user |-> call[r].user,
                                            page |-> call[r].page])]
    /\ \E st \in {"ok", "error"} : call' = [call EXCEPT ![r].st = st]
    /\ UNCHANGED <<keys, sessions, wish, req, at, user, left, seen, counted, gone>>

(* A guard refuses, the operation fails, or nobody answers.                *)
Refuse(r) ==
    /\ call[r].st = "sent"
    /\ call' = [call EXCEPT ![r].st = "error"]
    /\ UNCHANGED <<keys, sessions, wish, req, at, user, left, did, seen, counted, gone>>

-----------------------------------------------------------------------------
ServerStep(r) ==
    \/ Redirect(r) \/ NotAllowed(r) \/ Dispatch(r) \/ Accept(r) \/ Reject(r)
    \/ BadInput(r) \/ Forbid(r) \/ Panic(r) \/ RoundTrip(r) \/ CallReturns(r) \/ CallFails(r)
    \/ NoCallMade(r) \/ Cancel(r) \/ Finish(r) \/ Break(r) \/ Upgrade(r) \/ RefuseUpgrade(r)

StorageStep(r) == Act(r) \/ Refuse(r)

Next ==
    \/ \E r \in Requests : \/ Send(r) \/ Follow(r) \/ Leave(r)
                           \/ ServerStep(r) \/ Close(r) \/ StorageStep(r)
    \/ \E u \in Users : Revoke(u)

(* The handlers run, and a web socket whose browser has left is closed.    *)
(* Nothing bounds the time that a call may take, so nothing is assumed of  *)
(* the storage service.                                                    *)
Fairness ==
    \A r \in Requests : WF_vars(ServerStep(r)) /\ WF_vars(r \in gone /\ Close(r))

Spec == Init /\ [][Next]_vars
LiveSpec == Spec /\ Fairness

-----------------------------------------------------------------------------
(* Properties.                                                             *)

Statuses == {0, 101, 200, 201, 202, 301, 400, 401, 403, 405, 500}

Request == [path : DOMAIN Method, method : {"GET", "POST"}, slash : BOOLEAN, page : {1, 2}]

Rpc == Mounted \cup {"ExecuteWorkflow"}

Call == [st : {"none", "sent", "ok", "error"}, rpc : Rpc \cup {"none"}, key : Keys \cup {None},
         user : Users \cup {None}, page : {1, 2}]

Deed == [rpc : Rpc, user : Users \cup {None}, page : {1, 2}]

(* The parts of a request have their types.                                *)
TypeOK ==
    /\ keys \in [server : Keys, storage : Keys]
    /\ sessions \subseteq Users
    /\ wish \in [Requests -> WishType]
    /\ req \in [Requests -> Request]
    /\ left \in [Requests -> Seq(Rpc)]
    /\ call \in [Requests -> Call]
    /\ did \in [Requests -> Seq(Deed)]
    /\ seen \in [Requests -> Seq(Statuses)] /\ counted \in [Requests -> Seq(Statuses)]
    /\ at \in [Requests -> {"idle", "arrived", "redirected", "auth", "handler", "waiting",
                            "upgraded", "done"}]
    /\ user \in [Requests -> Users \cup {None}]
    /\ gone \subseteq Requests

Last(s) == s[Len(s)]

(* What is done for a request, by whatever service, is done for the owner  *)
(* of the token that came with it, after that token was accepted, and by   *)
(* the storage service only when the two services agree on the key or it   *)
(* has none.                                                               *)
ActsForItsUser ==
    \A r \in Requests : \A i \in DOMAIN did[r] :
        /\ did[r][i].user = wish[r].token /\ user[r] = wish[r].token
        /\ did[r][i].user # None
        /\ did[r][i].rpc # "ExecuteWorkflow" => keys.storage \in {None, keys.server}

(* An answer of success that was not cut short means that every call of    *)
(* the operation asked for was served, for each of its files, once and in  *)
(* order, for the page that was asked; but a path with a trailing slash    *)
(* may have become another operation on the way.                           *)
AnsweredIsAsked ==
    \A r \in Requests :
        (seen[r] # <<>> /\ Last(seen[r]) \in 200..299 /\ ~ wish[r].slash)
            => /\ [i \in DOMAIN did[r] |-> did[r][i].rpc] = Calls(wish[r].op, wish[r].parts)
               /\ \A i \in DOMAIN did[r] : did[r][i].page = wish[r].page

(* That operation reads: a write that was sent to a path with a trailing   *)
(* slash never writes, not even when it is answered with success.          *)
RedirectedWriteIsLost ==
    \A r \in Requests :
        (wish[r].slash /\ Method[wish[r].op] = "POST")
            => \A i \in DOMAIN did[r] : did[r][i].rpc = "ListFiles"

(* A request that was refused has started no workflow, and has left of an  *)
(* upload whole files only: the files before the refused one stay, and     *)
(* each that was reserved is confirmed, so that no row waits for ever.     *)
RefusedLeavesWholeFiles ==
    \A r \in Requests :
        (seen[r] # <<>> /\ Last(seen[r]) \in 400..499)
            => \A i \in DOMAIN did[r] :
                   /\ did[r][i].rpc # "ExecuteWorkflow"
                   /\ did[r][i].rpc = "GetUploadURL"
                          => i + 1 \in DOMAIN did[r] /\ did[r][i + 1].rpc = "ConfirmUpload"

(* The counter has each answer once, with the status the browser got, as   *)
(* long as it was there; but no panic, no /health, 200 for an upgrade,     *)
(* when it has closed, and 200 for a download that was cut short.          *)
Countable(r) == {i \in DOMAIN seen[r] : seen[r][i] # 0}
CountedIsSeen ==
    \A r \in Requests :
        (at[r] \in {"done", "redirected"} /\ wish[r].op # "health" /\ r \notin gone)
            => /\ DOMAIN counted[r] = Countable(r)
               /\ \A i \in Countable(r) :
                     counted[r][i] = IF seen[r][i] = 101 THEN 200 ELSE seen[r][i]

(* A request whose browser has left ends, even if its call is never        *)
(* answered.                                                               *)
AbandonedEnds ==
    \A r \in Requests : r \in gone ~> at[r] \in {"done", "redirected"}

=============================================================================
