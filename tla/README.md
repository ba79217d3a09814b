# File management service: specification, model checking and proofs

This directory specifies the Go services of this repository in TLA+: a **file server** (HTTP API,
authentication, uploads, downloads, starting archives), a **storage service** (ConnectRPC, PostgreSQL
metadata, S3 or local-disk objects) and a **Temporal worker** that builds ZIP archives. Each module is
a translation of the code under `src/`; where documentation and code disagree the module follows the
code and a run records the disagreement.

## 1. The system

| Part | Code | State it keeps | Operations |
| --- | --- | --- | --- |
| File server, files | `services/file-server/internal/{handler/file,service}` | none of its own: one goroutine per request | upload a batch, download, list, metadata, start an archive |
| File server, sessions | `services/file-server/internal/auth` | users' token versions and refresh tokens (PostgreSQL), blacklist (Redis) | sign up, sign in, refresh, log out, log out everywhere, authenticate a request |
| File server, archive socket | `services/file-server/internal/handler/file_ws` | one WebSocket and two goroutines per watcher | authenticate, wait for the workflow, send the URL |
| Storage client | `services/file-server/internal/client/grpc` | streams and pipes of calls under way | one method for each RPC |
| Storage service | `services/storage/internal/{server,service}` | none of its own | reserve, confirm, store, fetch, list, presign, synchronous archive |
| Repository | `services/storage/internal/repository/postgres` | table `files` | create, get, list, confirm |
| Object stores | `services/storage/internal/storage/{s3store,local}` | bucket or directory | store, fetch, presign |
| Archive workflow | `services/file-server/internal/temporal` | workflow history, a session on one worker, files in the worker's temporary directory | resolve, download, zip, upload, clean up |
| Request path | `services/file-server/{cmd/server/main.go,internal/{observability,httpx,authctx}}`, `auth/middleware.go`, `client/grpc`, the guards of `storage/cmd` and `storage/internal/server` | the context and the status recorder of each request, counters | count, redirect, route, authenticate, carry user and key to the storage service, answer |
| Start-up | the three `main.go`, `config`, the constructors they call, `docker-compose.yml`, `infra` | which process runs, which check it is at | load, check, serve, end, be started again |
| The rest | `mocks`, `client/stub`, generated code, the web page, the header stripper for S3 requests | - | - |

How they interact. The browser talks HTTP to the file server only. The file server calls the storage
service by RPC, and the object store directly through presigned URLs; the storage service is the only
one to touch the table. Temporal drives the workers, which again call the storage service by RPC and
the object store by presigned URL. Nothing is transactional across two of these parties, and no part
runs a clean-up or reconciliation job.

### The components one by one

**File server, files.** State: per-request only (a slice of results, the reservation of the part under
way). A `POST /files` walks the parts of the form in order and stops at the first that fails; each part
is reserved by RPC, sent by HTTP to a presigned URL and confirmed by RPC. Hard: three parties and no
transaction; an answer can be lost after its effect; the HTTP client gives up after five minutes while
the PUT goes on; a batch fails in the middle. Correct when: what is answered or confirmed is stored
and stays; what fails leaves a bounded mess; every request is answered.

**File server, sessions.** State: `users.token_version` and `refresh_tokens` in PostgreSQL, one key for
each blacklisted access token in Redis. An access token is self-contained and checked against three
places in turn (its own expiry, the version, the blacklist). Hard: the check is not atomic, the logout
from all sessions is two statements, rotation does not look at what it deleted, claims have whole
seconds; a logout takes the token in the cookie, whichever was validated, and ignores errors of Redis.
Correct when: what Redis took from a logout, and what was rotated or revoked before a request began, does
not help that request.

**File server, archives.** State: none in the server; Temporal keeps the workflows. `POST
/files/download-many` checks the files through the storage service and starts a workflow; a WebSocket waits
for its end. Hard: two goroutines for each socket, one blocked on Temporal and one on the browser; the
start whose answer is lost. Correct when: an accepted archive is of the requester's own files; the
browser is told the truth; nothing outlives a browser that left.

**Storage client and storage service.** State: streams and pipes of the calls under way; a temporary
file for a synchronous archive. Hard: client, pump and handler wait for one another through bounded
buffers; ten error returns with things to close; an error in the middle of a stream must not look like
the end. Correct when: short data is never taken for whole data, whatever is opened is closed, no
circle of waiting.

**Repository and object stores.** State: table `files` (insert, confirm; nothing deletes), a bucket or
a directory. Hard: a listing is two statements per page beside inserts; the local store grows a file
that a reader may see. Correct when: confirmed rows describe their objects for good, a walk through
the pages misses nothing.

**Archive workflow.** State: the workflow's history on the Temporal server, a session that ties the
activities to one worker, a directory on that worker. Hard: workers crash, reports are lost, activities
are repeated while an abandoned attempt goes on, the clean-up runs beside what it cleans. Correct when:
a workflow that answers with a URL has put a whole archive behind it, and a workflow ends.

**Request path.** State: what each request carries (its context, the status recorder of the middleware),
and the transport of the storage client, which all requests share. Hard: the identity of a user travels
through a context, a header and another service, beside other users' requests; a redirect turns one
operation into another; a download says 200 before its stream has ended; no call has a time limit, so only
the browser's leaving ends one that is never answered. Correct when: what is done is done for the owner of
the token; a whole answer of success means all of what was asked, a refusal no workflow and no file by halves.

**Start-up.** State: the check a process is at. Hard: the services that are checked come and go, the
migrations and the making of buckets run beside, two platforms start the processes under different
rules. Correct when: what serves has what its checks vouch for, and what no check refuses comes to serve
where something starts it.

`PROJECT.json` lists every component with its sources, including those not modelled, and under
`hazards` each hard behaviour at the line where it bites, with the properties that watch it.

## 2. Modules

| Module | Models | Runs | Proofs |
| --- | --- | --- | --- |
| `FileCatalog` | what users are promised of files: an append-only catalog (abstract) | as a property of `file_transfer` | |
| `StorageService` | table, bucket and the RPC handlers of presigned uploads | within `FileTransfer` | |
| `FileTransfer` | upload and download handlers, composed with `StorageService`; refines `FileCatalog` | `file_transfer`, `file_transfer_live` | `FileTransferProofs` |
| `Auth` | sessions | `auth`, `auth_refresh`, `auth_logout_all` | `AuthProofs` |
| `ArchiveJob` | what those who wait for an archive are promised (abstract) | as a property of `archive` | |
| `ArchiveWorkflow` | the workflow, the Temporal server, the workers; refines `ArchiveJob` | `archive` | `ArchiveWorkflowProofs` |
| `ArchiveRequest` | asking for an archive, and the web sockets | `archive_request` | `ArchiveRequestProofs` |
| `FileReads` | listings and metadata beside inserts | `file_reads` | `FileServiceProofs` |
| `StreamedUpload` | the RPC `UploadFile`: client, pump, store | `streamed_upload` | `FileServiceProofs` |
| `SyncArchive` | the RPC `DownloadArchive`: builder, pump, caller | `sync_archive` | `SyncArchiveProofs` |
| `RequestPath` | a request's way from the browser to the storage service and back, beside others | `request_path` | `RequestPathProofs` |
| `Startup` | the three processes, what they check, what starts them | `startup` | `StartupProofs` |

`MC*` modules give TLC a small instance of each. A definition named `X_Something` just before a
definition `X` is a plausible bug of the code that `X` models; `PROJECT.json` (`mutants`) says which
property each of them breaks. Variables marked *history* are written and never read by the actions:
the properties need them to speak of an earlier moment.

### How state and actions correspond to the code

**`StorageService`, `FileTransfer`.** `files` is the table and `objects` the bucket, both keyed by the
id of the row, because the storage path contains that id (names are data and left out;
the path of a file named `..` would lose it). `rpc[r]` is the call request `r` has under way in
the storage service, `puts[r]` its PUT: both live on when the handler that sent them has stopped
waiting. One action for each SQL statement or call: `ReserveCreate`/`ReservePresign` are
`ReserveUpload`, `ConfirmUpdate`/`ConfirmSelect` are `ConfirmUpload`, `RpcFail` ends a handler after
any of them. `up[r]` is `Handler.Upload` with `FileService.Upload`: `UpReject` is the size limit,
`UpReserve`, `UpPut`, `UpConfirm`, `UpConfirmed` the steps of one part, `UpCreated` the 201,
`UpRpcError`, `UpPutError`, `UpGiveUp` its ends. `dl[d]` is a download: `DlLookup` the SELECT,
`DlFetch` the opening of the object, `DlDeliver` the response with its `Content-Length`.
Abstractions: the SHA-256 of a content is the content (injective); an id from `uuid.NewV7` is never
drawn twice; a PUT to S3 appears as a whole or not at all, perhaps late.

**`Auth`.** `version`, `rows`, `blacklist` are `users.token_version`, `refresh_tokens`, and the keys in
Redis with their expiry. `req[r]` is a handler between two of its statements: `SignIn`, `Sign`,
`InsertRow` make a session; `Refresh` (blacklisting the old access token), `RefreshSelect`,
`RefreshDelete`, `RefreshUser` and again `Sign`, `InsertRow` rotate one; `Present`, `CheckVersion`,
`CheckBlacklist` are `RequireAuth`, followed by `Serve`, `Logout` or `LogoutAllPanic`. `Present` takes the
token that is validated and, for a logout, the one in its cookie, which need not be the same.
`LogoutAllIncrement` and `LogoutAllRevoke` are `Service.LogoutAll`, called with a user id, since its
handler panics before it gets there. `issued` are the access tokens that reached a client; `ended`
(those that Redis took from a logout or refresh), `quiet`, `redeemed` and `seen` are history. Abstractions: `iat` and `exp` are taken from one reading of the
clock; an access token is its claims; passwords are right.

**`ArchiveJob`, `ArchiveWorkflow`.** `ArchiveJob` has what the outside sees: whether the workflow runs,
completed or failed, the object its URL leads to, and what was sent and may be stored yet. `pc` is where `BulkDownloadWorkflow` waits, `act` the server's view of each
activity, `session` the session and its worker, `temp`, `zips`, `zipFile`, `fetch` what the workers do
and have on disk, `archive` the object that results, `puts` the bodies that S3 has got from attempts
that were given up and may store at any time (`LatePut`), also once the workflow has closed. `Wf*` are the workflow code, including the
deferred clean-up (`Finish`); `Dispatch`, `TimeOut`, `SessionLost` are Temporal; `Download*`, `Zip*`,
`Upload*`, `CleanupEnd`, `ResolveEnd`, `PlainFail` are the activities' steps. An activity in a session
known to have failed fails at once; the clean-up's context is disconnected, and yet stays on the queue
of the session's worker. Every failure is retried up to `MaxAttempts`: the names listed under
`NonRetryableErrorTypes` are never those of a Go error. Each attempt ends by a report that can be lost.
A `Crash` takes the worker's directory along. A download ends with its context; a zip never looks at
its context, and so can go on after the server has given it up.

**`ArchiveRequest`.** `req` is `Handler.DownloadMultiple` and `FileService.StartArchiveWorkflow`
(`GetDownloadURLs` counts rows against ids, a store that cannot presign refuses); `socket` is one
connection with its handler (`GetResult`, `GetFails`, `Canceled`, `Write`) and its reader
(`ReaderEnds`), which closes the connection once the browser has left. `WorkflowEnds` stands for
`ArchiveWorkflow`.

**`FileReads`.** `rows` is the table as far as a listing sees it; `Insert` is an upload, with a time
stamp read some time before. `ListCount` and `ListSelect` are the two statements of
`Repository.List`, `ListRefused` PostgreSQL's refusal of a negative limit, `Int32` the conversion of
page and size. `LookupFound`/`LookupMissing` are metadata. The client follows the pagination it is
given back.

**`StreamedUpload`, `SyncArchive`.** `net` is the bounded stream, `pipe` the `io.Pipe`, which holds
nothing. `client`/`pump`/`store` are `storageClient.Store`, the goroutine in `UploadFile` and
`FileService.Store`; `build`/`pump`/`caller` are `FileService.DownloadArchive` with the loop that sends,
the goroutine of `storageClient.DownloadArchive` and the reader of its pipe. `tmp` and `open` are the
temporary file and the objects open for reading. The local object store is the case in which the
object grows under the writer's hands; S3's PUT appears whole.

**`RequestPath`.** `wish` is what a browser asked for, `req` the request as it is served, `at` where its
handler is, `user` the value in its context, `left` the calls its handler has still to make, `call` the one
under way with its headers, `did` what others have done for it (history), `seen` and `counted` the statuses
that the browser got and the counter has. `Redirect` is `stripTrailingSlash`, `Follow` the browser after it,
`Dispatch`/`NotAllowed` the mux, `Accept`/`Reject` `RequireAuth`, `RoundTrip` `authTransport` with its
headers, `Act`/`Refuse` the storage service behind `validateServiceKey` and the check of the user's header,
`Answer`, `Tell` and `Count` the answer and the middleware, `Upgrade`/`Close` the web socket, `Panic` the
handler of the logout from all sessions, `Break` the download whose stream breaks after its 200: the browser
then gets 200 and, as 0, a dropped connection. What an operation does is in the other modules; here it is the
sequence of its calls (`Calls`), two for each file of an upload, so that `BadInput` can refuse a file when
those before it are confirmed.

**`Startup`.** `todo[p]` is what is left of the main function of `p`: one entry for each constructor that
can end the process, in the order of the code (`StorageMain`, `ServerMain`, `WorkerMain`). `up` are the
services that answer, `made` the schema and the buckets, `setting` the deployment with at most one flaw.
`Start` is `depends_on` of `docker-compose.yml`, once, or Cloud Run, which starts the worker again and again
(it alone has a minimum of instances, `main.tf:539`) and the other two when a request waits (`asked`, `Ask`,
`Serve`) and takes those down when none does (`ScaleDown`); `Migrate` and `MakeBucket` run beside the
processes. A request waits until it is served: that stands for a client that asks again. `Needs` is what
each process uses once it serves, `Unasked` and `Unordered` the part of it that start-up never looks at.

## 3. What the runs check

Run `tlc -config <cfg> <module>`; module and cfg of each run are in `PROJECT.json`.

| Run | Question | Properties |
| --- | --- | --- |
| `file_transfer` | Two batches (one part, two parts, an empty part and one over the limit) and a download, by two users, each handler abandoned anywhere: do table and bucket agree, and do the two services implement the catalog? | `ConfirmedIsStored`, `ConfirmedIsFinal`, `ConfirmedIsServed`, `ResultsAreDurable`, `LeftoversAreBounded`, `ObjectsHaveRows`, `ImplementsCatalog` |
| `file_transfer_live` | Is every upload answered, also when the object store swallows a PUT? | `UploadsAreAnswered` |
| `auth` | Two handlers at once on one user's sessions while the clock passes the expiry of tokens: is what ended refused? | `AcceptedIsCurrent`, `RotatedIsSpent`, `LogoutAllEnds` |
| `archive` | Two files, two workers, two attempts of everything, crashes, lost reports, time-outs, lost sessions, late PUTs: is a delivered archive whole, does one download's failure disturb another, is anything left behind, does the object that a URL leads to stay a finished archive, also when S3 stores late what was sent before, and does the workflow end? | `ImplementsJob`, `ArchiveIsExact`, `ZipFindsFiles`, `LeftoversAreLate`, `DownloadsRetryAlone`, `WorkflowCloses` |
| `archive_request` | Two requests for owned, foreign and repeated files, a browser that watches and leaves: is only the owned accepted, the truth told, everything released? | `AcceptedIsOwned`, `ToldIsTrue`, `StayingIsTold`, `LeavingReleases` |
| `file_reads` | A walk through the pages of a listing, with a clock and inserts beside it, page sizes on both sides of what the RPC field holds: is a file missed? | `WalkMissesNothing`, `ListedIsFound` |
| `streamed_upload` | One upload of up to three chunks into either store, everything failing: does only a whole file get a row, of which a true answer speaks, do the three never wait for each other, and does everyone return? | `RowIsWholeFile`, `OrphanIsLate`, `NoCircularWait`, `UploadReturns`, `PumpEnds` |
| `sync_archive` | One archive of up to three ids, each call failing, the caller leaving: whole or an error, nothing left open or on disk? | `WholeOrError`, `NothingIsHeld`, `RequestEnds` |
| `request_path` | A request for any route by a user or nobody, beside another user's look-up, keys that agree or not, tokens revoked, calls failing, browsers leaving: is everything done for the right user, and the answer true? | `ActsForItsUser`, `AnsweredIsAsked`, `RedirectedWriteIsLost`, `RefusedLeavesWholeFiles`, `CountedIsSeen`, `AbandonedEnds` |
| `startup` | Both platforms, each store, one flaw at a time, services and processes failing twice: does what serves have what the checks vouch for, and does what they pass come to serve when it is needed? | `ServesOnSchema`, `ServingCanWork`, `ServesOnDemand` |
| `auth_refresh`, `auth_logout_all` | A comment and a doc that the code does not meet: section 6 | `RefreshGivesNewToken`, `NoHandlerPanics` |

The `TypeOK` of every module is proved, for all values of the constants, and no run repeats it.

**Exemptions.** Some properties hold only with an exemption that is part of their statement (TLC finds
a counterexample without it). They are facts about the code as much as the properties are:

- `AcceptedIsCurrent`: a request that checks the expiry of a logged-out token just before it, and Redis
  just after, when the key has gone with the token, is accepted. The property speaks of tokens that a logout
  or refresh found in its cookie and that Redis took. A logout whose token came as Bearer ends only what is
  in the cookie, or nothing (`handler.go:78`), and one at which Redis errs ends nothing (`handler.go:83`):
  both are answered with 204, and the token is accepted until it expires.
- `LogoutAllEnds`: a sign-in or refresh beside the two statements of the logout keeps its session.
- `RotatedIsSpent`: speaks of tokens spent before the request began. Two requests that present the same
  refresh token at the same time can both be given sessions.
- `ArchiveIsExact`: a zip attempt that Temporal gave up, and that later meets an I/O error, writes its
  ZIP directory into the `archive.zip` that it shares with its successor (`activity.go:89`), although
  docs/TEMPORAL.md:146 calls the activity retryable. The archive so `spoiled` can be delivered.
- `ImplementsJob`: the object may change after the workflow has answered, when S3 stores the PUT of an attempt
  that was given up. What is stored then is whole, or spoiled as above; never is it a broken ZIP.
- `WorkflowCloses`: the clean-up is queued for the session's worker without a limit (`archive.go:56`), and
  the workflow waits for it: with that worker dead it never closes.
- `LeftoversAreLate`: what the clean-up leaves on a live worker came from a download that was begun
  after it, beside another one that had failed for good; nothing calls it off.
- `WalkMissesNothing`: rows of one instant have no order between two pages; a page size that does not
  fit 32 bits wraps around; an insert between the COUNT and the SELECT of the last page pushes a file
  beyond it.
- `OrphanIsLate`: an object stays without a row when the answer of the store is lost, the INSERT fails,
  or the process dies. The client of this repository names no owner, and the UUID column refuses "", so
  all of its streamed uploads end so.
- `PumpEnds`: when the store returns early nobody closes the reading end of the pipe, and a pump that
  writes stays for good.
- `NothingIsHeld`: the error return at `service.go:123` does not close its object, and nothing removes the
  temporary file of a process that dies.
- `AnsweredIsAsked`: a path with a trailing slash is redirected without its query, and a `POST` comes back as
  a `GET`. `RedirectedWriteIsLost` says what is left of such a write: a listing at most, answered 200. And a
  download whose stream breaks (`file.go:98`) has been answered 200: its browser gets a body shorter than the
  `Content-Length` and a dropped connection, nothing else. The property speaks of answers that end whole.
- `RefusedLeavesWholeFiles`: a batch that is refused at a file keeps the files before it, stored, confirmed
  and listed, and its 400 does not name them (`file.go:68`).
- `CountedIsSeen`: a panic and `/health` are not counted, a web socket counts as 200, when it closes, and so
  does a download that was cut short.

**Bounds, and why they are enough.**

- `FileTransfer`: two uploads, because the questions are about one handler and what a second, abandoned
  or late, does to it; three ids, so that an upload of two parts runs beside another; sizes 0 to 3 with
  a limit of 2, so that the empty file, the announced size 0 and the refused part occur; one download,
  since downloads write nothing. Safety for any number is proved.
- `Auth`: one user (users share no row, and the proofs cover several), two handlers, two refresh
  tokens, a lifetime of one second for access tokens and two for refresh tokens on a clock of two, so
  that tokens expire under way and others are issued after, and one logout from all sessions. Proved for all values.
- `ArchiveWorkflow`: two files are the least for which one fails beside another; two workers, so that a
  session can move away from the files; two attempts, so that an attempt and its successor overlap
  (three in the code: a third overlaps as the second does). Safety for any number is proved.
- `ArchiveRequest`: lists of up to two ids show the empty, repeated, foreign and good list; sockets
  share nothing but the workflow's end, so that one is enough, and it can be opened again.
- `FileReads`: four files and pages of one, two, nine and seventeen with an `IntLimit` of 8 (2^31 in
  the code): nine wraps to a negative number and seventeen to one. Three instants, so that rows tie and do not. One walker, since
  readers write nothing. Safety is proved for any number of all of them.
- `StreamedUpload`, `SyncArchive`: uploads and requests share nothing that they change, so each run has
  one. Three chunks exceed the window of two and the pipe of none; three ids exceed the window of one. Safety for any number is proved.
- `RequestPath`: the second request is another user's look-up, the least for which a shared transport
  could mix users up; the first takes every route, an upload of two files among them, so that a file is
  refused after another was confirmed. Keys are one value or none for each service. Safety is proved for all
  users, requests, keys and numbers of files.
- `Startup`: the three processes and four services of the code; two outages, so that a service can fail,
  come back and fail again, or a process be killed beside it. Two flaws at once would show nothing that
  one does not, since each ends a process by itself or passes all its checks. Safety is proved for any number and any flaws.

Symmetry is used for users, requests, ids, rows, files in runs that check safety alone, never with a
liveness property. `CHECK_DEADLOCK FALSE` is said where the system really stops: every request is
answered, ids or the clock run out, the one workflow or upload has ended.

## 4. Fairness

Goroutines that can go on do (`WF` on each handler's, pump's and builder's own steps), and statements
and calls end in an answer or an error. Nothing obliges a fault, a crash, a late PUT, a browser that
leaves or a workflow that ends: those have no fairness. In particular

- `FileTransfer`: the storage service ends its RPCs; the object store owes nobody an answer, and the
  upload goes on through `UpPutError`, the five-minute timeout of the `http.Client`.
- `ArchiveWorkflow`: one `WF` over `Progress`: Temporal dispatches to a live worker that polls, times an
  attempt out when its report was lost or its worker is dead, and loses a session when its worker is dead; a
  live worker ends its attempts. As long as one of these can be done, one is done; this is less than the
  platform gives, which serves every queue. Sessions of live workers may be lost, but need not, and S3 owes
  nobody a late PUT.
- `StreamedUpload`, `SyncArchive`: the caller of an archive reads on or leaves.
- `ArchiveRequest`: only the socket's two goroutines are fair. `StayingIsTold` therefore starts from a
  workflow that has ended, and `LeavingReleases` holds also when none ever does.
- `RequestPath`: handlers run, and the goroutines of a web socket whose browser has left. Neither the
  client nor the servers set a time limit, so nothing is assumed of the storage service: that a request
  ends is claimed only of those whose browser has left.
- `Startup`: processes run, services that failed come back, Cloud Run keeps one worker running and starts
  the other services for a request that waits; nobody has to ask, and what nobody asks for may be taken
  down. Compose has no restart policy, and nobody is obliged to run the migrations: `ServesOnDemand` speaks
  of Cloud Run.
- `Auth` and `FileReads` claim no liveness.

## 5. Proofs

`tlapm X.tla` checks each of the eight modules `*Proofs`, for all values of the constants. They rest on the
assumptions that the modules state about their constants, and on nothing else:

- `StorageAssumption`, `TransferAssumption`: sizes are numbers and only the empty content has size 0,
  batches are not empty, and the marker `None` is none of the values it stands beside;
- `AuthAssumption`: lifetimes are positive, the caps on clock and versions are numbers, `None` is no value;
- `StreamAssumption`, `SyncAssumption`, `RequestAssumption`: bounds are numbers, a stream takes at least one
  message, the markers `None` and `Absent` are no values;
- `ReadsAssumption`: page sizes and the limit of their field are positive numbers, `None` is no value;
- `ArchiveAssumption`: the list of files has no repetition (the rows of a SELECT), no file is named like
  one of the workflow's own activities, there is at least one attempt;
- `NoneAssumption`, `WishesAssumption`, `SettingsAssumption`: browsers ask for paths and methods of the
  route table, deployments have the settings that the configuration knows.

`LeftoversBounded` assumes in addition that the upload requests are finitely many.

**`FileTransferProofs`.** `TypeInv` makes `TypeOK` inductive by what each handler, RPC and PUT holds at
each stage. `StoreInv` is the heart: an id is minted once, so that *no two requests ever hold the same
one* (`HeldAreDisjoint`), where a request holds the id of its last RPC and of its last PUT, also when
it has stopped waiting. A late PUT or UPDATE can then only meet its own row; a row stays reserved while
its PUT is under way (`UnsentAreReserved`), and a confirmation is sent only for the PUT that was
answered (`ConfirmsStored`). Hence `ConfirmedStored`, `NoOrphanObjects` and, as an action property,
`ConfirmedFinal`. On these rest three more invariants. `ServedInv` says what a download has read of a
file that was confirmed when it began: `ConfirmedServed`. `ResultsInv` says that the part under way has
a row of its own and that a confirmation returns it; since confirmed rows stay, results once made stay
true: `ResultsDurable`. `LeftoverInv` finds for each reserved row the request whose last RPC was for it;
distinct rows have distinct requests: `LeftoversBounded`. `Refines` puts them together: of all
steps only the UPDATE of a reserved row (a commit), the 201 (an acknowledgement of rows that
`ResultsInv` puts in the catalog), and the beginning and end of a download (answered as `ServedInv`
allows) show in the catalog; every other one leaves it as it is. `UploadIsBounded`: every step of a begun
upload, those of its RPC and of its PUT included, also when the handler has given up, lessens a number that starts at
nine for each part and one.

**`AuthProofs`.** `TypeInv` again makes `TypeOK` inductive. `AcceptedCurrent` rests on what only grows:
versions, the clock, and the set of keys ever put on the blacklist, one for each token that is `ended`
(`EndedKeyed`), each of which lasts exactly as long as its token (`KeysLast`); what a request saw when it began is then still true enough at each of its
three checks (`Validated`). `RotatedSpent` rests on rows only ageing: revoked or deleted once, never
live again, since a row is inserted only where there was none (`RowsAge`). `LogoutAllEnded` needs that
no token is of a version still to come (`IssuedOld`) and that after a logout with nothing beside it no
handler holds anything it could mint a session from (`Quieted`).

**`ArchiveWorkflowProofs`.** The invariant has four parts. `Course` ties where the workflow waits to what
is scheduled, running and done: nothing of a later stage has begun, everything of an earlier one is done.
`Sessions`: only the session's worker runs its activities, and none is pending once it has failed.
`Places`: only that worker has files, a finished download's file is there and whole until the clean-up or
the worker's death, and a directory that is there after the clean-up is that of a download begun late. `Zipping`: the zip file is the
last attempt's, and what an attempt has copied before the clean-up were whole files. From these follow
`ZipFinds`, `ArchiveExact`, `LeftoversLate`, the action property `RetryAlone`, and `Refines`. That last one
needs `Delivered`: an upload that the workflow awaits has only a finished ZIP to send, so that of what S3 may still
store nothing is broken unless the upload has failed for good; once it is reported done no attempt is left to send more.
`AttemptsAreBounded`: an activity is begun once, its attempts follow one another, and each of its changes
lessens a number that starts at three for each attempt and two.

**`FileServiceProofs`.** Two modules that share no state. For `FileReads` the key is the *place* of a file in
a listing: how many rows of its owner are not older (`Rank`). For a file that is alone in its instant this is
where the sorted SELECT puts it, and an insert, whatever its time stamp, can only make it larger. So no file slips from a page that is still to be read to one that was (`NoneSkipped`): a page
shows the places that are its own and leaves the later ones to later pages, and when the total, counted over
the same rows, says that a page is the last, no place is beyond it. `WalkInv` says what a walk knows
between its two statements, `LookupInv` the same of a look-up, `TableInv` that ids are unique and what was
listed is in the table. Hence `WalksAreComplete` and `ListedFound`. The result of the SELECT is any enumeration of the rows in the
order of their times, so that no induction over a sorting function is needed.

For `StreamedUpload` the invariant counts messages: while pump or handler runs, what is under way
and what the service has taken never exceed what the client has sent, and are all of it unless the stream
was reset (`Conserved`). The pipe can then end with "eof" only when the whole file has gone through
(`PipeEnd`), and a row is that of a whole file: `RowsAreWholeFiles`, `OrphansAreLate`. `NobodyIsStuck`: in
no state do client, pump and store each wait for another. `UploadIsBounded`: every step lessens the number
of steps ahead, which starts at no more than three for each chunk and ten.

**`SyncArchiveProofs`.** `Built` says that what is in the ZIP and what is still to do make up what was
asked for, `Held` what each stage has open, `Flow` that what was sent is what the caller has read or is
under way unless the stream was broken, and `Ends` that the pipe ends without an error only over the
whole. That as many rows as ids makes the ids distinct is a pigeonhole argument. `WholeArchives`
and `ResourcesReturned` follow. With `Settled` (whoever returns ends the stream, whoever leaves knows how the
pipe ended, one file is worked on at a time) builder, pump and caller never wait in a circle
(`NobodyIsStuck`), and a request takes at most six steps for each id and ten (`RequestIsBounded`).

**`ArchiveRequestProofs`.** The same pigeonhole gives ownership: as many rows of the user as ids means
every id is the user's: `AcceptedOwns`. An archive is drawn for one request; a workflow that has ended stays so, and a
result the socket holds is therefore still true when it is written: `ToldTruth`.

**`RequestPathProofs`.** The proof follows one request: the header its call carries is of the user in its own
context, the calls it has made are a beginning of what its route calls for, an answer of
success comes only after the last of them was served, and a refusal after an even number of an upload's
calls, since it is a reservation's turn. No step of another request touches any of these.
Hence `ActsForItsOwner`, `SuccessIsComplete`, `LostWrites` and `RefusalLeavesWhole`. `Tallied` pairs each status
that the browser got with what the middleware recorded of it, in order; a browser that has left, an upgraded
socket and `/health` are apart: `CountersAgree`. `RequestIsBounded`: a request goes forward only, through one
redirect at most, and has once sent 12 steps for one file and 6 more for each other, the service of a call
that nobody waits for among them.

**`StartupProofs`.** Each check of a main function is still to come, or what it found is still so
(`Settled`): buckets and schema, once made, stay, and a setting never changes. Of a service that was
reached nothing is left, and nothing is claimed. `SchemaFirst` and `ServingIsAble` follow, for any flaws.

**Model-checked only.** The liveness properties and nothing else: `UploadsAreAnswered`, `WorkflowCloses`,
`StayingIsTold`, `LeavingReleases`, `UploadReturns`, `PumpEnds`, `RequestEnds`, `AbandonedEnds`,
`ServesOnDemand`.
Fairness and ENABLED are out of the prover's reach. What they rest on is proved: the five theorems on bounds
(`UploadIsBounded` of `FileTransfer` and of `StreamedUpload`, `AttemptsAreBounded`, and `RequestIsBounded` of
`SyncArchive` and of `RequestPath`) say that none of these goes on for ever, since a number falls with each step, and
`NobodyIsStuck` that the two streams never stand in a circle. What remains to TLC is that a step which waits
for nobody is taken.

## 6. Where the code and its documentation disagree

Two are counterexamples of a run:

- `auth_refresh`: a refresh in the second in which the old access token was issued hands out the same
  token, just put on the blacklist (`auth/service.go:69`, `auth/handler.go:58`).
- `auth_logout_all`: the handler reads the user id under a key that the middleware does not write, and
  panics (`auth/handler.go:90`): no session is ended.

The others were met on the way. The modules have them as the code does, and where a property would fail
on them its exemption (section 3) names them:

- Between the PUT and its confirmation, or for good when the confirmation failed, a download finds an
  object whose row says size 0, announces `Content-Length: 0` and answers 200 with an empty body
  (`file.go:96`); docs/API.md:192 promises the raw content.
- The "best effort" clean-up (docs/TEMPORAL.md:136 and 148) is queued for the session's worker without
  a limit, and the workflow waits for it (`archive.go:56`).
- An attempt at the ZIP that was given up can spoil its successor's (`activity.go:89`).
- An unknown file is answered with 500 and not 404, since `mapError` (`server/grpc.go:307`) makes
  every error an internal one (docs/API.md:297).
- A part over the size limit is answered with 400; docs/API.md:103 says 413. The parts before it stay.
- The handler of listings reads `pageSize` (`file.go:106`) where docs/API.md:131 says `page_size`.
- A `POST` to a path with a trailing slash is redirected with 301 and comes back as a `GET`.
- README.md:45 starts the full stack with `docker-compose up`, but the compose file gives the file server
  and the worker no Google credentials, so that both end at `NewStorageClient`; the storage service can
  also look for its buckets before `minio-init` has made them, and nothing starts it again.
- A logout is answered with 204 whatever came of it: it leaves a token that was sent as Bearer, and ignores
  an error of Redis (`auth/handler.go:78`); the docs say nothing of either.
- The storage service's main speaks of an "HTTP server with observability middleware"
  (`storage/cmd/server/main.go:88`) and mounts none.

## 7. What is not modelled

- Logging, tracing and the flushing of telemetry at exit; the formatting of requests and responses beyond
  what a property tells apart: no other step depends on them.
- The generated RPC code, mocks and stub; the web page, a static template that calls no service; the
  header stripper, which makes S3 accept a signature and keeps no state.
- Sign-up and password hashing: one INSERT under a unique e-mail.
- The expiry of presigned URLs after 15 minutes: a PUT or GET with an expired URL is one that fails, and
  failures are modelled at every such call.
- The temporary file of a storage service that died: nothing in the code speaks of it.
- `Repository.Update` and `PresignStore`, which have no caller.

Temporal, PostgreSQL, Redis, S3, gRPC streams and `io.Pipe` are external: they are modelled from how the
code uses them, and marked so in `PROJECT.json`.

## 8. Plan

Done: every component with control of its own is modelled; all safety and action properties of the runs are
proved, both abstract specifications are implemented by proof, both streams are proved free of circular
waiting, and what ends by itself (uploads, streams, requests, attempts of activities) is bounded in its steps.

Left, in this order:

1. A clock for presigned URLs in `ArchiveWorkflow`, to say that a download retried in time still has a
   URL that works.
2. The fetch pump between storage service and file server as messages, in the manner of
   `StreamedUpload`; sign-up with its unique e-mail; the reader of a local object while it still grows.
