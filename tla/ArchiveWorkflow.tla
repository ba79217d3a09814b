--------------------------- MODULE ArchiveWorkflow ---------------------------
(***************************************************************************)
(* One run of BulkDownloadWorkflow: resolve the files, open a session on   *)
(* one worker, download all files in parallel into the worker's temporary  *)
(* directory, zip them, upload the archive, and clean up on the way out    *)
(* whatever the outcome.                                                   *)
(*                                                                         *)
(* Three parties take steps.  The workflow code waits on activities.  The  *)
(* Temporal server dispatches an activity, retries it up to MaxAttempts    *)
(* times, and times an attempt out when it hears nothing.  The workers run *)
(* attempts; a report can be lost, a worker can crash, and what an attempt *)
(* is doing does not stop because the server has given it up.              *)
(*                                                                         *)
(* The bytes of a file are abstracted to whether they are all there.       *)
(***************************************************************************)
EXTENDS Integers, Sequences, FiniteSets

CONSTANTS
    Files,         \* the sequence of files in the order of the resolved list
    Workers,       \* the worker processes
    MaxAttempts    \* RetryPolicy.MaximumAttempts

FileSet == {Files[k] : k \in 1..Len(Files)}

Step == {"resolve", "zip", "upload", "cleanup"}

Activities == FileSet \cup Step

ASSUME ArchiveAssumption ==
    /\ Files \in Seq(FileSet) /\ Len(Files) = Cardinality(FileSet)
    /\ FileSet \cap Step = {}
    /\ MaxAttempts \in Nat \ {0}

VARIABLES
    pc,        \* where the workflow code waits
    result,    \* "none", "ok" (the URL of the archive) or "error"
    session,   \* the session: its state, and the worker that holds it
    act,       \* the server's view of each activity
    fetch,     \* what a worker does for each download attempt
    temp,      \* each worker's temporary directory for this archive
    zips,      \* the zip attempts, by number
    zipFile,   \* archive.zip: the attempt that truncated it last, and damage done since
    archive,   \* the object in the archive bucket
    puts,      \* by attempt: the body that S3 has got and not yet stored, though it was given up
    objects,   \* the requested files that are in the object store
    alive      \* the workers that run

vars == <<pc, result, session, act, fetch, temp, zips, zipFile, archive, puts, objects, alive>>

NoWorker == "none"

Activity == [state : {"idle", "scheduled", "running", "silent", "done", "failed", "canceled"},
             attempt : 0..MaxAttempts,
             on : Workers \cup {NoWorker}]

Fetch == {"none", "get", "write"}

Temp == [dir : BOOLEAN, file : [FileSet -> {"none", "partial", "whole"}]]

NoTemp == [dir |-> FALSE, file |-> [f \in FileSet |-> "none"]]

Bodies == {"whole", "spoiled", "broken"}

ZipAttempt == [state : {"none", "running", "closed", "failed"},
               copied : 0..Len(Files),
               good : BOOLEAN]

TypeOK ==
    /\ pc \in {"resolve", "session", "download", "zip", "upload", "cleanup", "closed"}
    /\ result \in {"none", "ok", "error"}
    /\ session \in [state : {"none", "open", "failed"}, worker : Workers \cup {NoWorker}]
    /\ act \in [Activities -> Activity]
    /\ fetch \in [FileSet -> Fetch]
    /\ temp \in [Workers -> Temp]
    /\ zips \in [1..MaxAttempts -> ZipAttempt]
    /\ zipFile \in [by : 0..MaxAttempts, damaged : BOOLEAN]
    /\ archive \in {"none"} \cup Bodies
    /\ puts \in [1..MaxAttempts -> {"none"} \cup Bodies]
    /\ objects \in SUBSET FileSet
    /\ alive \in SUBSET Workers

Init ==
    /\ pc = "resolve" /\ result = "none"
    /\ session = [state |-> "none", worker |-> NoWorker]
    /\ act = [k \in Activities |->
                [state |-> IF k = "resolve" THEN "scheduled" ELSE "idle",
                 attempt |-> 0, on |-> NoWorker]]
    /\ fetch = [f \in FileSet |-> "none"]
    /\ temp = [w \in Workers |-> NoTemp]
    /\ zips = [a \in 1..MaxAttempts |-> [state |-> "none", copied |-> 0, good |-> TRUE]]
    /\ zipFile = [by |-> 0, damaged |-> FALSE]
    /\ archive = "none"
    /\ puts = [a \in 1..MaxAttempts |-> "none"]
    /\ objects \in SUBSET FileSet
    /\ alive = Workers

-----------------------------------------------------------------------------
(* The workflow code.                                                      *)

(* ExecuteActivity: a session known to have failed runs nothing any more.  *)
Scheduled(ks) ==
    LET s == IF session.state = "failed" THEN "failed" ELSE "scheduled"
    IN  [k \in Activities |-> IF k \in ks THEN [act[k] EXCEPT !.state = s] ELSE act[k]]

Ended(k) == act[k].state \in {"failed", "canceled"}

(* Return with the deferred clean-up: it is run in a context of its own,   *)
(* but in the session, on the queue of the session's worker.               *)
Finish(r) ==
    /\ result' = r
    /\ pc' = "cleanup" /\ act' = Scheduled({"cleanup"})

unchangedByWorkflow == <<fetch, temp, zips, zipFile, archive, puts, objects, alive>>

WfResolve ==
    /\ pc = "resolve"
    /\ \/ /\ act["resolve"].state = "done"
          /\ pc' = "session" /\ UNCHANGED result
       \/ /\ Ended("resolve")
          /\ pc' = "closed" /\ result' = "error"
    /\ UNCHANGED <<session, act>> /\ UNCHANGED unchangedByWorkflow

(* CreateSession: a worker takes the session, and the downloads are all    *)
(* scheduled on that worker's queue.                                       *)
WfSession(w) ==
    /\ pc = "session" /\ w \in alive
    /\ session' = [state |-> "open", worker |-> w]
    /\ act' = Scheduled(FileSet)
    /\ pc' = "download"
    /\ UNCHANGED result /\ UNCHANGED unchangedByWorkflow

(* No worker takes it within CreationTimeout.                              *)
WfNoSession ==
    /\ pc = "session"
    /\ pc' = "closed" /\ result' = "error"
    /\ UNCHANGED <<session, act>> /\ UNCHANGED unchangedByWorkflow

(* Mutant: the first future alone is waited for.                           *)
WfDownloads_FirstOnly ==
    /\ pc = "download" /\ act[Files[1]].state = "done"
    /\ act' = Scheduled({"zip"}) /\ pc' = "zip"
    /\ UNCHANGED <<result, session>> /\ UNCHANGED unchangedByWorkflow

(* The futures are read in order: the first that failed ends the workflow  *)
(* once those before it are done, whatever those after it are doing.       *)
WfDownloads ==
    /\ pc = "download"
    /\ \/ /\ \A f \in FileSet : act[f].state = "done"
          /\ act' = Scheduled({"zip"}) /\ pc' = "zip" /\ UNCHANGED result
       \/ /\ \E k \in 1..Len(Files) :
                /\ Ended(Files[k])
                /\ \A j \in 1..(k-1) : act[Files[j]].state = "done"
          /\ Finish("error")
    /\ UNCHANGED session /\ UNCHANGED unchangedByWorkflow

(* Mutant: the workflow goes on when the zip has been given up.            *)
WfZip_IgnoresError ==
    /\ pc = "zip" /\ (act["zip"].state = "done" \/ Ended("zip"))
    /\ act' = Scheduled({"upload"}) /\ pc' = "upload" /\ UNCHANGED result
    /\ UNCHANGED session /\ UNCHANGED unchangedByWorkflow

WfZip ==
    /\ pc = "zip"
    /\ \/ /\ act["zip"].state = "done"
          /\ act' = Scheduled({"upload"}) /\ pc' = "upload" /\ UNCHANGED result
       \/ Ended("zip") /\ Finish("error")
    /\ UNCHANGED session /\ UNCHANGED unchangedByWorkflow

(* Mutant: the result of the upload is not waited for.                     *)
WfUpload_NotWaited ==
    /\ pc = "upload"
    /\ Finish("ok")
    /\ UNCHANGED session /\ UNCHANGED unchangedByWorkflow

WfUpload ==
    /\ pc = "upload"
    /\ \/ act["upload"].state = "done" /\ Finish("ok")
       \/ Ended("upload") /\ Finish("error")
    /\ UNCHANGED session /\ UNCHANGED unchangedByWorkflow

(* The error of the clean-up is ignored, its end is waited for.            *)
WfCleanup ==
    /\ pc = "cleanup" /\ (act["cleanup"].state = "done" \/ Ended("cleanup"))
    /\ pc' = "closed"
    /\ UNCHANGED <<result, session, act>> /\ UNCHANGED unchangedByWorkflow

-----------------------------------------------------------------------------
(* The Temporal server.                                                    *)

(* Mutant: no session, so that any worker takes any activity.              *)
Eligible_AnyWorker(k) == alive

(* The workers that may take an activity: all of them for the resolution,  *)
(* the session's worker for everything else.                               *)
Eligible(k) == IF k = "resolve" THEN alive ELSE alive \cap {session.worker}

(* A worker takes an attempt.  A download first creates the directory; a   *)
(* zip creates the directory and truncates the archive.                    *)
Dispatch(k, w) ==
    /\ pc # "closed" /\ act[k].state = "scheduled" /\ w \in Eligible(k)
    /\ LET n == act[k].attempt + 1
       IN  /\ act' = [act EXCEPT ![k] = [state |-> "running", attempt |-> n, on |-> w]]
           /\ fetch' = IF k \in FileSet THEN [fetch EXCEPT ![k] = "get"] ELSE fetch
           /\ temp' = IF k \in FileSet \cup {"zip"} THEN [temp EXCEPT ![w].dir = TRUE] ELSE temp
           /\ IF k = "zip"
              THEN /\ zips' = [zips EXCEPT ![n].state = "running"]
                   /\ zipFile' = [by |-> n, damaged |-> FALSE]
              ELSE UNCHANGED <<zips, zipFile>>
    /\ UNCHANGED <<pc, result, session, archive, puts, objects, alive>>

(* Mutants: a failed download restarts them all; an attempt that fails     *)
(* does not count.                                                         *)
AfterFailure_AllAgain(k) ==
    [j \in Activities |->
        IF j = k \/ (k \in FileSet /\ j \in FileSet)
        THEN [act[j] EXCEPT !.state = IF act[k].attempt < MaxAttempts THEN "scheduled" ELSE "failed"]
        ELSE act[j]]

AfterFailure_Forever(k) ==
    [act EXCEPT ![k].state = "scheduled", ![k].attempt = @ - 1]

(* Once more, or no more.                                                  *)
AfterFailure(k) ==
    [act EXCEPT ![k].state = IF act[k].attempt < MaxAttempts THEN "scheduled" ELSE "failed"]

(* StartToCloseTimeout: the report was lost or the worker is dead.  The    *)
(* context of a request ends with the timeout, but nothing ends a zip that *)
(* takes too long: it is given up while it runs.                           *)
TimeOut(k) ==
    /\ pc # "closed"
    /\ \/ act[k].state = "silent"
       \/ act[k].state = "running" /\ (k = "zip" \/ act[k].on \notin alive)
    /\ act' = AfterFailure(k)
    /\ UNCHANGED <<pc, result, session, fetch, temp, zips, zipFile, archive, puts, objects, alive>>

(* The session's worker stops heartbeating, or the session runs into its   *)
(* ExecutionTimeout: its context is canceled, and every activity in it.    *)
(* The clean-up's context is disconnected from it.  An attempt that runs   *)
(* does not notice.                                                        *)
Cancel(k) ==
    [act[k] EXCEPT !.state = "canceled", !.on = IF act[k].state = "running" THEN @ ELSE NoWorker]

SessionLost ==
    /\ session.state = "open" /\ pc # "closed"
    /\ session' = [session EXCEPT !.state = "failed"]
    /\ act' = [k \in Activities |->
                 IF k \notin {"resolve", "cleanup"} /\ act[k].state \in {"scheduled", "running", "silent"}
                 THEN Cancel(k) ELSE act[k]]
    /\ UNCHANGED <<pc, result, fetch, temp, zips, zipFile, archive, puts, objects, alive>>

-----------------------------------------------------------------------------
(* The workers.                                                            *)

(* An attempt reports; the report may be lost, and counts only while the   *)
(* server still waits for this attempt.                                    *)
Awaited(k, n) == act[k].state = "running" /\ act[k].attempt = n

ReportsDone(k, n) ==
    IF Awaited(k, n)
    THEN \E s \in {"done", "silent"} : act' = [act EXCEPT ![k].state = s]
    ELSE UNCHANGED act

ReportsFailure(k, n) ==
    IF Awaited(k, n)
    THEN act' = AfterFailure(k) \/ act' = [act EXCEPT ![k].state = "silent"]
    ELSE UNCHANGED act

On(k, w) == act[k].on = w /\ w \in alive

(* The object answers 200, and the temporary file is created, unless the   *)
(* directory has gone.                                                     *)
DownloadCreate(f, w) ==
    /\ fetch[f] = "get" /\ On(f, w)
    /\ f \in objects /\ temp[w].dir
    /\ fetch' = [fetch EXCEPT ![f] = "write"]
    /\ temp' = [temp EXCEPT ![w].file[f] = "partial"]
    /\ UNCHANGED <<pc, result, session, act, zips, zipFile, archive, puts, objects, alive>>

(* The whole body is written; a file removed meanwhile stays removed.      *)
DownloadEnd(f, w) ==
    /\ fetch[f] = "write" /\ On(f, w)
    /\ fetch' = [fetch EXCEPT ![f] = "none"]
    /\ temp' = IF temp[w].file[f] = "partial"
               THEN [temp EXCEPT ![w].file[f] = "whole"] ELSE temp
    /\ ReportsDone(f, act[f].attempt)
    /\ UNCHANGED <<pc, result, session, zips, zipFile, archive, puts, objects, alive>>

(* No object, an expired URL, a broken stream, a full disk.                *)
DownloadFail(f, w) ==
    /\ fetch[f] # "none" /\ On(f, w)
    /\ fetch' = [fetch EXCEPT ![f] = "none"]
    /\ ReportsFailure(f, act[f].attempt)
    /\ UNCHANGED <<pc, result, session, temp, zips, zipFile, archive, puts, objects, alive>>

(* The next file in order is copied in, as the directory has it.           *)
ZipCopy(n, w) ==
    LET f == Files[zips[n].copied + 1]
    IN  /\ zips[n].state = "running" /\ w \in alive \cap {session.worker}
        /\ zips[n].copied < Len(Files) /\ temp[w].file[f] # "none"
        /\ zips' = [zips EXCEPT ![n].copied = @ + 1,
                                ![n].good = @ /\ temp[w].file[f] = "whole"]
        /\ UNCHANGED <<pc, result, session, act, fetch, temp, zipFile, archive, puts, objects, alive>>

ZipEnd(n, w) ==
    /\ zips[n].state = "running" /\ w \in alive \cap {session.worker}
    /\ zips[n].copied = Len(Files)
    /\ zips' = [zips EXCEPT ![n].state = "closed"]
    /\ ReportsDone("zip", n)
    /\ UNCHANGED <<pc, result, session, fetch, temp, zipFile, archive, puts, objects, alive>>

(* A file is missing or an I/O error occurs: the deferred Close writes the *)
(* directory of the entries so far where this attempt stands, which spoils *)
(* the archive when a later attempt has written past that point, and is    *)
(* itself written over otherwise.                                          *)
ZipFail(n, w) ==
    LET by == zipFile.by
        overtaken == by # 0 /\ by # n /\ zips[by].copied > zips[n].copied
    IN  /\ zips[n].state = "running" /\ w \in alive \cap {session.worker}
        /\ zips' = [zips EXCEPT ![n].state = "failed"]
        /\ zipFile' = IF overtaken THEN [zipFile EXCEPT !.damaged = TRUE] ELSE zipFile
        /\ ReportsFailure("zip", n)
        /\ UNCHANGED <<pc, result, session, fetch, temp, archive, puts, objects, alive>>

ZipIsWhole ==
    /\ zipFile.by # 0
    /\ zips[zipFile.by].state = "closed" /\ zips[zipFile.by].good

Zipped == CASE ~ ZipIsWhole -> "broken"
            [] ZipIsWhole /\ zipFile.damaged -> "spoiled"
            [] OTHER -> "whole"

Uploads(w) ==
    act["upload"].state \in {"running", "canceled"} /\ act["upload"].on = w

(* The PUT of what the zip file is, then the URL to fetch it by.  A        *)
(* canceled attempt may still get there.                                   *)
UploadEnd(w) ==
    /\ Uploads(w) /\ w \in alive /\ zipFile.by # 0
    /\ archive' = Zipped
    /\ ReportsDone("upload", act["upload"].attempt)
    /\ UNCHANGED <<pc, result, session, fetch, temp, zips, zipFile, puts, objects, alive>>

(* The client gives its PUT up, at its Timeout, with the context, with the *)
(* connection or with its process, when S3 may have the whole body.        *)
LeavesPut ==
    \/ UNCHANGED puts
    \/ zipFile.by # 0 /\ puts' = [puts EXCEPT ![act["upload"].attempt] = Zipped]

(* A failure before the PUT, in it, or after it.                           *)
UploadFail(w) ==
    /\ Uploads(w) /\ w \in alive
    /\ \/ LeavesPut /\ UNCHANGED archive
       \/ zipFile.by # 0 /\ archive' = Zipped /\ UNCHANGED puts
    /\ ReportsFailure("upload", act["upload"].attempt)
    /\ UNCHANGED <<pc, result, session, fetch, temp, zips, zipFile, objects, alive>>

(* S3 stores a body that it has got, whoever still waits for it: a later   *)
(* attempt has put the same key, or the workflow has closed.               *)
LatePut(n) ==
    /\ puts[n] # "none"
    /\ archive' = puts[n] /\ puts' = [puts EXCEPT ![n] = "none"]
    /\ UNCHANGED <<pc, result, session, act, fetch, temp, zips, zipFile, objects, alive>>

(* RemoveAll.                                                              *)
CleanupEnd(w) ==
    /\ act["cleanup"].state = "running" /\ On("cleanup", w)
    /\ temp' = [temp EXCEPT ![w] = NoTemp]
    /\ zipFile' = [by |-> 0, damaged |-> FALSE]
    /\ ReportsDone("cleanup", act["cleanup"].attempt)
    /\ UNCHANGED <<pc, result, session, fetch, zips, archive, puts, objects, alive>>

(* The RPC of the resolution; an activity that only fails.                 *)
ResolveEnd(w) ==
    /\ act["resolve"].state = "running" /\ On("resolve", w)
    /\ ReportsDone("resolve", act["resolve"].attempt)
    /\ UNCHANGED <<pc, result, session, fetch, temp, zips, zipFile, archive, puts, objects, alive>>

PlainFail(k, w) ==
    /\ k \in {"resolve", "cleanup"}
    /\ act[k].state = "running" /\ On(k, w)
    /\ ReportsFailure(k, act[k].attempt)
    /\ UNCHANGED <<pc, result, session, fetch, temp, zips, zipFile, archive, puts, objects, alive>>

(* A worker process dies with its container: its attempts, its queue and   *)
(* its temporary directory are gone.                                       *)
Crash(w) ==
    /\ w \in alive
    /\ alive' = alive \ {w}
    /\ temp' = [temp EXCEPT ![w] = NoTemp]
    /\ fetch' = [f \in FileSet |-> IF act[f].on = w THEN "none" ELSE fetch[f]]
    /\ IF Uploads(w) THEN LeavesPut ELSE UNCHANGED puts
    /\ UNCHANGED <<pc, result, session, act, zips, zipFile, archive, objects>>

(* A PUT under way when the archive was asked for arrives.                 *)
PutArrives(f) ==
    /\ f \in FileSet \ objects
    /\ objects' = objects \cup {f}
    /\ UNCHANGED <<pc, result, session, act, fetch, temp, zips, zipFile, archive, puts, alive>>

-----------------------------------------------------------------------------
(* Workflow tasks run on any worker.                                       *)
WorkflowStep ==
    /\ alive # {}
    /\ \/ WfResolve \/ (\E w \in Workers : WfSession(w)) \/ WfNoSession
       \/ WfDownloads \/ WfZip \/ WfUpload \/ WfCleanup

ServerStep ==
    \/ \E k \in Activities : TimeOut(k) \/ \E w \in Workers : Dispatch(k, w)
    \/ SessionLost

DownloadStep(f, w) == DownloadCreate(f, w) \/ DownloadEnd(f, w) \/ DownloadFail(f, w)

ZipStep(n, w) == ZipCopy(n, w) \/ ZipEnd(n, w) \/ ZipFail(n, w)

AttemptStep(w) ==
    \/ \E f \in FileSet : DownloadStep(f, w)
    \/ \E n \in 1..MaxAttempts : ZipStep(n, w)
    \/ UploadEnd(w) \/ UploadFail(w) \/ CleanupEnd(w) \/ ResolveEnd(w)
    \/ \E k \in Activities : PlainFail(k, w)

Next ==
    \/ WorkflowStep
    \/ ServerStep
    \/ \E w \in Workers : AttemptStep(w) \/ Crash(w)
    \/ \E f \in FileSet : PutArrives(f)
    \/ \E n \in 1..MaxAttempts : LatePut(n)

Spec == Init /\ [][Next]_vars

(* What somebody is bound to do while it can be done: workflow code that   *)
(* can go on, an attempt that can be dispatched, one whose report nobody   *)
(* will get, one that runs, and a session whose worker is dead.            *)
Progress ==
    \/ WorkflowStep
    \/ \E k \in Activities :
          \/ \E w \in Workers : Dispatch(k, w)
          \/ (act[k].state = "silent" \/ act[k].on \notin alive) /\ TimeOut(k)
    \/ \E w \in Workers :
          \/ \E f \in FileSet : DownloadStep(f, w)
          \/ \E n \in 1..MaxAttempts : ZipStep(n, w)
          \/ act["upload"].state = "running" /\ (UploadEnd(w) \/ UploadFail(w))
          \/ CleanupEnd(w) \/ ResolveEnd(w)
          \/ \E k \in Activities : PlainFail(k, w)
    \/ session.worker \notin alive /\ SessionLost

(* As long as something is to be done, something is done: less than that   *)
(* each worker and each queue is served.  A worker is under no obligation  *)
(* to crash, a PUT to arrive, early or late, or a live session to be lost. *)
Fairness == WF_vars(Progress)

FairSpec == Spec /\ Fairness

-----------------------------------------------------------------------------
(* Properties.                                                             *)

(* A workflow that answers with a URL has put the whole archive behind it: *)
(* every file, every byte, whatever attempts failed, were given up while   *)
(* they ran, or were repeated.  One thing can spoil it: a zip attempt that *)
(* was given up meets an I/O error, and its deferred Close writes into the *)
(* archive.zip that it shares with its successor.                          *)
ArchiveIsExact == result = "ok" => archive \in {"whole", "spoiled"}

(* While the workflow waits for the zip, its worker has every file whole:  *)
(* the session keeps the activities on the worker with the files, and the  *)
(* clean-up has not yet run.                                               *)
ZipFindsFiles ==
    \A w \in Workers :
        pc = "zip" /\ act["zip"].state = "running" /\ On("zip", w)
            => \A f \in FileSet : temp[w].file[f] = "whole"

(* After a clean-up that was done a closed workflow has left nothing in    *)
(* any worker's temporary directory, whatever attempts went on beside it,  *)
(* but for one case: a download failed for good, and another one, which    *)
(* nothing calls off, was begun after the clean-up and has created the     *)
(* directory anew.                                                         *)
TriedBeside ==
    \E f, g \in FileSet : f # g /\ act[f].attempt > 0 /\ act[g].state = "failed"

LeftoversAreLate ==
    pc = "closed" /\ act["cleanup"].state = "done"
        => \A w \in Workers : temp[w] # NoTemp =>
                /\ result = "error" /\ w = session.worker
                /\ TriedBeside

(* docs/TEMPORAL.md:154: a file's failure restarts no other file.  A       *)
(* finished download is not run again, and its file stays until the        *)
(* clean-up or the worker's end.                                           *)
DownloadsRetryAlone ==
    [][\A f \in FileSet : act[f].state = "done" =>
          LET w == act[f].on
          IN  /\ act'[f] = act[f]
              /\ temp'[w].file[f] = temp[w].file[f] \/ pc = "cleanup" \/ w \notin alive']_vars

(* The workflow implements the job of those who wait for it: it closes     *)
(* once, with a URL only over a finished archive, and what is stored after *)
(* that, by attempts whose PUT was given up and stored late, is finished   *)
(* too: no attempt still runs, and none had sent a broken zip.             *)
Status == CASE pc # "closed" -> "running"
            [] pc = "closed" /\ result = "ok" -> "completed"
            [] OTHER -> "failed"

Due == {puts[n] : n \in 1..MaxAttempts} \ {"none"}

Job == INSTANCE ArchiveJob WITH status <- Status, due <- Due

ImplementsJob == Job!Spec

(* The workflow closes, unless no worker is left or the clean-up, which is *)
(* queued for the session's worker without a limit, waits for a worker     *)
(* that is dead.                                                           *)
Orphaned == alive = {} \/ (pc = "cleanup" /\ session.worker \notin alive)

WorkflowCloses == <>(pc = "closed") \/ <>[]Orphaned

=============================================================================
