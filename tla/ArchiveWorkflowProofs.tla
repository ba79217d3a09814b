------------------------- MODULE ArchiveWorkflowProofs -------------------------
(***************************************************************************)
(* The safety of the archive workflow for any files, workers and number of *)
(* attempts.                                                               *)
(*                                                                         *)
(* The inductive invariant says what has been scheduled by where the       *)
(* workflow waits; that until the clean-up is scheduled, which nothing     *)
(* precedes, what a worker has on disk is what its downloads have done;    *)
(* and that the zip file is the last attempt's, from whole files only.     *)
(***************************************************************************)
EXTENDS ArchiveWorkflow, TLAPS

Early == {"resolve", "session"}
Late == {"cleanup", "closed"}

Pending == {"scheduled", "running", "silent"}
Live == {"running", "silent", "done"}

InSession == FileSet \cup {"zip", "upload"}

(* What has been scheduled by now, and what has ended.                     *)
Course ==
    /\ pc \in Early => \A f \in FileSet : act[f].state = "idle"
    /\ pc \in Early \cup {"download"} => act["zip"].state = "idle"
    /\ pc \in Early \cup {"download", "zip"} => act["upload"].state = "idle"
    /\ pc \notin Late => act["cleanup"].state = "idle" /\ result = "none"
    /\ pc \in {"zip", "upload"} => \A f \in FileSet : act[f].state = "done"
    /\ pc = "upload" => act["zip"].state = "done"
    /\ pc \in Late => act["zip"].state \notin Pending /\ act["upload"].state \notin Pending
    /\ pc = "closed" => act["cleanup"].state \notin Pending
    /\ pc = "cleanup" => result \in {"ok", "error"}
    /\ result = "ok" => act["upload"].state = "done" /\ \A f \in FileSet : act[f].state = "done"

Attempts ==
    \A k \in Activities :
        /\ act[k].state = "idle" => act[k].attempt = 0
        /\ act[k].state = "scheduled" => act[k].attempt < MaxAttempts
        /\ act[k].state \in Live => act[k].attempt > 0

(* A session that has failed has nothing pending, and keeps its worker.    *)
Sessions ==
    /\ pc \in Early => session.state = "none"
    /\ pc \notin Early \cup {"closed"} => session.worker \in Workers
    /\ session.state = "failed" => \A k \in InSession : act[k].state \notin Pending
    /\ \A k \in InSession : act[k].state = "canceled" => session.state = "failed"
    /\ \A f \in FileSet : act[f].state # "idle" => session.worker \in Workers
    /\ \A k \in Activities \ {"resolve"} : act[k].state \in Live => act[k].on = session.worker

(* A clean-up has either seen all downloads done, or been caused by one    *)
(* that failed, or by the loss of the session.                             *)
Causes ==
    pc = "cleanup" => \/ \A f \in FileSet : act[f].state = "done"
                      \/ \E f \in FileSet : act[f].state = "failed"
                      \/ session.state = "failed"

(* Only the session's worker has files, as its downloads have left them.   *)
Places ==
    /\ pc \in Early => \A w \in Workers : temp[w] = NoTemp
    /\ \A w \in Workers : w # session.worker => temp[w] = NoTemp
    /\ \A f \in FileSet :
          /\ fetch[f] # "none" => act[f].state \in {"running", "canceled"} /\ act[f].on \in alive
          /\ fetch[f] = "write" /\ act[f].state = "running" /\ pc \notin Late
                => temp[session.worker].file[f] = "partial"
          /\ act[f].state = "done" /\ pc \notin Late /\ session.worker \in alive
                => temp[session.worker].file[f] = "whole"

(* The zip file is the last attempt's, and no attempt has met a file that  *)
(* was not whole.                                                          *)
Zipping ==
    /\ \A n \in 1..MaxAttempts : zips[n].state # "none" => n <= act["zip"].attempt
    /\ pc \notin Late => /\ zipFile.by = act["zip"].attempt
                         /\ \A n \in 1..MaxAttempts : zips[n].good
    /\ act["zip"].state = "done" => zips[act["zip"].attempt].state = "closed"

(* What has been uploaded, or was sent and may be stored yet, is finished  *)
(* unless the upload has ended without being done.                         *)
Delivered ==
    /\ act["upload"].state = "done" => archive \in {"whole", "spoiled"}
    /\ ~ Ended("upload") => \A n \in 1..MaxAttempts : puts[n] # "broken"

Leftovers ==
    act["cleanup"].state = "done"
        => \A w \in Workers : temp[w] # NoTemp =>
              result = "error" /\ w = session.worker /\ TriedBeside

Inv ==
    /\ TypeOK /\ Course /\ Attempts /\ Sessions /\ Causes
    /\ Places /\ Zipping /\ Delivered /\ Leftovers

-----------------------------------------------------------------------------
LEMMA Names ==
  /\ FileSet \subseteq Activities
  /\ {"resolve", "zip", "upload", "cleanup"} \subseteq Activities
  /\ \A f \in FileSet : f \notin {"resolve", "zip", "upload", "cleanup"}
  /\ \A k \in 1..Len(Files) : Files[k] \in FileSet
  /\ MaxAttempts \in Nat /\ MaxAttempts > 0 /\ Len(Files) \in Nat
  /\ InSession \subseteq Activities \ {"resolve", "cleanup"}
<1>1. \A f \in FileSet : f \notin {"resolve", "zip", "upload", "cleanup"}
  BY ArchiveAssumption DEF Step
<1>2. MaxAttempts \in Nat /\ MaxAttempts > 0 /\ Len(Files) \in Nat
  BY ArchiveAssumption
<1>3. \A k \in 1..Len(Files) : Files[k] \in FileSet
  BY DEF FileSet
<1> QED
  BY <1>1, <1>2, <1>3 DEF Activities, Step, InSession

LEMMA InitInv == Init => Inv
<1> SUFFICES ASSUME Init PROVE Inv
  OBVIOUS
<1> USE Names
<1>1. TypeOK
  BY DEF Init, TypeOK, Activity, Fetch, Temp, NoTemp, ZipAttempt, Bodies, Activities, Step
<1>2. Course /\ Attempts /\ Sessions /\ Causes
  BY DEF Init, Course, Attempts, Sessions, Causes, Early, Late, Pending, Live, InSession,
     Activities, Step
<1>3. Places /\ Zipping /\ Delivered /\ Leftovers
  BY DEF Init, Places, Zipping, Delivered, Ended, Leftovers, Early, Late, Activities, Step
<1> QED
  BY <1>1, <1>2, <1>3 DEF Inv

(* The state of one activity, from one that the server awaits.             *)
Becomes(k, s) ==
    /\ act[k].state \in {"running", "silent"}
    /\ s \in {"scheduled", "silent", "done", "failed"}
    /\ s = "scheduled" => act[k].attempt < MaxAttempts
    /\ act' = [act EXCEPT ![k].state = s]

LEMMA Pointwise ==
  ASSUME TypeOK, NEW k \in Activities, NEW s, Becomes(k, s)
  PROVE  /\ act' \in [Activities -> Activity]
         /\ act'[k].state = s /\ act'[k].attempt = act[k].attempt /\ act'[k].on = act[k].on
         /\ \A j \in Activities \ {k} : act'[j] = act[j]
<1> DEFINE a == [act[k] EXCEPT !.state = s]
<1>1. a \in Activity /\ a.state = s /\ a.attempt = act[k].attempt /\ a.on = act[k].on
  BY DEF Becomes, TypeOK, Activity
<1>2. act' = [act EXCEPT ![k] = a]
  BY DEF Becomes
<1> HIDE DEF a
<1> QED
  BY <1>1, <1>2 DEF TypeOK

LEMMA Retried ==
  ASSUME TypeOK, NEW k \in Activities, act[k].state \in {"running", "silent"},
         act' = AfterFailure(k)
  PROVE  \E s \in {"scheduled", "failed"} : Becomes(k, s)
  BY DEF AfterFailure, Becomes

LEMMA Reported ==
  ASSUME TypeOK, NEW k \in Activities, NEW n, ReportsDone(k, n)
  PROVE  \/ act' = act
         \/ act[k].state = "running" /\ act[k].attempt = n
            /\ \E s \in {"done", "silent"} : Becomes(k, s)
  BY DEF ReportsDone, Awaited, Becomes

LEMMA ReportedFailure ==
  ASSUME TypeOK, NEW k \in Activities, NEW n, ReportsFailure(k, n)
  PROVE  \/ act' = act
         \/ act[k].state = "running" /\ act[k].attempt = n
            /\ \E s \in {"scheduled", "failed", "silent"} : Becomes(k, s)
  BY Retried DEF ReportsFailure, Awaited, Becomes

(* What a report or a time-out leaves of the activities.                   *)
Steady ==
    /\ act' \in [Activities -> Activity]
    /\ \A j \in Activities : /\ act'[j].attempt = act[j].attempt /\ act'[j].on = act[j].on
                             /\ act[j].state \notin {"running", "silent"} => act'[j] = act[j]

(* A step of one activity leaves the course of the workflow.               *)
LEMMA CourseKept ==
  ASSUME Inv, UNCHANGED <<pc, result, session>>,
         \/ act' = act
         \/ \E k \in Activities, s \in {"scheduled", "silent", "done", "failed"} : Becomes(k, s)
  PROVE  Steady /\ Course' /\ Attempts' /\ Sessions' /\ Causes'
<1> USE Names
<1>1. CASE act' = act
  BY <1>1 DEF Steady, Inv, TypeOK, Course, Attempts, Sessions, Causes
<1>2. ASSUME NEW k \in Activities, NEW s \in {"scheduled", "silent", "done", "failed"}, Becomes(k, s)
      PROVE  Steady /\ Course' /\ Attempts' /\ Sessions' /\ Causes'
  <2>1. /\ act' \in [Activities -> Activity]
        /\ act'[k].state = s /\ act'[k].attempt = act[k].attempt /\ act'[k].on = act[k].on
        /\ \A j \in Activities \ {k} : act'[j] = act[j]
    BY <1>2, Pointwise DEF Inv
  <2>2. act[k].state \in {"running", "silent"} /\ (s = "scheduled" => act[k].attempt < MaxAttempts)
    BY <1>2 DEF Becomes
  <2>3. Course'
    BY <2>1, <2>2 DEF Inv, Course, Early, Late, Pending, Activities, Step
  <2>4. Attempts'
    BY <2>1, <2>2 DEF Inv, Attempts, Live
  <2>5. Sessions'
    BY <2>1, <2>2 DEF Inv, Sessions, Early, Pending, Live
  <2>6. Causes'
    BY <2>1, <2>2 DEF Inv, Causes
  <2>7. Steady
    BY <2>1, <2>2 DEF Steady
  <2> QED
    BY <2>3, <2>4, <2>5, <2>6, <2>7
<1> QED
  BY <1>1, <1>2

-----------------------------------------------------------------------------
(* The workflow code.                                                      *)

LEMMA Schedules ==
  ASSUME TypeOK, NEW ks \in SUBSET Activities, act' = Scheduled(ks),
         \A k \in ks : act[k].attempt < MaxAttempts
  PROVE  /\ act' \in [Activities -> Activity]
         /\ \A k \in Activities \ ks : act'[k] = act[k]
         /\ \A k \in ks : /\ act'[k].attempt = act[k].attempt
                          /\ act'[k].state = IF session.state = "failed" THEN "failed" ELSE "scheduled"
  BY DEF TypeOK, Scheduled, Activity

LEMMA WorkflowStepInv == ASSUME Inv, WorkflowStep PROVE Inv'
<1> USE Names
<1> USE DEF unchangedByWorkflow
<1>1. ASSUME WfResolve PROVE Inv'
  <2>1. TypeOK'
    BY <1>1 DEF Inv, TypeOK, WfResolve
  <2>2. Course' /\ Attempts' /\ Sessions' /\ Causes'
    BY <1>1 DEF Inv, WfResolve, Course, Attempts, Sessions, Causes, Early, Late, Pending
  <2>3. Places' /\ Zipping' /\ Delivered' /\ Leftovers'
    BY <1>1 DEF Inv, WfResolve, Course, Places, Zipping, Delivered, Ended, Leftovers, Early, Late, TriedBeside
  <2> QED
    BY <2>1, <2>2, <2>3 DEF Inv
<1>2. ASSUME NEW w \in Workers, WfSession(w) PROVE Inv'
  <2>1. /\ act' \in [Activities -> Activity]
        /\ \A k \in Activities \ FileSet : act'[k] = act[k]
        /\ \A f \in FileSet : act'[f].state = "scheduled" /\ act'[f].attempt = act[f].attempt
    <3>1. act' = Scheduled(FileSet) /\ \A f \in FileSet : act[f].attempt < MaxAttempts
      BY <1>2 DEF WfSession, Inv, Course, Attempts, Early
    <3>2. session.state = "none"
      BY <1>2 DEF WfSession, Inv, Sessions, Early
    <3> QED
      BY <3>1, <3>2, Schedules DEF Inv
  <2>2. TypeOK'
    BY <1>2, <2>1 DEF Inv, TypeOK, WfSession
  <2>3. Course'
    BY <1>2, <2>1 DEF Inv, WfSession, Course, Early, Late, Activities, Step
  <2>4. Attempts'
    BY <1>2, <2>1 DEF Inv, WfSession, Course, Attempts, Early, Live
  <2>5. Sessions' /\ Causes'
    BY <1>2, <2>1 DEF Inv, WfSession, Course, Sessions, Causes, Early, Late, Live, Pending,
       InSession, Activities, Step
  <2>6. Places'
    BY <1>2, <2>1 DEF Inv, WfSession, Course, Places, Early, Late
  <2>7. Zipping' /\ Delivered' /\ Leftovers'
    BY <1>2, <2>1 DEF Inv, WfSession, Course, Zipping, Delivered, Ended, Leftovers, Early, Late, Activities, Step
  <2> QED
    BY <2>2, <2>3, <2>4, <2>5, <2>6, <2>7 DEF Inv
<1>3. ASSUME WfNoSession PROVE Inv'
  <2>1. TypeOK'
    BY <1>3 DEF Inv, TypeOK, WfNoSession
  <2>2. Course' /\ Attempts' /\ Sessions' /\ Causes'
    BY <1>3 DEF Inv, WfNoSession, Course, Attempts, Sessions, Causes, Early, Late, Pending
  <2>3. Places' /\ Zipping' /\ Delivered' /\ Leftovers'
    BY <1>3 DEF Inv, WfNoSession, Course, Places, Zipping, Delivered, Ended, Leftovers, Early, Late, TriedBeside
  <2> QED
    BY <2>1, <2>2, <2>3 DEF Inv
<1>4. ASSUME NEW k \in {"zip", "upload", "cleanup"}, NEW p, NEW r,
             k = "zip" => pc = "download" /\ p = "zip" /\ \A f \in FileSet : act[f].state = "done",
             k = "upload" => pc = "zip" /\ p = "upload" /\ act["zip"].state = "done",
             k = "cleanup" => /\ pc \in {"download", "zip", "upload"} /\ p = "cleanup"
                              /\ pc = "download" => \E f \in FileSet : Ended(f)
                              /\ pc = "zip" => Ended("zip")
                              /\ pc = "upload" => Ended("upload") \/ act["upload"].state = "done",
             IF k # "cleanup" THEN r = "none"
             ELSE r = "error" \/ (r = "ok" /\ pc = "upload" /\ act["upload"].state = "done"),
             pc' = p, result' = r, act' = Scheduled({k}),
             UNCHANGED session, UNCHANGED unchangedByWorkflow
      PROVE  Inv'
  <2>1. act[k].state = "idle" /\ act[k].attempt = 0
    <3>1. k \in Activities /\ act[k].state = "idle"
      BY <1>4 DEF Inv, Course, Early, Late
    <3> QED
      BY <3>1 DEF Inv, Attempts
  <2>2. /\ act' \in [Activities -> Activity]
        /\ \A j \in Activities \ {k} : act'[j] = act[j]
        /\ act'[k].attempt = 0
        /\ act'[k].state = IF session.state = "failed" THEN "failed" ELSE "scheduled"
    <3>1. k \in Activities /\ {k} \in SUBSET Activities /\ \A j \in {k} : act[j].attempt < MaxAttempts
      BY <2>1
    <3> QED
      BY <1>4, <2>1, <3>1, Schedules DEF Inv
  <2>3. TypeOK'
    <3>1. p \in {"zip", "upload", "cleanup"} /\ r \in {"none", "ok", "error"}
      BY <1>4
    <3> QED
      BY <1>4, <2>2, <3>1 DEF Inv, TypeOK
  <2>4. Course'
    <3>1. CASE k = "zip"
      BY <1>4, <2>2, <3>1 DEF Inv, Course, Early, Late
    <3>2. CASE k = "upload"
      BY <1>4, <2>2, <3>2 DEF Inv, Course, Early, Late
    <3>3. CASE k = "cleanup"
      <4>1. \A j \in FileSet \cup {"zip", "upload"} : act'[j] = act[j]
        BY <2>2, <3>3
      <4>2. act["zip"].state \notin Pending /\ act["upload"].state \notin Pending
        BY <1>4, <3>3 DEF Inv, Course, Early, Pending, Ended
      <4>3. result' = "ok" => act["upload"].state = "done" /\ \A f \in FileSet : act[f].state = "done"
        BY <1>4, <3>3 DEF Inv, Course
      <4> QED
        BY <1>4, <3>3, <4>1, <4>2, <4>3 DEF Inv, Course, Early, Late
    <3> QED
      BY <1>4, <3>1, <3>2, <3>3
  <2>5. Attempts'
    BY <1>4, <2>2 DEF Inv, Attempts, Live
  <2>6. Sessions'
    BY <1>4, <2>2 DEF Inv, Sessions, Early, Live, Pending
  <2>7. Causes'
    BY <1>4, <2>2 DEF Inv, Course, Sessions, Causes, Ended, InSession
  <2>8. Places'
    BY <1>4, <2>2 DEF Inv, Places, Early, Late
  <2>9. Zipping' /\ Delivered' /\ Leftovers'
    <3>1. /\ act'["zip"].attempt = act["zip"].attempt
          /\ \A j \in Activities : act'[j].state = "done" => act[j].state = "done"
          /\ act["zip"].state = "done" => act'["zip"].state = "done"
          /\ Ended("upload") => act'["upload"] = act["upload"]
      BY <2>1, <2>2 DEF Ended
    <3>2. p \notin Late => pc \notin Late
      BY <1>4 DEF Late
    <3>3. pc \notin Late => act["cleanup"].state # "done"
      BY DEF Inv, Course
    <3>4. pc \notin Late
      BY <1>4 DEF Late
    <3>5. Zipping'
      BY <1>4, <3>1, <3>2 DEF Inv, Zipping
    <3>6. Delivered' /\ Leftovers'
      BY <1>4, <3>1, <3>3, <3>4 DEF Inv, Delivered, Ended, Leftovers
    <3> QED
      BY <3>5, <3>6
  <2> QED
    BY <2>3, <2>4, <2>5, <2>6, <2>7, <2>8, <2>9 DEF Inv
<1>5. ASSUME WfDownloads PROVE Inv'
  BY <1>4, <1>5 DEF WfDownloads, Finish, Inv, Course, Late
<1>6. ASSUME WfZip PROVE Inv'
  BY <1>4, <1>6 DEF WfZip, Finish, Inv, Course, Late
<1>7. ASSUME WfUpload PROVE Inv'
  BY <1>4, <1>7 DEF WfUpload, Finish, Inv, Course, Late
<1>8. ASSUME WfCleanup PROVE Inv'
  <2>1. TypeOK'
    BY <1>8 DEF Inv, TypeOK, WfCleanup
  <2>2. Course' /\ Attempts' /\ Sessions' /\ Causes'
    BY <1>8 DEF Inv, WfCleanup, Ended, Course, Attempts, Sessions, Causes, Early, Late, Pending
  <2>3. Places' /\ Zipping' /\ Delivered' /\ Leftovers'
    BY <1>8 DEF Inv, WfCleanup, Places, Zipping, Delivered, Ended, Leftovers, Early, Late, TriedBeside
  <2> QED
    BY <2>1, <2>2, <2>3 DEF Inv
<1> QED
  BY <1>1, <1>2, <1>3, <1>5, <1>6, <1>7, <1>8 DEF WorkflowStep

-----------------------------------------------------------------------------
(* The Temporal server.                                                    *)

(* Who has failed, and who was tried, stays so.                            *)
LEMMA BlameStays ==
  ASSUME TriedBeside, \A f \in FileSet : /\ act[f].state = "failed" => act'[f].state = "failed"
                                         /\ act[f].attempt > 0 => act'[f].attempt > 0
  PROVE  TriedBeside'
  BY DEF TriedBeside

LEMMA DispatchInv ==
  ASSUME Inv, NEW k \in Activities, NEW w \in Workers, Dispatch(k, w)
  PROVE  Inv'
<1> USE Names
<1> DEFINE n == act[k].attempt + 1
           a == [state |-> "running", attempt |-> n, on |-> w]
<1>1. n \in 1..MaxAttempts /\ n > 0 /\ act[k].attempt < n
  BY DEF Dispatch, Inv, Attempts, TypeOK, Activity
<1>2. a \in Activity
  BY <1>1 DEF Activity
<1>3. /\ act' \in [Activities -> Activity] /\ act'[k] = a
      /\ \A j \in Activities \ {k} : act'[j] = act[j]
  BY <1>2 DEF Dispatch, Inv, TypeOK
<1>4. /\ act[k].state = "scheduled" /\ pc # "closed" /\ w \in alive
      /\ k # "resolve" => w = session.worker
      /\ UNCHANGED <<pc, result, session, archive, puts, objects, alive>>
  BY DEF Dispatch, Eligible
<1>5. /\ act'[k].state = "running" /\ act'[k].attempt = n /\ act'[k].on = w
  BY <1>3
<1> HIDE DEF a
<1>6. fetch' \in [FileSet -> Fetch] /\ \A f \in FileSet : fetch'[f] = IF f = k THEN "get" ELSE fetch[f]
  BY DEF Dispatch, Inv, TypeOK, Fetch
<1>7. /\ temp' \in [Workers -> Temp]
      /\ \A v \in Workers : /\ temp'[v].file = temp[v].file
                            /\ v # w \/ k \notin FileSet \cup {"zip"} => temp'[v] = temp[v]
  <2> DEFINE d == [temp[w] EXCEPT !.dir = TRUE]
  <2>1. temp \in [Workers -> Temp] /\ temp[w] \in Temp
    BY DEF Inv, TypeOK
  <2>2. ASSUME NEW t \in Temp
        PROVE  [t EXCEPT !.dir = TRUE] \in Temp /\ [t EXCEPT !.dir = TRUE].file = t.file
    BY DEF Temp
  <2>3. d \in Temp /\ d.file = temp[w].file
    BY <2>1, <2>2
  <2>4. temp' = temp \/ (k \in FileSet \cup {"zip"} /\ temp' = [temp EXCEPT ![w] = d])
    BY DEF Dispatch
  <2> HIDE DEF d
  <2> QED
    BY <2>1, <2>3, <2>4
<1>8. IF k = "zip"
      THEN /\ zips' \in [1..MaxAttempts -> ZipAttempt]
           /\ zips'[n].state = "running" /\ zips'[n].good = zips[n].good
           /\ \A m \in (1..MaxAttempts) \ {n} : zips'[m] = zips[m]
           /\ zipFile' = [by |-> n, damaged |-> FALSE]
      ELSE UNCHANGED <<zips, zipFile>>
  <2> DEFINE z == [zips[n] EXCEPT !.state = "running"]
  <2>1. z \in ZipAttempt /\ z.good = zips[n].good /\ z.state = "running"
    BY <1>1 DEF Inv, TypeOK, ZipAttempt
  <2>2. IF k = "zip" THEN zips' = [zips EXCEPT ![n] = z] /\ zipFile' = [by |-> n, damaged |-> FALSE]
        ELSE UNCHANGED <<zips, zipFile>>
    BY DEF Dispatch
  <2>3. zips \in [1..MaxAttempts -> ZipAttempt] /\ n \in 1..MaxAttempts
    BY <1>1 DEF Inv, TypeOK
  <2> HIDE DEF z, n
  <2> QED
    BY <2>1, <2>2, <2>3
<1> HIDE DEF n
<1>9. TypeOK'
  <2>1. zips' \in [1..MaxAttempts -> ZipAttempt] /\ zipFile' \in [by : 0..MaxAttempts, damaged : BOOLEAN]
    <3>1. n \in 0..MaxAttempts
      BY <1>1
    <3>2. [by |-> n, damaged |-> FALSE] \in [by : 0..MaxAttempts, damaged : BOOLEAN]
      BY <3>1
    <3>3. /\ zips \in [1..MaxAttempts -> ZipAttempt]
          /\ zipFile \in [by : 0..MaxAttempts, damaged : BOOLEAN]
      BY DEF Inv, TypeOK
    <3> QED
      BY <1>8, <3>2, <3>3
  <2> QED
    BY <1>3, <1>4, <1>6, <1>7, <2>1 DEF Inv, TypeOK
<1>10. Course'
  BY <1>3, <1>4, <1>5 DEF Inv, Course, Early, Late, Pending, Activities, Step
<1>11. Attempts'
  BY <1>1, <1>3, <1>5 DEF Inv, Attempts, Live
<1>12. Sessions' /\ Causes'
  BY <1>3, <1>4, <1>5 DEF Inv, Sessions, Causes, Early, Live, Pending
<1>13. Places'
  <2>1. pc \in Early => k = "resolve"
    BY <1>4 DEF Inv, Course, Early, Late, Activities, Step
  <2>2. (\A v \in Workers : v # session.worker => temp'[v] = NoTemp) /\ (pc \in Early => temp' = temp)
    BY <1>4, <1>7, <2>1 DEF Inv, Places, Dispatch
  <2>3. session.worker \in Workers \/ \A f \in FileSet : act[f].state = "idle"
    BY DEF Inv, Sessions
  <2> QED
    BY <1>3, <1>4, <1>5, <1>6, <1>7, <2>1, <2>2, <2>3 DEF Inv, Places
<1>14. Zipping'
  <2>1. CASE k = "zip"
    <3>1. act["zip"].attempt \in 0..MaxAttempts /\ act["zip"].attempt < n /\ n \in 1..MaxAttempts
      BY <1>1, <2>1 DEF Inv, TypeOK, Activity
    <3>2. act'["zip"].attempt = n /\ act'["zip"].state = "running"
      BY <1>5, <2>1
    <3>3. \A m \in 1..MaxAttempts : zips'[m].state # "none" => m <= n
      BY <1>8, <2>1, <3>1 DEF Inv, Zipping
    <3>4. pc \notin Late => \A m \in 1..MaxAttempts : zips'[m].good
      BY <1>8, <2>1 DEF Inv, Zipping
    <3>5. zipFile'.by = n
      BY <1>8, <2>1
    <3> QED
      BY <1>4, <3>2, <3>3, <3>4, <3>5 DEF Zipping
  <2>2. CASE k # "zip"
    <3>1. act'["zip"] = act["zip"] /\ zips' = zips /\ zipFile' = zipFile /\ pc' = pc
      BY <1>3, <1>4, <1>8, <2>2
    <3> QED
      BY <3>1 DEF Inv, Zipping
  <2> QED
    BY <2>1, <2>2
<1>15. Delivered'
  BY <1>3, <1>4, <1>5 DEF Inv, Delivered, Ended
<1>16. Leftovers'
  <2>1. SUFFICES ASSUME act["cleanup"].state = "done", k # "cleanup", NEW v \in Workers,
                        temp'[v] # NoTemp
                 PROVE  result = "error" /\ v = session.worker /\ TriedBeside'
    BY <1>3, <1>4, <1>5 DEF Leftovers
  <2>2. \A f \in FileSet : /\ act[f].state = "failed" => act'[f].state = "failed"
                           /\ act[f].attempt > 0 => act'[f].attempt > 0
    BY <1>1, <1>3, <1>4, <1>5
  <2>3. CASE temp'[v] = temp[v]
    BY <1>4, <2>1, <2>2, <2>3, BlameStays DEF Inv, Leftovers
  <2>4. CASE temp'[v] # temp[v]
    <3>1. k \in FileSet \cup {"zip"} /\ v = w
      BY <1>7, <2>4
    <3>2. pc = "cleanup"
      BY <1>4, <2>1 DEF Inv, Course, Late
    <3>3. k \in FileSet /\ result = "error" /\ v = session.worker
      BY <1>4, <3>1, <3>2 DEF Inv, Course, Late, Pending
    <3>4. \E g \in FileSet : act[g].state = "failed"
      BY <1>4, <3>2, <3>3 DEF Inv, Causes, Sessions, Pending, InSession
    <3>5. TriedBeside'
      BY <1>1, <1>3, <1>4, <1>5, <3>3, <3>4 DEF TriedBeside
    <3> QED
      BY <3>3, <3>5
  <2> QED
    BY <2>3, <2>4
<1> QED
  BY <1>9, <1>10, <1>11, <1>12, <1>13, <1>14, <1>15, <1>16 DEF Inv

LEMMA SteadyBlame == ASSUME Steady, TriedBeside PROVE TriedBeside'
<1>1. \A f \in FileSet : /\ act[f].state = "failed" => act'[f].state = "failed"
                         /\ act[f].attempt > 0 => act'[f].attempt > 0
  BY Names DEF Steady
<1> QED
  BY <1>1, BlameStays

LEMMA TimeOutInv == ASSUME Inv, NEW k \in Activities, TimeOut(k) PROVE Inv'
<1> USE Names
<1>1. /\ UNCHANGED <<pc, result, session, fetch, temp, zips, zipFile, archive, puts, objects, alive>>
      /\ act[k].state \in {"running", "silent"}
      /\ act[k].state = "running" => k = "zip" \/ act[k].on \notin alive
  BY DEF TimeOut
<1>2. PICK s \in {"scheduled", "failed"} : Becomes(k, s)
  BY <1>1, Retried DEF TimeOut, Inv
<1>3. Steady /\ Course' /\ Attempts' /\ Sessions' /\ Causes'
  BY <1>1, <1>2, CourseKept
<1>4. /\ act'[k].state = s /\ act'[k].on = act[k].on
      /\ \A j \in Activities \ {k} : act'[j] = act[j]
  BY <1>2, Pointwise DEF Inv
<1>5. TypeOK'
  BY <1>1, <1>3 DEF Inv, TypeOK, Steady
<1>6. Places'
  BY <1>1, <1>4 DEF Inv, Places
<1>7. \A j \in Activities : /\ act'[j].state = "done" => act[j].state = "done"
                            /\ act'[j].attempt = act[j].attempt
  <2>1. act'[k].state # "done"
    BY <1>4
  <2>2. \A j \in Activities \ {k} : act'[j] = act[j]
    BY <1>4
  <2> QED
    BY <1>3, <2>1, <2>2 DEF Steady
<1>8. Zipping' /\ Delivered'
  <2>1. Ended("upload") => act'["upload"] = act["upload"]
    BY <1>3 DEF Steady, Ended
  <2> QED
    BY <1>1, <1>7, <2>1 DEF Inv, Zipping, Delivered, Ended
<1>9. TriedBeside => TriedBeside'
  BY <1>3, SteadyBlame
<1>10. Leftovers'
  BY <1>1, <1>7, <1>9 DEF Inv, Leftovers
<1> QED
  BY <1>3, <1>5, <1>6, <1>8, <1>10 DEF Inv

LEMMA SessionLostInv == ASSUME Inv, SessionLost PROVE Inv'
<1> USE Names
<1> DEFINE Hit == {k \in Activities \ {"resolve", "cleanup"} : act[k].state \in Pending}
<1>1. /\ session.state = "open" /\ session' = [session EXCEPT !.state = "failed"] /\ pc # "closed"
      /\ UNCHANGED <<pc, result, fetch, temp, zips, zipFile, archive, puts, objects, alive>>
  BY DEF SessionLost
<1>2. /\ session' \in [state : {"none", "open", "failed"}, worker : Workers \cup {NoWorker}]
      /\ session'.state = "failed" /\ session'.worker = session.worker
  BY <1>1 DEF Inv, TypeOK
<1>3. ASSUME NEW k \in Activities
      PROVE  /\ Cancel(k) \in Activity /\ Cancel(k).state = "canceled"
             /\ Cancel(k).attempt = act[k].attempt
             /\ act[k].state = "running" => Cancel(k).on = act[k].on
  <2> DEFINE o == IF act[k].state = "running" THEN act[k].on ELSE NoWorker
             c == [act[k] EXCEPT !.state = "canceled", !.on = o]
  <2>1. act[k] \in Activity /\ o \in Workers \cup {NoWorker}
    BY DEF Inv, TypeOK, Activity
  <2>2. Cancel(k) = c
    BY DEF Cancel
  <2>3. act[k].state = "running" => o = act[k].on
    OBVIOUS
  <2> HIDE DEF o
  <2>4. c \in Activity /\ c.state = "canceled" /\ c.attempt = act[k].attempt /\ c.on = o
    BY <2>1 DEF Activity
  <2> QED
    BY <2>2, <2>3, <2>4
<1>4. /\ act' \in [Activities -> Activity]
      /\ \A k \in Hit : act'[k] = Cancel(k)
      /\ \A k \in Activities \ Hit : act'[k] = act[k]
  BY <1>3 DEF SessionLost, Pending, Inv, TypeOK
<1>5. \A k \in Hit : /\ act'[k].state = "canceled" /\ act'[k].attempt = act[k].attempt
                     /\ act[k].state = "running" => act'[k].on = act[k].on
                     /\ act[k].state \in Pending /\ k \notin {"resolve", "cleanup"} /\ k \in Activities
  BY <1>3, <1>4
<1>6. \A k \in Activities \ Hit : k \in {"resolve", "cleanup"} \/ act[k].state \notin Pending
  OBVIOUS
<1>7. pc \notin Early
  BY <1>1 DEF Inv, Sessions
<1> HIDE DEF Hit
<1>8. TypeOK'
  BY <1>1, <1>2, <1>4 DEF Inv, TypeOK
<1>9. Course'
  BY <1>1, <1>4, <1>5, <1>6, <1>7 DEF Inv, Course, Early, Late, Pending
<1>10. Attempts'
  BY <1>4, <1>5, <1>6 DEF Inv, Attempts, Live
<1>11. Sessions' /\ Causes'
  BY <1>1, <1>2, <1>4, <1>5, <1>6, <1>7 DEF Inv, Sessions, Causes, Early, Live, Pending
<1>12. Places'
  BY <1>1, <1>2, <1>4, <1>5, <1>6, <1>7 DEF Inv, Places, Early, Pending
<1>13. Zipping' /\ Delivered'
  BY <1>1, <1>4, <1>5, <1>6 DEF Inv, Zipping, Delivered, Ended, Pending
<1>14. Leftovers'
  BY <1>1, <1>2, <1>4, <1>5, <1>6, BlameStays DEF Inv, Leftovers, Pending
<1> QED
  BY <1>8, <1>9, <1>10, <1>11, <1>12, <1>13, <1>14 DEF Inv

-----------------------------------------------------------------------------
(* The workers.                                                            *)

LEMMA FileWritten ==
  ASSUME NEW t \in Temp, NEW h \in [FileSet -> {"none", "partial", "whole"}]
  PROVE  [t EXCEPT !.file = h] \in Temp /\ [t EXCEPT !.file = h].file = h
  BY DEF Temp

LEMMA Written ==
  ASSUME TypeOK, NEW f \in FileSet, NEW w \in Workers, NEW c \in {"partial", "whole"},
         temp' = [temp EXCEPT ![w].file[f] = c]
  PROVE  /\ temp' \in [Workers -> Temp]
         /\ temp'[w].file[f] = c
         /\ \A g \in FileSet \ {f} : temp'[w].file[g] = temp[w].file[g]
         /\ \A v \in Workers \ {w} : temp'[v] = temp[v]
<1> DEFINE h == [temp[w].file EXCEPT ![f] = c]
           d == [temp[w] EXCEPT !.file = h]
<1>1. temp \in [Workers -> Temp] /\ temp[w] \in Temp
  BY DEF TypeOK
<1>2. /\ h \in [FileSet -> {"none", "partial", "whole"}]
      /\ h[f] = c /\ \A g \in FileSet \ {f} : h[g] = temp[w].file[g]
  BY <1>1 DEF Temp
<1>3. temp' = [temp EXCEPT ![w] = d]
  OBVIOUS
<1> HIDE DEF h
<1>4. d \in Temp /\ d.file = h
  BY <1>1, <1>2, FileWritten
<1> HIDE DEF d
<1> QED
  BY <1>1, <1>2, <1>3, <1>4

LEMMA DownloadCreateInv ==
  ASSUME Inv, NEW f \in FileSet, NEW w \in Workers, DownloadCreate(f, w) PROVE Inv'
<1> USE Names
<1>1. /\ UNCHANGED <<pc, result, session, act, zips, zipFile, archive, puts, objects, alive>>
      /\ fetch[f] = "get" /\ act[f].on = w /\ w \in alive
      /\ fetch' = [fetch EXCEPT ![f] = "write"]
      /\ temp' = [temp EXCEPT ![w].file[f] = "partial"]
  BY DEF DownloadCreate, On
<1>2. Steady /\ Course' /\ Attempts' /\ Sessions' /\ Causes'
  BY <1>1, CourseKept
<1>3. /\ temp' \in [Workers -> Temp] /\ temp'[w].file[f] = "partial"
      /\ \A g \in FileSet \ {f} : temp'[w].file[g] = temp[w].file[g]
      /\ \A v \in Workers \ {w} : temp'[v] = temp[v]
  <2>1. TypeOK /\ temp' = [temp EXCEPT ![w].file[f] = "partial"]
    BY DEF Inv, DownloadCreate
  <2> QED
    BY <2>1, Written
<1>4. temp[w] # NoTemp
  BY DEF DownloadCreate, NoTemp
<1>5. w = session.worker
  BY <1>4 DEF Inv, Places
<1>6. act[f].state \in {"running", "canceled"} /\ pc \notin Early
  BY <1>1 DEF Inv, Course, Places
<1>7. fetch' \in [FileSet -> Fetch] /\ fetch'[f] = "write" /\ \A g \in FileSet \ {f} : fetch'[g] = fetch[g]
  BY <1>1 DEF Inv, TypeOK, Fetch
<1>8. TypeOK'
  BY <1>1, <1>3, <1>7 DEF Inv, TypeOK
<1>9. Places'
  BY <1>1, <1>3, <1>5, <1>6, <1>7 DEF Inv, Places
<1>10. Zipping' /\ Delivered'
  BY <1>1 DEF Inv, Zipping, Delivered, Ended
<1>11. Leftovers'
  BY <1>1, <1>3, <1>4, <1>5 DEF Inv, Leftovers, TriedBeside
<1> QED
  BY <1>2, <1>8, <1>9, <1>10, <1>11 DEF Inv

LEMMA DownloadEndInv ==
  ASSUME Inv, NEW f \in FileSet, NEW w \in Workers, DownloadEnd(f, w) \/ DownloadFail(f, w)
  PROVE  Inv'
<1> USE Names
<1>1. /\ UNCHANGED <<pc, result, session, zips, zipFile, archive, puts, objects, alive>>
      /\ fetch[f] # "none" /\ act[f].on = w /\ w \in alive
      /\ fetch' = [fetch EXCEPT ![f] = "none"]
  BY DEF DownloadEnd, DownloadFail, On
<1>2. \/ act' = act
      \/ \E s \in {"scheduled", "silent", "done", "failed"} :
            Becomes(f, s) /\ act[f].state = "running" /\ (s = "done" => DownloadEnd(f, w))
  BY Reported, ReportedFailure DEF DownloadEnd, DownloadFail, Inv
<1>3. Steady /\ Course' /\ Attempts' /\ Sessions' /\ Causes'
  BY <1>1, <1>2, CourseKept
<1>4. \/ temp' = temp
      \/ /\ temp[w].file[f] = "partial"
         /\ temp' \in [Workers -> Temp] /\ temp'[w].file[f] = "whole"
         /\ \A g \in FileSet \ {f} : temp'[w].file[g] = temp[w].file[g]
         /\ \A v \in Workers \ {w} : temp'[v] = temp[v]
  <2>1. temp' = temp \/ (temp[w].file[f] = "partial" /\ temp' = [temp EXCEPT ![w].file[f] = "whole"])
    BY DEF DownloadEnd, DownloadFail
  <2> QED
    BY <2>1, Written DEF Inv
<1>5. temp[w].file[f] = "partial" => temp[w] # NoTemp /\ w = session.worker
  BY DEF Inv, Places, NoTemp
<1>6. act[f].state \in {"running", "canceled"} /\ pc \notin Early
  BY <1>1 DEF Inv, Course, Places
<1>7. fetch' \in [FileSet -> Fetch] /\ fetch'[f] = "none" /\ \A g \in FileSet \ {f} : fetch'[g] = fetch[g]
  BY <1>1 DEF Inv, TypeOK, Fetch
<1>8. \A g \in FileSet \ {f} : act'[g] = act[g]
  BY <1>2, Pointwise DEF Inv
<1>9. TypeOK'
  BY <1>1, <1>3, <1>4, <1>7 DEF Inv, TypeOK, Steady
<1>10. ASSUME act'[f].state = "done", pc \notin Late, session.worker \in alive
       PROVE  temp'[session.worker].file[f] = "whole"
  <2>1. act[f].state = "running" /\ DownloadEnd(f, w)
    BY <1>2, <1>6, <1>10, Pointwise DEF Inv
  <2>2. w = session.worker /\ fetch[f] = "write"
    BY <1>1, <2>1 DEF Inv, Sessions, Live, DownloadEnd
  <2>3. temp[w].file[f] = "partial"
    BY <1>10, <2>1, <2>2 DEF Inv, Places
  <2>4. temp' = [temp EXCEPT ![w].file[f] = "whole"]
    BY <2>1, <2>3 DEF DownloadEnd
  <2> QED
    BY <2>2, <2>4, Written DEF Inv
<1>11. Places'
  <2>1. /\ pc \in Early => \A v \in Workers : temp'[v] = NoTemp
        /\ \A v \in Workers : v # session.worker => temp'[v] = NoTemp
    BY <1>4, <1>5, <1>6 DEF Inv, Places
  <2>2. ASSUME NEW g \in FileSet \ {f}
        PROVE  /\ fetch'[g] # "none" => act'[g].state \in {"running", "canceled"} /\ act'[g].on \in alive
               /\ fetch'[g] = "write" /\ act'[g].state = "running" /\ pc \notin Late
                     => temp'[session.worker].file[g] = "partial"
               /\ act'[g].state = "done" /\ pc \notin Late /\ session.worker \in alive
                     => temp'[session.worker].file[g] = "whole"
    BY <1>4, <1>5, <1>7, <1>8 DEF Inv, Places
  <2> QED
    BY <1>1, <1>7, <1>10, <2>1, <2>2 DEF Places
<1>12. act'["zip"] = act["zip"] /\ act'["upload"] = act["upload"] /\ act'["cleanup"] = act["cleanup"]
  BY <1>2, Pointwise DEF Inv
<1>13. Zipping' /\ Delivered'
  BY <1>1, <1>12 DEF Inv, Zipping, Delivered, Ended
<1>14. Leftovers'
  <2>1. TriedBeside => TriedBeside'
    BY <1>3, SteadyBlame
  <2> QED
    BY <1>1, <1>4, <1>5, <1>12, <2>1 DEF Inv, Leftovers
<1> QED
  BY <1>3, <1>9, <1>11, <1>13, <1>14 DEF Inv

(* A step of the zip's attempts: n, which works on the session's worker.   *)
LEMMA ZipAttempts ==
  ASSUME Inv, NEW n \in 1..MaxAttempts, zips[n].state = "running", session.worker \in alive,
         pc \notin Late
  PROVE  \A f \in FileSet : temp[session.worker].file[f] = "whole"
<1>1. n <= act["zip"].attempt
  BY DEF Inv, Zipping
<1>2. act["zip"].state # "idle"
  BY <1>1, Names DEF Inv, Attempts, TypeOK, Activity
<1>3. \A f \in FileSet : act[f].state = "done"
  BY <1>2 DEF Inv, TypeOK, Course, Early, Late
<1> QED
  BY <1>3 DEF Inv, Places

LEMMA ZipCopyInv ==
  ASSUME Inv, NEW n \in 1..MaxAttempts, NEW w \in Workers, ZipCopy(n, w) PROVE Inv'
<1> USE Names
<1> DEFINE f == Files[zips[n].copied + 1]
           c == zips[n].copied + 1
           b == zips[n].good /\ temp[w].file[f] = "whole"
           z == [zips[n] EXCEPT !.copied = c, !.good = b]
<1>1. /\ UNCHANGED <<pc, result, session, act, fetch, temp, zipFile, archive, puts, objects, alive>>
      /\ zips[n].state = "running" /\ w \in alive /\ w = session.worker
  BY DEF ZipCopy
<1>2. zips[n] \in ZipAttempt /\ zips \in [1..MaxAttempts -> ZipAttempt]
  BY DEF Inv, TypeOK
<1>3. c \in 0..Len(Files) /\ f \in FileSet
  BY <1>2 DEF ZipCopy, ZipAttempt
<1>4. zips' = [zips EXCEPT ![n] = z]
  BY DEF ZipCopy
<1>5. pc \notin Late => zips[n].good /\ temp[w].file[f] = "whole"
  BY <1>1, <1>3, ZipAttempts DEF Inv, Zipping
<1>6. b \in BOOLEAN /\ (pc \notin Late => b = TRUE)
  BY <1>2, <1>5 DEF ZipAttempt
<1> HIDE DEF b, c
<1>7. z \in ZipAttempt /\ z.state = "running" /\ z.good = b
  <2>1. ASSUME NEW y \in ZipAttempt
        PROVE  /\ [y EXCEPT !.copied = c, !.good = b] \in ZipAttempt
               /\ [y EXCEPT !.copied = c, !.good = b].state = y.state
               /\ [y EXCEPT !.copied = c, !.good = b].good = b
    BY <1>3, <1>6, Zenon DEF ZipAttempt
  <2> QED
    BY <1>1, <1>2, <2>1
<1> HIDE DEF z
<1>8. /\ zips' \in [1..MaxAttempts -> ZipAttempt] /\ zips'[n].state = "running" /\ zips'[n].good = b
      /\ \A m \in (1..MaxAttempts) \ {n} : zips'[m] = zips[m]
  BY <1>2, <1>4, <1>7
<1>9. TypeOK'
  BY <1>1, <1>8 DEF Inv, TypeOK
<1>10. Course' /\ Attempts' /\ Sessions' /\ Causes' /\ Places' /\ Delivered' /\ Leftovers'
  BY <1>1 DEF Inv, Course, Attempts, Sessions, Causes, Places, Delivered, Ended, Leftovers, TriedBeside
<1>11. Zipping'
  <2>1. \A m \in 1..MaxAttempts : zips'[m].state = zips[m].state
    BY <1>1, <1>8
  <2>2. pc \notin Late => \A m \in 1..MaxAttempts : zips'[m].good
    BY <1>6, <1>8 DEF Inv, Zipping
  <2>3. act["zip"].state = "done" => act["zip"].attempt \in 1..MaxAttempts
    BY DEF Inv, Attempts, Live, TypeOK, Activity
  <2> QED
    BY <1>1, <2>1, <2>2, <2>3 DEF Inv, Zipping
<1> QED
  BY <1>9, <1>10, <1>11 DEF Inv

LEMMA ZipEndInv ==
  ASSUME Inv, NEW n \in 1..MaxAttempts, NEW w \in Workers, ZipEnd(n, w) \/ ZipFail(n, w)
  PROVE  Inv'
<1> USE Names
<1>1. /\ UNCHANGED <<pc, result, session, fetch, temp, archive, puts, objects, alive>>
      /\ zips[n].state = "running" /\ zips \in [1..MaxAttempts -> ZipAttempt]
  BY DEF ZipEnd, ZipFail, Inv, TypeOK
<1>2. \/ act' = act
      \/ \E s \in {"scheduled", "silent", "done", "failed"} :
            /\ Becomes("zip", s) /\ act["zip"].state = "running"
            /\ s = "done" => ZipEnd(n, w) /\ act["zip"].attempt = n
  BY Reported, ReportedFailure DEF ZipEnd, ZipFail, Inv
<1>3. Steady /\ Course' /\ Attempts' /\ Sessions' /\ Causes'
  BY <1>1, <1>2, CourseKept
<1>4. \A j \in Activities \ {"zip"} : act'[j] = act[j]
  BY <1>2, Pointwise DEF Inv
<1>5. PICK s \in {"closed", "failed"} :
        zips' = [zips EXCEPT ![n].state = s] /\ (ZipEnd(n, w) => s = "closed")
  <2>1. CASE ZipEnd(n, w)
    BY <2>1 DEF ZipEnd
  <2>2. CASE ~ ZipEnd(n, w)
    BY <2>2 DEF ZipFail
  <2> QED
    BY <2>1, <2>2
<1>6. /\ zips' \in [1..MaxAttempts -> ZipAttempt] /\ zips'[n].state = s
      /\ \A m \in 1..MaxAttempts : zips'[m].good = zips[m].good
      /\ \A m \in (1..MaxAttempts) \ {n} : zips'[m] = zips[m]
  <2> DEFINE z == [zips[n] EXCEPT !.state = s]
  <2>1. z \in ZipAttempt /\ z.state = s /\ z.good = zips[n].good
    BY <1>1 DEF ZipAttempt
  <2>2. zips' = [zips EXCEPT ![n] = z]
    BY <1>5
  <2> HIDE DEF z
  <2> QED
    BY <1>1, <2>1, <2>2
<1>7. /\ zipFile' \in [by : 0..MaxAttempts, damaged : BOOLEAN] /\ zipFile'.by = zipFile.by
  <2>1. zipFile \in [by : 0..MaxAttempts, damaged : BOOLEAN]
    BY DEF Inv, TypeOK
  <2>2. zipFile' = zipFile \/ zipFile' = [zipFile EXCEPT !.damaged = TRUE]
    BY DEF ZipEnd, ZipFail
  <2>3. ASSUME NEW y \in [by : 0..MaxAttempts, damaged : BOOLEAN]
        PROVE  /\ [y EXCEPT !.damaged = TRUE] \in [by : 0..MaxAttempts, damaged : BOOLEAN]
               /\ [y EXCEPT !.damaged = TRUE].by = y.by
    BY Zenon
  <2> QED
    BY <2>1, <2>2, <2>3, Zenon
<1>8. TypeOK'
  BY <1>1, <1>3, <1>6, <1>7 DEF Inv, TypeOK, Steady
<1>9. Places' /\ Delivered'
  BY <1>1, <1>4 DEF Inv, Places, Delivered, Ended
<1>10. TriedBeside => TriedBeside'
  BY <1>3, SteadyBlame
<1>11. Leftovers'
  BY <1>1, <1>4, <1>10 DEF Inv, Leftovers
<1>12. act'["zip"].attempt = act["zip"].attempt
  BY <1>3 DEF Steady
<1>13. ASSUME act'["zip"].state = "done" PROVE zips'[act["zip"].attempt].state = "closed"
  <2>1. CASE act["zip"].state = "done"
    <3>1. act["zip"].attempt \in 1..MaxAttempts /\ zips[act["zip"].attempt].state = "closed"
      BY <2>1 DEF Inv, Attempts, Live, TypeOK, Activity, Zipping
    <3> QED
      BY <1>1, <1>6, <3>1
  <2>2. CASE act["zip"].state # "done"
    <3>1. ZipEnd(n, w) /\ act["zip"].attempt = n
      BY <1>2, <1>13, <2>2, Pointwise DEF Inv
    <3> QED
      BY <1>5, <1>6, <3>1
  <2> QED
    BY <2>1, <2>2
<1>14. \A m \in 1..MaxAttempts : zips'[m].state # "none" => zips[m].state # "none"
  BY <1>1, <1>6
<1>15. Zipping'
  BY <1>1, <1>6, <1>7, <1>12, <1>13, <1>14 DEF Inv, Zipping
<1> QED
  BY <1>3, <1>8, <1>9, <1>11, <1>15 DEF Inv

(* The upload sends a whole zip file, if the workflow awaits it.           *)
LEMMA UploadedWhole ==
  ASSUME Inv, act["upload"].state = "running"
  PROVE  Zipped \in {"whole", "spoiled"}
<1>1. pc = "upload" /\ act["zip"].state = "done"
  BY DEF Inv, TypeOK, Course, Early, Late, Pending
<1>2. act["zip"].attempt \in 1..MaxAttempts /\ zips[act["zip"].attempt].state = "closed"
  BY <1>1, Names DEF Inv, Attempts, Live, TypeOK, Activity, Zipping
<1>3. zipFile.by = act["zip"].attempt /\ zips[act["zip"].attempt].good
  BY <1>1, <1>2 DEF Inv, Zipping, Late
<1>4. ZipIsWhole
  BY <1>2, <1>3 DEF ZipIsWhole
<1> QED
  BY <1>4 DEF Zipped

(* A PUT that is given up leaves a finished body, if it was awaited.       *)
LEMMA PutLeft ==
  ASSUME Inv, NEW w \in Workers, Uploads(w), LeavesPut
  PROVE  /\ puts' \in [1..MaxAttempts -> {"none"} \cup Bodies]
         /\ ~ Ended("upload") => \A n \in 1..MaxAttempts : puts'[n] # "broken"
<1>1. /\ puts \in [1..MaxAttempts -> {"none"} \cup Bodies]
      /\ ~ Ended("upload") => \A n \in 1..MaxAttempts : puts[n] # "broken"
  BY DEF Inv, TypeOK, Delivered, Ended
<1>2. Zipped \in Bodies
  BY DEF Zipped, Bodies
<1>3. ~ Ended("upload") => Zipped # "broken"
  BY UploadedWhole DEF Uploads, Ended
<1>4. puts' = puts \/ puts' = [puts EXCEPT ![act["upload"].attempt] = Zipped]
  BY DEF LeavesPut
<1> QED
  BY <1>1, <1>2, <1>3, <1>4

LEMMA UploadInv ==
  ASSUME Inv, NEW w \in Workers, UploadEnd(w) \/ UploadFail(w) PROVE Inv'
<1> USE Names
<1>1. /\ UNCHANGED <<pc, result, session, fetch, temp, zips, zipFile, objects, alive>>
      /\ act["upload"].state \in {"running", "canceled"}
      /\ archive' \in {archive, Zipped}
      /\ UploadEnd(w) => archive' = Zipped
  BY DEF UploadEnd, UploadFail, Uploads
<1>10. /\ puts' \in [1..MaxAttempts -> {"none"} \cup Bodies]
       /\ ~ Ended("upload") => \A n \in 1..MaxAttempts : puts'[n] # "broken"
  <2>1. puts' = puts \/ (Uploads(w) /\ LeavesPut)
    BY DEF UploadEnd, UploadFail
  <2> QED
    BY <2>1, PutLeft DEF Inv, TypeOK, Delivered, Ended
<1>2. \/ act' = act
      \/ \E s \in {"scheduled", "silent", "done", "failed"} :
            /\ Becomes("upload", s) /\ act["upload"].state = "running"
            /\ s = "done" => UploadEnd(w)
  BY Reported, ReportedFailure DEF UploadEnd, UploadFail, Inv
<1>3. Steady /\ Course' /\ Attempts' /\ Sessions' /\ Causes'
  BY <1>1, <1>2, CourseKept
<1>4. \A j \in Activities \ {"upload"} : act'[j] = act[j]
  BY <1>2, Pointwise DEF Inv
<1>5. TypeOK'
  BY <1>1, <1>3, <1>10 DEF Inv, TypeOK, Steady, Zipped, Bodies
<1>6. Places' /\ Zipping'
  BY <1>1, <1>4 DEF Inv, Places, Zipping
<1>7. TriedBeside => TriedBeside'
  BY <1>3, SteadyBlame
<1>8. Leftovers'
  BY <1>1, <1>4, <1>7 DEF Inv, Leftovers
<1>9. Delivered'
  <2>1. ASSUME act'["upload"].state = "done" PROVE archive' \in {"whole", "spoiled"}
    <3>1. UploadEnd(w) /\ act["upload"].state = "running"
      BY <1>1, <1>2, <2>1, Pointwise DEF Inv
    <3> QED
      BY <1>1, <3>1, UploadedWhole
  <2>2. Ended("upload") => act' = act
    BY <1>2 DEF Ended
  <2> QED
    BY <1>10, <2>1, <2>2 DEF Delivered, Ended
<1> QED
  BY <1>3, <1>5, <1>6, <1>8, <1>9 DEF Inv

LEMMA CleanupEndInv == ASSUME Inv, NEW w \in Workers, CleanupEnd(w) PROVE Inv'
<1> USE Names
<1>1. /\ UNCHANGED <<pc, result, session, fetch, zips, archive, puts, objects, alive>>
      /\ act["cleanup"].state = "running" /\ act["cleanup"].on = w
      /\ temp' = [temp EXCEPT ![w] = NoTemp]
      /\ zipFile' = [by |-> 0, damaged |-> FALSE]
  BY DEF CleanupEnd, On
<1>2. pc = "cleanup" /\ w = session.worker
  BY <1>1 DEF Inv, Course, Sessions, Late, Pending, Live
<1>3. act' = act \/ \E s \in {"scheduled", "silent", "done", "failed"} : Becomes("cleanup", s)
  BY Reported DEF CleanupEnd, Inv
<1>4. Steady /\ Course' /\ Attempts' /\ Sessions' /\ Causes'
  BY <1>1, <1>3, CourseKept
<1>5. \A j \in Activities \ {"cleanup"} : act'[j] = act[j]
  BY <1>3, Pointwise DEF Inv
<1>6. NoTemp \in Temp
  BY DEF NoTemp, Temp
<1>7. /\ temp' \in [Workers -> Temp] /\ temp'[w] = NoTemp
      /\ \A v \in Workers \ {w} : temp'[v] = temp[v]
  BY <1>1, <1>6 DEF Inv, TypeOK
<1>8. \A v \in Workers : temp'[v] = NoTemp
  BY <1>2, <1>7 DEF Inv, Places
<1>9. zipFile' \in [by : 0..MaxAttempts, damaged : BOOLEAN]
  BY <1>1
<1>10. TypeOK'
  BY <1>1, <1>4, <1>7, <1>9 DEF Inv, TypeOK, Steady
<1>11. Places'
  BY <1>1, <1>2, <1>5, <1>8 DEF Inv, Places, Late
<1>12. Zipping' /\ Delivered'
  BY <1>1, <1>2, <1>5 DEF Inv, Zipping, Delivered, Ended, Late
<1>13. Leftovers'
  BY <1>8 DEF Leftovers
<1> QED
  BY <1>4, <1>10, <1>11, <1>12, <1>13 DEF Inv

LEMMA PlainInv ==
  ASSUME Inv, NEW w \in Workers, NEW k \in Activities, ResolveEnd(w) \/ PlainFail(k, w)
  PROVE  Inv'
<1> USE Names
<1>1. UNCHANGED <<pc, result, session, fetch, temp, zips, zipFile, archive, puts, objects, alive>>
  BY DEF ResolveEnd, PlainFail
<1>2. PICK j \in {"resolve", "cleanup"} :
        \/ act' = act
        \/ \E s \in {"scheduled", "silent", "done", "failed"} :
              Becomes(j, s) /\ (s = "done" => j = "resolve")
  BY Reported, ReportedFailure DEF ResolveEnd, PlainFail, Inv
<1>3. Steady /\ Course' /\ Attempts' /\ Sessions' /\ Causes'
  BY <1>1, <1>2, CourseKept
<1>4. /\ \A i \in Activities \ {"resolve", "cleanup"} : act'[i] = act[i]
      /\ act'["cleanup"].state = "done" => act["cleanup"].state = "done"
  BY <1>2, Pointwise DEF Inv
<1>5. TypeOK'
  BY <1>1, <1>3 DEF Inv, TypeOK, Steady
<1>6. Places' /\ Zipping' /\ Delivered'
  BY <1>1, <1>4 DEF Inv, Places, Zipping, Delivered, Ended
<1>7. TriedBeside => TriedBeside'
  BY <1>3, SteadyBlame
<1>8. Leftovers'
  BY <1>1, <1>4, <1>7 DEF Inv, Leftovers
<1> QED
  BY <1>3, <1>5, <1>6, <1>8 DEF Inv

LEMMA CrashInv == ASSUME Inv, NEW w \in Workers, Crash(w) PROVE Inv'
<1> USE Names
<1>1. /\ UNCHANGED <<pc, result, session, act, zips, zipFile, archive, objects>>
      /\ alive' = alive \ {w}
      /\ temp' = [temp EXCEPT ![w] = NoTemp]
      /\ fetch' = [f \in FileSet |-> IF act[f].on = w THEN "none" ELSE fetch[f]]
  BY DEF Crash
<1>2. Steady /\ Course' /\ Attempts' /\ Sessions' /\ Causes'
  BY <1>1, CourseKept
<1>3. NoTemp \in Temp
  BY DEF NoTemp, Temp
<1>4. /\ temp' \in [Workers -> Temp] /\ temp'[w] = NoTemp
      /\ \A v \in Workers \ {w} : temp'[v] = temp[v]
  BY <1>1, <1>3 DEF Inv, TypeOK
<1>5. /\ fetch' \in [FileSet -> Fetch]
      /\ \A f \in FileSet : fetch'[f] # "none" => act[f].on # w /\ fetch'[f] = fetch[f]
  BY <1>1 DEF Inv, TypeOK, Fetch
<1>11. /\ puts' \in [1..MaxAttempts -> {"none"} \cup Bodies]
       /\ ~ Ended("upload") => \A n \in 1..MaxAttempts : puts'[n] # "broken"
  <2>1. puts' = puts \/ (Uploads(w) /\ LeavesPut)
    BY DEF Crash
  <2> QED
    BY <2>1, PutLeft DEF Inv, TypeOK, Delivered, Ended
<1>6. TypeOK'
  BY <1>1, <1>4, <1>5, <1>11 DEF Inv, TypeOK
<1>7. \A f \in FileSet : act[f].state \in {"running", "done"} =>
          act[f].on = session.worker /\ session.worker \in Workers
  BY DEF Inv, Sessions, Live
<1>8. Places'
  BY <1>1, <1>4, <1>5, <1>7 DEF Inv, Places
<1>9. Zipping' /\ Delivered'
  BY <1>1, <1>11 DEF Inv, Zipping, Delivered, Ended
<1>10. Leftovers'
  BY <1>1, <1>4 DEF Inv, Leftovers, TriedBeside
<1> QED
  BY <1>2, <1>6, <1>8, <1>9, <1>10 DEF Inv

LEMMA PutArrivesInv == ASSUME Inv, NEW f \in FileSet, PutArrives(f) PROVE Inv'
<1>1. /\ UNCHANGED <<pc, result, session, act, fetch, temp, zips, zipFile, archive, puts, alive>>
      /\ objects' = objects \cup {f}
  BY DEF PutArrives
<1>2. TypeOK'
  BY <1>1 DEF Inv, TypeOK
<1> QED
  BY <1>1, <1>2 DEF Inv, Course, Attempts, Sessions, Causes, Places, Zipping, Delivered, Ended, Leftovers,
     TriedBeside

LEMMA LatePutInv == ASSUME Inv, NEW n \in 1..MaxAttempts, LatePut(n) PROVE Inv'
<1>1. /\ UNCHANGED <<pc, result, session, act, fetch, temp, zips, zipFile, objects, alive>>
      /\ archive' = puts[n] /\ puts[n] # "none"
      /\ puts' = [puts EXCEPT ![n] = "none"]
      /\ puts \in [1..MaxAttempts -> {"none"} \cup Bodies]
  BY DEF LatePut, Inv, TypeOK
<1>2. /\ puts' \in [1..MaxAttempts -> {"none"} \cup Bodies]
      /\ \A m \in 1..MaxAttempts : puts'[m] \in {puts[m], "none"}
      /\ archive' \in Bodies
  BY <1>1
<1>3. TypeOK'
  BY <1>1, <1>2 DEF Inv, TypeOK
<1>4. Delivered'
  BY <1>1, <1>2 DEF Inv, Delivered, Ended, Bodies
<1> QED
  BY <1>1, <1>3, <1>4 DEF Inv, Course, Attempts, Sessions, Causes, Places, Zipping, Leftovers,
     TriedBeside

-----------------------------------------------------------------------------
(* A name for each step.                                                   *)
LEMMA Steps ==
  ASSUME Next
  PROVE  \/ WorkflowStep \/ SessionLost
         \/ \E k \in Activities : TimeOut(k)
         \/ \E k \in Activities, w \in Workers : Dispatch(k, w)
         \/ \E f \in FileSet, w \in Workers : DownloadCreate(f, w)
         \/ \E f \in FileSet, w \in Workers : DownloadEnd(f, w) \/ DownloadFail(f, w)
         \/ \E n \in 1..MaxAttempts, w \in Workers : ZipCopy(n, w)
         \/ \E n \in 1..MaxAttempts, w \in Workers : ZipEnd(n, w) \/ ZipFail(n, w)
         \/ \E w \in Workers : UploadEnd(w) \/ UploadFail(w)
         \/ \E w \in Workers : CleanupEnd(w)
         \/ \E w \in Workers, k \in Activities : ResolveEnd(w) \/ PlainFail(k, w)
         \/ \E w \in Workers : Crash(w)
         \/ \E f \in FileSet : PutArrives(f)
         \/ \E n \in 1..MaxAttempts : LatePut(n)
<1>1. CASE ServerStep
  BY <1>1 DEF ServerStep
<1>2. ASSUME NEW w \in Workers, AttemptStep(w)
      PROVE  \/ \E f \in FileSet : DownloadCreate(f, w) \/ DownloadEnd(f, w) \/ DownloadFail(f, w)
             \/ \E n \in 1..MaxAttempts : ZipCopy(n, w) \/ ZipEnd(n, w) \/ ZipFail(n, w)
             \/ UploadEnd(w) \/ UploadFail(w) \/ CleanupEnd(w)
             \/ \E k \in Activities : ResolveEnd(w) \/ PlainFail(k, w)
  BY <1>2, Names DEF AttemptStep, DownloadStep, ZipStep
<1> QED
  BY <1>1, <1>2 DEF Next

LEMMA NextInv == Inv /\ [Next]_vars => Inv'
<1> SUFFICES ASSUME Inv, [Next]_vars PROVE Inv'
  OBVIOUS
<1>1. CASE Next
  BY <1>1, Steps, WorkflowStepInv, SessionLostInv, TimeOutInv, DispatchInv, DownloadCreateInv,
     DownloadEndInv, ZipCopyInv, ZipEndInv, UploadInv, CleanupEndInv, PlainInv, CrashInv,
     PutArrivesInv, LatePutInv
<1>2. CASE UNCHANGED vars
  BY <1>2 DEF vars, Inv, TypeOK, Course, Attempts, Sessions, Causes, Places, Zipping, Delivered, Ended,
     Leftovers, TriedBeside
<1> QED
  BY <1>1, <1>2

(* The inductive invariant.                                                *)
THEOREM InductiveInv == Spec => []Inv
  BY InitInv, NextInv, PTL DEF Spec

(* The variables keep their types, whatever workers and the server do.     *)
THEOREM TypeCorrect == Spec => []TypeOK
<1>1. Inv => TypeOK
  BY DEF Inv
<1> QED
  BY <1>1, InductiveInv, PTL

(* While its attempt runs, the zip finds every file whole on its worker.   *)
THEOREM ZipFinds == Spec => []ZipFindsFiles
<1>1. Inv => ZipFindsFiles
  <2> SUFFICES ASSUME Inv, NEW w \in Workers, pc = "zip", act["zip"].state = "running",
                      On("zip", w), NEW f \in FileSet
               PROVE  temp[w].file[f] = "whole"
    BY DEF ZipFindsFiles
  <2>1. w = session.worker /\ w \in alive
    BY Names DEF On, Inv, Sessions, Live
  <2>2. act[f].state = "done"
    BY DEF Inv, Course
  <2> QED
    BY <2>1, <2>2 DEF Inv, Places, Late
<1> QED
  BY <1>1, InductiveInv, PTL

(* A URL is answered only for a whole archive, or one that an abandoned    *)
(* attempt has spoiled.                                                    *)
THEOREM ArchiveExact == Spec => []ArchiveIsExact
<1>1. Inv => ArchiveIsExact
  BY DEF Inv, Course, Delivered, Ended, ArchiveIsExact
<1> QED
  BY <1>1, InductiveInv, PTL

(* What is left after a clean-up came from a download begun after it.      *)
THEOREM LeftoversLate == Spec => []LeftoversAreLate
<1>1. Inv => LeftoversAreLate
  BY DEF Inv, Leftovers, LeftoversAreLate
<1> QED
  BY <1>1, InductiveInv, PTL

-----------------------------------------------------------------------------
(* A download that is done is left alone.                                  *)

Alone(f) ==
    /\ act'[f] = act[f]
    /\ \/ temp'[act[f].on].file[f] = temp[act[f].on].file[f]
       \/ pc = "cleanup" \/ act[f].on \notin alive'

LEMMA WorkflowAlone ==
  ASSUME Inv, WorkflowStep, NEW f \in FileSet, act[f].state = "done" PROVE Alone(f)
<1> USE Names
<1>1. temp' = temp
  BY DEF WorkflowStep, WfResolve, WfSession, WfNoSession, WfDownloads, WfZip, WfUpload, WfCleanup,
     unchangedByWorkflow
<1>2. pc # "session"
  BY DEF Inv, Course, Early
<1>3. act' = act \/ \E k \in {"zip", "upload", "cleanup"} : act' = Scheduled({k})
  BY <1>2 DEF WorkflowStep, WfResolve, WfSession, WfNoSession, WfDownloads, WfZip, WfUpload,
     WfCleanup, Finish
<1>4. act'[f] = act[f]
  BY <1>3 DEF Scheduled
<1> QED
  BY <1>1, <1>4 DEF Alone

LEMMA DoneStays ==
  ASSUME Inv, Next, NEW f \in FileSet, act[f].state = "done" PROVE Alone(f)
<1> USE Names
<1>1. act[f].on = session.worker /\ session.worker \in Workers /\ fetch[f] = "none"
  BY DEF Inv, Sessions, Live, Places
<1>2. CASE WorkflowStep
  BY <1>2, WorkflowAlone
<1>3. CASE SessionLost
  BY <1>3 DEF SessionLost, Alone
<1>4. ASSUME NEW k \in Activities, TimeOut(k) PROVE Alone(f)
  <2>1. k # f /\ temp' = temp /\ \E s : Becomes(k, s)
    BY <1>4, Retried DEF TimeOut, Inv
  <2> QED
    BY <2>1, Pointwise DEF Inv, Alone
<1>5. ASSUME NEW k \in Activities, NEW w \in Workers, Dispatch(k, w) PROVE Alone(f)
  <2>1. act'[f] = act[f]
    BY <1>5 DEF Dispatch, Inv, TypeOK
  <2>2. temp' = temp \/ temp' = [temp EXCEPT ![w].dir = TRUE]
    BY <1>5 DEF Dispatch
  <2>3. ASSUME NEW t \in Temp PROVE [t EXCEPT !.dir = TRUE].file = t.file
    BY DEF Temp
  <2>4. ASSUME NEW v \in Workers PROVE temp'[v].file = temp[v].file
    <3> DEFINE d == [temp[w] EXCEPT !.dir = TRUE]
    <3>1. temp \in [Workers -> Temp] /\ d.file = temp[w].file
      BY <2>3 DEF Inv, TypeOK
    <3>2. temp' = temp \/ temp' = [temp EXCEPT ![w] = d]
      BY <2>2
    <3> HIDE DEF d
    <3> QED
      BY <3>1, <3>2
  <2> QED
    BY <1>1, <2>1, <2>4 DEF Alone
<1>6. ASSUME NEW g \in FileSet, NEW w \in Workers, DownloadCreate(g, w) PROVE Alone(f)
  <2>1. g # f /\ act' = act /\ temp' = [temp EXCEPT ![w].file[g] = "partial"]
    BY <1>1, <1>6 DEF DownloadCreate
  <2>2. \A v \in Workers : temp'[v].file[f] = temp[v].file[f]
    BY <2>1, Written DEF Inv
  <2> QED
    BY <1>1, <2>1, <2>2 DEF Alone
<1>7. ASSUME NEW g \in FileSet, NEW w \in Workers, DownloadEnd(g, w) \/ DownloadFail(g, w)
      PROVE  Alone(f)
  <2>1. g # f
    BY <1>1, <1>7 DEF DownloadEnd, DownloadFail
  <2>2. act' = act \/ \E s \in {"scheduled", "silent", "done", "failed"} : Becomes(g, s)
    BY <1>7, Reported, ReportedFailure DEF DownloadEnd, DownloadFail, Inv
  <2>3. act'[f] = act[f]
    BY <2>1, <2>2, Pointwise DEF Inv
  <2>4. temp' = temp \/ temp' = [temp EXCEPT ![w].file[g] = "whole"]
    BY <1>7 DEF DownloadEnd, DownloadFail
  <2>5. \A v \in Workers : temp'[v].file[f] = temp[v].file[f]
    BY <2>1, <2>4, Written DEF Inv
  <2> QED
    BY <1>1, <2>3, <2>5 DEF Alone
<1>8. ASSUME NEW n \in 1..MaxAttempts, NEW w \in Workers, ZipCopy(n, w) PROVE Alone(f)
  BY <1>8 DEF ZipCopy, Alone
<1>9. ASSUME temp' = temp, NEW k \in {"resolve", "zip", "upload", "cleanup"},
             act' = act \/ \E s \in {"scheduled", "silent", "done", "failed"} : Becomes(k, s)
      PROVE  Alone(f)
  BY <1>9, Pointwise DEF Inv, Alone
<1>10. ASSUME NEW n \in 1..MaxAttempts, NEW w \in Workers, ZipEnd(n, w) \/ ZipFail(n, w)
       PROVE  Alone(f)
  BY <1>9, <1>10, Reported, ReportedFailure DEF ZipEnd, ZipFail, Inv
<1>11. ASSUME NEW w \in Workers, UploadEnd(w) \/ UploadFail(w) PROVE Alone(f)
  BY <1>9, <1>11, Reported, ReportedFailure DEF UploadEnd, UploadFail, Inv
<1>12. ASSUME NEW w \in Workers, CleanupEnd(w) PROVE Alone(f)
  <2>1. pc = "cleanup"
    BY <1>12 DEF CleanupEnd, Inv, Course, Late, Pending
  <2>2. act' = act \/ \E s \in {"scheduled", "silent", "done", "failed"} : Becomes("cleanup", s)
    BY <1>12, Reported DEF CleanupEnd, Inv
  <2> QED
    BY <2>1, <2>2, Pointwise DEF Inv, Alone
<1>13. ASSUME NEW w \in Workers, NEW k \in Activities, ResolveEnd(w) \/ PlainFail(k, w)
       PROVE  Alone(f)
  BY <1>9, <1>13, Reported, ReportedFailure DEF ResolveEnd, PlainFail, Inv
<1>14. ASSUME NEW w \in Workers, Crash(w) PROVE Alone(f)
  BY <1>1, <1>14 DEF Crash, Alone, Inv, TypeOK
<1>15. ASSUME NEW g \in FileSet, PutArrives(g) PROVE Alone(f)
  BY <1>15 DEF PutArrives, Alone
<1>16. ASSUME NEW n \in 1..MaxAttempts, LatePut(n) PROVE Alone(f)
  BY <1>16 DEF LatePut, Alone
<1> QED
  BY <1>2, <1>3, <1>4, <1>5, <1>6, <1>7, <1>8, <1>10, <1>11, <1>12, <1>13, <1>14, <1>15, <1>16,
     Steps

(* A download that is done is not run again, and nothing but the clean-up  *)
(* and the worker's end takes its file.                                    *)
THEOREM RetryAlone == Spec => DownloadsRetryAlone
<1> DEFINE Apart == \A f \in FileSet : act[f].state = "done" =>
                       LET w == act[f].on
                       IN  /\ act'[f] = act[f]
                           /\ temp'[w].file[f] = temp[w].file[f] \/ pc = "cleanup" \/ w \notin alive'
<1>1. Inv /\ [Next]_vars => [Apart]_vars
  BY DoneStays DEF Alone
<1>2. Spec => [][Apart]_vars
  <2> HIDE DEF Apart
  <2> QED
    BY <1>1, InductiveInv, PTL DEF Spec
<1> QED
  BY <1>2 DEF DownloadsRetryAlone

-----------------------------------------------------------------------------
(* How often an activity can still change its state.                       *)
LeftOf(a) ==
    CASE a.state = "idle" -> 3 * MaxAttempts + 2
      [] a.state = "scheduled" -> 3 * (MaxAttempts - a.attempt) + 1
      [] a.state = "running" -> 3 * (MaxAttempts - a.attempt) + 3
      [] a.state = "silent" -> 3 * (MaxAttempts - a.attempt) + 2
      [] OTHER -> 0

(* The ways of an activity: begun once, one attempt after the other, and   *)
(* never again once it has ended.                                          *)
Moves(a, b) ==
    \/ b = a
    \/ a.state = "idle" /\ b.state \in {"scheduled", "failed"} /\ b.attempt = a.attempt
    \/ a.state = "scheduled" /\ b.state = "running" /\ b.attempt = a.attempt + 1
    \/ a.state = "running" /\ b.state = "silent" /\ b.attempt = a.attempt
    \/ a.state \in {"running", "silent"} /\ b.state = "scheduled" /\ b.attempt = a.attempt
    \/ a.state \in {"running", "silent"} /\ b.state \in {"done", "failed"}
    \/ a.state \in Pending /\ b.state = "canceled"

LEMMA MovesLessen ==
  ASSUME NEW a \in Activity, NEW b \in Activity, Moves(a, b), a.state = "idle" => a.attempt = 0
  PROVE  b = a \/ LeftOf(b) < LeftOf(a)
<1>1. /\ a.attempt \in 0..MaxAttempts /\ b.attempt \in 0..MaxAttempts
      /\ MaxAttempts \in Nat /\ MaxAttempts > 0
  BY Names DEF Activity
<1>2. CASE a.state = "idle"
  BY <1>1, <1>2 DEF Moves, Pending, LeftOf
<1>3. CASE a.state = "scheduled"
  BY <1>1, <1>3 DEF Moves, Pending, LeftOf
<1>4. CASE a.state = "running"
  BY <1>1, <1>4 DEF Moves, Pending, LeftOf
<1>5. CASE a.state = "silent"
  BY <1>1, <1>5 DEF Moves, Pending, LeftOf
<1>6. CASE a.state \notin {"idle", "scheduled", "running", "silent"}
  BY <1>6 DEF Moves, Pending
<1> QED
  BY <1>2, <1>3, <1>4, <1>5, <1>6

LEMMA BecomesMoves ==
  ASSUME Inv, NEW k \in Activities,
         \/ act' = act
         \/ \E j \in Activities, s \in {"scheduled", "silent", "done", "failed"} : Becomes(j, s)
  PROVE  Moves(act[k], act'[k])
<1>1. ASSUME NEW j \in Activities, NEW s \in {"scheduled", "silent", "done", "failed"}, Becomes(j, s)
      PROVE  Moves(act[k], act'[k])
  <2>1. /\ act'[j].state = s /\ act'[j].attempt = act[j].attempt
        /\ \A i \in Activities \ {j} : act'[i] = act[i]
    BY <1>1, Pointwise DEF Inv
  <2>2. CASE j = k /\ act[k].state = "silent" /\ s = "silent"
    BY <1>1, <2>2 DEF Becomes, Inv, TypeOK, Activity, Moves
  <2>3. CASE j = k /\ ~ (act[k].state = "silent" /\ s = "silent")
    BY <1>1, <2>1, <2>3 DEF Becomes, Moves
  <2>4. CASE j # k
    BY <2>1, <2>4 DEF Moves
  <2> QED
    BY <2>2, <2>3, <2>4
<1> QED
  BY <1>1 DEF Moves

LEMMA NextMoves == ASSUME Inv, Next, NEW k \in Activities PROVE Moves(act[k], act'[k])
<1> USE Names
<1>1. CASE WorkflowStep
  <2>1. ASSUME NEW ks \in SUBSET Activities, act' = Scheduled(ks),
               \A j \in ks : act[j].state = "idle"
        PROVE  Moves(act[k], act'[k])
    <3>1. \A j \in ks : act[j].attempt < MaxAttempts
      BY <2>1 DEF Inv, Attempts
    <3>2. /\ \A j \in Activities \ ks : act'[j] = act[j]
          /\ \A j \in ks : /\ act'[j].attempt = act[j].attempt
                           /\ act'[j].state \in {"scheduled", "failed"}
      BY <2>1, <3>1, Schedules DEF Inv
    <3> QED
      BY <2>1, <3>2 DEF Moves
  <2>2. ASSUME NEW j \in {"zip", "upload", "cleanup"}, act' = Scheduled({j}), act[j].state = "idle"
        PROVE  Moves(act[k], act'[k])
    <3>1. {j} \in SUBSET Activities /\ \A i \in {j} : act[i].state = "idle"
      BY <2>2
    <3> QED
      BY <2>1, <2>2, <3>1
  <2>3. CASE \E w \in Workers : WfSession(w)
    <3>1. act' = Scheduled(FileSet) /\ \A f \in FileSet : act[f].state = "idle"
      BY <2>3 DEF WfSession, Inv, Course, Early
    <3> QED
      BY <2>1, <3>1
  <2>4. CASE WfResolve \/ WfNoSession \/ WfCleanup
    BY <2>4 DEF WfResolve, WfNoSession, WfCleanup, Moves
  <2>5. CASE WfDownloads
    BY <2>2, <2>5 DEF WfDownloads, Finish, Inv, Course, Early, Late
  <2>6. CASE WfZip
    BY <2>2, <2>6 DEF WfZip, Finish, Inv, Course, Early, Late
  <2>7. CASE WfUpload
    BY <2>2, <2>7 DEF WfUpload, Finish, Inv, Course, Early, Late
  <2> QED
    BY <1>1, <2>3, <2>4, <2>5, <2>6, <2>7 DEF WorkflowStep
<1>2. CASE SessionLost
  <2>1. \/ act'[k] = act[k]
        \/ act'[k] = Cancel(k) /\ act[k].state \in Pending
    BY <1>2 DEF SessionLost, Pending
  <2>2. act[k] \in Activity
    BY DEF Inv, TypeOK
  <2>3. Cancel(k).state = "canceled"
    BY <2>2 DEF Cancel, Activity
  <2> QED
    BY <2>1, <2>3 DEF Moves
<1>3. ASSUME NEW j \in Activities, TimeOut(j) PROVE Moves(act[k], act'[k])
  BY <1>3, Retried, BecomesMoves DEF TimeOut, Inv
<1>4. ASSUME NEW j \in Activities, NEW w \in Workers, Dispatch(j, w) PROVE Moves(act[k], act'[k])
  <2>1. /\ act[j].state = "scheduled"
        /\ act' = [act EXCEPT ![j] = [state |-> "running", attempt |-> act[j].attempt + 1, on |-> w]]
    BY <1>4 DEF Dispatch
  <2>2. CASE j = k
    BY <2>1, <2>2 DEF Inv, TypeOK, Moves
  <2>3. CASE j # k
    BY <2>1, <2>3 DEF Inv, TypeOK, Moves
  <2> QED
    BY <2>2, <2>3
<1>5. ASSUME NEW f \in FileSet, NEW w \in Workers,
             DownloadCreate(f, w) \/ DownloadEnd(f, w) \/ DownloadFail(f, w)
      PROVE  Moves(act[k], act'[k])
  BY <1>5, Reported, ReportedFailure, BecomesMoves
     DEF DownloadCreate, DownloadEnd, DownloadFail, Inv
<1>6. ASSUME NEW n \in 1..MaxAttempts, NEW w \in Workers,
             ZipCopy(n, w) \/ ZipEnd(n, w) \/ ZipFail(n, w)
      PROVE  Moves(act[k], act'[k])
  BY <1>6, Reported, ReportedFailure, BecomesMoves DEF ZipCopy, ZipEnd, ZipFail, Inv
<1>7. ASSUME NEW w \in Workers, UploadEnd(w) \/ UploadFail(w) \/ CleanupEnd(w)
      PROVE  Moves(act[k], act'[k])
  BY <1>7, Reported, ReportedFailure, BecomesMoves DEF UploadEnd, UploadFail, CleanupEnd, Inv
<1>8. ASSUME NEW w \in Workers, NEW j \in Activities, ResolveEnd(w) \/ PlainFail(j, w)
      PROVE  Moves(act[k], act'[k])
  BY <1>8, Reported, ReportedFailure, BecomesMoves DEF ResolveEnd, PlainFail, Inv
<1>9. CASE \/ \E w \in Workers : Crash(w)
           \/ \E f \in FileSet : PutArrives(f)
           \/ \E n \in 1..MaxAttempts : LatePut(n)
  BY <1>9 DEF Crash, PutArrives, LatePut, Moves
<1> QED
  BY <1>1, <1>2, <1>3, <1>4, <1>5, <1>6, <1>7, <1>8, <1>9, Steps

(* Nothing is tried for ever: whatever workers, reports and the session    *)
(* come to, each activity changes its state at most three times for each   *)
(* attempt and twice more, and one that has ended is not begun again.      *)
THEOREM AttemptsAreBounded ==
  Spec => /\ [](\A k \in Activities : LeftOf(act[k]) \in 0..(3 * MaxAttempts + 2))
          /\ [][\A k \in Activities : act'[k] # act[k] => LeftOf(act'[k]) < LeftOf(act[k])]_vars
<1> DEFINE Bounded == \A k \in Activities : LeftOf(act[k]) \in 0..(3 * MaxAttempts + 2)
           Lessens == \A k \in Activities : act'[k] # act[k] => LeftOf(act'[k]) < LeftOf(act[k])
<1>1. Inv => Bounded
  <2> SUFFICES ASSUME Inv, NEW k \in Activities PROVE LeftOf(act[k]) \in 0..(3 * MaxAttempts + 2)
    OBVIOUS
  <2>1. /\ act[k].attempt \in 0..MaxAttempts /\ MaxAttempts \in Nat
        /\ act[k].state \in Live => act[k].attempt > 0
    BY Names DEF Inv, TypeOK, Activity, Attempts
  <2> QED
    BY <2>1 DEF LeftOf, Live
<1>2. Inv /\ Inv' /\ [Next]_vars => [Lessens]_vars
  <2> SUFFICES ASSUME Inv, Inv', Next, NEW k \in Activities, act'[k] # act[k]
               PROVE  LeftOf(act'[k]) < LeftOf(act[k])
    OBVIOUS
  <2>1. act[k] \in Activity /\ act'[k] \in Activity
    BY DEF Inv, TypeOK
  <2>2. act[k].state = "idle" => act[k].attempt = 0
    BY DEF Inv, Attempts
  <2> QED
    BY <2>1, <2>2, NextMoves, MovesLessen
<1>3. Spec => []Bounded
  <2> HIDE DEF Bounded
  <2> QED
    BY <1>1, InductiveInv, PTL
<1>4. Spec => [][Lessens]_vars
  <2> HIDE DEF Lessens
  <2> QED
    BY <1>2, InductiveInv, PTL DEF Spec
<1> QED
  BY <1>3, <1>4

-----------------------------------------------------------------------------
(* The refinement.                                                         *)

(* A step that leaves the object closes the workflow or shows nothing.     *)
LEMMA ClosingRefines ==
  ASSUME Inv, Next, UNCHANGED <<archive, puts>>
  PROVE  [Job!Next]_Job!vars
<1>1. CASE pc = "closed"
  <2>1. UNCHANGED <<pc, result>>
    BY <1>1 DEF Next, WorkflowStep, WfResolve, WfSession, WfNoSession, WfDownloads, WfZip, WfUpload,
       WfCleanup, ServerStep, TimeOut, Dispatch, SessionLost, AttemptStep, DownloadStep, ZipStep,
       DownloadCreate, DownloadEnd, DownloadFail, ZipCopy, ZipEnd, ZipFail, UploadEnd, UploadFail,
       CleanupEnd, ResolveEnd, PlainFail, Crash, PutArrives, LatePut
  <2> QED
    BY <2>1 DEF Status, Due, Job!vars
<1>2. CASE pc # "closed" /\ pc' # "closed"
  BY <1>2 DEF Status, Due, Job!vars
<1>3. CASE pc # "closed" /\ pc' = "closed"
  <2>1. CASE result' = "ok"
    <3>1. pc = "cleanup" /\ result = "ok"
      BY <1>3, <2>1 DEF Next, WorkflowStep, WfResolve, WfSession, WfNoSession, WfDownloads, WfZip,
         WfUpload, WfCleanup, Finish, ServerStep, TimeOut, Dispatch, SessionLost, AttemptStep,
         DownloadStep, ZipStep, DownloadCreate, DownloadEnd, DownloadFail, ZipCopy, ZipEnd, ZipFail,
         UploadEnd, UploadFail, CleanupEnd, ResolveEnd, PlainFail, Crash, PutArrives, LatePut
    <3>2. archive \in Job!Finished /\ Due \subseteq Job!Finished
      <4>1. act["upload"].state = "done"
        BY <3>1 DEF Inv, Course
      <4>2. puts \in [1..MaxAttempts -> {"none"} \cup Bodies]
        BY DEF Inv, TypeOK
      <4> QED
        BY <4>1, <4>2 DEF Inv, Delivered, Ended, Due, Bodies, Job!Finished
    <3> QED
      BY <1>3, <2>1, <3>1, <3>2 DEF Status, Due, Job!Next, Job!Complete
  <2>2. CASE result' # "ok"
    BY <1>3, <2>2 DEF Status, Due, Job!Next, Job!Fail
  <2> QED
    BY <2>1, <2>2
<1> QED
  BY <1>1, <1>2, <1>3

(* An attempt at the upload sends what it has, and none is left when the   *)
(* workflow has completed.                                                 *)
LEMMA SendingRefines ==
  ASSUME Inv, Inv', NEW w \in Workers, UploadEnd(w) \/ UploadFail(w) \/ Crash(w)
  PROVE  [Job!Next]_Job!vars
<1>1. UNCHANGED <<pc, result>> /\ archive' \in {archive} \cup Job!Sent
  BY DEF UploadEnd, UploadFail, Crash, Zipped, Job!Sent
<1>2. Due' \in SUBSET Job!Sent
  BY DEF Inv, TypeOK, Due, Bodies, Job!Sent
<1>3. CASE Uploads(w)
  <2>1. Status # "completed"
    BY <1>3 DEF Uploads, Status, Inv, Course
  <2> QED
    BY <1>1, <1>2, <2>1 DEF Status, Job!Next, Job!Put
<1>4. CASE ~ Uploads(w)
  <2>1. UNCHANGED <<archive, puts>>
    BY <1>4 DEF UploadEnd, UploadFail, Crash
  <2> QED
    BY <1>1, <2>1 DEF Status, Due, Job!vars
<1> QED
  BY <1>3, <1>4

(* What is stored late had been sent, and was due.                         *)
LEMMA StoringRefines ==
  ASSUME Inv, NEW n \in 1..MaxAttempts, LatePut(n)
  PROVE  [Job!Next]_Job!vars
<1> DEFINE body == puts[n]
<1>1. UNCHANGED <<pc, result>> /\ archive' = body /\ body # "none" /\ body \in Due
  BY DEF LatePut, Due
<1>2. /\ puts'[n] = "none"
      /\ \A m \in (1..MaxAttempts) \ {n} : puts'[m] = puts[m]
  BY DEF LatePut, Inv, TypeOK
<1> HIDE DEF body
<1>3. Due' \subseteq Due /\ Due \ {body} \subseteq Due'
  BY <1>2 DEF Due, body
<1>4. Due' \in {Due, Due \ {body}}
  <2>1. CASE body \in Due'
    BY <1>3, <2>1
  <2>2. CASE body \notin Due'
    BY <1>3, <2>2
  <2> QED
    BY <2>1, <2>2
<1> QED
  BY <1>1, <1>4 DEF Status, Job!Next, Job!Store

(* The workflow with everything it runs on implements the job: it closes   *)
(* once, with a URL only over a finished archive, and what S3 stores after *)
(* that, late, is finished too.                                            *)
THEOREM Refines == Spec => ImplementsJob
<1>1. Init => Job!Init
  BY DEF Init, Status, Due, Job!Init
<1>2. Inv /\ Inv' /\ [Next]_vars => [Job!Next]_Job!vars
  <2> SUFFICES ASSUME Inv, Inv', [Next]_vars PROVE [Job!Next]_Job!vars
    OBVIOUS
  <2>1. CASE UNCHANGED vars
    BY <2>1 DEF vars, Status, Due, Job!vars
  <2>2. CASE /\ Next
             /\ \A w \in Workers : ~ (UploadEnd(w) \/ UploadFail(w) \/ Crash(w))
             /\ \A n \in 1..MaxAttempts : ~ LatePut(n)
    <3>1. UNCHANGED <<archive, puts>>
      BY <2>2 DEF Next, WorkflowStep, WfResolve, WfSession, WfNoSession, WfDownloads, WfZip, WfUpload,
         WfCleanup, unchangedByWorkflow, ServerStep, TimeOut, Dispatch, SessionLost, AttemptStep,
         DownloadStep, ZipStep, DownloadCreate, DownloadEnd, DownloadFail, ZipCopy, ZipEnd, ZipFail,
         CleanupEnd, ResolveEnd, PlainFail, PutArrives
    <3> QED
      BY <2>2, <3>1, ClosingRefines
  <2> QED
    BY <2>1, <2>2, SendingRefines, StoringRefines
<1> QED
  BY <1>1, <1>2, InductiveInv, PTL DEF Spec, ImplementsJob, Job!Spec

=============================================================================
