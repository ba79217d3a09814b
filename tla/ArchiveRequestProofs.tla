-------------------------- MODULE ArchiveRequestProofs --------------------------
(***************************************************************************)
(* The safety of asking and waiting for archives, for any users, files,    *)
(* requests and sockets and any length of a request.                       *)
(*                                                                         *)
(* The inductive invariant says what a request knows when it starts its    *)
(* workflow, that an archive belongs to one request, and that what a       *)
(* handler has been told by Temporal is still so when it writes.           *)
(***************************************************************************)
EXTENDS ArchiveRequest, FiniteSetTheorems, TLAPS

OwnsAll(r) ==
    /\ Cardinality(Ids(r)) = Len(req[r].ids)
    /\ \A f \in Ids(r) : owner[f] = req[r].user

Accepted(r) ==
    /\ req[r].pc = "start" \/ req[r].status = 202 => OwnsAll(r)
    /\ req[r].status = 202 <=> req[r].archive # None
    /\ req[r].pc # "answered" => req[r].archive = None
    /\ req[r].archive # None =>
          /\ workflow[req[r].archive] # "none"
          /\ \A s \in Requests \ {r} : req[s].archive # req[r].archive

Watched(w) ==
    /\ socket[w].handler # "idle" => socket[w].archive \in Archives
    /\ socket[w].handler = "idle" => socket[w] = NoSocket
    /\ socket[w].result = "completed" \/ socket[w].told = "completed"
          => workflow[socket[w].archive] = "completed"
    /\ socket[w].reader = "reading" => socket[w].conn = "open"

Inv == TypeOK /\ (\A r \in Requests : Accepted(r)) /\ (\A w \in Watchers : Watched(w))

-----------------------------------------------------------------------------
(* The rows found are as many as the ids only if each id is of a row of    *)
(* its own.                                                                *)
LEMMA FoundIsOwned ==
  ASSUME TypeOK, NEW r \in Requests, AllFound(r) PROVE OwnsAll(r)
<1> DEFINE found == {f \in Ids(r) : owner[f] = req[r].user}
<1>1. req[r].ids \in Seq(Files) /\ Len(req[r].ids) \in Nat /\ DOMAIN req[r].ids = 1..Len(req[r].ids)
  <2>1. req[r].ids \in IdLists
    BY DEF TypeOK, Request
  <2>2. PICK n \in 0..MaxIds : req[r].ids \in [1..n -> Files]
    BY <2>1 DEF IdLists
  <2>3. n \in Nat
    BY RequestAssumption
  <2> QED
    BY <2>2, <2>3
<1>2. req[r].ids \in Surjection(1..Len(req[r].ids), Ids(r))
  BY <1>1 DEF Surjection, Ids
<1>3. IsFiniteSet(1..Len(req[r].ids)) /\ Cardinality(1..Len(req[r].ids)) = Len(req[r].ids)
  BY <1>1, FS_Interval
<1>4. IsFiniteSet(Ids(r)) /\ Cardinality(Ids(r)) <= Len(req[r].ids)
  BY <1>2, <1>3, FS_Surjection
<1>5. found \in SUBSET Ids(r) /\ Cardinality(found) = Len(req[r].ids)
  BY DEF AllFound
<1> HIDE DEF found
<1>6. /\ Cardinality(Ids(r)) \in Nat /\ Cardinality(found) <= Cardinality(Ids(r))
      /\ Cardinality(Ids(r)) = Cardinality(found) => Ids(r) = found
  BY <1>4, <1>5, FS_Subset, FS_CardinalityType
<1>7. Cardinality(Ids(r)) = Len(req[r].ids)
  BY <1>1, <1>4, <1>5, <1>6
<1>8. Ids(r) = found
  BY <1>5, <1>6, <1>7
<1> QED
  BY <1>7, <1>8 DEF OwnsAll, found

LEMMA InitInv == Init => Inv
<1> SUFFICES ASSUME Init PROVE Inv
  OBVIOUS
<1>1. TypeOK
  BY DEF Init, TypeOK, Request, Socket, NoSocket
<1>2. ASSUME NEW r \in Requests PROVE Accepted(r)
  BY DEF Init, Accepted
<1>3. ASSUME NEW w \in Watchers PROVE Watched(w)
  BY DEF Init, Watched, NoSocket
<1> QED
  BY <1>1, <1>2, <1>3 DEF Inv

-----------------------------------------------------------------------------
(* A step of a request.  No step changes the user or the ids.              *)

LEMMA OwnsKept ==
  ASSUME NEW r, owner' = owner, req'[r].ids = req[r].ids, req'[r].user = req[r].user
  PROVE  OwnsAll(r)' <=> OwnsAll(r)
<1>1. Ids(r)' = Ids(r)
  BY DEF Ids
<1> QED
  BY <1>1 DEF OwnsAll

(* A step of one request, which keeps its user and its ids.                *)
Moves(r, pc, status, a) ==
    /\ req' \in [Requests -> Request] /\ \A s \in Requests \ {r} : req'[s] = req[s]
    /\ req'[r].ids = req[r].ids /\ req'[r].user = req[r].user
    /\ req'[r].pc = pc /\ req'[r].status = status /\ req'[r].archive = a

LEMMA AnswerMoves ==
  ASSUME TypeOK, NEW r \in Requests, NEW status \in {202, 400, 500}, NEW a \in Archives \cup {None},
         Answer(r, status, a)
  PROVE  Moves(r, "answered", status, a)
<1>1. req[r].user \in Users /\ req[r].ids \in IdLists
  BY DEF TypeOK, Request
<1>2. [pc |-> "answered", user |-> req[r].user, ids |-> req[r].ids, status |-> status, archive |-> a]
      \in Request
  BY <1>1 DEF Request
<1> QED
  BY <1>2 DEF Answer, Moves, TypeOK

LEMMA GoesOn ==
  ASSUME TypeOK, NEW r \in Requests, NEW pc \in {"check", "start"}, req' = [req EXCEPT ![r].pc = pc]
  PROVE  Moves(r, pc, req[r].status, req[r].archive)
<1>1. req[r] \in Request /\ [req[r] EXCEPT !.pc = pc] \in Request
  BY DEF TypeOK, Request
<1>2. req'[r] = [req[r] EXCEPT !.pc = pc] /\ req' \in [Requests -> Request]
      /\ \A s \in Requests \ {r} : req'[s] = req[s]
  BY <1>1 DEF TypeOK
<1> QED
  BY <1>1, <1>2 DEF Moves, Request

(* A step of one request that gives it no archive.                         *)
LEMMA NoArchiveInv ==
  ASSUME Inv, NEW r \in Requests, req[r].pc # "answered",
         UNCHANGED <<owner, presigns, socket>>,
         \A w \in Watchers : Watched(w)',
         workflow' \in [Archives -> {"none", "running", "completed", "failed"}],
         \A a \in Archives : workflow[a] # "none" => workflow'[a] # "none",
         NEW pc \in {"check", "start", "answered"}, NEW status \in {0, 400, 500},
         Moves(r, pc, status, None),
         pc = "start" => OwnsAll(r)
  PROVE  Inv'
<1>1. /\ req'[r].ids = req[r].ids /\ req'[r].user = req[r].user /\ req'[r].pc = pc
      /\ req'[r].status = status /\ req'[r].archive = None
      /\ req' \in [Requests -> Request] /\ \A s \in Requests \ {r} : req'[s] = req[s]
  BY DEF Moves
<1>2. TypeOK'
  BY <1>1 DEF Inv, TypeOK
<1>3. Accepted(r)'
  <2>1. OwnsAll(r)' <=> OwnsAll(r)
    BY <1>1, OwnsKept
  <2> QED
    BY <1>1, <2>1 DEF Accepted
<1>4. ASSUME NEW s \in Requests \ {r} PROVE Accepted(s)'
  <2>1. OwnsAll(s)' <=> OwnsAll(s)
    BY <1>1, OwnsKept
  <2>2. Accepted(s) /\ req'[s] = req[s] /\ req[s].archive \in Archives \cup {None}
    BY <1>1 DEF Inv, TypeOK, Request
  <2>3. \A q \in Requests \ {s} : req'[q].archive \in {req[q].archive, None}
    BY <1>1
  <2> QED
    BY <2>1, <2>2, <2>3 DEF Accepted
<1> QED
  BY <1>2, <1>3, <1>4 DEF Inv

LEMMA WatchedKept ==
  ASSUME Inv, socket' = socket, NEW w \in Watchers,
         \A a \in Archives : workflow[a] = "completed" => workflow'[a] = "completed"
  PROVE  Watched(w)'
<1>1. socket[w].told = "completed" \/ socket[w].result = "completed" => socket[w].archive \in Archives
  BY DEF Inv, Watched, NoSocket
<1> QED
  BY <1>1 DEF Inv, Watched

LEMMA RequestInv ==
  ASSUME Inv, NEW r \in Requests,
         \/ DownloadMultiple(r) \/ EmptyList(r) \/ GetDownloadURLs(r) \/ FilesMissing(r)
         \/ PresignRefused(r) \/ RequestFail(r)
  PROVE  Inv'
<1>1. UNCHANGED <<owner, presigns, socket, workflow>> /\ req[r].pc # "answered"
  BY DEF DownloadMultiple, EmptyList, GetDownloadURLs, FilesMissing, PresignRefused, RequestFail
<1>2. \A w \in Watchers : Watched(w)'
  BY <1>1, WatchedKept
<1>3. req[r].archive = None /\ req[r].status \in {0, 400, 500} /\ req[r] \in Request
  BY <1>1 DEF Inv, Accepted, TypeOK, Request
<1>4. CASE DownloadMultiple(r)
  <2>1. Moves(r, "check", req[r].status, None)
    BY <1>3, <1>4, GoesOn DEF DownloadMultiple, Inv
  <2> QED
    BY <1>1, <1>2, <1>3, <2>1, NoArchiveInv DEF Inv, TypeOK
<1>5. CASE GetDownloadURLs(r)
  <2>1. Moves(r, "start", req[r].status, None)
    BY <1>3, <1>5, GoesOn DEF GetDownloadURLs, Inv
  <2>2. OwnsAll(r)
    BY <1>5, FoundIsOwned DEF GetDownloadURLs, Inv
  <2> QED
    BY <1>1, <1>2, <1>3, <2>1, <2>2, NoArchiveInv DEF Inv, TypeOK
<1>6. CASE EmptyList(r) \/ FilesMissing(r) \/ PresignRefused(r) \/ RequestFail(r)
  <2>1. PICK status \in {400, 500} : Answer(r, status, None)
    BY <1>6 DEF EmptyList, FilesMissing, PresignRefused, RequestFail
  <2>2. Moves(r, "answered", status, None)
    BY <2>1, AnswerMoves DEF Inv
  <2> QED
    BY <1>1, <1>2, <2>2, NoArchiveInv DEF Inv, TypeOK
<1> QED
  BY <1>4, <1>5, <1>6

LEMMA StartInv ==
  ASSUME Inv, NEW r \in Requests, NEW a \in Archives, ExecuteWorkflow(r, a) \/ StartFail(r, a)
  PROVE  Inv'
<1>1. /\ UNCHANGED <<owner, presigns, socket>> /\ req[r].pc = "start" /\ workflow[a] = "none"
      /\ workflow' = [workflow EXCEPT ![a] = "running"]
  BY DEF ExecuteWorkflow, StartFail
<1>2. /\ workflow' \in [Archives -> {"none", "running", "completed", "failed"}] /\ workflow'[a] = "running"
      /\ \A b \in Archives : workflow[b] # "none" => workflow'[b] = workflow[b]
  BY <1>1 DEF Inv, TypeOK
<1>3. \A w \in Watchers : Watched(w)'
  BY <1>1, <1>2, WatchedKept
<1>4. CASE StartFail(r, a)
  <2>1. Moves(r, "answered", 500, None)
    BY <1>4, AnswerMoves DEF StartFail, Inv
  <2> QED
    BY <1>1, <1>2, <1>3, <2>1, NoArchiveInv
<1>5. CASE ExecuteWorkflow(r, a)
  <2>1. Moves(r, "answered", 202, a)
    BY <1>5, AnswerMoves DEF ExecuteWorkflow, Inv
  <2>2. /\ req'[r].ids = req[r].ids /\ req'[r].user = req[r].user /\ req'[r].pc = "answered"
        /\ req'[r].status = 202 /\ req'[r].archive = a
        /\ req' \in [Requests -> Request] /\ \A s \in Requests \ {r} : req'[s] = req[s]
    BY <2>1 DEF Moves
  <2>3. TypeOK'
    BY <1>1, <1>2, <2>2 DEF Inv, TypeOK
  <2>4. \A s \in Requests : req[s].archive # a
    BY <1>1, RequestAssumption DEF Inv, Accepted
  <2>5. Accepted(r)'
    <3>1. OwnsAll(r)' <=> OwnsAll(r)
      BY <1>1, <2>2, OwnsKept
    <3>2. OwnsAll(r) /\ a # None
      BY <1>1, RequestAssumption DEF Inv, Accepted
    <3>3. \A s \in Requests \ {r} : req'[s].archive # a
      BY <2>2, <2>4
    <3> QED
      BY <1>2, <2>2, <3>1, <3>2, <3>3 DEF Accepted
  <2>6. ASSUME NEW s \in Requests \ {r} PROVE Accepted(s)'
    <3>1. OwnsAll(s)' <=> OwnsAll(s)
      BY <1>1, <2>2, OwnsKept
    <3>2. Accepted(s) /\ req'[s] = req[s] /\ req[s].archive \in Archives \cup {None}
      BY <2>2 DEF Inv, TypeOK, Request
    <3>3. \A q \in Requests \ {s} : req'[q].archive \in {req[q].archive, a}
      BY <2>2
    <3> QED
      BY <1>2, <2>4, <3>1, <3>2, <3>3 DEF Accepted
  <2> QED
    BY <1>3, <2>3, <2>5, <2>6 DEF Inv
<1> QED
  BY <1>4, <1>5

LEMMA WorkflowInv ==
  ASSUME Inv, NEW a \in Archives, NEW how \in {"completed", "failed"}, WorkflowEnds(a, how)
  PROVE  Inv'
<1>1. UNCHANGED <<owner, presigns, req, socket>> /\ workflow' = [workflow EXCEPT ![a] = how]
      /\ workflow[a] = "running"
  BY DEF WorkflowEnds
<1>2. TypeOK'
  BY <1>1 DEF Inv, TypeOK
<1>3. \A w \in Watchers : Watched(w)'
  BY <1>1, WatchedKept DEF Inv, TypeOK
<1>4. ASSUME NEW r \in Requests PROVE Accepted(r)'
  <2>1. OwnsAll(r)' <=> OwnsAll(r)
    BY <1>1, OwnsKept
  <2>2. Accepted(r) /\ req[r].archive \in Archives \cup {None}
    BY DEF Inv, TypeOK, Request
  <2>3. req[r].archive # None => workflow'[req[r].archive] # "none"
    BY <1>1, <2>2 DEF Accepted, Inv, TypeOK
  <2> QED
    BY <1>1, <2>1, <2>2, <2>3 DEF Accepted
<1> QED
  BY <1>2, <1>3, <1>4 DEF Inv

-----------------------------------------------------------------------------
(* A step of a socket.                                                     *)

LEMMA BecomeInv ==
  ASSUME Inv, NEW w \in Watchers, NEW s \in Socket, Become(w, s),
         s.handler # "idle" => s.archive \in Archives,
         s.handler = "idle" => s = NoSocket,
         s.result = "completed" \/ s.told = "completed" => workflow[s.archive] = "completed",
         s.reader = "reading" => s.conn = "open"
  PROVE  Inv'
<1>1. UNCHANGED <<owner, presigns, req, workflow>> /\ socket' = [socket EXCEPT ![w] = s]
  BY DEF Become
<1>2. socket'[w] = s /\ \A v \in Watchers \ {w} : socket'[v] = socket[v]
  BY <1>1 DEF Inv, TypeOK
<1>3. TypeOK'
  BY <1>1, <1>2 DEF Inv, TypeOK, Watched
<1>4. \A v \in Watchers : Watched(v)'
  BY <1>1, <1>2 DEF Inv, Watched
<1>5. ASSUME NEW r \in Requests PROVE Accepted(r)'
  <2>1. OwnsAll(r)' <=> OwnsAll(r)
    BY <1>1, OwnsKept
  <2> QED
    BY <1>1, <2>1 DEF Inv, Accepted
<1> QED
  BY <1>3, <1>4, <1>5 DEF Inv

LEMMA SocketInv ==
  ASSUME Inv, NEW w \in Watchers,
         \/ \E a \in Archives : Connect(w, a)
         \/ Refuse(w) \/ Upgrade(w) \/ Leave(w) \/ Forget(w)
         \/ SocketStep(w) \/ ReaderStep(w) \/ GetFails(w)
  PROVE  Inv'
<1>0. socket[w] \in Socket /\ Watched(w)
  BY DEF Inv, TypeOK
<1>1. ASSUME NEW a \in Archives, Connect(w, a) PROVE Inv'
  BY <1>1, BecomeInv DEF Connect, NoSocket, Socket
<1>2. CASE Refuse(w)
  BY <1>0, <1>2, BecomeInv DEF Refuse, Socket, Watched
<1>3. CASE Upgrade(w)
  BY <1>0, <1>3, BecomeInv DEF Upgrade, Socket, Watched
<1>4. CASE Leave(w)
  <2>1. socket[w].handler # "idle"
    BY <1>0, <1>4 DEF Leave, Watched, NoSocket
  <2> QED
    BY <1>0, <1>4, <2>1, BecomeInv DEF Leave, Socket, Watched
<1>5. CASE Forget(w)
  BY <1>5, BecomeInv DEF Forget, NoSocket, Socket
<1>6. CASE GetResult(w)
  BY <1>0, <1>6, BecomeInv DEF GetResult, Socket, Watched
<1>7. CASE Canceled(w)
  BY <1>0, <1>7, BecomeInv DEF Canceled, Socket, Watched
<1>8. CASE Write(w)
  BY <1>0, <1>8, BecomeInv DEF Write, Socket, Watched
<1>9. CASE ReaderEnds(w)
  <2>1. socket[w].handler # "idle"
    BY <1>0, <1>9 DEF ReaderEnds, Watched, NoSocket
  <2> QED
    BY <1>0, <1>9, <2>1, BecomeInv DEF ReaderEnds, Socket, Watched
<1>10. CASE GetFails(w)
  BY <1>0, <1>10, BecomeInv DEF GetFails, Socket, Watched
<1> QED
  BY <1>1, <1>2, <1>3, <1>4, <1>5, <1>6, <1>7, <1>8, <1>9, <1>10 DEF SocketStep, ReaderStep

-----------------------------------------------------------------------------
THEOREM InductiveInv == Spec => []Inv
<1>1. ASSUME Inv, [Next]_vars PROVE Inv'
  <2>1. CASE UNCHANGED vars
    <3>1. UNCHANGED <<owner, presigns, req, workflow, socket>>
      BY <2>1 DEF vars
    <3>2. \A r \in Requests : OwnsAll(r)' <=> OwnsAll(r)
      BY <3>1, OwnsKept
    <3> QED
      BY <1>1, <3>1, <3>2 DEF Inv, TypeOK, Accepted, Watched
  <2> QED
    BY <1>1, <2>1, RequestInv, StartInv, WorkflowInv, SocketInv DEF Next
<1> QED
  BY InitInv, <1>1, PTL DEF Spec

(* Requests, workflows and sockets keep their types, and a handler that    *)
(* waits beside its reader has an open connection.                         *)
THEOREM TypeCorrect == Spec => []TypeOK
<1>1. Inv => TypeOK
  BY DEF Inv
<1> QED
  BY InductiveInv, <1>1, PTL

(* An accepted request owns its files and its archive, however many run    *)
(* beside it.                                                              *)
THEOREM AcceptedOwns == Spec => []AcceptedIsOwned
<1>1. Inv => AcceptedIsOwned
  BY DEF Inv, Accepted, OwnsAll, AcceptedIsOwned
<1> QED
  BY InductiveInv, <1>1, PTL

(* What a browser is told of its archive is true.                          *)
THEOREM ToldTruth == Spec => []ToldIsTrue
<1>1. Inv => ToldIsTrue
  BY DEF Inv, Watched, ToldIsTrue
<1> QED
  BY InductiveInv, <1>1, PTL

=============================================================================
