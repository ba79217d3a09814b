--------------------------- MODULE RequestPathProofs ---------------------------
(***************************************************************************)
(* The safety of the request path for any number of users and requests,    *)
(* any wishes and any keys of the two services.                            *)
(*                                                                         *)
(* The inductive invariant follows one request: what the mux sees is what  *)
(* the browser asked or what a redirect made of it; what was done for it   *)
(* is a beginning of the calls of the route that serves it; and a call     *)
(* that is still to be made finds the owner of the token in the context.   *)
(***************************************************************************)
EXTENDS RequestPath, SequenceTheorems, TLAPS

(* What the mux is asked, at first and after a redirect was followed.      *)
AsAsked(w) == [path |-> Path(w.op), method |-> Method[w.op], slash |-> w.slash, page |-> w.page]
AsFollowed(w) == [path |-> Path(w.op), method |-> "GET", slash |-> FALSE, page |-> 1]

Asked(r) ==
    /\ at[r] # "idle" => \/ req[r] = AsAsked(wish[r])
                         \/ wish[r].slash /\ req[r] = AsFollowed(wish[r])
    /\ at[r] = "redirected" => wish[r].slash /\ req[r] = AsAsked(wish[r])
    /\ at[r] \in {"auth", "handler", "waiting", "upgraded"} => ~ req[r].slash

(* Nothing is done before the handler, which finds all its calls to make.  *)
Early(r) ==
    /\ at[r] = "auth" => left[r] = CallsOf(r)
    /\ at[r] \in {"idle", "arrived", "redirected", "auth"} => did[r] = <<>> /\ call[r].st = "none"
    /\ at[r] = "handler" => call[r].st = "none"
    /\ at[r] = "waiting" => call[r].st # "none" /\ left[r] # <<>>
    /\ at[r] = "idle" => seen[r] = <<>>

(* What was done is a beginning of the calls of the route, and what is     *)
(* under way the next of them.                                             *)
InOrder(r) ==
    did[r] # <<>> \/ call[r].st = "sent" =>
        /\ Matches(req[r]) # {} /\ ~ req[r].slash
        /\ Len(did[r]) <= Len(CallsOf(r))
        /\ \A i \in 1..Len(did[r]) :
              did[r][i].rpc = CallsOf(r)[i] /\ did[r][i].page = req[r].page
        /\ call[r].st = "sent" => /\ Len(did[r]) < Len(CallsOf(r))
                                  /\ call[r].rpc = CallsOf(r)[Len(did[r]) + 1]
                                  /\ call[r].page = req[r].page

(* What the handler has still to call is the rest.                         *)
Returned(r) == IF call[r].st = "ok" THEN Len(did[r]) - 1 ELSE Len(did[r])
Rest(r) ==
    at[r] \in {"handler", "waiting"} /\ call[r].st # "error" =>
        /\ Returned(r) + Len(left[r]) = Len(CallsOf(r))
        /\ \A i \in 1..Len(left[r]) : left[r][i] = CallsOf(r)[Returned(r) + i]

(* The user of the request, from the context into the headers.             *)
Owned(r) ==
    /\ at[r] \in {"handler", "waiting"} /\ left[r] # <<>>
          => user[r] = wish[r].token /\ user[r] # None
    /\ call[r].st = "sent" => /\ user[r] = wish[r].token /\ user[r] # None
                              /\ call[r].user = user[r] /\ call[r].key = keys.server
    /\ \A i \in 1..Len(did[r]) :
          /\ did[r][i].user = wish[r].token /\ user[r] = wish[r].token
          /\ did[r][i].user # None
          /\ did[r][i].rpc # "ExecuteWorkflow" => keys.storage \in {None, keys.server}

(* The last answer says where the request has ended, and a refusal that    *)
(* whole files were uploaded, if any, and no workflow was started.         *)
WholeFiles(d) ==
    \A i \in 1..Len(d) :
        /\ d[i].rpc # "ExecuteWorkflow"
        /\ d[i].rpc = "GetUploadURL" => i + 1 \in 1..Len(d) /\ d[i + 1].rpc = "ConfirmUpload"
Refused(r) == seen[r] # <<>> /\ Last(seen[r]) \in 400..499
Succeeded(r) == seen[r] # <<>> /\ Last(seen[r]) \in 200..299
Told(r) ==
    /\ Refused(r) \/ Succeeded(r) => at[r] = "done" /\ call[r].st # "sent"
    /\ Refused(r) => WholeFiles(did[r])
    /\ Succeeded(r) => Len(did[r]) = Len(CallsOf(r))

RequestInv(r) == Asked(r) /\ Early(r) /\ InOrder(r) /\ Rest(r) /\ Owned(r) /\ Told(r)

Inv == TypeOK /\ \A r \in Requests : RequestInv(r)

-----------------------------------------------------------------------------
(* The table of routes.                                                    *)

Ops == {"health", "sign_in", "logout_all", "list", "upload", "metadata", "download", "archive", "ws"}

LEMMA Operations ==
  /\ DOMAIN Method = Ops
  /\ \A op \in Ops : Method[op] = IF op \in {"sign_in", "logout_all", "upload", "archive"}
                                  THEN "POST" ELSE "GET"
  BY DEF Method, Ops

(* An upload reserves and confirms in turn.                                *)
Pairs(parts) == [i \in 1..2 * parts |-> IF i % 2 = 1 THEN "GetUploadURL" ELSE "ConfirmUpload"]

LEMMA CallsAre ==
  ASSUME NEW op, NEW parts
  PROVE  /\ op = "upload" => Calls(op, parts) = Pairs(parts)
         /\ op # "upload" =>
               Calls(op, parts) \in {<<"ListFiles">>, <<"GetMetadata">>, <<"GetFile">>,
                                     <<"GetDownloadURLs", "ExecuteWorkflow">>, <<>>}
  BY DEF Calls, Pairs

LEMMA PairsTyped ==
  ASSUME NEW parts \in Nat \ {0}
  PROVE  /\ Pairs(parts) \in Seq(Rpc) /\ Len(Pairs(parts)) = 2 * parts
         /\ \A i \in 1..2 * parts :
               Pairs(parts)[i] = IF i % 2 = 1 THEN "GetUploadURL" ELSE "ConfirmUpload"
<1>1. {"GetUploadURL", "ConfirmUpload"} \subseteq Rpc
  BY DEF Rpc, Mounted
<1>2. 2 * parts \in Nat
  OBVIOUS
<1>3. Pairs(parts) \in [1..2 * parts -> Rpc]
  BY <1>1 DEF Pairs
<1>4. Pairs(parts) \in Seq(Rpc)
  BY <1>2, <1>3, SeqDef
<1> QED
  BY <1>2, <1>3, <1>4, LenProperties DEF Pairs

(* After an even number of calls the next is a reservation, and what was   *)
(* done until then is whole.                                               *)
LEMMA PairsAreWhole ==
  ASSUME NEW n \in Nat, NEW i \in 1..n, (n + 1) % 2 = 1, i % 2 = 1
  PROVE  i + 1 \in 1..n /\ (i + 1) % 2 # 1
  OBVIOUS

LEMMA CallsTyped ==
  ASSUME NEW op, NEW parts \in Nat \ {0}
  PROVE  Calls(op, parts) \in Seq(Rpc) /\ Len(Calls(op, parts)) \in 0..2 * parts
<1>1. CASE op = "upload"
  BY <1>1, CallsAre, PairsTyped
<1>2. CASE op # "upload"
  <2>1. {"ListFiles", "GetMetadata", "GetFile", "GetDownloadURLs", "ExecuteWorkflow"} \subseteq Rpc
    BY DEF Rpc, Mounted
  <2>2. /\ <<"ListFiles">> \in Seq(Rpc) /\ <<"GetMetadata">> \in Seq(Rpc) /\ <<"GetFile">> \in Seq(Rpc)
        /\ <<"GetDownloadURLs", "ExecuteWorkflow">> \in Seq(Rpc) /\ <<>> \in Seq(Rpc)
    BY <2>1
  <2>3. /\ Len(<<"ListFiles">>) = 1 /\ Len(<<"GetMetadata">>) = 1 /\ Len(<<"GetFile">>) = 1
        /\ Len(<<"GetDownloadURLs", "ExecuteWorkflow">>) = 2 /\ Len(<<>>) = 0
    OBVIOUS
  <2>4. {0, 1, 2} \subseteq 0..2 * parts
    OBVIOUS
  <2> QED
    BY <1>2, <2>2, <2>3, <2>4, CallsAre
<1> QED
  BY <1>1, <1>2

(* A request that was not redirected is served by the route it asks for.   *)
LEMMA AskedRoute ==
  ASSUME NEW w \in WishType, NEW q, q.path = Path(w.op), q.method = Method[w.op]
  PROVE  Matches(q) = {w.op}
  BY Operations DEF Matches, WishType, Path, Ops

(* What a redirect makes of a POST is a listing, if anything.              *)
LEMMA FollowedRoute ==
  ASSUME NEW w \in WishType, Method[w.op] = "POST", NEW q, q.path = Path(w.op), q.method = "GET"
  PROVE  Matches(q) \subseteq {"list"}
  BY Operations DEF Matches, WishType, Path, Ops

LEMMA RouteFound ==
  ASSUME NEW r \in Requests, Matches(req[r]) # {} PROVE Route(r) \in Matches(req[r])
  BY DEF Route

-----------------------------------------------------------------------------
(* A step of one request.                                                  *)

(* What RequestInv says of a request depends on these alone.               *)
Same(q) ==
    /\ wish'[q] = wish[q] /\ req'[q] = req[q] /\ at'[q] = at[q] /\ user'[q] = user[q]
    /\ left'[q] = left[q] /\ call'[q] = call[q] /\ did'[q] = did[q] /\ seen'[q] = seen[q]

LEMMA OthersKept ==
  ASSUME NEW q, RequestInv(q), Same(q), keys' = keys PROVE RequestInv(q)'
<1>1. Route(q)' = Route(q) /\ CallsOf(q)' = CallsOf(q)
  BY DEF Same, Route, Matches, CallsOf
<1>2. Matches(req[q])' = Matches(req[q])
  BY DEF Same, Matches
<1>3. Asked(q)' /\ Early(q)'
  BY <1>1 DEF RequestInv, Same, Asked, Early, AsAsked, AsFollowed
<1>4. InOrder(q)'
  BY <1>1, <1>2 DEF RequestInv, Same, InOrder
<1>5. Rest(q)'
  BY <1>1 DEF RequestInv, Same, Rest, Returned
<1>6. Owned(q)'
  BY DEF RequestInv, Same, Owned
<1>7. Told(q)'
  <2>1. Refused(q)' = Refused(q) /\ Succeeded(q)' = Succeeded(q)
    BY DEF Same, Refused, Succeeded
  <2>2. WholeFiles(did'[q]) <=> WholeFiles(did[q])
    BY DEF Same
  <2> QED
    BY <1>1, <2>1, <2>2 DEF RequestInv, Same, Told
<1> QED
  BY <1>3, <1>4, <1>5, <1>6, <1>7 DEF RequestInv

LEMMA StepInv ==
  ASSUME Inv, NEW r \in Requests, TypeOK', keys' = keys, RequestInv(r)',
         \A q \in Requests \ {r} : Same(q)
  PROVE  Inv'
  BY OthersKept DEF Inv

LEMMA InitInv == Init => Inv
<1> SUFFICES ASSUME Init PROVE Inv
  OBVIOUS
<1>1. TypeOK
  BY Operations DEF Init, TypeOK, NoCall, WishType, Request, Call, Deed, Ops
<1>2. ASSUME NEW r \in Requests PROVE RequestInv(r)
  BY <1>2 DEF Init, NoCall, RequestInv, Asked, Early, InOrder, Rest, Owned, Told, Refused, Succeeded
<1> QED
  BY <1>1, <1>2 DEF Inv

(* An answer that ends a request: a refusal needs that nothing was written *)
(* and nothing is under way, a success that everything was done.           *)
LEMMA LastAppended ==
  ASSUME NEW S, NEW s \in Seq(S), NEW e \in S
  PROVE  Append(s, e) \in Seq(S) /\ Append(s, e) # <<>> /\ Last(Append(s, e)) = e
  BY DEF Last

LEMMA AnswerTyped ==
  ASSUME TypeOK, NEW r \in Requests, NEW status \in Statuses, NEW pc, Answer(r, status, pc)
  PROVE  /\ seen' \in [Requests -> Seq(Statuses)] /\ counted' \in [Requests -> Seq(Statuses)]
         /\ \A q \in Requests \ {r} : seen'[q] = seen[q]
         /\ at' = [at EXCEPT ![r] = pc]
         /\ seen'[r] = seen[r] \/ (seen'[r] # <<>> /\ Last(seen'[r]) = status)
<1>1. Recorded(status) \in Statuses
  BY DEF Recorded, Statuses
<1>2. Append(counted[r], Recorded(status)) \in Seq(Statuses)
  BY <1>1, LastAppended DEF TypeOK
<1>3. Append(seen[r], status) \in Seq(Statuses) /\ Append(seen[r], status) # <<>>
      /\ Last(Append(seen[r], status)) = status
  BY LastAppended DEF TypeOK
<1> QED
  BY <1>2, <1>3 DEF TypeOK, Answer, Tell, Count, Goes

LEMMA EndInv ==
  ASSUME Inv, NEW r \in Requests, NEW status \in Statuses, Answer(r, status, "done"),
         UNCHANGED <<keys, sessions, wish, req, user, left, call, did, gone>>,
         at[r] \notin {"idle", "done"},
         status \in 400..499 => call[r].st # "sent" /\ WholeFiles(did[r]),
         status \in 200..299 => call[r].st # "sent" /\ Len(did[r]) = Len(CallsOf(r))
  PROVE  Inv'
<1>1. /\ seen' \in [Requests -> Seq(Statuses)] /\ counted' \in [Requests -> Seq(Statuses)]
      /\ \A q \in Requests \ {r} : seen'[q] = seen[q]
      /\ at' = [at EXCEPT ![r] = "done"]
      /\ seen'[r] = seen[r] \/ (seen'[r] # <<>> /\ Last(seen'[r]) = status)
  BY AnswerTyped DEF Inv
<1>2. TypeOK'
  BY <1>1 DEF Inv, TypeOK
<1>3. at'[r] = "done" /\ \A q \in Requests \ {r} : Same(q)
  BY <1>1 DEF Inv, TypeOK, Same
<1>4. /\ Route(r)' = Route(r) /\ Matches(req[r])' = Matches(req[r]) /\ CallsOf(r)' = CallsOf(r)
      /\ RequestInv(r)
  BY DEF Route, Matches, CallsOf, Inv
<1>5. Asked(r)' /\ Early(r)' /\ Rest(r)'
  BY <1>3, <1>4 DEF RequestInv, Asked, Early, Rest, AsAsked, AsFollowed
<1>6. InOrder(r)' /\ Owned(r)'
  BY <1>3, <1>4 DEF RequestInv, InOrder, Owned
<1>7. Told(r)'
  <2>1. call'[r] = call[r] /\ did'[r] = did[r] /\ ~ Refused(r) /\ ~ Succeeded(r)
    BY <1>4 DEF RequestInv, Told
  <2>2. CASE seen'[r] = seen[r]
    BY <2>1, <2>2 DEF Told, Refused, Succeeded
  <2>3. CASE seen'[r] # <<>> /\ Last(seen'[r]) = status
    <3>1. Refused(r)' <=> status \in 400..499
      BY <2>3 DEF Refused
    <3>2. Succeeded(r)' <=> status \in 200..299
      BY <2>3 DEF Succeeded
    <3> QED
      BY <1>3, <1>4, <2>1, <3>1, <3>2 DEF Told
  <2> QED
    BY <1>1, <2>2, <2>3
<1> QED
  BY <1>2, <1>3, <1>5, <1>6, <1>7, StepInv DEF RequestInv

(* The route that serves a request, and how far its handler has got.       *)
LEMMA WorkflowIsSecond ==
  ASSUME NEW op, NEW parts \in Nat \ {0}, NEW n \in Nat, n + 1 = Len(Calls(op, parts)),
         Calls(op, parts)[n + 1] = "ExecuteWorkflow"
  PROVE  n = 1 /\ Calls(op, parts)[1] = "GetDownloadURLs"
<1>1. CASE Calls(op, parts) = <<>>
  BY <1>1
<1>2. CASE Calls(op, parts) \in {<<"ListFiles">>, <<"GetMetadata">>, <<"GetFile">>}
  <2>1. Len(Calls(op, parts)) = 1 /\ Calls(op, parts)[1] # "ExecuteWorkflow"
    BY <1>2
  <2> QED
    BY <2>1
<1>3. CASE Calls(op, parts) = Pairs(parts)
  <2>1. n + 1 \in 1..2 * parts
    BY <1>3, PairsTyped
  <2> QED
    BY <1>3, <2>1, PairsTyped
<1>4. CASE Calls(op, parts) = <<"GetDownloadURLs", "ExecuteWorkflow">>
  BY <1>4
<1> QED
  BY <1>1, <1>2, <1>3, <1>4, CallsAre

(* Only an upload reserves.                                                *)
LEMMA ReservesInPairs ==
  ASSUME NEW op, NEW parts \in Nat \ {0}, NEW n \in 1..Len(Calls(op, parts)),
         Calls(op, parts)[n] = "GetUploadURL"
  PROVE  Calls(op, parts) = Pairs(parts) /\ n % 2 = 1
<1>1. CASE Calls(op, parts) \in {<<"ListFiles">>, <<"GetMetadata">>, <<"GetFile">>}
  <2>1. Len(Calls(op, parts)) = 1 /\ Calls(op, parts)[1] # "GetUploadURL"
    BY <1>1
  <2> QED
    BY <2>1
<1>2. CASE Calls(op, parts) \in {<<>>, <<"GetDownloadURLs", "ExecuteWorkflow">>}
  BY <1>2
<1>3. CASE Calls(op, parts) = Pairs(parts)
  BY <1>3, PairsTyped
<1> QED
  BY <1>1, <1>2, <1>3, CallsAre

LEMMA Lengths ==
  ASSUME Inv, NEW r \in Requests
  PROVE  /\ did[r] \in Seq(Deed) /\ left[r] \in Seq(Rpc) /\ CallsOf(r) \in Seq(Rpc)
         /\ Len(did[r]) \in Nat /\ Len(left[r]) \in Nat /\ Len(CallsOf(r)) \in Nat
         /\ did[r] = <<>> <=> Len(did[r]) = 0
         /\ left[r] = <<>> <=> Len(left[r]) = 0
         /\ wish[r].parts \in Nat \ {0} /\ Len(CallsOf(r)) \in 0..2 * wish[r].parts
<1>1. did[r] \in Seq(Deed) /\ left[r] \in Seq(Rpc) /\ wish[r].parts \in Nat \ {0}
  BY DEF Inv, TypeOK, WishType
<1> QED
  BY <1>1, CallsTyped DEF CallsOf

(* What was done and what is left, counted.                                *)
LEMMA Counting ==
  ASSUME NEW a \in Nat, NEW b \in Nat, NEW c \in Nat
  PROVE  /\ a + b = 0 => a = 0
         /\ a + b = c /\ b # 0 => a < c /\ a + 1 <= c
         /\ b - 1 \in Nat => (\A i \in 1..(b - 1) : i + 1 \in 1..b)
         /\ \A i \in Nat : a - 1 + (i + 1) = a + i
  OBVIOUS

LEMMA SuccessTyped == ASSUME NEW op PROVE Success(op) \in {200, 201, 202, 101}
  BY DEF Success

(* Before a file that is refused, whole files were uploaded.               *)
LEMMA WholeBefore ==
  ASSUME Inv, NEW r \in Requests, RequestInv(r), left[r] # <<>>, Head(left[r]) = "GetUploadURL",
         Len(did[r]) + Len(left[r]) = Len(CallsOf(r)),
         \A i \in 1..Len(left[r]) : left[r][i] = CallsOf(r)[Len(did[r]) + i]
  PROVE  WholeFiles(did[r])
<1>1. /\ Len(did[r]) \in Nat /\ Len(left[r]) \in Nat \ {0} /\ left[r][1] = "GetUploadURL"
      /\ wish[r].parts \in Nat \ {0}
  BY Lengths
<1>2. Len(did[r]) + 1 \in 1..Len(CallsOf(r)) /\ CallsOf(r)[Len(did[r]) + 1] = "GetUploadURL"
  <2>1. 1 \in 1..Len(left[r])
    BY <1>1
  <2>2. left[r][1] = CallsOf(r)[Len(did[r]) + 1]
    BY <2>1
  <2> DEFINE a == Len(did[r])
             b == Len(left[r])
             c == Len(CallsOf(r))
  <2>3. a \in Nat /\ b \in Nat \ {0} /\ c \in Nat /\ a + b = c
    BY <1>1, Lengths
  <2> HIDE DEF a, b, c
  <2>4. a + 1 \in 1..c
    BY <2>3
  <2> QED
    BY <1>1, <2>2, <2>4, Zenon DEF a, c
<1>3. CallsOf(r) = Pairs(wish[r].parts) /\ (Len(did[r]) + 1) % 2 = 1
  BY <1>1, <1>2, ReservesInPairs DEF CallsOf
<1>4. Len(CallsOf(r)) = 2 * wish[r].parts
  BY <1>1, <1>3, PairsTyped
<1>5. ASSUME NEW i \in 1..Len(did[r])
      PROVE  did[r][i].rpc = IF i % 2 = 1 THEN "GetUploadURL" ELSE "ConfirmUpload"
  <2>1. did[r] # <<>>
    BY <1>5, Lengths
  <2>2. did[r][i].rpc = Pairs(wish[r].parts)[i]
    BY <1>3, <2>1 DEF RequestInv, InOrder
  <2>3. i \in 1..2 * wish[r].parts
    BY <1>1, <1>2, <1>4
  <2> QED
    BY <1>1, <2>2, <2>3, PairsTyped
<1>6. ASSUME NEW i \in 1..Len(did[r]), i % 2 = 1
      PROVE  i + 1 \in 1..Len(did[r]) /\ (i + 1) % 2 # 1
  BY <1>1, <1>3, <1>6, PairsAreWhole
<1> QED
  BY <1>5, <1>6 DEF WholeFiles

(* The answers that end a request.                                         *)
LEMMA EndsInv ==
  ASSUME Inv, NEW r \in Requests,
         \/ NotAllowed(r) \/ Reject(r) \/ BadInput(r) \/ Forbid(r) \/ CallFails(r)
         \/ NoCallMade(r) \/ Cancel(r) \/ Finish(r) \/ RefuseUpgrade(r)
  PROVE  Inv'
<1>0. RequestInv(r) /\ (Len(did[r]) = 0 => WholeFiles(did[r]))
  BY DEF Inv, WholeFiles
<1>1. CASE NotAllowed(r)
  <2>1. did[r] = <<>> /\ call[r].st # "sent" /\ Len(did[r]) = 0
    BY <1>0, <1>1, Lengths DEF NotAllowed, RequestInv, Early
  <2> QED
    BY <1>0, <1>1, <2>1, EndInv DEF NotAllowed, Statuses
<1>2. CASE Reject(r)
  <2>1. did[r] = <<>> /\ call[r].st # "sent" /\ Len(did[r]) = 0
    BY <1>0, <1>2, Lengths DEF Reject, Served, RequestInv, Early
  <2> QED
    BY <1>0, <1>2, <2>1, EndInv DEF Reject, Served, Statuses, HTTPStatus
<1>3. CASE BadInput(r)
  <2>1. at[r] = "handler" /\ call[r].st = "none" /\ Len(did[r]) \in Nat
    BY <1>0, <1>3, Lengths DEF BadInput, Served, RequestInv, Early
  <2>2. /\ Len(did[r]) + Len(left[r]) = Len(CallsOf(r))
        /\ \A i \in 1..Len(left[r]) : left[r][i] = CallsOf(r)[Len(did[r]) + i]
    BY <1>0, <2>1 DEF RequestInv, Rest, Returned
  <2>3. WholeFiles(did[r])
    <3>1. CASE left[r] = CallsOf(r)
      BY <1>0, <2>2, <3>1, Lengths
    <3>2. CASE left[r] # <<>> /\ Head(left[r]) = "GetUploadURL"
      BY <1>0, <2>1, <2>2, <3>2, WholeBefore
    <3> QED
      BY <1>3, <3>1, <3>2 DEF BadInput
  <2> QED
    BY <1>3, <2>1, <2>3, EndInv DEF BadInput, Served, Statuses, HTTPStatus
<1>4. CASE Forbid(r)
  <2>1. call[r].st = "none" /\ Len(left[r]) = 1 /\ left[r][1] = "ExecuteWorkflow"
    BY <1>0, <1>4 DEF Forbid, Served, RequestInv, Early
  <2>2. Len(did[r]) + 1 = Len(CallsOf(r)) /\ CallsOf(r)[Len(did[r]) + 1] = "ExecuteWorkflow"
    BY <1>0, <1>4, <2>1, Lengths DEF Forbid, Served, RequestInv, Rest, Returned
  <2>3. Len(did[r]) = 1 /\ CallsOf(r)[1] = "GetDownloadURLs"
    <3>1. wish[r].parts \in Nat \ {0} /\ Len(did[r]) \in Nat
      BY Lengths
    <3> QED
      BY <2>2, <3>1, WorkflowIsSecond DEF CallsOf
  <2>4. WholeFiles(did[r])
    BY <1>0, <2>3, Lengths DEF RequestInv, InOrder, WholeFiles
  <2> QED
    BY <1>4, <2>1, <2>4, EndInv DEF Forbid, Served, Statuses, HTTPStatus
<1>5. CASE CallFails(r)
  BY <1>5, EndInv DEF CallFails, Served, Statuses, HTTPStatus
<1>6. CASE NoCallMade(r)
  BY <1>6, EndInv DEF NoCallMade, Served, Statuses, HTTPStatus
<1>7. CASE Cancel(r)
  BY <1>7, EndInv DEF Cancel, Served, Statuses, HTTPStatus
<1>8. CASE Finish(r)
  <2>1. call[r].st # "sent" /\ Len(did[r]) = Len(CallsOf(r))
    BY <1>0, <1>8, Lengths DEF Finish, Served, RequestInv, Early, Rest, Returned
  <2>2. Success(Route(r)) \in Statuses /\ Success(Route(r)) \notin 400..499
    BY SuccessTyped DEF Statuses
  <2> QED
    BY <1>8, <2>1, <2>2, EndInv DEF Finish, Served
<1>9. CASE RefuseUpgrade(r)
  <2>1. at[r] = "handler" /\ call[r].st = "none"
    BY <1>0, <1>9 DEF RefuseUpgrade, Served, RequestInv, Early
  <2>2. CallsOf(r) = <<>>
    BY <1>9 DEF RefuseUpgrade, CallsOf, Calls
  <2>3. Len(CallsOf(r)) = 0
    BY <2>2
  <2>4. Len(did[r]) + Len(left[r]) = 0 /\ Len(did[r]) \in Nat /\ Len(left[r]) \in Nat
    <3>1. Len(did[r]) + Len(left[r]) = Len(CallsOf(r))
      BY <1>0, <2>1 DEF RequestInv, Rest, Returned
    <3>2. Len(did[r]) \in Nat /\ Len(left[r]) \in Nat
      BY Lengths
    <3> QED
      BY <2>3, <3>1, <3>2
  <2>10. Len(did[r]) = 0
    BY <2>4, Counting, Zenon
  <2>5. PICK status \in {400, 401} : Answer(r, status, "done")
    BY <1>9 DEF RefuseUpgrade
  <2> QED
    BY <1>0, <1>9, <2>1, <2>10, <2>5, EndInv DEF RefuseUpgrade, Served, Statuses
<1> QED
  BY <1>1, <1>2, <1>3, <1>4, <1>5, <1>6, <1>7, <1>8, <1>9

-----------------------------------------------------------------------------
(* A step of the browser.                                                  *)

LEMMA SendInv == ASSUME Inv, NEW r \in Requests, Send(r) PROVE Inv'
<1>0. RequestInv(r) /\ at[r] = "idle"
  BY DEF Inv, Send
<1>1. PICK w \in Wishes[r] : /\ wish' = [wish EXCEPT ![r] = w]
                             /\ req' = [req EXCEPT ![r] = AsAsked(w)]
  BY DEF Send, AsAsked
<1>2. w \in WishType
  BY <1>1, WishesAssumption
<1>3. AsAsked(w) \in Request
  BY <1>2, Operations DEF AsAsked, WishType, Request, Path, Ops
<1>4. TypeOK'
  BY <1>1, <1>2, <1>3 DEF Inv, TypeOK, Send
<1>5. wish'[r] = w /\ req'[r] = AsAsked(w) /\ at'[r] = "arrived"
  BY <1>1 DEF Inv, TypeOK, Send
<1>6. UNCHANGED <<keys, user, left, call, did, seen>> /\ \A q \in Requests \ {r} : Same(q)
  BY <1>1 DEF Inv, TypeOK, Send, Same
<1>7. did[r] = <<>> /\ call[r].st = "none" /\ seen[r] = <<>> /\ Len(did[r]) = 0
  BY <1>0, Lengths DEF RequestInv, Early
<1>8. RequestInv(r)'
  BY <1>5, <1>6, <1>7 DEF RequestInv, Asked, Early, InOrder, Rest, Owned, Told, Refused, Succeeded
<1> QED
  BY <1>4, <1>6, <1>8, StepInv

LEMMA FollowInv == ASSUME Inv, NEW r \in Requests, Follow(r) PROVE Inv'
<1>0. RequestInv(r) /\ at[r] = "redirected" /\ req[r] = AsAsked(wish[r])
  BY DEF Inv, Follow, RequestInv, Asked
<1>1. TypeOK'
  BY DEF Inv, TypeOK, Follow, Request
<1>2. req'[r] = AsFollowed(wish[r]) /\ at'[r] = "arrived"
  BY <1>0 DEF Inv, TypeOK, Follow, AsAsked, AsFollowed
<1>3. UNCHANGED <<keys, wish, user, left, call, did, seen>> /\ \A q \in Requests \ {r} : Same(q)
  BY DEF Inv, TypeOK, Follow, Same
<1>4. did[r] = <<>> /\ call[r].st = "none" /\ Len(did[r]) = 0 /\ wish[r].slash
  BY <1>0, Lengths DEF RequestInv, Early, Asked, AsAsked
<1>5. RequestInv(r)'
  BY <1>0, <1>2, <1>3, <1>4 DEF RequestInv, Asked, Early, InOrder, Rest, Owned, Told, Refused, Succeeded
<1> QED
  BY <1>1, <1>3, <1>5, StepInv

(* Leave and Revoke touch nothing that the invariant speaks of.            *)
LEMMA UntouchedInv ==
  ASSUME Inv, TypeOK', UNCHANGED <<keys, wish, req, at, user, left, call, did, seen>>
  PROVE  Inv'
  BY OthersKept DEF Inv, Same

LEMMA LeaveInv == ASSUME Inv, NEW r \in Requests, Leave(r) PROVE Inv'
  BY UntouchedInv DEF Inv, TypeOK, Leave

LEMMA RevokeInv == ASSUME Inv, NEW u \in Users, Revoke(u) PROVE Inv'
  BY UntouchedInv DEF Inv, TypeOK, Revoke

-----------------------------------------------------------------------------
(* A step of the file server that does not end the request.                *)

LEMMA RedirectInv == ASSUME Inv, NEW r \in Requests, Redirect(r) PROVE Inv'
<1>0. RequestInv(r) /\ at[r] = "arrived" /\ req[r].slash
  BY DEF Inv, Redirect
<1>1. /\ seen' \in [Requests -> Seq(Statuses)] /\ counted' \in [Requests -> Seq(Statuses)]
      /\ \A q \in Requests \ {r} : seen'[q] = seen[q]
      /\ at' = [at EXCEPT ![r] = "redirected"]
      /\ seen'[r] = seen[r] \/ (seen'[r] # <<>> /\ Last(seen'[r]) = 301)
  BY AnswerTyped DEF Inv, Redirect, Statuses
<1>2. TypeOK'
  BY <1>1 DEF Inv, TypeOK, Redirect
<1>3. at'[r] = "redirected"
      /\ UNCHANGED <<keys, wish, req, user, left, call, did>> /\ \A q \in Requests \ {r} : Same(q)
  BY <1>1 DEF Inv, TypeOK, Redirect, Same
<1>4. did[r] = <<>> /\ call[r].st = "none" /\ Len(did[r]) = 0 /\ ~ Refused(r) /\ ~ Succeeded(r)
  BY <1>0, Lengths DEF RequestInv, Early, Told
<1>5. ~ Refused(r)' /\ ~ Succeeded(r)'
  <2>1. CASE seen'[r] = seen[r]
    BY <1>4, <2>1 DEF Refused, Succeeded
  <2>2. CASE Last(seen'[r]) = 301
    BY <2>2 DEF Refused, Succeeded
  <2> QED
    BY <1>1, <2>1, <2>2
<1>6. req[r] = AsAsked(wish[r]) /\ wish[r].slash
  BY <1>0 DEF RequestInv, Asked, AsFollowed, AsAsked
<1>7. RequestInv(r)'
  BY <1>3, <1>4, <1>5, <1>6 DEF RequestInv, Asked, Early, InOrder, Rest, Owned, Told, AsAsked
<1> QED
  BY <1>2, <1>3, <1>7, StepInv

LEMMA DispatchInv == ASSUME Inv, NEW r \in Requests, Dispatch(r) PROVE Inv'
<1>0. RequestInv(r) /\ at[r] = "arrived" /\ ~ req[r].slash
  BY DEF Inv, Dispatch, Served
<1>1. CallsOf(r) \in Seq(Rpc)
  BY Lengths
<1>2. TypeOK'
  BY <1>1 DEF Inv, TypeOK, Dispatch, Goes
<1>3. UNCHANGED <<keys, wish, req, user, call, did, seen>> /\ \A q \in Requests \ {r} : Same(q)
  BY DEF Inv, TypeOK, Dispatch, Goes, Same
<1>4. left'[r] = CallsOf(r) /\ at'[r] \in {"handler", "auth"}
      /\ (at'[r] = "handler" => Route(r) \in Unprotected)
  BY DEF Inv, TypeOK, Dispatch, Goes
<1>5. did[r] = <<>> /\ call[r].st = "none" /\ Len(did[r]) = 0 /\ ~ Refused(r) /\ ~ Succeeded(r)
  BY <1>0, Lengths DEF RequestInv, Early, Told
<1>6. at'[r] = "handler" => left'[r] = <<>>
  BY <1>4 DEF Unprotected, CallsOf, Calls
<1>7. Route(r)' = Route(r) /\ CallsOf(r)' = CallsOf(r)
  BY <1>3 DEF Route, Matches, CallsOf
<1>8. Asked(r)' /\ Early(r)' /\ InOrder(r)'
  BY <1>0, <1>3, <1>4, <1>5, <1>7 DEF RequestInv, Asked, Early, InOrder, AsAsked, AsFollowed
<1>9. Rest(r)'
  BY <1>3, <1>4, <1>5, <1>7, Lengths DEF Rest, Returned
<1>10. Owned(r)' /\ Told(r)'
  BY <1>0, <1>3, <1>4, <1>5, <1>6 DEF RequestInv, Owned, Told, Refused, Succeeded
<1> QED
  BY <1>2, <1>3, <1>8, <1>9, <1>10, StepInv DEF RequestInv

LEMMA AcceptInv == ASSUME Inv, NEW r \in Requests, Accept(r) PROVE Inv'
<1>0. RequestInv(r) /\ at[r] = "auth" /\ wish[r].token \in Users
  BY DEF Inv, TypeOK, Accept, Served
<1>1. wish[r].token # None
  BY <1>0, NoneAssumption
<1>2. TypeOK'
  BY <1>0 DEF Inv, TypeOK, Accept, Goes, WithUserID
<1>3. UNCHANGED <<keys, wish, req, left, call, did, seen>> /\ \A q \in Requests \ {r} : Same(q)
  BY DEF Inv, TypeOK, Accept, Goes, WithUserID, Same
<1>4. at'[r] = "handler" /\ user'[r] = wish[r].token
  BY DEF Inv, TypeOK, Accept, Goes, WithUserID
<1>5. did[r] = <<>> /\ call[r].st = "none" /\ Len(did[r]) = 0 /\ ~ Refused(r) /\ ~ Succeeded(r)
  BY <1>0, Lengths DEF RequestInv, Early, Told
<1>6. Route(r)' = Route(r) /\ CallsOf(r)' = CallsOf(r)
  BY <1>3 DEF Route, Matches, CallsOf
<1>7. Asked(r)' /\ Early(r)' /\ InOrder(r)'
  BY <1>0, <1>3, <1>4, <1>5 DEF RequestInv, Asked, Early, InOrder, AsAsked, AsFollowed
<1>8. left[r] = CallsOf(r)
  BY <1>0 DEF RequestInv, Early
<1>9. Rest(r)'
  BY <1>3, <1>4, <1>5, <1>6, <1>8, Lengths DEF Rest, Returned
<1>10. Owned(r)' /\ Told(r)'
  BY <1>1, <1>3, <1>4, <1>5 DEF Owned, Told, Refused, Succeeded
<1> QED
  BY <1>2, <1>3, <1>7, <1>9, <1>10, StepInv DEF RequestInv

(* A panic, a download that is cut short, an upgrade and the end of a web  *)
(* socket.                                                                 *)
LEMMA CutAppended ==
  ASSUME NEW s \in Seq(Statuses)
  PROVE  /\ s \o <<200, 0>> \in Seq(Statuses) /\ s \o <<200, 0>> # <<>>
         /\ Len(s \o <<200, 0>>) = Len(s) + 2 /\ Last(s \o <<200, 0>>) = 0
         /\ \A i \in 1..Len(s) : (s \o <<200, 0>>)[i] = s[i]
         /\ (s \o <<200, 0>>)[Len(s) + 1] = 200
<1>1. <<200, 0>> \in Seq(Statuses) /\ Len(<<200, 0>>) = 2
  BY DEF Statuses
<1> QED
  BY <1>1 DEF Last

LEMMA PanicInv ==
  ASSUME Inv, NEW r \in Requests, Panic(r) \/ Break(r) \/ Upgrade(r) \/ Close(r) PROVE Inv'
<1>0. RequestInv(r) /\ at[r] \in {"handler", "upgraded"}
  BY DEF Inv, Panic, Break, Upgrade, Close, Served
<1>1. /\ seen' \in [Requests -> Seq(Statuses)] /\ counted' \in [Requests -> Seq(Statuses)]
      /\ \A q \in Requests \ {r} : seen'[q] = seen[q]
      /\ seen'[r] = seen[r] \/ (seen'[r] # <<>> /\ Last(seen'[r]) \in {0, 101})
  <2>0. /\ seen[r] \in Seq(Statuses) /\ counted[r] \in Seq(Statuses)
        /\ 0 \in Statuses /\ 101 \in Statuses /\ 200 \in Statuses
    BY DEF Inv, TypeOK, Statuses
  <2>1. Append(seen[r], 0) \in Seq(Statuses) /\ Append(seen[r], 0) # <<>> /\ Last(Append(seen[r], 0)) = 0
    BY <2>0, LastAppended
  <2>2. Append(seen[r], 101) \in Seq(Statuses) /\ Append(seen[r], 101) # <<>>
        /\ Last(Append(seen[r], 101)) = 101
    BY <2>0, LastAppended
  <2>3. Append(counted[r], 200) \in Seq(Statuses)
    BY <2>0, LastAppended
  <2>4. CASE Panic(r)
    BY <2>1, <2>4 DEF Panic, Tell, Inv, TypeOK
  <2>5. CASE Upgrade(r)
    BY <2>2, <2>5 DEF Upgrade, Tell, Inv, TypeOK
  <2>6. CASE Close(r)
    BY <2>3, <2>6 DEF Close, Count, Recorded, Inv, TypeOK
  <2>7. CASE Break(r)
    BY <2>0, <2>3, <2>7, CutAppended DEF Break, Count, Recorded, Inv, TypeOK
  <2> QED
    BY <2>4, <2>5, <2>6, <2>7
<1>2. UNCHANGED <<keys, sessions, wish, req, user, left, call, did, gone>>
      /\ at' \in {[at EXCEPT ![r] = "upgraded"], [at EXCEPT ![r] = "done"]}
  BY DEF Panic, Break, Upgrade, Close, Goes
<1>3. TypeOK'
  <2>1. at' \in [Requests -> {"idle", "arrived", "redirected", "auth", "handler", "waiting",
                             "upgraded", "done"}]
    BY <1>2 DEF Inv, TypeOK
  <2> QED
    BY <1>1, <1>2, <2>1 DEF Inv, TypeOK
<1>4. at'[r] \in {"upgraded", "done"} /\ \A q \in Requests \ {r} : Same(q)
  BY <1>1, <1>2 DEF Inv, TypeOK, Same
<1>5. ~ Refused(r) /\ ~ Succeeded(r)
  BY <1>0 DEF RequestInv, Told
<1>6. ~ Refused(r)' /\ ~ Succeeded(r)'
  <2>1. CASE seen'[r] = seen[r]
    BY <1>5, <2>1 DEF Refused, Succeeded
  <2>2. CASE Last(seen'[r]) = 0
    BY <2>2 DEF Refused, Succeeded
  <2>3. CASE Last(seen'[r]) = 101
    BY <2>3 DEF Refused, Succeeded
  <2> QED
    BY <1>1, <2>1, <2>2, <2>3
<1>7. /\ Route(r)' = Route(r) /\ Matches(req[r])' = Matches(req[r]) /\ CallsOf(r)' = CallsOf(r)
  BY <1>2 DEF Route, Matches, CallsOf
<1>8. Asked(r)' /\ Early(r)' /\ Rest(r)'
  BY <1>0, <1>2, <1>4 DEF RequestInv, Asked, Early, Rest, AsAsked, AsFollowed
<1>9. InOrder(r)' /\ Owned(r)' /\ Told(r)'
  BY <1>0, <1>2, <1>4, <1>6, <1>7 DEF RequestInv, InOrder, Owned, Told
<1> QED
  BY <1>2, <1>3, <1>4, <1>8, <1>9, StepInv DEF RequestInv

LEMMA RoundTripInv == ASSUME Inv, NEW r \in Requests, RoundTrip(r) PROVE Inv'
<1>0. /\ RequestInv(r) /\ at[r] = "handler" /\ left[r] # <<>> /\ Matches(req[r]) # {}
      /\ ~ req[r].slash /\ call[r].st = "none"
  BY DEF Inv, RoundTrip, Served, RequestInv, Asked, Early
<1>1. /\ left[r] \in Seq(Rpc) /\ Len(left[r]) \in Nat \ {0} /\ Head(left[r]) = left[r][1]
      /\ Head(left[r]) \in Rpc
  BY <1>0 DEF Inv, TypeOK
<1>2. keys.server \in Keys /\ user[r] \in Users \cup {None} /\ req[r].page \in {1, 2}
  BY DEF Inv, TypeOK, Request
<1>3. TypeOK'
  BY <1>1, <1>2 DEF Inv, TypeOK, RoundTrip, Goes, Headers, UserIDFromContext, Call
<1>4. UNCHANGED <<keys, wish, req, user, left, did, seen>> /\ \A q \in Requests \ {r} : Same(q)
  BY DEF Inv, TypeOK, RoundTrip, Goes, Same
<1>5. /\ at'[r] = "waiting"
      /\ call'[r] = [st |-> "sent", rpc |-> left[r][1], key |-> keys.server, user |-> user[r],
                     page |-> req[r].page]
  BY <1>1 DEF Inv, TypeOK, RoundTrip, Goes, Headers, UserIDFromContext
<1>6. /\ Route(r)' = Route(r) /\ Matches(req[r])' = Matches(req[r]) /\ CallsOf(r)' = CallsOf(r)
  BY <1>4 DEF Route, Matches, CallsOf
<1>7. ~ Refused(r) /\ ~ Succeeded(r)
  BY <1>0 DEF RequestInv, Told
<1>8. /\ Len(did[r]) + Len(left[r]) = Len(CallsOf(r))
      /\ left[r][1] = CallsOf(r)[Len(did[r]) + 1]
  <2>1. Returned(r) = Len(did[r])
    BY <1>0 DEF Returned
  <2>2. /\ Len(did[r]) + Len(left[r]) = Len(CallsOf(r))
        /\ \A i \in 1..Len(left[r]) : left[r][i] = CallsOf(r)[Len(did[r]) + i]
    BY <1>0, <2>1 DEF RequestInv, Rest
  <2>3. 1 \in 1..Len(left[r])
    BY <1>1
  <2> QED
    BY <2>2, <2>3
<1>9. Asked(r)' /\ Early(r)'
  BY <1>0, <1>4, <1>5 DEF RequestInv, Asked, Early, AsAsked, AsFollowed
<1>10. InOrder(r)'
  <2>1. Len(did[r]) \in Nat /\ Len(left[r]) \in Nat /\ Len(CallsOf(r)) \in Nat
    BY Lengths
  <2>2. Len(did[r]) < Len(CallsOf(r))
    BY <1>1, <1>8, <2>1, Counting, Zenon
  <2>3. \A i \in 1..Len(did[r]) : did[r][i].rpc = CallsOf(r)[i] /\ did[r][i].page = req[r].page
    <3>1. CASE did[r] = <<>>
      <4>1. Len(did[r]) = 0
        BY <3>1
      <4> QED
        BY <4>1
    <3>2. CASE did[r] # <<>>
      BY <1>0, <3>2 DEF RequestInv, InOrder
    <3> QED
      BY <3>1, <3>2
  <2> QED
    <3>1. did'[r] = did[r] /\ req'[r] = req[r] /\ Matches(req[r])' # {} /\ ~ req'[r].slash
      BY <1>0, <1>4, <1>6
    <3>2. /\ Len(did'[r]) <= Len(CallsOf(r)') /\ Len(did'[r]) < Len(CallsOf(r)')
      BY <1>6, <2>1, <2>2, <3>1
    <3>3. call'[r].rpc = CallsOf(r)'[Len(did'[r]) + 1] /\ call'[r].page = req'[r].page
      BY <1>5, <1>6, <1>8, <3>1
    <3> QED
      BY <1>6, <2>3, <3>1, <3>2, <3>3 DEF InOrder
<1>11. Rest(r)'
  <2>1. Returned(r)' = Returned(r)
    BY <1>0, <1>4, <1>5 DEF Returned
  <2> QED
    BY <1>0, <1>4, <1>6, <2>1 DEF RequestInv, Rest
<1>12. Owned(r)'
  BY <1>0, <1>4, <1>5 DEF RequestInv, Owned
<1>13. Told(r)'
  BY <1>4, <1>7 DEF Told, Refused, Succeeded
<1> QED
  BY <1>3, <1>4, <1>9, <1>10, <1>11, <1>12, <1>13, StepInv DEF RequestInv

LEMMA CallReturnsInv == ASSUME Inv, NEW r \in Requests, CallReturns(r) PROVE Inv'
<1>0. /\ RequestInv(r) /\ at[r] = "waiting" /\ left[r] # <<>> /\ call[r].st = "ok"
  BY DEF Inv, CallReturns, Served, RequestInv, Early
<1>1. /\ Tail(left[r]) \in Seq(Rpc) /\ Len(Tail(left[r])) = Len(left[r]) - 1
      /\ \A i \in 1..Len(Tail(left[r])) : Tail(left[r])[i] = left[r][i + 1]
  BY <1>0 DEF Inv, TypeOK
<1>2. TypeOK'
  <2>1. call[r] \in Call
    BY DEF Inv, TypeOK
  <2>3. [call[r] EXCEPT !.st = "none"] \in Call
    BY <2>1 DEF Call
  <2>2. call' \in [Requests -> Call]
    BY <2>3 DEF Inv, TypeOK, CallReturns
  <2> QED
    BY <1>1, <2>2 DEF Inv, TypeOK, CallReturns, Goes
<1>3. UNCHANGED <<keys, wish, req, user, did, seen>> /\ \A q \in Requests \ {r} : Same(q)
  BY DEF Inv, TypeOK, CallReturns, Goes, Same
<1>4. at'[r] = "handler" /\ left'[r] = Tail(left[r]) /\ call'[r].st = "none"
  BY DEF Inv, TypeOK, CallReturns, Goes, Call
<1>5. /\ Route(r)' = Route(r) /\ Matches(req[r])' = Matches(req[r]) /\ CallsOf(r)' = CallsOf(r)
  BY <1>3 DEF Route, Matches, CallsOf
<1>6. ~ Refused(r) /\ ~ Succeeded(r)
  BY <1>0 DEF RequestInv, Told
<1>7. Asked(r)' /\ Early(r)'
  BY <1>0, <1>3, <1>4 DEF RequestInv, Asked, Early, AsAsked, AsFollowed
<1>8. InOrder(r)'
  BY <1>0, <1>3, <1>4, <1>5 DEF RequestInv, InOrder
<1>9. Rest(r)'
  <2>1. /\ Len(did[r]) - 1 + Len(left[r]) = Len(CallsOf(r))
        /\ \A i \in 1..Len(left[r]) : left[r][i] = CallsOf(r)[Len(did[r]) - 1 + i]
    BY <1>0 DEF RequestInv, Rest, Returned
  <2>2. ASSUME NEW i \in 1..Len(Tail(left[r]))
        PROVE  Tail(left[r])[i] = CallsOf(r)[Len(did[r]) + i]
    <3>0. Len(did[r]) \in Nat /\ Len(left[r]) \in Nat /\ Len(CallsOf(r)) \in Nat
      BY Lengths
    <3>1. i + 1 \in 1..Len(left[r]) /\ Len(did[r]) - 1 + (i + 1) = Len(did[r]) + i
      <4>1. Len(Tail(left[r])) = Len(left[r]) - 1 /\ Len(Tail(left[r])) \in Nat
        BY <1>1
      <4>2. i \in 1..(Len(left[r]) - 1) /\ Len(left[r]) - 1 \in Nat /\ i \in Nat
        BY <4>1
      <4> QED
        BY <3>0, <4>2, Counting, Zenon
    <3> QED
      BY <1>1, <2>1, <3>1
  <2>3. Len(did[r]) + Len(Tail(left[r])) = Len(CallsOf(r))
    <3>0. Len(did[r]) \in Nat /\ Len(left[r]) \in Nat /\ Len(CallsOf(r)) \in Nat
      BY Lengths
    <3>3. (Len(did[r]) - 1) + Len(left[r]) = Len(CallsOf(r))
      BY <2>1, Zenon
    <3>1. Len(did[r]) + (Len(left[r]) - 1) = Len(CallsOf(r))
      <4> DEFINE a == Len(did[r])
                 b == Len(left[r])
                 c == Len(CallsOf(r))
      <4>1. a \in Nat /\ b \in Nat /\ c \in Nat /\ (a - 1) + b = c
        BY <3>0, <3>3, Zenon
      <4> HIDE DEF a, b, c
      <4>2. a + (b - 1) = c
        BY <4>1
      <4> QED
        BY <4>2, Zenon DEF a, b, c
    <3>2. Len(Tail(left[r])) = Len(left[r]) - 1
      BY <1>1
    <3> QED
      BY <3>1, <3>2, Zenon
  <2> QED
    BY <1>3, <1>4, <1>5, <2>2, <2>3 DEF Rest, Returned
<1>10. Owned(r)' /\ Told(r)'
  BY <1>0, <1>3, <1>4, <1>6 DEF RequestInv, Owned, Told, Refused, Succeeded
<1> QED
  BY <1>2, <1>3, <1>7, <1>8, <1>9, <1>10, StepInv DEF RequestInv

-----------------------------------------------------------------------------
(* A step of the storage service, or of Temporal.                          *)

LEMMA ActInv == ASSUME Inv, NEW r \in Requests, Act(r) PROVE Inv'
<1> DEFINE deed == [rpc |-> call[r].rpc, user |-> call[r].user, page |-> call[r].page]
<1>0. RequestInv(r) /\ call[r].st = "sent" /\ Passes(call[r]) /\ call[r] \in Call
  BY DEF Inv, TypeOK, Act
<1>1. PICK st \in {"ok", "error"} : call' = [call EXCEPT ![r].st = st]
  BY DEF Act
<1>2. did' = [did EXCEPT ![r] = Append(@, deed)]
      /\ UNCHANGED <<keys, sessions, wish, req, at, user, left, seen, counted, gone>>
  BY DEF Act
<1>3. deed \in Deed
  BY <1>0 DEF Passes, Call, Deed, Rpc
<1>4. did[r] \in Seq(Deed) /\ Append(did[r], deed) \in Seq(Deed)
  BY <1>3, LastAppended DEF Inv, TypeOK
<1>5. [call[r] EXCEPT !.st = st] \in Call
  BY <1>0, <1>1 DEF Call
<1>6. TypeOK'
  <2>1. call' \in [Requests -> Call]
    BY <1>1, <1>5 DEF Inv, TypeOK
  <2>2. did' \in [Requests -> Seq(Deed)]
    BY <1>2, <1>4 DEF Inv, TypeOK
  <2> QED
    BY <1>2, <2>1, <2>2 DEF Inv, TypeOK
<1>7. did'[r] = Append(did[r], deed) /\ call'[r].st = st /\ call'[r].st # "sent"
  BY <1>0, <1>1, <1>2 DEF Inv, TypeOK, Call
<1>8. \A q \in Requests \ {r} : Same(q)
  BY <1>1, <1>2 DEF Inv, TypeOK, Same
<1>9. /\ Route(r)' = Route(r) /\ Matches(req[r])' = Matches(req[r]) /\ CallsOf(r)' = CallsOf(r)
  BY <1>2 DEF Route, Matches, CallsOf
<1>10. /\ Len(did'[r]) = Len(did[r]) + 1 /\ did'[r] # <<>>
       /\ did'[r][Len(did[r]) + 1] = deed
       /\ \A i \in 1..Len(did[r]) : did'[r][i] = did[r][i]
       /\ \A i \in 1..Len(did'[r]) : i \in 1..Len(did[r]) \/ i = Len(did[r]) + 1
  BY <1>4, <1>7
<1>11. at[r] \notin {"idle", "arrived", "redirected", "auth", "handler"}
  BY <1>0 DEF RequestInv, Early
<1>12. Asked(r)' /\ Early(r)'
  BY <1>0, <1>2, <1>7, <1>9, <1>11 DEF RequestInv, Asked, Early, AsAsked, AsFollowed
<1>13. InOrder(r)'
  <2>1. /\ Matches(req[r]) # {} /\ ~ req[r].slash /\ Len(did[r]) < Len(CallsOf(r))
        /\ deed.rpc = CallsOf(r)[Len(did[r]) + 1] /\ deed.page = req[r].page
        /\ \A i \in 1..Len(did[r]) :
              did[r][i].rpc = CallsOf(r)[i] /\ did[r][i].page = req[r].page
    BY <1>0 DEF RequestInv, InOrder
  <2>2. Len(did[r]) \in Nat /\ Len(left[r]) \in Nat /\ Len(CallsOf(r)) \in Nat
    BY Lengths
  <2>3. Len(did'[r]) <= Len(CallsOf(r))
    BY <1>10, <2>1, <2>2, Counting
  <2>4. \A i \in 1..Len(did'[r]) :
           did'[r][i].rpc = CallsOf(r)[i] /\ did'[r][i].page = req[r].page
    BY <1>10, <2>1
  <2> QED
    BY <1>2, <1>7, <1>9, <2>1, <2>3, <2>4 DEF InOrder
<1>14. Rest(r)'
  <2>1. Returned(r) = Len(did[r])
    BY <1>0 DEF Returned
  <2>2. CASE st = "error"
    BY <1>7, <2>2 DEF Rest
  <2>3. CASE st = "ok"
    <3>0. Len(did[r]) \in Nat /\ Len(did[r]) + 1 - 1 = Len(did[r])
      BY <1>4
    <3>1. Returned(r)' = Returned(r)
      BY <1>7, <1>10, <2>1, <2>3, <3>0 DEF Returned
    <3> QED
      BY <1>0, <1>2, <1>9, <3>1 DEF RequestInv, Rest
  <2> QED
    BY <2>2, <2>3
<1>15. Owned(r)'
  <2>1. /\ user[r] = wish[r].token /\ user[r] # None /\ deed.user = user[r]
        /\ deed.rpc # "ExecuteWorkflow" => keys.storage \in {None, keys.server}
    BY <1>0 DEF RequestInv, Owned, Passes
  <2>2. \A i \in 1..Len(did'[r]) :
           /\ did'[r][i].user = wish[r].token /\ did'[r][i].user # None
           /\ did'[r][i].rpc # "ExecuteWorkflow" => keys.storage \in {None, keys.server}
    BY <1>0, <1>10, <2>1 DEF RequestInv, Owned
  <2> QED
    BY <1>2, <1>7, <2>1, <2>2 DEF Owned
<1>16. Told(r)'
  BY <1>0, <1>2 DEF RequestInv, Told, Refused, Succeeded
<1> QED
  BY <1>2, <1>6, <1>8, <1>12, <1>13, <1>14, <1>15, <1>16, StepInv DEF RequestInv

LEMMA RefuseInv == ASSUME Inv, NEW r \in Requests, Refuse(r) PROVE Inv'
<1>0. RequestInv(r) /\ call[r].st = "sent" /\ call[r] \in Call
  BY DEF Inv, TypeOK, Refuse
<1>1. [call[r] EXCEPT !.st = "error"] \in Call
  BY <1>0 DEF Call
<1>2. call' \in [Requests -> Call]
  BY <1>1 DEF Inv, TypeOK, Refuse
<1>3. UNCHANGED <<keys, sessions, wish, req, at, user, left, did, seen, counted, gone>>
  BY DEF Refuse
<1>4. TypeOK'
  BY <1>2, <1>3 DEF Inv, TypeOK
<1>5. call'[r].st = "error" /\ \A q \in Requests \ {r} : Same(q)
  BY <1>0 DEF Inv, TypeOK, Refuse, Same, Call
<1>6. /\ Route(r)' = Route(r) /\ Matches(req[r])' = Matches(req[r]) /\ CallsOf(r)' = CallsOf(r)
  BY <1>3 DEF Route, Matches, CallsOf
<1>7. Asked(r)' /\ Early(r)' /\ Rest(r)'
  BY <1>0, <1>3, <1>5, <1>6 DEF RequestInv, Asked, Early, Rest, AsAsked, AsFollowed
<1>8. InOrder(r)'
  BY <1>0, <1>3, <1>5, <1>6 DEF RequestInv, InOrder
<1>9. Owned(r)'
  BY <1>0, <1>3, <1>5 DEF RequestInv, Owned
<1>10. Told(r)'
  BY <1>0, <1>3, <1>5 DEF RequestInv, Told, Refused, Succeeded
<1> QED
  BY <1>3, <1>4, <1>5, <1>7, <1>8, <1>9, <1>10, StepInv DEF RequestInv

-----------------------------------------------------------------------------
THEOREM InductiveInv == Spec => []Inv
<1>1. ASSUME Inv, [Next]_vars PROVE Inv'
  <2>1. ASSUME NEW r \in Requests, Send(r) \/ Follow(r) \/ Leave(r) \/ Close(r) PROVE Inv'
    BY <1>1, <2>1, SendInv, FollowInv, LeaveInv, PanicInv
  <2>2. ASSUME NEW r \in Requests, ServerStep(r) PROVE Inv'
    BY <1>1, <2>2, RedirectInv, DispatchInv, AcceptInv, PanicInv, RoundTripInv, CallReturnsInv, EndsInv
       DEF ServerStep
  <2>3. ASSUME NEW r \in Requests, StorageStep(r) PROVE Inv'
    BY <1>1, <2>3, ActInv, RefuseInv DEF StorageStep
  <2>4. ASSUME NEW u \in Users, Revoke(u) PROVE Inv'
    BY <1>1, <2>4, RevokeInv
  <2>5. CASE UNCHANGED vars
    <3>1. TypeOK'
      BY <1>1, <2>5 DEF Inv, TypeOK, vars
    <3> QED
      BY <1>1, <2>5, <3>1, UntouchedInv DEF vars
  <2> QED
    BY <1>1, <2>1, <2>2, <2>3, <2>4, <2>5 DEF Next
<1> QED
  BY InitInv, <1>1, PTL DEF Spec

(* The parts of a request keep their types: no request is served by a      *)
(* route, sends a call or gets a status that is not of the table.          *)
THEOREM TypeCorrect == Spec => []TypeOK
<1>1. Inv => TypeOK
  BY DEF Inv
<1> QED
  BY InductiveInv, <1>1, PTL

(* What is done for a request is done for the owner of its token, and by   *)
(* the storage service only under the right key: for any number of         *)
(* requests that share the transport of the calls.                         *)
THEOREM ActsForItsOwner == Spec => []ActsForItsUser
<1>1. Inv => ActsForItsUser
  <2> SUFFICES ASSUME Inv, NEW r \in Requests, NEW i \in DOMAIN did[r]
               PROVE  /\ did[r][i].user = wish[r].token /\ user[r] = wish[r].token
                      /\ did[r][i].user # None
                      /\ did[r][i].rpc # "ExecuteWorkflow" => keys.storage \in {None, keys.server}
    BY DEF ActsForItsUser
  <2>1. i \in 1..Len(did[r])
    BY DEF Inv, TypeOK
  <2> QED
    BY <2>1 DEF Inv, RequestInv, Owned
<1> QED
  BY InductiveInv, <1>1, PTL

(* An answer of success that was not cut short means that the whole        *)
(* operation was done, for the page that was asked and for each file.      *)
THEOREM SuccessIsComplete == Spec => []AnsweredIsAsked
<1>1. Inv => AnsweredIsAsked
  <2> SUFFICES ASSUME Inv, NEW r \in Requests, Succeeded(r), ~ wish[r].slash
               PROVE  /\ [i \in DOMAIN did[r] |-> did[r][i].rpc] = Calls(wish[r].op, wish[r].parts)
                      /\ \A i \in DOMAIN did[r] : did[r][i].page = wish[r].page
    BY DEF AnsweredIsAsked, Succeeded
  <2>1. wish[r] \in WishType /\ did[r] \in Seq(Deed) /\ DOMAIN did[r] = 1..Len(did[r])
    BY DEF Inv, TypeOK
  <2>2. at[r] = "done" /\ Len(did[r]) = Len(CallsOf(r)) /\ req[r] = AsAsked(wish[r])
    BY DEF Inv, RequestInv, Told, Asked
  <2>3. Matches(req[r]) = {wish[r].op}
    BY <2>1, <2>2, AskedRoute DEF AsAsked
  <2>4. CallsOf(r) = Calls(wish[r].op, wish[r].parts)
    BY <2>3, RouteFound DEF CallsOf
  <2>5. \A i \in 1..Len(did[r]) :
           did[r][i].rpc = CallsOf(r)[i] /\ did[r][i].page = wish[r].page
    <3>1. CASE did[r] = <<>>
      <4>1. 1..Len(did[r]) = {}
        BY <3>1
      <4> QED
        BY <4>1
    <3>2. CASE did[r] # <<>>
      BY <2>2, <2>4, <3>2 DEF Inv, RequestInv, InOrder, AsAsked
    <3> QED
      BY <3>1, <3>2
  <2>6. CallsOf(r) \in Seq(Rpc) /\ DOMAIN CallsOf(r) = 1..Len(CallsOf(r))
    BY Lengths
  <2>7. DOMAIN CallsOf(r) = DOMAIN did[r]
    BY <2>1, <2>2, <2>4, <2>6
  <2>8. CallsOf(r) = [i \in DOMAIN CallsOf(r) |-> CallsOf(r)[i]]
    BY <2>6
  <2>9. [i \in DOMAIN did[r] |-> did[r][i].rpc] = [i \in DOMAIN did[r] |-> CallsOf(r)[i]]
    BY <2>1, <2>5
  <2> QED
    BY <2>1, <2>4, <2>5, <2>7, <2>8, <2>9
<1> QED
  BY InductiveInv, <1>1, PTL

(* A redirected write never writes.                                        *)
THEOREM LostWrites == Spec => []RedirectedWriteIsLost
<1>1. Inv => RedirectedWriteIsLost
  <2> SUFFICES ASSUME Inv, NEW r \in Requests, wish[r].slash, Method[wish[r].op] = "POST",
                      NEW i \in DOMAIN did[r]
               PROVE  did[r][i].rpc = "ListFiles"
    BY DEF RedirectedWriteIsLost
  <2>1. wish[r] \in WishType /\ i \in 1..Len(did[r]) /\ did[r] # <<>>
    BY DEF Inv, TypeOK
  <2>2. /\ Matches(req[r]) # {} /\ ~ req[r].slash /\ at[r] # "idle"
        /\ did[r][i].rpc = CallsOf(r)[i] /\ Len(did[r]) <= Len(CallsOf(r))
    BY <2>1 DEF Inv, RequestInv, InOrder, Early
  <2>3. req[r] = AsFollowed(wish[r])
    <3>1. \/ req[r] = AsAsked(wish[r])
          \/ wish[r].slash /\ req[r] = AsFollowed(wish[r])
      BY <2>2 DEF Inv, RequestInv, Asked
    <3>2. AsAsked(wish[r]).slash = wish[r].slash
      BY DEF AsAsked
    <3> QED
      BY <2>2, <3>1, <3>2
  <2>4. Matches(req[r]) \subseteq {"list"}
    BY <2>1, <2>3, FollowedRoute DEF AsFollowed
  <2>5. Route(r) = "list"
    BY <2>2, <2>4, RouteFound
  <2>6. CallsOf(r) = <<"ListFiles">>
    BY <2>5 DEF CallsOf, Calls
  <2>7. Len(CallsOf(r)) = 1 /\ CallsOf(r)[1] = "ListFiles"
    BY <2>6
  <2>8. i = 1
    BY <2>1, <2>2, <2>7, Lengths
  <2> QED
    BY <2>2, <2>7, <2>8
<1> QED
  BY InductiveInv, <1>1, PTL

(* A refused request has started no workflow, and has left nothing half    *)
(* uploaded, however many files came before the one that was refused.      *)
THEOREM RefusalLeavesWhole == Spec => []RefusedLeavesWholeFiles
<1>1. Inv => RefusedLeavesWholeFiles
  <2> SUFFICES ASSUME Inv, NEW r \in Requests, Refused(r), NEW i \in DOMAIN did[r]
               PROVE  /\ did[r][i].rpc # "ExecuteWorkflow"
                      /\ did[r][i].rpc = "GetUploadURL"
                            => i + 1 \in DOMAIN did[r] /\ did[r][i + 1].rpc = "ConfirmUpload"
    BY DEF RefusedLeavesWholeFiles, Refused
  <2>1. DOMAIN did[r] = 1..Len(did[r])
    BY DEF Inv, TypeOK
  <2> QED
    BY <2>1 DEF Inv, RequestInv, Told, WholeFiles
<1> QED
  BY InductiveInv, <1>1, PTL

-----------------------------------------------------------------------------
(* The counter beside the answers.  Both grow at their end, the counter by *)
(* the recorded form of what the browser got; they are of one length but   *)
(* for a web socket, which is counted when it closes, and for a connection *)
(* that is dropped, by a panic or in the middle of a download.             *)

Tallied(r) ==
    /\ at[r] = "idle" => counted[r] = <<>>
    /\ wish[r].op # "health" /\ r \notin gone =>
          /\ \A i \in 1..Len(counted[r]) :
                seen[r][i] # 0 /\ counted[r][i] = Recorded(seen[r][i])
          /\ at[r] \notin {"upgraded", "done"} => Len(seen[r]) = Len(counted[r])
          /\ at[r] = "upgraded" => Len(seen[r]) = Len(counted[r]) + 1 /\ Last(seen[r]) = 101
          /\ at[r] = "done" => \/ Len(seen[r]) = Len(counted[r])
                               \/ Len(seen[r]) = Len(counted[r]) + 1 /\ Last(seen[r]) = 0

(* A request that was not answered, or whose browser leaves.               *)
LEMMA TalliedKept ==
  ASSUME NEW q \in Requests, Tallied(q), wish'[q] = wish[q], seen'[q] = seen[q],
         counted'[q] = counted[q], gone \subseteq gone',
         at'[q] # at[q] => {at[q], at'[q]} \cap {"idle", "upgraded", "done"} = {}
  PROVE  Tallied(q)'
<1>1. at'[q] = at[q] \/ (at[q] \notin {"upgraded", "done"} /\ at'[q] \notin {"idle", "upgraded", "done"})
  OBVIOUS
<1> QED
  BY <1>1 DEF Tallied

(* Only what was asked for /health has its path.                           *)
LEMMA CountedPath ==
  ASSUME Inv, NEW r \in Requests, at[r] # "idle", wish[r].op # "health"
  PROVE  req[r].path # "health"
<1>1. req[r] = AsAsked(wish[r]) \/ req[r] = AsFollowed(wish[r])
  BY DEF Inv, RequestInv, Asked
<1>2. req[r].path = Path(wish[r].op)
  BY <1>1 DEF AsAsked, AsFollowed
<1> QED
  BY <1>2 DEF Path

LEMMA Appended ==
  ASSUME NEW s \in Seq(Statuses), NEW e \in Statuses
  PROVE  /\ Append(s, e) \in Seq(Statuses) /\ Len(Append(s, e)) = Len(s) + 1
         /\ Append(s, e)[Len(s) + 1] = e /\ Last(Append(s, e)) = e /\ Len(s) \in Nat
         /\ \A i \in 1..Len(s) : Append(s, e)[i] = s[i]
         /\ \A i \in 1..Len(Append(s, e)) : i \in 1..Len(s) \/ i = Len(s) + 1
  BY DEF Last

LEMMA RecordedTyped == \A e \in Statuses : Recorded(e) \in Statuses
  BY DEF Recorded, Statuses

(* An answer is told and counted at once.                                  *)
LEMMA AnswerTallied ==
  ASSUME Inv, NEW r \in Requests, Tallied(r), NEW status \in Statuses \ {0},
         NEW pc \in {"done", "redirected"}, Answer(r, status, pc),
         at[r] \notin {"idle", "upgraded", "done"}, wish'[r] = wish[r], gone' = gone
  PROVE  Tallied(r)'
<1> SUFFICES ASSUME wish[r].op # "health", r \notin gone
             PROVE  /\ \A i \in 1..Len(counted'[r]) :
                          seen'[r][i] # 0 /\ counted'[r][i] = Recorded(seen'[r][i])
                    /\ Len(seen'[r]) = Len(counted'[r])
  BY DEF Tallied, Answer, Goes, Inv, TypeOK
<1>1. /\ seen[r] \in Seq(Statuses) /\ counted[r] \in Seq(Statuses) /\ Recorded(status) \in Statuses
      /\ seen'[r] = Append(seen[r], status) /\ counted'[r] = Append(counted[r], Recorded(status))
  BY CountedPath, RecordedTyped DEF Answer, Tell, Count, Inv, TypeOK
<1>2. /\ Len(seen[r]) = Len(counted[r])
      /\ \A i \in 1..Len(counted[r]) : seen[r][i] # 0 /\ counted[r][i] = Recorded(seen[r][i])
  BY DEF Tallied
<1>3. /\ Len(seen'[r]) = Len(counted[r]) + 1 /\ Len(counted'[r]) = Len(counted[r]) + 1
      /\ seen'[r][Len(counted[r]) + 1] = status
      /\ counted'[r][Len(counted[r]) + 1] = Recorded(status)
      /\ \A i \in 1..Len(counted[r]) : seen'[r][i] = seen[r][i] /\ counted'[r][i] = counted[r][i]
      /\ \A i \in 1..Len(counted'[r]) : i \in 1..Len(counted[r]) \/ i = Len(counted[r]) + 1
  BY <1>1, <1>2, Appended
<1> QED
  BY <1>2, <1>3

LEMMA PanicTallied ==
  ASSUME Inv, NEW r \in Requests, Tallied(r), Panic(r) PROVE Tallied(r)'
<1> SUFFICES ASSUME wish[r].op # "health", r \notin gone
             PROVE  /\ \A i \in 1..Len(counted[r]) :
                          seen'[r][i] # 0 /\ counted[r][i] = Recorded(seen'[r][i])
                    /\ Len(seen'[r]) = Len(counted[r]) + 1 /\ Last(seen'[r]) = 0
  BY DEF Tallied, Panic, Served, Goes, Inv, TypeOK
<1>1. seen[r] \in Seq(Statuses) /\ 0 \in Statuses /\ seen'[r] = Append(seen[r], 0)
  BY DEF Panic, Tell, Inv, TypeOK, Statuses
<1>2. /\ Len(seen[r]) = Len(counted[r])
      /\ \A i \in 1..Len(counted[r]) : seen[r][i] # 0 /\ counted[r][i] = Recorded(seen[r][i])
  BY DEF Tallied, Panic, Served
<1> QED
  BY <1>1, <1>2, Appended

LEMMA BreakTallied ==
  ASSUME Inv, NEW r \in Requests, Tallied(r), Break(r) PROVE Tallied(r)'
<1> SUFFICES ASSUME wish[r].op # "health", r \notin gone
             PROVE  /\ \A i \in 1..Len(counted'[r]) :
                          seen'[r][i] # 0 /\ counted'[r][i] = Recorded(seen'[r][i])
                    /\ Len(seen'[r]) = Len(counted'[r]) + 1 /\ Last(seen'[r]) = 0
  BY DEF Tallied, Break, Served, Goes, Inv, TypeOK
<1>1. /\ seen[r] \in Seq(Statuses) /\ counted[r] \in Seq(Statuses) /\ Recorded(200) = 200
      /\ 200 \in Statuses
      /\ seen'[r] = seen[r] \o <<200, 0>> /\ counted'[r] = Append(counted[r], 200)
  <2>1. at[r] # "idle" /\ req[r].path # "health"
    BY CountedPath DEF Break, Served
  <2>2. Recorded(200) = 200 /\ 200 \in Statuses
    BY DEF Recorded, Statuses
  <2>3. seen' = [seen EXCEPT ![r] = @ \o <<200, 0>>]
    BY DEF Break
  <2>4. counted' = [counted EXCEPT ![r] = Append(@, Recorded(200))]
    BY <2>1 DEF Break, Count
  <2> QED
    BY <2>2, <2>3, <2>4 DEF Inv, TypeOK
<1>2. /\ Len(seen[r]) = Len(counted[r])
      /\ \A i \in 1..Len(counted[r]) : seen[r][i] # 0 /\ counted[r][i] = Recorded(seen[r][i])
  BY DEF Tallied, Break, Served
<1>3. /\ Len(seen'[r]) = Len(counted[r]) + 2 /\ Last(seen'[r]) = 0
      /\ seen'[r][Len(counted[r]) + 1] = 200
      /\ \A i \in 1..Len(counted[r]) : seen'[r][i] = seen[r][i]
  <2> DEFINE t == seen[r] \o <<200, 0>>
  <2>1. /\ Len(t) = Len(seen[r]) + 2 /\ Last(t) = 0 /\ t[Len(seen[r]) + 1] = 200
        /\ \A i \in 1..Len(seen[r]) : t[i] = seen[r][i]
    BY <1>1, CutAppended
  <2>2. seen'[r] = t
    BY <1>1
  <2> HIDE DEF t
  <2> QED
    BY <1>2, <2>1, <2>2, Zenon
<1>4. /\ Len(counted'[r]) = Len(counted[r]) + 1 /\ counted'[r][Len(counted[r]) + 1] = 200
      /\ \A i \in 1..Len(counted[r]) : counted'[r][i] = counted[r][i]
      /\ \A i \in 1..Len(counted'[r]) : i \in 1..Len(counted[r]) \/ i = Len(counted[r]) + 1
      /\ Len(counted[r]) \in Nat
  BY <1>1, Appended
<1> QED
  BY <1>1, <1>2, <1>3, <1>4

LEMMA UpgradeTallied ==
  ASSUME Inv, NEW r \in Requests, Tallied(r), Upgrade(r) PROVE Tallied(r)'
<1> SUFFICES ASSUME wish[r].op # "health", r \notin gone
             PROVE  /\ \A i \in 1..Len(counted[r]) :
                          seen'[r][i] # 0 /\ counted[r][i] = Recorded(seen'[r][i])
                    /\ Len(seen'[r]) = Len(counted[r]) + 1 /\ Last(seen'[r]) = 101
  BY DEF Tallied, Upgrade, Served, Goes, Inv, TypeOK
<1>1. seen[r] \in Seq(Statuses) /\ 101 \in Statuses /\ seen'[r] = Append(seen[r], 101)
  BY DEF Upgrade, Tell, Inv, TypeOK, Statuses
<1>2. /\ Len(seen[r]) = Len(counted[r])
      /\ \A i \in 1..Len(counted[r]) : seen[r][i] # 0 /\ counted[r][i] = Recorded(seen[r][i])
  BY DEF Tallied, Upgrade, Served
<1> QED
  BY <1>1, <1>2, Appended

LEMMA CloseTallied ==
  ASSUME Inv, NEW r \in Requests, Tallied(r), Close(r) PROVE Tallied(r)'
<1> SUFFICES ASSUME wish[r].op # "health", r \notin gone
             PROVE  /\ \A i \in 1..Len(counted'[r]) :
                          seen[r][i] # 0 /\ counted'[r][i] = Recorded(seen[r][i])
                    /\ Len(seen[r]) = Len(counted'[r])
  BY DEF Tallied, Close, Goes, Inv, TypeOK
<1>1. /\ counted[r] \in Seq(Statuses) /\ Recorded(101) \in Statuses /\ 101 \in Statuses
      /\ counted'[r] = Append(counted[r], Recorded(101))
  BY CountedPath, RecordedTyped DEF Close, Count, Inv, TypeOK, Statuses
<1>2. /\ Len(seen[r]) = Len(counted[r]) + 1 /\ seen[r][Len(counted[r]) + 1] = 101
      /\ \A i \in 1..Len(counted[r]) : seen[r][i] # 0 /\ counted[r][i] = Recorded(seen[r][i])
  BY DEF Tallied, Close, Last
<1>3. /\ Len(counted'[r]) = Len(counted[r]) + 1
      /\ counted'[r][Len(counted[r]) + 1] = Recorded(101)
      /\ \A i \in 1..Len(counted[r]) : counted'[r][i] = counted[r][i]
      /\ \A i \in 1..Len(counted'[r]) : i \in 1..Len(counted[r]) \/ i = Len(counted[r]) + 1
  BY <1>1, Appended
<1> QED
  BY <1>2, <1>3

LEMMA ServerTallied ==
  ASSUME Inv, NEW r \in Requests, Tallied(r), ServerStep(r) PROVE Tallied(r)'
<1>1. CASE Dispatch(r) \/ Accept(r) \/ RoundTrip(r) \/ CallReturns(r)
  BY <1>1, TalliedKept DEF Dispatch, Accept, RoundTrip, CallReturns, Served, Goes, Inv, TypeOK
<1>2. CASE Redirect(r)
  BY <1>2, AnswerTallied DEF Redirect, Statuses
<1>3. CASE NotAllowed(r)
  BY <1>3, AnswerTallied DEF NotAllowed, Statuses
<1>4. CASE Reject(r)
  BY <1>4, AnswerTallied DEF Reject, Served, Statuses, HTTPStatus
<1>5. CASE BadInput(r) \/ Forbid(r)
  BY <1>5, AnswerTallied DEF BadInput, Forbid, Served, Statuses, HTTPStatus
<1>6. CASE CallFails(r) \/ NoCallMade(r) \/ Cancel(r)
  BY <1>6, AnswerTallied DEF CallFails, NoCallMade, Cancel, Served, Statuses, HTTPStatus
<1>7. CASE Finish(r)
  <2>1. Success(Route(r)) \in Statuses \ {0}
    BY SuccessTyped DEF Statuses
  <2> QED
    BY <1>7, <2>1, AnswerTallied DEF Finish, Served
<1>8. CASE RefuseUpgrade(r)
  <2>1. PICK status \in {400, 401} : Answer(r, status, "done")
    BY <1>8 DEF RefuseUpgrade
  <2> QED
    BY <1>8, <2>1, AnswerTallied DEF RefuseUpgrade, Served, Statuses
<1> QED
  BY <1>1, <1>2, <1>3, <1>4, <1>5, <1>6, <1>7, <1>8, PanicTallied, BreakTallied, UpgradeTallied
     DEF ServerStep

(* The requests beside the one that takes a step.                          *)
LEMMA OthersTallied ==
  ASSUME Inv, NEW r \in Requests, NEW q \in Requests \ {r}, Tallied(q),
         Send(r) \/ Follow(r) \/ Leave(r) \/ ServerStep(r) \/ Close(r) \/ StorageStep(r)
  PROVE  Tallied(q)'
<1>1. /\ wish'[q] = wish[q] /\ at'[q] = at[q] /\ seen'[q] = seen[q] /\ counted'[q] = counted[q]
      /\ gone \subseteq gone'
  <2>1. CASE Send(r) \/ Follow(r) \/ Leave(r)
    BY <2>1 DEF Send, Follow, Leave, Inv, TypeOK
  <2>2. CASE Close(r) \/ StorageStep(r)
    BY <2>2 DEF Close, Count, Goes, StorageStep, Act, Refuse, Inv, TypeOK
  <2>3. CASE \/ Dispatch(r) \/ Accept(r) \/ RoundTrip(r) \/ CallReturns(r)
             \/ Panic(r) \/ Break(r) \/ Upgrade(r)
    BY <2>3 DEF Dispatch, Accept, RoundTrip, CallReturns, Panic, Break, Upgrade, Tell, Count, Goes,
                Inv, TypeOK
  <2>4. CASE \/ Redirect(r) \/ NotAllowed(r) \/ Reject(r) \/ BadInput(r) \/ Forbid(r)
             \/ CallFails(r) \/ NoCallMade(r) \/ Cancel(r) \/ Finish(r) \/ RefuseUpgrade(r)
    <3>1. /\ \E status, pc : Answer(r, status, pc)
          /\ wish' = wish /\ gone' = gone
      BY <2>4 DEF Redirect, NotAllowed, Reject, BadInput, Forbid, CallFails, NoCallMade, Cancel,
                  Finish, RefuseUpgrade
    <3> QED
      BY <3>1 DEF Answer, Tell, Count, Goes, Inv, TypeOK
  <2> QED
    BY <2>1, <2>2, <2>3, <2>4 DEF ServerStep
<1> QED
  BY <1>1, TalliedKept

(* The counter has what the browsers were told, for any number of requests *)
(* that are redirected, refused, served, upgraded and given up beside each *)
(* other: each answer once, but no panic, no /health and no open socket.   *)
THEOREM CountersAgree == Spec => []CountedIsSeen
<1> DEFINE AllTallied == \A r \in Requests : Tallied(r)
<1>1. Init => AllTallied
  BY DEF Init, Tallied
<1>2. Inv /\ AllTallied /\ [Next]_vars => AllTallied'
  <2> SUFFICES ASSUME Inv, AllTallied, [Next]_vars, NEW q \in Requests PROVE Tallied(q)'
    BY DEF AllTallied
  <2>0. Tallied(q)
    OBVIOUS
  <2>1. ASSUME NEW r \in Requests, Send(r) \/ Follow(r) \/ Leave(r) PROVE Tallied(q)'
    <3>1. CASE q # r
      BY <2>0, <2>1, <3>1, OthersTallied
    <3>2. CASE q = r /\ Send(r)
      <4>1. /\ seen[r] = <<>> /\ counted[r] = <<>> /\ at'[r] = "arrived"
            /\ seen'[r] = <<>> /\ counted'[r] = <<>>
        BY <2>0, <3>2 DEF Inv, RequestInv, Early, Send, TypeOK, Tallied
      <4> QED
        BY <3>2, <4>1 DEF Tallied
    <3>3. CASE q = r /\ Follow(r)
      BY <2>0, <3>3, TalliedKept DEF Follow, Inv, TypeOK
    <3>4. CASE q = r /\ Leave(r)
      BY <2>0, <3>4, TalliedKept DEF Leave
    <3> QED
      BY <2>1, <3>1, <3>2, <3>3, <3>4
  <2>2. ASSUME NEW r \in Requests, ServerStep(r) \/ Close(r) PROVE Tallied(q)'
    BY <2>0, <2>2, OthersTallied, ServerTallied, CloseTallied
  <2>3. ASSUME NEW r \in Requests, StorageStep(r) PROVE Tallied(q)'
    BY <2>0, <2>3, TalliedKept DEF StorageStep, Act, Refuse
  <2>4. ASSUME NEW u \in Users, Revoke(u) PROVE Tallied(q)'
    BY <2>0, <2>4, TalliedKept DEF Revoke
  <2>5. CASE UNCHANGED vars
    BY <2>0, <2>5, TalliedKept DEF vars
  <2> QED
    BY <2>1, <2>2, <2>3, <2>4, <2>5 DEF Next
<1>3. Inv /\ AllTallied => CountedIsSeen
  <2> SUFFICES ASSUME Inv, NEW r \in Requests, Tallied(r), at[r] \in {"done", "redirected"},
                      wish[r].op # "health", r \notin gone
               PROVE  /\ DOMAIN counted[r] = Countable(r)
                      /\ \A i \in Countable(r) :
                            counted[r][i] = IF seen[r][i] = 101 THEN 200 ELSE seen[r][i]
    BY DEF CountedIsSeen
  <2>1. /\ DOMAIN seen[r] = 1..Len(seen[r]) /\ DOMAIN counted[r] = 1..Len(counted[r])
        /\ Len(seen[r]) \in Nat /\ Len(counted[r]) \in Nat
    BY DEF Inv, TypeOK
  <2>2. /\ \A i \in 1..Len(counted[r]) : seen[r][i] # 0 /\ counted[r][i] = Recorded(seen[r][i])
        /\ \/ Len(seen[r]) = Len(counted[r])
           \/ Len(seen[r]) = Len(counted[r]) + 1 /\ seen[r][Len(counted[r]) + 1] = 0
    BY DEF Tallied, Last
  <2>3. Countable(r) = 1..Len(counted[r])
    BY <2>1, <2>2 DEF Countable
  <2> QED
    BY <2>1, <2>2, <2>3 DEF Recorded
<1> QED
  BY InductiveInv, <1>1, <1>2, <1>3, PTL DEF Spec

-----------------------------------------------------------------------------
(* The steps a request that was sent has ahead of it: the stage it is at,  *)
(* three for each call its handler has still to make, and the service of a *)
(* call that is under way, also when nobody waits for it any more.  No     *)
(* route makes more calls than an upload of the same form, two a file.     *)

StagesAhead(pc, slash, n, parts) ==
    CASE pc = "arrived" /\ slash -> 6 * parts + 6
      [] pc = "redirected" -> 6 * parts + 5
      [] pc = "arrived" /\ ~ slash -> 6 * parts + 4
      [] pc = "auth" -> 6 * parts + 3
      [] pc = "handler" -> 3 * n + 2
      [] pc = "waiting" -> 3 * n
      [] pc = "upgraded" -> 1
      [] OTHER -> 0

ServiceAhead(c) == IF c.st = "sent" THEN 1 ELSE 0

Stage(r) == StagesAhead(at[r], req[r].slash, Len(left[r]), wish[r].parts)
StepsAhead(r) == Stage(r) + ServiceAhead(call[r])
StepsAtMost(r) == 6 * wish[r].parts + 6

(* What the steps of a request change, its browser's leaving apart.        *)
Course(r) == <<wish[r], req[r], at[r], user[r], left[r], call[r], did[r], seen[r], counted[r]>>

Sent(r) == at[r] # "idle"
Bounded(r) == Sent(r) => StepsAhead(r) \in 0..StepsAtMost(r)
GoesForward(r) ==
    Sent(r) /\ Course(r)' # Course(r)
        => Sent(r)' /\ wish'[r] = wish[r] /\ StepsAhead(r)' < StepsAhead(r)

LEMMA AheadTyped ==
  ASSUME Inv, NEW r \in Requests
  PROVE  Stage(r) \in Nat /\ ServiceAhead(call[r]) \in 0..1 /\ StepsAhead(r) \in Nat
<1>1. Len(left[r]) \in Nat /\ wish[r].parts \in Nat
  BY Lengths
<1>2. Stage(r) \in Nat
  <2> DEFINE n == Len(left[r])
             k == wish[r].parts
  <2>1. \A pc, slash : StagesAhead(pc, slash, n, k) \in Nat
    <3>1. n \in Nat /\ k \in Nat
      BY <1>1
    <3> HIDE DEF n, k
    <3> QED
      BY <3>1 DEF StagesAhead
  <2> QED
    BY <2>1 DEF Stage
<1>3. ServiceAhead(call[r]) \in 0..1
  BY DEF ServiceAhead
<1> QED
  BY <1>2, <1>3 DEF StepsAhead

(* A stage that leaves less, and a call as it was.                         *)
LEMMA StageLessens ==
  ASSUME Inv, NEW r \in Requests, NEW m \in Nat, NEW n \in Nat, n < m, call' = call,
         Stage(r) = m, Stage(r)' = n
  PROVE  StepsAhead(r)' < StepsAhead(r)
<1>1. /\ StepsAhead(r) = m + ServiceAhead(call[r])
      /\ StepsAhead(r)' = n + ServiceAhead(call[r])
  BY DEF StepsAhead
<1>2. ServiceAhead(call[r]) \in {0, 1}
  BY DEF ServiceAhead
<1> QED
  BY <1>1, <1>2

(* An answer that ends a request.                                          *)
LEMMA DoneLessens ==
  ASSUME Inv, NEW r \in Requests, at[r] \notin {"idle", "done"}, at'[r] = "done",
         UNCHANGED <<req, left, call, wish>>, at[r] = "waiting" => left[r] # <<>>
  PROVE  StepsAhead(r)' < StepsAhead(r)
<1>1. /\ Len(left[r]) \in Nat /\ (left[r] = <<>> <=> Len(left[r]) = 0)
      /\ wish[r].parts \in Nat
  BY Lengths
<1>2. at[r] \in {"arrived", "redirected", "auth", "handler", "waiting", "upgraded"}
  BY DEF Inv, TypeOK
<1>3. Stage(r) > 0
  <2> DEFINE n == Len(left[r])
             k == wish[r].parts
  <2>1. n \in Nat /\ k \in Nat /\ (at[r] = "waiting" => n > 0)
    BY <1>1
  <2> HIDE DEF n, k
  <2>2. StagesAhead(at[r], req[r].slash, n, k) > 0
    BY <1>2, <2>1 DEF StagesAhead
  <2> QED
    BY <2>2 DEF Stage, n, k
<1>4. Stage(r)' = 0 /\ ServiceAhead(call'[r]) = ServiceAhead(call[r])
  BY DEF Stage, StagesAhead
<1>5. Stage(r) \in Nat
  BY AheadTyped
<1> QED
  BY <1>3, <1>4, <1>5, StageLessens

(* The stages on the way down, for k files and n calls.                    *)
LEMMA Stages ==
  ASSUME NEW k \in Nat \ {0}, NEW n \in 0..2 * k
  PROVE  /\ StagesAhead("arrived", TRUE, n, k) = 6 * k + 6
         /\ StagesAhead("redirected", TRUE, n, k) = 6 * k + 5
         /\ StagesAhead("arrived", FALSE, n, k) = 6 * k + 4
         /\ \A slash : StagesAhead("auth", slash, n, k) = 6 * k + 3
         /\ \A slash : StagesAhead("handler", slash, n, k) \in 0..6 * k + 2
         /\ \A x \in 1..6 : 6 * k + x \in Nat
  BY DEF StagesAhead

LEMMA ServerLessens ==
  ASSUME Inv, NEW r \in Requests, ServerStep(r) PROVE StepsAhead(r)' < StepsAhead(r)
<1> DEFINE k == wish[r].parts
           n == Len(left[r])
           m == Len(left'[r])
<1>0. /\ RequestInv(r) /\ k \in Nat \ {0} /\ n \in Nat
      /\ Stage(r) = StagesAhead(at[r], req[r].slash, n, k)
      /\ req[r].slash \in BOOLEAN
  BY Lengths DEF Inv, Stage, TypeOK, Request
<1>p. wish'[r] = wish[r] => Stage(r)' = StagesAhead(at'[r], req'[r].slash, m, k)
  BY DEF Stage
<1> HIDE DEF k, n, m
<1>1. CASE \/ NotAllowed(r) \/ Reject(r) \/ BadInput(r) \/ Forbid(r) \/ Panic(r) \/ CallFails(r)
           \/ NoCallMade(r) \/ Cancel(r) \/ Finish(r) \/ Break(r) \/ RefuseUpgrade(r)
  <2>1. at[r] \notin {"idle", "done"} /\ UNCHANGED <<req, left, call, wish>>
    BY <1>1 DEF NotAllowed, Reject, BadInput, Forbid, Panic, CallFails, NoCallMade, Cancel, Finish,
                Break, RefuseUpgrade, Served
  <2>2. at'[r] = "done"
    BY <1>1 DEF NotAllowed, Reject, BadInput, Forbid, Panic, CallFails, NoCallMade, Cancel, Finish,
                Break, RefuseUpgrade, Answer, Goes, Inv, TypeOK
  <2> QED
    BY <1>0, <2>1, <2>2, DoneLessens DEF RequestInv, Early
<1>2. CASE Redirect(r)
  <2>1. /\ at[r] = "arrived" /\ req[r].slash = TRUE /\ at'[r] = "redirected"
        /\ UNCHANGED <<req, left, call, wish>>
    BY <1>0, <1>2 DEF Redirect, Answer, Goes, Inv, TypeOK
  <2>2. Stage(r) = 6 * k + 6 /\ Stage(r)' = 6 * k + 5
    BY <1>0, <1>p, <2>1 DEF StagesAhead
  <2>3. 6 * k + 6 \in Nat /\ 6 * k + 5 \in Nat /\ 6 * k + 5 < 6 * k + 6 /\ call' = call
    BY <1>0, <2>1
  <2> QED
    BY <2>2, <2>3, StageLessens, Zenon
<1>3. CASE Dispatch(r)
  <2>1. /\ at[r] = "arrived" /\ req[r].slash = FALSE /\ at'[r] \in {"handler", "auth"}
        /\ left'[r] = CallsOf(r) /\ UNCHANGED <<req, call, wish>>
    BY <1>0, <1>3 DEF Dispatch, Served, Goes, Inv, TypeOK
  <2>2. m \in 0..2 * k
    BY <2>1, Lengths DEF k, m
  <2>3. Stage(r) = 6 * k + 4
    BY <1>0, <2>1 DEF StagesAhead
  <2>4. Stage(r)' \in 0..6 * k + 3
    <3>1. CASE at'[r] = "handler"
      <4>1. Stage(r)' = StagesAhead("handler", req'[r].slash, m, k)
        BY <1>p, <2>1, <3>1
      <4>2. Stage(r)' \in 0..6 * k + 2
        BY <1>0, <2>2, <4>1, Stages, Zenon
      <4> QED
        BY <1>0, <4>2
    <3>2. CASE at'[r] = "auth"
      <4>1. Stage(r)' = StagesAhead("auth", req'[r].slash, m, k)
        BY <1>p, <2>1, <3>2
      <4>2. Stage(r)' = 6 * k + 3
        BY <1>0, <2>2, <4>1, Stages, Zenon
      <4> QED
        BY <1>0, <4>2
    <3> QED
      BY <2>1, <3>1, <3>2
  <2>5. 6 * k + 4 \in Nat /\ Stage(r)' \in Nat /\ Stage(r)' < 6 * k + 4 /\ call' = call
    BY <1>0, <2>1, <2>4
  <2> QED
    BY <2>3, <2>5, StageLessens, Zenon
<1>4. CASE Accept(r)
  <2>1. /\ at[r] = "auth" /\ at'[r] = "handler" /\ left[r] = CallsOf(r)
        /\ UNCHANGED <<req, left, call, wish>>
    BY <1>0, <1>4 DEF Accept, Served, Goes, Inv, TypeOK, RequestInv, Early
  <2>2. m \in 0..2 * k
    BY <2>1, Lengths DEF k, m
  <2>3. Stage(r) = 6 * k + 3
    BY <1>0, <2>1 DEF StagesAhead
  <2>4. Stage(r)' \in 0..6 * k + 2
    BY <1>0, <1>p, <2>1, <2>2, Stages
  <2>5. 6 * k + 3 \in Nat /\ Stage(r)' \in Nat /\ Stage(r)' < 6 * k + 3 /\ call' = call
    BY <1>0, <2>1, <2>4
  <2> QED
    BY <2>3, <2>5, StageLessens, Zenon
<1>5. CASE RoundTrip(r)
  <2>1. /\ at[r] = "handler" /\ at'[r] = "waiting" /\ UNCHANGED <<req, left, wish>>
        /\ call[r].st = "none" /\ call'[r].st = "sent"
    BY <1>0, <1>5 DEF RoundTrip, Served, Goes, Inv, TypeOK, RequestInv, Early
  <2>2. ServiceAhead(call[r]) = 0 /\ ServiceAhead(call'[r]) = 1
    BY <2>1 DEF ServiceAhead
  <2>3. Stage(r) = 3 * n + 2 /\ Stage(r)' = 3 * n
    <3>1. m = n
      BY <2>1 DEF m, n
    <3> QED
      BY <1>0, <1>p, <2>1, <3>1 DEF StagesAhead
  <2> QED
    BY <1>0, <2>2, <2>3 DEF StepsAhead
<1>6. CASE CallReturns(r)
  <2>1. /\ at[r] = "waiting" /\ at'[r] = "handler" /\ left'[r] = Tail(left[r])
        /\ UNCHANGED <<req, wish>>
        /\ call[r].st = "ok" /\ call'[r].st = "none" /\ left[r] # <<>>
    BY <1>0, <1>6 DEF CallReturns, Served, Goes, Inv, TypeOK, RequestInv, Early, Call
  <2>2. ServiceAhead(call[r]) = 0 /\ ServiceAhead(call'[r]) = 0
    BY <2>1 DEF ServiceAhead
  <2>3. m = n - 1
    BY <2>1, Lengths DEF m, n
  <2>4. Stage(r) = 3 * n /\ Stage(r)' = 3 * (n - 1) + 2
    BY <1>0, <1>p, <2>1, <2>3 DEF StagesAhead
  <2> QED
    BY <1>0, <2>2, <2>4 DEF StepsAhead
<1>7. CASE Upgrade(r)
  <2>1. at[r] = "handler" /\ at'[r] = "upgraded" /\ UNCHANGED <<req, left, call, wish>>
    BY <1>7 DEF Upgrade, Served, Goes, Inv, TypeOK
  <2>2. Stage(r) = 3 * n + 2 /\ Stage(r)' = 1
    BY <1>0, <1>p, <2>1 DEF StagesAhead
  <2>3. 3 * n + 2 \in Nat /\ 1 \in Nat /\ 1 < 3 * n + 2 /\ call' = call
    BY <1>0, <2>1
  <2> QED
    BY <2>2, <2>3, StageLessens, Zenon
<1> QED
  BY <1>1, <1>2, <1>3, <1>4, <1>5, <1>6, <1>7 DEF ServerStep

LEMMA OutsideLessens ==
  ASSUME Inv, NEW r \in Requests, Follow(r) \/ Close(r) \/ StorageStep(r)
  PROVE  StepsAhead(r)' < StepsAhead(r)
<1>1. CASE Follow(r)
  <2> DEFINE k == wish[r].parts
             n == Len(left[r])
  <2>1. /\ at[r] = "redirected" /\ at'[r] = "arrived" /\ req'[r].slash = FALSE
        /\ UNCHANGED <<left, call, wish>>
    BY <1>1 DEF Follow, Inv, TypeOK
  <2>2. /\ Stage(r) = StagesAhead("redirected", req[r].slash, n, k)
        /\ Stage(r)' = StagesAhead("arrived", FALSE, n, k) /\ k \in Nat
    BY <2>1, Lengths DEF Stage
  <2> HIDE DEF k, n
  <2>3. Stage(r) = 6 * k + 5 /\ Stage(r)' = 6 * k + 4
    BY <2>2 DEF StagesAhead
  <2>4. 6 * k + 5 \in Nat /\ 6 * k + 4 \in Nat /\ 6 * k + 4 < 6 * k + 5 /\ call' = call
    BY <2>1, <2>2
  <2> QED
    BY <2>3, <2>4, StageLessens, Zenon
<1>2. CASE Close(r)
  <2>1. at[r] = "upgraded" /\ at'[r] = "done" /\ UNCHANGED <<req, left, call, wish>>
    BY <1>2 DEF Close, Goes, Inv, TypeOK
  <2> QED
    BY <2>1, DoneLessens
<1>3. CASE StorageStep(r)
  <2>1. call[r].st = "sent" /\ call'[r].st # "sent" /\ UNCHANGED <<req, left, at, wish>>
    BY <1>3 DEF StorageStep, Act, Refuse, Inv, TypeOK, Call
  <2>2. ServiceAhead(call[r]) = 1 /\ ServiceAhead(call'[r]) = 0 /\ Stage(r)' = Stage(r)
    BY <2>1 DEF ServiceAhead, Stage
  <2> QED
    BY <2>2, AheadTyped DEF StepsAhead
<1> QED
  BY <1>1, <1>2, <1>3

(* A step of one request is none of another, nor is a logout.              *)
LEMMA CourseKept ==
  ASSUME Inv, NEW r \in Requests, NEW q \in Requests \ {r},
         Send(r) \/ Follow(r) \/ ServerStep(r) \/ Close(r) \/ StorageStep(r)
  PROVE  Course(q)' = Course(q)
<1>1. CASE Send(r) \/ Follow(r)
  BY <1>1 DEF Send, Follow, Course, Inv, TypeOK
<1>2. CASE Close(r) \/ StorageStep(r)
  BY <1>2 DEF Close, Count, Goes, StorageStep, Act, Refuse, Course, Inv, TypeOK
<1>3. CASE \/ Dispatch(r) \/ Accept(r) \/ RoundTrip(r) \/ CallReturns(r)
           \/ Panic(r) \/ Break(r) \/ Upgrade(r)
  BY <1>3 DEF Dispatch, Accept, RoundTrip, CallReturns, Panic, Break, Upgrade, Tell, Count, Goes,
              WithUserID, Course, Inv, TypeOK
<1>4. CASE \/ Redirect(r) \/ NotAllowed(r) \/ Reject(r) \/ BadInput(r) \/ Forbid(r)
           \/ CallFails(r) \/ NoCallMade(r) \/ Cancel(r) \/ Finish(r) \/ RefuseUpgrade(r)
  <2>1. /\ \E status, pc : Answer(r, status, pc)
        /\ UNCHANGED <<wish, req, user, left, call, did>>
    BY <1>4 DEF Redirect, NotAllowed, Reject, BadInput, Forbid, CallFails, NoCallMade, Cancel,
                Finish, RefuseUpgrade
  <2> QED
    BY <2>1 DEF Answer, Tell, Count, Goes, Course, Inv, TypeOK
<1> QED
  BY <1>1, <1>2, <1>3, <1>4 DEF ServerStep

(* Once a request was sent it is sent, and asks what it has asked.         *)
LEMMA StaysSent ==
  ASSUME Inv, NEW r \in Requests, Sent(r),
         Follow(r) \/ ServerStep(r) \/ Close(r) \/ StorageStep(r)
  PROVE  Sent(r)' /\ wish'[r] = wish[r]
<1>1. CASE Follow(r)
  BY <1>1 DEF Follow, Sent, Inv, TypeOK
<1>2. CASE Close(r) \/ StorageStep(r)
  BY <1>2 DEF Close, Goes, StorageStep, Act, Refuse, Sent, Inv, TypeOK
<1>3. CASE \/ Dispatch(r) \/ Accept(r) \/ RoundTrip(r) \/ CallReturns(r)
           \/ Panic(r) \/ Break(r) \/ Upgrade(r)
  BY <1>3 DEF Dispatch, Accept, RoundTrip, CallReturns, Panic, Break, Upgrade, Goes, Sent, Inv, TypeOK
<1>4. CASE \/ Redirect(r) \/ NotAllowed(r) \/ Reject(r) \/ BadInput(r) \/ Forbid(r)
           \/ CallFails(r) \/ NoCallMade(r) \/ Cancel(r) \/ Finish(r) \/ RefuseUpgrade(r)
  <2>1. /\ \E status, pc : Answer(r, status, pc) /\ pc \in {"done", "redirected"}
        /\ wish' = wish
    BY <1>4 DEF Redirect, NotAllowed, Reject, BadInput, Forbid, CallFails, NoCallMade, Cancel,
                Finish, RefuseUpgrade
  <2> QED
    BY <2>1 DEF Answer, Goes, Sent, Inv, TypeOK
<1> QED
  BY <1>1, <1>2, <1>3, <1>4 DEF ServerStep

LEMMA CourseLessens ==
  ASSUME Inv, [Next]_vars, NEW q \in Requests PROVE GoesForward(q)
<1> SUFFICES ASSUME Sent(q), Course(q)' # Course(q)
             PROVE  Sent(q)' /\ wish'[q] = wish[q] /\ StepsAhead(q)' < StepsAhead(q)
  BY DEF GoesForward
<1>1. ASSUME NEW r \in Requests, Leave(r) PROVE FALSE
  BY <1>1 DEF Leave, Course
<1>2. ASSUME NEW u \in Users, Revoke(u) PROVE FALSE
  BY <1>2 DEF Revoke, Course
<1>3. CASE UNCHANGED vars
  BY <1>3 DEF vars, Course
<1>4. ASSUME NEW r \in Requests,
             Send(r) \/ Follow(r) \/ ServerStep(r) \/ Close(r) \/ StorageStep(r)
      PROVE  Sent(q)' /\ wish'[q] = wish[q] /\ StepsAhead(q)' < StepsAhead(q)
  <2>1. q = r
    BY <1>4, CourseKept
  <2>2. ~ Send(r)
    BY <2>1 DEF Send, Sent
  <2> QED
    BY <1>4, <2>1, <2>2, ServerLessens, OutsideLessens, StaysSent
<1> QED
  BY <1>1, <1>2, <1>3, <1>4 DEF Next

AllTyped == \A r \in Requests : StepsAhead(r) \in Nat

LEMMA AheadTypedNext ==
  Inv' => \A r \in Requests : StepsAhead(r)' \in Nat
<1>1. Inv => AllTyped
  BY AheadTyped DEF AllTyped
<1>2. Inv' => AllTyped'
  BY <1>1, PTL
<1> QED
  BY <1>2 DEF AllTyped

(* The beginning: a request is sent, by its browser alone.                 *)
LEMMA OnlySent ==
  ASSUME Inv, [Next]_vars, NEW r \in Requests, ~ Sent(r), Sent(r)' PROVE Send(r)
<1>0. RequestInv(r) /\ at[r] = "idle" /\ at'[r] # "idle"
  BY DEF Inv, Sent
<1>1. ~ (Follow(r) \/ ServerStep(r) \/ Close(r) \/ StorageStep(r))
  <2>1. call[r].st = "none"
    BY <1>0 DEF RequestInv, Early
  <2> QED
    BY <1>0, <2>1 DEF Follow, ServerStep, Redirect, NotAllowed, Dispatch, Accept, Reject, BadInput,
      Forbid, Panic, RoundTrip, CallReturns, CallFails, NoCallMade, Cancel, Finish, Break, Upgrade,
      RefuseUpgrade, Served, Close, StorageStep, Act, Refuse
<1>2. ASSUME NEW q \in Requests, q # r,
             Send(q) \/ Follow(q) \/ ServerStep(q) \/ Close(q) \/ StorageStep(q)
      PROVE  FALSE
  <2>1. Course(r)' = Course(r)
    BY <1>2, CourseKept
  <2> QED
    BY <1>0, <2>1 DEF Course
<1>3. ASSUME NEW q \in Requests, Leave(q) PROVE FALSE
  BY <1>0, <1>3 DEF Leave
<1>4. ASSUME NEW u \in Users, Revoke(u) PROVE FALSE
  BY <1>0, <1>4 DEF Revoke
<1>5. CASE UNCHANGED vars
  BY <1>0, <1>5 DEF vars
<1> QED
  BY <1>1, <1>2, <1>3, <1>4, <1>5 DEF Next

LEMMA SendBounded ==
  ASSUME Inv, Inv', NEW r \in Requests, Send(r) PROVE StepsAhead(r)' \in 0..StepsAtMost(r)'
<1> DEFINE k == wish'[r].parts
           m == Len(left'[r])
<1>1. at'[r] = "arrived" /\ call'[r].st = "none" /\ k \in Nat
  BY DEF Send, Inv, TypeOK, WishType, RequestInv, Early
<1>2. /\ Stage(r)' = StagesAhead("arrived", req'[r].slash, m, k) /\ StepsAtMost(r)' = 6 * k + 6
      /\ StepsAhead(r)' = Stage(r)' + ServiceAhead(call'[r])
  BY <1>1 DEF Stage, StepsAtMost, StepsAhead
<1>3. ServiceAhead(call'[r]) = 0
  BY <1>1 DEF ServiceAhead
<1> HIDE DEF k, m
<1>4. Stage(r)' \in {6 * k + 4, 6 * k + 6}
  BY <1>2 DEF StagesAhead
<1> QED
  BY <1>1, <1>2, <1>3, <1>4

(* A request that was sent comes to an end, by its browser's leaving or    *)
(* not: none of its steps, among them the service of a call that nobody    *)
(* waits for, can be taken again, it is redirected at most once, and it    *)
(* has 12 in all for a form of one file, and 6 for each further one.       *)
THEOREM RequestIsBounded ==
  Spec => /\ [](\A r \in Requests : Sent(r) => StepsAhead(r) \in 0..StepsAtMost(r))
          /\ [][\A r \in Requests : GoesForward(r)]_vars
<1> DEFINE AllBounded == \A r \in Requests : Bounded(r)
<1>1. Init => AllBounded
  BY DEF Init, Bounded, Sent
<1>2. AllBounded /\ Inv /\ Inv' /\ [Next]_vars => AllBounded'
  <2> SUFFICES ASSUME AllBounded, Inv, Inv', [Next]_vars, NEW r \in Requests, Sent(r)'
               PROVE  StepsAhead(r)' \in 0..StepsAtMost(r)'
    BY DEF Bounded
  <2>0. StepsAhead(r)' \in Nat
    BY AheadTypedNext
  <2>1. CASE Sent(r) /\ Course(r)' # Course(r)
    <3>1. StepsAhead(r)' < StepsAhead(r) /\ wish'[r] = wish[r]
      BY <2>1, CourseLessens DEF GoesForward
    <3>2. StepsAtMost(r)' = StepsAtMost(r)
      BY <3>1 DEF StepsAtMost
    <3>3. StepsAhead(r) \in 0..StepsAtMost(r)
      BY <2>1 DEF Bounded
    <3>4. StepsAtMost(r) \in Nat
      BY Lengths DEF StepsAtMost
    <3> QED
      BY <2>0, <3>1, <3>2, <3>3, <3>4
  <2>2. CASE Sent(r) /\ Course(r)' = Course(r)
    <3>1. StepsAhead(r)' = StepsAhead(r) /\ StepsAtMost(r)' = StepsAtMost(r)
      BY <2>2 DEF Course, StepsAhead, Stage, StepsAtMost
    <3> QED
      BY <2>2, <3>1 DEF Bounded
  <2>3. CASE ~ Sent(r)
    <3>1. Send(r)
      BY <2>3, OnlySent
    <3> QED
      BY <3>1, SendBounded
  <2> QED
    BY <2>1, <2>2, <2>3
<1>3. Inv /\ [Next]_vars => [\A r \in Requests : GoesForward(r)]_vars
  BY CourseLessens
<1>4. AllBounded => \A r \in Requests : Sent(r) => StepsAhead(r) \in 0..StepsAtMost(r)
  BY DEF Bounded
<1> HIDE DEF AllBounded
<1> QED
  BY InductiveInv, <1>1, <1>2, <1>3, <1>4, PTL DEF Spec

=============================================================================
