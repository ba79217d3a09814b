------------------------ MODULE FileTransferProofs ------------------------
(***************************************************************************)
(* The safety of file transfer for any number of users, requests, files    *)
(* and contents.                                                           *)
(*                                                                         *)
(* The inductive invariant says which identifiers a request holds: the id  *)
(* of its last RPC and the id of its last PUT.  No two requests ever hold  *)
(* the same one, so a late RPC or PUT can only touch the request's own     *)
(* file; and a confirmation is sent only for the PUT that was answered.    *)
(***************************************************************************)
EXTENDS FileTransfer, FiniteSetTheorems, TLAPS

(* The handler, its RPC and its PUT agree on where the request is.         *)
Progress(r) ==
    /\ up[r].pc = "idle" => up[r].done = <<>>
    /\ Len(up[r].done) <= Len(up[r].parts)
    /\ up[r].pc \in {"reserving", "putting", "confirming"}
          => Len(up[r].done) < Len(up[r].parts)
    /\ up[r].pc = "reserving" => rpc[r].op = "reserve"
    /\ up[r].pc = "putting" =>
          /\ puts[r].state # "none"
          /\ puts[r].id = up[r].id /\ puts[r].content = Part(r)
    /\ up[r].pc = "confirming" => rpc[r].op = "confirm"

(* What an RPC carries by the stage its handler is at.                     *)
RpcArguments(r) ==
    /\ rpc[r].op = "none" => rpc[r].stage = "error"
    /\ rpc[r].op = "reserve" =>
          /\ rpc[r].user \in Users
          /\ rpc[r].stage \in {"insert", "presign", "ok", "error"}
          /\ rpc[r].stage \in {"presign", "ok"} => rpc[r].id \in Ids
    /\ rpc[r].op = "confirm" =>
          /\ rpc[r].stage \in {"update", "select", "ok", "error"}
          /\ rpc[r].id \in Ids /\ rpc[r].content \in Content
          /\ rpc[r].stage = "ok" => rpc[r].reply \in FileRow

PutArguments(r) ==
    puts[r].state # "none" => puts[r].id \in Ids /\ puts[r].content \in Content

UserKnown(r) == up[r].pc # "idle" => up[r].user \in Users

UploadInv(r) == UserKnown(r) /\ Progress(r) /\ RpcArguments(r) /\ PutArguments(r)

(* A download holds what its next step uses.                               *)
DownloadInv(d) ==
    /\ dl[d].pc # "idle" => dl[d].id \in Ids
    /\ dl[d].pc \in {"fetch", "stream"} => dl[d].row \in FileRow
    /\ dl[d].pc = "stream" => dl[d].body \in Content

(* TypeOK made inductive.                                                  *)
TypeInv ==
    /\ TypeOK
    /\ \A r \in Uploads : UploadInv(r)
    /\ \A d \in Downloads : DownloadInv(d)

-----------------------------------------------------------------------------

(* A part being worked on is a content.                                    *)
LEMMA PartIsContent ==
  ASSUME TypeInv, NEW r \in Uploads, Len(up[r].done) < Len(up[r].parts)
  PROVE  Part(r) \in Content
  BY DEF TypeInv, TypeOK, Upload, Part

LEMMA AppendedResult ==
  ASSUME TypeInv, NEW r \in Uploads, NEW i \in Ids, NEW f \in FileRow
  PROVE  Append(up[r].done, [id |-> i, file |-> f]) \in Seq([id : Ids, file : FileRow])
<1> DEFINE Result == [id : Ids, file : FileRow]
           result == [id |-> i, file |-> f]
<1>1. up[r].done \in Seq(Result)
  BY DEF TypeInv, TypeOK, Upload
<1>2. result \in Result
  OBVIOUS
<1>3. Append(up[r].done, result) \in Seq(Result)
  <2> HIDE DEF Result, result
  <2> QED
    BY <1>1, <1>2
<1> QED
  BY <1>3

(* A step of one upload leaves what the invariant says of the others.      *)
LEMMA UploadStepTyped ==
  ASSUME TypeInv, NEW r \in Uploads, TypeOK', UploadInv(r)', dl' = dl,
         \A s \in Uploads \ {r} : up'[s] = up[s] /\ rpc'[s] = rpc[s] /\ puts'[s] = puts[s]
  PROVE  TypeInv'
<1>1. ASSUME NEW s \in Uploads \ {r} PROVE UploadInv(s)'
  <2>1. UploadInv(s) /\ up'[s] = up[s] /\ rpc'[s] = rpc[s] /\ puts'[s] = puts[s]
    BY DEF TypeInv
  <2>2. UserKnown(s)' /\ Progress(s)'
    BY <2>1 DEF UploadInv, UserKnown, Progress, Part
  <2>3. RpcArguments(s)' /\ PutArguments(s)'
    BY <2>1 DEF UploadInv, RpcArguments, PutArguments
  <2> QED
    BY <2>2, <2>3 DEF UploadInv
<1>2. \A d \in Downloads : DownloadInv(d)'
  BY DEF TypeInv, DownloadInv
<1> QED
  BY <1>1, <1>2 DEF TypeInv

(* A step of one download leaves the uploads and the other downloads.      *)
LEMMA DownloadStepTyped ==
  ASSUME TypeInv, NEW d \in Downloads, dl' \in [Downloads -> Download], DownloadInv(d)',
         UNCHANGED <<files, objects, minted, rpc, up, puts>>,
         \A e \in Downloads \ {d} : dl'[e] = dl[e]
  PROVE  TypeInv'
<1>1. TypeOK'
  BY DEF TypeInv, TypeOK, StorageTypeOK
<1>2. \A r \in Uploads : UploadInv(r)'
  BY DEF TypeInv, UploadInv, UserKnown, Progress, RpcArguments, PutArguments, Part
<1>3. \A e \in Downloads : DownloadInv(e)'
  BY DEF TypeInv, DownloadInv
<1> QED
  BY <1>1, <1>2, <1>3 DEF TypeInv

LEMMA InitTypeInv == Init => TypeInv
  BY StorageAssumption DEF Init, StorageInit, NoRpc, TypeInv, TypeOK, StorageTypeOK, UploadInv,
     Rpc, Upload, Put, Download, UserKnown, Progress, RpcArguments, PutArguments, DownloadInv

LEMMA NextTypeInv == TypeInv /\ [Next]_vars => TypeInv'
<1> SUFFICES ASSUME TypeInv, [Next]_vars PROVE TypeInv'
  OBVIOUS
<1>1. ASSUME NEW r \in Uploads, UpStart(r) PROVE TypeInv'
  <2>1. PICK u \in Users, b \in Batches :
          up' = [up EXCEPT ![r].pc = "part", ![r].user = u, ![r].parts = b]
    BY <1>1 DEF UpStart
  <2>2. b \in Seq(Content)
    BY TransferAssumption
  <2> DEFINE h == [up[r] EXCEPT !.pc = "part", !.user = u, !.parts = b]
  <2>3. h \in Upload
    BY <2>2 DEF TypeInv, TypeOK, Upload
  <2>4. up' = [up EXCEPT ![r] = h]
    BY <2>1
  <2>5. TypeOK'
    BY <1>1, <2>3, <2>4 DEF UpStart, TypeInv, TypeOK, StorageTypeOK
  <2>6. up[r].pc = "idle" /\ up'[r].pc = "part" /\ up'[r].user = u /\ up'[r].parts = b
          /\ up'[r].done = up[r].done
    BY <1>1, <2>1 DEF UpStart, TypeInv, TypeOK, StorageTypeOK, Upload
  <2>7. UploadInv(r)'
    BY <1>1, <2>2, <2>6 DEF UpStart, TypeInv, TypeOK, StorageTypeOK, UploadInv, UserKnown,
         Progress, RpcArguments, PutArguments, Upload, Rpc, Put, Part
  <2> QED
    BY <1>1, <2>1, <2>5, <2>7, UploadStepTyped DEF UpStart, TypeInv, TypeOK, StorageTypeOK
<1>2. ASSUME NEW r \in Uploads, UpReject(r) PROVE TypeInv'
  <2>1. TypeOK'
    BY <1>2 DEF UpReject, TypeInv, TypeOK, StorageTypeOK, Upload
  <2>2. UploadInv(r)'
    BY <1>2 DEF UpReject, TypeInv, TypeOK, StorageTypeOK, UploadInv, UserKnown, Progress,
         RpcArguments, PutArguments, Upload, Rpc, Put, Part
  <2> QED
    BY <1>2, <2>1, <2>2, UploadStepTyped DEF UpReject, UpReject
<1>3. ASSUME NEW r \in Uploads, UpReserve(r) PROVE TypeInv'
  <2>1. up' \in [Uploads -> Upload]
    BY <1>3 DEF UpReserve, TypeInv, TypeOK, Upload
  <2>2. up[r].user \in Users
    BY <1>3 DEF UpReserve, TypeInv, UploadInv, UserKnown
  <2>3. rpc' \in [Uploads -> Rpc]
    BY <1>3, <2>2 DEF UpReserve, CallGetUploadURL, TypeInv, TypeOK, StorageTypeOK, Rpc
  <2>4. TypeOK'
    BY <1>3, <2>1, <2>3 DEF UpReserve, TypeInv, TypeOK, StorageTypeOK
  <2>5. UploadInv(r)'
    BY <1>3 DEF UpReserve, CallGetUploadURL, TypeInv, TypeOK, StorageTypeOK, UploadInv,
         UserKnown, Progress, RpcArguments, PutArguments, Upload, Rpc, Put, Part
  <2> QED
    BY <1>3, <2>1, <2>2, <2>3, <2>4, <2>5, UploadStepTyped DEF UpReserve, UpReserve,
         CallGetUploadURL, TypeInv, TypeOK, StorageTypeOK
<1>4. ASSUME NEW r \in Uploads, UpPut(r) PROVE TypeInv'
  <2>1. rpc[r].op = "reserve" /\ rpc[r].id \in Ids
    BY <1>4 DEF UpPut, TypeInv, UploadInv, Progress, RpcArguments
  <2>2. Part(r) \in Content
    BY <1>4, PartIsContent DEF UpPut, TypeInv, UploadInv, Progress
  <2>3. up' \in [Uploads -> Upload]
    BY <1>4, <2>1 DEF UpPut, TypeInv, TypeOK, Upload
  <2>4. puts' \in [Uploads -> Put]
    BY <1>4, <2>1, <2>2 DEF UpPut, TypeInv, TypeOK, Put
  <2>5. TypeOK'
    BY <1>4, <2>3, <2>4 DEF UpPut, TypeInv, TypeOK, StorageTypeOK
  <2>6. UploadInv(r)'
    BY <1>4, <2>1, <2>2 DEF UpPut, TypeInv, TypeOK, StorageTypeOK, UploadInv, UserKnown,
         Progress, RpcArguments, PutArguments, Upload, Rpc, Put, Part
  <2> QED
    BY <1>4, <2>1, <2>2, <2>3, <2>4, <2>5, <2>6, UploadStepTyped DEF UpPut, TypeInv, TypeOK,
         StorageTypeOK
<1>5. ASSUME NEW r \in Uploads, UpConfirm(r) PROVE TypeInv'
  <2>1. up[r].id \in Ids /\ Part(r) \in Content
    BY <1>5 DEF UpConfirm, TypeInv, UploadInv, Progress, PutArguments
  <2>2. TypeOK'
    BY <1>5, <2>1 DEF UpConfirm, CallConfirmUpload, TypeInv, TypeOK, StorageTypeOK, Upload,
         Rpc, UploadInv, UserKnown
  <2>3. UploadInv(r)'
    BY <1>5, <2>1 DEF UpConfirm, CallConfirmUpload, TypeInv, TypeOK, StorageTypeOK,
         UploadInv, UserKnown, Progress, RpcArguments, PutArguments, Upload, Rpc, Put, Part
  <2> QED
    BY <1>5, <2>1, <2>2, <2>3, UploadStepTyped DEF UpConfirm, UpConfirm, CallConfirmUpload,
         TypeInv, TypeOK, StorageTypeOK
<1>6. ASSUME NEW r \in Uploads, UpConfirmed(r) PROVE TypeInv'
  <2>1. rpc[r].id \in Ids /\ rpc[r].reply \in FileRow
    BY <1>6 DEF UpConfirmed, TypeInv, UploadInv, Progress, RpcArguments
  <2>2. Append(up[r].done, [id |-> rpc[r].id, file |-> rpc[r].reply]) \in Seq([id : Ids,
       file : FileRow])
    BY <1>6, <2>1, AppendedResult
  <2>3. up' \in [Uploads -> Upload]
    BY <1>6, <2>2 DEF UpConfirmed, TypeInv, TypeOK, Upload
  <2>4. TypeOK'
    BY <1>6, <2>3 DEF UpConfirmed, TypeInv, TypeOK, StorageTypeOK
  <2>5. Len(up'[r].done) = Len(up[r].done) + 1 /\ up'[r].pc = "part" /\ up'[r].parts =
       up[r].parts /\ up'[r].user = up[r].user
    BY <1>6 DEF UpConfirmed, TypeInv, TypeOK, Upload
  <2>6. UploadInv(r)'
    BY <1>6, <2>5 DEF UpConfirmed, TypeInv, TypeOK, StorageTypeOK, UploadInv, UserKnown,
         Progress, RpcArguments, PutArguments, Upload, Rpc, Put, Part
  <2> QED
    BY <1>6, <2>1, <2>2, <2>3, <2>4, <2>5, <2>6, UploadStepTyped DEF UpConfirmed, TypeInv,
         TypeOK, StorageTypeOK
<1>7. ASSUME NEW r \in Uploads, UpCreated(r) PROVE TypeInv'
  <2>1. TypeOK'
    BY <1>7 DEF UpCreated, TypeInv, TypeOK, StorageTypeOK, Upload
  <2>2. UploadInv(r)'
    BY <1>7 DEF UpCreated, TypeInv, TypeOK, StorageTypeOK, UploadInv, UserKnown, Progress,
         RpcArguments, PutArguments, Upload, Rpc, Put, Part
  <2> QED
    BY <1>7, <2>1, <2>2, UploadStepTyped DEF UpCreated, UpCreated
<1>8. ASSUME NEW r \in Uploads, UpRpcError(r) PROVE TypeInv'
  <2>1. TypeOK'
    BY <1>8 DEF UpRpcError, TypeInv, TypeOK, StorageTypeOK, Upload
  <2>2. UploadInv(r)'
    BY <1>8 DEF UpRpcError, TypeInv, TypeOK, StorageTypeOK, UploadInv, UserKnown, Progress,
         RpcArguments, PutArguments, Upload, Rpc, Put, Part
  <2> QED
    BY <1>8, <2>1, <2>2, UploadStepTyped DEF UpRpcError, UpRpcError
<1>9. ASSUME NEW r \in Uploads, UpPutError(r) PROVE TypeInv'
  <2>1. TypeOK'
    BY <1>9 DEF UpPutError, TypeInv, TypeOK, StorageTypeOK, Upload
  <2>2. UploadInv(r)'
    BY <1>9 DEF UpPutError, TypeInv, TypeOK, StorageTypeOK, UploadInv, UserKnown, Progress,
         RpcArguments, PutArguments, Upload, Rpc, Put, Part
  <2> QED
    BY <1>9, <2>1, <2>2, UploadStepTyped DEF UpPutError, UpPutError
<1>10. ASSUME NEW r \in Uploads, UpGiveUp(r) PROVE TypeInv'
  <2>1. TypeOK'
    BY <1>10 DEF UpGiveUp, TypeInv, TypeOK, StorageTypeOK, Upload
  <2>2. UploadInv(r)'
    BY <1>10 DEF UpGiveUp, TypeInv, TypeOK, StorageTypeOK, UploadInv, UserKnown, Progress,
         RpcArguments, PutArguments, Upload, Rpc, Put, Part
  <2> QED
    BY <1>10, <2>1, <2>2, UploadStepTyped DEF UpGiveUp, UpGiveUp
<1>11. ASSUME NEW r \in Uploads, StorePut(r) PROVE TypeInv'
  <2>1. TypeOK'
    BY <1>11 DEF StorePut, PutObject, TypeInv, TypeOK, StorageTypeOK, Put, UploadInv,
         PutArguments
  <2>2. UploadInv(r)'
    BY <1>11 DEF StorePut, PutObject, TypeInv, TypeOK, StorageTypeOK, UploadInv, UserKnown,
         Progress, RpcArguments, PutArguments, Upload, Rpc, Put, Part
  <2> QED
    BY <1>11, <2>1, <2>2, UploadStepTyped DEF StorePut, StorePut, PutObject, TypeInv,
         TypeOK, StorageTypeOK
<1>12. ASSUME NEW r \in Uploads, ReserveCreate(r), UNCHANGED <<up, puts, dl>> PROVE TypeInv'
  <2>1. PICK i \in Ids \ minted :
          /\ minted' = minted \cup {i}
          /\ files' = [files EXCEPT ![i] = ReservedRow(rpc[r].user)]
          /\ rpc' = [rpc EXCEPT ![r].stage = "presign", ![r].id = i]
    BY <1>12 DEF ReserveCreate
  <2>2. ReservedRow(rpc[r].user) \in FileRow
    BY <1>12 DEF ReserveCreate, ReservedRow, FileRow, TypeInv, UploadInv, RpcArguments
  <2> DEFINE h == [rpc[r] EXCEPT !.stage = "presign", !.id = i]
  <2>3. h \in Rpc
    BY DEF TypeInv, TypeOK, StorageTypeOK, Rpc
  <2>4. rpc' = [rpc EXCEPT ![r] = h]
    BY <2>1
  <2>5. TypeOK'
    <3>1. rpc' \in [Uploads -> Rpc]
      BY <2>3, <2>4 DEF TypeInv, TypeOK, StorageTypeOK
    <3>2. files' \in [Ids -> FileRow \cup {None}]
      BY <2>1, <2>2 DEF TypeInv, TypeOK, StorageTypeOK
    <3> QED
      BY <1>12, <2>1, <3>1, <3>2 DEF ReserveCreate, TypeInv, TypeOK, StorageTypeOK
  <2>6. UploadInv(r)'
    BY <1>12, <2>1 DEF ReserveCreate, TypeInv, TypeOK, StorageTypeOK, UploadInv, UserKnown,
         Progress, RpcArguments, PutArguments, Upload, Rpc, Put, Part
  <2> QED
    BY <1>12, <2>1, <2>5, <2>6, UploadStepTyped DEF TypeInv, TypeOK, StorageTypeOK
<1>13. ASSUME NEW r \in Uploads, ReservePresign(r), UNCHANGED <<up, puts, dl>> PROVE TypeInv'
  <2>1. TypeOK'
    BY <1>13 DEF ReservePresign, TypeInv, TypeOK, StorageTypeOK, Rpc
  <2>2. UploadInv(r)'
    BY <1>13 DEF ReservePresign, TypeInv, TypeOK, StorageTypeOK, UploadInv, UserKnown,
         Progress, RpcArguments, PutArguments, Upload, Rpc, Put, Part
  <2> QED
    BY <1>13, <2>1, <2>2, UploadStepTyped DEF ReservePresign, ReservePresign
<1>14. ASSUME NEW r \in Uploads, ConfirmUpdate(r), UNCHANGED <<up, puts, dl>> PROVE TypeInv'
  <2>1. rpc[r].id \in Ids /\ rpc[r].content \in Content
    BY <1>14 DEF ConfirmUpdate, TypeInv, UploadInv, RpcArguments
  <2>2. files' \in [Ids -> FileRow \cup {None}]
    BY <1>14, <2>1, StorageAssumption DEF ConfirmUpdate, TypeInv, TypeOK, StorageTypeOK, FileRow
  <2>3. rpc' \in [Uploads -> Rpc]
    BY <1>14 DEF ConfirmUpdate, TypeInv, TypeOK, StorageTypeOK, Rpc
  <2>4. TypeOK'
    BY <1>14, <2>2, <2>3 DEF ConfirmUpdate, TypeInv, TypeOK, StorageTypeOK
  <2>5. UploadInv(r)'
    BY <1>14 DEF ConfirmUpdate, TypeInv, TypeOK, StorageTypeOK, UploadInv, UserKnown,
         Progress, RpcArguments, PutArguments, Upload, Rpc, Put, Part
  <2> QED
    BY <1>14, <2>1, <2>2, <2>3, <2>4, <2>5, UploadStepTyped DEF ConfirmUpdate, TypeInv,
         TypeOK, StorageTypeOK
<1>15. ASSUME NEW r \in Uploads, ConfirmSelect(r), UNCHANGED <<up, puts, dl>> PROVE TypeInv'
  <2>1. files[rpc[r].id] \in FileRow
    BY <1>15 DEF ConfirmSelect, TypeInv, TypeOK, StorageTypeOK, UploadInv, RpcArguments
  <2>2. [rpc[r] EXCEPT !.stage = "ok", !.reply = files[rpc[r].id]] \in Rpc
    BY <1>15, <2>1 DEF TypeInv, TypeOK, StorageTypeOK, Rpc
  <2>3. rpc' = [rpc EXCEPT ![r] = [rpc[r] EXCEPT !.stage = "ok", !.reply = files[rpc[r].id]]]
    BY <1>15 DEF ConfirmSelect
  <2>4. TypeOK'
    BY <1>15, <2>2, <2>3 DEF ConfirmSelect, TypeInv, TypeOK, StorageTypeOK
  <2>5. UploadInv(r)'
    BY <1>15, <2>1 DEF ConfirmSelect, TypeInv, TypeOK, StorageTypeOK, UploadInv, UserKnown,
         Progress, RpcArguments, PutArguments, Upload, Rpc, Put, Part
  <2> QED
    BY <1>15, <2>1, <2>2, <2>3, <2>4, <2>5, UploadStepTyped DEF ConfirmSelect, TypeInv,
         TypeOK, StorageTypeOK
<1>16. ASSUME NEW r \in Uploads, RpcFail(r), UNCHANGED <<up, puts, dl>> PROVE TypeInv'
  <2>1. TypeOK'
    BY <1>16 DEF RpcFail, TypeInv, TypeOK, StorageTypeOK, Rpc
  <2>2. UploadInv(r)'
    BY <1>16 DEF RpcFail, TypeInv, TypeOK, StorageTypeOK, UploadInv, UserKnown, Progress,
         RpcArguments, PutArguments, Upload, Rpc, Put, Part
  <2> QED
    BY <1>16, <2>1, <2>2, UploadStepTyped DEF RpcFail, RpcFail
<1>17. ASSUME NEW d \in Downloads, DlStart(d) PROVE TypeInv'
  <2>1. PICK u \in Users, i \in Ids :
          dl' = [dl EXCEPT ![d].pc = "lookup", ![d].user = u, ![d].id = i,
                           ![d].seen = IF IsConfirmed(i) /\ files[i].owner = u
                                       THEN files[i].checksum ELSE None]
    BY <1>17 DEF DlStart
  <2>2. (IF IsConfirmed(i) /\ files[i].owner = u THEN files[i].checksum ELSE None)
          \in Content \cup {None}
    BY DEF IsConfirmed, FileRow, TypeInv, TypeOK, StorageTypeOK
  <2> DEFINE h == [dl[d] EXCEPT !.pc = "lookup", !.user = u, !.id = i,
                       !.seen = IF IsConfirmed(i) /\ files[i].owner = u
                                THEN files[i].checksum ELSE None]
  <2>3. h \in Download
    BY <2>2 DEF TypeInv, TypeOK, Download
  <2>4. dl' = [dl EXCEPT ![d] = h]
    BY <2>1
  <2>5. dl' \in [Downloads -> Download]
    BY <2>3, <2>4 DEF TypeInv, TypeOK
  <2>6. DownloadInv(d)'
    BY <1>17, <2>1 DEF TypeInv, TypeOK, Download, DownloadInv
  <2> QED
    BY <1>17, <2>1, <2>5, <2>6, DownloadStepTyped DEF DlStart, TypeInv, TypeOK
<1>18. ASSUME NEW d \in Downloads, DlLookup(d) PROVE TypeInv'
  <2>1. dl' \in [Downloads -> Download]
    BY <1>18 DEF DlLookup, TypeInv, TypeOK, StorageTypeOK, Download, DownloadInv
  <2>2. DownloadInv(d)'
    BY <1>18 DEF DlLookup, TypeInv, TypeOK, StorageTypeOK, Download, DownloadInv
  <2> QED
    BY <1>18, <2>1, <2>2, DownloadStepTyped DEF DlLookup, TypeInv, TypeOK
<1>19. ASSUME NEW d \in Downloads, DlFetch(d) PROVE TypeInv'
  <2>1. dl' \in [Downloads -> Download]
    BY <1>19 DEF DlFetch, TypeInv, TypeOK, StorageTypeOK, Download, DownloadInv
  <2>2. DownloadInv(d)'
    BY <1>19 DEF DlFetch, TypeInv, TypeOK, StorageTypeOK, Download, DownloadInv
  <2> QED
    BY <1>19, <2>1, <2>2, DownloadStepTyped DEF DlFetch, TypeInv, TypeOK
<1>20. ASSUME NEW d \in Downloads, DlDeliver(d) PROVE TypeInv'
  <2>1. dl' \in [Downloads -> Download]
    BY <1>20, StorageAssumption DEF DlDeliver, TypeInv, TypeOK, StorageTypeOK, Download,
         DownloadInv
  <2>2. DownloadInv(d)'
    BY <1>20 DEF DlDeliver, TypeInv, TypeOK, StorageTypeOK, Download, DownloadInv
  <2> QED
    BY <1>20, <2>1, <2>2, DownloadStepTyped DEF DlDeliver, TypeInv, TypeOK
<1>21. ASSUME NEW d \in Downloads, DlFail(d) PROVE TypeInv'
  <2>1. dl' \in [Downloads -> Download]
    BY <1>21 DEF DlFail, TypeInv, TypeOK, StorageTypeOK, Download, DownloadInv
  <2>2. DownloadInv(d)'
    BY <1>21 DEF DlFail, TypeInv, TypeOK, StorageTypeOK, Download, DownloadInv
  <2> QED
    BY <1>21, <2>1, <2>2, DownloadStepTyped DEF DlFail, TypeInv, TypeOK
<1>22. CASE UNCHANGED vars
  BY <1>22 DEF vars, TypeInv, TypeOK, StorageTypeOK, UploadInv, UserKnown, Progress,
       RpcArguments, PutArguments, Upload, Rpc, Put, Part, DownloadInv
<1> QED
  BY <1>1, <1>2, <1>3, <1>4, <1>5, <1>6, <1>7, <1>8, <1>9, <1>10, <1>11, <1>12, <1>13,
       <1>14, <1>15, <1>16, <1>17, <1>18, <1>19, <1>20, <1>21, <1>22 DEF Next, UpStep,
       StorageStep, RpcStep, DlStep

(* Every variable keeps its type: every handler, RPC and PUT, however late *)
(* it runs, finds the arguments its next step uses.                        *)
THEOREM TypeCorrect == Spec => []TypeOK
<1>1. TypeInv => TypeOK
  BY DEF TypeInv
<1> QED
  BY <1>1, InitTypeInv, NextTypeInv, PTL DEF Spec

-----------------------------------------------------------------------------
(* Which identifiers a request still acts on, and why no other does.       *)

Held(r) == {rpc[r].id, puts[r].id} \ {None}

(* Rows and objects exist only under minted ids, and every minted id has   *)
(* its row.                                                                *)
RowsAreMinted ==
    \A i \in Ids : /\ files[i] # None <=> i \in minted
                   /\ objects[i] # None => i \in minted

HeldAreMinted == \A r \in Uploads : Held(r) \subseteq minted

HeldAreDisjoint == \A r, s \in Uploads : r # s => Held(r) \cap Held(s) = {}

(* Until the PUT has arrived the row stays reserved.                       *)
UnsentAreReserved ==
    \A r \in Uploads :
        /\ puts[r].state = "sent" => files[puts[r].id].checksum = None
        /\ up[r].pc = "reserving" /\ rpc[r].id # None => files[rpc[r].id].checksum = None

StoredAreThere ==
    \A r \in Uploads : puts[r].state = "stored" => objects[puts[r].id] = puts[r].content

(* A confirmation is about the PUT that was answered.                      *)
ConfirmsStored ==
    \A r \in Uploads : rpc[r].op = "confirm" =>
        /\ puts[r].state = "stored"
        /\ puts[r].id = rpc[r].id /\ puts[r].content = rpc[r].content

StoreInv ==
    /\ RowsAreMinted /\ HeldAreMinted /\ HeldAreDisjoint
    /\ UnsentAreReserved /\ StoredAreThere /\ ConfirmsStored
    /\ ConfirmedIsStored

LEMMA InitStoreInv == Init => StoreInv
  BY StorageAssumption DEF Init, StorageInit, NoRpc, StoreInv, RowsAreMinted, HeldAreMinted, Held,
     HeldAreDisjoint, UnsentAreReserved, StoredAreThere, ConfirmsStored, ConfirmedIsStored, IsConfirmed

(* The invariant reads of an RPC only what it is for and its arguments, so *)
(* most steps leave everything it speaks of as it was.                     *)
LEMMA StoreFrame ==
  ASSUME StoreInv, UNCHANGED <<files, objects, minted, puts>>,
         \A r \in Uploads :
            /\ rpc'[r].op = rpc[r].op /\ rpc'[r].id = rpc[r].id
            /\ rpc'[r].content = rpc[r].content
            /\ up'[r].pc = "reserving" => up[r].pc = "reserving"
  PROVE  StoreInv'
<1>1. RowsAreMinted' /\ ConfirmedIsStored' /\ StoredAreThere'
  BY DEF StoreInv, RowsAreMinted, ConfirmedIsStored, IsConfirmed, StoredAreThere
<1>2. \A r \in Uploads : Held(r)' = Held(r)
  BY DEF Held
<1>3. HeldAreMinted' /\ HeldAreDisjoint'
  BY <1>2 DEF StoreInv, HeldAreMinted, HeldAreDisjoint
<1>4. UnsentAreReserved' /\ ConfirmsStored'
  BY DEF StoreInv, UnsentAreReserved, ConfirmsStored
<1> QED
  BY <1>1, <1>3, <1>4 DEF StoreInv

(* Only a request acts on an identifier it holds.                          *)
LEMMA HeldByOne ==
  ASSUME StoreInv, NEW r \in Uploads, NEW s \in Uploads, r # s, NEW i \in Held(r)
  PROVE  i # rpc[s].id /\ i # puts[s].id /\ i # None /\ i \in minted
  BY DEF StoreInv, HeldAreDisjoint, HeldAreMinted, Held

LEMMA NextStoreInv == TypeInv /\ TypeInv' /\ StoreInv /\ [Next]_vars => StoreInv'
<1> SUFFICES ASSUME TypeInv, TypeInv', StoreInv, [Next]_vars PROVE StoreInv'
  OBVIOUS
<1> USE StorageAssumption
<1>1. ASSUME NEW r \in Uploads,
             UpStart(r) \/ UpReject(r) \/ UpConfirmed(r) \/ UpCreated(r)
               \/ UpRpcError(r) \/ UpPutError(r) \/ UpGiveUp(r)
      PROVE  StoreInv'
  <2>1. UNCHANGED <<files, objects, minted, puts, rpc>>
    BY <1>1 DEF UpStart, UpReject, UpConfirmed, UpCreated, UpRpcError, UpPutError, UpGiveUp
  <2>2. \A s \in Uploads \ {r} : up'[s] = up[s]
    BY <1>1 DEF UpStart, UpReject, UpConfirmed, UpCreated, UpRpcError, UpPutError, UpGiveUp,
       TypeInv, TypeOK
  <2>3. up'[r].pc # "reserving"
    <3>1. CASE UpStart(r)
      BY <3>1 DEF UpStart, TypeInv, TypeOK, Upload
    <3>2. CASE UpReject(r) \/ UpConfirmed(r) \/ UpCreated(r)
                 \/ UpRpcError(r) \/ UpPutError(r) \/ UpGiveUp(r)
      BY <3>2 DEF UpReject, UpConfirmed, UpCreated, UpRpcError, UpPutError, UpGiveUp,
         TypeInv, TypeOK, Upload
    <3> QED
      BY <1>1, <3>1, <3>2
  <2> QED
    BY <2>1, <2>2, <2>3, StoreFrame
<1>2. ASSUME NEW r \in Uploads, UNCHANGED <<up, puts, dl>>,
             ReservePresign(r) \/ ConfirmSelect(r) \/ RpcFail(r)
      PROVE  StoreInv'
  <2>1. UNCHANGED <<files, objects, minted, puts, up>>
    BY <1>2 DEF ReservePresign, ConfirmSelect, RpcFail
  <2>2. \A s \in Uploads : /\ rpc'[s].op = rpc[s].op /\ rpc'[s].id = rpc[s].id
                           /\ rpc'[s].content = rpc[s].content
    BY <1>2 DEF ReservePresign, ConfirmSelect, RpcFail, TypeInv, TypeOK, StorageTypeOK, Rpc
  <2> QED
    BY <2>1, <2>2, StoreFrame
<1>3. ASSUME NEW d \in Downloads, DlStart(d) \/ DlStep(d) \/ DlFail(d) PROVE StoreInv'
  <2>1. UNCHANGED <<files, objects, minted, puts, up, rpc>>
    BY <1>3 DEF DlStart, DlStep, DlLookup, DlFetch, DlDeliver, DlFail
  <2> QED
    BY <2>1, StoreFrame
<1>4. CASE UNCHANGED vars
  BY <1>4, StoreFrame DEF vars
<1>5. ASSUME NEW r \in Uploads, UpReserve(r) PROVE StoreInv'
  <2>1. /\ UNCHANGED <<files, objects, minted, puts>>
        /\ rpc'[r].id = None /\ rpc'[r].op = "reserve"
        /\ \A s \in Uploads \ {r} : rpc'[s] = rpc[s] /\ up'[s] = up[s]
    BY <1>5 DEF UpReserve, CallGetUploadURL, TypeInv, TypeOK, StorageTypeOK
  <2>2. RowsAreMinted' /\ ConfirmedIsStored' /\ StoredAreThere'
    BY <2>1 DEF StoreInv, RowsAreMinted, ConfirmedIsStored, IsConfirmed, StoredAreThere
  <2>3. \A s \in Uploads : Held(s)' \subseteq Held(s)
    BY <2>1 DEF Held
  <2>4. HeldAreMinted' /\ HeldAreDisjoint'
    BY <2>1, <2>3 DEF StoreInv, HeldAreMinted, HeldAreDisjoint
  <2>5. UnsentAreReserved' /\ ConfirmsStored'
    BY <2>1 DEF StoreInv, UnsentAreReserved, ConfirmsStored
  <2> QED
    BY <2>2, <2>4, <2>5 DEF StoreInv
<1>6. ASSUME NEW r \in Uploads, UpPut(r) PROVE StoreInv'
  <2>1. /\ UNCHANGED <<files, objects, minted, rpc>>
        /\ puts'[r].id = rpc[r].id /\ puts'[r].state = "sent"
        /\ up'[r].pc = "putting" /\ up[r].pc = "reserving" /\ rpc[r].stage = "ok"
        /\ \A s \in Uploads \ {r} : puts'[s] = puts[s] /\ up'[s] = up[s]
    BY <1>6 DEF UpPut, TypeInv, TypeOK, Upload
  <2>2. rpc[r].op = "reserve" /\ rpc[r].id \in Ids
    BY <2>1 DEF TypeInv, UploadInv, Progress, RpcArguments
  <2>3. RowsAreMinted' /\ ConfirmedIsStored' /\ StoredAreThere'
    BY <2>1 DEF StoreInv, RowsAreMinted, ConfirmedIsStored, IsConfirmed, StoredAreThere
  <2>4. \A s \in Uploads : Held(s)' \subseteq Held(s)
    BY <2>1 DEF Held
  <2>5. HeldAreMinted' /\ HeldAreDisjoint'
    BY <2>1, <2>4 DEF StoreInv, HeldAreMinted, HeldAreDisjoint
  <2>6. UnsentAreReserved' /\ ConfirmsStored'
    BY <2>1, <2>2 DEF StoreInv, UnsentAreReserved, ConfirmsStored
  <2> QED
    BY <2>3, <2>5, <2>6 DEF StoreInv
<1>7. ASSUME NEW r \in Uploads, UpConfirm(r) PROVE StoreInv'
  <2>1. /\ UNCHANGED <<files, objects, minted, puts>>
        /\ rpc'[r].id = up[r].id /\ rpc'[r].content = Part(r)
        /\ up'[r].pc = "confirming" /\ up[r].pc = "putting" /\ puts[r].state = "stored"
        /\ \A s \in Uploads \ {r} : rpc'[s] = rpc[s] /\ up'[s] = up[s]
    BY <1>7 DEF UpConfirm, CallConfirmUpload, TypeInv, TypeOK, StorageTypeOK, Upload
  <2>2. puts[r].id = up[r].id /\ puts[r].content = Part(r)
    BY <2>1 DEF TypeInv, UploadInv, Progress
  <2>3. RowsAreMinted' /\ ConfirmedIsStored' /\ StoredAreThere'
    BY <2>1 DEF StoreInv, RowsAreMinted, ConfirmedIsStored, IsConfirmed, StoredAreThere
  <2>4. \A s \in Uploads : Held(s)' \subseteq Held(s)
    BY <2>1, <2>2 DEF Held
  <2>5. HeldAreMinted' /\ HeldAreDisjoint'
    BY <2>1, <2>4 DEF StoreInv, HeldAreMinted, HeldAreDisjoint
  <2>6. UnsentAreReserved' /\ ConfirmsStored'
    BY <2>1, <2>2 DEF StoreInv, UnsentAreReserved, ConfirmsStored
  <2> QED
    BY <2>3, <2>5, <2>6 DEF StoreInv
<1>8. ASSUME NEW r \in Uploads, StorePut(r) PROVE StoreInv'
  <2> DEFINE i == puts[r].id
  <2>1. /\ UNCHANGED <<files, minted, rpc, up>>
        /\ puts[r].state = "sent" /\ objects' = [objects EXCEPT ![i] = puts[r].content]
        /\ puts'[r].state = "stored" /\ puts'[r].id = i /\ puts'[r].content = puts[r].content
        /\ \A s \in Uploads \ {r} : puts'[s] = puts[s]
    BY <1>8 DEF StorePut, PutObject, TypeInv, TypeOK, Put
  <2>2. i \in Ids /\ i \in Held(r) /\ i \in minted
    BY <2>1 DEF TypeInv, UploadInv, PutArguments, Held, StoreInv, HeldAreMinted
  <2>3. ~ IsConfirmed(i)
    BY <2>1 DEF StoreInv, UnsentAreReserved, IsConfirmed
  <2>4. RowsAreMinted' /\ ConfirmedIsStored'
    BY <2>1, <2>2, <2>3 DEF StoreInv, RowsAreMinted, ConfirmedIsStored, IsConfirmed, TypeInv,
       TypeOK, StorageTypeOK
  <2>5. StoredAreThere'
    BY <2>1, <2>2, HeldByOne DEF StoreInv, StoredAreThere, TypeInv, TypeOK, StorageTypeOK
  <2>6. \A s \in Uploads : Held(s)' = Held(s)
    BY <2>1 DEF Held
  <2>7. HeldAreMinted' /\ HeldAreDisjoint'
    BY <2>1, <2>6 DEF StoreInv, HeldAreMinted, HeldAreDisjoint
  <2>8. UnsentAreReserved' /\ ConfirmsStored'
    BY <2>1 DEF StoreInv, UnsentAreReserved, ConfirmsStored
  <2> QED
    BY <2>4, <2>5, <2>7, <2>8 DEF StoreInv
<1>9. ASSUME NEW r \in Uploads, ReserveCreate(r), UNCHANGED <<up, puts, dl>> PROVE StoreInv'
  <2>1. PICK i \in Ids \ minted :
          /\ minted' = minted \cup {i}
          /\ files' = [files EXCEPT ![i] = ReservedRow(rpc[r].user)]
          /\ rpc' = [rpc EXCEPT ![r].stage = "presign", ![r].id = i]
    BY <1>9 DEF ReserveCreate
  <2>2. /\ UNCHANGED <<objects, puts, up>>
        /\ rpc[r].op = "reserve" /\ rpc'[r].op = "reserve" /\ rpc'[r].id = i
        /\ \A s \in Uploads \ {r} : rpc'[s] = rpc[s]
    BY <1>9, <2>1 DEF ReserveCreate, TypeInv, TypeOK, StorageTypeOK, Rpc
  <2>3. /\ files'[i].checksum = None /\ files'[i] # None
        /\ \A j \in Ids \ {i} : files'[j] = files[j]
    <3>1. files'[i] = ReservedRow(rpc[r].user) /\ \A j \in Ids \ {i} : files'[j] = files[j]
      BY <2>1 DEF TypeInv, TypeOK, StorageTypeOK
    <3>2. ReservedRow(rpc[r].user) \in FileRow
      BY <2>2, <1>9 DEF TypeInv, UploadInv, RpcArguments, ReservedRow, FileRow
    <3> QED
      BY <3>1, <3>2 DEF ReservedRow
  <2>4. RowsAreMinted'
    BY <2>1, <2>2, <2>3 DEF StoreInv, RowsAreMinted
  <2>5. ConfirmedIsStored'
    BY <2>2, <2>3 DEF StoreInv, ConfirmedIsStored, IsConfirmed
  <2>6. \A s \in Uploads : Held(s) \subseteq minted
    BY DEF StoreInv, HeldAreMinted
  <2>7. Held(r)' \subseteq Held(r) \cup {i} /\ \A s \in Uploads \ {r} : Held(s)' = Held(s)
    BY <2>2 DEF Held
  <2>8. HeldAreMinted' /\ HeldAreDisjoint'
    BY <2>1, <2>6, <2>7 DEF StoreInv, HeldAreMinted, HeldAreDisjoint
  <2>9. ASSUME NEW s \in Uploads, puts[s].state # "none"
        PROVE  puts[s].id \in Ids \ {i}
    BY <2>1, <2>6, <2>9 DEF Held, TypeInv, UploadInv, PutArguments
  <2>10. ASSUME NEW s \in Uploads \ {r}, rpc[s].id # None
         PROVE  rpc[s].id \in Ids \ {i}
    BY <2>1, <2>6, <2>10 DEF Held, TypeInv, TypeOK, StorageTypeOK, Rpc
  <2>11. UnsentAreReserved' /\ StoredAreThere' /\ ConfirmsStored'
    BY <2>2, <2>3, <2>9, <2>10 DEF StoreInv, UnsentAreReserved, StoredAreThere, ConfirmsStored
  <2> QED
    BY <2>4, <2>5, <2>8, <2>11 DEF StoreInv
<1>10. ASSUME NEW r \in Uploads, ConfirmUpdate(r), UNCHANGED <<up, puts, dl>> PROVE StoreInv'
  <2> DEFINE i == rpc[r].id
             c == rpc[r].content
  <2>1. /\ UNCHANGED <<objects, minted, up, puts>>
        /\ rpc[r].op = "confirm" /\ i \in Ids /\ c \in Content /\ files[i] # None
        /\ rpc'[r].op = rpc[r].op /\ rpc'[r].id = i /\ rpc'[r].content = c
        /\ \A s \in Uploads \ {r} : rpc'[s] = rpc[s]
    BY <1>10 DEF ConfirmUpdate, TypeInv, TypeOK, StorageTypeOK, Rpc, UploadInv, RpcArguments
  <2>2. /\ files'[i].checksum = c /\ files'[i].size = SizeOf[c] /\ files'[i] # None
        /\ \A j \in Ids \ {i} : files'[j] = files[j]
    <3>1. files[i] \in FileRow
      BY <2>1 DEF TypeInv, TypeOK, StorageTypeOK
    <3>2. [files[i] EXCEPT !.size = SizeOf[c], !.checksum = c] \in FileRow
      BY <2>1, <3>1 DEF FileRow
    <3>3. files' = [files EXCEPT ![i] = [files[i] EXCEPT !.size = SizeOf[c], !.checksum = c]]
      BY <1>10 DEF ConfirmUpdate
    <3>4. /\ files'[i] = [files[i] EXCEPT !.size = SizeOf[c], !.checksum = c]
          /\ \A j \in Ids \ {i} : files'[j] = files[j]
      BY <2>1, <3>3 DEF TypeInv, TypeOK, StorageTypeOK
    <3> QED
      BY <3>1, <3>2, <3>4 DEF FileRow
  <2>3. puts[r].state = "stored" /\ puts[r].id = i /\ puts[r].content = c /\ objects[i] = c
    BY <2>1 DEF StoreInv, ConfirmsStored, StoredAreThere
  <2>4. RowsAreMinted'
    BY <2>1, <2>2 DEF StoreInv, RowsAreMinted
  <2>5. ConfirmedIsStored'
    BY <2>1, <2>2, <2>3 DEF StoreInv, ConfirmedIsStored, IsConfirmed
  <2>6. \A s \in Uploads : Held(s)' = Held(s)
    BY <2>1 DEF Held
  <2>7. HeldAreMinted' /\ HeldAreDisjoint'
    BY <2>1, <2>6 DEF StoreInv, HeldAreMinted, HeldAreDisjoint
  <2>8. StoredAreThere' /\ ConfirmsStored'
    BY <2>1 DEF StoreInv, StoredAreThere, ConfirmsStored
  <2>9. i \in Held(r)
    BY <2>1 DEF Held
  <2>10. ASSUME NEW s \in Uploads, puts[s].state = "sent"
         PROVE  puts'[s].id \in Ids \ {i} /\ files'[puts[s].id].checksum = None
    BY <2>1, <2>2, <2>3, <2>9, <2>10, HeldByOne
       DEF StoreInv, UnsentAreReserved, TypeInv, UploadInv, PutArguments
  <2>11. ASSUME NEW s \in Uploads, up[s].pc = "reserving", rpc[s].id # None
         PROVE  rpc'[s].id \in Ids \ {i} /\ files'[rpc[s].id].checksum = None
    <3>1. s # r /\ rpc[s].id \in Ids
      BY <2>1, <2>11 DEF TypeInv, TypeOK, StorageTypeOK, Rpc, UploadInv, Progress
    <3> QED
      BY <2>1, <2>2, <2>9, <2>11, <3>1, HeldByOne DEF StoreInv, UnsentAreReserved
  <2>12. UnsentAreReserved'
    BY <2>1, <2>10, <2>11 DEF UnsentAreReserved
  <2> QED
    BY <2>4, <2>5, <2>7, <2>8, <2>12 DEF StoreInv
<1> QED
  BY <1>1, <1>2, <1>3, <1>4, <1>5, <1>6, <1>7, <1>8, <1>9, <1>10
  DEF Next, UpStep, StorageStep, RpcStep

-----------------------------------------------------------------------------

Inv == TypeInv /\ StoreInv

LEMMA Invariant == Spec => []Inv
<1>1. Init => Inv
  BY InitTypeInv, InitStoreInv DEF Inv
<1>2. Inv /\ [Next]_vars => Inv'
  BY NextTypeInv, NextStoreInv DEF Inv
<1> QED
  BY <1>1, <1>2, PTL DEF Spec

(* A row with a checksum describes the object that is there, whichever     *)
(* handlers were abandoned and however late their RPCs and PUTs arrived.   *)
THEOREM ConfirmedStored == Spec => []ConfirmedIsStored
<1>1. Inv => ConfirmedIsStored
  BY DEF Inv, StoreInv
<1> QED
  BY <1>1, Invariant, PTL

(* No object is without a row that names it.                               *)
THEOREM NoOrphanObjects == Spec => []ObjectsHaveRows
<1>1. Inv => ObjectsHaveRows
  BY DEF Inv, StoreInv, RowsAreMinted, ObjectsHaveRows
<1> QED
  BY <1>1, Invariant, PTL

LEMMA ConfirmedStay ==
  ASSUME Inv, [Next]_vars, NEW i \in Ids, IsConfirmed(i)
  PROVE  files'[i] = files[i] /\ objects'[i] = objects[i]
<1> USE DEF Inv
<1>1. ASSUME NEW r \in Uploads, StorePut(r) PROVE files'[i] = files[i] /\ objects'[i] = objects[i]
  <2>1. puts[r].id # i
    BY <1>1 DEF StorePut, StoreInv, UnsentAreReserved, IsConfirmed
  <2> QED
    BY <1>1, <2>1 DEF StorePut, PutObject, TypeInv, TypeOK, StorageTypeOK
<1>2. ASSUME NEW r \in Uploads, ReserveCreate(r) PROVE files'[i] = files[i] /\ objects'[i] = objects[i]
  <2>1. PICK j \in Ids \ minted : files' = [files EXCEPT ![j] = ReservedRow(rpc[r].user)]
    BY <1>2 DEF ReserveCreate
  <2>2. j # i
    BY DEF IsConfirmed, StoreInv, RowsAreMinted
  <2> QED
    BY <1>2, <2>1, <2>2 DEF ReserveCreate, TypeInv, TypeOK, StorageTypeOK
<1>3. ASSUME NEW r \in Uploads, ConfirmUpdate(r) PROVE files'[i] = files[i] /\ objects'[i] = objects[i]
  <2>1. CASE rpc[r].id # i
    BY <1>3, <2>1 DEF ConfirmUpdate, TypeInv, TypeOK, StorageTypeOK
  <2>2. CASE rpc[r].id = i
    <3> DEFINE c == rpc[r].content
    <3>1. objects[i] = c
      BY <1>3, <2>2 DEF ConfirmUpdate, StoreInv, ConfirmsStored, StoredAreThere
    <3>2. files[i].checksum = c /\ files[i].size = SizeOf[c]
      BY <3>1 DEF StoreInv, ConfirmedIsStored
    <3>3. files[i] \in FileRow
      BY DEF IsConfirmed, TypeInv, TypeOK, StorageTypeOK
    <3>4. [files[i] EXCEPT !.size = SizeOf[c], !.checksum = c] = files[i]
      BY <3>2, <3>3 DEF FileRow
    <3>5. files' = [files EXCEPT ![i] = [files[i] EXCEPT !.size = SizeOf[c], !.checksum = c]]
      BY <1>3, <2>2 DEF ConfirmUpdate
    <3> QED
      BY <1>3, <3>4, <3>5 DEF ConfirmUpdate, TypeInv, TypeOK, StorageTypeOK
  <2> QED
    BY <2>1, <2>2
<1>4. ASSUME UNCHANGED <<files, objects>> PROVE files'[i] = files[i] /\ objects'[i] = objects[i]
  BY <1>4
<1>5. ASSUME NEW r \in Uploads, UpStart(r) \/ UpStep(r) \/ UpGiveUp(r) PROVE UNCHANGED <<files, objects>>
  BY <1>5 DEF UpStart, UpStep, UpReject, UpReserve, UpPut, UpConfirm, UpConfirmed, UpCreated,
     UpRpcError, UpPutError, UpGiveUp
<1>6. ASSUME NEW r \in Uploads, ReservePresign(r) \/ ConfirmSelect(r) \/ RpcFail(r)
      PROVE  UNCHANGED <<files, objects>>
  BY <1>6 DEF ReservePresign, ConfirmSelect, RpcFail
<1>7. ASSUME NEW d \in Downloads, DlStart(d) \/ DlStep(d) \/ DlFail(d) PROVE UNCHANGED <<files, objects>>
  BY <1>7 DEF DlStart, DlStep, DlLookup, DlFetch, DlDeliver, DlFail
<1>8. CASE UNCHANGED vars
  BY <1>8 DEF vars
<1> QED
  BY <1>1, <1>2, <1>3, <1>4, <1>5, <1>6, <1>7, <1>8 DEF Next, StorageStep, RpcStep

(* A confirmed file never changes, in the table or in the object store.    *)
THEOREM ConfirmedFinal == Spec => ConfirmedIsFinal
<1>1. Inv /\ [Next]_vars =>
        [\A i \in Ids : IsConfirmed(i) => files'[i] = files[i] /\ objects'[i] = objects[i]]_vars
  BY ConfirmedStay
<1> QED
  BY <1>1, Invariant, PTL DEF Spec, ConfirmedIsFinal

-----------------------------------------------------------------------------
(* Downloads of a file that was confirmed when they began.                 *)

(* What the download read is the confirmed file, at each of its steps.     *)
Served(d) ==
    /\ dl[d].pc = "idle" => dl[d].seen = None /\ dl[d].got = None
    /\ dl[d].seen # None =>
          /\ IsConfirmed(dl[d].id) /\ files[dl[d].id].owner = dl[d].user
          /\ files[dl[d].id].checksum = dl[d].seen
          /\ dl[d].pc \in {"fetch", "stream"} => dl[d].row = files[dl[d].id]
          /\ dl[d].pc = "stream" => dl[d].body = dl[d].seen
          /\ dl[d].pc \notin {"missing", "cut"}
          /\ dl[d].pc = "ok" => dl[d].got = dl[d].seen

ServedInv == \A d \in Downloads : Served(d)

LEMMA InitServedInv == Init => ServedInv
  BY DEF Init, ServedInv, Served

LEMMA NextServedInv == Inv /\ Inv' /\ ServedInv /\ [Next]_vars => ServedInv'
<1> SUFFICES ASSUME Inv, Inv', ServedInv, [Next]_vars PROVE ServedInv'
  OBVIOUS
<1>1. ASSUME NEW d \in Downloads, dl'[d] = dl[d] PROVE Served(d)'
  <2>1. Served(d)
    BY DEF ServedInv
  <2>2. CASE dl[d].seen = None
    BY <1>1, <2>1, <2>2 DEF Served
  <2>3. CASE dl[d].seen # None
    <3>1. dl[d].id \in Ids
      BY <2>1, <2>3 DEF Served, Inv, TypeInv, DownloadInv
    <3>2. files'[dl[d].id] = files[dl[d].id]
      BY <2>1, <2>3, <3>1, ConfirmedStay DEF Served
    <3> QED
      BY <1>1, <2>1, <2>3, <3>2 DEF Served, IsConfirmed
  <2> QED
    BY <2>2, <2>3
<1>2. ASSUME NEW d \in Downloads, DlStart(d) PROVE Served(d)'
  <2>1. PICK u \in Users, i \in Ids :
          dl' = [dl EXCEPT ![d].pc = "lookup", ![d].user = u, ![d].id = i,
                           ![d].seen = IF IsConfirmed(i) /\ files[i].owner = u
                                       THEN files[i].checksum ELSE None]
    BY <1>2 DEF DlStart
  <2>2. /\ dl'[d].pc = "lookup" /\ dl'[d].user = u /\ dl'[d].id = i
        /\ dl'[d].seen = IF IsConfirmed(i) /\ files[i].owner = u THEN files[i].checksum ELSE None
    BY <2>1 DEF Inv, TypeInv, TypeOK, Download
  <2> QED
    BY <1>2, <2>2 DEF DlStart, Served, IsConfirmed
<1>3. ASSUME NEW d \in Downloads, DlLookup(d) PROVE Served(d)'
  <2>1. /\ dl[d].pc = "lookup" /\ UNCHANGED files
        /\ dl'[d].user = dl[d].user /\ dl'[d].id = dl[d].id /\ dl'[d].seen = dl[d].seen
        /\ \/ dl'[d].pc = "fetch" /\ dl'[d].row = files[dl[d].id]
           \/ dl'[d].pc = "missing"
              /\ ~ (files[dl[d].id] # None /\ files[dl[d].id].owner = dl[d].user)
    BY <1>3 DEF DlLookup, Inv, TypeInv, TypeOK, Download
  <2> QED
    BY <2>1 DEF ServedInv, Served, IsConfirmed
<1>4. ASSUME NEW d \in Downloads, DlFetch(d) PROVE Served(d)'
  <2>1. /\ dl[d].pc = "fetch" /\ UNCHANGED files
        /\ dl'[d].user = dl[d].user /\ dl'[d].id = dl[d].id /\ dl'[d].seen = dl[d].seen
        /\ \/ /\ dl'[d].pc = "stream" /\ dl'[d].row = dl[d].row
              /\ dl'[d].body = objects[dl[d].id]
           \/ dl'[d].pc = "missing" /\ objects[dl[d].id] = None
    BY <1>4 DEF DlFetch, Inv, TypeInv, TypeOK, Download
  <2>2. dl[d].id \in Ids
    BY <2>1 DEF Inv, TypeInv, DownloadInv
  <2>3. dl[d].seen # None => objects[dl[d].id] = dl[d].seen
    BY <2>2 DEF ServedInv, Served, Inv, StoreInv, ConfirmedIsStored
  <2> QED
    BY <2>1, <2>3 DEF ServedInv, Served, IsConfirmed
<1>5. ASSUME NEW d \in Downloads, DlDeliver(d) PROVE Served(d)'
  <2>1. /\ dl[d].pc = "stream" /\ UNCHANGED files
        /\ dl'[d].user = dl[d].user /\ dl'[d].id = dl[d].id /\ dl'[d].seen = dl[d].seen
        /\ dl[d].row.size = SizeOf[dl[d].body] => dl'[d].pc = "ok" /\ dl'[d].got = dl[d].body
        /\ dl'[d].pc \in {"ok", "cut"}
    BY <1>5 DEF DlDeliver, Inv, TypeInv, TypeOK, Download
  <2>2. dl[d].id \in Ids
    BY <2>1 DEF Inv, TypeInv, DownloadInv
  <2>3. dl[d].seen # None => dl[d].row.size = SizeOf[dl[d].body]
    BY <2>1, <2>2 DEF ServedInv, Served, Inv, StoreInv, ConfirmedIsStored
  <2> QED
    BY <2>1, <2>3 DEF ServedInv, Served, IsConfirmed
<1>6. ASSUME NEW d \in Downloads, DlFail(d) PROVE Served(d)'
  <2>1. /\ dl'[d].pc = "error" /\ UNCHANGED files
        /\ dl'[d].user = dl[d].user /\ dl'[d].id = dl[d].id /\ dl'[d].seen = dl[d].seen
    BY <1>6 DEF DlFail, Inv, TypeInv, TypeOK, Download
  <2> QED
    BY <2>1 DEF ServedInv, Served, IsConfirmed
<1>7. ASSUME NEW d \in Downloads, DlStart(d) \/ DlStep(d) \/ DlFail(d) PROVE ServedInv'
  <2>1. \A e \in Downloads \ {d} : dl'[e] = dl[e]
    BY <1>7 DEF DlStart, DlStep, DlLookup, DlFetch, DlDeliver, DlFail, Inv, TypeInv, TypeOK
  <2>2. Served(d)'
    BY <1>2, <1>3, <1>4, <1>5, <1>6, <1>7 DEF DlStep
  <2> QED
    BY <1>1, <2>1, <2>2 DEF ServedInv
<1>8. ASSUME UNCHANGED dl PROVE ServedInv'
  BY <1>1, <1>8 DEF ServedInv
<1>9. ASSUME NEW r \in Uploads,
             UpStart(r) \/ UpStep(r) \/ UpGiveUp(r) \/ StorageStep(r) \/ StorePut(r)
      PROVE  UNCHANGED dl
  BY <1>9 DEF UpStart, UpStep, UpReject, UpReserve, UpPut, UpConfirm, UpConfirmed, UpCreated,
     UpRpcError, UpPutError, UpGiveUp, StorageStep, StorePut
<1> QED
  BY <1>7, <1>8, <1>9 DEF Next, vars

(* A download that began after the file was confirmed finds the file and   *)
(* delivers its bytes, or ends with a reported failure.                    *)
THEOREM ConfirmedServed == Spec => []ConfirmedIsServed
<1>1. ServedInv => ConfirmedIsServed
  BY DEF ServedInv, Served, ConfirmedIsServed
<1> QED
  BY <1>1, Invariant, InitServedInv, NextServedInv, PTL DEF Spec

-----------------------------------------------------------------------------
(* Results.                                                                *)

(* The results so far are rows, confirmed as they were returned.           *)
Done(r) ==
    \A k \in 1..Len(up[r].done) :
        /\ IsConfirmed(up[r].done[k].id)
        /\ files[up[r].done[k].id] = up[r].done[k].file
        /\ up[r].done[k].file.owner = up[r].user
        /\ up[r].done[k].file.checksum = up[r].parts[k]
        /\ \A j \in 1..(k-1) : up[r].done[j].id # up[r].done[k].id

(* The part under way has a row of its own, and its confirmation, once it  *)
(* has gone through, returns that row.                                     *)
PartUnderWay(r) ==
    /\ up[r].pc \in {"putting", "confirming"} =>
          \A k \in 1..Len(up[r].done) : up[r].done[k].id # up[r].id
    /\ up[r].pc = "confirming" =>
          /\ rpc[r].id = up[r].id /\ rpc[r].user = up[r].user /\ rpc[r].content = Part(r)
          /\ rpc[r].stage \in {"select", "ok"} => files[rpc[r].id] # None
                                                  /\ files[rpc[r].id].checksum = rpc[r].content
          /\ rpc[r].stage = "ok" => rpc[r].reply = files[rpc[r].id] /\ rpc[r].reply.owner = rpc[r].user

Result(r) ==
    /\ Done(r) /\ PartUnderWay(r)
    /\ up[r].pc = "created" => Len(up[r].done) = Len(up[r].parts)

ResultsInv == \A r \in Uploads : Result(r)

LEMMA InitResultsInv == Init => ResultsInv
  BY DEF Init, ResultsInv, Result, Done, PartUnderWay

LEMMA SequenceFacts ==
  ASSUME NEW S, NEW s \in Seq(S)
  PROVE  Len(s) \in Nat /\ \A k \in 1..Len(s) : s[k] \in S
  OBVIOUS

LEMMA ResultTypes ==
  ASSUME Inv, NEW r \in Uploads
  PROVE  /\ up[r].done \in Seq([id : Ids, file : FileRow]) /\ up[r].parts \in Seq(Content)
         /\ Len(up[r].done) \in Nat /\ Len(up[r].parts) \in Nat
         /\ \A k \in 1..Len(up[r].done) : up[r].done[k].id \in Ids /\ up[r].done[k].file \in FileRow
<1> DEFINE Entry == [id : Ids, file : FileRow]
<1>1. up[r].done \in Seq(Entry) /\ up[r].parts \in Seq(Content)
  BY DEF Inv, TypeInv, TypeOK, Upload
<1>2. \A x \in Entry : x.id \in Ids /\ x.file \in FileRow
  OBVIOUS
<1> HIDE DEF Entry
<1>3. Len(up[r].done) \in Nat /\ Len(up[r].parts) \in Nat
  BY <1>1, SequenceFacts
<1>4. \A k \in 1..Len(up[r].done) : up[r].done[k] \in Entry
  BY <1>1, SequenceFacts
<1> QED
  BY <1>1, <1>2, <1>3, <1>4 DEF Entry

LEMMA DoneKept ==
  ASSUME Inv, [Next]_vars, NEW r \in Uploads, Done(r),
         up'[r].done = up[r].done, up'[r].user = up[r].user, up'[r].parts = up[r].parts
  PROVE  Done(r)'
<1>1. ASSUME NEW k \in 1..Len(up[r].done)
      PROVE  files'[up[r].done[k].id] = files[up[r].done[k].id]
  BY ConfirmedStay, ResultTypes DEF Done
<1> QED
  BY <1>1 DEF Done, IsConfirmed

(* A step that changes neither a handler nor its RPC.                      *)
LEMMA OtherResult ==
  ASSUME Inv, [Next]_vars, NEW r \in Uploads, Result(r), up'[r] = up[r], rpc'[r] = rpc[r]
  PROVE  Result(r)'
<1>1. Done(r)'
  BY DoneKept DEF Result
<1>2. ASSUME up[r].pc = "confirming", rpc[r].stage \in {"select", "ok"}
      PROVE  files'[rpc[r].id] = files[rpc[r].id]
  <2>1. rpc[r].id \in Ids /\ rpc[r].content \in Content
    BY <1>2 DEF Inv, TypeInv, UploadInv, Progress, RpcArguments
  <2>2. IsConfirmed(rpc[r].id)
    BY <1>2, <2>1, StorageAssumption DEF Result, PartUnderWay, IsConfirmed
  <2> QED
    BY <2>1, <2>2, ConfirmedStay
<1>3. PartUnderWay(r)'
  BY <1>2 DEF Result, PartUnderWay, Part
<1> QED
  BY <1>1, <1>3 DEF Result

(* A step of a handler that is between two parts, or at its end.           *)
LEMMA IdleResult ==
  ASSUME Inv, [Next]_vars, NEW r \in Uploads, Result(r),
         up'[r].done = up[r].done, up'[r].user = up[r].user, up'[r].parts = up[r].parts,
         up'[r].pc \notin {"putting", "confirming", "created"}
  PROVE  Result(r)'
<1>1. Done(r)'
  BY DoneKept DEF Result
<1> QED
  BY <1>1 DEF Result, PartUnderWay

LEMMA UploadResult ==
  ASSUME Inv, [Next]_vars, NEW r \in Uploads, Result(r), UpStart(r) \/ UpStep(r) \/ UpGiveUp(r)
  PROVE  Result(r)'
<1> USE StorageAssumption
<1>0. up \in [Uploads -> Upload] /\ rpc \in [Uploads -> Rpc] /\ up[r] \in Upload
  BY DEF Inv, TypeInv, TypeOK, StorageTypeOK
<1>1. CASE UpStart(r)
  <2>1. up'[r].done = up[r].done /\ up'[r].pc = "part" /\ up[r].pc = "idle"
    <3>1. PICK u \in Users, b \in Batches :
              up' = [up EXCEPT ![r].pc = "part", ![r].user = u, ![r].parts = b]
      BY <1>1 DEF UpStart
    <3> QED
      BY <1>0, <1>1, <3>1 DEF UpStart, Upload
  <2>2. up'[r].done = <<>>
    BY <2>1 DEF Inv, TypeInv, UploadInv, Progress
  <2> QED
    BY <2>1, <2>2 DEF Result, Done, PartUnderWay
<1>2. CASE UpReject(r) \/ UpReserve(r) \/ UpRpcError(r) \/ UpPutError(r) \/ UpGiveUp(r)
  <2>1. /\ up'[r].done = up[r].done /\ up'[r].user = up[r].user /\ up'[r].parts = up[r].parts
        /\ up'[r].pc \notin {"putting", "confirming", "created"}
    BY <1>0, <1>2 DEF UpReject, UpReserve, UpRpcError, UpPutError, UpGiveUp, Upload
  <2> QED
    BY <2>1, IdleResult
<1>3. CASE UpPut(r)
  <2>1. /\ up'[r].done = up[r].done /\ up'[r].user = up[r].user /\ up'[r].parts = up[r].parts
        /\ up'[r].pc = "putting" /\ up'[r].id = rpc[r].id
        /\ up[r].pc = "reserving" /\ rpc[r].stage = "ok"
    BY <1>0, <1>3 DEF UpPut, Upload
  <2>2. rpc[r].id \in Ids /\ files[rpc[r].id].checksum = None
    BY <2>1 DEF Inv, TypeInv, UploadInv, Progress, RpcArguments, StoreInv, UnsentAreReserved
  <2>3. \A k \in 1..Len(up[r].done) : up[r].done[k].id # rpc[r].id
    BY <2>2 DEF Result, Done, IsConfirmed
  <2>4. Done(r)'
    BY <2>1, DoneKept DEF Result
  <2> QED
    BY <2>1, <2>3, <2>4 DEF Result, PartUnderWay
<1>4. CASE UpConfirm(r)
  <2>1. /\ up'[r].done = up[r].done /\ up'[r].user = up[r].user /\ up'[r].parts = up[r].parts
        /\ up'[r].pc = "confirming" /\ up'[r].id = up[r].id /\ up[r].pc = "putting"
        /\ rpc'[r].id = up[r].id /\ rpc'[r].user = up[r].user /\ rpc'[r].content = Part(r)
        /\ rpc'[r].stage = "update"
    BY <1>0, <1>4 DEF UpConfirm, CallConfirmUpload, Upload
  <2>2. Done(r)'
    BY <2>1, DoneKept DEF Result
  <2> QED
    BY <2>1, <2>2 DEF Result, PartUnderWay, Part
<1>5. CASE UpConfirmed(r)
  <2> DEFINE n == Len(up[r].done)
             e == [id |-> rpc[r].id, file |-> rpc[r].reply]
  <2>1. /\ up'[r].done = Append(up[r].done, e)
        /\ up'[r].user = up[r].user /\ up'[r].parts = up[r].parts
        /\ up'[r].pc = "part" /\ up[r].pc = "confirming" /\ rpc[r].stage = "ok"
        /\ UNCHANGED files
    BY <1>0, <1>5 DEF UpConfirmed, Upload
  <2>2. n \in Nat /\ up[r].done \in Seq([id : Ids, file : FileRow])
    BY ResultTypes
  <2>3. rpc[r].content \in Content /\ rpc[r].id \in Ids
    BY <2>1 DEF Inv, TypeInv, UploadInv, Progress, RpcArguments
  <2>4. /\ files[rpc[r].id] # None /\ files[rpc[r].id].checksum = up[r].parts[n + 1]
        /\ rpc[r].reply = files[rpc[r].id] /\ rpc[r].reply.owner = up[r].user
        /\ up[r].parts[n + 1] # None
        /\ \A k \in 1..n : up[r].done[k].id # rpc[r].id
    BY <2>1, <2>3 DEF Result, PartUnderWay, Part
  <2>5. e.id = rpc[r].id /\ e.file = rpc[r].reply /\ e \in [id : Ids, file : FileRow]
    BY <2>1, <2>3, <2>4 DEF Inv, TypeInv, UploadInv, Progress, RpcArguments
  <2> HIDE DEF e
  <2>6. /\ Len(up'[r].done) = n + 1 /\ up'[r].done[n + 1] = e
        /\ \A k \in 1..n : up'[r].done[k] = up[r].done[k]
    BY <2>1, <2>2, <2>5
  <2>7. Done(r)
    BY DEF Result
  <2> HIDE DEF n
  <2>8. ASSUME NEW k \in 1..(n + 1), k # n + 1
        PROVE  k \in 1..n /\ \A j \in 1..(k-1) : j \in 1..n
    BY <2>2, <2>8
  <2>9. \A j \in 1..((n + 1) - 1) : j \in 1..n
    BY <2>2
  <2>10. Done(r)'
    <3>1. ASSUME NEW k \in 1..(n + 1)
          PROVE  /\ files[up'[r].done[k].id] # None
                 /\ files[up'[r].done[k].id].checksum # None
                 /\ files[up'[r].done[k].id] = up'[r].done[k].file
                 /\ up'[r].done[k].file.owner = up[r].user
                 /\ up'[r].done[k].file.checksum = up[r].parts[k]
                 /\ \A j \in 1..(k-1) : up'[r].done[j].id # up'[r].done[k].id
      <4>1. CASE k = n + 1
        BY <2>1, <2>4, <2>5, <2>6, <2>9, <4>1
      <4>2. CASE k # n + 1
        <5>1. k \in 1..n /\ \A j \in 1..(k-1) : j \in 1..n
          BY <2>8, <4>2
        <5>2. up'[r].done[k] = up[r].done[k] /\ \A j \in 1..(k-1) : up'[r].done[j] = up[r].done[j]
          BY <2>6, <5>1
        <5>3. /\ files[up[r].done[k].id] # None /\ files[up[r].done[k].id].checksum # None
              /\ files[up[r].done[k].id] = up[r].done[k].file
              /\ up[r].done[k].file.owner = up[r].user
              /\ up[r].done[k].file.checksum = up[r].parts[k]
              /\ \A j \in 1..(k-1) : up[r].done[j].id # up[r].done[k].id
          BY <2>7, <5>1 DEF Done, IsConfirmed, n
        <5> QED
          BY <5>2, <5>3
      <4> QED
        BY <4>1, <4>2
    <3>2. /\ Len(up'[r].done) = n + 1 /\ up'[r].user = up[r].user
          /\ up'[r].parts = up[r].parts /\ files' = files
      BY <2>1, <2>6
    <3> QED
      BY <3>1, <3>2 DEF Done, IsConfirmed
  <2> QED
    BY <2>1, <2>10 DEF Result, PartUnderWay
<1>6. CASE UpCreated(r)
  <2>1. /\ up'[r].done = up[r].done /\ up'[r].user = up[r].user /\ up'[r].parts = up[r].parts
        /\ up'[r].pc = "created" /\ Len(up[r].done) = Len(up[r].parts)
    BY <1>0, <1>6 DEF UpCreated, Upload
  <2>2. Done(r)'
    BY <2>1, DoneKept DEF Result
  <2> QED
    BY <2>1, <2>2 DEF Result, PartUnderWay
<1> QED
  BY <1>1, <1>2, <1>3, <1>4, <1>5, <1>6 DEF UpStep

LEMMA StorageResult ==
  ASSUME Inv, [Next]_vars, NEW r \in Uploads, Result(r), StorageStep(r)
  PROVE  Result(r)'
<1> USE StorageAssumption
<1>0. rpc \in [Uploads -> Rpc] /\ rpc[r] \in Rpc /\ UNCHANGED up
  BY DEF Inv, TypeInv, TypeOK, StorageTypeOK, StorageStep
<1>1. Done(r)'
  BY <1>0, DoneKept DEF Result
<1>2. SUFFICES ASSUME up[r].pc = "confirming" PROVE PartUnderWay(r)'
  BY <1>0, <1>1 DEF Result, PartUnderWay
<1>3. rpc[r].op = "confirm" /\ rpc[r].id \in Ids /\ rpc[r].content \in Content
  BY <1>2 DEF Inv, TypeInv, UploadInv, Progress, RpcArguments
<1>4. CASE RpcFail(r)
  <2>1. /\ rpc'[r].stage = "error" /\ rpc'[r].id = rpc[r].id
        /\ rpc'[r].user = rpc[r].user /\ rpc'[r].content = rpc[r].content
    BY <1>0, <1>4 DEF RpcFail, Rpc
  <2> QED
    BY <1>0, <1>2, <2>1 DEF Result, PartUnderWay, Part
<1>5. CASE ConfirmUpdate(r)
  <2>1. /\ rpc'[r].stage = "select" /\ rpc'[r].id = rpc[r].id
        /\ rpc'[r].user = rpc[r].user /\ rpc'[r].content = rpc[r].content
    BY <1>0, <1>5 DEF ConfirmUpdate, Rpc
  <2>2. files'[rpc[r].id] # None /\ files'[rpc[r].id].checksum = rpc[r].content
    <3> DEFINE row == [files[rpc[r].id] EXCEPT !.size = SizeOf[rpc[r].content], !.checksum = rpc[r].content]
    <3>1. files[rpc[r].id] \in FileRow /\ files \in [Ids -> FileRow \cup {None}]
      BY <1>3, <1>5 DEF ConfirmUpdate, Inv, TypeInv, TypeOK, StorageTypeOK
    <3>2. row \in FileRow /\ row.checksum = rpc[r].content
      BY <1>3, <3>1 DEF FileRow
    <3>3. files' = [files EXCEPT ![rpc[r].id] = row]
      BY <1>5 DEF ConfirmUpdate
    <3> HIDE DEF row
    <3> QED
      BY <1>3, <3>1, <3>2, <3>3
  <2> QED
    BY <1>0, <1>2, <2>1, <2>2 DEF Result, PartUnderWay, Part
<1>6. CASE ConfirmSelect(r)
  <2>1. /\ rpc'[r].stage = "ok" /\ rpc'[r].id = rpc[r].id /\ rpc'[r].reply = files[rpc[r].id]
        /\ rpc'[r].user = rpc[r].user /\ rpc'[r].content = rpc[r].content
        /\ files[rpc[r].id].owner = rpc[r].user /\ UNCHANGED files /\ rpc[r].stage = "select"
    BY <1>0, <1>6 DEF ConfirmSelect, Rpc
  <2> QED
    BY <1>0, <1>2, <2>1 DEF Result, PartUnderWay, Part
<1>7. CASE ReserveCreate(r) \/ ReservePresign(r)
  BY <1>3, <1>7 DEF ReserveCreate, ReservePresign
<1> QED
  BY <1>4, <1>5, <1>6, <1>7 DEF StorageStep, RpcStep

LEMMA NextResultsInv == Inv /\ ResultsInv /\ [Next]_vars => ResultsInv'
<1> SUFFICES ASSUME Inv, ResultsInv, [Next]_vars PROVE ResultsInv'
  OBVIOUS
<1>1. ASSUME UNCHANGED <<up, rpc>> PROVE ResultsInv'
  BY <1>1, OtherResult DEF ResultsInv
<1>2. ASSUME NEW r \in Uploads, UpStart(r) \/ UpStep(r) \/ UpGiveUp(r) \/ StorageStep(r)
      PROVE  ResultsInv'
  <2>1. \A s \in Uploads \ {r} : up'[s] = up[s] /\ rpc'[s] = rpc[s]
    BY <1>2 DEF UpStart, UpStep, UpReject, UpReserve, UpPut, UpConfirm, UpConfirmed, UpCreated,
       UpRpcError, UpPutError, UpGiveUp, StorageStep, RpcStep, ReserveCreate, ReservePresign,
       ConfirmUpdate, ConfirmSelect, RpcFail, CallGetUploadURL, CallConfirmUpload, Inv, TypeInv,
       TypeOK, StorageTypeOK
  <2>2. Result(r)'
    BY <1>2, UploadResult, StorageResult DEF ResultsInv
  <2> QED
    BY <2>1, <2>2, OtherResult DEF ResultsInv
<1>3. ASSUME NEW r \in Uploads, StorePut(r) PROVE UNCHANGED <<up, rpc>>
  BY <1>3 DEF StorePut
<1>4. ASSUME NEW d \in Downloads, DlStart(d) \/ DlStep(d) \/ DlFail(d) PROVE UNCHANGED <<up, rpc>>
  BY <1>4 DEF DlStart, DlStep, DlLookup, DlFetch, DlDeliver, DlFail
<1> QED
  BY <1>1, <1>2, <1>3, <1>4 DEF Next, vars

(* What a handler holds as a result is in the table for good, each part in *)
(* a row of its own.                                                       *)
THEOREM ResultsDurable == Spec => []ResultsAreDurable
<1>1. Inv /\ ResultsInv => ResultsAreDurable
  <2> SUFFICES ASSUME Inv, ResultsInv, NEW r \in Uploads
               PROVE  /\ Len(up[r].done) <= Len(up[r].parts)
                      /\ up[r].pc = "created" => Len(up[r].done) = Len(up[r].parts)
                      /\ Done(r)
    BY DEF ResultsAreDurable, Done
  <2> QED
    BY DEF ResultsInv, Result, Inv, TypeInv, UploadInv, Progress
<1> QED
  BY <1>1, Invariant, InitResultsInv, NextResultsInv, PTL DEF Spec

-----------------------------------------------------------------------------
(* Leftovers.                                                              *)

(* The requests that may have reserved a row they did not confirm.         *)
Active(r) == up[r].pc \notin {"idle", "part", "created", "rejected"}

(* Every reserved row is that of the last RPC of one of them.              *)
ReservedAreHeld == \A i \in Ids : IsReserved(i) => \E r \in Uploads : Active(r) /\ rpc[r].id = i

LastRpc(r) ==
    /\ rpc[r].op = "reserve" /\ rpc[r].stage = "insert" =>
          up[r].pc \in {"reserving", "failed"} /\ rpc[r].id = None
    /\ up[r].pc = "putting" => rpc[r].id = up[r].id

LeftoverInv == ReservedAreHeld /\ \A r \in Uploads : LastRpc(r)

LEMMA InitLeftoverInv == Init => LeftoverInv
  BY DEF Init, StorageInit, NoRpc, LeftoverInv, ReservedAreHeld, LastRpc, IsReserved

(* A step that makes no row reserved, and after which the request still    *)
(* holds the row it held, or a confirmed one.                              *)
LEMMA HeldStay ==
  ASSUME Inv, [Next]_vars, LeftoverInv, NEW r \in Uploads,
         \A s \in Uploads \ {r} : up'[s] = up[s] /\ rpc'[s] = rpc[s],
         \A i \in Ids : IsReserved(i)' => IsReserved(i),
         Active(r) => \/ up'[r].pc \notin {"idle", "part", "created", "rejected"} /\ rpc'[r].id = rpc[r].id
                      \/ \A i \in Ids : rpc[r].id = i => ~ IsReserved(i)',
         LastRpc(r)'
  PROVE  LeftoverInv'
<1>1. ASSUME NEW i \in Ids, IsReserved(i)'
      PROVE  \E s \in Uploads : Active(s)' /\ rpc'[s].id = i
  <2>1. PICK s \in Uploads : Active(s) /\ rpc[s].id = i
    BY <1>1 DEF LeftoverInv, ReservedAreHeld
  <2>2. CASE s = r
    BY <1>1, <2>1, <2>2 DEF Active
  <2>3. CASE s # r
    BY <2>1, <2>3 DEF Active
  <2> QED
    BY <2>2, <2>3
<1>2. \A s \in Uploads : LastRpc(s)'
  BY DEF LeftoverInv, LastRpc
<1> QED
  BY <1>1, <1>2 DEF LeftoverInv, ReservedAreHeld

LEMMA UploadLeftovers ==
  ASSUME Inv, [Next]_vars, ResultsInv, LeftoverInv, NEW r \in Uploads,
         UpStart(r) \/ UpStep(r) \/ UpGiveUp(r)
  PROVE  LeftoverInv'
<1>0. /\ up \in [Uploads -> Upload] /\ rpc \in [Uploads -> Rpc] /\ up[r] \in Upload /\ LastRpc(r)
  BY DEF Inv, TypeInv, TypeOK, StorageTypeOK, LeftoverInv
<1>1. UNCHANGED files
  BY DEF UpStart, UpStep, UpReject, UpReserve, UpPut, UpConfirm, UpConfirmed, UpCreated,
     UpRpcError, UpPutError, UpGiveUp
<1>2. \A i \in Ids : IsReserved(i)' = IsReserved(i)
  BY <1>1 DEF IsReserved
<1>3. \A s \in Uploads \ {r} : up'[s] = up[s] /\ rpc'[s] = rpc[s]
  BY <1>0 DEF UpStart, UpStep, UpReject, UpReserve, UpPut, UpConfirm, UpConfirmed, UpCreated,
     UpRpcError, UpPutError, UpGiveUp, CallGetUploadURL, CallConfirmUpload
<1>4. CASE UpStart(r)
  <2>1. PICK u \in Users, b \in Batches :
          up' = [up EXCEPT ![r].pc = "part", ![r].user = u, ![r].parts = b]
    BY <1>4 DEF UpStart
  <2>2. up[r].pc = "idle" /\ up'[r].pc = "part" /\ UNCHANGED rpc
    BY <1>0, <1>4, <2>1 DEF UpStart, Upload
  <2>3. ~ Active(r) /\ LastRpc(r)'
    BY <1>0, <2>2 DEF LastRpc, Active
  <2> QED
    BY <1>2, <1>3, <2>3, HeldStay
<1>5. CASE UpReject(r) \/ UpCreated(r)
  <2>1. up[r].pc = "part" /\ up'[r].pc \in {"rejected", "created"} /\ UNCHANGED rpc
    BY <1>0, <1>5 DEF UpReject, UpCreated, Upload
  <2>2. ~ Active(r) /\ LastRpc(r)'
    BY <1>0, <2>1 DEF LastRpc, Active
  <2> QED
    BY <1>2, <1>3, <2>2, HeldStay
<1>6. CASE UpReserve(r)
  <2>1. up[r].pc = "part" /\ up'[r].pc = "reserving" /\ rpc'[r].id = None
    BY <1>0, <1>6 DEF UpReserve, CallGetUploadURL, Upload
  <2>2. ~ Active(r) /\ LastRpc(r)'
    BY <1>0, <2>1 DEF LastRpc, Active
  <2> QED
    BY <1>2, <1>3, <2>2, HeldStay
<1>7. CASE UpPut(r)
  <2>1. /\ up[r].pc = "reserving" /\ rpc[r].stage = "ok"
        /\ up'[r].pc = "putting" /\ up'[r].id = rpc[r].id /\ UNCHANGED rpc
    BY <1>0, <1>7 DEF UpPut, Upload
  <2>2. LastRpc(r)'
    BY <2>1 DEF LastRpc
  <2> QED
    BY <1>2, <1>3, <2>1, <2>2, HeldStay
<1>8. CASE UpConfirm(r)
  <2>1. /\ up[r].pc = "putting" /\ up'[r].pc = "confirming"
        /\ rpc'[r].id = up[r].id /\ rpc'[r].op = "confirm"
    BY <1>0, <1>8 DEF UpConfirm, CallConfirmUpload, Upload
  <2>2. LastRpc(r)' /\ rpc'[r].id = rpc[r].id
    BY <1>0, <2>1 DEF LastRpc
  <2> QED
    BY <1>2, <1>3, <2>1, <2>2, HeldStay
<1>9. CASE UpConfirmed(r)
  <2>1. /\ up[r].pc = "confirming" /\ rpc[r].stage = "ok"
        /\ up'[r].pc = "part" /\ UNCHANGED rpc
    BY <1>0, <1>9 DEF UpConfirmed, Upload
  <2>2. rpc[r].content \in Content /\ rpc[r].op = "confirm"
    BY <2>1 DEF Inv, TypeInv, UploadInv, Progress, RpcArguments
  <2>3. \A i \in Ids : rpc[r].id = i => ~ IsReserved(i)
    BY <2>1, <2>2, StorageAssumption DEF ResultsInv, Result, PartUnderWay, IsReserved
  <2>4. LastRpc(r)'
    BY <2>1, <2>2 DEF LastRpc
  <2> QED
    BY <1>2, <1>3, <2>3, <2>4, HeldStay
<1>10. CASE UpRpcError(r) \/ UpPutError(r) \/ UpGiveUp(r)
  <2>1. up'[r].pc = "failed" /\ UNCHANGED rpc
    BY <1>0, <1>10 DEF UpRpcError, UpPutError, UpGiveUp, Upload
  <2>2. LastRpc(r)'
    BY <1>0, <2>1 DEF LastRpc
  <2> QED
    BY <1>2, <1>3, <2>1, <2>2, HeldStay
<1> QED
  BY <1>4, <1>5, <1>6, <1>7, <1>8, <1>9, <1>10 DEF UpStep

LEMMA StorageLeftovers ==
  ASSUME Inv, [Next]_vars, LeftoverInv, NEW r \in Uploads, StorageStep(r)
  PROVE  LeftoverInv'
<1>0. rpc \in [Uploads -> Rpc] /\ rpc[r] \in Rpc /\ UNCHANGED up /\ LastRpc(r)
       /\ files \in [Ids -> FileRow \cup {None}]
  BY DEF Inv, TypeInv, TypeOK, StorageTypeOK, StorageStep, LeftoverInv
<1>1. \A s \in Uploads \ {r} : up'[s] = up[s] /\ rpc'[s] = rpc[s]
  BY <1>0 DEF StorageStep, RpcStep, ReserveCreate, ReservePresign, ConfirmUpdate, ConfirmSelect, RpcFail
<1>2. CASE ReserveCreate(r)
  <2>1. PICK i \in Ids \ minted :
          /\ files' = [files EXCEPT ![i] = ReservedRow(rpc[r].user)]
          /\ rpc' = [rpc EXCEPT ![r].stage = "presign", ![r].id = i]
    BY <1>2 DEF ReserveCreate
  <2>2. rpc'[r].stage = "presign" /\ rpc'[r].id = i
    BY <1>0, <2>1 DEF Rpc
  <2>3. up[r].pc \in {"reserving", "failed"} /\ rpc[r].id = None
    BY <1>0, <1>2 DEF ReserveCreate, LastRpc
  <2>4. ASSUME NEW j \in Ids \ {i}, IsReserved(j)'
        PROVE  \E s \in Uploads : Active(s)' /\ rpc'[s].id = j
    <3>1. IsReserved(j)
      BY <1>0, <2>1, <2>4 DEF IsReserved
    <3>2. PICK s \in Uploads : Active(s) /\ rpc[s].id = j
      BY <3>1 DEF LeftoverInv, ReservedAreHeld
    <3>3. s # r
      BY <2>3, <3>2, StorageAssumption
    <3> QED
      BY <1>1, <3>2, <3>3 DEF Active
  <2>5. Active(r)' /\ LastRpc(r)'
    BY <1>0, <2>2, <2>3 DEF Active, LastRpc
  <2>6. \A s \in Uploads : LastRpc(s)'
    BY <1>1, <2>5 DEF LeftoverInv, LastRpc
  <2>7. ReservedAreHeld'
    BY <2>2, <2>4, <2>5 DEF ReservedAreHeld
  <2> QED
    BY <2>6, <2>7 DEF LeftoverInv
<1>3. CASE ReservePresign(r) \/ ConfirmUpdate(r) \/ ConfirmSelect(r) \/ RpcFail(r)
  <2>1. rpc'[r].id = rpc[r].id /\ rpc'[r].stage # "insert"
    BY <1>0, <1>3 DEF ReservePresign, ConfirmUpdate, ConfirmSelect, RpcFail, Rpc
  <2>2. LastRpc(r)'
    BY <1>0, <2>1 DEF LastRpc
  <2>3. ASSUME NEW i \in Ids, IsReserved(i)' PROVE IsReserved(i)
    <3>1. CASE ConfirmUpdate(r)
      <4>1. rpc[r].id \in Ids /\ rpc[r].content \in Content
        BY <3>1 DEF ConfirmUpdate, Inv, TypeInv, UploadInv, RpcArguments
      <4> DEFINE row == [files[rpc[r].id] EXCEPT !.size = SizeOf[rpc[r].content],
                                                 !.checksum = rpc[r].content]
      <4>2. files[rpc[r].id] \in FileRow
        BY <1>0, <3>1, <4>1 DEF ConfirmUpdate
      <4>3. row.checksum = rpc[r].content
        BY <4>2 DEF FileRow
      <4>4. files' = [files EXCEPT ![rpc[r].id] = row]
        BY <3>1 DEF ConfirmUpdate
      <4> HIDE DEF row
      <4> QED
        BY <1>0, <2>3, <4>1, <4>3, <4>4, StorageAssumption DEF IsReserved
    <3>2. CASE ReservePresign(r) \/ ConfirmSelect(r) \/ RpcFail(r)
      BY <2>3, <3>2 DEF ReservePresign, ConfirmSelect, RpcFail, IsReserved
    <3> QED
      BY <1>3, <3>1, <3>2
  <2>4. Active(r) => up'[r].pc \notin {"idle", "part", "created", "rejected"}
    BY <1>0 DEF Active
  <2> QED
    BY <1>1, <2>1, <2>2, <2>3, <2>4, HeldStay
<1> QED
  BY <1>2, <1>3 DEF StorageStep, RpcStep

LEMMA NextLeftoverInv == Inv /\ ResultsInv /\ LeftoverInv /\ [Next]_vars => LeftoverInv'
<1> SUFFICES ASSUME Inv, ResultsInv, LeftoverInv, [Next]_vars PROVE LeftoverInv'
  OBVIOUS
<1>1. ASSUME UNCHANGED <<files, rpc, up>> PROVE LeftoverInv'
  BY <1>1 DEF LeftoverInv, ReservedAreHeld, LastRpc, IsReserved, Active
<1>2. ASSUME NEW r \in Uploads, StorePut(r) PROVE UNCHANGED <<files, rpc, up>>
  BY <1>2 DEF StorePut
<1>3. ASSUME NEW d \in Downloads, DlStart(d) \/ DlStep(d) \/ DlFail(d)
      PROVE  UNCHANGED <<files, rpc, up>>
  BY <1>3 DEF DlStart, DlStep, DlLookup, DlFetch, DlDeliver, DlFail
<1> QED
  BY <1>1, <1>2, <1>3, UploadLeftovers, StorageLeftovers DEF Next, vars

(* Reserved rows never outnumber the requests that are under way or        *)
(* failed: the loop over the parts stops at the first failure.             *)
THEOREM LeftoversBounded ==
  ASSUME IsFiniteSet(Uploads)
  PROVE  Spec => []LeftoversAreBounded
<1>1. LeftoverInv => LeftoversAreBounded
  <2> SUFFICES ASSUME LeftoverInv PROVE LeftoversAreBounded
    OBVIOUS
  <2> DEFINE R == {i \in Ids : IsReserved(i)}
             A == {r \in Uploads : up[r].pc \notin {"idle", "part", "created", "rejected"}}
             T == {rpc[r].id : r \in A}
             f == [r \in A |-> rpc[r].id]
  <2>1. IsFiniteSet(A) /\ Cardinality(A) \in Nat
    BY FS_Subset, FS_CardinalityType
  <2>2. f \in Surjection(A, T)
    BY DEF Surjection
  <2>3. IsFiniteSet(T) /\ Cardinality(T) <= Cardinality(A)
    BY <2>1, <2>2, FS_Surjection
  <2>4. R \in SUBSET T
    BY DEF LeftoverInv, ReservedAreHeld, Active
  <2>5. IsFiniteSet(R) /\ Cardinality(R) <= Cardinality(T)
    BY <2>3, <2>4, FS_Subset
  <2>6. Cardinality(R) \in Nat /\ Cardinality(T) \in Nat
    BY <2>3, <2>5, FS_CardinalityType
  <2> HIDE DEF R, A, T
  <2>7. Cardinality(R) <= Cardinality(A)
    BY <2>1, <2>3, <2>5, <2>6
  <2> QED
    BY <2>7 DEF LeftoversAreBounded, R, A
<1>2. Spec => []LeftoverInv
  BY Invariant, InitResultsInv, NextResultsInv, InitLeftoverInv, NextLeftoverInv, PTL DEF Spec
<1> QED
  BY <1>1, <1>2, PTL

-----------------------------------------------------------------------------
(* The refinement.                                                         *)

CatalogState == [i \in Ids |-> CatalogOf(i)]
AcceptedState == [r \in Uploads |-> AcceptedBy(r)]
ReadState == [d \in Downloads |-> ReadOf(d)]

LEMMA InitCatalog == Init => Catalog!Init
<1> SUFFICES ASSUME Init PROVE Catalog!Init
  OBVIOUS
<1>1. \A i \in Ids : CatalogOf(i) = None
  BY DEF Init, StorageInit, CatalogOf, IsConfirmed
<1>2. \A r \in Uploads : AcceptedBy(r) = None
  BY DEF Init, AcceptedBy
<1>3. \A d \in Downloads : ReadOf(d) = [phase |-> "idle", seen |-> None, answer |-> None]
  BY DEF Init, ReadOf
<1> QED
  BY <1>1, <1>2, <1>3 DEF Catalog!Init

LEMMA FunctionUpdate ==
  ASSUME NEW S, NEW f, NEW g, f = [x \in S |-> f[x]], g = [x \in S |-> g[x]],
         NEW i \in S, NEW e, g[i] = e, \A x \in S \ {i} : g[x] = f[x]
  PROVE  g = [f EXCEPT ![i] = e]
  OBVIOUS

LEMMA CatalogStateAt ==
  /\ CatalogState = [i \in Ids |-> CatalogState[i]]
  /\ CatalogState' = [i \in Ids |-> CatalogState'[i]]
  /\ \A i \in Ids : CatalogState[i] = CatalogOf(i) /\ CatalogState'[i] = CatalogOf(i)'
  BY DEF CatalogState, CatalogOf, IsConfirmed

LEMMA ReadStateAt ==
  /\ ReadState = [d \in Downloads |-> ReadState[d]]
  /\ ReadState' = [d \in Downloads |-> ReadState'[d]]
  /\ \A d \in Downloads : ReadState[d] = ReadOf(d) /\ ReadState'[d] = ReadOf(d)'
  BY DEF ReadState, ReadOf

LEMMA SameCatalog == ASSUME UNCHANGED files PROVE UNCHANGED CatalogState
  BY DEF CatalogState, CatalogOf, IsConfirmed

LEMMA SameAccepted ==
  ASSUME NEW r \in Uploads, \A s \in Uploads \ {r} : up'[s] = up[s],
         up[r].pc # "created", up'[r].pc # "created"
  PROVE  UNCHANGED AcceptedState
<1>1. \A s \in Uploads : AcceptedBy(s)' = AcceptedBy(s)
  BY DEF AcceptedBy
<1> QED
  BY <1>1 DEF AcceptedState

LEMMA SameReads == ASSUME UNCHANGED dl PROVE UNCHANGED ReadState
  BY DEF ReadState, ReadOf

LEMMA Stutter ==
  ASSUME UNCHANGED CatalogState, UNCHANGED AcceptedState, UNCHANGED ReadState
  PROVE  [Catalog!Next]_Catalog!vars
  BY DEF CatalogState, AcceptedState, ReadState, Catalog!vars

(* What a handler does before its answer stays hidden.                     *)
LEMMA UploadRefines ==
  ASSUME Inv, NEW r \in Uploads,
         UpStart(r) \/ UpReject(r) \/ UpReserve(r) \/ UpPut(r) \/ UpConfirm(r) \/ UpConfirmed(r)
           \/ UpRpcError(r) \/ UpPutError(r) \/ UpGiveUp(r)
  PROVE  [Catalog!Next]_Catalog!vars
<1>1. UNCHANGED <<files, dl>>
  BY DEF UpStart, UpReject, UpReserve, UpPut, UpConfirm, UpConfirmed, UpRpcError, UpPutError, UpGiveUp
<1>2. up \in [Uploads -> Upload] /\ up[r] \in Upload
  BY DEF Inv, TypeInv, TypeOK
<1>3. CASE UpStart(r)
  <2>1. PICK u \in Users, b \in Batches :
          up' = [up EXCEPT ![r].pc = "part", ![r].user = u, ![r].parts = b]
    BY <1>3 DEF UpStart
  <2>2. up'[r].pc = "part" /\ \A s \in Uploads \ {r} : up'[s] = up[s]
    BY <1>2, <2>1 DEF Upload
  <2> QED
    BY <1>1, <1>3, <2>2, SameCatalog, SameAccepted, SameReads, Stutter DEF UpStart
<1>4. CASE UpReject(r) \/ UpReserve(r) \/ UpPut(r) \/ UpConfirm(r) \/ UpConfirmed(r)
             \/ UpRpcError(r) \/ UpPutError(r) \/ UpGiveUp(r)
  <2>1. up[r].pc # "created" /\ up'[r].pc # "created"
    BY <1>2, <1>4 DEF UpReject, UpReserve, UpPut, UpConfirm, UpConfirmed, UpRpcError, UpPutError,
       UpGiveUp, Upload
  <2>2. \A s \in Uploads \ {r} : up'[s] = up[s]
    BY <1>2, <1>4 DEF UpReject, UpReserve, UpPut, UpConfirm, UpConfirmed, UpRpcError, UpPutError,
       UpGiveUp
  <2> QED
    BY <1>1, <2>1, <2>2, SameCatalog, SameAccepted, SameReads, Stutter
<1> QED
  BY <1>3, <1>4

(* The 201 acknowledges files that are in the catalog.                     *)
LEMMA CreatedRefines ==
  ASSUME Inv, ResultsInv, NEW r \in Uploads, UpCreated(r)
  PROVE  [Catalog!Next]_Catalog!vars
<1> DEFINE n == Len(up[r].done)
           a == [user |-> up[r].user, parts |-> up[r].parts,
                 ids |-> [k \in DOMAIN up[r].done |-> up[r].done[k].id]]
<1>1. UNCHANGED <<files, dl>> /\ up[r].pc = "part" /\ n = Len(up[r].parts)
  BY DEF UpCreated
<1>2. up \in [Uploads -> Upload] /\ up[r] \in Upload /\ up[r].user \in Users
  BY <1>1 DEF Inv, TypeInv, TypeOK, UploadInv, UserKnown
<1>3. /\ up'[r].pc = "created" /\ up'[r].done = up[r].done
      /\ up'[r].user = up[r].user /\ up'[r].parts = up[r].parts
      /\ \A s \in Uploads \ {r} : up'[s] = up[s]
  BY <1>2 DEF UpCreated, Upload
<1>4. AcceptedBy(r) = None /\ AcceptedBy(r)' = a
  BY <1>1, <1>3 DEF AcceptedBy
<1>5. AcceptedState' = [AcceptedState EXCEPT ![r] = a]
  BY <1>3, <1>4 DEF AcceptedState, AcceptedBy
<1>6. n \in Nat /\ DOMAIN up[r].done = 1..n /\ up[r].parts \in Seq(Content)
      /\ \A k \in 1..n : up[r].done[k].id \in Ids
  <2>1. DOMAIN up[r].done = 1..n
    <3> DEFINE R == [id : Ids, file : FileRow]
    <3>1. up[r].done \in Seq(R)
      BY ResultTypes
    <3> HIDE DEF R
    <3> QED
      BY <3>1
  <2> QED
    BY <2>1, ResultTypes
<1>7. /\ DOMAIN a.ids = 1..n
      /\ \A k \in 1..n : a.ids[k] = up[r].done[k].id
  BY <1>6
<1>8. a.ids \in Seq(Ids) /\ Len(a.ids) = n
  <2> DEFINE ids == [k \in 1..n |-> up[r].done[k].id]
  <2>1. ids \in [1..n -> Ids] /\ a.ids = ids
    BY <1>6
  <2> HIDE DEF n, ids
  <2> QED
    BY <1>6, <2>1
<1>9. a # None
  <2>1. a \in [user : Users, parts : Seq(Content), ids : Seq(Ids)]
    BY <1>2, <1>6, <1>8
  <2> QED
    BY <2>1, TransferAssumption
<1>10. ASSUME NEW k \in 1..n
       PROVE  /\ CatalogState[a.ids[k]] = [owner |-> a.user, content |-> a.parts[k]]
              /\ \A j \in 1..(k-1) : a.ids[j] # a.ids[k]
  <2>1. /\ IsConfirmed(up[r].done[k].id)
        /\ files[up[r].done[k].id].owner = up[r].user
        /\ files[up[r].done[k].id].checksum = up[r].parts[k]
        /\ \A j \in 1..(k-1) : up[r].done[j].id # up[r].done[k].id
    BY DEF ResultsInv, Result, Done
  <2>2. CatalogState[up[r].done[k].id] = [owner |-> up[r].user, content |-> up[r].parts[k]]
    BY <1>6, <2>1 DEF CatalogState, CatalogOf, IsConfirmed
  <2>3. \A j \in 1..(k-1) : j \in 1..n
    BY <1>6
  <2> QED
    BY <1>7, <2>1, <2>2, <2>3
<1>11. UNCHANGED CatalogState /\ UNCHANGED ReadState
  BY <1>1, SameCatalog, SameReads
<1>12. AcceptedState[r] = None /\ AcceptedState'[r] = a
  BY <1>4 DEF AcceptedState
<1>13. a.parts = up[r].parts
  OBVIOUS
<1> HIDE DEF a
<1>14. Catalog!Accept(r, AcceptedState'[r])
  BY <1>1, <1>5, <1>8, <1>10, <1>11, <1>12, <1>13
  DEF Catalog!Accept, CatalogState, AcceptedState, ReadState
<1> QED
  BY <1>9, <1>12, <1>14 DEF Catalog!Next, AcceptedState

(* Of the storage service's steps only the UPDATE of a row that was        *)
(* reserved shows: it commits the file.                                    *)
LEMMA StorageRefines ==
  ASSUME Inv, [Next]_vars, NEW r \in Uploads, StorageStep(r) \/ StorePut(r)
  PROVE  [Catalog!Next]_Catalog!vars
<1>1. UNCHANGED <<up, dl>>
  BY DEF StorageStep, StorePut
<1>2. UNCHANGED AcceptedState /\ UNCHANGED ReadState
  BY <1>1, SameReads DEF AcceptedState, AcceptedBy
<1>3. files \in [Ids -> FileRow \cup {None}]
  BY DEF Inv, TypeInv, TypeOK, StorageTypeOK
<1>4. CASE StorePut(r) \/ ReservePresign(r) \/ ConfirmSelect(r) \/ RpcFail(r)
  <2>1. UNCHANGED files
    BY <1>4 DEF StorePut, ReservePresign, ConfirmSelect, RpcFail
  <2> QED
    BY <1>2, <2>1, SameCatalog, Stutter
<1>5. CASE ReserveCreate(r)
  <2>1. PICK i \in Ids \ minted : files' = [files EXCEPT ![i] = ReservedRow(rpc[r].user)]
    BY <1>5 DEF ReserveCreate
  <2>2. files[i] = None /\ files'[i].checksum = None
    BY <1>3, <2>1 DEF ReservedRow, Inv, StoreInv, RowsAreMinted
  <2>3. \A j \in Ids : CatalogOf(j)' = CatalogOf(j)
    BY <1>3, <2>1, <2>2 DEF CatalogOf, IsConfirmed
  <2> QED
    BY <1>2, <2>3, Stutter DEF CatalogState
<1>6. CASE ConfirmUpdate(r)
  <2>0. PICK i \in Ids, c \in Content : rpc[r].id = i /\ rpc[r].content = c
    BY <1>6 DEF ConfirmUpdate, Inv, TypeInv, UploadInv, RpcArguments
  <2> DEFINE row == [files[i] EXCEPT !.size = SizeOf[c], !.checksum = c]
             e == [owner |-> files[i].owner, content |-> c]
  <2>1. files[i] \in FileRow /\ files[i] # None
    BY <1>3, <1>6, <2>0 DEF ConfirmUpdate
  <2>2. row \in FileRow /\ row.checksum = c /\ row.owner = files[i].owner
    BY <2>1, StorageAssumption DEF FileRow
  <2>3. files' = [files EXCEPT ![i] = row]
    BY <1>6, <2>0 DEF ConfirmUpdate
  <2> HIDE DEF row
  <2>4. files'[i] = row /\ \A j \in Ids \ {i} : files'[j] = files[j]
    BY <1>3, <2>1, <2>3
  <2>5. CASE IsConfirmed(i)
    <3>1. \A j \in Ids : files'[j] = files[j]
      BY <2>1, <2>4, <2>5, ConfirmedStay
    <3> QED
      BY <1>2, <3>1, Stutter DEF CatalogState, CatalogOf, IsConfirmed
  <2>6. CASE ~ IsConfirmed(i)
    <3>1. CatalogOf(i) = None /\ CatalogOf(i)' = e
      <4>1. row # None /\ row.checksum # None
        BY <2>1, <2>2, StorageAssumption
      <4> QED
        BY <2>1, <2>2, <2>4, <2>6, <4>1 DEF CatalogOf, IsConfirmed
    <3>2. \A j \in Ids \ {i} : CatalogOf(j)' = CatalogOf(j)
      BY <2>4 DEF CatalogOf, IsConfirmed
    <3>3. e \in [owner : Users, content : Content]
      BY <2>1 DEF FileRow
    <3> HIDE DEF e
    <3>4. CatalogState[i] = None /\ CatalogState'[i] = e
      BY <2>1, <3>1, CatalogStateAt
    <3>5. CatalogState' = [CatalogState EXCEPT ![i] = e]
      BY <2>1, <3>2, <3>4, CatalogStateAt, FunctionUpdate
    <3>6. Catalog!Commit(i, CatalogState'[i])
      BY <1>2, <3>4, <3>5 DEF Catalog!Commit, CatalogState, AcceptedState, ReadState
    <3> QED
      BY <2>1, <3>3, <3>5, <3>6 DEF Catalog!Next, Catalog!Entry, CatalogState
  <2> QED
    BY <2>5, <2>6
<1> QED
  BY <1>4, <1>5, <1>6 DEF StorageStep, RpcStep

(* A download begins with the request and ends with the answer.            *)
LEMMA DownloadRefines ==
  ASSUME Inv, ServedInv, ServedInv', NEW d \in Downloads, DlStart(d) \/ DlStep(d) \/ DlFail(d)
  PROVE  [Catalog!Next]_Catalog!vars
<1>1. UNCHANGED <<files, up>>
  BY DEF DlStart, DlStep, DlLookup, DlFetch, DlDeliver, DlFail
<1>2. UNCHANGED CatalogState /\ UNCHANGED AcceptedState
  BY <1>1, SameCatalog DEF AcceptedState, AcceptedBy
<1>3. dl \in [Downloads -> Download] /\ dl[d] \in Download
  BY DEF Inv, TypeInv, TypeOK
<1>4. \A e \in Downloads \ {d} : dl'[e] = dl[e]
  BY <1>3 DEF DlStart, DlStep, DlLookup, DlFetch, DlDeliver, DlFail
<1>5. \A e \in Downloads \ {d} : ReadOf(e)' = ReadOf(e)
  BY <1>4 DEF ReadOf
<1>6. CASE DlStart(d)
  <2>1. PICK u \in Users, i \in Ids :
          dl' = [dl EXCEPT ![d].pc = "lookup", ![d].user = u, ![d].id = i,
                           ![d].seen = IF IsConfirmed(i) /\ files[i].owner = u
                                       THEN files[i].checksum ELSE None]
    BY <1>6 DEF DlStart
  <2> DEFINE s == IF CatalogState[i] # None /\ CatalogState[i].owner = u
                  THEN CatalogState[i].content ELSE None
  <2>2. files[i] \in FileRow \cup {None}
    BY DEF Inv, TypeInv, TypeOK, StorageTypeOK
  <2>3. s = IF IsConfirmed(i) /\ files[i].owner = u THEN files[i].checksum ELSE None
    <3>1. CASE IsConfirmed(i)
      <4>1. [owner |-> files[i].owner, content |-> files[i].checksum] # None
        BY <2>2, <3>1, TransferAssumption DEF IsConfirmed, FileRow
      <4> QED
        BY <3>1, <4>1 DEF CatalogState, CatalogOf, IsConfirmed
    <3>2. CASE ~ IsConfirmed(i)
      BY <3>2 DEF CatalogState, CatalogOf, IsConfirmed
    <3> QED
      BY <3>1, <3>2
  <2>4. /\ dl[d].pc = "idle" /\ dl'[d].pc = "lookup"
        /\ dl'[d].seen = IF IsConfirmed(i) /\ files[i].owner = u THEN files[i].checksum ELSE None
        /\ dl'[d].got = dl[d].got /\ dl[d].got = None
    BY <1>3, <1>6, <2>1 DEF DlStart, Download, ServedInv, Served
  <2>5. dl'[d].seen = s
    BY <2>3, <2>4
  <2> HIDE DEF s
  <2>6. /\ ReadOf(d) = [phase |-> "idle", seen |-> dl[d].seen, answer |-> dl[d].got]
        /\ ReadOf(d)' = [phase |-> "reading", seen |-> s, answer |-> None]
    BY <2>4, <2>5 DEF ReadOf
  <2>7. /\ ReadState[d].phase = "idle"
        /\ ReadState' = [ReadState EXCEPT ![d] = [phase |-> "reading", seen |-> s, answer |-> None]]
    <3>1. ReadState[d].phase = "idle" /\ ReadState'[d] = [phase |-> "reading", seen |-> s, answer |-> None]
      BY <2>6, ReadStateAt
    <3> DEFINE after == [phase |-> "reading", seen |-> s, answer |-> None]
    <3> HIDE DEF after
    <3> QED
      BY <1>5, <3>1, ReadStateAt, FunctionUpdate DEF after
  <2>8. Catalog!BeginRead(d, u, i)
    BY <1>2, <2>7 DEF Catalog!BeginRead, CatalogState, AcceptedState, ReadState, s
  <2> QED
    BY <2>8 DEF Catalog!Next
<1>7. CASE /\ dl[d].pc \in {"lookup", "fetch", "stream"}
           /\ dl'[d].pc \in {"fetch", "stream"}
           /\ dl'[d].seen = dl[d].seen /\ dl'[d].got = dl[d].got
  <2>1. ReadOf(d)' = ReadOf(d)
    BY <1>7 DEF ReadOf
  <2> QED
    BY <1>2, <1>5, <2>1, Stutter DEF ReadState
<1>8. CASE /\ dl[d].pc \in {"lookup", "fetch", "stream"}
           /\ dl'[d].pc \in {"ok", "missing", "cut", "error"}
           /\ dl'[d].seen = dl[d].seen
           /\ dl'[d].pc = "error" => dl'[d].got = dl[d].got
  <2> DEFINE a == IF dl'[d].pc = "error" THEN "fault" ELSE dl'[d].got
  <2>1. /\ ReadOf(d) = [phase |-> "reading", seen |-> dl[d].seen, answer |-> dl[d].got]
        /\ ReadOf(d)' = [phase |-> "answered", seen |-> dl[d].seen, answer |-> a]
    BY <1>8 DEF ReadOf
  <2>2. dl[d].seen # None => a \in {dl[d].seen, "fault"}
    BY <1>8 DEF ServedInv, Served
  <2> HIDE DEF a
  <2>3. /\ ReadState[d].phase = "reading" /\ ReadState[d].seen = dl[d].seen
        /\ ReadState'[d].answer = a
        /\ ReadState' = [ReadState EXCEPT ![d] = [phase |-> "answered", seen |-> dl[d].seen, answer |-> a]]
    <3>1. /\ ReadState[d].phase = "reading" /\ ReadState[d].seen = dl[d].seen
          /\ ReadState'[d].answer = a
          /\ ReadState'[d] = [phase |-> "answered", seen |-> dl[d].seen, answer |-> a]
      BY <2>1, ReadStateAt
    <3> DEFINE after == [phase |-> "answered", seen |-> dl[d].seen, answer |-> a]
    <3> HIDE DEF after
    <3> QED
      BY <1>5, <3>1, ReadStateAt, FunctionUpdate DEF after
  <2>4. Catalog!EndRead(d, ReadState'[d].answer)
    BY <1>2, <2>2, <2>3 DEF Catalog!EndRead, Catalog!Fault, CatalogState, AcceptedState, ReadState
  <2> QED
    BY <2>4 DEF Catalog!Next, ReadState
<1>9. CASE DlLookup(d)
  BY <1>3, <1>7, <1>8, <1>9 DEF DlLookup, Download
<1>10. CASE DlFetch(d)
  BY <1>3, <1>7, <1>8, <1>10 DEF DlFetch, Download
<1>11. CASE DlDeliver(d)
  BY <1>3, <1>8, <1>11 DEF DlDeliver, Download
<1>12. CASE DlFail(d)
  BY <1>3, <1>8, <1>12 DEF DlFail, Download
<1> QED
  BY <1>6, <1>9, <1>10, <1>11, <1>12 DEF DlStep

(* The handlers, the storage service, the table and the bucket together    *)
(* implement the catalog: a file appears whole with the UPDATE that        *)
(* confirms it, and an answer shows only what is in the catalog.           *)
THEOREM Refines == Spec => ImplementsCatalog
<1>1. Inv /\ ServedInv /\ ServedInv' /\ ResultsInv /\ [Next]_vars => [Catalog!Next]_Catalog!vars
  <2> SUFFICES ASSUME Inv, ServedInv, ServedInv', ResultsInv, [Next]_vars
               PROVE  [Catalog!Next]_Catalog!vars
    OBVIOUS
  <2>1. CASE UNCHANGED vars
    <3>1. UNCHANGED <<files, up, dl>>
      BY <2>1 DEF vars
    <3> QED
      BY <3>1, SameCatalog, SameReads, Stutter DEF AcceptedState, AcceptedBy
  <2> QED
    BY <2>1, UploadRefines, CreatedRefines, StorageRefines, DownloadRefines DEF Next, UpStep
<1>2. Spec => [](Inv /\ ServedInv /\ ResultsInv)
  BY Invariant, InitServedInv, NextServedInv, InitResultsInv, NextResultsInv, PTL DEF Spec
<1> QED
  BY <1>1, <1>2, InitCatalog, PTL DEF Spec, ImplementsCatalog, Catalog!Spec

-----------------------------------------------------------------------------
(* How many steps an upload can still take: nine for each part that is not *)
(* confirmed, of which its handler takes five, the storage service four by *)
(* RPC, and the object store, or what remains of them.                     *)
PartsLeft(u) == Len(u.parts) - Len(u.done)
UpAhead(u) ==
    CASE u.pc = "part" -> 9 * PartsLeft(u) + 1
      [] u.pc = "reserving" -> 9 * PartsLeft(u) - 2
      [] u.pc = "putting" -> 9 * PartsLeft(u) - 4
      [] u.pc = "confirming" -> 9 * PartsLeft(u) - 7
      [] OTHER -> 0
RpcAhead(c) ==
    CASE c.stage \in {"insert", "update"} -> 2
      [] c.stage \in {"presign", "select"} -> 1
      [] OTHER -> 0
PutAhead(p) == IF p.state = "sent" THEN 1 ELSE 0
StepsAhead(u, c, p) == UpAhead(u) + RpcAhead(c) + PutAhead(p)

(* A request that has not begun has sent nothing.                          *)
Ahead(r) ==
    IF up[r].pc = "idle"
    THEN rpc[r].op = "none" /\ puts[r].state = "none"
    ELSE StepsAhead(up[r], rpc[r], puts[r]) <= 9 * Len(up[r].parts) + 1

LEMMA Remaining ==
  ASSUME NEW d \in Nat, NEW n \in Nat, d <= n
  PROVE  n - d \in Nat /\ (d < n => n - d > 0) /\ n - (d + 1) = (n - d) - 1
  OBVIOUS

LEMMA AheadTyped ==
  ASSUME Inv, NEW r \in Uploads
  PROVE  /\ PartsLeft(up[r]) \in Nat
         /\ up[r].pc \in {"reserving", "putting", "confirming"} => PartsLeft(up[r]) > 0
         /\ UpAhead(up[r]) \in Nat /\ RpcAhead(rpc[r]) \in 0..2 /\ PutAhead(puts[r]) \in 0..1
         /\ RpcAhead(rpc[r]) \in Nat /\ PutAhead(puts[r]) \in Nat
         /\ StepsAhead(up[r], rpc[r], puts[r]) \in Nat
<1>1. Len(up[r].done) \in Nat /\ Len(up[r].parts) \in Nat
  BY ResultTypes
<1>2. /\ Len(up[r].done) <= Len(up[r].parts)
      /\ up[r].pc \in {"reserving", "putting", "confirming"} => Len(up[r].done) < Len(up[r].parts)
  BY DEF Inv, TypeInv, UploadInv, Progress
<1>3. /\ PartsLeft(up[r]) \in Nat
      /\ up[r].pc \in {"reserving", "putting", "confirming"} => PartsLeft(up[r]) > 0
  BY <1>1, <1>2, Remaining DEF PartsLeft
<1>4. UpAhead(up[r]) \in Nat
  BY <1>3 DEF UpAhead
<1>5. RpcAhead(rpc[r]) \in 0..2 /\ PutAhead(puts[r]) \in 0..1
  BY DEF RpcAhead, PutAhead
<1> QED
  BY <1>3, <1>4, <1>5 DEF StepsAhead

(* The same of the next state.                                             *)
Counted == \A r \in Uploads : Len(up[r].parts) \in Nat /\ StepsAhead(up[r], rpc[r], puts[r]) \in Nat

LEMMA NextAheadTyped ==
  Inv' => \A r \in Uploads : /\ Len(up'[r].parts) \in Nat
                              /\ StepsAhead(up'[r], rpc'[r], puts'[r]) \in Nat
<1>1. Inv => Counted
  BY AheadTyped, ResultTypes DEF Counted
<1>2. Inv' => Counted'
  BY <1>1, PTL
<1> QED
  BY <1>2 DEF Counted

(* A step of the handler, of its RPC, or of its PUT.                       *)
StepOf(r) == UpStep(r) \/ UpGiveUp(r) \/ StorageStep(r) \/ StorePut(r)

LEMMA OthersKept ==
  ASSUME Inv, NEW r \in Uploads, UpStart(r) \/ StepOf(r), NEW s \in Uploads \ {r}
  PROVE  up'[s] = up[s] /\ rpc'[s] = rpc[s] /\ puts'[s] = puts[s]
<1>1. up \in [Uploads -> Upload] /\ rpc \in [Uploads -> Rpc] /\ puts \in [Uploads -> Put]
  BY DEF Inv, TypeInv, TypeOK, StorageTypeOK
<1>2. CASE UpStart(r) \/ UpStep(r) \/ UpGiveUp(r) \/ StorePut(r)
  BY <1>1, <1>2 DEF UpStart, UpStep, UpGiveUp, StorePut, UpReject, UpReserve, UpPut, UpConfirm,
     UpConfirmed, UpCreated, UpRpcError, UpPutError, CallGetUploadURL, CallConfirmUpload
<1>3. CASE StorageStep(r)
  BY <1>1, <1>3 DEF StorageStep, RpcStep, ReserveCreate, ReservePresign, ConfirmUpdate, ConfirmSelect,
     RpcFail
<1> QED
  BY <1>2, <1>3 DEF StepOf

(* The handler ends.                                                       *)
LEMMA EndLessens ==
  ASSUME Inv, Inv', NEW r \in Uploads,
         UpReject(r) \/ UpCreated(r) \/ UpRpcError(r) \/ UpPutError(r) \/ UpGiveUp(r)
  PROVE  /\ up'[r].pc # "idle" /\ up'[r].parts = up[r].parts
         /\ StepsAhead(up'[r], rpc'[r], puts'[r]) < StepsAhead(up[r], rpc[r], puts[r])
<1>1. /\ up'[r].pc \in {"created", "rejected", "failed"} /\ up'[r].parts = up[r].parts
      /\ up[r].pc \in {"part", "reserving", "putting", "confirming"}
      /\ rpc'[r] = rpc[r] /\ puts'[r] = puts[r]
  BY DEF Inv, TypeInv, TypeOK, Upload, UpReject, UpCreated, UpRpcError, UpPutError, UpGiveUp
<1>2. UpAhead(up'[r]) = 0 /\ UpAhead(up[r]) > 0
  BY <1>1, AheadTyped DEF UpAhead
<1>3. StepsAhead(up'[r], rpc'[r], puts'[r]) < StepsAhead(up[r], rpc[r], puts[r])
  BY <1>1, <1>2, AheadTyped DEF StepsAhead
<1> QED
  BY <1>1, <1>3

(* The handler sends an RPC or a PUT, or goes on to the next part.         *)
LEMMA HandlerLessens ==
  ASSUME Inv, Inv', NEW r \in Uploads, UpReserve(r) \/ UpPut(r) \/ UpConfirm(r) \/ UpConfirmed(r)
  PROVE  /\ up'[r].pc # "idle" /\ up'[r].parts = up[r].parts
         /\ StepsAhead(up'[r], rpc'[r], puts'[r]) < StepsAhead(up[r], rpc[r], puts[r])
<1>0. up \in [Uploads -> Upload] /\ rpc \in [Uploads -> Rpc] /\ puts \in [Uploads -> Put]
  BY DEF Inv, TypeInv, TypeOK, StorageTypeOK
<1>1. PartsLeft(up[r]) \in Nat /\ RpcAhead(rpc[r]) \in Nat /\ PutAhead(puts[r]) \in 0..1
  BY AheadTyped
<1>2. CASE UpReserve(r) \/ UpConfirm(r)
  <2>1. /\ \/ up[r].pc = "part" /\ up'[r].pc = "reserving"
           \/ up[r].pc = "putting" /\ up'[r].pc = "confirming"
        /\ up'[r].parts = up[r].parts /\ up'[r].done = up[r].done
        /\ rpc'[r].stage \in {"insert", "update"} /\ puts'[r] = puts[r]
    BY <1>0, <1>2 DEF UpReserve, UpConfirm, CallGetUploadURL, CallConfirmUpload, Upload
  <2>2. PartsLeft(up'[r]) = PartsLeft(up[r])
    BY <2>1 DEF PartsLeft
  <2>3. UpAhead(up'[r]) = UpAhead(up[r]) - 3
    BY <1>1, <2>1, <2>2 DEF UpAhead
  <2>4. RpcAhead(rpc'[r]) = 2 /\ PutAhead(puts'[r]) = PutAhead(puts[r])
    BY <2>1 DEF RpcAhead
  <2>5. StepsAhead(up'[r], rpc'[r], puts'[r]) < StepsAhead(up[r], rpc[r], puts[r])
    BY <1>1, <2>3, <2>4, AheadTyped DEF StepsAhead
  <2> QED
    BY <2>1, <2>5
<1>3. CASE UpPut(r)
  <2>1. /\ up[r].pc = "reserving" /\ up'[r].pc = "putting"
        /\ up'[r].parts = up[r].parts /\ up'[r].done = up[r].done
        /\ rpc'[r] = rpc[r]
    BY <1>0, <1>3 DEF UpPut, Upload
  <2>2. PartsLeft(up'[r]) = PartsLeft(up[r])
    BY <2>1 DEF PartsLeft
  <2>3. UpAhead(up'[r]) = UpAhead(up[r]) - 2
    BY <1>1, <2>1, <2>2 DEF UpAhead
  <2>4. RpcAhead(rpc'[r]) = RpcAhead(rpc[r]) /\ PutAhead(puts'[r]) \in 0..1
    BY <2>1 DEF PutAhead
  <2>5. StepsAhead(up'[r], rpc'[r], puts'[r]) < StepsAhead(up[r], rpc[r], puts[r])
    BY <1>1, <2>3, <2>4, AheadTyped DEF StepsAhead
  <2> QED
    BY <2>1, <2>5
<1>4. CASE UpConfirmed(r)
  <2>1. /\ up[r].pc = "confirming" /\ up'[r].pc = "part" /\ up'[r].parts = up[r].parts
        /\ up'[r].done = Append(up[r].done, [id |-> rpc[r].id, file |-> rpc[r].reply])
        /\ rpc'[r] = rpc[r] /\ puts'[r] = puts[r]
    BY <1>0, <1>4 DEF UpConfirmed, Upload
  <2>2. Len(up'[r].done) = Len(up[r].done) + 1
    <3>1. up[r].done \in Seq([id : Ids, file : FileRow])
      BY ResultTypes
    <3> QED
      BY <2>1, <3>1
  <2>3. PartsLeft(up'[r]) = PartsLeft(up[r]) - 1
    <3>1. Len(up[r].done) \in Nat /\ Len(up[r].parts) \in Nat /\ Len(up[r].done) <= Len(up[r].parts)
      BY ResultTypes DEF Inv, TypeInv, UploadInv, Progress
    <3>2. Len(up[r].parts) - (Len(up[r].done) + 1) = (Len(up[r].parts) - Len(up[r].done)) - 1
      BY <3>1, Remaining
    <3> QED
      BY <2>1, <2>2, <3>2, Zenon DEF PartsLeft
  <2>4. UpAhead(up'[r]) = UpAhead(up[r]) - 1
    BY <1>1, <2>1, <2>3 DEF UpAhead
  <2>5. StepsAhead(up'[r], rpc'[r], puts'[r]) < StepsAhead(up[r], rpc[r], puts[r])
    BY <1>1, <2>1, <2>4, AheadTyped DEF StepsAhead
  <2> QED
    BY <2>1, <2>5
<1> QED
  BY <1>2, <1>3, <1>4

(* The storage service or the object store takes a step for the request,   *)
(* whether or not its handler still waits.                                 *)
LEMMA ServedLessens ==
  ASSUME Inv, Inv', NEW r \in Uploads, StorageStep(r) \/ StorePut(r)
  PROVE  /\ up'[r] = up[r] /\ (rpc[r].op # "none" \/ puts[r].state # "none")
         /\ StepsAhead(up'[r], rpc'[r], puts'[r]) < StepsAhead(up[r], rpc[r], puts[r])
<1>0. up \in [Uploads -> Upload] /\ rpc \in [Uploads -> Rpc] /\ puts \in [Uploads -> Put]
  BY DEF Inv, TypeInv, TypeOK, StorageTypeOK
<1>1. UpAhead(up[r]) \in Nat /\ RpcAhead(rpc[r]) \in Nat /\ PutAhead(puts[r]) \in 0..1
  BY AheadTyped
<1>2. CASE StorageStep(r)
  <2>1. /\ \/ rpc[r].stage = "insert" /\ rpc'[r].stage \in {"presign", "error"}
           \/ rpc[r].stage = "presign" /\ rpc'[r].stage \in {"ok", "error"}
           \/ rpc[r].stage = "update" /\ rpc'[r].stage \in {"select", "error"}
           \/ rpc[r].stage = "select" /\ rpc'[r].stage \in {"ok", "error"}
        /\ up' = up /\ puts' = puts
    BY <1>0, <1>2 DEF StorageStep, RpcStep, ReserveCreate, ReservePresign, ConfirmUpdate,
       ConfirmSelect, RpcFail, Rpc
  <2>2. RpcAhead(rpc'[r]) < RpcAhead(rpc[r]) /\ RpcAhead(rpc'[r]) \in Nat
    BY <2>1 DEF RpcAhead
  <2>3. rpc[r].op # "none"
    BY <2>1 DEF Inv, TypeInv, UploadInv, RpcArguments
  <2>4. StepsAhead(up'[r], rpc'[r], puts'[r]) < StepsAhead(up[r], rpc[r], puts[r])
    BY <1>1, <2>1, <2>2 DEF StepsAhead
  <2> QED
    BY <2>1, <2>3, <2>4
<1>3. CASE StorePut(r)
  <2>1. puts[r].state = "sent" /\ puts'[r].state = "stored" /\ up' = up /\ rpc' = rpc
    BY <1>0, <1>3 DEF StorePut, Put
  <2>2. PutAhead(puts[r]) = 1 /\ PutAhead(puts'[r]) = 0
    BY <2>1 DEF PutAhead
  <2>3. StepsAhead(up'[r], rpc'[r], puts'[r]) < StepsAhead(up[r], rpc[r], puts[r])
    BY <1>1, <2>1, <2>2 DEF StepsAhead
  <2> QED
    BY <2>1, <2>3
<1> QED
  BY <1>2, <1>3

LEMMA StepLessens ==
  ASSUME Inv, Inv', NEW r \in Uploads, Ahead(r), StepOf(r)
  PROVE  /\ up[r].pc # "idle" /\ up'[r].pc # "idle" /\ up'[r].parts = up[r].parts
         /\ StepsAhead(up'[r], rpc'[r], puts'[r]) < StepsAhead(up[r], rpc[r], puts[r])
<1>1. CASE UpStep(r) \/ UpGiveUp(r)
  <2>1. up[r].pc # "idle"
    BY <1>1 DEF UpStep, UpGiveUp, UpReject, UpReserve, UpPut, UpConfirm, UpConfirmed, UpCreated,
       UpRpcError, UpPutError
  <2> QED
    BY <1>1, <2>1, EndLessens, HandlerLessens DEF UpStep
<1>2. CASE StorageStep(r) \/ StorePut(r)
  BY <1>2, ServedLessens DEF Ahead
<1> QED
  BY <1>1, <1>2 DEF StepOf

(* The request begins.                                                     *)
LEMMA StartAhead ==
  ASSUME Inv, Inv', NEW r \in Uploads, Ahead(r), UpStart(r)
  PROVE  up[r].pc = "idle" /\ Ahead(r)'
<1>1. /\ up[r].pc = "idle" /\ up'[r].pc = "part" /\ up'[r].done = up[r].done
      /\ rpc'[r] = rpc[r] /\ puts'[r] = puts[r]
  BY DEF UpStart, Inv, TypeInv, TypeOK, Upload
<1>2. Len(up'[r].done) = 0
  BY <1>1 DEF Inv, TypeInv, UploadInv, Progress
<1>3. RpcAhead(rpc'[r]) = 0 /\ PutAhead(puts'[r]) = 0
  BY <1>1 DEF Ahead, Inv, TypeInv, UploadInv, RpcArguments, RpcAhead, PutAhead
<1>4. Len(up'[r].parts) \in Nat
  BY NextAheadTyped
<1>5. UpAhead(up'[r]) = 9 * Len(up'[r].parts) + 1
  BY <1>1, <1>2, <1>4 DEF UpAhead, PartsLeft
<1>6. StepsAhead(up'[r], rpc'[r], puts'[r]) = 9 * Len(up'[r].parts) + 1
  BY <1>3, <1>4, <1>5 DEF StepsAhead
<1> QED
  BY <1>1, <1>4, <1>6 DEF Ahead

LEMMA NextAhead ==
  ASSUME Inv, Inv', [Next]_vars, \A r \in Uploads : Ahead(r), NEW s \in Uploads
  PROVE  /\ Ahead(s)'
         /\ up[s].pc # "idle" /\ <<up'[s], rpc'[s], puts'[s]>> # <<up[s], rpc[s], puts[s]>>
               => StepsAhead(up'[s], rpc'[s], puts'[s]) < StepsAhead(up[s], rpc[s], puts[s])
<1>1. CASE up'[s] = up[s] /\ rpc'[s] = rpc[s] /\ puts'[s] = puts[s]
  BY <1>1 DEF Ahead
<1>2. ASSUME StepOf(s) PROVE /\ Ahead(s)'
                             /\ StepsAhead(up'[s], rpc'[s], puts'[s]) < StepsAhead(up[s], rpc[s], puts[s])
  <2>1. /\ up[s].pc # "idle" /\ up'[s].pc # "idle" /\ up'[s].parts = up[s].parts
        /\ StepsAhead(up'[s], rpc'[s], puts'[s]) < StepsAhead(up[s], rpc[s], puts[s])
    BY <1>2, StepLessens
  <2>2. /\ StepsAhead(up[s], rpc[s], puts[s]) \in Nat /\ StepsAhead(up'[s], rpc'[s], puts'[s]) \in Nat
        /\ Len(up[s].parts) \in Nat
    BY AheadTyped, NextAheadTyped, ResultTypes
  <2>3. StepsAhead(up[s], rpc[s], puts[s]) <= 9 * Len(up[s].parts) + 1
    BY <2>1 DEF Ahead
  <2>4. StepsAhead(up'[s], rpc'[s], puts'[s]) <= 9 * Len(up'[s].parts) + 1
    BY <2>1, <2>2, <2>3
  <2> QED
    BY <2>1, <2>4 DEF Ahead
<1>3. CASE UpStart(s)
  BY <1>3, StartAhead
<1>4. ASSUME NEW r \in Uploads \ {s}, UpStart(r) \/ StepOf(r) 
      PROVE  up'[s] = up[s] /\ rpc'[s] = rpc[s] /\ puts'[s] = puts[s]
  BY <1>4, OthersKept
<1>5. CASE \E d \in Downloads : DlStart(d) \/ DlStep(d) \/ DlFail(d)
  BY <1>1, <1>5 DEF DlStart, DlStep, DlFail, DlLookup, DlFetch, DlDeliver
<1>6. CASE UNCHANGED vars
  BY <1>1, <1>6 DEF vars
<1> QED
  BY <1>1, <1>2, <1>3, <1>4, <1>5, <1>6 DEF Next, StepOf

(* Nothing of a request is repeated: it takes at most nine steps for each  *)
(* of its parts and one more, counting those of the storage service and of *)
(* the object store, whoever fails, gives up, or comes late.               *)
THEOREM UploadIsBounded ==
  Spec => /\ [](\A r \in Uploads : up[r].pc # "idle" =>
                   StepsAhead(up[r], rpc[r], puts[r]) \in 0..(9 * Len(up[r].parts) + 1))
          /\ [][\A r \in Uploads :
                   up[r].pc # "idle" /\ <<up'[r], rpc'[r], puts'[r]>> # <<up[r], rpc[r], puts[r]>>
                      => StepsAhead(up'[r], rpc'[r], puts'[r]) < StepsAhead(up[r], rpc[r], puts[r])]_vars
<1> DEFINE Bounds == \A r \in Uploads : Ahead(r)
           Bounded == \A r \in Uploads : up[r].pc # "idle" =>
                         StepsAhead(up[r], rpc[r], puts[r]) \in 0..(9 * Len(up[r].parts) + 1)
           Lessens == \A r \in Uploads :
                         up[r].pc # "idle"
                         /\ <<up'[r], rpc'[r], puts'[r]>> # <<up[r], rpc[r], puts[r]>>
                            => StepsAhead(up'[r], rpc'[r], puts'[r])
                                  < StepsAhead(up[r], rpc[r], puts[r])
<1>1. Init => Bounds
  BY DEF Init, StorageInit, NoRpc, Ahead
<1>2. Inv /\ Inv' /\ Bounds /\ [Next]_vars => Bounds' /\ [Lessens]_vars
  BY NextAhead
<1>3. Inv /\ Bounds => Bounded
  <2> SUFFICES ASSUME Inv, Bounds, NEW r \in Uploads, up[r].pc # "idle"
               PROVE  StepsAhead(up[r], rpc[r], puts[r]) \in 0..(9 * Len(up[r].parts) + 1)
    OBVIOUS
  <2>1. StepsAhead(up[r], rpc[r], puts[r]) \in Nat /\ Len(up[r].parts) \in Nat
    BY AheadTyped, ResultTypes
  <2>2. StepsAhead(up[r], rpc[r], puts[r]) <= 9 * Len(up[r].parts) + 1
    BY DEF Ahead
  <2> QED
    BY <2>1, <2>2
<1>4. Spec => []Bounds /\ []Bounded /\ [][Lessens]_vars
  <2> HIDE DEF Bounds, Bounded, Lessens
  <2> QED
    BY <1>1, <1>2, <1>3, Invariant, PTL DEF Spec
<1> QED
  BY <1>4

=============================================================================
