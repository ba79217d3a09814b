---------------------------- MODULE StreamedUpload ----------------------------
(***************************************************************************)
(* The RPC UploadFile: the client streams the chunks of a file, a pump in  *)
(* the storage service moves them from the stream into a pipe, and the     *)
(* handler copies the pipe into the object store and then inserts the row. *)
(* The stream is bounded, the pipe holds nothing: each of the three waits  *)
(* for the next.  Uploads share nothing, so this is one of them.  The      *)
(* client of this repository names no owner; another may.                  *)
(***************************************************************************)
EXTENDS Naturals, Sequences

CONSTANTS
    MaxChunks,  \* bound on the length of a file
    Window,     \* messages under way in the stream
    Absent

ASSUME StreamAssumption ==
    MaxChunks \in Nat /\ Window \in Nat \ {0} /\ Absent \notin Nat

VARIABLES
    input,   \* the file, whether its owner is named, and the object store behind the service
    client,  \* storageClient.Store and the chunks it has sent
    net,     \* the messages under way, and how the stream was ended
    pump,    \* the goroutine of UploadFile
    pipe,    \* how the pump ended the pipe
    store,   \* FileService.Store, the chunks it has read, and what it failed of (history)
    object,  \* the length of the object, as far as it is written
    row      \* the size in the row

vars == <<input, client, net, pump, pipe, store, object, row>>

Init ==
    /\ input \in [length : 0..MaxChunks, owned : BOOLEAN, backend : {"local", "s3"}]
    /\ client = [pc |-> "info", sent |-> 0]
    /\ net = [queue |-> <<>>, end |-> "open"]
    /\ pump = "none" /\ pipe = "open"
    /\ store = [pc |-> "first", got |-> 0, why |-> "none"]
    /\ object = Absent /\ row = Absent

ClientDone == client.pc \in {"ok", "failed"}
StoreDone == store.pc \in {"ok", "failed"}
Pumping == pump \in {"receiving", "writing"}

-----------------------------------------------------------------------------
(* The client.                                                             *)

Send(message, c) ==
    /\ ~ StoreDone /\ Len(net.queue) < Window
    /\ net' = [net EXCEPT !.queue = Append(@, message)]
    /\ client' = c
    /\ UNCHANGED <<input, pump, pipe, store, object, row>>

SendInfo == client.pc = "info" /\ Send("info", [client EXCEPT !.pc = "sending"])

SendChunk ==
    /\ client.pc = "sending" /\ client.sent < input.length
    /\ Send("chunk", [client EXCEPT !.sent = @ + 1])

(* CloseAndReceive.                                                        *)
SendClose ==
    /\ client.pc = "sending" /\ client.sent = input.length
    /\ client' = [client EXCEPT !.pc = "waiting"]
    /\ net' = [net EXCEPT !.end = "eof"]
    /\ UNCHANGED <<input, pump, pipe, store, object, row>>

(* An error, or the end of the caller's context, ends the stream, and what *)
(* is under way may not arrive.                                            *)
GiveUp ==
    /\ client' = [client EXCEPT !.pc = "failed"]
    /\ \E n \in 0..Len(net.queue) :
          net' = [queue |-> SubSeq(net.queue, 1, n), end |-> "reset"]
    /\ UNCHANGED <<input, pump, pipe, store, object, row>>

(* A send meets a handler that has returned.                               *)
SendFails == client.pc \in {"info", "sending"} /\ StoreDone /\ GiveUp

(* The content cannot be read, the caller goes away, the answer is lost.   *)
Abandon == ~ ClientDone /\ GiveUp

Receive ==
    /\ client.pc = "waiting" /\ StoreDone
    /\ client' = [client EXCEPT !.pc = store.pc]
    /\ UNCHANGED <<input, net, pump, pipe, store, object, row>>

-----------------------------------------------------------------------------
(* The pump.                                                               *)

PumpReceive ==
    /\ pump = "receiving" /\ net.queue # <<>>
    /\ pump' = "writing"
    /\ net' = [net EXCEPT !.queue = Tail(@)]
    /\ UNCHANGED <<input, client, pipe, store, object, row>>

PumpEnd(how) ==
    /\ pump' = "done" /\ pipe' = how
    /\ UNCHANGED <<input, client, net, store, object, row>>

(* Mutant: the pipe is not closed.                                         *)
PumpEof_Open == pump = "receiving" /\ net.queue = <<>> /\ net.end = "eof" /\ PumpEnd("open")
PumpEof == pump = "receiving" /\ net.queue = <<>> /\ net.end = "eof" /\ PumpEnd("eof")

(* The stream broke, or the handler has returned: CloseWithError comes     *)
(* before the deferred Close, and the first of the two counts.             *)
(* Mutants: the error of the stream is not looked at; it is waited for.    *)
PumpError_Close == pump = "receiving" /\ (net.end = "reset" \/ StoreDone) /\ PumpEnd("eof")
PumpError_Waits == pump = "receiving" /\ StoreDone /\ PumpEnd("error")
PumpError == pump = "receiving" /\ (net.end = "reset" \/ StoreDone) /\ PumpEnd("error")

-----------------------------------------------------------------------------
(* UploadFile and FileService.Store.                                       *)

StoreFail(why) == store' = [store EXCEPT !.pc = "failed", !.why = why]

(* The first message starts the pump.                                      *)
FirstMessage ==
    /\ store.pc = "first" /\ net.queue # <<>>
    /\ net' = [net EXCEPT !.queue = Tail(@)]
    /\ pump' = "receiving"
    /\ store' = [store EXCEPT !.pc = "open"]
    /\ UNCHANGED <<input, client, pipe, object, row>>

FirstMissing ==
    /\ store.pc = "first" /\ net.queue = <<>> /\ net.end = "reset"
    /\ StoreFail("stream")
    /\ UNCHANGED <<input, client, net, pump, pipe, object, row>>

(* The local store creates its file before it reads.                       *)
Open ==
    /\ store.pc = "open"
    /\ store' = [store EXCEPT !.pc = "copy"]
    /\ object' = IF input.backend = "local" THEN 0 ELSE object
    /\ UNCHANGED <<input, client, net, pump, pipe, row>>

(* A read of the pipe takes what the pump is writing.                      *)
Copy ==
    /\ store.pc = "copy" /\ pump = "writing"
    /\ pump' = "receiving"
    /\ store' = [store EXCEPT !.got = @ + 1]
    /\ object' = IF input.backend = "local" THEN object + 1 ELSE object
    /\ UNCHANGED <<input, client, net, pipe, row>>

(* The pipe ends: an S3 PUT takes effect as a whole.                       *)
CopyEnd ==
    /\ store.pc = "copy" /\ pipe = "eof"
    /\ store' = [store EXCEPT !.pc = "create"]
    /\ object' = store.got
    /\ UNCHANGED <<input, client, net, pump, pipe, row>>

(* The local store removes its file.  Mutant: the file stays.              *)
GiveUpCopy_Keeps ==
    StoreFail("store") /\ UNCHANGED <<input, client, net, pump, pipe, object, row>>
GiveUpCopy ==
    StoreFail("store") /\ object' = Absent /\ UNCHANGED <<input, client, net, pump, pipe, row>>

(* The pipe ends with the error of the stream.                             *)
CopyBroken == store.pc = "copy" /\ pipe = "error" /\ GiveUpCopy

(* The disk or S3 fails.                                                   *)
CopyFail == store.pc \in {"open", "copy"} /\ GiveUpCopy

(* S3 stored the object and its answer is lost.                            *)
PutLost ==
    /\ store.pc = "copy" /\ pipe = "eof" /\ input.backend = "s3"
    /\ StoreFail("answer")
    /\ object' = store.got
    /\ UNCHANGED <<input, client, net, pump, pipe, row>>

(* The row; its owner is a UUID column that an empty string does not fill. *)
Create ==
    /\ store.pc = "create" /\ input.owned
    /\ store' = [store EXCEPT !.pc = "ok"]
    /\ row' = store.got
    /\ UNCHANGED <<input, client, net, pump, pipe, object>>

(* The statement fails, before or after it took effect.                    *)
CreateFail ==
    /\ store.pc = "create" /\ StoreFail("create")
    /\ row' \in {Absent} \cup (IF input.owned THEN {store.got} ELSE {})
    /\ UNCHANGED <<input, client, net, pump, pipe, object>>

(* The process of the storage service dies, the pump with it.              *)
Crash ==
    /\ ~ StoreDone /\ StoreFail("crash")
    /\ pump' = "done" /\ pipe' = "error"
    /\ UNCHANGED <<input, client, net, object, row>>

-----------------------------------------------------------------------------
ClientStep == SendInfo \/ SendChunk \/ SendClose \/ SendFails \/ Receive
PumpStep == PumpReceive \/ PumpEof \/ PumpError
StoreStep == \/ FirstMessage \/ FirstMissing \/ Open \/ Copy \/ CopyEnd \/ CopyBroken
             \/ PutLost \/ Create \/ CreateFail

Next == ClientStep \/ Abandon \/ PumpStep \/ StoreStep \/ CopyFail \/ Crash

(* A goroutine that can go on does; the disk, S3 and PostgreSQL answer.    *)
(* Nothing fails by itself.                                                *)
Fairness == WF_vars(ClientStep) /\ WF_vars(PumpStep) /\ WF_vars(StoreStep)

Spec == Init /\ [][Next]_vars
LiveSpec == Spec /\ Fairness

-----------------------------------------------------------------------------
(* Properties.                                                             *)

Message == {"info", "chunk"}
Net == [queue : Seq(Message), end : {"open", "eof", "reset"}]

(* The parts of an upload have their types, and the pump runs in between   *)
(* the first message and the end of the pipe.                              *)
TypeOK ==
    /\ input \in [length : 0..MaxChunks, owned : BOOLEAN, backend : {"local", "s3"}]
    /\ client \in [pc : {"info", "sending", "waiting", "ok", "failed"}, sent : 0..input.length]
    /\ net \in Net /\ Len(net.queue) <= Window
    /\ pump \in {"none", "receiving", "writing", "done"} /\ pipe \in {"open", "eof", "error"}
    /\ Pumping => pipe = "open"
    /\ store \in [pc : {"first", "open", "copy", "create", "ok", "failed"}, got : 0..input.length,
                  why : {"none", "stream", "store", "answer", "create", "crash"}]
    /\ object \in {Absent} \cup (0..input.length) /\ row \in {Absent} \cup (0..input.length)

(* FileService.Store: whatever breaks off, a row is the row of a whole     *)
(* file, whose object is there, and a file that the client of              *)
(* storageClient.Store was told of has its row.                            *)
RowIsWholeFile ==
    /\ row # Absent => row = input.length /\ object = input.length
    /\ client.pc = "ok" => row # Absent

(* An upload that failed leaves an object without a row only if the        *)
(* failure came after the whole object was stored, or killed the process.  *)
OrphanIsLate ==
    store.pc = "failed" /\ object # Absent /\ row = Absent => store.why \in {"answer", "create", "crash"}

(* What each of the three waits for: the client for room in the stream or  *)
(* for the answer, the pump for a message or for the reader of the pipe,   *)
(* the handler for a message or for the writer of the pipe.                *)
ClientWaits ==
    /\ ~ StoreDone
    /\ \/ client.pc = "waiting"
       \/ client.pc = "info" /\ Len(net.queue) = Window
       \/ client.pc = "sending" /\ client.sent < input.length /\ Len(net.queue) = Window
PumpWaits ==
    \/ ~ Pumping
    \/ pump = "receiving" /\ net.queue = <<>> /\ net.end = "open"
    \/ pump = "writing" /\ store.pc # "copy"
StoreWaits ==
    \/ store.pc = "first" /\ net.queue = <<>> /\ net.end # "reset"
    \/ store.pc = "copy" /\ pump # "writing" /\ pipe = "open"

(* client Store, server UploadFile: the three never wait for each other in *)
(* a circle, not even for an empty file, a full stream, or a pipe whose    *)
(* writer has gone.                                                        *)
NoCircularWait == ~ (ClientWaits /\ PumpWaits /\ StoreWaits)

(* An upload, as long as nobody fails, returns to its caller.              *)
UploadReturns == <>ClientDone

(* server UploadFile: the pump ends, unless the store has given up: nobody *)
(* closes the reading end of the pipe, and a pump in a write then stays.   *)
PumpEnds == Pumping ~> (~ Pumping \/ store.pc = "failed")

=============================================================================
