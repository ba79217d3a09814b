------------------------------ MODULE SyncArchive ------------------------------
(***************************************************************************)
(* The RPC DownloadArchive, the archive that the storage service builds    *)
(* while its caller waits: rows, a temporary file, one entry for each row, *)
(* then the file is streamed, and a pump in the client moves the stream    *)
(* into a pipe that the caller reads.  Requests share nothing that they    *)
(* change (the temporary names are unique), so this is one of them.        *)
(***************************************************************************)
EXTENDS Naturals, Sequences, FiniteSets

CONSTANTS
    Files,
    MaxIds,   \* bound on the ids of a request
    Window    \* messages under way in the stream

ASSUME SyncAssumption == MaxIds \in Nat /\ Window \in Nat \ {0}

VARIABLES
    input,   \* the ids asked for, the caller's rows, and the rows that have an object
    build,   \* FileService.DownloadArchive, then the loop that sends
    tmp,     \* the temporary file
    open,    \* the objects that are open for reading
    net,     \* the messages under way, and how the stream was ended
    pump,    \* the goroutine of storageClient.DownloadArchive
    pipe,    \* how the pipe was ended, by either side
    caller   \* the reader of the pipe, and what it has read

vars == <<input, build, tmp, open, net, pump, pipe, caller>>

Init ==
    /\ input \in {i \in [ids : UNION {[1..n -> Files] : n \in 0..MaxIds},
                         rows : SUBSET Files, stored : SUBSET Files] : i.stored \subseteq i.rows}
    /\ build = [pc |-> "rows", todo |-> {}, file |-> {}, zip |-> {}, sent |-> {}, why |-> "none"]
    /\ tmp = "none" /\ open = {}
    /\ net = [queue |-> <<>>, end |-> "open"]
    /\ pump = "receiving" /\ pipe = "open"
    /\ caller = [pc |-> "reading", got |-> {}]

Wanted == {input.ids[i] : i \in DOMAIN input.ids}
BuildDone == build.pc \in {"ok", "failed", "crashed"}

-----------------------------------------------------------------------------
(* The storage service.  Of an entry, only its file matters; file is the   *)
(* set that holds the file being added, if any.                            *)

At(pc, b) == build.pc = pc /\ build' = b /\ UNCHANGED <<input, pump, pipe, caller>>

(* An error return, which ends the stream.                                 *)
Fail(pc, why) ==
    /\ At(pc, [build EXCEPT !.pc = "failed", !.why = why])
    /\ net' = [net EXCEPT !.end = "error"]

(* One error path for all: the temporary file is closed and removed.       *)
(* Mutant: it is only closed.                                              *)
Discard_Keeps == tmp' = "closed"
Discard == tmp' = "gone"

(* Files are told apart by id: a repeated id finds one row.                *)
Rows ==
    /\ Cardinality(Wanted \cap input.rows) = Len(input.ids)
    /\ At("rows", [build EXCEPT !.pc = "temp", !.todo = Wanted \cap input.rows])
    /\ UNCHANGED <<tmp, open, net>>

RowsMissing ==
    /\ Cardinality(Wanted \cap input.rows) # Len(input.ids)
    /\ Fail("rows", "rows")
    /\ UNCHANGED <<tmp, open>>

CreateTemp ==
    /\ At("temp", [build EXCEPT !.pc = "fetch"])
    /\ tmp' = "open"
    /\ UNCHANGED <<open, net>>

(* The query or os.CreateTemp fails.                                       *)
EarlyFail == (Fail("rows", "rows") \/ Fail("temp", "temp")) /\ UNCHANGED <<tmp, open>>

Fetch(f) ==
    /\ f \in build.todo \cap input.stored
    /\ At("fetch", [build EXCEPT !.pc = "entry", !.todo = @ \ {f}, !.file = {f}])
    /\ open' = open \cup {f}
    /\ UNCHANGED <<tmp, net>>

(* The object is missing, or cannot be opened.                             *)
FetchFail == build.todo # {} /\ Fail("fetch", "fetch") /\ Discard /\ UNCHANGED open

Entry ==
    /\ At("entry", [build EXCEPT !.pc = "copy"])
    /\ UNCHANGED <<tmp, open, net>>

(* The object is not closed on this path.                                  *)
EntryFail == Fail("entry", "entry") /\ Discard /\ UNCHANGED open

Copy ==
    /\ At("copy", [build EXCEPT !.pc = "fetch", !.file = {}, !.zip = @ \cup build.file])
    /\ open' = open \ build.file
    /\ UNCHANGED <<tmp, net>>

CopyFail == Fail("copy", "copy") /\ Discard /\ open' = open \ build.file

CloseZip ==
    /\ build.todo = {}
    /\ At("fetch", [build EXCEPT !.pc = "reopen"])
    /\ tmp' = "closed"
    /\ UNCHANGED <<open, net>>

CloseZipFail == build.todo = {} /\ Fail("fetch", "close") /\ Discard /\ UNCHANGED open

Reopen ==
    /\ At("reopen", [build EXCEPT !.pc = "send"])
    /\ tmp' = "open"
    /\ UNCHANGED <<open, net>>

ReopenFail == Fail("reopen", "reopen") /\ Discard /\ UNCHANGED open

(* A read of the file and a message: here the entry of one file.           *)
Send(f) ==
    /\ f \in build.zip \ build.sent /\ net.end = "open" /\ Len(net.queue) < Window
    /\ At("send", [build EXCEPT !.sent = @ \cup {f}])
    /\ net' = [net EXCEPT !.queue = Append(@, f)]
    /\ UNCHANGED <<tmp, open>>

SendEnd ==
    /\ build.sent = build.zip /\ net.end = "open"
    /\ At("send", [build EXCEPT !.pc = "ok"])
    /\ net' = [net EXCEPT !.end = "eof"]
    /\ Discard
    /\ UNCHANGED open

(* The client has closed the stream.                                       *)
SendClosed ==
    /\ net.end # "open" /\ At("send", [build EXCEPT !.pc = "failed", !.why = "send"])
    /\ Discard
    /\ UNCHANGED <<open, net>>

(* The file cannot be read, or the connection breaks.                      *)
SendFail == net.end = "open" /\ Fail("send", "send") /\ Discard /\ UNCHANGED open

(* The process dies: the temporary file stays on the disk.                 *)
Crash ==
    /\ ~ BuildDone
    /\ build' = [build EXCEPT !.pc = "crashed"]
    /\ open' = {} /\ net' = [net EXCEPT !.end = "error"]
    /\ UNCHANGED <<input, tmp, pump, pipe, caller>>

-----------------------------------------------------------------------------
(* The client's pump and its caller.                                       *)

PumpReceive ==
    /\ pump = "receiving" /\ net.queue # <<>>
    /\ pump' = "writing"
    /\ UNCHANGED <<input, build, tmp, open, net, pipe, caller>>

(* The pump returns: the deferred calls close the pipe, which keeps the    *)
(* first end it was given, and the stream.                                 *)
(* Mutant: the stream stays open.                                          *)
PumpEnd_Leaves(how) ==
    /\ pump' = "done" /\ pipe' = IF pipe = "open" THEN how ELSE pipe
    /\ UNCHANGED <<input, build, tmp, open, net, caller>>
PumpEnd(how) ==
    /\ pump' = "done" /\ pipe' = IF pipe = "open" THEN how ELSE pipe
    /\ net' = [queue |-> <<>>, end |-> IF net.end = "open" THEN "closed" ELSE net.end]
    /\ UNCHANGED <<input, build, tmp, open, caller>>

PumpEof == pump = "receiving" /\ net.queue = <<>> /\ net.end = "eof" /\ PumpEnd("eof")

(* Mutant: the error of the stream is not looked at.                       *)
Broken == net.queue = <<>> /\ net.end \in {"error", "closed"}
PumpError_Eof == pump = "receiving" /\ Broken /\ PumpEnd("eof")
PumpError == pump = "receiving" /\ Broken /\ PumpEnd("error")

(* A write into a pipe that its reader has closed.                         *)
PumpRefused == pump = "writing" /\ pipe = "closed" /\ PumpEnd("error")

Read ==
    /\ caller.pc = "reading" /\ pump = "writing"
    /\ pump' = "receiving" /\ net' = [net EXCEPT !.queue = Tail(@)]
    /\ caller' = [caller EXCEPT !.got = @ \cup {Head(net.queue)}]
    /\ UNCHANGED <<input, build, tmp, open, pipe>>

ReadEnd ==
    /\ caller.pc = "reading" /\ pipe \in {"eof", "error"}
    /\ caller' = [caller EXCEPT !.pc = pipe]
    /\ UNCHANGED <<input, build, tmp, open, net, pump, pipe>>

(* The caller gives up and closes its end.                                 *)
CallerCloses ==
    /\ caller.pc = "reading" /\ pipe = "open"
    /\ caller' = [caller EXCEPT !.pc = "closed"] /\ pipe' = "closed"
    /\ UNCHANGED <<input, build, tmp, open, net, pump>>

(* The context of the caller's request ends, and with it the stream: what  *)
(* is under way may not arrive.                                            *)
Cancel ==
    /\ net.end \in {"open", "eof"} /\ pump # "done"
    /\ \E n \in (IF pump = "writing" THEN 1 ELSE 0)..Len(net.queue) :
          net' = [queue |-> SubSeq(net.queue, 1, n), end |-> "closed"]
    /\ UNCHANGED <<input, build, tmp, open, pump, pipe, caller>>

-----------------------------------------------------------------------------
BuildStep ==
    \/ Rows \/ RowsMissing \/ CreateTemp \/ Entry \/ Copy \/ CloseZip \/ Reopen
    \/ \E f \in Files : Fetch(f) \/ Send(f)
    \/ FetchFail /\ build.todo \cap input.stored = {}
    \/ SendEnd \/ SendClosed

Fault == \/ EarlyFail \/ FetchFail \/ EntryFail \/ CopyFail \/ CloseZipFail \/ ReopenFail
         \/ SendFail \/ Crash

PumpStep == PumpReceive \/ PumpEof \/ PumpError \/ PumpRefused
CallerStep == Read \/ ReadEnd

Next == BuildStep \/ Fault \/ PumpStep \/ CallerStep \/ CallerCloses \/ Cancel

(* A goroutine that can go on does; the caller reads to the end, unless it *)
(* gives up.  Nothing fails by itself.                                     *)
Fairness == WF_vars(BuildStep) /\ WF_vars(PumpStep) /\ WF_vars(CallerStep)

Spec == Init /\ [][Next]_vars
LiveSpec == Spec /\ Fairness

-----------------------------------------------------------------------------
(* Properties.                                                             *)

Request == {i \in [ids : Seq(Files), rows : SUBSET Files, stored : SUBSET Files] :
              i.stored \subseteq i.rows}

Build == [pc : {"rows", "temp", "fetch", "entry", "copy", "reopen", "send", "ok", "failed", "crashed"},
          todo : SUBSET Files, file : SUBSET Files, zip : SUBSET Files, sent : SUBSET Files,
          why : {"none", "rows", "temp", "fetch", "entry", "copy", "close", "reopen", "send"}]

Net == [queue : Seq(Files), end : {"open", "eof", "error", "closed"}]

(* The parts of a request have their types; the file is there as long as   *)
(* something is to be read from or written to it, and no more is under way *)
(* than the stream lets through.                                           *)
TypeOK ==
    /\ input \in Request
    /\ build \in Build /\ build.sent \subseteq build.zip
    /\ tmp \in {"none", "open", "closed", "gone"}
    /\ build.pc \in {"fetch", "entry", "copy", "send"} => tmp = "open"
    /\ open \subseteq input.stored
    /\ net \in Net /\ Len(net.queue) <= Window
    /\ pump \in {"receiving", "writing", "done"} /\ pipe \in {"open", "eof", "error", "closed"}
    /\ caller \in [pc : {"reading", "eof", "error", "closed"}, got : SUBSET Files]

(* service DownloadArchive: a caller that reads the archive to its end has *)
(* all the files it asked for, each once; every shorter archive ends in an *)
(* error, wherever it broke off.                                           *)
WholeOrError ==
    caller.pc = "eof" => caller.got = Wanted /\ Cardinality(Wanted) = Len(input.ids)

(* service DownloadArchive, deleteOnClose: a request that has returned, on *)
(* any of its paths, has removed its temporary file and has closed the     *)
(* objects it read, except the one whose entry could not be added.         *)
NothingIsHeld ==
    build.pc \in {"ok", "failed"} =>
        /\ tmp \in {"none", "gone"}
        /\ open = IF build.why = "entry" THEN build.file ELSE {}

(* Storage service, pump and caller do not wait for each other in a        *)
(* circle, not even when the caller leaves in the middle.                  *)
RequestEnds == <>(BuildDone /\ pump = "done")

=============================================================================
