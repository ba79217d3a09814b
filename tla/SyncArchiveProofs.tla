--------------------------- MODULE SyncArchiveProofs ---------------------------
(***************************************************************************)
(* The safety of an archive that its caller waits for, for any files, any  *)
(* length of the request and any window of the stream.                     *)
(*                                                                         *)
(* The inductive invariant has three parts: what the builder has done and  *)
(* has still to do are together the files that were asked for; what is     *)
(* open is what it works on; and what was sent is what the caller has or   *)
(* what is under way, as long as nobody has broken the stream.             *)
(***************************************************************************)
EXTENDS SyncArchive, FiniteSetTheorems, SequenceTheorems, TLAPS

Complete == Cardinality(Wanted) = Len(input.ids)

(* Built and still to build are what was asked for.                        *)
Built ==
    /\ build.pc \in {"temp", "fetch", "entry", "copy", "reopen", "send", "ok"}
          => Complete /\ build.todo \cup build.file \cup build.zip = Wanted
    /\ build.pc \in {"reopen", "send", "ok"} => build.todo = {}
    /\ build.pc \in {"rows", "temp", "fetch", "reopen", "send", "ok"} => build.file = {}
    /\ build.pc \in {"rows", "temp"} => build.zip = {}
    /\ build.pc = "ok" => build.sent = build.zip

(* What the builder holds.                                                 *)
Held ==
    /\ build.pc \in {"rows", "temp"} => tmp = "none"
    /\ build.pc = "failed" => tmp \in {"none", "gone"}
    /\ build.pc = "ok" => tmp = "gone"
    /\ build.why # "none" => build.pc = "failed"
    /\ build.file \subseteq input.stored
    /\ build.pc # "crashed" =>
          open = IF build.pc \in {"entry", "copy"} \/ build.why = "entry" THEN build.file ELSE {}

UnderWay(q) == {q[i] : i \in 1..Len(q)}

(* Sent is what was read or is under way.                                  *)
Flow ==
    /\ net.end \in {"open", "eof"} /\ pump # "done"
          => build.sent = caller.got \cup UnderWay(net.queue)
    /\ net.end = "eof" => build.pc = "ok"
    /\ pump = "writing" => net.queue # <<>>

Ends ==
    /\ pump # "done" => pipe \in {"open", "closed"}
    /\ pipe = "eof" => caller.got = Wanted /\ Complete
    /\ caller.pc = "eof" => pipe = "eof"

Inv == TypeOK /\ Built /\ Held /\ Flow /\ Ends

-----------------------------------------------------------------------------
LEMMA InitInv == Init => Inv
<1> SUFFICES ASSUME Init PROVE Inv
  OBVIOUS
<1>1. input \in Request
  <2>1. \A n \in 0..MaxIds : [1..n -> Files] \subseteq Seq(Files)
    BY SyncAssumption
  <2> QED
    BY <2>1 DEF Init, Request
<1>2. net \in Net /\ Len(net.queue) = 0 /\ UnderWay(net.queue) = {}
  BY DEF Init, Net, UnderWay
<1> QED
  BY <1>1, <1>2, SyncAssumption DEF Init, Inv, TypeOK, Built, Held, Flow, Ends, Build

(* The ids of a request name at most as many files as there are ids, and   *)
(* the query finds as many rows only when it finds a row for each.         *)
LEMMA RowsAreAll ==
  ASSUME TypeOK, Cardinality(Wanted \cap input.rows) = Len(input.ids)
  PROVE  Complete /\ Wanted \cap input.rows = Wanted
<1>1. input.ids \in Seq(Files) /\ Len(input.ids) \in Nat /\ DOMAIN input.ids = 1..Len(input.ids)
  BY DEF TypeOK, Request
<1>2. input.ids \in Surjection(1..Len(input.ids), Wanted)
  BY <1>1 DEF Surjection, Wanted
<1>3. IsFiniteSet(1..Len(input.ids)) /\ Cardinality(1..Len(input.ids)) = Len(input.ids)
  BY <1>1, FS_Interval
<1>4. IsFiniteSet(Wanted) /\ Cardinality(Wanted) <= Len(input.ids)
  BY <1>2, <1>3, FS_Surjection
<1>5. /\ Cardinality(Wanted) \in Nat /\ Cardinality(Wanted \cap input.rows) <= Cardinality(Wanted)
      /\ Cardinality(Wanted) = Cardinality(Wanted \cap input.rows) => Wanted = Wanted \cap input.rows
  BY <1>4, FS_Subset, FS_CardinalityType
<1>6. Cardinality(Wanted) = Len(input.ids)
  BY <1>1, <1>4, <1>5
<1> QED
  BY <1>5, <1>6 DEF Complete

(* What is under way, by a message that is sent, taken or lost.            *)
LEMMA QueueSent ==
  ASSUME NEW q \in Seq(Files), NEW f \in Files
  PROVE  /\ Append(q, f) \in Seq(Files) /\ Len(Append(q, f)) = Len(q) + 1 /\ Len(q) \in Nat
         /\ UnderWay(Append(q, f)) = UnderWay(q) \cup {f} /\ Append(q, f) # <<>>
<1>1. /\ Append(q, f) \in Seq(Files) /\ Len(Append(q, f)) = Len(q) + 1 /\ Len(q) \in Nat
      /\ Append(q, f)[Len(q) + 1] = f /\ \A i \in 1..Len(q) : Append(q, f)[i] = q[i]
      /\ Append(q, f) # <<>>
  OBVIOUS
<1>2. 1..(Len(q) + 1) = (1..Len(q)) \cup {Len(q) + 1}
  BY <1>1
<1> QED
  BY <1>1, <1>2 DEF UnderWay

LEMMA QueueTaken ==
  ASSUME NEW q \in Seq(Files), q # <<>>
  PROVE  /\ Tail(q) \in Seq(Files) /\ Len(Tail(q)) <= Len(q) /\ Head(q) \in Files
         /\ UnderWay(q) = {Head(q)} \cup UnderWay(Tail(q))
<1>1. /\ Tail(q) \in Seq(Files) /\ Len(Tail(q)) = Len(q) - 1 /\ Len(q) \in Nat \ {0}
      /\ Head(q) = q[1] /\ Head(q) \in Files
      /\ \A i \in 1..Len(Tail(q)) : Tail(q)[i] = q[i + 1]
  OBVIOUS
<1>2. ASSUME NEW i \in 1..Len(q), i # 1 PROVE i - 1 \in 1..Len(Tail(q)) /\ q[i] = Tail(q)[i - 1]
  <2>1. i - 1 \in 1..Len(Tail(q)) /\ (i - 1) + 1 = i
    BY <1>1, <1>2
  <2> QED
    BY <1>1, <2>1
<1>3. \A i \in 1..Len(Tail(q)) : i + 1 \in 1..Len(q)
  BY <1>1
<1>4. 1 \in 1..Len(q)
  BY <1>1
<1> QED
  BY <1>1, <1>2, <1>3, <1>4 DEF UnderWay

-----------------------------------------------------------------------------
(* A step of the builder.                                                  *)

LEMMA EndsKept ==
  ASSUME Ends, UNCHANGED <<input, pump, pipe, caller>> PROVE Ends'
  BY DEF Ends, Wanted, Complete

LEMMA FailInv ==
  ASSUME Inv, NEW pc \in {"rows", "temp", "fetch", "entry", "copy", "reopen", "send"},
         NEW why \in {"rows", "temp", "fetch", "entry", "copy", "close", "reopen", "send"},
         Fail(pc, why), tmp' \in {"none", "gone"}, open' \subseteq open,
         open' = IF why = "entry" THEN build.file ELSE {}
  PROVE  Inv'
<1>1. /\ UNCHANGED <<input, pump, pipe, caller>>
      /\ build' = [build EXCEPT !.pc = "failed", !.why = why] /\ net' = [net EXCEPT !.end = "error"]
  BY DEF Fail, At
<1>2. /\ build' \in Build /\ build'.pc = "failed" /\ build'.why = why
      /\ build'.sent = build.sent /\ build'.zip = build.zip /\ build'.file = build.file
  BY <1>1 DEF Inv, TypeOK, Build
<1>3. net' \in Net /\ net'.queue = net.queue /\ net'.end = "error"
  BY <1>1 DEF Inv, TypeOK, Net
<1>4. TypeOK'
  BY <1>1, <1>2, <1>3 DEF Inv, TypeOK
<1>5. Built' /\ Held'
  BY <1>1, <1>2 DEF Inv, Built, Held
<1>6. Flow'
  BY <1>1, <1>3 DEF Inv, Flow
<1> QED
  BY <1>1, <1>4, <1>5, <1>6, EndsKept DEF Inv

(* A step that neither ends the request nor touches the stream.            *)
LEMMA PrepareInv ==
  ASSUME Inv, Rows \/ CreateTemp \/ Entry \/ Copy \/ CloseZip \/ Reopen \/ \E f \in Files : Fetch(f)
  PROVE  Inv'
<1>0. UNCHANGED <<input, pump, pipe, caller, net>> /\ Wanted' = Wanted /\ (Complete' <=> Complete)
  <2>1. UNCHANGED <<input, pump, pipe, caller, net>>
    BY DEF Rows, CreateTemp, Entry, Copy, CloseZip, Reopen, Fetch, At
  <2> QED
    BY <2>1 DEF Wanted, Complete
<1>1. CASE Rows
  <2>1. Complete /\ Wanted \cap input.rows = Wanted /\ Wanted \subseteq Files
    BY <1>1, RowsAreAll DEF Rows, Inv, TypeOK, Request
  <2>2. /\ build.pc = "rows" /\ build' = [build EXCEPT !.pc = "temp", !.todo = Wanted]
        /\ UNCHANGED <<tmp, open>>
    BY <1>1, <2>1 DEF Rows, At
  <2>3. /\ build' \in Build /\ build'.pc = "temp" /\ build'.todo = Wanted /\ build'.sent = build.sent
        /\ build'.zip = build.zip /\ build'.file = build.file /\ build'.why = build.why
    BY <2>1, <2>2 DEF Inv, TypeOK, Build
  <2>4. TypeOK' /\ Held' /\ Flow'
    BY <1>0, <2>2, <2>3 DEF Inv, TypeOK, Held, Flow
  <2>5. Built'
    BY <1>0, <2>1, <2>2, <2>3 DEF Inv, Built
  <2> QED
    BY <1>0, <2>4, <2>5, EndsKept DEF Inv
<1>2. CASE CreateTemp
  <2>1. build.pc = "temp" /\ build' = [build EXCEPT !.pc = "fetch"] /\ tmp' = "open" /\ open' = open
    BY <1>2 DEF CreateTemp, At
  <2>2. /\ build' \in Build /\ build'.pc = "fetch" /\ build'.todo = build.todo /\ build'.sent = build.sent
        /\ build'.zip = build.zip /\ build'.file = build.file /\ build'.why = build.why
    BY <2>1 DEF Inv, TypeOK, Build
  <2>3. TypeOK' /\ Held' /\ Flow'
    BY <1>0, <2>1, <2>2 DEF Inv, TypeOK, Held, Flow
  <2>4. Built'
    BY <1>0, <2>1, <2>2 DEF Inv, Built
  <2> QED
    BY <1>0, <2>3, <2>4, EndsKept DEF Inv
<1>3. CASE Entry
  <2>1. build.pc = "entry" /\ build' = [build EXCEPT !.pc = "copy"] /\ UNCHANGED <<tmp, open>>
    BY <1>3 DEF Entry, At
  <2>2. /\ build' \in Build /\ build'.pc = "copy" /\ build'.todo = build.todo /\ build'.sent = build.sent
        /\ build'.zip = build.zip /\ build'.file = build.file /\ build'.why = build.why
    BY <2>1 DEF Inv, TypeOK, Build
  <2>3. TypeOK' /\ Held' /\ Flow'
    BY <1>0, <2>1, <2>2 DEF Inv, TypeOK, Held, Flow
  <2>4. Built'
    BY <1>0, <2>1, <2>2 DEF Inv, Built
  <2> QED
    BY <1>0, <2>3, <2>4, EndsKept DEF Inv
<1>4. CASE Copy
  <2>1. /\ build.pc = "copy" /\ tmp' = tmp /\ open' = open \ build.file
        /\ build' = [build EXCEPT !.pc = "fetch", !.file = {}, !.zip = @ \cup build.file]
    BY <1>4 DEF Copy, At
  <2>2. /\ build' \in Build /\ build'.pc = "fetch" /\ build'.todo = build.todo /\ build'.sent = build.sent
        /\ build'.zip = build.zip \cup build.file /\ build'.file = {} /\ build'.why = build.why
    BY <2>1 DEF Inv, TypeOK, Build
  <2>3. TypeOK' /\ Held' /\ Flow'
    BY <1>0, <2>1, <2>2 DEF Inv, TypeOK, Held, Flow
  <2>4. Built'
    BY <1>0, <2>1, <2>2 DEF Inv, Built
  <2> QED
    BY <1>0, <2>3, <2>4, EndsKept DEF Inv
<1>5. CASE CloseZip \/ Reopen
  <2>1. /\ open' = open
        /\ \/ build.pc = "fetch" /\ build.todo = {} /\ build' = [build EXCEPT !.pc = "reopen"]
              /\ tmp' = "closed"
           \/ build.pc = "reopen" /\ build' = [build EXCEPT !.pc = "send"] /\ tmp' = "open"
    BY <1>5 DEF CloseZip, Reopen, At
  <2>2. /\ build' \in Build /\ build'.todo = build.todo /\ build'.sent = build.sent
        /\ build'.zip = build.zip /\ build'.file = build.file /\ build'.why = build.why
        /\ build'.pc = IF build.pc = "fetch" THEN "reopen" ELSE "send"
    BY <2>1 DEF Inv, TypeOK, Build
  <2>3. TypeOK' /\ Held' /\ Flow'
    BY <1>0, <2>1, <2>2 DEF Inv, TypeOK, Held, Flow
  <2>4. Built'
    BY <1>0, <2>1, <2>2 DEF Inv, Built
  <2> QED
    BY <1>0, <2>3, <2>4, EndsKept DEF Inv
<1>6. ASSUME NEW f \in Files, Fetch(f) PROVE Inv'
  <2>1. /\ build.pc = "fetch" /\ tmp' = tmp /\ open' = open \cup {f}
        /\ f \in build.todo /\ f \in input.stored
        /\ build' = [build EXCEPT !.pc = "entry", !.todo = @ \ {f}, !.file = {f}]
    BY <1>6 DEF Fetch, At
  <2>2. /\ build' \in Build /\ build'.pc = "entry" /\ build'.todo = build.todo \ {f}
        /\ build'.sent = build.sent
        /\ build'.zip = build.zip /\ build'.file = {f} /\ build'.why = build.why
    BY <2>1 DEF Inv, TypeOK, Build
  <2>3. TypeOK' /\ Held' /\ Flow'
    BY <1>0, <2>1, <2>2 DEF Inv, TypeOK, Held, Flow
  <2>4. Built'
    BY <1>0, <2>1, <2>2 DEF Inv, Built
  <2> QED
    BY <1>0, <2>3, <2>4, EndsKept DEF Inv
<1> QED
  BY <1>1, <1>2, <1>3, <1>4, <1>5, <1>6

(* The errors of the builder, on which it discards what it has.            *)
LEMMA FaultInv ==
  ASSUME Inv, RowsMissing \/ EarlyFail \/ FetchFail \/ EntryFail \/ CopyFail \/ CloseZipFail
              \/ ReopenFail \/ SendFail
  PROVE  Inv'
<1>0. /\ build.pc \notin {"failed", "crashed"} =>
            build.why = "none" /\ open = IF build.pc \in {"entry", "copy"} THEN build.file ELSE {}
      /\ build.pc \in {"rows", "temp"} => tmp = "none"
  BY DEF Inv, TypeOK, Built, Held, Build
<1>1. CASE RowsMissing \/ EarlyFail
  <2>1. UNCHANGED <<tmp, open>> /\ (Fail("rows", "rows") \/ Fail("temp", "temp"))
    BY <1>1 DEF RowsMissing, EarlyFail
  <2>2. open = {} /\ tmp = "none"
    BY <1>0, <2>1 DEF Fail, At
  <2> QED
    BY <2>1, <2>2, FailInv
<1>2. CASE FetchFail
  BY <1>0, <1>2, FailInv DEF FetchFail, Discard, Fail, At
<1>3. CASE EntryFail
  BY <1>0, <1>3, FailInv DEF EntryFail, Discard, Fail, At
<1>4. CASE CopyFail
  BY <1>0, <1>4, FailInv DEF CopyFail, Discard, Fail, At
<1>5. CASE CloseZipFail
  BY <1>0, <1>5, FailInv DEF CloseZipFail, Discard, Fail, At
<1>6. CASE ReopenFail
  BY <1>0, <1>6, FailInv DEF ReopenFail, Discard, Fail, At
<1>7. CASE SendFail
  BY <1>0, <1>7, FailInv DEF SendFail, Discard, Fail, At
<1> QED
  BY <1>1, <1>2, <1>3, <1>4, <1>5, <1>6, <1>7

LEMMA CrashInv == ASSUME Inv, Crash PROVE Inv'
<1>1. /\ UNCHANGED <<input, tmp, pump, pipe, caller>> /\ open' = {}
      /\ build' = [build EXCEPT !.pc = "crashed"] /\ net' = [net EXCEPT !.end = "error"]
      /\ build.pc \notin {"ok", "failed", "crashed"}
  BY DEF Crash, BuildDone
<1>2. /\ build' \in Build /\ build'.pc = "crashed" /\ build'.why = build.why /\ build.why = "none"
      /\ build'.sent = build.sent /\ build'.zip = build.zip /\ build'.file = build.file
  BY <1>1 DEF Inv, TypeOK, Build, Held
<1>3. net' \in Net /\ net'.queue = net.queue /\ net'.end = "error"
  BY <1>1 DEF Inv, TypeOK, Net
<1>4. TypeOK' /\ Built' /\ Held'
  BY <1>1, <1>2, <1>3 DEF Inv, TypeOK, Built, Held
<1>5. Flow'
  BY <1>1, <1>3 DEF Inv, Flow
<1> QED
  BY <1>1, <1>4, <1>5, EndsKept DEF Inv

LEMMA SendInv ==
  ASSUME Inv, SendEnd \/ SendClosed \/ \E f \in Files : Send(f)
  PROVE  Inv'
<1>0. net \in Net /\ net.queue \in Seq(Files) /\ build \in Build
  BY DEF Inv, TypeOK, Net
<1>1. ASSUME NEW f \in Files, Send(f) PROVE Inv'
  <2>1. /\ f \in build.zip \ build.sent /\ net.end = "open" /\ Len(net.queue) < Window
        /\ build.pc = "send" /\ build' = [build EXCEPT !.sent = @ \cup {f}]
        /\ net' = [net EXCEPT !.queue = Append(@, f)]
        /\ UNCHANGED <<input, tmp, open, pump, pipe, caller>>
    BY <1>1 DEF Send, At
  <2>2. net' \in Net /\ net'.queue = Append(net.queue, f) /\ net'.end = "open"
    BY <1>0, <2>1, QueueSent DEF Net
  <2>3. Len(net'.queue) <= Window
    BY <1>0, <2>1, <2>2, QueueSent, SyncAssumption
  <2>4. /\ build' \in Build /\ build'.pc = "send" /\ build'.why = build.why
        /\ build'.sent = build.sent \cup {f} /\ build'.zip = build.zip /\ build'.file = build.file
        /\ build'.todo = build.todo
    BY <1>0, <2>1 DEF Build
  <2>5. TypeOK' /\ Built' /\ Held'
    BY <2>1, <2>2, <2>3, <2>4 DEF Inv, TypeOK, Built, Held, Wanted, Complete
  <2>6. UnderWay(net'.queue) = UnderWay(net.queue) \cup {f} /\ net'.queue # <<>>
    BY <1>0, <2>2, QueueSent
  <2>7. Flow'
    BY <2>1, <2>2, <2>4, <2>6 DEF Inv, Flow
  <2> QED
    BY <2>1, <2>5, <2>7, EndsKept DEF Inv
<1>2. CASE SendEnd
  <2>1. /\ build.sent = build.zip /\ net.end = "open" /\ build.pc = "send"
        /\ build' = [build EXCEPT !.pc = "ok"] /\ net' = [net EXCEPT !.end = "eof"]
        /\ tmp' = "gone" /\ UNCHANGED <<input, open, pump, pipe, caller>>
    BY <1>2 DEF SendEnd, At, Discard
  <2>2. net' \in Net /\ net'.queue = net.queue /\ net'.end = "eof"
    BY <1>0, <2>1 DEF Net
  <2>3. /\ build' \in Build /\ build'.pc = "ok" /\ build'.why = build.why
        /\ build'.sent = build.sent /\ build'.zip = build.zip /\ build'.file = build.file
        /\ build'.todo = build.todo
    BY <1>0, <2>1 DEF Build
  <2>4. TypeOK' /\ Held'
    BY <2>1, <2>2, <2>3 DEF Inv, TypeOK, Held
  <2>5. Built'
    BY <2>1, <2>3 DEF Inv, Built, Wanted, Complete
  <2>6. Flow'
    BY <2>1, <2>2, <2>3 DEF Inv, Flow
  <2> QED
    BY <2>1, <2>4, <2>5, <2>6, EndsKept DEF Inv
<1>3. CASE SendClosed
  <2>1. /\ build.pc = "send" /\ build' = [build EXCEPT !.pc = "failed", !.why = "send"]
        /\ tmp' = "gone" /\ UNCHANGED <<input, open, net, pump, pipe, caller>> /\ net.end # "open"
    BY <1>3 DEF SendClosed, At, Discard
  <2>2. /\ build' \in Build /\ build'.pc = "failed" /\ build'.why = "send" /\ build.why = "none"
        /\ build'.sent = build.sent /\ build'.zip = build.zip /\ build'.file = build.file
        /\ build'.todo = build.todo
    BY <1>0, <2>1 DEF Build, Inv, Held
  <2>3. TypeOK' /\ Held'
    BY <2>1, <2>2 DEF Inv, TypeOK, Held
  <2>4. Built' /\ Flow'
    BY <2>1, <2>2 DEF Inv, Built, Flow
  <2> QED
    BY <2>1, <2>3, <2>4, EndsKept DEF Inv
<1> QED
  BY <1>1, <1>2, <1>3

-----------------------------------------------------------------------------
(* A step of the pump or of the caller, which leave the builder alone.     *)

LEMMA BuildKept ==
  ASSUME Built, Held, UNCHANGED <<input, build, tmp, open>> PROVE Built' /\ Held'
  BY DEF Built, Held, Wanted, Complete

LEMMA PumpInv == ASSUME Inv, PumpStep PROVE Inv'
<1>0. net \in Net /\ net.queue \in Seq(Files) /\ UNCHANGED <<input, build, tmp, open, caller>>
  BY DEF Inv, TypeOK, Net, PumpStep, PumpReceive, PumpEof, PumpError, PumpRefused, PumpEnd
<1>1. CASE PumpReceive
  BY <1>0, <1>1, BuildKept DEF PumpReceive, Inv, TypeOK, Flow, Ends, Wanted, Complete
<1>2. ASSUME NEW how \in {"eof", "error"}, PumpEnd(how), pump # "done",
             how = "eof" => caller.got = Wanted /\ Complete
      PROVE  Inv'
  <2>1. /\ pump' = "done" /\ pipe' = IF pipe = "open" THEN how ELSE pipe
        /\ net' = [queue |-> <<>>, end |-> IF net.end = "open" THEN "closed" ELSE net.end]
    BY <1>2 DEF PumpEnd
  <2>2. net' \in Net /\ Len(net'.queue) = 0 /\ net'.end = (IF net.end = "open" THEN "closed" ELSE net.end)
    BY <1>0, <2>1 DEF Net
  <2>3. TypeOK'
    BY <1>0, <2>1, <2>2, SyncAssumption DEF Inv, TypeOK
  <2>4. Flow'
    BY <1>0, <2>1, <2>2 DEF Inv, Flow
  <2>5. Ends'
    BY <1>0, <1>2, <2>1 DEF Inv, Ends, Wanted, Complete
  <2> QED
    BY <1>0, <2>3, <2>4, <2>5, BuildKept DEF Inv
<1>3. CASE PumpEof
  <2>1. pump = "receiving" /\ net.queue = <<>> /\ net.end = "eof" /\ PumpEnd("eof")
    BY <1>3 DEF PumpEof
  <2>2. UnderWay(net.queue) = {}
    BY <2>1 DEF UnderWay
  <2>3. build.sent = caller.got /\ build.pc = "ok"
    BY <2>1, <2>2 DEF Inv, Flow
  <2>4. caller.got = Wanted /\ Complete
    BY <2>3 DEF Inv, Built
  <2> QED
    BY <1>2, <2>1, <2>4
<1>4. CASE PumpError \/ PumpRefused
  BY <1>2, <1>4 DEF PumpError, PumpRefused
<1> QED
  BY <1>1, <1>3, <1>4 DEF PumpStep

LEMMA CallerInv == ASSUME Inv, CallerStep \/ CallerCloses PROVE Inv'
<1>0. net \in Net /\ net.queue \in Seq(Files) /\ UNCHANGED <<input, build, tmp, open>>
  BY DEF Inv, TypeOK, Net, CallerStep, Read, ReadEnd, CallerCloses
<1>1. CASE Read
  <2>1. /\ caller.pc = "reading" /\ pump = "writing" /\ pump' = "receiving" /\ pipe' = pipe
        /\ net' = [net EXCEPT !.queue = Tail(@)] /\ net.queue # <<>>
        /\ caller' = [caller EXCEPT !.got = @ \cup {Head(net.queue)}]
    BY <1>1 DEF Read, Inv, Flow
  <2>2. net' \in Net /\ net'.queue = Tail(net.queue) /\ net'.end = net.end
    BY <1>0, <2>1, QueueTaken DEF Net
  <2>3. Len(net'.queue) <= Window
    <3>1. Len(Tail(net.queue)) = Len(net.queue) - 1 /\ Len(net.queue) \in Nat
      BY <1>0, <2>1
    <3> QED
      BY <2>2, <3>1, SyncAssumption DEF Inv, TypeOK
  <2>4. /\ caller' \in [pc : {"reading", "eof", "error", "closed"}, got : SUBSET Files]
        /\ caller'.got = caller.got \cup {Head(net.queue)} /\ caller'.pc = caller.pc
    BY <1>0, <2>1, QueueTaken DEF Inv, TypeOK
  <2>5. TypeOK'
    BY <1>0, <2>1, <2>2, <2>3, <2>4 DEF Inv, TypeOK
  <2>6. UnderWay(net.queue) = {Head(net.queue)} \cup UnderWay(net'.queue)
    BY <1>0, <2>1, <2>2, QueueTaken
  <2>7. Flow'
    BY <1>0, <2>1, <2>2, <2>4, <2>6 DEF Inv, Flow
  <2>8. Ends'
    BY <1>0, <2>1, <2>4 DEF Inv, Ends
  <2> QED
    BY <1>0, <2>5, <2>7, <2>8, BuildKept DEF Inv
<1>2. CASE ReadEnd \/ CallerCloses
  <2>1. /\ UNCHANGED <<net, pump>>
        /\ \/ caller' = [caller EXCEPT !.pc = pipe] /\ pipe \in {"eof", "error"} /\ pipe' = pipe
           \/ caller' = [caller EXCEPT !.pc = "closed"] /\ pipe' = "closed" /\ pipe = "open"
    BY <1>2 DEF ReadEnd, CallerCloses
  <2>2. /\ caller' \in [pc : {"reading", "eof", "error", "closed"}, got : SUBSET Files]
        /\ caller'.got = caller.got /\ caller'.pc = pipe'
    BY <2>1 DEF Inv, TypeOK
  <2>3. TypeOK' /\ Flow'
    BY <1>0, <2>1, <2>2 DEF Inv, TypeOK, Flow
  <2>4. Ends'
    BY <1>0, <2>1, <2>2 DEF Inv, Ends, Wanted, Complete
  <2> QED
    BY <1>0, <2>3, <2>4, BuildKept DEF Inv
<1> QED
  BY <1>1, <1>2 DEF CallerStep

LEMMA CancelInv == ASSUME Inv, Cancel PROVE Inv'
<1>0. net \in Net /\ net.queue \in Seq(Files) /\ Len(net.queue) \in Nat
      /\ UNCHANGED <<input, build, tmp, open, pump, pipe, caller>>
  BY DEF Inv, TypeOK, Net, Cancel
<1>1. PICK n \in (IF pump = "writing" THEN 1 ELSE 0)..Len(net.queue) :
             net' = [queue |-> SubSeq(net.queue, 1, n), end |-> "closed"]
  BY DEF Cancel
<1>2. n \in 0..Len(net.queue) /\ (pump = "writing" => n >= 1)
  BY <1>0, <1>1
<1>3. SubSeq(net.queue, 1, n) \in Seq(Files) /\ Len(SubSeq(net.queue, 1, n)) = n
  BY <1>0, <1>2, SubSeqProperties
<1>4. /\ net' \in Net /\ net'.end = "closed" /\ net'.queue = SubSeq(net.queue, 1, n)
      /\ pump = "writing" => net'.queue # <<>>
  BY <1>0, <1>1, <1>2, <1>3 DEF Net
<1>5. Len(net'.queue) <= Window
  BY <1>0, <1>2, <1>3, <1>4, SyncAssumption DEF Inv, TypeOK
<1>6. TypeOK' /\ Flow'
  BY <1>0, <1>4, <1>5 DEF Inv, TypeOK, Flow
<1> QED
  BY <1>0, <1>6, BuildKept, EndsKept DEF Inv

-----------------------------------------------------------------------------
THEOREM InductiveInv == Spec => []Inv
<1>1. ASSUME Inv, [Next]_vars PROVE Inv'
  <2>1. CASE BuildStep
    BY <1>1, <2>1, PrepareInv, FaultInv, SendInv DEF BuildStep
  <2>2. CASE Fault
    BY <1>1, <2>2, FaultInv, CrashInv DEF Fault
  <2>3. CASE PumpStep
    BY <1>1, <2>3, PumpInv
  <2>4. CASE CallerStep \/ CallerCloses
    BY <1>1, <2>4, CallerInv
  <2>5. CASE Cancel
    BY <1>1, <2>5, CancelInv
  <2>6. CASE UNCHANGED vars
    <3>1. UNCHANGED <<input, build, tmp, open, net, pump, pipe, caller>>
      BY <2>6 DEF vars
    <3>2. TypeOK' /\ Flow'
      BY <1>1, <3>1 DEF Inv, TypeOK, Flow
    <3> QED
      BY <1>1, <3>1, <3>2, BuildKept, EndsKept DEF Inv
  <2> QED
    BY <1>1, <2>1, <2>2, <2>3, <2>4, <2>5, <2>6 DEF Next
<1> QED
  BY InitInv, <1>1, PTL DEF Spec

(* Every part of a request keeps its type, the temporary file is there     *)
(* while it is used, and the stream holds no more than its window.         *)
THEOREM TypeCorrect == Spec => []TypeOK
<1>1. Inv => TypeOK
  BY DEF Inv
<1> QED
  BY InductiveInv, <1>1, PTL

(* A caller that reads an archive to its end has all the files it asked    *)
(* for, however long the request and wherever something broke.             *)
THEOREM WholeArchives == Spec => []WholeOrError
<1>1. Inv => WholeOrError
  BY DEF Inv, Ends, WholeOrError, Complete
<1> QED
  BY InductiveInv, <1>1, PTL

(* A request that has returned, on any path, holds nothing but the object  *)
(* whose entry could not be added.                                         *)
THEOREM ResourcesReturned == Spec => []NothingIsHeld
<1>1. Inv => NothingIsHeld
  BY DEF Inv, Held, Built, NothingIsHeld
<1> QED
  BY InductiveInv, <1>1, PTL

-----------------------------------------------------------------------------
(* What each of the three parties waits for: the builder for room in the   *)
(* stream, the pump for a message or for the reader of the pipe, the       *)
(* caller for the writer of the pipe.                                      *)
BuildWaits ==
    build.pc = "send" /\ net.end = "open" /\ build.sent # build.zip /\ Len(net.queue) = Window
PumpWaits ==
    \/ pump = "receiving" /\ net.queue = <<>> /\ net.end = "open"
    \/ pump = "writing" /\ pipe # "closed"
CallerWaits == caller.pc = "reading" /\ pump # "writing" /\ pipe \in {"open", "closed"}

NoCircularWait ==
    \/ BuildDone /\ pump = "done"
    \/ ~ BuildDone /\ ~ BuildWaits
    \/ pump # "done" /\ ~ PumpWaits
    \/ caller.pc = "reading" /\ ~ CallerWaits

(* Whoever returns ends the stream, whoever leaves knows how the pipe      *)
(* ended, and the builder works on one file at a time.                     *)
Settled ==
    /\ BuildDone \/ pump = "done" => net.end # "open"
    /\ caller.pc # "reading" => pipe = caller.pc
    /\ \A f, g \in build.file : f = g
    /\ build.todo \cup build.file \cup build.zip \subseteq Wanted

LEMMA BuildSettled ==
  ASSUME Inv, Settled, BuildStep \/ Fault PROVE Settled'
<1>0. build \in Build /\ net \in Net
  BY DEF Inv, TypeOK
<1>1. UNCHANGED <<input, pump, pipe, caller>> /\ Wanted' = Wanted
  <2>1. UNCHANGED <<input, pump, pipe, caller>>
    BY DEF BuildStep, Fault, Rows, RowsMissing, CreateTemp, Entry, Copy, CloseZip, Reopen, Fetch, Send,
       FetchFail, SendEnd, SendClosed, EarlyFail, EntryFail, CopyFail, CloseZipFail, ReopenFail,
       SendFail, Crash, Fail, At
  <2> QED
    BY <2>1 DEF Wanted
<1>2. /\ (net'.end = net.end \/ net'.end # "open")
      /\ BuildDone' => net'.end # "open"
  <2>1. CASE \/ Rows \/ CreateTemp \/ Entry \/ Copy \/ CloseZip \/ Reopen
             \/ \E f \in Files : Fetch(f) \/ Send(f)
    BY <1>0, <2>1 DEF Rows, CreateTemp, Entry, Copy, CloseZip, Reopen, Fetch, Send, At, BuildDone, Build, Net
  <2>2. CASE SendEnd \/ SendClosed \/ Crash
    BY <1>0, <2>2 DEF SendEnd, SendClosed, Crash, At, BuildDone, Build, Net
  <2>3. CASE \/ RowsMissing \/ FetchFail \/ EarlyFail \/ EntryFail \/ CopyFail \/ CloseZipFail
             \/ ReopenFail \/ SendFail
    BY <1>0, <2>3 DEF RowsMissing, FetchFail, EarlyFail, EntryFail, CopyFail, CloseZipFail, ReopenFail,
       SendFail, Fail, Net
  <2> QED
    BY <2>1, <2>2, <2>3 DEF BuildStep, Fault
<1>3. /\ \A f, g \in build'.file : f = g
      /\ build'.todo \cup build'.file \cup build'.zip \subseteq Wanted
  <2>1. CASE Rows
    BY <1>0, <2>1 DEF Rows, At, Build, Settled
  <2>2. CASE \E f \in Files : Fetch(f)
    <3>1. PICK f \in Files : Fetch(f)
      BY <2>2
    <3>2. build' = [build EXCEPT !.pc = "entry", !.todo = @ \ {f}, !.file = {f}] /\ f \in build.todo
      BY <3>1 DEF Fetch, At
    <3> QED
      BY <1>0, <3>2 DEF Build, Settled
  <2>3. CASE Copy
    BY <1>0, <2>3 DEF Copy, At, Build, Settled
  <2>4. build'.todo = build.todo /\ build'.file = build.file /\ build'.zip = build.zip
        => /\ \A f, g \in build'.file : f = g
           /\ build'.todo \cup build'.file \cup build'.zip \subseteq Wanted
    BY DEF Settled
  <2>5. CASE \/ CreateTemp \/ Entry \/ CloseZip \/ Reopen \/ SendEnd \/ SendClosed \/ Crash
             \/ \E f \in Files : Send(f)
    <3>1. build'.todo = build.todo /\ build'.file = build.file /\ build'.zip = build.zip
      BY <1>0, <2>5 DEF CreateTemp, Entry, CloseZip, Reopen, SendEnd, SendClosed, Crash, Send, At, Build
    <3> QED
      BY <2>4, <3>1
  <2>6. CASE \/ RowsMissing \/ FetchFail \/ EarlyFail \/ EntryFail \/ CopyFail \/ CloseZipFail
             \/ ReopenFail \/ SendFail
    <3>1. build'.todo = build.todo /\ build'.file = build.file /\ build'.zip = build.zip
      BY <1>0, <2>6 DEF RowsMissing, FetchFail, EarlyFail, EntryFail, CopyFail, CloseZipFail,
         ReopenFail, SendFail, Fail, At, Build
    <3> QED
      BY <2>4, <3>1
  <2> QED
    BY <2>1, <2>2, <2>3, <2>5, <2>6 DEF BuildStep, Fault
<1>4. BuildDone' \/ pump' = "done" => net'.end # "open"
  BY <1>1, <1>2 DEF Settled
<1> QED
  BY <1>1, <1>3, <1>4 DEF Settled

LEMMA FlowSettled ==
  ASSUME Inv, Settled, PumpStep \/ CallerStep \/ CallerCloses \/ Cancel PROVE Settled'
<1>0. /\ net \in Net /\ pump \in {"receiving", "writing", "done"}
      /\ pipe \in {"open", "eof", "error", "closed"}
      /\ caller \in [pc : {"reading", "eof", "error", "closed"}, got : SUBSET Files]
  BY DEF Inv, TypeOK
<1>1. UNCHANGED <<input, build>> /\ Wanted' = Wanted /\ (BuildDone' <=> BuildDone)
  <2>1. UNCHANGED <<input, build>>
    BY DEF PumpStep, PumpReceive, PumpEof, PumpError, PumpRefused, PumpEnd, CallerStep, Read, ReadEnd,
       CallerCloses, Cancel
  <2> QED
    BY <2>1 DEF Wanted, BuildDone
<1>2. BuildDone' \/ pump' = "done" => net'.end # "open"
  BY <1>0, <1>1 DEF Settled, PumpStep, PumpReceive, PumpEof, PumpError, PumpRefused, PumpEnd, CallerStep,
     Read, ReadEnd, CallerCloses, Cancel, Net
<1>3. caller'.pc # "reading" => pipe' = caller'.pc
  <2>1. CASE PumpStep
    BY <1>0, <2>1 DEF Settled, PumpStep, PumpReceive, PumpEof, PumpError, PumpRefused, PumpEnd
  <2>2. CASE CallerStep \/ CallerCloses \/ Cancel
    BY <1>0, <2>2 DEF Settled, CallerStep, Read, ReadEnd, CallerCloses, Cancel
  <2> QED
    BY <2>1, <2>2
<1> QED
  BY <1>1, <1>2, <1>3 DEF Settled

THEOREM SettledAlways == Spec => []Settled
<1>1. Init => Settled
  BY DEF Init, Settled, BuildDone
<1>2. ASSUME Inv, Settled, [Next]_vars PROVE Settled'
  <2>1. CASE UNCHANGED vars
    BY <1>2, <2>1 DEF vars, Settled, BuildDone, Wanted
  <2> QED
    BY <1>2, <2>1, BuildSettled, FlowSettled DEF Next
<1> QED
  BY InductiveInv, <1>1, <1>2, PTL DEF Spec

(* Storage service, pump and caller never wait for each other in a circle, *)
(* for any window: not when the caller leaves in the middle, and not when  *)
(* the service is gone and its messages are still under way.               *)
THEOREM NobodyIsStuck == Spec => []NoCircularWait
<1>1. Inv /\ Settled => NoCircularWait
  <2> SUFFICES ASSUME Inv, Settled, ~ (BuildDone /\ pump = "done"), BuildDone \/ BuildWaits,
                      pump = "done" \/ PumpWaits, caller.pc # "reading" \/ CallerWaits
               PROVE  FALSE
    BY DEF NoCircularWait
  <2>1. net.queue = <<>> => Len(net.queue) = 0
    OBVIOUS
  <2>2. pump # "done"
    <3>1. ~ BuildDone => net.end = "open"
      BY DEF BuildWaits
    <3> QED
      BY <3>1 DEF Settled
  <2>3. CASE pump = "receiving"
    <3>1. net.end = "open" /\ Len(net.queue) = 0
      BY <2>1, <2>2, <2>3 DEF PumpWaits
    <3> QED
      BY <3>1, SyncAssumption DEF BuildWaits, Settled
  <2>4. CASE pump = "writing"
    <3>1. pipe = "open" /\ caller.pc # "reading"
      BY <2>2, <2>4 DEF PumpWaits, CallerWaits, Inv, Ends
    <3> QED
      BY <3>1 DEF Settled, Inv, TypeOK
  <2> QED
    BY <2>2, <2>3, <2>4 DEF Inv, TypeOK
<1> QED
  BY InductiveInv, SettledAlways, <1>1, PTL

-----------------------------------------------------------------------------
(* How many steps a request can still take.  A file takes two steps into   *)
(* the stream for each of its stages, and at most six in all; what each of *)
(* the parties has before it comes on top.                                 *)
Asked == Len(input.ids)
Todo == Cardinality(build.todo)
Unsent == Cardinality(build.zip \ build.sent)
Queued == Len(net.queue)
BuildAhead ==
    CASE build.pc = "rows" -> 6 * Asked + 5 [] build.pc = "temp" -> 4
      [] build.pc = "entry" -> 8 [] build.pc = "copy" -> 7 [] build.pc = "fetch" -> 3
      [] build.pc = "reopen" -> 2 [] build.pc = "send" -> 1 [] OTHER -> 0
PumpAhead == CASE pump = "receiving" -> 2 [] pump = "writing" -> 1 [] OTHER -> 0
EndAhead == CASE net.end = "open" -> 2 [] net.end = "eof" -> 1 [] OTHER -> 0
CallerAhead == IF caller.pc = "reading" THEN 1 ELSE 0
Building == 6 * Todo + 3 * Unsent + BuildAhead
Flowing == 2 * Queued + PumpAhead + EndAhead + CallerAhead
StepsAhead == Building + Flowing
StepsAtMost == 6 * Asked + 10

(* What becomes less when one part of it does.                             *)
LEMMA LessBuilding ==
  ASSUME NEW t \in Nat, NEW u \in Nat, NEW b \in Nat, NEW u2 \in Nat, NEW b2 \in Nat,
         \/ u2 = u /\ b2 < b
         \/ u2 <= u + 1 /\ b = 7 /\ b2 = 3
  PROVE  6 * t + 3 * u2 + b2 < 6 * t + 3 * u + b
  OBVIOUS

LEMMA LessFlowing ==
  ASSUME NEW q \in Nat, NEW p \in Nat, NEW e \in Nat, NEW c \in Nat,
         NEW q2 \in Nat, NEW p2 \in Nat, NEW e2 \in Nat, q2 <= q, p2 <= p, e2 <= e
  PROVE  /\ 2 * q2 + p2 + e2 + c <= 2 * q + p + e + c
         /\ p2 < p \/ e2 < e => 2 * q2 + p2 + e2 + c < 2 * q + p + e + c
  OBVIOUS

LEMMA LessAhead ==
  ASSUME NEW b \in Nat, NEW f \in Nat, NEW b2 \in Nat, NEW f2 \in Nat,
         \/ b2 < b /\ f2 <= f
         \/ b2 = b - 3 /\ f2 = f + 2
         \/ b2 = b /\ f2 < f
  PROVE  b2 + f2 < b + f
  OBVIOUS

LEMMA OneMore ==
  ASSUME NEW S, IsFiniteSet(S), NEW f, NEW T, T \subseteq S \cup {f}
  PROVE  Cardinality(T) <= Cardinality(S) + 1
<1>1. /\ IsFiniteSet(S \cup {f}) /\ Cardinality(S) \in Nat
      /\ \/ Cardinality(S \cup {f}) = Cardinality(S)
         \/ Cardinality(S \cup {f}) = Cardinality(S) + 1
  BY FS_AddElement, FS_CardinalityType
<1>2. Cardinality(T) \in Nat /\ Cardinality(T) <= Cardinality(S \cup {f})
  BY <1>1, FS_Subset, FS_CardinalityType
<1> QED
  BY <1>1, <1>2

LEMMA OneLess ==
  ASSUME NEW S, IsFiniteSet(S), NEW f \in S
  PROVE  Cardinality(S \ {f}) = Cardinality(S) - 1
  BY FS_RemoveElement

LEMMA AheadTyped ==
  ASSUME Inv, Settled
  PROVE  /\ Asked \in Nat /\ Todo \in Nat /\ Unsent \in Nat /\ Queued \in Nat
         /\ BuildAhead \in Nat /\ PumpAhead \in 0..2 /\ EndAhead \in 0..2 /\ CallerAhead \in 0..1
         /\ Building \in Nat /\ Flowing \in Nat /\ StepsAhead \in Nat
         /\ IsFiniteSet(build.todo) /\ IsFiniteSet(build.zip \ build.sent)
<1>1. input.ids \in Seq(Files) /\ Asked \in Nat /\ DOMAIN input.ids = 1..Len(input.ids)
  BY DEF Inv, TypeOK, Request, Asked
<1>2. IsFiniteSet(Wanted)
  <2>1. input.ids \in Surjection(1..Len(input.ids), Wanted)
    BY <1>1 DEF Surjection, Wanted
  <2>2. IsFiniteSet(1..Len(input.ids))
    BY <1>1, FS_Interval
  <2> QED
    BY <2>1, <2>2, FS_Surjection
<1>3. /\ IsFiniteSet(build.todo) /\ IsFiniteSet(build.zip \ build.sent)
      /\ Todo \in Nat /\ Unsent \in Nat
  BY <1>2, FS_Subset, FS_CardinalityType DEF Settled, Todo, Unsent
<1>4. Queued \in Nat
  BY DEF Inv, TypeOK, Net, Queued
<1>5. BuildAhead \in Nat /\ PumpAhead \in 0..2 /\ EndAhead \in 0..2 /\ CallerAhead \in 0..1
  BY <1>1 DEF BuildAhead, PumpAhead, EndAhead, CallerAhead
<1>6. Building \in Nat
  BY <1>3, <1>5 DEF Building
<1>7. Flowing \in Nat
  BY <1>4, <1>5 DEF Flowing
<1> QED
  BY <1>1, <1>3, <1>4, <1>5, <1>6, <1>7 DEF StepsAhead

(* The same of the next state.                                             *)
LEMMA NextAheadTyped ==
  (Inv /\ Settled)' => (/\ Todo \in Nat /\ Unsent \in Nat /\ Queued \in Nat /\ BuildAhead \in Nat
                        /\ PumpAhead \in 0..2 /\ EndAhead \in 0..2 /\ CallerAhead \in 0..1
                        /\ Building \in Nat /\ Flowing \in Nat /\ StepsAhead \in Nat)'
<1>1. Inv /\ Settled => /\ Todo \in Nat /\ Unsent \in Nat /\ Queued \in Nat /\ BuildAhead \in Nat
                        /\ PumpAhead \in 0..2 /\ EndAhead \in 0..2 /\ CallerAhead \in 0..1
                        /\ Building \in Nat /\ Flowing \in Nat /\ StepsAhead \in Nat
  BY AheadTyped
<1> QED
  BY <1>1, PTL

(* Nothing flows in a step that leaves stream, pump and caller alone, and  *)
(* nothing is built in one that leaves the builder alone.                  *)
LEMMA NothingFlows == UNCHANGED <<net, pump, caller>> => Flowing' = Flowing
  BY DEF Flowing, Queued, PumpAhead, EndAhead, CallerAhead

LEMMA NothingBuilt == UNCHANGED <<input, build>> => Building' = Building
  BY DEF Building, Todo, Unsent, BuildAhead, Asked

LEMMA SameRequest == Next => input' = input
<1>1. BuildStep \/ Fault => input' = input
  BY DEF BuildStep, Fault, Rows, RowsMissing, CreateTemp, Entry, Copy, CloseZip, Reopen, Fetch, Send,
     FetchFail, SendEnd, SendClosed, EarlyFail, EntryFail, CopyFail, CloseZipFail, ReopenFail,
     SendFail, Crash, Fail, At
<1>2. PumpStep \/ CallerStep \/ CallerCloses \/ Cancel => input' = input
  BY DEF PumpStep, PumpReceive, PumpEof, PumpError, PumpRefused, PumpEnd, CallerStep, Read, ReadEnd,
     CallerCloses, Cancel
<1> QED
  BY <1>1, <1>2 DEF Next

(* A builder that goes on, or gives up, over the same sets.                *)
LEMMA BuilderMoves ==
  ASSUME Inv, Settled, input' = input, build'.todo = build.todo, build'.zip = build.zip,
         build'.sent = build.sent, BuildAhead' < BuildAhead, BuildAhead' \in Nat
  PROVE  Building' < Building
<1>1. Todo' = Todo /\ Unsent' = Unsent
  BY DEF Todo, Unsent
<1>2. Todo \in Nat /\ Unsent \in Nat /\ BuildAhead \in Nat
  BY AheadTyped
<1>3. 6 * Todo + 3 * Unsent' + BuildAhead' < 6 * Todo + 3 * Unsent + BuildAhead
  BY <1>1, <1>2, LessBuilding
<1> QED
  BY <1>1, <1>3, Zenon DEF Building

LEMMA BuildLessens ==
  ASSUME Inv, Settled, (Inv /\ Settled)',
         Rows \/ CreateTemp \/ Entry \/ Copy \/ CloseZip \/ Reopen \/ (\E f \in Files : Fetch(f))
  PROVE  Building' < Building /\ Flowing' = Flowing
<1>0. build \in Build /\ net \in Net /\ build.sent \subseteq build.zip
  BY DEF Inv, TypeOK
<1>1. UNCHANGED <<net, pump, caller>> /\ input' = input
  BY DEF Rows, CreateTemp, Entry, Copy, CloseZip, Reopen, Fetch, At
<1>2. Flowing' = Flowing
  BY <1>1, NothingFlows
<1>3. /\ Asked \in Nat /\ Todo \in Nat /\ Unsent \in Nat /\ BuildAhead \in Nat
      /\ IsFiniteSet(build.todo) /\ IsFiniteSet(build.zip \ build.sent)
      /\ Todo' \in Nat /\ Unsent' \in Nat /\ BuildAhead' \in Nat
  BY AheadTyped, NextAheadTyped
<1>4. CASE Rows
  <2>1. build'.todo = Wanted \cap input.rows /\ build'.zip = build.zip /\ build'.sent = build.sent
        /\ build.pc = "rows" /\ build'.pc = "temp"
    BY <1>0, <1>4 DEF Rows, At, Build
  <2>2. Todo' = Asked /\ Unsent' = Unsent
    BY <1>4, <2>1 DEF Rows, Todo, Asked, Unsent
  <2>3. BuildAhead = 6 * Asked + 5 /\ BuildAhead' = 4
    BY <2>1 DEF BuildAhead
  <2> QED
    BY <1>2, <1>3, <2>2, <2>3 DEF Building
<1>5. CASE CreateTemp \/ Entry \/ CloseZip \/ Reopen
  <2>1. /\ build'.todo = build.todo /\ build'.zip = build.zip /\ build'.sent = build.sent
        /\ \/ build.pc = "temp" /\ build'.pc = "fetch"
           \/ build.pc = "entry" /\ build'.pc = "copy"
           \/ build.pc = "fetch" /\ build'.pc = "reopen"
           \/ build.pc = "reopen" /\ build'.pc = "send"
    BY <1>0, <1>5 DEF CreateTemp, Entry, CloseZip, Reopen, At, Build
  <2>2. BuildAhead' < BuildAhead
    BY <2>1 DEF BuildAhead
  <2> QED
    BY <1>1, <1>2, <1>3, <2>1, <2>2, BuilderMoves
<1>6. CASE Copy
  <2>1. build'.todo = build.todo /\ build'.zip = build.zip \cup build.file /\ build'.sent = build.sent
        /\ build.pc = "copy" /\ build'.pc = "fetch"
    BY <1>0, <1>6 DEF Copy, At, Build
  <2>2. Todo' = Todo
    BY <2>1 DEF Todo
  <2>3. Unsent' <= Unsent + 1
    <3>1. CASE build.file = {}
      BY <1>3, <2>1, <3>1 DEF Unsent
    <3>2. CASE build.file # {}
      <4>1. PICK f : build.file = {f}
        BY <3>2 DEF Settled
      <4>2. build'.zip \ build'.sent \subseteq (build.zip \ build.sent) \cup {f}
        BY <2>1, <4>1
      <4>3. Cardinality(build'.zip \ build'.sent) <= Cardinality(build.zip \ build.sent) + 1
        BY <1>3, <4>2, OneMore
      <4> QED
        BY <4>3 DEF Unsent
    <3> QED
      BY <3>1, <3>2
  <2>4. BuildAhead = 7 /\ BuildAhead' = 3
    BY <2>1 DEF BuildAhead
  <2> QED
    <3>1. 6 * Todo + 3 * Unsent' + BuildAhead' < 6 * Todo + 3 * Unsent + BuildAhead
      BY <1>3, <2>3, <2>4, LessBuilding
    <3> QED
      BY <1>2, <2>2, <3>1, Zenon DEF Building
<1>7. CASE \E f \in Files : Fetch(f)
  <2>1. PICK f \in Files : Fetch(f)
    BY <1>7
  <2>2. /\ build'.todo = build.todo \ {f} /\ f \in build.todo
        /\ build'.zip = build.zip /\ build'.sent = build.sent
        /\ build.pc = "fetch" /\ build'.pc = "entry"
    BY <1>0, <2>1 DEF Fetch, At, Build
  <2>3. Todo' = Todo - 1 /\ Unsent' = Unsent
    BY <1>3, <2>2, OneLess DEF Todo, Unsent
  <2>4. BuildAhead = 3 /\ BuildAhead' = 8
    BY <2>2 DEF BuildAhead
  <2> QED
    BY <1>2, <1>3, <2>3, <2>4 DEF Building
<1> QED
  BY <1>4, <1>5, <1>6, <1>7

(* A message that is sent is three steps less to build and two more that   *)
(* flow.                                                                   *)
LEMMA SendLessens ==
  ASSUME Inv, Settled, (Inv /\ Settled)', NEW f \in Files, Send(f)
  PROVE  Building' = Building - 3 /\ Flowing' = Flowing + 2
<1>0. build \in Build /\ net \in Net /\ build.sent \subseteq build.zip
  BY DEF Inv, TypeOK
<1>1. /\ IsFiniteSet(build.zip \ build.sent) /\ Todo \in Nat /\ Unsent \in Nat /\ Queued \in Nat
      /\ PumpAhead \in 0..2 /\ EndAhead \in 0..2 /\ CallerAhead \in 0..1
  BY AheadTyped
<1>2. /\ build'.todo = build.todo /\ build'.zip = build.zip /\ build'.sent = build.sent \cup {f}
      /\ build'.pc = build.pc /\ build.pc = "send" /\ f \in build.zip \ build.sent
      /\ UNCHANGED <<input, pump, caller>>
  BY <1>0 DEF Send, At, Build
<1>3. net'.queue = Append(net.queue, f) /\ net'.end = net.end
  BY <1>0 DEF Send, Net
<1>4. Todo' = Todo /\ BuildAhead' = 1 /\ BuildAhead = 1
  BY <1>2 DEF Todo, BuildAhead
<1>5. Unsent' = Unsent - 1
  <2>1. build'.zip \ build'.sent = (build.zip \ build.sent) \ {f}
    BY <1>2
  <2> QED
    BY <1>1, <1>2, <2>1, OneLess DEF Unsent
<1>6. Queued' = Queued + 1
  BY <1>0, <1>3, QueueSent DEF Queued, Net
<1>7. PumpAhead' = PumpAhead /\ EndAhead' = EndAhead /\ CallerAhead' = CallerAhead
  BY <1>2, <1>3 DEF PumpAhead, EndAhead, CallerAhead
<1>8. Building' = Building - 3
  BY <1>1, <1>4, <1>5 DEF Building
<1>9. Flowing' = Flowing + 2
  BY <1>1, <1>6, <1>7 DEF Flowing
<1> QED
  BY <1>8, <1>9

(* The builder returns, by whatever way.                                   *)
LEMMA ReturnLessens ==
  ASSUME Inv, Settled, (Inv /\ Settled)',
         Fault \/ RowsMissing \/ SendEnd \/ SendClosed
  PROVE  Building' < Building /\ Flowing' <= Flowing
<1>0. build \in Build /\ net \in Net
  BY DEF Inv, TypeOK
<1>1. /\ UNCHANGED <<input, pump, caller>> /\ net'.queue = net.queue
      /\ net'.end = net.end \/ net'.end = "error" \/ (net.end = "open" /\ net'.end = "eof")
  <2>1. CASE SendEnd \/ SendClosed \/ Crash
    BY <1>0, <2>1 DEF SendEnd, SendClosed, Crash, At, Net
  <2>2. CASE \/ RowsMissing \/ EarlyFail \/ FetchFail \/ EntryFail \/ CopyFail \/ CloseZipFail
             \/ ReopenFail \/ SendFail
    BY <1>0, <2>2 DEF RowsMissing, FetchFail, EarlyFail, EntryFail, CopyFail, CloseZipFail, ReopenFail,
       SendFail, Fail, At, Net
  <2> QED
    BY <2>1, <2>2 DEF Fault
<1>2. /\ build'.todo = build.todo /\ build'.zip = build.zip /\ build'.sent = build.sent
      /\ build.pc \in {"rows", "temp", "fetch", "entry", "copy", "reopen", "send"}
      /\ build'.pc \in {"ok", "failed", "crashed"}
  <2>1. CASE SendEnd \/ SendClosed \/ Crash
    BY <1>0, <2>1 DEF SendEnd, SendClosed, Crash, At, Build, BuildDone
  <2>2. CASE \/ RowsMissing \/ EarlyFail \/ FetchFail \/ EntryFail \/ CopyFail \/ CloseZipFail
             \/ ReopenFail \/ SendFail
    BY <1>0, <2>2 DEF RowsMissing, FetchFail, EarlyFail, EntryFail, CopyFail, CloseZipFail, ReopenFail,
       SendFail, Fail, At, Build
  <2> QED
    BY <2>1, <2>2 DEF Fault
<1>3. /\ Asked \in Nat /\ Queued \in Nat
      /\ PumpAhead \in 0..2 /\ EndAhead \in 0..2 /\ CallerAhead \in 0..1
  BY AheadTyped
<1>4. BuildAhead' = 0 /\ BuildAhead > 0
  BY <1>2, <1>3 DEF BuildAhead
<1>5. Building' < Building
  BY <1>1, <1>2, <1>4, BuilderMoves
<1>6. Queued' = Queued /\ PumpAhead' = PumpAhead /\ CallerAhead' = CallerAhead
  BY <1>1 DEF Queued, PumpAhead, CallerAhead
<1>7. EndAhead' <= EndAhead /\ EndAhead' \in 0..2
  BY <1>1 DEF EndAhead
<1>8. 2 * Queued + PumpAhead + EndAhead' + CallerAhead <= 2 * Queued + PumpAhead + EndAhead + CallerAhead
  <2>1. EndAhead' \in Nat /\ EndAhead \in Nat /\ PumpAhead \in Nat /\ CallerAhead \in Nat
    BY <1>3, <1>7
  <2>2. Queued \in Nat /\ Queued <= Queued /\ PumpAhead <= PumpAhead /\ EndAhead' <= EndAhead
    BY <1>3, <1>7, <2>1
  <2> QED
    BY <2>1, <2>2, LessFlowing
<1>9. Flowing' <= Flowing
  BY <1>6, <1>8, Zenon DEF Flowing
<1> QED
  BY <1>5, <1>9

(* The pump moves a message, or returns.                                   *)
LEMMA PumpLessens ==
  ASSUME Inv, Settled, (Inv /\ Settled)', PumpStep
  PROVE  Building' = Building /\ Flowing' < Flowing
<1>0. net \in Net /\ UNCHANGED <<input, build, caller>>
  BY DEF Inv, TypeOK, PumpStep, PumpReceive, PumpEof, PumpError, PumpRefused, PumpEnd
<1>1. Building' = Building /\ CallerAhead' = CallerAhead
  BY <1>0, NothingBuilt DEF CallerAhead
<1>2. /\ Queued \in Nat /\ PumpAhead \in 0..2 /\ EndAhead \in 0..2 /\ CallerAhead \in 0..1
      /\ Queued' \in Nat /\ PumpAhead' \in 0..2 /\ EndAhead' \in 0..2
  BY AheadTyped, NextAheadTyped
<1>3. CASE PumpReceive
  <2>1. Queued' = Queued /\ EndAhead' = EndAhead /\ PumpAhead = 2 /\ PumpAhead' = 1
    BY <1>3 DEF PumpReceive, Queued, EndAhead, PumpAhead
  <2> QED
    BY <1>1, <1>2, <2>1 DEF Flowing
<1>4. CASE PumpEof \/ PumpError \/ PumpRefused
  <2>1. /\ pump \in {"receiving", "writing"} /\ pump' = "done"
        /\ net'.queue = <<>> /\ (net'.end = net.end \/ net'.end = "closed")
    BY <1>4 DEF PumpEof, PumpError, PumpRefused, PumpEnd
  <2>2. PumpAhead' < PumpAhead
    BY <2>1 DEF PumpAhead
  <2>3. EndAhead' <= EndAhead
    BY <2>1 DEF EndAhead
  <2>4. Queued' <= Queued
    <3>1. Queued' = 0
      BY <2>1 DEF Queued
    <3> QED
      BY <1>2, <3>1
  <2> QED
    <3>1. /\ PumpAhead \in Nat /\ EndAhead \in Nat /\ CallerAhead \in Nat
          /\ PumpAhead' \in Nat /\ EndAhead' \in Nat
      BY <1>2
    <3>2. 2 * Queued' + PumpAhead' + EndAhead' + CallerAhead < 2 * Queued + PumpAhead + EndAhead + CallerAhead
      <4>1. Queued \in Nat /\ Queued' \in Nat /\ PumpAhead' <= PumpAhead
        BY <1>2, <2>2, <3>1
      <4> QED
        BY <2>2, <2>3, <2>4, <3>1, <4>1, LessFlowing
    <3> QED
      BY <1>1, <3>2, Zenon DEF Flowing
<1> QED
  BY <1>3, <1>4 DEF PumpStep

(* The caller takes a message, comes to the end, or leaves.                *)
LEMMA CallerLessens ==
  ASSUME Inv, Settled, (Inv /\ Settled)', CallerStep \/ CallerCloses \/ Cancel
  PROVE  Building' = Building /\ Flowing' < Flowing
<1>0. /\ net \in Net /\ net.queue \in Seq(Files) /\ UNCHANGED <<input, build>>
      /\ caller \in [pc : {"reading", "eof", "error", "closed"}, got : SUBSET Files]
  BY DEF Inv, TypeOK, Net, CallerStep, Read, ReadEnd, CallerCloses, Cancel
<1>1. Building' = Building
  BY <1>0, NothingBuilt
<1>2. /\ Queued \in Nat /\ PumpAhead \in 0..2 /\ EndAhead \in 0..2 /\ CallerAhead \in 0..1
      /\ Queued' \in Nat /\ PumpAhead' \in 0..2 /\ EndAhead' \in 0..2 /\ CallerAhead' \in 0..1
  BY AheadTyped, NextAheadTyped
<1>3. CASE Read
  <2>1. net.queue # <<>>
    BY <1>3 DEF Read, Inv, Flow
  <2>2. net'.queue = Tail(net.queue) /\ net'.end = net.end /\ caller'.pc = caller.pc
    BY <1>0, <1>3 DEF Read, Net
  <2>3. Queued' = Queued - 1
    BY <1>0, <2>1, <2>2 DEF Queued
  <2>4. PumpAhead' = 2 /\ PumpAhead = 1 /\ EndAhead' = EndAhead /\ CallerAhead' = CallerAhead
    BY <1>3, <2>2 DEF Read, PumpAhead, EndAhead, CallerAhead
  <2> QED
    BY <1>1, <1>2, <2>3, <2>4 DEF Flowing
<1>4. CASE ReadEnd \/ CallerCloses
  <2>1. CallerAhead = 1 /\ CallerAhead' = 0
    BY <1>0, <1>4 DEF ReadEnd, CallerCloses, CallerAhead
  <2>2. Queued' = Queued /\ PumpAhead' = PumpAhead /\ EndAhead' = EndAhead
    BY <1>4 DEF ReadEnd, CallerCloses, Queued, PumpAhead, EndAhead
  <2> QED
    BY <1>1, <1>2, <2>1, <2>2 DEF Flowing
<1>5. CASE Cancel
  <2>1. PICK n \in (IF pump = "writing" THEN 1 ELSE 0)..Len(net.queue) :
               net' = [queue |-> SubSeq(net.queue, 1, n), end |-> "closed"]
    BY <1>5 DEF Cancel
  <2>2. n \in 0..Len(net.queue)
    BY <1>0, <2>1
  <2>3. Len(SubSeq(net.queue, 1, n)) = n
    BY <1>0, <2>2, SubSeqProperties
  <2>4. Queued' <= Queued
    BY <1>0, <2>1, <2>2, <2>3 DEF Queued
  <2>5. EndAhead > 0 /\ EndAhead' = 0
    BY <1>5, <2>1 DEF Cancel, EndAhead
  <2>6. PumpAhead' = PumpAhead /\ CallerAhead' = CallerAhead
    BY <1>5 DEF Cancel, PumpAhead, CallerAhead
  <2> QED
    <3>1. /\ PumpAhead \in Nat /\ EndAhead \in Nat /\ CallerAhead \in Nat
          /\ PumpAhead' \in Nat /\ EndAhead' \in Nat
      BY <1>2
    <3>2. 2 * Queued' + PumpAhead' + EndAhead' + CallerAhead < 2 * Queued + PumpAhead + EndAhead + CallerAhead
      <4>1. Queued \in Nat /\ Queued' \in Nat /\ PumpAhead' <= PumpAhead
            /\ EndAhead' <= EndAhead /\ EndAhead' < EndAhead
        BY <1>2, <2>5, <2>6
      <4> QED
        BY <2>4, <3>1, <4>1, LessFlowing
    <3> QED
      BY <1>1, <2>6, <3>2, Zenon DEF Flowing
<1> QED
  BY <1>3, <1>4, <1>5 DEF CallerStep

LEMMA NextLessens ==
  ASSUME Inv, Settled, (Inv /\ Settled)', Next PROVE StepsAhead' < StepsAhead
<1>1. Building \in Nat /\ Flowing \in Nat /\ Building' \in Nat /\ Flowing' \in Nat
  BY AheadTyped, NextAheadTyped
<1>2. \/ Building' < Building /\ Flowing' <= Flowing
      \/ Building' = Building - 3 /\ Flowing' = Flowing + 2
      \/ Building' = Building /\ Flowing' < Flowing
  <2>1. CASE \E f \in Files : Send(f)
    BY <2>1, SendLessens
  <2>2. CASE Rows \/ CreateTemp \/ Entry \/ Copy \/ CloseZip \/ Reopen \/ (\E f \in Files : Fetch(f))
    BY <1>1, <2>2, BuildLessens
  <2>3. CASE Fault \/ RowsMissing \/ FetchFail \/ SendEnd \/ SendClosed
    BY <2>3, ReturnLessens DEF Fault
  <2>4. CASE PumpStep
    BY <2>4, PumpLessens
  <2>5. CASE CallerStep \/ CallerCloses \/ Cancel
    BY <2>5, CallerLessens
  <2> QED
    BY <2>1, <2>2, <2>3, <2>4, <2>5 DEF Next, BuildStep
<1> QED
  BY <1>1, <1>2, LessAhead DEF StepsAhead

(* A request ends after at most six steps for each id and ten more,        *)
(* whatever fails and whoever leaves: no step can be taken again and       *)
(* again.                                                                  *)
THEOREM RequestIsBounded ==
  Spec => /\ [](StepsAhead \in 0..StepsAtMost)
          /\ [][StepsAhead' < StepsAhead]_vars
<1> DEFINE Bounded == StepsAhead \in 0..StepsAtMost
<1>1. Init /\ Inv /\ Settled => Bounded
  <2> SUFFICES ASSUME Init, Inv, Settled PROVE Bounded
    OBVIOUS
  <2>1. Asked \in Nat
    BY AheadTyped
  <2>2. Todo = 0 /\ Unsent = 0
    BY FS_EmptySet DEF Init, Todo, Unsent
  <2>3. Queued = 0 /\ BuildAhead = 6 * Asked + 5 /\ PumpAhead = 2 /\ EndAhead = 2 /\ CallerAhead = 1
    BY DEF Init, Queued, BuildAhead, PumpAhead, EndAhead, CallerAhead
  <2> QED
    BY <2>1, <2>2, <2>3 DEF StepsAhead, StepsAtMost, Building, Flowing
<1>2. Bounded /\ Inv /\ Settled /\ (Inv /\ Settled)' /\ [Next]_vars => Bounded'
  <2> SUFFICES ASSUME Bounded, Inv, Settled, (Inv /\ Settled)', [Next]_vars PROVE Bounded'
    OBVIOUS
  <2>1. StepsAhead \in Nat /\ StepsAhead' \in Nat /\ StepsAtMost \in Nat
    <3>1. Asked \in Nat
      BY AheadTyped
    <3>2. StepsAtMost \in Nat
      BY <3>1 DEF StepsAtMost
    <3> QED
      BY <3>2, AheadTyped, NextAheadTyped
  <2>2. CASE Next
    <3>1. input' = input
      BY <2>2, SameRequest
    <3>2. StepsAtMost' = StepsAtMost
      BY <3>1 DEF StepsAtMost, Asked
    <3> QED
      BY <2>1, <2>2, <3>2, NextLessens
  <2>3. CASE UNCHANGED vars
    <3>1. StepsAtMost' = StepsAtMost /\ StepsAhead' = StepsAhead
      BY <2>3, NothingBuilt, NothingFlows DEF vars, StepsAtMost, Asked, StepsAhead
    <3> QED
      BY <2>1, <3>1
  <2> QED
    BY <2>2, <2>3
<1>3. Inv /\ Settled /\ (Inv /\ Settled)' /\ [Next]_vars => [StepsAhead' < StepsAhead]_vars
  BY NextLessens
<1> QED
  BY InductiveInv, SettledAlways, <1>1, <1>2, <1>3, PTL DEF Spec

=============================================================================
