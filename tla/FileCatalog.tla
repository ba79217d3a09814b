---------------------------- MODULE FileCatalog ----------------------------
(***************************************************************************)
(* What file management promises its users, with the file server, the      *)
(* storage service, PostgreSQL and the object store all hidden behind one  *)
(* append-only catalog.                                                    *)
(*                                                                         *)
(*   - A file enters the catalog whole, in one step, and never changes.    *)
(*   - An upload is acknowledged only with files that are in the catalog,  *)
(*     one distinct file for each part of the request, in its order.       *)
(*   - A download of a file that was in the catalog when the download      *)
(*     began ends with the whole content or with a reported fault.  About  *)
(*     a file that was not there yet nothing is promised.                  *)
(***************************************************************************)
EXTENDS Integers, Sequences

CONSTANTS Users, Uploads, Downloads, Ids, Content, None

VARIABLES
    catalog,     \* the files that exist: Ids -> [owner, content], or None
    accepted,    \* each upload acknowledged: [user, parts, ids], or None
    reads        \* each download: [phase, seen, answer]

vars == <<catalog, accepted, reads>>

Entry == [owner : Users, content : Content]

Fault == "fault"

Init ==
    /\ catalog = [i \in Ids |-> None]
    /\ accepted = [r \in Uploads |-> None]
    /\ reads = [d \in Downloads |-> [phase |-> "idle", seen |-> None, answer |-> None]]

(* A file becomes visible, complete, under an identifier of its own.       *)
Commit(i, e) ==
    /\ catalog[i] = None
    /\ catalog' = [catalog EXCEPT ![i] = e]
    /\ UNCHANGED <<accepted, reads>>

(* An upload is acknowledged with the identifiers of its parts' files.     *)
Accept(r, a) ==
    /\ accepted[r] = None
    /\ Len(a.ids) = Len(a.parts)
    /\ \A k \in 1..Len(a.ids) :
          /\ catalog[a.ids[k]] = [owner |-> a.user, content |-> a.parts[k]]
          /\ \A j \in 1..(k-1) : a.ids[j] # a.ids[k]
    /\ accepted' = [accepted EXCEPT ![r] = a]
    /\ UNCHANGED <<catalog, reads>>

(* A user asks for the file i: its content if it is there and is theirs.   *)
BeginRead(d, u, i) ==
    /\ reads[d].phase = "idle"
    /\ LET seen == IF catalog[i] # None /\ catalog[i].owner = u
                   THEN catalog[i].content ELSE None
       IN  reads' = [reads EXCEPT ![d] = [phase |-> "reading", seen |-> seen, answer |-> None]]
    /\ UNCHANGED <<catalog, accepted>>

EndRead(d, a) ==
    /\ reads[d].phase = "reading"
    /\ reads[d].seen # None => a \in {reads[d].seen, Fault}
    /\ reads' = [reads EXCEPT ![d] = [phase |-> "answered", seen |-> reads[d].seen, answer |-> a]]
    /\ UNCHANGED <<catalog, accepted>>

(* The entry, acknowledgement or answer of a step is the one the next      *)
(* state shows, which spares TLC the search for it.                        *)
Next ==
    \/ \E i \in Ids : catalog'[i] \in Entry /\ Commit(i, catalog'[i])
    \/ \E r \in Uploads : accepted'[r] # None /\ Accept(r, accepted'[r])
    \/ \E d \in Downloads :
          \/ \E u \in Users, i \in Ids : BeginRead(d, u, i)
          \/ EndRead(d, reads'[d].answer)

Spec == Init /\ [][Next]_vars

=============================================================================
