------------------------------- MODULE FileReads -------------------------------
(***************************************************************************)
(* The requests that read the table of files, listings and metadata, from  *)
(* the query string to the HTTP status, beside the uploads that insert     *)
(* rows.  A listing is two statements, a COUNT and a SELECT, outside a     *)
(* transaction; a client that wants every file walks the pages one after   *)
(* the other.  Rows are never deleted: the code has no DELETE.             *)
(***************************************************************************)
EXTENDS Integers, FiniteSets, Sequences

CONSTANTS
    Users,
    Files,            \* the ids that uploads can draw
    Readers,          \* the clients that read, each one request at a time
    Sizes,            \* the page sizes that clients ask for
    DefaultPageSize,  \* 20 in the code
    IntLimit,         \* the first number that a field of the RPC does not hold, 2^31 in the code
    MaxTime,          \* bound on the clock
    None

ASSUME ReadsAssumption ==
    /\ DefaultPageSize \in Nat \ {0} /\ IntLimit \in Nat \ {0} /\ MaxTime \in Nat
    /\ Sizes \subseteq Nat \ {0}
    /\ None \notin Users /\ None \notin Files

VARIABLES
    now,     \* the clock of the storage service
    rows,    \* table files, as far as a listing tells rows apart
    listed,  \* the pairs of a user and a file that a page showed (history)
    reader   \* the clients and the requests they have under way

readsVars == <<now, rows, listed, reader>>

FileRow == [id : Files, owner : Users, created : 0..MaxTime]

Stage == {"idle", "count", "select", "lookup", "done"}
Status == {None, 200, 500}

Reader == [pc : Stage,
           user : Users \cup {None},
           page : Nat,
           size : Nat,
           total : Nat,
           start : SUBSET Files,           \* the user's files when the walk began (history)
           shown : SUBSET Files,           \* the files its pages showed (history)
           raced : BOOLEAN,                \* an INSERT came between its last COUNT and SELECT (history)
           id : Files \cup {None},
           known : BOOLEAN,                \* a page had shown the user the file to look up (history)
           missing : BOOLEAN,              \* the query found no row (history)
           status : Status]

Idle == [pc |-> "idle", user |-> None, page |-> 0, size |-> 0, total |-> 0,
         start |-> {}, shown |-> {}, raced |-> FALSE,
         id |-> None, known |-> FALSE, missing |-> FALSE, status |-> None]

ReadsInit == now = 0 /\ rows = {} /\ listed = {} /\ reader = [r \in Readers |-> Idle]

Mine(u) == {f \in rows : f.owner = u}
Ids(fs) == {f.id : f \in fs}

(* int32(n): the conversion keeps the low bits.                            *)
Int32(n) == ((n + IntLimit) % (2 * IntLimit)) - IntLimit

(* The handler reads "pageSize", and takes what is absent or below 1 as    *)
(* not given.                                                              *)
PageSize(name, size) == IF name = "pageSize" /\ size >= 1 THEN size ELSE DefaultPageSize
Page(page) == IF page < 1 THEN 1 ELSE page

Limit(h) == Int32(h.size)

(* Mutant: the first page is page 0.                                       *)
Offset_FromZero(h) == Int32(h.page) * Limit(h)
Offset(h) == (Int32(h.page) - 1) * Limit(h)

(* ORDER BY created_at DESC: rows of one instant come in any order.        *)
Listings(u) ==
    {s \in [1..Cardinality(Mine(u)) -> Mine(u)] :
        \A i, j \in DOMAIN s : i < j => s[i] # s[j] /\ s[i].created >= s[j].created}

(* Every error of the storage service becomes an internal error on its     *)
(* way: none of them is an apperror.Error when it reaches the handler.     *)
WriteError == 500

-----------------------------------------------------------------------------
Tick == now < MaxTime /\ now' = now + 1 /\ UNCHANGED <<rows, listed, reader>>

(* An upload reserves a row.  Its time was read some time before.          *)
Insert(f, u, c) ==
    /\ f \notin Ids(rows)
    /\ rows' = rows \cup {[id |-> f, owner |-> u, created |-> c]}
    /\ reader' = [r \in Readers |->
          IF reader[r].pc = "select" /\ reader[r].user = u
          THEN [reader[r] EXCEPT !.raced = TRUE] ELSE reader[r]]
    /\ UNCHANGED <<now, listed>>

Become(r, h) == reader' = [reader EXCEPT ![r] = h]

(* A client begins a walk: no page in its query, and the page size under   *)
(* the name the code reads or under the documented one.                    *)
WalkStart(r, u, name, size) ==
    /\ reader[r].pc = "idle"
    /\ Become(r, [Idle EXCEPT !.pc = "count", !.user = u, !.page = Page(0),
                              !.size = PageSize(name, size), !.start = Ids(Mine(u))])
    /\ UNCHANGED <<now, rows, listed>>

ListCount(r) ==
    /\ reader[r].pc = "count"
    /\ Become(r, [reader[r] EXCEPT !.pc = "select", !.total = Cardinality(Mine(reader[r].user)),
                                   !.raced = FALSE])
    /\ UNCHANGED <<now, rows, listed>>

(* The client takes the next page as long as the pagination it is given    *)
(* says there is one.                                                      *)
AfterPage(h) ==
    IF h.page * h.size < h.total
    THEN [h EXCEPT !.pc = "count", !.page = h.page + 1]
    ELSE [h EXCEPT !.pc = "done", !.status = 200]

ListSelect(r) ==
    LET h == reader[r]
    IN /\ h.pc = "select" /\ Limit(h) >= 0 /\ Offset(h) >= 0
       /\ \E s \in Listings(h.user) :
             LET fs == {s[i].id : i \in {i \in DOMAIN s : Offset(h) < i /\ i <= Offset(h) + Limit(h)}}
             IN /\ Become(r, AfterPage([h EXCEPT !.shown = @ \cup fs]))
                /\ listed' = listed \cup ({h.user} \X fs)
       /\ UNCHANGED <<now, rows>>

Error(r) ==
    /\ Become(r, [reader[r] EXCEPT !.pc = "done", !.status = WriteError])
    /\ UNCHANGED <<now, rows, listed>>

(* PostgreSQL refuses a negative LIMIT or OFFSET.                          *)
ListRefused(r) ==
    /\ reader[r].pc = "select"
    /\ Limit(reader[r]) < 0 \/ Offset(reader[r]) < 0
    /\ Error(r)

LookupStart(r, u, f) ==
    /\ reader[r].pc = "idle"
    /\ Become(r, [Idle EXCEPT !.pc = "lookup", !.user = u, !.id = f,
                              !.known = <<u, f>> \in listed])
    /\ UNCHANGED <<now, rows, listed>>

(* Mutant: the arguments of the query are swapped.                         *)
InTable_Swapped(h) == \E f \in rows : f.id = h.user /\ f.owner = h.id
InTable(h) == \E f \in rows : f.id = h.id /\ f.owner = h.user

LookupFound(r) ==
    /\ reader[r].pc = "lookup" /\ InTable(reader[r])
    /\ Become(r, [reader[r] EXCEPT !.pc = "done", !.status = 200])
    /\ UNCHANGED <<now, rows, listed>>

LookupMissing(r) ==
    /\ reader[r].pc = "lookup" /\ ~ InTable(reader[r])
    /\ Become(r, [reader[r] EXCEPT !.pc = "done", !.missing = TRUE, !.status = WriteError])
    /\ UNCHANGED <<now, rows, listed>>

(* A call or a query fails.                                                *)
ReadFail(r) == reader[r].pc \in {"count", "select", "lookup"} /\ Error(r)

Forget(r) ==
    /\ reader[r].pc = "done"
    /\ Become(r, Idle)
    /\ UNCHANGED <<now, rows, listed>>

ReadsNext ==
    \/ Tick
    \/ \E f \in Files, u \in Users, c \in 0..now : Insert(f, u, c)
    \/ \E r \in Readers :
          \/ \E u \in Users, name \in {"pageSize", "page_size"}, size \in Sizes :
                WalkStart(r, u, name, size)
          \/ ListCount(r) \/ ListSelect(r) \/ ListRefused(r)
          \/ \E u \in Users, f \in Files : LookupStart(r, u, f)
          \/ LookupFound(r) \/ LookupMissing(r)
          \/ ReadFail(r) \/ Forget(r)

ReadsSpec == ReadsInit /\ [][ReadsNext]_readsVars

-----------------------------------------------------------------------------
(* Properties.                                                             *)

(* The table, the history and every request under way have their types.   *)
ReadsTypeOK ==
    /\ now \in 0..MaxTime
    /\ rows \subseteq FileRow
    /\ listed \subseteq Users \X Files
    /\ reader \in [Readers -> Reader]
    /\ \A r \in Readers :
          reader[r].pc \in {"count", "select"} => reader[r].page >= 1 /\ reader[r].size >= 1

AloneInTime(f) == \A g \in rows : g # f /\ g.owner = f.owner => g.created # f.created

(* repository/postgres List: a walk through all the pages shows every file *)
(* that was there when it began, although each page counts and selects     *)
(* anew and uploads insert rows at any moment.  Exempt are files that      *)
(* share their instant with another (the order is not total), a page size  *)
(* that its RPC field does not hold, and a walk that ended on a total that *)
(* was counted before an insert and selected after it.                     *)
WalkMissesNothing ==
    \A r \in Readers :
        LET h == reader[r] IN
        h.pc = "done" /\ h.id = None /\ h.status = 200 /\ ~ h.raced /\ h.size < IntLimit
            => \A f \in Mine(h.user) : f.id \in h.start /\ AloneInTime(f) => f.id \in h.shown

(* handler Metadata: a file that a listing showed to a user is found when  *)
(* the user asks for it afterwards.                                        *)
ListedIsFound ==
    \A r \in Readers :
        reader[r].pc = "done" /\ reader[r].known => ~ reader[r].missing

=============================================================================
