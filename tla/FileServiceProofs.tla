--------------------------- MODULE FileServiceProofs ---------------------------
(***************************************************************************)
(* Two operations of the storage service beside those that presign: the    *)
(* queries of the table, FileReads, for any number of files, users and     *)
(* clients, and the streamed upload, StreamedUpload, for any length of the *)
(* file and any window of the stream.  They share no state, and their      *)
(* proofs no lemma.                                                        *)
(*                                                                         *)
(* A listing is correct by the place of each file: among the rows of its   *)
(* owner, in the order of the query, a file never moves to the front, so   *)
(* that none can slip from a page that is still to be read to one that was *)
(* read.  A streamed upload is correct by counting messages: as long as    *)
(* the stream has not been reset and the pump or the handler runs, what is *)
(* under way and what the service has taken add up to what the client has  *)
(* sent; the pipe can therefore end with "eof" only when the whole file    *)
(* has gone through it.                                                    *)
(***************************************************************************)
EXTENDS FileReads, StreamedUpload, FiniteSetTheorems, SequenceTheorems, TLAPS

-----------------------------------------------------------------------------
(* FileReads.                                                              *)

(* The place of a file in a listing of its owner's files, as far as the    *)
(* times determine it: how many are not older.                             *)
Newer(f) == {g \in Mine(f.owner) : g.created >= f.created}
Rank(f) == Cardinality(Newer(f))

(* Ids are unique, and what a page showed is in the table.                 *)
TableInv ==
    /\ IsFiniteSet(rows)
    /\ \A f, g \in rows : f.id = g.id => f = g
    /\ \A p \in listed : \E f \in rows : p = <<f.owner, f.id>>

Walking(h) == h.pc \in {"count", "select"}
Walks(h) == Walking(h) \/ (h.pc = "done" /\ h.id = None)

(* A file that was there when the walk began is on no page before the one  *)
(* to read unless it was shown: inserts move it to the back, never to the  *)
(* front.                                                                  *)
NoneSkipped(r) ==
    LET h == reader[r] IN
    Walking(h) /\ h.size < IntLimit =>
        /\ h.page <= IntLimit
        /\ \A f \in Mine(h.user) :
              f.id \in h.start /\ AloneInTime(f) => f.id \in h.shown \/ Rank(f) > (h.page - 1) * h.size

WalkInv(r) ==
    LET h == reader[r] IN
    /\ Walking(h) => h.user \in Users /\ h.id = None
    /\ Walks(h) => h.start \subseteq Ids(Mine(h.user))
    /\ h.pc = "select" /\ ~ h.raced => h.total = Cardinality(Mine(h.user))

LookupInv(r) ==
    LET h == reader[r] IN
    /\ h.known => h.pc \in {"lookup", "done"} /\ <<h.user, h.id>> \in listed /\ ~ h.missing
    /\ h.pc # "done" => ~ h.missing
    /\ h.pc = "lookup" => h.id \in Files

(* What WalkMissesNothing and ListedIsFound say of one reader.             *)
Missed(r) ==
    LET h == reader[r] IN
    /\ h.pc = "done" /\ h.id = None /\ h.status = 200 /\ ~ h.raced /\ h.size < IntLimit
    /\ \E f \in Mine(h.user) : f.id \in h.start /\ AloneInTime(f) /\ f.id \notin h.shown

ReaderInv(r) == WalkInv(r) /\ NoneSkipped(r) /\ LookupInv(r) /\ ~ Missed(r)

ReadsInv == ReadsTypeOK /\ TableInv /\ \A r \in Readers : ReaderInv(r)

-----------------------------------------------------------------------------
LEMMA ReadsInitInv == ReadsInit => ReadsInv
<1> SUFFICES ASSUME ReadsInit PROVE ReadsInv
  OBVIOUS
<1>1. IsFiniteSet(rows)
  BY FS_EmptySet DEF ReadsInit
<1>2. ReadsTypeOK
  BY ReadsAssumption DEF ReadsInit, ReadsTypeOK, Idle, Reader, Stage, Status
<1> QED
  BY <1>1, <1>2 DEF ReadsInit, ReadsInv, TableInv, ReaderInv, WalkInv, NoneSkipped, LookupInv, Missed, Idle,
     Walking, Walks

(* The rows of a user are finitely many, and a listing has each of them    *)
(* once: one that is alone in its instant at the place its time gives it.  *)
LEMMA MineFinite ==
  ASSUME IsFiniteSet(rows), NEW u
  PROVE  IsFiniteSet(Mine(u)) /\ Cardinality(Mine(u)) \in Nat
<1>1. Mine(u) \subseteq rows
  BY DEF Mine
<1> QED
  BY <1>1, FS_Subset, FS_CardinalityType

LEMMA NewerFinite ==
  ASSUME IsFiniteSet(rows), NEW f
  PROVE  IsFiniteSet(Newer(f)) /\ Rank(f) \in Nat
<1>1. Newer(f) \subseteq rows
  BY DEF Newer, Mine
<1> QED
  BY <1>1, FS_Subset, FS_CardinalityType DEF Rank

LEMMA Position ==
  ASSUME IsFiniteSet(rows), rows \subseteq FileRow, NEW u, NEW s \in Listings(u)
  PROVE  /\ DOMAIN s = 1..Cardinality(Mine(u))
         /\ \A f \in Mine(u) : \E i \in DOMAIN s : s[i] = f
         /\ \A i \in DOMAIN s : s[i] \in Mine(u) /\ (AloneInTime(s[i]) => Rank(s[i]) = i)
<1> DEFINE n == Cardinality(Mine(u))
<1>1. IsFiniteSet(Mine(u)) /\ n \in Nat
  BY MineFinite
<1>2. /\ s \in [1..n -> Mine(u)]
      /\ \A i, j \in 1..n : i < j => s[i] # s[j] /\ s[i].created >= s[j].created
  BY DEF Listings
<1> HIDE DEF n
<1>3. \A i, j \in 1..n : s[i] = s[j] => i = j
  BY <1>1, <1>2
<1>4. s \in Injection(1..n, Mine(u))
  BY <1>2, <1>3 DEF Injection, IsInjective
<1>5. IsFiniteSet(1..n) /\ Cardinality(1..n) = n
  BY <1>1, FS_Interval
<1>6. s \in Surjection(1..n, Mine(u))
  BY <1>1, <1>4, <1>5, FS_Injection DEF n
<1>7. ASSUME NEW i \in 1..n, AloneInTime(s[i])
      PROVE  Rank(s[i]) = i
  <2>1. \A j \in 1..n : s[j] \in rows /\ s[j].owner = u /\ s[j].created \in Int
    BY <1>2 DEF Mine, FileRow
  <2>2. \A j \in 1..n : s[j] \in Newer(s[i]) <=> j <= i
    <3> SUFFICES ASSUME NEW j \in 1..n PROVE s[j] \in Newer(s[i]) <=> j <= i
      OBVIOUS
    <3>1. CASE j = i
      BY <1>2, <2>1, <3>1 DEF Newer
    <3>2. CASE j < i
      BY <1>1, <1>2, <2>1, <3>2 DEF Newer
    <3>3. CASE j > i
      BY <1>1, <1>2, <1>7, <2>1, <3>3 DEF Newer, AloneInTime
    <3> QED
      BY <1>1, <3>1, <3>2, <3>3
  <2> DEFINE t == [j \in 1..i |-> s[j]]
  <2>3. t \in [1..i -> Newer(s[i])] /\ \A j, k \in 1..i : t[j] = t[k] => j = k
    BY <1>1, <1>3, <2>2
  <2>4. \A g \in Newer(s[i]) : \E j \in 1..i : t[j] = g
    <3> TAKE g \in Newer(s[i])
    <3>1. g \in Mine(u)
      BY <2>1 DEF Newer
    <3>2. PICK j \in 1..n : s[j] = g
      BY <1>6, <3>1 DEF Surjection
    <3> QED
      BY <1>1, <2>2, <3>2
  <2>5. t \in Bijection(1..i, Newer(s[i]))
    BY <2>3, <2>4 DEF Bijection, Injection, Surjection, IsInjective
  <2> QED
    BY <1>1, <2>5, FS_CountingElements DEF Rank, ExistsBijection
<1> QED
  BY <1>2, <1>6, <1>7 DEF Surjection, n

-----------------------------------------------------------------------------
(* A step that leaves the table alone, and every reader but one.           *)
LEMMA OthersKeep ==
  ASSUME ReadsInv, rows' = rows, listed \subseteq listed',
         NEW q \in Readers, reader'[q] = reader[q]
  PROVE  ReaderInv(q)'
<1>1. ReaderInv(q)
  BY DEF ReadsInv
<1> QED
  BY <1>1 DEF ReaderInv, WalkInv, NoneSkipped, LookupInv, Missed, Walking, Walks, Mine, Ids, AloneInTime,
     Newer, Rank

(* What is left to show of a step of one reader.                           *)
LEMMA OneReader ==
  ASSUME ReadsInv, NEW r \in Readers, NEW h \in Reader, Become(r, h),
         h.pc \in {"count", "select"} => h.page >= 1 /\ h.size >= 1,
         UNCHANGED <<now, rows>>, listed \subseteq listed', listed' \subseteq Users \X Files,
         \A p \in listed' \ listed : \E f \in rows : p = <<f.owner, f.id>>,
         ReaderInv(r)'
  PROVE  ReadsInv'
<1>1. reader' \in [Readers -> Reader] /\ reader'[r] = h /\ \A q \in Readers \ {r} : reader'[q] = reader[q]
  BY DEF Become, ReadsInv, ReadsTypeOK
<1>2. ReadsTypeOK'
  BY <1>1 DEF ReadsInv, ReadsTypeOK
<1>3. TableInv'
  BY DEF ReadsInv, TableInv
<1>4. ASSUME NEW q \in Readers PROVE ReaderInv(q)'
  BY <1>1, OthersKeep
<1> QED
  BY <1>2, <1>3, <1>4 DEF ReadsInv

(* A row that comes between COUNT and SELECT marks the reader, no more.    *)
LEMMA Raced ==
  ASSUME NEW h \in Reader, NEW k, k = [h EXCEPT !.raced = TRUE]
  PROVE  /\ k \in Reader /\ k.raced
         /\ k.pc = h.pc /\ k.user = h.user /\ k.page = h.page /\ k.size = h.size /\ k.total = h.total
         /\ k.start = h.start /\ k.shown = h.shown /\ k.id = h.id /\ k.status = h.status
         /\ k.known = h.known /\ k.missing = h.missing
<1>1. k \in Reader
  BY DEF Reader
<1>5. k.raced
  BY DEF Reader
<1>2. k.pc = h.pc /\ k.user = h.user /\ k.page = h.page /\ k.size = h.size /\ k.total = h.total
  BY DEF Reader
<1>3. k.start = h.start /\ k.shown = h.shown /\ k.id = h.id /\ k.status = h.status
  BY DEF Reader
<1>4. k.known = h.known /\ k.missing = h.missing
  BY DEF Reader
<1> QED
  BY <1>1, <1>2, <1>3, <1>4, <1>5

LEMMA SameListed ==
  ASSUME ReadsInv, NEW r \in Readers, NEW h \in Reader, Become(r, h),
         h.pc \in {"count", "select"} => h.page >= 1 /\ h.size >= 1,
         UNCHANGED <<now, rows, listed>>, ReaderInv(r)'
  PROVE  ReadsInv'
<1>1. listed' \subseteq Users \X Files /\ listed \subseteq listed' /\ listed' \ listed = {}
  BY DEF ReadsInv, ReadsTypeOK
<1> QED
  BY <1>1, OneReader

(* An insert: the new file is none of those that a walk is to show, and    *)
(* the others can only move to the back.                                   *)
LEMMA InsertInv ==
  ASSUME ReadsInv, NEW f \in Files, NEW u \in Users, NEW c \in 0..now, Insert(f, u, c)
  PROVE  ReadsInv'
<1> DEFINE new == [id |-> f, owner |-> u, created |-> c]
<1>1. new \in FileRow /\ rows' = rows \cup {new} /\ \A g \in rows : g.id # f
  BY ReadsAssumption DEF Insert, ReadsInv, ReadsTypeOK, FileRow, Ids
<1>2. \A q \in Readers :
         /\ reader'[q] \in Reader
         /\ reader'[q].pc = reader[q].pc /\ reader'[q].user = reader[q].user
         /\ reader'[q].page = reader[q].page /\ reader'[q].size = reader[q].size
         /\ reader'[q].total = reader[q].total /\ reader'[q].start = reader[q].start
         /\ reader'[q].shown = reader[q].shown /\ reader'[q].id = reader[q].id
         /\ reader'[q].known = reader[q].known /\ reader'[q].missing = reader[q].missing
         /\ reader'[q].status = reader[q].status
         /\ reader[q].raced => reader'[q].raced
         /\ reader[q].pc = "select" /\ reader[q].user = u => reader'[q].raced
  <2> TAKE q \in Readers
  <2>1. reader[q] \in Reader
    BY DEF ReadsInv, ReadsTypeOK
  <2>2. reader'[q] = IF reader[q].pc = "select" /\ reader[q].user = u
                     THEN [reader[q] EXCEPT !.raced = TRUE] ELSE reader[q]
    BY DEF Insert
  <2>3. CASE reader[q].pc = "select" /\ reader[q].user = u
    <3>1. reader'[q] = [reader[q] EXCEPT !.raced = TRUE]
      BY <2>2, <2>3
    <3> QED
      BY <2>1, <2>3, <3>1, Raced
  <2>4. CASE ~ (reader[q].pc = "select" /\ reader[q].user = u)
    BY <2>1, <2>2, <2>4
  <2> QED
    BY <2>3, <2>4
<1>3. ReadsTypeOK'
  BY <1>1, <1>2 DEF Insert, ReadsInv, ReadsTypeOK
<1>4. TableInv'
  BY <1>1, FS_AddElement DEF Insert, ReadsInv, TableInv
<1>5. \A g \in rows : AloneInTime(g)' => AloneInTime(g)
  BY <1>1 DEF AloneInTime
<1>6. \A g \in rows : Rank(g) <= Rank(g)' /\ Rank(g) \in Nat /\ Rank(g)' \in Nat
  <2> TAKE g \in rows
  <2>1. Newer(g) \subseteq Newer(g)'
    BY <1>1 DEF Newer, Mine
  <2>2. IsFiniteSet(Newer(g)') /\ Rank(g)' \in Nat
    <3>1. IsFiniteSet(rows') /\ Newer(g)' \subseteq rows'
      BY <1>4 DEF TableInv, Newer, Mine
    <3> QED
      BY <3>1, FS_Subset, FS_CardinalityType DEF Rank
  <2>3. Rank(g) \in Nat
    BY NewerFinite DEF ReadsInv, TableInv
  <2> QED
    BY <2>1, <2>2, <2>3, FS_Subset DEF Rank
<1>7. ASSUME NEW q \in Readers PROVE ReaderInv(q)'
  <2> DEFINE h == reader[q]
  <2>0. ReaderInv(q) /\ h \in Reader /\ h.start \in SUBSET Files
    BY DEF ReadsInv, ReadsTypeOK, Reader
  <2>1. \A v : /\ Mine(v) \subseteq Mine(v)' /\ Ids(Mine(v)) \subseteq Ids(Mine(v))'
               /\ Ids(Mine(v)) \subseteq Ids(rows)
    BY <1>1 DEF Mine, Ids
  <2>2. \A v : \A g \in Mine(v)' : g.id # f => g \in Mine(v) /\ g \in rows
    BY <1>1 DEF Mine
  <2>3. Walks(h) => f \notin h.start /\ h.start \subseteq Ids(Mine(h.user))
    BY <1>1, <2>0, <2>1 DEF ReaderInv, WalkInv, Ids
  <2>4. WalkInv(q)'
    <3>1. \A v : v # u => Mine(v)' = Mine(v)
      BY <1>1 DEF Mine
    <3> QED
      BY <1>2, <2>0, <2>1, <2>3, <3>1 DEF ReaderInv, WalkInv, Walking, Walks
  <2>5. NoneSkipped(q)'
    <3> SUFFICES ASSUME Walking(h), h.size < IntLimit
                 PROVE  /\ h.page <= IntLimit
                        /\ \A g \in rows' : /\ g.owner = h.user /\ g.id \in h.start /\ AloneInTime(g)'
                                            /\ g.id \notin h.shown
                              => Rank(g)' > (h.page - 1) * h.size
      BY <1>2 DEF NoneSkipped, Walking, Mine
    <3>1. NoneSkipped(q) /\ Walks(h)
      BY <2>0 DEF ReaderInv, Walks
    <3>2. (h.page - 1) * h.size \in Int
      BY <2>0 DEF Reader
    <3> QED
      BY <1>1, <1>5, <1>6, <2>3, <3>1, <3>2 DEF NoneSkipped, Mine
  <2>6. LookupInv(q)'
    BY <1>2, <2>0 DEF ReaderInv, LookupInv, Insert
  <2>7. (~ Missed(q))'
    BY <1>2, <1>5, <2>0, <2>2, <2>3 DEF ReaderInv, Missed, Walks
  <2> QED
    BY <2>4, <2>5, <2>6, <2>7 DEF ReaderInv
<1> QED
  BY <1>3, <1>4, <1>7 DEF ReadsInv

LEMMA TickInv == ASSUME ReadsInv, Tick PROVE ReadsInv'
<1>1. ReadsTypeOK'
  BY ReadsAssumption DEF Tick, ReadsInv, ReadsTypeOK
<1>2. \A q \in Readers : ReaderInv(q)'
  BY OthersKeep DEF Tick
<1> QED
  BY <1>1, <1>2 DEF Tick, ReadsInv, TableInv

(* Idle again.                                                             *)
LEMMA ForgetInv == ASSUME ReadsInv, NEW r \in Readers, Forget(r) PROVE ReadsInv'
<1>1. Idle \in Reader
  BY DEF Idle, Reader, Stage, Status
<1>2. reader'[r] = Idle
  BY DEF Forget, Become, ReadsInv, ReadsTypeOK
<1>3. ReaderInv(r)'
  BY <1>2 DEF Idle, ReaderInv, WalkInv, NoneSkipped, LookupInv, Missed, Walking, Walks
<1> QED
  BY <1>1, <1>3, SameListed DEF Forget, Idle

(* The first page is the first: each file has a place, and no place is     *)
(* before the first.                                                       *)
LEMMA WalkStartInv ==
  ASSUME ReadsInv, NEW r \in Readers, NEW u \in Users, NEW name, NEW size \in Sizes,
         WalkStart(r, u, name, size)
  PROVE  ReadsInv'
<1> DEFINE h == [Idle EXCEPT !.pc = "count", !.user = u, !.page = Page(0),
                             !.size = PageSize(name, size), !.start = Ids(Mine(u))]
<1>1. PageSize(name, size) \in Nat \ {0} /\ Page(0) = 1
  BY ReadsAssumption DEF PageSize, Page
<1>2. Ids(Mine(u)) \subseteq Files
  BY DEF Ids, Mine, ReadsInv, ReadsTypeOK, FileRow
<1>3. /\ h.pc = "count" /\ h.user = u /\ h.page = 1 /\ h.size = PageSize(name, size)
      /\ h.start = Ids(Mine(u)) /\ h.id = None /\ ~ h.known /\ ~ h.missing
  BY <1>1 DEF Idle
<1>4. h \in Reader
  <2>1. \A n \in Nat, S \in SUBSET Files :
           [Idle EXCEPT !.pc = "count", !.user = u, !.page = 1, !.size = n, !.start = S] \in Reader
    BY DEF Idle, Reader, Stage, Status
  <2> QED
    BY <1>1, <1>2, <2>1
<1>5. reader'[r] = h /\ rows' = rows
  BY DEF WalkStart, Become, ReadsInv, ReadsTypeOK
<1>6. \A f \in rows : Rank(f)' = Rank(f) /\ Rank(f) > 0
  <2> TAKE f \in rows
  <2>1. Newer(f)' = Newer(f)
    BY <1>5 DEF Newer, Mine
  <2>2. f \in Newer(f)
    BY DEF Newer, Mine, ReadsInv, ReadsTypeOK, FileRow
  <2>3. IsFiniteSet(Newer(f)) /\ Rank(f) \in Nat
    BY NewerFinite DEF ReadsInv, TableInv
  <2> QED
    BY <2>1, <2>2, <2>3, FS_EmptySet DEF Rank
<1> HIDE DEF h
<1>7. WalkInv(r)'
  BY <1>3, <1>5 DEF WalkInv, Walking, Walks, Mine, Ids
<1>8. NoneSkipped(r)'
  BY <1>1, <1>3, <1>5, <1>6, ReadsAssumption DEF NoneSkipped, Mine
<1>9. LookupInv(r)' /\ (~ Missed(r))'
  BY <1>3, <1>5 DEF LookupInv, Missed
<1>10. ReaderInv(r)'
  BY <1>7, <1>8, <1>9 DEF ReaderInv
<1>11. Become(r, h) /\ UNCHANGED <<now, rows, listed>>
  BY DEF WalkStart, h
<1> QED
  BY <1>1, <1>3, <1>4, <1>10, <1>11, SameListed

LEMMA CountedTyped ==
  ASSUME NEW g \in Reader, NEW n \in Nat
  PROVE  [g EXCEPT !.pc = "select", !.total = n, !.raced = FALSE] \in Reader
<1>1. "select" \in Stage
  BY DEF Stage
<1> QED
  BY <1>1 DEF Reader

LEMMA ListCountInv == ASSUME ReadsInv, NEW r \in Readers, ListCount(r) PROVE ReadsInv'
<1> DEFINE g == reader[r]
           h == [g EXCEPT !.pc = "select", !.total = Cardinality(Mine(g.user)), !.raced = FALSE]
<1>1. g \in Reader /\ ReaderInv(r) /\ g.pc = "count" /\ g.page >= 1 /\ g.size >= 1
  BY DEF ReadsInv, ReadsTypeOK, ListCount
<1>2. Cardinality(Mine(g.user)) \in Nat
  BY MineFinite DEF ReadsInv, TableInv
<1>3. h \in Reader
  BY <1>1, <1>2, CountedTyped
<1>4. /\ h.pc = "select" /\ h.user = g.user /\ h.page = g.page /\ h.size = g.size
      /\ h.total = Cardinality(Mine(g.user)) /\ h.start = g.start /\ h.shown = g.shown
      /\ h.id = g.id /\ h.known = g.known /\ h.missing = g.missing
  BY <1>1 DEF Reader
<1>5. reader'[r] = h /\ rows' = rows /\ listed' = listed
  BY DEF ListCount, Become, ReadsInv, ReadsTypeOK
<1> HIDE DEF h
<1>6. WalkInv(r)'
  BY <1>1, <1>4, <1>5 DEF ReaderInv, WalkInv, Walking, Walks, Mine, Ids
<1>7. NoneSkipped(r)'
  BY <1>1, <1>4, <1>5 DEF ReaderInv, NoneSkipped, Walking, Mine, AloneInTime, Newer, Rank
<1>8. LookupInv(r)' /\ (~ Missed(r))'
  BY <1>1, <1>4, <1>5 DEF ReaderInv, LookupInv, Missed
<1>9. ReaderInv(r)'
  BY <1>6, <1>7, <1>8 DEF ReaderInv
<1> QED
  BY <1>1, <1>3, <1>4, <1>9, SameListed DEF ListCount, h

(* A request that ends in an error, or with an answer to a look-up.        *)
LEMMA EndInv ==
  ASSUME ReadsInv, NEW r \in Readers, NEW h \in Reader, Become(r, h), UNCHANGED <<now, rows, listed>>,
         h.pc = "done", h.status = 200 => h.id # None, h.user = reader[r].user, h.id = reader[r].id,
         h.start = reader[r].start, h.known = reader[r].known, h.known => ~ h.missing,
         reader[r].pc \in {"count", "select", "lookup"}
  PROVE  ReadsInv'
<1>1. reader'[r] = h /\ rows' = rows /\ listed' = listed
  BY DEF Become, ReadsInv, ReadsTypeOK
<1>2. ReaderInv(r) /\ (reader[r].pc = "lookup" => reader[r].id # None)
  BY ReadsAssumption DEF ReadsInv, ReaderInv, LookupInv
<1>3. WalkInv(r)' /\ NoneSkipped(r)' /\ LookupInv(r)' /\ (~ Missed(r))'
  BY <1>1, <1>2 DEF ReaderInv, WalkInv, NoneSkipped, LookupInv, Missed, Walking, Walks, Mine, Ids
<1> QED
  BY <1>3, SameListed DEF ReaderInv

LEMMA ErrorInv ==
  ASSUME ReadsInv, NEW r \in Readers, reader[r].pc \in {"count", "select", "lookup"}, Error(r)
  PROVE  ReadsInv'
<1> DEFINE g == reader[r]
           h == [g EXCEPT !.pc = "done", !.status = WriteError]
<1>1. g \in Reader /\ LookupInv(r)
  BY DEF ReadsInv, ReadsTypeOK, ReaderInv
<1>2. h \in Reader
  <2>1. "done" \in Stage /\ WriteError \in Status
    BY DEF Stage, Status, WriteError
  <2> QED
    BY <1>1, <2>1 DEF Reader
<1>3. /\ h.pc = "done" /\ h.status = 500 /\ h.user = g.user /\ h.id = g.id /\ h.start = g.start
      /\ h.known = g.known /\ h.missing = g.missing
  BY <1>1 DEF Reader, WriteError
<1>4. Become(r, h) /\ UNCHANGED <<now, rows, listed>>
  BY DEF Error
<1>5. h.known => ~ h.missing
  BY <1>1, <1>3 DEF LookupInv
<1> HIDE DEF h
<1> QED
  BY <1>2, <1>3, <1>4, <1>5, EndInv

LEMMA LookupStartInv ==
  ASSUME ReadsInv, NEW r \in Readers, NEW u \in Users, NEW f \in Files, LookupStart(r, u, f)
  PROVE  ReadsInv'
<1> DEFINE h == [Idle EXCEPT !.pc = "lookup", !.user = u, !.id = f, !.known = <<u, f>> \in listed]
<1>1. h \in Reader
  <2>1. \A b \in BOOLEAN : [Idle EXCEPT !.pc = "lookup", !.user = u, !.id = f, !.known = b] \in Reader
    BY DEF Idle, Reader, Stage, Status
  <2>2. (<<u, f>> \in listed) \in BOOLEAN
    OBVIOUS
  <2> QED
    BY <2>1, <2>2
<1>2. h.pc = "lookup" /\ h.user = u /\ h.id = f /\ (h.known => <<u, f>> \in listed) /\ ~ h.missing
  BY DEF Idle
<1>3. Become(r, h) /\ UNCHANGED <<now, rows, listed>>
  BY DEF LookupStart
<1> HIDE DEF h
<1>4. reader'[r] = h
  BY <1>3 DEF Become, ReadsInv, ReadsTypeOK
<1>5. ReaderInv(r)'
  BY <1>2, <1>3, <1>4 DEF ReaderInv, WalkInv, NoneSkipped, LookupInv, Missed, Walking, Walks
<1> QED
  BY <1>1, <1>2, <1>3, <1>5, SameListed

(* What was listed is in the table, so that a look-up that misses was not  *)
(* of a file that was known.                                               *)
LEMMA LookupEndInv ==
  ASSUME ReadsInv, NEW r \in Readers, LookupFound(r) \/ LookupMissing(r)
  PROVE  ReadsInv'
<1> DEFINE g == reader[r]
<1>1. g \in Reader /\ LookupInv(r) /\ g.pc = "lookup" /\ g.id # None
  BY ReadsAssumption DEF ReadsInv, ReadsTypeOK, ReaderInv, LookupInv, LookupFound, LookupMissing
<1>2. "done" \in Stage /\ 200 \in Status /\ WriteError \in Status
  BY DEF Stage, Status, WriteError
<1>3. CASE LookupFound(r)
  <2> DEFINE h == [g EXCEPT !.pc = "done", !.status = 200]
  <2>1. h \in Reader
    BY <1>1, <1>2 DEF Reader
  <2>2. /\ h.pc = "done" /\ h.user = g.user /\ h.id = g.id /\ h.start = g.start
        /\ h.known = g.known /\ h.missing = g.missing
    BY <1>1 DEF Reader
  <2>3. Become(r, h) /\ UNCHANGED <<now, rows, listed>>
    BY <1>3 DEF LookupFound
  <2>4. h.known => ~ h.missing
    BY <1>1, <2>2 DEF LookupInv
  <2> HIDE DEF h
  <2> QED
    BY <1>1, <2>1, <2>2, <2>3, <2>4, EndInv
<1>4. CASE LookupMissing(r)
  <2> DEFINE h == [g EXCEPT !.pc = "done", !.missing = TRUE, !.status = WriteError]
  <2>1. h \in Reader
    BY <1>1, <1>2 DEF Reader
  <2>2. /\ h.pc = "done" /\ h.user = g.user /\ h.id = g.id /\ h.start = g.start /\ h.known = g.known
    BY <1>1 DEF Reader
  <2>3. Become(r, h) /\ UNCHANGED <<now, rows, listed>>
    BY <1>4 DEF LookupMissing
  <2>4. ~ h.known
    <3>1. ~ InTable(g)
      BY <1>4 DEF LookupMissing
    <3>2. <<g.user, g.id>> \notin listed
      BY <3>1 DEF InTable, ReadsInv, TableInv
    <3> QED
      BY <1>1, <2>2, <3>2 DEF LookupInv
  <2> HIDE DEF h
  <2> QED
    BY <1>1, <2>1, <2>2, <2>3, <2>4, EndInv
<1> QED
  BY <1>3, <1>4

(* As long as a page number and a page size fit their fields, LIMIT and    *)
(* OFFSET are those of the page; the first page number that does not fit   *)
(* is refused.                                                             *)
LEMMA PageFits ==
  ASSUME NEW h \in Reader, h.page >= 1, h.size >= 1, h.size < IntLimit, h.page <= IntLimit,
         Offset(h) >= 0
  PROVE  h.page < IntLimit /\ Limit(h) = h.size /\ Offset(h) = (h.page - 1) * h.size
<1>1. h.page \in Nat /\ h.size \in Nat /\ IntLimit \in Nat \ {0}
  BY ReadsAssumption DEF Reader
<1>2. ASSUME NEW n \in Nat, n < IntLimit PROVE Int32(n) = n
  <2>1. n + IntLimit \in Nat /\ 2 * IntLimit \in Nat /\ n + IntLimit < 2 * IntLimit
    BY <1>1, <1>2
  <2>2. (n + IntLimit) % (2 * IntLimit) = n + IntLimit
    BY <2>1
  <2> QED
    BY <1>1, <2>2 DEF Int32
<1>3. Int32(IntLimit) = - IntLimit
  <2>1. IntLimit + IntLimit = 2 * IntLimit /\ 2 * IntLimit \in Nat \ {0}
    BY <1>1
  <2>2. (2 * IntLimit) % (2 * IntLimit) = 0
    BY <2>1
  <2> QED
    BY <1>1, <2>1, <2>2 DEF Int32
<1>4. Limit(h) = h.size
  BY <1>1, <1>2 DEF Limit
<1>5. h.page # IntLimit
  <2> SUFFICES ASSUME h.page = IntLimit PROVE FALSE
    OBVIOUS
  <2>1. Offset(h) = (- IntLimit - 1) * h.size
    BY <1>3, <1>4 DEF Offset
  <2>2. \A n \in Nat \ {0} : (- IntLimit - 1) * n < 0 /\ (- IntLimit - 1) * n \in Int
    BY <1>1
  <2> DEFINE x == (- IntLimit - 1) * h.size
  <2>3. x < 0 /\ x \in Int /\ Offset(h) = x
    BY <1>1, <2>1, <2>2
  <2> HIDE DEF x
  <2> QED
    BY <2>3
<1> QED
  BY <1>1, <1>2, <1>4, <1>5 DEF Offset

(* A page: a file whose place is on it is shown, one of a later place is   *)
(* left for a later page, and on the page that the total says is the last  *)
(* no place is later.                                                      *)
LEMMA ListSelectInv == ASSUME ReadsInv, NEW r \in Readers, ListSelect(r) PROVE ReadsInv'
<1> DEFINE g == reader[r]
<1>1. /\ g \in Reader /\ ReaderInv(r) /\ g.pc = "select" /\ g.page >= 1 /\ g.size >= 1
      /\ Limit(g) >= 0 /\ Offset(g) >= 0
  BY DEF ReadsInv, ReadsTypeOK, ListSelect
<1>2. g.user \in Users /\ g.id = None /\ g.start \subseteq Ids(Mine(g.user))
  BY <1>1 DEF ReaderInv, WalkInv, Walking, Walks
<1>3. PICK s \in Listings(g.user) :
         LET fs == {s[i].id : i \in {i \in DOMAIN s : Offset(g) < i /\ i <= Offset(g) + Limit(g)}}
         IN  /\ Become(r, AfterPage([g EXCEPT !.shown = @ \cup fs]))
             /\ listed' = listed \cup ({g.user} \X fs)
  BY DEF ListSelect
<1> DEFINE fs == {s[i].id : i \in {i \in DOMAIN s : Offset(g) < i /\ i <= Offset(g) + Limit(g)}}
           k == [g EXCEPT !.shown = @ \cup fs]
           h == AfterPage(k)
           n == Cardinality(Mine(g.user))
<1>4. /\ DOMAIN s = 1..n
      /\ \A f \in Mine(g.user) : \E i \in DOMAIN s : s[i] = f
      /\ \A i \in DOMAIN s : s[i] \in Mine(g.user) /\ (AloneInTime(s[i]) => Rank(s[i]) = i)
  BY Position DEF ReadsInv, ReadsTypeOK, TableInv
<1>5. n \in Nat
  BY MineFinite DEF ReadsInv, TableInv
<1>6. /\ fs \subseteq Files
      /\ \A i \in DOMAIN s : Offset(g) < i /\ i <= Offset(g) + Limit(g) => s[i].id \in fs
      /\ \A x \in fs : \E f \in rows : f.id = x /\ f.owner = g.user
  BY <1>4 DEF Mine, ReadsInv, ReadsTypeOK, FileRow
<1> HIDE DEF n, fs
<1>7. /\ k \in Reader /\ k.pc = "select" /\ k.user = g.user /\ k.page = g.page /\ k.size = g.size
      /\ k.total = g.total /\ k.start = g.start /\ k.shown = g.shown \cup fs /\ k.id = g.id
      /\ k.raced = g.raced /\ k.known = g.known /\ k.missing = g.missing
  <2>1. k \in Reader
    BY <1>1, <1>6 DEF Reader
  <2> QED
    BY <1>1, <2>1 DEF Reader
<1> HIDE DEF k
<1>8. /\ h \in Reader /\ h.user = k.user /\ h.size = k.size /\ h.start = k.start /\ h.shown = k.shown
      /\ h.id = k.id /\ h.raced = k.raced /\ h.known = k.known /\ h.missing = k.missing
      /\ \/ h.pc = "count" /\ h.page = k.page + 1
         \/ h.pc = "done" /\ ~ (k.page * k.size < k.total)
  <2>1. "count" \in Stage /\ "done" \in Stage /\ 200 \in Status
    BY DEF Stage, Status
  <2>2. CASE k.page * k.size < k.total
    <3>1. h = [k EXCEPT !.pc = "count", !.page = k.page + 1] /\ k.page + 1 \in Nat
      BY <1>7, <2>2 DEF AfterPage, Reader
    <3>2. h \in Reader
      BY <1>7, <2>1, <3>1 DEF Reader
    <3> QED
      BY <1>7, <3>1, <3>2 DEF Reader
  <2>3. CASE ~ (k.page * k.size < k.total)
    <3>1. h = [k EXCEPT !.pc = "done", !.status = 200]
      BY <1>7, <2>3 DEF AfterPage
    <3>2. h \in Reader
      BY <1>7, <2>1, <3>1 DEF Reader
    <3> QED
      BY <1>7, <2>3, <3>1, <3>2 DEF Reader
  <2> QED
    BY <2>2, <2>3
<1>9. Become(r, h) /\ listed' = listed \cup ({g.user} \X fs) /\ UNCHANGED <<now, rows>>
  BY <1>3 DEF ListSelect, fs, k
<1> HIDE DEF h
<1>10. reader'[r] = h /\ rows' = rows
  BY <1>9 DEF Become, ReadsInv, ReadsTypeOK
<1>11. ASSUME g.size < IntLimit
       PROVE  /\ g.page < IntLimit
              /\ \A f \in Mine(g.user) : f.id \in g.start /\ AloneInTime(f) /\ f.id \notin h.shown
                    => Rank(f) > g.page * g.size /\ Rank(f) <= n
  <2>1. g.page <= IntLimit
    BY <1>1, <1>11 DEF ReaderInv, NoneSkipped, Walking
  <2>2. g.page < IntLimit /\ Limit(g) = g.size /\ Offset(g) = (g.page - 1) * g.size
    BY <1>1, <1>11, <2>1, PageFits
  <2>3. g.page \in Nat /\ g.size \in Nat
    BY <1>1 DEF Reader
  <2>4. (g.page - 1) * g.size + g.size = g.page * g.size /\ (g.page - 1) * g.size \in Int
        /\ g.page * g.size \in Int
    BY <2>3
  <2> SUFFICES ASSUME NEW f \in Mine(g.user), f.id \in g.start, AloneInTime(f), f.id \notin h.shown
               PROVE  Rank(f) > g.page * g.size /\ Rank(f) <= n
    BY <2>2
  <2>5. PICK i \in 1..n : s[i] = f /\ Rank(f) = i
    BY <1>4
  <2>6. i > Offset(g)
    BY <1>1, <1>7, <1>8, <1>11, <2>2, <2>5 DEF ReaderInv, NoneSkipped, Walking
  <2>7. ~ (i <= Offset(g) + Limit(g))
    BY <1>4, <1>6, <1>7, <1>8, <2>5, <2>6
  <2> QED
    BY <1>5, <2>2, <2>4, <2>5, <2>7
<1>12. WalkInv(r)'
  BY <1>2, <1>7, <1>8, <1>10 DEF WalkInv, Walking, Walks, Mine, Ids
<1>13. NoneSkipped(r)'
  <2> SUFFICES ASSUME h.pc = "count", h.size < IntLimit
               PROVE  /\ h.page <= IntLimit
                      /\ \A f \in Mine(g.user) : f.id \in h.start /\ AloneInTime(f)
                            => f.id \in h.shown \/ Rank(f) > (h.page - 1) * h.size
    BY <1>7, <1>8, <1>10 DEF NoneSkipped, Walking, Mine, AloneInTime, Newer, Rank
  <2>1. h.page = g.page + 1 /\ h.page - 1 = g.page /\ g.page \in Nat /\ h.size = g.size
        /\ h.start = g.start
    BY <1>1, <1>7, <1>8 DEF Reader
  <2> QED
    BY <1>11, <2>1, ReadsAssumption
<1>14. (~ Missed(r))'
  <2> SUFFICES ASSUME h.pc = "done", ~ h.raced, h.size < IntLimit,
                      NEW f \in Mine(g.user), f.id \in h.start, AloneInTime(f), f.id \notin h.shown
               PROVE  FALSE
    BY <1>7, <1>8, <1>10 DEF Missed, Mine, AloneInTime
  <2>1. g.total = n /\ ~ (g.page * g.size < g.total)
    BY <1>1, <1>7, <1>8 DEF ReaderInv, WalkInv, n
  <2>2. Rank(f) > g.page * g.size /\ Rank(f) <= n
    BY <1>7, <1>8, <1>11
  <2>3. Rank(f) \in Nat /\ g.page * g.size \in Int
    <3>1. Rank(f) \in Nat
      BY NewerFinite DEF ReadsInv, TableInv
    <3> QED
      BY <1>1, <3>1 DEF Reader
  <2> QED
    BY <1>5, <2>1, <2>2, <2>3
<1>15. LookupInv(r)'
  BY <1>1, <1>7, <1>8, <1>10 DEF ReaderInv, LookupInv
<1>16. ReaderInv(r)'
  BY <1>12, <1>13, <1>14, <1>15 DEF ReaderInv
<1>17. /\ listed \subseteq listed' /\ listed' \subseteq Users \X Files
       /\ \A p \in listed' \ listed : \E f \in rows : p = <<f.owner, f.id>>
  BY <1>2, <1>6, <1>9 DEF ReadsInv, ReadsTypeOK
<1>18. h.pc \in {"count", "select"} => h.page >= 1 /\ h.size >= 1
  BY <1>1, <1>7, <1>8 DEF Reader
<1> QED
  BY <1>8, <1>9, <1>16, <1>17, <1>18, OneReader

-----------------------------------------------------------------------------
LEMMA ReadsNextInv == ReadsInv /\ [ReadsNext]_readsVars => ReadsInv'
<1> SUFFICES ASSUME ReadsInv, [ReadsNext]_readsVars PROVE ReadsInv'
  OBVIOUS
<1>1. CASE Tick
  BY <1>1, TickInv
<1>2. ASSUME NEW f \in Files, NEW u \in Users, NEW c \in 0..now, Insert(f, u, c) PROVE ReadsInv'
  BY <1>2, InsertInv
<1>3. ASSUME NEW r \in Readers,
             \/ \E u \in Users, name \in {"pageSize", "page_size"}, size \in Sizes :
                   WalkStart(r, u, name, size)
             \/ ListCount(r) \/ ListSelect(r) \/ ListRefused(r)
             \/ \E u \in Users, f \in Files : LookupStart(r, u, f)
             \/ LookupFound(r) \/ LookupMissing(r) \/ ReadFail(r) \/ Forget(r)
      PROVE  ReadsInv'
  BY <1>3, WalkStartInv, ListCountInv, ListSelectInv, ErrorInv, LookupStartInv, LookupEndInv, ForgetInv
     DEF ListRefused, ReadFail
<1>4. CASE UNCHANGED readsVars
  <2>1. ReadsTypeOK' /\ TableInv'
    BY <1>4 DEF readsVars, ReadsInv, ReadsTypeOK, TableInv
  <2>2. \A q \in Readers : ReaderInv(q)'
    BY <1>4, OthersKeep DEF readsVars
  <2> QED
    BY <2>1, <2>2 DEF ReadsInv
<1> QED
  BY <1>1, <1>2, <1>3, <1>4 DEF ReadsNext

THEOREM ReadsInductive == ReadsSpec => []ReadsInv
  BY ReadsInitInv, ReadsNextInv, PTL DEF ReadsSpec

(* The table, the listings and every request keep their types.             *)
THEOREM ReadsTypeCorrect == ReadsSpec => []ReadsTypeOK
  BY ReadsInductive, PTL DEF ReadsInv

(* repository List: a walk through the pages shows every file that was     *)
(* there when it began, for any number of files, users and readers, any    *)
(* page size that its field holds, and inserts at any moment.              *)
THEOREM WalksAreComplete == ReadsSpec => []WalkMissesNothing
<1>1. ReadsInv => WalkMissesNothing
  BY DEF ReadsInv, ReaderInv, Missed, WalkMissesNothing
<1> QED
  BY ReadsInductive, <1>1, PTL

(* handler Metadata: what a listing showed to a user is found afterwards.  *)
THEOREM ListedFound == ReadsSpec => []ListedIsFound
<1>1. ReadsInv => ListedIsFound
  BY DEF ReadsInv, ReaderInv, LookupInv, ListedIsFound
<1> QED
  BY ReadsInductive, <1>1, PTL

-----------------------------------------------------------------------------
(* StreamedUpload.                                                         *)

(* The messages that the client has sent, and those that the service has   *)
(* taken from the stream: the first one is no chunk.                       *)
Sent == client.sent + (IF client.pc = "info" THEN 0 ELSE 1)
Taken == store.got + (IF pump = "writing" THEN 1 ELSE 0) + (IF store.pc = "first" THEN 0 ELSE 1)

(* A stream that was cut has lost messages, never gained any.              *)
Conserved ==
    ~ StoreDone \/ Pumping =>
        /\ Taken + Len(net.queue) <= Sent
        /\ net.end # "reset" => Taken + Len(net.queue) = Sent

(* How the stream ended says how far the client got.                       *)
StreamEnd ==
    /\ net.end = "eof" => client.sent = input.length /\ client.pc # "info"
    /\ client.pc = "info" => client.sent = 0
    /\ client.pc \in {"info", "sending"} => net.end = "open"
    /\ client.pc \in {"waiting", "ok"} => net.end = "eof"
    /\ client.pc = "ok" => store.pc = "ok"

(* What the pump has left in the pipe, and what the handler knows of it.   *)
PipeEnd ==
    /\ pipe = "eof" => store.got = input.length /\ pump = "done"
    /\ pump = "none" => store.pc \in {"first", "failed"} /\ pipe = "open"
    /\ store.pc = "first" => pump = "none" /\ store.got = 0
    /\ store.pc \in {"create", "ok"} => pipe = "eof"
    /\ pump = "done" /\ ~ StoreDone => pipe # "open"

(* What is stored at each stage of the handler.                            *)
Stored ==
    /\ store.pc \in {"first", "open"} => object = Absent /\ store.got = 0
    /\ store.pc = "copy" => object = IF input.backend = "local" THEN store.got ELSE Absent
    /\ store.pc = "create" => object = store.got
    /\ row # Absent => store.pc \in {"ok", "failed"}
    /\ store.pc = "ok" => row # Absent
    /\ store.pc = "failed" /\ store.why \in {"none", "stream", "store"} => object = Absent

UploadInv == TypeOK /\ Conserved /\ StreamEnd /\ PipeEnd /\ Stored /\ RowIsWholeFile

-----------------------------------------------------------------------------
LEMMA UploadInitInv == Init => UploadInv
<1> SUFFICES ASSUME Init PROVE UploadInv
  OBVIOUS
<1>1. net \in Net /\ Len(net.queue) = 0 /\ net.end = "open"
  BY DEF Init, Net, Message
<1> QED
  BY <1>1, StreamAssumption DEF Init, UploadInv, TypeOK, Conserved, Sent, Taken, StreamEnd, PipeEnd, Stored,
     RowIsWholeFile, StoreDone, Pumping

(* What becomes of the stream by a message that is sent, by one that is    *)
(* taken, and by its end.                                                  *)
LEMMA NetLength == ASSUME NEW n \in Net PROVE Len(n.queue) \in Nat
  BY DEF Net

LEMMA NetSend ==
  ASSUME NEW n \in Net, NEW m \in Message, NEW n2, n2 = [n EXCEPT !.queue = Append(@, m)]
  PROVE  n2 \in Net /\ Len(n2.queue) = Len(n.queue) + 1 /\ n2.end = n.end
<1>1. Append(n.queue, m) \in Seq(Message) /\ Len(Append(n.queue, m)) = Len(n.queue) + 1
  BY DEF Net
<1> QED
  BY <1>1 DEF Net

LEMMA NetTake ==
  ASSUME NEW n \in Net, n.queue # <<>>, NEW n2, n2 = [n EXCEPT !.queue = Tail(@)]
  PROVE  n2 \in Net /\ Len(n2.queue) = Len(n.queue) - 1 /\ n2.end = n.end
<1>1. Tail(n.queue) \in Seq(Message) /\ Len(Tail(n.queue)) = Len(n.queue) - 1
  BY DEF Net
<1> QED
  BY <1>1 DEF Net

LEMMA NetCut ==
  ASSUME NEW n \in Net, NEW k \in 0..Len(n.queue),
         NEW n2, n2 = [queue |-> SubSeq(n.queue, 1, k), end |-> "reset"]
  PROVE  n2 \in Net /\ Len(n2.queue) <= Len(n.queue) /\ n2.end = "reset"
<1>1. SubSeq(n.queue, 1, k) \in Seq(Message) /\ Len(SubSeq(n.queue, 1, k)) = k
  BY SubSeqProperties DEF Net
<1> QED
  BY <1>1 DEF Net

LEMMA Counts == ASSUME UploadInv PROVE Sent \in Nat /\ Taken \in Nat /\ Len(net.queue) \in Nat
<1>1. Len(net.queue) \in Nat
  BY NetLength DEF UploadInv, TypeOK
<1> QED
  BY <1>1, StreamAssumption DEF UploadInv, TypeOK, Sent, Taken

(* A step that only the client takes.                                      *)
LEMMA ClientInv ==
  ASSUME UploadInv, SendInfo \/ SendChunk \/ SendClose \/ SendFails \/ Receive \/ Abandon
  PROVE  UploadInv'
<1> USE StreamAssumption
<1>0. net \in Net /\ Len(net.queue) \in Nat
  BY NetLength DEF UploadInv, TypeOK
<1>1. CASE SendInfo
  <2>1. net' \in Net /\ Len(net'.queue) = Len(net.queue) + 1 /\ net'.end = net.end
    BY <1>0, <1>1, NetSend DEF SendInfo, Send, Message
  <2>2. Sent' = Sent + 1 /\ Taken' = Taken /\ (StoreDone' <=> StoreDone) /\ (Pumping' <=> Pumping)
    BY <1>0, <1>1 DEF SendInfo, Send, Message, UploadInv, TypeOK, Sent, Taken, StoreDone, Pumping,
       StreamEnd, PipeEnd
  <2>3. Conserved'
    BY <1>0, <2>1, <2>2, Counts DEF UploadInv, Conserved
  <2>4. TypeOK'
    BY <1>0, <1>1, <2>1 DEF SendInfo, Send, Message, UploadInv, TypeOK, StoreDone, Pumping, PipeEnd
  <2>5. StreamEnd' /\ PipeEnd' /\ Stored' /\ RowIsWholeFile'
    BY <1>0, <1>1, <2>1 DEF SendInfo, Send, Message, UploadInv, TypeOK, StreamEnd, PipeEnd, Stored,
       RowIsWholeFile, StoreDone, Pumping
  <2> QED
    BY <2>3, <2>4, <2>5 DEF UploadInv
<1>2. CASE SendChunk
  <2>1. net' \in Net /\ Len(net'.queue) = Len(net.queue) + 1 /\ net'.end = net.end
    BY <1>0, <1>2, NetSend DEF SendChunk, Send, Message
  <2>2. Sent' = Sent + 1 /\ Taken' = Taken /\ (StoreDone' <=> StoreDone) /\ (Pumping' <=> Pumping)
    BY <1>0, <1>2 DEF SendChunk, Send, Message, UploadInv, TypeOK, Sent, Taken, StoreDone, Pumping,
       StreamEnd, PipeEnd
  <2>3. Conserved'
    BY <1>0, <2>1, <2>2, Counts DEF UploadInv, Conserved
  <2>4. TypeOK'
    BY <1>0, <1>2, <2>1 DEF SendChunk, Send, Message, UploadInv, TypeOK, StoreDone, Pumping, PipeEnd
  <2>5. StreamEnd' /\ PipeEnd' /\ Stored' /\ RowIsWholeFile'
    BY <1>0, <1>2, <2>1 DEF SendChunk, Send, Message, UploadInv, TypeOK, StreamEnd, PipeEnd, Stored,
       RowIsWholeFile, StoreDone, Pumping
  <2> QED
    BY <2>3, <2>4, <2>5 DEF UploadInv
<1>3. CASE SendClose
  <2>1. net' \in Net /\ net'.queue = net.queue /\ net'.end = "eof"
    BY <1>0, <1>3, Counts DEF SendClose, Net
  <2>2. Sent' = Sent /\ Taken' = Taken /\ (StoreDone' <=> StoreDone) /\ (Pumping' <=> Pumping)
    BY <1>0, <1>3 DEF SendClose, Net, UploadInv, TypeOK, Sent, Taken, StoreDone, Pumping,
       StreamEnd, PipeEnd
  <2>3. Conserved'
    BY <1>0, <1>3, <2>1, <2>2, Counts DEF SendClose, UploadInv, Conserved, StreamEnd
  <2>4. TypeOK'
    BY <1>0, <1>3, <2>1 DEF SendClose, Net, UploadInv, TypeOK, StoreDone, Pumping, PipeEnd
  <2>5. StreamEnd' /\ PipeEnd' /\ Stored' /\ RowIsWholeFile'
    BY <1>0, <1>3, <2>1 DEF SendClose, Net, UploadInv, TypeOK, StreamEnd, PipeEnd, Stored,
       RowIsWholeFile, StoreDone, Pumping
  <2> QED
    BY <2>3, <2>4, <2>5 DEF UploadInv
<1>4. CASE GiveUp
  <2>1. net' \in Net /\ Len(net'.queue) <= Len(net.queue) /\ Len(net'.queue) \in Nat
        /\ net'.end = "reset"
    BY <1>0, <1>4, NetCut, NetLength DEF GiveUp
  <2>2. Sent' \in {Sent, Sent + 1} /\ Taken' = Taken /\ (StoreDone' <=> StoreDone) /\ (Pumping' <=> Pumping)
    BY <1>0, <1>4 DEF GiveUp, UploadInv, TypeOK, Sent, Taken, StoreDone, Pumping,
       StreamEnd, PipeEnd
  <2>3. Conserved'
    BY <1>0, <2>1, <2>2, Counts DEF UploadInv, Conserved
  <2>4. TypeOK'
    BY <1>0, <1>4, <2>1 DEF GiveUp, UploadInv, TypeOK, StoreDone, Pumping, PipeEnd
  <2>5. StreamEnd' /\ PipeEnd' /\ Stored' /\ RowIsWholeFile'
    BY <1>0, <1>4, <2>1 DEF GiveUp, UploadInv, TypeOK, StreamEnd, PipeEnd, Stored,
       RowIsWholeFile, StoreDone, Pumping
  <2> QED
    BY <2>3, <2>4, <2>5 DEF UploadInv
<1>5. CASE Receive
  BY <1>0, <1>5 DEF Receive, UploadInv, TypeOK, Conserved, Sent, Taken, StreamEnd, PipeEnd, Stored,
     RowIsWholeFile, StoreDone, Pumping
<1> QED
  BY <1>1, <1>2, <1>3, <1>4, <1>5 DEF SendFails, Abandon

(* The pump moves a message, or ends the pipe.                             *)
LEMMA PumpInv == UploadInv /\ PumpStep => UploadInv'
<1> SUFFICES ASSUME UploadInv, PumpStep PROVE UploadInv'
  OBVIOUS
<1> USE StreamAssumption
<1>0. net \in Net /\ Len(net.queue) \in Nat
  BY NetLength DEF UploadInv, TypeOK
<1>1. CASE PumpReceive
  <2>1. net' \in Net /\ Len(net'.queue) = Len(net.queue) - 1 /\ net'.end = net.end
    BY <1>0, <1>1, NetTake DEF PumpReceive
  <2>2. Sent' = Sent /\ Taken' = Taken + 1 /\ (StoreDone' <=> StoreDone) /\ (Pumping' <=> Pumping)
    BY <1>0, <1>1 DEF PumpReceive, UploadInv, TypeOK, Sent, Taken, StoreDone, Pumping,
       StreamEnd, PipeEnd
  <2>3. Conserved'
    BY <1>0, <2>1, <2>2, Counts DEF UploadInv, Conserved
  <2>4. TypeOK'
    BY <1>0, <1>1, <2>1 DEF PumpReceive, UploadInv, TypeOK, StoreDone, Pumping, PipeEnd
  <2>5. StreamEnd' /\ PipeEnd' /\ Stored' /\ RowIsWholeFile'
    BY <1>0, <1>1, <2>1 DEF PumpReceive, UploadInv, TypeOK, StreamEnd, PipeEnd, Stored,
       RowIsWholeFile, StoreDone, Pumping
  <2> QED
    BY <2>3, <2>4, <2>5 DEF UploadInv
<1>2. CASE PumpEof
  <2>1. Len(net.queue) = 0
    BY <1>2 DEF PumpEof
  <2>2. store.got = input.length
    BY <1>0, <1>2, <2>1 DEF PumpEof, Pumping, UploadInv, TypeOK, Conserved, Sent, Taken, StreamEnd, PipeEnd
  <2> QED
    BY <1>0, <1>2, <2>2 DEF PumpEof, PumpEnd, UploadInv, TypeOK, Conserved, Sent, Taken, StreamEnd, PipeEnd,
       Stored, RowIsWholeFile, StoreDone, Pumping
<1>3. CASE PumpError
  BY <1>0, <1>3 DEF PumpError, PumpEnd, UploadInv, TypeOK, Conserved, Sent, Taken, StreamEnd, PipeEnd, Stored,
     RowIsWholeFile, StoreDone, Pumping
<1> QED
  BY <1>1, <1>2, <1>3 DEF PumpStep

(* The handler, its failures and its end.                                  *)
LEMMA StoreInv == UploadInv /\ (StoreStep \/ CopyFail \/ Crash) => UploadInv'
<1> SUFFICES ASSUME UploadInv, StoreStep \/ CopyFail \/ Crash PROVE UploadInv'
  OBVIOUS
<1> USE StreamAssumption
<1>0. net \in Net /\ Len(net.queue) \in Nat
  BY NetLength DEF UploadInv, TypeOK
<1>1. CASE FirstMessage
  <2>1. net' \in Net /\ Len(net'.queue) = Len(net.queue) - 1 /\ net'.end = net.end
    BY <1>0, <1>1, NetTake DEF FirstMessage
  <2>2. Sent' = Sent /\ Taken' = Taken + 1 /\ (StoreDone' <=> StoreDone) /\ ~ StoreDone
    BY <1>0, <1>1 DEF FirstMessage, UploadInv, TypeOK, Sent, Taken, StoreDone, Pumping,
       StreamEnd, PipeEnd
  <2>3. Conserved'
    <3>1. Taken' + Len(net'.queue) = Taken + Len(net.queue)
      BY <2>1, <2>2, Counts
    <3>2. /\ Taken' + Len(net'.queue) <= Sent'
          /\ net'.end # "reset" => Taken' + Len(net'.queue) = Sent'
      BY <2>1, <2>2, <3>1 DEF UploadInv, Conserved
    <3> QED
      BY <3>2 DEF Conserved
  <2>4. TypeOK'
    BY <1>0, <1>1, <2>1 DEF FirstMessage, UploadInv, TypeOK, StoreDone, Pumping, PipeEnd
  <2>5. StreamEnd' /\ PipeEnd' /\ Stored' /\ RowIsWholeFile'
    BY <1>0, <1>1, <2>1 DEF FirstMessage, UploadInv, TypeOK, StreamEnd, PipeEnd, Stored,
       RowIsWholeFile, StoreDone, Pumping
  <2> QED
    BY <2>3, <2>4, <2>5 DEF UploadInv
<1>2. CASE FirstMissing
  BY <1>0, <1>2 DEF FirstMissing, StoreFail, UploadInv, TypeOK, Conserved, Sent, Taken, StreamEnd, PipeEnd, Stored,
     RowIsWholeFile, StoreDone, Pumping
<1>3. CASE Open
  BY <1>0, <1>3 DEF Open, UploadInv, TypeOK, Conserved, Sent, Taken, StreamEnd, PipeEnd, Stored,
     RowIsWholeFile, StoreDone, Pumping
<1>4. CASE Copy
  BY <1>0, <1>4 DEF Copy, UploadInv, TypeOK, Conserved, Sent, Taken, StreamEnd, PipeEnd, Stored,
     RowIsWholeFile, StoreDone, Pumping
<1>5. CASE CopyEnd
  BY <1>0, <1>5 DEF CopyEnd, UploadInv, TypeOK, Conserved, Sent, Taken, StreamEnd, PipeEnd, Stored,
     RowIsWholeFile, StoreDone, Pumping
<1>6. CASE CopyBroken
  BY <1>0, <1>6 DEF CopyBroken, GiveUpCopy, StoreFail, UploadInv, TypeOK, Conserved, Sent, Taken, StreamEnd, PipeEnd, Stored,
     RowIsWholeFile, StoreDone, Pumping
<1>7. CASE PutLost
  BY <1>0, <1>7 DEF PutLost, StoreFail, UploadInv, TypeOK, Conserved, Sent, Taken, StreamEnd, PipeEnd, Stored,
     RowIsWholeFile, StoreDone, Pumping
<1>8. CASE Create
  BY <1>0, <1>8 DEF Create, UploadInv, TypeOK, Conserved, Sent, Taken, StreamEnd, PipeEnd, Stored,
     RowIsWholeFile, StoreDone, Pumping
<1>9. CASE CreateFail
  BY <1>0, <1>9 DEF CreateFail, StoreFail, UploadInv, TypeOK, Conserved, Sent, Taken, StreamEnd, PipeEnd, Stored,
     RowIsWholeFile, StoreDone, Pumping
<1>10. CASE CopyFail
  BY <1>0, <1>10 DEF CopyFail, GiveUpCopy, StoreFail, UploadInv, TypeOK, Conserved, Sent, Taken, StreamEnd, PipeEnd, Stored,
     RowIsWholeFile, StoreDone, Pumping
<1>11. CASE Crash
  BY <1>0, <1>11 DEF Crash, StoreFail, UploadInv, TypeOK, Conserved, Sent, Taken, StreamEnd, PipeEnd, Stored,
     RowIsWholeFile, StoreDone, Pumping
<1> QED
  BY <1>1, <1>2, <1>3, <1>4, <1>5, <1>6, <1>7, <1>8, <1>9, <1>10, <1>11 DEF StoreStep

LEMMA StutterInv == UploadInv /\ UNCHANGED vars => UploadInv'
  BY DEF vars, UploadInv, TypeOK, Conserved, Sent, Taken, StreamEnd, PipeEnd, Stored,
     RowIsWholeFile, StoreDone, Pumping

THEOREM UploadInductive == Spec => []UploadInv
<1>1. UploadInv /\ [Next]_vars => UploadInv'
  BY ClientInv, PumpInv, StoreInv, StutterInv DEF Next, ClientStep
<1> QED
  BY UploadInitInv, <1>1, PTL DEF Spec

-----------------------------------------------------------------------------
(* Every part of an upload keeps its type, however long the file and wide  *)
(* the stream: no message is taken that was not sent, and the pump writes  *)
(* into no pipe that has ended.                                            *)
THEOREM UploadTypeCorrect == Spec => []TypeOK
  BY UploadInductive, PTL DEF UploadInv

(* FileService.Store: a row is the row of a whole file whose object is     *)
(* there, whatever broke off on the way, and the client of                 *)
(* storageClient.Store is told only of a file that has its row.            *)
THEOREM RowsAreWholeFiles == Spec => []RowIsWholeFile
  BY UploadInductive, PTL DEF UploadInv

(* An upload that failed leaves an object without a row only when the      *)
(* failure came after the whole object was stored, or killed the process.  *)
THEOREM OrphansAreLate == Spec => []OrphanIsLate
<1>1. UploadInv => OrphanIsLate
  BY DEF UploadInv, TypeOK, Stored, OrphanIsLate
<1> QED
  BY UploadInductive, <1>1, PTL

(* The three parties of an upload never wait for each other in a circle,   *)
(* for any window: a client that waits for room waits for the pump, which  *)
(* waits for the handler, which never waits for a pump that has ended.     *)
THEOREM NobodyIsStuck == Spec => []NoCircularWait
<1>1. UploadInv => NoCircularWait
  <2> SUFFICES ASSUME UploadInv, ClientWaits, PumpWaits, StoreWaits PROVE FALSE
    BY DEF NoCircularWait
  <2> USE StreamAssumption
  <2>1. net \in Net /\ Len(net.queue) \in Nat /\ (net.queue = <<>> => Len(net.queue) = 0)
    BY NetLength DEF UploadInv, TypeOK
  <2>2. ~ StoreDone /\ client.pc \in {"info", "sending", "waiting"}
    BY DEF ClientWaits
  <2>3. net.end # "reset"
    BY <2>2 DEF UploadInv, StreamEnd
  <2>4. Taken + Len(net.queue) = Sent
    BY <2>2, <2>3 DEF UploadInv, Conserved
  <2>5. CASE store.pc = "first"
    <3>1. Taken = 0 /\ net.queue = <<>> /\ Len(net.queue) = 0
      BY <2>1, <2>3, <2>5 DEF StoreWaits, Taken, UploadInv, PipeEnd
    <3>2. client.pc # "info" => Sent # 0
      BY <2>2 DEF Sent, UploadInv, TypeOK
    <3>3. client.pc = "info"
      BY <2>4, <3>1, <3>2
    <3> QED
      BY <2>1, <3>1, <3>3 DEF ClientWaits
  <2>6. CASE store.pc = "copy"
    <3>1. pump \notin {"writing", "done", "none"} /\ pipe = "open"
      BY <2>2, <2>6 DEF StoreWaits, UploadInv, PipeEnd
    <3>2. pump = "receiving" /\ Len(net.queue) = 0 /\ net.end = "open"
      BY <2>1, <3>1 DEF PumpWaits, Pumping, UploadInv, TypeOK
    <3>3. client.pc \notin {"waiting"}
      BY <3>2 DEF UploadInv, StreamEnd
    <3> QED
      BY <2>1, <3>2, <3>3 DEF ClientWaits
  <2> QED
    BY <2>5, <2>6 DEF StoreWaits
<1> QED
  BY UploadInductive, <1>1, PTL

-----------------------------------------------------------------------------
(* How many steps an upload can still take: three for each chunk that is   *)
(* not sent, two for each message under way, and those that each of the    *)
(* parties has before it.                                                  *)
ClientAhead ==
    CASE client.pc = "info" -> 5 [] client.pc = "sending" -> 2 [] client.pc = "waiting" -> 1
      [] OTHER -> 0
PumpAhead == CASE pump = "writing" -> 2 [] pump = "done" -> 0 [] OTHER -> 1
StoreAhead ==
    CASE store.pc = "first" -> 4 [] store.pc = "open" -> 3 [] store.pc = "copy" -> 2
      [] store.pc = "create" -> 1 [] OTHER -> 0
Unsent == input.length - client.sent
UnderWay == Len(net.queue)
StepsAhead == 3 * Unsent + 2 * UnderWay + ClientAhead + PumpAhead + StoreAhead
StepsAtMost == 3 * input.length + 10

LEMMA AheadTyped ==
  ASSUME TypeOK
  PROVE  /\ Unsent \in Nat /\ UnderWay \in Nat /\ StepsAtMost \in Nat /\ StepsAhead \in Nat
         /\ ClientAhead \in 0..5 /\ PumpAhead \in 0..2 /\ StoreAhead \in 0..4
<1>1. Unsent \in Nat /\ StepsAtMost \in Nat
  BY StreamAssumption DEF TypeOK, Unsent, StepsAtMost
<1>2. UnderWay \in Nat
  BY NetLength DEF TypeOK, UnderWay
<1>3. ClientAhead \in 0..5 /\ PumpAhead \in 0..2 /\ StoreAhead \in 0..4
  BY DEF ClientAhead, PumpAhead, StoreAhead
<1> QED
  BY <1>1, <1>2, <1>3 DEF StepsAhead

LEMMA NextAheadTyped == TypeOK' => (StepsAhead \in Nat)'
<1>1. TypeOK => StepsAhead \in Nat
  BY AheadTyped
<1> QED
  BY <1>1, PTL

(* The three ways in which it becomes less without a chunk being sent.     *)
LEMMA Lessened ==
  ASSUME NEW u \in Nat, NEW q \in Nat, NEW c \in Nat, NEW p \in Nat, NEW t \in Nat,
         NEW q2 \in Nat, NEW c2 \in Nat, NEW p2 \in Nat, NEW t2 \in Nat,
         \/ q2 <= q /\ c2 < c /\ p2 = p /\ t2 = t
         \/ q2 = q - 1 /\ c2 = c /\ p2 <= p + 1 /\ t2 <= t
         \/ q2 = q /\ c2 = c /\ p2 <= p /\ t2 < t
  PROVE  3 * u + 2 * q2 + c2 + p2 + t2 < 3 * u + 2 * q + c + p + t
  OBVIOUS

LEMMA SameInput == Next => input' = input
<1>1. ClientStep \/ Abandon => input' = input
  BY DEF ClientStep, SendInfo, SendChunk, Send, SendClose, SendFails, GiveUp, Receive, Abandon
<1>2. PumpStep => input' = input
  BY DEF PumpStep, PumpReceive, PumpEof, PumpError, PumpEnd
<1>3. StoreStep \/ CopyFail \/ Crash => input' = input
  BY DEF StoreStep, FirstMessage, FirstMissing, Open, Copy, CopyEnd, CopyBroken, GiveUpCopy, PutLost,
     Create, CreateFail, CopyFail, Crash
<1> QED
  BY <1>1, <1>2, <1>3 DEF Next

(* An upload ends after at most three steps for each chunk and ten more,   *)
(* whatever fails: no step of client, pump or handler, and no failure, can *)
(* be taken again and again.                                               *)
THEOREM UploadIsBounded ==
  Spec => /\ [](StepsAhead \in 0..StepsAtMost)
          /\ [][StepsAhead' < StepsAhead]_vars
<1> USE StreamAssumption
<1> DEFINE Bounded == StepsAhead \in 0..StepsAtMost
<1>1. Init => Bounded
  <2> SUFFICES ASSUME Init PROVE Bounded
    OBVIOUS
  <2>1. ClientAhead = 5 /\ PumpAhead = 1 /\ StoreAhead = 4 /\ UnderWay = 0
    BY DEF Init, ClientAhead, PumpAhead, StoreAhead, UnderWay
  <2>2. input.length \in Nat /\ client.sent = 0
    BY DEF Init
  <2>3. Unsent \in Nat /\ StepsAtMost = 3 * Unsent + 10
    BY <2>2 DEF Unsent, StepsAtMost
  <2> QED
    BY <2>1, <2>3 DEF StepsAhead
<1>2. ASSUME UploadInv, UploadInv', Next PROVE StepsAhead' < StepsAhead
  <2>0. /\ net \in Net /\ net' \in Net /\ Len(net.queue) \in Nat
        /\ input.length \in Nat /\ client.sent \in 0..input.length
    BY <1>2, NetLength DEF UploadInv, TypeOK
  <2>1. /\ Unsent \in Nat /\ UnderWay \in Nat /\ Unsent' \in Nat /\ UnderWay' \in Nat
        /\ ClientAhead \in 0..5 /\ PumpAhead \in 0..2 /\ StoreAhead \in 0..4
        /\ ClientAhead' \in 0..5 /\ PumpAhead' \in 0..2 /\ StoreAhead' \in 0..4
    <3>1. UnderWay \in Nat /\ UnderWay' \in Nat
      BY <2>0, NetLength DEF UnderWay
    <3>2. Unsent \in Nat /\ Unsent' \in Nat
      BY <1>2, StreamAssumption DEF Unsent, UploadInv, TypeOK
    <3>3. /\ ClientAhead \in 0..5 /\ PumpAhead \in 0..2 /\ StoreAhead \in 0..4
          /\ ClientAhead' \in 0..5 /\ PumpAhead' \in 0..2 /\ StoreAhead' \in 0..4
      BY DEF ClientAhead, PumpAhead, StoreAhead
    <3> QED
      BY <3>1, <3>2, <3>3
  <2>2. CASE SendInfo
    <3>1. UnderWay' = UnderWay + 1 /\ Unsent' = Unsent
      BY <1>2, <2>0, <2>2, NetSend DEF SendInfo, Send, Message, UploadInv, TypeOK, UnderWay, Unsent
    <3>2. ClientAhead = 5 /\ ClientAhead' = 2 /\ PumpAhead' = PumpAhead /\ StoreAhead' = StoreAhead
      BY <1>2, <2>2 DEF SendInfo, Send, ClientAhead, PumpAhead, StoreAhead, UploadInv, TypeOK
    <3> QED
      BY <2>1, <3>1, <3>2 DEF StepsAhead
  <2>3. CASE SendChunk
    <3>0. client' = [client EXCEPT !.sent = @ + 1] /\ input' = input /\ client'.sent = client.sent + 1
      BY <1>2, <2>3 DEF SendChunk, Send, UploadInv, TypeOK
    <3>1. UnderWay' = UnderWay + 1 /\ Unsent' = Unsent - 1
      BY <2>0, <2>3, <3>0, NetSend DEF SendChunk, Send, Message, UnderWay, Unsent
    <3>2. ClientAhead' = ClientAhead /\ PumpAhead' = PumpAhead /\ StoreAhead' = StoreAhead
      BY <1>2, <2>3 DEF SendChunk, Send, ClientAhead, PumpAhead, StoreAhead, UploadInv, TypeOK
    <3> QED
      BY <2>1, <3>1, <3>2 DEF StepsAhead
  <2>4. CASE SendClose
    <3>1. UnderWay' = UnderWay /\ Unsent' = Unsent /\ PumpAhead' = PumpAhead
          /\ StoreAhead' = StoreAhead /\ ClientAhead = 2 /\ ClientAhead' = 1
      BY <1>2, <2>0, <2>4 DEF SendClose, Net, UnderWay, Unsent, ClientAhead, PumpAhead, StoreAhead, UploadInv, TypeOK
    <3> QED
      BY <2>1, <3>1 DEF StepsAhead
  <2>5. CASE SendFails \/ Abandon
    <3>1. UnderWay' <= UnderWay
      BY <2>0, <2>5, NetCut DEF SendFails, Abandon, GiveUp, UnderWay
    <3>2. /\ client' = [client EXCEPT !.pc = "failed"] /\ UNCHANGED <<input, pump, store>>
          /\ client.pc \in {"info", "sending", "waiting"}
      BY <1>2, <2>5 DEF SendFails, Abandon, GiveUp, ClientDone, UploadInv, TypeOK
    <3>3. client'.pc = "failed" /\ client'.sent = client.sent
      BY <1>2, <3>2 DEF UploadInv, TypeOK
    <3>4. ClientAhead > 0 /\ ClientAhead' = 0
      BY <3>2, <3>3 DEF ClientAhead
    <3>5. Unsent' = Unsent /\ PumpAhead' = PumpAhead /\ StoreAhead' = StoreAhead
      BY <3>2, <3>3 DEF Unsent, PumpAhead, StoreAhead
    <3>10. /\ Unsent \in Nat /\ UnderWay \in Nat /\ UnderWay' \in Nat
           /\ ClientAhead \in Nat /\ PumpAhead \in Nat /\ StoreAhead \in Nat
           /\ ClientAhead' \in Nat /\ PumpAhead' \in Nat /\ StoreAhead' \in Nat
      BY <2>1
    <3>11. 3 * Unsent + 2 * UnderWay' + ClientAhead' + PumpAhead' + StoreAhead'
             < 3 * Unsent + 2 * UnderWay + ClientAhead + PumpAhead + StoreAhead
      BY <3>1, <3>4, <3>5, <3>10, Lessened
    <3> QED
      BY <3>5, <3>11, Zenon DEF StepsAhead
  <2>6. CASE Receive
    <3>1. /\ UnderWay' = UnderWay /\ Unsent' = Unsent /\ PumpAhead' = PumpAhead
          /\ StoreAhead' = StoreAhead /\ ClientAhead = 1 /\ ClientAhead' = 0
      BY <1>2, <2>6 DEF Receive, StoreDone, UnderWay, Unsent, ClientAhead, PumpAhead, StoreAhead, UploadInv, TypeOK
    <3> QED
      BY <2>1, <3>1 DEF StepsAhead
  <2>7. CASE PumpReceive \/ FirstMessage
    <3>1. UnderWay' = UnderWay - 1
      BY <2>0, <2>7, NetTake DEF PumpReceive, FirstMessage, UnderWay
    <3>2. Unsent' = Unsent /\ ClientAhead' = ClientAhead
      BY <2>7 DEF PumpReceive, FirstMessage, Unsent, ClientAhead
    <3>3. PumpAhead' <= PumpAhead + 1
      <4>1. pump' \in {"writing", "receiving"} /\ pump \in {"none", "receiving"}
        BY <1>2, <2>7 DEF PumpReceive, FirstMessage, UploadInv, PipeEnd
      <4> QED
        BY <4>1 DEF PumpAhead
    <3>4. StoreAhead' <= StoreAhead
      BY <1>2, <2>1, <2>7 DEF PumpReceive, FirstMessage, StoreAhead, UploadInv, TypeOK
    <3>10. /\ Unsent \in Nat /\ UnderWay \in Nat /\ UnderWay' \in Nat
           /\ ClientAhead \in Nat /\ PumpAhead \in Nat /\ StoreAhead \in Nat
           /\ ClientAhead' \in Nat /\ PumpAhead' \in Nat /\ StoreAhead' \in Nat
      BY <2>1
    <3>11. 3 * Unsent + 2 * UnderWay' + ClientAhead' + PumpAhead' + StoreAhead'
             < 3 * Unsent + 2 * UnderWay + ClientAhead + PumpAhead + StoreAhead
      BY <3>1, <3>2, <3>3, <3>4, <3>10, Lessened
    <3> QED
      BY <3>2, <3>11, Zenon DEF StepsAhead
  <2>8. CASE PumpEof \/ PumpError
    <3>1. /\ UnderWay' = UnderWay /\ Unsent' = Unsent /\ ClientAhead' = ClientAhead
          /\ PumpAhead = 1 /\ PumpAhead' = 0 /\ StoreAhead' = StoreAhead
      BY <2>8 DEF PumpEof, PumpError, PumpEnd, UnderWay, Unsent, ClientAhead, PumpAhead, StoreAhead
    <3> QED
      BY <2>1, <3>1 DEF StepsAhead
  <2>9. CASE Copy
    <3>1. /\ UnderWay' = UnderWay /\ Unsent' = Unsent /\ ClientAhead' = ClientAhead
          /\ PumpAhead = 2 /\ PumpAhead' = 1 /\ StoreAhead' = StoreAhead
      BY <1>2, <2>9 DEF Copy, UnderWay, Unsent, ClientAhead, PumpAhead, StoreAhead, UploadInv, TypeOK
    <3> QED
      BY <2>1, <3>1 DEF StepsAhead
  <2>10. CASE \/ FirstMissing \/ Open \/ CopyEnd \/ CopyBroken \/ PutLost \/ Create \/ CreateFail
              \/ CopyFail \/ Crash
    <3>1. /\ UnderWay' = UnderWay /\ Unsent' = Unsent /\ ClientAhead' = ClientAhead
          /\ pump' = pump \/ pump' = "done"
      BY <2>10 DEF FirstMissing, Open, CopyEnd, CopyBroken, GiveUpCopy, PutLost, Create, CreateFail,
         CopyFail, Crash, StoreFail, ClientAhead, UnderWay, Unsent
    <3>2. PumpAhead' <= PumpAhead
      BY <2>1, <3>1 DEF PumpAhead
    <3>3. StoreAhead' < StoreAhead
      <4>1. \/ store.pc = "first" /\ store'.pc = "failed"
            \/ store.pc = "open" /\ store'.pc \in {"copy", "failed"}
            \/ store.pc = "copy" /\ store'.pc \in {"create", "failed"}
            \/ store.pc = "create" /\ store'.pc \in {"ok", "failed"}
        <5>1. CASE FirstMissing \/ Open \/ CopyEnd \/ Create
          BY <1>2, <5>1 DEF FirstMissing, Open, CopyEnd, Create, StoreFail, UploadInv, TypeOK
        <5>2. CASE CopyBroken \/ PutLost \/ CreateFail \/ CopyFail
          BY <1>2, <5>2 DEF CopyBroken, GiveUpCopy, PutLost, CreateFail, CopyFail, StoreFail,
             UploadInv, TypeOK
        <5>3. CASE Crash
          BY <1>2, <5>3 DEF Crash, StoreFail, StoreDone, UploadInv, TypeOK
        <5> QED
          BY <2>10, <5>1, <5>2, <5>3
      <4> QED
        BY <4>1 DEF StoreAhead
    <3>10. /\ Unsent \in Nat /\ UnderWay \in Nat /\ UnderWay' \in Nat
           /\ ClientAhead \in Nat /\ PumpAhead \in Nat /\ StoreAhead \in Nat
           /\ ClientAhead' \in Nat /\ PumpAhead' \in Nat /\ StoreAhead' \in Nat
      BY <2>1
    <3>11. 3 * Unsent + 2 * UnderWay' + ClientAhead' + PumpAhead' + StoreAhead'
             < 3 * Unsent + 2 * UnderWay + ClientAhead + PumpAhead + StoreAhead
      BY <3>1, <3>2, <3>3, <3>10, Lessened
    <3> QED
      BY <3>1, <3>11, Zenon DEF StepsAhead
  <2> QED
    BY <1>2, <2>2, <2>3, <2>4, <2>5, <2>6, <2>7, <2>8, <2>9, <2>10 DEF Next, ClientStep, PumpStep, StoreStep
<1>3. Bounded /\ UploadInv /\ UploadInv' /\ [Next]_vars => Bounded'
  <2> SUFFICES ASSUME Bounded, UploadInv, UploadInv', [Next]_vars PROVE Bounded'
    OBVIOUS
  <2>1. StepsAtMost' = StepsAtMost
    <3>1. input' = input
      BY SameInput DEF vars
    <3> QED
      BY <3>1 DEF StepsAtMost
  <2>2. StepsAhead \in Nat /\ StepsAhead' \in Nat /\ StepsAtMost \in Nat
    <3>1. TypeOK /\ TypeOK'
      BY DEF UploadInv
    <3> QED
      BY <3>1, AheadTyped, NextAheadTyped
  <2>3. StepsAhead' <= StepsAhead
    <3>1. CASE Next
      BY <1>2, <2>2, <3>1
    <3>2. CASE UNCHANGED vars
      <4>1. StepsAhead' = StepsAhead
        BY <3>2 DEF vars, StepsAhead, UnderWay, Unsent, ClientAhead, PumpAhead, StoreAhead
      <4> QED
        BY <2>2, <4>1
    <3> QED
      BY <3>1, <3>2
  <2> QED
    BY <2>1, <2>2, <2>3
<1>4. UploadInv /\ UploadInv' /\ [Next]_vars => [StepsAhead' < StepsAhead]_vars
  BY <1>2
<1> QED
  BY UploadInductive, <1>1, <1>3, <1>4, PTL DEF Spec

=============================================================================
