--------------------------- MODULE StorageService ---------------------------
(***************************************************************************)
(* The storage service: the `files` table of PostgreSQL, the bucket of the *)
(* object store, and the handlers of the RPCs an upload is made of,        *)
(*                                                                         *)
(*   GetUploadURL   insert a row, then presign a PUT to its path           *)
(*   ConfirmUpload  update the row, then select it for the reply           *)
(*                                                                         *)
(* with one action per SQL statement or object-store call, because each is *)
(* a point where the handler can fail or be overtaken.  The handlers know  *)
(* nothing of their caller: a caller that has stopped waiting leaves the   *)
(* RPC running here, and its effects still arrive.                         *)
(*                                                                         *)
(* An object is stored under a path made of the row's id and name, and an  *)
(* id is never used twice, so `objects` is keyed by the id.  The bytes of  *)
(* a file are a member of Content, and its SHA-256 is the content itself.  *)
(***************************************************************************)
EXTENDS Integers, Sequences, FiniteSets

CONSTANTS
    Users,        \* user ids, as the X-User-ID header carries them
    Uploads,      \* the upload requests, each with at most one RPC at a time
    Ids,          \* the UUIDs uuid.NewV7 returns
    Content,      \* the possible contents of a file
    SizeOf,       \* SizeOf[c] is the number of bytes of c
    EmptyBytes,   \* the content of no bytes
    None          \* no row, no object, no checksum

(* A stored row.  The empty checksum that marks a reserved row is None.    *)
FileRow == [owner : Users, size : Nat, checksum : Content \cup {None}]

ASSUME StorageAssumption ==
    /\ None \notin Content \cup FileRow \cup Ids \cup Users
    /\ SizeOf \in [Content -> Nat]
    /\ EmptyBytes \in Content
    /\ \A c \in Content : SizeOf[c] = 0 <=> c = EmptyBytes

VARIABLES
    files,      \* the `files` table: Ids -> FileRow, or None
    objects,    \* the bucket: Ids -> Content, or None
    minted,     \* the ids generated so far
    rpc         \* the RPC each upload request last sent

storageVars == <<files, objects, minted, rpc>>

(* An RPC: `stage` says which statement of its handler is next, or how it  *)
(* ended.  `id` and `content` are its arguments (content stands for the    *)
(* declared size and checksum); `reply` is the row a confirmation returns. *)
Rpc == [op : {"none", "reserve", "confirm"},
        stage : {"insert", "presign", "update", "select", "ok", "error"},
        user : Users \cup {None},
        id : Ids \cup {None},
        content : Content \cup {None},
        reply : FileRow \cup {None}]

NoRpc == [op |-> "none", stage |-> "error", user |-> None,
          id |-> None, content |-> None, reply |-> None]

(* ReserveUpload writes a row without size or checksum.                    *)
ReservedRow(u) == [owner |-> u, size |-> 0, checksum |-> None]

IsReserved(i)  == files[i] # None /\ files[i].checksum = None
IsConfirmed(i) == files[i] # None /\ files[i].checksum # None

StorageTypeOK ==
    /\ files \in [Ids -> FileRow \cup {None}]
    /\ objects \in [Ids -> Content \cup {None}]
    /\ minted \in SUBSET Ids
    /\ rpc \in [Uploads -> Rpc]

StorageInit ==
    /\ files = [i \in Ids |-> None]
    /\ objects = [i \in Ids |-> None]
    /\ minted = {}
    /\ rpc = [r \in Uploads |-> NoRpc]

-----------------------------------------------------------------------------
(* What the client stub of the file server puts on the wire.               *)

CallGetUploadURL(r, u) ==
    rpc' = [rpc EXCEPT ![r] = [op |-> "reserve", stage |-> "insert", user |-> u,
                               id |-> None, content |-> None, reply |-> None]]

CallConfirmUpload(r, u, i, c) ==
    rpc' = [rpc EXCEPT ![r] = [op |-> "confirm", stage |-> "update", user |-> u,
                               id |-> i, content |-> c, reply |-> None]]

-----------------------------------------------------------------------------
(* The RPC handlers, statement by statement.                               *)

(* Mutated form: an id that may be in use already.                         *)
ReserveCreate_ReusesId(r) ==
    /\ rpc[r].op = "reserve" /\ rpc[r].stage = "insert"
    /\ \E i \in Ids :
          /\ minted' = minted \cup {i}
          /\ files' = [files EXCEPT ![i] = ReservedRow(rpc[r].user)]
          /\ rpc' = [rpc EXCEPT ![r].stage = "presign", ![r].id = i]
    /\ UNCHANGED objects

(* Mutated form: the URL is signed first, and no row inserted.             *)
ReserveCreate_NoRow(r) ==
    /\ rpc[r].op = "reserve" /\ rpc[r].stage = "insert"
    /\ \E i \in Ids \ minted :
          /\ minted' = minted \cup {i}
          /\ rpc' = [rpc EXCEPT ![r].stage = "presign", ![r].id = i]
    /\ UNCHANGED <<files, objects>>

(* GetUploadURL: the INSERT of Repository.Create, under a fresh id.        *)
ReserveCreate(r) ==
    /\ rpc[r].op = "reserve" /\ rpc[r].stage = "insert"
    /\ \E i \in Ids \ minted :
          /\ minted' = minted \cup {i}
          /\ files' = [files EXCEPT ![i] = ReservedRow(rpc[r].user)]
          /\ rpc' = [rpc EXCEPT ![r].stage = "presign", ![r].id = i]
    /\ UNCHANGED objects

(* GetUploadURL: signing the URL, and the reply.                           *)
ReservePresign(r) ==
    /\ rpc[r].op = "reserve" /\ rpc[r].stage = "presign"
    /\ rpc' = [rpc EXCEPT ![r].stage = "ok"]
    /\ UNCHANGED <<files, objects, minted>>

(* Mutated form: the UPDATE sets the checksum and forgets the size.        *)
ConfirmUpdate_NoSize(r) ==
    LET i == rpc[r].id
    IN  /\ rpc[r].op = "confirm" /\ rpc[r].stage = "update"
        /\ files[i] # None
        /\ files' = [files EXCEPT ![i].checksum = rpc[r].content]
        /\ rpc' = [rpc EXCEPT ![r].stage = "select"]
        /\ UNCHANGED <<objects, minted>>

(* Mutated form: WHERE owner_id instead of WHERE id.                       *)
ConfirmUpdate_ByOwner(r) ==
    LET c == rpc[r].content
    IN  /\ rpc[r].op = "confirm" /\ rpc[r].stage = "update"
        /\ files' = [i \in Ids |->
                        IF files[i] # None /\ files[i].owner = rpc[r].user
                        THEN [files[i] EXCEPT !.size = SizeOf[c], !.checksum = c]
                        ELSE files[i]]
        /\ rpc' = [rpc EXCEPT ![r].stage = "select"]
        /\ UNCHANGED <<objects, minted>>

(* ConfirmUpload: UPDATE ... WHERE id, which fails when no row has the id. *)
ConfirmUpdate(r) ==
    LET i == rpc[r].id
        c == rpc[r].content
    IN  /\ rpc[r].op = "confirm" /\ rpc[r].stage = "update"
        /\ files[i] # None
        /\ files' = [files EXCEPT ![i].size = SizeOf[c], ![i].checksum = c]
        /\ rpc' = [rpc EXCEPT ![r].stage = "select"]
        /\ UNCHANGED <<objects, minted>>

(* ConfirmUpload: the row is read back, by id and owner, for the reply.    *)
ConfirmSelect(r) ==
    LET i == rpc[r].id
    IN  /\ rpc[r].op = "confirm" /\ rpc[r].stage = "select"
        /\ files[i] # None /\ files[i].owner = rpc[r].user
        /\ rpc' = [rpc EXCEPT ![r].stage = "ok", ![r].reply = files[i]]
        /\ UNCHANGED <<files, objects, minted>>

(* The statement a handler is at fails, finds no row, or the process dies: *)
(* what the earlier statements wrote stays.  A statement that takes effect *)
(* and whose answer is lost is that statement followed by this action.  A  *)
(* backend that cannot presign (local disk) always fails at "presign".     *)
RpcFail(r) ==
    /\ rpc[r].stage \in {"insert", "presign", "update", "select"}
    /\ rpc' = [rpc EXCEPT ![r].stage = "error"]
    /\ UNCHANGED <<files, objects, minted>>

RpcStep(r) ==
    \/ ReserveCreate(r) \/ ReservePresign(r)
    \/ ConfirmUpdate(r) \/ ConfirmSelect(r)
    \/ RpcFail(r)

(* The object store accepts a PUT: the whole body appears at once.         *)
PutObject(i, c) == objects' = [objects EXCEPT ![i] = c]

=============================================================================
