---------------------------- MODULE StorageFiles ----------------------------
(***************************************************************************)
(* Buckets and files of the storage service: buckets.service.ts and        *)
(* files.service.ts of apps/storage-service, over the tables `buckets` and *)
(* `files` and over MinIO, with the rows that multipart.service.ts adds.   *)
(*                                                                         *)
(* One owner is modelled: the requests of others are refused before they   *)
(* change anything.  Contents are numbered in the order they are put, and  *)
(* an uploaded row carries the number of the content it describes.  Each   *)
(* awaited query or MinIO call is one action.                              *)
(***************************************************************************)
EXTENDS Integers, FiniteSets

CONSTANTS
    Requests,       \* slots for handlers running concurrently
    Names, Keys,    \* bucket names and file keys
    MaxBucket,      \* bound of the model: bucket rows ever created
    MaxPut,         \* bound of the model: contents ever put
    MayFail         \* may queries and MinIO calls fail?

ASSUME NamesAndKeys == Names # {} /\ Keys # {}
ASSUME BoundsNat == MaxBucket \in Nat /\ MaxPut \in Nat
ASSUME FailBoolean == MayFail \in BOOLEAN

VARIABLES
    bucketId,       \* table buckets: the id under a unique name, 0 for no row
    lastBucket,     \* the newest bucket id
    minioBuckets,   \* the buckets of MinIO
    object,         \* object[b][k]: content in MinIO, 0 for none
    lastPut,        \* the newest content
    files,          \* table files
    req             \* the handlers in flight

minio == <<minioBuckets, object, lastPut>>
tables == <<bucketId, lastBucket, files>>
vars == <<minio, tables, req>>

NoId == 0
Nothing == 0
Id == 1 .. MaxBucket
Put == 1 .. MaxPut

\* A row that MultipartService saves has the bucket's name for its bucketId, so
\* that none of the queries below, which all ask for an id, ever finds it.
ASSUME NamesAreNoIds == Names \cap Id = {}
FileRow == [put : Put, bucketId : Id \cup Names, key : Keys, version : Nat \ {0},
            isLatest : BOOLEAN]

Pc == {"idle",
       "createExists", "createMake", "createSave",
       "uploadPut", "uploadFind", "uploadUnlatest", "uploadSave",
       "deleteObject", "deleteRow",
       "dropCount", "dropExists", "dropRemove", "dropRow",
       "completeSave"}

\* A handler: its next step and its locals. `found` is {} or the row it read.
Job(pc, b, k, id, put, found) ==
    [pc |-> pc, name |-> b, key |-> k, id |-> id, put |-> put, found |-> found]

AnyName == CHOOSE b \in Names : TRUE
AnyKey == CHOOSE k \in Keys : TRUE
Idle == Job("idle", AnyName, AnyKey, NoId, Nothing, {})

TypeOK ==
    /\ bucketId \in [Names -> Id \cup {NoId}]
    /\ lastBucket \in Id \cup {NoId}
    /\ minioBuckets \in SUBSET Names
    /\ object \in [Names -> [Keys -> Put \cup {Nothing}]]
    /\ lastPut \in Put \cup {Nothing}
    /\ files \in SUBSET FileRow
    /\ req \in [Requests -> [pc : Pc, name : Names, key : Keys, id : Id \cup {NoId},
                             put : Put \cup {Nothing}, found : SUBSET FileRow]]

Init ==
    /\ bucketId = [b \in Names |-> NoId]
    /\ lastBucket = NoId
    /\ minioBuckets = {}
    /\ object = [b \in Names |-> [k \in Keys |-> Nothing]]
    /\ lastPut = Nothing
    /\ files = {}
    /\ req = [r \in Requests |-> Idle]

Enter(r, job) == req' = [req EXCEPT ![r] = job]

\* The handler goes on at pc with what it knows.
Goto(r, pc) ==
    Enter(r, Job(pc, req[r].name, req[r].key, req[r].id, req[r].put, req[r].found))

Return(r) == Enter(r, Idle)

\* The rows of a file, all its versions.
Rows(id, k) == {f \in files : f.bucketId = id /\ f.key = k}

-----------------------------------------------------------------------------
(***************************************************************************)
(* createBucket.                                                           *)
(***************************************************************************)

CreateFind(r, b) ==
    /\ req[r].pc = "idle"
    /\ bucketId[b] = NoId
    /\ Enter(r, Job("createExists", b, AnyKey, NoId, Nothing, {}))
    /\ UNCHANGED <<minio, tables>>

\* A bucket that MinIO already has is taken over.
CreateExists(r) ==
    /\ req[r].pc = "createExists"
    /\ Goto(r, IF req[r].name \in minioBuckets THEN "createSave" ELSE "createMake")
    /\ UNCHANGED <<minio, tables>>

\* makeBucket rejects if the bucket was made meanwhile.
CreateMake(r) ==
    /\ req[r].pc = "createMake"
    /\ IF req[r].name \in minioBuckets THEN Return(r) ELSE Goto(r, "createSave")
    /\ minioBuckets' = minioBuckets \cup {req[r].name}
    /\ UNCHANGED <<object, lastPut, tables>>

\* The unique column rejects the slower of two inserts.
CreateSave(r) ==
    /\ req[r].pc = "createSave"
    /\ lastBucket < MaxBucket
    /\ IF bucketId[req[r].name] = NoId
       THEN /\ lastBucket' = lastBucket + 1
            /\ bucketId' = [bucketId EXCEPT ![req[r].name] = lastBucket + 1]
       ELSE UNCHANGED <<lastBucket, bucketId>>
    /\ Return(r)
    /\ UNCHANGED <<minio, files>>

-----------------------------------------------------------------------------
(***************************************************************************)
(* deleteBucket.                                                           *)
(***************************************************************************)

DropFind(r, b) ==
    /\ req[r].pc = "idle"
    /\ bucketId[b] # NoId
    /\ Enter(r, Job("dropCount", b, AnyKey, bucketId[b], Nothing, {}))
    /\ UNCHANGED <<minio, tables>>

\* Mutant: the rows are not counted; MinIO refuses to drop what has objects.
DropCountSkipped(r) ==
    /\ req[r].pc = "dropCount"
    /\ Goto(r, "dropExists")
    /\ UNCHANGED <<minio, tables>>

\* A bucket with rows is refused.
DropCount(r) ==
    /\ req[r].pc = "dropCount"
    /\ IF \E f \in files : f.bucketId = req[r].id THEN Return(r) ELSE Goto(r, "dropExists")
    /\ UNCHANGED <<minio, tables>>

DropExists(r) ==
    /\ req[r].pc = "dropExists"
    /\ Goto(r, IF req[r].name \in minioBuckets THEN "dropRemove" ELSE "dropRow")
    /\ UNCHANGED <<minio, tables>>

\* removeBucket rejects if the bucket is gone or has objects.
DropRemove(r) ==
    LET b == req[r].name
    IN  /\ req[r].pc = "dropRemove"
        /\ IF b \in minioBuckets /\ \A k \in Keys : object[b][k] = Nothing
           THEN minioBuckets' = minioBuckets \ {b} /\ Goto(r, "dropRow")
           ELSE minioBuckets' = minioBuckets /\ Return(r)
        /\ UNCHANGED <<object, lastPut, tables>>

DropRow(r) ==
    /\ req[r].pc = "dropRow"
    /\ bucketId' = [b \in Names |-> IF bucketId[b] = req[r].id THEN NoId ELSE bucketId[b]]
    /\ Return(r)
    /\ UNCHANGED <<minio, lastBucket, files>>

-----------------------------------------------------------------------------
(***************************************************************************)
(* uploadFile.                                                             *)
(***************************************************************************)

\* The content b/k in MinIO becomes a new one.
PutObject(b, k) ==
    /\ lastPut' = lastPut + 1
    /\ object' = [object EXCEPT ![b] = [@ EXCEPT ![k] = lastPut + 1]]

UploadBucket(r, b, k) ==
    /\ req[r].pc = "idle"
    /\ bucketId[b] # NoId
    /\ Enter(r, Job("uploadPut", b, k, bucketId[b], Nothing, {}))
    /\ UNCHANGED <<minio, tables>>

UploadPut(r) ==
    LET q == req[r]
    IN  /\ q.pc = "uploadPut"
        /\ lastPut < MaxPut
        /\ IF q.name \in minioBuckets
           THEN /\ PutObject(q.name, q.key)
                /\ Enter(r, Job("uploadFind", q.name, q.key, q.id, lastPut + 1, {}))
           ELSE UNCHANGED <<object, lastPut>> /\ Return(r)
        /\ UNCHANGED <<minioBuckets, tables>>

\* findOne: some row marked latest, if there is one.
UploadFind(r) ==
    LET q == req[r]
        latest == {f \in Rows(q.id, q.key) : f.isLatest}
    IN  /\ q.pc = "uploadFind"
        /\ \/ /\ latest = {}
              /\ Goto(r, "uploadSave")
           \/ \E f \in latest :
                 Enter(r, Job("uploadUnlatest", q.name, q.key, q.id, q.put, {f}))
        /\ UNCHANGED <<minio, tables>>

\* The row as read, no longer the latest.
Outdated(f) ==
    [put |-> f.put, bucketId |-> f.bucketId, key |-> f.key, version |-> f.version,
     isLatest |-> FALSE]

\* Mutant: the row found is changed and not saved.
UploadUnlatestUnsaved(r) ==
    /\ req[r].pc = "uploadUnlatest"
    /\ Goto(r, "uploadSave")
    /\ UNCHANGED <<minio, tables>>

\* save updates the row with this id, or inserts it again if it is gone.
UploadUnlatest(r) ==
    /\ req[r].pc = "uploadUnlatest"
    /\ files' = {f \in files : \A g \in req[r].found : f.put # g.put}
                   \cup {Outdated(g) : g \in req[r].found}
    /\ Goto(r, "uploadSave")
    /\ UNCHANGED <<minio, bucketId, lastBucket>>

\* Mutant: `version` has no initial value.
NewVersionUnset(found) == IF found = {} THEN 0 ELSE (CHOOSE f \in found : TRUE).version + 1

NewVersion(found) == IF found = {} THEN 1 ELSE (CHOOSE f \in found : TRUE).version + 1

UploadSave(r) ==
    LET q == req[r]
    IN  /\ q.pc = "uploadSave"
        /\ files' = files \cup
              {[put |-> q.put, bucketId |-> q.id, key |-> q.key,
                version |-> NewVersion(q.found), isLatest |-> TRUE]}
        /\ Return(r)
        /\ UNCHANGED <<minio, bucketId, lastBucket>>

-----------------------------------------------------------------------------
(***************************************************************************)
(* deleteFile.                                                             *)
(***************************************************************************)

\* findOne without an order: some row of the file, of whatever version.
DeleteFind(r, b, k) ==
    /\ req[r].pc = "idle"
    /\ bucketId[b] # NoId
    /\ \E f \in Rows(bucketId[b], k) :
          Enter(r, Job("deleteObject", b, k, bucketId[b], Nothing, {f}))
    /\ UNCHANGED <<minio, tables>>

\* removeObject rejects only without a bucket.
DeleteObject(r) ==
    LET q == req[r]
    IN  /\ q.pc = "deleteObject"
        /\ IF q.name \in minioBuckets
           THEN /\ object' = [object EXCEPT ![q.name] = [@ EXCEPT ![q.key] = Nothing]]
                /\ Goto(r, "deleteRow")
           ELSE object' = object /\ Return(r)
        /\ UNCHANGED <<minioBuckets, lastPut, tables>>

DeleteRow(r) ==
    /\ req[r].pc = "deleteRow"
    /\ files' = {f \in files : \A g \in req[r].found : f.put # g.put}
    /\ Return(r)
    /\ UNCHANGED <<minio, bucketId, lastBucket>>

-----------------------------------------------------------------------------
(***************************************************************************)
(* completeUpload of MultipartService, of a session that has all its parts *)
(* (module Multipart).                                                     *)
(***************************************************************************)

\* MinIO assembles the object.
CompleteAssemble(r, b, k) ==
    /\ req[r].pc = "idle"
    /\ lastPut < MaxPut
    /\ b \in minioBuckets
    /\ PutObject(b, k)
    /\ Enter(r, Job("completeSave", b, k, NoId, lastPut + 1, {}))
    /\ UNCHANGED <<minioBuckets, tables>>

\* Its row: version and isLatest are the columns' defaults.
CompleteSave(r) ==
    LET q == req[r]
    IN  /\ q.pc = "completeSave"
        /\ files' = files \cup
              {[put |-> q.put, bucketId |-> q.name, key |-> q.key, version |-> 1,
                isLatest |-> TRUE]}
        /\ Return(r)
        /\ UNCHANGED <<minio, bucketId, lastBucket>>

-----------------------------------------------------------------------------

\* A client uses a presigned PUT: MinIO changes, the tables do not.
PresignedPut(b, k) ==
    /\ lastPut < MaxPut
    /\ b \in minioBuckets
    /\ PutObject(b, k)
    /\ UNCHANGED <<minioBuckets, tables, req>>

Fail(r) ==
    /\ MayFail
    /\ req[r].pc # "idle"
    /\ Return(r)
    /\ UNCHANGED <<minio, tables>>

Handler(r) ==
    \/ \E b \in Names : CreateFind(r, b) \/ DropFind(r, b)
    \/ \E b \in Names, k \in Keys : \/ UploadBucket(r, b, k) \/ DeleteFind(r, b, k)
                                   \/ CompleteAssemble(r, b, k)
    \/ CreateExists(r) \/ CreateMake(r) \/ CreateSave(r)
    \/ DropCount(r) \/ DropExists(r) \/ DropRemove(r) \/ DropRow(r)
    \/ UploadPut(r) \/ UploadFind(r) \/ UploadUnlatest(r) \/ UploadSave(r)
    \/ DeleteObject(r) \/ DeleteRow(r)
    \/ CompleteSave(r)
    \/ Fail(r)

Next ==
    \/ \E r \in Requests : Handler(r)
    \/ \E b \in Names, k \in Keys : PresignedPut(b, k)

Spec == Init /\ [][Next]_vars

-----------------------------------------------------------------------------
(***************************************************************************)
(* Properties.                                                             *)
(***************************************************************************)

\* uploadFile, one request at a time: the row that downloadFile serves by
\* default is the newest one of its file, wherever earlier uploads failed and
\* whichever version deleteFile took.
LatestIsNewest ==
    \A f, g \in files :
       f.bucketId \in Id /\ f.isLatest /\ f.bucketId = g.bucketId /\ f.key = g.key =>
          g.put <= f.put

\* deleteBucket, one request at a time: no row of an upload is left behind
\* without its bucket, although the tables have no foreign key, files are
\* counted in one store and objects in the other, and any step may fail.  The
\* rows of multipart uploads are not counted, and may be left behind.
RowsHaveBuckets ==
    \A f \in files : f.bucketId \in Id => \E b \in Names : bucketId[b] = f.bucketId

=============================================================================
