------------------------- MODULE StorageFilesProofs -------------------------
(***************************************************************************)
(* Theorems about StorageFiles: types for any number of requests in        *)
(* flight, and the two safety invariants for one request at a time.        *)
(***************************************************************************)
EXTENDS StorageFiles, TLAPS

Jobs == [pc : Pc, name : Names, key : Keys, id : Id \cup {NoId},
         put : Put \cup {Nothing}, found : SUBSET FileRow]

LEMMA JobFields ==
    \A pc, b, k, id, put, found :
       /\ Job(pc, b, k, id, put, found).pc = pc
       /\ Job(pc, b, k, id, put, found).name = b
       /\ Job(pc, b, k, id, put, found).key = k
       /\ Job(pc, b, k, id, put, found).id = id
       /\ Job(pc, b, k, id, put, found).put = put
       /\ Job(pc, b, k, id, put, found).found = found
  BY DEF Job

LEMMA JobType ==
    ASSUME NEW pc \in Pc, NEW b \in Names, NEW k \in Keys, NEW id \in Id \cup {NoId},
           NEW put \in Put \cup {Nothing}, NEW found \in SUBSET FileRow
    PROVE  Job(pc, b, k, id, put, found) \in Jobs
  BY DEF Job, Jobs

LEMMA IdleType == Idle \in Jobs /\ AnyKey \in Keys /\ AnyName \in Names
<1>1. AnyName \in Names /\ AnyKey \in Keys
  BY NamesAndKeys DEF AnyName, AnyKey
<1>2. "idle" \in Pc
  BY DEF Pc
<1>3. QED
  BY <1>1, <1>2, JobType DEF Idle

\* What a handler knows is typed, so it stays typed when the handler goes on.
LEMMA GotoType ==
    ASSUME TypeOK, NEW r \in Requests, NEW pc \in Pc, Goto(r, pc)
    PROVE  req' \in [Requests -> Jobs]
<1>1. req \in [Requests -> Jobs]
  BY DEF TypeOK, Jobs
<1>2. Job(pc, req[r].name, req[r].key, req[r].id, req[r].put, req[r].found) \in Jobs
  BY <1>1, JobType DEF Jobs
<1>3. QED
  BY <1>1, <1>2 DEF Goto, Enter

LEMMA EnterType ==
    ASSUME TypeOK, NEW r \in Requests, NEW job \in Jobs, Enter(r, job)
    PROVE  req' \in [Requests -> Jobs]
  BY DEF TypeOK, Jobs, Enter

LEMMA ReturnType ==
    ASSUME TypeOK, NEW r \in Requests, Return(r)
    PROVE  req' \in [Requests -> Jobs]
  BY IdleType, EnterType DEF Return

LEMMA OutdatedType == \A f \in FileRow : Outdated(f) \in FileRow
  BY DEF FileRow, Outdated

LEMMA NewVersionType ==
    ASSUME NEW found \in SUBSET FileRow PROVE NewVersion(found) \in Nat \ {0}
<1>1. CASE found = {}
  BY <1>1 DEF NewVersion
<1>2. CASE found # {}
  <2>1. (CHOOSE f \in found : TRUE) \in FileRow
    BY <1>2
  <2>2. (CHOOSE f \in found : TRUE).version \in Nat
    BY <2>1 DEF FileRow
  <2>3. QED
    BY <1>2, <2>2 DEF NewVersion
<1>3. QED
  BY <1>1, <1>2

LEMMA PutObjectType ==
    ASSUME TypeOK, lastPut < MaxPut, NEW b \in Names, NEW k \in Keys, PutObject(b, k)
    PROVE  /\ lastPut + 1 \in Put
           /\ lastPut' \in Put \cup {Nothing}
           /\ object' \in [Names -> [Keys -> Put \cup {Nothing}]]
<1>1. lastPut + 1 \in Put
  BY BoundsNat DEF TypeOK, Put, Nothing
<1>2. object' \in [Names -> [Keys -> Put \cup {Nothing}]]
  BY <1>1 DEF TypeOK, PutObject
<1>3. QED
  BY <1>1, <1>2 DEF PutObject

\* An upload knows its bucket, and once it has put its content, its content.
LocalsOK ==
    \A r \in Requests :
       /\ req[r].pc \in {"uploadPut", "uploadFind", "uploadUnlatest", "uploadSave"} =>
             req[r].id \in Id
       /\ req[r].pc \in {"uploadFind", "uploadUnlatest", "uploadSave", "completeSave"} =>
             req[r].put \in Put

LEMMA TypeStep == ASSUME TypeOK, LocalsOK, [Next]_vars PROVE TypeOK'
<1>q. req \in [Requests -> Jobs]
  BY DEF TypeOK, Jobs
<1> USE DEF minio, tables
<1>pc. {"idle", "createExists", "createMake", "createSave", "uploadPut", "uploadFind",
        "uploadUnlatest", "uploadSave", "deleteObject", "deleteRow", "dropCount",
        "dropExists", "dropRemove", "dropRow", "completeSave"} \subseteq Pc
  BY DEF Pc
<1>n. NoId \in Id \cup {NoId} /\ Nothing \in Put \cup {Nothing}
  OBVIOUS
<1>1. ASSUME NEW r \in Requests, NEW b \in Names, CreateFind(r, b) PROVE TypeOK'
  <2>1. Job("createExists", b, AnyKey, NoId, Nothing, {}) \in Jobs
    BY <1>pc, <1>n, IdleType, JobType
  <2>2. QED
    BY <1>1, <2>1, EnterType DEF CreateFind, TypeOK, Jobs
<1>2. ASSUME NEW r \in Requests, NEW b \in Names, DropFind(r, b) PROVE TypeOK'
  <2>1. Job("dropCount", b, AnyKey, bucketId[b], Nothing, {}) \in Jobs
    BY <1>pc, <1>n, IdleType, JobType DEF TypeOK
  <2>2. QED
    BY <1>2, <2>1, EnterType DEF DropFind, TypeOK, Jobs
<1>3. ASSUME NEW r \in Requests, NEW b \in Names, NEW k \in Keys, UploadBucket(r, b, k)
      PROVE  TypeOK'
  <2>1. Job("uploadPut", b, k, bucketId[b], Nothing, {}) \in Jobs
    BY <1>pc, <1>n, JobType DEF TypeOK
  <2>2. QED
    BY <1>3, <2>1, EnterType DEF UploadBucket, TypeOK, Jobs
<1>4. ASSUME NEW r \in Requests, NEW b \in Names, NEW k \in Keys, DeleteFind(r, b, k)
      PROVE  TypeOK'
  <2>1. PICK f \in Rows(bucketId[b], k) :
            Enter(r, Job("deleteObject", b, k, bucketId[b], Nothing, {f}))
    BY <1>4 DEF DeleteFind
  <2>2. {f} \in SUBSET FileRow
    BY <2>1 DEF Rows, TypeOK
  <2>3. Job("deleteObject", b, k, bucketId[b], Nothing, {f}) \in Jobs
    BY <1>pc, <1>n, <2>2, JobType DEF TypeOK
  <2>4. QED
    BY <1>4, <2>1, <2>3, EnterType DEF DeleteFind, TypeOK, Jobs
<1>5. ASSUME NEW r \in Requests, CreateExists(r) PROVE TypeOK'
  BY <1>5, <1>pc, GotoType DEF CreateExists, TypeOK, Jobs
<1>6. ASSUME NEW r \in Requests, CreateMake(r) PROVE TypeOK'
  <2>1. req[r].name \in Names
    BY <1>q DEF Jobs
  <2>2. req' \in [Requests -> Jobs]
    BY <1>6, <1>pc, GotoType, ReturnType DEF CreateMake
  <2>3. QED
    BY <1>6, <2>1, <2>2 DEF CreateMake, TypeOK, Jobs
<1>7. ASSUME NEW r \in Requests, CreateSave(r) PROVE TypeOK'
  <2>1. lastBucket + 1 \in Id
    BY <1>7, BoundsNat DEF CreateSave, TypeOK, Id, NoId
  <2>2. req' \in [Requests -> Jobs]
    BY <1>7, ReturnType DEF CreateSave
  <2>3. bucketId' \in [Names -> Id \cup {NoId}] /\ lastBucket' \in Id \cup {NoId}
    BY <1>7, <2>1 DEF CreateSave, TypeOK
  <2>4. QED
    BY <1>7, <2>2, <2>3 DEF CreateSave, TypeOK, Jobs
<1>8. ASSUME NEW r \in Requests, DropCount(r) PROVE TypeOK'
  BY <1>8, <1>pc, GotoType, ReturnType DEF DropCount, TypeOK, Jobs
<1>9. ASSUME NEW r \in Requests, DropExists(r) PROVE TypeOK'
  BY <1>9, <1>pc, GotoType DEF DropExists, TypeOK, Jobs
<1>10. ASSUME NEW r \in Requests, DropRemove(r) PROVE TypeOK'
  <2>1. req' \in [Requests -> Jobs]
    BY <1>10, <1>pc, GotoType, ReturnType DEF DropRemove
  <2>2. QED
    BY <1>10, <2>1 DEF DropRemove, TypeOK, Jobs
<1>11. ASSUME NEW r \in Requests, DropRow(r) PROVE TypeOK'
  <2>1. req' \in [Requests -> Jobs]
    BY <1>11, ReturnType DEF DropRow
  <2>2. QED
    BY <1>11, <2>1 DEF DropRow, TypeOK, Jobs
<1>12. ASSUME NEW r \in Requests, UploadPut(r) PROVE TypeOK'
  <2>1. /\ req[r].name \in Names /\ req[r].key \in Keys /\ req[r].id \in Id \cup {NoId}
    BY <1>q DEF Jobs
  <2>2. CASE req[r].name \in minioBuckets
    <3>1. PutObject(req[r].name, req[r].key) /\ lastPut < MaxPut
      BY <1>12, <2>2 DEF UploadPut
    <3>2. /\ lastPut + 1 \in Put /\ lastPut' \in Put \cup {Nothing}
          /\ object' \in [Names -> [Keys -> Put \cup {Nothing}]]
      BY <2>1, <3>1, PutObjectType
    <3>3. Job("uploadFind", req[r].name, req[r].key, req[r].id, lastPut + 1, {}) \in Jobs
      BY <1>pc, <2>1, <3>2, JobType
    <3>4. req' \in [Requests -> Jobs]
      BY <1>12, <2>2, <3>3, EnterType DEF UploadPut
    <3>5. QED
      BY <1>12, <3>2, <3>4 DEF UploadPut, TypeOK, Jobs
  <2>3. CASE req[r].name \notin minioBuckets
    BY <1>12, <2>3, ReturnType DEF UploadPut, TypeOK, Jobs
  <2>4. QED
    BY <2>2, <2>3
<1>13. ASSUME NEW r \in Requests, UploadFind(r) PROVE TypeOK'
  <2>1. req' \in [Requests -> Jobs]
    <3>1. CASE Goto(r, "uploadSave")
      BY <1>pc, <3>1, GotoType
    <3>2. ASSUME NEW f \in files,
                 Enter(r, Job("uploadUnlatest", req[r].name, req[r].key, req[r].id,
                              req[r].put, {f}))
          PROVE  req' \in [Requests -> Jobs]
      <4>1. {f} \in SUBSET FileRow
        BY <3>2 DEF TypeOK
      <4>2. Job("uploadUnlatest", req[r].name, req[r].key, req[r].id, req[r].put, {f}) \in Jobs
        BY <1>q, <1>pc, <4>1, JobType DEF Jobs
      <4>3. QED
        BY <3>2, <4>2, EnterType
    <3>3. QED
      BY <1>13, <3>1, <3>2 DEF UploadFind, Rows
  <2>2. QED
    BY <1>13, <2>1 DEF UploadFind, TypeOK, Jobs
<1>14. ASSUME NEW r \in Requests, UploadUnlatest(r) PROVE TypeOK'
  <2>1. req' \in [Requests -> Jobs]
    BY <1>14, <1>pc, GotoType DEF UploadUnlatest
  <2>2. req[r].found \in SUBSET FileRow
    BY <1>q DEF Jobs
  <2>3. {Outdated(g) : g \in req[r].found} \subseteq FileRow
    BY <2>2, OutdatedType
  <2>4. files' \in SUBSET FileRow
    BY <1>14, <2>3 DEF UploadUnlatest, TypeOK
  <2>5. QED
    BY <1>14, <2>1, <2>4 DEF UploadUnlatest, TypeOK, Jobs
<1>15. ASSUME NEW r \in Requests, UploadSave(r) PROVE TypeOK'
  <2>1. req' \in [Requests -> Jobs]
    BY <1>15, ReturnType DEF UploadSave
  <2>2. NewVersion(req[r].found) \in Nat \ {0}
    BY <1>q, NewVersionType DEF Jobs
  <2>3. req[r].put \in Put /\ req[r].id \in Id /\ req[r].key \in Keys
    BY <1>15, <1>q DEF LocalsOK, UploadSave, Jobs
  <2>4. [put |-> req[r].put, bucketId |-> req[r].id, key |-> req[r].key,
         version |-> NewVersion(req[r].found), isLatest |-> TRUE] \in FileRow
    BY <2>2, <2>3 DEF FileRow
  <2>5. files' \in SUBSET FileRow
    BY <1>15, <2>4 DEF UploadSave, TypeOK
  <2>6. QED
    BY <1>15, <2>1, <2>5 DEF UploadSave, TypeOK, Jobs
<1>16. ASSUME NEW r \in Requests, DeleteObject(r) PROVE TypeOK'
  <2>1. req' \in [Requests -> Jobs]
    BY <1>16, <1>pc, GotoType, ReturnType DEF DeleteObject
  <2>2. object' \in [Names -> [Keys -> Put \cup {Nothing}]]
    BY <1>16, <1>q DEF DeleteObject, TypeOK, Jobs
  <2>3. QED
    BY <1>16, <2>1, <2>2 DEF DeleteObject, TypeOK, Jobs
<1>17. ASSUME NEW r \in Requests, DeleteRow(r) PROVE TypeOK'
  BY <1>17, ReturnType DEF DeleteRow, TypeOK, Jobs
<1>18. ASSUME NEW r \in Requests, Fail(r) PROVE TypeOK'
  BY <1>18, ReturnType DEF Fail, TypeOK, Jobs
<1>19. ASSUME NEW b \in Names, NEW k \in Keys, PresignedPut(b, k) PROVE TypeOK'
  <2>1. /\ lastPut' \in Put \cup {Nothing}
        /\ object' \in [Names -> [Keys -> Put \cup {Nothing}]]
    BY <1>19, PutObjectType DEF PresignedPut
  <2>2. QED
    BY <1>19, <2>1 DEF PresignedPut, TypeOK
<1>20. ASSUME NEW r \in Requests, NEW b \in Names, NEW k \in Keys, CompleteAssemble(r, b, k)
       PROVE  TypeOK'
  <2>1. /\ lastPut + 1 \in Put /\ lastPut' \in Put \cup {Nothing}
        /\ object' \in [Names -> [Keys -> Put \cup {Nothing}]]
    BY <1>20, PutObjectType DEF CompleteAssemble
  <2>2. Job("completeSave", b, k, NoId, lastPut + 1, {}) \in Jobs
    BY <1>pc, <1>n, <2>1, JobType
  <2>3. req' \in [Requests -> Jobs]
    BY <1>20, <2>2, EnterType DEF CompleteAssemble
  <2>4. QED
    BY <1>20, <2>1, <2>3 DEF CompleteAssemble, TypeOK, Jobs
<1>21. ASSUME NEW r \in Requests, CompleteSave(r) PROVE TypeOK'
  <2>1. req' \in [Requests -> Jobs]
    BY <1>21, ReturnType DEF CompleteSave
  <2>2. req[r].put \in Put /\ req[r].name \in Names /\ req[r].key \in Keys
    BY <1>21, <1>q DEF LocalsOK, CompleteSave, Jobs
  <2>3. [put |-> req[r].put, bucketId |-> req[r].name, key |-> req[r].key,
         version |-> 1, isLatest |-> TRUE] \in FileRow
    BY <2>2 DEF FileRow
  <2>4. files' \in SUBSET FileRow
    BY <1>21, <2>3 DEF CompleteSave, TypeOK
  <2>5. QED
    BY <1>21, <2>1, <2>4 DEF CompleteSave, TypeOK, Jobs
<1>22. CASE UNCHANGED vars
  BY <1>22 DEF vars, TypeOK
<1>23. QED
  BY <1>1, <1>2, <1>3, <1>4, <1>5, <1>6, <1>7, <1>8, <1>9, <1>10, <1>11, <1>12, <1>13,
     <1>14, <1>15, <1>16, <1>17, <1>18, <1>19, <1>20, <1>21, <1>22 DEF Next, Handler

\* A step of r leaves the other handlers alone.
LEMMA EnterOne ==
    ASSUME TypeOK, NEW r \in Requests, NEW job, Enter(r, job)
    PROVE  /\ req'[r] = job
           /\ \A s \in Requests \ {r} : req'[s] = req[s]
  BY DEF TypeOK, Enter

\* Where a handler may go from where it is.
LEMMA LocalsStep == ASSUME TypeOK, LocalsOK, [Next]_vars PROVE LocalsOK'
<1> USE JobFields
<1>r. req \in [Requests -> Jobs]
  BY DEF TypeOK, Jobs
<1>l. ASSUME NEW r \in Requests, NEW job, Enter(r, job),
             job.pc \in {"uploadPut", "uploadFind", "uploadUnlatest", "uploadSave"} => job.id \in Id,
             job.pc \in {"uploadFind", "uploadUnlatest", "uploadSave", "completeSave"} => job.put \in Put
      PROVE  LocalsOK'
  BY <1>l, EnterOne DEF LocalsOK
<1>n. ASSUME NEW r \in Requests, Return(r) PROVE LocalsOK'
  BY <1>l, <1>n DEF Return, Idle
<1>g. ASSUME NEW r \in Requests, NEW pc, Goto(r, pc),
             pc \in {"uploadPut", "uploadFind", "uploadUnlatest", "uploadSave"} => req[r].id \in Id,
             pc \in {"uploadFind", "uploadUnlatest", "uploadSave", "completeSave"} => req[r].put \in Put
      PROVE  LocalsOK'
  BY <1>l, <1>g DEF Goto
<1>1. ASSUME NEW r \in Requests, NEW b \in Names, CreateFind(r, b) PROVE LocalsOK'
  BY <1>l, <1>1 DEF CreateFind
<1>2. ASSUME NEW r \in Requests, NEW b \in Names, DropFind(r, b) PROVE LocalsOK'
  BY <1>l, <1>2 DEF DropFind
<1>3. ASSUME NEW r \in Requests, NEW b \in Names, NEW k \in Keys, UploadBucket(r, b, k)
      PROVE  LocalsOK'
  <2>1. bucketId[b] \in Id
    BY <1>3 DEF UploadBucket, TypeOK
  <2>2. QED
    BY <1>l, <1>3, <2>1 DEF UploadBucket
<1>4. ASSUME NEW r \in Requests, NEW b \in Names, NEW k \in Keys, DeleteFind(r, b, k)
      PROVE  LocalsOK'
  BY <1>l, <1>4 DEF DeleteFind
<1>5. ASSUME NEW r \in Requests, CreateExists(r) PROVE LocalsOK'
  BY <1>g, <1>5 DEF CreateExists
<1>6. ASSUME NEW r \in Requests, CreateMake(r) PROVE LocalsOK'
  BY <1>g, <1>n, <1>6 DEF CreateMake
<1>7. ASSUME NEW r \in Requests, DropCount(r) PROVE LocalsOK'
  BY <1>g, <1>n, <1>7 DEF DropCount
<1>8. ASSUME NEW r \in Requests, DropExists(r) PROVE LocalsOK'
  BY <1>g, <1>8 DEF DropExists
<1>9. ASSUME NEW r \in Requests, DropRemove(r) PROVE LocalsOK'
  BY <1>g, <1>n, <1>9 DEF DropRemove
<1>10. ASSUME NEW r \in Requests, UploadPut(r) PROVE LocalsOK'
  <2>1. lastPut + 1 \in Put
    BY <1>10, BoundsNat DEF UploadPut, TypeOK, Put, Nothing
  <2>2. req[r].id \in Id
    BY <1>10 DEF UploadPut, LocalsOK
  <2>3. QED
    BY <1>l, <1>n, <1>10, <2>1, <2>2 DEF UploadPut
<1>11. ASSUME NEW r \in Requests, UploadFind(r) PROVE LocalsOK'
  <2>1. req[r].id \in Id /\ req[r].put \in Put
    BY <1>11 DEF UploadFind, LocalsOK
  <2>2. CASE Goto(r, "uploadSave")
    BY <1>g, <2>1, <2>2
  <2>3. ASSUME NEW f, Enter(r, Job("uploadUnlatest", req[r].name, req[r].key, req[r].id,
                                   req[r].put, {f}))
        PROVE  LocalsOK'
    BY <1>l, <2>1, <2>3
  <2>4. QED
    BY <1>11, <2>2, <2>3 DEF UploadFind
<1>12. ASSUME NEW r \in Requests, UploadUnlatest(r) PROVE LocalsOK'
  <2>1. req[r].id \in Id /\ req[r].put \in Put
    BY <1>12 DEF UploadUnlatest, LocalsOK
  <2>2. QED
    BY <1>g, <1>12, <2>1 DEF UploadUnlatest
<1>13. ASSUME NEW r \in Requests, DeleteObject(r) PROVE LocalsOK'
  BY <1>g, <1>n, <1>13 DEF DeleteObject
<1>14. ASSUME NEW r \in Requests,
              CreateSave(r) \/ DropRow(r) \/ UploadSave(r) \/ DeleteRow(r)
                \/ CompleteSave(r) \/ Fail(r)
       PROVE  LocalsOK'
  BY <1>n, <1>14 DEF CreateSave, DropRow, UploadSave, DeleteRow, CompleteSave, Fail
<1>15. ASSUME NEW r \in Requests, NEW b \in Names, NEW k \in Keys, CompleteAssemble(r, b, k)
       PROVE  LocalsOK'
  <2>1. lastPut + 1 \in Put
    BY <1>15, BoundsNat DEF CompleteAssemble, TypeOK, Put, Nothing
  <2>2. QED
    BY <1>l, <1>15, <2>1 DEF CompleteAssemble
<1>16. CASE UNCHANGED req
  BY <1>16 DEF LocalsOK
<1>17. QED
  BY <1>1, <1>2, <1>3, <1>4, <1>5, <1>6, <1>7, <1>8, <1>9, <1>10, <1>11, <1>12, <1>13,
     <1>14, <1>15, <1>16 DEF Next, Handler, PresignedPut, vars

LEMMA TypeInit == ASSUME Init PROVE TypeOK /\ LocalsOK
<1>1. req \in [Requests -> Jobs]
  BY IdleType DEF Init
<1>2. LocalsOK
  BY JobFields DEF Init, LocalsOK, Idle
<1>3. QED
  BY <1>1, <1>2 DEF Init, TypeOK, Jobs

\* The tables, MinIO and the handlers of the storage service keep their types,
\* however many requests are in flight.
THEOREM TypeCorrect == Spec => []TypeOK
<1>1. Init => TypeOK /\ LocalsOK
  BY TypeInit
<1>2. TypeOK /\ LocalsOK /\ [Next]_vars => (TypeOK /\ LocalsOK)'
  BY TypeStep, LocalsStep
<1>3. QED
  BY <1>1, <1>2, PTL DEF Spec

-----------------------------------------------------------------------------
(***************************************************************************)
(* One request at a time.                                                  *)
(***************************************************************************)

Uploading == {"uploadPut", "uploadFind", "uploadUnlatest", "uploadSave"}
Recording == {"uploadFind", "uploadUnlatest", "uploadSave"}
Dropping == {"dropExists", "dropRemove", "dropRow"}

\* What is known of the rows.
RowsInv ==
    /\ \A f \in files : f.put <= lastPut
    /\ LatestIsNewest
    /\ RowsHaveBuckets

\* What the handler knows: an upload's bucket is there, its content is newer
\* than every row, and when it saves its row nothing else is the latest; a
\* bucket about to be dropped has no rows of uploads.
HandlerInv(r) ==
    /\ req[r].pc \in Uploading => bucketId[req[r].name] = req[r].id
    /\ req[r].pc \in Recording =>
          req[r].put <= lastPut /\ \A f \in files : f.put < req[r].put
    /\ req[r].pc = "uploadUnlatest" =>
          \E f \in Rows(req[r].id, req[r].key) : f.isLatest /\ req[r].found = {f}
    /\ req[r].pc = "uploadSave" => \A f \in Rows(req[r].id, req[r].key) : ~ f.isLatest
    /\ req[r].pc \in Dropping => \A f \in files : f.bucketId # req[r].id
    /\ req[r].pc = "completeSave" => req[r].put <= lastPut

LEMMA SequentialStep ==
    ASSUME NEW r, Requests = {r}, TypeOK, LocalsOK, RowsInv, HandlerInv(r), [Next]_vars
    PROVE  RowsInv' /\ HandlerInv(r)'
<1> USE DEF minio, tables, Uploading, Recording, Dropping
<1>t. /\ r \in Requests
      /\ lastPut \in Nat /\ lastBucket \in Nat
      /\ \A f \in files : f.put \in Nat /\ f.bucketId \in Id \cup Names /\ f.isLatest \in BOOLEAN
      /\ Id \subseteq Nat /\ NoId \notin Id
      /\ bucketId \in [Names -> Id \cup {NoId}]
      /\ req[r].name \in Names
  <2>1. Put \cup {Nothing} \subseteq Nat /\ Id \cup {NoId} \subseteq Nat /\ NoId \notin Id
    BY DEF Put, Nothing, Id, NoId
  <2>2. req[r] \in Jobs
    BY DEF TypeOK, Jobs
  <2>3. QED
    BY <2>1, <2>2 DEF TypeOK, FileRow, Jobs
<1>u. ASSUME files' = files, bucketId' = bucketId, lastPut' = lastPut
      PROVE  RowsInv'
  BY <1>u DEF RowsInv, LatestIsNewest, RowsHaveBuckets
<1>e. ASSUME NEW job, Enter(r, job) PROVE req'[r] = job
  BY <1>e, <1>t, EnterOne
<1>n. ASSUME Return(r) PROVE HandlerInv(r)'
  <2>1. req'[r].pc = "idle"
    BY <1>e, <1>n, JobFields DEF Return, Idle
  <2>2. QED
    BY <2>1 DEF HandlerInv
<1>g. ASSUME NEW pc, Goto(r, pc)
      PROVE  /\ req'[r].pc = pc /\ req'[r].name = req[r].name /\ req'[r].key = req[r].key
             /\ req'[r].id = req[r].id /\ req'[r].put = req[r].put
             /\ req'[r].found = req[r].found
  BY <1>e, <1>g, JobFields DEF Goto
<1>1. ASSUME NEW b \in Names, CreateFind(r, b) PROVE RowsInv' /\ HandlerInv(r)'
  <2>1. req'[r].pc = "createExists"
    BY <1>1, <1>e, JobFields DEF CreateFind
  <2>2. QED
    BY <1>1, <1>u, <2>1 DEF CreateFind, HandlerInv
<1>2. ASSUME NEW b \in Names, DropFind(r, b) PROVE RowsInv' /\ HandlerInv(r)'
  <2>1. req'[r].pc = "dropCount"
    BY <1>2, <1>e, JobFields DEF DropFind
  <2>2. QED
    BY <1>2, <1>u, <2>1 DEF DropFind, HandlerInv
<1>3. ASSUME NEW b \in Names, NEW k \in Keys, UploadBucket(r, b, k)
      PROVE  RowsInv' /\ HandlerInv(r)'
  <2>1. req'[r].pc = "uploadPut" /\ req'[r].name = b /\ req'[r].id = bucketId[b]
    BY <1>3, <1>e, JobFields DEF UploadBucket
  <2>2. QED
    BY <1>3, <1>u, <2>1 DEF UploadBucket, HandlerInv
<1>4. ASSUME NEW b \in Names, NEW k \in Keys, DeleteFind(r, b, k)
      PROVE  RowsInv' /\ HandlerInv(r)'
  <2>1. req'[r].pc = "deleteObject"
    BY <1>4, <1>e, JobFields DEF DeleteFind
  <2>2. QED
    BY <1>4, <1>u, <2>1 DEF DeleteFind, HandlerInv
<1>5. ASSUME CreateExists(r) PROVE RowsInv' /\ HandlerInv(r)'
  <2>1. req'[r].pc \in {"createSave", "createMake"}
    BY <1>5, <1>g DEF CreateExists
  <2>2. QED
    BY <1>5, <1>u, <2>1 DEF CreateExists, HandlerInv
<1>6. ASSUME CreateMake(r) PROVE RowsInv' /\ HandlerInv(r)'
  <2>1. Return(r) \/ req'[r].pc = "createSave"
    BY <1>6, <1>g DEF CreateMake
  <2>2. HandlerInv(r)'
    BY <1>n, <2>1 DEF HandlerInv
  <2>3. QED
    BY <1>6, <1>u, <2>2 DEF CreateMake
<1>7. ASSUME CreateSave(r) PROVE RowsInv' /\ HandlerInv(r)'
  <2>1. HandlerInv(r)'
    BY <1>7, <1>n DEF CreateSave
  <2>2. \A b \in Names : bucketId[b] # NoId => bucketId'[b] = bucketId[b]
    BY <1>7, <1>t DEF CreateSave
  <2>3. files' = files /\ lastPut' = lastPut
    BY <1>7 DEF CreateSave
  <2>4. RowsHaveBuckets'
    BY <1>t, <2>2, <2>3 DEF RowsInv, RowsHaveBuckets
  <2>5. QED
    BY <2>1, <2>3, <2>4 DEF RowsInv, LatestIsNewest
<1>8. ASSUME DropCount(r) PROVE RowsInv' /\ HandlerInv(r)'
  <2>1. CASE Return(r)
    BY <1>8, <1>n, <1>u, <2>1 DEF DropCount
  <2>2. CASE Goto(r, "dropExists") /\ ~ \E f \in files : f.bucketId = req[r].id
    <3>1. req'[r].pc = "dropExists" /\ req'[r].id = req[r].id
      BY <1>g, <2>2
    <3>2. files' = files
      BY <1>8 DEF DropCount
    <3>3. HandlerInv(r)'
      BY <2>2, <3>1, <3>2 DEF HandlerInv
    <3>4. QED
      BY <1>8, <1>u, <3>3 DEF DropCount
  <2>3. QED
    BY <1>8, <2>1, <2>2 DEF DropCount
<1>9. ASSUME DropExists(r) PROVE RowsInv' /\ HandlerInv(r)'
  <2>1. req'[r].pc \in {"dropRemove", "dropRow"} /\ req'[r].id = req[r].id
    BY <1>9, <1>g DEF DropExists
  <2>2. \A f \in files : f.bucketId # req[r].id
    BY <1>9 DEF DropExists, HandlerInv
  <2>3. QED
    BY <1>9, <1>u, <2>1, <2>2 DEF DropExists, HandlerInv
<1>10. ASSUME DropRemove(r) PROVE RowsInv' /\ HandlerInv(r)'
  <2>1. \/ Return(r)
        \/ req'[r].pc = "dropRow" /\ req'[r].id = req[r].id
    BY <1>10, <1>g DEF DropRemove
  <2>2. \A f \in files : f.bucketId # req[r].id
    BY <1>10 DEF DropRemove, HandlerInv
  <2>3. files' = files /\ bucketId' = bucketId /\ lastPut' = lastPut
    BY <1>10 DEF DropRemove
  <2>4. HandlerInv(r)'
    BY <1>n, <2>1, <2>2, <2>3 DEF HandlerInv
  <2>5. QED
    BY <1>u, <2>3, <2>4
<1>11. ASSUME DropRow(r) PROVE RowsInv' /\ HandlerInv(r)'
  <2>1. HandlerInv(r)'
    BY <1>11, <1>n DEF DropRow
  <2>2. files' = files /\ lastPut' = lastPut
        /\ \A b \in Names : bucketId[b] # req[r].id => bucketId'[b] = bucketId[b]
    BY <1>11 DEF DropRow
  <2>3. \A f \in files : f.bucketId # req[r].id
    BY <1>11 DEF DropRow, HandlerInv
  <2>4. RowsHaveBuckets'
    BY <2>2, <2>3 DEF RowsInv, RowsHaveBuckets
  <2>5. QED
    BY <2>1, <2>2, <2>4 DEF RowsInv, LatestIsNewest
<1>12. ASSUME UploadPut(r) PROVE RowsInv' /\ HandlerInv(r)'
  <2>1. files' = files /\ bucketId' = bucketId
    BY <1>12 DEF UploadPut
  <2>2. CASE req[r].name \in minioBuckets
    <3>1. /\ lastPut' = lastPut + 1
          /\ req'[r].pc = "uploadFind" /\ req'[r].put = lastPut + 1
          /\ req'[r].name = req[r].name /\ req'[r].id = req[r].id
      BY <1>12, <1>e, <2>2, JobFields DEF UploadPut, PutObject
    <3>2. \A f \in files : f.put < lastPut + 1
      BY <1>t DEF RowsInv
    <3>3. RowsInv'
      BY <1>t, <2>1, <3>1 DEF RowsInv, LatestIsNewest, RowsHaveBuckets
    <3>4. bucketId[req[r].name] = req[r].id
      BY <1>12 DEF UploadPut, HandlerInv
    <3>5. QED
      BY <1>t, <2>1, <3>1, <3>2, <3>3, <3>4 DEF HandlerInv
  <2>3. CASE req[r].name \notin minioBuckets
    BY <1>12, <1>n, <1>u, <2>3 DEF UploadPut
  <2>4. QED
    BY <2>2, <2>3
<1>13. ASSUME UploadFind(r) PROVE RowsInv' /\ HandlerInv(r)'
  <2>1. files' = files /\ bucketId' = bucketId /\ lastPut' = lastPut /\ req[r].pc = "uploadFind"
    BY <1>13 DEF UploadFind
  <2>2. /\ bucketId[req[r].name] = req[r].id
        /\ req[r].put <= lastPut /\ \A f \in files : f.put < req[r].put
    BY <2>1 DEF HandlerInv
  <2>3. CASE {f \in Rows(req[r].id, req[r].key) : f.isLatest} = {} /\ Goto(r, "uploadSave")
    <3>1. /\ req'[r].pc = "uploadSave" /\ req'[r].name = req[r].name
          /\ req'[r].id = req[r].id /\ req'[r].key = req[r].key /\ req'[r].put = req[r].put
      BY <1>g, <2>3
    <3>2. \A f \in Rows(req[r].id, req[r].key) : ~ f.isLatest
      BY <2>3
    <3>3. HandlerInv(r)'
      BY <2>1, <2>2, <3>1, <3>2 DEF HandlerInv, Rows
    <3>4. QED
      BY <1>u, <2>1, <3>3
  <2>4. ASSUME NEW f \in Rows(req[r].id, req[r].key), f.isLatest,
               Enter(r, Job("uploadUnlatest", req[r].name, req[r].key, req[r].id,
                            req[r].put, {f}))
        PROVE  HandlerInv(r)'
    <3>1. /\ req'[r].pc = "uploadUnlatest" /\ req'[r].name = req[r].name
          /\ req'[r].id = req[r].id /\ req'[r].key = req[r].key /\ req'[r].put = req[r].put
          /\ req'[r].found = {f}
      BY <1>e, <2>4, JobFields
    <3>2. f \in Rows(req[r].id, req[r].key)'
      BY <2>1, <3>1 DEF Rows
    <3>3. \E g \in Rows(req[r].id, req[r].key)' : g.isLatest /\ req'[r].found = {g}
      BY <2>4, <3>1, <3>2
    <3>4. QED
      BY <2>1, <2>2, <3>1, <3>3 DEF HandlerInv, Rows
  <2>5. QED
    BY <1>13, <1>u, <2>1, <2>3, <2>4 DEF UploadFind
<1>14. ASSUME UploadUnlatest(r) PROVE RowsInv' /\ HandlerInv(r)'
  <2>1. PICK f0 \in Rows(req[r].id, req[r].key) : f0.isLatest /\ req[r].found = {f0}
    BY <1>14 DEF UploadUnlatest, HandlerInv
  <2>2. files' = {f \in files : f.put # f0.put} \cup {Outdated(f0)}
    BY <1>14, <2>1 DEF UploadUnlatest
  <2>3. /\ bucketId' = bucketId /\ lastPut' = lastPut
        /\ req'[r].pc = "uploadSave" /\ req'[r].name = req[r].name
        /\ req'[r].id = req[r].id /\ req'[r].key = req[r].key /\ req'[r].put = req[r].put
    BY <1>14, <1>g DEF UploadUnlatest
  <2>4. /\ Outdated(f0).put = f0.put /\ Outdated(f0).bucketId = f0.bucketId
        /\ Outdated(f0).key = f0.key /\ Outdated(f0).isLatest = FALSE
    BY DEF Outdated
  <2>5. f0 \in files /\ f0.bucketId = req[r].id /\ f0.key = req[r].key
    BY DEF Rows
  <2>6. \A f \in files' : \E g \in files : /\ f.put = g.put /\ f.bucketId = g.bucketId
                                          /\ f.key = g.key /\ (f.isLatest => g = f /\ f.put # f0.put)
    BY <2>2, <2>4, <2>5
  <2>7. LatestIsNewest'
    <3> SUFFICES ASSUME NEW f \in files', NEW g \in files', f.isLatest,
                        f.bucketId \in Id, f.bucketId = g.bucketId, f.key = g.key
                 PROVE  g.put <= f.put
      BY DEF LatestIsNewest
    <3>1. f \in files
      BY <2>6
    <3>2. PICK h \in files : g.put = h.put /\ g.bucketId = h.bucketId /\ g.key = h.key
      BY <2>6
    <3>3. QED
      BY <3>1, <3>2 DEF RowsInv, LatestIsNewest
  <2>8. RowsHaveBuckets' /\ \A f \in files' : f.put <= lastPut'
    BY <2>3, <2>6 DEF RowsInv, RowsHaveBuckets
  <2>9. \A f \in files' : f.bucketId = req[r].id /\ f.key = req[r].key => ~ f.isLatest
    <3> SUFFICES ASSUME NEW f \in files', f.bucketId = req[r].id, f.key = req[r].key, f.isLatest
                 PROVE  FALSE
      OBVIOUS
    <3>1. f \in files /\ f.put # f0.put
      BY <2>6
    <3>2. req[r].id \in Id
      BY <1>14 DEF UploadUnlatest, LocalsOK
    <3>3. f0.put <= f.put /\ f.put <= f0.put
      BY <2>1, <2>5, <3>1, <3>2 DEF RowsInv, LatestIsNewest
    <3>4. QED
      BY <1>t, <2>5, <3>1, <3>3
  <2>10. /\ bucketId[req[r].name] = req[r].id
         /\ req[r].put <= lastPut /\ \A f \in files : f.put < req[r].put
    BY <1>14 DEF UploadUnlatest, HandlerInv
  <2>11. \A f \in files' : f.put < req[r].put
    BY <2>6, <2>10
  <2>12. HandlerInv(r)'
    BY <2>3, <2>9, <2>10, <2>11 DEF HandlerInv, Rows
  <2>13. QED
    BY <2>7, <2>8, <2>12 DEF RowsInv
<1>15. ASSUME UploadSave(r) PROVE RowsInv' /\ HandlerInv(r)'
  <2> DEFINE new == [put |-> req[r].put, bucketId |-> req[r].id, key |-> req[r].key,
                     version |-> NewVersion(req[r].found), isLatest |-> TRUE]
  <2>1. files' = files \cup {new} /\ bucketId' = bucketId /\ lastPut' = lastPut
    BY <1>15 DEF UploadSave
  <2>2. new.put = req[r].put /\ new.bucketId = req[r].id /\ new.key = req[r].key
    OBVIOUS
  <2>3. /\ bucketId[req[r].name] = req[r].id
        /\ req[r].put <= lastPut /\ \A f \in files : f.put < req[r].put
        /\ \A f \in files : f.bucketId = req[r].id /\ f.key = req[r].key => ~ f.isLatest
    BY <1>15 DEF UploadSave, HandlerInv, Rows
  <2>4. req[r].put \in Nat
    BY <1>15, <1>t DEF UploadSave, LocalsOK, Put
  <2> HIDE DEF new
  <2>5. LatestIsNewest'
    <3> SUFFICES ASSUME NEW f \in files', NEW g \in files', f.isLatest,
                        f.bucketId \in Id, f.bucketId = g.bucketId, f.key = g.key
                 PROVE  g.put <= f.put
      BY DEF LatestIsNewest
    <3>1. CASE f = new
      BY <1>t, <2>1, <2>2, <2>3, <2>4, <3>1
    <3>2. CASE f \in files /\ g \in files
      BY <3>2 DEF RowsInv, LatestIsNewest
    <3>3. CASE f \in files /\ g = new
      BY <2>2, <2>3, <3>3
    <3>4. QED
      BY <2>1, <3>1, <3>2, <3>3
  <2>6. RowsHaveBuckets' /\ \A f \in files' : f.put <= lastPut'
    BY <1>t, <2>1, <2>2, <2>3 DEF RowsInv, RowsHaveBuckets
  <2>7. QED
    BY <1>15, <1>n, <2>5, <2>6 DEF UploadSave, RowsInv
<1>16. ASSUME DeleteObject(r) PROVE RowsInv' /\ HandlerInv(r)'
  <2>1. Return(r) \/ req'[r].pc = "deleteRow"
    BY <1>16, <1>g DEF DeleteObject
  <2>2. HandlerInv(r)'
    BY <1>n, <2>1 DEF HandlerInv
  <2>3. QED
    BY <1>16, <1>u, <2>2 DEF DeleteObject
<1>17. ASSUME DeleteRow(r) PROVE RowsInv' /\ HandlerInv(r)'
  <2>1. files' \subseteq files /\ bucketId' = bucketId /\ lastPut' = lastPut /\ Return(r)
    BY <1>17 DEF DeleteRow
  <2>2. QED
    BY <1>n, <2>1 DEF RowsInv, LatestIsNewest, RowsHaveBuckets
<1>18. ASSUME Fail(r) PROVE RowsInv' /\ HandlerInv(r)'
  BY <1>18, <1>n, <1>u DEF Fail
<1>19. ASSUME NEW b \in Names, NEW k \in Keys, PresignedPut(b, k)
       PROVE  RowsInv' /\ HandlerInv(r)'
  <2>1. lastPut' = lastPut + 1 /\ files' = files /\ bucketId' = bucketId /\ req' = req
    BY <1>19 DEF PresignedPut, PutObject
  <2>2. RowsInv'
    BY <1>t, <2>1 DEF RowsInv, LatestIsNewest, RowsHaveBuckets
  <2>3. req[r].put \in Nat
    BY <1>t DEF TypeOK, Put, Nothing
  <2>4. HandlerInv(r)'
    BY <1>t, <2>1, <2>3 DEF HandlerInv, Rows
  <2>5. QED
    BY <2>2, <2>4
<1>20. ASSUME NEW b \in Names, NEW k \in Keys, CompleteAssemble(r, b, k)
       PROVE  RowsInv' /\ HandlerInv(r)'
  <2>1. /\ lastPut' = lastPut + 1 /\ files' = files /\ bucketId' = bucketId
        /\ req'[r].pc = "completeSave" /\ req'[r].put = lastPut + 1
    BY <1>20, <1>e, JobFields DEF CompleteAssemble, PutObject
  <2>2. RowsInv'
    BY <1>t, <2>1 DEF RowsInv, LatestIsNewest, RowsHaveBuckets
  <2>3. HandlerInv(r)'
    BY <1>t, <2>1 DEF HandlerInv
  <2>4. QED
    BY <2>2, <2>3
<1>21. ASSUME CompleteSave(r) PROVE RowsInv' /\ HandlerInv(r)'
  <2> DEFINE new == [put |-> req[r].put, bucketId |-> req[r].name, key |-> req[r].key,
                     version |-> 1, isLatest |-> TRUE]
  <2>1. files' = files \cup {new} /\ bucketId' = bucketId /\ lastPut' = lastPut
    BY <1>21 DEF CompleteSave
  <2>2. new.put = req[r].put /\ new.bucketId \notin Id
    BY <1>t, NamesAreNoIds
  <2>3. req[r].put <= lastPut
    BY <1>21 DEF CompleteSave, HandlerInv
  <2> HIDE DEF new
  <2>4. LatestIsNewest'
    BY <2>1, <2>2 DEF RowsInv, LatestIsNewest
  <2>5. RowsHaveBuckets' /\ \A f \in files' : f.put <= lastPut'
    BY <2>1, <2>2, <2>3 DEF RowsInv, RowsHaveBuckets
  <2>6. QED
    BY <1>21, <1>n, <2>4, <2>5 DEF CompleteSave, RowsInv
<1>22. CASE UNCHANGED vars
  BY <1>22 DEF vars, RowsInv, LatestIsNewest, RowsHaveBuckets, HandlerInv, Rows
<1>23. QED
  BY <1>1, <1>2, <1>3, <1>4, <1>5, <1>6, <1>7, <1>8, <1>9, <1>10, <1>11, <1>12, <1>13,
     <1>14, <1>15, <1>16, <1>17, <1>18, <1>19, <1>20, <1>21, <1>22 DEF Next, Handler

LEMMA SequentialInit ==
    ASSUME NEW r, Requests = {r}, Init
    PROVE  RowsInv /\ HandlerInv(r)
<1>1. req[r].pc = "idle" /\ files = {}
  BY JobFields DEF Init, Idle
<1>2. QED
  BY <1>1 DEF RowsInv, LatestIsNewest, RowsHaveBuckets, HandlerInv, Uploading, Recording, Dropping

LEMMA SequentialInv ==
    ASSUME NEW r, Requests = {r}
    PROVE  Spec => []RowsInv
<1>1. Init => TypeOK /\ LocalsOK
  BY TypeInit
<1>2. Init => RowsInv /\ HandlerInv(r)
  BY SequentialInit
<1>3. TypeOK /\ LocalsOK /\ RowsInv /\ HandlerInv(r) /\ [Next]_vars =>
         (TypeOK /\ LocalsOK /\ RowsInv /\ HandlerInv(r))'
  BY TypeStep, LocalsStep, SequentialStep
<1>4. QED
  BY <1>1, <1>2, <1>3, PTL DEF Spec

\* One request at a time, whatever fails: the latest row of a file that uploadFile
\* made, the one downloadFile reads by default, is its newest.
THEOREM SequentialLatestIsNewest ==
    ASSUME NEW r, Requests = {r}
    PROVE  Spec => []LatestIsNewest
<1>1. RowsInv => LatestIsNewest
  BY DEF RowsInv
<1>2. QED
  BY <1>1, SequentialInv, PTL

\* One request at a time, whatever fails: deleteBucket leaves no row of an upload
\* behind in the table files (rows of multipart uploads it does not count).
THEOREM SequentialRowsHaveBuckets ==
    ASSUME NEW r, Requests = {r}
    PROVE  Spec => []RowsHaveBuckets
<1>1. RowsInv => RowsHaveBuckets
  BY DEF RowsInv
<1>2. QED
  BY <1>1, SequentialInv, PTL
=============================================================================
