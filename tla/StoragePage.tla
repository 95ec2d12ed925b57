---------------------------- MODULE StoragePage -----------------------------
(***************************************************************************)
(* The dashboard's storage page: the bucket list and its pages, the files  *)
(* of the selected bucket, the dialogs, and the handlers that call the     *)
(* storage service and have SWR ask again.                                 *)
(*                                                                         *)
(* A handler goes on with what its render had, after an await too; a       *)
(* dialog is modal, so that nothing of the page can be clicked behind it.  *)
(* The storage service is external here: a key has as many rows as         *)
(* versions, and a delete removes one of them.                             *)
(***************************************************************************)
EXTENDS Integers, Sequences, SequencesExt, Swr

CONSTANTS
    Buckets, Files, PageCalls,
    PageSize,    \* BUCKETS_PAGE_SIZE
    MaxVersions, \* bound: versions of a key
    MaxMade      \* bound: handlers started and changes made elsewhere

ASSUME PageAssumption ==
    /\ PageSize \in Nat \ {0} /\ MaxVersions \in Nat \ {0} /\ MaxMade \in Nat
    /\ IsFiniteSet(Buckets) /\ "none" \notin Buckets \cup Files /\ "poll" \notin PageCalls

VARIABLES
    existing,    \* buckets of the user, newest first
    rowsOf,      \* rows of each <<bucket, file>>
    bucketPage,
    bucketsData, \* answer shown for that page: buckets and their total
    filesData,   \* SWR's key of each bucket's files
    selectedName,
    openDialog,
    work,        \* handlers that are waiting
    filesMade,   \* handlers started and changes made elsewhere
    saidDeleted  \* files said to be deleted that have no row left since

storageServerVars == <<existing, rowsOf>>
storagePageVars == <<bucketPage, bucketsData, filesData, selectedName, openDialog>>
storageVars == <<storageServerVars, storagePageVars, work, filesMade, saidDeleted>>

NoBuckets == [data |-> {}, total |-> 0]
NoDialog == [kind |-> "none", bucket |-> "none", file |-> "none"]
\* A handler: what it calls, for which bucket and file, the render's page and
\* whether the bucket was the selected one; whether the file has had no row
\* since its delete, and whether the GET it asked for has answered.
NoWork == [kind |-> "none", bucket |-> "none", file |-> "none", page |-> 1, selected |-> FALSE,
           pc |-> "idle", emptied |-> FALSE, listed |-> FALSE]

StoragePageTypeOK ==
    /\ Range(existing) \subseteq Buckets /\ rowsOf \in [Buckets \X Files -> 0..MaxVersions]
    /\ bucketPage \in Nat \ {0} /\ bucketsData.data \subseteq Buckets /\ bucketsData.total \in Nat
    /\ filesData \in [Buckets -> SwrKeys(SUBSET Files, PageCalls)]
    /\ selectedName \in Buckets \cup {"none"}
    /\ openDialog.kind \in {"none", "create", "bucket", "file"}
    /\ \A c \in PageCalls : /\ work[c].kind \in {"none", "create", "bucket", "upload", "file", "link"}
                            /\ work[c].pc \in {"idle", "sent", "failed", "done", "refetch"}
    /\ filesMade \in 0..MaxMade /\ saidDeleted \subseteq Buckets \X Files

StoragePageInit ==
    /\ existing \in SetToAllKPermutations(Buckets)
    /\ rowsOf \in [Buckets \X Files -> 0..MaxVersions]
    /\ \A o \in Buckets \X Files : rowsOf[o] > 0 => o[1] \in Range(existing)
    /\ bucketPage = 1 /\ bucketsData = NoBuckets
    /\ filesData = [b \in Buckets |-> SwrKey({})]
    /\ selectedName = "none" /\ openDialog = NoDialog
    /\ work = [c \in PageCalls |-> NoWork] /\ filesMade = 0 /\ saidDeleted = {}

Selected == IF selectedName \in bucketsData.data THEN selectedName ELSE "none"
BucketTotalPages == LET full == (bucketsData.total + PageSize - 1) \div PageSize IN
                    IF full > 1 THEN full ELSE 1
-----------------------------------------------------------------------------
(* External: the storage service, and its other clients.                    *)

Possible(kind, b, f) ==
    /\ kind = "create" <=> b \notin Range(existing)
    /\ kind = "bucket" => \A g \in Files : rowsOf[<<b, g>>] = 0
    /\ kind = "upload" => rowsOf[<<b, f>>] < MaxVersions
    /\ kind = "file" => rowsOf[<<b, f>>] > 0

BucketAt(b) == CHOOSE i \in DOMAIN existing : existing[i] = b

\* Handlers ws, unless the kind is "upload": a new row.
Effect(kind, b, f, ws) ==
    /\ existing' = CASE kind = "create" -> <<b>> \o existing
                     [] kind = "bucket" -> RemoveAt(existing, BucketAt(b))
                     [] OTHER -> existing
    /\ rowsOf' = CASE kind = "upload" -> [rowsOf EXCEPT ![<<b, f>>] = @ + 1]
                   [] kind = "file" -> [rowsOf EXCEPT ![<<b, f>>] = @ - 1]
                   [] OTHER -> rowsOf
    /\ saidDeleted' = IF kind = "upload" THEN saidDeleted \ {<<b, f>>} ELSE saidDeleted
    /\ work' = [c \in PageCalls |->
            IF kind = "upload" /\ ws[c].bucket = b /\ ws[c].file = f
            THEN [ws[c] EXCEPT !.emptied = FALSE] ELSE ws[c]]

Elsewhere(kind, b, f) ==
    /\ filesMade < MaxMade /\ Possible(kind, b, f)
    /\ filesMade' = filesMade + 1
    /\ Effect(kind, b, f, work)
    /\ UNCHANGED storagePageVars

\* The service does what a handler asked for; heard: its answer arrives.
Serve(c, heard) ==
    LET w == work[c] IN
    /\ w.pc = "sent" /\ Possible(w.kind, w.bucket, w.file)
    /\ Effect(w.kind, w.bucket, w.file,
              [work EXCEPT ![c].pc = IF heard THEN "done" ELSE "failed",
                           ![c].emptied = (w.kind = "file" /\ rowsOf[<<w.bucket, w.file>>] = 1)])
    /\ UNCHANGED <<storagePageVars, filesMade>>

\* It refuses, or the request is lost.
ServeNot(c) ==
    /\ work[c].pc = "sent"
    /\ work' = [work EXCEPT ![c].pc = "failed"]
    /\ UNCHANGED <<storageServerVars, storagePageVars, filesMade, saidDeleted>>

Listed(b) == {f \in Files : rowsOf[<<b, f>>] > 0}
BucketsOn(p) ==
    [total |-> Len(existing),
     data |-> {existing[i] : i \in {j \in DOMAIN existing : (j - 1) \div PageSize = p - 1}}]
-----------------------------------------------------------------------------
(* The two useSWR hooks.                                                    *)

\* An answer to the bucket list: every 15 s, or for a handler's mutate.
BucketsArrive ==
    /\ bucketsData' = BucketsOn(bucketPage)
    /\ UNCHANGED <<storageServerVars, bucketPage, filesData, selectedName, openDialog, work, filesMade, saidDeleted>>

SetFiles(b, k) ==
    /\ filesData' = [filesData EXCEPT ![b] = k]
    /\ UNCHANGED <<storageServerVars, bucketPage, bucketsData, selectedName, openDialog, filesMade, saidDeleted>>

\* The files of the selected bucket: when it is selected, and every 10 s.
PollFiles ==
    /\ Selected # "none" /\ filesData[Selected].get = "none"
    /\ SetFiles(Selected, Revalidate(filesData[Selected], "poll"))
    /\ UNCHANGED work

ReadFiles(b) ==
    /\ filesData[b].get = "asked" /\ b \in Range(existing)
    /\ SetFiles(b, Answered(filesData[b], Listed(b)))
    /\ UNCHANGED work

FilesArrive(b) ==
    LET c == filesData[b].by IN
    /\ filesData[b].get = "answered"
    /\ SetFiles(b, Arrived(filesData[b]))
    /\ work' = IF c \in PageCalls THEN [work EXCEPT ![c].listed = TRUE] ELSE work

FilesFail(b) ==
    /\ filesData[b].get # "none"
    /\ SetFiles(b, Forgotten(filesData[b]))
    /\ UNCHANGED work
-----------------------------------------------------------------------------
(* The page.                                                                *)

Behind == openDialog = NoDialog
SetPage(dialog) ==
    /\ openDialog' = dialog
    /\ UNCHANGED <<storageServerVars, bucketPage, bucketsData, filesData, selectedName, saidDeleted>>
Open(kind, b, f) ==
    /\ Behind
    /\ SetPage([kind |-> kind, bucket |-> b, file |-> f])
    /\ UNCHANGED <<work, filesMade>>

TurnPage(step) ==
    LET p == bucketPage + step IN
    /\ Behind /\ BucketTotalPages > 1
    /\ p \in 1..BucketTotalPages \* Prev and Next stop at the ends
    /\ bucketPage' = p /\ bucketsData' = NoBuckets
    /\ UNCHANGED <<storageServerVars, filesData, selectedName, openDialog, work, filesMade, saidDeleted>>

SelectBucket(b) ==
    /\ Behind /\ b \in bucketsData.data
    /\ selectedName' = b
    /\ UNCHANGED <<storageServerVars, bucketPage, bucketsData, filesData, openDialog, work, filesMade, saidDeleted>>

OpenCreate == Open("create", "none", "none")
AskDeleteBucket == Selected # "none" /\ Open("bucket", Selected, "none")
\* The dialog is about a file; its bucket is not part of the page's state, but
\* the one whose rows were shown.
AskDeleteFile(f) ==
    /\ Selected # "none" /\ f \in filesData[Selected].rows
    /\ Open("file", Selected, f)

\* Cancel or Escape, with a handler of the dialog under way or not.
Cancel(kinds) ==
    /\ openDialog.kind \in kinds
    /\ SetPage(NoDialog)
    /\ UNCHANGED <<work, filesMade>>
CancelCreate == Cancel({"create"})
CancelDelete == Cancel({"bucket", "file"})
-----------------------------------------------------------------------------
(* The handlers, up to their first await.                                   *)

Start(c, kind, b, f) ==
    /\ work[c].pc = "idle" /\ filesMade < MaxMade
    /\ filesMade' = filesMade + 1
    /\ work' = [work EXCEPT ![c] = [NoWork EXCEPT !.kind = kind, !.bucket = b, !.file = f,
            !.page = bucketPage, !.selected = (kind = "bucket" /\ selectedName = b), !.pc = "sent"]]

handleCreateBucket(c, b) ==
    /\ openDialog.kind = "create" /\ \A d \in PageCalls : work[d].kind # "create"
    /\ Start(c, "create", b, "none")
    /\ SetPage(openDialog)

\* The button closes its dialog as well.
confirmDeleteBucket(c) ==
    /\ openDialog.kind = "bucket"
    /\ Start(c, "bucket", openDialog.bucket, "none")
    /\ SetPage(NoDialog)

\* The upload zone is left out: it may always be open.
handleUpload(c, f) ==
    /\ Behind /\ Selected # "none"
    /\ Start(c, "upload", Selected, f)
    /\ SetPage(NoDialog)

confirmDeleteFile(c) ==
    /\ openDialog.kind = "file"
    /\ IF Selected # "none" THEN Start(c, "file", Selected, openDialog.file)
                          ELSE UNCHANGED <<work, filesMade>>
    /\ SetPage(NoDialog)

\* handleDownload and handleCopyLink.
AskForLink(c, f) ==
    /\ Behind /\ Selected # "none" /\ f \in filesData[Selected].rows
    /\ Start(c, "link", Selected, f)
    /\ SetPage(NoDialog)
-----------------------------------------------------------------------------
(* The rest of them.                                                        *)

\* Mutant: a GET that is under way will do.
RevalidatesDeduped(c) ==
    LET w == work[c] IN
    /\ w.pc = "done" /\ w.kind # "link"
    /\ selectedName' = IF w.selected THEN "none" ELSE selectedName
    /\ filesData' = IF w.kind \in {"create", "bucket"} \/ Selected # w.bucket THEN filesData
            ELSE [filesData EXCEPT ![w.bucket] =
                    IF @.get = "none" THEN Revalidate(@, c) ELSE [@ EXCEPT !.by = c]]
    /\ work' = [work EXCEPT ![c].pc = "refetch"]
    /\ UNCHANGED <<storageServerVars, bucketPage, bucketsData, openDialog, filesMade, saidDeleted>>

\* Mutant: another bucket is selected instead of the deleted one.
RevalidatesSelects(c) ==
    LET w == work[c] IN
    /\ w.pc = "done" /\ w.kind # "link"
    /\ selectedName' \in IF w.selected THEN bucketsData.data \ {w.bucket} ELSE {selectedName}
    /\ filesData' = IF w.kind \in {"create", "bucket"} THEN filesData
            ELSE [filesData EXCEPT ![w.bucket] =
                    IF Selected = w.bucket THEN Revalidate(@, c) ELSE Forgotten(@)]
    /\ work' = [work EXCEPT ![c].pc = "refetch"]
    /\ UNCHANGED <<storageServerVars, bucketPage, bucketsData, openDialog, filesMade, saidDeleted>>

\* The call has succeeded: SWR is told to ask again, of which the bucket list
\* is BucketsArrive; a deleted bucket that was selected when its handler
\* started takes the selection with it, whatever that is by now.
Revalidates(c) ==
    LET w == work[c] IN
    /\ w.pc = "done" /\ w.kind # "link"
    /\ selectedName' = IF w.selected THEN "none" ELSE selectedName
    /\ filesData' = IF w.kind \in {"create", "bucket"} THEN filesData
            ELSE [filesData EXCEPT ![w.bucket] =
                    IF Selected = w.bucket THEN Revalidate(@, c) ELSE Forgotten(@)]
    /\ work' = [work EXCEPT ![c].pc = "refetch"]
    /\ UNCHANGED <<storageServerVars, bucketPage, bucketsData, openDialog, filesMade, saidDeleted>>

\* The toast and the finally block; the dialog that closes may be about
\* something else by now.
HandlerEnds(c) ==
    LET w == work[c] IN
    /\ \/ w.pc = "failed"
       \/ w.pc = "done" /\ w.kind = "link"
       \/ w.pc = "refetch" /\ \A b \in Buckets : filesData[b].by # c
    /\ openDialog' = IF \/ w.kind \in {"bucket", "file"} /\ openDialog.kind = w.kind
                        \/ w.kind = "create" /\ openDialog.kind = "create" /\ w.pc = "refetch"
                     THEN NoDialog ELSE openDialog
    /\ saidDeleted' = IF w.pc = "refetch" /\ w.emptied /\ w.listed
                    THEN saidDeleted \cup {<<w.bucket, w.file>>} ELSE saidDeleted
    /\ work' = [work EXCEPT ![c] = NoWork]
    /\ UNCHANGED <<storageServerVars, bucketPage, bucketsData, filesData, selectedName, filesMade>>

StoragePageNext ==
    \/ \E b \in Buckets, f \in Files, kind \in {"create", "bucket", "upload", "file"} : Elsewhere(kind, b, f)
    \/ BucketsArrive \/ PollFiles \/ \E b \in Buckets : ReadFiles(b) \/ FilesArrive(b) \/ FilesFail(b)
    \/ \E step \in {-1, 1} : TurnPage(step)
    \/ \E b \in Buckets : SelectBucket(b)
    \/ OpenCreate \/ AskDeleteBucket \/ CancelCreate \/ CancelDelete
    \/ \E f \in Files : AskDeleteFile(f)
    \/ \E c \in PageCalls :
        \/ \E b \in Buckets : handleCreateBucket(c, b)
        \/ \E f \in Files : handleUpload(c, f) \/ AskForLink(c, f)
        \/ confirmDeleteBucket(c) \/ confirmDeleteFile(c)
        \/ Serve(c, TRUE) \/ Serve(c, FALSE) \/ ServeNot(c) \/ Revalidates(c) \/ HandlerEnds(c)

StoragePageSpec == StoragePageInit /\ [][StoragePageNext]_storageVars
-----------------------------------------------------------------------------
\* Once a file is said to be deleted and the list has been fetched for it, the
\* list does not show it again while it has no row: no poll that was under way
\* brings it back.
AnnouncedStayGone ==
    \A a \in saidDeleted : a[2] \notin filesData[a[1]].rows

\* While the page asks whether to delete a file, the selected bucket, which
\* the request will name, does not become another one than the file's.
DialogKeepsItsBucket ==
    openDialog.kind = "file" => Selected \in {"none", openDialog.bucket}
=============================================================================
