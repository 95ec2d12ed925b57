----------------------------- MODULE Multipart -----------------------------
(***************************************************************************)
(* Multipart uploads of the storage service: MultipartService keeps its    *)
(* sessions in process memory, MinIO keeps the parts and assembles the     *)
(* object, Postgres gets one file row at the end.                          *)
(*                                                                         *)
(* A call holds the session object it found; taking the session out of the *)
(* map does not take it out of the hands of a call that is under way.      *)
(***************************************************************************)
EXTENDS Integers, Sequences, SequencesExt, FiniteSets

CONSTANTS
    Uploads,    \* uploads, each of an object of its own
    UploadCalls, \* calls that may be under way at once
    PartCount,  \* parts of every upload
    MaxSends,   \* bound: parts sent for one upload
    MaxUploadFaults \* bound: rejected commands and restarts

ASSUME MultipartAssumption ==
    /\ PartCount \in Nat \ {0} /\ MaxSends \in Nat /\ MaxUploadFaults \in Nat
    /\ Uploads # {}

VARIABLES
    session,   \* uploads whose session is in the map
    parts,     \* completedParts of each session object
    minio,     \* MinIO's view of each upload
    atMinio,   \* part numbers MinIO holds, or assembled into the object
    fileRows,  \* file rows saved for each upload
    ucall,     \* the calls under way
    sends,     \* parts sent for each upload
    trouble    \* rejected commands and restarts so far

uploadVars == <<session, parts, minio, atMinio, fileRows, ucall, sends, trouble>>

PartNumbers == 1..PartCount
UCall(pc, u, p) == [pc |-> pc, upload |-> u, part |-> p]
NoCall == UCall("idle", CHOOSE u \in Uploads : TRUE, 0)

MultipartTypeOK ==
    /\ session \subseteq Uploads
    /\ parts \in [Uploads -> Seq(PartNumbers)]
    /\ minio \in [Uploads -> {"none", "open", "assembled", "aborted"}]
    /\ atMinio \in [Uploads -> SUBSET PartNumbers]
    /\ fileRows \in [Uploads -> Nat]
    /\ ucall \in [UploadCalls ->
          [pc : {"idle", "send", "push", "assemble", "save", "publish", "abort", "forget"},
           upload : Uploads, part : 0..PartCount]]
    /\ sends \in [Uploads -> 0..MaxSends]
    /\ trouble \in 0..MaxUploadFaults

MultipartInit ==
    /\ session = {}
    /\ parts = [u \in Uploads |-> <<>>]
    /\ minio = [u \in Uploads |-> "none"]
    /\ atMinio = [u \in Uploads |-> {}]
    /\ fileRows = [u \in Uploads |-> 0]
    /\ ucall = [c \in UploadCalls |-> NoCall]
    /\ sends = [u \in Uploads |-> 0]
    /\ trouble = 0

Begin(c, pc, u, p) == ucall[c].pc = "idle" /\ ucall' = [ucall EXCEPT ![c] = UCall(pc, u, p)]
Goto(c, pc) == ucall' = [ucall EXCEPT ![c].pc = pc]
Return(c) == ucall' = [ucall EXCEPT ![c] = NoCall]
At(c, pc, u) == ucall[c].pc = pc /\ ucall[c].upload = u
-----------------------------------------------------------------------------
\* MinIO opens the upload; its session goes into the map.
Initiate(u) ==
    /\ minio[u] = "none"
    /\ minio' = [minio EXCEPT ![u] = "open"]
    /\ session' = session \cup {u}
    /\ UNCHANGED <<parts, atMinio, fileRows, ucall, sends, trouble>>

\* uploadPart up to its call of MinIO; a part may be sent again.
UploadPart(c, u, p) ==
    /\ u \in session
    /\ sends[u] < MaxSends
    /\ Begin(c, "send", u, p)
    /\ sends' = [sends EXCEPT ![u] = @ + 1]
    /\ UNCHANGED <<session, parts, minio, atMinio, fileRows, trouble>>

\* MinIO stores the part, or no longer knows the upload and rejects.
StorePart(c, u) ==
    /\ At(c, "send", u)
    /\ IF minio[u] = "open"
       THEN atMinio' = [atMinio EXCEPT ![u] = @ \cup {ucall[c].part}] /\ Goto(c, "push")
       ELSE UNCHANGED atMinio /\ Return(c)
    /\ UNCHANGED <<session, parts, minio, fileRows, sends, trouble>>

\* The rest of uploadPart, which puts the session into the map again.
PushPart(c, u) ==
    /\ At(c, "push", u)
    /\ parts' = [parts EXCEPT ![u] = Append(@, ucall[c].part)]
    /\ session' = session \cup {u}
    /\ Return(c)
    /\ UNCHANGED <<minio, atMinio, fileRows, sends, trouble>>

\* Mutant: the number of parts is not checked.
CompleteUploadUnchecked(c, u) ==
    /\ u \in session
    /\ Begin(c, "assemble", u, 0)
    /\ UNCHANGED <<session, parts, minio, atMinio, fileRows, sends, trouble>>

CompleteUpload(c, u) ==
    /\ u \in session
    /\ Len(parts[u]) = PartCount
    /\ Begin(c, "assemble", u, 0)
    /\ UNCHANGED <<session, parts, minio, atMinio, fileRows, sends, trouble>>

\* MinIO assembles what it is told.  It does not know an upload that has
\* ended, and may refuse a list that names a part twice.
Assemble(c, u) ==
    /\ At(c, "assemble", u)
    /\ \/ /\ minio[u] = "open"
          /\ minio' = [minio EXCEPT ![u] = "assembled"]
          /\ atMinio' = [atMinio EXCEPT ![u] = ToSet(parts[u])]
          /\ Goto(c, "save")
       \/ /\ minio[u] # "open" \/ ~IsInjective(parts[u])
          /\ Return(c)
          /\ UNCHANGED <<minio, atMinio>>
    /\ UNCHANGED <<session, parts, fileRows, sends, trouble>>

\* The row is saved, then the session leaves the map.
SaveRow(c, u) ==
    /\ At(c, "save", u)
    /\ fileRows' = [fileRows EXCEPT ![u] = @ + 1]
    /\ session' = session \ {u}
    /\ Goto(c, "publish")
    /\ UNCHANGED <<parts, minio, atMinio, sends, trouble>>

\* publishStorageEvent ends the call, whether it resolves or rejects.
Publish(c, u) ==
    /\ At(c, "publish", u)
    /\ Return(c)
    /\ UNCHANGED <<session, parts, minio, atMinio, fileRows, sends, trouble>>

AbortUpload(c, u) ==
    /\ u \in session
    /\ Begin(c, "abort", u, 0)
    /\ UNCHANGED <<session, parts, minio, atMinio, fileRows, sends, trouble>>

\* MinIO drops the parts, or rejects an upload that has ended.
Drop(c, u) ==
    /\ At(c, "abort", u)
    /\ IF minio[u] = "open"
       THEN /\ minio' = [minio EXCEPT ![u] = "aborted"]
            /\ atMinio' = [atMinio EXCEPT ![u] = {}]
            /\ Goto(c, "forget")
       ELSE UNCHANGED <<minio, atMinio>> /\ Return(c)
    /\ UNCHANGED <<session, parts, fileRows, sends, trouble>>

Forget(c, u) ==
    /\ At(c, "forget", u)
    /\ session' = session \ {u}
    /\ Return(c)
    /\ UNCHANGED <<parts, minio, atMinio, fileRows, sends, trouble>>

Trouble == trouble < MaxUploadFaults /\ trouble' = trouble + 1

\* The command a call awaits is rejected; nothing is undone.
CommandFails(c) ==
    /\ ucall[c].pc \in {"send", "assemble", "save", "abort"}
    /\ Trouble
    /\ Return(c)
    /\ UNCHANGED <<session, parts, minio, atMinio, fileRows, sends>>

\* The map and the calls go with the process.
StorageRestart ==
    /\ Trouble
    /\ session' = {}
    /\ ucall' = [c \in UploadCalls |-> NoCall]
    /\ UNCHANGED <<parts, minio, atMinio, fileRows, sends>>

MultipartNext ==
    \/ \E u \in Uploads :
        \/ Initiate(u)
        \/ \E c \in UploadCalls :
            \/ \E p \in PartNumbers : UploadPart(c, u, p)
            \/ StorePart(c, u) \/ PushPart(c, u)
            \/ CompleteUpload(c, u) \/ Assemble(c, u) \/ SaveRow(c, u) \/ Publish(c, u)
            \/ AbortUpload(c, u) \/ Drop(c, u) \/ Forget(c, u)
    \/ \E c \in UploadCalls : CommandFails(c)
    \/ StorageRestart

MultipartSpec == MultipartInit /\ [][MultipartNext]_uploadVars
-----------------------------------------------------------------------------
\* getUploadStatus.
Progress(u) == (100 * Len(parts[u])) \div PartCount

\* However many calls complete, abort or add to an upload at once, an assembled
\* object has all its parts, and the progress shown is that of the parts MinIO
\* holds, as long as no part was counted twice: a part sent again counts again,
\* so that an upload may be completed without one, or never.  The upload gets
\* at most one file row, only once its object exists; an object without a row
\* and without a call to save one means that a command failed or the process
\* restarted.
UploadsStayWhole ==
    \A u \in Uploads :
        /\ IsInjective(parts[u]) =>
              /\ minio[u] = "assembled" => atMinio[u] = PartNumbers
              /\ Progress(u) <= 100
              /\ minio[u] = "open" => ToSet(parts[u]) \subseteq atMinio[u]
        /\ fileRows[u] <= 1
        /\ fileRows[u] = 1 => minio[u] = "assembled"
        /\ minio[u] = "assembled" /\ fileRows[u] = 0 =>
              trouble > 0 \/ \E c \in UploadCalls : At(c, "save", u)
=============================================================================
