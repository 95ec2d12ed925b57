------------------------------ MODULE CdnPage -------------------------------
(***************************************************************************)
(* The dashboard's CDN page: the purge form with its dialog for purging    *)
(* everything, the purge history, the preview.  The cache service is       *)
(* external here; purges are numbered as it makes them, and it has put one *)
(* at the head of the history, which keeps the newest, before it answers.  *)
(***************************************************************************)
EXTENDS Integers, Sequences, FiniteSets, Swr

CONSTANTS
    PurgeCalls,  \* handlers that may be waiting
    PurgeCap,    \* how many purges the history keeps
    MaxPurges    \* bound: purges asked for

ASSUME PurgesAssumption ==
    MaxPurges \in Nat /\ PurgeCap \in Nat \ {0} /\ "poll" \notin PurgeCalls

VARIABLES
    purges,      \* kinds of the purges the cache service has made, in order
    submitted,   \* purges asked for so far
    historyData, \* SWR's key CACHE_HISTORY_PATH
    purgeType, purging, confirmPurgeAll, previewFailed, \* the page
    result,      \* purgeResult and purgeError: the purge, 0 for none; whether the last one failed
    purgeWork,   \* handlers that are waiting
    toasted      \* purges said to be made, after the history was fetched for them

purgeVars == <<purges, submitted, historyData, purgeType, purging, confirmPurgeAll,
               previewFailed, result, purgeWork, toasted>>

PurgeTypes == {"file", "bucket", "prefix", "all"}
NoPurgeWork == [pc |-> "idle", type |-> "none", purge |-> 0, listed |-> FALSE]

CdnPageTypeOK ==
    /\ submitted \in 0..MaxPurges /\ Len(purges) <= submitted
    /\ \A n \in DOMAIN purges : purges[n] \in PurgeTypes
    /\ historyData \in SwrKeys(SUBSET (1..MaxPurges), PurgeCalls)
    /\ purgeType \in PurgeTypes /\ {purging, confirmPurgeAll, previewFailed} \subseteq BOOLEAN
    /\ result.purge \in 0..Len(purges)
    /\ toasted \subseteq DOMAIN purges
    \* one purge is under way at most, although only the form's button is
    \* disabled: the dialog never opens, or stays open, during a purge
    /\ Cardinality({c \in PurgeCalls : purgeWork[c].pc # "idle"}) <= 1
    /\ confirmPurgeAll => ~purging

CdnPageInit ==
    /\ purges = <<>> /\ submitted = 0 /\ historyData = SwrKey({})
    /\ purgeType = "file" /\ purging = FALSE /\ confirmPurgeAll = FALSE /\ previewFailed = FALSE
    /\ result = [purge |-> 0, failed |-> FALSE]
    /\ purgeWork = [c \in PurgeCalls |-> NoPurgeWork] /\ toasted = {}

externalVars == <<purges, historyData>>
formVars == <<purgeType, purging, confirmPurgeAll>>
-----------------------------------------------------------------------------
(* The form, the dialog, the preview.                                       *)

\* Not while the dialog is open; a purge under way does not matter.
SetPurgeType(t) ==
    /\ ~confirmPurgeAll
    /\ purgeType' = t
    /\ UNCHANGED <<externalVars, submitted, purging, confirmPurgeAll, previewFailed, result, purgeWork, toasted>>

\* Mutant: the spinner is forgotten.
executePurgeUnmarked(c) ==
    /\ purgeWork[c].pc = "idle" /\ submitted < MaxPurges
    /\ submitted' = submitted + 1
    /\ result' = [result EXCEPT !.failed = FALSE]
    /\ purgeWork' = [purgeWork EXCEPT ![c] = [NoPurgeWork EXCEPT !.pc = "sent", !.type = purgeType]]
    /\ UNCHANGED <<externalVars, purgeType, purging, previewFailed, toasted>>

\* Up to the await; the result of the last purge stays.
executePurge(c) ==
    /\ purgeWork[c].pc = "idle" /\ submitted < MaxPurges
    /\ submitted' = submitted + 1
    /\ purging' = TRUE
    /\ result' = [result EXCEPT !.failed = FALSE]
    /\ purgeWork' = [purgeWork EXCEPT ![c] = [NoPurgeWork EXCEPT !.pc = "sent", !.type = purgeType]]
    /\ UNCHANGED <<externalVars, purgeType, previewFailed, toasted>>

\* The button is disabled while a purge is under way.
handlePurgeSubmit(c) ==
    /\ ~confirmPurgeAll /\ ~purging
    /\ IF purgeType = "all"
       THEN /\ confirmPurgeAll' = TRUE
            /\ UNCHANGED <<externalVars, submitted, purgeType, purging, previewFailed, result, purgeWork, toasted>>
       ELSE executePurge(c) /\ UNCHANGED confirmPurgeAll

\* The dialog's button is not: nothing but the dialog can be clicked.
PurgeEverything(c) ==
    /\ confirmPurgeAll
    /\ confirmPurgeAll' = FALSE
    /\ executePurge(c)

CancelPurgeAll ==
    /\ confirmPurgeAll
    /\ confirmPurgeAll' = FALSE
    /\ UNCHANGED <<externalVars, submitted, purgeType, purging, previewFailed, result, purgeWork, toasted>>

SetPreview(failed) ==
    /\ previewFailed' = failed
    /\ UNCHANGED <<externalVars, submitted, formVars, result, purgeWork, toasted>>
\* The effect on another bucket, key or transformation; the image does not load.
PreviewEdited == SetPreview(FALSE)
PreviewFails == SetPreview(TRUE)
-----------------------------------------------------------------------------
(* The rest of executePurge.                                                *)

PurgeAnswered(c) ==
    /\ purgeWork[c].pc = "done"
    /\ result' = [result EXCEPT !.purge = purgeWork[c].purge]
    /\ historyData' = Revalidate(historyData, c)
    /\ purgeWork' = [purgeWork EXCEPT ![c].pc = "refetch"]
    /\ UNCHANGED <<purges, submitted, formVars, previewFailed, toasted>>

\* After the mutate of the statistics, too; or on an error.
PurgeEnds(c) ==
    LET w == purgeWork[c] IN
    /\ w.pc = "failed" \/ (w.pc = "refetch" /\ historyData.by # c)
    /\ purging' = FALSE
    /\ result' = [result EXCEPT !.failed = (w.pc = "failed")]
    /\ toasted' = IF w.listed THEN toasted \cup {w.purge} ELSE toasted
    /\ purgeWork' = [purgeWork EXCEPT ![c] = NoPurgeWork]
    /\ UNCHANGED <<externalVars, submitted, purgeType, confirmPurgeAll, previewFailed>>
-----------------------------------------------------------------------------
(* External: the cache service, and SWR's GETs of its history.              *)

PurgeMade(c) ==
    /\ purgeWork[c].pc = "sent"
    /\ purges' = Append(purges, purgeWork[c].type)
    /\ purgeWork' = [purgeWork EXCEPT ![c].pc = "done", ![c].purge = Len(purges')]
    /\ UNCHANGED <<submitted, historyData, formVars, previewFailed, result, toasted>>

\* Another client of the API.
PurgeElsewhere(t) ==
    /\ submitted < MaxPurges
    /\ submitted' = submitted + 1
    /\ purges' = Append(purges, t)
    /\ UNCHANGED <<historyData, formVars, previewFailed, result, purgeWork, toasted>>

PurgeFails(c) ==
    /\ purgeWork[c].pc \in {"sent", "done"}
    /\ purgeWork' = [purgeWork EXCEPT ![c].pc = "failed"]
    /\ UNCHANGED <<externalVars, submitted, formVars, previewFailed, result, toasted>>

PollHistory ==
    /\ historyData.get = "none"
    /\ historyData' = Revalidate(historyData, "poll")
    /\ UNCHANGED <<purges, submitted, formVars, previewFailed, result, purgeWork, toasted>>

\* LPUSH and LTRIM, then LRANGE.
PurgeHistory == {n \in DOMAIN purges : n > Len(purges) - PurgeCap}

ReadHistory ==
    /\ historyData.get = "asked"
    /\ historyData' = Answered(historyData, PurgeHistory)
    /\ UNCHANGED <<purges, submitted, formVars, previewFailed, result, purgeWork, toasted>>

HistoryArrives ==
    /\ historyData.get = "answered"
    /\ historyData' = Arrived(historyData)
    /\ purgeWork' = IF historyData.by = "poll" THEN purgeWork
                    ELSE [purgeWork EXCEPT ![historyData.by].listed = TRUE]
    /\ UNCHANGED <<purges, submitted, formVars, previewFailed, result, toasted>>

HistoryLost ==
    /\ historyData.get # "none"
    /\ historyData' = Forgotten(historyData)
    /\ UNCHANGED <<purges, submitted, formVars, previewFailed, result, purgeWork, toasted>>

CdnPageNext ==
    \/ \E t \in PurgeTypes : SetPurgeType(t) \/ PurgeElsewhere(t)
    \/ CancelPurgeAll \/ PreviewEdited \/ PreviewFails
    \/ \E c \in PurgeCalls :
        \/ handlePurgeSubmit(c) \/ PurgeEverything(c)
        \/ PurgeMade(c) \/ PurgeFails(c) \/ PurgeAnswered(c) \/ PurgeEnds(c)
    \/ PollHistory \/ ReadHistory \/ HistoryArrives \/ HistoryLost

CdnPageSpec == CdnPageInit /\ [][CdnPageNext]_purgeVars
-----------------------------------------------------------------------------
\* A purge that was reported, and the history fetched for it, stays in the
\* history the page shows until it shows as many newer ones as the history
\* keeps: no GET that was under way takes it out again.
PurgesStayListed ==
    \A n \in toasted :
        n \in historyData.rows \/ \E m \in historyData.rows : m >= n + PurgeCap
=============================================================================
