---------------------------- MODULE EventPipeline ----------------------------
(***************************************************************************)
(* The way of a request event from the gateway into request_events:        *)
(* LoggingMiddleware and EventPublisherService hand it to the topic        *)
(* request.events; DlqService parks what could not be sent on              *)
(* request.events.dlq and sends it again; the analytics consumer collects  *)
(* a batch in memory and inserts it.                                       *)
(*                                                                         *)
(* Each awaited send or insert is one action, with one more for its        *)
(* failure.  Every topic has one partition.  The back-off is not timed:    *)
(* the worker sleeps at most ten seconds and resends whatever the back-off *)
(* asked for, so only the attempts are counted.                            *)
(***************************************************************************)
EXTENDS Integers, Sequences, SequencesExt, FiniteSets

CONSTANTS
    Events,       \* responses of the gateway whose path is logged
    BatchLimit,   \* events that make the consumer flush at once (1000)
    MaxRetries,   \* attempts after which the DLQ worker gives up (3)
    MaxFaults     \* bound: failed sends, connects and inserts, and restarts

ASSUME PipelineAssumption ==
    /\ {BatchLimit, MaxRetries} \subseteq Nat \ {0}
    /\ MaxFaults \in Nat

VARIABLES
    publish,  \* publishRequestEvent of each event
    log,      \* the topic request.events
    dlq,      \* the topic request.events.dlq
    dlqTopic, \* whether that topic exists; the first message sent to it makes it
    group,    \* where the two consumer groups read, and what they committed
    retry,    \* what the DLQ worker awaits for the entry it reads
    batch,    \* events collected in memory
    flushing, \* the batch being inserted; isProcessing while not empty
    blocked,  \* eachMessage awaits the flush it started
    stored,   \* rows of each event
    missed,   \* events written before a group without an offset joined
    faults    \* what has gone wrong so far

pipelineVars == <<publish, log, dlq, dlqTopic, group, retry, batch, flushing,
                  blocked, stored, missed, faults>>

Groups == {"analytics", "dlq"}
None == -1  \* not joined; nothing committed
Off  == -2  \* follows nothing until the process restarts

DlqEntry(e, a) == [event |-> e, attempt |-> a]
Reader(at, committed) == [at |-> at, committed |-> committed]
Readers == [at : Nat \cup {None, Off}, committed : Nat \cup {None}]
Entries == [event : Events, attempt : 0..MaxRetries]
FaultKinds == {"kafka", "db", "crash"}

PipelineTypeOK ==
    /\ publish \in [Events -> {"new", "sending", "parking", "done"}]
    /\ log \in Seq(Events)
    /\ dlq \in Seq(Entries)
    /\ dlqTopic \in BOOLEAN /\ (Len(dlq) > 0 => dlqTopic)
    /\ group \in [Groups -> Readers]
    /\ retry \in {"idle", "sending", "parking"}
    /\ batch \in Seq(Events)
    /\ flushing \in Seq(Events)
    /\ blocked \in BOOLEAN
    /\ stored \in [Events -> Nat]
    /\ missed \subseteq Events
    /\ faults \in [FaultKinds -> 0..MaxFaults]
    \* a consumer that waits for an insert waits for one that runs
    /\ blocked => flushing # <<>>

PipelineInit ==
    /\ publish = [e \in Events |-> "new"]
    /\ log = <<>>
    /\ dlq = <<>>
    /\ dlqTopic \in BOOLEAN
    /\ group = [g \in Groups |-> Reader(None, None)]
    /\ retry = "idle"
    /\ batch = <<>>
    /\ flushing = <<>>
    /\ blocked = FALSE
    /\ stored = [e \in Events |-> 0]
    /\ missed = {}
    /\ faults = [kind \in FaultKinds |-> 0]

Fault(kind) ==
    /\ faults["kafka"] + faults["db"] + faults["crash"] < MaxFaults
    /\ faults' = [faults EXCEPT ![kind] = @ + 1]

\* A send that failed may still have been written by the broker.
MaybeWritten(e) == log' \in {log, Append(log, e)}
-----------------------------------------------------------------------------
(* The gateway: LoggingMiddleware and EventPublisherService.                *)

\* The response finishes; publishRequestEvent is called and not awaited.
Finish(e) ==
    /\ publish[e] = "new"
    /\ publish' = [publish EXCEPT ![e] = "sending"]
    /\ UNCHANGED <<log, dlq, dlqTopic, group, retry, batch, flushing, blocked, stored, missed, faults>>

Send(e) ==
    /\ publish[e] = "sending"
    /\ publish' = [publish EXCEPT ![e] = "done"]
    /\ log' = Append(log, e)
    /\ UNCHANGED <<dlq, dlqTopic, group, retry, batch, flushing, blocked, stored, missed, faults>>

\* Mutant: a failed send is logged and not handed to the DLQ.
SendFailsForgotten(e) ==
    /\ publish[e] = "sending"
    /\ Fault("kafka")
    /\ publish' = [publish EXCEPT ![e] = "done"]
    /\ MaybeWritten(e)
    /\ UNCHANGED <<dlq, dlqTopic, group, retry, batch, flushing, blocked, stored, missed>>

SendFails(e) ==
    /\ publish[e] = "sending"
    /\ Fault("kafka")
    /\ publish' = [publish EXCEPT ![e] = "parking"]
    /\ MaybeWritten(e)
    /\ UNCHANGED <<dlq, dlqTopic, group, retry, batch, flushing, blocked, stored, missed>>

\* publishToDlq with attempt 0; its failure is only logged.
Park(e) ==
    /\ publish[e] = "parking"
    /\ publish' = [publish EXCEPT ![e] = "done"]
    /\ \/ dlq' = Append(dlq, DlqEntry(e, 0)) /\ dlqTopic' = TRUE /\ UNCHANGED faults
       \/ Fault("kafka") /\ dlqTopic' \in {dlqTopic, TRUE} /\ UNCHANGED dlq
    /\ UNCHANGED <<log, group, retry, batch, flushing, blocked, stored, missed>>
-----------------------------------------------------------------------------
(* The DLQ worker: DlqService.subscribeAndRetry.                            *)

Reading(g, topic) == group[g].at >= 0 /\ group[g].at < Len(topic)
Advanced(g) == [group EXCEPT ![g].at = @ + 1]
Current == dlq[group["dlq"].at + 1]

\* Gives up on an entry or, after its sleep, sends it again.
TakeEntry ==
    /\ retry = "idle"
    /\ Reading("dlq", dlq)
    /\ IF Current.attempt >= MaxRetries
       THEN group' = Advanced("dlq") /\ UNCHANGED retry
       ELSE retry' = "sending" /\ UNCHANGED group
    /\ UNCHANGED <<publish, log, dlq, dlqTopic, batch, flushing, blocked, stored, missed, faults>>

Resend ==
    /\ retry = "sending"
    /\ \/ /\ log' = Append(log, Current.event)
          /\ retry' = "idle"
          /\ group' = Advanced("dlq")
          /\ UNCHANGED faults
       \/ /\ Fault("kafka")
          /\ MaybeWritten(Current.event)
          /\ retry' = "parking"
          /\ UNCHANGED group
    /\ UNCHANGED <<publish, dlq, dlqTopic, batch, flushing, blocked, stored, missed>>

\* publishToDlq with the next attempt; its failure is only logged.
Repark ==
    /\ retry = "parking"
    /\ retry' = "idle"
    /\ group' = Advanced("dlq")
    /\ \/ dlq' = Append(dlq, DlqEntry(Current.event, Current.attempt + 1)) /\ UNCHANGED faults
       \/ Fault("kafka") /\ UNCHANGED dlq
    /\ UNCHANGED <<publish, log, dlqTopic, batch, flushing, blocked, stored, missed>>

\* Sends in flight are lost with the process; the worker joins anew.
GatewayCrash ==
    /\ Fault("crash")
    /\ publish' = [e \in Events |-> IF publish[e] = "new" THEN "new" ELSE "done"]
    /\ retry' = "idle"
    /\ group' = [group EXCEPT !["dlq"].at = None]
    /\ UNCHANGED <<log, dlq, dlqTopic, batch, flushing, blocked, stored, missed>>
-----------------------------------------------------------------------------
(* Both groups: subscribing with fromBeginning false, and autoCommit.       *)

Written(g) == IF g = "dlq" THEN {dlq[i].event : i \in DOMAIN dlq} ELSE ToSet(log)
End(g) == IF g = "dlq" THEN Len(dlq) ELSE Len(log)

\* A group without a committed offset starts at the end of its topic.  The DLQ
\* worker's pattern is matched against the topics there are when it subscribes:
\* without request.events.dlq it follows nothing until the process restarts.
Join(g) ==
    /\ group[g].at = None
    /\ IF g = "dlq" /\ ~dlqTopic
       THEN group' = [group EXCEPT ![g].at = Off] /\ UNCHANGED missed
       ELSE IF group[g].committed = None
       THEN /\ group' = [group EXCEPT ![g].at = End(g)]
            /\ missed' = missed \cup Written(g)
       ELSE /\ group' = [group EXCEPT ![g].at = group[g].committed]
            /\ UNCHANGED missed
    /\ UNCHANGED <<publish, log, dlq, dlqTopic, retry, batch, flushing, blocked, stored, faults>>

\* connect() rejects: logged, and not tried again in this process.
JoinFails(g) ==
    /\ group[g].at = None
    /\ Fault("kafka")
    /\ group' = [group EXCEPT ![g].at = Off]
    /\ UNCHANGED <<publish, log, dlq, dlqTopic, retry, batch, flushing, blocked, stored, missed>>

\* The offset of a message is committed only after its eachMessage ended.
Resolved(g) == IF g = "analytics" /\ blocked THEN group[g].at - 1 ELSE group[g].at

Commit(g) ==
    /\ group[g].at >= 0
    /\ Resolved(g) # group[g].committed
    /\ group' = [group EXCEPT ![g].committed = Resolved(g)]
    /\ UNCHANGED <<publish, log, dlq, dlqTopic, retry, batch, flushing, blocked, stored, missed, faults>>
-----------------------------------------------------------------------------
(* The analytics service: KafkaConsumerService and ingestEventBatch.        *)

\* A message joins the batch; a full batch is flushed before the next one,
\* unless a flush is running already.
Consume ==
    /\ ~blocked
    /\ Reading("analytics", log)
    /\ group' = Advanced("analytics")
    /\ LET b == Append(batch, log[group["analytics"].at + 1])
       IN  IF Len(b) >= BatchLimit /\ flushing = <<>>
           THEN flushing' = b /\ batch' = <<>> /\ blocked' = TRUE
           ELSE batch' = b /\ UNCHANGED <<flushing, blocked>>
    /\ UNCHANGED <<publish, log, dlq, dlqTopic, retry, stored, missed, faults>>

\* Mutant: flushBatch waits for a full batch.
FlushTimerFull ==
    /\ Len(batch) >= BatchLimit /\ flushing = <<>>
    /\ flushing' = batch
    /\ batch' = <<>>
    /\ UNCHANGED <<publish, log, dlq, dlqTopic, group, retry, blocked, stored, missed, faults>>

\* The 500 ms timer.
FlushTimer ==
    /\ batch # <<>> /\ flushing = <<>>
    /\ flushing' = batch
    /\ batch' = <<>>
    /\ UNCHANGED <<publish, log, dlq, dlqTopic, group, retry, blocked, stored, missed, faults>>

Count(e, s) == Cardinality({i \in DOMAIN s : s[i] = e})

\* Mutant: the eachMessage that awaits the insert is never told.
IngestSilent ==
    /\ flushing # <<>>
    /\ stored' = [e \in Events |-> stored[e] + Count(e, flushing)]
    /\ flushing' = <<>>
    /\ UNCHANGED <<publish, log, dlq, dlqTopic, group, retry, batch, blocked, missed, faults>>

Ingest ==
    /\ flushing # <<>>
    /\ stored' = [e \in Events |-> stored[e] + Count(e, flushing)]
    /\ flushing' = <<>>
    /\ blocked' = FALSE
    /\ UNCHANGED <<publish, log, dlq, dlqTopic, group, retry, batch, missed, faults>>

\* ingestEventBatch catches the error and drops the batch.
IngestFails ==
    /\ flushing # <<>>
    /\ Fault("db")
    /\ flushing' = <<>>
    /\ blocked' = FALSE
    /\ UNCHANGED <<publish, log, dlq, dlqTopic, group, retry, batch, stored, missed>>

\* No service enables shutdown hooks, so a stop is a crash as well.
AnalyticsCrash ==
    /\ Fault("crash")
    /\ batch' = <<>>
    /\ flushing' = <<>>
    /\ blocked' = FALSE
    /\ group' = [group EXCEPT !["analytics"].at = None]
    /\ UNCHANGED <<publish, log, dlq, dlqTopic, retry, stored, missed>>
-----------------------------------------------------------------------------
PipelineNext ==
    \/ \E e \in Events : Finish(e) \/ Send(e) \/ SendFails(e) \/ Park(e)
    \/ TakeEntry \/ Resend \/ Repark
    \/ \E g \in Groups : Join(g) \/ JoinFails(g) \/ Commit(g)
    \/ Consume \/ FlushTimer \/ Ingest \/ IngestFails
    \/ GatewayCrash \/ AnalyticsCrash

\* Promises settle, timers fire, a running consumer polls and commits.
PipelineFairness ==
    /\ \A e \in Events : WF_pipelineVars(Send(e) \/ SendFails(e) \/ Park(e))
    /\ WF_pipelineVars(TakeEntry \/ Resend \/ Repark)
    /\ \A g \in Groups : WF_pipelineVars(Join(g) \/ JoinFails(g)) /\ WF_pipelineVars(Commit(g))
    /\ WF_pipelineVars(Consume)
    /\ WF_pipelineVars(FlushTimer)
    /\ WF_pipelineVars(Ingest \/ IngestFails)

PipelineSpec == PipelineInit /\ [][PipelineNext]_pipelineVars /\ PipelineFairness
-----------------------------------------------------------------------------
(* The refinement.                                                          *)

\* The first position a group may still read, now or after a restart.
NoOffset(g) == group[g].at < 0 /\ group[g].committed = None
Low(g) == IF NoOffset(g) THEN End(g)
          ELSE IF group[g].at < 0 THEN group[g].committed
          ELSE IF group[g].committed = None \/ group[g].at < group[g].committed
          THEN group[g].at ELSE group[g].committed
CarriedBy(g, e) ==
    IF g = "dlq" THEN \E i \in DOMAIN dlq : i > Low(g) /\ dlq[i].event = e
                 ELSE \E i \in DOMAIN log : i > Low(g) /\ log[i] = e
InMemory(e) == \/ publish[e] \in {"sending", "parking"}
               \/ e \in ToSet(batch) \cup ToSet(flushing)

StatusOf(e) ==
    LET carriers == {g \in Groups : CarriedBy(g, e)} IN
    IF stored[e] > 0 THEN "stored"
    ELSE IF publish[e] = "new" THEN "unsent"
    ELSE IF InMemory(e) \/ \E g \in carriers : group[g].at # Off THEN "travelling"
    ELSE IF carriers # {} THEN "stranded" ELSE "lost"

Delivery == INSTANCE EventDelivery WITH status <- [e \in Events |-> StatusOf(e)]

\* Through every send, retry, batch and restart each event keeps to the life
\* EventDelivery describes: in particular none travels for ever (a flush that
\* fails frees the next one, a DLQ entry is retried a bounded number of times).
ImplementsDelivery == Delivery!DeliverySpec

\* What becomes of an event has a cause.  It is lost only after a restart, a
\* failed insert (the batch is dropped), two failures of Kafka, or because a
\* consumer group had no offset yet: once the DLQ's group has one, a failed send
\* is survived.  The first that the DLQ ever takes is not, if the worker
\* subscribed before there was the topic, and no property says otherwise.
\* It is stored twice only if a failed send had been written after all, or a
\* restart made a consumer read again.
OutcomesHaveCauses ==
    \A e \in Events :
        /\ StatusOf(e) = "lost" =>
            \/ e \in missed \/ \E g \in Groups : NoOffset(g) /\ e \in Written(g)
            \/ faults["db"] > 0 \/ faults["crash"] > 0 \/ faults["kafka"] > 1
        /\ stored[e] > 1 => faults["kafka"] > 0 \/ faults["crash"] > 0
=============================================================================
