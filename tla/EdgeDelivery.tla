---------------------------- MODULE EdgeDelivery ----------------------------
(***************************************************************************)
(* One CDN path through two caches: the gateway's CdnCacheMiddleware and   *)
(* CdnRoute (entry gw:cdn:..., GwTtl) and the Go edge server behind it     *)
(* (entry edge:..., EdgeTtl, and a file on disk), with the storage service *)
(* as the origin.                                                          *)
(*                                                                         *)
(* A body is a file or an error, which the caches treat alike, with the    *)
(* time since it was made; TTLs count down as ages count up.  Neither      *)
(* cache waits for its writes.  A request, or a write, lasts at most over  *)
(* one tick of the clock.                                                  *)
(***************************************************************************)
EXTENDS Integers

CONSTANTS
    Fetches,        \* requests that may be in flight together
    GwTtl, EdgeTtl, \* 60 s and 3600 s
    KeyQuery,       \* the query string in the edge's key
    PurgeTargets    \* bucket and bucket/key, of the purges of the path

ASSUME EdgeAssumption == GwTtl \in Nat \ {0} /\ EdgeTtl \in Nat \ {0}

VARIABLES
    gwCache,   \* the gateway's entry in Redis
    edgeRedis, \* L1, the edge's entry in Redis
    edgeDisk,  \* L2, the file on disk
    fetch,     \* the requests in flight
    gwWrite,   \* SETEX of the gateway, one at most for each request
    edgeWrite  \* the goroutine that stores an answer, likewise

edgeVars == <<gwCache, edgeRedis, edgeDisk, fetch, gwWrite, edgeWrite>>

\* An answer: its body, the max-age that its header Cache-Control promises (0
\* without one), and whether that is of a younger entry than the body.
NoAnswer == [kind |-> "none", age |-> 0, maxAge |-> 0, mixed |-> FALSE]
Made(maxAge) == [kind |-> "body", age |-> 0, maxAge |-> maxAge, mixed |-> FALSE]
MaxAge == GwTtl + EdgeTtl + 4
AnswerSet == [kind : {"none", "body"}, age : 0..MaxAge, maxAge : 0..EdgeTtl, mixed : BOOLEAN]

\* What the edge's levels give back: the body without a header.
Body(answer) == [answer EXCEPT !.maxAge = 0, !.mixed = FALSE]

Entry(answer, ttl) == [answer |-> answer, ttl |-> ttl]
NoEntry == Entry(NoAnswer, 0)

\* pc, whether the answer is to be kept by the gateway, and whether the clock
\* has moved since.
Flight(pc, keep, answer) == [pc |-> pc, keep |-> keep, answer |-> answer, old |-> FALSE]
Landed == Flight("idle", FALSE, NoAnswer)

EdgeTypeOK ==
    /\ gwCache \in [answer : AnswerSet, ttl : 0..GwTtl]
    /\ edgeRedis \in [answer : AnswerSet, ttl : 0..EdgeTtl]
    /\ edgeDisk \in [answer : AnswerSet, sinceCreated : 0..EdgeTtl + 1]
    /\ fetch \in [Fetches -> [pc : {"idle", "gwGet", "edgeGet", "edgeTtl", "diskGet", "originGet",
                                    "reply"},
                              keep : BOOLEAN, answer : AnswerSet, old : BOOLEAN]]
    /\ gwWrite \in [Fetches -> [pc : {"idle", "redis"}, keep : {FALSE},
                                answer : AnswerSet, old : BOOLEAN]]
    /\ edgeWrite \in [Fetches -> [pc : {"idle", "redisOnly", "redis", "disk"}, keep : {FALSE},
                                  answer : AnswerSet, old : BOOLEAN]]

\* SetOnDisk stores an entry whose CreatedAt nobody has set: the year 1.
OnDisk(answer) == [answer |-> answer, sinceCreated |-> EdgeTtl + 1]

EdgeInit ==
    /\ gwCache = NoEntry /\ edgeRedis = NoEntry /\ edgeDisk = OnDisk(NoAnswer)
    /\ fetch = [q \in Fetches |-> Landed]
    /\ gwWrite = [q \in Fetches |-> Landed]
    /\ edgeWrite = [q \in Fetches |-> Landed]

FlyOn(q, pc) == fetch' = [fetch EXCEPT ![q].pc = pc]
CarryTo(q, pc, answer) == fetch' = [fetch EXCEPT ![q].pc = pc, ![q].answer = answer]
Carry(q, answer) == CarryTo(q, "reply", answer)
Land(q) == fetch' = [fetch EXCEPT ![q] = Landed]
-----------------------------------------------------------------------------
(* The gateway.                                                             *)

\* A GET looks into the gateway's cache; a HEAD, and a GET whose lookup
\* fails, goes on without it.
Ask(q) ==
    /\ fetch[q].pc = "idle" /\ gwWrite[q].pc = "idle" /\ edgeWrite[q].pc = "idle"
    /\ \/ fetch' = [fetch EXCEPT ![q] = Flight("gwGet", TRUE, NoAnswer)]
       \/ fetch' = [fetch EXCEPT ![q] = Flight("edgeGet", FALSE, NoAnswer)]
    /\ UNCHANGED <<gwCache, edgeRedis, edgeDisk, gwWrite, edgeWrite>>

\* A hit is answered with the stored headers and body, as a 200.
GwGet(q) ==
    /\ fetch[q].pc = "gwGet"
    /\ IF gwCache.ttl > 0 THEN Land(q) ELSE FlyOn(q, "edgeGet")
    /\ UNCHANGED <<gwCache, edgeRedis, edgeDisk, gwWrite, edgeWrite>>

\* CdnRoute copies the headers and the body, not the status: the client gets
\* a 200, which res.end sends to Redis without waiting.
Reply(q) ==
    /\ fetch[q].pc = "reply"
    /\ gwWrite' = IF fetch[q].keep
                  THEN [gwWrite EXCEPT ![q] = Flight("redis", FALSE, fetch[q].answer)]
                  ELSE gwWrite
    /\ Land(q)
    /\ UNCHANGED <<gwCache, edgeRedis, edgeDisk, edgeWrite>>

GwStore(q) ==
    /\ gwWrite[q].pc = "redis"
    /\ gwCache' = Entry(gwWrite[q].answer, GwTtl)
    /\ gwWrite' = [gwWrite EXCEPT ![q] = Landed]
    /\ UNCHANGED <<edgeRedis, edgeDisk, fetch, edgeWrite>>
-----------------------------------------------------------------------------
(* The edge server.                                                         *)

\* GET takes the body; a miss, or an error, goes on to L2.
EdgeGet(q) ==
    /\ fetch[q].pc = "edgeGet"
    /\ \/ edgeRedis.ttl > 0 /\ CarryTo(q, "edgeTtl", Body(edgeRedis.answer))
       \/ FlyOn(q, "diskGet")
    /\ UNCHANGED <<gwCache, edgeRedis, edgeDisk, gwWrite, edgeWrite>>

\* TTL, a command of its own, gives the max-age the body is served with: that
\* of the entry there is now, or 0 without one and when the command fails.
EdgeGetTtl(q) ==
    /\ fetch[q].pc = "edgeTtl"
    /\ \E left \in {edgeRedis.ttl, 0} :
         Carry(q, [fetch[q].answer EXCEPT
                     !.maxAge = left,
                     !.mixed = left > 0 /\ edgeRedis.answer.age < fetch[q].answer.age])
    /\ UNCHANGED <<gwCache, edgeRedis, edgeDisk, gwWrite, edgeWrite>>

\* Mutant: the age of the file is not checked.
DiskFreshUnchecked == edgeDisk.answer.kind # "none"

DiskFresh == edgeDisk.answer.kind # "none" /\ edgeDisk.sinceCreated <= EdgeTtl

\* A fresh file is served, without a max-age, and put into L1 for a whole
\* EdgeTtl; one that has expired is removed.
DiskGet(q) ==
    /\ fetch[q].pc = "diskGet"
    /\ IF DiskFresh
       THEN /\ Carry(q, Body(edgeDisk.answer))
            /\ edgeWrite' = [edgeWrite EXCEPT ![q] = Flight("redisOnly", FALSE, edgeDisk.answer)]
            /\ UNCHANGED edgeDisk
       ELSE /\ FlyOn(q, "originGet")
            /\ edgeDisk' = OnDisk(NoAnswer)
            /\ UNCHANGED edgeWrite
    /\ UNCHANGED <<gwCache, edgeRedis, gwWrite>>

\* The origin's answer, whatever its status, is passed on and stored.
OriginGet(q) ==
    /\ fetch[q].pc = "originGet"
    /\ Carry(q, Made(EdgeTtl))
    /\ edgeWrite' = [edgeWrite EXCEPT ![q] = Flight("redis", FALSE, Made(EdgeTtl))]
    /\ UNCHANGED <<gwCache, edgeRedis, edgeDisk, gwWrite>>

\* The request for it, or reading its answer, fails: the edge makes an error of
\* its own, without a max-age, and stores nothing.
OriginFails(q) ==
    /\ fetch[q].pc = "originGet"
    /\ Carry(q, Made(0))
    /\ UNCHANGED <<gwCache, edgeRedis, edgeDisk, gwWrite, edgeWrite>>

\* The goroutine: SetInRedis, whose error nobody reads, then, of an answer of
\* the origin, SetOnDisk.
EdgeStore(q) ==
    /\ edgeWrite[q].pc \in {"redis", "redisOnly"}
    /\ edgeRedis' \in {Entry(edgeWrite[q].answer, EdgeTtl), edgeRedis}
    /\ edgeWrite' = IF edgeWrite[q].pc = "redis" THEN [edgeWrite EXCEPT ![q].pc = "disk"]
                    ELSE [edgeWrite EXCEPT ![q] = Landed]
    /\ UNCHANGED <<gwCache, edgeDisk, fetch, gwWrite>>

EdgeStoreDisk(q) ==
    /\ edgeWrite[q].pc = "disk"
    /\ edgeDisk' = OnDisk(edgeWrite[q].answer)
    /\ edgeWrite' = [edgeWrite EXCEPT ![q] = Landed]
    /\ UNCHANGED <<gwCache, edgeRedis, fetch, gwWrite>>

\* A purge of the path: its pattern edge:*:<target> ends with the bucket (and
\* key) where the entry's key ends with its query string.  Purge leaves the
\* disk alone.
EdgePurge(target) ==
    /\ edgeRedis' = IF KeyQuery = target THEN NoEntry ELSE edgeRedis
    /\ UNCHANGED <<gwCache, edgeDisk, fetch, gwWrite, edgeWrite>>
-----------------------------------------------------------------------------
\* The call from the gateway to the edge fails, or a process dies: the client
\* gets a 502, which the gateway does not keep, or nothing, and what was to be
\* written is not.
EdgeFetchFails(q) ==
    /\ fetch[q].pc # "idle"
    /\ Land(q)
    /\ UNCHANGED <<gwCache, edgeRedis, edgeDisk, gwWrite, edgeWrite>>

WriteFails(q) ==
    /\ gwWrite[q].pc # "idle" \/ edgeWrite[q].pc # "idle"
    /\ gwWrite' = [gwWrite EXCEPT ![q] = Landed]
    /\ edgeWrite' = [edgeWrite EXCEPT ![q] = Landed]
    /\ UNCHANGED <<gwCache, edgeRedis, edgeDisk, fetch>>

Older(answer) ==
    IF answer.kind = "none" \/ answer.age = MaxAge THEN answer
    ELSE [answer EXCEPT !.age = @ + 1]
Aged(entry) ==
    IF entry.ttl <= 1 THEN NoEntry ELSE Entry(Older(entry.answer), entry.ttl - 1)
Wait(flights) ==
    [q \in Fetches |->
        IF flights[q].pc = "idle" THEN flights[q]
        ELSE [flights[q] EXCEPT !.answer = Older(@), !.old = TRUE]]

\* One tick; an entry whose TTL has run out is gone.
EdgeTick ==
    /\ \A q \in Fetches : ~fetch[q].old /\ ~gwWrite[q].old /\ ~edgeWrite[q].old
    /\ gwCache' = Aged(gwCache)
    /\ edgeRedis' = Aged(edgeRedis)
    /\ edgeDisk' = [edgeDisk EXCEPT !.answer = Older(@)]
    /\ fetch' = Wait(fetch) /\ gwWrite' = Wait(gwWrite) /\ edgeWrite' = Wait(edgeWrite)

EdgeNext ==
    \/ \E q \in Fetches :
        \/ Ask(q) \/ GwGet(q) \/ Reply(q) \/ GwStore(q)
        \/ EdgeGet(q) \/ EdgeGetTtl(q) \/ DiskGet(q) \/ OriginGet(q) \/ OriginFails(q)
        \/ EdgeStore(q) \/ EdgeStoreDisk(q)
        \/ EdgeFetchFails(q) \/ WriteFails(q)
    \/ \E target \in PurgeTargets : EdgePurge(target)
    \/ EdgeTick

EdgeSpec == EdgeInit /\ [][EdgeNext]_edgeVars
-----------------------------------------------------------------------------
\* Whatever the interleaving of fills, hits and failing writes, nothing that a
\* cache holds or a client gets is older than the two TTLs together and the
\* time on the way: no level refills another with what that one has had, so
\* that an error of the origin is not served for ever.  Nor does a client that
\* relies on max-age use an answer longer than that plus the gateway's TTL, for
\* which the gateway repeats the max-age it has stored - but for one race: GET
\* and TTL are two commands, and a body whose entry was replaced between them
\* is served with what its successor has left, up to the edge's TTL once more.
BoundedStaleness ==
    /\ edgeRedis.answer.age <= EdgeTtl
    /\ LET a == gwCache.answer IN
         /\ a.age <= EdgeTtl + GwTtl + 1
         /\ a.age + a.maxAge <= IF a.mixed THEN 2 * EdgeTtl + GwTtl + 1 ELSE EdgeTtl + GwTtl + 2
    /\ \A q \in Fetches :
         LET a == fetch[q].answer IN
         /\ a.age <= EdgeTtl + 1
         /\ a.age + a.maxAge <= IF a.mixed THEN 2 * EdgeTtl + 1 ELSE EdgeTtl + 2
=============================================================================
