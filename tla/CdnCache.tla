------------------------------ MODULE CdnCache ------------------------------
(***************************************************************************)
(* The CDN's two cache levels and their invalidation: serveFile and the    *)
(* invalidation subscriber of the CDN nodes (apps/cdn-service), the shared *)
(* Redis, and the purges of the nodes' own API and of the cache service    *)
(* (apps/cache-service).                                                   *)
(*                                                                         *)
(* File contents are abstracted to version numbers of an object, image     *)
(* transforms to one variant per object.  Every awaited command is an      *)
(* action; a request answered from memory changes nothing and is no step.  *)
(***************************************************************************)
EXTENDS Integers, Sequences, FiniteSets

CONSTANTS
    Nodes,      \* CDN processes
    Regions,    \* values of EDGE_REGION
    RegionOf,   \* EDGE_REGION of each node
    Buckets, Keys,
    Requests,   \* requests that may be in flight together
    Purgers,    \* purge calls that may be in flight together
    MaxVersion, \* bound: uploads of one object
    HistoryLimit, \* purge:history is trimmed to so many records
    MaxInbox    \* bound: pub/sub messages on their way to one node

ASSUME RegionAssumption  == RegionOf \in [Nodes -> Regions]
ASSUME VersionAssumption == MaxVersion \in Nat
ASSUME InboxAssumption   == MaxInbox \in Nat
ASSUME HistoryAssumption == HistoryLimit \in Nat \ {0}
ASSUME NonEmptyAssumption == Nodes # {} /\ Buckets # {} /\ Keys # {}

Objects == Buckets \X Keys

VARIABLES
    origin,   \* the version the storage service serves, 0 if none
    last,     \* the last version uploaded
    redis,    \* Redis entry of a region's cache key: a version, 0 if none
    memory,   \* memoryCache of each node: a version, 0 if none
    inbox,    \* cache:invalidate messages sent to each node, not yet handled
    req,      \* requests in flight in serveFile
    purge,    \* purge calls in flight
    history   \* length of the list purge:history

vars == <<origin, last, redis, memory, inbox, req, purge, history>>

Versions == 0..MaxVersion

\* A serveFile call; pc names the command it awaits.
Pc == {"idle", "redisGet", "getTtl", "fetch", "redisSet", "memorySet"}
Request == [pc : Pc, node : Nodes, object : Objects, version : Versions]
At(pc, n, o, v) == [pc |-> pc, node |-> n, object |-> o, version |-> v]
Idle == At("idle", CHOOSE n \in Nodes : TRUE, CHOOSE o \in Objects : TRUE, 0)
-----------------------------------------------------------------------------
(* Redis keys and SCAN patterns, as sequences of their ':'-separated parts. *)

\* The key serveFile builds, and the one it has in Redis: ioredis puts its
\* keyPrefix in front of the keys of GET and SETEX.
CacheKey(g, o) == <<"cdn", g, o[1], o[2], "{}">>
PhysicalKey(g, o) == <<"edgesphere">> \o CacheKey(g, o)

\* What SCAN matches: `head' are the parts before the first star, `mid' the
\* parts between the stars, none if the only star ends the pattern.  ioredis
\* does not put the keyPrefix in front of a pattern.
Matches(pattern, key) ==
    LET h == Len(pattern.head)
        m == Len(pattern.mid)
    IN
    /\ Len(key) > h + m
    /\ \A i \in 1..h : key[i] = pattern.head[i]
    /\ \/ m = 0
       \/ \E i \in h + 1 .. Len(key) - m - 1 :
            \A j \in 1..m : key[i + j] = pattern.mid[j]

\* A purge call: its pattern, the bucket and the key its message names, and what
\* it does after the scan.
Purge(mid, event, after) ==
    [pattern |-> [head |-> <<"cdn">>, mid |-> mid], event |-> event, after |-> after]

\* POST /cache/purge and DELETE /cache/flush/:region of a CDN node.
NodePurge ==
    {Purge(<<o[1], o[2]>>, <<o[1], o[2]>>, {"publish"}) : o \in Objects} \cup
    {Purge(<<b>>, <<b>>, {"publish"}) : b \in Buckets}
FlushRegion ==
    {[pattern |-> [head |-> <<"cdn", g>>, mid |-> <<>>], event |-> <<>>,
      after |-> {}] : g \in Regions}

\* purge, purgeBucket, purgePrefix (of a whole key) and purgeAll of the cache
\* service, which writes "bucket/key" as one part.
ServicePurge ==
    {Purge(<<o>>, <<o[1], o[2]>>, {"publish", "log"}) : o \in Objects}
ServicePurgeBucket ==
    {Purge(<<b>>, <<b>>, {"publish", "log"}) : b \in Buckets}
ServicePurgePrefix ==
    {Purge(<<o>>, <<o[1]>>, {"publish", "log"}) : o \in Objects}
ServicePurgeAll == {Purge(<<>>, <<>>, {"publish", "log"})}

PurgeCalls == NodePurge \cup FlushRegion \cup ServicePurge \cup ServicePurgeBucket
                 \cup ServicePurgePrefix \cup ServicePurgeAll
Event == {c.event : c \in PurgeCalls}

NoPurge == Purge(<<>>, <<>>, {})
PurgeState == [pc : {"idle", "scan", "publish", "log"},
               call : PurgeCalls \cup {NoPurge}, todo : SUBSET (Regions \X Objects)]
PurgeAt(pc, call, todo) == [pc |-> pc, call |-> call, todo |-> todo]
PurgeIdle == PurgeAt("idle", NoPurge, {})

TypeOK ==
    /\ origin \in [Objects -> Versions]
    /\ last \in [Objects -> Versions]
    /\ redis \in [Regions -> [Objects -> Versions]]
    /\ memory \in [Nodes -> [Objects -> Versions]]
    /\ inbox \in [Nodes -> Seq(Event)]
    /\ req \in [Requests -> Request]
    /\ purge \in [Purgers -> PurgeState]
    /\ history \in 0..HistoryLimit

Init ==
    /\ origin = [o \in Objects |-> 0]
    /\ last = [o \in Objects |-> 0]
    /\ redis = [g \in Regions |-> [o \in Objects |-> 0]]
    /\ memory = [n \in Nodes |-> [o \in Objects |-> 0]]
    /\ inbox = [n \in Nodes |-> <<>>]
    /\ req = [r \in Requests |-> Idle]
    /\ purge = [p \in Purgers |-> PurgeIdle]
    /\ history = 0
-----------------------------------------------------------------------------
(* serveFile.                                                               *)

Goto(r, pc, v) == req' = [req EXCEPT ![r] = At(pc, req[r].node, req[r].object, v)]
Done(r) == req' = [req EXCEPT ![r] = Idle]

\* A miss in memory; a hit returns at once.
Serve(r, n, o) ==
    /\ req[r].pc = "idle"
    /\ memory[n][o] = 0
    /\ req' = [req EXCEPT ![r] = At("redisGet", n, o, 0)]
    /\ UNCHANGED <<origin, last, redis, memory, inbox, purge, history>>

\* Mutant: the cache key lacks the region.
CachedAnyRegion(r) ==
    LET o == req[r].object
        found == {redis[g][o] : g \in Regions} \ {0}
    IN  IF found = {} THEN 0 ELSE CHOOSE v \in found : \A w \in found : w <= v

Cached(r) == redis[RegionOf[req[r].node]][req[r].object]

\* Mutant: a hit in Redis writes the entry again to prolong its life.
RedisGetSliding(r) ==
    /\ req[r].pc = "redisGet"
    /\ IF Cached(r) # 0 THEN Goto(r, "redisSet", Cached(r)) ELSE Goto(r, "fetch", 0)
    /\ UNCHANGED <<origin, last, redis, memory, inbox, purge, history>>

\* GET; a hit reads the TTL before it stores the response in memory.
RedisGet(r) ==
    /\ req[r].pc = "redisGet"
    /\ IF Cached(r) # 0 THEN Goto(r, "getTtl", Cached(r)) ELSE Goto(r, "fetch", 0)
    /\ UNCHANGED <<origin, last, redis, memory, inbox, purge, history>>

\* The catch around the entry's parsing and its TTL: on to the origin.
TtlFails(r) ==
    /\ req[r].pc = "getTtl"
    /\ Goto(r, "fetch", 0)
    /\ UNCHANGED <<origin, last, redis, memory, inbox, purge, history>>

\* Mutant: an answer other than 2xx is cached as one more version of the file.
FetchAnyStatus(r) ==
    LET v == origin[req[r].object] IN
    /\ req[r].pc = "fetch"
    /\ Goto(r, "redisSet", IF v # 0 THEN v ELSE MaxVersion + 1)
    /\ UNCHANGED <<origin, last, redis, memory, inbox, purge, history>>

\* The storage service answers; an answer other than 2xx throws.
Fetch(r) ==
    LET v == origin[req[r].object] IN
    /\ req[r].pc = "fetch"
    /\ IF v # 0 THEN Goto(r, "redisSet", v) ELSE Done(r)
    /\ UNCHANGED <<origin, last, redis, memory, inbox, purge, history>>

\* Transform, read the configured TTL, SETEX.
RedisSet(r) ==
    LET v == req[r].version IN
    /\ req[r].pc = "redisSet"
    /\ redis' = [redis EXCEPT ![RegionOf[req[r].node]][req[r].object] = v]
    /\ Goto(r, "memorySet", v)
    /\ UNCHANGED <<origin, last, memory, inbox, purge, history>>

MemorySet(r) ==
    /\ req[r].pc \in {"getTtl", "memorySet"}
    /\ memory' = [memory EXCEPT ![req[r].node][req[r].object] = req[r].version]
    /\ Done(r)
    /\ UNCHANGED <<origin, last, redis, inbox, purge, history>>

\* A Redis command or the fetch rejects, or the image transform throws.
Fail(r) ==
    /\ req[r].pc \in {"redisGet", "fetch", "redisSet", "memorySet"}
    /\ Done(r)
    /\ UNCHANGED <<origin, last, redis, memory, inbox, purge, history>>
-----------------------------------------------------------------------------
(* Purges: SCAN and DEL page by page, PUBLISH, and the cache service's      *)
(* record in purge:history.  Each step may fail.                            *)

PurgeBegin(p, call) ==
    /\ purge[p].pc = "idle"
    /\ purge' = [purge EXCEPT ![p] = PurgeAt("scan", call, Regions \X Objects)]
    /\ UNCHANGED <<origin, last, redis, memory, inbox, req, history>>

\* One page of SCAN and the DEL of the keys it returned.
PurgePage(p, page) ==
    LET call == purge[p].call
        todo == purge[p].todo \ page
        hit(g, o) == <<g, o>> \in page /\ Matches(call.pattern, PhysicalKey(g, o))
    IN
    /\ purge[p].pc = "scan"
    /\ page # {}
    /\ redis' = [g \in Regions |-> [o \in Objects |->
                    IF hit(g, o) THEN 0 ELSE redis[g][o]]]
    /\ purge' = [purge EXCEPT ![p] =
            IF todo # {} THEN PurgeAt("scan", call, todo)
            ELSE IF "publish" \in call.after THEN PurgeAt("publish", call, {})
            ELSE PurgeIdle]
    /\ UNCHANGED <<origin, last, memory, inbox, req, history>>

PurgePublish(p) ==
    /\ purge[p].pc = "publish"
    /\ \A n \in Nodes : Len(inbox[n]) < MaxInbox
    /\ inbox' = [n \in Nodes |-> Append(inbox[n], purge[p].call.event)]
    /\ purge' = [purge EXCEPT ![p] =
            IF "log" \in purge[p].call.after THEN PurgeAt("log", purge[p].call, {})
            ELSE PurgeIdle]
    /\ UNCHANGED <<origin, last, redis, memory, req, history>>

\* LPUSH and LTRIM in one pipeline.
PurgeLog(p) ==
    /\ purge[p].pc = "log"
    /\ history' = IF history < HistoryLimit THEN history + 1 ELSE history
    /\ purge' = [purge EXCEPT ![p] = PurgeIdle]
    /\ UNCHANGED <<origin, last, redis, memory, inbox, req>>

PurgeFail(p) ==
    /\ purge[p].pc # "idle"
    /\ purge' = [purge EXCEPT ![p] = PurgeIdle]
    /\ UNCHANGED <<origin, last, redis, memory, inbox, req, history>>

\* The objects the subscriber of onModuleInit drops for a message: those of
\* its key, else those of its bucket, else none.
Dropped(event) ==
    CASE Len(event) = 2 -> {event}
      [] Len(event) = 1 -> {event[1]} \X Keys
      [] OTHER -> {}

Deliver(n) ==
    /\ inbox[n] # <<>>
    /\ memory' = [memory EXCEPT ![n] = [o \in Objects |->
            IF o \in Dropped(Head(inbox[n])) THEN 0 ELSE memory[n][o]]]
    /\ inbox' = [inbox EXCEPT ![n] = Tail(inbox[n])]
    /\ UNCHANGED <<origin, last, redis, req, purge, history>>
-----------------------------------------------------------------------------
\* External: TTLs run out, and Redis forgets what it has for a lost subscriber.
RedisExpire(g, o) ==
    /\ redis[g][o] # 0
    /\ redis' = [redis EXCEPT ![g][o] = 0]
    /\ UNCHANGED <<origin, last, memory, inbox, req, purge, history>>

MemoryExpire(n, o) ==
    /\ memory[n][o] # 0
    /\ memory' = [memory EXCEPT ![n][o] = 0]
    /\ UNCHANGED <<origin, last, redis, inbox, req, purge, history>>

Disconnect(n) ==
    /\ inbox[n] # <<>>
    /\ inbox' = [inbox EXCEPT ![n] = <<>>]
    /\ UNCHANGED <<origin, last, redis, memory, req, purge, history>>

\* The process of a node is replaced: memory, subscription and requests go.
Restart(n) ==
    /\ memory' = [memory EXCEPT ![n] = [o \in Objects |-> 0]]
    /\ inbox' = [inbox EXCEPT ![n] = <<>>]
    /\ req' = [r \in Requests |-> IF req[r].node = n THEN Idle ELSE req[r]]
    /\ UNCHANGED <<origin, last, redis, purge, history>>

\* External: the storage service.  Nothing tells the caches about a change.
Upload(o) ==
    /\ last[o] < MaxVersion
    /\ last' = [last EXCEPT ![o] = last[o] + 1]
    /\ origin' = [origin EXCEPT ![o] = last[o] + 1]
    /\ UNCHANGED <<redis, memory, inbox, req, purge, history>>

Delete(o) ==
    /\ origin[o] # 0
    /\ origin' = [origin EXCEPT ![o] = 0]
    /\ UNCHANGED <<last, redis, memory, inbox, req, purge, history>>

Step(r) == RedisGet(r) \/ Fetch(r) \/ RedisSet(r) \/ MemorySet(r)

Next ==
    \/ \E r \in Requests :
        \/ Step(r) \/ TtlFails(r) \/ Fail(r)
        \/ \E n \in Nodes, o \in Objects : Serve(r, n, o)
    \/ \E p \in Purgers :
        \/ \E call \in PurgeCalls : PurgeBegin(p, call)
        \/ \E page \in SUBSET purge[p].todo : PurgePage(p, page)
        \/ PurgePublish(p) \/ PurgeLog(p) \/ PurgeFail(p)
    \/ \E n \in Nodes : Deliver(n) \/ Disconnect(n) \/ Restart(n)
    \/ \E g \in Regions, o \in Objects : RedisExpire(g, o)
    \/ \E n \in Nodes, o \in Objects : MemoryExpire(n, o)
    \/ \E o \in Objects : Upload(o) \/ Delete(o)

Spec == Init /\ [][Next]_vars

\* Node runs the continuation of a settled promise, and every entry has a TTL
\* (SETEX, stdTTL).
Fairness ==
    /\ \A r \in Requests : WF_vars(Step(r))
    /\ \A g \in Regions, o \in Objects : WF_vars(RedisExpire(g, o))
    /\ \A n \in Nodes, o \in Objects : WF_vars(MemoryExpire(n, o))

FairSpec == Spec /\ Fairness
-----------------------------------------------------------------------------
\* Region g still has version v of o: in Redis, in a node's memory, or in the
\* hands of a request that may yet store it.
Held(g, o, v) ==
    \/ redis[g][o] = v
    \/ \E n \in Nodes : RegionOf[n] = g /\ memory[n][o] = v
    \/ \E r \in Requests :
        /\ RegionOf[req[r].node] = g /\ req[r].object = o
        /\ req[r].pc \in {"getTtl", "redisSet", "memorySet"} /\ req[r].version = v

\* An outdated version of a file that has left a region (its Redis entry, the
\* memory of its nodes and the requests in flight) never comes back: whatever
\* requests, purges, restarts and expiries follow, no level of serveFile's
\* caches can refill another one with a version the origin no longer serves.
StaleNeverReturns ==
    [][\A g \in Regions, o \in Objects, v \in 1..MaxVersion :
        v # origin[o] /\ ~Held(g, o, v) => ~Held(g, o, v)']_vars

\* With no message about it at all, every cached copy of a file that stops
\* changing is in the end the origin's version or gone.
Convergence ==
    \A o \in Objects : <>[](
        /\ \A g \in Regions : redis[g][o] \in {0, origin[o]}
        /\ \A n \in Nodes : memory[n][o] \in {0, origin[o]})
=============================================================================
