--------------------------- MODULE CdnCacheProofs ---------------------------
(* What the CDN caches guarantee for any number of nodes, regions, objects, *)
(* requests and purges, and why no purge reaches Redis.                     *)
EXTENDS CdnCache, SequenceTheorems, TLAPS

USE RegionAssumption, VersionAssumption, InboxAssumption,
    HistoryAssumption

\* A request that has returned is of the declared type and holds no version.
LEMMA IdleType == Idle \in Request /\ Idle.pc = "idle"
  <1>1. (CHOOSE n \in Nodes : TRUE) \in Nodes
    BY NonEmptyAssumption
  <1>2. PICK b \in Buckets : TRUE
    BY NonEmptyAssumption
  <1>3. PICK k \in Keys : TRUE
    BY NonEmptyAssumption
  <1>4. <<b, k>> \in Objects
    BY DEF Objects
  <1>5. (CHOOSE o \in Objects : TRUE) \in Objects
    BY <1>4
  <1> QED
    BY <1>1, <1>5 DEF Idle, At, Request, Pc, Versions

\* A step of a request to another program point.
LEMMA GotoType ==
    ASSUME NEW r \in Requests, NEW c \in Pc, NEW v \in Versions,
           req \in [Requests -> Request], Goto(r, c, v) \/ Done(r)
    PROVE  req' \in [Requests -> Request]
  BY IdleType DEF Goto, Done, At, Request

\* The state of a purge call that has returned, and of one on its way.
LEMMA PurgeType ==
    ASSUME NEW p \in Purgers, NEW call \in PurgeCalls \cup {NoPurge},
           NEW todo \in SUBSET (Regions \X Objects),
           NEW pc \in {"idle", "scan", "publish", "log"},
           purge \in [Purgers -> PurgeState]
    PROVE  /\ [purge EXCEPT ![p] = PurgeAt(pc, call, todo)] \in [Purgers -> PurgeState]
           /\ [purge EXCEPT ![p] = PurgeIdle] \in [Purgers -> PurgeState]
  <1>1. PurgeAt(pc, call, todo) \in PurgeState /\ PurgeIdle \in PurgeState
    BY DEF PurgeAt, PurgeIdle, PurgeState
  <1> QED
    BY <1>1

\* A purge that publishes is one of the API's calls: its message is an event.
LEMMA EventType ==
    ASSUME NEW call \in PurgeCalls \cup {NoPurge} PROVE call.event \in Event
  <1>1. NoPurge.event = <<>>
    BY DEF NoPurge, Purge
  <1>2. PICK all \in ServicePurgeAll : all.event = <<>>
    BY DEF ServicePurgeAll, Purge
  <1>3. all \in PurgeCalls
    BY <1>2 DEF PurgeCalls
  <1>4. <<>> \in Event
    BY <1>2, <1>3 DEF Event
  <1> QED
    BY <1>1, <1>4 DEF Event

\* The types of all variables, in every reachable state.
THEOREM TypeCorrect == Spec => []TypeOK
  <1>1. Init => TypeOK
    <2> SUFFICES ASSUME Init PROVE TypeOK
      OBVIOUS
    <2>1. 0 \in Versions
      BY DEF Versions
    <2>2. PurgeIdle \in PurgeState
      BY DEF PurgeIdle, PurgeAt, PurgeState
    <2>3. <<>> \in Seq(Event)
      OBVIOUS
    <2> QED
      BY <2>1, <2>2, <2>3, IdleType DEF Init, TypeOK
  <1>2. TypeOK /\ [Next]_vars => TypeOK'
    <2> SUFFICES ASSUME TypeOK, [Next]_vars PROVE TypeOK'
      OBVIOUS
    <2> USE DEF TypeOK
    <2>0. 0 \in Versions
      BY DEF Versions
    <2>1. ASSUME NEW r \in Requests, NEW n \in Nodes, NEW o \in Objects, Serve(r, n, o)
          PROVE  TypeOK'
      BY <2>0, <2>1 DEF Serve, At, Request, Pc
    <2>2. ASSUME NEW r \in Requests, RedisGet(r) PROVE TypeOK'
      <3>1. Cached(r) \in Versions
        BY DEF Cached, Request
      <3> QED
        BY <2>0, <2>2, <3>1, GotoType DEF RedisGet, Pc
    <2>3. ASSUME NEW r \in Requests, Fetch(r) PROVE TypeOK'
      <3>1. origin[req[r].object] \in Versions
        BY DEF Request
      <3> QED
        BY <2>3, <3>1, GotoType DEF Fetch, Pc
    <2>4. ASSUME NEW r \in Requests, RedisSet(r) PROVE TypeOK'
      <3>1. req[r].version \in Versions
        BY DEF Request
      <3> QED
        BY <2>4, <3>1, GotoType DEF RedisSet, Pc
    <2>5. ASSUME NEW r \in Requests, MemorySet(r) PROVE TypeOK'
      <3>1. req[r].version \in Versions
        BY DEF Request
      <3> QED
        BY <2>0, <2>5, <3>1, GotoType DEF MemorySet, Pc
    <2>6. ASSUME NEW r \in Requests, Fail(r) PROVE TypeOK'
      BY <2>0, <2>6, GotoType DEF Fail, Pc
    <2>7. ASSUME NEW p \in Purgers, NEW call \in PurgeCalls, PurgeBegin(p, call)
          PROVE  TypeOK'
      BY <2>7, PurgeType DEF PurgeBegin
    <2>8. ASSUME NEW p \in Purgers, NEW page \in SUBSET purge[p].todo, PurgePage(p, page)
          PROVE  TypeOK'
      <3>1. purge[p].call \in PurgeCalls \cup {NoPurge}
        BY DEF PurgeState
      <3>2. (purge[p].todo \ page) \in SUBSET (Regions \X Objects)
        BY DEF PurgeState
      <3>3. purge' \in [Purgers -> PurgeState]
        BY <2>8, <3>1, <3>2, PurgeType DEF PurgePage
      <3>4. redis' \in [Regions -> [Objects -> Versions]]
        BY <2>0, <2>8 DEF PurgePage
      <3> QED
        BY <2>8, <3>3, <3>4 DEF PurgePage
    <2>9. ASSUME NEW p \in Purgers, PurgePublish(p) PROVE TypeOK'
      <3>1. purge[p].call.event \in Event
        BY EventType DEF PurgeState
      <3>2. purge' \in [Purgers -> PurgeState]
        <4>1. purge[p].call \in PurgeCalls \cup {NoPurge}
          BY DEF PurgeState
        <4> QED
          BY <2>9, <4>1, PurgeType DEF PurgePublish
      <3>3. inbox' \in [Nodes -> Seq(Event)]
        BY <2>9, <3>1 DEF PurgePublish
      <3> QED
        BY <2>9, <3>2, <3>3 DEF PurgePublish
    <2>10. ASSUME NEW p \in Purgers, PurgeFail(p) PROVE TypeOK'
      BY <2>10, PurgeType DEF PurgeFail
    <2>11. ASSUME NEW p \in Purgers, PurgeLog(p) PROVE TypeOK'
      <3>1. purge' \in [Purgers -> PurgeState]
        BY <2>11, PurgeType DEF PurgeLog
      <3>2. history' \in 0..HistoryLimit
        BY <2>11 DEF PurgeLog
      <3> QED
        BY <2>11, <3>1, <3>2 DEF PurgeLog
    <2>12. ASSUME NEW n \in Nodes, Deliver(n) PROVE TypeOK'
      <3>1. inbox' \in [Nodes -> Seq(Event)]
        BY <2>12 DEF Deliver
      <3>2. memory' \in [Nodes -> [Objects -> Versions]]
        BY <2>0, <2>12 DEF Deliver
      <3> QED
        BY <2>12, <3>1, <3>2 DEF Deliver
    <2>13. ASSUME NEW n \in Nodes, Disconnect(n) PROVE TypeOK'
      BY <2>13 DEF Disconnect
    <2>14. ASSUME NEW n \in Nodes, Restart(n) PROVE TypeOK'
      BY <2>0, <2>14, IdleType DEF Restart
    <2>15. ASSUME NEW g \in Regions, NEW o \in Objects, RedisExpire(g, o) PROVE TypeOK'
      BY <2>0, <2>15 DEF RedisExpire
    <2>16. ASSUME NEW n \in Nodes, NEW o \in Objects, MemoryExpire(n, o) PROVE TypeOK'
      BY <2>0, <2>16 DEF MemoryExpire
    <2>17. ASSUME NEW o \in Objects, Upload(o) PROVE TypeOK'
      <3>1. last[o] + 1 \in Versions
        BY <2>17 DEF Upload, Versions
      <3> QED
        BY <2>17, <3>1 DEF Upload
    <2>18. ASSUME NEW o \in Objects, Delete(o) PROVE TypeOK'
      BY <2>0, <2>18 DEF Delete
    <2>19. CASE UNCHANGED vars
      BY <2>19 DEF vars
    <2>20. ASSUME NEW r \in Requests, TtlFails(r) PROVE TypeOK'
      BY <2>0, <2>20, GotoType DEF TtlFails, Pc
    <2> QED
      BY <2>1, <2>2, <2>3, <2>4, <2>5, <2>6, <2>7, <2>8, <2>9, <2>10, <2>11, <2>12,
         <2>13, <2>14, <2>15, <2>16, <2>17, <2>18, <2>19, <2>20 DEF Next, Step
  <1> QED
    BY <1>1, <1>2, PTL DEF Spec

\* A step that leaves the caches of o in region g as they are or empties them,
\* and gives no request a version to store, lets no version in.
LEMMA NothingEnters ==
    ASSUME NEW g \in Regions, NEW o \in Objects, NEW v \in 1..MaxVersion,
           ~Held(g, o, v),
           redis'[g][o] \in {0, redis[g][o]},
           \A n \in Nodes : memory'[n][o] \in {0, memory[n][o]},
           \A r \in Requests :
             req'[r] = req[r] \/ req'[r].pc \notin {"getTtl", "redisSet", "memorySet"}
    PROVE  ~Held(g, o, v)'
  BY DEF Held

\* A request that moves on with a version other than v brings no copy of v.
LEMMA MovesOn ==
    ASSUME req \in [Requests -> Request],
           NEW g \in Regions, NEW o \in Objects, NEW v \in 1..MaxVersion,
           NEW r \in Requests, NEW c \in Pc, NEW w \in Versions,
           ~Held(g, o, v), Goto(r, c, w), UNCHANGED <<redis, memory>>,
           RegionOf[req[r].node] = g /\ req[r].object = o /\ c # "fetch" => w # v
    PROVE  ~Held(g, o, v)'
  <1>1. \A q \in Requests \ {r} : req'[q] = req[q]
    BY DEF Goto
  <1>2. /\ req'[r].pc = c /\ req'[r].version = w
        /\ req'[r].node = req[r].node /\ req'[r].object = req[r].object
    BY DEF Goto, At
  <1>3. ASSUME NEW q \in Requests, RegionOf[req'[q].node] = g, req'[q].object = o,
               req'[q].pc \in {"getTtl", "redisSet", "memorySet"}
        PROVE  req'[q].version # v
    <2>1. CASE q = r
      BY <1>2, <1>3, <2>1
    <2>2. CASE q # r
      BY <1>1, <1>3, <2>2 DEF Held
    <2> QED
      BY <2>1, <2>2
  <1> QED
    BY <1>3 DEF Held

\* No request, purge, restart or expiry brings an outdated version of a file
\* back into a region that has lost its last copy, for any number of nodes,
\* regions, objects and requests.
THEOREM StaleNeverReturnsCorrect == Spec => StaleNeverReturns
  <1>1. ASSUME TypeOK, [Next]_vars, NEW g \in Regions, NEW o \in Objects,
               NEW v \in 1..MaxVersion, v # origin[o], ~Held(g, o, v)
        PROVE  ~Held(g, o, v)'
    <2> USE <1>1 DEF TypeOK
    <2>1. ASSUME NEW r \in Requests, NEW n \in Nodes, NEW x \in Objects, Serve(r, n, x)
          PROVE  ~Held(g, o, v)'
      BY <2>1, NothingEnters DEF Serve, At
    <2>2. ASSUME NEW r \in Requests, RedisGet(r) PROVE ~Held(g, o, v)'
      <3>1. RegionOf[req[r].node] = g /\ req[r].object = o => Cached(r) # v
        BY DEF Cached, Held
      <3>2. Cached(r) \in Versions /\ 0 \in Versions
        BY DEF Cached, Request, Versions
      <3>3. CASE Cached(r) # 0
        BY <2>2, <3>1, <3>2, <3>3, MovesOn DEF RedisGet, Pc
      <3>4. CASE Cached(r) = 0
        BY <2>2, <3>2, <3>4, MovesOn DEF RedisGet, Pc
      <3> QED
        BY <3>3, <3>4
    <2>3. ASSUME NEW r \in Requests, Fetch(r) PROVE ~Held(g, o, v)'
      <3>1. origin[req[r].object] \in Versions
        BY DEF Request
      <3>2. CASE origin[req[r].object] # 0
        BY <2>3, <3>1, <3>2, MovesOn DEF Fetch, Pc
      <3>3. CASE origin[req[r].object] = 0
        BY <2>3, <3>3, IdleType, NothingEnters DEF Fetch, Done
      <3> QED
        BY <3>2, <3>3
    <2>4. ASSUME NEW r \in Requests, RedisSet(r) PROVE ~Held(g, o, v)'
      BY <2>4 DEF RedisSet, Goto, At, Held, Request
    <2>5. ASSUME NEW r \in Requests, MemorySet(r) PROVE ~Held(g, o, v)'
      BY <2>5, IdleType DEF MemorySet, Done, Held, Request
    <2>6. ASSUME NEW r \in Requests, Fail(r) PROVE ~Held(g, o, v)'
      BY <2>6, IdleType, NothingEnters DEF Fail, Done
    <2>7. ASSUME NEW p \in Purgers, NEW call \in PurgeCalls, PurgeBegin(p, call)
          PROVE  ~Held(g, o, v)'
      BY <2>7, NothingEnters DEF PurgeBegin
    <2>8. ASSUME NEW p \in Purgers, NEW page \in SUBSET purge[p].todo, PurgePage(p, page)
          PROVE  ~Held(g, o, v)'
      BY <2>8, NothingEnters DEF PurgePage
    <2>9. ASSUME NEW p \in Purgers, PurgePublish(p) \/ PurgeLog(p) \/ PurgeFail(p)
          PROVE  ~Held(g, o, v)'
      BY <2>9, NothingEnters DEF PurgePublish, PurgeLog, PurgeFail
    <2>10. ASSUME NEW n \in Nodes, Deliver(n) PROVE ~Held(g, o, v)'
      BY <2>10, NothingEnters DEF Deliver
    <2>11. ASSUME NEW n \in Nodes, Disconnect(n) PROVE ~Held(g, o, v)'
      BY <2>11, NothingEnters DEF Disconnect
    <2>12. ASSUME NEW h \in Regions, NEW x \in Objects, RedisExpire(h, x)
           PROVE  ~Held(g, o, v)'
      BY <2>12, NothingEnters DEF RedisExpire
    <2>13. ASSUME NEW n \in Nodes, NEW x \in Objects, MemoryExpire(n, x)
           PROVE  ~Held(g, o, v)'
      BY <2>13, NothingEnters DEF MemoryExpire
    <2>14. ASSUME NEW x \in Objects, Upload(x) \/ Delete(x) PROVE ~Held(g, o, v)'
      BY <2>14, NothingEnters DEF Upload, Delete
    <2>15. ASSUME NEW n \in Nodes, Restart(n) PROVE ~Held(g, o, v)'
      <3>1. redis'[g][o] \in {0, redis[g][o]}
        BY <2>15 DEF Restart
      <3>2. \A m \in Nodes : memory'[m][o] \in {0, memory[m][o]}
        BY <2>15 DEF Restart
      <3>3. \A r \in Requests : req'[r] = req[r] \/ req'[r].pc = "idle"
        BY <2>15, IdleType DEF Restart
      <3> QED
        BY <3>1, <3>2, <3>3, NothingEnters
    <2>16. CASE UNCHANGED vars
      BY <2>16, NothingEnters DEF vars
    <2>17. ASSUME NEW r \in Requests, TtlFails(r) PROVE ~Held(g, o, v)'
      <3>1. 0 \in Versions
        BY DEF Versions
      <3> QED
        BY <2>17, <3>1, MovesOn DEF TtlFails, Pc
    <2> QED
      BY <2>1, <2>2, <2>3, <2>4, <2>5, <2>6, <2>7, <2>8, <2>9, <2>10, <2>11, <2>12,
         <2>13, <2>14, <2>15, <2>16, <2>17 DEF Next, Step
  <1>2. TypeOK /\ [Next]_vars =>
            [\A g \in Regions, o \in Objects, v \in 1..MaxVersion :
                v # origin[o] /\ ~Held(g, o, v) => ~Held(g, o, v)']_vars
    BY <1>1
  <1> QED
    BY <1>2, TypeCorrect, PTL DEF Spec, StaleNeverReturns

\* No pattern of the node's or of the cache service's purges matches a key as
\* Redis has it: every pattern begins with "cdn", every key with the keyPrefix.
LEMMA PatternsMatchNothing ==
    ASSUME NEW call \in PurgeCalls \cup {NoPurge}, NEW g \in Regions, NEW o \in Objects
    PROVE  ~Matches(call.pattern, PhysicalKey(g, o))
  <1>1. Len(call.pattern.head) \in Nat \ {0} /\ call.pattern.head[1] = "cdn"
    <2>1. \A mid, event, after :
            Purge(mid, event, after).pattern.head = <<"cdn">>
      BY DEF Purge
    <2>2. CASE call.pattern.head = <<"cdn">>
      BY <2>2
    <2>3. CASE call \in FlushRegion
      <3>1. PICK h \in Regions : call.pattern.head = <<"cdn", h>>
        BY <2>3 DEF FlushRegion
      <3> QED
        BY <3>1
    <2>4. call \in FlushRegion \/ call.pattern.head = <<"cdn">>
      <3>1. CASE call \in NodePurge
        <4>1. CASE \E x \in Objects : call = Purge(<<x[1], x[2]>>, <<x[1], x[2]>>, {"publish"})
          BY <4>1, <2>1
        <4>2. CASE \E b \in Buckets : call = Purge(<<b>>, <<b>>, {"publish"})
          BY <4>2, <2>1
        <4> QED
          BY <3>1, <4>1, <4>2 DEF NodePurge
      <3>2. CASE call \in ServicePurge
        <4>1. PICK x \in Objects : call = Purge(<<x>>, <<x[1], x[2]>>, {"publish", "log"})
          BY <3>2 DEF ServicePurge
        <4> QED
          BY <4>1, <2>1
      <3>3. CASE call \in ServicePurgeBucket
        <4>1. PICK b \in Buckets : call = Purge(<<b>>, <<b>>, {"publish", "log"})
          BY <3>3 DEF ServicePurgeBucket
        <4> QED
          BY <4>1, <2>1
      <3>4. CASE call \in ServicePurgePrefix
        <4>1. PICK x \in Objects : call = Purge(<<x>>, <<x[1]>>, {"publish", "log"})
          BY <3>4 DEF ServicePurgePrefix
        <4> QED
          BY <4>1, <2>1
      <3>5. CASE call \in ServicePurgeAll \cup {NoPurge}
        BY <2>1, <3>5 DEF ServicePurgeAll, NoPurge
      <3> QED
        BY <3>1, <3>2, <3>3, <3>4, <3>5 DEF PurgeCalls
    <2> QED
      BY <2>2, <2>3, <2>4
  <1>2. PhysicalKey(g, o)[1] = "edgesphere"
    <2> DEFINE S == {"edgesphere", "cdn", "{}", g, o[1], o[2]}
    <2>1. <<"edgesphere">> \in Seq(S) /\ CacheKey(g, o) \in Seq(S)
      BY DEF CacheKey
    <2> HIDE DEF S
    <2>2. (<<"edgesphere">> \o CacheKey(g, o))[1] = <<"edgesphere">>[1]
      BY <2>1, ConcatProperties
    <2> QED
      BY <2>2 DEF PhysicalKey
  <1>3. SUFFICES ASSUME Matches(call.pattern, PhysicalKey(g, o)) PROVE FALSE
    OBVIOUS
  <1>4. \A i \in 1..Len(call.pattern.head) : PhysicalKey(g, o)[i] = call.pattern.head[i]
    BY <1>3 DEF Matches
  <1> QED
    BY <1>1, <1>2, <1>4

\* Only SETEX and the expiry of an entry change what Redis has cached: a purge,
\* whatever it names, deletes nothing.
THEOREM PurgesLeaveRedis ==
    Spec => [][\A p \in Purgers, page \in SUBSET (Regions \X Objects) :
                 PurgePage(p, page) => redis' = redis]_vars
  <1>1. ASSUME TypeOK, NEW p \in Purgers, NEW page \in SUBSET (Regions \X Objects),
               PurgePage(p, page)
        PROVE  redis' = redis
    <2>1. purge[p].call \in PurgeCalls \cup {NoPurge}
      BY <1>1 DEF TypeOK, PurgeState
    <2>2. \A g \in Regions, o \in Objects :
            ~Matches(purge[p].call.pattern, PhysicalKey(g, o))
      BY <2>1, PatternsMatchNothing
    <2> QED
      BY <1>1, <2>2 DEF PurgePage, TypeOK
  <1>2. TypeOK => [\A p \in Purgers, page \in SUBSET (Regions \X Objects) :
                     PurgePage(p, page) => redis' = redis]_vars
    BY <1>1
  <1> QED
    BY <1>2, TypeCorrect, PTL
=============================================================================
