---------------------------- MODULE CdnResponses ----------------------------
(***************************************************************************)
(* What a CDN node answers: the controller's handleFileRequest around      *)
(* serveFile, with the image optimizer and the max-age of the headers.     *)
(* One file, its variants, one node and the Redis of its region; CdnCache  *)
(* has the file's versions, the regions and the purges.                    *)
(*                                                                         *)
(* A body carries the time since the origin sent it; TTLs count down as    *)
(* ages count up.  A request lasts at most over one tick of the clock.     *)
(***************************************************************************)
EXTENDS Integers

CONSTANTS
    Queries,    \* the transforms asked for, fmt "" if none is
    FileTypes,  \* content types of the file
    Gets,       \* requests that may be in flight together
    Ttls,       \* values of the configured cacheTtlSeconds
    MaxTtl,     \* the largest of them
    MemTtl,     \* MEMORY_CACHE_TTL_SECONDS, 300
    DefaultAge  \* 3600

ASSUME ResponseAssumption ==
    /\ Queries # {} /\ \A q \in Queries : q.fmt \in STRING
    /\ FileTypes \subseteq STRING /\ "none" \notin FileTypes
    /\ {MaxTtl, MemTtl, DefaultAge} \subseteq Nat \ {0} /\ Ttls \subseteq 1..MaxTtl

VARIABLES
    file,        \* content type of the file at the origin, "none" if it fails
    redisEntry,  \* the variants in Redis
    memoryEntry, \* the responses in memoryCache
    get          \* the requests in flight

responseVars == <<file, redisEntry, memoryEntry, get>>

NoBody == [source |-> "none", query |-> CHOOSE q \in Queries : TRUE, age |-> 0]
Bodies == [source : FileTypes \cup {"none"}, query : Queries, age : Nat]
\* `promise' is remainingTTL, 0 for undefined.
Get(pc, query, body, promise) ==
    [pc |-> pc, query |-> query, body |-> body, promise |-> promise, old |-> FALSE]
Ended == Get("idle", NoBody.query, NoBody, 0)
NotStored == [body |-> NoBody, ttl |-> 0]
NotRemembered == [body |-> NoBody, promise |-> 0, ttl |-> 0]

ResponseTypeOK ==
    /\ file \in FileTypes \cup {"none"}
    /\ redisEntry \in [Queries -> [body : Bodies, ttl : 0..MaxTtl]]
    /\ memoryEntry \in [Queries -> [body : Bodies, promise : 0..MaxTtl, ttl : 0..MemTtl]]
    /\ get \in [Gets -> [pc : {"idle", "redisGet", "getTtl", "fetch", "store", "stored", "remember",
                              "respond"},
                         query : Queries, body : Bodies, promise : 0..MaxTtl, old : BOOLEAN]]

ResponseInit ==
    /\ file = "none"
    /\ redisEntry = [q \in Queries |-> NotStored]
    /\ memoryEntry = [q \in Queries |-> NotRemembered]
    /\ get = [g \in Gets |-> Ended]
-----------------------------------------------------------------------------
(* The image optimizer.                                                     *)

isImage(type) ==
    type \in {"image/jpeg", "image/png", "image/gif", "image/webp", "image/avif", "image/svg+xml"}

\* Without a format the source's is kept; a GIF or an SVG becomes a JPEG.
Format(fmt, type) ==
    CASE fmt # "" -> fmt
      [] type = "image/webp" -> "webp"
      [] type = "image/png"  -> "png"
      [] type = "image/avif" -> "avif"
      [] OTHER -> "jpeg"

\* The format of the pipeline and the content type that goes with it.
Coded(format, otherwise) ==
    CASE format = "webp" -> "image/webp"
      [] format = "avif" -> "image/avif"
      [] format = "png"  -> "image/png"
      [] format \in {"jpeg", "jpg"} -> "image/jpeg"
      [] OTHER -> otherwise

\* The controller passes all five transforms, undefined or not, so that every
\* image is transformed.
ContentType(body) ==
    IF isImage(body.source)
    THEN Coded(Format(body.query.fmt, body.source), body.source) ELSE body.source

\* External: sharp writes its input's format when it is told none, but for an
\* SVG, which it writes as a PNG.
Encoding(body) ==
    LET untold == IF body.source = "image/svg+xml" THEN "image/png" ELSE body.source IN
    IF isImage(body.source)
    THEN Coded(Format(body.query.fmt, body.source), untold) ELSE body.source
-----------------------------------------------------------------------------
(* serveFile.                                                               *)

On(g, pc) == get' = [get EXCEPT ![g].pc = pc]

\* Mutant: a hit in memory prolongs the entry's life.
ServeMemorySliding(g, q) ==
    LET m == memoryEntry[q] IN
    /\ get[g].pc = "idle" /\ m.ttl > 0
    /\ get' = [get EXCEPT ![g] = Get("respond", q, m.body, m.promise)]
    /\ memoryEntry' = [memoryEntry EXCEPT ![q].ttl = MemTtl]
    /\ UNCHANGED <<file, redisEntry>>

\* A hit in memory repeats the response that was stored, its max-age too.
ServeMemory(g, q) ==
    LET m == memoryEntry[q] IN
    /\ get[g].pc = "idle" /\ m.ttl > 0
    /\ get' = [get EXCEPT ![g] = Get("respond", q, m.body, m.promise)]
    /\ UNCHANGED <<file, redisEntry, memoryEntry>>

ServeMiss(g, q) ==
    /\ get[g].pc = "idle" /\ memoryEntry[q].ttl = 0
    /\ get' = [get EXCEPT ![g] = Get("redisGet", q, NoBody, 0)]
    /\ UNCHANGED <<file, redisEntry, memoryEntry>>

\* GET.
LookUp(g) ==
    LET e == redisEntry[get[g].query] IN
    /\ get[g].pc = "redisGet"
    /\ IF e.ttl > 0 THEN get' = [get EXCEPT ![g].pc = "getTtl", ![g].body = e.body]
                    ELSE On(g, "fetch")
    /\ UNCHANGED <<file, redisEntry, memoryEntry>>

\* TTL, a command later: of no entry any more, or of one that has replaced
\* what was read.
ReadTtl(g) ==
    /\ get[g].pc = "getTtl"
    /\ get' = [get EXCEPT ![g].pc = "remember", ![g].promise = redisEntry[get[g].query].ttl]
    /\ UNCHANGED <<file, redisEntry, memoryEntry>>

\* The catch around the entry's reading: on to the origin.
ReadTtlFails(g) ==
    /\ get[g].pc = "getTtl"
    /\ get' = [get EXCEPT ![g].pc = "fetch", ![g].body = NoBody]
    /\ UNCHANGED <<file, redisEntry, memoryEntry>>

\* The origin's answer, transformed.
FetchFile(g) ==
    /\ get[g].pc = "fetch" /\ file # "none"
    /\ get' = [get EXCEPT ![g].pc = "store",
                          ![g].body = [source |-> file, query |-> get[g].query, age |-> 0]]
    /\ UNCHANGED <<file, redisEntry, memoryEntry>>

\* SETEX with the TTL configured by now; the response has no remainingTTL.
Store(g, ttl) ==
    /\ get[g].pc = "store"
    /\ redisEntry' = [redisEntry EXCEPT ![get[g].query] = [body |-> get[g].body, ttl |-> ttl]]
    /\ On(g, "stored")
    /\ UNCHANGED <<file, memoryEntry>>

Remember(g) ==
    LET r == get[g] IN
    /\ r.pc \in {"stored", "remember"}
    /\ memoryEntry' = [memoryEntry EXCEPT ![r.query] =
                          [body |-> r.body, promise |-> r.promise, ttl |-> MemTtl]]
    /\ On(g, "respond")
    /\ UNCHANGED <<file, redisEntry>>
-----------------------------------------------------------------------------
(* handleFileRequest.                                                       *)

\* max-age of the answer to a request.
PromisedAge(r) == IF r.promise > 0 THEN r.promise ELSE DefaultAge

AnswerClient(g) ==
    /\ get[g].pc = "respond"
    /\ get' = [get EXCEPT ![g] = Ended]
    /\ UNCHANGED <<file, redisEntry, memoryEntry>>

\* A command on the way of a miss, the fetch, its status or the transform throws:
\* 404 or 500.
GetFails(g) ==
    /\ get[g].pc \in {"redisGet", "fetch", "store", "stored"}
    /\ get' = [get EXCEPT ![g] = Ended]
    /\ UNCHANGED <<file, redisEntry, memoryEntry>>
-----------------------------------------------------------------------------
\* An invalidation of the file drops its variants from memory.
Invalidated ==
    /\ memoryEntry' = [q \in Queries |-> NotRemembered]
    /\ UNCHANGED <<file, redisEntry, get>>

NodeRestart ==
    /\ memoryEntry' = [q \in Queries |-> NotRemembered]
    /\ get' = [g \in Gets |-> Ended]
    /\ UNCHANGED <<file, redisEntry>>

\* External: the file is replaced, deleted or cannot be had.
FileChanges ==
    /\ file' \in (FileTypes \cup {"none"}) \ {file}
    /\ UNCHANGED <<redisEntry, memoryEntry, get>>

Elapsed(entry, none) ==
    IF entry.ttl <= 1 THEN none
    ELSE [entry EXCEPT !.body = [entry.body EXCEPT !.age = @ + 1], !.ttl = @ - 1]

\* One tick; an entry whose TTL has run out is gone.
ResponseTick ==
    /\ \A g \in Gets : ~get[g].old
    /\ redisEntry' = [q \in Queries |-> Elapsed(redisEntry[q], NotStored)]
    /\ memoryEntry' = [q \in Queries |-> Elapsed(memoryEntry[q], NotRemembered)]
    /\ get' = [g \in Gets |->
                  IF get[g].pc = "idle" THEN get[g]
                  ELSE [get[g] EXCEPT !.body.age = get[g].body.age + 1, !.old = TRUE]]
    /\ UNCHANGED file

ResponseNext ==
    \/ \E g \in Gets :
        \/ \E q \in Queries : ServeMemory(g, q) \/ ServeMiss(g, q)
        \/ LookUp(g) \/ ReadTtl(g) \/ ReadTtlFails(g) \/ FetchFile(g)
        \/ \E ttl \in Ttls : Store(g, ttl)
        \/ Remember(g) \/ AnswerClient(g) \/ GetFails(g)
    \/ Invalidated \/ NodeRestart \/ FileChanges \/ ResponseTick

ResponseSpec == ResponseInit /\ [][ResponseNext]_responseVars
-----------------------------------------------------------------------------
Known == {"", "webp", "avif", "png", "jpeg", "jpg"}
Longest == IF MaxTtl > DefaultAge THEN MaxTtl ELSE DefaultAge

\* Every answer is of the variant its request asked for, with the content type
\* of what it is, unless an SVG was asked for in a format nobody knows.  The
\* max-age repeated from memory, read from an entry that has expired or been
\* replaced, or defaulted is wrong by as much as that; still no client that
\* relies on it uses a body longer than the TTLs and the default allow.
AnswersAreTrue ==
    \A g \in Gets : get[g].pc = "respond" =>
        LET r == get[g]
            b == r.body
        IN
        /\ b.query = r.query
        /\ ContentType(b) = Encoding(b) \/ (b.source = "image/svg+xml" /\ b.query.fmt \notin Known)
        /\ b.age + PromisedAge(r) <= MaxTtl + MemTtl + Longest + 1
=============================================================================
