# EdgeSphere: TLA+ models and proofs

EdgeSphere is a self-hosted cloud platform of TypeScript (NestJS) services, a
Go edge server and a React dashboard. This directory holds TLA+ models of its
stateful services, the TLC configurations that check them on small instances,
and TLAPS proofs of their main properties for every instance.
`PROJECT.json` lists components, runs, mutants, hazards, findings and theorems,
and maps every definition to the source lines it stands for.

## 1. The system

| Component | State | Operations | Interacts with | What is hard | What makes it correct |
|---|---|---|---|---|---|
| auth-service, sessions (`auth.service.ts`, `users.service.ts`) | `users` rows; Redis `refresh:{user}:{device}`, sorted set `user_sessions:{user}` | register, login, OAuth login, refresh, logout, profile update, token minting with eviction | Postgres, Redis; called through the gateway | each handler is a chain of awaited commands without a transaction; TTLs; failures half-way | a dead token stays dead; one-time rotation; at most MAX_SESSIONS sessions; a disabled account admits only requests that had read its row before |
| auth-service, API keys | `api_keys` rows; Redis `apikey:lookup:{sha256}` | create, revoke, validate, list | gateway's auth middleware | two stores, scan stream with async handlers | keys handed out work, revoked keys do not |
| cdn-service | NodeCache per node, shared Redis entries per region, pub/sub subscription | serveFile, image transforms, purge, flush, invalidation handler | storage-service (origin), cache-service, gateway | slow requests writing old versions late, lost messages, restarts, two cache levels, an age that is copied from one level to the next | outdated versions die out; an answer is what was asked for, and its max-age is bounded |
| cache-service | `purge:history` | purge file / bucket / prefix / all, storage-event subscription | Redis shared with the CDN nodes | patterns against keys another service writes | as above; a purge should purge (it does not, section 6) |
| gateway | Redis token buckets and sliding windows, 60 s CDN response cache, circuit breakers in memory, DLQ topics, `platform_config` hash | rate limiting, auth, proxying, event publishing, DLQ retry, configuration | all services, Kafka | read-modify-write races, breaker fed before the outcome is known, retry back-off | no more than the limit passes; bounded staleness; one answer per request; bounded retries; a configuration every reader can use |
| storage-service | bucket and file rows, MinIO objects, multipart sessions in memory | upload, download, delete, multipart initiate / part / complete / abort | MinIO, Postgres, Kafka | object and row written separately, two uploads of one key, restart during multipart | the latest row of a file is its newest; no row outlives its bucket |
| analytics-service | event batch in memory, offsets in Kafka | consume, flush by size or timer, shutdown flush, queries | Kafka, TimescaleDB | committed offsets before the insert | an event is lost or stored twice only for a named reason; answers that add up |
| notification-service | alert rules, `lastTriggered`, histories of 50 and 100 | periodic check, rule edits, dispatch | analytics-service, Kafka | overlapping checks around an await | one alert per debounce window; no rule skipped; a success was sent |
| websocket-gateway | 5 s window of events, connected clients | consume, aggregate, broadcast | Kafka, browsers | window boundaries | a rate counts exactly the window, unless an update came late |
| edge-server (Go) | Redis and disk cache | serve, purge | storage-service | disk entries' age, goroutines that write after the answer | as for the CDN |
| dashboard | access and refresh tokens in Redux | API client with refresh on 401 | gateway | concurrent 401s share one refresh token | a refresh is refused only for a named cause; a tab signed out stays out |
| dashboard, pages (storage, API keys, CDN, alerts, settings, overview, live events) | SWR's cache per key, dialogs, selections and forms, one socket | handlers of the buttons, polls, mutates, socket events | gateway, websocket-gateway | a handler goes on with its render's values after an await; polls answer late | a page does not take back what it said |

The hazards of each, with their lines, are listed in `PROJECT.json`.

## 2. Modules

| Module | Models |
|---|---|
| `AuthSessions` | accounts, refresh tokens, device sessions |
| `MCAuthSessions` | symmetry of request slots for TLC |
| `AuthSessionsProofs` | theorems about `AuthSessions` |
| `ApiKeys`, `MCApiKeys`, `ApiKeysProofs` | the API keys of the auth service |
| `CdnCache`, `MCCdnCache`, `CdnCacheProofs` | the CDN nodes' caches, Redis and all purges |
| `CdnResponses` | what a CDN node answers: the image optimizer's variants, content type, max-age |
| `SlidingWindow`, `MCSlidingWindow`, `SlidingWindowProofs` | the gateway's sliding windows, per user and per address |
| `TokenBucket`, `TokenBucketProofs` | the gateway's token bucket per user |
| `StorageFiles`, `StorageFilesProofs` | buckets and files of the storage service, its tables and MinIO |
| `EventPipeline`, `EventDelivery` | request events from the gateway over Kafka and the dead-letter queue into TimescaleDB; what that promises, which the first implements |
| `Analytics` | the analytics service's table, queries and concurrent answers |
| `Alerts` | rules, checks, debounce and dispatch of the notification service |
| `Realtime` | the websocket gateway's window, emitter and rooms, and the dashboard's hooks on its socket |
| `Multipart` | multipart uploads of the storage service |
| `EdgeDelivery` | the gateway's response cache in front of the Go edge server |
| `Resilience` | the gateway's proxies, circuit breakers and health check |
| `PlatformConfig` | the configuration hash, its API and the settings page |
| `DashboardClient` | the dashboard's tokens in several tabs, its API client, login and sign-out |
| `Swr` | external: a key of SWR's cache |
| `StoragePage`, `ApiKeysPage`, `CdnPage` | three pages of the dashboard in front of their services |
| `AlertsPage` | the alerts page, composed with `Alerts`, which serves its requests |
| `Overview` | the rounds of requests of the overview page |
| `MCServices`, `MCDashboard` | compositions that check several of these in one run |
| `ServicesProofs` | theorems about the seven components of `MCServices`, their composition, and `EventPipeline` |
| `DashboardProofs` | theorems about the parts of `MCDashboard` and their composition |

Conventions. Node runs one handler until its next `await`, so every awaited
command that touches modelled state is one action, and a request (`req[r]`)
carries its program counter and locals. Awaits that touch nothing modelled
(bcrypt, JWT signing, metrics, `lastLogin`, `lastUsedAt`) are merged into the
following action. A request refused before it changes anything is no step.
`Fail` abandons a handler between two commands: a rejected promise and a process
restart look the same to the stores. Definitions that begin with the comment
"Mutant" are deliberate bugs; no specification uses them, and `PROJECT.json`
names the property that must catch each.

`MCServices` and `MCDashboard` put components side by side that share no state:
a behaviour picks one of them (`focus`, `part`) and only that one moves, so the states
are the sum of the components' states, not the product, and each component has
all of its own interleavings. Their proofs are composed in the same way: each
component has a section of `ServicesProofs` or `DashboardProofs` with theorems
about its own specification, and the theorems about the composition follow from
these, as every behaviour of a composition is one of each component.

### AuthSessions

`account` is the `users` table (active flag, password set, OAuth linked);
`refresh[u][d]` the Redis key `refresh:{user}:{device}` (0 is no key);
`score[u]` the sorted set `user_sessions:{user}`; tokens are numbered in the
order they are handed out, and `issued` remembers all of them, each with the
token it was exchanged for (`from`, history only). Passwords and signatures are
abstracted: a refresh presents some issued token, a login some device.

`register` is `RegisterFind`, `RegisterSave` (the unique e-mail column makes the
slower of two racing saves throw); OAuth is `OAuthFind`, `OAuthSave` (the save
writes back the whole row read earlier); `updateProfile` is `ProfileFind`,
`ProfileSave` (which does the same); `refreshTokens` is `RefreshGet`,
`RefreshDel`, `RefreshUser`; all of them continue with `generateTokenPair`:
`Zadd`, `Zcard`, `Zrange`, `EvictDel`, `EvictZrem`, `SetToken`. `logout` is
`LogoutDel`, `LogoutZrem`; the user comes from the access token and the device
from the refresh token, as in the code. `Expire` (the key's EX) and `SetActive`
(an administrator's UPDATE) are external.

An account disabled while a request of its own has read the row, but not yet
saved it or handed out its tokens, is not closed: the OAuth or profile save writes
`isActive` back as it was read, for good. `DisabledStaysOut` is about accounts
with no such request in flight (`Closed`): those admit nobody, and only the
operator opens them.

Two switches are constants: `MayFail` (commands may reject) and `SameMs` (two
`Date.now()` may coincide).

### ApiKeys

A raw key, its hash and its row are one value. `lookup` alone decides
`validateApiKey`. `ScanData`, `ScanGet` and `ScanEnd` are the scan stream: the
last `data` event and `end` fall into the same turn of the event loop, so the
GETs sent for the last page are never answered in time, while those of earlier
pages may be. `asked`, `returned`, `revoked`, `expired` are history. The DEL of
`apikey:{keyHash}` has no effect, as nothing writes that key.

### CdnCache

`origin` is the storage service as a fetch sees it: a version number, 0 when the
fetch is not answered with 2xx. `redis[g][o]` is the entry of region `g`,
`memory[n][o]` the NodeCache of node `n`, `inbox[n]` the pub/sub messages on
their way to it. A miss in memory runs `RedisGet`, and then either the TTL
command and `MemorySet`, or `Fetch`, `RedisSet`, `MemorySet`; when the TTL
command fails (`TtlFails`), the request goes on to the origin. Purges (`NodePurge`, `FlushRegion` of the
CDN service; `ServicePurge`, `...Bucket`, `...Prefix`, `...All` of the cache
service) are data: pattern, message, follow-up. They scan and
delete page by page (`PurgePage`), publish (`PurgePublish`) and, for the cache
service, append to `purge:history` (`PurgeLog`; only its length is kept). Keys
and patterns are sequences of their `:`-separated parts, which is what decides
whether a pattern matches: the nodes' ioredis `keyPrefix` puts `edgesphere`
before every key and before no pattern, and the cache service joins bucket and
key with `/`, which makes them one part. `Dropped` is the message handler of
`onModuleInit`. External: expiry of both levels, lost subscriptions
(`Disconnect`), uploads and deletes, about which the caches get no message.
Image variants of an object are one entry here; `CdnResponses` has them.

### CdnResponses

One file, one node and the Redis of its region, in the detail `CdnCache` leaves
out: what is stored under which transforms, and how old it is. A body carries
its age since the origin sent it; TTLs count down. `ServeMemory` repeats a stored
response with the max-age it was stored with, `LookUp` and `ReadTtl` are the GET
and the TTL that follows it (of the entry read, of its successor, or of
nothing), `FetchFile` is the origin's answer with the transform, `Store` the
SETEX with the TTL configured at that moment, `Remember` the NodeCache entry.
`Format`, `Coded` and `ContentType` are `ImageOptimizerService` and the
content-type map; `Encoding` is what sharp writes, external. The controller
passes a transform for every image, whether the query asks for one or not.
`Invalidated`, `NodeRestart` and `FileChanges` are what `CdnCache` has of
messages, restarts and uploads. A request lasts at most over one tick.
`AnswersAreTrue` says that an answer is the variant that was asked for, with the
content type of what it is (except for an SVG asked for in an unknown format),
and bounds its age plus the max-age promised.

### SlidingWindow and TokenBucket

A request to `/v1` with credentials passes the window of its user
(`AuthMiddleware`), the window of its address (`ProxyController`) and the user's
token bucket; `/cdn`, register, login and OPTIONS requests only pass the window
of the address. `SlidingWindow` models the windows of one user behind one
address. `Zadd`, `Zremrangebyscore`, `Zcard`, `Expire` are the commands of the
pipeline; `stamp` is the local `now` of `slidingWindow` and the score of the
request's entry, `passedAt` is history. An EXPIRE dates from when Redis executes
it, the score from when the gateway read its clock; `MaxDelay` bounds the time
between the two, and `Tick` also removes an expired key. `NoCount` is the branch
in which `results[2]` has no count and the request is let through; `Refuse` is a
rejected promise, or refused credentials. `SlowPipeline` says whether a pipeline
can be torn: the clock may advance between two of its commands, or the EXPIRE be
lost after the ZCARD was answered. With `SlowPipeline = TRUE` the limit does not
hold: the key may die between ZADD and ZCARD, the request counts zero, passes,
and is forgotten. The property is stated for pipelines that are not torn.

`TokenBucket` measures tokens in the time that refills them, so a tick refills
one unit and `Cost` units are one token; fractions of a token, which the code
keeps as floating-point numbers, are then exact. `spent` and `low` are history:
`low` is the least value `spent - now` ever had, so `BurstBound` bounds every
interval at once. `IdleBucketIsFull` holds for the code's numbers: in the 60 s
of the TTL 600 tokens would be refilled, and the capacity is 100.

The limit of the user's window is read from the platform configuration on every
request; it is a constant here.

### StorageFiles

`bucketId` and `files` are the two tables, `minioBuckets` and `object` is MinIO;
contents are numbered as they are put, and a row carries the number of its
content. `createBucket` is `CreateFind`, `CreateExists`, `CreateMake`,
`CreateSave`; `deleteBucket` is `DropFind`, `DropCount`, `DropExists`,
`DropRemove`, `DropRow`; `uploadFile` is `UploadBucket`, `UploadPut`,
`UploadFind`, `UploadUnlatest`, `UploadSave`; `deleteFile` is `DeleteFind`,
`DeleteObject`, `DeleteRow`. `findOne` without an order is a choice. TypeORM's
`save` of a row that has been removed meanwhile inserts it again, which
`UploadUnlatest` does. `PresignedPut` is a client that uses a presigned URL: the
object changes and no row does. `CompleteAssemble`, `CompleteSave` are the end of a
multipart upload (module `Multipart` has the rest): its row goes into the same table
with the bucket's *name* as `bucketId`, so that no query, all of which ask for an
id, ever finds it, and a bucket that has such files counts as empty; its object takes the
place of the one the other rows describe. `NamesAreNoIds` says that names and ids (UUIDs)
differ. Sizes, content types and owners are left out:
what fails their tests changes nothing.

Rows and objects need not agree: a failed or repeated operation leaves objects
without rows and rows without objects, and version numbers may repeat after a
delete. What must hold, and does for one request at a time, is that the latest
row is the newest and that no row outlives its bucket.

### EventPipeline and EventDelivery

`publish[e]` is where `publishRequestEvent` is for the response `e`; `log` and
`dlq` are the two topics, `group` the position and the committed offset of their
two consumer groups. `Send`, `SendFails`, `Park` are `EventPublisherService`,
`TakeEntry`, `Resend`, `Repark` the worker of `DlqService`; a send that fails
may have been written all the same (`MaybeWritten`). `Consume`, `FlushTimer`,
`Ingest`, `IngestFails` are `KafkaConsumerService`: `batch` is what it has
collected, `flushing` what it is inserting, `blocked` says that `eachMessage`
awaits the flush it started. `Commit` is kafkajs's, up to the messages whose
`eachMessage` has resolved: offsets are committed before the insert. A consumer
group that has no offset joins at the end of its topic, so what was written
before it is missed; the worker subscribes to a pattern, which stands for the
topics there are at that moment, so that it never sees a dead-letter topic that is
made later, by the first message sent to it, until it joins again (`dlqTopic`); a consumer whose first connection failed stays off until
the process restarts. `GatewayCrash` and `AnalyticsCrash` empty what is in
memory.

`OutcomesHaveCauses` gives the reasons for each loss and each double row.
`EventDelivery` is the promise to one event: it is published, travels, and is
stored or lost, once; `StatusOf` computes that state from the pipeline's, and
`ImplementsDelivery` is `EventDelivery`'s specification under
`status <- StatusOf`. An event is stranded while the one consumer that could
move it is off. The abstract liveness (`Settles`) is a leads-to rather than a
weak fairness condition, because what moves an event depends on the way it takes.

### Analytics

`rows` is `request_events`. The queries are operators over it, grouped,
averaged, rounded and cut off (`LIMIT`, any choice among equals) as their SQL
does; times are whole minutes, percentages and percentiles are in hundredths.
`Rounded` is SQL's `ROUND`, `Ratio` the division the service does itself. `getSummaryStats` and `searchEvents` start their queries with
`Promise.all`; `Ask...` starts them, `Answer` lets one of them see the table
of the moment, `Respond` returns. `report.changed` counts the rows that came into
or left what the report looks at while its queries ran.

`ReportsReconcile` has two parts. `ReportsAddUp` relates queries of one snapshot:
series and groups add up to the totals, percentiles are in order, no edge was last
seen before the window, and the countries' shares add up to a whole up to half a
hundredth of a percent for each listed country: six equal ones make 100.02, and what
`LIMIT` cuts off is missing. `AnswersCoherent` bounds how far the parts of one answer
can be apart although each query sees a snapshot of its own: by `report.changed`,
in users over requests and in rows on a page against the count.

### Alerts and AlertsPage

A check walks the array `this.rules` it found. `updateRule` and `createRule`
change that array in place and `deleteRule` replaces it, so a check that awaits
keeps the old array (`shared` is then FALSE). `VisitRule` looks at the next
rule, `Evaluate` is the summary's arrival with the whole of the trigger
(`lastTriggered`, the history with its cap), `SendChannel` one channel's
answer, `EndDispatch` the one record of the dispatch. `overlapped` remembers
that a second check began while another ran: `DebounceHolds` is about checks that
do not overlap, as overlapping ones may both fire.

`AlertsPage` extends `Alerts`: its requests (`ServeRule`) are the rules API,
while checks run. The page sends `channels` as an object, which the service
stores, and its toggle sends a PATCH for which there is no route.

### Realtime

`received` is when each request event came; `EmitMetrics` is the emitter's
interval, which filters by the window and broadcasts. `late` has the samples that an
update met which Node served after its time: only for those `MetricsCountOnce` allows
that they were never counted. The feed half is the browser's single socket:
`wire` are emits on their way to the server, `buffer` emits made while the
socket is down, `mounted` the hooks. `Break` drops the rooms the server kept.
`FeedFollowsHooks` says what holds once everything sent has
arrived: the rooms of the connection are those of the hooks mounted since the last
break, and no others. Hooks mounted before a break stay without their rooms, as
nothing subscribes them again.

### Multipart

A session is in process memory (`session`, `parts`), the parts are in MinIO
(`minio`, `atMinio`), the row in Postgres. A call keeps the session object it
found, so that a part may be pushed into a session that is already completed.
`StorageRestart` loses sessions and calls. `UploadsStayWhole` says that a row
is saved at most once and only for an assembled object, and that, as long as no
part was counted twice, such an object has every part.

### EdgeDelivery

A body is a file or an error (both caches treat them alike, so they are one kind)
with the time since it was made; TTLs count down, ages count up. The gateway's part
is `GwGet`, `Reply`, `GwStore`; the edge's is `EdgeGet` and `EdgeGetTtl` (GET and TTL
on its Redis level, two commands), `DiskGet`, `OriginGet`, `OriginFails` (the edge's own
502 and 500, which it does not store, but the gateway does), `EdgeStore`,
`EdgeStoreDisk`. A body from disk has no max-age. The writes are not awaited by anybody
(a floating promise, a goroutine). `EdgePurge` deletes the key that the purge's path
makes, which is not the key the request's path makes.

`BoundedStaleness` bounds the age of what both caches hold, and the age plus the
max-age of what the gateway answers, by the two TTLs and a tick for each flight
between them. One race costs more: when the entry is replaced between GET and TTL
(`mixed`), an old body is promised for what the new entry has left, and the bound is one
edge TTL higher. The run reaches that case, and the property states both bounds.

### Resilience

`HandleKnown` is a request whose service has a proxy: the promise given to the
breaker resolves when the proxy is started, which is why it counts as a success
whatever the proxy answers. `HandleUnknown` is the 404 of a
service without one. opossum's statistics are external:
`fired`, and `Opens` for what its threshold does. The health check asks one
service after the other: `AskService` reads the breaker's state and sends the
request, `CheckService` is its answer or its failure. `HealthyMeansUp` says that a healthy
answer vouches for every service having answered at some time during the check.

### PlatformConfig

A value in the hash is a string, of which two things matter (`Setting`): what the
controller's comparisons see (`compared`, as `Number` has it) and what `parseInt(..., 10)`
makes of it (`read`). `Accepts` is the PATCH's range check on the one, `Read` the readers'
view of the other. They differ for texts: `"0s"` is no number to the comparisons, all of
which are then false, and 0 to the readers; `"0x10"` is 16 and 0; `"99999999s"` passes and is
read as 99999999. `ConfigInRange` says that what is read is in range as long as no such text
has been sent, whatever the page's forms hold back; the page sends numbers, and `null` for
what is none. The effect of the settings page fills the form when an answer differs from the
data SWR has. `EditsSurvivePolls` says that what has been typed only goes when
the configuration has changed, not with every poll.

### DashboardClient and the pages

`DashboardClient` has one store per tab and one `localStorage`: redux-persist
loads it once and writes it after changes (`Load`, `Save`), so two tabs may hold
the same refresh token. `Request`, `Unauthorized`, `Renew`, `Refuse`,
`Refreshed`, `RetryFails` are the request function of `lib/api.ts`. The tabs are
of one browser, so one device to the auth service: a login replaces the refresh token of the
same user's earlier login there (`LoggedIn`), and `EndSession` is the service's other
ways to end a session (expiry, eviction, an account disabled). A session is
*spoilt* when its newest tokens may be with nobody: an answer was lost, two
tabs or requests held the same tokens. `RefusedOnlyIfSpoilt` says that a refresh is
refused in a spoilt or ended session only. It is about refusals: a good session is
signed out, too, when the retry after a refresh fails for whatever reason, or when the answer to
a refresh is lost.

The pages are their handlers, await by await, with what the render they began in
had in hand (`work`, `keyWork`, `purgeWork`, `alertWork`); dialogs are modal, and
disabled buttons are guards. `Swr` has what the pages rely on: one GET of a key
at a time, and `mutate`, which forgets the one under way. Pages say that
something is gone in a toast; `PagesStayTrue` says that nothing said to be gone
is listed again, that a reported purge stays in the history until as many newer ones
as it keeps have come (`PurgeCap`, 100 in the code; `PurgeElsewhere` are purges by
others), and that the panels of the overview are parts of one round.

## 3. Runs

| Run | Shows | Bounds |
|---|---|---|
| `auth_concurrent` | two handlers interleaved (OAuth and profile saves among them), with failures and clock ties: tokens stay under their key, dead tokens stay dead, a disabled account without a request in flight admits nobody | 1 user, 2 devices, limit 1, 2 tokens, 2 timestamps: enough for a login, a refresh and an eviction to overlap |
| `auth_sequential` | one handler at a time: one-time use, session limit, every valid token tracked | 2 users, 3 devices, limit 2, 3 tokens, so that eviction happens and another user stands by |
| `api_keys` | no key is lost to another key's revocation | 3 keys, 2 requests |
| `api_key_revoke` (violation) | a revoked key still validates | 1 request |
| `cdn_safety` | an outdated version that left a region never returns | 2 regions with a node each, 2 requests, 1 purge, 1 version and its deletion |
| `cdn_convergence` | TTLs alone make every cache current or empty in the end | 1 region, 2 nodes, 2 requests, 3 versions, nobody purges |
| `sliding_window` | no interval as long as the window less `MaxDelay` lets more than the limit through, at both windows | 3 requests with or without credentials, one of which may fail, limits 1 and 2, 4 ticks of a window of 3: entries are trimmed and the key expires |
| `token_bucket` | no interval spends more than a full bucket, its refill and a token | 1 request at a time, capacity of a token and a half, 14 ticks, so that the key expires and fills up again; the types are proved only (`TokenBucketProofs!TypeCorrect`) |
| `storage_files` | the latest row of a file is its newest, no row outlives its bucket | 1 request at a time, failing anywhere, 2 buckets, 2 keys, 2 bucket rows, 4 contents: re-created buckets, three versions of a key, a presigned upload and the end of a multipart upload |
| `event_pipeline` | losses and double rows have their named causes; the pipeline implements `EventDelivery`, its liveness included | 2 events that meet in one batch of 2, 1 retry, 2 faults: a fault can hit a send and its parking, or a flush and what comes after it |
| `services` | `Analytics`, `Alerts`, `Realtime`, `Multipart`, `EdgeDelivery`, `Resilience`, `CdnResponses`, one property or two each | 2 rows of 3 kinds, 1 country listed; 2 checks, 2 rules with 3 channels, 1 edit; 2 events, 4 mounts or breaks, a window of 2 in 4 ticks; 1 upload of 2 parts, 3 sends, 2 calls, 1 fault; 2 requests, TTLs 1 and 2, so that an entry can be replaced between the GET and the TTL of another request; 2 proxied requests, 3 fires over a threshold of 2; an SVG untransformed or asked for in an unknown format, 2 requests, TTLs of 1 in Redis and 2 in memory, a default of 2 |
| `dashboard` | `DashboardClient`, the pages, `AlertsPage` over `Alerts`, `PlatformConfig`, `Overview` | 2 tabs, 2 requests, 2 logins of a user, 2 token pairs of each; 2 buckets on pages of 1; 2 keys, 2 revocations; 2 purges and a history of 1; 1 edit of a rule beside a check; 2 fields with values around their range, and the text `0s`; 3 rounds of 3 panels |

Deadlock is checked except in `api_keys`, `sliding_window`, `event_pipeline`,
`services` and `dashboard`, whose bounded supplies (keys, requests, events,
time, edits) run out. Request slots are symmetric; symmetry is not used for the
liveness runs, nor in the two compositions. Constants whose name begins with
`Max` and whose comment says "bound" are bounds of the model, not of the code;
`MaxToken`, `MaxTime`, `MaxVersion`, `MaxInbox`, `MaxBucket` and `MaxPut` are
further ones.

The violation run is a real disagreement between the code and a comment of the
repository (`findings` in `PROJECT.json`). `OneTimeUse` and `AtMostMaxSessions`
hold for one request at a time only: two refreshes of one token that both GET
before either DEL both succeed, and two logins that both ZADD before either
ZCARD evict the same oldest session.

Fairness. `CdnCache!Fairness` is weak fairness of the steps of a request in
flight (Node resumes a handler whose promise settled; a promise that rejects is
`Fail`) and of the expiry of each entry (`SETEX` and `stdTTL` give every entry a
TTL). Nothing is assumed of purges, messages, uploads or clients.
`EventPipeline!PipelineFairness` is weak fairness of every step of a promise that
settles (a send, a resend, an insert; each in one way or the other), of the
flush timer, and of a running consumer, which polls and commits. Nothing is
assumed of responses, faults, or restarts; a restart clears what is in memory,
which is progress of the event too.

## 4. Proofs

All theorems hold for every value of the constants that satisfies the named
assumptions (non-empty sets, natural bounds, a finite set of devices).

* `AuthSessionsProofs`. `TypeCorrect` is inductive by itself.
  `TokensUnderTheirKeyCorrect` needs that tokens are issued in order
  (`IssuedInOrder`: no issued token has a number above `lastToken`), and
  `DeadTokensCorrect` follows: `SetToken` always writes a number no issued token
  has. `DisabledStaysOutCorrect` goes action by action: while no request of an inactive
  account is past its check of the row, no step makes the account active but the
  operator's, and none hands out a token for it. `SequentialOneTimeUse` assumes a single request slot
  and uses `OneTimeInv`: the token a refresh carries has not been exchanged and
  is under no other key. `SequentialSessionLimit` assumes in addition no
  failures and no clock ties and uses `SessionInv`: while minting, the newest
  score belongs to the request's own device (so eviction cannot choose it), the
  number of sessions is known at every program point, and what is being removed
  has no token left. `SequentialTracking` follows from the same invariant.
* `ApiKeysProofs`. `TypeCorrect`, and `ReturnedKeysWorkCorrect`: the strengthening `DeletesOwn` says
  that a revocation only collects the entry of its own key, which has been
  asked for; without it a DEL could remove anything.
* `CdnCacheProofs`. `StaleNeverReturnsCorrect` is an action property over
  `TypeOK`: each copy of a version comes from the same region or from the
  origin. `PurgesLeaveRedis`: no step of a purge changes what Redis has cached, because
  all patterns begin with `cdn` and all keys with `edgesphere`.
* `SlidingWindowProofs`. `AtMostLimitCorrect` assumes that no pipeline is torn
  and uses `WindowInv`: a pipeline in flight is on time; a request between ZADD
  and ZCARD is in the set and not yet judged; whoever was let through within the
  sure part of the window is still in the set (`Retained`), because no reading
  of the clock in flight is older than `MaxDelay` and the key outlives its
  entries (`KeyLives`). ZCARD then counts a superset of the requests let through.
* `TokenBucketProofs`. `SequentialBurstBound` assumes one request at a time. The
  invariant bounds `spent` plus the tokens a future HMGET can find, at every
  program point; the extra token is the one of a request that is let through
  after its HMSET was undone by the expiry of the key.
* `StorageFilesProofs`. `TypeCorrect` holds for any number of requests and needs
  `LocalsOK` (an upload knows its bucket and, once put, its content).
  `SequentialLatestIsNewest` and `SequentialRowsHaveBuckets` assume one request
  at a time; `HandlerInv` says that an upload in flight carries a content newer
  than every row, that nothing is marked latest when it saves its row, and that
  a bucket about to be dropped has no rows.

* `ServicesProofs`, a section per component, each with the component's inductive
  invariant:
  * `Analytics`. `NearInv`: what a report has got is off from what the table would
    give now by at most the rows that came or went since it was asked for; `CurrentInv`: it is
    the same when there were none. `AnswersAgree` follows.
    `ReportsAgree` is the whole of `ReportsReconcile`. It needs of the table only
    that it is finite and within its bound. The rest is about sums: `Folded` unfolds
    the library's fold over a set into the function `Adds`, and from there each law
    of sums is an induction over the subsets of a finite set. It is carried out as a
    choice of a smallest counterexample (`SmallestSet`, from the well-foundedness of
    strict inclusion). `SumOfGroups` and `CountOfGroups` are the laws of `GROUP BY`,
    `SumOfShares` bounds sums of rounded percentages from both sides, and `RanksRise` and `PlacesRise` order
    what `percentile_cont` interpolates.
  * `Alerts`. `WalkInv`: a check has seen the ids of all rules before its index
    in the array it walks, even where an edit has replaced a rule in place
    (`NoRuleIsSkipped`). `AloneInv`: as long as checks do not overlap,
    `lastTriggered` is at least as new as every record, and between the debounce
    test and the record nothing fires (`AlertsDebounced`). `SentInv`: whatever is
    no longer to do was sent, excused or failed (`SuccessWasSent`). That theorem
    assumes `Arrays`, that every rule's `channels` is an array as the type
    declares: the API does not check it and the page's form sends an object, for
    which the loop over `channels` sends nothing.
  * `Realtime`. `MetricsInv`: a sample not counted yet is in the window or was met
    by a late update, and came no earlier than the last update unless it is such a one; one counted
    once came no later (`MetricsAreComplete`). `FeedInv`: the last message about a room on the wire
    or in the buffer, or else the server's room, says whether its hook is current
    (`FeedIsTheHooks`).
  * `Multipart`. `HeldInv`, `WholeInv`, `RowInv`: MinIO has what is counted, parts
    are only added after the count, and one call at most is saving a row. That
    `n` distinct part numbers of `1..n` are all of them is the lemma `Distinct`
    (`UploadsAreWhole`).
  * `EdgeDelivery`. `EdgeAges`: an entry has aged by what its TTL has lost since
    it was written, and who carries an answer does so over one tick at most; a
    max-age is either of the body it is sent with or marked `mixed`
    (`EdgeStalenessBounded`). It needs that nothing on disk is ever fresh.
  * `Resilience`. `CallInv` and `HealthInv`: during a check, what is up now was up
    at some time of it, and so was every service asked so far unless the check
    has seen a failure (`HealthyWasUp`).
  * `CdnResponses`. `StoredFine`, `RememberedFine`, `GetFine`: each entry and each
    request has the variant of its key and an age bounded by the TTLs spent
    (`AnswersStayTrue`).
  * `EventPipeline`. `PipelineInv`: a consumer's position is between its commit
    and the end of its topic, the worker stands before the entry it works on, a
    blocked `eachMessage` belongs to a message being inserted, and nothing is
    heard of an event before its response. For `EventOutcomesHaveCauses`,
    `AccountedInv` says where an event is if nothing failed that could lose it,
    and `OnceInv` that it is there once if nothing failed that could repeat it.
    `PipelineKeepsEnds` is the refinement of `EventDelivery` without its liveness: each
    step of the pipeline, restarts included, maps under `StatusOf` to a step of
    `DeliverySafety` or to a stutter; `StatusInv` spells out `StatusOf`, and `LowInv`
    what a consumer would read again.
  * `ServicesTyped` and `ServicesSafe` carry these over to `MCServices`
    (`Composed`).
* `DashboardProofs`, likewise:
  * `DashboardClient`. `ClientInv`: in a session neither spoilt nor ended, every request
    under way has the newest tokens, and so has every tab unless one of its
    requests is about to bring them (`RefusalsAreExplained`). `SignOutIsFinal`
    goes action by action.
  * The pages. What they share is one argument about SWR: a GET for which a
    handler waits began after the handler's change, so that its answer has the
    change, and a poll's answer that is older is forgotten by `mutate`. It is
    `StorageInv` (`FilesGetsAreNew`, `FetchedUnlisted`), `KeysInv`
    (`KeysGetIsNew`), `CdnInv` (`HistoryGetIsNew`) and `AlertsPageInv`
    (`RulesGetIsNew`, on top of `AlertInv`, as the page runs beside the checks);
    the theorems are `StorageStaysTrue`, `RevokedKeysStayOff`, `PurgesAreListed`,
    `DeletedRulesAreOff`. `SecretsShownOnce` is an action property from
    `KeysInv`.
  * `PlatformConfig`. `ConfigStaysInRange` is inductive with the types: after every PATCH each
    field of the hash is read in range, or is a text that the comparisons misread. `EditsAreKept` goes action by
    action.
  * `Overview`. `OverviewInv`: only rounds that have begun wait for an answer
    (`OverviewShowsOneRound`).
  * `DashboardTyped`, `DashboardStaysTrue` and `DashboardSteps` carry these over to
    `MCDashboard`.

The assumptions on constants are non-empty sets and natural bounds, and: a batch
limit and a number of retries of at least 1 (`PipelineAssumption`), TTLs of at least
1 (`EdgeAssumption`, `ResponseAssumption`), a bucket's TTL in which it fills up
(`IdleBucketIsFull`), bucket names that are no ids (`NamesAreNoIds`), a `MaxDelay` shorter than the window, at least one upload
(`MultipartAssumption`), a health check that goes through a finite list
(`ResilienceAssumption`), events whose latency is an integer and whose size is a
natural number, as the columns and the gateway's measurement have them
(`AnalyticsAssumption`), and that `"poll"`, the name of SWR's own requests, is the
name of no handler's (`PageAssumption`, `KeysAssumption`, `PurgesAssumption`), and a history of at least one purge (`PurgesAssumption`). TLC
evaluates all of them for the constants of the runs.

The invariants were first checked by TLC as invariants of the runs' instances.
Every safety property of a passing run is stated by a theorem, some of them under the
conditions given above. Only model-checked are:

* `Convergence` and the liveness of `ImplementsDelivery` (`Settles`): liveness under
  fairness is outside the prover's reach;
* the violation, which is a counterexample.

## 5. Plan

1. Downloads: a content per version in `StorageFiles`, so that a download of an
   older version can be compared with what was uploaded as it.
2. `EdgeDelivery` on top of `StorageFiles` as its origin.

## 6. Not modelled

Geo routing (`GeoService`) has no caller. Metrics, logging and health
endpoints have none that other parts read, and the analytics service's own
producer of health metrics has no consumer. Deployment manifests, Terraform,
scripts and the packages of shared types are outside, as are the pages that show
the answer of a GET and have no handler that changes anything (analytics, edges,
monitoring), the layout, sorting, the upload zone and the profile form.
The cache service's subscription to `storage:events`, and the consumers of
`alerts.triggered` and `system.events`, never receive anything: nothing in the
repository publishes to them.

Of the modelled parts, this is what the code does and no run claims otherwise:

* No purge deletes anything from the nodes' Redis (proved, `PurgesLeaveRedis`),
  and the message of a purge of everything empties no node's memory.
* Two requests at once with one refresh token both get a pair.
* The route of the CDN does not pass the upstream's status on, so error bodies
  are cached as if they were files; `BoundedStaleness` covers them. It also
  strips `/cdn`, so that with the default `CDN_SERVICE_URL` the path is unknown.
* A breaker never sees a proxy's failure, so that it does not open on one.
* Three of the four default alert rules (1, 3 and 4) never fire, because the summary
  has no such field or measures it in another unit; rules made with the page's form
  are dispatched to no channel; the page's toggle has no route.
* Texts pass the configuration's range check and are read as something else: `"0s"` and
  `"0x10"` as 0, `"99999999s"` as 99999999, `"x"` as NaN.
* An account disabled while an OAuth login or a profile update of its own has read its row is
  active again after the save, for good.
* An edge entry replaced between GET and TTL gives an old body its successor's max-age, up
  to 3600 s more, which the gateway keeps.
* The DLQ worker does not see a dead-letter topic made after it subscribed: at its
  next start it joins at the end, so that entries written until then are never retried.
* The row of a multipart upload carries the bucket's name for its id: it is never listed,
  downloaded, versioned or counted.
* When the request repeated after a good refresh fails, the user is logged out; a second login
  of the same user in one browser ends the first one's session.
* A restart loses the sessions of multipart uploads while MinIO keeps the parts.
* An older round of the overview that comes back late replaces a newer one.
* The storage page says "No buckets yet." on a last page that has been emptied.
