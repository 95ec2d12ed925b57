------------------------------ MODULE Analytics ------------------------------
(***************************************************************************)
(* AnalyticsService: the table request_events, the queries behind          *)
(* /analytics/*, and the two calls that send several queries at once       *)
(* (getSummaryStats and searchEvents), while batches are inserted and the  *)
(* window moves.                                                           *)
(*                                                                         *)
(* Time is in minutes.  A ratio the service divides itself is kept to its  *)
(* first two decimals; what SQL rounds is rounded as it does.  A query     *)
(* sees one snapshot of the table; two of one report may see different     *)
(* ones.                                                                   *)
(***************************************************************************)
EXTENDS Integers, Sequences, SequencesExt

CONSTANTS
    Samples,    \* the events that are inserted: records without time and id
    Null,       \* a column that is NULL
    Windows,    \* values of ?window=
    Limits,     \* values of ?limit= and, with 0, of ?offset=
    MaxLimit,   \* searchEvents returns at most so many rows (200)
    MaxCountries, \* getGeoDistribution lists at most so many countries (20)
    MaxRows, MaxMinute \* bounds: rows of the table, minutes that pass

ASSUME AnalyticsAssumption ==
    /\ Windows \subseteq Nat \ {0}
    /\ Limits \subseteq Nat \ {0}
    /\ {MaxLimit, MaxCountries, MaxRows, MaxMinute} \subseteq Nat
    /\ \A s \in Samples : s.latencyMs \in Int /\ s.bytes \in Nat

VARIABLES
    rows,   \* request_events
    minute, \* NOW()
    report  \* the summary or search in progress, or its answer

analyticsVars == <<rows, minute, report>>

NotNull(S, column) == {r \in S : r[column] # Null}
-----------------------------------------------------------------------------
(* The queries.                                                             *)

\* WHERE time > NOW() - INTERVAL w
RowsInWindow(w) == {r \in rows : r.time > minute - w}

\* GROUP BY column: the group of each value.
GroupsOf(S, column) ==
    [v \in {r[column] : r \in S} |-> {r \in S : r[column] = v}]

\* hits / total and errors / total, in hundredths.
Ratio(part, whole) == IF whole = 0 THEN 0 ELSE (100 * part) \div whole
\* ROUND(x / n): the nearest integer, half of one counting as one.
Rounded(x, n) == (2 * x + n) \div (2 * n)
SumOfSeries(f) == MapThenSumSet(LAMBDA x : f[x], DOMAIN f)
SumOver(S, column) == SumOfSeries([r \in S |-> r[column]])
Average(S, column) == IF S = {} THEN 0 ELSE SumOver(S, column) \div Cardinality(S)
Failed(S) == {r \in S : r.status >= 400}
Hits(S) == {r \in S : r.cacheHit}

getRequestRate(w) ==
    LET g == GroupsOf(RowsInWindow(w), "time") IN [t \in DOMAIN g |-> Cardinality(g[t])]
getBandwidthOverTime(w) ==
    LET g == GroupsOf(RowsInWindow(w), "time") IN [t \in DOMAIN g |-> SumOver(g[t], "bytes")]
getCacheHitRatioTimeSeries(w) ==
    LET g == GroupsOf(RowsInWindow(w), "time")
    IN  [t \in DOMAIN g |-> Rounded(100 * Cardinality(Hits(g[t])), Cardinality(g[t]))]

getCacheHitRatio(w) ==
    LET S == RowsInWindow(w) IN
    [hits |-> Cardinality(Hits(S)), misses |-> Cardinality(S) - Cardinality(Hits(S)),
     hitRatio |-> Ratio(Cardinality(Hits(S)), Cardinality(S)),
     cachedBytes |-> SumOver(Hits(S), "bytes")]

getErrorRate(w) ==
    LET S == RowsInWindow(w) IN
    [errors |-> Cardinality(Failed(S)), total |-> Cardinality(S),
     errorRate |-> Ratio(Cardinality(Failed(S)), Cardinality(S))]

\* The latency of the row at position k, from 0, in the order of latency.
AtRank(S, k) ==
    CHOOSE x \in {r.latencyMs : r \in S} :
        /\ Cardinality({r \in S : r.latencyMs < x}) <= k
        /\ Cardinality({r \in S : r.latencyMs <= x}) > k

\* percentile_cont(q / 100), in hundredths of a millisecond: linear between
\* the two rows next to position q(n-1)/100.
percentile_cont(q, S) ==
    LET n == Cardinality(S)
        place == q * (n - 1)
        low == AtRank(S, place \div 100)
        high == AtRank(S, IF place % 100 = 0 THEN place \div 100 ELSE place \div 100 + 1)
    IN  IF n = 0 THEN 0 ELSE 100 * low + (place % 100) * (high - low)

getLatencyPercentiles(w) ==
    [q \in {50, 95, 99} |-> percentile_cont(q, RowsInWindow(w))]

\* ORDER BY count DESC LIMIT n: any choice among equals.
TopGroups(n, g) ==
    {T \in SUBSET DOMAIN g :
        /\ Cardinality(T) = Min({n, Cardinality(DOMAIN g)})
        /\ \A v \in T, o \in DOMAIN g \ T : Cardinality(g[v]) >= Cardinality(g[o])}

getTopPaths(n, w) ==
    LET g == GroupsOf(RowsInWindow(w), "path")
    IN  {[v \in T |-> [count |-> Cardinality(g[v]), avgLatency |-> Average(g[v], "latencyMs")]]
            : T \in TopGroups(n, g)}

\* A share is of all countries, the listed ones or not, in hundredths of a percent.
getGeoDistribution(w) ==
    LET S == NotNull(RowsInWindow(w), "country")
        g == GroupsOf(S, "country")
    IN  {[v \in T |-> [count |-> Cardinality(g[v]),
                       pct |-> Rounded(10000 * Cardinality(g[v]), Cardinality(S))]]
            : T \in TopGroups(MaxCountries, g)}

getRequestsByService(w) ==
    LET g == GroupsOf(NotNull(RowsInWindow(w), "service"), "service")
    IN  [v \in DOMAIN g |-> [count |-> Cardinality(g[v]),
                             errorCount |-> Cardinality(Failed(g[v]))]]
getEdgeStats(w) ==
    LET g == GroupsOf(NotNull(RowsInWindow(w), "edgeRegion"), "edgeRegion")
    IN  [v \in DOMAIN g |->
            [requests |-> Cardinality(g[v]),
             cacheHitRatio |-> Rounded(10000 * Cardinality(Hits(g[v])), Cardinality(g[v])),
             avgLatencyMs |-> Average(g[v], "latencyMs"),
             lastSeen |-> Max({r.time : r \in g[v]})]]
getActiveUsers(w) == Cardinality({r.userId : r \in NotNull(RowsInWindow(w), "userId")})
-----------------------------------------------------------------------------
(* getSummaryStats and searchEvents.                                        *)

\* A filter names a status class, a service, both or neither.
Filters == [statusClass : {0, 2, 4, 5}, service : {r.service : r \in Samples}]
MatchingRows(S, f) ==
    {r \in S : /\ f.statusClass # 0 => r.status \div 100 = f.statusClass
               /\ f.service # Null => r.service = f.service}
Matching(f) == MatchingRows(rows, f)

\* ORDER BY time DESC LIMIT n OFFSET o: rows of the same time in any order.
Pages(S, n, o) ==
    {SubSeq(s, o + 1, Min({o + n, Len(s)})) :
        s \in {s \in SetToSeqs(S) : \A i, j \in DOMAIN s : i < j => s[i].time >= s[j].time}}

SummaryQueries == {"total", "hitRatio", "p95", "errorRate", "activeUsers", "bytes", "avg"}
SearchQueries == {"data", "count"}

\* Mutant: getActiveUsers is called without the window and takes its default.
SummaryValueDefault(q, w) ==
    CASE q = "total" -> getErrorRate(w).total
      [] q = "hitRatio" -> getCacheHitRatio(w).hitRatio
      [] q = "p95" -> getLatencyPercentiles(w)[95]
      [] q = "errorRate" -> getErrorRate(w).errorRate
      [] q = "activeUsers" -> getActiveUsers(15)
      [] q = "bytes" -> SumOver(RowsInWindow(w), "bytes")
      [] q = "avg" -> Average(RowsInWindow(w), "latencyMs")

SummaryValue(q, w) ==
    CASE q = "total" -> getErrorRate(w).total
      [] q = "hitRatio" -> getCacheHitRatio(w).hitRatio
      [] q = "p95" -> getLatencyPercentiles(w)[95]
      [] q = "errorRate" -> getErrorRate(w).errorRate
      [] q = "activeUsers" -> getActiveUsers(w)
      [] q = "bytes" -> SumOver(RowsInWindow(w), "bytes")
      [] q = "avg" -> Average(RowsInWindow(w), "latencyMs")

\* The data query has its limit capped; the count query has none.
SearchValues(q, f, n, o) ==
    IF q = "count" THEN {Cardinality(Matching(f))}
                   ELSE Pages(Matching(f), Min({n, MaxLimit}), o)

\* A report with what it got so far, for each query the value it returned,
\* and how many rows entered or left what it looks at since it was asked for.
NoReport == [kind |-> "none"]
Summaries(G) == [kind : {"summary"}, window : Windows, got : G, changed : Nat]
Searches(G) ==
    [kind : {"search"}, filter : Filters, limit : Limits, offset : Limits \cup {0},
     got : G, changed : Nat]
Asked == IF report.kind = "summary" THEN SummaryQueries
         ELSE IF report.kind = "search" THEN SearchQueries ELSE {}
AllAnswered == report # NoReport /\ DOMAIN report.got = Asked
With(g, q, v) == [x \in DOMAIN g \cup {q} |-> IF x = q THEN v ELSE g[x]]

\* The columns of an event's row.
Row(s, i, t) ==
    [id |-> i, time |-> t, status |-> s.status, cacheHit |-> s.cacheHit,
     latencyMs |-> s.latencyMs, bytes |-> s.bytes, path |-> s.path, service |-> s.service,
     country |-> s.country, edgeRegion |-> s.edgeRegion, userId |-> s.userId]

AnalyticsTypeOK ==
    /\ rows \subseteq {Row(s, i, t) : s \in Samples, i \in 1..MaxRows, t \in 0..MaxMinute}
    /\ minute \in 0..MaxMinute
    /\ \/ report = NoReport
       \/ /\ report \in Summaries({report.got}) \cup Searches({report.got})
          /\ DOMAIN report.got \subseteq Asked

AnalyticsInit == rows = {} /\ minute = 0 /\ report = NoReport

\* What the queries of the report in progress look at.
InScope(r) ==
    CASE report.kind = "summary" -> r.time > minute - report.window
      [] report.kind = "search"  -> r \in MatchingRows({r}, report.filter)
      [] OTHER -> FALSE
ChangedBy(S) ==
    report' = IF report = NoReport THEN report
              ELSE [report EXCEPT !.changed = @ + Cardinality(S)]

\* ingestEventBatch: an event may be older than rows that are already there.
InsertEvent(s, t) ==
    /\ Cardinality(rows) < MaxRows
    /\ LET row == Row(s, Cardinality(rows) + 1, t) IN
         /\ rows' = rows \cup {row}
         /\ ChangedBy({r \in {row} : InScope(r)})
    /\ UNCHANGED minute

Minute ==
    /\ minute < MaxMinute
    /\ minute' = minute + 1
    /\ ChangedBy({r \in rows : report.kind = "summary" /\ r.time = minute' - report.window})
    /\ UNCHANGED rows

AskSummary(w) ==
    /\ report = NoReport
    /\ report' = [kind |-> "summary", window |-> w, got |-> <<>>, changed |-> 0]
    /\ UNCHANGED <<rows, minute>>

AskSearch(f, n, o) ==
    /\ report = NoReport
    /\ report' = [kind |-> "search", filter |-> f, limit |-> n, offset |-> o,
                got |-> <<>>, changed |-> 0]
    /\ UNCHANGED <<rows, minute>>

\* One query of the Promise.all is answered; the others still run.
Answer(q) ==
    /\ q \notin DOMAIN report.got
    /\ \E v \in IF report.kind = "summary" THEN {SummaryValue(q, report.window)}
                ELSE SearchValues(q, report.filter, report.limit, report.offset) :
         report' = [report EXCEPT !.got = With(report.got, q, v)]
    /\ UNCHANGED <<rows, minute>>

\* The report returns what it got.
Respond == AllAnswered /\ report' = NoReport /\ UNCHANGED <<rows, minute>>

AnalyticsNext ==
    \/ \E s \in Samples, t \in 0..minute : InsertEvent(s, t)
    \/ Minute
    \/ \E w \in Windows : AskSummary(w)
    \/ \E f \in Filters, n \in Limits, o \in Limits \cup {0} : AskSearch(f, n, o)
    \/ \E q \in Asked : Answer(q)
    \/ Respond

AnalyticsSpec == AnalyticsInit /\ [][AnalyticsNext]_analyticsVars
-----------------------------------------------------------------------------
\* The listed countries' shares, in hundredths of a percent: rounding adds or
\* takes half a hundredth for each of them at most, and only the countries
\* LIMIT cuts off may be missing from the whole.
SharesMakeAWhole(geo, located) ==
    LET shares == SumOfSeries([v \in DOMAIN geo |-> geo[v].pct])
        listed == Cardinality(DOMAIN geo)
    IN  /\ 2 * shares <= 20000 + listed
        /\ located # {} /\ DOMAIN geo = {r.country : r \in located} =>
              2 * shares >= 20000 - listed

\* The reports the dashboard shows side by side describe the same requests,
\* whatever their grouping: the rate and bandwidth series, the cache ratio, the
\* errors, the services and the countries' shares add up, and the percentiles are
\* in order.
ReportsAddUp ==
    \A w \in Windows :
        LET S == RowsInWindow(w)
            byService == getRequestsByService(w)
            p == getLatencyPercentiles(w)
            cache == getCacheHitRatio(w)
            located == NotNull(S, "country")
            edges == getEdgeStats(w)
        IN  /\ SumOfSeries(getRequestRate(w)) = getErrorRate(w).total
            /\ DOMAIN getCacheHitRatioTimeSeries(w) = DOMAIN getRequestRate(w)
            /\ cache.hits + cache.misses = getErrorRate(w).total
            /\ cache.cachedBytes <= SumOfSeries(getBandwidthOverTime(w))
            /\ \A v \in DOMAIN byService : byService[v].errorCount <= byService[v].count
            /\ SumOfSeries([v \in DOMAIN byService |-> byService[v].errorCount])
                 = Cardinality(Failed(NotNull(S, "service")))
            /\ p[50] <= p[95] /\ p[95] <= p[99]
            /\ \A top \in getTopPaths(MaxRows, w) :
                 SumOfSeries([v \in DOMAIN top |-> top[v].count]) = getErrorRate(w).total
            /\ \A geo \in getGeoDistribution(w) : SharesMakeAWhole(geo, located)
            /\ \A v \in DOMAIN edges : minute - w < edges[v].lastSeen

\* The numbers of one answer agree with each other but for the rows that entered
\* or left what its queries look at while they ran: there are at most so many
\* more users than requests, a page is at most so much longer or shorter than
\* the total says, and when there were none of them, nothing but 0 is told of
\* no requests.
Page(count, n, o) == Max({0, Min({n, MaxLimit, count - o})})
AnswersCoherent ==
    AllAnswered =>
        IF report.kind = "summary"
        THEN /\ report.got["activeUsers"] <= report.got["total"] + report.changed
             /\ report.got["total"] = 0 /\ report.changed = 0 =>
                    \A q \in SummaryQueries : report.got[q] = 0
        ELSE LET count == report.got["count"]
             IN  Len(report.got["data"]) \in
                    Page(count - report.changed, report.limit, report.offset)
                    ..Page(count + report.changed, report.limit, report.offset)

\* Both: the numbers a user compares never contradict each other by more than
\* rounding and the rows that came or went while the queries of one answer ran.
ReportsReconcile == ReportsAddUp /\ AnswersCoherent
=============================================================================
