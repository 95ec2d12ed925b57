------------------------------- MODULE Alerts -------------------------------
(***************************************************************************)
(* The notification service: the rules and checks of AlertsService and the *)
(* dispatch of NotificationsService.                                       *)
(*                                                                         *)
(* setInterval starts a check whether or not the last one has ended, so    *)
(* checks overlap when a fetch or a channel is slow.  A check walks the    *)
(* rule array it found; between its awaits the controller may replace a    *)
(* rule of that array, append to it, or put a new array in its place.      *)
(* Time is in minutes; rates and thresholds are in hundredths.             *)
(***************************************************************************)
EXTENDS Integers, Sequences, SequencesExt

CONSTANTS
    Rule0,        \* DEFAULT_ALERT_RULES
    NewRules,     \* rules created through the API, without their id
    MaxEdits,     \* bound: calls of the rules API
    Checks,       \* checks that may run at once
    Stats,        \* summaries the analytics service may answer
    SlackUrl,     \* whether SLACK_WEBHOOK_URL is set
    Debounce,     \* ALERT_DEBOUNCE_MINUTES
    HistoryCap,   \* records the alert history keeps (50)
    MaxTime       \* bound: minutes that pass

RuleIds == 1 .. Len(Rule0) + MaxEdits
Channels == {"email", "webhook", "slack"}
Conditions == {"error_rate_above", "latency_above", "cache_hit_below", "bandwidth_above", "edge_down"}

\* AlertRule; isArray tells whether channels is the array its type says, which
\* the API does not check.
Rules == [id : RuleIds, condition : Conditions, threshold : Int, channels : SUBSET Channels,
          isArray : BOOLEAN, enabled : BOOLEAN]
WithId(n, rule) ==
    [id |-> n, condition |-> rule.condition, threshold |-> rule.threshold,
     channels |-> rule.channels, isArray |-> rule.isArray, enabled |-> rule.enabled]

ASSUME AlertsAssumption ==
    /\ Debounce \in Nat \ {0} /\ MaxEdits \in Nat /\ HistoryCap \in Nat \ {0} /\ MaxTime \in Nat
    /\ Rule0 \in Seq(Rules) /\ \A i \in DOMAIN Rule0 : Rule0[i].id = i
    /\ NewRules \subseteq [condition : Conditions, threshold : Int, channels : SUBSET Channels,
                           isArray : BOOLEAN, enabled : BOOLEAN]
    /\ SlackUrl \in BOOLEAN
    /\ \A s \in Stats : s.errorRate \in 0..100

VARIABLES
    now,           \* Date.now()
    rules,         \* this.rules
    lastTriggered, \* check start that last triggered each rule; -Debounce if none
    history,       \* alert records, newest first
    check,         \* the running checks
    notified,      \* the newest record of the notification history
    edits,         \* calls of the rules API so far
    overlapped     \* a check has started while another one ran

alertVars == <<now, rules, lastTriggered, history, check, notified, edits, overlapped>>

\* What a check keeps across its awaits: when it started, the index it has
\* reached in this.rules or, when not `shared' any more, in the array `list';
\* the rule it read there, and the dispatch.  `seen' are the ids it visited.
NoRule == [id |-> 0, condition |-> "none", threshold |-> 0, channels |-> {}, isArray |-> TRUE,
           enabled |-> FALSE]
IdleCheck == [pc |-> "idle", start |-> 0, shared |-> TRUE, list |-> <<>>, i |-> 1,
              rule |-> NoRule, todo |-> {}, sent |-> {}, failed |-> FALSE, seen |-> {}]
Walked(c) == IF check[c].shared THEN rules ELSE check[c].list

AlertTypeOK ==
    /\ now \in 0..MaxTime
    /\ rules \in Seq(Rules)
    /\ lastTriggered \in [RuleIds -> -Debounce..MaxTime]
    /\ history \in Seq([rule : RuleIds, start : 0..now]) /\ Len(history) <= HistoryCap
    /\ check \in [Checks ->
          [pc : {"idle", "next", "fetch", "dispatch"}, start : 0..now, shared : BOOLEAN,
           list : Seq(Rules), i : Nat \ {0}, rule : Rules \cup {NoRule}, todo : SUBSET Channels,
           sent : SUBSET Channels, failed : BOOLEAN, seen : SUBSET RuleIds]]
    /\ notified \in [status : {"failed", "success"}, missed : SUBSET Channels]
    /\ edits \in 0..MaxEdits /\ overlapped \in BOOLEAN

\* The record of a dispatch, with the channels that a success did not reach.
Notification(channels, sent, failed) ==
    IF failed THEN [status |-> "failed", missed |-> {}]
              ELSE [status |-> "success", missed |-> channels \ sent]

AlertInit ==
    /\ now = 0
    /\ rules = Rule0
    /\ lastTriggered = [r \in RuleIds |-> -Debounce]
    /\ history = <<>>
    /\ check = [c \in Checks |-> IdleCheck]
    /\ notified = Notification({}, {}, FALSE)
    /\ edits = 0
    /\ overlapped = FALSE
-----------------------------------------------------------------------------
(* evaluateCondition.  The summary has no cacheHitRate, bandwidthUsage or   *)
(* activeEdges, so those conditions see the value that stands for "absent". *)

Value(rule, stats) ==
    CASE rule.condition = "error_rate_above" -> stats.errorRate
      [] rule.condition = "latency_above"    -> stats.avgLatency
      [] rule.condition = "cache_hit_below"  -> 10000
      [] rule.condition = "bandwidth_above"  -> 0
      [] rule.condition = "edge_down"        -> 100

Triggered(rule, stats) ==
    CASE rule.condition = "cache_hit_below" -> Value(rule, stats) < rule.threshold
      [] rule.condition = "edge_down"       -> Value(rule, stats) <= rule.threshold
      [] OTHER                              -> Value(rule, stats) > rule.threshold
-----------------------------------------------------------------------------
(* checkAlerts.                                                             *)

Tick ==
    /\ now < MaxTime
    /\ now' = now + 1
    /\ UNCHANGED <<rules, lastTriggered, history, check, notified, edits, overlapped>>

StartCheck(c) ==
    /\ check[c].pc = "idle"
    /\ check' = [check EXCEPT ![c] = [IdleCheck EXCEPT !.pc = "next", !.start = now]]
    /\ overlapped' = (overlapped \/ \E d \in Checks : check[d].pc # "idle")
    /\ UNCHANGED <<now, rules, lastTriggered, history, notified, edits>>

\* On to the next rule of the array.
Advance(c, id) ==
    check' = [check EXCEPT ![c].pc = "next", ![c].i = @ + 1, ![c].rule = NoRule,
                            ![c].todo = {}, ![c].sent = {}, ![c].failed = FALSE,
                            ![c].seen = @ \cup {id}]

\* Mutant: the debounce is left out.
DueAlways(c, rule) == rule.enabled

Due(c, rule) ==
    rule.enabled /\ check[c].start - lastTriggered[rule.id] >= Debounce

\* The loop skips what is disabled or debounced; it fetches for what is due.
VisitRule(c) ==
    /\ check[c].pc = "next"
    /\ IF check[c].i > Len(Walked(c)) THEN check' = [check EXCEPT ![c] = IdleCheck]
       ELSE LET rule == Walked(c)[check[c].i] IN
            IF Due(c, rule)
            THEN check' = [check EXCEPT ![c].pc = "fetch", ![c].rule = rule]
            ELSE Advance(c, rule.id)
    /\ UNCHANGED <<now, rules, lastTriggered, history, notified, overlapped, edits>>

\* The summary arrived.  A rule that triggers is recorded and dispatched to
\* its channels; for-of over what is no array throws, and dispatch keeps its
\* record, a success, all the same.
Evaluate(c, stats) ==
    /\ check[c].pc = "fetch"
    /\ LET rule == check[c].rule IN
       IF ~Triggered(rule, stats)
       THEN Advance(c, rule.id) /\ UNCHANGED <<lastTriggered, history, notified>>
       ELSE /\ history' = SubSeq(<<[rule |-> rule.id, start |-> check[c].start]>> \o history,
                                 1, Min({HistoryCap, Len(history) + 1}))
            /\ lastTriggered' = [lastTriggered EXCEPT ![rule.id] = check[c].start]
            /\ IF rule.isArray
               THEN /\ check' = [check EXCEPT ![c].pc = "dispatch", ![c].todo = rule.channels]
                    /\ UNCHANGED notified
               ELSE /\ Advance(c, rule.id)
                    /\ notified' = Notification(rule.channels, {}, FALSE)
    /\ UNCHANGED <<now, rules, overlapped, edits>>

\* The fetch is rejected: logged.
FetchFails(c) ==
    /\ check[c].pc = "fetch"
    /\ Advance(c, check[c].rule.id)
    /\ UNCHANGED <<now, rules, lastTriggered, history, notified, overlapped, edits>>
-----------------------------------------------------------------------------
(* dispatch: one channel after the other; a failure does not stop it.  A    *)
(* Slack channel without a URL counts as sent.                              *)

Delivered(channel, ok) == IF ok /\ (channel = "slack" => SlackUrl) THEN {channel} ELSE {}

\* Mutant: a failed channel is logged, and the record stays a success.
SendChannelHidden(c, channel, ok) ==
    /\ check[c].pc = "dispatch"
    /\ channel \in check[c].todo
    /\ check' = [check EXCEPT ![c].todo = @ \ {channel},
                              ![c].sent = @ \cup Delivered(channel, ok)]
    /\ UNCHANGED <<now, rules, lastTriggered, history, notified, overlapped, edits>>

SendChannel(c, channel, ok) ==
    /\ check[c].pc = "dispatch"
    /\ channel \in check[c].todo
    /\ check' = [check EXCEPT ![c].todo = @ \ {channel},
                              ![c].sent = @ \cup Delivered(channel, ok),
                              ![c].failed = @ \/ ~ok]
    /\ UNCHANGED <<now, rules, lastTriggered, history, notified, overlapped, edits>>

EndDispatch(c) ==
    /\ check[c].pc = "dispatch" /\ check[c].todo = {}
    /\ notified' = Notification(check[c].rule.channels, check[c].sent, check[c].failed)
    /\ Advance(c, check[c].rule.id)
    /\ UNCHANGED <<now, rules, lastTriggered, history, overlapped, edits>>

\* testNotification: the same dispatch to every channel; those in `bad' fail.
TestNotification(bad) ==
    /\ "slack" \in bad => SlackUrl
    /\ notified' = Notification(Channels,
                               UNION {Delivered(ch, TRUE) : ch \in Channels \ bad}, bad # {})
    /\ UNCHANGED <<now, rules, lastTriggered, history, check, overlapped, edits>>
-----------------------------------------------------------------------------
(* The rules API.                                                           *)

\* findIndex and filter, where no two rules have the same id.
RuleAt(id) == {i \in DOMAIN rules : rules[i].id = id}
Without(id) == IF RuleAt(id) = {} THEN rules ELSE RemoveAt(rules, CHOOSE i \in RuleAt(id) : TRUE)
Edit == edits < MaxEdits /\ edits' = edits + 1

\* uuids: no id is ever used again.
CreateRule(rule) ==
    /\ Edit
    /\ rules' = Append(rules, WithId(Len(Rule0) + edits', rule))
    /\ UNCHANGED <<now, lastTriggered, history, check, notified, overlapped>>

\* A new object takes the old one's place in the same array.
UpdateRule(id, enabled) ==
    /\ Edit
    /\ \E i \in RuleAt(id) : rules' = [rules EXCEPT ![i].enabled = enabled]
    /\ UNCHANGED <<now, lastTriggered, history, check, notified, overlapped>>

\* Mutant: the rule is spliced out of the array the checks walk.
DeleteRuleInPlace(id) ==
    /\ Edit
    /\ rules' = Without(id)
    /\ UNCHANGED <<now, lastTriggered, history, check, notified, overlapped>>

\* A new array; running checks go on walking the old one.
DeleteRule(id) ==
    /\ Edit
    /\ rules' = Without(id)
    /\ check' = [c \in Checks |-> IF check[c].pc = "idle" THEN check[c]
                   ELSE [check[c] EXCEPT !.shared = FALSE, !.list = Walked(c)]]
    /\ UNCHANGED <<now, lastTriggered, history, notified, overlapped>>

AlertNext ==
    \/ Tick
    \/ \E c \in Checks :
        \/ StartCheck(c) \/ VisitRule(c) \/ FetchFails(c) \/ EndDispatch(c)
        \/ \E stats \in Stats : Evaluate(c, stats)
        \/ \E channel \in Channels, ok \in BOOLEAN : SendChannel(c, channel, ok)
    \/ \E bad \in SUBSET Channels : TestNotification(bad)
    \/ \E rule \in NewRules : CreateRule(rule)
    \/ \E id \in RuleIds :
        \/ \E enabled \in BOOLEAN : UpdateRule(id, enabled)
        \/ DeleteRule(id)

AlertSpec == AlertInit /\ [][AlertNext]_alertVars
-----------------------------------------------------------------------------
\* While no two checks overlap, two alerts of a rule come from checks that
\* started at least the debounce apart.  (Overlapping checks may both pass the
\* test before either records its alert.)
DebounceHolds ==
    ~overlapped =>
        \A i, j \in DOMAIN history :
            i < j /\ history[i].rule = history[j].rule =>
                history[i].start - history[j].start >= Debounce

\* A check passes no rule over, whatever is created, changed or deleted while
\* it awaits: every rule before its index has been visited.
NoRuleSkipped ==
    \A c \in Checks : \A k \in 1 .. check[c].i - 1 :
        k <= Len(Walked(c)) /\ Walked(c)[k].id \in check[c].seen

\* A dispatch recorded as a success reached every channel of the rule, but for
\* a Slack channel without a URL: where channels is the array the type says.
SuccessMeansSent ==
    notified.status = "success" =>
        notified.missed \subseteq IF SlackUrl THEN {} ELSE {"slack"}
=============================================================================
