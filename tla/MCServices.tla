----------------------------- MODULE MCServices -----------------------------
(***************************************************************************)
(* Seven components that share no state, checked in one run: a behaviour   *)
(* picks one of them, and only that one moves.  The states are those of    *)
(* the seven side by side, not their product.                              *)
(***************************************************************************)
EXTENDS Analytics, Alerts, Realtime, Multipart, EdgeDelivery, Resilience,
        CdnResponses

CONSTANT u1 \* a user

VARIABLE focus

servicesVars == <<analyticsVars, alertVars, realtimeVars, uploadVars, edgeVars,
                  resilienceVars, responseVars, focus>>

\* A hit, an error without a user's service and country, a miss elsewhere: two
\* countries, of which one is listed.
Sample(status, hit, ms, path, service, country, user) ==
    [status |-> status, cacheHit |-> hit, latencyMs |-> ms, bytes |-> 1, path |-> path,
     service |-> service, country |-> country, edgeRegion |-> country, userId |-> user]
MCSamples == {Sample(200, TRUE, 1, "/a", "cdn", "global", u1),
              Sample(500, FALSE, 4, "/b", Null, "eu", Null)}

\* One rule with two channels, and one that never fires: the summary has no
\* cacheHitRate.
NewRule(condition, threshold, channels) ==
    [condition |-> condition, threshold |-> threshold, channels |-> channels,
     isArray |-> TRUE, enabled |-> TRUE]
MCRule0 == <<WithId(1, NewRule("error_rate_above", 5, {"webhook", "email"})),
             WithId(2, NewRule("cache_hit_below", 5000, {"webhook"}))>>
MCNewRules == {NewRule("latency_above", 100, {"slack"})}
MCStats == {[errorRate |-> 100, avgLatency |-> 60000], [errorRate |-> 0, avgLatency |-> 0]}

MCChecked == <<"auth", "storage">>

\* The second format is unknown to the optimizer.
MCQueries == {[size |-> 1, fmt |-> ""], [size |-> 1, fmt |-> "tiff"]}

\* The two requests of each component are interchangeable: no action and no
\* property names one of them.
Slots == Checks \cup Fetches \cup Gets \cup UploadCalls
Swapped(x) ==
    CHOOSE y \in Slots \ {x} : \E S \in {Checks, Fetches, Gets, UploadCalls} : {x, y} \subseteq S
ServicesSymmetry == {[x \in Slots |-> x], [x \in Slots |-> Swapped(x)]}

Init ==
    /\ focus \in {"analytics", "alerts", "realtime", "uploads", "edge", "resilience",
                 "responses"}
    /\ AnalyticsInit /\ AlertInit /\ RealtimeInit /\ MultipartInit /\ EdgeInit
    /\ ResilienceInit /\ ResponseInit

\* Each component's steps, the others standing still.
Analytics_ == focus = "analytics" /\ AnalyticsNext
    /\ UNCHANGED <<alertVars, realtimeVars, uploadVars, edgeVars, resilienceVars, responseVars>>
Alerts_ == focus = "alerts" /\ AlertNext
    /\ UNCHANGED <<analyticsVars, realtimeVars, uploadVars, edgeVars, resilienceVars, responseVars>>
Realtime_ == focus = "realtime" /\ RealtimeNext
    /\ UNCHANGED <<analyticsVars, alertVars, uploadVars, edgeVars, resilienceVars, responseVars>>
Multipart_ == focus = "uploads" /\ MultipartNext
    /\ UNCHANGED <<analyticsVars, alertVars, realtimeVars, edgeVars, resilienceVars, responseVars>>
Edge_ == focus = "edge" /\ EdgeNext
    /\ UNCHANGED <<analyticsVars, alertVars, realtimeVars, uploadVars, resilienceVars, responseVars>>
Resilience_ == focus = "resilience" /\ ResilienceNext
    /\ UNCHANGED <<analyticsVars, alertVars, realtimeVars, uploadVars, edgeVars, responseVars>>
Responses_ == focus = "responses" /\ ResponseNext
    /\ UNCHANGED <<analyticsVars, alertVars, realtimeVars, uploadVars, edgeVars,
                   resilienceVars>>
Next ==
    /\ \/ Analytics_ \/ Alerts_ \/ Realtime_ \/ Multipart_ \/ Edge_ \/ Resilience_
       \/ Responses_
    /\ UNCHANGED focus

Spec == Init /\ [][Next]_servicesVars
-----------------------------------------------------------------------------
\* Every variable of the seven has its type, and what the components' own type
\* invariants add to it holds: no proxied request is answered twice, rooms are
\* only left and joined by a connection that is up, and so on.
ServicesTypeOK ==
    CASE focus = "analytics"  -> AnalyticsTypeOK
      [] focus = "alerts"     -> AlertTypeOK
      [] focus = "realtime"   -> RealtimeTypeOK
      [] focus = "uploads"    -> MultipartTypeOK
      [] focus = "edge"       -> EdgeTypeOK
      [] focus = "resilience" -> ResilienceTypeOK
      [] focus = "responses"  -> ResponseTypeOK
=============================================================================
