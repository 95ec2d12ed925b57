--------------------------- MODULE SlidingWindow ----------------------------
(***************************************************************************)
(* The sliding windows in front of the gateway: slidingWindow of           *)
(* apps/gateway/src/rate-limit/rate-limit.service.ts, as called by         *)
(* middleware/auth.middleware.ts for the user of a request and by          *)
(* proxy/proxy.controller.ts for its address.                              *)
(*                                                                         *)
(* One user behind one address is modelled: other identifiers have other   *)
(* keys.  Each Redis command is one action.  A pipeline is not a MULTI, so *)
(* commands of several requests interleave.  The clock ticks in the unit   *)
(* of the window, which is also the unit of EXPIRE.                        *)
(***************************************************************************)
EXTENDS Integers, FiniteSets

CONSTANTS
    Requests,       \* the requests, each made once
    Routes,         \* what they ask for: "v1" with credentials, "open" without
    UserLimit,      \* rateLimitPerIp of the platform configuration
    IpLimit,        \* default limit of slidingWindow
    Window,         \* windowMs
    MaxDelay,       \* a pipeline is done that soon after its Date.now()
    MaxTime,        \* bound of the model: the clock stops here
    SlowPipeline,   \* may a pipeline be torn, by the clock or the connection?
    Failing         \* the requests whose Redis commands may fail

ASSUME RequestsFinite == IsFiniteSet(Requests)
ASSUME RoutesKnown == Routes \subseteq {"v1", "open"}
ASSUME LimitsNat == UserLimit \in Nat /\ IpLimit \in Nat /\ MaxTime \in Nat
ASSUME DelayShorterThanWindow ==
    Window \in Nat /\ MaxDelay \in Nat /\ MaxDelay < Window
ASSUME SwitchBoolean == SlowPipeline \in BOOLEAN

VARIABLES
    now,            \* Date.now() of the gateway, and Redis's clock
    pc,             \* the next command of each request
    stage,          \* the window it is at
    stamp,          \* stamp[w][i]: the local `now` of request i at window w
    log,            \* log[w]: the members of ratelimit:sw, scored by stamp[w]
    deadline,       \* deadline[w]: when that key expires, 0 for no TTL
    passedAt        \* history: when window w counted and allowed i, 0 if not

vars == <<now, pc, stage, stamp, log, deadline, passedAt>>

Windows == {"user", "ip"}
Limit(w) == IF w = "user" THEN UserLimit ELSE IpLimit
Time == 1 .. MaxTime + 1
NoTime == 0

\* The commands after the first of a pipeline.
MidPipeline == {"zremrangebyscore", "zcard", "expire"}
Pipeline == {"zadd"} \cup MidPipeline
Pc == {"new", "call", "done"} \cup Pipeline

TypeOK ==
    /\ now \in Time
    /\ pc \in [Requests -> Pc]
    /\ stage \in [Requests -> Windows]
    /\ stamp \in [Windows -> [Requests -> Time \cup {NoTime}]]
    /\ log \in [Windows -> SUBSET Requests]
    /\ deadline \in [Windows -> Nat]
    /\ passedAt \in [Windows -> [Requests -> Time \cup {NoTime}]]

Init ==
    /\ now = 1
    /\ pc = [i \in Requests |-> "new"]
    /\ stage = [i \in Requests |-> "ip"]
    /\ stamp = [w \in Windows |-> [i \in Requests |-> NoTime]]
    /\ log = [w \in Windows |-> {}]
    /\ deadline = [w \in Windows |-> 0]
    /\ passedAt = [w \in Windows |-> [i \in Requests |-> NoTime]]

-----------------------------------------------------------------------------
(***************************************************************************)
(* The way of a request: AuthMiddleware covers everything but register,    *)
(* login and /cdn; the controller limits everything by address.            *)
(***************************************************************************)

Arrive(i) ==
    /\ pc[i] = "new"
    /\ \E route \in Routes :
          stage' = [stage EXCEPT ![i] = IF route = "v1" THEN "user" ELSE "ip"]
    /\ pc' = [pc EXCEPT ![i] = "call"]
    /\ UNCHANGED <<now, stamp, log, deadline, passedAt>>

\* A window's verdict: on to the next window, through, or 429.
Verdict(i, ok) ==
    LET more == ok /\ stage[i] = "user"
    IN  /\ pc' = [pc EXCEPT ![i] = IF more THEN "call" ELSE "done"]
        /\ stage' = [stage EXCEPT ![i] = IF more THEN "ip" ELSE @]

\* Mutant: the score is resetAt, the end of the window.
CallReset(i) ==
    /\ pc[i] = "call"
    /\ stamp' = [stamp EXCEPT ![stage[i]] = [@ EXCEPT ![i] = now + Window]]
    /\ pc' = [pc EXCEPT ![i] = "zadd"]
    /\ UNCHANGED <<now, stage, log, deadline, passedAt>>

\* The limiter is called and reads the clock.
Call(i) ==
    /\ pc[i] = "call"
    /\ stamp' = [stamp EXCEPT ![stage[i]] = [@ EXCEPT ![i] = now]]
    /\ pc' = [pc EXCEPT ![i] = "zadd"]
    /\ UNCHANGED <<now, stage, log, deadline, passedAt>>

-----------------------------------------------------------------------------
(***************************************************************************)
(* The pipeline of slidingWindow.                                          *)
(***************************************************************************)

Zadd(i) ==
    /\ pc[i] = "zadd"
    /\ log' = [log EXCEPT ![stage[i]] = @ \cup {i}]
    /\ pc' = [pc EXCEPT ![i] = "zremrangebyscore"]
    /\ UNCHANGED <<now, stage, stamp, deadline, passedAt>>

\* The members that zremrangebyscore(key, 0, now - windowMs) keeps.
Kept(w, i) == {j \in log[w] : stamp[w][j] > stamp[w][i] - Window}

\* Redis drops a sorted set, with its TTL, when its last member goes.
Zremrangebyscore(i) ==
    /\ pc[i] = "zremrangebyscore"
    /\ LET w == stage[i]
       IN  /\ log' = [log EXCEPT ![w] = Kept(w, i)]
           /\ deadline' = [deadline EXCEPT ![w] = IF Kept(w, i) = {} THEN 0 ELSE @]
    /\ pc' = [pc EXCEPT ![i] = "zcard"]
    /\ UNCHANGED <<now, stage, stamp, passedAt>>

Zcard(i) ==
    /\ pc[i] = "zcard"
    /\ LET w == stage[i]
       IN  passedAt' = [passedAt EXCEPT ![w] = [@ EXCEPT ![i] =
                            IF Cardinality(log[w]) <= Limit(w) THEN now ELSE NoTime]]
    /\ pc' = [pc EXCEPT ![i] = "expire"]
    /\ UNCHANGED <<now, stage, stamp, log, deadline>>

\* The connection may break between the answers to ZCARD and EXPIRE: the count
\* decides, and the key keeps its old TTL.
ExpireLost(i) == {d \in {deadline} : SlowPipeline /\ i \in Failing}

\* Mutant: the TTL is set in the wrong unit and outlived by the window.
ExpireEarly(i) ==
    /\ pc[i] = "expire"
    /\ LET w == stage[i]
       IN  /\ deadline' = [deadline EXCEPT ![w] = IF log[w] = {} THEN @ ELSE now + 1]
           /\ Verdict(i, passedAt[w][i] # NoTime)
    /\ UNCHANGED <<now, stamp, log, passedAt>>

Expire(i) ==
    /\ pc[i] = "expire"
    /\ LET w == stage[i]
       IN  /\ deadline' \in ExpireLost(i) \cup
                 {[deadline EXCEPT ![w] = IF log[w] = {} THEN @ ELSE now + Window]}
           /\ Verdict(i, passedAt[w][i] # NoTime)
    /\ UNCHANGED <<now, stamp, log, passedAt>>

\* The connection breaks: exec() answers without a count, and the window
\* lets the request through.
NoCount(i) ==
    /\ i \in Failing
    /\ pc[i] \in {"zadd", "zremrangebyscore", "zcard"}
    /\ Verdict(i, TRUE)
    /\ UNCHANGED <<now, stamp, log, deadline, passedAt>>

\* A promise rejects, or the credentials do: the client gets 401 or 500.
Refuse(i) ==
    /\ i \in Failing
    /\ pc[i] \in {"call", "zadd", "zremrangebyscore", "zcard"}
    /\ pc' = [pc EXCEPT ![i] = "done"]
    /\ UNCHANGED <<now, stage, stamp, log, deadline, passedAt>>

\* The clock advances, and Redis drops the keys whose time has come.
Tick ==
    /\ now <= MaxTime
    /\ \A i \in Requests :
          /\ pc[i] \in Pipeline => now < stamp[stage[i]][i] + MaxDelay
          /\ ~ SlowPipeline => pc[i] \notin MidPipeline
    /\ now' = now + 1
    /\ log' = [w \in Windows |-> IF deadline[w] = now + 1 THEN {} ELSE log[w]]
    /\ deadline' = [w \in Windows |-> IF deadline[w] = now + 1 THEN 0 ELSE deadline[w]]
    /\ UNCHANGED <<pc, stage, stamp, passedAt>>

Handler(i) ==
    \/ Arrive(i) \/ Call(i)
    \/ Zadd(i) \/ Zremrangebyscore(i) \/ Zcard(i) \/ Expire(i)
    \/ NoCount(i) \/ Refuse(i)

Next == Tick \/ \E i \in Requests : Handler(i)

Spec == Init /\ [][Next]_vars

-----------------------------------------------------------------------------
(***************************************************************************)
(* Properties.                                                             *)
(***************************************************************************)

\* The part of the window that no transit time can eat.
SureWindow == Window - MaxDelay

\* The requests window w let through in the interval of that length up to t.
Passed(w, t) ==
    {i \in Requests : /\ passedAt[w][i] # NoTime
                      /\ t - SureWindow < passedAt[w][i]
                      /\ passedAt[w][i] <= t}

\* slidingWindow: whatever interleaving of the pipelines, and whichever
\* requests were trimmed by requests with a later clock reading, no interval
\* as long as the window less the transit time contains more than `limit`
\* requests that were counted and allowed.
AtMostLimitPerWindow ==
    \A w \in Windows : \A t \in Time : Cardinality(Passed(w, t)) <= Limit(w)

=============================================================================
