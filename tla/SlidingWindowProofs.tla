------------------------ MODULE SlidingWindowProofs -------------------------
(***************************************************************************)
(* Theorems about SlidingWindow.                                           *)
(*                                                                         *)
(* The limit holds because whoever was let through lately is still in the  *)
(* sorted set when the next request counts it (Retained): trims cut too    *)
(* far back to reach it, and the key outlives it.                          *)
(***************************************************************************)
EXTENDS SlidingWindow, FiniteSetTheorems, TLAPS

USE DelayShorterThanWindow, LimitsNat

\* All variables keep their types: in particular the sorted sets hold requests
\* only and every score is a time the clock has shown.
THEOREM TypeCorrect == Spec => []TypeOK
<1>1. Init => TypeOK
  BY DEF Init, TypeOK, Time, NoTime, Pc, Pipeline, MidPipeline, Windows
<1>2. TypeOK /\ [Next]_vars => TypeOK'
  <2> SUFFICES ASSUME TypeOK, [Next]_vars PROVE TypeOK'
    OBVIOUS
  <2> USE DEF Pc, Pipeline, MidPipeline, Windows
  <2>1. ASSUME Tick PROVE TypeOK'
    <3>1. log' \in [Windows -> SUBSET Requests] /\ deadline' \in [Windows -> Nat]
      BY <2>1 DEF Tick, TypeOK
    <3>2. now' \in Time
      BY <2>1 DEF Tick, TypeOK, Time
    <3>3. QED
      BY <2>1, <3>1, <3>2 DEF Tick, TypeOK
  <2>2. ASSUME NEW i \in Requests, Handler(i) PROVE TypeOK'
    <3>1. CASE Arrive(i)
      BY <3>1, RoutesKnown DEF Arrive, TypeOK
    <3>2. CASE Call(i)
      BY <3>2 DEF Call, TypeOK
    <3>3. CASE Zadd(i)
      BY <3>3 DEF Zadd, TypeOK
    <3>4. CASE Zremrangebyscore(i)
      <4>1. Kept(stage[i], i) \in SUBSET Requests
        BY DEF Kept, TypeOK
      <4>2. QED
        BY <3>4, <4>1 DEF Zremrangebyscore, TypeOK
    <3>5. CASE Zcard(i)
      <4>1. passedAt' \in [Windows -> [Requests -> Time \cup {NoTime}]]
        BY <3>5 DEF Zcard, TypeOK
      <4>2. QED
        BY <3>5, <4>1 DEF Zcard, TypeOK
    <3>6. CASE Expire(i)
      <4>1. deadline' \in [Windows -> Nat]
        BY <3>6 DEF Expire, ExpireLost, TypeOK, Time
      <4>2. pc' \in [Requests -> Pc] /\ stage' \in [Requests -> Windows]
        BY <3>6 DEF Expire, Verdict, TypeOK
      <4>3. QED
        BY <3>6, <4>1, <4>2 DEF Expire, TypeOK
    <3>7. CASE NoCount(i)
      <4>1. pc' \in [Requests -> Pc] /\ stage' \in [Requests -> Windows]
        BY <3>7 DEF NoCount, Verdict, TypeOK
      <4>2. QED
        BY <3>7, <4>1 DEF NoCount, TypeOK
    <3>8. CASE Refuse(i)
      BY <3>8 DEF Refuse, TypeOK
    <3>9. QED
      BY <2>2, <3>1, <3>2, <3>3, <3>4, <3>5, <3>6, <3>7, <3>8 DEF Handler
  <2>3. CASE UNCHANGED vars
    BY <2>3 DEF vars, TypeOK
  <2>4. QED
    BY <2>1, <2>2, <2>3 DEF Next
<1>3. QED
  BY <1>1, <1>2, PTL DEF Spec

-----------------------------------------------------------------------------
(***************************************************************************)
(* The limit, when no key expires in the middle of a pipeline.             *)
(***************************************************************************)

\* No clock reading is ahead, and pipelines are on time.
OnTime ==
    /\ \A w \in Windows, i \in Requests : stamp[w][i] <= now /\ passedAt[w][i] <= now
    /\ \A i \in Requests : pc[i] \in Pipeline => now <= stamp[stage[i]][i] + MaxDelay

\* A request that has added itself is there to be counted.
Counted == \A i \in Requests : pc[i] \in MidPipeline => i \in log[stage[i]]

\* A request has no verdict of a window that it is yet to be counted by.
Unjudged ==
    \A i \in Requests :
       /\ pc[i] \in {"new", "call", "zadd", "zremrangebyscore", "zcard"} =>
             passedAt[stage[i]][i] = NoTime
       /\ pc[i] = "new" \/ stage[i] = "user" => passedAt["ip"][i] = NoTime
       /\ pc[i] = "new" => passedAt["user"][i] = NoTime

\* Who was let through lately is still in the set, with a recent score.
Retained ==
    \A w \in Windows, i \in Requests :
       passedAt[w][i] # NoTime /\ passedAt[w][i] > now - SureWindow =>
          i \in log[w] /\ stamp[w][i] >= passedAt[w][i] - MaxDelay

\* The key outlives everyone who was let through and has done the EXPIRE.
KeyLives ==
    \A w \in Windows, i \in Requests :
       passedAt[w][i] # NoTime /\ deadline[w] # 0 =>
          \/ pc[i] = "expire" /\ stage[i] = w
          \/ deadline[w] >= passedAt[w][i] + Window

WindowInv == OnTime /\ Counted /\ Unjudged /\ Retained /\ KeyLives

LEMMA WindowInvStep ==
    ASSUME ~ SlowPipeline, TypeOK, WindowInv, [Next]_vars
    PROVE  WindowInv'
<1> USE DEF Pc, Pipeline, MidPipeline, Windows, NoTime, SureWindow
<1>t. /\ now \in Nat
      /\ pc \in [Requests -> Pc] /\ stage \in [Requests -> Windows]
      /\ stamp \in [Windows -> [Requests -> Nat]]
      /\ passedAt \in [Windows -> [Requests -> Nat]]
      /\ log \in [Windows -> SUBSET Requests] /\ deadline \in [Windows -> Nat]
  <2>1. Time \cup {NoTime} \subseteq Nat
    BY DEF Time
  <2>2. QED
    BY <2>1 DEF TypeOK
<1>1. CASE Tick
  <2>1. /\ now' = now + 1 /\ pc' = pc /\ stage' = stage /\ stamp' = stamp
        /\ passedAt' = passedAt
        /\ \A w \in Windows : log'[w] = IF deadline[w] = now + 1 THEN {} ELSE log[w]
        /\ \A w \in Windows : deadline'[w] = IF deadline[w] = now + 1 THEN 0 ELSE deadline[w]
        /\ \A i \in Requests : /\ pc[i] \in Pipeline => now < stamp[stage[i]][i] + MaxDelay
                               /\ pc[i] \notin MidPipeline
    BY <1>1 DEF Tick
  <2>2. OnTime'
    BY <1>t, <2>1 DEF WindowInv, OnTime
  <2>3. Counted'
    BY <2>1 DEF Counted
  <2>4. Unjudged'
    BY <2>1 DEF WindowInv, Unjudged
  <2>5. Retained'
    BY <1>t, <2>1 DEF WindowInv, Retained, KeyLives
  <2>6. KeyLives'
    BY <1>t, <2>1 DEF WindowInv, KeyLives
  <2>7. QED
    BY <2>2, <2>3, <2>4, <2>5, <2>6 DEF WindowInv
<1>2. ASSUME NEW k \in Requests, Arrive(k) PROVE WindowInv'
  <2>1. /\ now' = now /\ stamp' = stamp /\ log' = log /\ deadline' = deadline
        /\ passedAt' = passedAt /\ pc[k] = "new" /\ pc' = [pc EXCEPT ![k] = "call"]
        /\ stage' \in [Requests -> Windows]
        /\ \A i \in Requests \ {k} : stage'[i] = stage[i]
    BY <1>t, <1>2 DEF Arrive
  <2>2. QED
    BY <1>t, <2>1 DEF WindowInv, OnTime, Counted, Unjudged, Retained, KeyLives
<1>3. ASSUME NEW k \in Requests, Call(k) PROVE WindowInv'
  <2>1. /\ now' = now /\ stage' = stage /\ log' = log /\ deadline' = deadline
        /\ passedAt' = passedAt /\ pc[k] = "call" /\ pc' = [pc EXCEPT ![k] = "zadd"]
        /\ stamp'[stage[k]][k] = now
        /\ \A w \in Windows, i \in Requests :
              (w # stage[k] \/ i # k) => stamp'[w][i] = stamp[w][i]
    BY <1>t, <1>3 DEF Call
  <2>2. passedAt[stage[k]][k] = NoTime
    BY <2>1 DEF WindowInv, Unjudged
  <2>3. OnTime'
    BY <1>t, <2>1 DEF WindowInv, OnTime
  <2>4. Counted' /\ Unjudged' /\ KeyLives'
    BY <1>t, <2>1 DEF WindowInv, Counted, Unjudged, KeyLives
  <2>5. Retained'
    BY <1>t, <2>1, <2>2 DEF WindowInv, Retained
  <2>6. QED
    BY <2>3, <2>4, <2>5 DEF WindowInv
<1>4. ASSUME NEW k \in Requests, Zadd(k) PROVE WindowInv'
  <2>1. /\ now' = now /\ stage' = stage /\ stamp' = stamp /\ deadline' = deadline
        /\ passedAt' = passedAt /\ pc[k] = "zadd"
        /\ pc' = [pc EXCEPT ![k] = "zremrangebyscore"]
        /\ k \in log'[stage[k]]
        /\ \A w \in Windows : log[w] \subseteq log'[w]
    BY <1>t, <1>4 DEF Zadd
  <2>2. OnTime' /\ Unjudged' /\ KeyLives'
    BY <1>t, <2>1 DEF WindowInv, OnTime, Unjudged, KeyLives
  <2>3. Counted' /\ Retained'
    BY <1>t, <2>1 DEF WindowInv, Counted, Retained
  <2>4. QED
    BY <2>2, <2>3 DEF WindowInv
<1>5. ASSUME NEW k \in Requests, Zremrangebyscore(k) PROVE WindowInv'
  <2>1. /\ now' = now /\ stage' = stage /\ stamp' = stamp
        /\ passedAt' = passedAt /\ pc[k] = "zremrangebyscore"
        /\ pc' = [pc EXCEPT ![k] = "zcard"]
        /\ \A w \in Windows : deadline'[w] = 0 \/ deadline'[w] = deadline[w]
        /\ \A w \in Windows : w # stage[k] => log'[w] = log[w]
        /\ log'[stage[k]] = {j \in log[stage[k]] :
                                stamp[stage[k]][j] > stamp[stage[k]][k] - Window}
    BY <1>t, <1>5 DEF Zremrangebyscore, Kept
  <2>2. \A j \in Requests : stamp[stage[k]][j] > now - Window /\ j \in log[stage[k]] =>
                               j \in log'[stage[k]]
    BY <1>t, <2>1 DEF WindowInv, OnTime
  <2>3. OnTime' /\ Unjudged' /\ KeyLives'
    BY <1>t, <2>1 DEF WindowInv, OnTime, Unjudged, KeyLives
  <2>4. Counted'
    <3> SUFFICES ASSUME NEW i \in Requests, pc'[i] \in MidPipeline PROVE i \in log'[stage[i]]
      BY <2>1 DEF Counted
    <3>1. i \in log[stage[i]] /\ now <= stamp[stage[i]][i] + MaxDelay
      BY <1>t, <2>1 DEF WindowInv, Counted, OnTime
    <3>2. CASE stage[i] = stage[k]
      BY <1>t, <2>2, <3>1, <3>2
    <3>3. CASE stage[i] # stage[k]
      BY <1>t, <2>1, <3>1, <3>3
    <3>4. QED
      BY <3>2, <3>3
  <2>5. Retained'
    <3> SUFFICES ASSUME NEW w \in Windows, NEW i \in Requests,
                        passedAt[w][i] # NoTime, passedAt[w][i] > now - SureWindow
                 PROVE  i \in log'[w] /\ stamp[w][i] >= passedAt[w][i] - MaxDelay
      BY <2>1 DEF Retained
    <3>1. i \in log[w] /\ stamp[w][i] >= passedAt[w][i] - MaxDelay
      BY DEF WindowInv, Retained
    <3>2. CASE w = stage[k]
      BY <1>t, <2>2, <3>1, <3>2
    <3>3. CASE w # stage[k]
      BY <2>1, <3>1, <3>3
    <3>4. QED
      BY <3>2, <3>3
  <2>6. QED
    BY <2>3, <2>4, <2>5 DEF WindowInv
<1>6. ASSUME NEW k \in Requests, Zcard(k) PROVE WindowInv'
  <2>1. /\ now' = now /\ stage' = stage /\ stamp' = stamp /\ log' = log
        /\ deadline' = deadline /\ pc[k] = "zcard" /\ pc' = [pc EXCEPT ![k] = "expire"]
        /\ passedAt'[stage[k]][k] \in {now, NoTime}
        /\ \A w \in Windows, i \in Requests :
              (w # stage[k] \/ i # k) => passedAt'[w][i] = passedAt[w][i]
    BY <1>t, <1>6 DEF Zcard
  <2>2. k \in log[stage[k]] /\ now <= stamp[stage[k]][k] + MaxDelay
    BY <2>1 DEF WindowInv, Counted, OnTime
  <2>3. OnTime' /\ Counted'
    BY <1>t, <2>1 DEF WindowInv, OnTime, Counted
  <2>4. Unjudged'
    BY <1>t, <2>1 DEF WindowInv, Unjudged
  <2>5. Retained'
    BY <1>t, <2>1, <2>2 DEF WindowInv, Retained
  <2>6. KeyLives'
    BY <1>t, <2>1 DEF WindowInv, KeyLives
  <2>7. QED
    BY <2>3, <2>4, <2>5, <2>6 DEF WindowInv
<1>7. ASSUME NEW k \in Requests, NEW ok \in BOOLEAN, Verdict(k, ok),
             now' = now, stamp' = stamp, log' = log, passedAt' = passedAt,
             pc[k] \in Pipeline,
             ok /\ stage[k] = "user" => passedAt["ip"][k] = NoTime,
             KeyLives'
      PROVE  WindowInv'
  <2>1. /\ pc'[k] \in {"call", "done"}
        /\ pc'[k] = "call" => stage[k] = "user" /\ stage'[k] = "ip"
        /\ pc'[k] = "done" => stage'[k] = stage[k]
        /\ \A i \in Requests \ {k} : pc'[i] = pc[i] /\ stage'[i] = stage[i]
    BY <1>t, <1>7 DEF Verdict
  <2>2. OnTime' /\ Counted' /\ Retained'
    BY <1>t, <1>7, <2>1 DEF WindowInv, OnTime, Counted, Retained
  <2>3. Unjudged'
    BY <1>t, <1>7, <2>1 DEF WindowInv, Unjudged
  <2>4. QED
    BY <1>7, <2>2, <2>3 DEF WindowInv
<1>8. ASSUME NEW k \in Requests, Expire(k) PROVE WindowInv'
  <2>1. /\ now' = now /\ stamp' = stamp /\ log' = log /\ passedAt' = passedAt
        /\ pc[k] = "expire" /\ Verdict(k, passedAt[stage[k]][k] # NoTime)
        /\ deadline' = [deadline EXCEPT ![stage[k]] =
                           IF log[stage[k]] = {} THEN @ ELSE now + Window]
    BY <1>8 DEF Expire, ExpireLost
  <2>2. k \in log[stage[k]]
    BY <2>1 DEF WindowInv, Counted
  <2>3. \A i \in Requests \ {k} : pc'[i] = pc[i] /\ stage'[i] = stage[i]
    BY <1>t, <2>1 DEF Verdict
  <2>4. KeyLives'
    <3> SUFFICES ASSUME NEW w \in Windows, NEW i \in Requests,
                        passedAt[w][i] # NoTime, deadline'[w] # 0
                 PROVE  \/ pc'[i] = "expire" /\ stage'[i] = w
                        \/ deadline'[w] >= passedAt[w][i] + Window
      BY <2>1 DEF KeyLives
    <3>1. CASE w = stage[k]
      BY <1>t, <2>1, <2>2, <3>1 DEF WindowInv, OnTime
    <3>2. CASE w # stage[k]
      BY <1>t, <2>1, <2>3, <3>2 DEF WindowInv, KeyLives
    <3>3. QED
      BY <3>1, <3>2
  <2>5. stage[k] = "user" => passedAt["ip"][k] = NoTime
    BY DEF WindowInv, Unjudged
  <2>6. QED
    BY <1>7, <2>1, <2>4, <2>5
<1>9. ASSUME NEW k \in Requests, NoCount(k) PROVE WindowInv'
  <2>1. /\ now' = now /\ stamp' = stamp /\ log' = log /\ passedAt' = passedAt
        /\ deadline' = deadline
        /\ pc[k] \in {"zadd", "zremrangebyscore", "zcard"} /\ Verdict(k, TRUE)
    BY <1>9 DEF NoCount
  <2>2. \A i \in Requests \ {k} : pc'[i] = pc[i] /\ stage'[i] = stage[i]
    BY <1>t, <2>1 DEF Verdict
  <2>3. KeyLives'
    BY <1>t, <2>1, <2>2 DEF WindowInv, KeyLives
  <2>4. stage[k] = "user" => passedAt["ip"][k] = NoTime
    BY DEF WindowInv, Unjudged
  <2>5. QED
    BY <1>7, <2>1, <2>3, <2>4
<1>10. ASSUME NEW k \in Requests, Refuse(k) PROVE WindowInv'
  <2>1. /\ now' = now /\ stage' = stage /\ stamp' = stamp /\ log' = log
        /\ deadline' = deadline /\ passedAt' = passedAt
        /\ pc[k] \in {"call", "zadd", "zremrangebyscore", "zcard"}
        /\ pc' = [pc EXCEPT ![k] = "done"]
    BY <1>10 DEF Refuse
  <2>2. QED
    BY <1>t, <2>1 DEF WindowInv, OnTime, Counted, Unjudged, Retained, KeyLives
<1>11. CASE UNCHANGED vars
  BY <1>11 DEF vars, WindowInv, OnTime, Counted, Unjudged, Retained, KeyLives
<1>12. QED
  BY <1>1, <1>2, <1>3, <1>4, <1>5, <1>6, <1>8, <1>9, <1>10, <1>11 DEF Next, Handler

\* A step lets at most `limit` requests through per window: only ZCARD lets one
\* through, and it counts everyone who was let through lately.
LEMMA LimitStep ==
    ASSUME TypeOK, WindowInv, AtMostLimitPerWindow, [Next]_vars
    PROVE  AtMostLimitPerWindow'
<1>t. /\ now \in Nat /\ Time \subseteq Nat
      /\ stage \in [Requests -> Windows]
      /\ passedAt \in [Windows -> [Requests -> Nat]]
      /\ log \in [Windows -> SUBSET Requests]
  <2>1. Time \subseteq Nat /\ Time \cup {NoTime} \subseteq Nat
    BY DEF Time, NoTime
  <2>2. QED
    BY <2>1 DEF TypeOK
<1>1. CASE passedAt' = passedAt
  <2>1. \A w, t : Passed(w, t)' = Passed(w, t)
    BY <1>1 DEF Passed
  <2>2. QED
    BY <2>1 DEF AtMostLimitPerWindow
<1>2. ASSUME NEW k \in Requests, Zcard(k) PROVE AtMostLimitPerWindow'
  <2> DEFINE v == stage[k]
  <2>1. /\ v \in Windows /\ pc[k] = "zcard"
        /\ passedAt'[v][k] = IF Cardinality(log[v]) <= Limit(v) THEN now ELSE NoTime
        /\ \A w \in Windows, i \in Requests :
              (w # v \/ i # k) => passedAt'[w][i] = passedAt[w][i]
    BY <1>t, <1>2 DEF Zcard
  <2>2. passedAt[v][k] = NoTime /\ k \in log[v]
    BY <2>1 DEF WindowInv, Unjudged, Counted, MidPipeline
  <2> HIDE DEF v
  <2> SUFFICES ASSUME NEW w \in Windows, NEW t \in Time
               PROVE  Cardinality(Passed(w, t)') <= Limit(w)
    BY DEF AtMostLimitPerWindow
  <2>3. Cardinality(Passed(w, t)) <= Limit(w)
    BY DEF AtMostLimitPerWindow
  <2>4. CASE w = v /\ t >= now /\ Cardinality(log[v]) <= Limit(v)
    <3>1. Passed(w, t)' \in SUBSET log[v]
      <4> SUFFICES ASSUME NEW i \in Requests, passedAt'[v][i] # NoTime,
                          t - SureWindow < passedAt'[v][i]
                   PROVE  i \in log[v]
        BY <2>4 DEF Passed
      <4>1. CASE i = k
        BY <2>2, <4>1
      <4>2. CASE i # k
        BY <1>t, <2>1, <2>4, <4>2, DelayShorterThanWindow DEF WindowInv, Retained, SureWindow
      <4>3. QED
        BY <4>1, <4>2
    <3>2. IsFiniteSet(log[v])
      BY <1>t, <2>1, RequestsFinite, FS_Subset
    <3>3. /\ Cardinality(Passed(w, t)') <= Cardinality(log[v])
          /\ Cardinality(Passed(w, t)') \in Nat /\ Cardinality(log[v]) \in Nat
      BY <3>1, <3>2, FS_Subset, FS_CardinalityType
    <3>4. QED
      BY <2>4, <3>3, LimitsNat DEF Limit
  <2>5. CASE ~ (w = v /\ t >= now /\ Cardinality(log[v]) <= Limit(v))
    <3>1. \A i \in Requests :
             \/ passedAt'[w][i] = passedAt[w][i]
             \/ passedAt[w][i] = NoTime /\ passedAt'[w][i] > t
      <4> SUFFICES ASSUME NEW i \in Requests
                   PROVE  \/ passedAt'[w][i] = passedAt[w][i]
                          \/ passedAt[w][i] = NoTime /\ passedAt'[w][i] > t
        OBVIOUS
      <4>1. CASE w # v \/ i # k
        BY <2>1, <4>1
      <4>2. CASE w = v /\ i = k /\ ~ (Cardinality(log[v]) <= Limit(v))
        BY <2>1, <2>2, <4>2
      <4>3. CASE w = v /\ i = k /\ Cardinality(log[v]) <= Limit(v)
        <5>1. passedAt'[w][i] = now
          BY <2>1, <4>3
        <5>2. ~ (t >= now)
          BY <2>5, <4>3
        <5>3. t \in Nat /\ now \in Nat
          BY <1>t
        <5>4. now > t
          BY <5>2, <5>3
        <5>5. QED
          BY <2>2, <4>3, <5>1, <5>4
      <4>4. QED
        BY <4>1, <4>2, <4>3
    <3>2. Passed(w, t)' \subseteq Passed(w, t)
      BY <1>t, <2>1, <3>1 DEF Passed, NoTime
    <3>3. Passed(w, t) \subseteq Passed(w, t)'
      BY <1>t, <2>1, <3>1 DEF Passed, NoTime
    <3>4. Passed(w, t)' = Passed(w, t)
      BY <3>2, <3>3, Zenon
    <3>5. Cardinality(Passed(w, t)') = Cardinality(Passed(w, t))
      BY <3>4, Zenon
    <3>6. QED
      BY <2>3, <3>5, Zenon
  <2>6. QED
    BY <2>4, <2>5
<1>3. QED
  BY <1>1, <1>2 DEF Next, Handler, Tick, Arrive, Call, Zadd, Zremrangebyscore, Expire,
     NoCount, Refuse, vars

\* slidingWindow is strict up to the transit time, for any number of requests
\* in flight, provided no key expires between ZADD and EXPIRE of one pipeline.
THEOREM AtMostLimitCorrect ==
    ASSUME ~ SlowPipeline
    PROVE  Spec => []AtMostLimitPerWindow
<1>1. Init => WindowInv
  BY DEF Init, WindowInv, OnTime, Counted, Unjudged, Retained, KeyLives, Windows, NoTime,
     Pipeline, MidPipeline
<1>2. Init => AtMostLimitPerWindow
  <2> SUFFICES ASSUME Init, NEW w \in Windows, NEW t \in Time
               PROVE  Cardinality(Passed(w, t)) <= Limit(w)
    BY DEF AtMostLimitPerWindow
  <2>1. Passed(w, t) = {}
    BY DEF Init, Passed
  <2>2. QED
    BY <2>1, FS_EmptySet, LimitsNat DEF Limit
<1>3. TypeOK /\ WindowInv /\ [Next]_vars => WindowInv'
  BY WindowInvStep
<1>4. TypeOK /\ WindowInv /\ AtMostLimitPerWindow /\ [Next]_vars => AtMostLimitPerWindow'
  BY LimitStep
<1>5. QED
  BY <1>1, <1>2, <1>3, <1>4, TypeCorrect, PTL DEF Spec
=============================================================================
