------------------------- MODULE TokenBucketProofs --------------------------
(***************************************************************************)
(* Theorems about TokenBucket.                                             *)
(*                                                                         *)
(* BurstBound alone is not inductive: the tokens in the bucket are what    *)
(* may still be spent.  BurstInv bounds the tokens spent, those of the     *)
(* request in flight included, together with the tokens left.              *)
(***************************************************************************)
EXTENDS TokenBucket, TLAPS

-----------------------------------------------------------------------------
(***************************************************************************)
(* Types, for any number of requests in flight.                            *)
(***************************************************************************)

\* tokenBucket never stores more than the capacity, whatever the interleaving
\* of HMGET and HMSET and however old the clock readings; an old reading may
\* take the bucket below nothing.
THEOREM TypeCorrect == Spec => []TypeOK
<1>1. Init => TypeOK
  BY BucketSizes DEF Init, TypeOK, Time, NoTime, Pc, Tokens
<1>2. TypeOK /\ [Next]_vars => TypeOK'
  <2> SUFFICES ASSUME TypeOK, [Next]_vars PROVE TypeOK'
    OBVIOUS
  <2> USE BucketSizes
  <2>1. ASSUME Tick PROVE TypeOK'
    BY <2>1 DEF Tick, TypeOK, Time, NoTime, Tokens, Least, bucket
  <2>2. ASSUME NEW r \in Requests, Handler(r) PROVE TypeOK'
    <3>1. CASE Call(r)
      BY <3>1 DEF Call, TypeOK, Pc, bucket
    <3>2. CASE Hmget(r)
      <4>1. Refilled(stamp[r]) \in Tokens
        BY DEF Refilled, Least, TypeOK, Tokens, Time, NoTime
      <4>2. (IF Refilled(stamp[r]) >= Cost THEN Refilled(stamp[r]) - Cost
                ELSE Refilled(stamp[r])) \in Tokens
        BY <4>1 DEF Tokens
      <4>3. (Refilled(stamp[r]) >= Cost) \in BOOLEAN
        BY <4>1 DEF Tokens
      <4>4. left' \in [Requests -> Tokens] /\ allowed' \in [Requests -> BOOLEAN]
        BY <3>2, <4>2, <4>3 DEF Hmget, TypeOK
      <4>5. QED
        BY <3>2, <4>4 DEF Hmget, TypeOK, Pc, bucket
    <3>3. CASE Hmset(r)
      BY <3>3 DEF Hmset, TypeOK, Pc
    <3>4. CASE Expire(r)
      BY <3>4 DEF Expire, TypeOK, Pc, Time
    <3>5. CASE Fail(r)
      BY <3>5 DEF Fail, TypeOK, Pc, bucket
    <3>6. QED
      BY <2>2, <3>1, <3>2, <3>3, <3>4, <3>5 DEF Handler
  <2>3. CASE UNCHANGED vars
    BY <2>3 DEF vars, bucket, TypeOK
  <2>4. QED
    BY <2>1, <2>2, <2>3 DEF Next
<1>3. QED
  BY <1>1, <1>2, PTL DEF Spec

-----------------------------------------------------------------------------
(***************************************************************************)
(* The bound, for one request at a time.                                   *)
(***************************************************************************)

\* Nothing was saved up: the tokens s spent so far are at most one above the
\* lowest point of the past.
Fresh(s) == s - now <= low + Cost

\* What is spent, and what is left since time t, does not exceed the bucket.
Backed(s, n, t) == s + n - t <= low + Capacity + Cost

\* The bound for the stored bucket.
KeyBound(s) ==
    \/ Fresh(s)
    \/ last # NoTime /\ Backed(s, tokens, last)

\* The tokens spent once request r has been answered.
Total(r) == IF allowed[r] THEN spent + Cost ELSE spent

\* The bound for a request that has read the clock and not yet the bucket:
\* what it will find are the tokens at its reading.
ReadBound(r) ==
    \/ spent - stamp[r] <= low + Cost
    \/ spent - now <= low
    \/ last # NoTime /\ Backed(spent, tokens, last)

\* The inductive invariant for a single request slot r.
BurstInv(r) ==
    /\ last <= now /\ stamp[r] <= now
    /\ tokens >= 0 /\ left[r] >= 0
    /\ pc[r] # "idle" => last <= stamp[r]
    /\ KeyBound(spent)
    /\ deadline # 0 => last # NoTime /\ deadline > now /\ spent - deadline <= low
    /\ pc[r] = "hmget" => ReadBound(r)
    /\ pc[r] = "hmset" => Fresh(Total(r)) \/ Backed(Total(r), left[r], stamp[r])
    /\ pc[r] = "expire" =>
          /\ KeyBound(Total(r))
          /\ last # NoTime => last = stamp[r] /\ tokens = left[r]

LEMMA BurstInvStep ==
    ASSUME NEW r, Requests = {r}, TypeOK, BurstInv(r), [Next]_vars
    PROVE  BurstInv(r)'
<1> USE BucketSizes, IdleBucketIsFull
<1> r \in Requests
  OBVIOUS
<1>t. /\ now \in Nat /\ stamp[r] \in Nat /\ left[r] \in Int /\ allowed[r] \in BOOLEAN
      /\ tokens \in Int /\ left[r] <= Capacity /\ tokens <= Capacity
      /\ last \in Nat /\ deadline \in Nat /\ spent \in Nat /\ low \in Int
      /\ pc \in [Requests -> Pc]
  BY DEF TypeOK, Time, NoTime, Tokens
<1>1. CASE Tick
  <2>1. /\ now' = now + 1 /\ spent' = spent /\ pc' = pc /\ stamp' = stamp
        /\ left' = left /\ allowed' = allowed /\ low' = Least(low, spent - (now + 1))
    BY <1>1 DEF Tick
  <2>2. CASE deadline = now + 1
    <3>1. tokens' = 0 /\ last' = NoTime /\ deadline' = 0
      BY <1>1, <2>2 DEF Tick
    <3>2. QED
      BY <1>t, <2>1, <2>2, <3>1 DEF BurstInv, KeyBound, ReadBound, Fresh, Backed, Total,
         NoTime, Least
  <2>3. CASE deadline # now + 1
    <3>1. tokens' = tokens /\ last' = last /\ deadline' = deadline
      BY <1>1, <2>3 DEF Tick, bucket
    <3>2. QED
      BY <1>t, <2>1, <2>3, <3>1 DEF BurstInv, KeyBound, ReadBound, Fresh, Backed, Total,
         NoTime, Least
  <2>4. QED
    BY <2>2, <2>3
<1>2. CASE Call(r)
  <2>1. /\ now' = now /\ spent' = spent /\ pc'[r] = "hmget" /\ stamp'[r] = now
        /\ left' = left /\ allowed' = allowed /\ low' = low
        /\ tokens' = tokens /\ last' = last /\ deadline' = deadline
    BY <1>2 DEF Call, TypeOK, bucket
  <2>2. QED
    BY <1>t, <2>1 DEF BurstInv, KeyBound, ReadBound, Fresh, Backed, Total, NoTime
<1>3. CASE Hmget(r)
  <2> DEFINE t == Refilled(stamp[r])
  <2>1. /\ now' = now /\ spent' = spent /\ pc'[r] = "hmset" /\ stamp' = stamp
        /\ low' = low /\ tokens' = tokens /\ last' = last /\ deadline' = deadline
    BY <1>3 DEF Hmget, TypeOK, bucket
  <2>2. /\ allowed'[r] = (t >= Cost)
        /\ left'[r] = IF t >= Cost THEN t - Cost ELSE t
    BY <1>3 DEF Hmget, TypeOK
  <2>3. /\ t \in Int /\ t >= 0 /\ t <= Capacity
        /\ last # NoTime => t <= tokens + stamp[r] - last
    BY <1>t, <1>3 DEF Refilled, Least, BurstInv, Hmget, NoTime
  <2>4. ReadBound(r)
    BY <1>3 DEF BurstInv, Hmget
  <2> HIDE DEF t
  <2>5. (Fresh(Total(r)) \/ Backed(Total(r), left[r], stamp[r]))'
    <3>1. CASE t >= Cost
      <4>1. Total(r)' = spent + Cost /\ left'[r] = t - Cost
        BY <2>1, <2>2, <3>1 DEF Total
      <4>2. QED
        BY <1>t, <2>1, <2>3, <2>4, <4>1 DEF ReadBound, Fresh, Backed, NoTime
    <3>2. CASE ~ (t >= Cost)
      <4>1. Total(r)' = spent /\ left'[r] = t
        BY <2>1, <2>2, <3>2 DEF Total
      <4>2. QED
        BY <1>t, <2>1, <2>3, <2>4, <4>1 DEF ReadBound, Fresh, Backed, NoTime
    <3>3. QED
      BY <3>1, <3>2
  <2>6. QED
    BY <1>t, <1>3, <2>1, <2>2, <2>3, <2>5 DEF BurstInv, KeyBound, Fresh, Backed, NoTime, Hmget
<1>4. CASE Hmset(r)
  <2>1. /\ now' = now /\ spent' = spent /\ pc'[r] = "expire" /\ stamp' = stamp
        /\ left' = left /\ allowed' = allowed /\ low' = low /\ deadline' = deadline
        /\ tokens' = left[r] /\ last' = stamp[r]
    BY <1>4 DEF Hmset, TypeOK
  <2>2. stamp[r] # NoTime
    BY DEF TypeOK, Time, NoTime
  <2>3. QED
    BY <1>t, <1>4, <2>1, <2>2 DEF BurstInv, KeyBound, Fresh, Backed, Total, NoTime, Hmset
<1>5. CASE Expire(r)
  <2>1. /\ now' = now /\ spent' = Total(r) /\ pc'[r] = "idle" /\ stamp' = stamp
        /\ left' = left /\ allowed' = allowed /\ low' = low
        /\ tokens' = tokens /\ last' = last
        /\ deadline' = IF last = NoTime THEN deadline ELSE now + BucketTtl
    BY <1>5 DEF Expire, TypeOK, Total
  <2>2. Total(r) \in Nat /\ Total(r) <= spent + Cost
    BY <1>t DEF Total
  <2>3. KeyBound(Total(r)) /\ (last # NoTime => last = stamp[r] /\ tokens = left[r])
    BY <1>5 DEF BurstInv, Expire
  <2>4. KeyBound(spent)'
    BY <2>1, <2>3 DEF KeyBound, Fresh, Backed
  <2>5. deadline' # 0 => last' # NoTime /\ deadline' > now' /\ spent' - deadline' <= low'
    <3>1. CASE last = NoTime
      BY <1>t, <2>1, <2>2, <2>3, <3>1 DEF BurstInv, KeyBound, Fresh
    <3>2. CASE last # NoTime
      BY <1>t, <2>1, <2>2, <2>3, <3>2 DEF BurstInv, KeyBound, Fresh, Backed, NoTime
    <3>3. QED
      BY <3>1, <3>2
  <2>6. QED
    BY <1>t, <2>1, <2>4, <2>5 DEF BurstInv
<1>6. CASE Fail(r)
  <2>1. /\ now' = now /\ spent' = spent /\ pc'[r] = "idle" /\ stamp' = stamp
        /\ left' = left /\ allowed' = allowed /\ low' = low
        /\ tokens' = tokens /\ last' = last /\ deadline' = deadline
    BY <1>6 DEF Fail, TypeOK, bucket
  <2>2. QED
    BY <1>t, <2>1 DEF BurstInv, KeyBound, Fresh, Backed
<1>7. CASE UNCHANGED vars
  BY <1>7 DEF vars, bucket, BurstInv, KeyBound, ReadBound, Fresh, Backed, Total
<1>8. QED
  BY <1>1, <1>2, <1>3, <1>4, <1>5, <1>6, <1>7 DEF Next, Handler

\* tokenBucket keeps its promise when a user's requests come one at a time:
\* any burst is bounded by the capacity, the refill and one token.
THEOREM SequentialBurstBound ==
    ASSUME NEW r, Requests = {r}
    PROVE  Spec => []BurstBound
<1>1. Init => BurstInv(r)
  BY BucketSizes DEF Init, BurstInv, KeyBound, Fresh, Backed, NoTime
<1>2. TypeOK /\ BurstInv(r) /\ [Next]_vars => BurstInv(r)'
  BY BurstInvStep
<1>3. TypeOK /\ BurstInv(r) => BurstBound
  BY BucketSizes DEF TypeOK, Time, NoTime, Tokens, BurstInv, KeyBound, Fresh, Backed, BurstBound
<1>4. QED
  BY <1>1, <1>2, <1>3, TypeCorrect, PTL DEF Spec
=============================================================================
