---------------------------- MODULE TokenBucket -----------------------------
(***************************************************************************)
(* The token bucket of one user: tokenBucket of apps/gateway/src/          *)
(* rate-limit/rate-limit.service.ts, as called by proxyAll of              *)
(* proxy/proxy.controller.ts after the sliding windows.                    *)
(*                                                                         *)
(* Each Redis command is one action.  Tokens are measured in the time it   *)
(* takes to refill them, so that a tick of the clock refills one unit and  *)
(* Cost units are one token.                                               *)
(***************************************************************************)
EXTENDS Integers

CONSTANTS
    Requests,       \* the requests that may be in flight together
    Capacity,       \* capacity of the bucket
    Cost,           \* one token
    BucketTtl,      \* EXPIRE of the key
    MaxTime,        \* bound of the model: the clock stops here
    MayFail         \* may Redis commands fail?

ASSUME BucketSizes ==
    /\ Capacity \in Nat /\ Cost \in Nat \ {0} /\ BucketTtl \in Nat /\ MaxTime \in Nat
    /\ Requests # {}
\* In 60 s 10 tokens per second refill more than the capacity and a token.
ASSUME IdleBucketIsFull == BucketTtl >= Capacity + Cost

VARIABLES
    now,            \* Date.now() of the gateway, and Redis's clock
    pc,             \* the next command of each request
    stamp,          \* its local `now`
    left,           \* its local `tokens`
    allowed,        \* its local `allowed`
    tokens, last,   \* the hash ratelimit:tb:{user}; last = 0: no key
    deadline,       \* when the key expires, 0 for no TTL
    spent,          \* history: tokens of the requests let through
    low             \* history: the least value of spent - now so far

bucket == <<tokens, last, deadline>>
vars == <<now, pc, stamp, left, allowed, bucket, spent, low>>

Time == 1 .. MaxTime + 1
NoTime == 0
Pc == {"idle", "hmget", "hmset", "expire"}
\* Requests in flight together may drive the tokens below 0, never above.
Tokens == {n \in Int : n <= Capacity}

TypeOK ==
    /\ now \in Time
    /\ pc \in [Requests -> Pc]
    /\ stamp \in [Requests -> Time]
    /\ left \in [Requests -> Tokens]
    /\ allowed \in [Requests -> BOOLEAN]
    /\ tokens \in Tokens
    /\ last \in Time \cup {NoTime}
    /\ deadline \in Nat
    /\ spent \in Nat
    /\ low \in Int

Init ==
    /\ now = 1
    /\ pc = [r \in Requests |-> "idle"]
    /\ stamp = [r \in Requests |-> 1]
    /\ left = [r \in Requests |-> 0]
    /\ allowed = [r \in Requests |-> FALSE]
    /\ tokens = 0 /\ last = NoTime /\ deadline = 0
    /\ spent = 0 /\ low = -1

-----------------------------------------------------------------------------

\* The request has passed the windows; tokenBucket reads the clock.
Call(r) ==
    /\ pc[r] = "idle"
    /\ stamp' = [stamp EXCEPT ![r] = now]
    /\ pc' = [pc EXCEPT ![r] = "hmget"]
    /\ UNCHANGED <<now, left, allowed, bucket, spent, low>>

Least(a, b) == IF a < b THEN a ELSE b

\* Mutant: the clamp to the capacity is forgotten.
RefilledUnclamped(t) ==
    IF last = NoTime THEN Capacity ELSE tokens + t - last

\* The tokens at time t; an absent key is a full bucket.
Refilled(t) ==
    IF last = NoTime THEN Capacity ELSE Least(Capacity, tokens + t - last)

\* Mutant: the refilled tokens are stored, the decrement is lost.
HmgetFree(r) ==
    /\ pc[r] = "hmget"
    /\ LET t == Refilled(stamp[r])
       IN  /\ allowed' = [allowed EXCEPT ![r] = t >= Cost]
           /\ left' = [left EXCEPT ![r] = t]
    /\ pc' = [pc EXCEPT ![r] = "hmset"]
    /\ UNCHANGED <<now, stamp, bucket, spent, low>>

Hmget(r) ==
    /\ pc[r] = "hmget"
    /\ LET t == Refilled(stamp[r])
       IN  /\ allowed' = [allowed EXCEPT ![r] = t >= Cost]
           /\ left' = [left EXCEPT ![r] = IF t >= Cost THEN t - Cost ELSE t]
    /\ pc' = [pc EXCEPT ![r] = "hmset"]
    /\ UNCHANGED <<now, stamp, bucket, spent, low>>

Hmset(r) ==
    /\ pc[r] = "hmset"
    /\ tokens' = left[r]
    /\ last' = stamp[r]
    /\ pc' = [pc EXCEPT ![r] = "expire"]
    /\ UNCHANGED <<now, stamp, left, allowed, deadline, spent, low>>

\* EXPIRE, and the verdict: through to the proxy, or 429.
Expire(r) ==
    /\ pc[r] = "expire"
    /\ deadline' = IF last = NoTime THEN deadline ELSE now + BucketTtl
    /\ spent' = IF allowed[r] THEN spent + Cost ELSE spent
    /\ pc' = [pc EXCEPT ![r] = "idle"]
    /\ UNCHANGED <<now, stamp, left, allowed, tokens, last, low>>

\* A command rejects: the client gets a 500.
Fail(r) ==
    /\ MayFail
    /\ pc[r] # "idle"
    /\ pc' = [pc EXCEPT ![r] = "idle"]
    /\ UNCHANGED <<now, stamp, left, allowed, bucket, spent, low>>

\* The clock advances, and Redis drops the key when its time has come.
Tick ==
    /\ now <= MaxTime
    /\ now' = now + 1
    /\ IF deadline = now + 1
       THEN tokens' = 0 /\ last' = NoTime /\ deadline' = 0
       ELSE UNCHANGED bucket
    /\ low' = Least(low, spent - (now + 1))
    /\ UNCHANGED <<pc, stamp, left, allowed, spent>>

Handler(r) == Call(r) \/ Hmget(r) \/ Hmset(r) \/ Expire(r) \/ Fail(r)

Next == Tick \/ \E r \in Requests : Handler(r)

Spec == Init /\ [][Next]_vars

-----------------------------------------------------------------------------
(***************************************************************************)
(* Properties.                                                             *)
(***************************************************************************)

\* tokenBucket, one request at a time: in any interval the user spends no more
\* than a full bucket, what the interval refills, and one token (that of a
\* request let through late: its HMSET undone by the expiry of the key, or its
\* clock reading old).  For an interval from s to t, low <= spent(s) - s.
BurstBound == spent - now <= low + Capacity + Cost

=============================================================================
