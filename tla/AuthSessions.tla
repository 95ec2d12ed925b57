---------------------------- MODULE AuthSessions ----------------------------
(***************************************************************************)
(* Accounts, refresh tokens and device sessions of the auth service        *)
(* (apps/auth-service/src/auth/auth.service.ts and users.service.ts).      *)
(*                                                                         *)
(* A handler is a sequence of awaited Redis and Postgres commands.  Node   *)
(* may run other handlers at every await, so each command is one action    *)
(* and every request carries its program counter and its locals.  Awaits   *)
(* that touch no state read here (bcrypt, JWT signing, the lastLogin       *)
(* columns) are merged into the action that follows them.  A request that  *)
(* is refused before it changes anything is not a step.                    *)
(***************************************************************************)
EXTENDS Integers, FiniteSets

CONSTANTS
    Users,          \* accounts, identified by e-mail address and id
    Devices,        \* sha256 of a User-Agent header
    UnknownDevice,  \* sha256 of 'unknown', the device of register()
    Requests,       \* the requests that may be in flight together
    MaxSessions,    \* MAX_SESSIONS
    MayFail,        \* whether an awaited command may reject
    SameMs,         \* whether two ZADDs may carry the same Date.now()
    MaxToken,       \* bound: refresh tokens minted in a behaviour
    MaxTime         \* bound: distinct Date.now() values in a behaviour

ASSUME UserAssumption    == Users # {}
ASSUME DeviceAssumption  == UnknownDevice \in Devices
ASSUME FiniteAssumption  == IsFiniteSet(Devices)
ASSUME SessionAssumption == MaxSessions \in Nat \ {0}
ASSUME SwitchAssumption  == MayFail \in BOOLEAN /\ SameMs \in BOOLEAN
ASSUME BoundAssumption   == MaxToken \in Nat /\ MaxTime \in Nat

VARIABLES
    account,    \* users table: the row of each user, or NoRow
    refresh,    \* Redis refresh:{user}:{device}: a token's uuid, 0 if no key
    score,      \* Redis user_sessions:{user}: a member's score, 0 if no member
    now,        \* the last Date.now() used as a score
    lastToken,  \* uuids drawn so far: token n is the n-th
    issued,     \* refresh tokens handed to clients
    req         \* the requests in flight, and where each of them is

vars == <<account, refresh, score, now, lastToken, issued, req>>

Row   == [active : BOOLEAN, password : BOOLEAN, linked : BOOLEAN]
NoRow == [active |-> FALSE, password |-> FALSE, linked |-> FALSE]

\* `from' is a history field: the token a refresh exchanged, 0 for a login.
Token == [user : Users, device : Devices, id : 1..MaxToken, from : 0..MaxToken]

\* The steps of generateTokenPair, in order; pc names the command to come.
Minting == {"zadd", "zcard", "zrange", "evictDel", "evictZrem", "setToken"}
Pc == {"idle", "registerSave", "oauthSave", "profileSave", "refreshDel",
       "refreshUser", "logoutZrem"} \cup Minting

Request == [pc : Pc, user : Users, device : Devices, token : 0..MaxToken,
            victim : Devices, row : Row]
At(pc, u, d, t, v, row) ==
    [pc |-> pc, user |-> u, device |-> d, token |-> t, victim |-> v, row |-> row]
Idle == At("idle", CHOOSE u \in Users : TRUE, UnknownDevice, 0, UnknownDevice, NoRow)

TypeOK ==
    /\ account \in [Users -> Row]
    /\ refresh \in [Users -> [Devices -> 0..MaxToken]]
    /\ score \in [Users -> [Devices -> 0..MaxTime]]
    /\ now \in 0..MaxTime
    /\ lastToken \in 0..MaxToken
    /\ issued \in SUBSET Token
    /\ req \in [Requests -> Request]

\* ZRANGE 0 -1 of user_sessions:{u}, and what ZRANGE 0 0 may return: Redis
\* breaks a tie of scores by the order of the hashes, which is arbitrary.
Sessions(u) == {d \in Devices : score[u][d] > 0}
Oldest(u) == {d \in Sessions(u) : \A e \in Sessions(u) : score[u][d] <= score[u][e]}

Exists(u) == account[u].password \/ account[u].linked

Init ==
    /\ account = [u \in Users |-> NoRow]
    /\ refresh = [u \in Users |-> [d \in Devices |-> 0]]
    /\ score = [u \in Users |-> [d \in Devices |-> 0]]
    /\ now = 0
    /\ lastToken = 0
    /\ issued = {}
    /\ req = [r \in Requests |-> Idle]

\* Request r goes on at pc, its locals kept except for the victim.
Evict(r, pc, v) ==
    req' = [req EXCEPT
        ![r] = At(pc, req[r].user, req[r].device, req[r].token, v, req[r].row)]
Goto(r, pc) == Evict(r, pc, req[r].victim)

\* The handler returns or throws; its locals are gone.
Done(r) == req' = [req EXCEPT ![r] = Idle]

Start(r, pc, u, d, t) ==
    /\ req[r].pc = "idle"
    /\ req' = [req EXCEPT ![r] = At(pc, u, d, t, UnknownDevice, NoRow)]
-----------------------------------------------------------------------------
(* register: findOne by e-mail, bcrypt, then save.  The unique column makes *)
(* the save of the slower of two racing registrations throw.                *)

RegisterFind(r, u) ==
    /\ ~Exists(u)
    /\ Start(r, "registerSave", u, UnknownDevice, 0)
    /\ UNCHANGED <<account, refresh, score, now, lastToken, issued>>

RegisterSave(r) ==
    LET u == req[r].user IN
    /\ req[r].pc = "registerSave"
    /\ \/ /\ ~Exists(u)
          /\ account' = [account EXCEPT
                ![u] = [active |-> TRUE, password |-> TRUE, linked |-> FALSE]]
          /\ Goto(r, "zadd")
       \/ /\ Exists(u)
          /\ Done(r)
          /\ UNCHANGED account
    /\ UNCHANGED <<refresh, score, now, lastToken, issued>>

\* login: isActive is tested on the row read before bcrypt.compare.
Login(r, u, d) ==
    /\ account[u].password
    /\ account[u].active
    /\ Start(r, "zadd", u, d, 0)
    /\ UNCHANGED <<account, refresh, score, now, lastToken, issued>>

(* The OAuth callbacks: findOrCreateByOAuth, then loginOAuth on that row.   *)

OAuthFind(r, u, d) ==
    /\ \/ account[u].linked /\ account[u].active /\ Start(r, "zadd", u, d, 0)
       \/ /\ ~account[u].linked
          /\ req[r].pc = "idle"
          /\ req' = [req EXCEPT
                ![r] = At("oauthSave", u, d, 0, UnknownDevice, account[u])]
    /\ UNCHANGED <<account, refresh, score, now, lastToken, issued>>

\* save() inserts the new row, or writes the entity read by findByEmail back,
\* its isActive column included; loginOAuth then tests that same entity.
OAuthSave(r) ==
    LET u == req[r].user
        row == req[r].row
    IN
    /\ req[r].pc = "oauthSave"
    /\ \/ /\ row = NoRow /\ ~Exists(u)
          /\ account' = [account EXCEPT
                ![u] = [active |-> TRUE, password |-> FALSE, linked |-> TRUE]]
          /\ Goto(r, "zadd")
       \/ /\ row = NoRow /\ Exists(u)
          /\ Done(r)
          /\ UNCHANGED account
       \/ /\ row # NoRow
          /\ account' = [account EXCEPT ![u] =
                [active |-> row.active, password |-> row.password, linked |-> TRUE]]
          /\ IF row.active THEN Goto(r, "zadd") ELSE Done(r)
    /\ UNCHANGED <<refresh, score, now, lastToken, issued>>
-----------------------------------------------------------------------------
(* refreshTokens: GET and compare, DEL, then the user's row.                *)

\* Mutant: any stored token will do, the presented one is not compared.
RefreshGetUncompared(r, t) ==
    /\ refresh[t.user][t.device] # 0
    /\ Start(r, "refreshDel", t.user, t.device, t.id)
    /\ UNCHANGED <<account, refresh, score, now, lastToken, issued>>

RefreshGet(r, t) ==
    /\ refresh[t.user][t.device] = t.id
    /\ Start(r, "refreshDel", t.user, t.device, t.id)
    /\ UNCHANGED <<account, refresh, score, now, lastToken, issued>>

\* The DEL is unconditional: it removes whatever the key holds by now.
RefreshDel(r) ==
    /\ req[r].pc = "refreshDel"
    /\ refresh' = [refresh EXCEPT ![req[r].user][req[r].device] = 0]
    /\ Goto(r, "refreshUser")
    /\ UNCHANGED <<account, score, now, lastToken, issued>>

\* Mutant: the user's isActive column is not looked at.
RefreshUserUnchecked(r) ==
    /\ req[r].pc = "refreshUser"
    /\ Goto(r, "zadd")
    /\ UNCHANGED <<account, refresh, score, now, lastToken, issued>>

RefreshUser(r) ==
    /\ req[r].pc = "refreshUser"
    /\ IF account[req[r].user].active THEN Goto(r, "zadd") ELSE Done(r)
    /\ UNCHANGED <<account, refresh, score, now, lastToken, issued>>

(* generateTokenPair.                                                       *)

Ticks == {now + 1} \cup (IF SameMs THEN {now} ELSE {})

Zadd(r) ==
    /\ req[r].pc = "zadd"
    /\ \E t \in Ticks \cap 1..MaxTime :
        /\ score' = [score EXCEPT ![req[r].user][req[r].device] = t]
        /\ now' = t
    /\ Goto(r, "zcard")
    /\ UNCHANGED <<account, refresh, lastToken, issued>>

\* Mutant: an off-by-one in the limit.
TooManyLate(u) == Cardinality(Sessions(u)) > MaxSessions + 1

TooMany(u) == Cardinality(Sessions(u)) > MaxSessions

Zcard(r) ==
    /\ req[r].pc = "zcard"
    /\ Goto(r, IF TooMany(req[r].user) THEN "zrange" ELSE "setToken")
    /\ UNCHANGED <<account, refresh, score, now, lastToken, issued>>

Zrange(r) ==
    LET u == req[r].user IN
    /\ req[r].pc = "zrange"
    /\ \/ \E d \in Oldest(u) : Evict(r, "evictDel", d)
       \/ Sessions(u) = {} /\ Goto(r, "setToken")
    /\ UNCHANGED <<account, refresh, score, now, lastToken, issued>>

\* Mutant: eviction forgets the refresh token of the evicted device.
EvictDelNothing(r) ==
    /\ req[r].pc = "evictDel"
    /\ Goto(r, "evictZrem")
    /\ UNCHANGED <<account, refresh, score, now, lastToken, issued>>

EvictDel(r) ==
    /\ req[r].pc = "evictDel"
    /\ refresh' = [refresh EXCEPT ![req[r].user][req[r].victim] = 0]
    /\ Goto(r, "evictZrem")
    /\ UNCHANGED <<account, score, now, lastToken, issued>>

EvictZrem(r) ==
    /\ req[r].pc = "evictZrem"
    /\ score' = [score EXCEPT ![req[r].user][req[r].victim] = 0]
    /\ Goto(r, "setToken")
    /\ UNCHANGED <<account, refresh, now, lastToken, issued>>

\* Mutant: a token without a device, as if deviceId were computed too late.
NewTokenNoDevice(r) == [user |-> req[r].user, device |-> "undefined",
                        id |-> lastToken + 1, from |-> req[r].token]

\* Mutant: a refresh stores the presented token again instead of rotating it.
NewTokenUnrotated(r) ==
    [user |-> req[r].user, device |-> req[r].device, from |-> req[r].token,
     id |-> IF req[r].token # 0 THEN req[r].token ELSE lastToken + 1]

\* The uuid is drawn earlier, but nobody sees the token before the SET.
NewToken(r) == [user |-> req[r].user, device |-> req[r].device,
                id |-> lastToken + 1, from |-> req[r].token]

\* Mutant: the token is stored under the device of register().
SetTokenWrongKey(r) ==
    LET t == NewToken(r) IN
    /\ req[r].pc = "setToken"
    /\ lastToken < MaxToken
    /\ lastToken' = lastToken + 1
    /\ refresh' = [refresh EXCEPT ![t.user][UnknownDevice] = t.id]
    /\ issued' = issued \cup {t}
    /\ Done(r)
    /\ UNCHANGED <<account, score, now>>

SetToken(r) ==
    LET t == NewToken(r) IN
    /\ req[r].pc = "setToken"
    /\ lastToken < MaxToken
    /\ lastToken' = lastToken + 1
    /\ refresh' = [refresh EXCEPT ![t.user][t.device] = t.id]
    /\ issued' = issued \cup {t}
    /\ Done(r)
    /\ UNCHANGED <<account, score, now>>
-----------------------------------------------------------------------------
\* logout: the user comes from the access token, the device from the refresh
\* token in the body, and the two need not belong together.
LogoutDel(r, u, t) ==
    /\ Exists(u)
    /\ Start(r, "logoutZrem", u, t.device, 0)
    /\ refresh' = [refresh EXCEPT ![u][t.device] = 0]
    /\ UNCHANGED <<account, score, now, lastToken, issued>>

LogoutZrem(r) ==
    /\ req[r].pc = "logoutZrem"
    /\ score' = [score EXCEPT ![req[r].user][req[r].device] = 0]
    /\ Done(r)
    /\ UNCHANGED <<account, refresh, now, lastToken, issued>>

\* updateProfile: findOne of the user an access token names.  Access tokens are
\* handed out with refresh tokens; isActive is not looked at.
ProfileFind(r, u) ==
    /\ Exists(u)
    /\ \E t \in issued : t.user = u
    /\ req[r].pc = "idle"
    /\ req' = [req EXCEPT
          ![r] = At("profileSave", u, UnknownDevice, 0, UnknownDevice, account[u])]
    /\ UNCHANGED <<account, refresh, score, now, lastToken, issued>>

\* save() writes the whole entity that was read, its isActive column included.
ProfileSave(r) ==
    /\ req[r].pc = "profileSave"
    /\ account' = [account EXCEPT ![req[r].user] = req[r].row]
    /\ Done(r)
    /\ UNCHANGED <<refresh, score, now, lastToken, issued>>

\* A command rejects, or the process restarts: the rest of the handler is lost.
Fail(r) ==
    /\ MayFail
    /\ req[r].pc # "idle"
    /\ Done(r)
    /\ UNCHANGED <<account, refresh, score, now, lastToken, issued>>

\* External: the EX of the SET runs out; an operator flips isActive.
Expire(u, d) ==
    /\ refresh[u][d] # 0
    /\ refresh' = [refresh EXCEPT ![u][d] = 0]
    /\ UNCHANGED <<account, score, now, lastToken, issued, req>>

SetActive(u) ==
    /\ Exists(u)
    /\ account' = [account EXCEPT ![u] =
            [active |-> ~account[u].active, password |-> account[u].password,
             linked |-> account[u].linked]]
    /\ UNCHANGED <<refresh, score, now, lastToken, issued, req>>

Handler(r) ==
    \/ \E u \in Users : RegisterFind(r, u)
    \/ RegisterSave(r)
    \/ \E u \in Users, d \in Devices : Login(r, u, d) \/ OAuthFind(r, u, d)
    \/ OAuthSave(r)
    \/ \E t \in issued : RefreshGet(r, t)
    \/ RefreshDel(r) \/ RefreshUser(r)
    \/ Zadd(r) \/ Zcard(r) \/ Zrange(r) \/ EvictDel(r) \/ EvictZrem(r) \/ SetToken(r)
    \/ \E u \in Users, t \in issued : LogoutDel(r, u, t)
    \/ LogoutZrem(r)
    \/ \E u \in Users : ProfileFind(r, u)
    \/ ProfileSave(r)
    \/ Fail(r)

Next ==
    \/ \E r \in Requests : Handler(r)
    \/ \E u \in Users, d \in Devices : Expire(u, d)
    \/ \E u \in Users : SetActive(u)

Spec == Init /\ [][Next]_vars
-----------------------------------------------------------------------------
\* t is the token Redis holds for its user and device: refreshTokens takes it.
Valid(t) == refresh[t.user][t.device] = t.id

\* A refresh token that stopped being valid (rotated, logged out, evicted or
\* expired) never becomes valid again, whatever handlers run side by side:
\* refreshTokens rejects every later presentation of it.
DeadTokensStayDead == [][\A t \in issued : ~Valid(t) => ~Valid(t)']_vars

\* The key refresh:{user}:{device} only ever holds a token minted for that
\* user and that device and handed out, so no token opens a second session.
TokensUnderTheirKey ==
    \A u \in Users, d \in Devices : refresh[u][d] # 0 =>
        \E t \in issued : t.user = u /\ t.device = d /\ t.id = refresh[u][d]

\* A request for u under way read the account as active: it goes on to a token,
\* or it is about to save the row it read, isActive with it.
InFlight(u) ==
    \E r \in Requests :
        /\ req[r].user = u
        /\ \/ req[r].pc \in Minting
           \/ req[r].pc \in {"oauthSave", "profileSave"} /\ req[r].row.active

Closed(u) == Exists(u) /\ ~account[u].active /\ ~InFlight(u)

\* An account that is disabled while no request of its own is past its check of
\* the row is closed: nobody is handed a token for it, by login, OAuth or
\* refresh, and only the operator opens it again.  A request in flight when
\* the account is disabled is outside of this: linkOAuth and updateProfile
\* save the row they read and so may make the account active again for good.
DisabledStaysOut ==
    [][\A u \in Users : Closed(u) =>
            /\ Closed(u)' \/ SetActive(u)
            /\ \A t \in issued' \ issued : t.user # u]_vars

\* A refresh token is exchanged at most once ("one-time use").
OneTimeUse ==
    \A s, t \in issued : s.from # 0 /\ s.from = t.from => s = t

\* When no handler is running, a user has at most MAX_SESSIONS sessions.
AtMostMaxSessions ==
    (\A r \in Requests : req[r].pc = "idle") =>
        \A u \in Users : Cardinality(Sessions(u)) <= MaxSessions

\* Every refresh token Redis would accept belongs to a session that eviction
\* can still find in user_sessions:{user}.
TokensAreTracked ==
    \A u \in Users, d \in Devices : refresh[u][d] # 0 => d \in Sessions(u)
=============================================================================
