------------------------- MODULE AuthSessionsProofs -------------------------
(***************************************************************************)
(* What the auth service guarantees for every number of users, devices and *)
(* concurrent requests, and what it guarantees only when the requests of   *)
(* the service are served one at a time.                                   *)
(***************************************************************************)
EXTENDS AuthSessions, FiniteSetTheorems, TLAPS

USE UserAssumption, DeviceAssumption, SessionAssumption, SwitchAssumption,
    BoundAssumption

\* The locals of a request that has returned are of the declared types.
LEMMA IdleType == Idle \in Request /\ Idle.pc = "idle"
BY DEF Idle, At, Request, Pc, Minting, Row, NoRow

\* What a step to another program point does to the requests.
LEMMA StepType ==
    ASSUME NEW r \in Requests, NEW c \in Pc, NEW v \in Devices,
           req \in [Requests -> Request],
           Evict(r, c, v) \/ Goto(r, c) \/ Done(r)
    PROVE  req' \in [Requests -> Request]
BY IdleType DEF Evict, Goto, Done, At, Request

\* A handler starts with locals of the declared types.
LEMMA StartType ==
    ASSUME NEW r \in Requests, NEW c \in Pc, NEW u \in Users, NEW d \in Devices,
           NEW t \in 0..MaxToken, req \in [Requests -> Request], Start(r, c, u, d, t)
    PROVE  req' \in [Requests -> Request]
BY DEF Start, At, Request, Row, NoRow

\* Every step of the service keeps every variable in its type: scores and
\* token numbers stay inside their bounds, and a request's locals always name
\* a user and a device.
THEOREM TypeCorrect == Spec => []TypeOK
<1>1. Init => TypeOK
  BY IdleType DEF Init, TypeOK, Row, NoRow
<1>2. TypeOK /\ [Next]_vars => TypeOK'
  <2> SUFFICES ASSUME TypeOK, [Next]_vars PROVE TypeOK'
    OBVIOUS
  <2> USE DEF TypeOK
  <2>1. ASSUME NEW r \in Requests, NEW u \in Users, RegisterFind(r, u) PROVE TypeOK'
    BY <2>1, StartType DEF RegisterFind, Pc
  <2>2. ASSUME NEW r \in Requests, RegisterSave(r) PROVE TypeOK'
    <3>1. req[r].user \in Users  BY DEF Request
    <3>2. account' \in [Users -> Row]
      <4>1. [active |-> TRUE, password |-> TRUE, linked |-> FALSE] \in Row
        BY DEF Row
      <4> QED BY <2>2, <3>1, <4>1 DEF RegisterSave
    <3> QED BY <2>2, <3>2, StepType DEF RegisterSave, Pc, Minting
  <2>3. ASSUME NEW r \in Requests, NEW u \in Users, NEW d \in Devices, Login(r, u, d)
        PROVE TypeOK'
    BY <2>3, StartType DEF Login, Pc, Minting
  <2>4. ASSUME NEW r \in Requests, NEW u \in Users, NEW d \in Devices, OAuthFind(r, u, d)
        PROVE TypeOK'
    <3>1. At("oauthSave", u, d, 0, UnknownDevice, account[u]) \in Request
      BY DEF At, Request, Pc
    <3>2. "zadd" \in Pc /\ 0 \in 0..MaxToken
      BY DEF Pc, Minting
    <3>3. req' \in [Requests -> Request]
      BY <2>4, <3>1, <3>2, StartType DEF OAuthFind
    <3> QED BY <2>4, <3>3 DEF OAuthFind
  <2>5. ASSUME NEW r \in Requests, OAuthSave(r) PROVE TypeOK'
    <3>1. req[r].user \in Users /\ req[r].row \in Row  BY DEF Request
    <3>2. account' \in [Users -> Row]
      <4>1. [active |-> TRUE, password |-> FALSE, linked |-> TRUE] \in Row
        BY DEF Row
      <4>2. [active |-> req[r].row.active, password |-> req[r].row.password,
             linked |-> TRUE] \in Row
        BY <3>1 DEF Row
      <4> QED BY <2>5, <3>1, <4>1, <4>2 DEF OAuthSave
    <3>3. Goto(r, "zadd") \/ Done(r)  BY <2>5 DEF OAuthSave
    <3>4. req' \in [Requests -> Request]  BY <3>3, StepType DEF Pc, Minting
    <3> QED BY <2>5, <3>2, <3>4 DEF OAuthSave
  <2>6. ASSUME NEW r \in Requests, NEW t \in issued, RefreshGet(r, t) PROVE TypeOK'
    <3>1. t.user \in Users /\ t.device \in Devices /\ t.id \in 0..MaxToken
      BY DEF Token
    <3> QED BY <2>6, <3>1, StartType DEF RefreshGet, Pc
  <2>7. ASSUME NEW r \in Requests, RefreshDel(r) PROVE TypeOK'
    <3>1. req[r].user \in Users /\ req[r].device \in Devices  BY DEF Request
    <3> QED BY <2>7, <3>1, StepType DEF RefreshDel, Pc
  <2>8. ASSUME NEW r \in Requests, RefreshUser(r) PROVE TypeOK'
    BY <2>8, StepType DEF RefreshUser, Pc, Minting
  <2>9. ASSUME NEW r \in Requests, Zadd(r) PROVE TypeOK'
    <3>1. req[r].user \in Users /\ req[r].device \in Devices  BY DEF Request
    <3>2. req' \in [Requests -> Request]  BY <2>9, StepType DEF Zadd, Pc, Minting
    <3> QED BY <2>9, <3>1, <3>2 DEF Zadd
  <2>10. ASSUME NEW r \in Requests, Zcard(r) PROVE TypeOK'
    BY <2>10, StepType DEF Zcard, Pc, Minting
  <2>11. ASSUME NEW r \in Requests, Zrange(r) PROVE TypeOK'
    <3>1. Oldest(req[r].user) \subseteq Devices  BY DEF Oldest, Sessions
    <3>2. req' \in [Requests -> Request]
      BY <2>11, <3>1, StepType DEF Zrange, Pc, Minting
    <3> QED BY <2>11, <3>2 DEF Zrange
  <2>12. ASSUME NEW r \in Requests, EvictDel(r) PROVE TypeOK'
    <3>1. req[r].user \in Users /\ req[r].victim \in Devices  BY DEF Request
    <3> QED BY <2>12, <3>1, StepType DEF EvictDel, Pc, Minting
  <2>13. ASSUME NEW r \in Requests, EvictZrem(r) PROVE TypeOK'
    <3>1. req[r].user \in Users /\ req[r].victim \in Devices  BY DEF Request
    <3> QED BY <2>13, <3>1, StepType DEF EvictZrem, Pc, Minting
  <2>14. ASSUME NEW r \in Requests, SetToken(r) PROVE TypeOK'
    <3>1. NewToken(r) \in Token /\ NewToken(r).id = lastToken + 1
      BY <2>14 DEF SetToken, NewToken, Token, Request
    <3>2. req' \in [Requests -> Request]  BY <2>14, StepType DEF SetToken, Pc
    <3> QED BY <2>14, <3>1, <3>2 DEF SetToken, Token
  <2>15. ASSUME NEW r \in Requests, NEW u \in Users, NEW t \in issued, LogoutDel(r, u, t)
         PROVE TypeOK'
    <3>1. t.device \in Devices  BY DEF Token
    <3> QED BY <2>15, <3>1, StartType DEF LogoutDel, Pc
  <2>16. ASSUME NEW r \in Requests, LogoutZrem(r) PROVE TypeOK'
    <3>1. req[r].user \in Users /\ req[r].device \in Devices  BY DEF Request
    <3> QED BY <2>16, <3>1, StepType DEF LogoutZrem, Pc
  <2>17. ASSUME NEW r \in Requests, Fail(r) PROVE TypeOK'
    BY <2>17, StepType DEF Fail, Pc
  <2>18. ASSUME NEW u \in Users, NEW d \in Devices, Expire(u, d) PROVE TypeOK'
    BY <2>18 DEF Expire
  <2>19. ASSUME NEW u \in Users, SetActive(u) PROVE TypeOK'
    BY <2>19 DEF SetActive, Row
  <2>20. ASSUME NEW r \in Requests, NEW u \in Users, ProfileFind(r, u) PROVE TypeOK'
    <3>1. At("profileSave", u, UnknownDevice, 0, UnknownDevice, account[u]) \in Request
      BY DEF At, Request, Pc
    <3> QED BY <2>20, <3>1 DEF ProfileFind
  <2>21. ASSUME NEW r \in Requests, ProfileSave(r) PROVE TypeOK'
    <3>1. req[r].user \in Users /\ req[r].row \in Row  BY DEF Request
    <3>2. req' \in [Requests -> Request]  BY <2>21, StepType DEF ProfileSave, Pc
    <3> QED BY <2>21, <3>1, <3>2 DEF ProfileSave
  <2>22. CASE UNCHANGED vars
    BY <2>22 DEF vars
  <2> QED
    BY <2>1, <2>2, <2>3, <2>4, <2>5, <2>6, <2>7, <2>8, <2>9, <2>10, <2>11, <2>12,
       <2>13, <2>14, <2>15, <2>16, <2>17, <2>18, <2>19, <2>20, <2>21, <2>22
       DEF Next, Handler
<1> QED BY <1>1, <1>2, PTL DEF Spec
-----------------------------------------------------------------------------
(* Refresh tokens, with any number of requests in flight.                  *)

\* Redis loses one refresh key: rotation, logout, eviction or expiry.
DeletesKey ==
    /\ \E u \in Users, d \in Devices : refresh' = [refresh EXCEPT ![u][d] = 0]
    /\ UNCHANGED <<issued, lastToken>>

\* The only three things a step does to the refresh keys.
LEMMA TokenEffects ==
    ASSUME TypeOK, [Next]_vars
    PROVE  \/ UNCHANGED <<refresh, issued, lastToken>>
           \/ DeletesKey
           \/ \E r \in Requests : SetToken(r)
<1>1. \A r \in Requests : req[r].user \in Users /\ req[r].device \in Devices
                          /\ req[r].victim \in Devices
  BY DEF TypeOK, Request
<1>2. \A t \in issued : t.device \in Devices
  BY DEF TypeOK, Token
<1>3. ASSUME NEW r \in Requests, RefreshDel(r) \/ EvictDel(r) PROVE DeletesKey
  BY <1>1, <1>3 DEF RefreshDel, EvictDel, DeletesKey
<1>4. ASSUME NEW r \in Requests, NEW u \in Users, NEW t \in issued, LogoutDel(r, u, t)
      PROVE DeletesKey
  BY <1>2, <1>4 DEF LogoutDel, DeletesKey
<1>5. ASSUME NEW u \in Users, NEW d \in Devices, Expire(u, d) PROVE DeletesKey
  BY <1>5 DEF Expire, DeletesKey
<1> QED
  BY <1>3, <1>4, <1>5 DEF Next, Handler, vars, RegisterFind, RegisterSave, Login,
     OAuthFind, OAuthSave, RefreshGet, RefreshUser, Zadd, Zcard, Zrange, EvictZrem,
     LogoutZrem, ProfileFind, ProfileSave, Fail, SetActive

\* Token numbers are drawn in order.
IssuedInOrder == \A t \in issued : t.id <= lastToken

\* What SetToken does to the keys, field by field.
LEMMA SetTokenEffect ==
    ASSUME TypeOK, NEW r \in Requests, SetToken(r)
    PROVE  /\ NewToken(r) \in Token
           /\ NewToken(r).user = req[r].user /\ NewToken(r).device = req[r].device
           /\ NewToken(r).from = req[r].token
           /\ NewToken(r).id = lastToken + 1
           /\ lastToken' = lastToken + 1
           /\ issued' = issued \cup {NewToken(r)}
           /\ refresh' = [refresh EXCEPT ![req[r].user][req[r].device] = lastToken + 1]
BY DEF SetToken, NewToken, Token, TypeOK, Request

\* Every key refresh:{user}:{device} holds a token handed out for that user
\* and that device, whatever requests run side by side.
THEOREM TokensUnderTheirKeyCorrect == Spec => [](IssuedInOrder /\ TokensUnderTheirKey)
<1> DEFINE Inv == IssuedInOrder /\ TokensUnderTheirKey
<1>1. Init => Inv
  BY DEF Init, IssuedInOrder, TokensUnderTheirKey
<1>2. TypeOK /\ Inv /\ [Next]_vars => Inv'
  <2> SUFFICES ASSUME TypeOK, Inv, [Next]_vars PROVE Inv'
    OBVIOUS
  <2>1. CASE UNCHANGED <<refresh, issued, lastToken>>
    BY <2>1 DEF IssuedInOrder, TokensUnderTheirKey
  <2>2. CASE DeletesKey
    BY <2>2 DEF DeletesKey, IssuedInOrder, TokensUnderTheirKey, TypeOK
  <2>3. ASSUME NEW r \in Requests, SetToken(r) PROVE Inv'
    <3> DEFINE n == NewToken(r)
    <3>0. /\ n.user = req[r].user /\ n.device = req[r].device /\ n.id = lastToken + 1
          /\ lastToken' = lastToken + 1 /\ issued' = issued \cup {n}
          /\ refresh' = [refresh EXCEPT ![req[r].user][req[r].device] = lastToken + 1]
      BY <2>3, SetTokenEffect
    <3> HIDE DEF n
    <3>1. IssuedInOrder'
      <4>1. lastToken \in Nat /\ \A t \in issued : t.id \in Nat /\ t.id <= lastToken
        BY DEF TypeOK, Token, IssuedInOrder
      <4> QED BY <3>0, <4>1 DEF IssuedInOrder
    <3>2. ASSUME NEW u \in Users, NEW d \in Devices, refresh'[u][d] # 0
          PROVE \E t \in issued' : t.user = u /\ t.device = d /\ t.id = refresh'[u][d]
      <4>1. CASE u = req[r].user /\ d = req[r].device
        <5>1. refresh'[u][d] = lastToken + 1
          BY <3>0, <4>1 DEF TypeOK
        <5> QED BY <3>0, <4>1, <5>1
      <4>2. CASE ~(u = req[r].user /\ d = req[r].device)
        <5>1. refresh'[u][d] = refresh[u][d]
          BY <3>0, <4>2 DEF TypeOK
        <5> QED BY <3>0, <3>2, <5>1 DEF TokensUnderTheirKey
      <4> QED BY <4>1, <4>2
    <3> QED BY <3>1, <3>2 DEF TokensUnderTheirKey
  <2> QED BY <2>1, <2>2, <2>3, TokenEffects
<1> QED BY <1>1, <1>2, TypeCorrect, PTL DEF Spec

\* No interleaving of logins, refreshes, logouts, evictions, expiries and
\* failures makes a refresh token valid again once it was not.
THEOREM DeadTokensCorrect == Spec => DeadTokensStayDead
<1> DEFINE Dead == \A t \in issued : ~Valid(t) => ~Valid(t)'
<1>1. TypeOK /\ IssuedInOrder /\ [Next]_vars => [Dead]_vars
  <2> SUFFICES ASSUME TypeOK, IssuedInOrder, [Next]_vars, NEW t \in issued, ~Valid(t)
               PROVE ~Valid(t)'
    OBVIOUS
  <2>0. t.user \in Users /\ t.device \in Devices /\ t.id \in 1..MaxToken
    BY DEF TypeOK, Token
  <2>1. CASE UNCHANGED <<refresh, issued, lastToken>>
    BY <2>1 DEF Valid
  <2>2. CASE DeletesKey
    BY <2>0, <2>2 DEF DeletesKey, Valid, TypeOK
  <2>3. ASSUME NEW r \in Requests, SetToken(r) PROVE ~Valid(t)'
    <3>1. t.id # lastToken + 1
      BY <2>0 DEF IssuedInOrder, TypeOK
    <3>2. refresh' = [refresh EXCEPT ![req[r].user][req[r].device] = lastToken + 1]
      BY <2>3, SetTokenEffect
    <3> QED BY <2>0, <3>1, <3>2 DEF Valid, TypeOK
  <2> QED BY <2>1, <2>2, <2>3, TokenEffects
<1>2. Spec => [][Dead]_vars
  BY <1>1, TypeCorrect, TokensUnderTheirKeyCorrect, PTL DEF Spec
<1> QED BY <1>2, PTL DEF DeadTokensStayDead
-----------------------------------------------------------------------------
(* Disabled accounts, with any number of requests in flight.               *)

\* A request for u that read the row as active and has yet to mint or save.
PastCheck(q, u) ==
    /\ q.user = u
    /\ \/ q.pc \in Minting
       \/ q.pc \in {"oauthSave", "profileSave"} /\ q.row.active

\* While u is disabled, no step takes another request past the check.
LEMMA NotPastCheck ==
    ASSUME TypeOK, NEW u \in Users, Exists(u), ~account[u].active, [Next]_vars,
           NEW q \in Requests, ~PastCheck(req[q], u)
    PROVE  ~PastCheck(req'[q], u)
<1>0. ~PastCheck(Idle, u)
  BY DEF PastCheck, Idle, At, Minting
<1>1. ASSUME UNCHANGED req PROVE ~PastCheck(req'[q], u)
  BY <1>1
<1>2. ASSUME NEW r \in Requests, r # q, NEW x, req' = [req EXCEPT ![r] = x]
      PROVE ~PastCheck(req'[q], u)
  BY <1>2 DEF TypeOK
<1>3. ASSUME NEW x, req' = [req EXCEPT ![q] = x], ~PastCheck(x, u)
      PROVE ~PastCheck(req'[q], u)
  BY <1>3 DEF TypeOK
<1>4. ASSUME NEW r \in Requests, Done(r) PROVE ~PastCheck(req'[q], u)
  BY <1>0, <1>2, <1>3, <1>4 DEF Done
<1>5. ASSUME NEW r \in Requests, NEW c, NEW v, NEW t, NEW w, NEW d, NEW row,
             w # u \/ c \notin Minting \cup {"oauthSave", "profileSave"},
             req' = [req EXCEPT ![r] = At(c, w, d, t, v, row)]
      PROVE ~PastCheck(req'[q], u)
  <2>1. ~PastCheck(At(c, w, d, t, v, row), u)
    BY <1>5 DEF PastCheck, At
  <2> QED BY <2>1, <1>2, <1>3, <1>5
<1>6. ASSUME NEW r \in Requests, NEW c, NEW v, Evict(r, c, v),
             r # q \/ req[q].user # u \/ c \notin Minting \cup {"oauthSave", "profileSave"}
      PROVE ~PastCheck(req'[q], u)
  <2> DEFINE x == At(c, req[r].user, req[r].device, req[r].token, v, req[r].row)
  <2>1. req' = [req EXCEPT ![r] = x]
    BY <1>6 DEF Evict
  <2>2. CASE r # q
    <3> HIDE DEF x
    <3> QED BY <2>1, <2>2, <1>2
  <2>3. CASE r = q
    <3>1. req[r].user # u \/ c \notin Minting \cup {"oauthSave", "profileSave"}
      BY <1>6, <2>3
    <3> QED BY <2>1, <3>1, <1>5
  <2> QED BY <2>2, <2>3
<1>7. ASSUME NEW r \in Requests, NEW c, Goto(r, c),
             r # q \/ req[q].user # u \/ c \notin Minting \cup {"oauthSave", "profileSave"}
      PROVE ~PastCheck(req'[q], u)
  BY <1>6, <1>7 DEF Goto
<1>8. ASSUME NEW r \in Requests, NEW c, NEW w, NEW d, NEW t, Start(r, c, w, d, t),
             w # u \/ c \notin Minting \cup {"oauthSave", "profileSave"}
      PROVE ~PastCheck(req'[q], u)
  BY <1>5, <1>8 DEF Start
<1>9. ASSUME NEW r \in Requests, Handler(r) PROVE ~PastCheck(req'[q], u)
  <2>1. ASSUME NEW w \in Users, RegisterFind(r, w) PROVE ~PastCheck(req'[q], u)
    BY <2>1, <1>8 DEF RegisterFind
  <2>2. ASSUME RegisterSave(r) PROVE ~PastCheck(req'[q], u)
    <3>1. CASE Goto(r, "zadd") /\ ~Exists(req[r].user)
      <4>1. req[r].user # u
        BY <3>1
      <4> QED BY <3>1, <4>1, <1>7
    <3> QED BY <2>2, <3>1, <1>4 DEF RegisterSave
  <2>3. ASSUME NEW w \in Users, NEW d \in Devices, Login(r, w, d)
        PROVE ~PastCheck(req'[q], u)
    BY <2>3, <1>8 DEF Login
  <2>4. ASSUME NEW w \in Users, NEW d \in Devices, OAuthFind(r, w, d)
        PROVE ~PastCheck(req'[q], u)
    <3>2. ~PastCheck(At("oauthSave", w, d, 0, UnknownDevice, account[w]), u)
      BY DEF PastCheck, At, Minting
    <3>3. CASE account[w].active /\ Start(r, "zadd", w, d, 0)
      BY <3>3, <1>8
    <3>4. CASE req' = [req EXCEPT
                 ![r] = At("oauthSave", w, d, 0, UnknownDevice, account[w])]
      BY <3>2, <3>4, <1>2, <1>3
    <3> QED BY <2>4, <3>3, <3>4 DEF OAuthFind
  <2>5. ASSUME OAuthSave(r) PROVE ~PastCheck(req'[q], u)
    <3>1. CASE Done(r)
      BY <3>1, <1>4
    <3>2. CASE Goto(r, "zadd") /\ ~Exists(req[r].user)
      <4>1. req[r].user # u
        BY <3>2
      <4> QED BY <3>2, <4>1, <1>7
    <3>3. CASE Goto(r, "zadd") /\ req[r].row.active
      <4>1. r # q \/ req[q].user # u
        BY <2>5, <3>3 DEF OAuthSave, PastCheck
      <4> QED BY <3>3, <4>1, <1>7
    <3> QED BY <2>5, <3>1, <3>2, <3>3 DEF OAuthSave
  <2>6. ASSUME NEW t \in issued, RefreshGet(r, t) PROVE ~PastCheck(req'[q], u)
    BY <2>6, <1>8 DEF RefreshGet, Minting
  <2>7. ASSUME RefreshDel(r) PROVE ~PastCheck(req'[q], u)
    BY <2>7, <1>7 DEF RefreshDel, Minting
  <2>8. ASSUME RefreshUser(r) PROVE ~PastCheck(req'[q], u)
    BY <2>8, <1>4, <1>7 DEF RefreshUser
  <2>9. ASSUME req[r].pc \in Minting, NEW c, NEW v, Goto(r, c) \/ Evict(r, c, v)
        PROVE ~PastCheck(req'[q], u)
    <3>1. r # q \/ req[q].user # u
      BY <2>9 DEF PastCheck
    <3> QED BY <2>9, <3>1, <1>6, <1>7
  <2>10. ASSUME Zadd(r) \/ Zcard(r) \/ EvictDel(r) \/ EvictZrem(r)
         PROVE ~PastCheck(req'[q], u)
    <3>1. req[r].pc \in Minting  BY <2>10 DEF Zadd, Zcard, EvictDel, EvictZrem, Minting
    <3>2. \E c : Goto(r, c)  BY <2>10 DEF Zadd, Zcard, EvictDel, EvictZrem
    <3> QED BY <3>1, <3>2, <2>9
  <2>11. ASSUME Zrange(r) PROVE ~PastCheck(req'[q], u)
    BY <2>9, <2>11 DEF Zrange, Minting
  <2>12. ASSUME SetToken(r) \/ LogoutZrem(r) \/ Fail(r) PROVE ~PastCheck(req'[q], u)
    BY <2>12, <1>4 DEF SetToken, LogoutZrem, Fail
  <2>13. ASSUME NEW w \in Users, NEW t \in issued, LogoutDel(r, w, t)
         PROVE ~PastCheck(req'[q], u)
    BY <2>13, <1>8 DEF LogoutDel, Minting
  <2>14. ASSUME NEW w \in Users, ProfileFind(r, w) PROVE ~PastCheck(req'[q], u)
    <3>1. ~PastCheck(At("profileSave", w, UnknownDevice, 0, UnknownDevice, account[w]), u)
      BY DEF PastCheck, At, Minting
    <3> QED BY <2>14, <3>1, <1>2, <1>3 DEF ProfileFind
  <2>15. ASSUME ProfileSave(r) PROVE ~PastCheck(req'[q], u)
    BY <2>15, <1>4 DEF ProfileSave
  <2> QED BY <1>9, <2>1, <2>2, <2>3, <2>4, <2>5, <2>6, <2>7, <2>8, <2>10, <2>11, <2>12,
             <2>13, <2>14, <2>15 DEF Handler
<1> QED BY <1>1, <1>9 DEF Next, vars, Expire, SetActive

\* updateProfile only saves the row of a user that exists.
SavesExist == \A r \in Requests :
    req[r].pc = "profileSave" => req[r].row.password \/ req[r].row.linked

LEMMA SavesExistCorrect == Spec => []SavesExist
<1>1. Init => SavesExist
  BY DEF Init, SavesExist, Idle, At
<1>2. TypeOK /\ SavesExist /\ [Next]_vars => SavesExist'
  <2> SUFFICES ASSUME TypeOK, SavesExist, [Next]_vars, NEW q \in Requests,
                      req'[q].pc = "profileSave"
               PROVE  req'[q].row.password \/ req'[q].row.linked
    BY DEF SavesExist
  <2>0. req \in [Requests -> Request]
    BY DEF TypeOK
  <2>1. CASE req'[q] = req[q]
    BY <2>1 DEF SavesExist
  <2>2. ASSUME NEW w \in Users, ProfileFind(q, w)
        PROVE  req'[q].row.password \/ req'[q].row.linked
    <3>1. req'[q] = At("profileSave", w, UnknownDevice, 0, UnknownDevice, account[w])
      BY <2>0, <2>2 DEF ProfileFind
    <3>2. req'[q].row = account[w]
      BY <3>1 DEF At
    <3> QED BY <2>2, <3>2 DEF ProfileFind, Exists
  <2>3. ASSUME NEW r \in Requests, Handler(r), ~(\E w \in Users : ProfileFind(r, w))
        PROVE  req'[q] = req[q]
    <3>1. \A x : req' = [req EXCEPT ![r] = x] =>
              req'[q] = req[q] \/ (r = q /\ req'[q] = x)
      BY <2>0
    <3>2. Idle.pc # "profileSave"
      BY DEF Idle, At
    <3>3. \A c, w, d, t, v, row : At(c, w, d, t, v, row).pc = c
      BY DEF At
    <3>4. Done(r) => req'[q] = req[q]
      BY <3>1, <3>2 DEF Done
    <3>5. ASSUME NEW c, NEW v, Evict(r, c, v), c # "profileSave" PROVE req'[q] = req[q]
      BY <3>1, <3>3, <3>5 DEF Evict
    <3>6. ASSUME NEW c, Goto(r, c), c # "profileSave" PROVE req'[q] = req[q]
      BY <3>5, <3>6 DEF Goto
    <3>7. ASSUME NEW c, NEW w, NEW d, NEW t, Start(r, c, w, d, t), c # "profileSave"
          PROVE  req'[q] = req[q]
      BY <3>1, <3>3, <3>7 DEF Start
    <3>8. ASSUME NEW w \in Users, NEW d \in Devices, OAuthFind(r, w, d)
          PROVE  req'[q] = req[q]
      BY <3>1, <3>3, <3>7, <3>8 DEF OAuthFind
    <3>9. CASE RegisterSave(r) \/ OAuthSave(r) \/ RefreshDel(r) \/ RefreshUser(r)
      BY <3>4, <3>6, <3>9 DEF RegisterSave, OAuthSave, RefreshDel, RefreshUser
    <3>10. CASE Zadd(r) \/ EvictDel(r) \/ EvictZrem(r)
      BY <3>6, <3>10 DEF Zadd, EvictDel, EvictZrem
    <3>11. CASE Zcard(r)
      BY <3>6, <3>11 DEF Zcard
    <3>12. CASE Zrange(r)
      BY <3>5, <3>6, <3>12 DEF Zrange
    <3>13. CASE SetToken(r) \/ LogoutZrem(r) \/ ProfileSave(r) \/ Fail(r)
      BY <3>4, <3>13 DEF SetToken, LogoutZrem, ProfileSave, Fail
    <3>14. CASE \E w \in Users : RegisterFind(r, w)
      BY <3>7, <3>14 DEF RegisterFind
    <3>15. CASE \E w \in Users, d \in Devices : Login(r, w, d)
      BY <3>7, <3>15 DEF Login
    <3>16. CASE \E t \in issued : RefreshGet(r, t)
      BY <3>7, <3>16 DEF RefreshGet
    <3>17. CASE \E w \in Users, t \in issued : LogoutDel(r, w, t)
      BY <3>7, <3>17 DEF LogoutDel
    <3> QED
      BY <2>3, <3>8, <3>9, <3>10, <3>11, <3>12, <3>13, <3>14, <3>15, <3>16, <3>17
         DEF Handler
  <2>4. ASSUME NEW r \in Requests, NEW w \in Users, ProfileFind(r, w), r # q
        PROVE  req'[q] = req[q]
    BY <2>0, <2>4 DEF ProfileFind
  <2> QED BY <2>1, <2>2, <2>3, <2>4 DEF Next, vars, Expire, SetActive
<1> QED BY <1>1, <1>2, TypeCorrect, PTL DEF Spec

\* While u is closed, its row is the operator's to change.
LEMMA RowStaysDisabled ==
    ASSUME TypeOK, SavesExist, NEW u \in Users, Closed(u), [Next]_vars
    PROVE  SetActive(u) \/ (Exists(u)' /\ ~account'[u].active)
<1>0. /\ account \in [Users -> Row]
      /\ \A r \in Requests : req[r].user \in Users
  BY DEF TypeOK, Request
<1>1. /\ account[u].password \/ account[u].linked
      /\ ~account[u].active
      /\ \A r \in Requests : ~PastCheck(req[r], u)
  BY DEF Closed, Exists, InFlight, PastCheck
<1>2. ASSUME account'[u] = account[u] PROVE Exists(u)' /\ ~account'[u].active
  BY <1>1, <1>2 DEF Exists
<1>3. ASSUME NEW w \in Users, w # u, NEW x, account' = [account EXCEPT ![w] = x]
      PROVE  account'[u] = account[u]
  BY <1>0, <1>3
<1>4. ASSUME NEW r \in Requests, RegisterSave(r)
      PROVE  Exists(u)' /\ ~account'[u].active
  <2>1. req[r].user # u \/ account' = account
    BY <1>4 DEF RegisterSave, Closed
  <2> QED BY <1>0, <1>2, <1>3, <1>4, <2>1 DEF RegisterSave
<1>5. ASSUME NEW r \in Requests, OAuthSave(r)
      PROVE  Exists(u)' /\ ~account'[u].active
  <2>1. CASE req[r].user # u
    BY <1>0, <1>2, <1>3, <1>5, <2>1 DEF OAuthSave
  <2>2. CASE req[r].user = u /\ account' = account
    BY <1>2, <2>2
  <2>3. CASE req[r].user = u /\ req[r].row # NoRow
    <3> DEFINE x == [active |-> req[r].row.active, password |-> req[r].row.password,
                     linked |-> TRUE]
    <3>1. account' = [account EXCEPT ![u] = x]
      BY <1>5, <2>3 DEF OAuthSave
    <3>2. ~req[r].row.active
      BY <1>1, <1>5, <2>3 DEF PastCheck, OAuthSave
    <3>3. account'[u] = x
      BY <1>0, <3>1
    <3> QED BY <3>2, <3>3 DEF Exists
  <2> QED BY <1>5, <2>1, <2>2, <2>3 DEF OAuthSave, Closed
<1>6. ASSUME NEW r \in Requests, ProfileSave(r)
      PROVE  Exists(u)' /\ ~account'[u].active
  <2>1. CASE req[r].user # u
    BY <1>0, <1>2, <1>3, <1>6, <2>1 DEF ProfileSave
  <2>2. CASE req[r].user = u
    <3>1. account'[u] = req[r].row
      BY <1>0, <1>6, <2>2 DEF ProfileSave
    <3>2. ~req[r].row.active
      BY <1>1, <1>6, <2>2 DEF PastCheck, ProfileSave
    <3>3. req[r].row.password \/ req[r].row.linked
      BY <1>6 DEF SavesExist, ProfileSave
    <3> QED BY <3>1, <3>2, <3>3 DEF Exists
  <2> QED BY <2>1, <2>2
<1>7. ASSUME NEW w \in Users, SetActive(w), w # u
      PROVE  Exists(u)' /\ ~account'[u].active
  BY <1>2, <1>3, <1>7 DEF SetActive
<1>8. CASE account' = account
  BY <1>2, <1>8
<1>9. account' = account \/ (\E w \in Users : SetActive(w))
        \/ (\E r \in Requests : RegisterSave(r) \/ OAuthSave(r) \/ ProfileSave(r))
  BY DEF Next, Handler, vars, RegisterFind, Login, OAuthFind, RefreshGet, RefreshDel,
     RefreshUser, Zadd, Zcard, Zrange, EvictDel, EvictZrem, SetToken, LogoutDel,
     LogoutZrem, ProfileFind, Fail, Expire
<1> QED BY <1>4, <1>5, <1>6, <1>7, <1>8, <1>9

\* A disabled account that no request of its own had read as active stays
\* closed, whatever requests do, until the operator opens it.
THEOREM DisabledStaysOutCorrect == Spec => DisabledStaysOut
<1> DEFINE Out == \A u \in Users : Closed(u) =>
              /\ Closed(u)' \/ SetActive(u)
              /\ \A t \in issued' \ issued : t.user # u
<1>1. TypeOK /\ SavesExist /\ [Next]_vars => [Out]_vars
  <2> SUFFICES ASSUME TypeOK, SavesExist, [Next]_vars, NEW u \in Users, Closed(u)
               PROVE  /\ Closed(u)' \/ SetActive(u)
                      /\ \A t \in issued' \ issued : t.user # u
    OBVIOUS
  <2>1. /\ \A q \in Requests : ~PastCheck(req[q], u)
        /\ Exists(u) /\ ~account[u].active
    BY DEF Closed, InFlight, PastCheck
  <2>2. \A q \in Requests : ~PastCheck(req'[q], u)
    BY <2>1, NotPastCheck
  <2>3. Closed(u)' \/ SetActive(u)
    BY <2>2, RowStaysDisabled DEF Closed, InFlight, PastCheck
  <2>4. CASE UNCHANGED issued
    BY <2>3, <2>4
  <2>5. ASSUME NEW r \in Requests, SetToken(r)
        PROVE \A t \in issued' \ issued : t.user # u
    <3>1. req[r].user # u
      BY <2>1, <2>5 DEF SetToken, PastCheck, Minting
    <3>2. issued' = issued \cup {NewToken(r)} /\ NewToken(r).user = req[r].user
      BY <2>5, SetTokenEffect
    <3> QED BY <3>1, <3>2
  <2> QED BY <2>3, <2>4, <2>5, TokenEffects DEF DeletesKey
<1>2. Spec => [][Out]_vars
  BY <1>1, TypeCorrect, SavesExistCorrect, PTL DEF Spec
<1> QED BY <1>2, PTL DEF DisabledStaysOut
-----------------------------------------------------------------------------
(* Requests served one at a time: each token is exchanged at most once.    *)

Sequential == \A r, s \in Requests : r = s

Stored(k) == \E u \in Users, d \in Devices : refresh[u][d] = k
Exchanged(k) == \E t \in issued : t.from = k

\* Tokens are told apart by their uuid, and an exchanged one is gone.
TokenHistory ==
    /\ \A s, t \in issued : s.id = t.id => s = t
    /\ \A t \in issued : t.from <= lastToken
    /\ \A t \in issued : t.from # 0 => ~Stored(t.from)

\* A refresh holds a token that was not exchanged yet and that Redis holds,
\* if at all, under the key the refresh is about to delete.
RefreshHolds ==
    \A r \in Requests : LET k == req[r].token IN k # 0 =>
        /\ k <= lastToken
        /\ ~Exchanged(k)
        /\ \A u \in Users, d \in Devices : refresh[u][d] = k =>
                req[r].pc = "refreshDel" /\ u = req[r].user /\ d = req[r].device

OneTimeInv == TokenHistory /\ RefreshHolds /\ OneTimeUse

\* A request's token changes only when it starts, ends or deletes its key.
TokenKept ==
    \A q \in Requests :
        \/ req'[q].token = 0
        \/ req'[q] = req[q]
        \/ req'[q].token = req[q].token /\ req[q].pc # "refreshDel"

\* Outside the first two steps of a refresh, no request gains a token.
LEMMA RequestEffects ==
    ASSUME TypeOK, [Next]_vars
    PROVE  \/ \E r \in Requests, t \in issued : RefreshGet(r, t)
           \/ \E r \in Requests : RefreshDel(r)
           \/ \E r \in Requests : SetToken(r)
           \/ TokenKept /\ UNCHANGED <<refresh, issued, lastToken>>
           \/ TokenKept /\ DeletesKey
<1>1. req \in [Requests -> Request]
  BY DEF TypeOK
<1>2. ASSUME NEW r \in Requests, NEW x, x.token = 0 \/ x.token = req[r].token,
             x.token = 0 \/ req[r].pc # "refreshDel", req' = [req EXCEPT ![r] = x]
      PROVE TokenKept
  BY <1>1, <1>2 DEF TokenKept
<1>3. ASSUME NEW r \in Requests, Done(r) PROVE TokenKept
  <2>1. Idle.token = 0  BY DEF Idle, At
  <2> QED BY <1>2, <1>3, <2>1 DEF Done
<1>4. ASSUME NEW r \in Requests, NEW c, NEW u, NEW d, NEW v, NEW row,
             req' = [req EXCEPT ![r] = At(c, u, d, 0, v, row)]
      PROVE TokenKept
  <2>1. At(c, u, d, 0, v, row).token = 0  BY DEF At
  <2> QED BY <1>2, <1>4, <2>1
<1>5. ASSUME NEW r \in Requests, NEW c, NEW v, Evict(r, c, v), req[r].pc # "refreshDel"
      PROVE TokenKept
  <2> DEFINE x == At(c, req[r].user, req[r].device, req[r].token, v, req[r].row)
  <2>1. x.token = req[r].token  BY DEF At
  <2>2. req' = [req EXCEPT ![r] = x]  BY <1>5 DEF Evict
  <2> HIDE DEF x
  <2> QED BY <1>2, <1>5, <2>1, <2>2
<1>6. ASSUME NEW r \in Requests, NEW c, Goto(r, c), req[r].pc # "refreshDel"
      PROVE TokenKept
  BY <1>5, <1>6 DEF Goto
<1>7. ASSUME NEW r \in Requests, NEW c, NEW u, NEW d, Start(r, c, u, d, 0)
      PROVE TokenKept
  BY <1>4, <1>7 DEF Start
<1>8. ASSUME NEW r \in Requests, Handler(r), ~RefreshDel(r), ~SetToken(r),
             ~\E t \in issued : RefreshGet(r, t)
      PROVE TokenKept
  <2>1. ASSUME NEW u \in Users, NEW d \in Devices,
               \/ RegisterFind(r, u) \/ ProfileFind(r, u)
               \/ Login(r, u, d) \/ OAuthFind(r, u, d)
        PROVE TokenKept
    BY <2>1, <1>4, <1>7 DEF RegisterFind, ProfileFind, Login, OAuthFind
  <2>2. ASSUME NEW u \in Users, NEW t \in issued, LogoutDel(r, u, t) PROVE TokenKept
    BY <2>2, <1>7 DEF LogoutDel
  <2>3. CASE RegisterSave(r) \/ OAuthSave(r) \/ RefreshUser(r) \/ Zadd(r) \/ Zcard(r)
             \/ EvictDel(r) \/ EvictZrem(r)
    <3>1. req[r].pc # "refreshDel" /\ (Done(r) \/ \E c : Goto(r, c))
      BY <2>3 DEF RegisterSave, OAuthSave, RefreshUser, Zadd, Zcard, EvictDel, EvictZrem
    <3> QED BY <3>1, <1>3, <1>6
  <2>4. CASE Zrange(r)
    BY <2>4, <1>5, <1>6 DEF Zrange
  <2>5. CASE LogoutZrem(r) \/ ProfileSave(r) \/ Fail(r)
    BY <2>5, <1>3 DEF LogoutZrem, ProfileSave, Fail
  <2>6. UnknownDevice \in Devices  OBVIOUS
  <2> QED BY <1>8, <2>1, <2>2, <2>3, <2>4, <2>5, <2>6 DEF Handler
<1>9. UNCHANGED req => TokenKept
  BY DEF TokenKept
<1> QED BY <1>8, <1>9, TokenEffects DEF Next, vars, Expire, SetActive

\* With one request at a time every refresh token is exchanged at most once,
\* even when handlers fail halfway: refreshTokens' GET, DEL and SET are then
\* never interleaved with those of another refresh of the same token.
THEOREM SequentialOneTimeUse ==
    ASSUME Sequential
    PROVE  Spec => []OneTimeUse
<1>1. Init => OneTimeInv
  <2>1. Idle.token = 0  BY DEF Idle, At
  <2> QED BY <2>1 DEF Init, OneTimeInv, TokenHistory, RefreshHolds, OneTimeUse
<1>2. TypeOK /\ IssuedInOrder /\ TokensUnderTheirKey /\ OneTimeInv /\ [Next]_vars
        => OneTimeInv'
  <2> SUFFICES ASSUME TypeOK, IssuedInOrder, TokensUnderTheirKey, OneTimeInv, [Next]_vars
               PROVE OneTimeInv'
    OBVIOUS
  <2> USE DEF OneTimeInv
  <2>0. /\ lastToken \in Nat
        /\ \A t \in issued : /\ t.user \in Users /\ t.device \in Devices
                             /\ t.id \in Nat \ {0} /\ t.from \in Nat
        /\ \A r \in Requests : req[r].token \in Nat /\ req[r].user \in Users
                               /\ req[r].device \in Devices
    BY DEF TypeOK, Token, Request
  <2>1. ASSUME NEW r \in Requests, NEW t \in issued, RefreshGet(r, t) PROVE OneTimeInv'
    <3>1. UNCHANGED <<refresh, issued, lastToken>>
      BY <2>1 DEF RefreshGet
    <3>2. /\ req'[r].token = t.id /\ req'[r].pc = "refreshDel"
          /\ req'[r].user = t.user /\ req'[r].device = t.device
      BY <2>1 DEF RefreshGet, Start, At, TypeOK
    <3>3. \A q \in Requests : q = r
      BY DEF Sequential
    <3>4. Stored(t.id) /\ t.id # 0 /\ t.id <= lastToken
      BY <2>0, <2>1 DEF RefreshGet, Stored, IssuedInOrder
    <3>5. ~Exchanged(t.id)
      BY <3>4 DEF Exchanged, TokenHistory
    <3>6. ASSUME NEW u \in Users, NEW d \in Devices, refresh[u][d] = t.id
          PROVE u = t.user /\ d = t.device
      <4>1. PICK s \in issued : s.user = u /\ s.device = d /\ s.id = t.id
        BY <3>4, <3>6 DEF TokensUnderTheirKey
      <4> QED BY <4>1 DEF TokenHistory
    <3>7. RefreshHolds'
      BY <3>1, <3>2, <3>3, <3>4, <3>5, <3>6 DEF RefreshHolds, Exchanged
    <3> QED BY <3>1, <3>7 DEF TokenHistory, Stored, OneTimeUse
  <2>2. ASSUME NEW r \in Requests, RefreshDel(r) PROVE OneTimeInv'
    <3>1. UNCHANGED <<issued, lastToken>>
          /\ refresh' = [refresh EXCEPT ![req[r].user][req[r].device] = 0]
      BY <2>2 DEF RefreshDel
    <3>2. \A u \in Users, d \in Devices :
             /\ refresh'[u][d] # 0 => refresh'[u][d] = refresh[u][d]
             /\ refresh'[u][d] # 0 => ~(u = req[r].user /\ d = req[r].device)
      BY <2>0, <3>1 DEF TypeOK
    <3>3. req'[r].token = req[r].token
      BY <2>2 DEF RefreshDel, Goto, Evict, At, TypeOK
    <3>4. \A q \in Requests : q = r
      BY DEF Sequential
    <3>5. RefreshHolds'
      BY <2>0, <3>1, <3>2, <3>3, <3>4 DEF RefreshHolds, Exchanged
    <3> QED BY <3>1, <3>2, <3>5 DEF TokenHistory, Stored, OneTimeUse
  <2>3. ASSUME NEW r \in Requests, SetToken(r) PROVE OneTimeInv'
    <3> DEFINE n == NewToken(r)
    <3>0. /\ n \in Token
          /\ n.id = lastToken + 1 /\ n.from = req[r].token
          /\ lastToken' = lastToken + 1 /\ issued' = issued \cup {n}
          /\ refresh' = [refresh EXCEPT ![req[r].user][req[r].device] = lastToken + 1]
      BY <2>3, SetTokenEffect
    <3> HIDE DEF n
    <3>1. \A q \in Requests : req'[q].token = 0
      BY <2>3 DEF SetToken, Done, Idle, At, TypeOK, Sequential
    <3>2. req[r].pc # "refreshDel"
      BY <2>3 DEF SetToken
    <3>3. n.from # 0 => n.from <= lastToken /\ ~Exchanged(n.from) /\ ~Stored(n.from)
      BY <3>0, <3>2 DEF RefreshHolds, Stored
    <3>4. \A u \in Users, d \in Devices :
             refresh'[u][d] = refresh[u][d] \/ refresh'[u][d] = lastToken + 1
      BY <3>0 DEF TypeOK
    <3>5. n.from <= lastToken /\ n.from \in Nat
      BY <2>0, <3>0, <3>3
    <3>6. TokenHistory'
      <4>1. \A s, t \in issued' : s.id = t.id => s = t
        BY <2>0, <3>0 DEF TokenHistory, IssuedInOrder
      <4>2. \A t \in issued' : t.from <= lastToken'
        BY <2>0, <3>0, <3>5 DEF TokenHistory
      <4>3. ASSUME NEW t \in issued', t.from # 0 PROVE ~Stored(t.from)'
        <5>1. t.from \in Nat /\ t.from <= lastToken /\ ~Stored(t.from)
          BY <2>0, <3>0, <3>3, <3>5, <4>3 DEF TokenHistory
        <5> QED BY <2>0, <3>4, <5>1 DEF Stored
      <4> QED BY <4>1, <4>2, <4>3 DEF TokenHistory
    <3>7. OneTimeUse'
      BY <3>0, <3>3 DEF OneTimeUse, Exchanged
    <3> QED BY <3>1, <3>6, <3>7 DEF RefreshHolds
  <2>4. ASSUME TokenKept, UNCHANGED <<issued, lastToken>>,
               \A u \in Users, d \in Devices :
                  refresh'[u][d] # 0 => refresh'[u][d] = refresh[u][d]
        PROVE OneTimeInv'
    <3>1. TokenHistory' /\ OneTimeUse'
      BY <2>4 DEF TokenHistory, Stored, OneTimeUse
    <3>2. ASSUME NEW q \in Requests, req'[q].token # 0
          PROVE /\ req'[q].token <= lastToken'
                /\ \A t \in issued' : t.from # req'[q].token
                /\ \A u \in Users, d \in Devices : refresh'[u][d] = req'[q].token =>
                      req'[q].pc = "refreshDel" /\ u = req'[q].user /\ d = req'[q].device
      <4>1. req'[q].token = req[q].token
        BY <2>4, <3>2 DEF TokenKept
      <4>2. req'[q] = req[q] \/ req[q].pc # "refreshDel"
        BY <2>4, <3>2 DEF TokenKept
      <4> QED BY <2>4, <3>2, <4>1, <4>2 DEF RefreshHolds, Exchanged
    <3> QED BY <3>1, <3>2 DEF RefreshHolds, Exchanged
  <2>5. CASE TokenKept /\ DeletesKey
    BY <2>4, <2>5 DEF DeletesKey, TypeOK
  <2>6. CASE TokenKept /\ UNCHANGED <<refresh, issued, lastToken>>
    BY <2>4, <2>6
  <2> QED BY <2>1, <2>2, <2>3, <2>5, <2>6, RequestEffects
<1>3. Spec => []OneTimeInv
  BY <1>1, <1>2, TypeCorrect, TokensUnderTheirKeyCorrect, PTL DEF Spec
<1> QED BY <1>3, PTL DEF OneTimeInv
-----------------------------------------------------------------------------
(* Requests served one at a time, without failures: the session limit.     *)

\* The requests that have added a session and not yet made room for it.
Adding   == {"zcard", "zrange", "evictDel", "evictZrem"}
Evicting == {"zrange", "evictDel", "evictZrem"}

\* After its ZADD a request's own device is the newest of the user's sessions.
NewestIsOwn ==
    \A r \in Requests : req[r].pc \in Adding \cup {"setToken"} =>
        /\ score[req[r].user][req[r].device] = now
        /\ now > 0
        /\ \A e \in Devices \ {req[r].device} : score[req[r].user][e] < now

\* The limit is met except between a ZADD and the ZREM that makes room.
CountInv ==
    /\ \A u \in Users :
         (\A r \in Requests : ~(req[r].user = u /\ req[r].pc \in Adding)) =>
            Cardinality(Sessions(u)) <= MaxSessions
    /\ \A r \in Requests : req[r].pc = "zcard" =>
            Cardinality(Sessions(req[r].user)) <= MaxSessions + 1
    /\ \A r \in Requests : req[r].pc \in Evicting =>
            Cardinality(Sessions(req[r].user)) = MaxSessions + 1

\* Eviction never picks the session being opened, and both eviction and logout
\* delete the refresh token before the session.
RemovalInv ==
    \A r \in Requests :
        /\ req[r].pc \in {"evictDel", "evictZrem"} =>
              /\ req[r].victim # req[r].device
              /\ req[r].victim \in Sessions(req[r].user)
        /\ req[r].pc = "evictZrem" => refresh[req[r].user][req[r].victim] = 0
        /\ req[r].pc = "logoutZrem" => refresh[req[r].user][req[r].device] = 0

SessionInv ==
    /\ \A u \in Users, d \in Devices : score[u][d] <= now
    /\ NewestIsOwn
    /\ CountInv
    /\ RemovalInv
    /\ TokensAreTracked

\* user_sessions:{user} is a finite set.
LEMMA SessionsFinite ==
    ASSUME NEW u
    PROVE  IsFiniteSet(Sessions(u)) /\ Cardinality(Sessions(u)) \in Nat
<1>1. Sessions(u) \in SUBSET Devices  BY DEF Sessions
<1> QED BY <1>1, FiniteAssumption, FS_Subset, FS_CardinalityType

\* A request that moves on keeps its locals.
LEMMA GotoEffect ==
    ASSUME TypeOK, NEW r \in Requests, NEW c, Goto(r, c)
    PROVE  /\ req'[r].pc = c /\ req'[r].user = req[r].user
           /\ req'[r].device = req[r].device /\ req'[r].victim = req[r].victim
BY DEF Goto, Evict, At, TypeOK

\* Steps outside generateTokenPair and logout: no session changes, and the
\* only request is at none of their program points before and after.
LEMMA QuietStep ==
    ASSUME TypeOK, SessionInv, UNCHANGED <<score, now>>,
           \A u \in Users, d \in Devices :
              refresh'[u][d] # 0 => refresh'[u][d] = refresh[u][d],
           \A r \in Requests : /\ req[r].pc \notin Adding
                               /\ req'[r].pc \notin Adding \cup {"setToken", "logoutZrem"}
    PROVE  SessionInv'
<1> USE DEF SessionInv
<1>1. \A u \in Users : Sessions(u)' = Sessions(u)
  BY DEF Sessions
<1>2. CountInv'
  BY <1>1 DEF CountInv, Adding, Evicting
<1>3. NewestIsOwn' /\ RemovalInv'
  BY DEF NewestIsOwn, RemovalInv, Adding
<1>4. TokensAreTracked'
  BY <1>1 DEF TokensAreTracked
<1> QED BY <1>2, <1>3, <1>4

\* With one request at a time, no failed command and distinct timestamps, the
\* eviction of generateTokenPair keeps every user at MAX_SESSIONS sessions,
\* and every refresh token Redis accepts belongs to one of them.
THEOREM SequentialSessionLimit ==
    ASSUME Sequential, ~MayFail, ~SameMs
    PROVE  Spec => [](AtMostMaxSessions /\ TokensAreTracked)
<1>1. Init => SessionInv
  <2> SUFFICES ASSUME Init PROVE SessionInv
    OBVIOUS
  <2>1. \A u \in Users : Sessions(u) = {}
    BY DEF Init, Sessions
  <2>2. \A r \in Requests : req[r].pc = "idle"
    BY IdleType DEF Init
  <2>3. CountInv
    <3>1. Cardinality({}) = 0  BY FS_EmptySet
    <3>2. \A u \in Users : Cardinality(Sessions(u)) = 0  BY <2>1, <3>1
    <3>3. MaxSessions \in Nat /\ 0 <= MaxSessions  OBVIOUS
    <3>4. \A u \in Users : Cardinality(Sessions(u)) <= MaxSessions  BY <3>2, <3>3
    <3> QED BY <2>2, <3>4 DEF CountInv, Adding, Evicting
  <2> QED BY <2>2, <2>3 DEF Init, SessionInv, NewestIsOwn, RemovalInv, TokensAreTracked,
                            Adding
<1>2. TypeOK /\ SessionInv /\ [Next]_vars => SessionInv'
  <2> SUFFICES ASSUME TypeOK, SessionInv, [Next]_vars PROVE SessionInv'
    OBVIOUS
  <2>0. /\ \A r \in Requests : req[r].user \in Users /\ req[r].device \in Devices
                               /\ req[r].victim \in Devices
        /\ now \in Nat /\ \A u \in Users, d \in Devices : score[u][d] \in Nat
        /\ \A t \in issued : t.device \in Devices
    BY DEF TypeOK, Request, Token
  <2>1. \A r, q \in Requests : q = r
    BY DEF Sequential
  <2>2. ASSUME NEW r \in Requests, Zadd(r) PROVE SessionInv'
    <3>0. PICK u \in Users, d \in Devices : u = req[r].user /\ d = req[r].device
      BY <2>0
    <3>1. /\ now' = now + 1 /\ score' = [score EXCEPT ![u][d] = now + 1]
          /\ refresh' = refresh
      BY <2>2, <3>0 DEF Zadd, Ticks
    <3>2. req'[r].pc = "zcard" /\ req'[r].user = u /\ req'[r].device = d
      BY <2>2, <3>0, GotoEffect DEF Zadd
    <3>3. \A w \in Users : w # u => Sessions(w)' = Sessions(w)
      BY <2>0, <3>1 DEF Sessions, TypeOK
    <3>4. Sessions(u)' = Sessions(u) \cup {d}
      BY <2>0, <3>1 DEF Sessions, TypeOK
    <3>5. \A w \in Users : Cardinality(Sessions(w)) <= MaxSessions
      BY <2>1, <2>2 DEF SessionInv, CountInv, Zadd, Adding
    <3>6. Cardinality(Sessions(u)') <= MaxSessions + 1
      <4>1. /\ Cardinality(Sessions(u)) <= MaxSessions
            /\ Cardinality(Sessions(u)) \in Nat /\ IsFiniteSet(Sessions(u))
        BY <3>5, SessionsFinite
      <4>2. Cardinality(Sessions(u)') =
               IF d \in Sessions(u) THEN Cardinality(Sessions(u))
               ELSE Cardinality(Sessions(u)) + 1
        BY <3>4, <4>1, FS_AddElement
      <4> QED BY <4>1, <4>2
    <3>7. CountInv'
      BY <2>1, <3>2, <3>3, <3>5, <3>6 DEF CountInv, Adding, Evicting
    <3>8. \A w \in Users, e \in Devices :
             score'[w][e] = IF w = u /\ e = d THEN now + 1 ELSE score[w][e]
      BY <2>0, <3>1 DEF TypeOK
    <3>9. \A w \in Users, e \in Devices : score[w][e] <= now
      BY DEF SessionInv
    <3>10. (\A w \in Users, e \in Devices : score[w][e] <= now)' /\ NewestIsOwn'
      BY <2>0, <2>1, <3>1, <3>2, <3>8, <3>9 DEF NewestIsOwn
    <3>11. RemovalInv'
      BY <2>1, <3>2 DEF RemovalInv
    <3>12. TokensAreTracked'
      BY <2>0, <3>1, <3>8 DEF SessionInv, TokensAreTracked, Sessions
    <3> QED BY <3>7, <3>10, <3>11, <3>12 DEF SessionInv
  <2>3. ASSUME NEW r \in Requests, Zcard(r) PROVE SessionInv'
    <3> DEFINE u == req[r].user
    <3>1. UNCHANGED <<score, now, refresh>> /\ req[r].pc = "zcard"
      BY <2>3 DEF Zcard
    <3>2. \A w \in Users : Sessions(w)' = Sessions(w)
      BY <3>1 DEF Sessions
    <3>3. /\ req'[r].user = u /\ req'[r].device = req[r].device
          /\ \/ req'[r].pc = "zrange" /\ TooMany(u)
             \/ req'[r].pc = "setToken" /\ ~TooMany(u)
      BY <2>3, GotoEffect DEF Zcard
    <3>4. Cardinality(Sessions(u)) <= MaxSessions + 1 /\ Cardinality(Sessions(u)) \in Nat
      BY <3>1, SessionsFinite DEF SessionInv, CountInv
    <3>5. \A w \in Users : w # u => Cardinality(Sessions(w)) <= MaxSessions
      BY <2>1 DEF SessionInv, CountInv
    <3>6. CountInv'
      BY <2>0, <2>1, <3>2, <3>3, <3>4, <3>5 DEF CountInv, Adding, Evicting, TooMany
    <3>7. NewestIsOwn'
      BY <2>1, <3>1, <3>3 DEF SessionInv, NewestIsOwn, Adding
    <3>8. RemovalInv'
      BY <2>1, <3>3 DEF RemovalInv
    <3> QED BY <3>1, <3>2, <3>6, <3>7, <3>8 DEF SessionInv, TokensAreTracked
  <2>4. ASSUME NEW r \in Requests, Zrange(r) PROVE SessionInv'
    <3> DEFINE u == req[r].user  d == req[r].device
    <3>1. UNCHANGED <<score, now, refresh>> /\ req[r].pc = "zrange"
      BY <2>4 DEF Zrange
    <3>2. \A w \in Users : Sessions(w)' = Sessions(w)
      BY <3>1 DEF Sessions
    <3>3. Cardinality(Sessions(u)) = MaxSessions + 1
      BY <3>1 DEF SessionInv, CountInv, Evicting
    <3>4. Sessions(u) # {} /\ Sessions(u) # {d}
      <4>1. Cardinality({}) = 0 /\ Cardinality({d}) = 1
        BY FS_EmptySet, FS_Singleton
      <4> QED BY <3>3, <4>1
    <3>5. d \in Sessions(u) /\ \A e \in Devices \ {d} : score[u][e] < score[u][d]
      BY <2>0, <3>1 DEF SessionInv, NewestIsOwn, Adding, Sessions
    <3>6. PICK e \in Sessions(u) : e # d
      BY <3>4, <3>5
    <3>7. d \notin Oldest(u)
      BY <2>0, <3>5, <3>6 DEF Oldest, Sessions
    <3>8. PICK v \in Oldest(u) : Evict(r, "evictDel", v)
      BY <2>4, <3>4 DEF Zrange
    <3>9. /\ req'[r].pc = "evictDel" /\ req'[r].user = u /\ req'[r].device = d
          /\ req'[r].victim = v
      BY <3>8 DEF Evict, At, TypeOK
    <3>10. v # d /\ v \in Sessions(u)
      BY <3>7, <3>8 DEF Oldest
    <3>11. \A w \in Users : w # u => Cardinality(Sessions(w)) <= MaxSessions
      BY <2>1 DEF SessionInv, CountInv
    <3>12. CountInv'
      BY <2>0, <2>1, <3>2, <3>3, <3>9, <3>11 DEF CountInv, Adding, Evicting
    <3>13. NewestIsOwn'
      BY <2>1, <3>1, <3>9 DEF SessionInv, NewestIsOwn, Adding
    <3>14. RemovalInv'
      BY <2>0, <2>1, <3>2, <3>9, <3>10 DEF RemovalInv
    <3> QED BY <3>1, <3>2, <3>12, <3>13, <3>14 DEF SessionInv, TokensAreTracked
  <2>5. ASSUME NEW r \in Requests, EvictDel(r) PROVE SessionInv'
    <3> DEFINE u == req[r].user  v == req[r].victim
    <3>1. /\ UNCHANGED <<score, now>> /\ req[r].pc = "evictDel"
          /\ refresh' = [refresh EXCEPT ![u][v] = 0]
      BY <2>5 DEF EvictDel
    <3>2. \A w \in Users : Sessions(w)' = Sessions(w)
      BY <3>1 DEF Sessions
    <3>3. /\ req'[r].pc = "evictZrem" /\ req'[r].user = u
          /\ req'[r].device = req[r].device /\ req'[r].victim = v
      BY <2>5, GotoEffect DEF EvictDel
    <3>4. refresh'[u][v] = 0 /\ \A w \in Users, e \in Devices :
             refresh'[w][e] # 0 => refresh[w][e] # 0
      BY <2>0, <3>1 DEF TypeOK
    <3>5. CountInv'
      BY <2>0, <2>1, <3>1, <3>2, <3>3 DEF SessionInv, CountInv, Adding, Evicting
    <3>6. NewestIsOwn'
      BY <2>1, <3>1, <3>3 DEF SessionInv, NewestIsOwn, Adding
    <3>7. RemovalInv'
      BY <2>0, <2>1, <3>1, <3>2, <3>3, <3>4 DEF SessionInv, RemovalInv
    <3>8. TokensAreTracked'
      BY <3>2, <3>4 DEF SessionInv, TokensAreTracked
    <3> QED BY <3>1, <3>5, <3>6, <3>7, <3>8 DEF SessionInv
  <2>6. ASSUME NEW r \in Requests, EvictZrem(r) PROVE SessionInv'
    <3>0. PICK u \in Users, v \in Devices : u = req[r].user /\ v = req[r].victim
      BY <2>0
    <3>1. /\ UNCHANGED <<refresh, now>> /\ req[r].pc = "evictZrem"
          /\ score' = [score EXCEPT ![u][v] = 0]
      BY <2>6, <3>0 DEF EvictZrem
    <3>2. /\ req'[r].pc = "setToken" /\ req'[r].user = u
          /\ req'[r].device = req[r].device
      BY <2>6, <3>0, GotoEffect DEF EvictZrem
    <3>3. \A w \in Users, e \in Devices :
             score'[w][e] = IF w = u /\ e = v THEN 0 ELSE score[w][e]
      BY <2>0, <3>1 DEF TypeOK
    <3>4. v # req[r].device /\ v \in Sessions(u) /\ refresh[u][v] = 0
      BY <3>0, <3>1 DEF SessionInv, RemovalInv
    <3>5. \A w \in Users : w # u => Sessions(w)' = Sessions(w)
      BY <3>3 DEF Sessions
    <3>6. Sessions(u)' = Sessions(u) \ {v}
      BY <2>0, <3>3 DEF Sessions
    <3>7. Cardinality(Sessions(u)) = MaxSessions + 1
      BY <3>0, <3>1 DEF SessionInv, CountInv, Evicting
    <3>8. Cardinality(Sessions(u)') = MaxSessions
      <4>1. Cardinality(Sessions(u)') = Cardinality(Sessions(u)) - 1
        BY <3>4, <3>6, SessionsFinite, FS_RemoveElement
      <4> QED BY <3>7, <4>1
    <3>9. \A w \in Users : w # u => Cardinality(Sessions(w)) <= MaxSessions
      BY <2>1, <3>0 DEF SessionInv, CountInv
    <3>10. CountInv'
      BY <2>0, <2>1, <3>2, <3>5, <3>8, <3>9 DEF CountInv, Adding, Evicting
    <3>11. NewestIsOwn'
      BY <2>0, <2>1, <3>0, <3>1, <3>2, <3>3, <3>4 DEF SessionInv, NewestIsOwn, Adding
    <3>12. (\A w \in Users, e \in Devices : score[w][e] <= now)'
      BY <2>0, <3>1, <3>3 DEF SessionInv
    <3>13. RemovalInv'
      BY <2>1, <3>2 DEF RemovalInv
    <3>14. TokensAreTracked'
      BY <2>0, <3>1, <3>3, <3>4 DEF SessionInv, TokensAreTracked, Sessions
    <3> QED BY <3>10, <3>11, <3>12, <3>13, <3>14 DEF SessionInv
  <2>7. ASSUME NEW r \in Requests, SetToken(r) PROVE SessionInv'
    <3> DEFINE u == req[r].user  d == req[r].device
    <3>1. UNCHANGED <<score, now>> /\ req[r].pc = "setToken"
      BY <2>7 DEF SetToken
    <3>2. refresh' = [refresh EXCEPT ![u][d] = lastToken + 1]
      BY <2>7, SetTokenEffect
    <3>3. req'[r].pc = "idle"
      BY <2>7, IdleType DEF SetToken, Done, TypeOK
    <3>4. \A w \in Users : Sessions(w)' = Sessions(w)
      BY <3>1 DEF Sessions
    <3>5. d \in Sessions(u)
      BY <2>0, <3>1 DEF SessionInv, NewestIsOwn, Sessions
    <3>6. TokensAreTracked'
      <4>1. \A w \in Users, e \in Devices :
               refresh'[w][e] = refresh[w][e] \/ (w = u /\ e = d)
        BY <2>0, <3>2 DEF TypeOK
      <4> QED BY <3>4, <3>5, <4>1 DEF SessionInv, TokensAreTracked
    <3>7. CountInv'
      BY <2>1, <3>1, <3>3, <3>4 DEF SessionInv, CountInv, Adding, Evicting
    <3>8. NewestIsOwn' /\ RemovalInv'
      BY <2>1, <3>3 DEF NewestIsOwn, RemovalInv, Adding
    <3> QED BY <3>1, <3>6, <3>7, <3>8 DEF SessionInv
  <2>8. ASSUME NEW r \in Requests, NEW u \in Users, NEW t \in issued, LogoutDel(r, u, t)
        PROVE SessionInv'
    <3>1. /\ UNCHANGED <<score, now>> /\ req[r].pc = "idle"
          /\ refresh' = [refresh EXCEPT ![u][t.device] = 0]
      BY <2>8 DEF LogoutDel, Start
    <3>2. /\ req'[r].pc = "logoutZrem" /\ req'[r].user = u
          /\ req'[r].device = t.device
      BY <2>8 DEF LogoutDel, Start, At, TypeOK
    <3>3. \A w \in Users : Sessions(w)' = Sessions(w)
      BY <3>1 DEF Sessions
    <3>4. refresh'[u][t.device] = 0 /\ \A w \in Users, e \in Devices :
             refresh'[w][e] # 0 => refresh[w][e] # 0
      BY <2>0, <3>1 DEF TypeOK
    <3>5. CountInv'
      BY <2>1, <3>1, <3>2, <3>3 DEF SessionInv, CountInv, Adding, Evicting
    <3>6. NewestIsOwn' /\ RemovalInv'
      BY <2>1, <3>2, <3>4 DEF NewestIsOwn, RemovalInv, Adding
    <3>7. TokensAreTracked'
      BY <3>3, <3>4 DEF SessionInv, TokensAreTracked
    <3> QED BY <3>1, <3>5, <3>6, <3>7 DEF SessionInv
  <2>9. ASSUME NEW r \in Requests, LogoutZrem(r) PROVE SessionInv'
    <3> DEFINE u == req[r].user  d == req[r].device
    <3>1. /\ UNCHANGED <<refresh, now>> /\ req[r].pc = "logoutZrem"
          /\ score' = [score EXCEPT ![u][d] = 0]
      BY <2>9 DEF LogoutZrem
    <3>2. req'[r].pc = "idle"
      BY <2>9, IdleType DEF LogoutZrem, Done, TypeOK
    <3>3. \A w \in Users, e \in Devices :
             score'[w][e] = IF w = u /\ e = d THEN 0 ELSE score[w][e]
      BY <2>0, <3>1 DEF TypeOK
    <3>4. \A w \in Users : Sessions(w)' \subseteq Sessions(w)
      BY <2>0, <3>3 DEF Sessions
    <3>5. \A w \in Users : Cardinality(Sessions(w)) <= MaxSessions
      BY <2>1, <3>1 DEF SessionInv, CountInv, Adding
    <3>6. \A w \in Users : Cardinality(Sessions(w)') <= MaxSessions
      <4> TAKE w \in Users
      <4>1. /\ Cardinality(Sessions(w)') <= Cardinality(Sessions(w))
            /\ IsFiniteSet(Sessions(w)')
        BY <3>4, SessionsFinite, FS_Subset
      <4>2. Cardinality(Sessions(w)') \in Nat /\ Cardinality(Sessions(w)) \in Nat
        BY <4>1, SessionsFinite, FS_CardinalityType
      <4> QED BY <3>5, <4>1, <4>2
    <3>7. CountInv'
      BY <2>1, <3>2, <3>6 DEF CountInv, Adding, Evicting
    <3>8. NewestIsOwn' /\ RemovalInv'
      BY <2>1, <3>2 DEF NewestIsOwn, RemovalInv, Adding
    <3>9. (\A w \in Users, e \in Devices : score[w][e] <= now)'
      BY <2>0, <3>1, <3>3 DEF SessionInv
    <3>10. TokensAreTracked'
      BY <2>0, <3>1, <3>3 DEF SessionInv, TokensAreTracked, RemovalInv, Sessions
    <3> QED BY <3>7, <3>8, <3>9, <3>10 DEF SessionInv
  <2>10. ASSUME NEW r \in Requests,
                \/ \E u \in Users : RegisterFind(r, u) \/ ProfileFind(r, u)
                \/ RegisterSave(r) \/ OAuthSave(r) \/ ProfileSave(r)
                \/ RefreshDel(r) \/ RefreshUser(r)
                \/ \E u \in Users, d \in Devices : Login(r, u, d) \/ OAuthFind(r, u, d)
                \/ \E t \in issued : RefreshGet(r, t)
         PROVE SessionInv'
    <3>1. /\ UNCHANGED <<score, now>>
          /\ req[r].pc \in {"idle", "registerSave", "oauthSave", "profileSave",
                           "refreshDel", "refreshUser"}
      BY <2>10 DEF RegisterFind, RegisterSave, OAuthSave, RefreshDel, RefreshUser, Login,
                   OAuthFind, RefreshGet, ProfileFind, ProfileSave, Start
    <3>2. refresh' = refresh \/ refresh' = [refresh EXCEPT ![req[r].user][req[r].device] = 0]
      BY <2>10 DEF RegisterFind, RegisterSave, OAuthSave, RefreshDel, RefreshUser, Login,
                   OAuthFind, RefreshGet, ProfileFind, ProfileSave
    <3>3. \A u \in Users, d \in Devices :
             refresh'[u][d] # 0 => refresh'[u][d] = refresh[u][d]
      <4>1. CASE refresh' = refresh
        BY <4>1
      <4>2. CASE refresh' = [refresh EXCEPT ![req[r].user][req[r].device] = 0]
        BY <2>0, <4>2 DEF TypeOK
      <4> QED BY <3>2, <4>1, <4>2
    <3>4. req'[r].pc \in {"idle", "registerSave", "oauthSave", "profileSave",
                          "refreshDel", "refreshUser", "zadd"}
      <4>1. CASE Done(r)  BY <4>1, IdleType DEF Done, TypeOK
      <4>2. CASE \E c \in {"zadd", "refreshUser"} : Goto(r, c)  BY <4>2, GotoEffect
      <4>3. CASE \E c \in {"registerSave", "oauthSave", "profileSave", "refreshDel", "zadd"} :
                 \E u, d, t, row : req' = [req EXCEPT ![r] = At(c, u, d, t, UnknownDevice, row)]
        BY <4>3 DEF At, TypeOK
      <4>4. CASE \/ RegisterSave(r) \/ OAuthSave(r) \/ ProfileSave(r)
                 \/ RefreshDel(r) \/ RefreshUser(r)
        BY <4>1, <4>2, <4>4 DEF RegisterSave, OAuthSave, ProfileSave, RefreshDel,
                                RefreshUser
      <4>5. CASE \E u \in Users : RegisterFind(r, u) \/ ProfileFind(r, u)
        BY <4>3, <4>5 DEF RegisterFind, ProfileFind, Start
      <4>6. CASE \E u \in Users, d \in Devices : Login(r, u, d) \/ OAuthFind(r, u, d)
        BY <4>3, <4>6 DEF Login, OAuthFind, Start
      <4>7. CASE \E t \in issued : RefreshGet(r, t)
        BY <4>7 DEF RefreshGet, Start, At, TypeOK
      <4> QED BY <2>10, <4>4, <4>5, <4>6, <4>7
    <3> QED BY <2>1, <3>1, <3>3, <3>4, QuietStep DEF Adding
  <2>11. ASSUME UNCHANGED <<score, now, req>>,
                \A u \in Users, d \in Devices :
                    refresh'[u][d] # 0 => refresh'[u][d] = refresh[u][d],
                \A u \in Users, d \in Devices : refresh[u][d] = 0 => refresh'[u][d] = 0
         PROVE SessionInv'
    <3>1. \A w \in Users : Sessions(w)' = Sessions(w)
      BY <2>11 DEF Sessions
    <3>2. CountInv'
      BY <2>0, <2>11, <3>1 DEF SessionInv, CountInv
    <3>3. NewestIsOwn'
      BY <2>11 DEF SessionInv, NewestIsOwn
    <3>4. RemovalInv'
      BY <2>0, <2>11, <3>1 DEF SessionInv, RemovalInv
    <3> QED BY <2>11, <3>1, <3>2, <3>3, <3>4 DEF SessionInv, TokensAreTracked
  <2>12. ASSUME NEW u \in Users, NEW d \in Devices, Expire(u, d) PROVE SessionInv'
    <3>1. /\ UNCHANGED <<score, now, req>> /\ refresh' = [refresh EXCEPT ![u][d] = 0]
      BY <2>12 DEF Expire
    <3>2. \A w \in Users, e \in Devices : refresh'[w][e] = 0 \/ refresh'[w][e] = refresh[w][e]
      BY <3>1 DEF TypeOK
    <3> QED BY <2>11, <3>1, <3>2
  <2>13. ASSUME UNCHANGED vars \/ \E u \in Users : SetActive(u) PROVE SessionInv'
    <3>1. UNCHANGED <<score, now, req, refresh>>
      BY <2>13 DEF vars, SetActive
    <3> QED BY <2>11, <3>1
  <2> QED
    BY <2>2, <2>3, <2>4, <2>5, <2>6, <2>7, <2>8, <2>9, <2>10, <2>12, <2>13
    DEF Next, Handler, Fail
<1>3. SessionInv => AtMostMaxSessions /\ TokensAreTracked
  BY DEF SessionInv, CountInv, AtMostMaxSessions, Adding
<1> QED BY <1>1, <1>2, <1>3, TypeCorrect, PTL DEF Spec

\* Under the same assumptions generateTokenPair and logout leave no refresh
\* token valid that the user's list of sessions does not have.
THEOREM SequentialTracking ==
    ASSUME Sequential, ~MayFail, ~SameMs
    PROVE  Spec => []TokensAreTracked
<1>1. Spec => [](AtMostMaxSessions /\ TokensAreTracked)
  BY SequentialSessionLimit
<1> QED BY <1>1, PTL
=============================================================================
