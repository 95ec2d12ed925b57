-------------------------- MODULE DashboardProofs ---------------------------
(***************************************************************************)
(* Theorems about the dashboard's client and pages, for every value of the *)
(* constants: each in front of the services it calls, and then side by     *)
(* side as the run Dashboard has them.  The alerts page runs against the   *)
(* notification service itself, whose invariant is that of ServicesProofs. *)
(***************************************************************************)
EXTENDS MCDashboard, ServicesProofs, WellFoundedInduction

-----------------------------------------------------------------------------
(* Numbers.                                                                 *)

\* A set of natural numbers has a least one.
LEMMA LeastNatural ==
  ASSUME NEW T \in SUBSET Nat, T # {}
  PROVE  \E x \in T : \A y \in T : x <= y
<1> DEFINE R == OpToRel(<, Nat)
<1>1. IsWellFoundedOn(R, Nat)
  BY NatLessThanWellFounded
<1>2. ASSUME NEW x \in Nat, NEW y \in Nat, y < x PROVE <<y, x>> \in R
  BY <1>2 DEF OpToRel
<1> HIDE DEF R
<1>3. PICK x \in T : \A y \in T : ~(<<y, x>> \in R)
  BY <1>1, WFMin
<1>4. ASSUME NEW y \in T PROVE x <= y
  <2>1. ~(y < x)
    BY <1>2, <1>3
  <2> QED
    BY <2>1
<1> QED
  BY <1>4

-----------------------------------------------------------------------------
(* SWR's cache.                                                             *)

\* What a key shows, or is about to.
Showing(k) == k.rows \cup (IF k.get = "answered" THEN k.answer ELSE {})

\* What it shows, and will once the answer on its way is there.
Lasting(k) == IF k.get = "answered" THEN k.rows \cap k.answer ELSE k.rows

LEMMA SwrKeyIs ==
  ASSUME NEW contents, NEW callers, NEW found \in contents
  PROVE  /\ SwrKey(found) \in SwrKeys(contents, callers)
         /\ SwrKey(found).rows = found /\ SwrKey(found).get = "none" /\ SwrKey(found).by = "poll"
         /\ Showing(SwrKey(found)) = found /\ Lasting(SwrKey(found)) = found
BY DEF SwrKey, SwrKeys, Showing, Lasting

LEMMA RevalidateIs ==
  ASSUME NEW contents, NEW callers, NEW k \in SwrKeys(contents, callers),
         NEW by \in callers \cup {"poll"}
  PROVE  /\ Revalidate(k, by) \in SwrKeys(contents, callers)
         /\ Revalidate(k, by).rows = k.rows /\ Revalidate(k, by).get = "asked"
         /\ Revalidate(k, by).by = by
         /\ Showing(Revalidate(k, by)) \subseteq Showing(k)
         /\ Lasting(k) \subseteq Lasting(Revalidate(k, by))
BY DEF Revalidate, SwrKeys, Showing, Lasting

LEMMA AnsweredIs ==
  ASSUME NEW contents, NEW callers, NEW k \in SwrKeys(contents, callers), NEW found \in contents
  PROVE  /\ Answered(k, found) \in SwrKeys(contents, callers)
         /\ Answered(k, found).rows = k.rows /\ Answered(k, found).get = "answered"
         /\ Answered(k, found).by = k.by /\ Answered(k, found).answer = found
         /\ Showing(Answered(k, found)) \subseteq k.rows \cup found
         /\ Showing(Answered(k, found)) \subseteq Showing(k) \cup found
         /\ Lasting(k) \cap found \subseteq Lasting(Answered(k, found))
BY DEF Answered, SwrKeys, Showing, Lasting

LEMMA ArrivedIs ==
  ASSUME NEW contents, NEW callers, NEW k \in SwrKeys(contents, callers)
  PROVE  /\ Arrived(k) \in SwrKeys(contents, callers)
         /\ Arrived(k).rows = k.answer /\ Arrived(k).get = "none" /\ Arrived(k).by = "poll"
         /\ Showing(Arrived(k)) = k.answer
         /\ k.get = "answered" => Showing(Arrived(k)) \subseteq Showing(k)
         /\ Lasting(Arrived(k)) = k.answer
         /\ k.get = "answered" => Lasting(k) \subseteq Lasting(Arrived(k))
BY DEF Arrived, SwrKey, SwrKeys, Showing, Lasting

LEMMA ForgottenIs ==
  ASSUME NEW contents, NEW callers, NEW k \in SwrKeys(contents, callers)
  PROVE  /\ Forgotten(k) \in SwrKeys(contents, callers)
         /\ Forgotten(k).rows = k.rows /\ Forgotten(k).get = "none" /\ Forgotten(k).by = "poll"
         /\ Showing(Forgotten(k)) = k.rows
         /\ Showing(Forgotten(k)) \subseteq Showing(k)
         /\ Lasting(k) \subseteq Lasting(Forgotten(k))
BY DEF Forgotten, SwrKey, SwrKeys, Showing, Lasting

-----------------------------------------------------------------------------
(* The client of the API and the session.                                   *)

Calls == [pc : {"idle", "fetch", "refresh", "refreshed", "retry"}, tab : Tabs, login : Users \cup {"none"},
          session : 0..MaxSessions, token : 0..MaxTokens]

\* A session that somebody has tokens of has an owner.
HeldAreOwned ==
    /\ \A c \in ApiCalls : apiCall[c].session # 0 =>
            apiCall[c].token # 0 /\ owner[apiCall[c].session] # "none"
    /\ \A t \in Tabs : store[t].session # 0 => owner[store[t].session] # "none"
    /\ persisted.session # 0 => owner[persisted.session] # "none"
CallsHaveSessions ==
    \A c \in ApiCalls : /\ apiCall[c].pc = "idle" => apiCall[c].session = 0
                        /\ apiCall[c].pc \in {"refresh", "refreshed"} => apiCall[c].session # 0
\* The sessions whose tokens are to be good.
Good == Sessions \ (spoilt \cup ended)
\* The requests under way have the newest tokens of a session, and so have the
\* tabs, unless one of their requests is about to bring them.
CallsHaveNewest ==
    \A c \in ApiCalls : apiCall[c].session \in Good =>
        apiCall[c].token = newest[apiCall[c].session]
TabsHaveNewest ==
    \A t \in Tabs : store[t].session \in Good =>
        \/ store[t].token = newest[store[t].session]
        \/ \E d \in ApiCalls : /\ apiCall[d].pc = "refreshed" /\ apiCall[d].tab = t
                               /\ apiCall[d].session = store[t].session

ClientInv ==
    ClientTypeOK /\ HeldAreOwned /\ CallsHaveSessions /\ CallsHaveNewest /\ TabsHaveNewest

LEMMA NoApiCallIs ==
  /\ NoApiCall \in Calls
  /\ NoApiCall.pc = "idle" /\ NoApiCall.session = 0 /\ NoApiCall.token = 0 /\ NoApiCall.login = "none"
BY ClientAssumption DEF NoApiCall, ApiCall, Calls

LEMMA SlicesAre ==
  /\ SignedOut \in Slices /\ SignedOut.session = 0
  /\ \A s \in Slices : /\ s.session \in 0..MaxSessions /\ s.token \in 0..MaxTokens
                       /\ s = SignedOut \/ (s.session \in Sessions /\ s.token \in 1..MaxTokens /\ s.user \in Users)
                       /\ (s.session # 0) <=> s # SignedOut
  /\ \A u \in Users, i \in Sessions, n \in 1..MaxTokens :
        /\ Slice(u, i, n) \in Slices /\ Slice(u, i, n).session = i /\ Slice(u, i, n).token = n
        /\ Slice(u, i, n) # SignedOut
BY ClientAssumption DEF Slices, SignedOut, Slice, Sessions

LEMMA SessionsAre ==
  /\ Sessions \cup {0} = 0..MaxSessions /\ 0 \notin Sessions
BY ClientAssumption DEF Sessions

LEMMA ClientInitially ==
  ClientInit => ClientInv
<1> SUFFICES ASSUME ClientInit PROVE ClientInv
  OBVIOUS
<1>1. ClientTypeOK
  <2>1. apiCall \in [ApiCalls -> Calls]
    BY NoApiCallIs DEF ClientInit
  <2>2. newest \in [Sessions -> 0..MaxTokens]
    BY ClientAssumption DEF ClientInit
  <2>3. store \in [Tabs -> Slices] /\ persisted \in Slices
    BY SlicesAre DEF ClientInit
  <2> QED
    BY <2>1, <2>2, <2>3 DEF ClientInit, ClientTypeOK, Calls
<1>2. \A t \in Tabs : store[t].session = 0
  BY SlicesAre DEF ClientInit
<1>3. persisted.session = 0
  BY SlicesAre DEF ClientInit
<1>4. \A c \in ApiCalls : apiCall[c].session = 0 /\ apiCall[c].pc = "idle"
  BY NoApiCallIs DEF ClientInit
<1> QED
  BY <1>1, <1>2, <1>3, <1>4, SessionsAre DEF ClientInv, HeldAreOwned, CallsHaveSessions, CallsHaveNewest,
     TabsHaveNewest, Good

LEMMA ClientTypes ==
  ASSUME ClientInv
  PROVE  /\ apiCall \in [ApiCalls -> Calls] /\ store \in [Tabs -> Slices] /\ persisted \in Slices
         /\ owner \in [Sessions -> Users \cup {"none"}] /\ newest \in [Sessions -> 0..MaxTokens]
         /\ spoilt \subseteq Sessions /\ ended \subseteq Sessions /\ unsaved \subseteq Tabs
         /\ page \in [Tabs -> {"login", "dashboard"}]
BY DEF ClientInv, ClientTypeOK, Calls

\* A request ends, its tab staying as it is or signed out.
LEMMA CallEnds ==
  ASSUME ClientInv, NEW c \in ApiCalls, EndCall(c),
         UNCHANGED <<serverVars, persisted, page>>,
         unsaved' \subseteq Tabs,
         spoilt \subseteq spoilt', spoilt' \subseteq Sessions,
         \/ store' = store /\ apiCall[c].pc # "refreshed"
         \/ store' = [store EXCEPT ![apiCall[c].tab] = SignedOut]
  PROVE  ClientInv'
<1>0. /\ apiCall' = [apiCall EXCEPT ![c] = NoApiCall] /\ apiCall[c].tab \in Tabs
      /\ UNCHANGED <<owner, newest, ended>>
  BY ClientTypes DEF EndCall, serverVars, Calls
<1>g. Good' \subseteq Good /\ 0 \notin Good'
  BY <1>0, SessionsAre DEF Good
<1>1. /\ apiCall' \in [ApiCalls -> Calls] /\ store' \in [Tabs -> Slices]
      /\ apiCall'[c] = NoApiCall /\ \A d \in ApiCalls \ {c} : apiCall'[d] = apiCall[d]
      /\ \A t \in Tabs : store'[t] = store[t] \/ store'[t] = SignedOut
      /\ apiCall[c].pc = "refreshed" => store'[apiCall[c].tab] = SignedOut
  BY <1>0, ClientTypes, NoApiCallIs, SlicesAre
<1>2. ClientTypeOK'
  BY <1>0, <1>1, ClientTypes DEF ClientTypeOK, Calls
<1>3. HeldAreOwned'
  BY <1>0, <1>1, NoApiCallIs, SlicesAre DEF ClientInv, HeldAreOwned
<1>4. CallsHaveSessions'
  BY <1>1, NoApiCallIs DEF ClientInv, CallsHaveSessions
<1>5. CallsHaveNewest'
  BY <1>0, <1>g, <1>1, NoApiCallIs DEF ClientInv, CallsHaveNewest
<1>6. TabsHaveNewest'
  <2> SUFFICES ASSUME NEW t \in Tabs, store'[t].session \in Good',
                      store'[t].token # newest'[store'[t].session]
               PROVE  \E d \in ApiCalls : /\ apiCall'[d].pc = "refreshed" /\ apiCall'[d].tab = t
                                          /\ apiCall'[d].session = store'[t].session
    BY DEF TabsHaveNewest
  <2>1. store'[t] = store[t] /\ store[t].session \in Good
    BY <1>g, <1>1, SlicesAre
  <2>2. PICK d \in ApiCalls : /\ apiCall[d].pc = "refreshed" /\ apiCall[d].tab = t
                              /\ apiCall[d].session = store[t].session
    BY <1>0, <2>1 DEF ClientInv, TabsHaveNewest
  <2>3. d # c
    BY <1>1, <2>1, <2>2, SlicesAre, SessionsAre DEF Good
  <2> QED
    BY <1>1, <2>1, <2>2, <2>3
<1> QED
  BY <1>2, <1>3, <1>4, <1>5, <1>6 DEF ClientInv

\* The tab of a request is signed out.
LEMMA LeaveEnds ==
  ASSUME ClientInv, NEW c \in ApiCalls, Leave(c), UNCHANGED serverVars,
         spoilt \subseteq spoilt', spoilt' \subseteq Sessions
  PROVE  ClientInv'
<1>1. apiCall[c].tab \in Tabs
  BY ClientTypes DEF Calls
<1> QED
  BY <1>1, ClientTypes, CallEnds DEF Leave, Dispatch

LEMMA RequestStep ==
  ASSUME ClientInv, NEW c \in ApiCalls, NEW t \in Tabs, NEW u \in Users \cup {"none"}, Request(c, t, u)
  PROVE  ClientInv'
<1> DEFINE w == ApiCall("fetch", t, u, store[t].session, store[t].token)
<1>0. /\ store[t] \in Slices /\ store[t].session \in 0..MaxSessions /\ store[t].token \in 0..MaxTokens
      /\ store[t].session # 0 => store[t].token # 0 /\ store[t].session \in Sessions
  BY ClientTypes, SlicesAre, SessionsAre
<1>1. w \in Calls
  BY <1>0 DEF ApiCall, Calls
<1>2. w.pc = "fetch" /\ w.session = store[t].session /\ w.token = store[t].token
  BY DEF ApiCall
<1>3. /\ apiCall' = [apiCall EXCEPT ![c] = w] /\ apiCall[c].pc = "idle"
      /\ UNCHANGED <<owner, newest, ended, store, persisted, unsaved, page>>
      /\ spoilt' = spoilt \cup {s \in {store[t].session} :
            \E d \in ApiCalls : apiCall[d].pc = "refreshed" /\ apiCall[d].session = s}
  BY DEF Request, serverVars, tabVars
<1> HIDE DEF w
<1>4. /\ apiCall' \in [ApiCalls -> Calls]
      /\ apiCall'[c] = w /\ \A d \in ApiCalls \ {c} : apiCall'[d] = apiCall[d]
  BY <1>1, <1>3, ClientTypes
<1>5. spoilt \subseteq spoilt' /\ spoilt' \subseteq Sessions /\ Good' \subseteq Good
  <2>1. \A d \in ApiCalls : apiCall[d].pc = "refreshed" => apiCall[d].session # 0
    BY DEF ClientInv, CallsHaveSessions
  <2> QED
    BY <1>0, <1>3, <2>1, ClientTypes DEF Good
<1>6. ClientTypeOK'
  BY <1>3, <1>4, <1>5, ClientTypes DEF ClientTypeOK, Calls
<1>7. HeldAreOwned'
  BY <1>0, <1>2, <1>3, <1>4 DEF ClientInv, HeldAreOwned
<1>8. CallsHaveSessions'
  BY <1>2, <1>4 DEF ClientInv, CallsHaveSessions
<1>9. ASSUME store[t].session \in Good' PROVE store[t].token = newest[store[t].session]
  <2>1. ~ \E d \in ApiCalls : apiCall[d].pc = "refreshed" /\ apiCall[d].session = store[t].session
    BY <1>3, <1>9 DEF Good
  <2> QED
    BY <1>5, <1>9, <2>1 DEF ClientInv, TabsHaveNewest
<1>10. CallsHaveNewest'
  BY <1>2, <1>3, <1>4, <1>5, <1>9 DEF ClientInv, CallsHaveNewest
<1>11. TabsHaveNewest'
  BY <1>3, <1>4, <1>5 DEF ClientInv, TabsHaveNewest
<1> QED
  BY <1>6, <1>7, <1>8, <1>10, <1>11 DEF ClientInv

LEMMA UnauthorizedStep ==
  ASSUME ClientInv, NEW c \in ApiCalls, Unauthorized(c)
  PROVE  ClientInv'
<1>1. CASE apiCall[c].session = 0
  BY <1>1, ClientTypes, LeaveEnds DEF Unauthorized
<1>2. CASE apiCall[c].session # 0
  <2> DEFINE w == [apiCall[c] EXCEPT !.pc = "refresh"]
  <2>0. apiCall[c] \in Calls /\ apiCall[c].pc = "fetch"
    BY ClientTypes DEF Unauthorized
  <2>1. w \in Calls /\ w.pc = "refresh" /\ w.session = apiCall[c].session /\ w.token = apiCall[c].token
    BY <2>0 DEF Calls
  <2>2. /\ apiCall' = [apiCall EXCEPT ![c] = w]
        /\ UNCHANGED <<owner, newest, ended, store, persisted, unsaved, page, spoilt>>
    BY <1>2 DEF Unauthorized, serverVars, tabVars
  <2> HIDE DEF w
  <2>3. /\ apiCall' \in [ApiCalls -> Calls]
        /\ apiCall'[c] = w /\ \A d \in ApiCalls \ {c} : apiCall'[d] = apiCall[d]
    BY <2>1, <2>2, ClientTypes
  <2>4. ClientTypeOK'
    BY <2>2, <2>3, ClientTypes DEF ClientTypeOK, Calls
  <2>5. HeldAreOwned' /\ CallsHaveSessions' /\ CallsHaveNewest'
    BY <1>2, <2>1, <2>2, <2>3 DEF ClientInv, HeldAreOwned, CallsHaveSessions, CallsHaveNewest,
       Good
  <2>6. TabsHaveNewest'
    <3>1. \A d \in ApiCalls : apiCall[d].pc = "refreshed" => apiCall'[d] = apiCall[d]
      BY <2>0, <2>3
    <3> QED
      BY <2>2, <3>1 DEF ClientInv, TabsHaveNewest, Good
  <2> QED
    BY <2>4, <2>5, <2>6 DEF ClientInv
<1> QED
  BY <1>1, <1>2

\* The first session nobody has: it is new to all.
LEMMA LoginStep ==
  ASSUME ClientInv, NEW c \in ApiCalls, LoggedIn(c)
  PROVE  ClientInv'
<1> DEFINE t == apiCall[c].tab
           u == apiCall[c].login
           Unused(i) == owner[i] = "none" /\ \A j \in 1..i - 1 : owner[j] # "none"
           s == CHOOSE i \in Sessions : Unused(i)
<1>0. /\ owner' = [owner EXCEPT ![s] = u]
      /\ newest' = [i \in Sessions |->
            IF i = s THEN 1 ELSE IF owner[i] = u THEN 0 ELSE newest[i]]
      /\ ended' = ended \cup {i \in Sessions : owner[i] = u}
      /\ store' = [store EXCEPT ![t] = Slice(u, s, 1)] /\ unsaved' = unsaved \cup {t}
      /\ page' = [page EXCEPT ![t] = "dashboard"]
      /\ apiCall' = [apiCall EXCEPT ![c] = NoApiCall]
      /\ UNCHANGED <<persisted, spoilt>>
      /\ apiCall[c].pc \in {"fetch", "retry"} /\ u # "none" /\ owner[MaxSessions] = "none"
  BY DEF LoggedIn, Dispatch, EndCall
<1>1. \E i \in Sessions : Unused(i)
  <2> DEFINE T == {i \in Sessions : owner[i] = "none"}
  <2>1. MaxSessions \in T /\ T \in SUBSET Nat
    BY <1>0, ClientAssumption DEF Sessions
  <2>2. PICK i \in T : \A j \in T : i <= j
    BY <2>1, LeastNatural
  <2>3. ASSUME NEW j \in 1..i - 1 PROVE owner[j] # "none"
    <3>1. j \in Sessions /\ ~(i <= j)
      BY ClientAssumption DEF Sessions
    <3> QED
      BY <2>2, <3>1
  <2> QED
    BY <2>3
<1>2. s \in Sessions /\ owner[s] = "none"
  BY <1>1
<1>3. t \in Tabs /\ u \in Users
  BY <1>0, ClientTypes DEF Calls
<1>4. 1 \in 1..MaxTokens /\ 1 \in 0..MaxTokens
  BY ClientAssumption
<1> HIDE DEF t, u, s, Unused
<1>5. /\ Slice(u, s, 1) \in Slices /\ Slice(u, s, 1).session = s /\ Slice(u, s, 1).token = 1
  BY <1>2, <1>3, <1>4, SlicesAre
<1>6. /\ apiCall' \in [ApiCalls -> Calls] /\ store' \in [Tabs -> Slices]
      /\ apiCall'[c] = NoApiCall /\ \A d \in ApiCalls \ {c} : apiCall'[d] = apiCall[d]
      /\ store'[t] = Slice(u, s, 1) /\ \A x \in Tabs \ {t} : store'[x] = store[x]
      /\ owner' \in [Sessions -> Users \cup {"none"}] /\ owner'[s] = u
      /\ \A i \in Sessions \ {s} : owner'[i] = owner[i]
  BY <1>0, <1>2, <1>3, <1>4, <1>5, ClientTypes, NoApiCallIs
<1>n. /\ newest' \in [Sessions -> 0..MaxTokens] /\ newest'[s] = 1
      /\ ended \subseteq ended' /\ ended' \subseteq Sessions
      /\ Good' \subseteq Good
      /\ \A i \in Good' \ {s} : newest'[i] = newest[i]
  <2>1. 0 \in 0..MaxTokens
    BY ClientAssumption
  <2>2. newest' \in [Sessions -> 0..MaxTokens] /\ newest'[s] = 1
    BY <1>0, <1>2, <1>4, <2>1, ClientTypes
  <2>3. \A i \in Sessions \ ended' : owner[i] # u
    BY <1>0
  <2> QED
    BY <1>0, <2>2, <2>3, ClientTypes DEF Good
<1>7. ClientTypeOK'
  <2>1. page' \in [Tabs -> {"login", "dashboard"}]
    BY <1>0, <1>3, ClientTypes
  <2> QED
    BY <1>0, <1>3, <1>6, <1>n, <2>1, ClientTypes DEF ClientTypeOK, Calls
<1>8. /\ \A d \in ApiCalls : apiCall[d].session # s
      /\ \A x \in Tabs : store[x].session # s
      /\ persisted.session # s
  BY <1>2, SessionsAre DEF ClientInv, HeldAreOwned
<1>9. HeldAreOwned'
  <2>1. \A d \in ApiCalls : apiCall'[d].session # 0 =>
            apiCall'[d].token # 0 /\ owner'[apiCall'[d].session] # "none"
    BY <1>6, <1>8, ClientTypes, NoApiCallIs, SessionsAre DEF ClientInv, HeldAreOwned, Calls
  <2>2. \A x \in Tabs : store'[x].session # 0 => owner'[store'[x].session] # "none"
    BY <1>0, <1>5, <1>6, <1>8, ClientTypes, SlicesAre, SessionsAre DEF ClientInv, HeldAreOwned
  <2>3. persisted.session # 0 => owner'[persisted.session] # "none"
    BY <1>6, <1>8, ClientTypes, SlicesAre, SessionsAre DEF ClientInv, HeldAreOwned
  <2> QED
    BY <1>0, <2>1, <2>2, <2>3 DEF HeldAreOwned
<1>10. CallsHaveSessions'
  BY <1>6, NoApiCallIs DEF ClientInv, CallsHaveSessions
<1>11. CallsHaveNewest'
  <2>1. 0 \notin Good'
    BY SessionsAre DEF Good
  <2> QED
    BY <1>6, <1>n, <1>8, <2>1, NoApiCallIs DEF ClientInv, CallsHaveNewest
<1>12. TabsHaveNewest'
  <2>1. \A d \in ApiCalls : apiCall[d].pc = "refreshed" => apiCall'[d] = apiCall[d]
    BY <1>0, <1>6
  <2>2. ASSUME NEW x \in Tabs \ {t}, store'[x].session \in Good'
        PROVE  \/ store'[x].token = newest'[store'[x].session]
               \/ \E d \in ApiCalls : /\ apiCall'[d].pc = "refreshed" /\ apiCall'[d].tab = x
                                      /\ apiCall'[d].session = store'[x].session
    <3>1. /\ store'[x] = store[x] /\ newest'[store[x].session] = newest[store[x].session]
          /\ store[x].session \in Good
      BY <1>6, <1>n, <1>8, <2>2
    <3> QED
      BY <2>1, <2>2, <3>1 DEF ClientInv, TabsHaveNewest
  <2>3. store'[t].token = newest'[store'[t].session]
    BY <1>5, <1>6, <1>n
  <2> QED
    BY <2>2, <2>3 DEF TabsHaveNewest
<1> QED
  BY <1>7, <1>9, <1>10, <1>11, <1>12 DEF ClientInv

\* The session is spoilt, or nobody else has its tokens.
LEMMA RenewStep ==
  ASSUME ClientInv, NEW c \in ApiCalls, Renew(c)
  PROVE  ClientInv'
<1> DEFINE s == apiCall[c].session
           n == apiCall[c].token
           w == [apiCall[c] EXCEPT !.pc = "refreshed", !.token = n + 1]
<1>0. /\ apiCall[c].pc = "refresh" /\ newest[s] = n /\ n < MaxTokens
      /\ newest' = [newest EXCEPT ![s] = n + 1]
      /\ spoilt' = IF AlsoHeld(c, s, n) THEN spoilt \cup {s} ELSE spoilt
      /\ UNCHANGED <<owner, ended, store, persisted, unsaved, page>>
      /\ apiCall' = [apiCall EXCEPT ![c] = w]
  BY DEF Renew, tabVars
<1>1. /\ apiCall[c] \in Calls /\ s \in Sessions /\ n \in 0..MaxTokens
  <2>1. apiCall[c] \in Calls /\ s \in 0..MaxSessions /\ s # 0 /\ n \in 0..MaxTokens
    BY <1>0, ClientTypes DEF ClientInv, CallsHaveSessions, Calls
  <2> QED
    BY <2>1, SessionsAre
<1>2. n + 1 \in 1..MaxTokens /\ n + 1 \in 0..MaxTokens /\ n + 1 # 0
  BY <1>0, <1>1, ClientAssumption
<1>3. w \in Calls /\ w.pc = "refreshed" /\ w.token = n + 1 /\ w.session = s /\ w.tab = apiCall[c].tab
  BY <1>1, <1>2 DEF Calls
<1> HIDE DEF w
<1>4. /\ apiCall' \in [ApiCalls -> Calls]
      /\ apiCall'[c] = w /\ \A d \in ApiCalls \ {c} : apiCall'[d] = apiCall[d]
      /\ newest' \in [Sessions -> 0..MaxTokens] /\ newest'[s] = n + 1
      /\ \A i \in Sessions \ {s} : newest'[i] = newest[i]
  BY <1>0, <1>1, <1>2, <1>3, ClientTypes
<1>5. /\ spoilt \subseteq spoilt' /\ spoilt' \subseteq Sessions /\ (s \in Good' => ~AlsoHeld(c, s, n))
      /\ Good' \subseteq Good
  BY <1>0, <1>1, ClientTypes DEF Good
<1>6. ClientTypeOK'
  BY <1>0, <1>4, <1>5, ClientTypes DEF ClientTypeOK, Calls
<1>7. HeldAreOwned'
  BY <1>0, <1>2, <1>3, <1>4 DEF ClientInv, HeldAreOwned
<1>8. CallsHaveSessions'
  BY <1>0, <1>3, <1>4 DEF ClientInv, CallsHaveSessions
<1>9. ASSUME s \in Good', NEW d \in ApiCalls \ {c}, apiCall[d].session = s PROVE FALSE
  <2>1. apiCall[d].pc # "idle"
    BY <1>1, <1>9, SessionsAre DEF ClientInv, CallsHaveSessions
  <2>2. apiCall[d].token = n
    BY <1>0, <1>1, <1>5, <1>9 DEF ClientInv, CallsHaveNewest
  <2> QED
    BY <1>5, <1>9, <2>1, <2>2 DEF AlsoHeld
<1>10. CallsHaveNewest'
  <2> SUFFICES ASSUME NEW d \in ApiCalls, apiCall'[d].session \in Good'
               PROVE  apiCall'[d].token = newest'[apiCall'[d].session]
    BY DEF CallsHaveNewest
  <2>1. CASE d = c
    BY <1>3, <1>4, <2>1
  <2>2. CASE d # c
    <3>1. apiCall'[d] = apiCall[d] /\ apiCall[d].session \in Good /\ apiCall[d].session \in Sessions
      BY <1>4, <1>5, <2>2 DEF Good
    <3>2. apiCall[d].session # s
      BY <1>9, <2>2, <3>1
    <3> QED
      BY <1>4, <3>1, <3>2 DEF ClientInv, CallsHaveNewest
  <2> QED
    BY <2>1, <2>2
<1>11. TabsHaveNewest'
  <2> SUFFICES ASSUME NEW t \in Tabs, store'[t].session \in Good'
               PROVE  \/ store'[t].token = newest'[store'[t].session]
                      \/ \E d \in ApiCalls : /\ apiCall'[d].pc = "refreshed" /\ apiCall'[d].tab = t
                                             /\ apiCall'[d].session = store'[t].session
    BY DEF TabsHaveNewest
  <2>0. store'[t] = store[t] /\ store[t].session \in Good
    BY <1>0, <1>5
  <2>1. CASE store[t].session # s
    <3>1. \A d \in ApiCalls : apiCall[d].pc = "refreshed" => apiCall'[d] = apiCall[d]
      BY <1>0, <1>4
    <3>2. newest'[store'[t].session] = newest[store[t].session]
      BY <1>4, <2>0, <2>1 DEF Good
    <3>3. \/ store[t].token = newest[store[t].session]
          \/ \E d \in ApiCalls : /\ apiCall[d].pc = "refreshed" /\ apiCall[d].tab = t
                                 /\ apiCall[d].session = store[t].session
      BY <2>0 DEF ClientInv, TabsHaveNewest
    <3> QED
      BY <2>0, <3>1, <3>2, <3>3
  <2>2. CASE store[t].session = s /\ t = apiCall[c].tab
    BY <1>3, <1>4, <2>0, <2>2
  <2>3. CASE store[t].session = s /\ t # apiCall[c].tab
    <3>1. store[t].token = n
      <4>1. ~ \E d \in ApiCalls : /\ apiCall[d].pc = "refreshed" /\ apiCall[d].tab = t
                                  /\ apiCall[d].session = store[t].session
        BY <1>0, <1>9, <2>0, <2>3
      <4> QED
        BY <1>0, <2>0, <2>3, <4>1 DEF ClientInv, TabsHaveNewest
    <3> QED
      BY <1>5, <2>0, <2>3, <3>1 DEF AlsoHeld
  <2> QED
    BY <2>1, <2>2, <2>3
<1> QED
  BY <1>6, <1>7, <1>8, <1>10, <1>11 DEF ClientInv

LEMMA RefreshedStep ==
  ASSUME ClientInv, NEW c \in ApiCalls, Refreshed(c)
  PROVE  ClientInv'
<1> DEFINE t == apiCall[c].tab
           s == apiCall[c].session
           w == [apiCall[c] EXCEPT !.pc = "retry"]
<1>0. /\ apiCall[c].pc = "refreshed" /\ apiCall[c] \in Calls /\ t \in Tabs
      /\ apiCall' = [apiCall EXCEPT ![c] = w]
      /\ UNCHANGED <<owner, newest, ended, persisted, page, spoilt>>
      /\ IF store[t] # SignedOut
         THEN store' = [store EXCEPT ![t] = Slice(store[t].user, s, apiCall[c].token)]
              /\ unsaved' = unsaved \cup {t}
         ELSE UNCHANGED <<store, unsaved>>
  BY ClientTypes DEF Refreshed, Dispatch, serverVars, Calls
<1>1. /\ s \in Sessions /\ apiCall[c].token \in 1..MaxTokens /\ owner[s] # "none"
  <2>1. s \in 0..MaxSessions /\ s # 0
    BY <1>0 DEF ClientInv, CallsHaveSessions, Calls
  <2>2. apiCall[c].token \in 0..MaxTokens /\ apiCall[c].token # 0 /\ owner[s] # "none"
    BY <1>0, <2>1 DEF ClientInv, HeldAreOwned, Calls
  <2>3. apiCall[c].token \in 1..MaxTokens
    BY <2>2, ClientAssumption
  <2> QED
    BY <2>1, <2>2, <2>3, SessionsAre
<1>2. w \in Calls /\ w.pc = "retry" /\ w.session = s /\ w.token = apiCall[c].token
  BY <1>0 DEF Calls
<1> HIDE DEF w
<1>3. /\ apiCall' \in [ApiCalls -> Calls]
      /\ apiCall'[c] = w /\ \A d \in ApiCalls \ {c} : apiCall'[d] = apiCall[d]
  BY <1>0, <1>2, ClientTypes
<1>4. /\ store' \in [Tabs -> Slices] /\ unsaved' \subseteq Tabs
      /\ \A x \in Tabs \ {t} : store'[x] = store[x]
      /\ \/ store[t] = SignedOut /\ store'[t] = SignedOut
         \/ store'[t].session = s /\ store'[t].token = apiCall[c].token
  <2>1. CASE store[t] = SignedOut
    BY <1>0, <2>1, ClientTypes
  <2>2. CASE store[t] # SignedOut
    <3>1. store[t].user \in Users
      BY <1>0, <2>2, ClientTypes, SlicesAre
    <3>2. /\ Slice(store[t].user, s, apiCall[c].token) \in Slices
          /\ Slice(store[t].user, s, apiCall[c].token).session = s
          /\ Slice(store[t].user, s, apiCall[c].token).token = apiCall[c].token
      BY <1>1, <3>1, SlicesAre
    <3> QED
      BY <1>0, <2>2, <3>2, ClientTypes
  <2> QED
    BY <2>1, <2>2
<1>g. Good' = Good /\ 0 \notin Good
  BY <1>0, SessionsAre DEF Good
<1> HIDE DEF t, s
<1>5. ClientTypeOK'
  BY <1>0, <1>3, <1>4, ClientTypes DEF ClientTypeOK, Calls
<1>6. HeldAreOwned'
  <2>1. \A d \in ApiCalls : apiCall'[d].session # 0 =>
            apiCall'[d].token # 0 /\ owner[apiCall'[d].session] # "none"
    BY <1>2, <1>3 DEF ClientInv, HeldAreOwned, s
  <2>2. \A x \in Tabs : store'[x].session # 0 => owner[store'[x].session] # "none"
    BY <1>1, <1>4, SlicesAre DEF ClientInv, HeldAreOwned
  <2> QED
    BY <1>0, <2>1, <2>2 DEF ClientInv, HeldAreOwned
<1>7. CallsHaveSessions' /\ CallsHaveNewest'
  BY <1>0, <1>2, <1>3, <1>g DEF ClientInv, CallsHaveSessions, CallsHaveNewest, s
<1>8. TabsHaveNewest'
  <2> SUFFICES ASSUME NEW x \in Tabs, store'[x].session \in Good'
               PROVE  \/ store'[x].token = newest'[store'[x].session]
                      \/ \E d \in ApiCalls : /\ apiCall'[d].pc = "refreshed" /\ apiCall'[d].tab = x
                                             /\ apiCall'[d].session = store'[x].session
    BY DEF TabsHaveNewest
  <2>1. CASE x = t
    <3>1. store'[t].session = s /\ store'[t].token = apiCall[c].token
      BY <1>4, <1>g, <2>1, SlicesAre
    <3>2. apiCall[c].token = newest[s]
      BY <1>0, <1>g, <2>1, <3>1 DEF ClientInv, CallsHaveNewest, s
    <3> QED
      BY <1>0, <2>1, <3>1, <3>2
  <2>2. CASE x # t
    <3>1. \A d \in ApiCalls : apiCall[d].pc = "refreshed" /\ apiCall[d].tab = x => apiCall'[d] = apiCall[d]
      BY <1>3, <2>2 DEF t
    <3>2. store'[x] = store[x]
      BY <1>4, <2>2
    <3> QED
      BY <1>0, <1>g, <3>1, <3>2 DEF ClientInv, TabsHaveNewest
  <2> QED
    BY <2>1, <2>2
<1> QED
  BY <1>5, <1>6, <1>7, <1>8 DEF ClientInv

LEMMA LoadStep ==
  ASSUME ClientInv, NEW t \in Tabs, NEW p \in {"login", "dashboard"}, Load(t, p)
  PROVE  ClientInv'
<1>0. /\ store' = [store EXCEPT ![t] = persisted] /\ unsaved' = unsaved \ {t}
      /\ apiCall' = [c \in ApiCalls |-> IF apiCall[c].tab = t THEN NoApiCall ELSE apiCall[c]]
      /\ spoilt' = IF persisted # SignedOut /\ newest[persisted.session] # persisted.token
                   THEN spoilt \cup {persisted.session} ELSE spoilt
      /\ UNCHANGED <<owner, newest, ended, persisted>>
      /\ page' \in [Tabs -> {"login", "dashboard"}]
  BY ClientTypes DEF Load, serverVars
<1>1. /\ apiCall' \in [ApiCalls -> Calls] /\ store' \in [Tabs -> Slices]
      /\ store'[t] = persisted /\ \A x \in Tabs \ {t} : store'[x] = store[x]
      /\ \A c \in ApiCalls : apiCall'[c] = NoApiCall \/ apiCall'[c] = apiCall[c]
      /\ \A c \in ApiCalls : apiCall[c].tab # t => apiCall'[c] = apiCall[c]
  BY <1>0, ClientTypes, NoApiCallIs
<1>2. spoilt \subseteq spoilt' /\ spoilt' \subseteq Sessions /\ Good' \subseteq Good /\ 0 \notin Good'
  BY <1>0, ClientTypes, SlicesAre, SessionsAre DEF Good
<1>3. ClientTypeOK'
  BY <1>0, <1>1, <1>2, ClientTypes DEF ClientTypeOK, Calls
<1>4. HeldAreOwned'
  BY <1>0, <1>1, NoApiCallIs DEF ClientInv, HeldAreOwned
<1>5. CallsHaveSessions' /\ CallsHaveNewest'
  BY <1>0, <1>1, <1>2, NoApiCallIs, SessionsAre DEF ClientInv, CallsHaveSessions, CallsHaveNewest
<1>6. TabsHaveNewest'
  <2> SUFFICES ASSUME NEW x \in Tabs, store'[x].session \in Good'
               PROVE  \/ store'[x].token = newest'[store'[x].session]
                      \/ \E d \in ApiCalls : /\ apiCall'[d].pc = "refreshed" /\ apiCall'[d].tab = x
                                             /\ apiCall'[d].session = store'[x].session
    BY DEF TabsHaveNewest
  <2>1. CASE x = t
    <3>1. persisted # SignedOut /\ persisted.session \notin spoilt'
      BY <1>1, <2>1, ClientTypes, SlicesAre, SessionsAre DEF Good
    <3> QED
      BY <1>0, <1>1, <2>1, <3>1
  <2>2. CASE x # t
    BY <1>0, <1>1, <1>2, <2>2 DEF ClientInv, TabsHaveNewest
  <2> QED
    BY <2>1, <2>2
<1> QED
  BY <1>3, <1>4, <1>5, <1>6 DEF ClientInv

\* The tabs' other steps.
LEMMA TabStep ==
  ASSUME ClientInv,
         \/ \E t \in Tabs : Save(t) \/ SignOut(t) \/ Redirect(t)
         \/ UNCHANGED clientVars
  PROVE  ClientInv'
<1>1. /\ UNCHANGED <<owner, newest, ended, apiCall, spoilt>>
      /\ unsaved' \subseteq Tabs
  BY ClientTypes DEF Save, SignOut, Redirect, clientVars, serverVars, tabVars, Dispatch
<1>2. page' \in [Tabs -> {"login", "dashboard"}]
  BY ClientTypes DEF Save, SignOut, Redirect, clientVars, serverVars, tabVars, Dispatch
<1>3. /\ persisted' = persisted \/ \E t \in Tabs : persisted' = store[t]
      /\ store' = store \/ \E t \in Tabs : store' = [store EXCEPT ![t] = SignedOut]
  BY DEF Save, SignOut, Redirect, clientVars, serverVars, tabVars, Dispatch
<1>4. /\ persisted' \in Slices /\ store' \in [Tabs -> Slices]
      /\ \A t \in Tabs : store'[t] = store[t] \/ store'[t] = SignedOut
  BY <1>3, ClientTypes, SlicesAre
<1>5. ClientTypeOK'
  BY <1>1, <1>2, <1>4, ClientTypes DEF ClientTypeOK, Calls
<1>6. HeldAreOwned'
  BY <1>1, <1>3, <1>4, SlicesAre DEF ClientInv, HeldAreOwned
<1>7. CallsHaveSessions' /\ CallsHaveNewest'
  BY <1>1 DEF ClientInv, CallsHaveSessions, CallsHaveNewest, Good
<1>8. TabsHaveNewest'
  BY <1>1, <1>4, SlicesAre, SessionsAre DEF ClientInv, TabsHaveNewest, Good
<1> QED
  BY <1>5, <1>6, <1>7, <1>8 DEF ClientInv

\* The service ends a session.
LEMMA EndSessionStep ==
  ASSUME ClientInv, NEW s \in Sessions, EndSession(s)
  PROVE  ClientInv'
<1>0. /\ newest' = [newest EXCEPT ![s] = 0] /\ ended' = ended \cup {s}
      /\ UNCHANGED <<owner, apiCall, store, persisted, unsaved, page, spoilt>>
  BY DEF EndSession, tabVars
<1>1. /\ newest' \in [Sessions -> 0..MaxTokens] /\ ended' \subseteq Sessions
      /\ Good' \subseteq Good /\ \A i \in Good' : newest'[i] = newest[i]
  BY <1>0, ClientTypes, ClientAssumption DEF Good
<1>2. ClientTypeOK'
  BY <1>0, <1>1, ClientTypes DEF ClientTypeOK, Calls
<1>3. HeldAreOwned' /\ CallsHaveSessions'
  BY <1>0 DEF ClientInv, HeldAreOwned, CallsHaveSessions
<1>4. CallsHaveNewest' /\ TabsHaveNewest'
  BY <1>0, <1>1 DEF ClientInv, CallsHaveNewest, TabsHaveNewest
<1> QED
  BY <1>2, <1>3, <1>4 DEF ClientInv

LEMMA ClientStep ==
  ClientInv /\ [ClientNext]_clientVars => ClientInv'
<1> SUFFICES ASSUME ClientInv, [ClientNext]_clientVars PROVE ClientInv'
  OBVIOUS
<1>1. ASSUME NEW c \in ApiCalls, Succeed(c) PROVE ClientInv'
  BY <1>1, ClientTypes, CallEnds DEF Succeed, tabVars
<1>2. ASSUME NEW c \in ApiCalls, Refuse(c) \/ RetryFails(c) PROVE ClientInv'
  BY <1>2, ClientTypes, LeaveEnds DEF Refuse, RetryFails
<1>3. ASSUME NEW c \in ApiCalls, AnswerLost(c) PROVE ClientInv'
  <2>2. apiCall[c].pc = "refreshed" => apiCall[c].session \in Sessions
    <3>1. apiCall[c].session \in 0..MaxSessions
      BY ClientTypes DEF Calls
    <3> QED
      BY <3>1, SessionsAre DEF ClientInv, CallsHaveSessions
  <2>3. spoilt \subseteq spoilt' /\ spoilt' \subseteq Sessions
    BY <1>3, <2>2, ClientTypes DEF AnswerLost
  <2> QED
    BY <1>3, <2>3, LeaveEnds DEF AnswerLost
<1> QED
  BY <1>1, <1>2, <1>3, RequestStep, UnauthorizedStep, LoginStep, RenewStep, RefreshedStep, LoadStep, TabStep,
     EndSessionStep DEF ClientNext

\* The tabs' stores, the persisted one, the sessions and the calls in flight keep
\* their types through logins, reloads, refreshes and lost answers.
THEOREM ClientTyped ==
  ClientSpec => []ClientTypeOK
<1>1. ClientInv => ClientTypeOK
  BY DEF ClientInv
<1> QED
  BY <1>1, ClientInitially, ClientStep, PTL DEF ClientSpec

LEMMA RefusedAreSpoilt ==
  ClientInv => \A c \in ApiCalls : Refuse(c) => apiCall[c].session \in spoilt \cup ended
<1> SUFFICES ASSUME ClientInv, NEW c \in ApiCalls, Refuse(c) PROVE apiCall[c].session \in spoilt \cup ended
  OBVIOUS
<1>1. apiCall[c].session \in Sessions
  BY ClientTypes, SessionsAre DEF ClientInv, CallsHaveSessions, Calls, Refuse
<1> QED
  BY <1>1 DEF ClientInv, CallsHaveNewest, Refuse, Good

\* The service refuses to renew a session's tokens only when the clients had
\* spoilt them (used twice, lost or overwritten by older ones) or when it had ended
\* the session itself: another login of the user in this browser, among others.
THEOREM RefusalsAreExplained ==
  ClientSpec => RefusedOnlyIfSpoilt
<1> QED
  BY ClientInitially, ClientStep, RefusedAreSpoilt, PTL DEF ClientSpec, RefusedOnlyIfSpoilt

LEMMA OnlyLoginOrLoad ==
  ClientInv /\ [ClientNext]_clientVars =>
    [\A t \in Tabs : store[t] = SignedOut /\ store'[t] # SignedOut =>
          \/ \E c \in ApiCalls : apiCall[c].login # "none" /\ apiCall[c].tab = t
          \/ store'[t] = persisted]_clientVars
<1> SUFFICES ASSUME ClientInv, ClientNext, NEW t \in Tabs, store[t] = SignedOut, store'[t] # SignedOut
             PROVE  \/ \E c \in ApiCalls : apiCall[c].login # "none" /\ apiCall[c].tab = t
                    \/ store'[t] = persisted
  OBVIOUS
<1>0. store \in [Tabs -> Slices] /\ \A c \in ApiCalls : apiCall[c].tab \in Tabs
  BY ClientTypes DEF Calls
<1>1. CASE \E c \in ApiCalls : LoggedIn(c)
  <2> PICK c \in ApiCalls : LoggedIn(c)
    BY <1>1
  <2>1. apiCall[c].login # "none" /\ \E x : store' = [store EXCEPT ![apiCall[c].tab] = x]
    BY DEF LoggedIn, Dispatch
  <2> QED
    BY <1>0, <2>1
<1>2. CASE \E x \in Tabs, p \in {"login", "dashboard"} : Load(x, p)
  BY <1>0, <1>2 DEF Load
<1>3. CASE \E c \in ApiCalls : Refreshed(c)
  <2> PICK c \in ApiCalls : Refreshed(c)
    BY <1>3
  <2>1. store' = store \/ (store[apiCall[c].tab] # SignedOut /\ \E x : store' = [store EXCEPT ![apiCall[c].tab] = x])
    BY DEF Refreshed, Dispatch
  <2> QED
    BY <1>0, <2>1
<1>4. CASE store' = store \/ \E x \in Tabs : store' = [store EXCEPT ![x] = SignedOut]
  BY <1>0, <1>4
<1>5. ASSUME NEW c \in ApiCalls, Leave(c) PROVE \E x \in Tabs : store' = [store EXCEPT ![x] = SignedOut]
  BY <1>0, <1>5 DEF Leave, Dispatch
<1>6. ASSUME NEW c \in ApiCalls,
             \/ \E x \in Tabs, u \in Users \cup {"none"} : Request(c, x, u)
             \/ Succeed(c) \/ Unauthorized(c) \/ Renew(c) \/ Refuse(c) \/ AnswerLost(c) \/ RetryFails(c)
      PROVE  store' = store \/ \E x \in Tabs : store' = [store EXCEPT ![x] = SignedOut]
  BY <1>5, <1>6 DEF Request, Succeed, Unauthorized, Renew, Refuse, AnswerLost, RetryFails, tabVars
<1>7. ASSUME \/ \E x \in Tabs : Save(x) \/ SignOut(x) \/ Redirect(x)
             \/ \E s \in Sessions : EndSession(s)
      PROVE  store' = store \/ \E x \in Tabs : store' = [store EXCEPT ![x] = SignedOut]
  BY <1>7 DEF Save, SignOut, Redirect, EndSession, tabVars, Dispatch
<1> QED
  BY <1>1, <1>2, <1>3, <1>4, <1>6, <1>7 DEF ClientNext

\* After a sign-out no late answer of a call signs the tab in again: only a login,
\* or a page load that finds another session persisted.
THEOREM SignOutIsFinal ==
  ClientSpec => SignedOutStaysOut
<1> QED
  BY ClientInitially, ClientStep, OnlyLoginOrLoad, PTL DEF ClientSpec, SignedOutStaysOut

-----------------------------------------------------------------------------
(* The storage page.                                                        *)

StorageWorks == [kind : {"none", "create", "bucket", "upload", "file", "link"},
                 bucket : Buckets \cup {"none"}, file : Files \cup {"none"}, page : Nat,
                 selected : BOOLEAN, pc : {"idle", "sent", "failed", "done", "refetch"},
                 emptied : BOOLEAN, listed : BOOLEAN]
\* A handler that waits has a bucket, and a file if it is about one.
WorkFits(w) ==
    /\ w.pc # "idle" => w.kind # "none" /\ w.bucket \in Buckets
    /\ w.pc # "idle" /\ w.kind \in {"upload", "file", "link"} => w.file \in Files
    /\ w.pc = "idle" => ~w.emptied

StoragePageFits ==
    /\ bucketPage \in Nat \ {0} /\ bucketsData \in [data : SUBSET Buckets, total : Nat]
    /\ selectedName \in Buckets \cup {"none"}
    /\ openDialog \in [kind : {"none", "create", "bucket", "file"}, bucket : Buckets \cup {"none"},
                       file : Files \cup {"none"}]
    /\ openDialog.kind \in {"bucket", "file"} => openDialog.bucket \in Buckets
    /\ openDialog.kind = "file" => /\ openDialog.file \in Files
                                   /\ selectedName \in {"none", openDialog.bucket}
    /\ filesMade \in 0..MaxMade

StorageTyped ==
    /\ existing \in Seq(Buckets) /\ rowsOf \in [Buckets \X Files -> 0..MaxVersions]
    /\ filesData \in [Buckets -> SwrKeys(SUBSET Files, PageCalls)]
    /\ work \in [PageCalls -> StorageWorks] /\ \A c \in PageCalls : WorkFits(work[c])
    /\ saidDeleted \subseteq Buckets \X Files
\* A handler's delete left its file without a row, and it has none since.
EmptiedStayEmpty ==
    \A c \in PageCalls : work[c].emptied => work[c].kind = "file" /\ rowsOf[<<work[c].bucket, work[c].file>>] = 0
\* The GET a handler waits for started after its delete.
FilesGetsAreNew ==
    \A b \in Buckets : filesData[b].by # "poll" =>
        LET w == work[filesData[b].by] IN
        /\ filesData[b].get # "none" /\ w.pc = "refetch" /\ w.bucket = b
        /\ filesData[b].get = "answered" /\ w.emptied => w.file \notin filesData[b].answer
FetchedUnlisted ==
    \A c \in PageCalls : work[c].listed =>
        /\ work[c].pc = "refetch"
        /\ work[c].emptied => work[c].file \notin Showing(filesData[work[c].bucket])
\* No row, and not on the screen.
IsGone(a) == rowsOf[a] = 0 /\ a[2] \notin Showing(filesData[a[1]])
SaidAreGone == \A a \in saidDeleted : IsGone(a)

StorageInv ==
    /\ StorageTyped /\ StoragePageFits /\ EmptiedStayEmpty /\ FilesGetsAreNew /\ FetchedUnlisted
    /\ SaidAreGone

LEMMA NoWorkIs ==
  /\ NoWork \in StorageWorks /\ WorkFits(NoWork) /\ NoWork.pc = "idle"
  /\ NoWork.emptied = FALSE /\ NoWork.listed = FALSE
BY DEF NoWork, StorageWorks, WorkFits

LEMMA NoDialogIs ==
  /\ NoDialog \in [kind : {"none", "create", "bucket", "file"}, bucket : Buckets \cup {"none"},
                   file : Files \cup {"none"}]
  /\ NoDialog.kind = "none"
BY DEF NoDialog

LEMMA StorageInitially ==
  StoragePageInit => StorageInv
<1> SUFFICES ASSUME StoragePageInit PROVE StorageInv
  OBVIOUS
<1>1. existing \in Seq(Buckets)
  <2>1. PICK B \in SUBSET Buckets : existing \in SetToSeqs(B)
    BY DEF StoragePageInit, SetToAllKPermutations
  <2>2. Cardinality(B) \in Nat
    BY PageAssumption, FS_Subset, FS_CardinalityType
  <2>3. existing \in [1..Cardinality(B) -> B]
    BY <2>1 DEF SetToSeqs
  <2> QED
    BY <2>2, <2>3
<1>2. ASSUME NEW b \in Buckets
      PROVE  /\ SwrKey({}) \in SwrKeys(SUBSET Files, PageCalls) /\ SwrKey({}).by = "poll"
  BY SwrKeyIs
<1>3. /\ filesData \in [Buckets -> SwrKeys(SUBSET Files, PageCalls)]
      /\ \A b \in Buckets : filesData[b].by = "poll"
  BY <1>2 DEF StoragePageInit
<1>4. /\ work \in [PageCalls -> StorageWorks] /\ \A c \in PageCalls : WorkFits(work[c])
      /\ \A c \in PageCalls : ~work[c].emptied /\ ~work[c].listed
  BY NoWorkIs DEF StoragePageInit
<1>5. StorageTyped
  BY <1>1, <1>3, <1>4 DEF StoragePageInit, StorageTyped
<1>6. StoragePageFits
  <2>1. bucketsData \in [data : SUBSET Buckets, total : Nat]
    BY DEF StoragePageInit, NoBuckets
  <2>2. filesMade \in 0..MaxMade
    BY PageAssumption DEF StoragePageInit
  <2> QED
    BY <2>1, <2>2, NoDialogIs DEF StoragePageInit, StoragePageFits
<1> QED
  BY <1>3, <1>4, <1>5, <1>6 DEF StoragePageInit, StorageInv, EmptiedStayEmpty, FilesGetsAreNew,
     FetchedUnlisted, SaidAreGone

LEMMA StorageTypes ==
  ASSUME StorageInv
  PROVE  /\ existing \in Seq(Buckets) /\ rowsOf \in [Buckets \X Files -> 0..MaxVersions]
         /\ filesData \in [Buckets -> SwrKeys(SUBSET Files, PageCalls)]
         /\ \A b \in Buckets : filesData[b] \in SwrKeys(SUBSET Files, PageCalls)
         /\ \A b \in Buckets : filesData[b].by \in PageCalls \cup {"poll"}
         /\ work \in [PageCalls -> StorageWorks]
         /\ \A c \in PageCalls : work[c] \in StorageWorks /\ WorkFits(work[c])
         /\ saidDeleted \subseteq Buckets \X Files
<1>1. \A b \in Buckets : filesData[b] \in SwrKeys(SUBSET Files, PageCalls)
  BY DEF StorageInv, StorageTyped
<1>2. \A b \in Buckets : filesData[b].by \in PageCalls \cup {"poll"}
  BY <1>1 DEF SwrKeys
<1> QED
  BY <1>1, <1>2 DEF StorageInv, StorageTyped

\* What is selected.
LEMMA SelectedIs ==
  ASSUME StorageInv, Selected # "none"
  PROVE  Selected \in Buckets /\ Selected = selectedName
BY DEF StorageInv, StoragePageFits, Selected

\* A step of the page alone.
LEMMA StoragePageStep ==
  ASSUME StorageInv, UNCHANGED <<existing, rowsOf, filesData, work, saidDeleted>>, StoragePageFits'
  PROVE  StorageInv'
BY DEF StorageInv, StorageTyped, EmptiedStayEmpty, FilesGetsAreNew, FetchedUnlisted, SaidAreGone, IsGone

\* A step of a handler, which SWR's cache and the service do not see.
LEMMA StorageWorkStep ==
  ASSUME StorageInv, NEW c \in PageCalls, NEW w \in StorageWorks, WorkFits(w),
         UNCHANGED <<existing, rowsOf, filesData>>, StoragePageFits',
         work' = [work EXCEPT ![c] = w], w.pc # "refetch", ~w.listed,
         w.emptied => w.kind = "file" /\ rowsOf[<<w.bucket, w.file>>] = 0,
         \A b \in Buckets : filesData[b].by # c,
         saidDeleted' \subseteq Buckets \X Files, \A a \in saidDeleted' : IsGone(a)
  PROVE  StorageInv'
<1>1. /\ work' \in [PageCalls -> StorageWorks]
      /\ work'[c] = w /\ \A d \in PageCalls \ {c} : work'[d] = work[d]
  BY StorageTypes
<1>2. StorageTyped'
  BY <1>1, StorageTypes DEF StorageTyped
<1>3. EmptiedStayEmpty'
  BY <1>1 DEF StorageInv, EmptiedStayEmpty
<1>4. FilesGetsAreNew'
  <2>1. \A b \in Buckets : filesData[b].by # "poll" => work'[filesData[b].by] = work[filesData[b].by]
    BY <1>1, StorageTypes
  <2> QED
    BY <2>1 DEF StorageInv, FilesGetsAreNew
<1>5. FetchedUnlisted'
  BY <1>1 DEF StorageInv, FetchedUnlisted
<1>6. SaidAreGone'
  BY DEF SaidAreGone, IsGone
<1> QED
  BY <1>2, <1>3, <1>4, <1>5, <1>6 DEF StorageInv

\* The service: a change of one file's rows, or of the buckets.
LEMMA ServiceStep ==
  ASSUME StorageInv, UNCHANGED filesData, StoragePageFits', existing' \in Seq(Buckets),
         rowsOf' \in [Buckets \X Files -> 0..MaxVersions],
         work' \in [PageCalls -> StorageWorks],
         \A c \in PageCalls : WorkFits(work'[c]),
         \A c \in PageCalls : \/ /\ work'[c].pc = work[c].pc
                                 /\ work'[c].kind = work[c].kind /\ work'[c].bucket = work[c].bucket
                                 /\ work'[c].file = work[c].file /\ work'[c].listed = work[c].listed
                                 /\ work'[c].emptied => work[c].emptied
                              \/ /\ work[c].pc = "sent" /\ work'[c].listed = work[c].listed
                                 /\ work'[c].emptied =>
                                       work'[c].kind = "file" /\ rowsOf'[<<work'[c].bucket, work'[c].file>>] = 0,
         saidDeleted' \subseteq saidDeleted,
         \A a \in Buckets \X Files : rowsOf[a] = 0 /\ rowsOf'[a] # 0 =>
             /\ a \notin saidDeleted'
             /\ \A c \in PageCalls : work[c].pc # "idle" /\ <<work[c].bucket, work[c].file>> = a => ~work'[c].emptied
  PROVE  StorageInv'
<1>1. StorageTyped'
  BY StorageTypes DEF StorageTyped
<1>2. EmptiedStayEmpty'
  <2> SUFFICES ASSUME NEW c \in PageCalls, work'[c].emptied
               PROVE  work'[c].kind = "file" /\ rowsOf'[<<work'[c].bucket, work'[c].file>>] = 0
    BY DEF EmptiedStayEmpty
  <2>1. CASE work'[c].kind = work[c].kind /\ work'[c].bucket = work[c].bucket
             /\ work'[c].file = work[c].file /\ work[c].emptied
    <3>1. work[c].kind = "file" /\ rowsOf[<<work[c].bucket, work[c].file>>] = 0 /\ work[c].pc # "idle"
      BY <2>1, StorageTypes DEF StorageInv, EmptiedStayEmpty, WorkFits
    <3>2. <<work[c].bucket, work[c].file>> \in Buckets \X Files
      BY <3>1, StorageTypes DEF WorkFits
    <3> QED
      BY <2>1, <3>1, <3>2
  <2> QED
    BY <2>1
<1>3. FilesGetsAreNew'
  <2> SUFFICES ASSUME NEW b \in Buckets, filesData[b].by # "poll"
               PROVE  /\ filesData[b].get # "none" /\ work'[filesData[b].by].pc = "refetch"
                      /\ work'[filesData[b].by].bucket = b
                      /\ filesData[b].get = "answered" /\ work'[filesData[b].by].emptied =>
                            work'[filesData[b].by].file \notin filesData[b].answer
    BY DEF FilesGetsAreNew
  <2>1. filesData[b].by \in PageCalls
    BY StorageTypes
  <2> QED
    BY <2>1 DEF StorageInv, FilesGetsAreNew
<1>4. FetchedUnlisted'
  BY DEF StorageInv, FetchedUnlisted
<1>5. SaidAreGone'
  BY StorageTypes DEF StorageInv, SaidAreGone, IsGone
<1> QED
  BY <1>1, <1>2, <1>3, <1>4, <1>5 DEF StorageInv

\* SWR's cache of one bucket's files, no handler having changed.
LEMMA FilesStep ==
  ASSUME StorageInv, NEW b \in Buckets, NEW k \in SwrKeys(SUBSET Files, PageCalls),
         filesData' = [filesData EXCEPT ![b] = k],
         Showing(k) \subseteq Showing(filesData[b]) \cup Listed(b),
         k.by # "poll" => /\ k.by = filesData[b].by /\ k.get # "none"
                          /\ k.get = "answered" => k.answer = Listed(b),
         UNCHANGED <<existing, rowsOf, work, saidDeleted>>, StoragePageFits'
  PROVE  StorageInv'
<1>1. /\ filesData' \in [Buckets -> SwrKeys(SUBSET Files, PageCalls)]
      /\ filesData'[b] = k /\ \A x \in Buckets \ {b} : filesData'[x] = filesData[x]
  BY StorageTypes
<1>2. StorageTyped' /\ EmptiedStayEmpty'
  BY <1>1, StorageTypes DEF StorageInv, StorageTyped, EmptiedStayEmpty
<1>3. \A f \in Files : rowsOf[<<b, f>>] = 0 => f \notin Listed(b)
  BY StorageTypes DEF Listed
<1>4. ASSUME NEW c \in PageCalls, work[c].emptied, work[c].bucket = b
      PROVE  work[c].file \notin Listed(b)
  <2>1. work[c].file \in Files /\ rowsOf[<<b, work[c].file>>] = 0
    BY <1>4, StorageTypes DEF StorageInv, EmptiedStayEmpty, WorkFits
  <2> QED
    BY <1>3, <2>1
<1>5. FilesGetsAreNew'
  <2>1. ASSUME k.by # "poll"
        PROVE  /\ k.get # "none" /\ work[k.by].pc = "refetch" /\ work[k.by].bucket = b
               /\ k.get = "answered" /\ work[k.by].emptied => work[k.by].file \notin k.answer
    <3>1. k.by \in PageCalls /\ work[k.by].pc = "refetch" /\ work[k.by].bucket = b
      BY <2>1, StorageTypes DEF StorageInv, FilesGetsAreNew
    <3> QED
      BY <1>4, <2>1, <3>1
  <2> QED
    BY <1>1, <2>1 DEF StorageInv, FilesGetsAreNew
<1>6. FetchedUnlisted'
  <2> SUFFICES ASSUME NEW c \in PageCalls, work[c].listed
               PROVE  /\ work[c].pc = "refetch"
                      /\ work[c].emptied => work[c].file \notin Showing(filesData'[work[c].bucket])
    BY DEF FetchedUnlisted
  <2>1. /\ work[c].pc = "refetch" /\ work[c].bucket \in Buckets
        /\ work[c].emptied => work[c].file \notin Showing(filesData[work[c].bucket])
    BY StorageTypes DEF StorageInv, FetchedUnlisted, WorkFits
  <2> QED
    BY <1>1, <1>4, <2>1
<1>7. SaidAreGone'
  <2> SUFFICES ASSUME NEW a \in saidDeleted PROVE rowsOf[a] = 0 /\ a[2] \notin Showing(filesData'[a[1]])
    BY DEF SaidAreGone, IsGone
  <2>1. a \in Buckets \X Files /\ rowsOf[a] = 0 /\ a[2] \notin Showing(filesData[a[1]])
    BY StorageTypes DEF StorageInv, SaidAreGone, IsGone
  <2>2. a[1] \in Buckets /\ a[2] \in Files /\ a = <<a[1], a[2]>>
    BY <2>1
  <2>3. a[1] = b => a[2] \notin Listed(b)
    BY <1>3, <2>1, <2>2
  <2> QED
    BY <1>1, <2>1, <2>2, <2>3
<1> QED
  BY <1>2, <1>5, <1>6, <1>7 DEF StorageInv

LEMMA BucketsArriveStep ==
  ASSUME StorageInv, BucketsArrive PROVE StorageInv'
<1>1. /\ [total |-> Len(existing),
          data |-> {existing[i] : i \in {j \in DOMAIN existing : (j - 1) \div PageSize = bucketPage - 1}}]
            \in [data : SUBSET Buckets, total : Nat]
  BY StorageTypes
<1>2. StoragePageFits'
  BY <1>1 DEF BucketsArrive, BucketsOn, StorageInv, StoragePageFits
<1> QED
  BY <1>2, StoragePageStep DEF BucketsArrive, storageServerVars

LEMMA PageSteps ==
  ASSUME StorageInv,
         \/ \E step \in {-1, 1} : TurnPage(step)
         \/ \E b \in Buckets : SelectBucket(b)
         \/ OpenCreate \/ AskDeleteBucket \/ CancelCreate \/ CancelDelete
         \/ \E f \in Files : AskDeleteFile(f)
         \/ UNCHANGED storageVars
  PROVE  StorageInv'
<1>0. UNCHANGED <<existing, rowsOf, filesData, work, saidDeleted>>
  BY DEF TurnPage, SelectBucket, OpenCreate, AskDeleteBucket, CancelCreate, CancelDelete, AskDeleteFile,
     Open, Cancel, SetPage, storageVars, storageServerVars, storagePageVars
<1> SUFFICES StoragePageFits'
  BY <1>0, StoragePageStep
<1> USE DEF StorageInv
<1>1. ASSUME NEW step \in {-1, 1}, TurnPage(step) PROVE StoragePageFits'
  <2>1. BucketTotalPages \in Int
    <3>1. (bucketsData.total + PageSize - 1) \div PageSize \in Int
      BY PageAssumption DEF StoragePageFits
    <3> QED
      BY <3>1 DEF BucketTotalPages
  <2>2. bucketPage' \in Nat \ {0}
    BY <1>1, <2>1 DEF TurnPage
  <2>3. NoBuckets \in [data : SUBSET Buckets, total : Nat]
    BY DEF NoBuckets
  <2> QED
    BY <1>1, <2>2, <2>3 DEF TurnPage, StoragePageFits
<1>2. ASSUME NEW b \in Buckets, SelectBucket(b) PROVE StoragePageFits'
  BY <1>2, NoDialogIs DEF SelectBucket, Behind, StoragePageFits
<1>3. CASE OpenCreate
  BY <1>3 DEF OpenCreate, Open, SetPage, StoragePageFits
<1>4. CASE AskDeleteBucket
  BY <1>4, SelectedIs DEF AskDeleteBucket, Open, SetPage, StoragePageFits
<1>5. CASE CancelCreate \/ CancelDelete
  BY <1>5, NoDialogIs DEF CancelCreate, CancelDelete, Cancel, SetPage, StoragePageFits
<1>6. ASSUME NEW f \in Files, AskDeleteFile(f) PROVE StoragePageFits'
  BY <1>6, SelectedIs DEF AskDeleteFile, Open, SetPage, StoragePageFits
<1>7. CASE UNCHANGED storageVars
  BY <1>7 DEF storageVars, storagePageVars, StoragePageFits
<1> QED
  BY <1>1, <1>2, <1>3, <1>4, <1>5, <1>6, <1>7

\* A handler starts.
LEMMA Starts ==
  ASSUME StorageInv, NEW c \in PageCalls, NEW kind \in {"create", "bucket", "upload", "file", "link"},
         NEW b \in Buckets, NEW f \in Files \cup {"none"},
         kind \in {"upload", "file", "link"} => f \in Files,
         Start(c, kind, b, f), SetPage(openDialog) \/ SetPage(NoDialog)
  PROVE  StorageInv'
<1> DEFINE w == [NoWork EXCEPT !.kind = kind, !.bucket = b, !.file = f, !.page = bucketPage,
                               !.selected = (kind = "bucket" /\ selectedName = b), !.pc = "sent"]
<1>0. /\ work[c].pc = "idle" /\ filesMade < MaxMade /\ filesMade' = filesMade + 1
      /\ work' = [work EXCEPT ![c] = w]
      /\ UNCHANGED <<existing, rowsOf, bucketPage, bucketsData, filesData, selectedName, saidDeleted>>
      /\ openDialog' = openDialog \/ openDialog' = NoDialog
  BY DEF Start, SetPage, storageServerVars
<1>1. bucketPage \in Nat /\ filesMade \in 0..MaxMade
  BY DEF StorageInv, StoragePageFits
<1>2. ASSUME NEW x \in BOOLEAN
      PROVE  LET v == [NoWork EXCEPT !.kind = kind, !.bucket = b, !.file = f, !.page = bucketPage,
                                     !.selected = x, !.pc = "sent"]
             IN  /\ v \in StorageWorks /\ v.pc = "sent" /\ v.kind = kind /\ v.bucket = b /\ v.file = f
                 /\ v.emptied = FALSE /\ v.listed = FALSE
  BY <1>1, NoWorkIs DEF NoWork, StorageWorks
<1>3. /\ w \in StorageWorks /\ w.pc = "sent" /\ w.kind = kind /\ w.bucket = b /\ w.file = f
      /\ w.emptied = FALSE /\ w.listed = FALSE
  BY <1>2
<1> HIDE DEF w
<1>4. WorkFits(w)
  BY <1>3 DEF WorkFits
<1>5. \A x \in Buckets : filesData[x].by # c
  BY <1>0, PageAssumption DEF StorageInv, FilesGetsAreNew
<1>6. filesMade' \in 0..MaxMade
  BY <1>0, <1>1, PageAssumption
<1>7. StoragePageFits'
  BY <1>0, <1>6, NoDialogIs DEF StorageInv, StoragePageFits
<1>8. saidDeleted' \subseteq Buckets \X Files /\ \A a \in saidDeleted' : IsGone(a)
  BY <1>0, StorageTypes DEF StorageInv, SaidAreGone
<1> QED
  BY <1>0, <1>3, <1>4, <1>5, <1>7, <1>8, StorageWorkStep

LEMMA StartSteps ==
  ASSUME StorageInv, NEW c \in PageCalls,
         \/ \E b \in Buckets : handleCreateBucket(c, b)
         \/ \E f \in Files : handleUpload(c, f) \/ AskForLink(c, f)
         \/ confirmDeleteBucket(c) \/ confirmDeleteFile(c)
  PROVE  StorageInv'
<1>0. /\ openDialog.kind \in {"bucket", "file"} => openDialog.bucket \in Buckets
      /\ openDialog.kind = "file" => openDialog.file \in Files
  BY DEF StorageInv, StoragePageFits
<1>1. ASSUME NEW b \in Buckets, handleCreateBucket(c, b) PROVE StorageInv'
  BY <1>1, Starts DEF handleCreateBucket
<1>2. ASSUME NEW f \in Files, handleUpload(c, f) \/ AskForLink(c, f) PROVE StorageInv'
  <2>1. Selected \in Buckets
    BY <1>2, SelectedIs DEF handleUpload, AskForLink
  <2> QED
    BY <1>2, <2>1, Starts DEF handleUpload, AskForLink
<1>3. CASE confirmDeleteBucket(c)
  BY <1>0, <1>3, Starts DEF confirmDeleteBucket
<1>4. CASE confirmDeleteFile(c)
  <2>1. CASE Selected # "none"
    BY <1>0, <1>4, <2>1, SelectedIs, Starts DEF confirmDeleteFile
  <2>2. CASE Selected = "none"
    <3>1. UNCHANGED <<existing, rowsOf, filesData, work, saidDeleted>>
      BY <1>4, <2>2 DEF confirmDeleteFile, SetPage, storageServerVars
    <3>2. StoragePageFits'
      BY <1>4, <2>2, NoDialogIs DEF confirmDeleteFile, SetPage, StorageInv, StoragePageFits
    <3> QED
      BY <3>1, <3>2, StoragePageStep
  <2> QED
    BY <2>1, <2>2
<1> QED
  BY <1>1, <1>2, <1>3, <1>4

LEMMA ServeNotStep ==
  ASSUME StorageInv, NEW c \in PageCalls, ServeNot(c)
  PROVE  StorageInv'
<1> DEFINE w == [work[c] EXCEPT !.pc = "failed"]
<1>0. /\ work[c].pc = "sent" /\ work' = [work EXCEPT ![c] = w] /\ work[c] \in StorageWorks
      /\ WorkFits(work[c])
      /\ UNCHANGED <<existing, rowsOf, bucketPage, bucketsData, filesData, selectedName, openDialog,
                     filesMade, saidDeleted>>
  BY StorageTypes DEF ServeNot, storageServerVars, storagePageVars
<1>1. /\ w \in StorageWorks /\ w.pc = "failed" /\ w.kind = work[c].kind /\ w.bucket = work[c].bucket
      /\ w.file = work[c].file /\ w.emptied = work[c].emptied /\ w.listed = work[c].listed
  BY <1>0 DEF StorageWorks
<1> HIDE DEF w
<1>2. WorkFits(w) /\ ~w.listed
  BY <1>0, <1>1 DEF WorkFits, StorageInv, FetchedUnlisted
<1>3. w.emptied => w.kind = "file" /\ rowsOf[<<w.bucket, w.file>>] = 0
  BY <1>1 DEF StorageInv, EmptiedStayEmpty
<1>4. \A b \in Buckets : filesData[b].by # c
  BY <1>0, PageAssumption DEF StorageInv, FilesGetsAreNew
<1>5. StoragePageFits'
  BY <1>0 DEF StorageInv, StoragePageFits
<1>6. saidDeleted' \subseteq Buckets \X Files /\ \A a \in saidDeleted' : IsGone(a)
  BY <1>0, StorageTypes DEF StorageInv, SaidAreGone
<1> QED
  BY <1>0, <1>1, <1>2, <1>3, <1>4, <1>5, <1>6, StorageWorkStep

LEMMA HandlerEndsStep ==
  ASSUME StorageInv, NEW c \in PageCalls, HandlerEnds(c)
  PROVE  StorageInv'
<1>0. /\ work' = [work EXCEPT ![c] = NoWork] /\ work[c] \in StorageWorks /\ WorkFits(work[c])
      /\ UNCHANGED <<existing, rowsOf, bucketPage, bucketsData, filesData, selectedName, filesMade>>
      /\ openDialog' = openDialog \/ openDialog' = NoDialog
      /\ saidDeleted' = IF work[c].pc = "refetch" /\ work[c].emptied /\ work[c].listed
                        THEN saidDeleted \cup {<<work[c].bucket, work[c].file>>} ELSE saidDeleted
  BY StorageTypes DEF HandlerEnds, storageServerVars
<1>1. \A b \in Buckets : filesData[b].by # c
  BY PageAssumption DEF StorageInv, FilesGetsAreNew, HandlerEnds
<1>2. StoragePageFits'
  BY <1>0, NoDialogIs DEF StorageInv, StoragePageFits
<1>3. ASSUME work[c].pc = "refetch", work[c].emptied, work[c].listed
      PROVE  /\ <<work[c].bucket, work[c].file>> \in Buckets \X Files
             /\ IsGone(<<work[c].bucket, work[c].file>>)
  BY <1>0, <1>3 DEF StorageInv, EmptiedStayEmpty, FetchedUnlisted, IsGone, WorkFits
<1>4. saidDeleted' \subseteq Buckets \X Files /\ \A a \in saidDeleted' : IsGone(a)
  BY <1>0, <1>3, StorageTypes DEF StorageInv, SaidAreGone
<1> QED
  BY <1>0, <1>1, <1>2, <1>4, NoWorkIs, StorageWorkStep

\* What the service does, for a handler or for others: ws is the handlers
\* before an upload takes their word back.
LEMMA EffectStep ==
  ASSUME StorageInv, NEW kind \in {"create", "bucket", "upload", "file", "link"}, NEW b \in Buckets, NEW f,
         kind \in {"upload", "file"} => f \in Files,
         NEW ws \in [PageCalls -> StorageWorks],
         \A c \in PageCalls : WorkFits(ws[c]),
         \A c \in PageCalls :
            \/ ws[c] = work[c]
            \/ /\ work[c].pc = "sent" /\ ws[c].pc # "idle" /\ ws[c].listed = work[c].listed
               /\ ws[c].kind = kind /\ ws[c].bucket = b /\ ws[c].file = f
               /\ ws[c].bucket = work[c].bucket /\ ws[c].file = work[c].file
               /\ ws[c].emptied => kind = "file" /\ rowsOf[<<b, f>>] = 1,
         Possible(kind, b, f), Effect(kind, b, f, ws),
         UNCHANGED filesData, StoragePageFits'
  PROVE  StorageInv'
<1>1. existing' \in Seq(Buckets)
  <2>1. CASE kind = "create"
    BY <2>1, StorageTypes DEF Effect
  <2>2. CASE kind = "bucket"
    <3>1. BucketAt(b) \in DOMAIN existing
      BY <2>2 DEF Possible, Range, BucketAt
    <3> QED
      BY <2>2, <3>1, Removed, StorageTypes DEF Effect
  <2>3. CASE kind \notin {"create", "bucket"}
    BY <2>3, StorageTypes DEF Effect
  <2> QED
    BY <2>1, <2>2, <2>3
<1>2. /\ rowsOf' \in [Buckets \X Files -> 0..MaxVersions]
      /\ \A a \in Buckets \X Files : (rowsOf[a] = 0 /\ rowsOf'[a] # 0) => (kind = "upload" /\ a = <<b, f>>)
      /\ kind = "file" /\ rowsOf[<<b, f>>] = 1 => rowsOf'[<<b, f>>] = 0
  <2>1. CASE kind = "upload"
    <3>1. <<b, f>> \in Buckets \X Files /\ rowsOf[<<b, f>>] \in 0..MaxVersions /\ rowsOf[<<b, f>>] < MaxVersions
      BY <2>1, StorageTypes DEF Possible
    <3>2. rowsOf[<<b, f>>] + 1 \in 0..MaxVersions
      BY <3>1, PageAssumption
    <3> QED
      BY <2>1, <3>1, <3>2, StorageTypes DEF Effect
  <2>2. CASE kind = "file"
    <3>1. <<b, f>> \in Buckets \X Files /\ rowsOf[<<b, f>>] \in 0..MaxVersions /\ rowsOf[<<b, f>>] > 0
      BY <2>2, StorageTypes DEF Possible
    <3>2. rowsOf[<<b, f>>] - 1 \in 0..MaxVersions
      BY <3>1, PageAssumption
    <3>4. /\ rowsOf' \in [Buckets \X Files -> 0..MaxVersions] /\ rowsOf'[<<b, f>>] = rowsOf[<<b, f>>] - 1
          /\ \A a \in Buckets \X Files : a # <<b, f>> => rowsOf'[a] = rowsOf[a]
      BY <2>2, <3>1, <3>2, StorageTypes DEF Effect
    <3>5. rowsOf[<<b, f>>] = 1 => rowsOf'[<<b, f>>] = 0
      BY <3>4
    <3> QED
      BY <2>2, <3>1, <3>4, <3>5
  <2>3. CASE kind \notin {"upload", "file"}
    BY <2>3, StorageTypes DEF Effect
  <2> QED
    BY <2>1, <2>2, <2>3
<1>3. ASSUME NEW c \in PageCalls
      PROVE  LET v == [ws[c] EXCEPT !.emptied = FALSE] IN
             /\ v \in StorageWorks /\ v.pc = ws[c].pc /\ v.kind = ws[c].kind /\ v.bucket = ws[c].bucket
             /\ v.file = ws[c].file /\ v.listed = ws[c].listed /\ v.emptied = FALSE
  <2>1. ws[c] \in StorageWorks
    OBVIOUS
  <2> QED
    BY <2>1 DEF StorageWorks
<1>4. ASSUME NEW c \in PageCalls
      PROVE  /\ work'[c] \in StorageWorks /\ work'[c].pc = ws[c].pc /\ work'[c].kind = ws[c].kind
             /\ work'[c].bucket = ws[c].bucket /\ work'[c].file = ws[c].file /\ work'[c].listed = ws[c].listed
             /\ work'[c].emptied => ws[c].emptied
             /\ kind = "upload" /\ ws[c].bucket = b /\ ws[c].file = f => work'[c].emptied = FALSE
  BY <1>3 DEF Effect
<1>5. work' \in [PageCalls -> StorageWorks]
  <2>1. work' = [c \in PageCalls |-> work'[c]]
    BY DEF Effect
  <2> QED
    BY <1>4, <2>1
<1>6. \A c \in PageCalls : WorkFits(work'[c])
  <2> SUFFICES ASSUME NEW c \in PageCalls PROVE WorkFits(work'[c])
    OBVIOUS
  <2>1. WorkFits(ws[c])
    OBVIOUS
  <2>2. /\ work'[c].pc = ws[c].pc /\ work'[c].kind = ws[c].kind
        /\ work'[c].bucket = ws[c].bucket /\ work'[c].file = ws[c].file
        /\ work'[c].emptied => ws[c].emptied
    BY <1>4
  <2> QED
    BY <2>1, <2>2 DEF WorkFits
<1>7. ASSUME NEW c \in PageCalls
      PROVE  \/ /\ work'[c].pc = work[c].pc
                /\ work'[c].kind = work[c].kind /\ work'[c].bucket = work[c].bucket
                /\ work'[c].file = work[c].file /\ work'[c].listed = work[c].listed
                /\ work'[c].emptied => work[c].emptied
             \/ /\ work[c].pc = "sent" /\ work'[c].listed = work[c].listed
                /\ work'[c].emptied =>
                      work'[c].kind = "file" /\ rowsOf'[<<work'[c].bucket, work'[c].file>>] = 0
  <2>1. CASE ws[c] = work[c]
    <3>1. /\ work'[c].pc = ws[c].pc /\ work'[c].kind = ws[c].kind /\ work'[c].bucket = ws[c].bucket
          /\ work'[c].file = ws[c].file /\ work'[c].listed = ws[c].listed
      BY <1>4
    <3>2. work'[c].emptied => ws[c].emptied
      BY <1>4
    <3> QED
      BY <2>1, <3>1, <3>2
  <2>2. CASE /\ work[c].pc = "sent" /\ ws[c].listed = work[c].listed
             /\ ws[c].kind = kind /\ ws[c].bucket = b /\ ws[c].file = f
             /\ ws[c].emptied => kind = "file" /\ rowsOf[<<b, f>>] = 1
    BY <1>2, <1>4, <2>2
  <2> QED
    BY <2>1, <2>2
<1>8. saidDeleted' \subseteq saidDeleted /\ (kind = "upload" => <<b, f>> \notin saidDeleted')
  BY DEF Effect
<1>9. ASSUME NEW a \in Buckets \X Files, rowsOf[a] = 0, rowsOf'[a] # 0
      PROVE  /\ a \notin saidDeleted'
             /\ \A c \in PageCalls : work[c].pc # "idle" /\ <<work[c].bucket, work[c].file>> = a => ~work'[c].emptied
  <2>1. kind = "upload" /\ a = <<b, f>>
    BY <1>2, <1>9
  <2>2. ASSUME NEW c \in PageCalls, <<work[c].bucket, work[c].file>> = a PROVE ~work'[c].emptied
    <3>1. work[c].bucket = b /\ work[c].file = f
      BY <2>1, <2>2
    <3>2. ws[c].bucket = b /\ ws[c].file = f
      BY <3>1
    <3> QED
      BY <1>4, <2>1, <3>2
  <2> QED
    BY <1>8, <2>1, <2>2
<1> QED
  BY <1>1, <1>2, <1>5, <1>6, <1>7, <1>8, <1>9, ServiceStep

LEMMA ElsewhereStep ==
  ASSUME StorageInv, NEW b \in Buckets, NEW f \in Files, NEW kind \in {"create", "bucket", "upload", "file"},
         Elsewhere(kind, b, f)
  PROVE  StorageInv'
<1>1. filesMade' \in 0..MaxMade
  BY PageAssumption DEF Elsewhere, StorageInv, StoragePageFits
<1>2. StoragePageFits' /\ UNCHANGED filesData
  BY <1>1 DEF Elsewhere, storagePageVars, StorageInv, StoragePageFits
<1> QED
  BY <1>2, StorageTypes, EffectStep DEF Elsewhere

LEMMA ServeStep ==
  ASSUME StorageInv, NEW c \in PageCalls, NEW heard \in BOOLEAN, Serve(c, heard)
  PROVE  StorageInv'
<1> DEFINE b == work[c].bucket
           f == work[c].file
           kind == work[c].kind
           pc == IF heard THEN "done" ELSE "failed"
           emptied == (kind = "file" /\ rowsOf[<<b, f>>] = 1)
           w == [work[c] EXCEPT !.pc = pc, !.emptied = emptied]
           ws == [work EXCEPT ![c] = w]
<1>0. /\ work[c].pc = "sent" /\ Possible(kind, b, f) /\ work[c] \in StorageWorks /\ WorkFits(work[c])
      /\ work \in [PageCalls -> StorageWorks]
      /\ Effect(kind, b, f, [work EXCEPT ![c].pc = pc, ![c].emptied = emptied])
      /\ UNCHANGED <<bucketPage, bucketsData, filesData, selectedName, openDialog, filesMade>>
  BY StorageTypes DEF Serve, storagePageVars
<1>1. /\ b \in Buckets /\ kind \in {"create", "bucket", "upload", "file", "link"}
      /\ kind \in {"upload", "file", "link"} => f \in Files
  BY <1>0 DEF WorkFits, StorageWorks
<1>2. [work EXCEPT ![c].pc = pc, ![c].emptied = emptied] = ws
  BY <1>0
<1>3. ASSUME NEW x \in BOOLEAN, NEW y \in {"done", "failed"}
      PROVE  LET v == [work[c] EXCEPT !.pc = y, !.emptied = x] IN
             /\ v \in StorageWorks /\ v.pc = y /\ v.kind = kind /\ v.bucket = b /\ v.file = f
             /\ v.listed = work[c].listed /\ v.emptied = x
  BY <1>0 DEF StorageWorks
<1>4. /\ w \in StorageWorks /\ w.pc \in {"done", "failed"} /\ w.kind = kind /\ w.bucket = b /\ w.file = f
      /\ w.listed = work[c].listed /\ w.emptied = emptied
  <2>1. emptied \in BOOLEAN /\ pc \in {"done", "failed"}
    OBVIOUS
  <2> HIDE DEF emptied, pc
  <2> QED
    BY <1>3, <2>1
<1>5. w.emptied => kind = "file" /\ rowsOf[<<b, f>>] = 1
  BY <1>4
<1> HIDE DEF w, pc, emptied
<1>6. WorkFits(w)
  BY <1>0, <1>4 DEF WorkFits
<1>7. ws \in [PageCalls -> StorageWorks] /\ ws[c] = w /\ \A d \in PageCalls \ {c} : ws[d] = work[d]
  BY <1>0, <1>4
<1>8. Effect(kind, b, f, ws)
  BY <1>0, <1>2
<1> HIDE DEF ws, b, f, kind
<1>9. \A d \in PageCalls : WorkFits(ws[d])
  BY <1>6, <1>7, StorageTypes
<1>10. ASSUME NEW d \in PageCalls
       PROVE  \/ ws[d] = work[d]
              \/ /\ work[d].pc = "sent" /\ ws[d].pc # "idle" /\ ws[d].listed = work[d].listed
                 /\ ws[d].kind = kind /\ ws[d].bucket = b /\ ws[d].file = f
                 /\ ws[d].bucket = work[d].bucket /\ ws[d].file = work[d].file
                 /\ ws[d].emptied => kind = "file" /\ rowsOf[<<b, f>>] = 1
  BY <1>0, <1>4, <1>5, <1>7 DEF b, f
<1>11. StoragePageFits'
  BY <1>0 DEF StorageInv, StoragePageFits
<1>12. kind \in {"upload", "file"} => f \in Files
  BY <1>1 DEF kind, f
<1> QED
  BY <1>0, <1>1, <1>7, <1>8, <1>9, <1>10, <1>11, <1>12, EffectStep

\* SWR is told to ask again for a handler.
LEMMA RevalidatesStep ==
  ASSUME StorageInv, NEW c \in PageCalls, Revalidates(c)
  PROVE  StorageInv'
<1> DEFINE w == [work[c] EXCEPT !.pc = "refetch"]
           b == work[c].bucket
<1>0. /\ work[c].pc = "done" /\ work[c].kind # "link" /\ work' = [work EXCEPT ![c] = w]
      /\ work[c] \in StorageWorks /\ WorkFits(work[c]) /\ b \in Buckets
      /\ UNCHANGED <<existing, rowsOf, bucketPage, bucketsData, openDialog, filesMade, saidDeleted>>
      /\ selectedName' = selectedName \/ selectedName' = "none"
  BY StorageTypes DEF Revalidates, storageServerVars, WorkFits
<1>1. StoragePageFits'
  BY <1>0 DEF StorageInv, StoragePageFits
<1>2. /\ w \in StorageWorks /\ w.pc = "refetch" /\ w.kind = work[c].kind /\ w.bucket = b
      /\ w.file = work[c].file /\ w.emptied = work[c].emptied /\ w.listed = work[c].listed
  BY <1>0 DEF StorageWorks
<1> HIDE DEF w
<1>3. WorkFits(w) /\ ~w.listed
  BY <1>0, <1>2 DEF WorkFits, StorageInv, FetchedUnlisted
<1>4. /\ work' \in [PageCalls -> StorageWorks]
      /\ work'[c] = w /\ \A d \in PageCalls \ {c} : work'[d] = work[d]
  BY <1>0, <1>2, StorageTypes
<1>5. \/ filesData' = filesData
      \/ filesData' = [filesData EXCEPT ![b] = Revalidate(filesData[b], c)]
      \/ filesData' = [filesData EXCEPT ![b] = Forgotten(filesData[b])]
  BY DEF Revalidates
<1>6. /\ filesData' \in [Buckets -> SwrKeys(SUBSET Files, PageCalls)]
      /\ \A x \in Buckets : Showing(filesData'[x]) \subseteq Showing(filesData[x])
      /\ \A x \in Buckets : \/ filesData'[x] = filesData[x]
                            \/ filesData'[x].by = "poll"
                            \/ x = b /\ filesData'[x].by = c /\ filesData'[x].get = "asked"
  <2>1. /\ Revalidate(filesData[b], c) \in SwrKeys(SUBSET Files, PageCalls)
        /\ Revalidate(filesData[b], c).by = c /\ Revalidate(filesData[b], c).get = "asked"
        /\ Showing(Revalidate(filesData[b], c)) \subseteq Showing(filesData[b])
    <3>1. filesData[b] \in SwrKeys(SUBSET Files, PageCalls)
      BY <1>0, StorageTypes
    <3> QED
      BY <3>1, RevalidateIs
  <2>2. /\ Forgotten(filesData[b]) \in SwrKeys(SUBSET Files, PageCalls)
        /\ Forgotten(filesData[b]).by = "poll"
        /\ Showing(Forgotten(filesData[b])) \subseteq Showing(filesData[b])
    <3>1. filesData[b] \in SwrKeys(SUBSET Files, PageCalls)
      BY <1>0, StorageTypes
    <3> QED
      BY <3>1, ForgottenIs
  <2>3. CASE filesData' = filesData
    BY <2>3, StorageTypes
  <2>4. CASE filesData' = [filesData EXCEPT ![b] = Revalidate(filesData[b], c)]
    BY <1>0, <2>1, <2>4, StorageTypes
  <2>5. CASE filesData' = [filesData EXCEPT ![b] = Forgotten(filesData[b])]
    BY <1>0, <2>2, <2>5, StorageTypes
  <2> QED
    BY <1>5, <2>3, <2>4, <2>5
<1> HIDE DEF b
<1>7. \A d \in PageCalls : WorkFits(work'[d])
  BY <1>3, <1>4, StorageTypes
<1>8. StorageTyped'
  BY <1>0, <1>4, <1>6, <1>7, StorageTypes DEF StorageTyped
<1>9. EmptiedStayEmpty'
  BY <1>0, <1>2, <1>4 DEF StorageInv, EmptiedStayEmpty, b
<1>10. \A x \in Buckets : filesData[x].by # c
  BY <1>0, PageAssumption DEF StorageInv, FilesGetsAreNew
<1>11. FilesGetsAreNew'
  <2> SUFFICES ASSUME NEW x \in Buckets, filesData'[x].by # "poll"
               PROVE  /\ filesData'[x].get # "none" /\ work'[filesData'[x].by].pc = "refetch"
                      /\ work'[filesData'[x].by].bucket = x
                      /\ filesData'[x].get = "answered" /\ work'[filesData'[x].by].emptied =>
                            work'[filesData'[x].by].file \notin filesData'[x].answer
    BY DEF FilesGetsAreNew
  <2>1. CASE filesData'[x] = filesData[x]
    <3>1. work'[filesData[x].by] = work[filesData[x].by]
      BY <1>4, <1>10, <2>1, StorageTypes
    <3> QED
      BY <2>1, <3>1 DEF StorageInv, FilesGetsAreNew
  <2>2. CASE x = b /\ filesData'[x].by = c /\ filesData'[x].get = "asked"
    BY <1>2, <1>4, <2>2
  <2> QED
    BY <1>6, <2>1, <2>2
<1>12. FetchedUnlisted'
  <2> SUFFICES ASSUME NEW d \in PageCalls, work'[d].listed
               PROVE  /\ work'[d].pc = "refetch"
                      /\ work'[d].emptied => work'[d].file \notin Showing(filesData'[work'[d].bucket])
    BY DEF FetchedUnlisted
  <2>1. work'[d] = work[d] /\ work[d].pc = "refetch" /\ work[d].bucket \in Buckets
    BY <1>3, <1>4, StorageTypes DEF StorageInv, FetchedUnlisted, WorkFits
  <2> QED
    BY <1>6, <2>1 DEF StorageInv, FetchedUnlisted
<1>13. SaidAreGone'
  <2> SUFFICES ASSUME NEW a \in saidDeleted PROVE rowsOf[a] = 0 /\ a[2] \notin Showing(filesData'[a[1]])
    BY <1>0 DEF SaidAreGone, IsGone
  <2>1. a[1] \in Buckets
    BY StorageTypes
  <2> QED
    BY <1>6, <2>1 DEF StorageInv, SaidAreGone, IsGone
<1> QED
  BY <1>1, <1>8, <1>9, <1>11, <1>12, <1>13 DEF StorageInv

\* SWR's own steps.
LEMMA FilesSwr ==
  ASSUME StorageInv, PollFiles \/ \E b \in Buckets : ReadFiles(b) \/ FilesFail(b)
  PROVE  StorageInv'
<1>1. ASSUME NEW b \in Buckets, NEW k, SetFiles(b, k), UNCHANGED work
      PROVE  /\ filesData' = [filesData EXCEPT ![b] = k] /\ UNCHANGED <<existing, rowsOf, work, saidDeleted>>
             /\ StoragePageFits'
  BY <1>1 DEF SetFiles, storageServerVars, StorageInv, StoragePageFits
<1>2. CASE PollFiles
  <2> DEFINE b == Selected
             k == Revalidate(filesData[b], "poll")
  <2>1. b \in Buckets
    BY <1>2, SelectedIs DEF PollFiles
  <2>2. SetFiles(b, k) /\ UNCHANGED work
    BY <1>2 DEF PollFiles
  <2> HIDE DEF b
  <2>3. /\ k \in SwrKeys(SUBSET Files, PageCalls) /\ k.by = "poll"
        /\ Showing(k) \subseteq Showing(filesData[b]) \cup Listed(b)
    <3>1. filesData[b] \in SwrKeys(SUBSET Files, PageCalls)
      BY <2>1, StorageTypes
    <3> QED
      BY <3>1, RevalidateIs
  <2> HIDE DEF k
  <2>4. /\ filesData' = [filesData EXCEPT ![b] = k] /\ UNCHANGED <<existing, rowsOf, work, saidDeleted>>
        /\ StoragePageFits'
    BY <1>1, <2>1, <2>2
  <2> QED
    BY <2>1, <2>3, <2>4, FilesStep
<1>3. ASSUME NEW b \in Buckets, ReadFiles(b) PROVE StorageInv'
  <2> DEFINE k == Answered(filesData[b], Listed(b))
  <2>1. Listed(b) \in SUBSET Files
    BY DEF Listed
  <2>2. SetFiles(b, k) /\ UNCHANGED work
    BY <1>3 DEF ReadFiles
  <2>3. /\ k \in SwrKeys(SUBSET Files, PageCalls) /\ k.by = filesData[b].by
        /\ k.get = "answered" /\ k.answer = Listed(b)
        /\ Showing(k) \subseteq Showing(filesData[b]) \cup Listed(b)
    <3>1. filesData[b] \in SwrKeys(SUBSET Files, PageCalls)
      BY StorageTypes
    <3> QED
      BY <2>1, <3>1, AnsweredIs
  <2> HIDE DEF k
  <2>4. /\ filesData' = [filesData EXCEPT ![b] = k] /\ UNCHANGED <<existing, rowsOf, work, saidDeleted>>
        /\ StoragePageFits'
    BY <1>1, <2>2
  <2> QED
    BY <2>3, <2>4, FilesStep
<1>4. ASSUME NEW b \in Buckets, FilesFail(b) PROVE StorageInv'
  <2> DEFINE k == Forgotten(filesData[b])
  <2>2. SetFiles(b, k) /\ UNCHANGED work
    BY <1>4 DEF FilesFail
  <2>3. /\ k \in SwrKeys(SUBSET Files, PageCalls) /\ k.by = "poll"
        /\ Showing(k) \subseteq Showing(filesData[b]) \cup Listed(b)
    <3>1. filesData[b] \in SwrKeys(SUBSET Files, PageCalls)
      BY StorageTypes
    <3> QED
      BY <3>1, ForgottenIs
  <2> HIDE DEF k
  <2>4. /\ filesData' = [filesData EXCEPT ![b] = k] /\ UNCHANGED <<existing, rowsOf, work, saidDeleted>>
        /\ StoragePageFits'
    BY <1>1, <2>2
  <2> QED
    BY <2>3, <2>4, FilesStep
<1> QED
  BY <1>2, <1>3, <1>4

\* The answer, for a handler or for nobody.
LEMMA FilesArriveStep ==
  ASSUME StorageInv, NEW b \in Buckets, FilesArrive(b)
  PROVE  StorageInv'
<1> DEFINE c == filesData[b].by
           k == Arrived(filesData[b])
<1>0. /\ filesData[b].get = "answered" /\ filesData' = [filesData EXCEPT ![b] = k]
      /\ UNCHANGED <<existing, rowsOf, saidDeleted>> /\ StoragePageFits'
      /\ work' = IF c \in PageCalls THEN [work EXCEPT ![c].listed = TRUE] ELSE work
  BY DEF FilesArrive, SetFiles, storageServerVars, StorageInv, StoragePageFits
<1>1. /\ k \in SwrKeys(SUBSET Files, PageCalls) /\ k.by = "poll"
      /\ Showing(k) \subseteq Showing(filesData[b]) /\ Showing(k) = filesData[b].answer
  <2>1. filesData[b] \in SwrKeys(SUBSET Files, PageCalls)
    BY StorageTypes
  <2> QED
    BY <1>0, <2>1, ArrivedIs
<1> HIDE DEF k
<1>2. /\ filesData' \in [Buckets -> SwrKeys(SUBSET Files, PageCalls)]
      /\ filesData'[b] = k /\ \A x \in Buckets \ {b} : filesData'[x] = filesData[x]
      /\ \A x \in Buckets : Showing(filesData'[x]) \subseteq Showing(filesData[x])
  BY <1>0, <1>1, StorageTypes
<1>3. work' \in [PageCalls -> StorageWorks] /\ \A d \in PageCalls :
        /\ work'[d].pc = work[d].pc /\ work'[d].kind = work[d].kind /\ work'[d].bucket = work[d].bucket
        /\ work'[d].file = work[d].file /\ work'[d].emptied = work[d].emptied
        /\ work'[d].listed => work[d].listed \/ d = c
  <2>1. CASE c \in PageCalls
    <3> DEFINE w == [work[c] EXCEPT !.listed = TRUE]
    <3>1. work[c] \in StorageWorks /\ work' = [work EXCEPT ![c] = w]
      BY <1>0, <2>1, StorageTypes
    <3>2. /\ w \in StorageWorks /\ w.pc = work[c].pc /\ w.kind = work[c].kind /\ w.bucket = work[c].bucket
          /\ w.file = work[c].file /\ w.emptied = work[c].emptied
      BY <3>1 DEF StorageWorks
    <3> HIDE DEF w, c
    <3> QED
      BY <2>1, <3>1, <3>2, StorageTypes
  <2>2. CASE c \notin PageCalls
    BY <1>0, <2>2, StorageTypes
  <2> QED
    BY <2>1, <2>2
<1>4. StorageTyped'
  <2>1. \A d \in PageCalls : WorkFits(work'[d])
    BY <1>3, StorageTypes DEF WorkFits
  <2> QED
    BY <1>0, <1>2, <1>3, <2>1, StorageTypes DEF StorageTyped
<1>5. EmptiedStayEmpty'
  BY <1>0, <1>3 DEF StorageInv, EmptiedStayEmpty
<1>6. FilesGetsAreNew'
  <2> SUFFICES ASSUME NEW x \in Buckets, filesData'[x].by # "poll"
               PROVE  /\ filesData'[x].get # "none" /\ work'[filesData'[x].by].pc = "refetch"
                      /\ work'[filesData'[x].by].bucket = x
                      /\ filesData'[x].get = "answered" /\ work'[filesData'[x].by].emptied =>
                            work'[filesData'[x].by].file \notin filesData'[x].answer
    BY DEF FilesGetsAreNew
  <2>1. filesData'[x] = filesData[x] /\ filesData[x].by \in PageCalls
    BY <1>1, <1>2, StorageTypes
  <2> QED
    BY <1>3, <2>1 DEF StorageInv, FilesGetsAreNew
<1>7. FetchedUnlisted'
  <2> SUFFICES ASSUME NEW d \in PageCalls, work'[d].listed
               PROVE  /\ work'[d].pc = "refetch"
                      /\ work'[d].emptied => work'[d].file \notin Showing(filesData'[work'[d].bucket])
    BY DEF FetchedUnlisted
  <2>1. CASE work[d].listed
    <3>1. work[d].pc = "refetch" /\ work[d].bucket \in Buckets
      BY <2>1, StorageTypes DEF StorageInv, FetchedUnlisted, WorkFits
    <3> QED
      BY <1>2, <1>3, <2>1, <3>1 DEF StorageInv, FetchedUnlisted
  <2>2. CASE d = c
    <3>1. c # "poll"
      BY <2>2, PageAssumption
    <3>2. /\ work[c].pc = "refetch" /\ work[c].bucket = b
          /\ work[c].emptied => work[c].file \notin filesData[b].answer
      BY <1>0, <3>1 DEF StorageInv, FilesGetsAreNew
    <3> QED
      BY <1>1, <1>2, <1>3, <2>2, <3>2
  <2> QED
    BY <1>3, <2>1, <2>2
<1>8. SaidAreGone'
  <2> SUFFICES ASSUME NEW a \in saidDeleted PROVE rowsOf[a] = 0 /\ a[2] \notin Showing(filesData'[a[1]])
    BY <1>0 DEF SaidAreGone, IsGone
  <2>1. a[1] \in Buckets
    BY StorageTypes
  <2> QED
    BY <1>2, <2>1 DEF StorageInv, SaidAreGone, IsGone
<1> QED
  BY <1>0, <1>4, <1>5, <1>6, <1>7, <1>8 DEF StorageInv

LEMMA StorageStep ==
  StorageInv /\ [StoragePageNext]_storageVars => StorageInv'
<1> SUFFICES ASSUME StorageInv, [StoragePageNext]_storageVars PROVE StorageInv'
  OBVIOUS
<1>1. CASE \/ \E step \in {-1, 1} : TurnPage(step)
           \/ \E b \in Buckets : SelectBucket(b)
           \/ OpenCreate \/ AskDeleteBucket \/ CancelCreate \/ CancelDelete
           \/ \E f \in Files : AskDeleteFile(f)
           \/ UNCHANGED storageVars
  BY <1>1, PageSteps
<1>2. CASE \E b \in Buckets, f \in Files, kind \in {"create", "bucket", "upload", "file"} : Elsewhere(kind, b, f)
  BY <1>2, ElsewhereStep
<1>3. CASE \/ BucketsArrive \/ PollFiles \/ \E b \in Buckets : ReadFiles(b) \/ FilesArrive(b) \/ FilesFail(b)
  BY <1>3, BucketsArriveStep, FilesSwr, FilesArriveStep
<1>4. ASSUME NEW c \in PageCalls,
             \/ \E b \in Buckets : handleCreateBucket(c, b)
             \/ \E f \in Files : handleUpload(c, f) \/ AskForLink(c, f)
             \/ confirmDeleteBucket(c) \/ confirmDeleteFile(c)
      PROVE  StorageInv'
  BY <1>4, StartSteps
<1>5. ASSUME NEW c \in PageCalls,
             Serve(c, TRUE) \/ Serve(c, FALSE) \/ ServeNot(c) \/ Revalidates(c) \/ HandlerEnds(c)
      PROVE  StorageInv'
  BY <1>5, ServeStep, ServeNotStep, RevalidatesStep, HandlerEndsStep
<1> QED
  BY <1>1, <1>2, <1>3, <1>4, <1>5 DEF StoragePageNext

LEMMA StorageInvShows ==
  StorageInv => StoragePageTypeOK /\ AnnouncedStayGone /\ DialogKeepsItsBucket
<1> SUFFICES ASSUME StorageInv PROVE StoragePageTypeOK /\ AnnouncedStayGone /\ DialogKeepsItsBucket
  OBVIOUS
<1>1. Range(existing) \subseteq Buckets
  BY StorageTypes DEF Range
<1>2. \A c \in PageCalls : /\ work[c].kind \in {"none", "create", "bucket", "upload", "file", "link"}
                           /\ work[c].pc \in {"idle", "sent", "failed", "done", "refetch"}
  BY StorageTypes DEF StorageWorks
<1>3. StoragePageTypeOK
  BY <1>1, <1>2, StorageTypes DEF StorageInv, StoragePageFits, StoragePageTypeOK
<1>4. AnnouncedStayGone
  BY DEF StorageInv, SaidAreGone, IsGone, Showing, AnnouncedStayGone
<1>5. DialogKeepsItsBucket
  BY DEF StorageInv, StoragePageFits, DialogKeepsItsBucket, Selected
<1> QED
  BY <1>3, <1>4, <1>5

\* The storage page does not list again a file it said was deleted, although polls
\* and handlers overlap, and its delete dialog is about the bucket it was opened for.
THEOREM StorageStaysTrue ==
  StoragePageSpec => [](StoragePageTypeOK /\ AnnouncedStayGone /\ DialogKeepsItsBucket)
<1> QED
  BY StorageInitially, StorageStep, StorageInvShows, PTL DEF StoragePageSpec

-----------------------------------------------------------------------------
(* The API keys page.                                                       *)

KeysMade == active \cup seenSecrets \cup announced \subseteq 1..made
\* A secret on its way has not been seen.
SecretsWait ==
    \A c \in KeyCalls : Doing(c, "create", "done") => keyWork[c].key \in (1..made) \ seenSecrets
\* A key whose revocation was confirmed does not work any more.
RevokedGone ==
    \A c \in KeyCalls : keyWork[c].kind = "revoke" /\ keyWork[c].pc \in {"done", "refetch"} =>
        keyWork[c].key \in (1..made) \ active
\* The GET a handler waits for started after its revocation.
KeysGetIsNew ==
    keysData.by # "poll" =>
        /\ keysData.get # "none" /\ keyWork[keysData.by].pc = "refetch"
        /\ keysData.get = "answered" /\ keyWork[keysData.by].kind = "revoke" =>
              keyWork[keysData.by].key \notin keysData.answer
RevokedUnlisted ==
    \A c \in KeyCalls : keyWork[c].listed =>
        /\ keyWork[c].pc = "refetch"
        /\ keyWork[c].kind = "revoke" => keyWork[c].key \notin Showing(keysData)
AnnouncedUnlisted == announced \cap (active \cup Showing(keysData)) = {}

KeysInv ==
    /\ KeysPageTypeOK /\ KeysMade /\ SecretsWait /\ RevokedGone /\ KeysGetIsNew
    /\ RevokedUnlisted /\ AnnouncedUnlisted

KeyWorks == [kind : {"none", "create", "revoke"}, key : 0..MaxKeys,
             pc : {"idle", "sent", "failed", "done", "refetch"}, listed : BOOLEAN]

LEMMA KeysInitially ==
  KeysPageInit => KeysInv
<1> SUFFICES ASSUME KeysPageInit PROVE KeysInv
  OBVIOUS
<1>1. /\ keysData \in SwrKeys(SUBSET KeyNumbers, KeyCalls)
      /\ keysData.by = "poll" /\ Showing(keysData) = {}
  BY SwrKeyIs DEF KeysPageInit
<1>2. KeysPageTypeOK
  <2>1. NoKeyWork \in KeyWorks /\ NoKeyWork.kind = "none"
    BY KeysAssumption DEF NoKeyWork, KeyWorks
  <2>2. /\ keyWork \in [KeyCalls -> KeyWorks]
        /\ \A c, d \in KeyCalls : keyWork[c].kind = "create" /\ keyWork[d].kind = "create" => c = d
    BY <2>1 DEF KeysPageInit
  <2>3. made \in 0..MaxKeys /\ asked \in 0..MaxRevokes /\ {newKeyResult, keyToRevoke} \subseteq 0..MaxKeys
    BY KeysAssumption DEF KeysPageInit
  <2> QED
    BY <1>1, <2>2, <2>3 DEF KeysPageInit, KeysPageTypeOK, KeyWorks
<1> QED
  BY <1>1, <1>2 DEF KeysPageInit, KeysInv, KeysMade, SecretsWait, RevokedGone, KeysGetIsNew,
     RevokedUnlisted, AnnouncedUnlisted, NoKeyWork, Doing

\* A step of the page alone.
LEMMA KeysFormStep ==
  ASSUME KeysInv,
         \/ NewAPIKey \/ CloseCreate \/ CancelRevoke \/ \E k \in KeyNumbers : AskRevoke(k)
         \/ UNCHANGED keyVars
  PROVE  KeysInv'
<1>1. /\ UNCHANGED <<active, made, keysData, keyWork, asked, seenSecrets, announced>>
      /\ showCreate' \in BOOLEAN /\ {newKeyResult', keyToRevoke'} \subseteq 0..MaxKeys
  <2>1. /\ showCreate \in BOOLEAN /\ newKeyResult \in 0..MaxKeys /\ keyToRevoke \in 0..MaxKeys
        /\ 0 \in 0..MaxKeys /\ KeyNumbers \subseteq 0..MaxKeys
    BY KeysAssumption DEF KeysInv, KeysPageTypeOK, KeyNumbers
  <2> QED
    BY <2>1 DEF NewAPIKey, CloseCreate, CancelRevoke, AskRevoke, keyVars
<1> QED
  BY <1>1 DEF KeysInv, KeysPageTypeOK, KeysMade, SecretsWait, RevokedGone, KeysGetIsNew,
     RevokedUnlisted, AnnouncedUnlisted, Doing

\* A step of one handler that SWR's cache does not see.
LEMMA KeysWorkStep ==
  ASSUME KeysInv, NEW c \in KeyCalls, NEW w \in KeyWorks,
         keyWork' = [keyWork EXCEPT ![c] = w], w.pc # "refetch", ~w.listed,
         w.kind = "create" => \A d \in KeyCalls \ {c} : keyWork[d].kind # "create",
         keysData.by # c, UNCHANGED keysData,
         showCreate' \in BOOLEAN, {newKeyResult', keyToRevoke'} \subseteq 0..MaxKeys,
         made' \in 0..MaxKeys, made <= made', asked' \in 0..MaxRevokes,
         active' \subseteq 1..made', active' \ active \subseteq made + 1..made',
         UNCHANGED seenSecrets,
         announced' \subseteq 1..made', announced' \cap (active' \cup Showing(keysData)) = {},
         w.kind = "create" /\ w.pc = "done" => w.key \in (1..made') \ seenSecrets',
         w.kind = "revoke" /\ w.pc = "done" => w.key \in (1..made') \ active'
  PROVE  KeysInv'
<1>0. keyWork \in [KeyCalls -> KeyWorks] /\ keyWork' \in [KeyCalls -> KeyWorks] /\ made \in Nat /\ made' \in Nat
  BY KeysAssumption DEF KeysInv, KeysPageTypeOK, KeyWorks
<1>1. keyWork'[c] = w /\ \A d \in KeyCalls \ {c} : keyWork'[d] = keyWork[d]
  BY <1>0
<1>2. \A c1, d1 \in KeyCalls : keyWork'[c1].kind = "create" /\ keyWork'[d1].kind = "create" => c1 = d1
  BY <1>1 DEF KeysInv, KeysPageTypeOK
<1>3. 1..made \subseteq 1..made' /\ 1..made' \subseteq KeyNumbers
  BY <1>0, KeysAssumption DEF KeyNumbers
<1>4. KeysPageTypeOK'
  BY <1>0, <1>2, <1>3 DEF KeysInv, KeysPageTypeOK, KeyWorks, KeysMade
<1>5. KeysMade'
  BY <1>3 DEF KeysInv, KeysMade
<1>6. SecretsWait'
  BY <1>1, <1>3 DEF KeysInv, SecretsWait, Doing
<1>7. RevokedGone'
  <2> SUFFICES ASSUME NEW d \in KeyCalls, keyWork'[d].kind = "revoke", keyWork'[d].pc \in {"done", "refetch"}
               PROVE  keyWork'[d].key \in (1..made') \ active'
    BY DEF RevokedGone
  <2>1. CASE d = c
    BY <1>1, <2>1
  <2>2. CASE d # c
    <3>1. keyWork'[d].key \in (1..made) \ active
      BY <1>1, <2>2 DEF KeysInv, RevokedGone
    <3>2. (1..made) \cap (made + 1..made') = {}
      BY <1>0
    <3> QED
      BY <3>1, <3>2, <1>3
  <2> QED
    BY <2>1, <2>2
<1>8. keysData.by # "poll" => keysData.by \in KeyCalls \ {c}
  BY DEF KeysInv, KeysPageTypeOK, SwrKeys
<1>9. KeysGetIsNew'
  BY <1>1, <1>8 DEF KeysInv, KeysGetIsNew
<1>10. RevokedUnlisted'
  BY <1>1 DEF KeysInv, RevokedUnlisted
<1>11. AnnouncedUnlisted'
  BY DEF AnnouncedUnlisted
<1> QED
  BY <1>4, <1>5, <1>6, <1>7, <1>9, <1>10, <1>11 DEF KeysInv

LEMMA KeysHandlers ==
  ASSUME KeysInv, NEW c \in KeyCalls,
         \/ handleCreate(c) \/ KeyMade(c) \/ confirmRevoke(c) \/ KeyRevoked(c)
         \/ KeyCallFails(c) \/ KeyWorkEnds(c)
  PROVE  KeysInv'
<1>0. /\ keyWork \in [KeyCalls -> KeyWorks] /\ keyWork[c] \in KeyWorks /\ made \in 0..MaxKeys /\ made \in Nat
      /\ asked \in 0..MaxRevokes
      /\ showCreate \in BOOLEAN /\ {newKeyResult, keyToRevoke} \subseteq 0..MaxKeys
      /\ \A k, d \in KeyCalls : keyWork[k].kind = "create" /\ keyWork[d].kind = "create" => k = d
  BY KeysAssumption DEF KeysInv, KeysPageTypeOK, KeyWorks
<1>1. /\ active \cup announced \subseteq 1..made
      /\ announced \cap (active \cup Showing(keysData)) = {}
  BY DEF KeysInv, KeysMade, AnnouncedUnlisted
<1>2. keysData.by = c => keyWork[c].pc = "refetch"
  BY KeysAssumption DEF KeysInv, KeysGetIsNew
<1>3. ~ keyWork[c].listed \/ keyWork[c].pc = "refetch"
  BY DEF KeysInv, RevokedUnlisted
<1>4. ASSUME NEW kind \in {"create", "revoke"}, NEW key \in 0..MaxKeys
      PROVE  LET w == [NoKeyWork EXCEPT !.kind = kind, !.key = key, !.pc = "sent"]
             IN w \in KeyWorks /\ w.kind = kind /\ w.pc = "sent" /\ ~w.listed
  <2>1. NoKeyWork \in KeyWorks
    BY KeysAssumption DEF NoKeyWork, KeyWorks
  <2> QED
    BY <2>1 DEF NoKeyWork, KeyWorks
<1>b. ASSUME NEW pc \in {"failed", "done"}, keyWork[c].pc # "refetch"
      PROVE  LET w == [keyWork[c] EXCEPT !.pc = pc]
             IN w \in KeyWorks /\ w.kind = keyWork[c].kind /\ w.key = keyWork[c].key /\ w.pc = pc /\ ~w.listed
  BY <1>0, <1>3, <1>b DEF KeyWorks
<1>a. 0 \in 0..MaxKeys
  BY KeysAssumption
<1>5. CASE handleCreate(c)
  <2> DEFINE w == [NoKeyWork EXCEPT !.kind = "create", !.key = 0, !.pc = "sent"]
  <2>1. w \in KeyWorks /\ w.pc = "sent" /\ ~w.listed
    BY <1>a, <1>4
  <2>2. keyWork' = [keyWork EXCEPT ![c] = w]
    BY <1>5 DEF handleCreate, Handler
  <2>3. keysData.by # c
    BY <1>2, <1>5 DEF handleCreate, Handler
  <2> HIDE DEF w
  <2>5. /\ \A d \in KeyCalls \ {c} : keyWork[d].kind # "create"
        /\ made <= made'
    BY <1>0, <1>5 DEF handleCreate
  <2> QED
    BY <1>0, <1>1, <1>5, <2>1, <2>2, <2>3, <2>5, KeysWorkStep DEF handleCreate
<1>6. CASE confirmRevoke(c)
  <2> DEFINE w == [NoKeyWork EXCEPT !.kind = "revoke", !.key = keyToRevoke, !.pc = "sent"]
  <2>1. w \in KeyWorks /\ w.pc = "sent" /\ ~w.listed /\ w.kind = "revoke"
    BY <1>0, <1>4
  <2>2. keyWork' = [keyWork EXCEPT ![c] = w]
    BY <1>6 DEF confirmRevoke, Handler
  <2>3. keysData.by # c
    BY <1>2, <1>6 DEF confirmRevoke, Handler
  <2>4. asked' \in 0..MaxRevokes /\ {newKeyResult', keyToRevoke'} \subseteq 0..MaxKeys
    BY <1>0, <1>6, <1>a, KeysAssumption DEF confirmRevoke
  <2> HIDE DEF w
  <2>5. made <= made'
    BY <1>0, <1>6 DEF confirmRevoke
  <2> QED
    BY <1>0, <1>1, <1>6, <2>1, <2>2, <2>3, <2>4, <2>5, KeysWorkStep DEF confirmRevoke
<1>7. CASE KeyMade(c)
  <2> DEFINE w == [kind |-> "create", key |-> made', pc |-> "done", listed |-> FALSE]
  <2>0. keyWork[c].kind = "create" /\ keyWork[c].pc = "sent"
    BY <1>7 DEF KeyMade, Doing
  <2>1. made' \in 0..MaxKeys /\ made < made' /\ made' = made + 1 /\ made' \in 1..made'
    BY <1>0, <1>7, KeysAssumption DEF KeyMade
  <2>2. w \in KeyWorks
    BY <2>1 DEF KeyWorks
  <2>3. keyWork' = [keyWork EXCEPT ![c] = w]
    BY <1>0, <1>3, <1>7, <2>0 DEF KeyMade, KeyWorks
  <2>4. keysData.by # c /\ \A d \in KeyCalls \ {c} : keyWork[d].kind # "create"
    BY <1>0, <1>2, <2>0
  <2>5. /\ active' \subseteq 1..made' /\ active' \ active \subseteq made + 1..made'
        /\ announced' \subseteq 1..made' /\ made' \notin announced
    BY <1>0, <1>1, <1>7, <2>1 DEF KeyMade
  <2>6. made' \notin Showing(keysData) \/ TRUE
    OBVIOUS
  <2>7. announced' \cap (active' \cup Showing(keysData)) = {}
    BY <1>1, <1>7, <2>5 DEF KeyMade
  <2>8. made' \in (1..made') \ seenSecrets'
    <3>1. seenSecrets \subseteq 1..made /\ made' \notin 1..made
      BY <2>1, <1>0 DEF KeysInv, KeysMade
    <3> QED
      BY <1>7, <2>1, <3>1 DEF KeyMade
  <2> HIDE DEF w
  <2>9. w.pc = "done" /\ ~w.listed /\ w.kind = "create" /\ w.key = made'
    BY DEF w
  <2>10. made <= made'
    BY <2>1, <1>0
  <2>11. /\ UNCHANGED <<keysData, seenSecrets>> /\ asked' \in 0..MaxRevokes
         /\ showCreate' \in BOOLEAN /\ {newKeyResult', keyToRevoke'} \subseteq 0..MaxKeys
    BY <1>0, <1>7 DEF KeyMade
  <2> QED
    BY <2>1, <2>2, <2>3, <2>4, <2>5, <2>7, <2>8, <2>9, <2>10, <2>11, KeysWorkStep
<1>8. CASE KeyRevoked(c)
  <2> DEFINE w == [keyWork[c] EXCEPT !.pc = "done"]
  <2>0. keyWork[c].kind = "revoke" /\ keyWork[c].pc = "sent" /\ keyWork[c].key \in active
    BY <1>8 DEF KeyRevoked, Doing
  <2>2. w \in KeyWorks /\ w.pc = "done" /\ ~w.listed /\ w.kind = keyWork[c].kind /\ w.key = keyWork[c].key
    BY <1>b, <2>0
  <2>3. keyWork' = [keyWork EXCEPT ![c] = w]
    BY <1>8 DEF KeyRevoked, GoTo
  <2>4. keysData.by # c
    BY <1>2, <2>0
  <2> HIDE DEF w
  <2>10. made <= made'
    BY <1>8, <1>0 DEF KeyRevoked
  <2> QED
    BY <1>0, <1>1, <1>8, <2>0, <2>2, <2>3, <2>4, <2>10, KeysWorkStep DEF KeyRevoked
<1>9. CASE KeyCallFails(c)
  <2> DEFINE w == [keyWork[c] EXCEPT !.pc = "failed"]
  <2>0. keyWork[c].pc \in {"sent", "done"}
    BY <1>9 DEF KeyCallFails, Doing
  <2>2. w \in KeyWorks /\ w.pc = "failed" /\ ~w.listed /\ w.kind = keyWork[c].kind /\ w.key = keyWork[c].key
    BY <1>b, <2>0
  <2>3. keyWork' = [keyWork EXCEPT ![c] = w]
    BY <1>9 DEF KeyCallFails, GoTo
  <2>4. keysData.by # c /\ (keyWork[c].kind = "create" => \A d \in KeyCalls \ {c} : keyWork[d].kind # "create")
    BY <1>0, <1>2, <2>0
  <2> HIDE DEF w
  <2>10. made <= made'
    BY <1>9, <1>0 DEF KeyCallFails
  <2> QED
    BY <1>0, <1>1, <1>9, <2>2, <2>3, <2>4, <2>10, KeysWorkStep DEF KeyCallFails
<1>10. CASE KeyWorkEnds(c)
  <2>1. NoKeyWork \in KeyWorks /\ NoKeyWork.pc = "idle" /\ ~NoKeyWork.listed /\ NoKeyWork.kind = "none"
    BY KeysAssumption DEF NoKeyWork, KeyWorks
  <2>2. keysData.by # c
    BY <1>2, <1>10 DEF KeyWorkEnds
  <2>3. keyWork[c].listed /\ keyWork[c].kind = "revoke" =>
          /\ keyWork[c].key \in (1..made) \ active
          /\ keyWork[c].key \notin Showing(keysData)
    BY DEF KeysInv, RevokedUnlisted, RevokedGone
  <2>4. announced' \subseteq 1..made' /\ announced' \cap (active' \cup Showing(keysData)) = {}
    BY <1>1, <1>10, <2>3 DEF KeyWorkEnds
  <2>5. {newKeyResult', keyToRevoke'} \subseteq 0..MaxKeys /\ made <= made'
    BY <1>0, <1>10, KeysAssumption DEF KeyWorkEnds
  <2> QED
    BY <1>0, <1>1, <1>10, <2>1, <2>2, <2>4, <2>5, KeysWorkStep DEF KeyWorkEnds
<1> QED
  BY <1>5, <1>6, <1>7, <1>8, <1>9, <1>10

\* A handler's answer: SWR asks again.
LEMMA KeysAnswers ==
  ASSUME KeysInv, NEW c \in KeyCalls, KeyAnswered(c) \/ RevokeAnswered(c)
  PROVE  KeysInv'
<1> DEFINE w == [keyWork[c] EXCEPT !.pc = "refetch"]
<1>0. /\ keyWork \in [KeyCalls -> KeyWorks] /\ keyWork[c] \in KeyWorks
      /\ keysData \in SwrKeys(SUBSET KeyNumbers, KeyCalls)
      /\ keyWork[c].pc = "done"
  BY DEF KeysInv, KeysPageTypeOK, KeyWorks, KeyAnswered, RevokeAnswered, Doing
<1>1. /\ keysData' = Revalidate(keysData, c)
      /\ UNCHANGED <<active, made, showCreate, keyToRevoke, asked, announced>>
  BY DEF KeyAnswered, RevokeAnswered
<1>2. /\ keysData' \in SwrKeys(SUBSET KeyNumbers, KeyCalls) /\ keysData'.by = c /\ keysData'.get = "asked"
      /\ Showing(keysData') \subseteq Showing(keysData)
  BY <1>0, <1>1, RevalidateIs
<1>3. ~keyWork[c].listed
  BY <1>0 DEF KeysInv, RevokedUnlisted
<1>4. keyWork' = [keyWork EXCEPT ![c] = w] /\ w \in KeyWorks
  <2>1. w \in KeyWorks
    BY <1>0 DEF KeyWorks
  <2> QED
    BY <2>1 DEF KeyAnswered, RevokeAnswered, GoTo
<1>5. /\ keyWork' \in [KeyCalls -> KeyWorks]
      /\ keyWork'[c] = w /\ \A d \in KeyCalls \ {c} : keyWork'[d] = keyWork[d]
  BY <1>0, <1>4
<1>6. w.kind = keyWork[c].kind /\ w.key = keyWork[c].key /\ w.pc = "refetch" /\ ~w.listed
  BY <1>0, <1>3 DEF KeyWorks
<1> HIDE DEF w
<1>7. /\ newKeyResult' \in 0..MaxKeys
      /\ seenSecrets' = seenSecrets \/ (keyWork[c].kind = "create" /\ seenSecrets' = seenSecrets \cup {keyWork[c].key})
  BY <1>0 DEF KeyAnswered, RevokeAnswered, KeyWorks, KeysInv, KeysPageTypeOK, Doing
<1>8. \A k, d \in KeyCalls : keyWork'[k].kind = "create" /\ keyWork'[d].kind = "create" => k = d
  BY <1>5, <1>6 DEF KeysInv, KeysPageTypeOK
<1>9. keyWork[c].kind = "create" => keyWork[c].key \in 1..made
  BY <1>0 DEF KeysInv, SecretsWait, Doing
<1>10. seenSecrets' \subseteq 1..made /\ 1..made \subseteq KeyNumbers
  <2>1. made \in 0..MaxKeys /\ seenSecrets \subseteq 1..made
    BY DEF KeysInv, KeysMade, KeysPageTypeOK
  <2>2. 1..made \subseteq KeyNumbers
    BY <2>1, KeysAssumption DEF KeyNumbers
  <2> QED
    BY <1>7, <1>9, <2>1, <2>2
<1>11. KeysPageTypeOK'
  BY <1>1, <1>2, <1>5, <1>7, <1>8, <1>10 DEF KeysInv, KeysPageTypeOK, KeyWorks
<1>12. KeysMade'
  BY <1>1, <1>10 DEF KeysInv, KeysMade
<1>13. SecretsWait'
  <2>1. ASSUME NEW d \in KeyCalls, keyWork'[d].kind = "create", keyWork'[d].pc = "done"
        PROVE  keyWork'[d].key \in (1..made) \ seenSecrets'
    <3>1. d # c /\ keyWork'[d] = keyWork[d]
      BY <1>5, <1>6, <2>1
    <3>2. seenSecrets' = seenSecrets
      BY <1>7, <2>1, <3>1 DEF KeysInv, KeysPageTypeOK
    <3> QED
      BY <2>1, <3>1, <3>2 DEF KeysInv, SecretsWait, Doing
  <2> QED
    BY <1>1, <2>1 DEF SecretsWait, Doing
<1>14. RevokedGone'
  BY <1>0, <1>1, <1>5, <1>6 DEF KeysInv, RevokedGone
<1>15. KeysGetIsNew'
  BY <1>2, <1>5, <1>6 DEF KeysGetIsNew
<1>16. RevokedUnlisted'
  BY <1>2, <1>5, <1>6 DEF KeysInv, RevokedUnlisted
<1>17. AnnouncedUnlisted'
  BY <1>1, <1>2 DEF KeysInv, AnnouncedUnlisted
<1> QED
  BY <1>11, <1>12, <1>13, <1>14, <1>15, <1>16, <1>17 DEF KeysInv

\* SWR's own steps.
LEMMA KeysSwr ==
  ASSUME KeysInv, PollKeys \/ ReadKeys \/ KeysArrive \/ KeysLost
  PROVE  KeysInv'
<1>0. /\ keyWork \in [KeyCalls -> KeyWorks]
      /\ keysData \in SwrKeys(SUBSET KeyNumbers, KeyCalls)
      /\ keysData.by \in KeyCalls \cup {"poll"}
      /\ active \in SUBSET KeyNumbers
  BY DEF KeysInv, KeysPageTypeOK, KeyWorks, SwrKeys
<1>1. UNCHANGED <<active, made, showCreate, newKeyResult, keyToRevoke, asked, seenSecrets, announced>>
  BY DEF PollKeys, ReadKeys, KeysArrive, KeysLost
<1>2. ASSUME keysData' \in SwrKeys(SUBSET KeyNumbers, KeyCalls), UNCHANGED keyWork,
             Showing(keysData') \subseteq Showing(keysData) \cup active, KeysGetIsNew'
      PROVE  KeysInv'
  <2>1. KeysPageTypeOK' /\ KeysMade' /\ SecretsWait' /\ RevokedGone'
    BY <1>1, <1>2 DEF KeysInv, KeysPageTypeOK, KeysMade, SecretsWait, RevokedGone, Doing
  <2>2. RevokedUnlisted'
    BY <1>1, <1>2 DEF KeysInv, RevokedUnlisted, RevokedGone
  <2>3. AnnouncedUnlisted'
    BY <1>1, <1>2 DEF KeysInv, AnnouncedUnlisted
  <2> QED
    BY <1>2, <2>1, <2>2, <2>3 DEF KeysInv
<1>3. CASE PollKeys
  <2>1. /\ keysData' \in SwrKeys(SUBSET KeyNumbers, KeyCalls) /\ keysData'.by = "poll"
        /\ Showing(keysData') \subseteq Showing(keysData)
    BY <1>0, <1>3, RevalidateIs DEF PollKeys
  <2> QED
    BY <1>2, <1>3, <2>1 DEF PollKeys, KeysGetIsNew
<1>4. CASE ReadKeys
  <2>1. /\ keysData' \in SwrKeys(SUBSET KeyNumbers, KeyCalls) /\ keysData'.by = keysData.by
        /\ keysData'.answer = active /\ keysData'.get = "answered"
        /\ Showing(keysData') \subseteq Showing(keysData) \cup active
    BY <1>0, <1>4, AnsweredIs DEF ReadKeys
  <2>2. UNCHANGED keyWork
    BY <1>4 DEF ReadKeys
  <2>3. KeysGetIsNew'
    BY <1>0, <2>1, <2>2 DEF KeysInv, KeysGetIsNew, RevokedGone
  <2> QED
    BY <1>2, <2>1, <2>2, <2>3
<1>5. CASE KeysLost
  <2>1. /\ keysData' \in SwrKeys(SUBSET KeyNumbers, KeyCalls) /\ keysData'.by = "poll"
        /\ Showing(keysData') \subseteq Showing(keysData)
    BY <1>0, <1>5, ForgottenIs DEF KeysLost
  <2> QED
    BY <1>2, <1>5, <2>1 DEF KeysLost, KeysGetIsNew
<1>6. CASE KeysArrive
  <2>1. /\ keysData' \in SwrKeys(SUBSET KeyNumbers, KeyCalls) /\ keysData'.by = "poll"
        /\ Showing(keysData') \subseteq Showing(keysData) /\ Showing(keysData') = keysData.answer
    BY <1>0, <1>6, ArrivedIs DEF KeysArrive
  <2>2. CASE keysData.by = "poll"
    BY <1>2, <1>6, <2>1, <2>2 DEF KeysArrive, KeysGetIsNew
  <2>3. CASE keysData.by \in KeyCalls
    <3> DEFINE c == keysData.by
               w == [keyWork[c] EXCEPT !.listed = TRUE]
    <3>1. keyWork' = [keyWork EXCEPT ![c] = w] /\ w \in KeyWorks
      <4>1. keyWork[c] \in KeyWorks /\ keysData.by # "poll"
        BY <1>0, <2>3, KeysAssumption
      <4>2. w \in KeyWorks
        BY <4>1 DEF KeyWorks
      <4> QED
        BY <1>6, <4>1, <4>2 DEF KeysArrive
    <3>2. w.kind = keyWork[c].kind /\ w.key = keyWork[c].key /\ w.pc = keyWork[c].pc
      <4>1. keyWork[c] \in KeyWorks
        BY <1>0, <2>3
      <4> QED
        BY <4>1 DEF KeyWorks
    <3>3. /\ keyWork' \in [KeyCalls -> KeyWorks] /\ c \in KeyCalls
          /\ keyWork'[c] = w /\ \A d \in KeyCalls \ {c} : keyWork'[d] = keyWork[d]
      BY <1>0, <2>3, <3>1
    <3>4. /\ keyWork[c].pc = "refetch"
          /\ keyWork[c].kind = "revoke" => keyWork[c].key \notin keysData.answer
      BY <1>6, <2>3, KeysAssumption DEF KeysInv, KeysGetIsNew, KeysArrive
    <3> HIDE DEF c, w
    <3>5. \A d \in KeyCalls : /\ keyWork'[d].kind = keyWork[d].kind /\ keyWork'[d].pc = keyWork[d].pc
                              /\ keyWork'[d].key = keyWork[d].key
                              /\ d # c => keyWork'[d].listed = keyWork[d].listed
      BY <3>2, <3>3
    <3>6. KeysPageTypeOK'
      <4>1. \A k, d \in KeyCalls : keyWork'[k].kind = "create" /\ keyWork'[d].kind = "create" => k = d
        BY <3>5 DEF KeysInv, KeysPageTypeOK
      <4> QED
        BY <1>1, <2>1, <3>3, <4>1 DEF KeysInv, KeysPageTypeOK, KeyWorks
    <3>7. KeysMade' /\ SecretsWait' /\ RevokedGone'
      BY <1>1, <3>5 DEF KeysInv, KeysMade, SecretsWait, RevokedGone, Doing
    <3>8. RevokedUnlisted'
      BY <2>1, <3>3, <3>4, <3>5 DEF KeysInv, RevokedUnlisted
    <3>9. AnnouncedUnlisted'
      BY <1>1, <2>1 DEF KeysInv, AnnouncedUnlisted
    <3> QED
      BY <2>1, <3>6, <3>7, <3>8, <3>9 DEF KeysInv, KeysGetIsNew
  <2> QED
    BY <1>0, <2>2, <2>3
<1> QED
  BY <1>3, <1>4, <1>5, <1>6

LEMMA KeysStep ==
  KeysInv /\ [KeysPageNext]_keyVars => KeysInv'
<1> QED
  BY KeysFormStep, KeysHandlers, KeysAnswers, KeysSwr DEF KeysPageNext

\* A key whose revocation the page announced is not listed again by a GET that was
\* under way, and does not work any more.
THEOREM RevokedKeysStayOff ==
  KeysPageSpec => [](KeysPageTypeOK /\ RevokedStayOff)
<1>1. KeysInv => KeysPageTypeOK /\ RevokedStayOff
  BY DEF KeysInv, AnnouncedUnlisted, RevokedStayOff, Showing
<1> QED
  BY <1>1, KeysInitially, KeysStep, PTL DEF KeysPageSpec

LEMMA NewSecretsOnly ==
  KeysInv /\ [KeysPageNext]_keyVars => [Visible' # Visible => Visible' \notin seenSecrets]_keyVars
<1> SUFFICES ASSUME KeysInv, KeysPageNext, Visible' # Visible PROVE Visible' \notin seenSecrets
  OBVIOUS
<1>1. 0 \notin seenSecrets
  BY DEF KeysInv, KeysPageTypeOK, KeyNumbers
<1>2. CASE NewAPIKey \/ CloseCreate
  BY <1>1, <1>2 DEF NewAPIKey, CloseCreate, Visible
<1>3. CASE \E c \in KeyCalls : KeyAnswered(c)
  <2> PICK c \in KeyCalls : KeyAnswered(c)
    BY <1>3
  <2>1. keyWork[c].key \notin seenSecrets
    BY DEF KeyAnswered, KeysInv, SecretsWait
  <2> QED
    BY <1>1, <2>1 DEF KeyAnswered, Visible
<1>4. CASE UNCHANGED <<showCreate, newKeyResult>>
  BY <1>4 DEF Visible
<1> QED
  BY <1>2, <1>3, <1>4 DEF KeysPageNext, CancelRevoke, AskRevoke, handleCreate, KeyMade, confirmRevoke,
     KeyRevoked, RevokeAnswered, KeyCallFails, KeyWorkEnds, PollKeys, ReadKeys, KeysArrive, KeysLost

\* The secret of a new key is shown by the dialog it was made in, and never again.
THEOREM SecretsShownOnce ==
  KeysPageSpec => ShownOnce
<1> QED
  BY KeysInitially, KeysStep, NewSecretsOnly, PTL DEF KeysPageSpec, ShownOnce

-----------------------------------------------------------------------------
(* The CDN page.                                                            *)

PurgeWorks == [pc : {"idle", "sent", "failed", "done", "refetch"}, type : PurgeTypes \cup {"none"},
               purge : Nat, listed : BOOLEAN]

\* The purges that a history shows, or has shown before it was full of newer ones.
Accounted(S) == {n \in 1..MaxPurges : n \in S \/ \E m \in S : m >= n + PurgeCap}
AccountedFor(k) == IF k.get = "answered" THEN Accounted(k.rows) \cap Accounted(k.answer)
                                         ELSE Accounted(k.rows)

\* Whatever has been made is in the history, or older than all of it.
LEMMA HistoryAccounts ==
  ASSUME NEW count \in 0..MaxPurges
  PROVE  1..count \subseteq Accounted({n \in 1..count : n > count - PurgeCap})
<1> SUFFICES ASSUME NEW n \in 1..count
             PROVE  n \in Accounted({i \in 1..count : i > count - PurgeCap})
  OBVIOUS
<1>1. n \in 1..MaxPurges /\ count \in 1..count /\ count > count - PurgeCap
  BY PurgesAssumption
<1>2. n > count - PurgeCap \/ count >= n + PurgeCap
  BY PurgesAssumption
<1> QED
  BY <1>1, <1>2 DEF Accounted

CdnPageTyped ==
    /\ purges \in Seq(PurgeTypes) /\ submitted \in 0..MaxPurges /\ Len(purges) <= submitted
    /\ historyData \in SwrKeys(SUBSET (1..MaxPurges), PurgeCalls)
    /\ purgeType \in PurgeTypes /\ {purging, confirmPurgeAll, previewFailed} \subseteq BOOLEAN
    /\ result \in [purge : 0..Len(purges), failed : BOOLEAN]
    /\ purgeWork \in [PurgeCalls -> PurgeWorks]
\* The spinner and the dialog let one purge through at a time.
OnePurge ==
    /\ \A c, d \in PurgeCalls : purgeWork[c].pc # "idle" /\ purgeWork[d].pc # "idle" => c = d
    /\ purging <=> \E c \in PurgeCalls : purgeWork[c].pc # "idle"
    /\ confirmPurgeAll => ~purging
PurgesNumbered ==
    \A c \in PurgeCalls :
        /\ purgeWork[c].pc = "sent" => purgeWork[c].type \in PurgeTypes /\ Len(purges) < submitted
        /\ purgeWork[c].pc \in {"done", "refetch"} => purgeWork[c].purge \in 1..Len(purges)
\* The GET a handler waits for started after its purge.
HistoryGetIsNew ==
    historyData.by # "poll" =>
        /\ historyData.get # "none" /\ purgeWork[historyData.by].pc = "refetch"
        /\ historyData.get = "answered" => purgeWork[historyData.by].purge \in Accounted(historyData.answer)
ListedLasts ==
    \A c \in PurgeCalls : purgeWork[c].listed =>
        purgeWork[c].pc = "refetch" /\ purgeWork[c].purge \in AccountedFor(historyData)
ToastedLasts == toasted \subseteq AccountedFor(historyData) \cap 1..Len(purges)

CdnInv ==
    /\ CdnPageTyped /\ OnePurge /\ PurgesNumbered /\ HistoryGetIsNew /\ ListedLasts /\ ToastedLasts

LEMMA CdnPageInitially ==
  CdnPageInit => CdnInv
<1> SUFFICES ASSUME CdnPageInit PROVE CdnInv
  OBVIOUS
<1>1. /\ historyData \in SwrKeys(SUBSET (1..MaxPurges), PurgeCalls)
      /\ historyData.by = "poll" /\ AccountedFor(historyData) = {}
  BY SwrKeyIs DEF CdnPageInit, AccountedFor, Accounted
<1>2. NoPurgeWork \in PurgeWorks /\ NoPurgeWork.pc = "idle" /\ ~NoPurgeWork.listed
  BY DEF NoPurgeWork, PurgeWorks
<1>3. purges \in Seq(PurgeTypes) /\ Len(purges) = 0 /\ submitted \in 0..MaxPurges /\ Len(purges) <= submitted
  BY PurgesAssumption DEF CdnPageInit
<1>4. result \in [purge : 0..Len(purges), failed : BOOLEAN]
  BY <1>3 DEF CdnPageInit
<1>5. /\ purgeWork \in [PurgeCalls -> PurgeWorks]
      /\ \A c \in PurgeCalls : purgeWork[c].pc = "idle" /\ ~purgeWork[c].listed
  BY <1>2 DEF CdnPageInit
<1>6. CdnPageTyped
  BY <1>1, <1>3, <1>4, <1>5 DEF CdnPageInit, CdnPageTyped, PurgeTypes
<1>7. OnePurge
  BY <1>5 DEF CdnPageInit, OnePurge
<1> QED
  BY <1>1, <1>5, <1>6, <1>7 DEF CdnPageInit, CdnInv, PurgesNumbered, HistoryGetIsNew, ListedLasts, ToastedLasts

\* A step of the page alone.
LEMMA PurgeFormStep ==
  ASSUME CdnInv,
         UNCHANGED <<purges, submitted, historyData, purging, result, purgeWork, toasted>>,
         purgeType' \in PurgeTypes, previewFailed' \in BOOLEAN, confirmPurgeAll' \in BOOLEAN,
         confirmPurgeAll' => ~purging
  PROVE  CdnInv'
BY DEF CdnInv, CdnPageTyped, OnePurge, PurgesNumbered, HistoryGetIsNew, ListedLasts, ToastedLasts

\* A step of the one handler, which SWR's cache does not see.
LEMMA PurgeWorkStep ==
  ASSUME CdnInv, NEW c \in PurgeCalls, NEW w \in PurgeWorks,
         purgeWork' = [purgeWork EXCEPT ![c] = w], w.pc # "refetch", ~w.listed,
         historyData.by # c, UNCHANGED historyData,
         \A d \in PurgeCalls \ {c} : purgeWork[d].pc = "idle",
         purges' \in Seq(PurgeTypes), Len(purges) <= Len(purges'), Len(purges') <= submitted',
         submitted' \in 0..MaxPurges,
         w.pc = "sent" => w.type \in PurgeTypes /\ Len(purges') < submitted',
         w.pc = "done" => w.purge \in 1..Len(purges'),
         purging' <=> w.pc # "idle", purging' \in BOOLEAN,
         confirmPurgeAll' \in BOOLEAN, confirmPurgeAll' => ~purging',
         purgeType' \in PurgeTypes, previewFailed' \in BOOLEAN,
         result' \in [purge : 0..Len(purges'), failed : BOOLEAN],
         toasted' \subseteq AccountedFor(historyData) \cap 1..Len(purges')
  PROVE  CdnInv'
<1>1. purgeWork \in [PurgeCalls -> PurgeWorks] /\ purgeWork' \in [PurgeCalls -> PurgeWorks]
  BY DEF CdnInv, CdnPageTyped
<1>2. purgeWork'[c] = w /\ \A d \in PurgeCalls \ {c} : purgeWork'[d] = purgeWork[d]
  BY <1>1
<1>3. CdnPageTyped'
  BY <1>1 DEF CdnInv, CdnPageTyped
<1>4. OnePurge'
  BY <1>2 DEF OnePurge
<1>5. PurgesNumbered'
  BY <1>2 DEF PurgesNumbered
<1>6. historyData.by # "poll" => historyData.by \in PurgeCalls \ {c}
  BY DEF CdnInv, CdnPageTyped, SwrKeys
<1>7. HistoryGetIsNew'
  BY <1>2, <1>6 DEF CdnInv, HistoryGetIsNew
<1>8. ListedLasts'
  BY <1>2 DEF CdnInv, ListedLasts
<1>9. ToastedLasts'
  BY DEF ToastedLasts
<1> QED
  BY <1>3, <1>4, <1>5, <1>7, <1>8, <1>9 DEF CdnInv

LEMMA PurgeHandlers ==
  ASSUME CdnInv, NEW c \in PurgeCalls,
         \/ executePurge(c) /\ confirmPurgeAll' = FALSE /\ ~purging
         \/ PurgeMade(c) \/ PurgeFails(c) \/ PurgeEnds(c)
  PROVE  CdnInv'
<1>0. /\ purgeWork[c] \in PurgeWorks /\ purgeWork \in [PurgeCalls -> PurgeWorks]
      /\ purges \in Seq(PurgeTypes) /\ submitted \in 0..MaxPurges /\ Len(purges) <= submitted
      /\ Len(purges) \in Nat /\ submitted \in Nat /\ purging \in BOOLEAN /\ confirmPurgeAll \in BOOLEAN
      /\ purgeType \in PurgeTypes /\ previewFailed \in BOOLEAN
      /\ result \in [purge : 0..Len(purges), failed : BOOLEAN]
      /\ toasted \subseteq AccountedFor(historyData) \cap 1..Len(purges)
      /\ confirmPurgeAll => ~purging
  BY PurgesAssumption DEF CdnInv, CdnPageTyped, ToastedLasts, OnePurge
<1>1. historyData.by = c => purgeWork[c].pc = "refetch"
  BY PurgesAssumption DEF CdnInv, HistoryGetIsNew
<1>2. purgeWork[c].listed => purgeWork[c].pc = "refetch"
  BY DEF CdnInv, ListedLasts
<1>3. purgeWork[c].pc # "idle" => purging /\ \A d \in PurgeCalls \ {c} : purgeWork[d].pc = "idle"
  BY DEF CdnInv, OnePurge
<1>4. ~purging => \A d \in PurgeCalls : purgeWork[d].pc = "idle"
  BY DEF CdnInv, OnePurge
<1>5. ASSUME NEW b \in BOOLEAN
      PROVE  [result EXCEPT !.failed = b] \in [purge : 0..Len(purges), failed : BOOLEAN]
  BY <1>0
<1>6. CASE executePurge(c) /\ confirmPurgeAll' = FALSE /\ ~purging
  <2> DEFINE w == [NoPurgeWork EXCEPT !.pc = "sent", !.type = purgeType]
  <2>1. NoPurgeWork \in PurgeWorks
    BY DEF NoPurgeWork, PurgeWorks
  <2>2. w \in PurgeWorks /\ w.pc = "sent" /\ w.type = purgeType /\ ~w.listed
    BY <1>0, <2>1 DEF NoPurgeWork, PurgeWorks
  <2>3. purgeWork' = [purgeWork EXCEPT ![c] = w]
    BY <1>6 DEF executePurge
  <2> HIDE DEF w
  <2>4. historyData.by # c /\ \A d \in PurgeCalls \ {c} : purgeWork[d].pc = "idle"
    BY <1>1, <1>4, <1>6
  <2>5. /\ UNCHANGED <<purges, historyData, purgeType, previewFailed, toasted>>
        /\ submitted' \in 0..MaxPurges /\ Len(purges') < submitted' /\ purging' = TRUE
    BY <1>0, <1>6, PurgesAssumption DEF executePurge, externalVars
  <2>6. result' \in [purge : 0..Len(purges'), failed : BOOLEAN]
    BY <1>5, <1>6, <2>5 DEF executePurge
  <2>7. Len(purges) <= Len(purges') /\ Len(purges') <= submitted'
    BY <1>0, <2>5
  <2> QED
    BY <1>0, <1>6, <2>2, <2>3, <2>4, <2>5, <2>6, <2>7, PurgeWorkStep
<1>7. CASE PurgeMade(c)
  <2> DEFINE w == [purgeWork[c] EXCEPT !.pc = "done", !.purge = Len(purges')]
  <2>0. purgeWork[c].pc = "sent" /\ purgeWork[c].type \in PurgeTypes /\ Len(purges) < submitted
    BY <1>7 DEF PurgeMade, CdnInv, PurgesNumbered
  <2>1. /\ purges' \in Seq(PurgeTypes) /\ Len(purges') = Len(purges) + 1
        /\ UNCHANGED <<submitted, historyData, purgeType, purging, confirmPurgeAll, previewFailed, result, toasted>>
    BY <1>0, <1>7, <2>0 DEF PurgeMade, formVars
  <2>2. Len(purges') \in Nat /\ Len(purges) <= Len(purges') /\ Len(purges') <= submitted' /\ Len(purges') \in 1..Len(purges')
    BY <1>0, <2>0, <2>1
  <2>3. w \in PurgeWorks /\ w.pc = "done" /\ w.purge = Len(purges') /\ ~w.listed
    BY <1>0, <1>2, <2>0, <2>2 DEF PurgeWorks
  <2>4. purgeWork' = [purgeWork EXCEPT ![c] = w]
    BY <1>0, <1>7 DEF PurgeMade
  <2> HIDE DEF w
  <2>5. historyData.by # c /\ purging /\ \A d \in PurgeCalls \ {c} : purgeWork[d].pc = "idle"
    BY <1>1, <1>3, <2>0
  <2>6. 0..Len(purges) \subseteq 0..Len(purges') /\ 1..Len(purges) \subseteq 1..Len(purges')
    BY <1>0, <2>2
  <2>7. result' \in [purge : 0..Len(purges'), failed : BOOLEAN]
    BY <1>0, <2>1, <2>6
  <2>8. toasted' \subseteq AccountedFor(historyData) \cap 1..Len(purges')
    BY <1>0, <2>1, <2>6
  <2>9. submitted' \in 0..MaxPurges /\ (confirmPurgeAll' => ~purging')
    BY <1>0, <2>1
  <2> QED
    BY <1>0, <2>1, <2>2, <2>3, <2>4, <2>5, <2>7, <2>8, <2>9, PurgeWorkStep
<1>8. CASE PurgeFails(c)
  <2> DEFINE w == [purgeWork[c] EXCEPT !.pc = "failed"]
  <2>0. purgeWork[c].pc \in {"sent", "done"}
    BY <1>8 DEF PurgeFails
  <2>3. w \in PurgeWorks /\ w.pc = "failed" /\ ~w.listed
    BY <1>0, <1>2, <2>0 DEF PurgeWorks
  <2>4. purgeWork' = [purgeWork EXCEPT ![c] = w]
    BY <1>8 DEF PurgeFails
  <2> HIDE DEF w
  <2>5. historyData.by # c /\ purging /\ \A d \in PurgeCalls \ {c} : purgeWork[d].pc = "idle"
    BY <1>1, <1>3, <2>0
  <2>6. UNCHANGED <<purges, submitted, historyData, purgeType, purging, confirmPurgeAll, previewFailed, result, toasted>>
    BY <1>8 DEF PurgeFails, externalVars, formVars
  <2>7. Len(purges) <= Len(purges') /\ Len(purges') <= submitted'
    BY <1>0, <2>6
  <2> QED
    BY <1>0, <2>3, <2>4, <2>5, <2>6, <2>7, PurgeWorkStep
<1>9. CASE PurgeEnds(c)
  <2>1. NoPurgeWork \in PurgeWorks /\ NoPurgeWork.pc = "idle" /\ ~NoPurgeWork.listed
    BY DEF NoPurgeWork, PurgeWorks
  <2>2. /\ historyData.by # c /\ purgeWork[c].pc # "idle"
        /\ purgeWork' = [purgeWork EXCEPT ![c] = NoPurgeWork]
    BY <1>1, <1>9 DEF PurgeEnds
  <2>3. /\ UNCHANGED <<purges, submitted, historyData, purgeType, confirmPurgeAll, previewFailed>>
        /\ purging' = FALSE
    BY <1>9 DEF PurgeEnds, externalVars
  <2>4. result' \in [purge : 0..Len(purges'), failed : BOOLEAN]
    BY <1>5, <1>9, <2>3 DEF PurgeEnds
  <2>5. purgeWork[c].listed => purgeWork[c].purge \in AccountedFor(historyData) \cap 1..Len(purges)
    BY DEF CdnInv, ListedLasts, PurgesNumbered
  <2>6. toasted' \subseteq AccountedFor(historyData) \cap 1..Len(purges')
    BY <1>0, <1>9, <2>3, <2>5 DEF PurgeEnds
  <2>7. Len(purges) <= Len(purges') /\ Len(purges') <= submitted'
    BY <1>0, <2>3
  <2> QED
    BY <1>0, <1>3, <2>1, <2>2, <2>3, <2>4, <2>6, <2>7, PurgeWorkStep
<1> QED
  BY <1>6, <1>7, <1>8, <1>9

\* A handler's answer: SWR asks again.
LEMMA PurgeAnswers ==
  ASSUME CdnInv, NEW c \in PurgeCalls, PurgeAnswered(c)
  PROVE  CdnInv'
<1> DEFINE w == [purgeWork[c] EXCEPT !.pc = "refetch"]
<1>0. /\ purgeWork \in [PurgeCalls -> PurgeWorks] /\ purgeWork[c] \in PurgeWorks
      /\ historyData \in SwrKeys(SUBSET (1..MaxPurges), PurgeCalls)
      /\ purgeWork[c].pc = "done" /\ ~purgeWork[c].listed /\ purgeWork[c].purge \in 1..Len(purges)
      /\ Len(purges) \in Nat
      /\ result \in [purge : 0..Len(purges), failed : BOOLEAN]
  BY DEF CdnInv, CdnPageTyped, PurgesNumbered, ListedLasts, PurgeAnswered
<1>1. /\ UNCHANGED <<purges, submitted, purgeType, purging, confirmPurgeAll, previewFailed, toasted>>
      /\ historyData' = Revalidate(historyData, c)
      /\ purgeWork' = [purgeWork EXCEPT ![c] = w]
  BY DEF PurgeAnswered, formVars
<1>2. /\ historyData' \in SwrKeys(SUBSET (1..MaxPurges), PurgeCalls)
      /\ historyData'.by = c /\ historyData'.get = "asked"
      /\ AccountedFor(historyData) \subseteq AccountedFor(historyData')
  BY <1>0, <1>1, RevalidateIs DEF AccountedFor
<1>3. w \in PurgeWorks /\ w.pc = "refetch" /\ ~w.listed /\ w.purge = purgeWork[c].purge
  BY <1>0 DEF PurgeWorks
<1> HIDE DEF w
<1>4. /\ purgeWork' \in [PurgeCalls -> PurgeWorks]
      /\ purgeWork'[c] = w /\ \A d \in PurgeCalls \ {c} : purgeWork'[d] = purgeWork[d]
  BY <1>0, <1>1, <1>3
<1>5. result' \in [purge : 0..Len(purges'), failed : BOOLEAN]
  <2>1. purgeWork[c].purge \in 0..Len(purges)
    BY <1>0
  <2> QED
    BY <1>0, <1>1, <2>1 DEF PurgeAnswered
<1>6. CdnPageTyped'
  BY <1>1, <1>2, <1>4, <1>5 DEF CdnInv, CdnPageTyped
<1>7. \A d \in PurgeCalls : (purgeWork'[d].pc = "idle") <=> (purgeWork[d].pc = "idle")
  BY <1>0, <1>3, <1>4
<1>8. OnePurge'
  BY <1>1, <1>7 DEF CdnInv, OnePurge
<1>9. PurgesNumbered'
  BY <1>0, <1>1, <1>3, <1>4 DEF CdnInv, PurgesNumbered
<1>10. HistoryGetIsNew' /\ ListedLasts' /\ ToastedLasts'
  BY <1>1, <1>2, <1>3, <1>4 DEF CdnInv, HistoryGetIsNew, ListedLasts, ToastedLasts
<1> QED
  BY <1>6, <1>8, <1>9, <1>10 DEF CdnInv

\* SWR's own steps.
LEMMA HistorySwr ==
  ASSUME CdnInv, PollHistory \/ ReadHistory \/ HistoryArrives \/ HistoryLost
  PROVE  CdnInv'
<1>0. /\ purgeWork \in [PurgeCalls -> PurgeWorks]
      /\ historyData \in SwrKeys(SUBSET (1..MaxPurges), PurgeCalls)
      /\ historyData.by \in PurgeCalls \cup {"poll"}
      /\ purges \in Seq(PurgeTypes) /\ submitted \in 0..MaxPurges /\ Len(purges) <= submitted
  BY DEF CdnInv, CdnPageTyped, SwrKeys
<1>1. /\ DOMAIN purges = 1..Len(purges) /\ PurgeHistory \in SUBSET (1..MaxPurges)
      /\ 1..Len(purges) \subseteq Accounted(PurgeHistory)
  <2>1. Len(purges) \in 0..MaxPurges /\ DOMAIN purges = 1..Len(purges)
    BY <1>0, PurgesAssumption
  <2>2. PurgeHistory = {n \in 1..Len(purges) : n > Len(purges) - PurgeCap}
    BY <2>1 DEF PurgeHistory
  <2>3. 1..Len(purges) \subseteq Accounted(PurgeHistory)
    BY ONLY <2>1, <2>2, HistoryAccounts
  <2> QED
    BY <2>1, <2>2, <2>3, PurgesAssumption
<1>2. UNCHANGED <<purges, submitted, purgeType, purging, confirmPurgeAll, previewFailed, result, toasted>>
  BY DEF PollHistory, ReadHistory, HistoryArrives, HistoryLost, formVars
<1>3. ASSUME historyData' \in SwrKeys(SUBSET (1..MaxPurges), PurgeCalls), UNCHANGED purgeWork,
             AccountedFor(historyData) \cap 1..Len(purges) \subseteq AccountedFor(historyData'), HistoryGetIsNew'
      PROVE  CdnInv'
  <2>1. CdnPageTyped' /\ OnePurge' /\ PurgesNumbered'
    BY <1>2, <1>3 DEF CdnInv, CdnPageTyped, OnePurge, PurgesNumbered
  <2>2. ListedLasts'
    BY <1>2, <1>3 DEF CdnInv, ListedLasts, PurgesNumbered
  <2>3. ToastedLasts'
    BY <1>2, <1>3 DEF CdnInv, ToastedLasts
  <2> QED
    BY <1>3, <2>1, <2>2, <2>3 DEF CdnInv
<1>4. CASE PollHistory
  <2>1. /\ historyData' \in SwrKeys(SUBSET (1..MaxPurges), PurgeCalls) /\ historyData'.by = "poll"
        /\ AccountedFor(historyData) \subseteq AccountedFor(historyData')
    BY <1>0, <1>4, RevalidateIs DEF PollHistory, AccountedFor
  <2> QED
    BY <1>3, <1>4, <2>1 DEF PollHistory, HistoryGetIsNew
<1>5. CASE ReadHistory
  <2>1. /\ historyData' \in SwrKeys(SUBSET (1..MaxPurges), PurgeCalls) /\ historyData'.by = historyData.by
        /\ historyData'.answer = PurgeHistory /\ historyData'.get = "answered"
        /\ historyData'.rows = historyData.rows
    <3>1. historyData' = Answered(historyData, PurgeHistory) /\ historyData.get = "asked"
      BY <1>5 DEF ReadHistory
    <3>2. PurgeHistory \in SUBSET (1..MaxPurges)
      BY <1>1
    <3>3. historyData \in SwrKeys(SUBSET (1..MaxPurges), PurgeCalls)
      BY <1>0
    <3>4. /\ Answered(historyData, PurgeHistory) \in SwrKeys(SUBSET (1..MaxPurges), PurgeCalls)
          /\ Answered(historyData, PurgeHistory).rows = historyData.rows
          /\ Answered(historyData, PurgeHistory).get = "answered"
          /\ Answered(historyData, PurgeHistory).by = historyData.by
          /\ Answered(historyData, PurgeHistory).answer = PurgeHistory
      BY ONLY <3>2, <3>3 DEF Answered, SwrKeys
    <3> QED
      BY ONLY <3>1, <3>4
  <2>4. AccountedFor(historyData) \cap 1..Len(purges) \subseteq AccountedFor(historyData')
    BY <1>1, <2>1 DEF AccountedFor
  <2>2. UNCHANGED purgeWork
    BY <1>5 DEF ReadHistory
  <2>3. HistoryGetIsNew'
    BY <1>0, <1>1, <2>1, <2>2 DEF CdnInv, HistoryGetIsNew, PurgesNumbered
  <2> QED
    BY <1>3, <2>1, <2>2, <2>3, <2>4
<1>6. CASE HistoryLost
  <2>1. /\ historyData' \in SwrKeys(SUBSET (1..MaxPurges), PurgeCalls) /\ historyData'.by = "poll"
        /\ AccountedFor(historyData) \subseteq AccountedFor(historyData')
    BY <1>0, <1>6, ForgottenIs DEF HistoryLost, AccountedFor
  <2> QED
    BY <1>3, <1>6, <2>1 DEF HistoryLost, HistoryGetIsNew
<1>7. CASE HistoryArrives
  <2>1. /\ historyData' \in SwrKeys(SUBSET (1..MaxPurges), PurgeCalls) /\ historyData'.by = "poll"
        /\ AccountedFor(historyData) \subseteq AccountedFor(historyData') /\ AccountedFor(historyData') = Accounted(historyData.answer)
    <3>1. historyData' = Arrived(historyData) /\ historyData.get = "answered"
      BY <1>7 DEF HistoryArrives
    <3>2. /\ historyData' \in SwrKeys(SUBSET (1..MaxPurges), PurgeCalls) /\ historyData'.by = "poll"
          /\ historyData'.rows = historyData.answer /\ historyData'.get = "none"
      BY <1>0, <3>1, ArrivedIs
    <3>3. Accounted(historyData'.rows) = Accounted(historyData.answer)
      BY <3>2 DEF Accounted
    <3>4. AccountedFor(historyData') = Accounted(historyData'.rows)
      BY <3>2 DEF AccountedFor
    <3>5. AccountedFor(historyData) \subseteq Accounted(historyData.answer)
      BY <3>1 DEF AccountedFor
    <3> QED
      BY <3>2, <3>3, <3>4, <3>5
  <2>2. CASE historyData.by = "poll"
    BY <1>3, <1>7, <2>1, <2>2 DEF HistoryArrives, HistoryGetIsNew
  <2>3. CASE historyData.by \in PurgeCalls
    <3> DEFINE c == historyData.by
               w == [purgeWork[c] EXCEPT !.listed = TRUE]
    <3>0. purgeWork[c] \in PurgeWorks /\ historyData.by # "poll"
      BY <1>0, <2>3, PurgesAssumption
    <3>1. purgeWork' = [purgeWork EXCEPT ![c] = w]
      BY <1>7, <3>0 DEF HistoryArrives
    <3>2. w \in PurgeWorks /\ w.pc = purgeWork[c].pc /\ w.purge = purgeWork[c].purge /\ w.type = purgeWork[c].type
      BY <3>0 DEF PurgeWorks
    <3>3. purgeWork[c].pc = "refetch" /\ purgeWork[c].purge \in Accounted(historyData.answer)
      BY <1>7, <3>0 DEF CdnInv, HistoryGetIsNew, HistoryArrives
    <3> HIDE DEF w
    <3>4. /\ purgeWork' \in [PurgeCalls -> PurgeWorks] /\ c \in PurgeCalls
          /\ purgeWork'[c] = w /\ \A d \in PurgeCalls \ {c} : purgeWork'[d] = purgeWork[d]
      BY <1>0, <2>3, <3>1, <3>2
    <3> HIDE DEF c
    <3>5. \A d \in PurgeCalls : /\ purgeWork'[d].pc = purgeWork[d].pc /\ purgeWork'[d].purge = purgeWork[d].purge
                                /\ purgeWork'[d].type = purgeWork[d].type
                                /\ d # c => purgeWork'[d].listed = purgeWork[d].listed
      BY <3>2, <3>4
    <3>6. CdnPageTyped' /\ OnePurge' /\ PurgesNumbered'
      BY <1>2, <2>1, <3>4, <3>5 DEF CdnInv, CdnPageTyped, OnePurge, PurgesNumbered
    <3>7. ListedLasts'
      BY <2>1, <3>3, <3>5 DEF CdnInv, ListedLasts
    <3>8. ToastedLasts' /\ HistoryGetIsNew'
      BY <1>2, <2>1 DEF CdnInv, ToastedLasts, HistoryGetIsNew
    <3> QED
      BY <3>6, <3>7, <3>8 DEF CdnInv
  <2> QED
    BY <1>0, <2>2, <2>3
<1> QED
  BY <1>4, <1>5, <1>6, <1>7

\* A purge that another client makes.
LEMMA PurgeElsewhereStep ==
  ASSUME CdnInv, NEW t \in PurgeTypes, PurgeElsewhere(t)
  PROVE  CdnInv'
<1>0. /\ purges \in Seq(PurgeTypes) /\ submitted \in 0..MaxPurges /\ Len(purges) <= submitted
      /\ Len(purges) \in Nat /\ submitted < MaxPurges
      /\ result \in [purge : 0..Len(purges), failed : BOOLEAN]
      /\ purgeWork \in [PurgeCalls -> PurgeWorks]
  BY DEF CdnInv, CdnPageTyped, PurgeElsewhere
<1>1. /\ submitted' = submitted + 1 /\ purges' \in Seq(PurgeTypes) /\ Len(purges') = Len(purges) + 1
      /\ UNCHANGED <<historyData, purgeType, purging, confirmPurgeAll, previewFailed, result, purgeWork,
                     toasted>>
  BY <1>0 DEF PurgeElsewhere, formVars
<1>2. /\ submitted' \in 0..MaxPurges /\ Len(purges') <= submitted'
      /\ 0..Len(purges) \subseteq 0..Len(purges') /\ 1..Len(purges) \subseteq 1..Len(purges')
      /\ Len(purges) < submitted => Len(purges') < submitted'
  BY <1>0, <1>1, PurgesAssumption
<1>3. result' \in [purge : 0..Len(purges'), failed : BOOLEAN]
  BY <1>0, <1>1, <1>2
<1>4. CdnPageTyped'
  BY <1>1, <1>2, <1>3 DEF CdnInv, CdnPageTyped
<1>5. PurgesNumbered'
  BY <1>1, <1>2 DEF CdnInv, PurgesNumbered
<1>6. OnePurge' /\ HistoryGetIsNew' /\ ListedLasts'
  BY <1>1 DEF CdnInv, OnePurge, HistoryGetIsNew, ListedLasts
<1>7. ToastedLasts'
  BY <1>1, <1>2 DEF CdnInv, ToastedLasts
<1> QED
  BY <1>4, <1>5, <1>6, <1>7 DEF CdnInv

LEMMA CdnPageStep ==
  CdnInv /\ [CdnPageNext]_purgeVars => CdnInv'
<1> SUFFICES ASSUME CdnInv, [CdnPageNext]_purgeVars PROVE CdnInv'
  OBVIOUS
<1>0. /\ purgeType \in PurgeTypes /\ previewFailed \in BOOLEAN /\ confirmPurgeAll \in BOOLEAN
      /\ confirmPurgeAll => ~purging
  BY DEF CdnInv, CdnPageTyped, OnePurge
<1>1. CASE \/ \E t \in PurgeTypes : SetPurgeType(t)
           \/ CancelPurgeAll \/ PreviewEdited \/ PreviewFails \/ UNCHANGED purgeVars
  <2>1. UNCHANGED <<purges, submitted, historyData, purging, result, purgeWork, toasted>>
    BY <1>1 DEF SetPurgeType, CancelPurgeAll, PreviewEdited, PreviewFails, SetPreview,
       purgeVars, externalVars, formVars
  <2>2. /\ purgeType' \in PurgeTypes /\ previewFailed' \in BOOLEAN /\ confirmPurgeAll' \in BOOLEAN
        /\ confirmPurgeAll' => ~purging
    <3>1. ASSUME \E t \in PurgeTypes : SetPurgeType(t)
          PROVE  /\ purgeType' \in PurgeTypes /\ previewFailed' \in BOOLEAN /\ confirmPurgeAll' \in BOOLEAN
                 /\ confirmPurgeAll' => ~purging
      BY <1>0, <3>1 DEF SetPurgeType
    <3>2. ASSUME CancelPurgeAll
          PROVE  /\ purgeType' \in PurgeTypes /\ previewFailed' \in BOOLEAN /\ confirmPurgeAll' \in BOOLEAN
                 /\ confirmPurgeAll' => ~purging
      BY <1>0, <3>2 DEF CancelPurgeAll
    <3>3. ASSUME PreviewEdited
          PROVE  /\ purgeType' \in PurgeTypes /\ previewFailed' \in BOOLEAN /\ confirmPurgeAll' \in BOOLEAN
                 /\ confirmPurgeAll' => ~purging
      BY <1>0, <3>3 DEF PreviewEdited, SetPreview, formVars
    <3>4. ASSUME PreviewFails
          PROVE  /\ purgeType' \in PurgeTypes /\ previewFailed' \in BOOLEAN /\ confirmPurgeAll' \in BOOLEAN
                 /\ confirmPurgeAll' => ~purging
      BY <1>0, <3>4 DEF PreviewFails, SetPreview, formVars
    <3>5. ASSUME UNCHANGED purgeVars
          PROVE  /\ purgeType' \in PurgeTypes /\ previewFailed' \in BOOLEAN /\ confirmPurgeAll' \in BOOLEAN
                 /\ confirmPurgeAll' => ~purging
      BY <1>0, <3>5 DEF purgeVars
    <3> QED
      BY <1>1, <3>1, <3>2, <3>3, <3>4, <3>5
  <2> QED
    BY <2>1, <2>2, PurgeFormStep
<1>2. ASSUME NEW c \in PurgeCalls, handlePurgeSubmit(c) PROVE CdnInv'
  <2>1. CASE purgeType = "all"
    BY <1>0, <1>2, <2>1, PurgeFormStep DEF handlePurgeSubmit, externalVars
  <2>2. CASE purgeType # "all"
    <3>1. executePurge(c) /\ confirmPurgeAll' = FALSE /\ ~purging
      BY <1>0, <1>2, <2>2 DEF handlePurgeSubmit
    <3> QED
      BY <3>1, PurgeHandlers
  <2> QED
    BY <2>1, <2>2
<1>3. ASSUME NEW c \in PurgeCalls, PurgeEverything(c) PROVE CdnInv'
  BY <1>0, <1>3, PurgeHandlers DEF PurgeEverything
<1>4. ASSUME NEW c \in PurgeCalls, PurgeMade(c) \/ PurgeFails(c) \/ PurgeEnds(c) PROVE CdnInv'
  BY <1>4, PurgeHandlers
<1>5. ASSUME NEW c \in PurgeCalls, PurgeAnswered(c) PROVE CdnInv'
  BY <1>5, PurgeAnswers
<1> QED
  BY <1>1, <1>2, <1>3, <1>4, <1>5, HistorySwr, PurgeElsewhereStep DEF CdnPageNext

LEMMA CdnInvTyped ==
  CdnInv => CdnPageTypeOK /\ PurgesStayListed
<1> SUFFICES ASSUME CdnInv PROVE CdnPageTypeOK /\ PurgesStayListed
  OBVIOUS
<1>1. DOMAIN purges = 1..Len(purges) /\ \A n \in DOMAIN purges : purges[n] \in PurgeTypes
  BY DEF CdnInv, CdnPageTyped
<1>2. Cardinality({c \in PurgeCalls : purgeWork[c].pc # "idle"}) <= 1
  <2> DEFINE busy == {c \in PurgeCalls : purgeWork[c].pc # "idle"}
  <2>1. busy = {} \/ \E d \in busy : busy = {d}
    BY DEF CdnInv, OnePurge
  <2> HIDE DEF busy
  <2>2. Cardinality(busy) <= 1
    <3>1. \A d : Cardinality({d}) = 1
      BY FS_Singleton
    <3>2. Cardinality({}) = 0
      BY FS_EmptySet
    <3> QED
      BY <2>1, <3>1, <3>2
  <2> QED
    BY <2>2 DEF busy
<1>3. result.purge \in 0..Len(purges)
  BY DEF CdnInv, CdnPageTyped
<1>4. toasted \subseteq DOMAIN purges /\ toasted \subseteq Accounted(historyData.rows)
  BY <1>1 DEF CdnInv, ToastedLasts, AccountedFor
<1> QED
  BY <1>1, <1>2, <1>3, <1>4 DEF CdnInv, CdnPageTyped, CdnPageTypeOK, OnePurge, PurgesStayListed,
     Accounted

\* A purge that handlePurge reported leaves the history the CDN page shows only
\* for as many newer ones as the service keeps, and one purge of the page is under
\* way at a time.
THEOREM PurgesAreListed ==
  CdnPageSpec => [](CdnPageTypeOK /\ PurgesStayListed)
<1> QED
  BY CdnInvTyped, CdnPageInitially, CdnPageStep, PTL DEF CdnPageSpec

-----------------------------------------------------------------------------
(* The alerts page.                                                         *)

\* The ids that rules have had.
IdsUsed == 1 .. Len(Rule0) + edits
RulesApart ==
    /\ ShownRules \subseteq IdsUsed
    /\ \A i, j \in DOMAIN rules : rules[i].id = rules[j].id => i = j
\* The page only knows ids that a rule has had.
KnownRules ==
    /\ Showing(rulesData) \subseteq IdsUsed /\ ruleToDelete \in IdsUsed \cup {0}
    /\ \A c \in AlertCalls : alertWork[c].kind \in {"toggle", "delete"} => alertWork[c].id \in IdsUsed
DeletedRules ==
    {alertWork[c].id : c \in {d \in AlertCalls : alertWork[d].kind = "delete" /\ alertWork[d].pc = "done"}}
DeletedUnlisted ==
    /\ fetchedFor \cup gone \cup DeletedRules \subseteq IdsUsed \ ShownRules
    /\ gone \cap Showing(rulesData) = {}
\* The GET for deleted rules is under way, and was sent after their deletion.
RulesGetIsNew ==
    fetchedFor # {} =>
        /\ rulesData.get # "none" /\ rulesData.by = "mutate"
        /\ rulesData.get = "answered" => fetchedFor \cap rulesData.answer = {}

AlertsPageInv ==
    /\ AlertInv /\ AlertsPageTypeOK /\ RulesApart /\ KnownRules /\ DeletedUnlisted /\ RulesGetIsNew

AlertWorks == [kind : {"none", "create", "toggle", "delete", "test"}, form : FormRules,
               id : RuleIds \cup {0}, pc : {"idle", "sent", "done", "failed"}]

LEMMA AlertsPageTypes ==
  ASSUME AlertsPageInv
  PROVE  /\ rulesData \in SwrKeys(SUBSET RuleIds, {"mutate"})
         /\ isModalOpen \in BOOLEAN /\ ruleToDelete \in RuleIds \cup {0}
         /\ alertWork \in [AlertCalls -> AlertWorks]
         /\ fetchedFor \subseteq RuleIds /\ gone \subseteq RuleIds
         /\ rules \in Seq(Rules) /\ edits \in 0..MaxEdits /\ Len(Rule0) \in Nat /\ MaxEdits \in Nat
         /\ IdsUsed \subseteq RuleIds /\ ShownRules \subseteq RuleIds
         /\ ~(isModalOpen /\ ruleToDelete # 0)
<1>1. rules \in Seq(Rules) /\ edits \in 0..MaxEdits /\ Len(Rule0) \in Nat /\ MaxEdits \in Nat
  BY AlertsAssumption DEF AlertsPageInv, AlertInv, AlertTypeOK
<1>2. ShownRules \subseteq RuleIds
  <2>1. \A i \in DOMAIN rules : rules[i] \in Rules
    BY <1>1
  <2> QED
    BY <2>1 DEF ShownRules, Rules
<1>3. IdsUsed \subseteq RuleIds
  BY <1>1 DEF IdsUsed, RuleIds
<1> QED
  BY <1>1, <1>2, <1>3 DEF AlertsPageInv, AlertsPageTypeOK, AlertWorks

LEMMA AlertWorkIs ==
  ASSUME NEW kind \in {"none", "create", "toggle", "delete", "test"}, NEW posted \in FormRules,
         NEW id \in RuleIds \cup {0}
  PROVE  /\ AlertWork(kind, posted, id) \in AlertWorks /\ NoForm \in FormRules /\ NoAlertWork \in AlertWorks
         /\ AlertWork(kind, posted, id).kind = kind /\ AlertWork(kind, posted, id).id = id
         /\ AlertWork(kind, posted, id).pc = "sent" /\ NoAlertWork.kind = "none" /\ NoAlertWork.pc = "idle"
<1>1. NoForm \in FormRules
  BY FormAssumption DEF NoForm
<1> QED
  BY <1>1 DEF AlertWork, NoAlertWork, AlertWorks

LEMMA AlertsPageInitially ==
  AlertsPageInit => AlertsPageInv
<1> SUFFICES ASSUME AlertsPageInit PROVE AlertsPageInv
  OBVIOUS
<1>1. AlertInv /\ rules = Rule0 /\ edits = 0
  BY AlertInitially DEF AlertsPageInit, AlertInit
<1>2. /\ rulesData \in SwrKeys(SUBSET RuleIds, {"mutate"})
      /\ rulesData.by = "poll" /\ rulesData.rows = {} /\ Showing(rulesData) = {}
  BY SwrKeyIs DEF AlertsPageInit
<1>3. /\ alertWork \in [AlertCalls -> AlertWorks]
      /\ \A c \in AlertCalls : alertWork[c].kind = "none"
  <2>1. NoAlertWork \in AlertWorks /\ NoAlertWork.kind = "none"
    BY AlertWorkIs, FormAssumption
  <2> QED
    BY <2>1 DEF AlertsPageInit
<1>4. AlertsPageTypeOK
  BY <1>2, <1>3 DEF AlertsPageInit, AlertsPageTypeOK, AlertWorks
<1>5. RulesApart
  <2>1. Rule0 \in Seq(Rules) /\ (\A i \in DOMAIN Rule0 : Rule0[i].id = i) /\ Len(Rule0) \in Nat
    BY AlertsAssumption
  <2> QED
    BY <1>1, <2>1 DEF RulesApart, ShownRules, IdsUsed
<1>6. KnownRules
  BY <1>2, <1>3 DEF KnownRules, AlertsPageInit
<1>7. DeletedUnlisted /\ RulesGetIsNew
  BY <1>2, <1>3 DEF DeletedUnlisted, DeletedRules, RulesGetIsNew, AlertsPageInit
<1> QED
  BY <1>1, <1>4, <1>5, <1>6, <1>7 DEF AlertsPageInv

\* What removing an element does to the places of the others.
LEMMA RemovedFrom ==
    ASSUME NEW S, NEW s \in Seq(S), NEW i \in DOMAIN s
    PROVE  /\ RemoveAt(s, i) \in Seq(S) /\ DOMAIN RemoveAt(s, i) = 1 .. Len(s) - 1
           /\ \A k \in 1 .. Len(s) - 1 : RemoveAt(s, i)[k] = s[IF k < i THEN k ELSE k + 1]
<1> DEFINE a == SubSeq(s, 1, i - 1)
<1> DEFINE b == SubSeq(s, i + 1, Len(s))
<1>1. Len(s) \in Nat /\ DOMAIN s = 1..Len(s) /\ i \in 1..Len(s)
  OBVIOUS
<1>2. /\ a \in Seq(S) /\ Len(a) = i - 1 /\ \A k \in 1..i - 1 : a[k] = s[k]
  BY <1>1
<1>3. /\ b \in Seq(S) /\ Len(b) = Len(s) - i /\ \A k \in 1..Len(s) - i : b[k] = s[i + k]
  BY <1>1
<1> HIDE DEF a, b
<1>4. /\ a \o b \in Seq(S) /\ DOMAIN (a \o b) = 1 .. Len(s) - 1
      /\ \A k \in 1 .. Len(s) - 1 : (a \o b)[k] = IF k <= i - 1 THEN a[k] ELSE b[k - (i - 1)]
  <2>1. /\ a \o b \in Seq(S) /\ DOMAIN (a \o b) = 1..(Len(a) + Len(b))
        /\ \A k \in 1..(Len(a) + Len(b)) : (a \o b)[k] = IF k <= Len(a) THEN a[k] ELSE b[k - Len(a)]
    BY <1>2, <1>3
  <2>2. Len(a) + Len(b) = Len(s) - 1
    BY <1>1, <1>2, <1>3
  <2> QED
    BY <1>2, <2>1, <2>2
<1>5. ASSUME NEW k \in 1 .. Len(s) - 1
      PROVE  (a \o b)[k] = s[IF k < i THEN k ELSE k + 1]
  <2>1. CASE k < i
    <3>1. k \in 1..i - 1
      BY <1>1, <2>1
    <3> QED
      BY <1>2, <1>4, <2>1, <3>1
  <2>2. CASE ~(k < i)
    <3>1. k - (i - 1) \in 1..Len(s) - i /\ i + (k - (i - 1)) = k + 1 /\ ~(k <= i - 1)
      BY <1>1, <2>2
    <3>2. (a \o b)[k] = b[k - (i - 1)]
      BY <1>4, <3>1
    <3>3. b[k - (i - 1)] = s[i + (k - (i - 1))]
      BY <1>3, <3>1
    <3> QED
      BY <2>2, <3>1, <3>2, <3>3
  <2> QED
    BY <2>1, <2>2
<1>6. RemoveAt(s, i) = a \o b
  BY DEF RemoveAt, a, b
<1> QED
  BY <1>4, <1>5, <1>6

\* A rule that is created takes a new id.
LEMMA RuleCreated ==
  ASSUME AlertsPageInv, NEW rule \in NewRules, CreateRule(rule), rules' \in Seq(Rules)
  PROVE  /\ RulesApart' /\ IdsUsed \subseteq IdsUsed'
         /\ ShownRules' \cap IdsUsed \subseteq ShownRules
<1>1. /\ rules \in Seq(Rules) /\ edits \in Nat /\ Len(Rule0) \in Nat /\ edits' = edits + 1
      /\ rules' = Append(rules, WithId(Len(Rule0) + edits', rule))
  BY AlertsPageTypes DEF CreateRule, Edit
<1> DEFINE r == WithId(Len(Rule0) + edits', rule)
<1>2. r.id = Len(Rule0) + edits + 1
  BY <1>1 DEF WithId
<1> HIDE DEF r
<1>3. /\ Len(rules) \in Nat /\ DOMAIN rules = 1..Len(rules) /\ DOMAIN rules' = 1..Len(rules) + 1
      /\ \A i \in 1..Len(rules) : rules'[i] = rules[i]
      /\ rules'[Len(rules) + 1] = r
  BY <1>1 DEF r
<1>4. /\ IdsUsed \subseteq IdsUsed' /\ r.id \in IdsUsed' \ IdsUsed
  BY <1>1, <1>2 DEF IdsUsed
<1>5. \A i \in 1..Len(rules) : rules[i].id \in IdsUsed
  BY <1>3 DEF AlertsPageInv, RulesApart, ShownRules
<1>6. \A i \in DOMAIN rules' : i \in 1..Len(rules) \/ i = Len(rules) + 1
  BY <1>3
<1>7. ASSUME NEW i \in DOMAIN rules' PROVE rules'[i].id \in IdsUsed' /\ (rules'[i].id \in IdsUsed => rules'[i].id \in ShownRules)
  <2>1. CASE i \in 1..Len(rules)
    BY <1>3, <1>4, <1>5, <2>1 DEF ShownRules
  <2>2. CASE i = Len(rules) + 1
    BY <1>3, <1>4, <2>2
  <2> QED
    BY <1>6, <2>1, <2>2
<1>8. ASSUME NEW i \in DOMAIN rules', NEW j \in DOMAIN rules', rules'[i].id = rules'[j].id PROVE i = j
  BY <1>3, <1>4, <1>5, <1>6, <1>8 DEF AlertsPageInv, RulesApart
<1> QED
  BY <1>4, <1>7, <1>8 DEF RulesApart, ShownRules

\* A rule that is deleted is not there any more.
LEMMA RuleDeleted ==
  ASSUME AlertsPageInv, NEW id, DeleteRule(id), rules' \in Seq(Rules)
  PROVE  /\ RulesApart' /\ IdsUsed \subseteq IdsUsed'
         /\ ShownRules' \subseteq ShownRules /\ id \notin ShownRules'
<1>1. /\ rules \in Seq(Rules) /\ edits \in Nat /\ Len(Rule0) \in Nat /\ edits' = edits + 1
      /\ rules' = Without(id)
  <2>1. edits' = edits + 1 /\ rules' = Without(id)
    BY DEF DeleteRule, Edit
  <2> QED
    BY <2>1, AlertsPageTypes
<1>2. IdsUsed \subseteq IdsUsed'
  BY <1>1 DEF IdsUsed
<1>3. CASE RuleAt(id) = {}
  BY <1>1, <1>2, <1>3 DEF Without, RuleAt, ShownRules, AlertsPageInv, RulesApart
<1>4. CASE RuleAt(id) # {}
  <2>1. PICK i \in RuleAt(id) : rules' = RemoveAt(rules, i)
    BY <1>1, <1>4 DEF Without
  <2>2. i \in DOMAIN rules /\ rules[i].id = id
    BY DEF RuleAt
  <2>3. /\ DOMAIN rules' = 1 .. Len(rules) - 1
        /\ \A k \in 1 .. Len(rules) - 1 : rules'[k] = rules[IF k < i THEN k ELSE k + 1]
    BY <1>1, <2>1, <2>2, RemovedFrom
  <2>4. Len(rules) \in Nat /\ DOMAIN rules = 1..Len(rules) /\ i \in Int
    BY <1>1, <2>2
  <2> DEFINE Was(k) == IF k < i THEN k ELSE k + 1
  <2>5. /\ \A k \in DOMAIN rules' : Was(k) \in DOMAIN rules /\ Was(k) # i /\ rules'[k] = rules[Was(k)]
        /\ \A k, l \in DOMAIN rules' : Was(k) = Was(l) => k = l
    BY <2>3, <2>4
  <2> HIDE DEF Was
  <2> QED
    BY <1>2, <2>2, <2>5 DEF ShownRules, AlertsPageInv, RulesApart
<1> QED
  BY <1>3, <1>4

\* The service's rules and the page's knowledge of them, after a step of either.
LEMMA AlertsPageKept ==
  ASSUME AlertsPageInv, AlertInv', RulesApart', IdsUsed \subseteq IdsUsed',
         ShownRules' \cap IdsUsed \subseteq ShownRules,
         AlertsPageTypeOK', KnownRules', gone' \cap Showing(rulesData') = {}, RulesGetIsNew',
         fetchedFor' \cup gone' \cup DeletedRules' \subseteq IdsUsed \ ShownRules'
  PROVE  AlertsPageInv'
BY DEF AlertsPageInv, DeletedUnlisted

\* A step of the page that calls nothing.
LEMMA AlertsFormStep ==
  ASSUME AlertsPageInv, UNCHANGED <<alertVars, rulesData, fetchedFor, gone>>,
         isModalOpen' \in BOOLEAN, ruleToDelete' \in IdsUsed \cup {0}, ~(isModalOpen' /\ ruleToDelete' # 0),
         alertWork' \in [AlertCalls -> AlertWorks],
         \A c \in AlertCalls :
            \/ alertWork'[c] = alertWork[c]
            \/ /\ alertWork'[c].kind \in {"toggle", "delete"} => alertWork'[c].id \in IdsUsed
               /\ alertWork'[c].pc # "done"
  PROVE  AlertsPageInv'
<1>1. AlertInv'
  BY AlertSteps DEF AlertsPageInv
<1>2. UNCHANGED <<rules, edits>>
  BY DEF alertVars
<1>3. RulesApart' /\ IdsUsed' = IdsUsed /\ ShownRules' = ShownRules
  BY <1>2 DEF AlertsPageInv, RulesApart, IdsUsed, ShownRules
<1>4. AlertsPageTypeOK'
  BY AlertsPageTypes DEF AlertsPageTypeOK, AlertWorks
<1>5. KnownRules'
  BY <1>3 DEF AlertsPageInv, KnownRules
<1>6. DeletedRules' \subseteq DeletedRules
  BY DEF DeletedRules
<1>7. RulesGetIsNew' /\ gone' \cap Showing(rulesData') = {}
  BY DEF AlertsPageInv, RulesGetIsNew, DeletedUnlisted
<1>8. fetchedFor' \cup gone' \cup DeletedRules' \subseteq IdsUsed \ ShownRules'
  BY <1>3, <1>6 DEF AlertsPageInv, DeletedUnlisted
<1> QED
  BY <1>1, <1>3, <1>4, <1>5, <1>7, <1>8, AlertsPageKept

\* A step of SWR's, or of a handler to which its answer came.
LEMMA RulesSwrStep ==
  ASSUME AlertsPageInv, UNCHANGED alertVars,
         rulesData' \in SwrKeys(SUBSET RuleIds, {"mutate"}),
         Showing(rulesData') \subseteq Showing(rulesData) \cup ShownRules,
         gone' \subseteq IdsUsed \ (Showing(rulesData') \cup ShownRules), RulesGetIsNew',
         fetchedFor' \subseteq fetchedFor \cup DeletedRules,
         isModalOpen' \in BOOLEAN, ruleToDelete' \in {0, ruleToDelete},
         isModalOpen' => isModalOpen,
         alertWork' \in [AlertCalls -> AlertWorks],
         \A c \in AlertCalls : alertWork'[c] = alertWork[c] \/ alertWork'[c] = NoAlertWork
  PROVE  AlertsPageInv'
<1>1. AlertInv'
  BY AlertSteps DEF AlertsPageInv
<1>2. UNCHANGED <<rules, edits>>
  BY DEF alertVars
<1>3. RulesApart' /\ IdsUsed' = IdsUsed /\ ShownRules' = ShownRules
  BY <1>2 DEF AlertsPageInv, RulesApart, IdsUsed, ShownRules
<1>4. NoAlertWork.kind = "none"
  BY AlertWorkIs, FormAssumption
<1>5. fetchedFor \cup DeletedRules \subseteq IdsUsed \ ShownRules
  BY DEF AlertsPageInv, DeletedUnlisted
<1>6. AlertsPageTypeOK'
  <2>1. fetchedFor' \subseteq RuleIds /\ gone' \subseteq RuleIds
    BY <1>5, AlertsPageTypes
  <2> QED
    BY <2>1, AlertsPageTypes DEF AlertsPageTypeOK, AlertWorks
<1>7. KnownRules'
  <2>1. Showing(rulesData)' \subseteq IdsUsed
    BY DEF AlertsPageInv, KnownRules, RulesApart
  <2> QED
    BY <1>3, <1>4, <2>1 DEF AlertsPageInv, KnownRules
<1>8. DeletedRules' \subseteq DeletedRules
  BY <1>4 DEF DeletedRules
<1> QED
  BY <1>1, <1>3, <1>5, <1>6, <1>7, <1>8, AlertsPageKept

\* A step of the service alone.
LEMMA AlertsServiceStep ==
  ASSUME AlertsPageInv, Service
  PROVE  AlertsPageInv'
<1>1. AlertNext /\ UNCHANGED <<rules, edits, alertPageVars>>
  BY ZenonT(40) DEF Service, AlertNext, Tick, StartCheck, VisitRule, FetchFails, EndDispatch,
     Evaluate, SendChannel
<1>2. AlertInv'
  BY <1>1, AlertSteps DEF AlertsPageInv
<1>3. RulesApart' /\ IdsUsed' = IdsUsed /\ ShownRules' = ShownRules
  BY <1>1 DEF AlertsPageInv, RulesApart, IdsUsed, ShownRules
<1> QED
  BY <1>1, <1>2, <1>3, SMTT(30)
  DEF AlertsPageInv, AlertsPageTypeOK, KnownRules, DeletedUnlisted, DeletedRules,
     RulesGetIsNew, alertPageVars

LEMMA ServeRuleStep ==
  ASSUME AlertsPageInv, NEW c \in AlertCalls, ServeRule(c)
  PROVE  AlertsPageInv'
<1> DEFINE w == [alertWork[c] EXCEPT !.pc = "done"]
<1>1. /\ alertWork[c].pc = "sent" /\ alertWork' = [alertWork EXCEPT ![c] = w]
      /\ alertWork[c] \in AlertWorks /\ alertWork[c].form \in NewRules
      /\ UNCHANGED <<rulesData, isModalOpen, ruleToDelete, fetchedFor, gone>>
  <2>1. alertWork' = [alertWork EXCEPT ![c].pc = "done"]
    BY DEF ServeRule, Settle
  <2> QED
    BY <2>1, AlertsPageTypes, FormAssumption DEF ServeRule, AlertWorks
<1>2. /\ w \in AlertWorks /\ w.kind = alertWork[c].kind /\ w.id = alertWork[c].id
  BY <1>1 DEF AlertWorks
<1> HIDE DEF w
<1>3. /\ alertWork' \in [AlertCalls -> AlertWorks] /\ alertWork'[c] = w
      /\ \A d \in AlertCalls \ {c} : alertWork'[d] = alertWork[d]
  BY <1>1, <1>2, AlertsPageTypes
<1>4. AlertsPageTypeOK'
  BY <1>1, <1>3, AlertsPageTypes DEF AlertsPageTypeOK, AlertWorks
<1>5. /\ AlertNext /\ RulesApart' /\ IdsUsed \subseteq IdsUsed' /\ ShownRules' \cap IdsUsed \subseteq ShownRules
      /\ alertWork[c].kind = "delete" => alertWork[c].id \notin ShownRules'
  <2>1. CASE alertWork[c].kind = "create" /\ CreateRule(alertWork[c].form)
    <3>1. AlertNext
      BY <1>1, <2>1 DEF AlertNext
    <3>2. rules' \in Seq(Rules)
      BY <3>1, AlertSteps DEF AlertsPageInv, AlertInv, AlertTypeOK
    <3> QED
      BY <1>1, <2>1, <3>1, <3>2, RuleCreated
  <2>2. CASE alertWork[c].kind = "delete" /\ DeleteRule(alertWork[c].id)
    <3>1. alertWork[c].id \in RuleIds
      BY <2>2, AlertsPageTypes DEF AlertsPageInv, KnownRules
    <3>2. AlertNext
      BY <2>2, <3>1 DEF AlertNext
    <3>3. rules' \in Seq(Rules)
      BY <3>2, AlertSteps DEF AlertsPageInv, AlertInv, AlertTypeOK
    <3> QED
      BY <2>2, <3>2, <3>3, RuleDeleted
  <2>3. CASE alertWork[c].kind = "test" /\ \E bad \in SUBSET Channels : TestNotification(bad)
    <3>1. AlertNext
      BY <2>3 DEF AlertNext
    <3>2. UNCHANGED <<rules, edits>>
      BY <2>3 DEF TestNotification
    <3> QED
      BY <2>3, <3>1, <3>2 DEF AlertsPageInv, RulesApart, IdsUsed, ShownRules
  <2> QED
    BY <2>1, <2>2, <2>3 DEF ServeRule
<1>6. AlertInv'
  BY <1>5, AlertSteps DEF AlertsPageInv
<1>7. KnownRules'
  <2>1. \A d \in AlertCalls : alertWork'[d].kind \in {"toggle", "delete"} => alertWork'[d].id \in IdsUsed
    BY <1>2, <1>3 DEF AlertsPageInv, KnownRules
  <2> QED
    BY <1>1, <1>5, <2>1 DEF AlertsPageInv, KnownRules
<1>8. gone' \cap Showing(rulesData') = {} /\ RulesGetIsNew'
  BY <1>1 DEF AlertsPageInv, RulesGetIsNew, DeletedUnlisted
<1>9. fetchedFor' \cup gone' \cup DeletedRules' \subseteq IdsUsed \ ShownRules'
  <2>1. fetchedFor' \cup gone' \subseteq IdsUsed \ ShownRules'
    BY <1>1, <1>5 DEF AlertsPageInv, DeletedUnlisted
  <2>2. ASSUME NEW d \in AlertCalls, alertWork'[d].kind = "delete", alertWork'[d].pc = "done"
        PROVE  alertWork'[d].id \in IdsUsed \ ShownRules'
    <3>1. CASE d = c
      BY <1>2, <1>3, <1>5, <2>2, <3>1 DEF AlertsPageInv, KnownRules
    <3>2. CASE d # c
      BY <1>3, <1>5, <2>2, <3>2 DEF AlertsPageInv, DeletedUnlisted, DeletedRules
    <3> QED
      BY <3>1, <3>2
  <2> QED
    BY <2>1, <2>2 DEF DeletedRules
<1> QED
  BY <1>4, <1>5, <1>6, <1>7, <1>8, <1>9, AlertsPageKept

LEMMA HandlerStep ==
  ASSUME AlertsPageInv, NEW c \in AlertCalls,
         \/ \E posted \in FormRules : handleCreateRule(c, posted)
         \/ \E id \in RuleIds : handleToggleRule(c, id)
         \/ confirmDeleteRule(c) \/ handleTestNotification(c)
         \/ RuleCallFails(c) \/ RuleRefused(c)
  PROVE  AlertsPageInv'
<1>0. /\ alertWork \in [AlertCalls -> AlertWorks] /\ isModalOpen \in BOOLEAN
      /\ ruleToDelete \in IdsUsed \cup {0} /\ ~(isModalOpen /\ ruleToDelete # 0)
      /\ rulesData.rows \subseteq IdsUsed /\ IdsUsed \subseteq RuleIds
  BY AlertsPageTypes DEF AlertsPageInv, KnownRules, Showing
<1>1. ASSUME NEW w \in AlertWorks, w.pc # "done", w.kind \in {"toggle", "delete"} => w.id \in IdsUsed,
             alertWork' = [alertWork EXCEPT ![c] = w],
             UNCHANGED <<alertVars, rulesData, isModalOpen, fetchedFor, gone>>,
             ruleToDelete' \in {0, ruleToDelete}
      PROVE  AlertsPageInv'
  <2>1. /\ alertWork' \in [AlertCalls -> AlertWorks] /\ alertWork'[c] = w
        /\ \A d \in AlertCalls \ {c} : alertWork'[d] = alertWork[d]
    BY <1>0, <1>1
  <2> QED
    BY <1>0, <1>1, <2>1, AlertsFormStep
<1>2. ASSUME NEW posted \in FormRules, handleCreateRule(c, posted) PROVE AlertsPageInv'
  BY <1>1, <1>2, AlertWorkIs DEF handleCreateRule, AskFor
<1>3. ASSUME NEW id \in RuleIds, handleToggleRule(c, id) PROVE AlertsPageInv'
  <2>1. id \in IdsUsed /\ NoForm \in FormRules
    BY <1>0, <1>3, AlertWorkIs, FormAssumption DEF handleToggleRule
  <2> QED
    <3>1. /\ AlertWork("toggle", NoForm, id) \in AlertWorks
          /\ AlertWork("toggle", NoForm, id).pc = "sent" /\ AlertWork("toggle", NoForm, id).id = id
      BY <2>1, AlertWorkIs
    <3> QED
      BY <1>1, <1>3, <2>1, <3>1 DEF handleToggleRule, AskFor
<1>4. CASE confirmDeleteRule(c)
  <2>1. ruleToDelete \in IdsUsed /\ ruleToDelete \in RuleIds /\ NoForm \in FormRules
    BY <1>0, <1>4, AlertWorkIs, FormAssumption DEF confirmDeleteRule
  <2> QED
    <3>1. /\ AlertWork("delete", NoForm, ruleToDelete) \in AlertWorks
          /\ AlertWork("delete", NoForm, ruleToDelete).pc = "sent"
          /\ AlertWork("delete", NoForm, ruleToDelete).id = ruleToDelete
      BY <2>1, AlertWorkIs
    <3> QED
      BY <1>1, <1>4, <2>1, <3>1 DEF confirmDeleteRule, AskFor
<1>5. CASE handleTestNotification(c)
  <2>1. NoForm \in FormRules
    BY AlertWorkIs, FormAssumption
  <2> QED
    BY <1>1, <1>5, <2>1, AlertWorkIs DEF handleTestNotification, AskFor
<1>6. CASE RuleCallFails(c)
  <2> DEFINE w == [alertWork[c] EXCEPT !.pc = "failed"]
  <2>1. alertWork' = [alertWork EXCEPT ![c] = w]
    BY <1>0, <1>6 DEF RuleCallFails, Settle
  <2>2. alertWork[c] \in AlertWorks
    BY <1>0
  <2>3. w \in AlertWorks /\ w.pc = "failed" /\ w.kind = alertWork[c].kind /\ w.id = alertWork[c].id
    BY <2>2 DEF AlertWorks
  <2> HIDE DEF w
  <2> QED
    BY <1>1, <1>6, <2>1, <2>3 DEF RuleCallFails, AlertsPageInv, KnownRules
<1>7. CASE RuleRefused(c)
  BY <1>1, <1>7, AlertWorkIs, FormAssumption DEF RuleRefused
<1> QED
  BY <1>2, <1>3, <1>4, <1>5, <1>6, <1>7

LEMMA DialogStep ==
  ASSUME AlertsPageInv, AddRule \/ CloseDialogs \/ \E id \in RuleIds : AskDelete(id)
  PROVE  AlertsPageInv'
<1>0. /\ alertWork \in [AlertCalls -> AlertWorks] /\ isModalOpen \in BOOLEAN
      /\ ruleToDelete \in IdsUsed \cup {0} /\ rulesData.rows \subseteq IdsUsed
  BY AlertsPageTypes DEF AlertsPageInv, KnownRules, Showing
<1>1. /\ UNCHANGED <<alertVars, rulesData, alertWork, fetchedFor, gone>>
      /\ isModalOpen' \in BOOLEAN /\ ruleToDelete' \in IdsUsed \cup {0}
      /\ ~(isModalOpen' /\ ruleToDelete' # 0)
  <2>1. CASE AddRule
    BY <1>0, <2>1 DEF AddRule, NoDialogOpen
  <2>2. CASE CloseDialogs
    BY <2>2 DEF CloseDialogs
  <2>3. ASSUME NEW id \in RuleIds, AskDelete(id)
        PROVE  /\ UNCHANGED <<alertVars, rulesData, isModalOpen, alertWork, fetchedFor, gone>>
               /\ ruleToDelete' = id /\ id \in IdsUsed /\ ~isModalOpen
    BY <1>0, <2>3 DEF AskDelete, NoDialogOpen
  <2> QED
    BY <1>0, <2>1, <2>2, <2>3
<1> QED
  BY <1>0, <1>1, AlertsFormStep

LEMMA RuleAnsweredStep ==
  ASSUME AlertsPageInv, NEW c \in AlertCalls, RuleAnswered(c)
  PROVE  AlertsPageInv'
<1> DEFINE w == alertWork[c]
<1>0. /\ rulesData \in SwrKeys(SUBSET RuleIds, {"mutate"}) /\ isModalOpen \in BOOLEAN
      /\ alertWork \in [AlertCalls -> AlertWorks] /\ NoAlertWork \in AlertWorks
      /\ gone \subseteq IdsUsed \ (Showing(rulesData) \cup ShownRules)
      /\ Showing(rulesData) \subseteq IdsUsed
  BY AlertsPageTypes, AlertWorkIs, FormAssumption DEF AlertsPageInv, DeletedUnlisted, KnownRules
<1>1. /\ w.pc = "done" /\ UNCHANGED <<alertVars, gone>>
      /\ isModalOpen' = (isModalOpen /\ w.kind # "create") /\ ruleToDelete' \in {0, ruleToDelete}
      /\ alertWork' = [alertWork EXCEPT ![c] = NoAlertWork]
  BY DEF RuleAnswered
<1>2. isModalOpen' \in BOOLEAN /\ (isModalOpen' => isModalOpen)
  BY <1>0, <1>1
<1>3. /\ alertWork' \in [AlertCalls -> AlertWorks]
      /\ \A d \in AlertCalls : alertWork'[d] = alertWork[d] \/ alertWork'[d] = NoAlertWork
  BY <1>0, <1>1
<1>4. fetchedFor' \subseteq fetchedFor \cup DeletedRules
  BY <1>1 DEF RuleAnswered, DeletedRules
<1>5. CASE w.kind = "test"
  <2>1. UNCHANGED <<rulesData, fetchedFor>>
    BY <1>5 DEF RuleAnswered
  <2>2. RulesGetIsNew'
    BY <2>1 DEF AlertsPageInv, RulesGetIsNew
  <2> QED
    BY <1>0, <1>1, <1>2, <1>3, <1>4, <2>1, <2>2, RulesSwrStep
<1>6. CASE w.kind # "test"
  <2>1. rulesData' = Revalidate(rulesData, "mutate")
    BY <1>6 DEF RuleAnswered
  <2>2. /\ rulesData' \in SwrKeys(SUBSET RuleIds, {"mutate"})
        /\ rulesData'.get = "asked" /\ rulesData'.by = "mutate"
        /\ Showing(rulesData') \subseteq Showing(rulesData)
    BY <1>0, <2>1, RevalidateIs
  <2>3. RulesGetIsNew'
    BY <2>2 DEF RulesGetIsNew
  <2> QED
    BY <1>0, <1>1, <1>2, <1>3, <1>4, <2>2, <2>3, RulesSwrStep
<1> QED
  BY <1>5, <1>6

LEMMA RulesSwr ==
  ASSUME AlertsPageInv, PollRules \/ ReadRules \/ RulesArrive \/ RulesLost
  PROVE  AlertsPageInv'
<1>0. /\ rulesData \in SwrKeys(SUBSET RuleIds, {"mutate"}) /\ isModalOpen \in BOOLEAN
      /\ alertWork \in [AlertCalls -> AlertWorks]
      /\ gone \subseteq IdsUsed \ (Showing(rulesData) \cup ShownRules)
      /\ fetchedFor \subseteq IdsUsed \ ShownRules /\ ShownRules \in SUBSET RuleIds
  BY AlertsPageTypes DEF AlertsPageInv, DeletedUnlisted
<1>1. UNCHANGED <<alertVars, isModalOpen, ruleToDelete, alertWork>>
  BY DEF PollRules, ReadRules, RulesArrive, RulesLost
<1>2. CASE PollRules
  <2>1. /\ rulesData.get = "none" /\ rulesData' = Revalidate(rulesData, "poll")
        /\ UNCHANGED <<fetchedFor, gone>>
    BY <1>2 DEF PollRules
  <2>2. /\ rulesData' \in SwrKeys(SUBSET RuleIds, {"mutate"})
        /\ Showing(rulesData') \subseteq Showing(rulesData)
    BY <1>0, <2>1, RevalidateIs
  <2>3. RulesGetIsNew'
    BY <2>1 DEF AlertsPageInv, RulesGetIsNew
  <2> QED
    BY <1>0, <1>1, <2>1, <2>2, <2>3, RulesSwrStep
<1>3. CASE ReadRules
  <2>1. /\ rulesData.get = "asked" /\ rulesData' = Answered(rulesData, ShownRules)
        /\ UNCHANGED <<fetchedFor, gone>>
    BY <1>3 DEF ReadRules
  <2>2. /\ rulesData' \in SwrKeys(SUBSET RuleIds, {"mutate"})
        /\ rulesData'.by = rulesData.by /\ rulesData'.get = "answered" /\ rulesData'.answer = ShownRules
        /\ Showing(rulesData') \subseteq Showing(rulesData) \cup ShownRules
    BY <1>0, <2>1, AnsweredIs
  <2>3. RulesGetIsNew'
    BY <1>0, <2>1, <2>2 DEF AlertsPageInv, RulesGetIsNew
  <2> QED
    BY <1>0, <1>1, <2>1, <2>2, <2>3, RulesSwrStep
<1>4. CASE RulesArrive
  <2>1. /\ rulesData.get = "answered" /\ rulesData' = Arrived(rulesData) /\ fetchedFor' = {}
        /\ gone' = IF rulesData.by = "mutate" THEN gone \cup fetchedFor ELSE gone
    BY <1>4 DEF RulesArrive
  <2>2. /\ rulesData' \in SwrKeys(SUBSET RuleIds, {"mutate"})
        /\ Showing(rulesData') \subseteq Showing(rulesData) /\ Showing(rulesData') = rulesData.answer
    BY <1>0, <2>1, ArrivedIs
  <2>3. fetchedFor \cap rulesData.answer = {}
    BY <2>1 DEF AlertsPageInv, RulesGetIsNew
  <2>4. RulesGetIsNew'
    BY <2>1 DEF RulesGetIsNew
  <2>5. gone' \subseteq IdsUsed \ (Showing(rulesData') \cup ShownRules)
    BY <1>0, <2>1, <2>2, <2>3
  <2> QED
    BY <1>0, <1>1, <2>1, <2>2, <2>4, <2>5, RulesSwrStep
<1>5. CASE RulesLost
  <2>1. /\ rulesData' = Forgotten(rulesData) /\ fetchedFor' = {} /\ UNCHANGED gone
    BY <1>5 DEF RulesLost
  <2>2. /\ rulesData' \in SwrKeys(SUBSET RuleIds, {"mutate"})
        /\ Showing(rulesData') \subseteq Showing(rulesData)
    BY <1>0, <2>1, ForgottenIs
  <2>3. RulesGetIsNew'
    BY <2>1 DEF RulesGetIsNew
  <2> QED
    BY <1>0, <1>1, <2>1, <2>2, <2>3, RulesSwrStep
<1> QED
  BY <1>2, <1>3, <1>4, <1>5

LEMMA AlertsPageStep ==
  AlertsPageInv /\ [AlertsPageNext]_alertsPageVars => AlertsPageInv'
<1> SUFFICES ASSUME AlertsPageInv, [AlertsPageNext]_alertsPageVars PROVE AlertsPageInv'
  OBVIOUS
<1>1. CASE UNCHANGED alertsPageVars
  <2>1. UNCHANGED alertVars /\ UNCHANGED alertPageVars
    BY <1>1 DEF alertsPageVars
  <2>2. AlertInv' /\ UNCHANGED <<rules, edits>>
    BY <2>1, AlertSteps DEF AlertsPageInv, alertVars
  <2> QED
    BY <2>1, <2>2 DEF AlertsPageInv, AlertsPageTypeOK, RulesApart, IdsUsed, ShownRules, KnownRules,
       DeletedUnlisted, DeletedRules, RulesGetIsNew, alertPageVars
<1> QED
  BY <1>1, DialogStep, HandlerStep, ServeRuleStep, RuleAnsweredStep, AlertsServiceStep, RulesSwr DEF AlertsPageNext

\* A rule deleted on the alerts page, and the list fetched again for it, is not
\* listed any more, whatever GETs, creations and checks were under way.
THEOREM DeletedRulesAreOff ==
  AlertsPageSpec => [](AlertTypeOK /\ AlertsPageTypeOK /\ DeletedRulesStayOff)
<1>1. AlertsPageInv => AlertTypeOK /\ AlertsPageTypeOK /\ DeletedRulesStayOff
  BY DEF AlertsPageInv, AlertInv, DeletedUnlisted, DeletedRulesStayOff, Showing
<1> QED
  BY <1>1, AlertsPageInitially, AlertsPageStep, PTL DEF AlertsPageSpec

-----------------------------------------------------------------------------
(* The settings page and the configuration behind it.                       *)

\* What the hash has is a number of the range, or is misread.
ConfigInv == ConfigTypeOK /\ ConfigInRange
HashSettings == {v \in Settings : Misread(v) \/ Read(v) \in InRange}

LEMMA SettingsAre ==
  /\ \A v \in Settings : Read(v) \in Numbers \cup {NotANumber}
  /\ \A v \in Settings : Accepts(v) => v \in HashSettings
  /\ \A n \in Numbers : Numeral(n) \in Settings
  /\ NullSent \in Settings /\ Numeral(Default) \in HashSettings
<1>1. \A v \in Settings : v.compared \in Numbers \cup {NotANumber} /\ v.read \in Numbers \cup {NotANumber}
  BY ConfigAssumption DEF Settings, Numeral, NullSent, Setting, Numbers
<1>2. ASSUME NEW v \in Settings, Accepts(v) PROVE v \in HashSettings
  BY <1>2 DEF Accepts, HashSettings, Misread, Read
<1>3. Numeral(Default) \in HashSettings
  BY ConfigAssumption DEF HashSettings, Settings, Read, Numeral, Setting, InRange, Numbers
<1> QED
  BY <1>1, <1>2, <1>3 DEF Read, Settings

LEMMA ConfigIsRead ==
  ASSUME hash \in [Fields -> Settings]
  PROVE  GetConfig \in Forms
BY SettingsAre DEF GetConfig, Forms

\* A save that succeeds writes what the controller accepts.
LEMMA PutInRange ==
  ASSUME ConfigTypeOK, \A f \in Fields : hash[f] \in HashSettings,
         NEW fs \in SUBSET Fields, NEW updates \in [fs -> Settings],
         \A f \in fs : Accepts(updates[f]), Put(updates)
  PROVE  /\ hash' \in [Fields -> Settings]
         /\ \A f \in Fields : hash'[f] \in HashSettings
<1>1. DOMAIN updates = fs
  OBVIOUS
<1>2. ASSUME NEW f \in Fields
      PROVE  (IF f \in DOMAIN updates THEN updates[f] ELSE hash[f]) \in HashSettings
  BY <1>1, SettingsAre
<1>3. HashSettings \subseteq Settings
  BY DEF HashSettings
<1> QED
  BY <1>2, <1>3 DEF Put

LEMMA ConfigInitially ==
  ConfigInit => ConfigInv
<1> SUFFICES ASSUME ConfigInit PROVE ConfigInv
  OBVIOUS
<1>2. \A f \in Fields : hash[f] \in HashSettings
  BY SettingsAre DEF ConfigInit
<1>1. ConfigTypeOK
  BY <1>2 DEF ConfigInit, ConfigTypeOK, HashSettings
<1>3. ConfigInRange
  BY <1>2 DEF ConfigInRange, ConfigInit, HashSettings
<1> QED
  BY <1>1, <1>3 DEF ConfigInv

LEMMA ConfigStep ==
  ConfigInv /\ [ConfigNext]_configVars => ConfigInv'
<1> SUFFICES ASSUME ConfigInv, [ConfigNext]_configVars PROVE ConfigInv'
  OBVIOUS
<1> USE DEF ConfigInv
<1>0. /\ hash \in [Fields -> Settings]
      /\ \A f \in Fields : hash[f] \in HashSettings
      /\ form # Nothing => \A f \in Fields \ typed : form[f] = seen[f]
  BY DEF ConfigTypeOK, ConfigInRange, HashSettings
<1>a. ASSUME /\ ConfigTypeOK'
             /\ \A f \in Fields : hash'[f] \in HashSettings
             /\ form' # Nothing => \A f \in Fields \ typed' : form'[f] = seen'[f]
      PROVE  ConfigInv'
  <2>1. \A f \in Fields : Misread(hash'[f]) \/ Read(hash'[f]) \in InRange
    BY <1>a DEF HashSettings
  <2>2. ConfigInRange'
    BY <1>a, <2>1 DEF ConfigInRange, Misread, Read
  <2> QED
    BY <1>a, <2>2
<1>1. ASSUME NEW role, NEW fs \in SUBSET Fields, NEW updates \in [fs -> Settings],
             ApiPatch(role, updates)
      PROVE  ConfigInv'
  <2>1. /\ hash' \in [Fields -> Settings]
        /\ \A f \in Fields : hash'[f] \in HashSettings
    BY <1>0, <1>1, PutInRange DEF ApiPatch
  <2>2. ConfigTypeOK'
    BY <1>1, <2>1 DEF ApiPatch, ConfigTypeOK
  <2> QED
    BY <1>0, <1>1, <1>a, <2>1, <2>2 DEF ApiPatch
<1>2. CASE PollConfig
  <2>1. GetConfig \in Forms
    BY <1>0, ConfigIsRead
  <2>2. ConfigTypeOK'
    BY <1>2, <2>1 DEF PollConfig, ConfigTypeOK
  <2> QED
    BY <1>0, <1>2, <1>a, <2>2 DEF PollConfig
<1>3. CASE Refresh
  <2>1. saving' \in {"no", "patch", "mutate"}
    BY <1>3 DEF Refresh, Revalidated, ConfigTypeOK
  <2>3. ConfigTypeOK'
    BY <1>3, <2>1 DEF Refresh, Revalidated, ConfigTypeOK
  <2>4. form' # Nothing => \A f \in Fields \ typed' : form'[f] = seen'[f]
    BY <1>0, <1>3 DEF Refresh
  <2> QED
    BY <1>0, <1>3, <1>a, <2>3, <2>4 DEF Refresh
<1>4. CASE RefreshFails
  <2>1. ConfigTypeOK'
    BY <1>4 DEF RefreshFails, Revalidated, ConfigTypeOK
  <2> QED
    BY <1>0, <1>4, <1>a, <2>1 DEF RefreshFails
<1>5. ASSUME NEW f \in Fields, NEW v \in Numbers, Type(f, v) PROVE ConfigInv'
  <2>1. form \in Forms /\ form' \in Forms
    BY <1>5 DEF Type, ConfigTypeOK, Forms
  <2>2. ConfigTypeOK'
    BY <1>5, <2>1 DEF Type, ConfigTypeOK
  <2>3. \A g \in Fields \ typed' : form'[g] = seen'[g]
    BY <1>0, <1>5, <2>1 DEF Type, Forms
  <2> QED
    BY <1>0, <1>5, <1>a, <2>2, <2>3 DEF Type
<1>6. CASE SaveConfig
  <2>1. ConfigTypeOK'
    BY <1>6 DEF SaveConfig, ConfigTypeOK
  <2> QED
    BY <1>0, <1>6, <1>a, <2>1 DEF SaveConfig
<1>8. ASSUME body \in Forms, \A f \in Fields : Accepts(Sent[f]), Put(Sent)
      PROVE  /\ hash' \in [Fields -> Settings]
             /\ \A f \in Fields : hash'[f] \in HashSettings
  <2>1. Sent \in [Fields -> Settings]
    BY <1>8, SettingsAre DEF Sent, Forms
  <2> QED
    BY <1>0, <1>8, <2>1, PutInRange
<1>9. CASE SavePatch
  <2>1. /\ hash' \in [Fields -> Settings]
        /\ \A f \in Fields : hash'[f] \in HashSettings
    BY <1>0, <1>8, <1>9 DEF SavePatch, ConfigTypeOK
  <2>2. ConfigTypeOK'
    BY <1>9, <2>1 DEF SavePatch, ConfigTypeOK
  <2> QED
    BY <1>0, <1>9, <1>a, <2>1, <2>2 DEF SavePatch
<1>10. CASE SaveFails
  <2>1. /\ hash' \in [Fields -> Settings]
        /\ \A f \in Fields : hash'[f] \in HashSettings
    BY <1>0, <1>8, <1>10 DEF SaveFails, ConfigTypeOK
  <2>2. ConfigTypeOK'
    BY <1>10, <2>1 DEF SaveFails, ConfigTypeOK
  <2> QED
    BY <1>0, <1>10, <1>a, <2>1, <2>2 DEF SaveFails
<1>11. CASE UNCHANGED configVars
  BY <1>11, <1>0 DEF configVars, ConfigTypeOK, ConfigInRange
<1> QED
  BY <1>1, <1>2, <1>3, <1>4, <1>5, <1>6, <1>9, <1>10, <1>11 DEF ConfigNext

\* Whatever an administrator saves or another client patches, readers of the Redis
\* hash find numbers of the accepted range in it, unless an API client has sent a
\* text that counts as another number when it is read than when it was compared.
THEOREM ConfigStaysInRange ==
  ConfigSpec => [](ConfigTypeOK /\ ConfigInRange)
<1>1. ConfigInv => ConfigTypeOK /\ ConfigInRange
  BY DEF ConfigInv
<1> QED
  BY <1>1, ConfigInitially, ConfigStep, PTL DEF ConfigSpec

LEMMA OnlyRefreshForgets ==
  [ConfigNext]_configVars => [\A f \in typed : f \notin typed' => seen' # seen]_configVars
<1> SUFFICES ASSUME ConfigNext, NEW f \in typed, f \notin typed'
             PROVE  seen' # seen
  OBVIOUS
<1>1. CASE Refresh
  BY <1>1 DEF Refresh
<1>2. CASE UNCHANGED typed
  BY <1>2
<1>3. CASE \E g \in Fields, v \in Numbers : Type(g, v)
  BY <1>3 DEF Type
<1> QED
  BY <1>1, <1>2, <1>3 DEF ConfigNext, ApiPatch, PollConfig, RefreshFails, SaveConfig,
     SavePatch, SaveFails

\* The settings page's 15 s poll leaves a field that is being typed alone, as long
\* as it brings the configuration that the page has seen already.
THEOREM EditsAreKept ==
  ConfigSpec => EditsSurvivePolls
<1> QED
  BY OnlyRefreshForgets, PTL DEF ConfigSpec, EditsSurvivePolls

-----------------------------------------------------------------------------
(* The overview.                                                            *)

\* Only rounds that have begun wait for a part.
OverviewInv ==
    /\ OverviewTypeOK
    /\ \A i \in Rounds : UnderWay(i) => i <= roundsBegun
    /\ PanelsAgree

LEMMA OverviewInitially ==
  OverviewInit => OverviewInv
BY OverviewAssumption DEF OverviewInit, OverviewInv, OverviewTypeOK, PanelsAgree, UnderWay, Rounds

LEMMA OverviewStep ==
  OverviewInv /\ [OverviewNext]_overviewVars => OverviewInv'
<1> SUFFICES ASSUME OverviewInv, [OverviewNext]_overviewVars PROVE OverviewInv'
  OBVIOUS
<1> USE OverviewAssumption DEF OverviewInv
<1>1. CASE fetchData
  <2>1. OverviewTypeOK'
    BY <1>1 DEF fetchData, OverviewTypeOK, Rounds
  <2>2. (\A i \in Rounds : UnderWay(i) => i <= roundsBegun)'
    BY <1>1 DEF fetchData, OverviewTypeOK, Rounds, UnderWay
  <2> QED
    BY <1>1, <2>1, <2>2 DEF fetchData, PanelsAgree
<1>2. ASSUME NEW i \in Rounds, NEW p \in Panels, PanelArrives(i, p) PROVE OverviewInv'
  <2>1. /\ i \in 0..roundsBegun
        /\ waitingFor' \in [Rounds -> SUBSET Panels]
        /\ \A j \in Rounds : waitingFor'[j] \subseteq waitingFor[j]
    BY <1>2 DEF PanelArrives, OverviewTypeOK, Rounds, UnderWay
  <2>2. OverviewTypeOK'
    BY <1>2, <2>1 DEF PanelArrives, OverviewTypeOK
  <2>3. (\A j \in Rounds : UnderWay(j) => j <= roundsBegun)'
    BY <1>2, <2>1 DEF PanelArrives, UnderWay
  <2> QED
    BY <1>2, <2>2, <2>3 DEF PanelArrives, PanelsAgree
<1>3. ASSUME NEW i \in Rounds, RoundFails(i) PROVE OverviewInv'
  BY <1>3 DEF RoundFails, OverviewTypeOK, UnderWay, PanelsAgree
<1>4. CASE UNCHANGED overviewVars
  BY <1>4 DEF overviewVars, OverviewTypeOK, UnderWay, PanelsAgree
<1> QED
  BY <1>1, <1>2, <1>3, <1>4 DEF OverviewNext

\* The overview's panels show the answers of one round of fetchData.
THEOREM OverviewShowsOneRound ==
  OverviewSpec => [](OverviewTypeOK /\ PanelsAgree)
<1>1. OverviewInv => OverviewTypeOK /\ PanelsAgree
  BY DEF OverviewInv
<1> QED
  BY <1>1, OverviewInitially, OverviewStep, PTL DEF OverviewSpec

-----------------------------------------------------------------------------
(* The run of all of them: each behaves as it does alone.                   *)

LEMMA SideBySide ==
    DashboardSpec => /\ ClientSpec /\ StoragePageSpec /\ KeysPageSpec /\ CdnPageSpec
                     /\ AlertsPageSpec /\ ConfigSpec /\ OverviewSpec
<1>1. DashboardInit => /\ ClientInit /\ StoragePageInit /\ KeysPageInit /\ CdnPageInit
                       /\ AlertsPageInit /\ ConfigInit /\ OverviewInit
  BY DEF DashboardInit
<1>2. ASSUME [DashboardNext]_dashboardVars
      PROVE  /\ [ClientNext]_clientVars /\ [StoragePageNext]_storageVars /\ [KeysPageNext]_keyVars
             /\ [CdnPageNext]_purgeVars /\ [AlertsPageNext]_alertsPageVars
             /\ [ConfigNext]_configVars /\ [OverviewNext]_overviewVars
  <2>1. CASE UNCHANGED dashboardVars
    BY <2>1 DEF dashboardVars
  <2>2. CASE DashboardNext
    BY <2>2 DEF DashboardNext, Client_, Storage_, Keys_, Cdn_, AlertsPage_, Settings_, Overview_
  <2> QED
    BY <1>2, <2>1, <2>2
<1> QED
  BY <1>1, <1>2, PTL DEF DashboardSpec, ClientSpec, StoragePageSpec, KeysPageSpec, CdnPageSpec,
     AlertsPageSpec, ConfigSpec, OverviewSpec

\* Whichever part the run picks keeps its types.
THEOREM DashboardTyped == DashboardSpec => []DashboardTypeOK
<1> DEFINE Part == part \in {"client", "storage", "keys", "cdn", "alerts", "settings", "overview"}
<1>1. DashboardInit => Part
  BY DEF DashboardInit
<1>2. Part /\ [DashboardNext]_dashboardVars => Part'
  BY DEF DashboardNext, dashboardVars
<1>3. /\ Part /\ ClientTypeOK /\ StoragePageTypeOK /\ KeysPageTypeOK /\ CdnPageTypeOK
      /\ AlertTypeOK /\ AlertsPageTypeOK /\ ConfigTypeOK /\ OverviewTypeOK
      => DashboardTypeOK
  BY DEF DashboardTypeOK
<1> HIDE DEF Part
<1> QED
  BY <1>1, <1>2, <1>3, SideBySide, ClientTyped, StorageStaysTrue, RevokedKeysStayOff, PurgesAreListed,
     DeletedRulesAreOff, ConfigStaysInRange, OverviewShowsOneRound, PTL DEF DashboardSpec

\* What the run checks of the pages: nothing they said to be gone comes back, a
\* purge is listed until enough newer ones are, dialogs keep their subject, settings
\* stay in range but for misread texts.
THEOREM DashboardStaysTrue ==
    DashboardSpec => [](PagesStayTrue /\ DialogKeepsItsBucket /\ ConfigInRange)
<1>1. /\ AnnouncedStayGone /\ RevokedStayOff /\ DeletedRulesStayOff /\ PurgesStayListed /\ PanelsAgree
      => PagesStayTrue
  BY DEF PagesStayTrue
<1> QED
  BY <1>1, SideBySide, StorageStaysTrue, RevokedKeysStayOff, DeletedRulesAreOff, PurgesAreListed,
     ConfigStaysInRange, OverviewShowsOneRound, PTL

\* What the run checks of their steps: no refusal of a session that is neither spoilt
\* nor ended, no way back in after a sign-out, no secret twice, no edit lost to a poll
\* that brings nothing new.
THEOREM DashboardSteps ==
    DashboardSpec => RefusedOnlyIfSpoilt /\ SignedOutStaysOut /\ ShownOnce /\ EditsSurvivePolls
  BY SideBySide, RefusalsAreExplained, SignOutIsFinal, SecretsShownOnce, EditsAreKept, PTL
=============================================================================
