--------------------------- MODULE DashboardClient --------------------------
(***************************************************************************)
(* The session as the dashboard keeps it: the auth slice of each tab's     *)
(* store, its copy in localStorage (redux-persist), the API client's       *)
(* request with its refresh and retry, the login page, the layout's        *)
(* redirects and sign-out.                                                 *)
(*                                                                         *)
(* The auth service is external here: an access token may have expired     *)
(* whenever it is used, a refresh token is good once, as long as Redis     *)
(* holds it.  The tabs are of one browser, with one User-Agent, and so one *)
(* device to the service: a user's logins share the key                    *)
(* refresh:{user}:{device}.                                                *)
(***************************************************************************)
EXTENDS Integers, FiniteSets

CONSTANTS
    Tabs, Users,
    ApiCalls,    \* requests that may be under way together
    MaxSessions, MaxTokens \* bounds: logins, token pairs of one

ASSUME ClientAssumption ==
    {MaxSessions, MaxTokens} \subseteq Nat \ {0} /\ Tabs # {}

VARIABLES
    owner,   \* user of each session
    newest,  \* the token pair of each session that Redis holds, 0 if it holds none
    store,   \* auth slice of each tab
    persisted, \* auth slice in localStorage
    unsaved, \* tabs with a change redux-persist has not written
    page,    \* "login", or "dashboard" for every page below the layout
    apiCall, \* the requests under way
    spoilt,  \* sessions whose newest tokens somebody may not have
    ended    \* sessions the service has ended

serverVars == <<owner, newest, ended>>
tabVars == <<store, persisted, unsaved, page>>
clientVars == <<serverVars, tabVars, apiCall, spoilt>>

Sessions == 1..MaxSessions
\* A token pair: the session and how many it has had; user is what the slice
\* says next to it.
Slice(user, s, n) == [user |-> user, session |-> s, token |-> n]
SignedOut == Slice("none", 0, 0)
Slices == [user : Users, session : Sessions, token : 1..MaxTokens] \cup {SignedOut}

ApiCall(pc, t, u, s, n) == [pc |-> pc, tab |-> t, login |-> u, session |-> s, token |-> n]
NoApiCall == ApiCall("idle", CHOOSE t \in Tabs : TRUE, "none", 0, 0)

ClientTypeOK ==
    /\ owner \in [Sessions -> Users \cup {"none"}]
    /\ newest \in [Sessions -> 0..MaxTokens]
    /\ store \in [Tabs -> Slices] /\ persisted \in Slices
    /\ unsaved \subseteq Tabs
    /\ page \in [Tabs -> {"login", "dashboard"}]
    /\ apiCall \in [ApiCalls -> [pc : {"idle", "fetch", "refresh", "refreshed", "retry"},
                                 tab : Tabs, login : Users \cup {"none"},
                                 session : 0..MaxSessions, token : 0..MaxTokens]]
    /\ spoilt \subseteq Sessions /\ ended \subseteq Sessions

ClientInit ==
    /\ owner = [s \in Sessions |-> "none"] /\ newest = [s \in Sessions |-> 0]
    /\ store = [t \in Tabs |-> SignedOut] /\ persisted = SignedOut
    /\ unsaved = {} /\ page = [t \in Tabs |-> "login"]
    /\ apiCall = [c \in ApiCalls |-> NoApiCall]
    /\ spoilt = {} /\ ended = {}

EndCall(c) == apiCall' = [apiCall EXCEPT ![c] = NoApiCall]
Dispatch(t, slice) ==
    /\ store' = [store EXCEPT ![t] = slice]
    /\ unsaved' = unsaved \cup {t}
    /\ UNCHANGED persisted
-----------------------------------------------------------------------------
(* request.                                                                 *)

\* The login page sends credentials, a page below the layout anything else;
\* the tokens are read now.
Request(c, t, u) ==
    /\ apiCall[c].pc = "idle"
    /\ IF u = "none" THEN page[t] = "dashboard" /\ store[t] # SignedOut
                     ELSE page[t] = "login" /\ owner[MaxSessions] = "none"
    /\ apiCall' = [apiCall EXCEPT ![c] =
            ApiCall("fetch", t, u, store[t].session, store[t].token)]
    /\ spoilt' = spoilt \cup {s \in {store[t].session} :
            \E d \in ApiCalls : apiCall[d].pc = "refreshed" /\ apiCall[d].session = s}
    /\ UNCHANGED <<serverVars, tabVars>>

\* logout, and a new location: a Load, after a while.
Leave(c) ==
    /\ Dispatch(apiCall[c].tab, SignedOut)
    /\ EndCall(c)
    /\ UNCHANGED page

\* Success, unless of a login, or an error other than 401 before any refresh:
\* the caller's, and no change here.
Succeed(c) ==
    /\ apiCall[c].pc = "fetch" \/ (apiCall[c].pc = "retry" /\ apiCall[c].login = "none")
    /\ EndCall(c)
    /\ UNCHANGED <<serverVars, tabVars, spoilt>>

\* handleSubmit: the credentials are right.  The new token takes the place of
\* any that Redis holds for the user and this browser.
LoggedIn(c) ==
    LET t == apiCall[c].tab
        u == apiCall[c].login
        s == CHOOSE i \in Sessions : owner[i] = "none" /\ \A j \in 1..i - 1 : owner[j] # "none"
    IN
    /\ apiCall[c].pc \in {"fetch", "retry"} /\ u # "none"
    /\ owner[MaxSessions] = "none"
    /\ owner' = [owner EXCEPT ![s] = u]
    /\ newest' = [i \in Sessions |->
            IF i = s THEN 1 ELSE IF owner[i] = u THEN 0 ELSE newest[i]]
    /\ ended' = ended \cup {i \in Sessions : owner[i] = u}
    /\ Dispatch(t, Slice(u, s, 1))
    /\ page' = [page EXCEPT ![t] = "dashboard"]
    /\ EndCall(c)
    /\ UNCHANGED <<spoilt>>

\* 401: wrong credentials, or an expired access token.
Unauthorized(c) ==
    /\ apiCall[c].pc = "fetch"
    /\ IF apiCall[c].session # 0
       THEN apiCall' = [apiCall EXCEPT ![c].pc = "refresh"] /\ UNCHANGED tabVars
       ELSE Leave(c)
    /\ UNCHANGED <<serverVars, spoilt>>

\* Somebody besides call c has token pair n of session s.
AlsoHeld(c, s, n) ==
    \/ \E d \in ApiCalls \ {c} :
        apiCall[d].pc # "idle" /\ apiCall[d].session = s /\ apiCall[d].token = n
    \/ \E t \in Tabs \ {apiCall[c].tab} : store[t].session = s /\ store[t].token = n

\* External: the auth service renews the tokens.
Renew(c) ==
    LET s == apiCall[c].session
        n == apiCall[c].token
    IN
    /\ apiCall[c].pc = "refresh"
    /\ newest[s] = n /\ n < MaxTokens
    /\ newest' = [newest EXCEPT ![s] = n + 1]
    /\ spoilt' = IF AlsoHeld(c, s, n) THEN spoilt \cup {s} ELSE spoilt
    /\ apiCall' = [apiCall EXCEPT ![c].pc = "refreshed", ![c].token = n + 1]
    /\ UNCHANGED <<owner, ended, tabVars>>

\* Redis holds another refresh token, or none.
Refuse(c) ==
    /\ apiCall[c].pc = "refresh"
    /\ newest[apiCall[c].session] # apiCall[c].token
    /\ Leave(c)
    /\ UNCHANGED <<serverVars, spoilt>>

\* fetch throws, and so comes to the catch; the service may have done its part.
AnswerLost(c) ==
    /\ apiCall[c].pc \in {"refresh", "refreshed"}
    /\ spoilt' = IF apiCall[c].pc = "refreshed" THEN spoilt \cup {apiCall[c].session} ELSE spoilt
    /\ Leave(c)
    /\ UNCHANGED serverVars

\* Mutant: the store keeps the refresh token it has.
RefreshedAccessOnly(c) ==
    /\ apiCall[c].pc = "refreshed"
    /\ apiCall' = [apiCall EXCEPT ![c].pc = "retry"]
    /\ UNCHANGED <<serverVars, tabVars, spoilt>>

\* Mutant: the tokens are stored for nobody, too.
RefreshedForNobody(c) ==
    LET t == apiCall[c].tab IN
    /\ apiCall[c].pc = "refreshed"
    /\ Dispatch(t, Slice(store[t].user, apiCall[c].session, apiCall[c].token))
    /\ apiCall' = [apiCall EXCEPT ![c].pc = "retry"]
    /\ UNCHANGED <<serverVars, page, spoilt>>

\* The new tokens go to the store, next to the user it has by now, if any.
Refreshed(c) ==
    LET t == apiCall[c].tab IN
    /\ apiCall[c].pc = "refreshed"
    /\ IF store[t] # SignedOut
       THEN Dispatch(t, Slice(store[t].user, apiCall[c].session, apiCall[c].token))
       ELSE UNCHANGED <<store, persisted, unsaved>>
    /\ apiCall' = [apiCall EXCEPT ![c].pc = "retry"]
    /\ UNCHANGED <<serverVars, page, spoilt>>

\* The retried request fails, with any status: it counts as unauthorized.
RetryFails(c) ==
    /\ apiCall[c].pc = "retry"
    /\ Leave(c)
    /\ UNCHANGED <<serverVars, spoilt>>
-----------------------------------------------------------------------------
(* The tabs.                                                                *)

\* redux-persist writes the slice.
Save(t) ==
    /\ t \in unsaved
    /\ persisted' = store[t]
    /\ unsaved' = unsaved \ {t}
    /\ UNCHANGED <<serverVars, store, page, apiCall, spoilt>>

\* The tab loads a page, its own, /login of a Leave, or one the user asks for
\* ("/" sends on to one of the two): its requests are gone, and PersistGate
\* waits for the slice in localStorage.
Load(t, p) ==
    /\ store' = [store EXCEPT ![t] = persisted]
    /\ unsaved' = unsaved \ {t}
    /\ page' = [page EXCEPT ![t] = p]
    /\ apiCall' = [c \in ApiCalls |-> IF apiCall[c].tab = t THEN NoApiCall ELSE apiCall[c]]
    /\ spoilt' = IF persisted # SignedOut /\ newest[persisted.session] # persisted.token
                 THEN spoilt \cup {persisted.session} ELSE spoilt
    /\ UNCHANGED <<serverVars, persisted>>

\* handleLogout, which leaves requests under way alone.
SignOut(t) ==
    /\ page[t] = "dashboard" /\ store[t] # SignedOut
    /\ Dispatch(t, SignedOut)
    /\ page' = [page EXCEPT ![t] = "login"]
    /\ UNCHANGED <<serverVars, apiCall, spoilt>>

\* The layout's effect.
Redirect(t) ==
    /\ page[t] = "dashboard" /\ store[t] = SignedOut
    /\ page' = [page EXCEPT ![t] = "login"]
    /\ UNCHANGED <<serverVars, store, persisted, unsaved, apiCall, spoilt>>

\* External: the refresh token runs out, or the service evicts or logs out the
\* device, disables the account, or lets a refresh under way at a login take
\* the key.
EndSession(s) ==
    /\ newest[s] # 0
    /\ newest' = [newest EXCEPT ![s] = 0]
    /\ ended' = ended \cup {s}
    /\ UNCHANGED <<owner, tabVars, apiCall, spoilt>>

ClientNext ==
    \/ \E c \in ApiCalls :
        \/ \E t \in Tabs, u \in Users \cup {"none"} : Request(c, t, u)
        \/ Succeed(c) \/ LoggedIn(c) \/ Unauthorized(c)
        \/ Renew(c) \/ Refuse(c) \/ AnswerLost(c) \/ Refreshed(c) \/ RetryFails(c)
    \/ \E t \in Tabs :
        \/ Save(t) \/ SignOut(t) \/ Redirect(t)
        \/ \E p \in {"login", "dashboard"} : Load(t, p)
    \/ \E s \in Sessions : EndSession(s)

ClientSpec == ClientInit /\ [][ClientNext]_clientVars
-----------------------------------------------------------------------------
\* A refresh is refused only after two requests or two tabs had the same
\* tokens while one renewed them, a request began while the answer to a renewal
\* was on its way or that answer was lost, a page was loaded with tokens
\* renewed since, or the service ended the session: by another login of the
\* user in this browser, an eviction or an expiry.  One request after the
\* other in one tab is no reason.  This is about refusals only: a retry that
\* fails, for any reason, signs a good session out as well (RetryFails).
RefusedOnlyIfSpoilt ==
    [][\A c \in ApiCalls : Refuse(c) => apiCall[c].session \in spoilt \cup ended]_clientVars

\* After a sign-out nothing under way signs the tab in again: only a login
\* does, or loading a page when localStorage has a session.
SignedOutStaysOut ==
    [][\A t \in Tabs : store[t] = SignedOut /\ store'[t] # SignedOut =>
          \/ \E c \in ApiCalls : apiCall[c].login # "none" /\ apiCall[c].tab = t
          \/ store'[t] = persisted]_clientVars

=============================================================================
