----------------------------- MODULE Resilience -----------------------------
(***************************************************************************)
(* The gateway's way to the services: ProxyService, the circuit breakers   *)
(* it fires (opossum), their reset endpoint, and the health check, which   *)
(* asks the services one after the other and looks at their breakers.      *)
(***************************************************************************)
EXTENDS Integers, Sequences, FiniteSets

CONSTANTS
    ProxyCalls,     \* requests that may be under way together
    Proxied,        \* services with a proxy
    Unknown,        \* names without one
    InitialBreakers, \* services whose breaker onModuleInit creates
    Checked,        \* the services of the health check, in order
    VolumeThreshold, \* fires before a breaker may open
    MaxFires        \* bound: fires in one rolling window

ASSUME ResilienceAssumption ==
    /\ VolumeThreshold \in Nat \ {0} /\ MaxFires \in Nat
    /\ InitialBreakers \cap Unknown = {}
    /\ Checked \in Seq(STRING)

Services == Proxied \cup InitialBreakers \cup {Checked[i] : i \in DOMAIN Checked}

VARIABLES
    serviceUp, \* services that answer
    breakers,  \* the map of breakers: services that have one
    circuit,   \* state of each breaker
    fired,     \* fires the rolling window of each has counted
    call,      \* the requests under way
    answers,   \* answers given to each of them
    healthStep,  \* the service that the health check is at
    breakerSeen, \* the state of its breaker, once that is read
    isDegraded,  \* what the check has found so far
    wasUp      \* services that answered at some time during the check

resilienceVars == <<serviceUp, breakers, circuit, fired, call, answers,
                    healthStep, breakerSeen, isDegraded, wasUp>>
healthVars == <<healthStep, breakerSeen, isDegraded, wasUp>>

Nobody == [service |-> "none", unsettled |-> FALSE]

ResilienceTypeOK ==
    /\ serviceUp \subseteq Services /\ wasUp \subseteq Services
    /\ breakers \subseteq Services
    /\ circuit \in [Services -> {"CLOSED", "OPEN", "HALF_OPEN"}]
    /\ fired \in [Services -> 0..MaxFires]
    /\ \A s \in Services \ breakers : circuit[s] = "CLOSED" /\ fired[s] = 0
    /\ call \in [ProxyCalls -> [service : Services \cup {"none"}, unsettled : BOOLEAN]]
    \* no request is answered twice: the breaker's timeout never meets one that
    \* the proxy is still answering
    /\ answers \in [ProxyCalls -> 0..1]
    /\ healthStep \in 0..Len(Checked) + 1 /\ isDegraded \in BOOLEAN
    /\ breakerSeen \in {"none", "CLOSED", "OPEN", "HALF_OPEN"}

ResilienceInit ==
    /\ serviceUp = Services
    /\ breakers = InitialBreakers
    /\ circuit = [s \in Services |-> "CLOSED"]
    /\ fired = [s \in Services |-> 0]
    /\ call = [c \in ProxyCalls |-> Nobody]
    /\ answers = [c \in ProxyCalls |-> 0]
    /\ healthStep = 0 /\ breakerSeen = "none" /\ isDegraded = FALSE /\ wasUp = {}
-----------------------------------------------------------------------------
(* opossum, as its options ask for.                                         *)

Opens(s, failures) ==
    /\ failures > 0
    /\ circuit[s] = "HALF_OPEN" \/ (fired[s] >= VolumeThreshold /\ 2 * failures > fired[s])

Succeeded(s) == IF circuit[s] = "HALF_OPEN" THEN "CLOSED" ELSE circuit[s]
-----------------------------------------------------------------------------
(* ProxyService.handle.                                                     *)

Free(c) == call[c] = Nobody
AnswerNow(c) == answers' = [answers EXCEPT ![c] = 1]

\* No proxy of that name: 404.
HandleUnknown(c, s) ==
    /\ Free(c) /\ s \notin Proxied
    /\ AnswerNow(c)
    /\ UNCHANGED <<serviceUp, breakers, circuit, fired, call, healthVars>>

\* Mutant: the promise stays open until the service has answered.
HandleAwaits(c, s) ==
    /\ Free(c) /\ fired[s] < MaxFires
    /\ breakers' = breakers \cup {s}
    /\ fired' = [fired EXCEPT ![s] = @ + 1]
    /\ IF circuit[s] = "OPEN"
       THEN AnswerNow(c) /\ UNCHANGED call
       ELSE /\ call' = [call EXCEPT ![c] = [service |-> s, unsettled |-> TRUE]]
            /\ answers' = [answers EXCEPT ![c] = 0]
    /\ UNCHANGED <<serviceUp, circuit, healthVars>>

\* execute creates the breaker it does not find.  An open one rejects: 503.
\* Else the proxy is called, and the promise resolves at once: a success,
\* whatever becomes of the request.
HandleKnown(c, s) ==
    /\ Free(c) /\ fired[s] < MaxFires
    /\ breakers' = breakers \cup {s}
    /\ fired' = [fired EXCEPT ![s] = @ + 1]
    /\ IF circuit[s] = "OPEN"
       THEN AnswerNow(c) /\ UNCHANGED <<circuit, call>>
       ELSE /\ circuit' = [circuit EXCEPT ![s] = Succeeded(s)]
            /\ call' = [call EXCEPT ![c] = [service |-> s, unsettled |-> FALSE]]
            /\ answers' = [answers EXCEPT ![c] = 0]
    /\ UNCHANGED <<serviceUp, healthVars>>

\* The proxy writes the service's answer, or its own about a service that is
\* down.
ProxyAnswers(c) ==
    /\ ~Free(c)
    /\ answers' = [answers EXCEPT ![c] = @ + 1]
    /\ call' = [call EXCEPT ![c] = Nobody]
    /\ UNCHANGED <<serviceUp, breakers, circuit, fired, healthVars>>

\* Time: promises still open reach the timeout and handle passes the error to
\* next; an open breaker becomes half-open; the window has rolled on.
TimeOut ==
    LET expired(s) == {c \in ProxyCalls : call[c].service = s /\ call[c].unsettled} IN
    /\ answers' = [c \in ProxyCalls |-> answers[c] + IF call[c].unsettled THEN 1 ELSE 0]
    /\ call' = [c \in ProxyCalls |-> [call[c] EXCEPT !.unsettled = FALSE]]
    /\ circuit' = [s \in Services |->
            IF circuit[s] = "OPEN" THEN "HALF_OPEN"
            ELSE IF Opens(s, Cardinality(expired(s))) THEN "OPEN" ELSE circuit[s]]
    /\ fired' = [s \in Services |-> 0]
    /\ UNCHANGED <<serviceUp, breakers, healthVars>>

\* POST /resilience/reset; 404 for a service without a breaker.
ResetBreaker(s) ==
    /\ s \in breakers
    /\ circuit' = [circuit EXCEPT ![s] = "CLOSED"]
    /\ UNCHANGED <<serviceUp, breakers, fired, call, answers, healthVars>>
-----------------------------------------------------------------------------
(* GET /health.                                                             *)

CheckBegin ==
    /\ healthStep \in {0, Len(Checked) + 1}
    /\ healthStep' = 1 /\ isDegraded' = FALSE /\ wasUp' = serviceUp
    /\ UNCHANGED <<serviceUp, breakers, circuit, fired, call, answers, breakerSeen>>

\* The breaker's state is read first; the service is then fetched, and awaited.
AskService ==
    /\ healthStep \in DOMAIN Checked /\ breakerSeen = "none"
    /\ breakerSeen' = circuit[Checked[healthStep]]
    /\ UNCHANGED <<serviceUp, breakers, circuit, fired, call, answers, healthStep, isDegraded, wasUp>>

\* Mutant: each service's result replaces the one before.
SeenLast(answered) == ~answered \/ breakerSeen # "CLOSED"

Seen(answered) == isDegraded \/ ~answered \/ breakerSeen # "CLOSED"

\* The fetch settles; a service that is up may still answer too late.
CheckService ==
    /\ breakerSeen # "none" /\ healthStep \in DOMAIN Checked
    /\ \E answered \in BOOLEAN :
         /\ answered => Checked[healthStep] \in serviceUp
         /\ isDegraded' = Seen(answered)
    /\ healthStep' = healthStep + 1 /\ breakerSeen' = "none"
    /\ UNCHANGED <<serviceUp, breakers, circuit, fired, call, answers, wasUp>>

\* External: a service goes down or comes up.
FlipService(s) ==
    /\ serviceUp' = IF s \in serviceUp THEN serviceUp \ {s} ELSE serviceUp \cup {s}
    /\ wasUp' = IF healthStep \in DOMAIN Checked THEN wasUp \cup serviceUp' ELSE wasUp
    /\ UNCHANGED <<breakers, circuit, fired, call, answers, healthStep, breakerSeen, isDegraded>>

ResilienceNext ==
    \/ \E c \in ProxyCalls :
        \/ \E s \in Unknown : HandleUnknown(c, s)
        \/ \E s \in Proxied : HandleKnown(c, s)
        \/ ProxyAnswers(c)
    \/ TimeOut \/ CheckBegin \/ AskService \/ CheckService
    \/ \E s \in Services : ResetBreaker(s) \/ FlipService(s)

ResilienceSpec == ResilienceInit /\ [][ResilienceNext]_resilienceVars
-----------------------------------------------------------------------------
\* A health check that says "healthy" counts no service that was down all the
\* time from the check's begin to its end, whatever went up or down in between;
\* that each was up at once, or when the check ends, it does not say.
HealthyMeansUp ==
    healthStep = Len(Checked) + 1 /\ ~isDegraded =>
        \A i \in DOMAIN Checked : Checked[i] \in wasUp
=============================================================================
