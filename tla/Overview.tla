------------------------------ MODULE Overview ------------------------------
(***************************************************************************)
(* The dashboard's overview: every five seconds fetchData asks for all its *)
(* panels at once, whether or not the last round has come back, and shows  *)
(* the round of which the last part arrives.  Rounds are numbered.         *)
(***************************************************************************)
EXTENDS Integers

CONSTANTS
    Panels,      \* summary, recentEvents, rateData, cacheRatioSeries, edges
    MaxRounds    \* bound: rounds started

ASSUME OverviewAssumption == MaxRounds \in Nat

VARIABLES
    loading,     \* no round has ended yet
    panelRound,  \* the round whose part each panel shows; 0 is null
    roundsBegun, \* since the page was opened
    waitingFor   \* panels whose part each round still waits for

overviewVars == <<loading, panelRound, roundsBegun, waitingFor>>
Rounds == 1..MaxRounds
UnderWay(i) == waitingFor[i] # {}

OverviewTypeOK ==
    /\ loading \in BOOLEAN /\ roundsBegun \in 0..MaxRounds
    /\ panelRound \in [Panels -> 0..roundsBegun]
    /\ waitingFor \in [Rounds -> SUBSET Panels]

\* The page without data, as the first useState calls make it.
OverviewInit ==
    /\ loading = TRUE
    /\ panelRound = [p \in Panels |-> 0]
    /\ roundsBegun = 0
    /\ waitingFor = [i \in Rounds |-> {}]

\* fetchData, called by the effect and then by its timer.
fetchData ==
    /\ roundsBegun < MaxRounds
    /\ roundsBegun' = roundsBegun + 1
    /\ waitingFor' = [waitingFor EXCEPT ![roundsBegun'] = Panels]
    /\ UNCHANGED <<loading, panelRound>>

\* Promise.all: the last part of a round brings all of them to the screen,
\* that of an older round too.
PanelArrives(i, p) ==
    /\ p \in waitingFor[i]
    /\ waitingFor' = [waitingFor EXCEPT ![i] = @ \ {p}]
    /\ IF UnderWay(i)' THEN UNCHANGED <<loading, panelRound>>
       ELSE panelRound' = [q \in Panels |-> i] /\ loading' = FALSE
    /\ UNCHANGED roundsBegun

\* One part is refused: the round is over, and the panels stay as they were.
RoundFails(i) ==
    /\ UnderWay(i)
    /\ waitingFor' = [waitingFor EXCEPT ![i] = {}]
    /\ loading' = FALSE
    /\ UNCHANGED <<panelRound, roundsBegun>>

OverviewNext ==
    \/ fetchData
    \/ \E i \in Rounds : RoundFails(i) \/ \E p \in Panels : PanelArrives(i, p)

OverviewSpec == OverviewInit /\ [][OverviewNext]_overviewVars
-----------------------------------------------------------------------------
\* The panels show parts of one and the same round of fetchData, however slow
\* parts, failures and overlapping rounds interleave: the chart joins two of
\* them by their minutes.
PanelsAgree ==
    \A p, q \in Panels : panelRound[p] = panelRound[q]
=============================================================================
