----------------------------- MODULE AlertsPage -----------------------------
(***************************************************************************)
(* The dashboard's alerts page in front of the notification service, which *)
(* is the Alerts module: the page's requests are calls of its rules API.   *)
(* The page does not wait for the lists it has SWR fetch again, and its    *)
(* toggle sends a PATCH, for which the service has no route.               *)
(***************************************************************************)
EXTENDS Alerts, Swr

CONSTANTS
    FormRules,   \* what the form of the page sends: channels is an object
    AlertCalls   \* handlers that may be waiting

ASSUME FormAssumption == FormRules \subseteq NewRules /\ FormRules # {}

VARIABLES
    rulesData,   \* SWR's key of the rules
    isModalOpen, ruleToDelete, \* the page's dialogs; no rule is 0
    alertWork,   \* handlers that are waiting
    fetchedFor,  \* rules deleted for which the list is being fetched again
    gone         \* rules deleted for which it has been

alertPageVars == <<rulesData, isModalOpen, ruleToDelete, alertWork, fetchedFor, gone>>
alertsPageVars == <<alertVars, alertPageVars>>

AlertWork(kind, form, id) == [kind |-> kind, form |-> form, id |-> id, pc |-> "sent"]
NoForm == CHOOSE form \in FormRules : TRUE
NoAlertWork == [AlertWork("none", NoForm, 0) EXCEPT !.pc = "idle"]

AlertsPageTypeOK ==
    /\ rulesData \in SwrKeys(SUBSET RuleIds, {"mutate"})
    /\ isModalOpen \in BOOLEAN /\ ruleToDelete \in RuleIds \cup {0}
    /\ alertWork \in [AlertCalls -> [kind : {"none", "create", "toggle", "delete", "test"}, form : FormRules,
                                     id : RuleIds \cup {0}, pc : {"idle", "sent", "done", "failed"}]]
    /\ fetchedFor \cup gone \subseteq RuleIds
    \* a dialog is modal
    /\ ~(isModalOpen /\ ruleToDelete # 0)

AlertsPageInit ==
    /\ AlertInit
    /\ rulesData = SwrKey({}) /\ isModalOpen = FALSE /\ ruleToDelete = 0
    /\ alertWork = [c \in AlertCalls |-> NoAlertWork]
    /\ fetchedFor = {} /\ gone = {}

NoDialogOpen == ~isModalOpen /\ ruleToDelete = 0
AskFor(c, work) ==
    /\ alertWork[c].pc = "idle"
    /\ alertWork' = [alertWork EXCEPT ![c] = work]
Settle(c, pc) == alertWork' = [alertWork EXCEPT ![c].pc = pc]
-----------------------------------------------------------------------------
(* The page.                                                                *)

AddRule ==
    /\ NoDialogOpen
    /\ isModalOpen' = TRUE
    /\ UNCHANGED <<alertVars, rulesData, ruleToDelete, alertWork, fetchedFor, gone>>

AskDelete(id) ==
    /\ NoDialogOpen /\ id \in rulesData.rows
    /\ ruleToDelete' = id
    /\ UNCHANGED <<alertVars, rulesData, isModalOpen, alertWork, fetchedFor, gone>>

CloseDialogs ==
    /\ ~NoDialogOpen
    /\ isModalOpen' = FALSE /\ ruleToDelete' = 0
    /\ UNCHANGED <<alertVars, rulesData, alertWork, fetchedFor, gone>>

\* The form can be sent twice: nothing says that a request is under way.
handleCreateRule(c, form) ==
    /\ isModalOpen
    /\ AskFor(c, AlertWork("create", form, 0))
    /\ UNCHANGED <<alertVars, rulesData, isModalOpen, ruleToDelete, fetchedFor, gone>>

handleToggleRule(c, id) ==
    /\ NoDialogOpen /\ id \in rulesData.rows
    /\ AskFor(c, AlertWork("toggle", NoForm, id))
    /\ UNCHANGED <<alertVars, rulesData, isModalOpen, ruleToDelete, fetchedFor, gone>>

confirmDeleteRule(c) ==
    /\ ruleToDelete # 0
    /\ AskFor(c, AlertWork("delete", NoForm, ruleToDelete))
    /\ ruleToDelete' = 0
    /\ UNCHANGED <<alertVars, rulesData, isModalOpen, fetchedFor, gone>>

handleTestNotification(c) ==
    /\ NoDialogOpen
    /\ AskFor(c, AlertWork("test", NoForm, 0))
    /\ UNCHANGED <<alertVars, rulesData, isModalOpen, ruleToDelete, fetchedFor, gone>>

\* The answer: the dialog closes, whoever opened it, SWR asks again, the toast.
RuleAnswered(c) ==
    LET w == alertWork[c] IN
    /\ w.pc = "done"
    /\ isModalOpen' = (isModalOpen /\ w.kind # "create")
    /\ ruleToDelete' = IF w.kind = "delete" THEN 0 ELSE ruleToDelete
    /\ rulesData' = IF w.kind = "test" THEN rulesData ELSE Revalidate(rulesData, "mutate")
    /\ fetchedFor' = IF w.kind = "delete" THEN fetchedFor \cup {w.id} ELSE fetchedFor
    /\ alertWork' = [alertWork EXCEPT ![c] = NoAlertWork]
    /\ UNCHANGED <<alertVars, gone>>

\* A toast, or for the toggle nothing at all; finally of confirmDeleteRule.
RuleRefused(c) ==
    /\ alertWork[c].pc = "failed"
    /\ ruleToDelete' = IF alertWork[c].kind = "delete" THEN 0 ELSE ruleToDelete
    /\ alertWork' = [alertWork EXCEPT ![c] = NoAlertWork]
    /\ UNCHANGED <<alertVars, rulesData, isModalOpen, fetchedFor, gone>>
-----------------------------------------------------------------------------
(* The requests in the notification service.                                *)

ServeRule(c) ==
    LET w == alertWork[c] IN
    /\ w.pc = "sent"
    /\ \/ w.kind = "create" /\ CreateRule(w.form)
       \/ w.kind = "delete" /\ DeleteRule(w.id)
       \/ w.kind = "test" /\ \E bad \in SUBSET Channels : TestNotification(bad)
    /\ Settle(c, "done")
    /\ UNCHANGED <<rulesData, isModalOpen, ruleToDelete, fetchedFor, gone>>

\* No route, or the connection fails.
RuleCallFails(c) ==
    /\ alertWork[c].pc = "sent"
    /\ Settle(c, "failed")
    /\ UNCHANGED <<alertVars, rulesData, isModalOpen, ruleToDelete, fetchedFor, gone>>

\* The service's own steps.
Service ==
    /\ \/ Tick
       \/ \E k \in Checks :
            \/ StartCheck(k) \/ VisitRule(k) \/ FetchFails(k) \/ EndDispatch(k)
            \/ \E stats \in Stats : Evaluate(k, stats)
            \/ \E channel \in Channels, ok \in BOOLEAN : SendChannel(k, channel, ok)
    /\ UNCHANGED alertPageVars

\* listRules
ShownRules == {rules[i].id : i \in DOMAIN rules}

PollRules ==
    /\ rulesData.get = "none"
    /\ rulesData' = Revalidate(rulesData, "poll")
    /\ UNCHANGED <<alertVars, isModalOpen, ruleToDelete, alertWork, fetchedFor, gone>>

ReadRules ==
    /\ rulesData.get = "asked"
    /\ rulesData' = Answered(rulesData, ShownRules)
    /\ UNCHANGED <<alertVars, isModalOpen, ruleToDelete, alertWork, fetchedFor, gone>>

RulesArrive ==
    /\ rulesData.get = "answered"
    /\ rulesData' = Arrived(rulesData)
    /\ gone' = IF rulesData.by = "mutate" THEN gone \cup fetchedFor ELSE gone
    /\ fetchedFor' = {}
    /\ UNCHANGED <<alertVars, isModalOpen, ruleToDelete, alertWork>>

RulesLost ==
    /\ rulesData.get # "none"
    /\ rulesData' = Forgotten(rulesData)
    /\ fetchedFor' = {}
    /\ UNCHANGED <<alertVars, isModalOpen, ruleToDelete, alertWork, gone>>

AlertsPageNext ==
    \/ AddRule \/ CloseDialogs \/ \E id \in RuleIds : AskDelete(id)
    \/ \E c \in AlertCalls :
        \/ \E form \in FormRules : handleCreateRule(c, form)
        \/ \E id \in RuleIds : handleToggleRule(c, id)
        \/ confirmDeleteRule(c) \/ handleTestNotification(c)
        \/ ServeRule(c) \/ RuleCallFails(c) \/ RuleAnswered(c) \/ RuleRefused(c)
    \/ Service \/ PollRules \/ ReadRules \/ RulesArrive \/ RulesLost

AlertsPageSpec == AlertsPageInit /\ [][AlertsPageNext]_alertsPageVars
-----------------------------------------------------------------------------
\* A rule that was deleted on the page, and the list fetched again for it, is
\* not listed any more: no GET that was under way brings it back.
DeletedRulesStayOff ==
    gone \cap rulesData.rows = {}
=============================================================================
