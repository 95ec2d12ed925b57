---------------------------- MODULE MCDashboard -----------------------------
(***************************************************************************)
(* The dashboard's client of the API and its pages, each in front of the   *)
(* services it calls, checked in one run: a behaviour picks one of them,   *)
(* and only that one moves.  The states are those of the seven side by     *)
(* side, not their product.                                                *)
(***************************************************************************)
EXTENDS DashboardClient, StoragePage, ApiKeysPage, CdnPage, AlertsPage, PlatformConfig, Overview

VARIABLE part

dashboardVars == <<clientVars, storageVars, keyVars, purgeVars, alertsPageVars,
                   configVars, overviewVars, part>>

\* A rule, as the service has it, and one as the page's form sends it.
RuleOf(channels, isArray) ==
    [condition |-> "error_rate_above", threshold |-> 5, channels |-> channels,
     isArray |-> isArray, enabled |-> TRUE]
MCPageRules == <<WithId(1, RuleOf({"webhook"}, TRUE))>>
MCFormRules == {RuleOf({"email"}, FALSE)}
\* "0s": no comparison refuses it, and parseInt reads 0.
MCTexts == {Setting(NotANumber, 0)}
MCPageStats == {[errorRate |-> 100, avgLatency |-> 0]}

DashboardInit ==
    /\ part \in {"client", "storage", "keys", "cdn", "alerts", "settings", "overview"}
    /\ ClientInit /\ StoragePageInit /\ KeysPageInit /\ CdnPageInit /\ AlertsPageInit
    /\ ConfigInit /\ OverviewInit
    /\ part # "storage" => existing = <<>>

\* Each part's steps, the others standing still.
Client_ == part = "client" /\ ClientNext
    /\ UNCHANGED <<storageVars, keyVars, purgeVars, alertsPageVars, configVars, overviewVars>>
Storage_ == part = "storage" /\ StoragePageNext
    /\ UNCHANGED <<clientVars, keyVars, purgeVars, alertsPageVars, configVars, overviewVars>>
Keys_ == part = "keys" /\ KeysPageNext
    /\ UNCHANGED <<clientVars, storageVars, purgeVars, alertsPageVars, configVars, overviewVars>>
Cdn_ == part = "cdn" /\ CdnPageNext
    /\ UNCHANGED <<clientVars, storageVars, keyVars, alertsPageVars, configVars, overviewVars>>
AlertsPage_ == part = "alerts" /\ AlertsPageNext
    /\ UNCHANGED <<clientVars, storageVars, keyVars, purgeVars, configVars, overviewVars>>
Settings_ == part = "settings" /\ ConfigNext
    /\ UNCHANGED <<clientVars, storageVars, keyVars, purgeVars, alertsPageVars, overviewVars>>
Overview_ == part = "overview" /\ OverviewNext
    /\ UNCHANGED <<clientVars, storageVars, keyVars, purgeVars, alertsPageVars, configVars>>

DashboardNext ==
    /\ Client_ \/ Storage_ \/ Keys_ \/ Cdn_ \/ AlertsPage_ \/ Settings_ \/ Overview_
    /\ UNCHANGED part

DashboardSpec == DashboardInit /\ [][DashboardNext]_dashboardVars
-----------------------------------------------------------------------------
\* Every variable of the seven has its type, and what the parts' own type
\* invariants add to it holds: the disabled buttons and the modal dialogs let
\* one creation and one purge through at a time.
DashboardTypeOK ==
    CASE part = "client"   -> ClientTypeOK
      [] part = "storage"  -> StoragePageTypeOK
      [] part = "keys"     -> KeysPageTypeOK
      [] part = "cdn"      -> CdnPageTypeOK
      [] part = "alerts"   -> AlertTypeOK /\ AlertsPageTypeOK
      [] part = "settings" -> ConfigTypeOK
      [] part = "overview" -> OverviewTypeOK

\* The pages do not take back what they said: a file, an API key or a rule
\* that was said to be gone is not listed again by a GET that was under way
\* (SWR's mutate makes it be forgotten), and a purge that was reported stays
\* in the history.  The overview's panels show one round of fetchData.
PagesStayTrue ==
    AnnouncedStayGone /\ RevokedStayOff /\ DeletedRulesStayOff /\ PurgesStayListed /\ PanelsAgree
=============================================================================
