----------------------------- MODULE Connectors -----------------------------
(***************************************************************************)
(* What a case sends to the tools around it                                *)
(* (services/api/app/services/integrations.py, connectors.py): each call   *)
(* is live when its secrets are set and simulated otherwise.  What the     *)
(* other side answers is external: any answer, or none.                    *)
(***************************************************************************)

CONSTANTS
    Configured,     \* the services whose secrets are set
    RequireLive,    \* CLEARFRAME_INTEGRATIONS_REQUIRE_LIVE
    NoHost          \* neither a device id nor a host name

Services == {"slack", "jira", "okta", "webhook", "pagerduty", "splunk",
             "crowdstrike", "defender", "sentinelone"}

ASSUME ConnectorsAssumption == Configured \subseteq Services /\ RequireLive \in BOOLEAN

Sent == [ok |-> TRUE, live |-> TRUE]
Refused == [ok |-> FALSE, live |-> TRUE]
Missing == [ok |-> FALSE, live |-> FALSE]
Simulated == [ok |-> TRUE, live |-> FALSE]
Answers == {Sent, Refused}

(* The four core integrations fail closed when live calls are required ... *)
Unset == {IF RequireLive THEN Missing ELSE Simulated}

(* ... _sim does so only for ok=False, which no connector passes. *)
Sim(ok) == {IF RequireLive /\ ~ok THEN Missing ELSE Simulated}

NotifySlack == IF "slack" \in Configured THEN Answers ELSE Unset
CreateJiraIssue == IF "jira" \in Configured THEN Answers ELSE Unset
OktaSuspendUser == IF "okta" \in Configured THEN Answers ELSE Unset
PostSocWebhook == IF "webhook" \in Configured THEN Answers ELSE Unset
PagePagerduty == IF "pagerduty" \in Configured THEN Answers ELSE Sim(TRUE)
ExportSplunk == IF "splunk" \in Configured THEN Answers ELSE Sim(TRUE)

(* A live isolation takes a device id, or a host name the vendor knows. *)
CrowdstrikeIsolateHost(host) ==
    IF "crowdstrike" \notin Configured THEN Sim(TRUE)
    ELSE IF host = NoHost THEN {Refused} ELSE Answers
DefenderIsolateHost(host) ==
    IF "defender" \notin Configured THEN Sim(TRUE)
    ELSE IF host = NoHost THEN {Refused} ELSE Answers
SentineloneIsolateHost(host) ==
    IF "sentinelone" \notin Configured THEN Sim(TRUE)
    ELSE IF host = NoHost THEN {Refused} ELSE Answers

(* run_outbound_bundle: every service is called, whatever the others say. *)
OutboundBundle(host) ==
    [slack : NotifySlack, jira : CreateJiraIssue, okta : OktaSuspendUser,
     webhook : PostSocWebhook, pagerduty : PagePagerduty, splunk : ExportSplunk,
     crowdstrike : CrowdstrikeIsolateHost(host), defender : DefenderIsolateHost(host),
     sentinelone : SentineloneIsolateHost(host)]
=============================================================================
