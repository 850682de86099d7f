-------------------------- MODULE MCGovernedSession --------------------------
(***************************************************************************)
(* Instances of GovernedSession: a search tool with a limit, a mail tool   *)
(* that needs an operator, a shell whose capability is off, a permitted    *)
(* tool that is not registered, and a tool nobody permitted.               *)
(***************************************************************************)
EXTENDS GovernedSession

MCTools == {"web_search", "send_email", "run_shell", "summarise", "send_sms"}
MCPermission ==
    [t \in {"web_search", "send_email", "run_shell", "summarise"} |->
        [limit |-> IF t = "web_search" THEN 2 ELSE Unlimited,
         approval |-> t = "send_email"]]
MCRegistry == {"web_search", "send_email", "run_shell"}

(* The monitor's drift detection: a scored tool and one that needs an        *)
(* operator, which must not disturb the run of low scores.                   *)
MCDriftTools == {"web_search", "send_email"}
MCDriftPermission ==
    [t \in MCDriftTools |-> [limit |-> Unlimited, approval |-> t = "send_email"]]
MCWeb == {"web_search"}
MCShell == {"run_shell"}
=============================================================================
