------------------------------- MODULE ToolGate -------------------------------
(***************************************************************************)
(* What an agent session promises about tools, whatever the order in which *)
(* concurrent calls are made, run, fail or hang: a tool runs only out of   *)
(* the budget its permission grants, a tool that needs an operator never   *)
(* runs at all, and once the gate is shut nothing more runs.               *)
(*                                                                         *)
(* This is the abstract specification that GovernedSession implements.     *)
(***************************************************************************)
EXTENDS Integers

CONSTANTS
    Tool,          \* the tool names
    Runnable,      \* the tools the manifest lets run without an operator
    Budget,        \* tool -> how many calls of it one session may spend
    NoLimit        \* the budget of a tool without a limit

VARIABLES
    spent,         \* calls of each tool charged to the session
    ran,           \* calls of each tool that reached the tool's code
    shut           \* the session is suspended

gateVars == <<spent, ran, shut>>

GateInit ==
    /\ spent = [t \in Tool |-> 0]
    /\ ran = [t \in Tool |-> 0]
    /\ shut = FALSE

Affordable(t) == Budget[t] = NoLimit \/ spent[t] < Budget[t]

(* A call is charged and refused; the refusal may be the one that shuts the gate. *)
Refuse(t) ==
    /\ ~shut
    /\ Affordable(t)
    /\ spent' = [spent EXCEPT ![t] = @ + 1]
    /\ shut' \in BOOLEAN
    /\ UNCHANGED ran

(* A call is charged and let through: it runs, or there is no such tool to run. *)
Admit(t) ==
    /\ ~shut
    /\ t \in Runnable
    /\ Affordable(t)
    /\ spent' = [spent EXCEPT ![t] = @ + 1]
    /\ \/ ran' = [ran EXCEPT ![t] = @ + 1]
       \/ UNCHANGED ran
    /\ UNCHANGED shut

GateNext == \E t \in Tool : Refuse(t) \/ Admit(t)

GateSpec == GateInit /\ [][GateNext]_gateVars
=============================================================================
