--------------------------- MODULE AzureCollection ---------------------------
(***************************************************************************)
(* Azure collection: the provider resolves its subscriptions for several   *)
(* callers (AzureAccounts), and a recommendations client one of them got   *)
(* sweeps its scope (AzureSweep).                                          *)
(*                                                                         *)
(* The client holds its own credential and scope and never goes back to    *)
(* the provider, so the sweep starts when the callers are done, and the    *)
(* provider's state, which nobody reads any more, is forgotten.            *)
(***************************************************************************)
EXTENDS AzureAccounts, AzureSweep

vars == <<accountsVars, sweepVars>>

(* Nobody calls the provider any more. *)
ForgetProvider ==
    /\ config' = CHOOSE f \in Configs : TRUE
    /\ cred' = None /\ injected' = None /\ once' = "new" /\ cache' = Nothing /\ gen' = 0
    /\ flight' = [g \in Generations |-> None]
    /\ at' = [c \in Callers |-> "done"]
    /\ started' = [c \in Callers |-> 0] /\ mine' = [c \in Callers |-> 0]
    /\ got' = [c \in Callers |-> Nothing]
    /\ retried' = [c \in Callers |-> FALSE] /\ canceled' = [c \in Callers |-> FALSE]
    /\ result' = [c \in Callers |-> NoResult]

(* The caller uses the client: GetRecommendations with its parameters.     *)
StartSweep(c) ==
    /\ \A d \in Callers : at[d] = "done"
    /\ Op[c] = "recs" /\ result[c].kind = "client"
    /\ \E params \in Requests : Begin(result[c].subs, params)
    /\ ForgetProvider

Init == AccountsInit /\ SweepInit

Next ==
    \/ report.kind = "none" /\ AccountsNext /\ UNCHANGED sweepVars
    \/ \E c \in Callers : StartSweep(c)
    \/ SweepNext /\ UNCHANGED accountsVars

Spec == Init /\ [][Next]_vars

TypeOK == AccountsTypeOK /\ SweepTypeOK
=============================================================================
