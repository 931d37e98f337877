----------------------------- MODULE AzureSweep -----------------------------
(***************************************************************************)
(* Collecting Azure recommendations (providers/azure:                      *)
(* recommendations_multi_subscription.go, recommendations.go, internal/slot *)
(* and pkg/concurrency).                                                   *)
(*                                                                         *)
(* A sweep asks every subscription in its scope, a limited number at a     *)
(* time; a subscription asks its services concurrently and then prices     *)
(* Advisor's rows; every outbound call holds one slot of a shared          *)
(* semaphore.  Errors are collected and merged twice: over the services of *)
(* a subscription and over the subscriptions.  A service's many calls are  *)
(* one call that holds a slot, then answers.                               *)
(***************************************************************************)
EXTENDS AzureScope, Naturals, FiniteSets

CONSTANTS
    Consumption,     \* the services with Consumption recommendations, by name
    Requests,        \* params: the AccountFilter, and the services params.Service
                     \* lets through
    Slots,           \* the capacity of the shared semaphore
    MaxParallelism   \* the limit on subscriptions in flight

Services == Consumption \cup {"savingsplans", "advisor"}

ASSUME SweepAssumption ==
    /\ IsFiniteSet(Subscriptions) /\ IsFiniteSet(Consumption)
    /\ Consumption \cap {"savingsplans", "advisor", "pricing"} = {}
    /\ Requests \subseteq [accounts : SUBSET Subscriptions, services : SUBSET (Services \ {"advisor"})]
    /\ Slots \in Nat \ {0} /\ MaxParallelism \in Nat \ {0}

VARIABLES
    scope,    \* the subscriptions of the client
    filter,   \* params.AccountFilter
    wanted,   \* the services params.Service lets through
    sub,      \* the state of each subscription
    call,     \* the state of each service's call, and of the pricing
    slots,    \* what the semaphore has left
    aborted,  \* whether the caller's context is canceled
    report    \* what GetRecommendations returned

sweepVars == <<scope, filter, wanted, sub, call, slots, aborted, report>>

Calls == Services \cup {"pricing"}
CallStates == {"off", "ready", "holding", "ok", "skips", "failed", "canceled"}
SubStates == {"out", "queued", "running", "pricing", "ok", "skips", "failed"}
Reports == [kind : {"none", "running", "nil", "skips", "incomplete", "error"},
            data : SUBSET Subscriptions, failed : SUBSET Subscriptions, skips : BOOLEAN]

Report(kind, data, failed, skips) == [kind |-> kind, data |-> data, failed |-> failed, skips |-> skips]
NoReport == Report("none", {}, {}, FALSE)

(* An organization-wide client; a client of one subscription takes no      *)
(* AccountFilter into account.                                             *)
Multi == Cardinality(scope) > 1
Requested == IF Multi /\ filter # {} THEN filter ELSE scope

(* selectSubscriptions *)
Targets == Requested \cap scope
Unmatched == Requested \ scope

-----------------------------------------------------------------------------
(* GetRecommendations starts, or refuses a filter that matches nothing.    *)
Begin(subs, params) ==
    /\ report.kind = "none"
    /\ scope' = subs /\ filter' = params.accounts /\ wanted' = params.services
    /\ IF Targets' = {}
       THEN report' = Report("error", {}, {}, FALSE) /\ UNCHANGED sub
       ELSE /\ report' = Report("running", {}, {}, FALSE)
            /\ sub' = [s \in Subscriptions |-> IF s \in Targets' THEN "queued" ELSE "out"]
    /\ UNCHANGED <<call, slots, aborted>>

Busy == {s \in Subscriptions : sub[s] \in {"running", "pricing"}}

(* Mutant: a subscription holds a slot for its whole sweep. *)
MutantHoldsSlot(s) ==
    /\ sub[s] = "queued" /\ slots > 0
    /\ slots' = slots - 1
    /\ sub' = [sub EXCEPT ![s] = "running"]
    /\ call' = [call EXCEPT ![s] = [v \in Calls |-> IF v \in wanted \cup {"advisor"} THEN "ready" ELSE "off"]]
    /\ UNCHANGED <<scope, filter, wanted, aborted, report>>

(* The adapter's GetRecommendations: one goroutine for each service let    *)
(* through and one for Advisor, none of them holding a slot.               *)
Launch(s) ==
    /\ sub[s] = "queued" /\ Cardinality(Busy) < MaxParallelism
    /\ sub' = [sub EXCEPT ![s] = "running"]
    /\ call' = [call EXCEPT ![s] = [v \in Calls |-> IF v \in wanted \cup {"advisor"} THEN "ready" ELSE "off"]]
    /\ UNCHANGED <<scope, filter, wanted, slots, aborted, report>>

SetCall(s, v, state) == call' = [call EXCEPT ![s][v] = state]

(* slot.Do, concurrency.Acquire: wait for a slot or for the cancellation.  *)
Acquire(s, v) ==
    /\ call[s][v] = "ready"
    /\ \/ slots > 0 /\ slots' = slots - 1 /\ SetCall(s, v, "holding")
       \/ aborted /\ UNCHANGED slots /\ SetCall(s, v, "canceled")
    /\ UNCHANGED <<scope, filter, wanted, sub, aborted, report>>

(* How a call ends.  Advisor's page errors and page cap are skips          *)
(* (collectAdvisorOrSkip), and a row that cannot be priced is one.         *)
Answers(v) == IF v = "pricing" THEN {"ok", "skips"} ELSE {"ok", "skips", "failed"}

(* The call answers and its slot is given back (concurrency.Release).      *)
Answer(s, v) ==
    /\ call[s][v] = "holding"
    /\ \/ \E state \in Answers(v) : SetCall(s, v, state)
       \/ aborted /\ SetCall(s, v, "canceled")
    /\ slots' = slots + 1
    /\ UNCHANGED <<scope, filter, wanted, sub, aborted, report>>

Failed(s, v) == call[s][v] \in {"failed", "canceled"}
Ended(s) == \A v \in Calls : call[s][v] \notin {"ready", "holding"}

(* mergeServiceResults, withSkips: an error when every attempted           *)
(* Consumption service failed; the savings plans and Advisor never count   *)
(* as attempted.                                                           *)
MergeServiceResults(s) ==
    LET attempted == wanted \cap Consumption
        failures == {v \in attempted : Failed(s, v)}
    IN  IF failures # {} /\ failures = attempted THEN "failed"
        ELSE IF \E v \in Calls : call[s][v] = "skips" THEN "skips" ELSE "ok"

(* After g.Wait: the context again, then priceAdvisor, unless Advisor      *)
(* failed or has nothing to price, and the merge.                          *)
AfterWait(s) ==
    /\ sub[s] = "running" /\ Ended(s)
    /\ IF aborted THEN sub' = [sub EXCEPT ![s] = "failed"] /\ UNCHANGED call
       ELSE \/ /\ ~Failed(s, "advisor")
               /\ sub' = [sub EXCEPT ![s] = "pricing"] /\ SetCall(s, "pricing", "ready")
            \/ sub' = [sub EXCEPT ![s] = MergeServiceResults(s)] /\ UNCHANGED call
    /\ UNCHANGED <<scope, filter, wanted, slots, aborted, report>>

AfterPricing(s) ==
    /\ sub[s] = "pricing" /\ Ended(s)
    /\ sub' = [sub EXCEPT ![s] = IF aborted THEN "failed" ELSE MergeServiceResults(s)]
    /\ UNCHANGED <<scope, filter, wanted, call, slots, aborted, report>>

(* Mutant: filter entries that name no visible subscription are dropped. *)
MutantForgetsUnmatched ==
    LET failed == {s \in Targets : sub[s] = "failed"}
        data == Targets \ failed
        skips == \E s \in data : sub[s] = "skips"
    IN  IF failed = {} THEN Report(IF skips THEN "skips" ELSE "nil", data, {}, skips)
        ELSE IF data = {} THEN Report("error", {}, {}, FALSE)
        ELSE Report("incomplete", data, failed, skips)

(* mergeSubscriptionResults; the error of a client of one subscription is  *)
(* that subscription's own.                                                *)
MergeSubscriptionResults ==
    LET failed == {s \in Targets : sub[s] = "failed"} \cup Unmatched
        data == Targets \ failed
        skips == \E s \in data : sub[s] = "skips"
    IN  IF failed = {} THEN Report(IF skips THEN "skips" ELSE "nil", data, {}, skips)
        ELSE IF data = {} THEN Report("error", {}, {}, FALSE)
        ELSE Report("incomplete", data, failed, skips)

Conclude ==
    /\ report.kind = "running"
    /\ \A s \in Targets : sub[s] \in {"ok", "skips", "failed"}
    /\ report' = IF aborted THEN Report("error", {}, {}, FALSE) ELSE MergeSubscriptionResults
    /\ UNCHANGED <<scope, filter, wanted, sub, call, slots, aborted>>

Abort ==
    /\ report.kind = "running" /\ ~aborted
    /\ aborted' = TRUE
    /\ UNCHANGED <<scope, filter, wanted, sub, call, slots, report>>

-----------------------------------------------------------------------------
SweepInit ==
    /\ scope = {} /\ filter = {} /\ wanted = {}
    /\ sub = [s \in Subscriptions |-> "out"]
    /\ call = [s \in Subscriptions |-> [v \in Calls |-> "off"]]
    /\ slots = Slots
    /\ aborted = FALSE
    /\ report = NoReport

CallStep(s, v) == Acquire(s, v) \/ Answer(s, v)
SubscriptionStep(s) == Launch(s) \/ AfterWait(s) \/ AfterPricing(s)

SweepNext ==
    \/ \E s \in Subscriptions : SubscriptionStep(s) \/ \E v \in Calls : CallStep(s, v)
    \/ Conclude \/ Abort

-----------------------------------------------------------------------------
(* Properties.                                                             *)

SweepTypeOK ==
    /\ scope \subseteq Subscriptions /\ filter \subseteq Subscriptions /\ wanted \subseteq Services
    /\ sub \in [Subscriptions -> SubStates]
    /\ call \in [Subscriptions -> [Calls -> CallStates]]
    /\ slots \in 0..Slots /\ aborted \in BOOLEAN
    /\ report \in Reports

Reported == report.kind \in {"nil", "skips", "incomplete"}

(* At most the cap of outbound calls is in flight, whatever is canceled    *)
(* while it waits, and every slot comes back.                              *)
SlotsBoundCalls ==
    Cardinality({k \in Subscriptions \X Calls : call[k[1]][k[2]] = "holding"}) + slots = Slots

(* A report accounts for every subscription that was asked for, and only   *)
(* for those: it returned data, or the error names it.  One in which every *)
(* Consumption service that was asked failed is not reported as data, and  *)
(* a row dropped in any subscription with data shows in the error, also    *)
(* when other subscriptions failed.                                        *)
NothingUnaccounted ==
    Reported =>
        /\ report.data \cup report.failed = Requested /\ report.data \cap report.failed = {}
        /\ report.kind # "incomplete" => report.failed = {}
        /\ \A s \in report.failed : s \notin scope \/ \E v \in wanted : Failed(s, v)
        /\ \A s \in report.data :
              wanted \cap Consumption # {} => \E v \in wanted \cap Consumption : ~Failed(s, v)
        /\ report.skips <=> \E s \in report.data, v \in Calls : call[s][v] = "skips"
=============================================================================
