---------------------------- MODULE AzureExchange ---------------------------
(***************************************************************************)
(* Exchanges of Azure virtual machine reservations: the compute client     *)
(* lists the reservations that may be exchanged, prices an exchange of     *)
(* some of them for new ones in a session Azure opens, and commits a       *)
(* session.  Callers do this concurrently and may repeat a commit whose    *)
(* answer they did not get.                                                *)
(*                                                                         *)
(* A reservation is [id, kind, state, flexible, quantity, scopeType,       *)
(* scopes]; scopes are compared without case, in any order, which a set of *)
(* scopes models.  A target is [sku, location, billing, quantity, term,    *)
(* plan, ...].                                                             *)
(***************************************************************************)
EXTENDS Names, Sequences, FiniteSets, SequencesExt

CONSTANTS
    Exchangers,      \* concurrent callers
    Inventories,     \* what Azure may hold: sequences of pages of reservations
    TargetLists,     \* sequences of targets callers may ask for
    InventoryPages,  \* maxReservationsPages (50)
    MaxSessions      \* bound on the sessions opened

VARIABLES
    inventory,  \* the member of Inventories Azure holds
    exchanger,  \* each caller: [pc, listed, session]
    sessions,   \* the sessions Azure opened: [sources, bought, currency, done]
    reported    \* the sessions ExecuteExchange reported as exchanged

exchangeVars == <<inventory, exchanger, sessions, reported>>

-----------------------------------------------------------------------------
(* ListExchangeableReservations.                                           *)

IsExchangeEligible(item) == item.kind = "VirtualMachines" /\ item.state = "Succeeded" /\ item.flexible
Exchangeable(pages) == {item \in UNION {Range(pages[n]) : n \in DOMAIN pages} : IsExchangeEligible(item)}

(* validateAppliedScope, sameAppliedScope.                                 *)
ScopeCarried(source) ==
    source.scopeType = "Shared" \/ (source.scopeType = "Single" /\ Cardinality(source.scopes) = 1)

(* Mutant: one kind of scope is enough, whichever it names.                *)
MutantSameAppliedScope(a, b) == a.scopeType = b.scopeType

SameAppliedScope(a, b) ==
    a.scopeType = b.scopeType /\ (a.scopeType = "Single" => a.scopes = b.scopes)

SourcesValid(sources) ==
    /\ sources # <<>>
    /\ \A n \in DOMAIN sources :
         /\ sources[n].id # "" /\ sources[n].quantity >= 1
         /\ ScopeCarried(sources[n]) /\ SameAppliedScope(sources[n], sources[1])

BillingPlanOrDefault(plan) == IF plan = "" THEN "Upfront" ELSE plan
TargetsValid(targets) ==
    /\ targets # <<>>
    /\ \A n \in DOMAIN targets :
         /\ targets[n].sku # "" /\ targets[n].location # "" /\ targets[n].billing # ""
         /\ targets[n].quantity >= 1 /\ targets[n].term \in {"P1Y", "P3Y", "P5Y"}
         /\ BillingPlanOrDefault(targets[n].plan) \in {"Upfront", "Monthly"}

(* buildCalculateExchangeRequest: the targets inherit the sources' scope.  *)
ToPurchase(sources, targets) ==
    [n \in DOMAIN targets |->
        [sku |-> targets[n].sku, quantity |-> targets[n].quantity, term |-> targets[n].term,
         plan |-> BillingPlanOrDefault(targets[n].plan), scopeType |-> sources[1].scopeType,
         scopes |-> IF sources[1].scopeType = "Single" THEN sources[1].scopes ELSE {}]]

CurrencyAccepted(currency) == currency = "USD"

-----------------------------------------------------------------------------
NoExchange == [pc |-> "idle", listed |-> {}, session |-> Nil]
ExchangerAt(e, pc) == exchanger[e].pc = pc
ExchangerDoes(e, state) == exchanger' = [exchanger EXCEPT ![e] = state]
EndExchange(e) == ExchangerDoes(e, NoExchange)

ListExchangeable(e) ==
    /\ ExchangerAt(e, "idle") /\ Len(sessions) < MaxSessions
    /\ Len(inventory) <= InventoryPages
    /\ ExchangerDoes(e, [pc |-> "listed", listed |-> Exchangeable(inventory), session |-> Nil])
    /\ UNCHANGED <<inventory, sessions, reported>>

(* The sources of an exchange: one or two of the reservations listed.      *)
SourceLists(listed) ==
    {<<>>} \cup {<<a>> : a \in listed} \cup {<<a, b>> : a \in listed, b \in listed}

(* CalculateExchange.  Azure opens a session and answers; without an error,*)
(* with a status that is absent or Succeeded, with a session id and in US  *)
(* dollars the caller gets the session.                                    *)
Opened(sources, targets, currency) ==
    [sources |-> sources, bought |-> ToPurchase(sources, targets), currency |-> currency, done |-> FALSE]
CalculationAnswers ==
    [error : BOOLEAN, status : {"", "Succeeded", "Failed"}, session : BOOLEAN]
CalculationHolds(answer) == ~answer.error /\ answer.status \in {"", "Succeeded"} /\ answer.session

Calculate(e, sources, targets) ==
    /\ ExchangerAt(e, "listed") /\ Len(sessions) < MaxSessions
    /\ SourcesValid(sources) /\ TargetsValid(targets)
    /\ \E currency \in {"USD", "EUR", ""}, holds \in {CalculationHolds(answer) : answer \in CalculationAnswers} :
         /\ sessions' = Append(sessions, Opened(sources, targets, currency))
         /\ IF holds /\ CurrencyAccepted(currency)
            THEN ExchangerDoes(e, [pc |-> "priced", listed |-> {}, session |-> Len(sessions')])
            ELSE EndExchange(e)
    /\ UNCHANGED <<inventory, reported>>

RefuseExchange(e) ==
    /\ ExchangerAt(e, "listed")
    /\ ~ \A sources \in SourceLists(exchanger[e].listed), targets \in TargetLists :
          SourcesValid(sources) /\ TargetsValid(targets)
    /\ EndExchange(e) /\ UNCHANGED <<inventory, sessions, reported>>

(* ExecuteExchange.  Azure carries a session out once and answers with an  *)
(* error, or a status and the properties of the exchange.  Only a session  *)
(* that was carried out is answered with an accepted status or without     *)
(* one; the properties may be missing either way.  A caller that gets an   *)
(* error may commit the session again or drop it; an answer that is lost   *)
(* is an error to it.                                                      *)
ExecuteAnswers(done) ==
    IF done THEN [error : {FALSE}, status : {"", "Succeeded", "PendingRefunds", "PendingPurchases"}, properties : BOOLEAN]
            ELSE [error : {TRUE}, status : {"Failed"}, properties : {FALSE}]
                 \cup [error : {FALSE}, status : {"Failed", "Cancelled"}, properties : BOOLEAN]

ExchangeStatusAccepted(status) == status \in {"Succeeded", "PendingPurchases", "PendingRefunds"}

ExecutionHolds(answer) ==
    ~answer.error /\ (answer.status = "" \/ ExchangeStatusAccepted(answer.status)) /\ answer.properties

Execute(e, done) ==
    /\ ExchangerAt(e, "priced")
    /\ sessions[exchanger[e].session].done => done
    /\ sessions' = [sessions EXCEPT ![exchanger[e].session].done = done]
    /\ \E holds \in {ExecutionHolds(answer) : answer \in ExecuteAnswers(done)} :
         reported' = (IF holds THEN reported \cup {exchanger[e].session} ELSE reported)
    /\ \/ EndExchange(e)
       \/ UNCHANGED exchanger
    /\ UNCHANGED inventory

AzureExchangeInit ==
    /\ inventory \in Inventories /\ exchanger = [e \in Exchangers |-> NoExchange]
    /\ sessions = <<>> /\ reported = {}

(* Reservations expire, are bought and are exchanged at any time.          *)
InventoryChanges(pages) == inventory # pages /\ inventory' = pages /\ UNCHANGED <<exchanger, sessions, reported>>

AzureExchangeNext ==
    \/ \E pages \in Inventories : InventoryChanges(pages)
    \/ \E e \in Exchangers :
        \/ ListExchangeable(e) \/ RefuseExchange(e)
        \/ \E sources \in SourceLists(exchanger[e].listed), targets \in TargetLists : Calculate(e, sources, targets)
        \/ \E done \in BOOLEAN : Execute(e, done)

-----------------------------------------------------------------------------
(* Whatever is exchanged was priced in US dollars, every reservation it    *)
(* buys has the scope of every reservation it returns, all of which were   *)
(* flexible when they were listed, and what is reported as exchanged was   *)
(* (CalculateExchange hands out no other session,                          *)
(* buildCalculateExchangeRequest, exchangeStatusAccepted).                 *)
AzureExchangeIsAsPriced ==
    /\ \A s \in reported : sessions[s].done
    /\ \A s \in DOMAIN sessions : sessions[s].done =>
         /\ sessions[s].currency = "USD"
         /\ \A n \in DOMAIN sessions[s].sources, k \in DOMAIN sessions[s].bought :
              LET source == sessions[s].sources[n]  bought == sessions[s].bought[k]
              IN  /\ source.flexible /\ bought.scopeType = source.scopeType
                  /\ source.scopeType = "Single" => bought.scopes = source.scopes
=============================================================================
