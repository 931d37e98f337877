--------------------------- MODULE AzurePurchase ---------------------------
(***************************************************************************)
(* Azure reservation purchases: the guarded two-step flow every Azure      *)
(* service client uses (services/internal/reservations/purchase.go).       *)
(*                                                                         *)
(* Azure mints the order ID in calculatePrice, so each attempt of a call   *)
(* is a new order: the orders are named <call, attempt>.  Nothing but the  *)
(* listing links an order to the idempotency token it carries.             *)
(***************************************************************************)
EXTENDS Integers, FiniteSets

CONSTANTS
    Calls,          \* invocations of DoIdempotentPurchaseTwoStep
    Tokens,         \* idempotency tokens
    NoToken,        \* the empty token of DoPurchaseTwoStep
    MaxAttempts,    \* purchaseMaxAttempts
    KeepsTags       \* Azure stores the tags of a purchase request

ASSUME ConstantsAssumption ==
    /\ NoToken \notin Tokens
    /\ MaxAttempts \in Nat \ {0}
    /\ KeepsTags \in BOOLEAN

VARIABLES
    world,    \* how the surroundings behave, see Worlds
    pc,       \* where each call is
    token,    \* its idempotency token
    attempt,  \* its loop counter
    result,   \* what it returned
    adopted,  \* the order it returned, as a set of at most one
    order,    \* provisioning state of each order
    listed    \* the orders the listing shows

vars == <<world, pc, token, attempt, result, adopted, order, listed>>
azure == <<order, listed>>

(* In "contract" the caller re-drives a token only once its calls ended    *)
(* and their requests were processed, and the listing is current; in       *)
(* "racing" calls overlap and the listing lags; in "nameless" it may also  *)
(* omit the name of an order.  A behaviour stays in one world.             *)
Worlds == {"contract", "racing", "nameless"}
UnderContract == world = "contract"

Attempts == 1..MaxAttempts
Orders == Calls \X Attempts

PCs == {"idle", "lookup", "calculate", "purchase", "await", "wait", "recheck",
        "done", "crashed"}

(* An error alone, the currency refusal alone, and either of them wrapped  *)
(* with ErrOutcomeUnknown.                                                 *)
Results == {"none", "success", "existing", "error", "currency", "unknown"}

(* A committed order is adopted, blocked or retryable by dispositionOf its *)
(* provisioning state.                                                     *)
OrderStates == {"none", "inflight", "rejected", "adopt", "blocked", "retryable"}

Running(c) == pc[c] \notin {"idle", "done", "crashed"}
Exists(n) == order[n] \in {"adopt", "blocked"}
Committed(n) == order[n] \in {"adopt", "blocked", "retryable"}

-----------------------------------------------------------------------------
(* FindReservationOrderByIdempotencyToken.                                 *)

(* ApplyPurchaseTags writes the token as a tag and as a marker at the end  *)
(* of the display name; an order matches by either.                        *)
CarriesToken(n, t) ==
    LET tagged == KeepsTags
        marked == TRUE
    IN  token[n[1]] = t /\ (tagged \/ marked)

(* The listed orders that decide the lookup: retryable ones are skipped.   *)
Matches(t) == {n \in listed : CarriesToken(n, t) /\ Exists(n)}

-----------------------------------------------------------------------------
Goto(c, l) == pc' = [pc EXCEPT ![c] = l]

Return(c, r, ids) ==
    /\ Goto(c, "done")
    /\ result' = [result EXCEPT ![c] = r]
    /\ adopted' = [adopted EXCEPT ![c] = ids]

(* Mutant: the first retry's errors are not marked. *)
MutantMarksThird(a, r) == IF a <= 2 THEN r ELSE "unknown"

(* afterUncertainAttempt: an error of attempt 2 or later is marked.        *)
AfterUncertainAttempt(a, r) == IF a <= 1 THEN r ELSE "unknown"

Refuse(c, a, r) == Return(c, AfterUncertainAttempt(a, r), {})

(* The first match on the pages decides, in an order Azure chooses: it is  *)
(* adopted, or blocked and refused; a live match without a name is passed  *)
(* over, and without a match the attempt goes on.  A page that cannot be   *)
(* fetched or decoded, a nextLink loop and the page cap are errors.        *)
Lookup(c, a) ==
    \/ Refuse(c, a, "error")
    \/ \E n \in Matches(token[c]) : order[n] = "adopt" /\ Return(c, "existing", {n})
    \/ /\ \A n \in Matches(token[c]) : order[n] = "adopt" /\ world = "nameless"
       /\ Goto(c, "calculate") /\ UNCHANGED <<result, adopted>>

MayDispatch(t) ==
    UnderContract =>
        /\ \A d \in Calls : token[d] = t => ~Running(d)
        /\ \A n \in Orders :
              token[n[1]] = t => order[n] # "inflight" /\ (Exists(n) => n \in listed)

(* A caller purchases, or re-drives a token, in a process of its own.      *)
Dispatch(c, t) ==
    /\ pc[c] = "idle"
    /\ t = NoToken \/ MayDispatch(t)
    /\ token' = [token EXCEPT ![c] = t]
    /\ attempt' = [attempt EXCEPT ![c] = 1]
    /\ Goto(c, IF t = NoToken THEN "calculate" ELSE "lookup")
    /\ UNCHANGED <<result, adopted, azure>>

(* DoIdempotentPurchaseTwoStep: adopt, refuse, or enter the loop.          *)
GuardLookup(c) ==
    /\ pc[c] = "lookup"
    /\ Lookup(c, 1)
    /\ UNCHANGED <<token, attempt, azure>>

(* Mutant: no re-check between attempts. *)
MutantNoRecheck(c) ==
    /\ pc[c] = "recheck"
    /\ Goto(c, "calculate")
    /\ UNCHANGED <<token, attempt, result, adopted, azure>>

(* recheckAlreadyPurchased, before every attempt after the first.          *)
Recheck(c) ==
    /\ pc[c] = "recheck"
    /\ IF token[c] = NoToken
       THEN Goto(c, "calculate") /\ UNCHANGED <<result, adopted>>
       ELSE Lookup(c, attempt[c])
    /\ UNCHANGED <<token, attempt, azure>>

(* doCalculatePrice: an order ID in the expected currency, or an error.    *)
CalculatePrice(c) ==
    /\ pc[c] = "calculate"
    /\ \/ Goto(c, "purchase") /\ UNCHANGED <<result, adopted>>
       \/ \E r \in {"error", "currency"} : Refuse(c, attempt[c], r)
    /\ UNCHANGED <<token, attempt, azure>>

(* doPurchase: the request leaves.                                         *)
SendPurchase(c) ==
    /\ pc[c] = "purchase"
    /\ order' = [order EXCEPT ![<<c, attempt[c]>>] = "inflight"]
    /\ Goto(c, "await")
    /\ UNCHANGED <<token, attempt, result, adopted, listed>>

(* purchaseIsRetryable: a 400 that names a session timeout, or whose body  *)
(* did not read completely.  Azure answered, so it is done with the        *)
(* request, although it may have committed it before failing.              *)
PurchaseIsRetryable(c, a) == a < MaxAttempts /\ order[<<c, a>>] # "inflight"

(* doPurchase returns.  Success is a 2xx status; an error that is not      *)
(* retried may also be a lost answer.                                      *)
AwaitPurchase(c) ==
    /\ pc[c] = "await"
    /\ \/ Committed(<<c, attempt[c]>>) /\ Return(c, "success", {<<c, attempt[c]>>})
       \/ PurchaseIsRetryable(c, attempt[c]) /\ Goto(c, "wait") /\ UNCHANGED <<result, adopted>>
       \/ Refuse(c, attempt[c], "error")
    /\ UNCHANGED <<token, attempt, azure>>

(* waitBeforeRetry: the delay passes, or the context is canceled.          *)
WaitBeforeRetry(c) ==
    /\ pc[c] = "wait"
    /\ \/ /\ Goto(c, "recheck")
          /\ attempt' = [attempt EXCEPT ![c] = @ + 1]
          /\ UNCHANGED <<result, adopted>>
       \/ Refuse(c, attempt[c] + 1, "error") /\ UNCHANGED attempt
    /\ UNCHANGED <<token, azure>>

(* The process dies.                                                       *)
Crash(c) ==
    /\ Running(c)
    /\ Goto(c, "crashed")
    /\ UNCHANGED <<token, attempt, result, adopted, azure>>

-----------------------------------------------------------------------------
(* Azure (external).                                                       *)

(* The request is committed or rejected, perhaps after the client gave up. *)
Process(n) ==
    /\ order[n] = "inflight"
    /\ \/ /\ order' = [order EXCEPT ![n] = "adopt"]
          /\ listed' = IF UnderContract THEN listed \cup {n} ELSE listed
       \/ order' = [order EXCEPT ![n] = "rejected"] /\ UNCHANGED listed
    /\ UNCHANGED <<pc, token, attempt, result, adopted>>

List(n) ==
    /\ Committed(n) /\ n \notin listed
    /\ listed' = listed \cup {n}
    /\ UNCHANGED <<pc, token, attempt, result, adopted, order>>

(* Billing fails or is resolved, the order is canceled or expires.         *)
Progress(n) ==
    /\ \E s \in {"adopt", "blocked", "retryable"} :
         Exists(n) /\ s # order[n] /\ order' = [order EXCEPT ![n] = s]
    /\ UNCHANGED <<pc, token, attempt, result, adopted, listed>>

-----------------------------------------------------------------------------
Init ==
    /\ world \in Worlds
    /\ pc = [c \in Calls |-> "idle"]
    /\ token = [c \in Calls |-> NoToken]
    /\ attempt = [c \in Calls |-> 1]
    /\ result = [c \in Calls |-> "none"]
    /\ adopted = [c \in Calls |-> {}]
    /\ order = [n \in Orders |-> "none"]
    /\ listed = {}

CallStep(c) ==
    \/ GuardLookup(c) \/ CalculatePrice(c) \/ SendPurchase(c) \/ AwaitPurchase(c)
    \/ WaitBeforeRetry(c) \/ Recheck(c)

Step ==
    \/ \E c \in Calls, t \in Tokens \cup {NoToken} : Dispatch(c, t)
    \/ \E c \in Calls : CallStep(c) \/ Crash(c)
    \/ \E n \in Orders : Process(n) \/ List(n) \/ Progress(n)

Next == Step /\ UNCHANGED world

Spec == Init /\ [][Next]_vars

-----------------------------------------------------------------------------
(* Properties.                                                             *)

TypeOK ==
    /\ world \in Worlds
    /\ pc \in [Calls -> PCs]
    /\ token \in [Calls -> Tokens \cup {NoToken}]
    /\ attempt \in [Calls -> Attempts]
    /\ result \in [Calls -> Results]
    /\ adopted \in [Calls -> SUBSET Orders]
    /\ order \in [Orders -> OrderStates]
    /\ listed \subseteq Orders

(* A token never has two orders that exist, although every retry mints a   *)
(* new order and a failed attempt may have committed (#1774): the guard    *)
(* before the loop, the re-check in it, and the refusals of both, under    *)
(* the contract.                                                           *)
TokenOwnsOne ==
    UnderContract => \A m, n \in Orders :
        (Exists(m) /\ Exists(n) /\ token[m[1]] = token[n[1]] /\ token[m[1]] # NoToken) => m = n

(* ErrCurrencyNotAccepted on its own means the refusal came before         *)
(* anything was purchased by the call, also when it strikes on a retry.    *)
CurrencyMeansNothingBought ==
    \A c \in Calls : result[c] = "currency" => \A a \in Attempts : order[<<c, a>>] = "none"

(* ErrOutcomeUnknown marks every purchase whose request may have reached   *)
(* Azure: an error without it means that nothing of the call exists.       *)
UnmarkedMeansNothingBought ==
    \A c \in Calls : result[c] \in {"error", "currency"} =>
        \A a \in Attempts : ~Exists(<<c, a>>)
=============================================================================
