---------------------------- MODULE AutoExchange ----------------------------
(***************************************************************************)
(* Automated exchange of convertible reserved instances                    *)
(* (pkg/exchange: auto.go, exchange.go, outcome.go).                       *)
(*                                                                         *)
(* A run walks over its recommendations.  For each it quotes, reserves a   *)
(* spending ceiling in the caller's ledger, quotes twice more, accepts and *)
(* settles the ledger record.  The accept has no client token, prices move *)
(* between the calls, every store write may fail or be stored although it  *)
(* reported an error, and the process may die between any two calls.       *)
(*                                                                         *)
(* A run takes a recommendation once, so a ledger record is named by the   *)
(* run and the source RI.  Amounts are natural numbers of USD.             *)
(***************************************************************************)
EXTENDS Integers, FiniteSets, FiniteSetsExt

CONSTANTS
    Runs,          \* invocations of RunAutoExchange
    RIs,           \* the source RIs AnalyzeReshaping has a recommendation for
    Params,        \* the parameters the runs may be given: functions on Runs
    Prices,        \* the amounts a quote may report
    PerExchangeCap, DailyCap,
    MaxLedgerAttempts,  \* maxLedgerAttempts
    PriceHolds     \* AWS charges what the last quote before the accept said

ASSUME ConstantsAssumption ==
    /\ Prices \subseteq Nat /\ PerExchangeCap \in Nat /\ DailyCap \in Nat
    /\ MaxLedgerAttempts \in Nat \ {0}
    /\ PriceHolds \in BOOLEAN
    /\ IsFiniteSet(Runs) /\ IsFiniteSet(RIs)

VARIABLES
    params,   \* Config.Mode, the origin (of LadderRunID) and DryRun of each run
    pc,       \* where each run is
    todo,     \* recommendations the run has not taken yet
    cur,      \* the recommendation being processed, as a set of at most one RI
    quote,    \* PaymentDue of the run's last quote
    ceiling,  \* effectiveCap, from the reservation
    tries,    \* settlement attempts made
    record,   \* the ledger: status, amount counted against the daily cap
    accept,   \* the accept request of each record, as AWS sees it
    ri        \* whether the source RI was exchanged away

vars == <<params, pc, todo, cur, quote, ceiling, tries, record, accept, ri>>
aws == <<accept, ri>>
locals == <<cur, quote, ceiling, tries>>

PCs == {"idle", "cancel", "next", "manual", "reserve", "bad", "execute", "requote",
        "accept", "await", "fail", "settle", "done", "crashed"}

Statuses == {"none", "pending", "canceled", "processing", "failed", "completed"}

Records == [status : Statuses, counted : Nat]
Accepts == [state : {"none", "inflight", "done", "rejected"}, amount : Nat]

Running(r) == pc[r] \notin {"idle", "done", "crashed"}

NoRecord == [status |-> "none", counted |-> 0]

-----------------------------------------------------------------------------
(* The ledger (RIExchangeStore): external, as its interface documents it.  *)

Places == Runs \X RIs
Total(amount) == MapThenSumSet(LAMBDA k : amount[k], Places)

Counted == [k \in Places |-> record[k[1]][k[2]].counted]
Spend == Total(Counted)

Write(r, x, status, amount) ==
    record' = [record EXCEPT ![r][x] = [status |-> status, counted |-> amount]]

(* A write that reports an error may have been stored all the same.        *)
WriteFails(r, x, status, amount) == UNCHANGED record \/ Write(r, x, status, amount)

CancelPendingByOrigin(origin) ==
    record' = [r \in Runs |-> [x \in RIs |->
                 IF params[r].origin = origin /\ record[r][x].status = "pending"
                 THEN [status |-> "canceled", counted |-> 0] ELSE record[r][x]]]

-----------------------------------------------------------------------------
Goto(r, l) == pc' = [pc EXCEPT ![r] = l]

(* The loop of RunAutoExchange: the recommendation is finished, or the run *)
(* halts because the ledger could not be brought in line.                  *)
Leave(r, l) ==
    /\ Goto(r, l)
    /\ cur' = [cur EXCEPT ![r] = {}]
    /\ quote' = [quote EXCEPT ![r] = 0]
    /\ ceiling' = [ceiling EXCEPT ![r] = 0]
    /\ tries' = [tries EXCEPT ![r] = 0]

NextRecommendation(r) == Leave(r, "next")
Halt(r) == Leave(r, "done")

(* RunAutoExchange: validateMode, and a dry run cancels nothing.  The     *)
(* scheduler does not overlap two runs of one origin.                      *)
Start(r) ==
    /\ pc[r] = "idle"
    /\ \A s \in Runs : params[s].origin = params[r].origin => ~Running(s)
    /\ Goto(r, CASE params[r].mode \notin {"auto", "manual"} -> "done"
                 [] params[r].dryRun -> "next"
                 [] OTHER -> "cancel")
    /\ UNCHANGED <<todo, locals, record, aws>>

(* Mutant: a failed cancellation is only logged. *)
MutantCancelLogged(r) ==
    /\ pc[r] = "cancel"
    /\ CancelPendingByOrigin(params[r].origin) \/ UNCHANGED record
    /\ Goto(r, "next")
    /\ UNCHANGED <<todo, locals, aws>>

(* cancelStalePending: a failure ends the run. *)
CancelStalePending(r) ==
    /\ pc[r] = "cancel"
    /\ \/ CancelPendingByOrigin(params[r].origin) /\ Goto(r, "next")
       \/ CancelPendingByOrigin(params[r].origin) /\ Goto(r, "done")
       \/ UNCHANGED record /\ Goto(r, "done")
    /\ UNCHANGED <<todo, locals, aws>>

Finish(r) ==
    /\ pc[r] = "next" /\ todo[r] = {}
    /\ Goto(r, "done")
    /\ UNCHANGED <<todo, locals, record, aws>>

(* processRecommendation: skipped for want of a target, an offering or a   *)
(* usable quote within the cap; simulated in a dry run; else handed on.    *)
Consider(r, x) ==
    /\ pc[r] = "next" /\ x \in todo[r]
    /\ todo' = [todo EXCEPT ![r] = @ \ {x}]
    /\ \/ NextRecommendation(r)
       \/ \E p \in Prices :
            /\ p <= PerExchangeCap /\ ~params[r].dryRun
            /\ quote' = [quote EXCEPT ![r] = p]
            /\ cur' = [cur EXCEPT ![r] = {x}]
            /\ Goto(r, IF params[r].mode = "manual" THEN "manual" ELSE "reserve")
            /\ UNCHANGED <<ceiling, tries>>
    /\ UNCHANGED <<record, aws>>

(* processManualExchange: a pending record, or a failed one when no        *)
(* approval token could be made (saveFailedRecord).                        *)
SaveManual(r, x) ==
    /\ pc[r] = "manual" /\ x \in cur[r]
    /\ \E status \in {"pending", "failed"} : WriteFails(r, x, status, 0)
    /\ NextRecommendation(r)
    /\ UNCHANGED <<todo, aws>>

(* processAutoExchange: ReserveRIExchange checks the daily spend and saves *)
(* the processing record with the ceiling it returns, atomically.  It may  *)
(* fail without or after storing the record; a record without an ID halts. *)
Reserve(r, x) ==
    /\ pc[r] = "reserve" /\ x \in cur[r]
    /\ \/ UNCHANGED record /\ NextRecommendation(r)
       \/ \E c \in 0..PerExchangeCap :
            /\ Spend + c <= DailyCap
            /\ Write(r, x, "processing", c)
            /\ \/ NextRecommendation(r)
               \/ Halt(r)
               \/ /\ Goto(r, "execute") \/ Goto(r, "bad")
                  /\ ceiling' = [ceiling EXCEPT ![r] = c]
                  /\ UNCHANGED <<cur, quote, tries>>
    /\ UNCHANGED <<todo, aws>>

(* A ceiling that cannot be parsed or is negative: failed, and halt.       *)
BadCeiling(r, x) ==
    /\ pc[r] = "bad" /\ x \in cur[r]
    /\ WriteFails(r, x, "failed", 0)
    /\ Halt(r)
    /\ UNCHANGED <<todo, aws>>

(* executeWithAPI: the account guard, the first quote, checkInitialQuote.  *)
InitialQuote(r, x) ==
    /\ pc[r] = "execute" /\ x \in cur[r]
    /\ \/ (\E p \in Prices : p <= ceiling[r]) /\ Goto(r, "requote")
       \/ Goto(r, "fail")
    /\ UNCHANGED <<todo, locals, record, aws>>

(* Mutant: the re-quote is not compared with the ceiling. *)
MutantReQuoteUnchecked(r, x) ==
    /\ pc[r] = "requote" /\ x \in cur[r]
    /\ \E p \in Prices : quote' = [quote EXCEPT ![r] = p]
    /\ Goto(r, "accept")
    /\ UNCHANGED <<todo, cur, ceiling, tries, record, aws>>

(* executeWithAPI: the quote before the accept, checkReQuote.              *)
ReQuote(r, x) ==
    /\ pc[r] = "requote" /\ x \in cur[r]
    /\ \/ \E p \in Prices :
            /\ p <= ceiling[r]
            /\ quote' = [quote EXCEPT ![r] = p]
            /\ Goto(r, "accept")
       \/ Goto(r, "fail") /\ UNCHANGED quote
    /\ UNCHANGED <<todo, cur, ceiling, tries, record, aws>>

(* executeWithAPI: the only accept request, never retried by the SDK.      *)
SendAccept(r, x) ==
    /\ pc[r] = "accept" /\ x \in cur[r]
    /\ accept' = [accept EXCEPT ![r][x] = [state |-> "inflight", amount |-> quote[r]]]
    /\ Goto(r, "await")
    /\ UNCHANGED <<todo, locals, record, ri>>

(* The accept succeeded, or AWS definitely rejected it.                    *)
Accepted(r, x) == accept[r][x].state = "done" /\ Goto(r, "settle") /\ UNCHANGED locals
Rejected(r, x) == accept[r][x].state = "rejected" /\ Goto(r, "fail") /\ UNCHANGED locals

(* Mutant: a lost response counts as a failed exchange. *)
MutantUnknownFails(r, x) ==
    /\ pc[r] = "await" /\ x \in cur[r]
    /\ Accepted(r, x) \/ (Goto(r, "fail") /\ UNCHANGED locals)
    /\ UNCHANGED <<todo, record, aws>>

(* Mutant: after a lost response the run goes on. *)
MutantUnknownGoesOn(r, x) ==
    /\ pc[r] = "await" /\ x \in cur[r]
    /\ Accepted(r, x) \/ Rejected(r, x) \/ NextRecommendation(r)
    /\ UNCHANGED <<todo, record, aws>>

(* The accept returns: an exchange ID, a definite rejection or an unknown  *)
(* outcome (classifyAcceptError; lost, timed out or empty response), which *)
(* halts the run with the record still processing.                         *)
AwaitAccept(r, x) ==
    /\ pc[r] = "await" /\ x \in cur[r]
    /\ Accepted(r, x) \/ Rejected(r, x) \/ Halt(r)
    /\ UNCHANGED <<todo, record, aws>>

(* failLedgerRecord: halt only when the write fails.                       *)
FailRecord(r, x) ==
    /\ pc[r] = "fail" /\ x \in cur[r]
    /\ \/ Write(r, x, "failed", 0) /\ NextRecommendation(r)
       \/ WriteFails(r, x, "failed", 0) /\ Halt(r)
    /\ UNCHANGED <<todo, aws>>

(* completeLedgerRecord with acceptedAmountFromQuote: bounded attempts.    *)
Settle(r, x) ==
    /\ pc[r] = "settle" /\ x \in cur[r]
    /\ \/ Write(r, x, "completed", quote[r]) /\ NextRecommendation(r)
       \/ /\ WriteFails(r, x, "completed", quote[r])
          /\ IF tries[r] + 1 < MaxLedgerAttempts
             THEN tries' = [tries EXCEPT ![r] = @ + 1] /\ UNCHANGED <<pc, cur, quote, ceiling>>
             ELSE Halt(r)
    /\ UNCHANGED <<todo, aws>>

(* The process dies; the ledger and AWS keep what they have.               *)
Crash(r) ==
    /\ Running(r)
    /\ Leave(r, "crashed")
    /\ UNCHANGED <<todo, record, aws>>

-----------------------------------------------------------------------------
(* AWS (external).                                                         *)

(* The accept is processed, perhaps after the client gave up on it, at the *)
(* price of that moment; an RI already exchanged away is rejected.         *)
ProcessAccept(r, x) ==
    /\ accept[r][x].state = "inflight"
    /\ \/ \E p \in IF PriceHolds THEN {accept[r][x].amount} ELSE Prices :
          /\ ri[x] = "active"
          /\ ri' = [ri EXCEPT ![x] = "exchanged"]
          /\ accept' = [accept EXCEPT ![r][x] =
                          [state |-> "done", amount |-> p]]
       \/ accept' = [accept EXCEPT ![r][x].state = "rejected"] /\ UNCHANGED ri
    /\ UNCHANGED <<pc, todo, locals, record>>

-----------------------------------------------------------------------------
Init ==
    /\ params \in Params
    /\ pc = [r \in Runs |-> "idle"]
    /\ todo = [r \in Runs |-> RIs]
    /\ cur = [r \in Runs |-> {}]
    /\ quote = [r \in Runs |-> 0]
    /\ ceiling = [r \in Runs |-> 0]
    /\ tries = [r \in Runs |-> 0]
    /\ record = [r \in Runs |-> [x \in RIs |-> NoRecord]]
    /\ accept = [r \in Runs |-> [x \in RIs |-> [state |-> "none", amount |-> 0]]]
    /\ ri = [x \in RIs |-> "active"]

RunStep(r) ==
    \/ CancelStalePending(r) \/ Finish(r)
    \/ \E x \in RIs :
         \/ Consider(r, x) \/ SaveManual(r, x) \/ Reserve(r, x) \/ BadCeiling(r, x)
         \/ InitialQuote(r, x) \/ ReQuote(r, x) \/ SendAccept(r, x) \/ AwaitAccept(r, x)
         \/ FailRecord(r, x) \/ Settle(r, x)

Step ==
    \/ \E r \in Runs : Start(r) \/ RunStep(r) \/ Crash(r)
    \/ \E r \in Runs, x \in RIs : ProcessAccept(r, x)

(* A run keeps the parameters it was started with.                         *)
Next == Step /\ UNCHANGED params

Spec == Init /\ [][Next]_vars

-----------------------------------------------------------------------------
(* Properties.                                                             *)

TypeOK ==
    /\ params \in Params
    /\ pc \in [Runs -> PCs]
    /\ todo \in [Runs -> SUBSET RIs] /\ cur \in [Runs -> SUBSET RIs]
    /\ quote \in [Runs -> Nat] /\ ceiling \in [Runs -> Nat] /\ tries \in [Runs -> Nat]
    /\ record \in [Runs -> [RIs -> Records]]
    /\ accept \in [Runs -> [RIs -> Accepts]]
    /\ ri \in [RIs -> {"active", "exchanged"}]

(* What AWS was paid, record by record.                                    *)
Paid == [k \in Places |-> IF accept[k[1]][k[2]].state = "done" THEN accept[k[1]][k[2]].amount ELSE 0]

(* The money that moves stays within MaxPaymentDailyUSD, across concurrent *)
(* runs, crashes, lost responses and failed settlements, as long as AWS    *)
(* charges what it quoted last (the window executeWithAPI documents).      *)
WithinDailyCap == Total(Paid) <= DailyCap

(* Whatever happens to a run, an exchange that took place or still can is  *)
(* counted: its record is processing or completed, for at least the money. *)
LedgerCoversMoney ==
    \A r \in Runs, x \in RIs : accept[r][x].state \in {"inflight", "done"} =>
        /\ record[r][x].status \in {"processing", "completed"}
        /\ record[r][x].counted >= accept[r][x].amount

(* A run leaves at most one exchange in doubt behind: after an unknown     *)
(* outcome or a failed settlement it attempts no further exchange.         *)
OneInDoubtPerRun ==
    \A r \in Runs, x, y \in RIs :
        (/\ accept[r][x].state # "none" /\ record[r][x].status = "processing"
         /\ accept[r][y].state # "none" /\ record[r][y].status = "processing") => x = y

(* Two pending records for one RI of one origin are never approvable at a  *)
(* time: a new run cancels its origin's pending records or does not start. *)
OnePendingPerSource ==
    \A r, s \in Runs, x \in RIs :
        (/\ record[r][x].status = "pending" /\ record[s][x].status = "pending"
         /\ params[r].origin = params[s].origin) => r = s
=============================================================================
