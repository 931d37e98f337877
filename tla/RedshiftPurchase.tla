-------------------------- MODULE RedshiftPurchase --------------------------
(***************************************************************************)
(* The tokenized purchase of Redshift reserved nodes                       *)
(* (providers/aws/services/redshift: client.go, dedupe.go).                *)
(*                                                                         *)
(* The purchase API takes no client token and a reserved node cannot be    *)
(* tagged, so a re-drive recognises an earlier purchase from the account's *)
(* listing (offering, node count and start-time window) and, when the      *)
(* caller supplies one, from a durable attempt journal                     *)
(* (pkg/common/attempt_journal.go).                                        *)
(*                                                                         *)
(* A call is one invocation of PurchaseCommitment.  Every request to AWS   *)
(* and to the journal is a step of its own, so calls interleave and may    *)
(* die between any two of them.  A call sends at most one request          *)
(* (RetryMaxAttempts = 1), so a node is named by the call that bought it.  *)
(*                                                                         *)
(* A token stands for one purchase, so its calls all ask for one node      *)
(* count: the caller the code documents re-drives the purchase it has.     *)
(* What a re-drive asking for another count would do (the scan does not    *)
(* match it and refuseUnresolvedPriors compares offerings only) is outside *)
(* this model.                                                             *)
(***************************************************************************)
EXTENDS Integers, FiniteSets

CONSTANTS
    Calls,        \* invocations of PurchaseCommitment
    Executions,   \* PurchaseOptions.ExecutionID values
    Tokens,       \* PurchaseOptions.IdempotencyToken values
    TokenOf,      \* the token an execution buys for
    RequestedAt,  \* PurchaseOptions.RequestedAt, one per token lineage
    CountOf,      \* the node count a token buys
    Offerings,    \* offering IDs findOfferingID can resolve to
    ClaimReader,  \* the journal also implements common.ClaimReader
    OmitsOffering, \* the listing may leave out a node's offering
    OmitsCount,   \* or its node count
    OmitsStart,   \* or its start time
    Skew,         \* redshiftClockSkew
    Contracts,    \* the callers considered: keeping the contract or not,
    Journals,     \* with an attempt journal or without
    MaxTime       \* bound on the clock

ASSUME ConstantsAssumption ==
    /\ TokenOf \in [Executions -> Tokens]
    /\ RequestedAt \in [Tokens -> Int] /\ CountOf \in [Tokens -> Nat]
    /\ OmitsOffering \in BOOLEAN /\ OmitsCount \in BOOLEAN /\ OmitsStart \in BOOLEAN
    /\ ClaimReader \in BOOLEAN
    /\ Contracts \subseteq BOOLEAN /\ Journals \subseteq BOOLEAN
    /\ Skew \in Nat /\ MaxTime \in Nat

VARIABLES
    contract, \* whether the caller keeps its contract, see MayDispatch
    journaled, \* whether it sets PurchaseOptions.AttemptJournal
    pc,       \* where each call is
    exec,     \* opts.ExecutionID of each call
    offer,    \* the offering each call resolved
    priors,   \* the journal records each call read
    found,    \* the node IDs of the call's last scan
    commit,   \* result.CommitmentID, as a set of at most one ID
    result,   \* the class of result.Error, or "success"
    request,  \* the purchase request of each call, as AWS sees it
    node,     \* the reserved nodes of the account, by the call that bought them
    journal,  \* the caller's attempt journal, one record per execution
    closed,   \* tokens whose lineage the caller will not re-drive
    now       \* AWS's clock

caller == <<contract, journaled>>
callVars == <<exec, offer, priors, found, commit>>
vars == <<caller, pc, callVars, result, request, node, journal, closed, now>>

NoExecution == "no execution"
NoOffering  == "no offering"
NoNode      == "no node"

ASSUME DistinctNames == NoExecution \notin Executions /\ NoOffering \notin Offerings /\ NoNode \notin Calls

PCs == {"idle", "priors", "recorded", "scan", "claims", "approve", "sending", "send",
        "await", "rescan", "reclaims", "purchased", "unknown", "done", "crashed"}

Results == {"none", "error", "refused", "outcome_unknown", "success"}

AttemptStates == {"none", "sending", "purchased", "outcome_unknown"}

(* common.AttemptRecord, keyed by execution; "none" when nothing is stored. *)
AttemptRecords ==
    [exec : Executions, state : AttemptStates, node : Calls \cup {NoNode},
     offering : Offerings \cup {NoOffering}]

NodeRecords ==
    [state : {"none", "owned", "lapsed"}, listed : BOOLEAN,
     offering : Offerings \cup {NoOffering}, start : Int]

Token(c) == TokenOf[exec[c]]
SameCount(c, d) == CountOf[Token(c)] = CountOf[Token(d)]
Started(c) == pc[c] # "idle"
Running(c) == pc[c] \notin {"idle", "done", "crashed"}

-----------------------------------------------------------------------------
(* What AWS lists.                                                         *)

(* Mutant: the window opens at RequestedAt itself. *)
MutantNoSkew(c, n) ==
    /\ node[n].state = "owned" /\ node[n].listed
    /\ node[n].offering = offer[c] /\ SameCount(c, n)
    /\ node[n].start >= RequestedAt[Token(c)]

(* nodeMatches: owned, same offering and node count and not started before *)
(* the window, an omitted field counting as a match.                       *)
MustMatch(c, n) ==
    /\ node[n].state = "owned" /\ node[n].listed
    /\ node[n].offering = offer[c] /\ SameCount(c, n)
    /\ node[n].start >= RequestedAt[Token(c)] - Skew

MayMatch(c, n) ==
    /\ node[n].state = "owned" /\ node[n].listed
    /\ OmitsOffering \/ node[n].offering = offer[c]
    /\ OmitsCount \/ SameCount(c, n)
    /\ OmitsStart \/ node[n].start >= RequestedAt[Token(c)] - Skew

(* findMatchingNodes over a complete describeAllNodes: one of these sets.  *)
MatchingNodes(c) ==
    LET must == {n \in Calls : MustMatch(c, n)}
        may  == {n \in Calls : MayMatch(c, n)}
    IN  {must \cup extra : extra \in SUBSET (may \ must)}

-----------------------------------------------------------------------------
(* The attempt journal: external, as its interface documents it.           *)

PriorAttempts(t) == {journal[e] : e \in {x \in Executions : TokenOf[x] = t /\ journal[x].state # "none"}}

ClaimedByOthers(t, ids) ==
    {n \in ids : \E e \in Executions :
        TokenOf[e] # t /\ journal[e].state = "purchased" /\ journal[e].node = n}

(* The transitions RecordAttempt allows; everything else is an error.      *)
Allowed(old, new) ==
    /\ \/ old.state = "none" /\ new.state \in {"sending", "purchased"}
       \/ old.state = "sending" /\ new.state \in {"purchased", "outcome_unknown"}
       \/ old.state = "outcome_unknown" /\ new.state = "purchased"
       \/ old.state = "purchased" /\ new.state = "purchased" /\ old.node = new.node
    /\ old.state # "none" => old.offering = new.offering

Attempt(c, state, n) == [exec |-> exec[c], state |-> state, node |-> n, offering |-> offer[c]]

Committed(rec) ==
    /\ Allowed(journal[rec.exec], rec)
    /\ journal' = [journal EXCEPT ![rec.exec] = rec]

(* An error from RecordAttempt: the state is not durably known.            *)
NotDurable(rec) == UNCHANGED journal \/ Committed(rec)

-----------------------------------------------------------------------------
(* What a call decides from what it has read.                              *)

RecordedReservationIDs(ps) == {p.node : p \in {q \in ps : q.state = "purchased"}}

MayHaveSent(p) == p.state \in {"sending", "outcome_unknown"}

HasSendEvidence(c) == \E p \in priors[c] : MayHaveSent(p) /\ p.offering = offer[c]

(* unclaimed: the scanned nodes no other token recorded as purchased. The  *)
(* claims are read, and the read can fail, only where there is a reader.   *)
ReadsClaims(c) == journaled /\ ClaimReader /\ found[c] # {}

(* Mutant: the claims of other tokens are not looked at. *)
MutantIgnoresClaims(c) == found[c]

Unclaimed(c) ==
    found[c] \ (IF ReadsClaims(c) THEN ClaimedByOthers(Token(c), found[c]) ELSE {})

(* refuseUnresolvedPriors *)
UnresolvedPriors(c) ==
    \E p \in priors[c] : MayHaveSent(p) /\ (p.exec = exec[c] \/ p.offering # offer[c])

Goto(c, l) == pc' = [pc EXCEPT ![c] = l] /\ UNCHANGED result
End(c, r) == pc' = [pc EXCEPT ![c] = "done"] /\ result' = [result EXCEPT ![c] = r]

(* The call has used what it read: the locals go out of scope.             *)
Forget(c) == priors' = [priors EXCEPT ![c] = {}] /\ found' = [found EXCEPT ![c] = {}]

(* adopt, followed on the journal path by recordPurchased *)
Adopt(c, n) ==
    /\ commit' = [commit EXCEPT ![c] = {n}]
    /\ IF journaled THEN Goto(c, "purchased") ELSE End(c, "success")

-----------------------------------------------------------------------------
(* The caller.                                                             *)

(* The listing may show what d buys to a call of e for the offering o.     *)
Confusable(d, e, o) ==
    /\ OmitsOffering \/ offer[d] = o
    /\ OmitsCount \/ CountOf[Token(d)] = CountOf[TokenOf[e]]

(* The caller contract documented on findMatchingNodes and AttemptJournal: *)
(* a token is re-driven once its calls ended and what they bought is       *)
(* listed, and no two open lineages buy the same offering and node count.  *)
(* The rule is about nodes that match: where the listing may leave one of  *)
(* the two out, every node may match on it, and where it may leave out     *)
(* both, only one lineage is open at a time.                               *)
MayDispatch(e, o) ==
    LET t == TokenOf[e] IN
    contract =>
        /\ t \notin closed
        /\ \A d \in Calls : Started(d) =>
              IF Token(d) = t THEN ~Running(d) ELSE Confusable(d, e, o) => Token(d) \in closed
        /\ \A d \in Calls : (Started(d) /\ Token(d) = t) =>
              /\ request[d] # "inflight"
              /\ node[d].state = "owned" => node[d].listed

(* PurchaseCommitment up to guardBeforePurchase: the offering is resolved, *)
(* or the count check or findOfferingID fails.                             *)
Dispatch(c, e, o) ==
    /\ pc[c] = "idle"
    /\ now >= RequestedAt[TokenOf[e]]
    /\ MayDispatch(e, o)
    /\ exec' = [exec EXCEPT ![c] = e]
    /\ offer' = [offer EXCEPT ![c] = o]
    /\ \/ Goto(c, IF journaled THEN "priors" ELSE "scan")
       \/ \E r \in {"refused", "error"} : End(c, r)
    /\ UNCHANGED <<priors, found, commit, request, node, journal, closed, now>>

(* The caller gives a lineage up: it will not be re-driven.                *)
Close(t) ==
    /\ contract
    /\ t \notin closed
    /\ \A c \in Calls : (Started(c) /\ Token(c) = t) => ~Running(c)
    /\ closed' = closed \cup {t}
    /\ UNCHANGED <<pc, callVars, result, request, node, journal, now>>

-----------------------------------------------------------------------------
(* The steps of a call, in the order of PurchaseCommitment.                *)

(* journalPreflight: PriorAttempts, then one recorded node, none, or an    *)
(* inconsistent journal.                                                   *)
ReadPriors(c) ==
    /\ pc[c] = "priors"
    /\ \/ End(c, "refused") /\ UNCHANGED priors
       \/ LET ps  == PriorAttempts(Token(c))
              ids == RecordedReservationIDs(ps)
          IN  /\ priors' = [priors EXCEPT ![c] = ps]
              /\ \/ ids = {} /\ Goto(c, "scan")
                 \/ (\E n \in Calls : ids = {n}) /\ Goto(c, "recorded")
                 \/ (\E m, n \in ids : m # n) /\ End(c, "refused")
    /\ UNCHANGED <<exec, offer, found, commit, request, node, journal, closed, now>>

(* adoptRecordedNode: adopted only while the account still lists it.       *)
AdoptRecorded(c) ==
    /\ pc[c] = "recorded"
    /\ \/ End(c, "refused") /\ UNCHANGED commit
       \/ \E m \in MatchingNodes(c), n \in RecordedReservationIDs(priors[c]) :
            \/ n \in m /\ commit' = [commit EXCEPT ![c] = {n}] /\ End(c, "success")
            \/ n \notin m /\ End(c, "refused") /\ UNCHANGED commit
    /\ Forget(c)
    /\ UNCHANGED <<exec, offer, request, node, journal, closed, now>>

(* guardAgainstRepurchase: the scan.                                       *)
Scan(c) ==
    /\ pc[c] = "scan"
    /\ \/ End(c, "error") /\ UNCHANGED found
       \/ \E m \in MatchingNodes(c) :
            found' = [found EXCEPT ![c] = m] /\ Goto(c, "claims")
    /\ UNCHANGED <<exec, offer, priors, commit, request, node, journal, closed, now>>

(* guardAgainstRepurchase after the scan: the claims, the ambiguity checks *)
(* and adoption; with no match refuseUnresolvedPriors decides.             *)
CheckClaims(c) ==
    LET kept == Unclaimed(c)
        more == \E m, n \in found[c] : m # n
    IN
    /\ pc[c] = "claims"
    /\ \/ ReadsClaims(c) /\ End(c, "refused") /\ UNCHANGED commit
       \/ (\E m, n \in kept : m # n) /\ End(c, "error") /\ UNCHANGED commit
       \/ \E n \in kept : kept = {n} /\
            IF more /\ ~HasSendEvidence(c)
            THEN End(c, "error") /\ UNCHANGED commit
            ELSE Adopt(c, n)
       \/ /\ kept = {} /\ UNCHANGED commit
          /\ IF UnresolvedPriors(c) THEN End(c, "outcome_unknown") ELSE Goto(c, "approve")
    /\ Forget(c)
    /\ UNCHANGED <<exec, offer, request, node, journal, closed, now>>

(* Mutant: the attempt is not recorded before the request leaves. *)
MutantSendsUnrecorded(c) ==
    /\ pc[c] = "approve"
    /\ End(c, "refused") \/ Goto(c, "send")
    /\ UNCHANGED <<callVars, request, node, journal, closed, now>>

(* readyToSend: checkApprovedUpfront *)
CheckApprovedUpfront(c) ==
    /\ pc[c] = "approve"
    /\ End(c, "refused") \/ Goto(c, IF journaled THEN "sending" ELSE "send")
    /\ UNCHANGED <<callVars, request, node, journal, closed, now>>

(* Mutant: a failed journal write is only logged. *)
MutantSendsAnyway(c) ==
    /\ pc[c] = "sending"
    /\ NotDurable(Attempt(c, "sending", NoNode)) /\ Goto(c, "send")
    /\ UNCHANGED <<callVars, request, node, closed, now>>

(* readyToSend: recordSending. No durable record, no buy.                  *)
RecordSending(c) ==
    LET rec == Attempt(c, "sending", NoNode) IN
    /\ pc[c] = "sending"
    /\ \/ Committed(rec) /\ Goto(c, "send")
       \/ NotDurable(rec) /\ End(c, "refused")
    /\ UNCHANGED <<callVars, request, node, closed, now>>

(* The single PurchaseReservedNodeOffering request leaves the client.      *)
Send(c) ==
    /\ pc[c] = "send"
    /\ request' = [request EXCEPT ![c] = "inflight"]
    /\ Goto(c, "await")
    /\ UNCHANGED <<callVars, node, journal, closed, now>>

(* The call returns: a node, an unknown outcome (a lost or empty response, *)
(* a timeout, a 5xx) or a definite rejection (ClassifyPurchaseError).      *)
Await(c) ==
    /\ pc[c] = "await"
    /\ \/ request[c] = "accepted" /\ Adopt(c, c)
       \/ UNCHANGED commit /\ Goto(c, "rescan")
       \/ /\ request[c] = "rejected" /\ UNCHANGED commit
          /\ IF journaled
             THEN pc' = [pc EXCEPT ![c] = "unknown"] /\ result' = [result EXCEPT ![c] = "error"]
             ELSE End(c, "error")
    /\ UNCHANGED <<exec, offer, priors, found, request, node, journal, closed, now>>

(* adoptAfterUnknownOutcome gives up: the original error stands.           *)
NotAdopted(c) ==
    /\ pc' = [pc EXCEPT ![c] = IF journaled THEN "unknown" ELSE "done"]
    /\ result' = [result EXCEPT ![c] = "outcome_unknown"]

(* adoptAfterUnknownOutcome: the scan.                                     *)
Rescan(c) ==
    /\ pc[c] = "rescan"
    /\ \/ NotAdopted(c) /\ UNCHANGED found
       \/ \E m \in MatchingNodes(c) :
            found' = [found EXCEPT ![c] = m] /\ Goto(c, "reclaims")
    /\ UNCHANGED <<exec, offer, priors, commit, request, node, journal, closed, now>>

(* adoptAfterUnknownOutcome: the claims, and adoption of a sole match.     *)
RecheckClaims(c) ==
    /\ pc[c] = "reclaims"
    /\ \/ \E n \in Calls : Unclaimed(c) = {n} /\ Adopt(c, n)
       \/ /\ ReadsClaims(c) \/ ~(\E n \in Calls : Unclaimed(c) = {n})
          /\ NotAdopted(c) /\ UNCHANGED commit
    /\ Forget(c)
    /\ UNCHANGED <<exec, offer, request, node, journal, closed, now>>

(* Mutant: a failed journal write does not demote the success. *)
MutantSuccessUnrecorded(c) ==
    \E n \in commit[c] :
      /\ pc[c] = "purchased"
      /\ NotDurable(Attempt(c, "purchased", n)) /\ End(c, "success")
      /\ UNCHANGED <<callVars, request, node, closed, now>>

(* recordPurchased: a node that is not recorded is never a success.        *)
RecordPurchased(c) ==
    \E n \in commit[c] :
      LET rec == Attempt(c, "purchased", n) IN
      /\ pc[c] = "purchased"
      /\ \/ Committed(rec) /\ End(c, "success")
         \/ NotDurable(rec) /\ End(c, "outcome_unknown")
      /\ UNCHANGED <<callVars, request, node, closed, now>>

(* recordUnknown: the original error is returned either way.               *)
RecordUnknown(c) ==
    /\ pc[c] = "unknown"
    /\ NotDurable(Attempt(c, "outcome_unknown", NoNode))
    /\ End(c, result[c])
    /\ UNCHANGED <<callVars, request, node, closed, now>>

(* The process dies; what it sent and wrote stays.                         *)
Crash(c) ==
    /\ Running(c)
    /\ Goto(c, "crashed")
    /\ Forget(c)
    /\ UNCHANGED <<exec, offer, commit, request, node, journal, closed, now>>

-----------------------------------------------------------------------------
(* AWS (external).                                                         *)

(* A request that left is processed, even after its call gave up or died.  *)
Provision(c) ==
    /\ request[c] = "inflight"
    /\ request' = [request EXCEPT ![c] = "accepted"]
    /\ \E s \in (now - Skew)..(now + Skew) :
         node' = [node EXCEPT ![c] = [state |-> "owned", listed |-> FALSE,
                                      offering |-> offer[c], start |-> s]]
    /\ UNCHANGED <<pc, callVars, result, journal, closed, now>>

Reject(c) ==
    /\ request[c] = "inflight"
    /\ request' = [request EXCEPT ![c] = "rejected"]
    /\ UNCHANGED <<pc, callVars, result, node, journal, closed, now>>

List(n) ==
    /\ node[n].state = "owned" /\ ~node[n].listed
    /\ node' = [node EXCEPT ![n].listed = TRUE]
    /\ UNCHANGED <<pc, callVars, result, request, journal, closed, now>>

(* The node leaves every owned state (retired, payment failed).            *)
Lapse(n) ==
    /\ node[n].state = "owned" /\ node[n].listed
    /\ node' = [node EXCEPT ![n].state = "lapsed"]
    /\ UNCHANGED <<pc, callVars, result, request, journal, closed, now>>

Tick ==
    /\ now < MaxTime
    /\ now' = now + 1
    /\ UNCHANGED <<pc, callVars, result, request, node, journal, closed>>

-----------------------------------------------------------------------------
Init ==
    /\ contract \in Contracts /\ journaled \in Journals
    /\ pc = [c \in Calls |-> "idle"]
    /\ exec = [c \in Calls |-> NoExecution]
    /\ offer = [c \in Calls |-> NoOffering]
    /\ priors = [c \in Calls |-> {}]
    /\ found = [c \in Calls |-> {}]
    /\ commit = [c \in Calls |-> {}]
    /\ result = [c \in Calls |-> "none"]
    /\ request = [c \in Calls |-> "none"]
    /\ node = [c \in Calls |-> [state |-> "none", listed |-> FALSE,
                                offering |-> NoOffering, start |-> 0]]
    /\ journal = [e \in Executions |-> [exec |-> e, state |-> "none",
                                        node |-> NoNode, offering |-> NoOffering]]
    /\ closed = {}
    /\ now = 0

CallStep(c) ==
    \/ ReadPriors(c) \/ AdoptRecorded(c) \/ Scan(c) \/ CheckClaims(c)
    \/ CheckApprovedUpfront(c) \/ RecordSending(c) \/ Send(c) \/ Await(c)
    \/ Rescan(c) \/ RecheckClaims(c) \/ RecordPurchased(c) \/ RecordUnknown(c)

AwsStep(c) == Provision(c) \/ Reject(c) \/ List(c) \/ Lapse(c)

Step ==
    \/ \E c \in Calls : CallStep(c) \/ Crash(c) \/ AwsStep(c)
    \/ \E c \in Calls, e \in Executions, o \in Offerings : Dispatch(c, e, o)
    \/ \E t \in Tokens : Close(t)
    \/ Tick

Next == Step /\ UNCHANGED caller

Spec == Init /\ [][Next]_vars

-----------------------------------------------------------------------------
(* Properties.                                                             *)

TypeOK ==
    /\ contract \in BOOLEAN /\ journaled \in BOOLEAN
    /\ pc \in [Calls -> PCs]
    /\ exec \in [Calls -> Executions \cup {NoExecution}]
    /\ offer \in [Calls -> Offerings \cup {NoOffering}]
    /\ priors \in [Calls -> SUBSET AttemptRecords]
    /\ found \in [Calls -> SUBSET Calls]
    /\ commit \in [Calls -> SUBSET Calls]
    /\ result \in [Calls -> Results]
    /\ request \in [Calls -> {"none", "inflight", "accepted", "rejected"}]
    /\ node \in [Calls -> NodeRecords]
    /\ journal \in [Executions -> AttemptRecords]
    /\ closed \subseteq Tokens
    /\ now \in Int
    /\ \A c \in Calls : Started(c) => exec[c] \in Executions /\ offer[c] \in Offerings
    /\ \A e \in Executions : journal[e].exec = e

(* "No record, no buy" (recordSending), whatever the caller does: with a   *)
(* journal an execution sends at most one purchase request, although calls *)
(* for it may run concurrently, die and be re-driven, and although a       *)
(* journal write that reported an error may have been stored.              *)
ExecutionSendsOnce ==
    journaled => \A c, d \in Calls :
        (request[c] # "none" /\ request[d] # "none" /\ exec[c] = exec[d]) => c = d

(* findOfferingID resolves the same offering whenever a token is re-driven. *)
StableOfferings ==
    \A c, d \in Calls : (Started(c) /\ Started(d) /\ Token(c) = Token(d)) => offer[c] = offer[d]

(* A token owns at most one node at a time, when the caller keeps the      *)
(* contract of findMatchingNodes: this is what the scan, the claims, the   *)
(* send evidence and refuseUnresolvedPriors are there for together.        *)
(* Without a journal it takes an offering that resolves the same again.    *)
TokenOwnsOne ==
    (contract /\ (journaled \/ StableOfferings)) => \A c, d \in Calls :
        (node[c].state = "owned" /\ node[d].state = "owned" /\ Token(c) = Token(d)) => c = d

(* Every node bought on the journal path is named by a record of its       *)
(* execution under the node's offering, so that a later attempt can find   *)
(* it or refuse, even if the buying call dies at the worst moment.         *)
EveryBuyIsRecorded ==
    \A c \in Calls : (journaled /\ node[c].state # "none") =>
        journal[exec[c]].state # "none" /\ journal[exec[c]].offering = node[c].offering

(* A success on the journal path is durable: the token's journal names the *)
(* node, so every later attempt adopts that node or refuses.               *)
SuccessIsRecorded ==
    \A c \in Calls : (journaled /\ result[c] = "success") =>
        \E e \in Executions :
            TokenOf[e] = Token(c) /\ journal[e].state = "purchased" /\ commit[c] = {journal[e].node}

(* Together, with a journal and under the contract: the client implements  *)
(* the promise of AtMostOncePurchase.                                      *)
Promise == INSTANCE AtMostOncePurchase WITH
    Commitments <- Calls,
    live <- [t \in Tokens |-> {c \in Calls :
        contract /\ journaled /\ node[c].state = "owned" /\ Token(c) = t}],
    reported <- [t \in Tokens |->
        UNION {commit[c] : c \in {d \in Calls :
            contract /\ journaled /\ result[d] = "success" /\ Token(d) = t}}]

(* PurchaseCommitment buys at most once per token and never reports one    *)
(* node for two tokens, as a step-by-step refinement.                      *)
BuysAtMostOnce == Promise!Spec
=============================================================================
