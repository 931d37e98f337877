---------------------------- MODULE EC2Purchase ----------------------------
(***************************************************************************)
(* EC2 reserved instance purchases and their read-only reconciliation      *)
(* (providers/aws/services/ec2: client.go, reconcile.go,                   *)
(* reconcile_match.go; internal/purchasecfg: outcome.go, reconcile.go).    *)
(*                                                                         *)
(* The API has no client token and no tags on the request.  A purchase is  *)
(* recognized later by the idempotency tag the client writes after it, or  *)
(* by its attributes and its start time.  A call sends at most one         *)
(* request, so an RI is named by the call that bought it.                  *)
(***************************************************************************)
EXTENDS Integers, FiniteSets

CONSTANTS
    Calls,         \* invocations of PurchaseCommitment
    Tokens,        \* idempotency tokens
    NoToken,       \* the empty token, and the missing tag
    Shape,         \* the attributes a token's recommendation asks for
    TagAttempts,   \* MaxAttempts of tagReservedInstance
    ClockSkew,     \* slack of the reconcile window
    Drift,         \* how far the AWS clock may be off
    OmitsFields,   \* DescribeReservedInstances may omit a field
    MaxTime        \* bound on the clock

ASSUME ConstantsAssumption ==
    /\ IsFiniteSet(Calls) /\ NoToken \notin Tokens
    /\ OmitsFields \in BOOLEAN
    /\ TagAttempts \in Nat \ {0}
    /\ ClockSkew \in Nat /\ Drift \in Nat /\ MaxTime \in Nat

VARIABLES
    contract,   \* whether the caller re-drives as ErrOutcomeUnknown documents
    pc,         \* where each call is
    token,      \* its idempotency token
    requested,  \* RequestedAt: the first dispatch of its lineage
    ended,      \* when it returned
    tries,      \* CreateTags attempts made
    result,     \* what it returned
    commit,     \* the RI it returned, as a set of at most one
    verdict,    \* the last ReconcilePurchase for it: Found RIs with Tagged
    ri,         \* the RI of each call's request, as AWS has it
    now

vars == <<contract, pc, token, requested, ended, tries, result, commit, verdict, ri, now>>
call == <<token, requested, ended, tries, result, commit>>

AllTokens == Tokens \cup {NoToken}
Times == -Drift..(MaxTime + Drift)
Live == {"live"}          \* payment-pending or active
Landed == Live \cup {"retired"}

PCs == {"idle", "lookup", "offer", "send", "await", "tag", "done", "crashed"}
Results == {"none", "success", "existing", "error", "refused", "unknown"}
RIRecords == [state : {"none", "inflight", "rejected"} \cup Landed,
              start : Times, listed : BOOLEAN, tag : AllTokens]

Running(c) == pc[c] \notin {"idle", "done", "crashed"}

-----------------------------------------------------------------------------
Goto(c, l) == pc' = [pc EXCEPT ![c] = l]

Return(c, r, ids) ==
    /\ Goto(c, "done")
    /\ result' = [result EXCEPT ![c] = r]
    /\ commit' = [commit EXCEPT ![c] = ids]
    /\ ended' = [ended EXCEPT ![c] = now]

(* The documented caller: a token is dispatched again only once its calls  *)
(* ended, none with an unknown outcome or dead after it sent, and the RI a *)
(* success reported was tagged and is listed.  The rest goes to an operator. *)
MayDispatch(t) ==
    \A d \in Calls : (pc[d] # "idle" /\ token[d] = t) =>
        /\ ~Running(d) /\ result[d] # "unknown"
        /\ pc[d] = "crashed" => ri[d].state = "none"
        /\ result[d] = "success" => ri[d].tag = t /\ ri[d].listed

(* PurchaseCommitment: a count out of bounds is refused before anything.   *)
Dispatch(c, t) ==
    /\ pc[c] = "idle"
    /\ contract /\ t \in Tokens => MayDispatch(t)
    /\ LET lineage == {requested[d] : d \in {e \in Calls : pc[e] # "idle" /\ token[e] = t}}
           first == IF t = NoToken \/ lineage = {} THEN now
                    ELSE CHOOSE x \in lineage : \A y \in lineage : x <= y
       IN  requested' = [requested EXCEPT ![c] = first]
    /\ token' = [token EXCEPT ![c] = t]
    /\ \/ /\ Goto(c, IF t = NoToken THEN "offer" ELSE "lookup")
          /\ UNCHANGED <<ended, result, commit>>
       \/ Return(c, "refused", {})
    /\ UNCHANGED <<tries, verdict, ri, now>>

(* The live RIs that carry the token's tag, as far as AWS lists them.      *)
TaggedRIs(t) == {n \in Calls : ri[n].listed /\ ri[n].tag = t /\ ri[n].state \in Live}

(* findRIByIdempotencyToken: adopt, refuse on a failed lookup, or go on.   *)
FindByToken(c) ==
    /\ pc[c] = "lookup"
    /\ \/ Return(c, "error", {})
       \/ \E n \in TaggedRIs(token[c]) : Return(c, "existing", {n})
       \/ TaggedRIs(token[c]) = {} /\ Goto(c, "offer") /\ UNCHANGED <<ended, result, commit>>
    /\ UNCHANGED <<token, requested, tries, verdict, ri, now>>

(* findOffering and checkApprovedUpfront.                                  *)
ResolveOffering(c) ==
    /\ pc[c] = "offer"
    /\ \/ \E r \in {"error", "refused"} : Return(c, r, {})
       \/ Goto(c, "send") /\ UNCHANGED <<ended, result, commit>>
    /\ UNCHANGED <<token, requested, tries, verdict, ri, now>>

(* PurchaseReservedInstancesOffering, a single attempt.                    *)
Send(c) ==
    /\ pc[c] = "send"
    /\ ri' = [ri EXCEPT ![c].state = "inflight"]
    /\ Goto(c, "await")
    /\ UNCHANGED <<call, verdict, now>>

(* Mutant: an error status is read as a rejection. *)
MutantAnyStatusRejects(c) ==
    /\ pc[c] = "await"
    /\ \/ ri[c].state \in Landed /\ Goto(c, "tag") /\ UNCHANGED <<ended, result, commit>>
       \/ \E r \in {"error", "unknown"} : Return(c, r, {})
    /\ UNCHANGED <<token, requested, tries, verdict, ri, now>>

(* The response: an ID, a definite rejection, or anything else, an empty   *)
(* success included, which ClassifyPurchaseError marks as unknown.         *)
AwaitPurchase(c) ==
    /\ pc[c] = "await"
    /\ \/ ri[c].state \in Landed /\ Goto(c, "tag") /\ UNCHANGED <<ended, result, commit>>
       \/ ri[c].state = "rejected" /\ Return(c, "error", {})
       \/ Return(c, "unknown", {})
    /\ UNCHANGED <<token, requested, tries, verdict, ri, now>>

(* Mutant: a failed tag write fails the purchase. *)
MutantTagFailureFails(c) ==
    /\ pc[c] = "tag"
    /\ \/ /\ ri[c].listed
          /\ ri' = [ri EXCEPT ![c].tag = token[c]]
          /\ Return(c, "success", {c})
       \/ Return(c, "error", {}) /\ UNCHANGED ri
    /\ UNCHANGED <<token, requested, tries, verdict, now>>

(* tagReservedInstance: retried only while the RI is not found; a failure  *)
(* is logged, for the RI is bought, and may have stored the tag.           *)
Tag(c) ==
    /\ pc[c] = "tag"
    /\ \/ /\ ri[c].listed
          /\ ri' = [ri EXCEPT ![c].tag = token[c]]
          /\ Return(c, "success", {c})
          /\ UNCHANGED tries
       \/ Return(c, "success", {c}) /\ UNCHANGED <<tries, ri>>
       \/ /\ ~ri[c].listed /\ tries[c] + 1 < TagAttempts
          /\ tries' = [tries EXCEPT ![c] = @ + 1]
          /\ UNCHANGED <<pc, ended, result, commit, ri>>
    /\ UNCHANGED <<token, requested, verdict, now>>

(* The process dies; the caller takes the time it noticed as the end.      *)
Crash(c) ==
    /\ Running(c)
    /\ Goto(c, "crashed")
    /\ UNCHANGED <<call, verdict, ri, now>>

-----------------------------------------------------------------------------
(* ReconcilePurchase.                                                      *)

(* Mutant: the window has no slack. *)
MutantNoSlack(c, n) == ri[n].start \in requested[c]..ended[c]

(* ReconcileWindow, InWindow.                                              *)
InWindow(c, n) == ri[n].start \in (requested[c] - ClockSkew)..(ended[c] + ClockSkew)

(* attrFit: a definite mismatch beats doubt, doubt beats a match.          *)
AttrFit(c, n, omitted) ==
    CASE Shape[token[n]] # Shape[token[c]] \/ ~InWindow(c, n) -> "no"
      [] omitted \/ ri[n].state \notin Live -> "uncertain"
      [] OTHER -> "match"

(* riFit: a foreign tag rules the RI out, the own tag keeps it in doubt at *)
(* worst.                                                                  *)
RIFit(c, n, omitted) ==
    LET fit == AttrFit(c, n, omitted)
        own == token[c] # NoToken /\ ri[n].tag = token[c]
    IN  CASE ri[n].tag # NoToken /\ ~own -> "no"
          [] own /\ fit # "match" -> "uncertain"
          [] OTHER -> fit

(* Decide: Found for exactly one match and no candidate in doubt.          *)
Decide(matches, uncertain) ==
    IF Cardinality(matches) = 1 /\ uncertain = {} THEN {matches} ELSE {{}}

(* One listing, in which AWS may omit a field of some RIs; a failed lookup *)
(* leaves the verdict Unknown.                                             *)
Reconcile(c) ==
    /\ result[c] = "unknown"
    /\ LET listing == {n \in Calls : ri[n].listed}
       IN \E omits \in (IF OmitsFields THEN SUBSET listing ELSE {{}}) :
            LET fits(f) == {n \in listing : RIFit(c, n, n \in omits) = f}
            IN  \E found \in Decide(fits("match"), fits("uncertain")) :
                  verdict' = [verdict EXCEPT ![c] =
                                {[id |-> n, tagged |-> ri[n].tag # NoToken] : n \in found}]
    /\ UNCHANGED <<pc, call, ri, now>>

-----------------------------------------------------------------------------
(* AWS and the clock (external).                                           *)

Process(n) ==
    /\ ri[n].state = "inflight"
    /\ \/ \E d \in -Drift..Drift :
            ri' = [ri EXCEPT ![n] = [@ EXCEPT !.state = "live", !.start = now + d]]
       \/ ri' = [ri EXCEPT ![n].state = "rejected"]
    /\ UNCHANGED <<pc, call, verdict, now>>

List(n) ==
    /\ ri[n].state \in Landed /\ ~ri[n].listed
    /\ ri' = [ri EXCEPT ![n].listed = TRUE]
    /\ UNCHANGED <<pc, call, verdict, now>>

Retire(n) ==
    /\ ri[n].state \in Live
    /\ ri' = [ri EXCEPT ![n].state = "retired"]
    /\ UNCHANGED <<pc, call, verdict, now>>

Tick ==
    /\ now < MaxTime
    /\ now' = now + 1
    /\ UNCHANGED <<pc, call, verdict, ri>>

-----------------------------------------------------------------------------
Init ==
    /\ contract \in BOOLEAN
    /\ pc = [c \in Calls |-> "idle"]
    /\ token = [c \in Calls |-> NoToken]
    /\ requested = [c \in Calls |-> 0]
    /\ ended = [c \in Calls |-> 0]
    /\ tries = [c \in Calls |-> 0]
    /\ result = [c \in Calls |-> "none"]
    /\ commit = [c \in Calls |-> {}]
    /\ verdict = [c \in Calls |-> {}]
    /\ ri = [c \in Calls |-> [state |-> "none", start |-> 0, listed |-> FALSE, tag |-> NoToken]]
    /\ now = 0

CallStep(c) ==
    \/ FindByToken(c) \/ ResolveOffering(c) \/ Send(c) \/ AwaitPurchase(c) \/ Tag(c)

Step ==
    \/ \E c \in Calls, t \in AllTokens : Dispatch(c, t)
    \/ \E c \in Calls : CallStep(c) \/ Crash(c) \/ Reconcile(c)
    \/ \E n \in Calls : Process(n) \/ List(n) \/ Retire(n)
    \/ Tick

Next == Step /\ UNCHANGED contract

Spec == Init /\ [][Next]_vars

-----------------------------------------------------------------------------
(* Properties.                                                             *)

TypeOK ==
    /\ contract \in BOOLEAN
    /\ pc \in [Calls -> PCs]
    /\ token \in [Calls -> AllTokens]
    /\ requested \in [Calls -> 0..MaxTime] /\ ended \in [Calls -> 0..MaxTime]
    /\ tries \in [Calls -> 0..(TagAttempts - 1)]
    /\ result \in [Calls -> Results]
    /\ commit \in [Calls -> SUBSET Calls]
    /\ verdict \in [Calls -> SUBSET [id : Calls, tagged : BOOLEAN]]
    /\ ri \in [Calls -> RIRecords]
    /\ now \in 0..MaxTime

(* An error that is not marked ErrOutcomeUnknown means the call bought     *)
(* nothing and will not: it is what lets the caller re-drive.              *)
UnmarkedMeansNothingBought ==
    \A c \in Calls : result[c] \in {"error", "refused"} => ri[c].state \in {"none", "rejected"}

(* For such a caller the calls implement the promise of                    *)
(* AtMostOncePurchase; for any other nothing is promised.                  *)
Promise == INSTANCE AtMostOncePurchase WITH
    Commitments <- Calls,
    live <- [t \in Tokens |-> {c \in Calls : contract /\ ri[c].state \in Live /\ token[c] = t}],
    reported <- [t \in Tokens |-> UNION {commit[c] : c \in {d \in Calls : contract /\ token[d] = t}}]

BuysAtMostOnce == Promise!Spec

(* Found passes over nothing: an RI of the lineage that was bought before  *)
(* the attempt ended and is listed is the one named, or the verdict stays  *)
(* Unknown, despite clock drift, omitted fields, retired and foreign RIs.  *)
FoundPassesOverNothing ==
    [][\A c \in Calls : \A f \in verdict'[c] :
          verdict'[c] # verdict[c] =>
            \A n \in Calls :
               (/\ ri[n].listed /\ token[n] = token[c] /\ token[c] # NoToken
                /\ ri[n].start <= ended[c] + Drift) => n = f.id]_vars

(* Found names a purchase of the call's own lineage: anything else would   *)
(* be doubt, and any doubt is Unknown.                                     *)
FoundIsOwn ==
    \A c \in Calls : \A f \in verdict[c] : token[f.id] = token[c]
=============================================================================
