----------------------------- MODULE GcpPurchase ----------------------------
(***************************************************************************)
(* GCP committed use discounts: PurchaseCommitment of the Compute Engine   *)
(* client, driven concurrently by several callers.  GCP holds commitments  *)
(* by name and remembers request IDs for a while; both are derived from    *)
(* the caller's token, or the name from the clock when there is none.      *)
(*                                                                         *)
(* A recommendation is [count, term, kind, machine, memory]: vCPUs, the    *)
(* term as it is spelled, the commitment type stated by the recommender or *)
(* "", the machine family and the memory in MB, 0 when it is not known.    *)
(***************************************************************************)
EXTENDS Names, Retry, Sequences, FiniteSets

CONSTANTS
    Drivers,       \* concurrent callers of PurchaseCommitment
    GcpOrders,     \* [token, rec]: what they may ask for
    GcpRetry,      \* its retry.Config
    MaxSeconds,    \* bound on the clock
    MaxGcpCalls    \* bound on the calls made

ASSUME GcpRetryAssumption == Validate(GcpRetry)
ASSUME NilAssumption == Nil \notin Nat

VARIABLES
    drive,      \* each driver's call
    cuds,       \* name -> the commitment GCP has under it
    requests,   \* request ID -> the name it created, while GCP remembers it
    second,     \* time.Now().Unix()
    gcpCalls,   \* calls made
    successes   \* what the calls that succeeded reported

gcpVars == <<drive, cuds, requests, second, gcpCalls, successes>>

-----------------------------------------------------------------------------
(* What a recommendation means to GCP.                                     *)

(* skumatch.TermYears: 0 is an error.                                      *)
TermYears(term) ==
    IF term \in {"", "1yr", "1", "12mo"} THEN 1 ELSE IF term \in {"3yr", "3", "36mo"} THEN 3 ELSE 0

TermPlan(term) ==
    IF term = "" \/ TermYears(term) = 0 THEN Nil
    ELSE IF TermYears(term) = 3 THEN "THIRTY_SIX_MONTH" ELSE "TWELVE_MONTH"

(* machineFamilyCommitmentType: families that share a type, families with  *)
(* one of their own.                                                       *)
FamilyType ==
    "n1" :> "GENERAL_PURPOSE" @@ "custom" :> "GENERAL_PURPOSE" @@ "n2" :> "GENERAL_PURPOSE_N2"
    @@ "m1" :> "MEMORY_OPTIMIZED" @@ "m2" :> "MEMORY_OPTIMIZED" @@ "m3" :> "MEMORY_OPTIMIZED_M3"
NeedsMoreResources == {"a2", "g2", "z3"}
SharedCore == {"f1", "g1"}

CommitmentTypeForMachineType(family) ==
    IF family = "" \/ family \in SharedCore \cup NeedsMoreResources \/ family \notin DOMAIN FamilyType
    THEN Nil ELSE FamilyType[family]

(* A type the recommender states must exist and need vCPUs and memory      *)
(* alone.                                                                  *)
ConcreteCommitmentType(kind) ==
    IF kind \in {FamilyType[f] : f \in DOMAIN FamilyType} THEN kind ELSE Nil

CommitmentTypeForRecommendation(rec) ==
    IF rec.kind # "" THEN ConcreteCommitmentType(rec.kind) ELSE CommitmentTypeForMachineType(rec.machine)

(* A token is a lower-case hex digest of 32 characters or more.            *)
ValidToken(token) == token \notin {"short", "UPPER"}

(* Mutant: the name comes from the clock whatever the token.               *)
MutantCommitmentName(token) == <<"second", second>>

IdempotentCommitmentName(token) == IF token = "" THEN <<"second", second>> ELSE <<"token", token>>

(* buildInsertRequest.                                                     *)
Buildable(order) ==
    /\ order.rec.count > 0 /\ TermPlan(order.rec.term) # Nil
    /\ CommitmentTypeForRecommendation(order.rec) # Nil
    /\ ValidToken(order.token) /\ order.rec.memory > 0
ContentOf(rec) ==
    [plan |-> TermPlan(rec.term), type |-> CommitmentTypeForRecommendation(rec),
     vcpu |-> rec.count, memory |-> rec.memory]
InsertRequest(order) ==
    [name |-> IdempotentCommitmentName(order.token), token |-> order.token, content |-> ContentOf(order.rec),
     call |-> gcpCalls]

-----------------------------------------------------------------------------
(* GCP, external.  A name is unique; an insert whose request ID is         *)
(* remembered is not carried out again, whatever it asks for.              *)

NameTaken(name) == name \in DOMAIN cuds
Remembered(req) == req.token # "" /\ req.token \in DOMAIN requests
With(f, k, v) == [x \in DOMAIN f \cup {k} |-> IF x = k THEN v ELSE f[x]]
Without(f, k) == [x \in DOMAIN f \ {k} |-> f[x]]

GcpInserts(req) ==
    /\ cuds' = With(cuds, req.name, [content |-> req.content, state |-> "creating", token |-> req.token, call |-> req.call])
    /\ requests' = (IF req.token = "" THEN requests ELSE With(requests, req.token, req.name))

(* The creation ends, well or not; a request ID is forgotten.              *)
GcpCreates(name) ==
    /\ NameTaken(name) /\ cuds[name].state = "creating"
    /\ cuds' = [cuds EXCEPT ![name].state = "active"]
    /\ UNCHANGED <<drive, requests, second, gcpCalls, successes>>
GcpGivesUp(name) ==
    /\ NameTaken(name) /\ cuds[name].state = "creating"
    /\ cuds' = Without(cuds, name)
    /\ requests' = [t \in {u \in DOMAIN requests : requests[u] # name} |-> requests[t]]
    /\ UNCHANGED <<drive, second, gcpCalls, successes>>
GcpForgets(token) ==
    /\ token \in DOMAIN requests
    /\ requests' = Without(requests, token)
    /\ UNCHANGED <<drive, cuds, second, gcpCalls, successes>>

-----------------------------------------------------------------------------
(* One call: pc is idle, insert, backoff, wait or adopt.  A call that      *)
(* returns leaves no local state.                                          *)

NoCall == [pc |-> "idle", req |-> Nil, attempt |-> 1, until |-> 0, name |-> Nil, op |-> Nil]
At(d, pc) == drive[d].pc = pc
Returns(d) == drive' = [drive EXCEPT ![d] = NoCall]
Gcp == <<cuds, requests>>
Elsewhere == <<second, gcpCalls>>

Failure(d) == Returns(d) /\ UNCHANGED <<Elsewhere, successes>>

(* result.Success, with ExistingCommitment when it was adopted.            *)
Success(d, existing) ==
    /\ successes' = Append(successes, [req |-> drive[d].req, existing |-> existing, found |-> cuds[drive[d].name]])
    /\ Returns(d) /\ UNCHANGED <<Gcp, Elsewhere>>

PurchaseCud(d, order) ==
    /\ At(d, "idle") /\ gcpCalls < MaxGcpCalls
    /\ gcpCalls' = gcpCalls + 1
    /\ IF Buildable(order)
       THEN drive' = [drive EXCEPT ![d].pc = "insert", ![d].req = InsertRequest(order)]
       ELSE UNCHANGED drive
    /\ UNCHANGED <<Gcp, second, successes>>

(* Insert is accepted and its operation awaited: the creation that a call  *)
(* began under a name, or one that finds the name taken.                   *)
InsertAccepted(d, name, call) ==
    /\ drive' = [drive EXCEPT ![d].pc = "wait", ![d].name = name, ![d].op = call]
    /\ UNCHANGED <<Elsewhere, successes>>
InsertCreates(d) ==
    /\ At(d, "insert") /\ ~Remembered(drive[d].req) /\ ~NameTaken(drive[d].req.name)
    /\ GcpInserts(drive[d].req) /\ InsertAccepted(d, drive[d].req.name, drive[d].req.call)
InsertRepeats(d) ==
    /\ At(d, "insert") /\ Remembered(drive[d].req)
    /\ LET name == requests[drive[d].req.token] IN InsertAccepted(d, name, cuds[name].call)
    /\ UNCHANGED Gcp
InsertTaken(d) ==
    /\ At(d, "insert") /\ NameTaken(drive[d].req.name)
    /\ InsertAccepted(d, drive[d].req.name, Nil) /\ UNCHANGED Gcp

(* The commitment is created and the answer lost: a permanent error.       *)
InsertAnswerLost(d) ==
    /\ At(d, "insert") /\ ~Remembered(drive[d].req) /\ ~NameTaken(drive[d].req.name)
    /\ GcpInserts(drive[d].req) /\ Failure(d)

(* RESOURCE_EXHAUSTED is tried again until the attempts are used up.       *)
InsertExhausted(d) ==
    /\ At(d, "insert")
    /\ IF TriesAgain(drive[d].attempt, GcpRetry, FALSE)
       THEN \E delay \in BackoffFor(drive[d].attempt + 1, GcpRetry) :
              drive' = [drive EXCEPT ![d].pc = "backoff", ![d].until = second + delay]
       ELSE Returns(d)
    /\ UNCHANGED <<Gcp, Elsewhere, successes>>
BackoffEnds(d) ==
    /\ At(d, "backoff") /\ second >= drive[d].until
    /\ drive' = [drive EXCEPT ![d].pc = "insert", ![d].attempt = @ + 1]
    /\ UNCHANGED <<Gcp, Elsewhere, successes>>

(* Any other error, a cancellation while waiting, an operation that fails  *)
(* or is not awaited to its end: the call fails, GCP goes on.              *)
CallFails(d) == ~At(d, "idle") /\ Failure(d) /\ UNCHANGED Gcp

Adopts(req) == req.token # ""

Conflict(d) ==
    /\ IF Adopts(drive[d].req)
       THEN drive' = [drive EXCEPT ![d].pc = "adopt", ![d].name = drive[d].req.name]
       ELSE Returns(d)
    /\ UNCHANGED <<Gcp, Elsewhere, successes>>
InsertConflicts(d) == At(d, "insert") /\ NameTaken(drive[d].req.name) /\ Conflict(d)
WaitConflicts(d) == At(d, "wait") /\ drive[d].op = Nil /\ Conflict(d)
WaitSucceeds(d) ==
    /\ At(d, "wait") /\ NameTaken(drive[d].name)
    /\ cuds[drive[d].name].call = drive[d].op /\ cuds[drive[d].name].state = "active"
    /\ Success(d, FALSE)

(* Mutant: a commitment of another size is adopted.                        *)
MutantSameCommitment(found, want) == found.plan = want.plan /\ found.type = want.type

SameCommitment(found, want) == found = want

AdoptExisting(d) ==
    /\ At(d, "adopt")
    /\ IF NameTaken(drive[d].name) /\ SameCommitment(cuds[drive[d].name].content, drive[d].req.content)
       THEN Success(d, TRUE)
       ELSE Failure(d) /\ UNCHANGED Gcp

SecondPasses ==
    /\ second < MaxSeconds /\ second' = second + 1
    /\ UNCHANGED <<drive, Gcp, gcpCalls, successes>>

GcpPurchaseInit ==
    /\ drive = [d \in Drivers |-> NoCall] /\ cuds = <<>> /\ requests = <<>>
    /\ second = 0 /\ gcpCalls = 0 /\ successes = <<>>

GcpPurchaseNext ==
    \/ \E d \in Drivers :
         \/ \E order \in GcpOrders : PurchaseCud(d, order)
         \/ InsertCreates(d) \/ InsertRepeats(d) \/ InsertTaken(d) \/ InsertAnswerLost(d) \/ InsertExhausted(d)
         \/ BackoffEnds(d) \/ CallFails(d) \/ InsertConflicts(d) \/ WaitConflicts(d)
         \/ WaitSucceeds(d) \/ AdoptExisting(d)
    \/ \E name \in DOMAIN cuds : GcpCreates(name) \/ GcpGivesUp(name)
    \/ \E token \in DOMAIN requests : GcpForgets(token)
    \/ SecondPasses

-----------------------------------------------------------------------------
(* However often a token is driven, by however many callers, with answers  *)
(* lost, request IDs forgotten and creations given up, GCP never holds two *)
(* commitments of it at once (buildInsertRequest derives both the request  *)
(* ID and the name from the token, idempotentCommitmentName).              *)
GcpTokenBuysOne ==
    \A m, n \in DOMAIN cuds : cuds[m].token # "" /\ cuds[m].token = cuds[n].token => m = n

(* A purchase that is reported was bought for the caller's token: one that *)
(* was adopted has the plan, the type and the amounts asked for, one that  *)
(* was awaited is active, and no commitment is reported by two calls       *)
(* without a token (adoptExistingCommitment).                              *)
GcpSuccessIsOwn ==
    \A i \in DOMAIN successes :
        /\ successes[i].found.token = successes[i].req.token
        /\ IF successes[i].existing THEN successes[i].found.content = successes[i].req.content
                                    ELSE successes[i].found.state = "active"
        /\ \A j \in DOMAIN successes \ {i} :
             successes[i].req.token = "" => successes[i].req.name # successes[j].req.name
=============================================================================
