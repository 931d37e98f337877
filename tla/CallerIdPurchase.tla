-------------------------- MODULE CallerIdPurchase --------------------------
(***************************************************************************)
(* Purchases whose reservation ID the caller chooses: RDS, ElastiCache,    *)
(* MemoryDB and OpenSearch (providers/aws/services, with                   *)
(* internal/purchaseguard and internal/purchasecfg/tokenless.go).          *)
(*                                                                         *)
(* With a token the ID is derived from it, the SDK may re-send the request *)
(* and AWS rejects the duplicate ID; without one the ID is fresh or, for   *)
(* RDS, given by the caller, and the request is sent once.  A reservation  *)
(* is named by the request, <<call, attempt>>, that created it.            *)
(***************************************************************************)
EXTENDS Integers

CONSTANTS
    Calls,        \* invocations of PurchaseCommitment
    Tokens,       \* idempotency tokens
    NoToken,      \* the empty token
    Names,        \* reservation IDs given by a caller (RDS, no token)
    MaxAttempts   \* purchasecfg.MaxAttempts

ASSUME ConstantsAssumption ==
    /\ NoToken \notin Tokens
    /\ MaxAttempts \in Nat \ {0}
    /\ Tokens \cap Calls = {} /\ Tokens \cap Names = {}

VARIABLES
    pc,       \* where each call is
    token,    \* its idempotency token
    id,       \* the reservation ID it sends
    tries,    \* requests sent
    result,   \* what it returned
    commit,   \* the reservation it returned, as a set of at most one
    req       \* req[c][n]: the n-th request of call c, as AWS has it

vars == <<pc, token, id, tries, result, commit, req>>

AllTokens == Tokens \cup {NoToken}
IDs == Tokens \cup Calls \cup Names
Attempts == 1..MaxAttempts
Requests == Calls \X Attempts

PCs == {"idle", "offer", "lookup", "approve", "send", "await", "recover", "done", "crashed"}
Results == {"none", "success", "existing", "error", "refused", "unknown"}
ReqRecords == [state : {"none", "inflight", "live", "retired", "exists", "rejected"},
               listed : BOOLEAN]

Running(c) == pc[c] \notin {"idle", "done", "crashed"}

(* Mutant: the SDK retries whether or not there is a token. *)
MutantAlwaysRetries(c) == MaxAttempts

(* The retry limit of the SDK: SingleAttemptIf.                            *)
AttemptLimit(c) == IF token[c] = NoToken THEN 1 ELSE MaxAttempts

Goto(c, l) == pc' = [pc EXCEPT ![c] = l]

Leave(c, r, ids) ==
    /\ Goto(c, "done")
    /\ result' = [result EXCEPT ![c] = r]
    /\ commit' = [commit EXCEPT ![c] = ids]

Stay(c, l) == Goto(c, l) /\ UNCHANGED <<result, commit>>

SetRequest(c, n, v) == req' = [req EXCEPT ![c][n] = v]

-----------------------------------------------------------------------------
(* The call.                                                               *)

(* Mutant: the ID is descriptive and random even with a token. *)
MutantRandomID(c, t) == {c} \cup Names

(* deriveReservationID, reservationNameFor.                                *)
ReservationIDs(c, t) == IF t \in Tokens THEN {t} ELSE {c} \cup Names

(* PurchaseCommitment: a count out of bounds is refused before anything.   *)
Dispatch(c, t) ==
    /\ pc[c] = "idle"
    /\ token' = [token EXCEPT ![c] = t]
    /\ \E i \in ReservationIDs(c, t) : id' = [id EXCEPT ![c] = i]
    /\ Stay(c, "offer") \/ Leave(c, "refused", {})
    /\ UNCHANGED <<tries, req>>

(* findOfferingID.                                                         *)
FindOffering(c) ==
    /\ pc[c] = "offer"
    /\ \/ Leave(c, "error", {})
       \/ Stay(c, IF token[c] = NoToken THEN "approve" ELSE "lookup")
    /\ UNCHANGED <<token, id, tries, req>>

(* findReservationByID, findReservationByName: what the listing shows      *)
(* under the ID that IsOwned.                                              *)
Owned(i) ==
    {r \in Requests : /\ id[r[1]] = i /\ req[r[1]][r[2]].listed
                      /\ req[r[1]][r[2]].state = "live"}

(* purchaseguard.Guard.                                                    *)
Guard(c) ==
    /\ pc[c] = "lookup"
    /\ \/ Leave(c, "error", {})
       \/ \E r \in Owned(id[c]) : Leave(c, "existing", {r})
       \/ Owned(id[c]) = {} /\ Stay(c, "approve")
    /\ UNCHANGED <<token, id, tries, req>>

(* checkApprovedUpfront; ElastiCache has none and never refuses here.      *)
CheckApprovedUpfront(c) ==
    /\ pc[c] = "approve"
    /\ Leave(c, "refused", {}) \/ Stay(c, "send")
    /\ UNCHANGED <<token, id, tries, req>>

(* The next attempt of the purchase request.                               *)
Send(c) ==
    /\ pc[c] = "send"
    /\ tries' = [tries EXCEPT ![c] = @ + 1]
    /\ SetRequest(c, tries[c] + 1, [state |-> "inflight", listed |-> FALSE])
    /\ Stay(c, "await")
    /\ UNCHANGED <<token, id>>

(* ClassifyUnlessToken, UnknownUnlessToken for a request that may have     *)
(* bought: marked ErrOutcomeUnknown only without a token.                  *)
UncertainError(c) == IF token[c] = NoToken THEN "unknown" ELSE "error"

(* The answer to the attempt: the reservation; an empty success, a lost    *)
(* answer or a server error, which the SDK may retry; a definite           *)
(* rejection; or the AlreadyExists fault.                                  *)
Await(c) ==
    /\ pc[c] = "await"
    /\ LET got == req[c][tries[c]].state
       IN  \/ got \in {"live", "retired"} /\ Leave(c, "success", {<<c, tries[c]>>})
           \/ Leave(c, UncertainError(c), {})
           \/ tries[c] < AttemptLimit(c) /\ Stay(c, "send")
           \/ got = "rejected" /\ Leave(c, "error", {})
           \/ got = "exists" /\ token[c] = NoToken /\ Leave(c, "error", {})
           \/ got = "exists" /\ token[c] # NoToken /\ Stay(c, "recover")
    /\ UNCHANGED <<token, id, tries, req>>

(* purchaseguard.Recover: adopt what the rejected duplicate collided with. *)
Recover(c) ==
    /\ pc[c] = "recover"
    /\ \/ Leave(c, "error", {})
       \/ \E r \in Owned(id[c]) : Leave(c, "existing", {r})
    /\ UNCHANGED <<token, id, tries, req>>

Crash(c) ==
    /\ Running(c)
    /\ Stay(c, "crashed")
    /\ UNCHANGED <<token, id, tries, req>>

-----------------------------------------------------------------------------
(* AWS (external).                                                         *)

SetState(c, n, s) == SetRequest(c, n, [req[c][n] EXCEPT !.state = s])

HasState(i, s) == \E r \in Requests : id[r[1]] = i /\ req[r[1]][r[2]].state = s

(* A request is handled at any time after it was sent, also when nobody    *)
(* waits for it.  The ID of a retired reservation may or may not be free.  *)
Process(c, n) ==
    /\ req[c][n].state = "inflight"
    /\ \/ ~HasState(id[c], "live") /\ SetState(c, n, "live")
       \/ HasState(id[c], "live") /\ SetState(c, n, "exists")
       \/ HasState(id[c], "retired") /\ SetState(c, n, "exists")
       \/ SetState(c, n, "rejected")
    /\ UNCHANGED <<pc, token, id, tries, result, commit>>

List(c, n) ==
    /\ req[c][n].state \in {"live", "retired"} /\ ~req[c][n].listed
    /\ SetRequest(c, n, [req[c][n] EXCEPT !.listed = TRUE])
    /\ UNCHANGED <<pc, token, id, tries, result, commit>>

Retire(c, n) ==
    /\ req[c][n].state = "live"
    /\ SetState(c, n, "retired")
    /\ UNCHANGED <<pc, token, id, tries, result, commit>>

-----------------------------------------------------------------------------
Init ==
    /\ pc = [c \in Calls |-> "idle"]
    /\ token = [c \in Calls |-> NoToken]
    /\ id = [c \in Calls |-> c]
    /\ tries = [c \in Calls |-> 0]
    /\ result = [c \in Calls |-> "none"]
    /\ commit = [c \in Calls |-> {}]
    /\ req = [c \in Calls |-> [n \in Attempts |-> [state |-> "none", listed |-> FALSE]]]

CallStep(c) ==
    \/ FindOffering(c) \/ Guard(c) \/ CheckApprovedUpfront(c)
    \/ Send(c) \/ Await(c) \/ Recover(c)

Next ==
    \/ \E c \in Calls, t \in AllTokens : Dispatch(c, t)
    \/ \E c \in Calls : CallStep(c) \/ Crash(c)
    \/ \E c \in Calls, n \in Attempts : Process(c, n) \/ List(c, n) \/ Retire(c, n)

Spec == Init /\ [][Next]_vars

-----------------------------------------------------------------------------
(* Properties.                                                             *)

TypeOK ==
    /\ pc \in [Calls -> PCs]
    /\ token \in [Calls -> AllTokens]
    /\ id \in [Calls -> IDs]
    /\ tries \in [Calls -> 0..MaxAttempts]
    /\ result \in [Calls -> Results]
    /\ commit \in [Calls -> SUBSET Requests]
    /\ req \in [Calls -> [Attempts -> ReqRecords]]

(* A token owns at most one reservation that is not retired, however many  *)
(* calls carry it at once and however often the SDK re-sends: the derived  *)
(* ID makes AWS the judge, and nothing is asked of the caller.             *)
TokenOwnsOne ==
    \A r, s \in Requests :
        (/\ req[r[1]][r[2]].state = "live" /\ req[s[1]][s[2]].state = "live"
         /\ token[r[1]] = token[s[1]] /\ token[r[1]] \in Tokens) => r = s

(* The calls implement the promise of AtMostOncePurchase.                  *)
Promise == INSTANCE AtMostOncePurchase WITH
    Commitments <- Requests,
    live <- [t \in Tokens |->
               {r \in Requests : token[r[1]] = t /\ req[r[1]][r[2]].state = "live"}],
    reported <- [t \in Tokens |-> UNION {commit[c] : c \in {d \in Calls : token[d] = t}}]

BuysAtMostOnce == Promise!Spec

(* Without a token an error that is not marked ErrOutcomeUnknown means the *)
(* call bought nothing and will not.  A retry by the SDK would break it:   *)
(* the second attempt is rejected for the ID the first one took.           *)
UnmarkedMeansNothingBought ==
    \A c \in Calls :
        (token[c] = NoToken /\ result[c] \in {"error", "refused"}) =>
            \A n \in Attempts : req[c][n].state \in {"none", "exists", "rejected"}
=============================================================================
