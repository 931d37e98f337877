------------------------ MODULE AtMostOncePurchase ------------------------
(***************************************************************************)
(* What every tokenized purchase client of the library promises, whatever  *)
(* the provider API offers for it: calls carrying one idempotency token,   *)
(* however often they are repeated, buy one commitment at a time, and a    *)
(* commitment reported as bought for one token is never reported for       *)
(* another.  The provider modules implement it under the caller contract   *)
(* each of them documents.                                                 *)
(***************************************************************************)
CONSTANTS Tokens, Commitments

VARIABLES
    live,      \* the commitments each token has bought that still exist
    reported   \* the commitments calls of each token returned as a Success

Init ==
    /\ live = [t \in Tokens |-> {}]
    /\ reported = [t \in Tokens |-> {}]

(* The provider creates a commitment for the token: none may exist.        *)
Buy(t, n) ==
    /\ live[t] = {}
    /\ \A u \in Tokens : n \notin live[u]
    /\ live' = [live EXCEPT ![t] = {n}]
    /\ UNCHANGED reported

(* The commitment ends: it expires, is canceled or its payment fails.      *)
Lapse(t, n) ==
    /\ n \in live[t]
    /\ live' = [live EXCEPT ![t] = @ \ {n}]
    /\ UNCHANGED reported

(* PurchaseResult.Success with this CommitmentID.                          *)
Report(t, n) ==
    /\ \A u \in Tokens \ {t} : n \notin reported[u]
    /\ reported' = [reported EXCEPT ![t] = @ \cup {n}]
    /\ UNCHANGED live

Next ==
    \E t \in Tokens, n \in Commitments : Buy(t, n) \/ Lapse(t, n) \/ Report(t, n)

Spec == Init /\ [][Next]_<<live, reported>>
=============================================================================
