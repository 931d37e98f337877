------------------------- MODULE MCRedshiftPurchase -------------------------
(* Small instances of RedshiftPurchase: two tokens, the second requested   *)
(* after the first, and a re-drive of the first by a second execution.     *)
EXTENDS RedshiftPurchase, TLC

CONSTANTS c1, c2, c3, e1, e2, e3, t1, t2, o1, o2

TwoTokens == (e1 :> t1 @@ e2 :> t1 @@ e3 :> t2)
RequestTimes == (t1 :> 0 @@ t2 :> 1)
NodeCounts == (t1 :> 1 @@ t2 :> 2)

(* A caller that breaks its contract or keeps no journal is followed       *)
(* through one lineage by two calls; the caller that does both right, also *)
(* through two lineages by three calls of one offering, every start time   *)
(* in the windows of both.                                                 *)
OneLineage ==
    /\ now = 0
    /\ Cardinality({c \in Calls : Started(c)}) <= 2 /\ \A c \in Calls : exec[c] # e3
TwoLineages ==
    /\ contract /\ journaled
    /\ \A c \in Calls : offer[c] # o2 /\ node[c].start = 0
MCNext == Next /\ (OneLineage' \/ TwoLineages')
MCSpec == Init /\ [][MCNext]_vars

(* The two executions of the first token are interchangeable.              *)
RedriveSymmetry == Permutations(Calls) \union Permutations({e1, e2})
=============================================================================
