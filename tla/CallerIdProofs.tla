--------------------------- MODULE CallerIdProofs ---------------------------
(***************************************************************************)
(* Proofs about CallerIdPurchase for every set of calls, tokens and names  *)
(* and every retry limit: a token owns at most one reservation whatever    *)
(* its callers do, and without a token an unmarked error bought nothing.   *)
(***************************************************************************)
EXTENDS CallerIdPurchase, TLAPS

(* A call has sent nothing yet, or has counted what it sent.               *)
Progress ==
    \A c \in Calls :
        /\ pc[c] \in {"idle", "offer", "lookup", "approve"} => tries[c] = 0
        /\ pc[c] = "send" => tries[c] < AttemptLimit(c)
        /\ pc[c] = "await" => tries[c] >= 1
        /\ tries[c] <= AttemptLimit(c)
        /\ token[c] = NoToken => pc[c] \notin {"lookup", "recover"}
        /\ result[c] # "none" => pc[c] = "done"
        /\ pc[c] = "idle" => token[c] = NoToken

(* The requests a call has not counted do not exist.                       *)
UnsentIsNone ==
    \A c \in Calls, n \in Attempts : n > tries[c] => req[c][n].state = "none"

(* A token's calls all send the ID derived from it.                        *)
DerivedID == \A c \in Calls : token[c] \in Tokens => id[c] = token[c]

(* AWS keeps at most one live reservation per ID.                          *)
UniqueID ==
    \A r, s \in Requests :
        (/\ req[r[1]][r[2]].state = "live" /\ req[s[1]][s[2]].state = "live"
         /\ id[r[1]] = id[s[1]]) => r = s

Inv == TypeOK /\ Progress /\ UnsentIsNone /\ DerivedID /\ UniqueID /\ UnmarkedMeansNothingBought

USE ConstantsAssumption DEF ConstantsAssumption

LEMMA RequestParts ==
    ASSUME NEW r \in Requests
    PROVE  r[1] \in Calls /\ r[2] \in Attempts /\ r = <<r[1], r[2]>>
BY DEF Requests

-----------------------------------------------------------------------------

(* What the ways to leave a call do, seen from outside.                    *)
LEMMA MoveEffect ==
    ASSUME TypeOK, NEW c \in Calls,
           NEW l \in PCs, NEW r \in Results, NEW ids \in SUBSET Requests,
           \/ Stay(c, l)
           \/ l = "done" /\ Leave(c, r, ids)
    PROVE  /\ pc' = [pc EXCEPT ![c] = l]
           /\ pc' \in [Calls -> PCs] /\ result' \in [Calls -> Results]
           /\ commit' \in [Calls -> SUBSET Requests]
           /\ \A d \in Calls : d # c => pc'[d] = pc[d] /\ result'[d] = result[d]
           /\ result'[c] \in {result[c], r}
           /\ Stay(c, l) => result' = result
BY DEF TypeOK, Stay, Leave, Goto, PCs

LEMMA InitInv == Init => Inv
<1> SUFFICES ASSUME Init PROVE Inv OBVIOUS
<1>1. TypeOK
  BY DEF Init, TypeOK, PCs, AllTokens, IDs, Results, ReqRecords, Attempts
<1>2. Progress
  <2> SUFFICES ASSUME NEW c \in Calls PROVE Progress!(c)
    BY DEF Progress
  <2>1. pc[c] = "idle" /\ tries[c] = 0 /\ token[c] = NoToken /\ result[c] = "none"
    BY DEF Init
  <2>2. AttemptLimit(c) = 1
    BY <2>1 DEF AttemptLimit
  <2> QED BY <2>1, <2>2
<1>3. \A c \in Calls, n \in Attempts : req[c][n].state = "none"
  BY DEF Init
<1>4. UnsentIsNone /\ UnmarkedMeansNothingBought
  BY <1>3 DEF UnsentIsNone, UnmarkedMeansNothingBought
<1>5. DerivedID
  BY DEF Init, DerivedID
<1>6. UniqueID
  BY <1>3, RequestParts DEF UniqueID
<1> QED BY <1>1, <1>2, <1>4, <1>5, <1>6 DEF Inv

(* A call that moves and sends nothing: the invariant needs only that its  *)
(* new place fits its count, and that an unmarked error sent nothing that  *)
(* could still land.                                                       *)
LEMMA MoveInv ==
    ASSUME Inv, NEW c \in Calls,
           NEW l \in PCs \ {"idle"}, NEW r \in Results \ {"none"}, NEW ids \in SUBSET Requests,
           UNCHANGED <<token, id, tries, req>>,
           \/ Stay(c, l) /\ result[c] = "none"
           \/ l = "done" /\ Leave(c, r, ids),
           l \in {"offer", "lookup", "approve"} => tries[c] = 0,
           l = "send" => tries[c] < AttemptLimit(c),
           l = "await" => tries[c] >= 1,
           l \in {"lookup", "recover"} => token[c] # NoToken,
           (l = "done" /\ r \in {"error", "refused"} /\ token[c] = NoToken) =>
               \A n \in Attempts : req[c][n].state \in {"none", "exists", "rejected"}
    PROVE  Inv'
<1>1. /\ pc' = [pc EXCEPT ![c] = l]
      /\ pc' \in [Calls -> PCs] /\ result' \in [Calls -> Results]
      /\ commit' \in [Calls -> SUBSET Requests]
      /\ \A d \in Calls : d # c => pc'[d] = pc[d] /\ result'[d] = result[d]
      /\ result'[c] \in {result[c], r}
      /\ Stay(c, l) => result' = result
  BY MoveEffect DEF Inv
<1>2. TypeOK'
  BY <1>1 DEF Inv, TypeOK
<1>3. pc'[c] = l
  BY <1>1 DEF Inv, TypeOK
<1>4. Progress'
  BY <1>1, <1>3 DEF Inv, Progress, AttemptLimit, PCs
<1>5. UnsentIsNone' /\ DerivedID' /\ UniqueID'
  BY DEF Inv, UnsentIsNone, DerivedID, UniqueID
<1>6. UnmarkedMeansNothingBought'
  BY <1>1 DEF Inv, UnmarkedMeansNothingBought
<1> QED BY <1>2, <1>4, <1>5, <1>6 DEF Inv

(* A call that sent nothing has no requests.                               *)
LEMMA NothingSent ==
    ASSUME Inv, NEW c \in Calls, tries[c] = 0
    PROVE  \A n \in Attempts : req[c][n].state = "none"
BY DEF Inv, UnsentIsNone, Attempts

(* A call that has not returned has no result.                             *)
LEMMA NoResultYet ==
    ASSUME Inv, NEW c \in Calls, pc[c] # "done"
    PROVE  result[c] = "none"
BY DEF Inv, Progress

LEMMA DispatchInv ==
    ASSUME Inv, NEW c \in Calls, NEW t \in AllTokens, Dispatch(c, t)
    PROVE  Inv'
<1>1. /\ tries[c] = 0 /\ result[c] = "none" /\ pc[c] = "idle"
      /\ tries' = tries /\ req' = req
  BY NoResultYet DEF Dispatch, Inv, Progress
<1>2. PICK i \in ReservationIDs(c, t) : id' = [id EXCEPT ![c] = i]
  BY DEF Dispatch
<1>3. i \in IDs /\ (t \in Tokens => i = t)
  BY DEF ReservationIDs, IDs
<1>4. /\ token' \in [Calls -> AllTokens] /\ id' \in [Calls -> IDs]
      /\ token'[c] = t /\ id'[c] = i
      /\ \A d \in Calls : d # c => token'[d] = token[d] /\ id'[d] = id[d]
  BY <1>2, <1>3 DEF Dispatch, Inv, TypeOK
<1>5. PICK l \in {"offer", "done"} :
        \/ Stay(c, l)
        \/ l = "done" /\ Leave(c, "refused", {})
  BY DEF Dispatch
<1>6. /\ pc' = [pc EXCEPT ![c] = l]
      /\ pc' \in [Calls -> PCs] /\ result' \in [Calls -> Results]
      /\ commit' \in [Calls -> SUBSET Requests]
      /\ \A d \in Calls : d # c => pc'[d] = pc[d] /\ result'[d] = result[d]
      /\ Stay(c, l) => result' = result
  <2>1. l \in PCs /\ "refused" \in Results /\ {} \in SUBSET Requests /\ TypeOK
    BY DEF PCs, Results, Inv
  <2> QED BY <1>5, <2>1, MoveEffect
<1>7. pc'[c] = l /\ pc'[c] # "idle"
  BY <1>6 DEF Inv, TypeOK
<1>8. result'[c] # "none" => pc'[c] = "done"
  BY <1>1, <1>5, <1>6, <1>7
<1>9. TypeOK'
  BY <1>1, <1>4, <1>6 DEF Inv, TypeOK
<1>10. Progress'
  <2> SUFFICES ASSUME NEW d \in Calls PROVE Progress!(d)'
    BY DEF Progress
  <2>1. CASE d = c
    <3>1. AttemptLimit(c)' \in Nat \ {0}
      BY DEF AttemptLimit
    <3> QED BY <1>1, <1>4, <1>7, <1>8, <2>1, <3>1
  <2>2. CASE d # c
    <3>1. AttemptLimit(d)' = AttemptLimit(d)
      BY <1>4, <2>2 DEF AttemptLimit
    <3> QED BY <1>1, <1>4, <1>6, <2>2, <3>1 DEF Inv, Progress
  <2> QED BY <2>1, <2>2
<1>11. \A n \in Attempts : req[c][n].state = "none"
  BY <1>1, NothingSent
<1>12. UnsentIsNone'
  BY <1>1 DEF Inv, UnsentIsNone
<1>13. DerivedID'
  BY <1>3, <1>4 DEF Inv, DerivedID
<1>14. UniqueID'
  <2> SUFFICES ASSUME NEW r \in Requests, NEW s \in Requests,
                      req[r[1]][r[2]].state = "live", req[s[1]][s[2]].state = "live",
                      id'[r[1]] = id'[s[1]]
               PROVE  r = s
    BY <1>1 DEF UniqueID
  <2>1. r[1] # c /\ s[1] # c /\ r[1] \in Calls /\ s[1] \in Calls
    BY <1>11, RequestParts
  <2> QED BY <1>4, <2>1 DEF Inv, UniqueID
<1>15. UnmarkedMeansNothingBought'
  BY <1>1, <1>4, <1>6, <1>11 DEF Inv, UnmarkedMeansNothingBought
<1> QED BY <1>9, <1>10, <1>12, <1>13, <1>14, <1>15 DEF Inv

LEMMA FindOfferingInv == ASSUME Inv, NEW c \in Calls, FindOffering(c) PROVE Inv'
<1>1. tries[c] = 0 /\ result[c] = "none"
  BY NoResultYet DEF FindOffering, Inv, Progress
<1>2. \A n \in Attempts : req[c][n].state = "none"
  BY <1>1, NothingSent
<1>3. PICK l \in {"done", "approve", "lookup"} :
        /\ \/ Stay(c, l)
           \/ l = "done" /\ Leave(c, "error", {})
        /\ l = "lookup" => token[c] # NoToken
  BY DEF FindOffering
<1>4. l \in PCs \ {"idle"} /\ "error" \in Results \ {"none"} /\ {} \in SUBSET Requests
  BY DEF PCs, Results
<1> QED BY <1>1, <1>2, <1>3, <1>4, MoveInv DEF FindOffering

LEMMA GuardInv == ASSUME Inv, NEW c \in Calls, Guard(c) PROVE Inv'
<1>1. tries[c] = 0 /\ result[c] = "none" /\ token[c] # NoToken
  BY NoResultYet DEF Guard, Inv, Progress
<1>2. PICK l \in {"done", "approve"}, r \in {"error", "existing"}, ids \in SUBSET Requests :
        \/ Stay(c, l)
        \/ l = "done" /\ Leave(c, r, ids)
  BY DEF Guard, Owned
<1>3. l \in PCs \ {"idle"} /\ r \in Results \ {"none"}
  BY DEF PCs, Results
<1> QED BY <1>1, <1>2, <1>3, MoveInv DEF Guard

LEMMA CheckInv == ASSUME Inv, NEW c \in Calls, CheckApprovedUpfront(c) PROVE Inv'
<1>1. tries[c] = 0 /\ result[c] = "none" /\ tries[c] < AttemptLimit(c)
  BY NoResultYet DEF CheckApprovedUpfront, Inv, Progress, AttemptLimit
<1>2. \A n \in Attempts : req[c][n].state = "none"
  BY <1>1, NothingSent
<1>3. PICK l \in {"done", "send"} :
        \/ Stay(c, l)
        \/ l = "done" /\ Leave(c, "refused", {})
  BY DEF CheckApprovedUpfront
<1>4. l \in PCs \ {"idle"} /\ "refused" \in Results \ {"none"} /\ {} \in SUBSET Requests
  BY DEF PCs, Results
<1> QED BY <1>1, <1>2, <1>3, <1>4, MoveInv DEF CheckApprovedUpfront

LEMMA RecoverInv == ASSUME Inv, NEW c \in Calls, Recover(c) PROVE Inv'
<1>1. result[c] = "none" /\ token[c] # NoToken
  BY NoResultYet DEF Recover, Inv, Progress
<1>2. PICK r \in {"error", "existing"}, ids \in SUBSET Requests : Leave(c, r, ids)
  BY DEF Recover, Owned
<1>3. "done" \in PCs \ {"idle"} /\ r \in Results \ {"none"}
  BY DEF PCs, Results
<1> QED BY <1>1, <1>2, <1>3, MoveInv DEF Recover

LEMMA CrashInv == ASSUME Inv, NEW c \in Calls, Crash(c) PROVE Inv'
<1>1. result[c] = "none"
  BY NoResultYet DEF Crash, Running
<1>2. "crashed" \in PCs \ {"idle"} /\ "error" \in Results \ {"none"} /\ {} \in SUBSET Requests
  BY DEF PCs, Results
<1> QED BY <1>1, <1>2, MoveInv DEF Crash

(* Without a token the one request decides what the call sent.             *)
LEMMA OnlyRequest ==
    ASSUME Inv, NEW c \in Calls, token[c] = NoToken, tries[c] = 1
    PROVE  \A n \in Attempts : n # 1 => req[c][n].state = "none"
<1>1. \A n \in Attempts : n # 1 => n > tries[c]
  BY DEF Attempts
<1> QED BY <1>1 DEF Inv, UnsentIsNone

LEMMA AwaitInv == ASSUME Inv, NEW c \in Calls, Await(c) PROVE Inv'
<1>1. /\ result[c] = "none" /\ tries[c] >= 1 /\ tries[c] <= AttemptLimit(c)
      /\ tries[c] \in Attempts
  BY NoResultYet DEF Await, Inv, TypeOK, Progress, AttemptLimit, Attempts
<1>2. token[c] = NoToken => tries[c] = 1
  BY <1>1 DEF AttemptLimit, Attempts
<1> DEFINE got == req[c][tries[c]].state
           settled == \A n \in Attempts : req[c][n].state \in {"none", "exists", "rejected"}
<1>3. (token[c] = NoToken /\ got \in {"exists", "rejected"}) => settled
  BY <1>2, OnlyRequest
<1>4. <<c, tries[c]>> \in Requests
  BY <1>1 DEF Requests
<1>5. PICK l \in {"done", "send", "recover"}, r \in {"success", "error", "unknown"},
           ids \in SUBSET Requests :
        /\ \/ Stay(c, l)
           \/ l = "done" /\ Leave(c, r, ids)
        /\ l = "send" => tries[c] < AttemptLimit(c)
        /\ l = "recover" => token[c] # NoToken
        /\ (l = "done" /\ r = "error" /\ token[c] = NoToken) => settled
  <2>1. CASE Leave(c, "success", {<<c, tries[c]>>})
    <3>1. {<<c, tries[c]>>} \in SUBSET Requests
      BY <1>4
    <3> HIDE DEF settled
    <3> QED BY <2>1, <3>1
  <2>2. CASE Leave(c, UncertainError(c), {})
    <3> HIDE DEF settled
    <3>1. UncertainError(c) \in {"error", "unknown"}
          /\ (UncertainError(c) = "error" => token[c] # NoToken)
      BY DEF UncertainError
    <3>2. {} \in SUBSET Requests
      OBVIOUS
    <3> QED BY <2>2, <3>1, <3>2
  <2>3. CASE tries[c] < AttemptLimit(c) /\ Stay(c, "send")
    <3> HIDE DEF settled
    <3> QED BY <2>3
  <2>4. CASE got = "rejected" /\ Leave(c, "error", {})
    <3>1. token[c] = NoToken => settled
      BY <2>4, <1>3
    <3> HIDE DEF settled
    <3> QED BY <2>4, <3>1
  <2>5. CASE got = "exists" /\ token[c] = NoToken /\ Leave(c, "error", {})
    <3>1. settled
      BY <2>5, <1>3
    <3> HIDE DEF settled
    <3> QED BY <2>5, <3>1
  <2>6. CASE got = "exists" /\ token[c] # NoToken /\ Stay(c, "recover")
    <3> HIDE DEF settled
    <3> QED BY <2>6
  <2> QED BY <2>1, <2>2, <2>3, <2>4, <2>5, <2>6 DEF Await
<1>6. l \in PCs \ {"idle"} /\ r \in Results \ {"none"}
  BY DEF PCs, Results
<1> QED BY <1>1, <1>5, <1>6, MoveInv DEF Await

-----------------------------------------------------------------------------
(* Writing one request leaves the others alone.                            *)
LEMMA WriteRequest ==
    ASSUME TypeOK, NEW c \in Calls, NEW n \in Attempts, NEW v \in ReqRecords,
           SetRequest(c, n, v)
    PROVE  /\ req' \in [Calls -> [Attempts -> ReqRecords]]
           /\ req'[c][n] = v
           /\ \A d \in Calls, k \in Attempts : (d # c \/ k # n) => req'[d][k] = req[d][k]
BY DEF TypeOK, SetRequest

LEMMA SendInv == ASSUME Inv, NEW c \in Calls, Send(c) PROVE Inv'
<1> DEFINE n == tries[c] + 1
           v == [state |-> "inflight", listed |-> FALSE]
<1>1. /\ pc[c] = "send" /\ result[c] = "none" /\ n \in Attempts /\ n <= AttemptLimit(c)
      /\ token' = token /\ id' = id /\ tries' = [tries EXCEPT ![c] = n]
      /\ SetRequest(c, n, v)
      /\ Stay(c, "await")
  BY NoResultYet DEF Send, Inv, TypeOK, Progress, AttemptLimit, Attempts
<1>2. v \in ReqRecords
  BY DEF ReqRecords
<1>3. /\ req' \in [Calls -> [Attempts -> ReqRecords]]
      /\ req'[c][n].state = "inflight"
      /\ \A d \in Calls, k \in Attempts : (d # c \/ k # n) => req'[d][k] = req[d][k]
  BY <1>1, <1>2, WriteRequest DEF Inv
<1>4. /\ tries' \in [Calls -> 0..MaxAttempts] /\ tries'[c] = n
      /\ \A d \in Calls : d # c => tries'[d] = tries[d]
  BY <1>1 DEF Inv, TypeOK, Attempts
<1>5. /\ pc' \in [Calls -> PCs] /\ result' = result /\ commit' = commit
      /\ pc'[c] = "await" /\ \A d \in Calls : d # c => pc'[d] = pc[d]
  BY <1>1 DEF Inv, TypeOK, Stay, Goto, PCs
<1> HIDE DEF n, v
<1>6. TypeOK'
  BY <1>1, <1>3, <1>4, <1>5 DEF Inv, TypeOK
<1>7. Progress'
  <2> SUFFICES ASSUME NEW d \in Calls PROVE Progress!(d)'
    BY DEF Progress
  <2>1. AttemptLimit(d)' = AttemptLimit(d)
    BY <1>1 DEF AttemptLimit
  <2>2. CASE d = c
    BY <1>1, <1>4, <1>5, <2>1, <2>2 DEF Attempts
  <2>3. CASE d # c
    BY <1>1, <1>4, <1>5, <2>1, <2>3 DEF Inv, Progress
  <2> QED BY <2>2, <2>3
<1>8. UnsentIsNone'
  <2> SUFFICES ASSUME NEW d \in Calls, NEW k \in Attempts, k > tries'[d]
               PROVE  req'[d][k].state = "none"
    BY DEF UnsentIsNone
  <2>1. (d # c \/ k # n) /\ k > tries[d]
    BY <1>4 DEF n, Inv, TypeOK, Attempts
  <2> QED BY <1>3, <2>1 DEF Inv, UnsentIsNone
<1>9. DerivedID'
  BY <1>1 DEF Inv, DerivedID
<1>10. \A d \in Calls, k \in Attempts : req'[d][k].state = "live" => req[d][k].state = "live"
  BY <1>3
<1>11. UniqueID'
  <2> SUFFICES ASSUME NEW r \in Requests, NEW s \in Requests,
                      req'[r[1]][r[2]].state = "live", req'[s[1]][s[2]].state = "live",
                      id[r[1]] = id[s[1]]
               PROVE  r = s
    BY <1>1 DEF UniqueID
  <2> QED BY <1>10, RequestParts DEF Inv, UniqueID
<1>12. UnmarkedMeansNothingBought'
  BY <1>1, <1>3, <1>5 DEF Inv, UnmarkedMeansNothingBought
<1> QED BY <1>6, <1>7, <1>8, <1>9, <1>11, <1>12 DEF Inv

(* What AWS does to a request it has received: it never revives one, and   *)
(* it makes one live only under an ID nothing live has.                    *)
LEMMA ServerInv ==
    ASSUME Inv, NEW c \in Calls, NEW n \in Attempts, NEW v \in ReqRecords,
           UNCHANGED <<pc, token, id, tries, result, commit>>,
           SetRequest(c, n, v),
           req[c][n].state \in {"inflight", "live", "retired"},
           v.state = "live" => req[c][n].state = "live" \/ ~HasState(id[c], "live")
    PROVE  Inv'
<1>1. /\ req' \in [Calls -> [Attempts -> ReqRecords]]
      /\ req'[c][n] = v
      /\ \A d \in Calls, k \in Attempts : (d # c \/ k # n) => req'[d][k] = req[d][k]
  BY WriteRequest DEF Inv
<1>2. TypeOK'
  BY <1>1 DEF Inv, TypeOK
<1>3. Progress' /\ DerivedID'
  BY DEF Inv, Progress, DerivedID, AttemptLimit
<1>4. n <= tries[c]
  BY DEF Inv, UnsentIsNone, TypeOK, Attempts
<1>5. UnsentIsNone'
  BY <1>1, <1>4 DEF Inv, TypeOK, UnsentIsNone, Attempts
<1>6. UniqueID'
  <2> SUFFICES ASSUME NEW r \in Requests, NEW s \in Requests,
                      req'[r[1]][r[2]].state = "live", req'[s[1]][s[2]].state = "live",
                      id[r[1]] = id[s[1]]
               PROVE  r = s
    BY DEF UniqueID
  <2>1. /\ r[1] \in Calls /\ r[2] \in Attempts /\ r = <<r[1], r[2]>>
        /\ s[1] \in Calls /\ s[2] \in Attempts /\ s = <<s[1], s[2]>>
    BY RequestParts
  <2>2. CASE req[r[1]][r[2]].state = "live" /\ req[s[1]][s[2]].state = "live"
    BY <2>2 DEF Inv, UniqueID
  <2>3. CASE req[r[1]][r[2]].state # "live" \/ req[s[1]][s[2]].state # "live"
    <3>1. ~HasState(id[c], "live") /\ v.state = "live" /\ req[c][n].state # "live"
      BY <1>1, <2>1, <2>3
    <3>2. \A q \in Requests : id[q[1]] = id[c] => req[q[1]][q[2]].state # "live"
      BY <3>1 DEF HasState
    <3>3. r[1] = c /\ r[2] = n /\ s[1] = c /\ s[2] = n
      BY <1>1, <2>1, <2>3, <3>2
    <3> QED BY <2>1, <3>3
  <2> QED BY <2>2, <2>3
<1>7. UnmarkedMeansNothingBought'
  BY <1>1 DEF Inv, UnmarkedMeansNothingBought
<1> QED BY <1>2, <1>3, <1>5, <1>6, <1>7 DEF Inv

LEMMA ServerStepInv ==
    ASSUME Inv, NEW c \in Calls, NEW n \in Attempts,
           Process(c, n) \/ List(c, n) \/ Retire(c, n)
    PROVE  Inv'
<1>1. req[c][n] \in ReqRecords /\ req[c] \in [Attempts -> ReqRecords]
  BY DEF Inv, TypeOK
<1>2. CASE List(c, n)
  <2>1. [req[c][n] EXCEPT !.listed = TRUE] \in ReqRecords
        /\ [req[c][n] EXCEPT !.listed = TRUE].state = req[c][n].state
    BY <1>1 DEF ReqRecords
  <2>2. SetRequest(c, n, [req[c][n] EXCEPT !.listed = TRUE])
    BY <1>2 DEF List
  <2> QED BY <1>2, <2>1, <2>2, ServerInv DEF List
<1>3. CASE Process(c, n) \/ Retire(c, n)
  <2>1. PICK st \in {"live", "exists", "rejected", "retired"} :
          /\ SetState(c, n, st)
          /\ st = "live" => ~HasState(id[c], "live")
    BY <1>3 DEF Process, Retire
  <2>2. [req[c][n] EXCEPT !.state = st] \in ReqRecords
        /\ [req[c][n] EXCEPT !.state = st].state = st
    BY <1>1 DEF ReqRecords
  <2>3. SetRequest(c, n, [req[c][n] EXCEPT !.state = st])
    BY <2>1 DEF SetState
  <2>4. req[c][n].state \in {"inflight", "live"}
        /\ UNCHANGED <<pc, token, id, tries, result, commit>>
    BY <1>3 DEF Process, Retire
  <2> QED BY <2>1, <2>2, <2>3, <2>4, ServerInv
<1> QED BY <1>2, <1>3

LEMMA StutterInv == ASSUME Inv, UNCHANGED vars PROVE Inv'
BY DEF vars, Inv, TypeOK, Progress, UnsentIsNone, DerivedID, UniqueID,
       UnmarkedMeansNothingBought, AttemptLimit

LEMMA NextInv == Inv /\ [Next]_vars => Inv'
<1> SUFFICES ASSUME Inv, [Next]_vars PROVE Inv' OBVIOUS
<1>1. CASE \E c \in Calls, t \in AllTokens : Dispatch(c, t)
  BY <1>1, DispatchInv
<1>2. CASE \E c \in Calls : CallStep(c) \/ Crash(c)
  BY <1>2, FindOfferingInv, GuardInv, CheckInv, SendInv, AwaitInv, RecoverInv, CrashInv
     DEF CallStep
<1>3. CASE \E c \in Calls, n \in Attempts : Process(c, n) \/ List(c, n) \/ Retire(c, n)
  BY <1>3, ServerStepInv
<1>4. CASE UNCHANGED vars
  BY <1>4, StutterInv
<1> QED BY <1>1, <1>2, <1>3, <1>4 DEF Next

(* The inductive invariant holds in every state of every instance.         *)
LEMMA InvHolds == Spec => []Inv
BY InitInv, NextInv, PTL DEF Spec

(* Type correctness of the calls and of the requests AWS holds.            *)
THEOREM TypeCorrect == Spec => []TypeOK
<1>1. Inv => TypeOK BY DEF Inv
<1> QED BY <1>1, InvHolds, PTL

(* However many calls carry a token, however often the SDK re-sends and    *)
(* whenever AWS gets to it, the token owns at most one reservation: no     *)
(* contract on the caller is needed (purchaseguard, IdempotentReservationID). *)
THEOREM OwnsOne == Spec => []TokenOwnsOne
<1>1. Inv => TokenOwnsOne
  <2> SUFFICES ASSUME Inv, NEW r \in Requests, NEW s \in Requests,
                      req[r[1]][r[2]].state = "live", req[s[1]][s[2]].state = "live",
                      token[r[1]] = token[s[1]], token[r[1]] \in Tokens
               PROVE  r = s
    BY DEF TokenOwnsOne
  <2>1. id[r[1]] = id[s[1]]
    BY RequestParts DEF Inv, DerivedID
  <2> QED BY <2>1 DEF Inv, UniqueID
<1> QED BY <1>1, InvHolds, PTL

(* Without a token an unmarked error bought nothing and never will, for    *)
(* every number of calls and every name they collide on (tokenless.go).    *)
THEOREM UnmarkedIsSafe == Spec => []UnmarkedMeansNothingBought
<1>1. Inv => UnmarkedMeansNothingBought BY DEF Inv
<1> QED BY <1>1, InvHolds, PTL

-----------------------------------------------------------------------------
(* The refinement.  What the abstract purchase sees of the calls.          *)
Live ==
    [t \in Tokens |-> {r \in Requests : token[r[1]] = t /\ req[r[1]][r[2]].state = "live"}]
Reported == [t \in Tokens |-> UNION {commit[c] : c \in {d \in Calls : token[d] = t}}]

(* Only a token's own calls send its ID, and a call returns reservations   *)
(* of its own token, once.                                                 *)
OwnID == \A c \in Calls : id[c] \in Tokens => token[c] = id[c]
OwnReport ==
    \A c \in Calls : \A r \in commit[c] :
        pc[c] = "done" /\ pc[r[1]] # "idle" /\ token[r[1]] = token[c]

RefInv == Inv /\ OwnID /\ OwnReport

(* A call at work has returned nothing.                                    *)
LEMMA NothingReported ==
    ASSUME OwnReport, NEW c \in Calls, pc[c] # "done"
    PROVE  commit[c] = {}
BY DEF OwnReport

(* What is live is known by the request's own token and state.             *)
LEMMA LiveIs ==
    /\ DOMAIN Live = Tokens
    /\ \A t \in Tokens, r \in Requests :
          r \in Live[t] <=> token[r[1]] = t /\ req[r[1]][r[2]].state = "live"
    /\ \A t \in Tokens : Live[t] \subseteq Requests
BY DEF Live

LEMMA ReportedIs ==
    /\ DOMAIN Reported = Tokens
    /\ \A t \in Tokens : \A r : r \in Reported[t] <=> \E c \in Calls : token[c] = t /\ r \in commit[c]
BY DEF Reported

(* The steps of the promise, as changes of what it sees.                   *)
LEMMA BuyStep ==
    ASSUME NEW t \in Tokens, NEW r \in Requests,
           Live[t] = {}, \A u \in Tokens : r \notin Live[u],
           Live' = [Live EXCEPT ![t] = {r}], Reported' = Reported
    PROVE  Promise!Next
<1>1. Promise!Buy(t, r)
  BY DEF Promise!Buy, Live, Reported
<1> QED BY <1>1 DEF Promise!Next

LEMMA LapseStep ==
    ASSUME NEW t \in Tokens, NEW r \in Requests,
           r \in Live[t], Live' = [Live EXCEPT ![t] = @ \ {r}], Reported' = Reported
    PROVE  Promise!Next
<1>1. Promise!Lapse(t, r)
  BY DEF Promise!Lapse, Live, Reported
<1> QED BY <1>1 DEF Promise!Next

LEMMA ReportStep ==
    ASSUME NEW t \in Tokens, NEW r \in Requests,
           \A u \in Tokens \ {t} : r \notin Reported[u],
           Reported' = [Reported EXCEPT ![t] = @ \cup {r}], Live' = Live
    PROVE  Promise!Next
<1>1. Promise!Report(t, r)
  BY DEF Promise!Report, Live, Reported
<1> QED BY <1>1 DEF Promise!Next

(* A call that moves without sending reports one reservation at most.      *)
LEMMA MoveRefines ==
    ASSUME RefInv, NEW c \in Calls, NEW l \in PCs \ {"idle"}, NEW ids \in SUBSET Requests,
           NEW r \in Results,
           pc[c] # "done", pc[c] # "idle", UNCHANGED <<token, id, tries, req>>,
           \/ Stay(c, l)
           \/ Leave(c, r, ids),
           ids = {} \/ \E q \in Requests :
                          ids = {q} /\ pc[q[1]] # "idle" /\ token[q[1]] = token[c]
    PROVE  /\ OwnID' /\ OwnReport'
           /\ Promise!Next \/ UNCHANGED <<Live, Reported>>
<1>1. OwnID' /\ Live' = Live
  BY DEF RefInv, OwnID, Live
<1>2. commit[c] = {}
  BY NothingReported DEF RefInv
<1>3. /\ pc' \in [Calls -> PCs] /\ pc'[c] # "idle"
      /\ \A d \in Calls : d # c => pc'[d] = pc[d]
  BY DEF RefInv, Inv, TypeOK, Stay, Leave, Goto, PCs
<1>4. CASE commit' = commit
  <2>1. Reported' = Reported
    BY <1>4 DEF Reported
  <2>2. OwnReport'
    <3> SUFFICES ASSUME NEW d \in Calls, NEW q \in commit[d]
                 PROVE  pc'[d] = "done" /\ pc'[q[1]] # "idle" /\ token[q[1]] = token[d]
      BY <1>4 DEF OwnReport
    <3>1. q[1] \in Calls /\ d # c
      BY <1>2, RequestParts DEF RefInv, Inv, TypeOK
    <3> QED BY <1>3, <3>1 DEF RefInv, OwnReport
  <2> QED BY <1>1, <2>1, <2>2
<1>5. CASE commit' # commit
  <2>1. Leave(c, r, ids)
    BY <1>5 DEF Stay
  <2>2. /\ commit'[c] = ids /\ pc'[c] = "done"
        /\ \A d \in Calls : d # c => commit'[d] = commit[d]
    BY <2>1 DEF Leave, Goto, RefInv, Inv, TypeOK
  <2>3. commit' = [commit EXCEPT ![c] = ids] /\ commit \in [Calls -> SUBSET Requests]
    BY <2>1 DEF Leave, RefInv, Inv, TypeOK
  <2>4. PICK q \in Requests : ids = {q} /\ pc[q[1]] # "idle" /\ token[q[1]] = token[c]
    BY <1>2, <1>5, <2>3
  <2>5. q[1] \in Calls
    BY RequestParts
  <2>6. OwnReport'
    <3> SUFFICES ASSUME NEW d \in Calls, NEW p \in commit'[d]
                 PROVE  pc'[d] = "done" /\ pc'[p[1]] # "idle" /\ token[p[1]] = token[d]
      BY DEF OwnReport
    <3>1. CASE d = c
      BY <1>3, <2>2, <2>4, <2>5, <3>1
    <3>2. CASE d # c
      <4>1. p \in commit[d] /\ p[1] \in Calls
        BY <2>2, <2>3, <3>2, RequestParts
      <4> QED BY <1>3, <3>2, <4>1 DEF RefInv, OwnReport
    <3> QED BY <3>1, <3>2
  <2>7. CASE token[c] \in Tokens
    <3> DEFINE t == token[c]
    <3>1. \A u \in Tokens \ {t} : q \notin Reported[u]
      BY <2>4, ReportedIs DEF RefInv, OwnReport
    <3>2. Reported' = [Reported EXCEPT ![t] = @ \cup {q}]
      <4>1. \A u \in Tokens :
              (UNION {commit[d] : d \in {e \in Calls : token[e] = u}})' =
                IF u = t THEN Reported[u] \cup {q} ELSE Reported[u]
        BY <1>2, <2>2, <2>4 DEF Reported
      <4> QED BY <4>1 DEF Reported
    <3> QED BY <1>1, <2>6, <2>7, <3>1, <3>2, ReportStep
  <2>8. CASE token[c] \notin Tokens
    <3>1. Reported' = Reported
      BY <2>2, <2>8 DEF Reported
    <3> QED BY <1>1, <2>6, <3>1
  <2> QED BY <2>7, <2>8
<1> QED BY <1>4, <1>5

(* What the listing shows under a token's ID belongs to the token.         *)
LEMMA OwnedIsOwn ==
    ASSUME RefInv, NEW c \in Calls, token[c] \in Tokens, NEW r \in Owned(id[c])
    PROVE  r \in Requests /\ pc[r[1]] # "idle" /\ token[r[1]] = token[c]
<1>1. r \in Requests /\ r[1] \in Calls /\ r[2] \in Attempts /\ id[r[1]] = id[c]
  BY RequestParts DEF Owned
<1>2. id[r[1]] \in Tokens /\ token[r[1]] = token[c]
  BY <1>1 DEF RefInv, Inv, DerivedID, OwnID
<1>3. pc[r[1]] # "idle"
  BY <1>1, <1>2 DEF RefInv, Inv, Progress
<1> QED BY <1>1, <1>2, <1>3

LEMMA CallRefines ==
    ASSUME RefInv, NEW c \in Calls,
           \/ FindOffering(c) \/ Guard(c) \/ CheckApprovedUpfront(c)
           \/ Await(c) \/ Recover(c) \/ Crash(c)
    PROVE  /\ OwnID' /\ OwnReport'
           /\ Promise!Next \/ UNCHANGED <<Live, Reported>>
<1>1. pc[c] # "done" /\ pc[c] # "idle" /\ UNCHANGED <<token, id, tries, req>>
  BY DEF FindOffering, Guard, CheckApprovedUpfront, Await, Recover, Crash, Running
<1>2. token[c] \in AllTokens
  BY DEF RefInv, Inv, TypeOK
<1>3. CASE FindOffering(c) \/ CheckApprovedUpfront(c) \/ Crash(c)
  <2>1. PICK l \in PCs \ {"idle"}, r \in Results : Stay(c, l) \/ Leave(c, r, {})
    BY <1>3 DEF FindOffering, CheckApprovedUpfront, Crash, PCs, Results
  <2> QED BY <1>1, <2>1, MoveRefines
<1>4. CASE Guard(c) \/ Recover(c)
  <2>1. token[c] \in Tokens
    BY <1>2, <1>4 DEF RefInv, Inv, Progress, Guard, Recover, AllTokens
  <2>2. PICK l \in PCs \ {"idle"}, r \in Results, ids \in {{}} \cup {{q} : q \in Owned(id[c])} :
          Stay(c, l) \/ Leave(c, r, ids)
    BY <1>4 DEF Guard, Recover, PCs, Results
  <2>3. ids \in SUBSET Requests
        /\ (ids = {} \/ \E q \in Requests :
               ids = {q} /\ pc[q[1]] # "idle" /\ token[q[1]] = token[c])
    BY <2>1, <2>2, OwnedIsOwn
  <2> QED BY <1>1, <2>2, <2>3, MoveRefines
<1>5. CASE Await(c)
  <2> DEFINE q == <<c, tries[c]>>
  <2>1. q \in Requests /\ q[1] = c
    BY <1>5 DEF RefInv, Inv, TypeOK, Progress, Await, Requests, Attempts
  <2>2. UncertainError(c) \in Results
    BY DEF UncertainError, Results
  <2> HIDE DEF q
  <2>3. PICK l \in PCs \ {"idle"}, r \in Results, ids \in {{}, {q}} :
          Stay(c, l) \/ Leave(c, r, ids)
    BY <1>5, <2>2 DEF Await, PCs, Results, q
  <2>4. ids \in SUBSET Requests
        /\ (ids = {} \/ \E p \in Requests :
               ids = {p} /\ pc[p[1]] # "idle" /\ token[p[1]] = token[c])
    BY <1>1, <2>1, <2>3
  <2> QED BY <1>1, <2>3, <2>4, MoveRefines
<1> QED BY <1>3, <1>4, <1>5

(* A call that starts is nobody's yet: no request, nothing reported.       *)
LEMMA DispatchRefines ==
    ASSUME RefInv, NEW c \in Calls, NEW t \in AllTokens, Dispatch(c, t)
    PROVE  OwnID' /\ OwnReport' /\ UNCHANGED <<Live, Reported>>
<1>1. /\ pc[c] = "idle" /\ tries[c] = 0 /\ commit[c] = {} /\ req' = req
      /\ \A n \in Attempts : req[c][n].state = "none"
  BY NothingReported, NothingSent DEF Dispatch, RefInv, Inv, Progress
<1>2. PICK i \in ReservationIDs(c, t) : id' = [id EXCEPT ![c] = i]
  BY DEF Dispatch
<1>3. i \in Tokens => t = i
  BY DEF ReservationIDs
<1>4. /\ token'[c] = t /\ id'[c] = i /\ pc'[c] # "idle"
      /\ \A d \in Calls : d # c => token'[d] = token[d] /\ id'[d] = id[d] /\ pc'[d] = pc[d]
  BY <1>2 DEF Dispatch, RefInv, Inv, TypeOK, Stay, Leave, Goto
<1>5. commit' = commit
  <2>1. commit \in [Calls -> SUBSET Requests]
    BY DEF RefInv, Inv, TypeOK
  <2> QED BY <1>1, <2>1 DEF Dispatch, Stay, Leave
<1>6. OwnID'
  BY <1>3, <1>4 DEF RefInv, OwnID
<1>7. OwnReport'
  <2> SUFFICES ASSUME NEW d \in Calls, NEW q \in commit[d]
               PROVE  pc'[d] = "done" /\ pc'[q[1]] # "idle" /\ token'[q[1]] = token'[d]
    BY <1>5 DEF OwnReport
  <2>1. q[1] \in Calls /\ d # c
    BY <1>1, RequestParts DEF RefInv, Inv, TypeOK
  <2>2. pc[d] = "done" /\ pc[q[1]] # "idle" /\ token[q[1]] = token[d]
    BY DEF RefInv, OwnReport
  <2> QED BY <1>1, <1>4, <2>1, <2>2
<1>8. Live' = Live
  <2>1. \A r \in Requests : req[r[1]][r[2]].state = "live" => token'[r[1]] = token[r[1]]
    BY <1>1, <1>4, RequestParts
  <2> QED BY <1>1, <2>1 DEF Live
<1>9. Reported' = Reported
  <2>1. \A u \in Tokens :
          (UNION {commit[d] : d \in {e \in Calls : token[e] = u}})' =
           UNION {commit[d] : d \in {e \in Calls : token[e] = u}}
    BY <1>1, <1>4, <1>5
  <2> QED BY <2>1 DEF Reported
<1> QED BY <1>6, <1>7, <1>8, <1>9

(* AWS handles a request: it buys, lapses, or nothing the promise sees.    *)
LEMMA ServerRefines ==
    ASSUME RefInv, NEW c \in Calls, NEW n \in Attempts,
           Process(c, n) \/ List(c, n) \/ Retire(c, n)
    PROVE  /\ OwnID' /\ OwnReport'
           /\ Promise!Next \/ UNCHANGED <<Live, Reported>>
<1> DEFINE q == <<c, n>>
<1>1. q \in Requests /\ q[1] = c /\ q[2] = n
  BY DEF Requests
<1> HIDE DEF q
<1>2. UNCHANGED <<pc, token, id, tries, result, commit>>
  BY DEF Process, List, Retire
<1>3. OwnID' /\ OwnReport' /\ Reported' = Reported
  BY <1>2 DEF RefInv, OwnID, OwnReport, Reported
<1>4. PICK v \in ReqRecords :
        /\ SetRequest(c, n, v)
        /\ \/ v.state = "live" /\ req[c][n].state # "live" /\ ~HasState(id[c], "live")
           \/ v.state # "live" /\ req[c][n].state = "live"
           \/ (v.state = "live") = (req[c][n].state = "live")
  <2>1. req[c][n] \in ReqRecords
    BY DEF RefInv, Inv, TypeOK
  <2>2. \A s \in {"live", "exists", "rejected", "retired"} :
          [req[c][n] EXCEPT !.state = s] \in ReqRecords /\ [req[c][n] EXCEPT !.state = s].state = s
    BY <2>1 DEF ReqRecords
  <2>3. [req[c][n] EXCEPT !.listed = TRUE] \in ReqRecords
        /\ [req[c][n] EXCEPT !.listed = TRUE].state = req[c][n].state
    BY <2>1 DEF ReqRecords
  <2>4. CASE List(c, n)
    BY <2>3, <2>4 DEF List
  <2>5. CASE Retire(c, n)
    <3>1. SetRequest(c, n, [req[c][n] EXCEPT !.state = "retired"]) /\ req[c][n].state = "live"
      BY <2>5 DEF Retire, SetState
    <3> QED BY <2>2, <3>1
  <2>6. CASE Process(c, n)
    <3>1. PICK s \in {"live", "exists", "rejected"} :
            /\ SetRequest(c, n, [req[c][n] EXCEPT !.state = s])
            /\ s = "live" => ~HasState(id[c], "live")
      BY <2>6 DEF Process, SetState
    <3>2. req[c][n].state = "inflight"
      BY <2>6 DEF Process
    <3> QED BY <2>2, <3>1, <3>2
  <2> QED BY <2>4, <2>5, <2>6
<1>5. /\ req'[c][n] = v
      /\ \A r \in Requests : r # q => req'[r[1]][r[2]] = req[r[1]][r[2]]
  <2>1. \A r \in Requests : r # q => (r[1] # c \/ r[2] # n) /\ r[1] \in Calls /\ r[2] \in Attempts
    BY RequestParts DEF q
  <2> QED BY <1>4, <2>1, WriteRequest DEF RefInv, Inv
<1>6. \A u \in Tokens, r \in Requests :
        (r \in Live[u])' <=> token[r[1]] = u /\ req'[r[1]][r[2]].state = "live"
  BY <1>2 DEF Live
<1>7. CASE token[c] \notin Tokens \/ (v.state = "live") = (req[c][n].state = "live")
  <2>1. \A u \in Tokens, r \in Requests :
          (token[r[1]] = u /\ req'[r[1]][r[2]].state = "live") <=>
          (token[r[1]] = u /\ req[r[1]][r[2]].state = "live")
    BY <1>1, <1>5, <1>7
  <2>2. Live' = Live
    BY <1>2, <2>1 DEF Live
  <2> QED BY <1>3, <2>2
<1>8. CASE token[c] \in Tokens /\ v.state = "live" /\ req[c][n].state # "live" /\ ~HasState(id[c], "live")
  <2> DEFINE t == token[c]
  <2>1. \A r \in Requests : token[r[1]] = t => req[r[1]][r[2]].state # "live"
    BY <1>8, RequestParts DEF HasState, RefInv, Inv, DerivedID
  <2>2. Live[t] = {} /\ \A u \in Tokens : q \notin Live[u]
    BY <1>1, <1>8, <2>1, LiveIs
  <2>3. \A u \in Tokens : {r \in Requests : token[r[1]] = u /\ req'[r[1]][r[2]].state = "live"} =
            IF u = t THEN {q} ELSE Live[u]
    BY <1>1, <1>5, <1>8, <2>1 DEF Live
  <2>4. Live' = [Live EXCEPT ![t] = {q}]
    BY <1>2, <2>3 DEF Live
  <2> QED BY <1>1, <1>3, <1>8, <2>2, <2>4, BuyStep
<1>9. CASE token[c] \in Tokens /\ v.state # "live" /\ req[c][n].state = "live"
  <2> DEFINE t == token[c]
  <2>1. q \in Live[t]
    BY <1>1, <1>9, LiveIs
  <2>2. \A u \in Tokens : {r \in Requests : token[r[1]] = u /\ req'[r[1]][r[2]].state = "live"} =
            IF u = t THEN Live[u] \ {q} ELSE Live[u]
    BY <1>1, <1>5, <1>9 DEF Live
  <2>3. Live' = [Live EXCEPT ![t] = @ \ {q}]
    BY <1>2, <2>2 DEF Live
  <2> QED BY <1>1, <1>3, <1>9, <2>1, <2>3, LapseStep
<1> QED BY <1>4, <1>7, <1>8, <1>9

(* A request just sent is not live.                                        *)
LEMMA SendRefines ==
    ASSUME RefInv, NEW c \in Calls, Send(c)
    PROVE  OwnID' /\ OwnReport' /\ UNCHANGED <<Live, Reported>>
<1> DEFINE n == tries[c] + 1
           v == [state |-> "inflight", listed |-> FALSE]
<1>1. /\ token' = token /\ id' = id /\ n \in Attempts /\ n > tries[c]
      /\ SetRequest(c, n, v) /\ Stay(c, "await")
  <2>1. tries[c] \in 0..MaxAttempts /\ tries[c] < AttemptLimit(c)
    BY DEF Send, RefInv, Inv, TypeOK, Progress
  <2>2. n \in Attempts /\ n > tries[c]
    BY <2>1 DEF AttemptLimit, Attempts
  <2> QED BY <2>2 DEF Send
<1>2. v \in ReqRecords /\ v.state = "inflight"
  BY DEF ReqRecords
<1> HIDE DEF n, v
<1>3. \A r \in Requests : (req'[r[1]][r[2]].state = "live") = (req[r[1]][r[2]].state = "live")
  <2>1. req[c][n].state = "none"
    BY <1>1 DEF RefInv, Inv, UnsentIsNone
  <2> QED BY <1>1, <1>2, <2>1, WriteRequest, RequestParts DEF RefInv, Inv
<1>4. commit' = commit /\ pc[c] # "done" /\ pc'[c] # "idle"
      /\ \A d \in Calls : d # c => pc'[d] = pc[d]
  BY <1>1 DEF Send, RefInv, Inv, TypeOK, Stay, Goto
<1>5. OwnReport'
  <2> SUFFICES ASSUME NEW d \in Calls, NEW q \in commit[d]
               PROVE  pc'[d] = "done" /\ pc'[q[1]] # "idle" /\ token[q[1]] = token[d]
    BY <1>1, <1>4 DEF OwnReport
  <2>1. q[1] \in Calls /\ d # c
    BY <1>4, NothingReported, RequestParts DEF RefInv, Inv, TypeOK
  <2> QED BY <1>4, <2>1 DEF RefInv, OwnReport
<1>6. OwnID' /\ Live' = Live /\ Reported' = Reported
  BY <1>1, <1>3, <1>4 DEF RefInv, OwnID, Live, Reported
<1> QED BY <1>5, <1>6

LEMMA StepRefines ==
    RefInv /\ [Next]_vars => RefInv' /\ [Promise!Next]_<<Live, Reported>>
<1> SUFFICES ASSUME RefInv, [Next]_vars
             PROVE  /\ OwnID' /\ OwnReport'
                    /\ Promise!Next \/ UNCHANGED <<Live, Reported>>
  BY NextInv DEF RefInv
<1>1. CASE \E c \in Calls, t \in AllTokens : Dispatch(c, t)
  BY <1>1, DispatchRefines
<1>2. CASE \E c \in Calls : CallStep(c) \/ Crash(c)
  BY <1>2, CallRefines, SendRefines DEF CallStep
<1>3. CASE \E c \in Calls, n \in Attempts : Process(c, n) \/ List(c, n) \/ Retire(c, n)
  BY <1>3, ServerRefines
<1>4. CASE UNCHANGED vars
  BY <1>4 DEF vars, RefInv, OwnID, OwnReport, Live, Reported
<1> QED BY <1>1, <1>2, <1>3, <1>4 DEF Next

LEMMA InitRefines == Init => RefInv /\ Promise!Init
<1> SUFFICES ASSUME Init PROVE RefInv /\ Promise!Init OBVIOUS
<1>1. OwnID /\ OwnReport
  BY DEF Init, OwnID, OwnReport
<1>2. \A r \in Requests : req[r[1]][r[2]].state = "none"
  BY RequestParts DEF Init
<1>3. Live = [t \in Tokens |-> {}]
  BY <1>2 DEF Live
<1>4. Reported = [t \in Tokens |-> {}]
  BY DEF Init, Reported
<1> QED BY <1>1, <1>3, <1>4, InitInv DEF RefInv, Promise!Init, Live, Reported

(* RDS, ElastiCache, MemoryDB and OpenSearch purchases implement the       *)
(* promise of AtMostOncePurchase whatever their callers do: AWS rejects a  *)
(* second live reservation under the ID derived from the token, and what a *)
(* lookup adopts (purchaseguard Guard, Recover) is the token's own.        *)
THEOREM ImplementsPromise == Spec => BuysAtMostOnce
BY InitRefines, StepRefines, PTL DEF Spec, BuysAtMostOnce, Promise!Spec, Live, Reported
=============================================================================
