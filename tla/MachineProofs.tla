---------------------------- MODULE MachineProofs ---------------------------
(***************************************************************************)
(* Proofs about components that stand alone: the GCP commitments           *)
(* (GcpPurchase) and recommendations (GcpAdvice), the AWS listings,        *)
(* purchases and quotes (Catalogue), the Azure exchanges (AzureExchange)   *)
(* and the purchase audit log (AuditLog), each for every value of its      *)
(* constants.  The run of MCMachines interleaves none of the first four    *)
(* with another, so each theorem is about its component's specification.   *)
(***************************************************************************)
EXTENDS Catalogue, GcpAdvice, AzureExchange, AuditLog, SequenceTheorems, FiniteSetTheorems, TLAPS

-----------------------------------------------------------------------------
(* GCP: no two commitments of one token, and a call reports its own.       *)

GcpSpec == GcpPurchaseInit /\ [][GcpPurchaseNext]_gcpVars

-----------------------------------------------------------------------------
(* The name of a commitment tells whose it is.                             *)

CudNames(token) == IF token = "" THEN {<<"second", s>> : s \in Nat} ELSE {<<"token", token>>}

LEMMA NameTellsToken ==
    ASSUME NEW t, NEW u, NEW n \in CudNames(t), n \in CudNames(u) PROVE t = u
<1>1. "second" # "token"
  OBVIOUS
<1>2. ASSUME NEW a, NEW b, NEW x \in CudNames(a), a = "", b # "", x \in CudNames(b) PROVE FALSE
  <2>1. PICK s \in Nat : x = <<"second", s>>
    BY <1>2 DEF CudNames
  <2>2. x = <<"token", b>>
    BY <1>2 DEF CudNames
  <2> QED BY <1>1, <2>1, <2>2
<1>3. CASE t # "" /\ u # ""
  <2>1. <<"token", t>> = <<"token", u>>
    BY <1>3 DEF CudNames
  <2> QED BY <2>1
<1> QED BY <1>2, <1>3

OrderTokens == {o.token : o \in GcpOrders}
Contents == {ContentOf(o.rec) : o \in GcpOrders}
AllNames == UNION {CudNames(t) : t \in OrderTokens}
Requests == [name : AllNames, token : OrderTokens, content : Contents, call : Nat]
Cuds == [content : Contents, state : {"creating", "active"}, token : OrderTokens, call : Nat]
Reports == [req : Requests, existing : BOOLEAN, found : Cuds]

-----------------------------------------------------------------------------
(* The inductive invariant.                                                *)

Fields == {"pc", "req", "attempt", "until", "name", "op"}
Shape == DOMAIN drive = Drivers /\ \A d \in Drivers : DOMAIN drive[d] = Fields

Busy(d) == ~At(d, "idle")

(* A call knows its own name; without a token it waits for the creation it *)
(* began or for one that cannot succeed.                                   *)
CallInv(d) ==
    Busy(d) =>
        /\ drive[d].req \in Requests /\ drive[d].req.call < gcpCalls
        /\ drive[d].req.name \in CudNames(drive[d].req.token)
        /\ drive[d].pc \in {"wait", "adopt"} => drive[d].name = drive[d].req.name
        /\ drive[d].pc = "adopt" => drive[d].req.token # ""
        /\ (drive[d].pc = "wait" /\ drive[d].req.token = "") => drive[d].op \in {Nil, drive[d].req.call}

CallsDiffer ==
    \A d, e \in Drivers : (Busy(d) /\ Busy(e) /\ drive[d].req.call = drive[e].req.call) => d = e

DriveInv ==
    /\ Shape /\ gcpCalls \in Nat /\ second \in Nat
    /\ \A d \in Drivers : CallInv(d)
    /\ CallsDiffer

(* Names and request IDs come from the token.                              *)
CudsInv ==
    /\ cuds = [n \in DOMAIN cuds |-> cuds[n]]
    /\ \A n \in DOMAIN cuds : cuds[n] \in Cuds /\ n \in CudNames(cuds[n].token)
    /\ \A t \in DOMAIN requests : requests[t] \in CudNames(t)

(* What was reported, and that no later call can report it as its own.     *)
Own(r) ==
    /\ r.req.name \in CudNames(r.req.token) /\ r.req.call < gcpCalls
    /\ r.found.token = r.req.token
    /\ r.existing = TRUE => r.found.content = r.req.content
    /\ r.existing = FALSE => r.found.state = "active"
    /\ r.req.token = "" =>
         /\ r.req.name \in DOMAIN cuds /\ cuds[r.req.name].state = "active"
         /\ cuds[r.req.name].call = r.req.call

SuccessInv ==
    /\ successes \in Seq(Reports)
    /\ \A i \in DOMAIN successes : Own(successes[i])
    /\ \A i \in DOMAIN successes, d \in Drivers : Busy(d) => drive[d].req.call # successes[i].req.call
    /\ \A i, j \in DOMAIN successes :
         (i # j /\ successes[i].req.token = "") => successes[i].req.name # successes[j].req.name

GcpInv == DriveInv /\ CudsInv /\ SuccessInv

-----------------------------------------------------------------------------
(* Frames.                                                                 *)

(* A step of one call that keeps its request.                              *)
Steps(d) ==
    /\ Shape' /\ \A e \in Drivers \ {d} : drive'[e] = drive[e]
    /\ Busy(d)' => Busy(d) /\ drive'[d].req = drive[d].req

LEMMA StepsDrive ==
    ASSUME DriveInv, NEW d \in Drivers, Steps(d), CallInv(d)', UNCHANGED <<second, gcpCalls>>
    PROVE  DriveInv'
<1>1. \A e \in Drivers : Busy(e)' => Busy(e) /\ drive'[e].req = drive[e].req
  BY DEF Steps, Busy, At
<1>2. \A e \in Drivers \ {d} : CallInv(e)'
  BY DEF DriveInv, CallInv, Busy, At, Steps
<1>3. CallsDiffer'
  BY <1>1 DEF DriveInv, CallsDiffer
<1> QED BY <1>2, <1>3 DEF DriveInv, Steps

(* An active commitment stays as it is.                                    *)
Kept == \A n \in DOMAIN cuds : cuds[n].state = "active" => n \in DOMAIN cuds' /\ cuds'[n] = cuds[n]

LEMMA SuccessFrame ==
    ASSUME SuccessInv, Kept, UNCHANGED <<successes, gcpCalls>>,
           \A e \in Drivers : Busy(e)' => Busy(e) /\ drive'[e].req = drive[e].req
    PROVE  SuccessInv'
<1>1. ASSUME NEW i \in DOMAIN successes PROVE Own(successes[i])'
  BY DEF SuccessInv, Own, Kept
<1> QED BY <1>1 DEF SuccessInv

LEMMA QuietStep ==
    ASSUME GcpInv, NEW d \in Drivers, Steps(d), CallInv(d)', UNCHANGED <<cuds, requests, second, gcpCalls, successes>>
    PROVE  GcpInv'
<1>1. DriveInv'
  BY StepsDrive DEF GcpInv
<1>2. CudsInv'
  BY DEF GcpInv, CudsInv
<1>3. \A e \in Drivers : Busy(e)' => Busy(e) /\ drive'[e].req = drive[e].req
  BY DEF Steps, Busy, At
<1>4. SuccessInv'
  BY <1>3, SuccessFrame DEF GcpInv, Kept
<1> QED BY <1>1, <1>2, <1>4 DEF GcpInv

-----------------------------------------------------------------------------
(* The steps of a call.                                                    *)

(* A call that returns leaves nothing behind.                              *)
LEMMA ReturnsSteps ==
    ASSUME DriveInv, NEW d \in Drivers, Returns(d) PROVE Steps(d) /\ CallInv(d)' /\ ~Busy(d)'
<1>1. DOMAIN NoCall = Fields /\ NoCall.pc = "idle"
  BY DEF NoCall, Fields
<1>2. DOMAIN drive' = Drivers /\ drive'[d] = NoCall /\ \A e \in Drivers \ {d} : drive'[e] = drive[e]
  BY DEF Returns, DriveInv, Shape
<1>3. ~Busy(d)'
  BY <1>1, <1>2 DEF Busy, At
<1> QED BY <1>1, <1>2, <1>3 DEF Steps, Shape, CallInv, DriveInv

(* A call that goes on keeps its request.                                  *)
LEMMA MoveSteps ==
    ASSUME DriveInv, NEW d \in Drivers, Busy(d), NEW r, drive' = [drive EXCEPT ![d] = r],
           DOMAIN r = Fields, r.req = drive[d].req
    PROVE  Steps(d) /\ drive'[d] = r
BY DEF Steps, Shape, DriveInv

LEMMA QuietCalls ==
    ASSUME GcpInv, NEW d \in Drivers,
           InsertRepeats(d) \/ InsertTaken(d) \/ InsertExhausted(d) \/ BackoffEnds(d) \/ CallFails(d)
             \/ InsertConflicts(d) \/ WaitConflicts(d)
    PROVE  GcpInv'
<1> USE DEF Gcp, Elsewhere
<1>0. DriveInv /\ CallInv(d) /\ DOMAIN drive[d] = Fields
  BY DEF GcpInv, DriveInv, Shape
<1>1. UNCHANGED <<cuds, requests, second, gcpCalls, successes>> /\ Busy(d)
  BY DEF InsertRepeats, InsertTaken, InsertExhausted, BackoffEnds, CallFails, InsertConflicts, WaitConflicts,
         InsertAccepted, Conflict, Failure, Busy, At
<1> SUFFICES Steps(d) /\ CallInv(d)'
  BY <1>1, QuietStep
<1>2. CASE Returns(d)
  BY <1>0, <1>2, ReturnsSteps
<1>3. ASSUME NEW name, NEW op, InsertAccepted(d, name, op), name = drive[d].req.name,
             drive[d].req.token = "" => op = Nil
      PROVE  Steps(d) /\ CallInv(d)'
  <2> DEFINE r == [drive[d] EXCEPT !.pc = "wait", !.name = name, !.op = op]
  <2>1. drive' = [drive EXCEPT ![d] = r]
    BY <1>3 DEF InsertAccepted
  <2>2. DOMAIN r = Fields /\ r.req = drive[d].req /\ r.pc = "wait" /\ r.name = name /\ r.op = op
    BY <1>0 DEF Fields
  <2> HIDE DEF r
  <2>3. Steps(d) /\ drive'[d] = r
    BY <1>0, <1>1, <2>1, <2>2, MoveSteps
  <2> QED BY <1>0, <1>1, <1>3, <2>2, <2>3 DEF CallInv, Busy, At
<1>4. CASE InsertRepeats(d)
  <2>1. InsertAccepted(d, requests[drive[d].req.token], cuds[requests[drive[d].req.token]].call)
        /\ Remembered(drive[d].req)
    BY <1>4 DEF InsertRepeats
  <2>2. drive[d].req.token # "" /\ requests[drive[d].req.token] = drive[d].req.name
    BY <1>0, <1>1, <2>1 DEF Remembered, GcpInv, CudsInv, CudNames, CallInv
  <2> QED BY <1>3, <2>1, <2>2
<1>5. CASE InsertTaken(d)
  BY <1>3, <1>5 DEF InsertTaken
<1>6. ASSUME NEW until, drive' = [drive EXCEPT ![d].pc = "backoff", ![d].until = until]
      PROVE  Steps(d) /\ CallInv(d)'
  <2> DEFINE r == [drive[d] EXCEPT !.pc = "backoff", !.until = until]
  <2>1. drive' = [drive EXCEPT ![d] = r]
    BY <1>6
  <2>2. DOMAIN r = Fields /\ r.req = drive[d].req /\ r.pc = "backoff"
    BY <1>0 DEF Fields
  <2> HIDE DEF r
  <2>3. Steps(d) /\ drive'[d] = r
    BY <1>0, <1>1, <2>1, <2>2, MoveSteps
  <2> QED BY <1>0, <1>1, <2>2, <2>3 DEF CallInv, Busy, At
<1>7. CASE BackoffEnds(d)
  <2> DEFINE r == [drive[d] EXCEPT !.pc = "insert", !.attempt = @ + 1]
  <2>1. drive' = [drive EXCEPT ![d] = r]
    BY <1>7 DEF BackoffEnds
  <2>2. DOMAIN r = Fields /\ r.req = drive[d].req /\ r.pc = "insert"
    BY <1>0 DEF Fields
  <2> HIDE DEF r
  <2>3. Steps(d) /\ drive'[d] = r
    BY <1>0, <1>1, <2>1, <2>2, MoveSteps
  <2> QED BY <1>0, <1>1, <2>2, <2>3 DEF CallInv, Busy, At
<1>8. CASE Conflict(d) /\ Adopts(drive[d].req)
  <2> DEFINE r == [drive[d] EXCEPT !.pc = "adopt", !.name = drive[d].req.name]
  <2>1. drive' = [drive EXCEPT ![d] = r]
    BY <1>8 DEF Conflict
  <2>2. DOMAIN r = Fields /\ r.req = drive[d].req /\ r.pc = "adopt" /\ r.name = drive[d].req.name
    BY <1>0 DEF Fields
  <2> HIDE DEF r
  <2>3. Steps(d) /\ drive'[d] = r
    BY <1>0, <1>1, <2>1, <2>2, MoveSteps
  <2> QED BY <1>0, <1>1, <1>8, <2>2, <2>3 DEF CallInv, Busy, At, Adopts
<1>9. CASE InsertExhausted(d)
  BY <1>2, <1>6, <1>9 DEF InsertExhausted
<1>10. CASE CallFails(d)
  BY <1>2, <1>10 DEF CallFails, Failure
<1>11. CASE InsertConflicts(d) \/ WaitConflicts(d)
  BY <1>2, <1>8, <1>11 DEF InsertConflicts, WaitConflicts, Conflict
<1> QED BY <1>4, <1>5, <1>7, <1>9, <1>10, <1>11

LEMMA PurchaseStep ==
    ASSUME GcpInv, NEW d \in Drivers, NEW order \in GcpOrders, PurchaseCud(d, order) PROVE GcpInv'
<1> USE DEF Gcp
<1>0. /\ DriveInv /\ DOMAIN drive[d] = Fields /\ ~Busy(d) /\ gcpCalls \in Nat /\ gcpCalls' = gcpCalls + 1
      /\ UNCHANGED <<cuds, requests, second, successes>>
  BY DEF GcpInv, DriveInv, Shape, PurchaseCud, Busy
<1>n. /\ \A q \in Requests : q.call \in Nat
      /\ \A m \in Nat : m < gcpCalls => m < gcpCalls'
      /\ \A m \in Nat : m < gcpCalls => m # gcpCalls
      /\ gcpCalls < gcpCalls' /\ gcpCalls' \in Nat
  BY <1>0 DEF Requests
<1>1. ASSUME NEW r \in Reports, Own(r) PROVE Own(r)' /\ r.req.call \in Nat /\ r.req.call < gcpCalls
  <2>1. r.req \in Requests
    BY DEF Reports
  <2>2. UNCHANGED cuds
    BY <1>0
  <2> QED BY <1>1, <1>n, <2>1, <2>2 DEF Own
<1>2. /\ Shape' /\ \A e \in Drivers \ {d} : drive'[e] = drive[e]
      /\ Busy(d)' => /\ drive'[d].pc = "insert" /\ drive'[d].req \in Requests /\ drive'[d].req.call = gcpCalls
                     /\ drive'[d].req.name \in CudNames(drive'[d].req.token)
  <2>1. CASE UNCHANGED drive
    BY <1>0, <2>1 DEF DriveInv, Shape, Busy, At
  <2>2. CASE drive' = [drive EXCEPT ![d].pc = "insert", ![d].req = InsertRequest(order)]
    <3> DEFINE r == [drive[d] EXCEPT !.pc = "insert", !.req = InsertRequest(order)]
    <3>1. drive' = [drive EXCEPT ![d] = r]
      BY <2>2
    <3>2. DOMAIN r = Fields /\ r.req = InsertRequest(order) /\ r.pc = "insert"
      BY <1>0 DEF Fields
    <3> HIDE DEF r
    <3>3. Shape' /\ drive'[d] = r /\ \A e \in Drivers \ {d} : drive'[e] = drive[e]
      BY <1>0, <3>1, <3>2 DEF DriveInv, Shape
    <3> DEFINE name == IdempotentCommitmentName(order.token)
    <3>4. name \in CudNames(order.token)
      BY <1>0 DEF IdempotentCommitmentName, CudNames, DriveInv
    <3>5. name \in AllNames /\ order.token \in OrderTokens /\ ContentOf(order.rec) \in Contents
      BY <3>4 DEF AllNames, OrderTokens, Contents
    <3>6. InsertRequest(order) = [name |-> name, token |-> order.token, content |-> ContentOf(order.rec), call |-> gcpCalls]
      BY DEF InsertRequest
    <3> HIDE DEF name
    <3>7. /\ InsertRequest(order) \in Requests /\ InsertRequest(order).name = name
          /\ InsertRequest(order).token = order.token /\ InsertRequest(order).call = gcpCalls
      BY <1>0, <3>5, <3>6 DEF Requests
    <3> QED BY <3>2, <3>3, <3>4, <3>7
  <2> QED BY <2>1, <2>2 DEF PurchaseCud
<1>3. \A e \in Drivers \ {d} : /\ Busy(e)' <=> Busy(e)
                               /\ Busy(e) => drive[e].req.call \in Nat /\ drive[e].req.call < gcpCalls
  BY <1>0, <1>n, <1>2 DEF DriveInv, CallInv, Busy, At
<1>4. \A e \in Drivers : CallInv(e)'
  <2>1. CallInv(d)'
    BY <1>n, <1>2 DEF CallInv
  <2>2. ASSUME NEW e \in Drivers \ {d} PROVE CallInv(e)'
    <3>1. drive'[e] = drive[e] /\ CallInv(e)
      BY <1>0, <1>2 DEF DriveInv
    <3> QED BY <1>n, <1>3, <3>1 DEF CallInv
  <2> QED BY <2>1, <2>2
<1>5. CallsDiffer'
  <2>1. \A e \in Drivers \ {d} : (Busy(d)' /\ Busy(e)') => drive'[e].req.call # drive'[d].req.call
    BY <1>n, <1>2, <1>3
  <2>2. \A e, f \in Drivers \ {d} : (Busy(e)' /\ Busy(f)' /\ drive'[e].req.call = drive'[f].req.call) => e = f
    BY <1>0, <1>2, <1>3 DEF DriveInv, CallsDiffer
  <2> QED BY <2>1, <2>2 DEF CallsDiffer
<1>6. DriveInv'
  BY <1>0, <1>n, <1>2, <1>4, <1>5 DEF DriveInv
<1>7. CudsInv'
  BY <1>0 DEF GcpInv, CudsInv
<1>8. SuccessInv'
  <2>1. ASSUME NEW i \in DOMAIN successes
        PROVE  Own(successes[i])' /\ successes[i].req.call \in Nat /\ successes[i].req.call < gcpCalls
    <3>1. successes \in Seq(Reports) /\ Own(successes[i])
      BY DEF GcpInv, SuccessInv
    <3>2. successes[i] \in Reports
      BY <3>1
    <3>3. successes' = successes
      BY <1>0
    <3>4. \A r \in Reports : Own(r) => Own(r)' /\ r.req.call \in Nat /\ r.req.call < gcpCalls
      BY <1>1
    <3> QED BY <3>1, <3>2, <3>3, <3>4 DEF Own
  <2>2. ASSUME NEW i \in DOMAIN successes, NEW e \in Drivers, Busy(e)'
        PROVE  drive'[e].req.call # successes[i].req.call
    <3>1. CASE e = d
      BY <1>n, <1>2, <2>1, <2>2, <3>1
    <3>2. CASE e # d
      BY <1>2, <1>3, <2>2, <3>2 DEF GcpInv, SuccessInv
    <3> QED BY <3>1, <3>2
  <2> QED BY <1>0, <2>1, <2>2 DEF GcpInv, SuccessInv
<1> QED BY <1>6, <1>7, <1>8 DEF GcpInv

(* GCP creates the commitment under a name nobody has.                     *)
LEMMA Inserts ==
    ASSUME CudsInv, NEW q \in Requests, q.name \in CudNames(q.token), ~NameTaken(q.name), GcpInserts(q)
    PROVE  CudsInv' /\ Kept
<1> DEFINE new == [content |-> q.content, state |-> "creating", token |-> q.token, call |-> q.call]
<1>1. new \in Cuds /\ new.token = q.token
  BY DEF Cuds, Requests
<1>2. cuds' = With(cuds, q.name, new)
  BY DEF GcpInserts
<1>3. requests' = requests \/ requests' = With(requests, q.token, q.name)
  BY DEF GcpInserts
<1> HIDE DEF new
<1>4. /\ DOMAIN cuds' = DOMAIN cuds \cup {q.name} /\ cuds'[q.name] = new
      /\ \A n \in DOMAIN cuds : cuds'[n] = cuds[n]
      /\ cuds' = [n \in DOMAIN cuds' |-> cuds'[n]]
  BY <1>2 DEF With, NameTaken
<1>5. \A t \in DOMAIN requests' : requests'[t] \in CudNames(t)
  BY <1>3 DEF With, CudsInv
<1>6. Kept
  BY <1>4 DEF Kept
<1> QED BY <1>1, <1>4, <1>5, <1>6 DEF CudsInv

LEMMA InsertStep ==
    ASSUME GcpInv, NEW d \in Drivers, InsertCreates(d) \/ InsertAnswerLost(d) PROVE GcpInv'
<1> USE DEF Elsewhere
<1> DEFINE q == drive[d].req
<1>0. /\ DriveInv /\ CallInv(d) /\ Busy(d) /\ DOMAIN drive[d] = Fields
      /\ GcpInserts(q) /\ ~NameTaken(q.name) /\ UNCHANGED <<second, gcpCalls, successes>>
  BY DEF GcpInv, DriveInv, Shape, InsertCreates, InsertAnswerLost, InsertAccepted, Failure, Busy, At
<1>1. CudsInv' /\ Kept
  BY <1>0, Inserts DEF CallInv, GcpInv
<1>2. Steps(d) /\ CallInv(d)'
  <2>1. CASE InsertAnswerLost(d)
    BY <1>0, <2>1, ReturnsSteps DEF InsertAnswerLost, Failure
  <2>2. CASE InsertCreates(d)
    <3> DEFINE r == [drive[d] EXCEPT !.pc = "wait", !.name = q.name, !.op = q.call]
    <3>1. drive' = [drive EXCEPT ![d] = r]
      BY <2>2 DEF InsertCreates, InsertAccepted
    <3>2. DOMAIN r = Fields /\ r.req = drive[d].req /\ r.pc = "wait" /\ r.name = q.name /\ r.op = q.call
      BY <1>0 DEF Fields
    <3> HIDE DEF r
    <3>3. Steps(d) /\ drive'[d] = r
      BY <1>0, <3>1, <3>2, MoveSteps
    <3> QED BY <1>0, <3>2, <3>3 DEF CallInv, Busy, At
  <2> QED BY <2>1, <2>2
<1>3. DriveInv'
  BY <1>0, <1>2, StepsDrive
<1>4. \A e \in Drivers : Busy(e)' => Busy(e) /\ drive'[e].req = drive[e].req
  BY <1>2 DEF Steps, Busy, At
<1>5. SuccessInv'
  BY <1>0, <1>1, <1>4, SuccessFrame DEF GcpInv
<1> QED BY <1>1, <1>3, <1>5 DEF GcpInv

(* GCP and time.                                                           *)
LEMMA GcpStep ==
    ASSUME GcpInv,
           \/ \E name \in DOMAIN cuds : GcpCreates(name) \/ GcpGivesUp(name)
           \/ \E token \in DOMAIN requests : GcpForgets(token)
           \/ SecondPasses
           \/ UNCHANGED gcpVars
    PROVE  GcpInv'
<1> USE DEF Gcp
<1>0. DriveInv /\ CudsInv /\ UNCHANGED <<drive, gcpCalls, successes>>
  BY DEF GcpInv, GcpCreates, GcpGivesUp, GcpForgets, SecondPasses, gcpVars
<1>1. DriveInv'
  <2>1. second' \in Nat
    <3>1. second' = second \/ second' = second + 1
      BY DEF GcpCreates, GcpGivesUp, GcpForgets, SecondPasses, gcpVars
    <3> QED BY <1>0, <3>1 DEF DriveInv
  <2> QED BY <1>0, <2>1 DEF DriveInv, Shape, CallInv, CallsDiffer, Busy, At
<1>2. CudsInv' /\ Kept
  <2>1. ASSUME NEW name \in DOMAIN cuds, GcpCreates(name) PROVE CudsInv' /\ Kept
    <3> DEFINE new == [cuds[name] EXCEPT !.state = "active"]
    <3>1. cuds' = [cuds EXCEPT ![name] = new] /\ requests' = requests /\ cuds[name].state = "creating"
      BY <2>1 DEF GcpCreates
    <3>2. cuds[name] \in Cuds
      BY <1>0 DEF CudsInv
    <3>3. new \in Cuds /\ new.token = cuds[name].token
      BY <3>2 DEF Cuds
    <3> HIDE DEF new
    <3>4. DOMAIN cuds' = DOMAIN cuds /\ cuds'[name] = new /\ \A n \in DOMAIN cuds \ {name} : cuds'[n] = cuds[n]
      BY <3>1
    <3>5. cuds' = [n \in DOMAIN cuds' |-> cuds'[n]]
      BY <1>0, <3>1 DEF CudsInv
    <3>6. Kept
      BY <3>1, <3>4 DEF Kept
    <3> QED BY <1>0, <3>1, <3>3, <3>4, <3>5, <3>6 DEF CudsInv
  <2>2. ASSUME NEW name \in DOMAIN cuds, GcpGivesUp(name) PROVE CudsInv' /\ Kept
    <3>1. /\ cuds' = [n \in DOMAIN cuds \ {name} |-> cuds[n]] /\ cuds[name].state = "creating"
          /\ requests' = [t \in {u \in DOMAIN requests : requests[u] # name} |-> requests[t]]
      BY <2>2 DEF GcpGivesUp, Without
    <3> QED BY <1>0, <3>1 DEF CudsInv, Kept
  <2>3. ASSUME NEW token \in DOMAIN requests, GcpForgets(token) PROVE CudsInv' /\ Kept
    <3>1. cuds' = cuds /\ requests' = [t \in DOMAIN requests \ {token} |-> requests[t]]
      BY <2>3 DEF GcpForgets, Without
    <3> QED BY <1>0, <3>1 DEF CudsInv, Kept
  <2>4. CASE UNCHANGED <<cuds, requests>>
    BY <1>0, <2>4 DEF CudsInv, Kept
  <2> QED BY <2>1, <2>2, <2>3, <2>4 DEF SecondPasses, gcpVars
<1>3. SuccessInv'
  BY <1>0, <1>2, SuccessFrame DEF GcpInv, Busy, At
<1> QED BY <1>1, <1>2, <1>3 DEF GcpInv

LEMMA LastIndex ==
    ASSUME NEW n \in Nat, NEW i \in 1..(n + 1) PROVE i = n + 1 \/ i \in 1..n
OBVIOUS

(* What appending a report to the successes does: the earlier reports keep *)
(* their places (Success).                                                 *)
LEMMA OneMoreReport ==
    ASSUME NEW s \in Seq(Reports), NEW x \in Reports
    PROVE  /\ Append(s, x) \in Seq(Reports)
           /\ Len(Append(s, x)) = Len(s) + 1
           /\ Append(s, x)[Len(s) + 1] = x
           /\ \A i \in 1..Len(s) : Append(s, x)[i] = s[i]
<1>1. Append(s, x) \in Seq(Reports)
  BY AppendProperties
<1>2. Len(Append(s, x)) = Len(s) + 1
  BY AppendProperties
<1>3. Append(s, x)[Len(s) + 1] = x
  BY AppendProperties
<1>4. \A i \in 1..Len(s) : Append(s, x)[i] = s[i]
  BY AppendProperties
<1> QED BY <1>1, <1>2, <1>3, <1>4

(* A call reports the commitment under its own name, which carries its     *)
(* token; without a token, the one it created itself.                      *)
LEMMA SuccessStep ==
    ASSUME GcpInv, NEW d \in Drivers, Busy(d), NEW existing \in BOOLEAN, Success(d, existing),
           drive[d].pc \in {"wait", "adopt"}, NameTaken(drive[d].name),
           existing = TRUE => cuds[drive[d].name].content = drive[d].req.content /\ drive[d].req.token # "",
           existing = FALSE => /\ cuds[drive[d].name].state = "active" /\ drive[d].pc = "wait"
                               /\ cuds[drive[d].name].call = drive[d].op
    PROVE  GcpInv'
<1> USE DEF Gcp, Elsewhere
<1> DEFINE q == drive[d].req
           c == cuds[drive[d].name]
           rep == [req |-> q, existing |-> existing, found |-> c]
<1>0. /\ DriveInv /\ CallInv(d) /\ CudsInv /\ SuccessInv /\ Returns(d)
      /\ UNCHANGED <<cuds, requests, second, gcpCalls>>
      /\ successes' = Append(successes, rep)
  BY DEF GcpInv, DriveInv, Success
<1>1. Steps(d) /\ CallInv(d)' /\ ~Busy(d)'
  BY <1>0, ReturnsSteps
<1>2. DriveInv' /\ CudsInv'
  BY <1>0, <1>1, StepsDrive DEF CudsInv
<1>3. /\ q \in Requests /\ q.name \in CudNames(q.token) /\ drive[d].name = q.name
      /\ c \in Cuds /\ q.name \in DOMAIN cuds /\ q.name \in CudNames(c.token)
  BY <1>0 DEF CallInv, CudsInv, NameTaken
<1>4. c.token = q.token
  BY <1>3, NameTellsToken
<1>5. q.token = "" => c.state = "active" /\ c.call = q.call
  <2>1. ASSUME q.token = "" PROVE drive[d].pc = "wait" /\ existing = FALSE /\ drive[d].op \in {Nil, q.call}
    BY <1>0, <2>1 DEF CallInv
  <2>2. c.call \in Nat
    BY <1>3 DEF Cuds
  <2> QED BY <2>1, <2>2, NilAssumption DEF NilAssumption
<1>6. /\ rep.req = q /\ rep.found = c /\ rep.existing = existing /\ rep \in Reports
  <2>1. rep \in [req : Requests, existing : BOOLEAN, found : Cuds]
    BY <1>3, Zenon
  <2> QED BY <2>1 DEF Reports
<1>7. Own(rep)
  <2> HIDE DEF rep
  <2> QED BY <1>0, <1>3, <1>4, <1>5, <1>6 DEF Own, CallInv
<1> HIDE DEF rep
<1>8. /\ successes' \in Seq(Reports) /\ Len(successes') = Len(successes) + 1 /\ Len(successes) \in Nat
      /\ successes'[Len(successes) + 1] = rep
      /\ \A i \in 1..Len(successes) : successes'[i] = successes[i]
      /\ DOMAIN successes = 1..Len(successes) /\ DOMAIN successes' = 1..(Len(successes) + 1)
  <2>1. successes \in Seq(Reports)
    BY <1>0 DEF SuccessInv
  <2>2. successes' = Append(successes, rep) /\ rep \in Reports
    BY <1>0, <1>6
  <2>3. /\ successes' \in Seq(Reports) /\ Len(successes') = Len(successes) + 1
        /\ successes'[Len(successes) + 1] = rep
        /\ \A i \in 1..Len(successes) : successes'[i] = successes[i]
    <3>1. rep \in Reports
      BY <2>2
    <3>2. Append(successes, rep) \in Seq(Reports)
      BY <2>1, <3>1, OneMoreReport, Zenon
    <3>3. Len(Append(successes, rep)) = Len(successes) + 1
      BY <2>1, <3>1, OneMoreReport, Zenon
    <3>4. Append(successes, rep)[Len(successes) + 1] = rep
      BY <2>1, <3>1, OneMoreReport, Zenon
    <3>5. \A i \in 1..Len(successes) : Append(successes, rep)[i] = successes[i]
      BY <2>1, <3>1, OneMoreReport, Zenon
    <3> QED BY <2>2, <3>2, <3>3, <3>4, <3>5
  <2>4. Len(successes) \in Nat /\ DOMAIN successes = 1..Len(successes)
    BY <2>1, LenProperties
  <2>5. DOMAIN successes' = 1..(Len(successes) + 1)
    <3>1. DOMAIN successes' = 1..Len(successes')
      BY <2>3, LenProperties
    <3> QED BY <2>3, <3>1
  <2> QED BY <2>3, <2>4, <2>5
<1>9. ASSUME NEW i \in DOMAIN successes'
      PROVE  (successes'[i] = rep /\ i = Len(successes) + 1) \/ (i \in DOMAIN successes /\ successes'[i] = successes[i])
  <2>1. i \in 1..(Len(successes) + 1)
    BY <1>8
  <2>2. i = Len(successes) + 1 \/ i \in 1..Len(successes)
    <3>1. Len(successes) \in Nat
      BY <1>8
    <3> QED BY <2>1, <3>1, LastIndex
  <2> QED BY <1>8, <2>2
<1>10. \A r : Own(r) => (/\ r.req.name \in CudNames(r.req.token) /\ r.req.call < gcpCalls
                         /\ r.found.token = r.req.token
                         /\ r.existing = TRUE => r.found.content = r.req.content
                         /\ r.existing = FALSE => r.found.state = "active"
                         /\ r.req.token = "" =>
                              /\ r.req.name \in DOMAIN cuds' /\ cuds'[r.req.name].state = "active"
                              /\ cuds'[r.req.name].call = r.req.call)
  BY <1>0 DEF Own
<1>11. ASSUME NEW i \in DOMAIN successes' PROVE Own(successes[i])'
  <2>1. Own(successes'[i])
    BY <1>0, <1>7, <1>9 DEF SuccessInv
  <2> QED BY <1>0, <1>10, <2>1 DEF Own
<1>12. ASSUME NEW i \in DOMAIN successes', NEW e \in Drivers, Busy(e)'
       PROVE  drive'[e].req.call # successes'[i].req.call
  <2>1. e # d /\ drive'[e] = drive[e] /\ Busy(e)
    BY <1>1, <1>12 DEF Steps, Busy, At
  <2>2. drive[e].req.call # q.call
    BY <1>0, <2>1 DEF DriveInv, CallsDiffer
  <2>3. \A k \in DOMAIN successes : drive[e].req.call # successes[k].req.call
    BY <1>0, <2>1 DEF SuccessInv
  <2> QED BY <1>6, <1>9, <2>1, <2>2, <2>3
<1>13. ASSUME NEW i \in DOMAIN successes
       PROVE  (successes[i].req.token = "" \/ q.token = "") => successes[i].req.name # q.name
  <2> SUFFICES ASSUME successes[i].req.token = "" \/ q.token = "", successes[i].req.name = q.name PROVE FALSE
    OBVIOUS
  <2>1. Own(successes[i]) /\ successes[i].req.call # q.call
    BY <1>0 DEF SuccessInv
  <2>2. successes[i].req.token = "" /\ q.token = ""
    BY <1>3, <2>1, NameTellsToken DEF Own
  <2> QED BY <1>3, <1>5, <2>1, <2>2 DEF Own
<1>14. ASSUME NEW i \in DOMAIN successes', NEW j \in DOMAIN successes', i # j, successes'[i].req.token = ""
       PROVE  successes'[i].req.name # successes'[j].req.name
  <2>1. CASE i \in DOMAIN successes /\ j \in DOMAIN successes
    <3>1. successes'[i] = successes[i] /\ successes'[j] = successes[j]
      BY <1>8, <2>1
    <3> QED BY <1>0, <1>14, <2>1, <3>1 DEF SuccessInv
  <2>2. CASE i \notin DOMAIN successes
    BY <1>6, <1>9, <1>13, <1>14, <2>2
  <2>3. CASE j \notin DOMAIN successes
    BY <1>6, <1>9, <1>13, <1>14, <2>3
  <2> QED BY <2>1, <2>2, <2>3
<1>15. SuccessInv'
  BY <1>8, <1>11, <1>12, <1>14 DEF SuccessInv
<1> QED BY <1>2, <1>15 DEF GcpInv

LEMMA ReportSteps ==
    ASSUME GcpInv, NEW d \in Drivers, WaitSucceeds(d) \/ AdoptExisting(d) PROVE GcpInv'
<1>0. DriveInv /\ CallInv(d) /\ Busy(d)
  BY DEF GcpInv, DriveInv, WaitSucceeds, AdoptExisting, Busy, At
<1>1. CASE WaitSucceeds(d)
  BY <1>0, <1>1, SuccessStep DEF WaitSucceeds, At
<1>2. CASE AdoptExisting(d) /\ Success(d, TRUE)
  <2>1. drive[d].pc = "adopt" /\ drive[d].req.token # ""
    BY <1>0, <1>2 DEF AdoptExisting, At, CallInv
  <2>2. NameTaken(drive[d].name) /\ cuds[drive[d].name].content = drive[d].req.content
    <3>1. CASE NameTaken(drive[d].name) /\ SameCommitment(cuds[drive[d].name].content, drive[d].req.content)
      BY <3>1 DEF SameCommitment
    <3>2. CASE ~(NameTaken(drive[d].name) /\ SameCommitment(cuds[drive[d].name].content, drive[d].req.content))
      <4>1. successes' = successes
        BY <1>2, <3>2 DEF AdoptExisting, Failure
      <4>2. successes \in Seq(Reports) /\ \E r : successes' = Append(successes, r)
        BY <1>2 DEF GcpInv, SuccessInv, Success
      <4>3. \A r : Append(successes, r) # successes
        <5>1. \A r : Len(Append(successes, r)) = Len(successes) + 1
          BY <4>2
        <5>2. Len(successes) \in Nat
          BY <4>2
        <5> QED BY <5>1, <5>2
      <4> QED BY <4>1, <4>2, <4>3
    <3> QED BY <3>1, <3>2
  <2> QED BY <1>0, <1>2, <2>1, <2>2, SuccessStep
<1>3. CASE Failure(d) /\ UNCHANGED Gcp
  <2>1. Steps(d) /\ CallInv(d)' /\ UNCHANGED <<cuds, requests, second, gcpCalls, successes>>
    BY <1>0, <1>3, ReturnsSteps DEF Failure, Elsewhere, Gcp
  <2> QED BY <2>1, QuietStep
<1> QED BY <1>1, <1>2, <1>3 DEF AdoptExisting

LEMMA GcpInit == GcpPurchaseInit => GcpInv
<1> SUFFICES ASSUME GcpPurchaseInit PROVE GcpInv OBVIOUS
<1>1. DOMAIN NoCall = Fields /\ NoCall.pc = "idle"
  BY DEF NoCall, Fields
<1>2. DriveInv /\ \A d \in Drivers : ~Busy(d)
  <2>1. DOMAIN drive = Drivers /\ \A d \in Drivers : drive[d] = NoCall
    BY DEF GcpPurchaseInit
  <2>2. \A d \in Drivers : ~Busy(d)
    BY <1>1, <2>1 DEF Busy, At
  <2> QED BY <1>1, <2>1, <2>2 DEF GcpPurchaseInit, DriveInv, Shape, CallInv, CallsDiffer
<1>3. CudsInv
  BY DEF GcpPurchaseInit, CudsInv
<1>4. SuccessInv
  BY DEF GcpPurchaseInit, SuccessInv
<1> QED BY <1>2, <1>3, <1>4 DEF GcpInv

LEMMA GcpNext == GcpInv /\ [GcpPurchaseNext]_gcpVars => GcpInv'
<1> SUFFICES ASSUME GcpInv, [GcpPurchaseNext]_gcpVars PROVE GcpInv' OBVIOUS
<1>1. ASSUME NEW d \in Drivers, NEW order \in GcpOrders, PurchaseCud(d, order) PROVE GcpInv'
  BY <1>1, PurchaseStep
<1>2. ASSUME NEW d \in Drivers,
             InsertRepeats(d) \/ InsertTaken(d) \/ InsertExhausted(d) \/ BackoffEnds(d) \/ CallFails(d)
               \/ InsertConflicts(d) \/ WaitConflicts(d)
      PROVE  GcpInv'
  BY <1>2, QuietCalls
<1>3. ASSUME NEW d \in Drivers, InsertCreates(d) \/ InsertAnswerLost(d) PROVE GcpInv'
  BY <1>3, InsertStep
<1>4. ASSUME NEW d \in Drivers, WaitSucceeds(d) \/ AdoptExisting(d) PROVE GcpInv'
  BY <1>4, ReportSteps
<1> QED BY <1>1, <1>2, <1>3, <1>4, GcpStep DEF GcpPurchaseNext

LEMMA GcpInvariant == GcpSpec => []GcpInv
BY GcpInit, GcpNext, PTL DEF GcpSpec

(* However often a token is driven, and whatever GCP forgets or gives up,  *)
(* it never holds two commitments of it: the name comes from the token     *)
(* (idempotentCommitmentName) and a name is taken once.                    *)
THEOREM TokenBuysOne == GcpSpec => []GcpTokenBuysOne
<1>1. GcpInv => GcpTokenBuysOne
  BY DEF GcpInv, CudsInv, CudNames, GcpTokenBuysOne
<1> QED BY <1>1, GcpInvariant, PTL

(* A call reports only what was bought for its own token, as it was asked  *)
(* for when it is adopted (adoptExistingCommitment), and without a token   *)
(* only what it created itself.                                            *)
THEOREM SuccessIsOwn == GcpSpec => []GcpSuccessIsOwn
<1>1. ASSUME GcpInv PROVE GcpSuccessIsOwn
  <2>1. ASSUME NEW i \in DOMAIN successes
        PROVE  /\ successes[i].found.token = successes[i].req.token
               /\ IF successes[i].existing THEN successes[i].found.content = successes[i].req.content
                                           ELSE successes[i].found.state = "active"
    <3>1. successes \in Seq(Reports) /\ Own(successes[i])
      BY <1>1 DEF GcpInv, SuccessInv
    <3>2. successes[i] \in Reports
      BY <3>1
    <3>3. successes[i].existing \in BOOLEAN
      BY <3>2 DEF Reports
    <3>4. CASE successes[i].existing = TRUE
      BY <3>1, <3>4 DEF Own
    <3>5. CASE successes[i].existing = FALSE
      BY <3>1, <3>5 DEF Own
    <3> QED BY <3>3, <3>4, <3>5
  <2> QED BY <1>1, <2>1 DEF GcpInv, SuccessInv, GcpSuccessIsOwn
<1> QED BY <1>1, GcpInvariant, PTL

-----------------------------------------------------------------------------
(* GCP: every recommendation is returned or named.                         *)

AdviceSpec == GcpReadInit /\ [][GcpReadNext]_gcpReadVars

(* The inductive invariant: what a region has read so far is accounted for,*)
(* one way or the other, and a region that failed returns nothing but may  *)
(* have named what it skipped.                                             *)
IsActive(r, k) == read.regions[r][k].active
RegionShape(r) == DOMAIN region[r] = {"state", "read", "out", "cached"}
Accounted(r, raws, here, named) ==
    /\ here.read \in 0..Len(raws)
    /\ \A o \in here.out : \E k \in 1..here.read : o.at = <<r, k>> /\ raws[k].active /\ <<r, k>> \notin named
    /\ \A o, p \in here.out : o.at = p.at => o = p
    /\ here.state \in {"running", "done"} =>
         \A k \in 1..here.read : raws[k].active => <<r, k>> \in PlacesOf(here.out) \cup named
    /\ here.state = "done" => here.read = Len(raws)
    /\ here.state = "waiting" => here.read = 0
RegionInv(r) == Accounted(r, read.regions[r], region[r], skips)
SkipsInv == \A s \in skips : \E r \in Regions : \E k \in 1..region[r].read : s = <<r, k>> /\ IsActive(r, k)
ReplyInv == reply = Nil \/ reply = <<"failed">> \/ Attempted = {} \/ reply = WithSkips(Merged)
FanOutInv ==
    /\ DOMAIN region = Regions /\ region = [r \in Regions |-> region[r]]
    /\ \A r \in Regions : RegionShape(r) /\ RegionInv(r)
    /\ SkipsInv /\ ReplyInv
AdviceInv == read \in GcpReads /\ (read.op = "advise" => FanOutInv)

LEMMA RegionLengths ==
    ASSUME AdviceInv, read.op = "advise", NEW r \in Regions
    PROVE  Len(read.regions[r]) \in Nat /\ DOMAIN read.regions[r] = 1..Len(read.regions[r])
BY GcpReadsAssumption DEF GcpReadsAssumption, AdviceInv, Regions

(* A step of region r that leaves the other regions alone and adds nothing *)
(* to the skips but its next place.                                        *)
LEMMA RegionStep ==
    ASSUME AdviceInv, Advising, NEW r \in Regions, NEW new,
           UNCHANGED <<read, reply>>, region' = [region EXCEPT ![r] = new],
           DOMAIN new = {"state", "read", "out", "cached"}, new.read \in Nat, new.read >= region[r].read,
           skips' = skips \/ (skips' = skips \cup {Here(r)} /\ new.read = region[r].read + 1 /\ IsActive(r, new.read)),
           Accounted(r, read.regions[r], new, skips')
    PROVE  AdviceInv'
<1>1. FanOutInv /\ read.op = "advise" /\ Regions' = Regions /\ reply = Nil
  BY DEF AdviceInv, Advising, Regions
<1>2. region'[r] = new /\ DOMAIN region' = Regions /\ region' = [q \in Regions |-> region'[q]]
      /\ \A q \in Regions : q # r => region'[q] = region[q]
  BY <1>1 DEF FanOutInv
<1>3. \A q \in Regions : region'[q].read >= region[q].read /\ region'[q].read \in Nat /\ region[q].read \in Nat
  <2>1. \A q \in Regions : region[q].read \in Nat
    BY <1>1, RegionLengths DEF FanOutInv, RegionInv, Accounted
  <2> QED BY <1>2, <2>1
<1>4. ASSUME NEW q \in Regions, q # r PROVE RegionInv(q)'
  <2>1. RegionInv(q) /\ region'[q] = region[q]
    BY <1>1, <1>2, <1>4 DEF FanOutInv
  <2>2. \A k : <<q, k>> \in skips' <=> <<q, k>> \in skips
    BY <1>4 DEF Here
  <2>3. skips \subseteq skips'
    OBVIOUS
  <2> QED BY <2>1, <2>2, <2>3 DEF RegionInv, Accounted, PlacesOf
<1>5. SkipsInv'
  <2> SUFFICES ASSUME NEW s \in skips'
               PROVE  \E q \in Regions : \E k \in 1..region'[q].read : s = <<q, k>> /\ IsActive(q, k)'
    BY <1>1 DEF SkipsInv
  <2>1. CASE s \in skips
    <3>1. PICK q \in Regions : \E k \in 1..region[q].read : s = <<q, k>> /\ IsActive(q, k)
      BY <1>1, <2>1 DEF FanOutInv, SkipsInv
    <3>2. PICK k \in 1..region[q].read : s = <<q, k>> /\ IsActive(q, k)
      BY <3>1
    <3>3. k \in 1..region'[q].read
      BY <1>3
    <3> QED BY <3>2, <3>3 DEF IsActive
  <2>2. CASE s \notin skips
    <3>1. s = <<r, new.read>> /\ IsActive(r, new.read) /\ new.read \in 1..region'[r].read
      BY <1>2, <1>3, <2>2 DEF Here
    <3> QED BY <3>1 DEF IsActive
  <2> QED BY <2>1, <2>2
<1>6. \A q \in Regions : RegionShape(q)'
  BY <1>1, <1>2 DEF FanOutInv, RegionShape
<1>7. RegionInv(r)'
  BY <1>2 DEF RegionInv
<1> QED BY <1>1, <1>2, <1>4, <1>5, <1>6, <1>7 DEF AdviceInv, FanOutInv, ReplyInv

(* One place more that is accounted for.                                   *)
LEMMA AccountsForNext ==
    ASSUME NEW r, NEW raws, NEW here, NEW named, NEW new, NEW more,
           Accounted(r, raws, here, named), here.state = "running", new.state = "running",
           here.read \in Nat, new.read = here.read + 1, Len(raws) \in Nat, new.read <= Len(raws),
           <<r, new.read>> \notin named, named \subseteq more, more \subseteq named \cup {<<r, new.read>>},
           here.out \subseteq new.out, \A o \in new.out \ here.out : o.at = <<r, new.read>>,
           \A o, p \in new.out \ here.out : o = p,
           new.out # here.out => raws[new.read].active /\ more = named,
           raws[new.read].active => <<r, new.read>> \in PlacesOf(new.out) \cup more
    PROVE  Accounted(r, raws, new, more)
<1> DEFINE k == new.read
           out == new.out
<1>1. ASSUME NEW o \in here.out
      PROVE  \E j \in 1..here.read : o.at = <<r, j>> /\ raws[j].active /\ <<r, j>> \notin more
  <2>1. PICK j \in 1..here.read : o.at = <<r, j>> /\ raws[j].active /\ <<r, j>> \notin named
    BY DEF Accounted
  <2>2. j # k
    OBVIOUS
  <2>3. <<r, j>> # <<r, k>>
    BY <2>2
  <2> QED BY <2>1, <2>3
<1>2. 1..k = 1..here.read \cup {k}
  OBVIOUS
<1>3. \A o \in out : \E j \in 1..k : o.at = <<r, j>> /\ raws[j].active /\ <<r, j>> \notin more
  <2> SUFFICES ASSUME NEW o \in out PROVE \E j \in 1..k : o.at = <<r, j>> /\ raws[j].active /\ <<r, j>> \notin more
    OBVIOUS
  <2>1. CASE o \in here.out
    BY <1>1, <1>2, <2>1
  <2>2. CASE o \notin here.out
    <3>1. o.at = <<r, k>> /\ raws[k].active /\ more = named
      BY <2>2
    <3> QED BY <1>2, <3>1
  <2> QED BY <2>1, <2>2
<1>4. \A o \in here.out : o.at # <<r, k>>
  <2> SUFFICES ASSUME NEW o \in here.out PROVE o.at # <<r, k>>
    OBVIOUS
  <2>1. PICK j \in 1..here.read : o.at = <<r, j>>
    BY <1>1
  <2>2. j # k
    OBVIOUS
  <2> QED BY <2>1, <2>2
<1>5. \A o, p \in out : o.at = p.at => o = p
  <2> SUFFICES ASSUME NEW o \in out, NEW p \in out, o.at = p.at PROVE o = p
    OBVIOUS
  <2>1. CASE o \in here.out /\ p \in here.out
    BY <2>1 DEF Accounted
  <2>2. CASE ~(o \in here.out /\ p \in here.out)
    BY <1>4, <2>2
  <2> QED BY <2>1, <2>2
<1>6. \A j \in 1..k : raws[j].active => <<r, j>> \in PlacesOf(out) \cup more
  <2>1. \A j \in 1..here.read : raws[j].active => <<r, j>> \in PlacesOf(here.out) \cup named
    BY DEF Accounted
  <2>2. PlacesOf(here.out) \subseteq PlacesOf(out)
    BY DEF PlacesOf
  <2> QED BY <1>2, <2>1, <2>2
<1>7. new.read \in 0..Len(raws)
  OBVIOUS
<1> QED BY <1>3, <1>5, <1>6, <1>7 DEF Accounted

(* The turn of a region that counts one more place: it returns it, names it*)
(* or need not.                                                            *)
LEMMA ReadStep ==
    ASSUME AdviceInv, NEW r \in Regions, Reading(r), PassInactive(r) \/ RecordSkip(r) \/ ConvertRec(r)
    PROVE  AdviceInv'
<1> DEFINE k == region[r].read + 1
           raws == read.regions[r]
<1>1. FanOutInv /\ read.op = "advise" /\ Advising /\ region[r].state = "running" /\ RegionInv(r) /\ RegionShape(r)
  BY DEF AdviceInv, Advising, Reading, FanOutInv
<1>2. /\ region[r].read \in Nat /\ k \in Nat /\ k \in 1..Len(raws) /\ k <= Len(raws) /\ k >= region[r].read
      /\ Len(raws) \in Nat /\ raws[k].active \in BOOLEAN
  <2>1. /\ region[r].read \in Nat /\ k \in Nat /\ k \in 1..Len(raws) /\ k >= region[r].read
        /\ Len(raws) \in Nat /\ k \in DOMAIN raws
    BY <1>1, RegionLengths DEF Reading, HasNext, RegionInv, Accounted
  <2> QED BY <1>1, <2>1, GcpReadsAssumption DEF GcpReadsAssumption, AdviceInv, Regions
<1>3. <<r, k>> \notin skips
  BY <1>1, <1>2 DEF FanOutInv, SkipsInv
<1>4. NextRec(r) = raws[k] /\ Here(r) = <<r, k>>
  BY DEF NextRec, Here
<1>5. Accounted(r, raws, region[r], skips) /\ k = region[r].read + 1
  BY <1>1 DEF RegionInv
<1>6. ASSUME NEW new, region' = [region EXCEPT ![r] = new], UNCHANGED <<read, reply>>,
             DOMAIN new = {"state", "read", "out", "cached"}, new.state = "running", new.read = k,
             skips' = skips \/ (skips' = skips \cup {<<r, k>>} /\ raws[k].active),
             Accounted(r, raws, new, skips')
      PROVE  AdviceInv'
  <2>1. skips' = skips \/ (skips' = skips \cup {Here(r)} /\ new.read = region[r].read + 1 /\ IsActive(r, new.read))
    BY <1>4, <1>6 DEF IsActive
  <2>2. new.read \in Nat /\ new.read >= region[r].read
    BY <1>2, <1>6
  <2> HIDE DEF k
  <2> QED BY <1>1, <1>6, <2>1, <2>2, RegionStep
<1>7. CASE PassInactive(r)
  <2> DEFINE new == [region[r] EXCEPT !.read = @ + 1]
  <2>1. region' = [region EXCEPT ![r] = new] /\ UNCHANGED <<read, reply>> /\ skips' = skips /\ ~raws[k].active
    BY <1>4, <1>7 DEF PassInactive, Untouched
  <2>2. /\ new.state = "running" /\ new.read = k /\ new.out = region[r].out
        /\ DOMAIN new = {"state", "read", "out", "cached"}
    BY <1>1 DEF RegionShape
  <2> HIDE DEF new, k, raws
  <2>3. Accounted(r, raws, new, skips)
    <3>1. ~raws[k].active /\ skips \subseteq skips \cup {<<r, k>>} /\ region[r].out \ region[r].out = {}
      BY <2>1
    <3> QED BY <1>1, <1>2, <1>3, <1>5, <2>2, <3>1, AccountsForNext
  <2> QED BY <1>6, <2>1, <2>2, <2>3
<1>8. CASE RecordSkip(r)
  <2> DEFINE new == [region[r] EXCEPT !.read = @ + 1]
  <2>1. /\ region' = [region EXCEPT ![r] = new] /\ UNCHANGED <<read, reply>>
        /\ skips' = skips \cup {<<r, k>>} /\ raws[k].active
    BY <1>4, <1>8 DEF RecordSkip, Untouched
  <2>2. /\ new.state = "running" /\ new.read = k /\ new.out = region[r].out
        /\ DOMAIN new = {"state", "read", "out", "cached"}
    BY <1>1 DEF RegionShape
  <2> HIDE DEF new, k, raws
  <2>3. Accounted(r, raws, new, skips \cup {<<r, k>>})
    <3>1. PICK more : more = skips \cup {<<r, k>>}
      OBVIOUS
    <3>2. /\ skips \subseteq more /\ more \subseteq skips \cup {<<r, k>>} /\ <<r, k>> \in more
          /\ region[r].out \ region[r].out = {}
      BY <3>1
    <3>3. Accounted(r, raws, new, more)
      BY <1>1, <1>2, <1>3, <1>5, <2>2, <3>2, AccountsForNext
    <3> QED BY <3>1, <3>3
  <2> QED BY <1>6, <2>1, <2>2, <2>3
<1>9. CASE ConvertRec(r)
  <2>1. PICK skus :
          region' = [region EXCEPT ![r].out = @ \cup {[at |-> Here(r), rec |-> Enriched(Converted(NextRec(r), read.params), skus)]},
                                   ![r].cached = skus # Nil, ![r].read = @ + 1]
    BY <1>9 DEF ConvertRec
  <2> DEFINE given == [at |-> Here(r), rec |-> Enriched(Converted(NextRec(r), read.params), skus)]
             new == [region[r] EXCEPT !.out = @ \cup {given}, !.cached = skus # Nil, !.read = @ + 1]
  <2>2. given.at = <<r, k>>
    BY <1>4
  <2>3. region' = [region EXCEPT ![r] = new]
    BY <1>1, <2>1 DEF FanOutInv, RegionShape
  <2>4. UNCHANGED <<read, reply>> /\ skips' = skips /\ raws[k].active
    BY <1>4, <1>9 DEF ConvertRec, Untouched
  <2> HIDE DEF given
  <2>5. /\ new.state = "running" /\ new.read = k /\ new.out = region[r].out \cup {given}
        /\ DOMAIN new = {"state", "read", "out", "cached"}
    BY <1>1 DEF RegionShape
  <2> HIDE DEF new, k, raws
  <2>6. <<r, k>> \in PlacesOf(region[r].out \cup {given})
    BY <2>2 DEF PlacesOf
  <2>7. Accounted(r, raws, new, skips)
    BY <1>1, <1>2, <1>3, <1>5, <2>2, <2>4, <2>5, <2>6, AccountsForNext
  <2> QED BY <1>6, <2>3, <2>4, <2>5, <2>7
<1> QED BY <1>7, <1>8, <1>9

(* The turn of a region that starts or ends.                               *)
LEMMA TurnStep ==
    ASSUME AdviceInv, NEW r \in Regions, StartRegion(r) \/ FinishRegion(r) \/ RefuseRegion(r) \/ RegionFails(r)
    PROVE  AdviceInv'
<1>1. /\ FanOutInv /\ read.op = "advise" /\ Advising /\ RegionInv(r) /\ RegionShape(r)
      /\ UNCHANGED <<read, reply, skips>> /\ region[r].read \in Nat
  <2>1. Advising /\ UNCHANGED <<read, reply, skips>>
    BY DEF StartRegion, FinishRegion, RefuseRegion, RegionFails, Untouched, Reading
  <2>2. FanOutInv /\ read.op = "advise"
    BY <2>1 DEF AdviceInv, Advising
  <2>3. RegionInv(r) /\ RegionShape(r) /\ Len(read.regions[r]) \in Nat
    BY <2>2, RegionLengths DEF FanOutInv
  <2>4. region[r].read \in Nat
    BY <2>3 DEF RegionInv, Accounted
  <2> QED BY <2>1, <2>2, <2>3, <2>4
<1>2. ASSUME NEW s, region[r].state = "waiting" \/ s \in {"failed", "excluded"},
             s \in {"running", "failed", "excluded"}, NEW out, out = region[r].out \/ (out = {} /\ s = "failed"),
             region' = [region EXCEPT ![r] = [region[r] EXCEPT !.state = s, !.out = out]]
      PROVE  AdviceInv'
  <2> DEFINE new == [region[r] EXCEPT !.state = s, !.out = out]
  <2>1. region'[r] = new /\ new.state = s /\ new.read = region[r].read /\ new.out = out /\ DOMAIN new = DOMAIN region[r]
    BY <1>1, <1>2 DEF FanOutInv, RegionShape
  <2>2. region' = [region EXCEPT ![r] = new]
    BY <1>2
  <2> HIDE DEF new
  <2>3. Accounted(r, read.regions[r], region[r], skips)
    BY <1>1 DEF RegionInv
  <2>4. s = "running" => region[r].read = 0 /\ out = region[r].out
    BY <1>2, <2>3 DEF Accounted
  <2>5. Accounted(r, read.regions[r], new, skips)
    <3>1. /\ \A o \in out : o \in region[r].out
          /\ new.state = s /\ new.read = region[r].read /\ new.out = out /\ s \notin {"done", "waiting"}
      BY <1>2, <2>1
    <3>2. region[r].read = 0 => 1..region[r].read = {}
      BY <1>1
    <3>3. s = "running" => \A k \in 1..region[r].read : FALSE
      BY <2>4, <3>2
    <3> QED BY <2>3, <3>1, <3>3 DEF Accounted
  <2>6. DOMAIN new = {"state", "read", "out", "cached"} /\ new.read \in Nat /\ new.read >= region[r].read
    BY <1>1, <2>1 DEF RegionShape
  <2>7. Advising /\ UNCHANGED <<read, reply>> /\ skips' = skips
    BY <1>1
  <2> QED BY <2>2, <2>5, <2>6, <2>7, RegionStep
<1>3. CASE StartRegion(r)
  <2>1. PICK s \in {"running", "excluded"} : region' = [region EXCEPT ![r].state = s]
    BY <1>3 DEF StartRegion
  <2>2. region' = [region EXCEPT ![r] = [region[r] EXCEPT !.state = s, !.out = region[r].out]]
    BY <1>1, <2>1 DEF FanOutInv, RegionShape
  <2> QED BY <1>2, <1>3, <2>1, <2>2 DEF StartRegion
<1>4. CASE RefuseRegion(r) \/ RegionFails(r)
  <2>1. region' = [region EXCEPT ![r] = [region[r] EXCEPT !.state = "failed", !.out = {}]]
    BY <1>1, <1>4 DEF RefuseRegion, RegionFails, FanOutInv, RegionShape
  <2> QED BY <1>2, <2>1
<1>5. CASE FinishRegion(r)
  <2> DEFINE new == [region[r] EXCEPT !.state = "done"]
  <2>1. region' = [region EXCEPT ![r] = new] /\ region[r].state = "running" /\ ~HasNext(r)
    BY <1>5 DEF FinishRegion
  <2>2. /\ region'[r] = new /\ new.state = "done" /\ new.read = region[r].read /\ new.out = region[r].out
        /\ DOMAIN new = DOMAIN region[r]
    BY <1>1, <2>1 DEF FanOutInv, RegionShape
  <2> HIDE DEF new
  <2>3. region[r].read = Len(read.regions[r])
    BY <1>1, <2>1, RegionLengths DEF HasNext, RegionInv, Accounted
  <2>4. Accounted(r, read.regions[r], new, skips')
    BY <1>1, <2>1, <2>2, <2>3 DEF RegionInv, Accounted, IsActive, PlacesOf
  <2>5. DOMAIN new = {"state", "read", "out", "cached"} /\ new.read \in Nat /\ new.read >= region[r].read
    BY <1>1, <2>2 DEF RegionShape
  <2>6. Advising /\ UNCHANGED <<read, reply>> /\ skips' = skips
    BY <1>1
  <2> QED BY <2>1, <2>4, <2>5, <2>6, RegionStep
<1> QED BY <1>3, <1>4, <1>5

(* The end of the call.                                                    *)
LEMMA AnswerStep ==
    ASSUME AdviceInv, UNCHANGED <<read, region, skips>>,
           reply' = reply \/ read.op # "advise" \/ reply' = <<"failed">> \/ Attempted = {} \/ reply' = WithSkips(Merged)
    PROVE  AdviceInv'
<1>1. Regions' = Regions /\ Attempted' = Attempted /\ Merged' = Merged /\ WithSkips(Merged)' = WithSkips(Merged)
  BY DEF Regions, Attempted, Merged, WithSkips
<1>2. \A r \in Regions : (RegionShape(r) => RegionShape(r)') /\ (RegionInv(r) => RegionInv(r)')
  BY DEF RegionShape, RegionInv
<1>3. SkipsInv => SkipsInv'
  BY <1>1 DEF SkipsInv, IsActive
<1> QED BY <1>1, <1>2, <1>3 DEF AdviceInv, FanOutInv, ReplyInv

LEMMA NextAdvises == ASSUME AdviceInv, GcpReadNext PROVE AdviceInv'
<1>1. ASSUME NEW r \in DOMAIN region,
             StartRegion(r) \/ PassInactive(r) \/ RecordSkip(r) \/ RefuseRegion(r) \/ ConvertRec(r) \/ FinishRegion(r) \/ RegionFails(r)
      PROVE  AdviceInv'
  <2>1. read.op = "advise"
    BY <1>1 DEF StartRegion, PassInactive, RecordSkip, RefuseRegion, ConvertRec, FinishRegion, RegionFails, Reading, Advising
  <2>2. r \in Regions
    BY <2>1 DEF AdviceInv, FanOutInv
  <2> QED BY <1>1, <2>2, ReadStep, TurnStep DEF PassInactive, RecordSkip, ConvertRec
<1>2. CASE MergeRegions
  BY <1>2, AnswerStep DEF MergeRegions
<1>3. CASE NoRegions
  BY <1>3, AnswerStep DEF NoRegions, Attempted
<1>4. CASE GcpReadFails \/ ListCommitments \/ ValidTypes \/ OfferingDetails
  BY <1>4, AnswerStep DEF GcpReadFails, ListCommitments, ValidTypes, OfferingDetails, Answered
<1> QED BY <1>1, <1>2, <1>3, <1>4 DEF GcpReadNext

LEMMA AdviceInvHolds == AdviceSpec => []AdviceInv
<1>1. GcpReadInit => AdviceInv
  <2> SUFFICES ASSUME GcpReadInit, read.op = "advise" PROVE FanOutInv
    BY DEF GcpReadInit, AdviceInv
  <2>1. /\ read \in GcpReads /\ skips = {} /\ reply = Nil
        /\ region = [r \in Regions |-> [state |-> "waiting", read |-> 0, out |-> {}, cached |-> FALSE]]
    BY DEF GcpReadInit
  <2>2. \A r \in Regions : Len(read.regions[r]) \in Nat
    BY <2>1, GcpReadsAssumption DEF GcpReadsAssumption, Regions
  <2> QED BY <2>1, <2>2 DEF FanOutInv, RegionShape, RegionInv, Accounted, SkipsInv, ReplyInv, PlacesOf
<1>2. AdviceInv /\ [GcpReadNext]_gcpReadVars => AdviceInv'
  <2> SUFFICES ASSUME AdviceInv, [GcpReadNext]_gcpReadVars PROVE AdviceInv'
    OBVIOUS
  <2> QED BY NextAdvises, AnswerStep DEF gcpReadVars
<1> QED BY <1>1, <1>2, PTL DEF AdviceSpec

(* However the reads of the regions interleave, fail and share their log of*)
(* skips, a call that returns gives every active recommendation of a region*)
(* read to its end once, or names it as skipped, and nothing else          *)
(* (collectRegion, mergeRegionResults, withSkips).                         *)
THEOREM AdviceIsWhole == AdviceSpec => [](AdviceEnded => AllAccounted)
<1>1. AdviceInv => (AdviceEnded => AllAccounted)
  <2> SUFFICES ASSUME AdviceInv, AdviceEnded PROVE AllAccounted
    OBVIOUS
  <2>1. FanOutInv /\ read.op = "advise"
    BY DEF AdviceInv, AdviceEnded
  <2>2. AdviceGiven = Merged /\ AdviceSkipped = skips
    <3>1. reply = WithSkips(Merged)
      BY <2>1 DEF FanOutInv, ReplyInv, AdviceEnded
    <3> QED BY <3>1 DEF WithSkips, AdviceGiven, AdviceSkipped
  <2>3. ASSUME NEW o \in Merged
        PROVE  \E r \in Regions : \E k \in Nat :
                 o \in region[r].out /\ o.at = <<r, k>> /\ IsActive(r, k) /\ <<r, k>> \notin skips
    <3>1. PICK r \in Regions : o \in region[r].out
      BY DEF Merged
    <3>2. RegionInv(r)
      BY <2>1 DEF FanOutInv
    <3>3. PICK k \in 1..region[r].read : o.at = <<r, k>> /\ IsActive(r, k) /\ <<r, k>> \notin skips
      BY <3>1, <3>2 DEF RegionInv, Accounted, IsActive
    <3> QED BY <3>1, <3>3
  <2>4. \A o, p \in Merged : o.at = p.at => o = p
    <3> SUFFICES ASSUME NEW o \in Merged, NEW p \in Merged, o.at = p.at PROVE o = p
      OBVIOUS
    <3>1. PICK r \in Regions : o \in region[r].out /\ \E k \in Nat : o.at = <<r, k>>
      BY <2>3
    <3>2. PICK q \in Regions : p \in region[q].out /\ \E k \in Nat : p.at = <<q, k>>
      BY <2>3
    <3>3. r = q
      <4>1. PICK k \in Nat, j \in Nat : o.at = <<r, k>> /\ p.at = <<q, j>>
        BY <3>1, <3>2
      <4>2. <<r, k>> = <<q, j>>
        BY <4>1
      <4> QED BY <4>2
    <3>4. RegionInv(r)
      BY <2>1 DEF FanOutInv
    <3> QED BY <3>1, <3>2, <3>3, <3>4 DEF RegionInv, Accounted
  <2>5. PlacesOf(Merged) \cap skips = {}
    BY <2>3 DEF PlacesOf
  <2>6. ASSUME NEW r \in Attempted, region[r].state = "done", NEW n \in DOMAIN read.regions[r]
        PROVE  read.regions[r][n].active <=> <<r, n>> \in PlacesOf(Merged) \cup skips
    <3>1. r \in Regions /\ RegionInv(r) /\ n \in 1..region[r].read /\ IsActive(r, n) \in BOOLEAN
      <4>1. r \in Regions
        BY <2>6 DEF Attempted
      <4>2. n \in 1..region[r].read
        BY <2>1, <2>6, <4>1, RegionLengths DEF FanOutInv, RegionInv, Accounted
      <4> QED BY <2>1, <2>6, <4>1, <4>2, GcpReadsAssumption DEF GcpReadsAssumption, AdviceInv, FanOutInv, Regions, IsActive
    <3>2. IsActive(r, n) => <<r, n>> \in PlacesOf(Merged) \cup skips
      <4>1. IsActive(r, n) => <<r, n>> \in PlacesOf(region[r].out) \cup skips
        BY <2>6, <3>1 DEF RegionInv, Accounted, IsActive
      <4>2. PlacesOf(region[r].out) \subseteq PlacesOf(Merged)
        BY <3>1 DEF PlacesOf, Merged
      <4> QED BY <4>1, <4>2
    <3>3. ASSUME <<r, n>> \in PlacesOf(Merged) PROVE IsActive(r, n)
      <4>1. PICK o \in Merged : o.at = <<r, n>>
        BY <3>3 DEF PlacesOf
      <4>2. PICK q \in Regions : \E k \in Nat : o.at = <<q, k>> /\ IsActive(q, k)
        BY <2>3
      <4>3. PICK k \in Nat : o.at = <<q, k>> /\ IsActive(q, k)
        BY <4>2
      <4> QED BY <4>1, <4>3
    <3>4. <<r, n>> \in skips => IsActive(r, n)
      BY <2>1 DEF FanOutInv, SkipsInv
    <3> QED BY <3>1, <3>2, <3>3, <3>4 DEF IsActive
  <2> QED BY <2>2, <2>4, <2>5, <2>6 DEF AllAccounted
<1> QED BY <1>1, AdviceInvHolds, PTL

-----------------------------------------------------------------------------
(* AWS: one Savings Plan per token.                                        *)

CatalogueSpec == CatalogueInit /\ [][CatalogueNext]_catalogueVars

(* A purchase of Savings Plans that returned a plan.                       *)
Settled == answer # Nil /\ answer # Failed
BuysPlan == call.service = "savingsplans" /\ call.op = "buy"

(* The inductive invariant.  AWS may carry a request out and lose its      *)
(* answer, so plans may hold what no answer tells of; what CreateSavingsPlan*)
(* made carries the token of the call, and a second request with the token *)
(* finds it.                                                               *)
PlanInv ==
    /\ \A p \in plans : p.token = call.token
    /\ call.token # "" => \A p, q \in plans : p = q
    /\ (Settled /\ BuysPlan) => plans # {}

(* A step that buys no plan and ends no purchase of one.                   *)
Reads == UNCHANGED <<call, plans>> /\ (~BuysPlan \/ ~Settled')

LEMMA ListsRead ==
    ASSUME ListRds \/ ListCache \/ ListMemoryDB \/ ListSearch \/ ListRedshift \/ ListEC2 \/ ListPlans
           \/ TypesRds \/ TypesCache \/ TypesMemoryDB \/ TypesRedshift \/ TypesEC2 \/ ListTargets
    PROVE  Reads
BY DEF ListRds, ListCache, ListMemoryDB, ListSearch, ListRedshift, ListEC2, ListPlans, TypesRds, TypesCache,
       TypesMemoryDB, TypesRedshift, TypesEC2, ListTargets, ListTurn, NextPage, Is, Idle, Reads, BuysPlan

LEMMA LookupsRead ==
    ASSUME FindRds \/ FindCache \/ FindMemoryDB \/ FindSearch \/ FindRedshift \/ FindEC2
           \/ FindConvertible \/ TakeConvertible
    PROVE  Reads
BY DEF FindRds, FindCache, FindMemoryDB, FindSearch, FindRedshift, FindEC2, FindConvertible, TakeConvertible, 
       RdsScan, Choosing, FindTurn, Answer, Is, Idle, Reads, BuysPlan

LEMMA PlanLookupReads == ASSUME FindPlan PROVE Reads
BY DEF FindPlan, PlanScan, Is, Idle, Reads, Settled

LEMMA PurchasesRead ==
    ASSUME ApproveRds \/ ApproveSearch \/ ApproveRedshift \/ ApproveMemoryDB \/ ApproveEC2 \/ TakeCache
    PROVE  Reads
BY DEF ApproveRds, ApproveSearch, ApproveRedshift, ApproveMemoryDB, ApproveEC2, TakeCache, Approve, Answer, Chosen, Is, Idle,
       Reads, BuysPlan

LEMMA QuotesRead ==
    ASSUME QuoteRds \/ QuoteCache \/ QuoteMemoryDB \/ QuoteSearch \/ QuoteRedshift \/ QuoteEC2 \/ QuotePlan
    PROVE  Reads
BY DEF QuoteRds, QuoteCache, QuoteMemoryDB, QuoteSearch, QuoteRedshift, QuoteEC2, QuotePlan, Answer, Chosen, Is, Idle,
       Reads, BuysPlan, Quote

LEMMA OthersRead == ASSUME AnswerFailed \/ RepeatPlan PROVE Reads
BY DEF AnswerFailed, RepeatPlan, Idle, Reads, Settled

LEMMA ReadsKeep == ASSUME PlanInv, Reads PROVE PlanInv'
BY DEF PlanInv, Reads, BuysPlan

(* One token in the set, one plan.                                         *)
LEMMA CreatedPlan ==
    ASSUME PlanInv, NEW o
    PROVE  /\ Created(o) # {} /\ \A p \in Created(o) : p.token = call.token
           /\ call.token # "" => \A p, q \in Created(o) : p = q
<1> DEFINE new == [token |-> call.token, offering |-> o, nth |-> planCalls]
<1>1. new.token = call.token
  OBVIOUS
<1>2. Created(o) = IF \E p \in plans : p.token = call.token /\ call.token # "" THEN plans ELSE plans \cup {new}
  BY DEF Created, ClientToken
<1> HIDE DEF new
<1>3. CASE \E p \in plans : p.token = call.token /\ call.token # ""
  BY <1>2, <1>3 DEF PlanInv
<1>4. CASE ~ \E p \in plans : p.token = call.token /\ call.token # ""
  <2>1. Created(o) = plans \cup {new}
    BY <1>2, <1>4
  <2>2. call.token # "" => plans = {}
    BY <1>4 DEF PlanInv
  <2> QED BY <1>1, <2>1, <2>2 DEF PlanInv
<1> QED BY <1>3, <1>4

LEMMA BuyPlanStep == ASSUME PlanInv, BuyPlan PROVE PlanInv'
<1>1. UNCHANGED call
  BY DEF BuyPlan
<1>2. CASE answer' = Failed /\ UNCHANGED plans
  BY <1>1, <1>2 DEF PlanInv, Settled
<1>3. CASE plans' = Created(found[1])
  BY <1>1, <1>3, CreatedPlan DEF PlanInv
<1> QED BY <1>2, <1>3 DEF BuyPlan

LEMMA PlanInvHolds == CatalogueSpec => []PlanInv
<1>1. CatalogueInit => PlanInv
  BY DEF CatalogueInit, PlanInv, Settled
<1>2. PlanInv /\ [CatalogueNext]_catalogueVars => PlanInv'
  <2> SUFFICES ASSUME PlanInv, [CatalogueNext]_catalogueVars PROVE PlanInv'
    OBVIOUS
  <2>1. CASE UNCHANGED catalogueVars
    BY <2>1 DEF catalogueVars, PlanInv, Settled, BuysPlan
  <2>2. CASE CatalogueNext
    BY <2>2, ListsRead, LookupsRead, PlanLookupReads, PurchasesRead, QuotesRead, OthersRead, ReadsKeep, BuyPlanStep
       DEF CatalogueNext
  <2> QED BY <2>1, <2>2
<1> QED BY <1>1, <1>2, PTL DEF CatalogueSpec

(* However often the purchase of a Savings Plan is repeated and whichever of*)
(* its answers are lost, a call with an idempotency token owns at most one *)
(* plan, and a call that reports success owns one (PurchaseCommitment of the*)
(* savingsplans client, which sends the token as ClientToken).             *)
THEOREM TokenBuysOnePlan == CatalogueSpec => []OnePlanPerToken
<1>1. ASSUME PlanInv PROVE OnePlanPerToken
  <2>1. ASSUME call.token # "" PROVE Cardinality(plans) <= 1
    <3>1. CASE plans = {}
      BY <3>1, FS_EmptySet
    <3>2. CASE plans # {}
      <4>1. PICK p : p \in plans
        BY <3>2
      <4>2. plans = {p}
        BY <1>1, <2>1, <4>1 DEF PlanInv
      <4>3. Cardinality({p}) = 1
        BY FS_Singleton
      <4> QED BY <4>2, <4>3
    <3> QED BY <3>1, <3>2
  <2>2. (Settled /\ BuysPlan) => plans # {}
    BY <1>1 DEF PlanInv
  <2> QED BY <2>1, <2>2 DEF OnePlanPerToken, Settled, BuysPlan
<1> QED BY <1>1, PlanInvHolds, PTL

-----------------------------------------------------------------------------
(* AWS: a listing that is returned is whole.                               *)

Listing == call.op \in {"list", "types", "targets"}

(* What the first n pages hold, and that `kept` is all a listing is to keep*)
(* of some items.                                                          *)
SoFar(n) == UNION {Range(call.pages[k]) : k \in 1..n}
Whole(items, kept) ==
    /\ call.op = "list" => IdsOf(kept) = IdsOf({i \in items : StillHeld(i)})
    /\ call.op = "types" => kept = Types(items)
    /\ call.op = "targets" => kept = TargetOfferings(items)

(* What is kept is whole for the pages read, and nothing is returned before*)
(* the last of them.                                                       *)
ListingInv ==
    /\ page <= Len(call.pages)
    /\ Whole(SoFar(page), listed)
    /\ Settled => answer = Ok(listed) /\ page = Len(call.pages)
ReadInv == call \in CatalogueCalls /\ page \in Nat /\ (Listing => ListingInv)

LEMMA WholeAdds ==
    ASSUME NEW A, NEW B, NEW X, NEW Y, Whole(A, X), Whole(B, Y) PROVE Whole(A \cup B, X \cup Y)
<1>1. CASE call.op = "list"
  <2>1. IdsOf(X \cup Y) = IdsOf(X) \cup IdsOf(Y)
    BY DEF IdsOf
  <2>2. {i \in A \cup B : StillHeld(i)} = {i \in A : StillHeld(i)} \cup {i \in B : StillHeld(i)}
    OBVIOUS
  <2>3. IdsOf({i \in A \cup B : StillHeld(i)}) = IdsOf({i \in A : StillHeld(i)}) \cup IdsOf({i \in B : StillHeld(i)})
    BY <2>2 DEF IdsOf
  <2> QED BY <1>1, <2>1, <2>3 DEF Whole
<1>2. CASE call.op = "types"
  BY <1>2 DEF Whole, Types
<1>3. CASE call.op = "targets"
  BY <1>3 DEF Whole, TargetOfferings
<1> QED BY <1>1, <1>2, <1>3 DEF Whole

LEMMA WholeKept ==
    ASSUME call' = call, NEW A, NEW X, Whole(A, X) PROVE Whole(A, X)'
BY DEF Whole, IdsOf, StillHeld, Types, TargetOfferings, OfferingMatches, TargetWant, rec

(* The turn of a listing that keeps what it should of a page.              *)
LEMMA TurnKeeps ==
    ASSUME ReadInv, Listing, NEW kept, NextPage(kept), Whole(Items, kept)
    PROVE  ReadInv'
<1>1. /\ call' = call /\ page' = page + 1 /\ listed' = listed \cup kept /\ page \in Nat /\ page < Len(call.pages)
      /\ Len(call.pages) \in Nat /\ call \in CatalogueCalls
  BY CatalogueAssumption DEF NextPage, ReadInv, CatalogueAssumption
<1>2. SoFar(page + 1) = SoFar(page) \cup Items
  <2>1. 1..(page + 1) = 1..page \cup {page + 1}
    BY <1>1
  <2> QED BY <2>1 DEF SoFar, Items, Page
<1>3. Whole(SoFar(page + 1), listed')
  BY <1>1, <1>2, WholeAdds DEF ReadInv, ListingInv
<1>4. Whole(SoFar(page), listed)'
  BY <1>1, <1>3, WholeKept DEF SoFar
<1>5. Settled' => answer' = Ok(listed') /\ page' = Len(call'.pages)
  BY <1>1 DEF NextPage, Settled, LastPage
<1>6. page' <= Len(call'.pages)
  BY <1>1
<1> QED BY <1>1, <1>4, <1>5, <1>6 DEF ReadInv, ListingInv

(* What the states tell: each client keeps the reservations still held.    *)
LEMMA ItemsReported ==
    ASSUME ReadInv, page < Len(call.pages), NEW i \in Items PROVE Reported(call.service, i.state)
<1>1. page + 1 \in DOMAIN call.pages /\ call \in CatalogueCalls
  BY CatalogueAssumption DEF ReadInv, CatalogueAssumption
<1> QED BY <1>1, CatalogueAssumption DEF CatalogueAssumption, Items, Page

LEMMA ReservationsHeld ==
    ASSUME ReadInv, page < Len(call.pages),
           call.service \in {"rds", "elasticache", "memorydb", "opensearch", "redshift"}
    PROVE  Owned(Items) = {i \in Items : StillHeld(i)}
<1>1. \A i \in Items : Reported(call.service, i.state)
  BY ItemsReported
<1>2. \A i \in Items : IsOwned(i.state) <=> StillHeld(i)
  BY <1>1 DEF Reported, IsOwned, StillHeld, Ended
<1> QED BY <1>2 DEF Owned

LEMMA LiveHeld ==
    ASSUME ReadInv, page < Len(call.pages)
    PROVE  /\ call.service = "ec2" => LiveRIs(Items) = {i \in Items : StillHeld(i)}
           /\ call.service = "savingsplans" => ToCommitment(LivePlans(Items)) = {i \in Items : StillHeld(i)}
<1>1. \A i \in Items : Reported(call.service, i.state)
  BY ItemsReported
<1>2. CASE call.service = "ec2"
  <2>1. \A i \in Items : i.state \in {"active", "payment-pending", "queued"} <=> StillHeld(i)
    BY <1>1, <1>2 DEF Reported, StillHeld, Ended, EC2States
  <2> QED BY <1>2, <2>1 DEF LiveRIs
<1>3. CASE call.service = "savingsplans"
  <2>1. \A i \in Items :
          (/\ i.state \in {"active", "payment-pending", "pending-return", "queued"}
           /\ i.id # Nil /\ (call.plan = "" \/ i.type = call.plan)) <=> StillHeld(i)
    BY <1>1, <1>3 DEF Reported, StillHeld, Ended, EC2States, PlanStates
  <2> QED BY <2>1, <1>3 DEF LivePlans, ToCommitment
<1> QED BY <1>2, <1>3

LEMMA ListsKeep ==
    ASSUME ReadInv,
           ListRds \/ ListCache \/ ListMemoryDB \/ ListSearch \/ ListRedshift \/ ListEC2 \/ ListPlans
    PROVE  ReadInv'
<1> USE DEF Is, ListTurn
<1>1. call.op = "list" /\ page < Len(call.pages)
  BY DEF ListRds, ListCache, ListMemoryDB, ListSearch, ListRedshift, ListEC2, ListPlans, NextPage
<1> DEFINE stillHeld == {i \in Items : StillHeld(i)}
<1>2. ASSUME NEW kept, IdsOf(kept) = IdsOf(stillHeld), NextPage(kept) PROVE ReadInv'
  BY <1>1, <1>2, TurnKeeps DEF Whole, Listing
<1>3. \A i : RdsCommitment(i).id = i.id /\ CacheCommitment(i).id = i.id /\ MemoryDBCommitment(i).id = i.id
             /\ SearchCommitment(i).id = i.id /\ NodeCommitment(i).id = i.id
  BY DEF RdsCommitment, CacheCommitment, MemoryDBCommitment, SearchCommitment, NodeCommitment, Commitment
<1>4. ASSUME call.service \in {"rds", "elasticache", "memorydb", "opensearch", "redshift"} PROVE Owned(Items) = stillHeld
  BY <1>1, <1>4, ReservationsHeld
<1>5. CASE ListRds
  <2>1. IdsOf({RdsCommitment(i) : i \in stillHeld}) = IdsOf(stillHeld)
    BY <1>3 DEF IdsOf
  <2> QED BY <1>2, <1>4, <1>5, <2>1 DEF ListRds
<1>6. CASE ListCache
  <2>1. IdsOf({CacheCommitment(i) : i \in stillHeld}) = IdsOf(stillHeld)
    BY <1>3 DEF IdsOf
  <2> QED BY <1>2, <1>4, <1>6, <2>1 DEF ListCache
<1>7. CASE ListMemoryDB
  <2>1. IdsOf({MemoryDBCommitment(i) : i \in stillHeld}) = IdsOf(stillHeld)
    BY <1>3 DEF IdsOf
  <2> QED BY <1>2, <1>4, <1>7, <2>1 DEF ListMemoryDB
<1>8. CASE ListRedshift
  <2>1. IdsOf({NodeCommitment(i) : i \in stillHeld}) = IdsOf(stillHeld)
    BY <1>3 DEF IdsOf
  <2> QED BY <1>2, <1>4, <1>8, <2>1 DEF ListRedshift
<1>9. IdsOf({SearchCommitment(i) : i \in stillHeld}) = IdsOf(stillHeld)
  BY <1>3 DEF IdsOf
<1>10. CASE ListSearch
  BY <1>2, <1>4, <1>9, <1>10 DEF ListSearch
<1>11. CASE ListEC2
  BY <1>1, <1>2, <1>9, <1>11, LiveHeld DEF ListEC2
<1>12. CASE ListPlans
  BY <1>1, <1>2, <1>9, <1>12, LiveHeld DEF ListPlans
<1> QED BY <1>5, <1>6, <1>7, <1>8, <1>10, <1>11, <1>12

LEMMA OtherListsKeep ==
    ASSUME ReadInv,
           TypesRds \/ TypesCache \/ TypesMemoryDB \/ TypesRedshift \/ TypesEC2 \/ ListTargets
    PROVE  ReadInv'
<1>1. CASE TypesRds \/ TypesCache \/ TypesMemoryDB \/ TypesRedshift \/ TypesEC2
  <2>1. call.op = "types" /\ NextPage(Types(Items))
    BY <1>1 DEF TypesRds, TypesCache, TypesMemoryDB, TypesRedshift, TypesEC2, Is, ListTurn
  <2>2. Whole(Items, Types(Items))
    BY <2>1 DEF Whole
  <2> QED BY <2>1, <2>2, TurnKeeps DEF Listing
<1>2. CASE ListTargets
  <2> DEFINE let == {o \in Items : LetThrough(o, TargetWant)}
  <2>1. call.op = "targets" /\ NextPage(TargetOfferings(let))
    BY <1>2 DEF ListTargets, Is, ListTurn
  <2>2. \A o : OfferingMatches(o, TargetWant) => LetThrough(o, TargetWant)
    <3>1. "type" \notin DOMAIN TargetWant
      BY DEF TargetWant
    <3> QED BY <3>1 DEF OfferingMatches, LetThrough, Fits
  <2>3. TargetOfferings(let) = TargetOfferings(Items)
    BY <2>2 DEF TargetOfferings
  <2>4. Whole(Items, TargetOfferings(Items))
    BY <2>1 DEF Whole
  <2> QED BY <2>1, <2>3, <2>4, TurnKeeps DEF Listing
<1> QED BY <1>1, <1>2

(* A step of another call, or one that fails.                              *)
LEMMA OthersKeep ==
    ASSUME ReadInv, call' = call, page' \in Nat,
           ~Listing \/ (answer' = Failed /\ UNCHANGED <<page, listed>>)
    PROVE  ReadInv'
<1>1. CASE ~Listing
  BY <1>1 DEF ReadInv, Listing
<1>2. CASE Listing
  <2>1. Whole(SoFar(page), listed)'
    BY <1>2, WholeKept DEF ReadInv, ListingInv, SoFar
  <2> QED BY <1>2, <2>1 DEF ReadInv, ListingInv, Settled, Listing
<1> QED BY <1>1, <1>2

LEMMA NextReads == ASSUME ReadInv, CatalogueNext PROVE ReadInv'
<1> DEFINE Lookups == FindRds \/ FindCache \/ FindMemoryDB \/ FindSearch \/ FindRedshift \/ FindEC2 \/ FindConvertible
           Approvals == ApproveRds \/ ApproveSearch \/ ApproveRedshift \/ ApproveMemoryDB \/ ApproveEC2
           Answers == TakeCache \/ TakeConvertible \/ QuoteRds \/ QuoteCache \/ QuoteMemoryDB \/ QuoteSearch
                        \/ QuoteRedshift \/ QuoteEC2 \/ QuotePlan
<1>1. CASE AnswerFailed
  BY <1>1, OthersKeep DEF AnswerFailed, Idle, ReadInv
<1>2. CASE Lookups
  <2>1. call' = call /\ ~Listing /\ page' = page + 1
    BY <1>2 DEF FindRds, FindCache, FindMemoryDB, FindSearch, FindRedshift, FindEC2, FindConvertible,
         RdsScan, Choosing, FindTurn, Is, Idle, Listing
  <2> QED BY <2>1, OthersKeep DEF ReadInv
<1>3. CASE FindPlan
  <2>1. call' = call /\ ~Listing /\ (page' = page + 1 \/ page' = Len(call.pages))
    BY <1>3 DEF FindPlan, PlanScan, Is, Idle, Listing
  <2>2. Len(call.pages) \in Nat
    BY CatalogueAssumption DEF ReadInv, CatalogueAssumption
  <2> QED BY <2>1, <2>2, OthersKeep DEF ReadInv
<1>4. CASE Approvals
  <2>1. call' = call /\ ~Listing /\ page' = page
    BY <1>4 DEF ApproveRds, ApproveSearch, ApproveRedshift, ApproveMemoryDB, ApproveEC2, Approve, Chosen, Is, Idle, Listing
  <2> QED BY <2>1, OthersKeep DEF ReadInv
<1>5. CASE Answers
  <2>1. call' = call /\ ~Listing /\ page' = page
    BY <1>5 DEF TakeCache, TakeConvertible, QuoteRds, QuoteCache, QuoteMemoryDB, QuoteSearch, QuoteRedshift, QuoteEC2,
         QuotePlan, Quote, Answer, Chosen, Is, Idle, Listing
  <2> QED BY <2>1, OthersKeep DEF ReadInv
<1>6. CASE BuyPlan \/ RepeatPlan
  <2>1. call' = call /\ ~Listing /\ page' \in {page, 0}
    BY <1>6 DEF BuyPlan, RepeatPlan, Chosen, Is, Listing
  <2> QED BY <2>1, OthersKeep DEF ReadInv
<1> QED BY <1>1, <1>2, <1>3, <1>4, <1>5, <1>6, ListsKeep, OtherListsKeep DEF CatalogueNext

LEMMA ReadInvHolds == CatalogueSpec => []ReadInv
<1>1. CatalogueInit => ReadInv
  <2> SUFFICES ASSUME CatalogueInit PROVE ReadInv
    OBVIOUS
  <2>1. page = 0 /\ listed = {} /\ call \in CatalogueCalls /\ answer = Nil
    BY DEF CatalogueInit
  <2>2. SoFar(page) = {}
    BY <2>1 DEF SoFar
  <2>3. Whole({}, {})
    BY DEF Whole, IdsOf, Types, TargetOfferings
  <2>4. Len(call.pages) \in Nat
    BY <2>1, CatalogueAssumption DEF CatalogueAssumption
  <2> QED BY <2>1, <2>2, <2>3, <2>4 DEF ReadInv, ListingInv, Settled
<1>2. ReadInv /\ [CatalogueNext]_catalogueVars => ReadInv'
  <2> SUFFICES ASSUME ReadInv, [CatalogueNext]_catalogueVars PROVE ReadInv'
    OBVIOUS
  <2>1. CASE UNCHANGED catalogueVars
    <3>1. call' = call /\ page' = page /\ listed' = listed /\ answer' = answer
      BY <2>1 DEF catalogueVars
    <3>2. Listing => Whole(SoFar(page), listed)'
      BY <3>1, WholeKept DEF ReadInv, ListingInv, SoFar
    <3> QED BY <3>1, <3>2 DEF ReadInv, ListingInv, Settled, Listing
  <2> QED BY <2>1, NextReads
<1> QED BY <1>1, <1>2, PTL DEF CatalogueSpec

(* However many pages AWS splits a listing into and wherever it fails or   *)
(* meets the cap, a listing that a client returns has every reservation    *)
(* the account still holds, every type or every target offering there is   *)
(* (GetExistingCommitments, GetValidResourceTypes, ListTargetOfferings).   *)
THEOREM ListingsAreWhole == CatalogueSpec => []ReadsAreWhole
<1>1. ReadInv => ReadsAreWhole
  <2> SUFFICES ASSUME ReadInv, Settled, Listing PROVE ReadsAreWhole
    BY DEF ReadsAreWhole, Settled, Listing
  <2>1. SoFar(page) = Everything
    BY CatalogueAssumption DEF ReadInv, ListingInv, SoFar, Everything, CatalogueAssumption
  <2>2. answer[2] = listed
    BY DEF ReadInv, ListingInv, Ok
  <2> QED BY <2>1, <2>2 DEF ReadInv, ListingInv, Whole, ReadsAreWhole
<1> QED BY <1>1, ReadInvHolds, PTL

-----------------------------------------------------------------------------
(* AWS: what is bought is what was approved.                               *)

Looking == Offers(call) /\ call.service # "savingsplans"

(* What a lookup found on the pages it read: an offering that suits, and   *)
(* for RDS the only one of its shape on them.                              *)
FoundOn(n) ==
    /\ found = <<>> \/ \E o \in Everything : found = <<o>> /\ Suits(o)
    /\ call.service = "rds" => \A y \in OfShape(SoFar(n)) : found # <<>> /\ y.id = found[1].id
    /\ (call.service = "rds" /\ found # <<>>) => found[1] \in OfShape(Everything)

ApprovalInv ==
    /\ Looking => FoundOn(page) /\ ((answer = Nil /\ found = <<>>) => page < Len(call.pages))
    /\ BoughtAsApproved

(* The first of some positions.                                            *)
LEMMA FirstIs == ASSUME NEW S \in SUBSET Nat, S # {} PROVE Min(S) \in S /\ \A k \in S : Min(S) <= k
<1>1. PICK m \in S : \A k \in S : ~ (<<k, m>> \in OpToRel(<, Nat))
  BY WFMin, NatLessThanWellFounded
<1>2. \A k \in S : k < m => <<k, m>> \in OpToRel(<, Nat)
  BY DEF OpToRel
<1>3. \A k \in S : ~ (k < m)
  BY <1>1, <1>2
<1>4. \A k \in S : m <= k
  BY <1>3
<1> QED BY <1>4 DEF Min

(* Kinds of values.                                                        *)
LEMMA CallFacts ==
    ASSUME ReadInv, Offers(call)
    PROVE  /\ Len(call.pages) \in Nat /\ DOMAIN call.pages = 1..Len(call.pages)
           /\ \A n \in DOMAIN call.pages :
                DOMAIN call.pages[n] \subseteq Nat /\ \A k \in DOMAIN call.pages[n] : call.pages[n][k] \in Everything
           /\ \A o \in Everything : Sellable(o) /\ (call.service = "redshift" => PaidOneWay(o))
           /\ rec.count \in Nat /\ (rec.approved # Nil => rec.approved \in Int) /\ rec.hourly \in Int /\ rec.hourly % 2 = 0
           /\ call.service = "memorydb" => call.honoured
<1>1. call \in {d \in CatalogueCalls : Offers(d)}
  BY DEF ReadInv
<1>2. Len(call.pages) \in Nat /\ DOMAIN call.pages = 1..Len(call.pages)
  BY <1>1, CatalogueAssumption DEF CatalogueAssumption
<1>3. ASSUME NEW n \in DOMAIN call.pages
      PROVE  DOMAIN call.pages[n] \subseteq Nat /\ \A k \in DOMAIN call.pages[n] : call.pages[n][k] \in Everything
  <2>1. Len(call.pages[n]) \in Nat /\ DOMAIN call.pages[n] = 1..Len(call.pages[n])
    BY <1>1, <1>3, OfferAssumption DEF OfferAssumption
  <2> QED BY <2>1 DEF Everything, Range
<1>4. ASSUME NEW o \in Everything PROVE Sellable(o) /\ (call.service = "redshift" => PaidOneWay(o))
  <2>1. PICK n \in DOMAIN call.pages : o \in Range(call.pages[n])
    BY <1>4 DEF Everything
  <2> QED BY <1>1, <2>1, OfferAssumption DEF OfferAssumption
<1>5. /\ rec.count \in Nat /\ (rec.approved # Nil => rec.approved \in Int) /\ rec.hourly \in Int /\ rec.hourly % 2 = 0
      /\ call.service = "memorydb" => call.honoured
  BY <1>1, OfferAssumption DEF OfferAssumption, rec
<1> QED BY <1>2, <1>3, <1>4, <1>5

(* What suits the call suits it after a step.                              *)
LEMMA CallKept ==
    ASSUME call' = call, NEW o PROVE Suits(o) => Suits(o)'
<1>1. rec' = rec
  BY DEF rec
<1>2. RightKind(o) <=> RightKind(o)'
  BY <1>1 DEF RightKind
<1>3. RightTerm(o) <=> RightTerm(o)'
  BY <1>1 DEF RightTerm
<1> QED BY <1>1, <1>2, <1>3 DEF Suits

LEMMA FoundKept ==
    ASSUME ApprovalInv, Looking, UNCHANGED <<call, page, found>>, found # <<>> \/ answer' # Nil \/ answer = Nil
    PROVE  (FoundOn(page) /\ ((answer = Nil /\ found = <<>>) => page < Len(call.pages)))'
<1>1. \A o : Suits(o) => Suits(o)'
  BY CallKept
<1>2. OfShape(SoFar(page))' = OfShape(SoFar(page)) /\ OfShape(Everything)' = OfShape(Everything) /\ Everything' = Everything
  BY DEF OfShape, SoFar, Everything, Fits, RdsQuery, rec
<1> QED BY <1>1, <1>2 DEF ApprovalInv, FoundOn

(* What a turn of a lookup leaves, for a page whose hits all suit.         *)
LEMMA TurnFinds ==
    ASSUME ReadInv, Looking, call.service # "rds", page < Len(call.pages),
           NEW hits \in SUBSET (DOMAIN Page), hits # {} => Suits(FirstOf(hits)),
           FindTurn(OfferingPages, hits) \/ FindTurn(TargetPages, hits)
    PROVE  ApprovalInv'
<1>1. page + 1 \in DOMAIN call.pages
  BY CallFacts DEF ReadInv, Looking
<1>2. hits # {} => FirstOf(hits) \in Everything
  BY <1>1, CallFacts, FirstIs DEF FirstOf, Page, Looking
<1> DEFINE first == FirstOf(hits)
<1>0. /\ call' = call /\ page' = page + 1 /\ found' = IF hits # {} THEN <<first>> ELSE <<>>
      /\ answer' = IF hits = {} /\ LastPage THEN Failed ELSE Nil
  BY DEF FindTurn, Idle
<1> HIDE DEF first
<1>3. found' = <<>> \/ \E o \in Everything : found' = <<o>> /\ Suits(o)
  BY <1>0, <1>2 DEF first
<1>4. \A o : Suits(o) => Suits(o)'
  BY <1>0, CallKept
<1>5. Everything' = Everything
  BY <1>0 DEF Everything
<1>6. FoundOn(page)'
  BY <1>0, <1>3, <1>4, <1>5 DEF FoundOn
<1>7. BoughtAsApproved'
  BY <1>0 DEF BoughtAsApproved
<1>8. Len(call.pages) \in Nat /\ page \in Nat
  BY CallFacts DEF ReadInv, Looking
<1>9. (answer' = Nil /\ found' = <<>>) => page' < Len(call'.pages)
  <2>1. found' = <<>> => hits = {}
    BY <1>0
  <2>2. answer' = Nil /\ Nil # Failed => ~(hits = {} /\ LastPage)
    BY <1>0
  <2> QED BY <1>0, <1>8, <2>1, <2>2, CatalogueAssumption DEF LastPage, CatalogueAssumption
<1> QED BY <1>6, <1>7, <1>9 DEF ApprovalInv

(* The page that is read next.                                             *)
LEMMA NextPageIs ==
    ASSUME ReadInv, ApprovalInv, Looking, answer = Nil, found = <<>>
    PROVE  /\ page < Len(call.pages) /\ DOMAIN Page \subseteq Nat
           /\ \A n \in DOMAIN Page : Page[n] \in Everything /\ Page[n].days \in {365, 1095}
<1>1. page < Len(call.pages)
  BY DEF ApprovalInv
<1>2. page + 1 \in DOMAIN call.pages
  BY <1>1, CallFacts DEF ReadInv, Looking
<1>3. DOMAIN Page \subseteq Nat /\ \A n \in DOMAIN Page : Page[n] \in Everything
  BY <1>2, CallFacts DEF Page, Looking
<1> QED BY <1>1, <1>3, CallFacts DEF Looking, Sellable

LEMMA FirstOnPage ==
    ASSUME DOMAIN Page \subseteq Nat, NEW hits \in SUBSET (DOMAIN Page), hits # {}
    PROVE  \E n \in hits : FirstOf(hits) = Page[n]
BY FirstIs DEF FirstOf

(* A term that is known is read alike everywhere.                          *)
LEMMA KnownTerms == KnownTerm(rec.term) => MemoryDBTerm(rec.term) = rec.term
BY DEF KnownTerm, MemoryDBTerm

LEMMA CacheFinds == ASSUME ReadInv, ApprovalInv, FindCache PROVE ApprovalInv'
<1> DEFINE hits == Returned(CacheQuery)
           o == FirstOf(hits)
<1>1. Looking /\ answer = Nil /\ found = <<>> /\ call.service = "elasticache" /\ FindTurn(OfferingPages, hits)
  BY DEF FindCache, Choosing, Looking, Offers
<1>2. hits \in SUBSET (DOMAIN Page)
  BY DEF Returned
<1>3. ASSUME hits # {} PROVE Suits(o)
  <2>1. Fits(o, CacheQuery) /\ KnownPayment(rec.payment) /\ KnownTerm(rec.term)
    BY <1>3 DEF FindCache, CacheMismatch, CacheRefused
  <2>2. o.type = rec.type /\ o.days = TermDays(rec.term) /\ o.kind = OfferingType[rec.payment]
    BY <2>1 DEF Fits, CacheQuery
  <2>3. call.op # "exchange"
    BY DEF FindCache, Choosing
  <2> QED BY <1>1, <2>1, <2>2, <2>3, KnownTerms DEF Suits, RightKind, RightTerm
<1> QED BY <1>1, <1>2, <1>3, NextPageIs, TurnFinds

LEMMA MemoryDBFinds == ASSUME ReadInv, ApprovalInv, FindMemoryDB PROVE ApprovalInv'
<1> DEFINE hits == Returned(MemoryDBQuery)
           o == FirstOf(hits)
<1>1. Looking /\ answer = Nil /\ found = <<>> /\ call.service = "memorydb" /\ FindTurn(OfferingPages, hits)
  BY DEF FindMemoryDB, Choosing, Looking, Offers
<1>2. hits \in SUBSET (DOMAIN Page)
  BY DEF Returned
<1>3. ASSUME hits # {} PROVE Suits(o)
  <2>1. Fits(o, MemoryDBQuery)
    <3>1. Min(hits) \in hits
      BY <1>1, <1>2, <1>3, FirstIs, NextPageIs
    <3>2. call.honoured
      BY <1>1, CallFacts DEF Looking
    <3> QED BY <3>1, <3>2 DEF Returned, LetThrough, FirstOf
  <2>2. KnownPayment(rec.payment) /\ call.op # "exchange"
    BY DEF FindMemoryDB, Choosing, MemoryDBRefused
  <2>3. o.type = rec.type /\ o.days = TermDays(MemoryDBTerm(rec.term)) /\ o.kind = OfferingType[rec.payment]
    BY <2>1 DEF Fits, MemoryDBQuery
  <2> QED BY <1>1, <2>2, <2>3 DEF Suits, RightKind, RightTerm
<1> QED BY <1>1, <1>2, <1>3, NextPageIs, TurnFinds

LEMMA SearchFinds == ASSUME ReadInv, ApprovalInv, FindSearch PROVE ApprovalInv'
<1> DEFINE hits == {n \in DOMAIN Page : SearchFits(Page[n])}
           o == FirstOf(hits)
<1>1. Looking /\ answer = Nil /\ found = <<>> /\ call.service = "opensearch" /\ FindTurn(OfferingPages, hits)
  BY DEF FindSearch, Choosing, Looking, Offers
<1>2. hits \in SUBSET (DOMAIN Page)
  OBVIOUS
<1> HIDE DEF hits
<1>3. ASSUME hits # {} PROVE Suits(o)
  <2>1. SearchFits(o) /\ o.days \in {365, 1095}
    <3>1. PICK n \in hits : o = Page[n]
      BY <1>1, <1>2, <1>3, FirstOnPage, NextPageIs
    <3> QED BY <1>1, <1>2, <3>1, NextPageIs DEF hits
  <2> HIDE DEF o
  <2>2. KnownPayment(rec.payment) /\ KnownTerm(rec.term) /\ call.op # "exchange"
    BY DEF FindSearch, Choosing
  <2>3. o.days = TermDays(rec.term)
    <3>1. o.days \div 30 \in (TermMonths(rec.term) - 1)..(TermMonths(rec.term) + 1)
      BY <2>1 DEF SearchFits
    <3>2. 365 \div 30 = 12 /\ 1095 \div 30 = 36
      OBVIOUS
    <3> QED BY <2>1, <3>1, <3>2 DEF TermDays, TermMonths
  <2> QED BY <1>1, <2>1, <2>2, <2>3, KnownTerms DEF Suits, RightKind, RightTerm, SearchFits
<1> QED BY <1>1, <1>2, <1>3, NextPageIs, TurnFinds

LEMMA RedshiftFinds == ASSUME ReadInv, ApprovalInv, FindRedshift PROVE ApprovalInv'
<1> DEFINE o == FirstOf(RedshiftScan)
<1>1. Looking /\ answer = Nil /\ found = <<>> /\ call.service = "redshift" /\ FindTurn(OfferingPages, RedshiftScan)
  BY DEF FindRedshift, Choosing, Looking, Offers
<1>2. RedshiftScan \in SUBSET (DOMAIN Page)
  BY DEF RedshiftScan
<1>3. ASSUME RedshiftScan # {} PROVE Suits(o)
  <2>1. (UnexpectedType(o) \/ RedshiftFits(o)) /\ o.days \in {365, 1095}
    <3>1. PICK n \in RedshiftScan : o = Page[n]
      BY <1>1, <1>2, <1>3, FirstOnPage, NextPageIs
    <3> QED BY <1>1, <1>2, <3>1, NextPageIs DEF RedshiftScan
  <2>2. RedshiftFits(o) /\ KnownTerm(rec.term) /\ call.op # "exchange"
    BY <1>3, <2>1 DEF FindRedshift, Choosing
  <2>3. o.days = TermDays(rec.term)
    BY <2>1, <2>2 DEF RedshiftFits, RedshiftSized, TermDays, TermMonths
  <2> QED BY <1>1, <2>2, <2>3, KnownTerms DEF Suits, RightKind, RightTerm, RedshiftFits, RedshiftSized
<1> QED BY <1>1, <1>2, <1>3, NextPageIs, TurnFinds

LEMMA EC2Finds == ASSUME ReadInv, ApprovalInv, FindEC2 PROVE ApprovalInv'
<1> DEFINE hits == {n \in Returned(EC2Query) : OfferingMatches(Page[n], EC2Query)}
           o == FirstOf(hits)
<1>1. Looking /\ answer = Nil /\ found = <<>> /\ call.service = "ec2" /\ FindTurn(OfferingPages, hits)
  BY DEF FindEC2, Choosing, Looking, Offers
<1>2. hits \in SUBSET (DOMAIN Page)
  BY DEF Returned
<1> HIDE DEF hits
<1>3. ASSUME hits # {} PROVE Suits(o)
  <2>1. OfferingMatches(o, EC2Query)
    <3>1. PICK n \in hits : o = Page[n]
      BY <1>1, <1>2, <1>3, FirstOnPage, NextPageIs
    <3> QED BY <3>1 DEF hits
  <2> HIDE DEF o
  <2>2. KnownPayment(rec.payment) /\ KnownTerm(rec.term) /\ call.op # "exchange"
    BY DEF FindEC2, Choosing, EC2Refused
  <2>3. /\ o.type \in {Nil, rec.type} /\ o.tenancy = Tenancy(rec.tenancy) /\ o.days = TermDays(rec.term)
        /\ o.kind = OfferingType[rec.payment] /\ (rec.zone # "" => o.zone = rec.zone)
    BY <2>1 DEF OfferingMatches, EC2Query, OfferingWant
  <2> QED BY <1>1, <2>2, <2>3, KnownTerms DEF Suits, RightKind, RightTerm
<1> QED BY <1>1, <1>2, <1>3, NextPageIs, TurnFinds

LEMMA ConvertibleFinds == ASSUME ReadInv, ApprovalInv, FindConvertible PROVE ApprovalInv'
<1> DEFINE hits == {n \in Returned(ConvertibleWant) : OfferingMatches(Page[n], ConvertibleWant)}
           o == FirstOf(hits)
<1>1. /\ Looking /\ answer = Nil /\ found = <<>> /\ call.service = "ec2" /\ call.op = "exchange"
      /\ FindTurn(TargetPages, hits)
  BY DEF FindConvertible, Is, Looking, Offers
<1>2. hits \in SUBSET (DOMAIN Page)
  BY DEF Returned
<1> HIDE DEF hits
<1>3. ASSUME hits # {} PROVE Suits(o)
  <2>1. OfferingMatches(o, ConvertibleWant)
    <3>1. PICK n \in hits : o = Page[n]
      BY <1>1, <1>2, <1>3, FirstOnPage, NextPageIs
    <3> QED BY <3>1 DEF hits
  <2> HIDE DEF o
  <2>2. /\ o.type \in {Nil, rec.type} /\ o.tenancy = Tenancy(rec.tenancy) /\ o.days = rec.days
        /\ o.kind = rec.payment /\ (rec.zone # "" => o.zone = rec.zone)
    BY <2>1 DEF OfferingMatches, ConvertibleWant
  <2> QED BY <1>1, <2>2 DEF Suits, RightKind, RightTerm
<1> QED BY <1>1, <1>2, <1>3, NextPageIs, TurnFinds

(* RDS reads on to the last page, for an offering that differs.            *)
LEMMA RdsPage ==
    ASSUME ReadInv, RdsScan
    PROVE  /\ OfShape(SoFar(page + 1)) = OfShape(SoFar(page)) \cup {Page[n] : n \in RdsHits}
           /\ \A n \in RdsHits : Page[n] \in OfShape(Everything)
           /\ RdsHits \in SUBSET (DOMAIN Page) /\ DOMAIN Page \subseteq Nat
<1>1. page \in Nat /\ page + 1 \in DOMAIN call.pages /\ Looking
  BY CallFacts DEF ReadInv, RdsScan, Is, Looking, Offers
<1>2. SoFar(page + 1) = SoFar(page) \cup Items
  <2>1. 1..(page + 1) = 1..page \cup {page + 1}
    BY <1>1
  <2> QED BY <2>1 DEF SoFar, Items, Page
<1>3. Items \subseteq Everything
  BY <1>1 DEF Items, Page, Everything
<1>4. {Page[n] : n \in RdsHits} = OfShape(Items)
  BY DEF RdsHits, OfShape, Returned, LetThrough, Items, Range
<1>5. OfShape(SoFar(page) \cup Items) = OfShape(SoFar(page)) \cup OfShape(Items)
  BY DEF OfShape
<1>6. \A n \in RdsHits : Page[n] \in OfShape(Everything)
  <2>1. OfShape(Items) \subseteq OfShape(Everything)
    BY <1>3 DEF OfShape
  <2> QED BY <1>4, <2>1
<1>7. RdsHits \in SUBSET (DOMAIN Page) /\ DOMAIN Page \subseteq Nat
  BY <1>1, CallFacts DEF RdsHits, Returned, Page, Looking
<1> QED BY <1>2, <1>4, <1>5, <1>6, <1>7

LEMMA RdsSuits ==
    ASSUME NEW o \in OfShape(Everything), ~RdsRefused, call.service = "rds", call.op # "exchange" PROVE Suits(o)
<1>1. Fits(o, RdsQuery) /\ KnownPayment(rec.payment) /\ KnownTerm(rec.term)
  BY DEF OfShape, RdsRefused
<1>2. o.type = rec.type /\ o.days = TermDays(rec.term) /\ o.kind = OfferingType[rec.payment]
  BY <1>1 DEF Fits, RdsQuery
<1> QED BY <1>1, <1>2, KnownTerms DEF Suits, RightKind, RightTerm

LEMMA RdsFinds == ASSUME ReadInv, ApprovalInv, FindRds PROVE ApprovalInv'
<1> DEFINE hits == {Page[n] : n \in RdsHits}
<1>1. /\ RdsScan /\ Looking /\ call.service = "rds" /\ call.op # "exchange" /\ ~RdsRefused
      /\ call' = call /\ page' = page + 1 /\ answer' \in {Nil, Failed}
      /\ answer' = IF LastPage /\ found' = <<>> THEN Failed ELSE Nil
      /\ found' = IF found = <<>> /\ RdsHits # {} THEN <<FirstOf(RdsHits)>> ELSE found
      /\ PickOffering(Range(found) \cup hits)
  BY DEF FindRds, RdsScan, Is, Looking, Offers, Idle
<1>2. /\ OfShape(SoFar(page + 1)) = OfShape(SoFar(page)) \cup hits
      /\ hits \subseteq OfShape(Everything) /\ (RdsHits # {} => FirstOf(RdsHits) \in hits)
      /\ RdsHits = {} => hits = {}
  BY <1>1, RdsPage, FirstOnPage
<1> HIDE DEF hits
<1>3. /\ found = <<>> \/ \E o \in Everything : found = <<o>> /\ Suits(o)
      /\ \A y \in OfShape(SoFar(page)) : found # <<>> /\ y.id = found[1].id
      /\ found # <<>> => found[1] \in OfShape(Everything)
  BY <1>1 DEF ApprovalInv, FoundOn
<1>4. OfShape(Everything) \subseteq Everything
  BY DEF OfShape
<1>5. /\ found' = <<>> \/ \E o \in Everything : found' = <<o>> /\ Suits(o)
      /\ \A y \in OfShape(SoFar(page + 1)) : found' # <<>> /\ y.id = found'[1].id
      /\ found' # <<>> => found'[1] \in OfShape(Everything)
  <2>1. CASE found = <<>> /\ RdsHits = {}
    BY <1>1, <1>2, <1>3, <2>1
  <2>2. CASE found = <<>> /\ RdsHits # {}
    <3>1. PICK o \in hits : found' = <<o>>
      BY <1>1, <1>2, <2>2
    <3>2. o \in OfShape(Everything) /\ o \in Everything /\ Suits(o)
      BY <1>1, <1>2, <1>4, <3>1, RdsSuits
    <3>3. \A y \in hits : y.id = o.id
      BY <1>1, <3>1 DEF PickOffering
    <3>4. OfShape(SoFar(page)) = {}
      BY <1>3, <2>2
    <3> QED BY <1>2, <3>1, <3>2, <3>3, <3>4
  <2>3. CASE found # <<>>
    <3>1. PICK o \in Everything : found = <<o>> /\ Suits(o)
      BY <1>3, <2>3
    <3>2. o \in Range(found)
      <4>1. 1 \in DOMAIN found /\ found[1] = o
        BY <3>1
      <4> QED BY <4>1 DEF Range
    <3>3. \A y \in hits : y.id = o.id
      BY <1>1, <3>2 DEF PickOffering
    <3>4. found' = found
      BY <1>1, <2>3
    <3> QED BY <1>2, <1>3, <3>1, <3>3, <3>4
  <2> QED BY <2>1, <2>2, <2>3
<1>6. FoundOn(page)'
  <2>1. \A o : Suits(o) => Suits(o)'
    BY <1>1, CallKept
  <2>2. OfShape(SoFar(page))' = OfShape(SoFar(page + 1)) /\ OfShape(Everything)' = OfShape(Everything) /\ Everything' = Everything
    BY <1>1 DEF OfShape, SoFar, Everything, Fits, RdsQuery, rec
  <2> QED BY <1>1, <1>5, <2>1, <2>2 DEF FoundOn
<1>7. (answer' = Nil /\ found' = <<>>) => page' < Len(call'.pages)
  <2>1. page \in Nat /\ Len(call.pages) \in Nat /\ page < Len(call.pages)
    BY <1>1, CallFacts DEF ReadInv, Looking, RdsScan
  <2>2. ASSUME answer' = Nil, found' = <<>> PROVE ~LastPage
    BY <1>1, <2>2, CatalogueAssumption DEF CatalogueAssumption
  <2> QED BY <1>1, <2>1, <2>2 DEF LastPage
<1>8. BoughtAsApproved'
  BY <1>1 DEF BoughtAsApproved
<1> QED BY <1>6, <1>7, <1>8 DEF ApprovalInv

(* The ceiling, multiplied out.                                            *)
LEMMA CeilingHolds ==
    ASSUME NEW p \in Int, NEW c \in Int, NEW a \in Int, p * c <= (105 * a + 50) \div 100
    PROVE  100 * p * c <= 105 * a + 50
<1>1. PICK x \in Int : x = p * c
  OBVIOUS
<1>2. 100 * p * c = 100 * x
  BY <1>1
<1>3. 100 * x <= 105 * a + 50
  BY <1>1
<1> QED BY <1>2, <1>3

(* An offering that is read again is the one that was found, but for its   *)
(* price.                                                                  *)
LEMMA RereadIs ==
    ASSUME NEW o, Sellable(o), NEW p \in Reread(o)
    PROVE  /\ p.id = o.id /\ p.type = o.type /\ p.kind = o.kind /\ p.days = o.days /\ p.tenancy = o.tenancy
           /\ p.zone = o.zone /\ p.usage = o.usage /\ p.charges = o.charges
           /\ p.fixed # Nil => p.fixed \in Nat
           /\ (Upfront(p) > 0 <=> Upfront(o) > 0) /\ Upfront(p) \in Nat /\ Upfront(o) \in Nat
<1>1. CASE p = o
  BY <1>1 DEF Sellable, Upfront
<1>2. CASE p = [o EXCEPT !.fixed = IF @ \in {Nil, 0} THEN @ ELSE @ + 10]
  <2>1. p.fixed = IF o.fixed \in {Nil, 0} THEN o.fixed ELSE o.fixed + 10
    BY <1>2 DEF Sellable
  <2>2. Upfront(p) = IF o.fixed \in {Nil, 0} THEN 0 ELSE o.fixed + 10
    BY <2>1, CatalogueAssumption DEF Sellable, Upfront, CatalogueAssumption
  <2> QED BY <1>2, <2>1, <2>2 DEF Sellable, Upfront
<1> QED BY <1>1, <1>2 DEF Reread

LEMMA RereadSuits == ASSUME NEW o, Sellable(o), Suits(o), NEW p \in Reread(o) PROVE Suits(p)
<1>1. PaymentShape(p) = PaymentShape(o)
  <2>1. RecurringRate(p) = RecurringRate(o)
    BY RereadIs DEF RecurringRate
  <2>2. Upfront(p) <= 0 <=> Upfront(o) <= 0
    BY RereadIs
  <2> QED BY <2>1, <2>2, RereadIs DEF PaymentShape
<1>2. RightKind(p)
  BY <1>1, RereadIs DEF Suits, RightKind
<1> QED BY <1>2, RereadIs DEF Suits, RightTerm

(* A step that hands out the offering found.                               *)
LEMMA HandedOut ==
    ASSUME ReadInv, ApprovalInv, Looking, call.op # "quote", found # <<>>, UNCHANGED <<call, page, found>>,
           call.service = "rds" => page = Len(call.pages), NEW p \in Reread(found[1]), answer' = Ok(p),
           (call.op = "buy" /\ call.service # "elasticache") => NoUpfrontApproved \/ CheckUpfront(Upfront(p))
    PROVE  ApprovalInv'
<1>1. PICK o \in Everything : found = <<o>> /\ Suits(o)
  BY DEF ApprovalInv, FoundOn
<1>2. Sellable(o) /\ p \in Reread(o)
  BY <1>1, CallFacts DEF Looking
<1>3. Suits(p)
  BY <1>1, <1>2, RereadSuits
<1>4. WithinApproval(p)
  <2>1. SUFFICES ASSUME call.op = "buy", call.service # "elasticache", rec.approved # Nil, rec.approved > 0
                 PROVE  100 * Upfront(p) * rec.count <= 105 * rec.approved + 50
    BY DEF WithinApproval
  <2>2. rec.approved \in Int /\ rec.count \in Int /\ Upfront(p) \in Int
    BY <1>2, <2>1, CallFacts, RereadIs DEF Looking
  <2>3. Upfront(p) * rec.count <= (105 * rec.approved + 50) \div 100
    BY <2>1, <2>2 DEF NoUpfrontApproved, CheckUpfront, Ceiling
  <2> QED BY <2>2, <2>3, CeilingHolds
<1>5. ASSUME call.service = "rds" PROVE IdsOf(OfShape(Everything)) = {p.id}
  <2>1. SoFar(page) = Everything
    BY <1>5, CallFacts DEF Looking, SoFar, Everything
  <2>2. p.id = o.id
    BY <1>2, RereadIs
  <2>3. o \in OfShape(Everything) /\ \A y \in OfShape(Everything) : y.id = o.id
    BY <1>1, <1>5, <2>1 DEF ApprovalInv, FoundOn
  <2> QED BY <2>2, <2>3 DEF IdsOf
<1>6. call' = call /\ rec' = rec /\ answer'[2] = p
  BY DEF rec, Ok
<1>7. BoughtAsApproved'
  <2>1. Suits(p)'
    BY <1>3, CallKept
  <2>2. WithinApproval(p)'
    BY <1>4, <1>6 DEF WithinApproval
  <2>3. (call.service = "rds" => IdsOf(OfShape(Everything)) = {p.id})'
    <3>1. OfShape(Everything)' = OfShape(Everything)
      BY <1>6 DEF OfShape, Everything, Fits, RdsQuery
    <3> QED BY <1>5, <1>6, <3>1 DEF IdsOf
  <2> QED BY <1>6, <2>1, <2>2, <2>3 DEF BoughtAsApproved
<1>8. (FoundOn(page) /\ ((answer = Nil /\ found = <<>>) => page < Len(call.pages)))'
  BY FoundKept
<1> QED BY <1>7, <1>8 DEF ApprovalInv

(* Price adds the recurring charges up.                                    *)
LEMMA UpFromZero == ASSUME NEW T \in SUBSET Nat, 0 \in T, \A n \in T : n + 1 \in T PROVE T = Nat
<1> SUFFICES ASSUME Nat \ T # {} PROVE FALSE
  OBVIOUS
<1> DEFINE m == Min(Nat \ T)
<1>1. m \in Nat \ T /\ \A k \in Nat \ T : m <= k
  BY FirstIs
<1> HIDE DEF m
<1>2. m # 0 /\ m - 1 \in Nat
  BY <1>1
<1>3. m - 1 \in T
  BY <1>1, <1>2
<1> QED BY <1>1, <1>3

Totals(F, c, n) == F = [k \in 0..n |-> IF k = 0 THEN 0 ELSE F[k - 1] + c[k].amount]

LEMMA TotalsExist == ASSUME NEW c PROVE \A n \in Nat : \E F : Totals(F, c, n)
<1> DEFINE T == {n \in Nat : \E F : Totals(F, c, n)}
<1>1. 0 \in T
  <2>1. Totals([k \in 0..0 |-> 0], c, 0)
    BY DEF Totals
  <2> QED BY <2>1
<1>2. ASSUME NEW n \in T PROVE n + 1 \in T
  <2>1. PICK F : Totals(F, c, n)
    OBVIOUS
  <2> DEFINE G == [k \in 0..(n + 1) |-> IF k = n + 1 THEN F[n] + c[n + 1].amount ELSE F[k]]
  <2>2. \A k \in 0..n : F[k] = IF k = 0 THEN 0 ELSE F[k - 1] + c[k].amount
    BY <2>1 DEF Totals
  <2>3. ASSUME NEW k \in 0..(n + 1) PROVE G[k] = IF k = 0 THEN 0 ELSE G[k - 1] + c[k].amount
    <3>1. CASE k = n + 1
      <4>1. k # 0 /\ k - 1 = n /\ n \in 0..(n + 1) /\ n # n + 1
        BY <3>1
      <4>2. G[n] = F[n]
        BY <4>1
      <4> QED BY <3>1, <4>1, <4>2
    <3>2. CASE k \in 0..n /\ k # 0
      <4>1. k - 1 \in 0..(n + 1) /\ k - 1 # n + 1 /\ k # n + 1
        BY <3>2
      <4> QED BY <2>2, <3>2, <4>1
    <3>3. CASE k = 0
      <4>1. 0 # n + 1 /\ 0 \in 0..n
        OBVIOUS
      <4> QED BY <2>2, <3>3, <4>1
    <3> QED BY <3>1, <3>2, <3>3
  <2>4. Totals(G, c, n + 1)
    BY <2>3 DEF Totals
  <2> QED BY <2>4
<1> HIDE DEF T
<1>3. T = Nat
  BY <1>1, <1>2, UpFromZero DEF T
<1> QED BY <1>3 DEF T

LEMMA HourlyIs ==
    ASSUME NEW o, Sellable(o)
    PROVE  /\ Hourly(o) \in Int
           /\ Len(o.charges) = 0 => Hourly(o) = 0
           /\ Len(o.charges) = 1 => Hourly(o) = o.charges[1].amount
<1> DEFINE F == CHOOSE G : Totals(G, o.charges, Len(o.charges))
<1>1. Len(o.charges) \in Nat /\ \A n \in 1..Len(o.charges) : o.charges[n].amount \in Int
  BY DEF Sellable
<1>2. Hourly(o) = F[Len(o.charges)]
  BY DEF Hourly, Totals
<1>3. Totals(F, o.charges, Len(o.charges))
  BY <1>1, TotalsExist
<1> HIDE DEF F
<1>4. \A n \in 0..Len(o.charges) : F[n] = IF n = 0 THEN 0 ELSE F[n - 1] + o.charges[n].amount
  BY <1>3 DEF Totals
<1> DEFINE T == {n \in Nat : n <= Len(o.charges) => F[n] \in Int}
<1>5. 0 \in T
  BY <1>1, <1>4
<1>6. ASSUME NEW n \in T PROVE n + 1 \in T
  BY <1>1, <1>4
<1> HIDE DEF T
<1>7. T = Nat
  BY <1>5, <1>6, UpFromZero DEF T
<1>8. F[Len(o.charges)] \in Int
  BY <1>1, <1>7 DEF T
<1> QED BY <1>1, <1>2, <1>4, <1>8

(* A quote is the price of the offering found.                             *)
LEMMA HoursFactor == \A r \in Int, d \in {365, 1095} : r * d * 24 = r * (d * 24)
OBVIOUS

LEMMA PriceAddsUp ==
    ASSUME NEW o, Sellable(o), Priceable(o, rec.term), call.service # "savingsplans",
           call.service = "redshift" => PaidOneWay(o) /\ PaymentShape(o) = rec.payment
    PROVE  AddsUp(Price(o))
<1>1. Rate(o) \in Int /\ Upfront(o) \in Nat /\ o.days \in {365, 1095}
  BY HourlyIs DEF Rate, Sellable, Upfront
<1>2. Rate(o) * o.days * 24 = Rate(o) * (o.days * 24)
  BY <1>1, HoursFactor
<1>3. Price(o).total = Price(o).upfront + Price(o).hourly * Price(o).hours
  BY <1>2 DEF Price
<1>4. ASSUME call.service = "redshift"
      PROVE  (rec.payment = "all-upfront" => Rate(o) = 0) /\ (rec.payment = "no-upfront" => Upfront(o) = 0)
  <2>1. ASSUME rec.payment = "all-upfront" PROVE Rate(o) = 0
    <3>1. RecurringRate(o) <= 0
      BY <1>4, <2>1 DEF PaymentShape
    <3>2. Len(o.charges) \in {0, 1} /\ (Len(o.charges) = 1 => o.usage = 0) /\ DOMAIN o.charges = 1..Len(o.charges)
      <4>1. Len(o.charges) \in Nat /\ Len(o.charges) <= 1 /\ (Len(o.charges) = 1 => o.usage = 0)
        BY <1>4 DEF PaidOneWay, Sellable
      <4>2. Len(o.charges) \in {0, 1}
        <5>1. \A n \in Nat : n <= 1 => n \in {0, 1}
          OBVIOUS
        <5> QED BY <4>1, <5>1
      <4> QED BY <4>1, <4>2 DEF Sellable
    <3>3. CASE Len(o.charges) = 0
      <4>1. RecurringRate(o) = o.usage
        BY <3>2, <3>3 DEF RecurringRate
      <4> QED BY <3>1, <3>3, <4>1, HourlyIs DEF Priceable, Rate, Sellable
    <3>4. CASE Len(o.charges) = 1
      <4> DEFINE hourly == {n \in DOMAIN o.charges : o.charges[n].frequency = "Hourly"}
      <4>1. hourly = {1} /\ o.charges[1].amount >= 0 /\ o.charges[1].amount \in Int
        BY <3>2, <3>4 DEF Priceable, Sellable
      <4>2. Min({1}) = 1
        BY DEF Min
      <4>3. RecurringRate(o) = o.charges[1].amount
        BY <4>1, <4>2 DEF RecurringRate
      <4> QED BY <3>1, <3>2, <3>4, <4>1, <4>3, HourlyIs DEF Rate
    <3> QED BY <3>2, <3>3, <3>4
  <2>2. ASSUME rec.payment = "no-upfront" PROVE Upfront(o) = 0
    <3>1. ~(Upfront(o) > 0)
      BY <1>4, <2>2 DEF PaymentShape
    <3> QED BY <1>1, <3>1
  <2> QED BY <2>1, <2>2
<1> QED BY <1>3, <1>4 DEF AddsUp, Price

LEMMA Quoted ==
    ASSUME ReadInv, ApprovalInv, Looking, call.op = "quote", found # <<>>, UNCHANGED <<call, page, found>>,
           Priceable(found[1], rec.term), answer' = Ok(Price(found[1]))
    PROVE  ApprovalInv'
<1>1. PICK o \in Everything : found = <<o>> /\ Suits(o)
  BY DEF ApprovalInv, FoundOn
<1>2. Sellable(o) /\ (call.service = "redshift" => PaidOneWay(o) /\ PaymentShape(o) = rec.payment)
  BY <1>1, CallFacts DEF Looking, Suits, RightKind
<1>3. AddsUp(Price(o))
  BY <1>1, <1>2, PriceAddsUp DEF Looking
<1>4. BoughtAsApproved'
  <2>1. AddsUp(Price(o))'
    BY <1>3 DEF AddsUp, rec
  <2>2. answer'[2] = Price(o) /\ call'.op = "quote"
    BY <1>1 DEF Ok
  <2> QED BY <2>1, <2>2 DEF BoughtAsApproved
<1> QED BY <1>4, FoundKept DEF ApprovalInv

(* The breakdown of a plan, whose hourly commitment has a half.            *)
LEMMA PlanAddsUp ==
    ASSUME rec.hourly \in Int, rec.hourly % 2 = 0, NEW hours \in {8760, 26280}
    PROVE  AddsUp(PlanBreakdown(rec.hourly * hours, hours))
<1>1. PICK half \in Int : rec.hourly = 2 * half
  <2>1. rec.hourly = 2 * (rec.hourly \div 2)
    OBVIOUS
  <2> QED BY <2>1
<1> DEFINE total == rec.hourly * hours
<1>2. /\ total \div hours = rec.hourly /\ total \div 2 = half * hours /\ total \div (2 * hours) = half
      /\ total = half * hours + half * hours /\ total \in Int
  <2>1. CASE hours = 8760
    BY <1>1, <2>1
  <2>2. CASE hours = 26280
    BY <1>1, <2>2
  <2> QED BY <2>1, <2>2
<1>3. total = rec.hourly * hours
  OBVIOUS
<1> HIDE DEF total
<1>4. CASE rec.payment = "all-upfront"
  BY <1>2, <1>3, <1>4 DEF AddsUp, PlanBreakdown
<1>5. CASE rec.payment = "partial-upfront"
  BY <1>2, <1>3, <1>5 DEF AddsUp, PlanBreakdown
<1>6. CASE rec.payment \notin {"all-upfront", "partial-upfront"}
  <2>1. PICK rate : rate = total \div hours
    OBVIOUS
  <2>2. rec.payment # "all-upfront" /\ rec.payment # "partial-upfront"
    BY <1>6
  <2>3. PlanBreakdown(total, hours) = [upfront |-> 0, hourly |-> rate, total |-> total, hours |-> hours]
    BY <2>1, <2>2 DEF PlanBreakdown
  <2>4. rate = rec.hourly
    BY <1>2, <2>1
  <2> QED BY <1>3, <2>2, <2>3, <2>4 DEF AddsUp
<1> QED BY <1>3, <1>4, <1>5, <1>6

(* Steps of calls that look nothing up.                                    *)
LEMMA OthersApprove ==
    ASSUME ~Looking, call' = call, call.op = "quote" => answer' \in {Nil, Failed} PROVE ApprovalInv'
BY DEF Looking, Offers, ApprovalInv, BoughtAsApproved

LEMMA PlanQuoted == ASSUME ReadInv, QuotePlan PROVE ApprovalInv'
<1>1. call' = call /\ call.service = "savingsplans" /\ call.op = "quote"
  BY DEF QuotePlan, Chosen, Is, Answer, Idle
<1> DEFINE hours == TermDays(rec.term) * 24
           q == PlanBreakdown(rec.hourly * hours, hours)
<1>2. hours \in {8760, 26280}
  BY DEF TermDays, TermMonths
<1>3. AddsUp(q)
  BY <1>1, <1>2, CallFacts, PlanAddsUp DEF Offers
<1>4. answer'[2] = q
  BY DEF QuotePlan, Answer, Ok
<1>5. PICK v : v = q
  OBVIOUS
<1>6. AddsUp(v)'
  BY <1>1, <1>3, <1>5 DEF AddsUp, rec
<1>7. BoughtAsApproved'
  BY <1>1, <1>4, <1>5, <1>6 DEF BoughtAsApproved
<1> QED BY <1>1, <1>7 DEF ApprovalInv, Looking

LEMMA LookupsApprove ==
    ASSUME ReadInv, ApprovalInv,
           FindRds \/ FindCache \/ FindMemoryDB \/ FindSearch \/ FindRedshift \/ FindEC2 \/ FindConvertible
    PROVE  ApprovalInv'
BY RdsFinds, CacheFinds, MemoryDBFinds, SearchFinds, RedshiftFinds, EC2Finds, ConvertibleFinds

(* Purchases: the price is compared unless no upfront was approved.        *)
LEMMA Refused ==
    ASSUME ApprovalInv, Looking, UNCHANGED <<call, page, found>>, answer' = Failed PROVE ApprovalInv'
<1>1. answer' # Nil
  BY CatalogueAssumption DEF CatalogueAssumption
<1>2. BoughtAsApproved'
  BY DEF BoughtAsApproved
<1> QED BY <1>1, <1>2, FoundKept DEF ApprovalInv

LEMMA PurchasesApprove ==
    ASSUME ReadInv, ApprovalInv,
           ApproveRds \/ ApproveSearch \/ ApproveRedshift \/ ApproveMemoryDB \/ ApproveEC2 \/ TakeCache \/ TakeConvertible
    PROVE  ApprovalInv'
<1>1. /\ Looking /\ call.op # "quote" /\ found # <<>> /\ UNCHANGED <<call, page, found>>
      /\ call.service = "rds" => page = Len(call.pages)
  BY DEF ApproveRds, ApproveSearch, ApproveRedshift, ApproveMemoryDB, ApproveEC2, TakeCache, TakeConvertible, Approve,
     Answer, Chosen, Is, Idle, Looking, Offers
<1>2. found[1] \in Reread(found[1])
  BY DEF Reread
<1>3. ASSUME NEW o \in Reread(found[1]), NEW ok \in BOOLEAN, Approve(o, ok), ok => CheckUpfront(Upfront(o)) PROVE ApprovalInv'
  <2>1. answer' = Failed \/ (answer' = Ok(o) /\ (NoUpfrontApproved \/ CheckUpfront(Upfront(o))))
    BY <1>3 DEF Approve
  <2> QED BY <1>1, <1>3, <2>1, HandedOut, Refused
<1>4. \A o : ApprovedPrice(o) \in BOOLEAN /\ (ApprovedPrice(o) => CheckUpfront(Upfront(o)))
  BY DEF ApprovedPrice, Upfront, InUSD, CheckUpfront
<1>5. CASE ApproveRds \/ ApproveSearch \/ ApproveRedshift
  BY <1>3, <1>4, <1>5 DEF ApproveRds, ApproveSearch, ApproveRedshift
<1>6. CASE ApproveEC2
  BY <1>2, <1>3, <1>4, <1>6 DEF ApproveEC2
<1>7. CASE ApproveMemoryDB
  <2>1. PICK o \in Reread(found[1]) :
          Approve(o, /\ InUSD(rec.currency) /\ CheckUpfront(Upfront(o))
                     /\ Upfront(o) = 0 => o.kind = "No Upfront"
                     /\ o.kind # "No Upfront" => AssumedUSD)
    BY <1>7 DEF ApproveMemoryDB
  <2>2. answer' = Failed \/ (answer' = Ok(o) /\ (NoUpfrontApproved \/ CheckUpfront(Upfront(o))))
    BY <2>1 DEF Approve
  <2> QED BY <1>1, <2>2, HandedOut, Refused
<1>8. CASE TakeCache \/ TakeConvertible
  <2>1. answer' = Ok(found[1]) /\ (call.op = "exchange" \/ call.service = "elasticache")
    BY <1>8 DEF TakeCache, TakeConvertible, Answer, Chosen, Is
  <2> QED BY <1>1, <1>2, <2>1, HandedOut
<1> QED BY <1>5, <1>6, <1>7, <1>8

LEMMA QuotesApprove ==
    ASSUME ReadInv, ApprovalInv,
           QuoteRds \/ QuoteCache \/ QuoteMemoryDB \/ QuoteSearch \/ QuoteRedshift \/ QuoteEC2
    PROVE  ApprovalInv'
<1>1. /\ Looking /\ call.op = "quote" /\ found # <<>> /\ UNCHANGED <<call, page, found>>
      /\ Priceable(found[1], rec.term) /\ answer' = Ok(Price(found[1]))
  BY DEF QuoteRds, QuoteCache, QuoteMemoryDB, QuoteSearch, QuoteRedshift, QuoteEC2, Quote, Answer, Chosen, Is, Idle,
     Looking, Offers
<1> QED BY <1>1, Quoted

LEMMA NextApproves == ASSUME ReadInv, ApprovalInv, CatalogueNext PROVE ApprovalInv'
<1> DEFINE Lists == ListRds \/ ListCache \/ ListMemoryDB \/ ListSearch \/ ListRedshift \/ ListEC2 \/ ListPlans
                      \/ TypesRds \/ TypesCache \/ TypesMemoryDB \/ TypesRedshift \/ TypesEC2 \/ ListTargets
<1>1. CASE AnswerFailed
  <2>1. UNCHANGED <<call, page, found>> /\ answer' = Failed
    BY <1>1 DEF AnswerFailed, Idle
  <2> QED BY <2>1, Refused, OthersApprove
<1>2. CASE Lists
  <2>1. call' = call /\ call.op \in {"list", "types", "targets"}
    BY <1>2 DEF ListRds, ListCache, ListMemoryDB, ListSearch, ListRedshift, ListEC2, ListPlans, TypesRds, TypesCache,
         TypesMemoryDB, TypesRedshift, TypesEC2, ListTargets, ListTurn, NextPage, Is
  <2> QED BY <2>1, OthersApprove DEF Looking, Offers
<1>3. CASE FindPlan
  <2>1. call' = call /\ call.service = "savingsplans" /\ answer' \in {Nil, Failed}
    BY <1>3 DEF FindPlan, PlanScan, Is, Idle
  <2> QED BY <2>1, OthersApprove DEF Looking
<1>4. CASE BuyPlan \/ RepeatPlan
  <2>1. call' = call /\ call.service = "savingsplans" /\ call.op = "buy"
    BY <1>4 DEF BuyPlan, RepeatPlan, Chosen, Is
  <2> QED BY <2>1, OthersApprove DEF Looking
<1> QED BY <1>1, <1>2, <1>3, <1>4, LookupsApprove, PurchasesApprove, QuotesApprove, PlanQuoted DEF CatalogueNext

(* A reservation that is bought is of the type, term and payment option    *)
(* that were approved, for RDS the only offering of its shape, and costs at*)
(* most 105 % of the approved upfront even when the price changes between  *)
(* lookup and purchase; a quote adds up (findOfferingID, checkApproved-    *)
(* Upfront, GetOfferingDetails).                                           *)
THEOREM PurchasesAreApproved == CatalogueSpec => []BoughtAsApproved
<1>1. CatalogueInit => ApprovalInv
  <2> SUFFICES ASSUME CatalogueInit PROVE ApprovalInv
    OBVIOUS
  <2>1. call \in CatalogueCalls /\ page = 0 /\ found = <<>> /\ answer = Nil
    BY DEF CatalogueInit
  <2>2. Len(call.pages) \in Nat \ {0}
    BY <2>1, CatalogueAssumption DEF CatalogueAssumption
  <2>3. OfShape(SoFar(0)) = {}
    BY DEF OfShape, SoFar
  <2> QED BY <2>1, <2>2, <2>3 DEF ApprovalInv, FoundOn, BoughtAsApproved
<1>2. ReadInv /\ ApprovalInv /\ [CatalogueNext]_catalogueVars => ApprovalInv'
  <2> SUFFICES ASSUME ReadInv, ApprovalInv, [CatalogueNext]_catalogueVars PROVE ApprovalInv'
    OBVIOUS
  <2>1. CASE UNCHANGED catalogueVars
    <3>1. UNCHANGED <<call, page, found, answer>>
      BY <2>1 DEF catalogueVars
    <3>2. BoughtAsApproved'
      <4>1. PICK v : v = answer[2]
        OBVIOUS
      <4>2. answer' = answer /\ call' = call /\ answer'[2] = v
        BY <3>1, <4>1
      <4>3. WithinApproval(v)' <=> WithinApproval(v)
        BY <4>2 DEF WithinApproval, rec
      <4>4. AddsUp(v)' <=> AddsUp(v)
        BY <4>2 DEF AddsUp, rec
      <4>5. Suits(v)' <=> Suits(v)
        BY <4>2, CallKept DEF Suits, RightKind, RightTerm, rec
      <4>6. OfShape(Everything)' = OfShape(Everything)
        BY <4>2 DEF OfShape, Everything, Fits, RdsQuery, rec
      <4> HIDE DEF BoughtAsApproved
      <4>7. BoughtAsApproved
        BY DEF ApprovalInv
      <4> QED BY <4>1, <4>2, <4>3, <4>4, <4>5, <4>6, <4>7 DEF BoughtAsApproved, IdsOf
    <3>3. CASE Looking
      BY <3>1, <3>2, <3>3, FoundKept DEF ApprovalInv
    <3>4. CASE ~Looking
      BY <3>1, <3>2, <3>4 DEF ApprovalInv, Looking, Offers
    <3> QED BY <3>3, <3>4
  <2> QED BY <2>1, NextApproves
<1>3. ApprovalInv => BoughtAsApproved
  BY DEF ApprovalInv
<1> QED BY <1>1, <1>2, <1>3, ReadInvHolds, PTL DEF CatalogueSpec

-----------------------------------------------------------------------------
(* GCP: what is bought is what was recommended.                            *)

LEMMA NoFault ==
    ASSUME NEW faults, NEW m \in Nat, DOMAIN faults = 1..m, FirstFault(faults) = "none"
    PROVE  \A n \in DOMAIN faults : faults[n] = "none"
<1> DEFINE bad == {n \in DOMAIN faults : faults[n] # "none"}
<1>1. bad # {} => Min(bad) \in bad
  <2>1. bad \in SUBSET Nat
    OBVIOUS
  <2> HIDE DEF bad
  <2> QED BY <2>1, FirstIs
<1>2. bad # {} => FirstFault(faults) = faults[Min(bad)]
  BY DEF FirstFault
<1> QED BY <1>1, <1>2

LEMMA OnlyMax == ASSUME NEW n \in Int PROVE Max({n}) = n
BY DEF Max

(* What a recommendation that has no fault passed.                         *)
LEMMA FaultFree ==
    ASSUME NEW raw, NEW params, Fault(raw, params) = "none"
    PROVE  /\ ResolveRecTerm(raw.ops, params).fault = "none" /\ ResourceFault(raw.ops) = "none"
           /\ TermPlan(ResolveRecTerm(raw.ops, params).term) # Nil
<1>1. PICK a, c, d : a = ResolveRecTerm(raw.ops, params).fault /\ c = CostFault(raw.cost) /\ d = ResourceFault(raw.ops)
  OBVIOUS
<1>2. PICK b : b = IF TermPlan(ResolveRecTerm(raw.ops, params).term) = Nil THEN "skip" ELSE "none"
  OBVIOUS
<1>3. PICK faults : faults = <<a, b, c, d>>
  OBVIOUS
<1>4. FirstFault(faults) = "none" /\ DOMAIN faults = 1..4
  BY <1>1, <1>2, <1>3 DEF Fault
<1>5. \A n \in 1..4 : faults[n] = "none"
  BY <1>4, NoFault
<1>6. a = "none" /\ b = "none" /\ d = "none"
  BY <1>3, <1>5
<1> QED BY <1>1, <1>2, <1>6

IsContent(raw) ==
    /\ IsList(raw.ops)
    /\ \A n \in DOMAIN raw.ops :
         LET value == raw.ops[n].value
         IN  (raw.ops[n].path = "/" /\ value # Nil /\ value.resources # Nil) => IsList(value.resources)

(* A root is the only operation that changes anything.                     *)
LEMMA RootAlone ==
    ASSUME NEW raw, IsContent(raw), Roots(raw.ops) # {}, ~Compound(raw.ops)
    PROVE  \E n \in DOMAIN raw.ops :
             Changing(raw) = {n} /\ Roots(raw.ops) = {n} /\ raw.ops[n].path = "/" /\ Root(raw.ops) = raw.ops[n].value
<1> DEFINE M == Mutations(raw.ops)
<1>1. IsFiniteSet(M) /\ Cardinality(M) = 1 /\ DOMAIN raw.ops \subseteq Int
  <2>1. IsFiniteSet(DOMAIN raw.ops) /\ DOMAIN raw.ops \subseteq Int
    BY FS_Interval DEF IsContent, IsList
  <2>2. M \subseteq DOMAIN raw.ops
    BY DEF Mutations
  <2> QED BY <2>1, <2>2, FS_Subset DEF Compound
<1>2. PICK n : M = {n}
  <2> HIDE DEF M
  <2> QED BY <1>1, FS_Singleton
<1>3. Changing(raw) \subseteq M /\ Roots(raw.ops) \subseteq Changing(raw)
  BY DEF Changing, Mutations, Mutates, Roots
<1>4. Roots(raw.ops) = {n} /\ Changing(raw) = {n}
  BY <1>2, <1>3
<1>5. n \in DOMAIN raw.ops /\ raw.ops[n].path = "/"
  BY <1>4 DEF Roots
<1>6. Root(raw.ops) = raw.ops[n].value
  BY <1>1, <1>4, <1>5, OnlyMax DEF Root
<1> QED BY <1>4, <1>5, <1>6

(* The resources of a root that has no fault: one of each kind.            *)
LEMMA RootSays ==
    ASSUME NEW raw, IsContent(raw), NEW n \in DOMAIN raw.ops, Changing(raw) = {n}, raw.ops[n].path = "/",
           RootDetailsFault(raw.ops[n].value) = "none", NEW kind \in {"VCPU", "MEMORY"}
    PROVE  Says(raw, kind, RootAmount(raw.ops[n].value.resources, kind))
<1> DEFINE value == raw.ops[n].value
           res == value.resources
           hits == {i \in DOMAIN res : res[i].kind = kind}
<1>1. value # Nil /\ value.resources # Nil
  BY DEF RootDetailsFault
<1>2. IsList(res)
  BY <1>1 DEF IsContent
<1>3. RootFaults(res) = "none" /\ RootAmount(res, "VCPU") # 0 /\ RootAmount(res, "MEMORY") # 0
  <2>1. PICK a : a = RootFaults(res)
    OBVIOUS
  <2>2. PICK b : b = IF RootAmount(res, "VCPU") = 0 \/ RootAmount(res, "MEMORY") = 0 THEN "error" ELSE "none"
    OBVIOUS
  <2>3. PICK faults : faults = <<a, b>>
    OBVIOUS
  <2>4. RootDetailsFault(value) # "error" => RootDetailsFault(value) = FirstFault(<<a, b>>)
    <3> HIDE DEF value
    <3> QED BY <2>1, <2>2 DEF RootDetailsFault
  <2>5. FirstFault(faults) = "none"
    BY <2>3, <2>4
  <2>6. \A k \in 1..2 : faults[k] = "none"
    <3>1. DOMAIN faults = 1..2
      BY <2>3
    <3> QED BY <2>5, <3>1, NoFault
  <2>7. a = "none" /\ b = "none"
    BY <2>3, <2>6
  <2> QED BY <2>1, <2>2, <2>7
<1>4. \A k \in DOMAIN res : RootFault(res, k) = "none"
  <2>1. PICK faults : faults = [k \in DOMAIN res |-> RootFault(res, k)]
    OBVIOUS
  <2>2. FirstFault(faults) = "none" /\ DOMAIN faults = 1..Len(res) /\ Len(res) \in Nat
    BY <1>2, <1>3, <2>1 DEF RootFaults, IsList
  <2>3. \A k \in DOMAIN faults : faults[k] = "none"
    BY <2>2, NoFault
  <2> QED BY <2>1, <2>3
<1>5. ASSUME NEW i \in hits, NEW j \in hits, i < j PROVE FALSE
  <2>1. i \in Int /\ j \in Int /\ i \in 1..(j - 1) /\ res[i].kind = res[j].kind
    BY <1>2, <1>5 DEF IsList
  <2> QED BY <1>4, <2>1 DEF RootFault
<1>6. hits # {}
  BY <1>3 DEF RootAmount
<1>7. PICK i \in hits : hits = {i} /\ i \in Int
  <2>1. hits \subseteq Int
    BY <1>2 DEF IsList
  <2>2. \A i, j \in hits : i = j
    BY <1>5, <2>1
  <2> QED BY <1>6, <2>1, <2>2
<1>8. RootAmount(res, kind) = res[i].value
  BY <1>7, OnlyMax DEF RootAmount
<1> DEFINE s == [at |-> <<n, i>>, kind |-> kind, value |-> res[i].value]
<1>9. Stated(raw, kind) = {s}
  <2>1. UNION {StatedBy(raw.ops[k], k) : k \in Changing(raw)} = StatedBy(raw.ops[n], n)
    OBVIOUS
  <2>2. StatedBy(raw.ops[n], n) = {[at |-> <<n, k>>, kind |-> res[k].kind, value |-> res[k].value] : k \in DOMAIN res}
    BY DEF StatedBy
  <2>3. ASSUME NEW x \in Stated(raw, kind) PROVE x = s
    <3>1. PICK k \in DOMAIN res : x = [at |-> <<n, k>>, kind |-> res[k].kind, value |-> res[k].value] /\ res[k].kind = kind
      BY <2>1, <2>2 DEF Stated
    <3>2. k = i
      BY <1>7, <3>1
    <3> QED BY <3>1, <3>2
  <2>4. s \in Stated(raw, kind)
    BY <1>7, <2>1, <2>2 DEF Stated
  <2> QED BY <2>3, <2>4
<1> QED BY <1>8, <1>9 DEF Says

(* The amounts of operations that have no fault: one of each kind.         *)
LEMMA AmountSays ==
    ASSUME NEW raw, IsContent(raw), Roots(raw.ops) = {}, NEW kind \in {"VCPU", "MEMORY"},
           AmountFaults(raw.ops, kind) = "none", Amount(raw.ops, kind) # 0
    PROVE  Says(raw, kind, Amount(raw.ops, kind))
<1> DEFINE ops == raw.ops
           hits == AmountsOf(ops, kind)
<1>1. \A k \in DOMAIN ops : AmountFault(ops, k, kind) = "none"
  <2>1. PICK faults : faults = [k \in DOMAIN ops |-> AmountFault(ops, k, kind)]
    OBVIOUS
  <2>2. FirstFault(faults) = "none" /\ DOMAIN faults = 1..Len(ops) /\ Len(ops) \in Nat
    BY <2>1 DEF AmountFaults, IsContent, IsList
  <2>3. \A k \in DOMAIN faults : faults[k] = "none"
    BY <2>2, NoFault
  <2> QED BY <2>1, <2>3
<1>2. DOMAIN ops \subseteq Nat
  BY DEF IsContent, IsList
<1>3. ASSUME NEW i \in hits, NEW j \in hits, i < j PROVE FALSE
  <2>1. i \in 1..(j - 1) /\ AmountKind(ops[i]) = kind /\ AmountKind(ops[j]) = kind /\ j \in DOMAIN ops
    BY <1>3, <1>2 DEF AmountsOf, IsContent, IsList
  <2> QED BY <1>1, <2>1 DEF AmountFault
<1>4. hits # {}
  BY DEF Amount
<1>5. PICK n \in hits : hits = {n} /\ n \in Nat /\ n \in DOMAIN ops
  <2>1. hits \subseteq DOMAIN ops
    BY DEF AmountsOf
  <2>2. \A i, j \in hits : i = j
    BY <1>2, <1>3, <2>1
  <2> QED BY <1>2, <1>4, <2>1, <2>2
<1>6. Amount(ops, kind) = ops[n].value
  <2>1. Min({n}) = n
    BY <1>5 DEF Min
  <2> QED BY <1>5, <2>1 DEF Amount
<1> DEFINE s == [at |-> <<n, 0>>, kind |-> kind, value |-> ops[n].value]
<1>7. ASSUME NEW k \in DOMAIN ops PROVE k \in hits <=> k \in Changing(raw) /\ ops[k].path = "amount" /\ KindOf(ops[k]) = kind
  BY DEF AmountsOf, AmountKind, Changing, KindOf
<1>8. \A k \in Changing(raw) : k \in DOMAIN ops /\ ops[k].path # "/"
  BY DEF Changing, Roots
<1>9. Stated(raw, kind) = {s}
  <2>1. ASSUME NEW x \in Stated(raw, kind) PROVE x = s
    <3>1. PICK k \in Changing(raw) : x \in StatedBy(ops[k], k) /\ x.kind = kind
      BY DEF Stated
    <3>2. ops[k].path = "amount" /\ x = [at |-> <<k, 0>>, kind |-> KindOf(ops[k]), value |-> ops[k].value]
      BY <1>8, <3>1 DEF StatedBy
    <3>3. k = n
      BY <1>5, <1>7, <1>8, <3>1, <3>2
    <3> QED BY <3>1, <3>2, <3>3
  <2>2. s \in Stated(raw, kind)
    <3>1. n \in Changing(raw) /\ ops[n].path = "amount" /\ KindOf(ops[n]) = kind
      BY <1>5, <1>7
    <3>2. s \in StatedBy(ops[n], n)
      BY <3>1 DEF StatedBy
    <3> QED BY <3>1, <3>2 DEF Stated
  <2> QED BY <2>1, <2>2
<1> QED BY <1>6, <1>9 DEF Says

(* The term of a recommendation whose root states a plan is that plan's.   *)
LEMMA PlanTerms ==
    TermPlan(PlanTerm["TWELVE_MONTH"]) = "TWELVE_MONTH" /\ TermPlan(PlanTerm["THIRTY_SIX_MONTH"]) = "THIRTY_SIX_MONTH"
<1>1. PlanTerm["TWELVE_MONTH"] = "1yr" /\ PlanTerm["THIRTY_SIX_MONTH"] = "3yr"
  BY DEF PlanTerm
<1>2. TermPlan("1yr") = "TWELVE_MONTH" /\ TermPlan("3yr") = "THIRTY_SIX_MONTH"
  BY DEF TermPlan, TermYears
<1> QED BY <1>1, <1>2

LEMMA PlanKept ==
    ASSUME NEW ops, NEW params, params.planTerm, ResolveRecTerm(ops, params).fault = "none",
           TermPlan(ResolveRecTerm(ops, params).term) # Nil, PlanOf(ops) # "", Roots(ops) # {}
    PROVE  TermPlan(ResolveRecTerm(ops, params).term) = PlanOf(ops)
<1>2. ~Compound(ops) /\ PlanFault(ops) = "none"
  BY DEF ResolveRecTerm, NoTerm
<1>3. PlanOf(ops) \in {"TWELVE_MONTH", "THIRTY_SIX_MONTH"}
  BY <1>2 DEF PlanFault, PlanOf, PlanTerm
<1>4. TermPlan(PlanTerm[PlanOf(ops)]) = PlanOf(ops)
  BY <1>3, PlanTerms
<1>5. CASE params.term = ""
  BY <1>2, <1>4, <1>5 DEF ResolveRecTerm, TermFound
<1>6. CASE params.term # ""
  <2>1. CASE CanonicalTerm(params.term) \notin {"1yr", "3yr"}
    <3>1. ResolveRecTerm(ops, params).term = CanonicalTerm(params.term)
      BY <1>2, <1>6, <2>1 DEF ResolveRecTerm, TermFound
    <3>2. TermPlan(params.term) = Nil /\ CanonicalTerm(params.term) = params.term
      BY <2>1 DEF CanonicalTerm
    <3> QED BY <3>1, <3>2
  <2>2. CASE CanonicalTerm(params.term) \in {"1yr", "3yr"}
    <3>1. CanonicalTerm(params.term) = PlanTerm[PlanOf(ops)]
      BY <1>2, <1>6, <2>2 DEF ResolveRecTerm, NoTerm
    <3>2. ResolveRecTerm(ops, params).term = PlanTerm[PlanOf(ops)]
      BY <1>2, <1>6, <2>2, <3>1 DEF ResolveRecTerm, TermFound
    <3> QED BY <1>4, <3>2
  <2> QED BY <2>1, <2>2
<1> QED BY <1>5, <1>6

(* What is converted without a fault can only be bought as recommended.    *)
LEMMA ConvertedAsAdvised ==
    ASSUME NEW raw, IsContent(raw), Fault(raw, read.params) = "none", NEW skus
    PROVE  BuysAsAdvised(raw, Enriched(Converted(raw, read.params), skus))
<1>1. PICK given : given = Enriched(Converted(raw, read.params), skus)
  OBVIOUS
<1>2. PICK conv : conv = Converted(raw, read.params)
  OBVIOUS
<1>3. /\ given.count = conv.count /\ given.memory = conv.memory /\ given.kind = conv.kind
      /\ given.term = conv.term /\ given.machine = conv.machine
  <2>1. DOMAIN conv = {"count", "memory", "kind", "term", "machine", "savings", "monthly", "onDemand"}
    BY <1>2 DEF Converted
  <2> QED BY <1>1, <1>2, <2>1 DEF Enriched
<1>4. conv.term = ResolveRecTerm(raw.ops, read.params).term
  BY <1>2 DEF Converted
<1>5. /\ ResolveRecTerm(raw.ops, read.params).fault = "none" /\ ResourceFault(raw.ops) = "none"
      /\ TermPlan(ResolveRecTerm(raw.ops, read.params).term) # Nil /\ ~Compound(raw.ops)
  <2>1. ResourceFault(raw.ops) = "none"
    BY FaultFree
  <2> QED BY <2>1, FaultFree DEF ResourceFault
<1> DEFINE order == [token |-> "", rec |-> given]
<1>6. SUFFICES ASSUME Buildable(order)
               PROVE  /\ Says(raw, "VCPU", given.count) /\ Says(raw, "MEMORY", given.memory)
                      /\ \A n \in {k \in Changing(raw) : raw.ops[k].path = "/"} :
                           /\ (read.params.planTerm /\ raw.ops[n].value.plan # "") => TermPlan(given.term) = raw.ops[n].value.plan
                           /\ raw.ops[n].value.type # "" =>
                                CommitmentTypeForRecommendation(given) = raw.ops[n].value.type
  BY <1>1 DEF BuysAsAdvised, ContentOf
<1>7. given.count > 0 /\ given.memory > 0 /\ CommitmentTypeForRecommendation(given) # Nil
  BY <1>6 DEF Buildable
<1>8. CASE Roots(raw.ops) # {}
  <2>1. PICK n \in DOMAIN raw.ops :
          Changing(raw) = {n} /\ Roots(raw.ops) = {n} /\ raw.ops[n].path = "/" /\ Root(raw.ops) = raw.ops[n].value
    BY <1>5, <1>8, RootAlone
  <2>2. RootDetailsFault(raw.ops[n].value) = "none"
    BY <1>5, <1>8, <2>1 DEF ResourceFault
  <2>3. /\ given.count = RootAmount(raw.ops[n].value.resources, "VCPU")
        /\ given.memory = RootAmount(raw.ops[n].value.resources, "MEMORY")
        /\ given.kind = raw.ops[n].value.type
    BY <1>2, <1>3, <1>8, <2>1 DEF Converted
  <2>4. Says(raw, "VCPU", given.count) /\ Says(raw, "MEMORY", given.memory)
    BY <2>1, <2>2, <2>3, RootSays
  <2>5. ASSUME read.params.planTerm, raw.ops[n].value.plan # "" PROVE TermPlan(given.term) = raw.ops[n].value.plan
    <3>1. PlanOf(raw.ops) = raw.ops[n].value.plan
      BY <1>8, <2>1 DEF PlanOf
    <3> QED BY <1>3, <1>4, <1>5, <1>8, <2>5, <3>1, PlanKept
  <2>6. ASSUME raw.ops[n].value.type # "" PROVE CommitmentTypeForRecommendation(given) = raw.ops[n].value.type
    BY <1>7, <2>3, <2>6 DEF CommitmentTypeForRecommendation, ConcreteCommitmentType
  <2> QED BY <2>1, <2>4, <2>5, <2>6
<1>9. CASE Roots(raw.ops) = {}
  <2>1. given.count = Amount(raw.ops, "VCPU") /\ given.memory = Amount(raw.ops, "MEMORY")
    BY <1>2, <1>3, <1>9 DEF Converted
  <2>2. AmountFaults(raw.ops, "VCPU") = "none" /\ AmountFaults(raw.ops, "MEMORY") = "none"
    <3>1. PICK a, c : a = AmountFaults(raw.ops, "VCPU") /\ c = AmountFaults(raw.ops, "MEMORY")
      OBVIOUS
    <3>2. PICK b : b = IF Sized(raw.ops) /\ Amount(raw.ops, "VCPU") = 0 THEN "error" ELSE "none"
      OBVIOUS
    <3>3. PICK faults : faults = <<a, b, c>>
      OBVIOUS
    <3>4. FirstFault(faults) = "none" /\ DOMAIN faults = 1..3
      BY <1>5, <1>9, <3>1, <3>2, <3>3 DEF ResourceFault
    <3>5. \A k \in 1..3 : faults[k] = "none"
      BY <3>4, NoFault
    <3> QED BY <3>1, <3>3, <3>5
  <2>3. Says(raw, "VCPU", given.count) /\ Says(raw, "MEMORY", given.memory)
    <3>1. Amount(raw.ops, "VCPU") # 0 /\ Amount(raw.ops, "MEMORY") # 0
      BY <1>7, <2>1
    <3> QED BY <1>9, <2>1, <2>2, <3>1, AmountSays
  <2>4. {k \in Changing(raw) : raw.ops[k].path = "/"} = {}
    BY <1>9 DEF Changing, Roots
  <2> QED BY <2>3, <2>4
<1> QED BY <1>8, <1>9

(* All a region returns was converted from where it says.                  *)
AdvisedInv ==
    read.op = "advise" =>
        \A r \in Regions : \A o \in region[r].out :
            \E k \in DOMAIN read.regions[r] : o.at = <<r, k>> /\ BuysAsAdvised(read.regions[r][k], o.rec)

LEMMA NextContent == ASSUME AdviceInv, AdvisedInv, [GcpReadNext]_gcpReadVars PROVE AdvisedInv'
<1> SUFFICES ASSUME read'.op = "advise"
             PROVE  \A r \in Regions' : \A o \in region'[r].out :
                      \E k \in DOMAIN read'.regions[r] :
                         o.at = <<r, k>> /\ BuysAsAdvised(read.regions[r][k], o.rec)'
  BY DEF AdvisedInv
<1>1. read' = read
  BY DEF GcpReadNext, StartRegion, PassInactive, RecordSkip, RefuseRegion, ConvertRec, FinishRegion, RegionFails,
         MergeRegions, NoRegions, GcpReadFails, ListCommitments, ValidTypes, OfferingDetails, Answered, Untouched, gcpReadVars
<1>2. FanOutInv /\ Regions' = Regions /\ read.op = "advise"
  BY <1>1 DEF AdviceInv, Regions
<1>3. \A raw, given : BuysAsAdvised(raw, given)' <=> BuysAsAdvised(raw, given)
  BY <1>1 DEF BuysAsAdvised
<1> DEFINE Advised(r, o) ==
             \E k \in DOMAIN read.regions[r] : o.at = <<r, k>> /\ BuysAsAdvised(read.regions[r][k], o.rec)
<1>4. SUFFICES \A r \in Regions : \A o \in region'[r].out : Advised(r, o)
  BY <1>1, <1>2, <1>3
<1>5. \A r \in Regions : \A o \in region[r].out : Advised(r, o)
  BY <1>2 DEF AdvisedInv
<1> HIDE DEF Advised
<1>6. CASE region' = region
  BY <1>5, <1>6
<1>7. ASSUME NEW r \in Regions, StartRegion(r) \/ PassInactive(r) \/ RecordSkip(r) \/ RefuseRegion(r)
                                \/ FinishRegion(r) \/ RegionFails(r)
      PROVE  \A q \in Regions : region'[q].out = region[q].out \/ region'[q].out = {}
  BY <1>2, <1>7 DEF FanOutInv, RegionShape, StartRegion, PassInactive, RecordSkip, RefuseRegion, FinishRegion, RegionFails
<1>8. ASSUME NEW r \in Regions, ConvertRec(r) PROVE \A q \in Regions : \A o \in region'[q].out : Advised(q, o)
  <2>1. PICK skus :
          region' = [region EXCEPT ![r].out = @ \cup {[at |-> Here(r), rec |-> Enriched(Converted(NextRec(r), read.params), skus)]},
                                   ![r].cached = skus # Nil, ![r].read = @ + 1]
    BY <1>8 DEF ConvertRec
  <2>2. PICK given : given = [at |-> Here(r), rec |-> Enriched(Converted(NextRec(r), read.params), skus)]
    OBVIOUS
  <2>3. /\ region'[r].out = region[r].out \cup {given}
        /\ \A q \in Regions : q # r => region'[q].out = region[q].out
    BY <1>2, <2>1, <2>2 DEF FanOutInv, RegionShape
  <2>4. PICK k : k = region[r].read + 1
    OBVIOUS
  <2>5. k \in DOMAIN read.regions[r]
    <3>1. region[r].read \in Nat /\ region[r].read < Len(read.regions[r])
      BY <1>2, <1>8, RegionLengths DEF FanOutInv, RegionInv, Accounted, ConvertRec, Reading, HasNext
    <3> QED BY <1>2, <2>4, <3>1, RegionLengths
  <2>6. NextRec(r) = read.regions[r][k] /\ given.at = <<r, k>>
        /\ given.rec = Enriched(Converted(read.regions[r][k], read.params), skus)
    BY <2>2, <2>4 DEF NextRec, Here
  <2>7. IsContent(read.regions[r][k])
    BY <1>2, <2>5, GcpReadsAssumption DEF GcpReadsAssumption, AdviceInv, Regions, IsContent, IsList, Range
  <2>8. Fault(read.regions[r][k], read.params) = "none"
    BY <1>8, <2>6 DEF ConvertRec, FaultNext
  <2>9. Advised(r, given)
    BY <2>5, <2>6, <2>7, <2>8, ConvertedAsAdvised DEF Advised
  <2> QED BY <1>5, <2>3, <2>9
<1>9. region' = region \/ \E r \in DOMAIN region :
         StartRegion(r) \/ PassInactive(r) \/ RecordSkip(r) \/ RefuseRegion(r) \/ ConvertRec(r) \/ FinishRegion(r) \/ RegionFails(r)
  BY DEF GcpReadNext, MergeRegions, NoRegions, GcpReadFails, ListCommitments, ValidTypes, OfferingDetails, Answered, gcpReadVars
<1>10. DOMAIN region = Regions
  BY <1>2 DEF FanOutInv
<1> QED BY <1>5, <1>6, <1>7, <1>8, <1>9, <1>10


(* However the reads interleave and fail, and whatever GCP recommends: each*)
(* active recommendation is accounted for, and what is returned can only be*)
(* bought with the amounts, the plan and the type of the recommendation it *)
(* comes from (convertGCPRecommendation, rootCommitmentDetails,            *)
(* resolveRecTerm, buildInsertRequest).                                    *)
THEOREM AdviceIsAccounted == AdviceSpec => []GcpAdviceAccounted
<1>1. GcpReadInit => AdvisedInv
  BY DEF GcpReadInit, AdvisedInv
<1>2. AdviceInv /\ AdvisedInv /\ [GcpReadNext]_gcpReadVars => AdvisedInv'
  BY NextContent
<1>3. AdviceInv /\ AdvisedInv /\ AdviceEnded =>
        \A o \in AdviceGiven : BuysAsAdvised(read.regions[o.at[1]][o.at[2]], o.rec)
  <2> SUFFICES ASSUME AdviceInv, AdvisedInv, AdviceEnded, NEW o \in AdviceGiven
               PROVE  BuysAsAdvised(read.regions[o.at[1]][o.at[2]], o.rec)
    OBVIOUS
  <2>1. FanOutInv /\ read.op = "advise"
    BY DEF AdviceInv, AdviceEnded
  <2>2. AdviceGiven = Merged
    <3>1. reply = WithSkips(Merged)
      BY <2>1 DEF FanOutInv, ReplyInv, AdviceEnded
    <3> QED BY <3>1 DEF WithSkips, AdviceGiven
  <2>3. PICK r \in Regions : o \in region[r].out
    BY <2>2 DEF Merged
  <2>4. PICK k \in DOMAIN read.regions[r] : o.at = <<r, k>> /\ BuysAsAdvised(read.regions[r][k], o.rec)
    BY <2>1, <2>3 DEF AdvisedInv
  <2> QED BY <2>4
<1>4. (AdviceEnded => AllAccounted)
      /\ (AdviceEnded => \A o \in AdviceGiven : BuysAsAdvised(read.regions[o.at[1]][o.at[2]], o.rec))
      => GcpAdviceAccounted
  BY DEF GcpAdviceAccounted
<1> QED BY <1>1, <1>2, <1>3, <1>4, AdviceInvHolds, AdviceIsWhole, PTL DEF AdviceSpec

-----------------------------------------------------------------------------
(* Azure: what is exchanged is what was priced.                            *)

AzureExchangeSpec == AzureExchangeInit /\ [][AzureExchangeNext]_exchangeVars

(* What a session may return and buy.                                      *)
Returnable == UNION {Exchangeable(pages) : pages \in Inventories}
Sold == Seq(Returnable)
BoughtFor(s) == {ToPurchase(s, t) : t \in TargetLists}
Bought == UNION {BoughtFor(s) : s \in Sold}
Sessions ==
    [sources : Sold, bought : Bought, currency : {"USD", "EUR", ""}, done : BOOLEAN]

(* The inductive invariant.  A session is carried out only by a caller that*)
(* was handed it, and CalculateExchange hands out none that is not in US   *)
(* dollars; the check of the scopes stays in what the session was opened   *)
(* with.                                                                   *)
AsPriced(s) ==
    /\ SourcesValid(s.sources)
    /\ \E t \in TargetLists : s.bought = ToPurchase(s.sources, t)
    /\ s.done => CurrencyAccepted(s.currency)

ExchangerInv(e) ==
    /\ exchanger[e].listed \subseteq Returnable
    /\ ExchangerAt(e, "priced") =>
         exchanger[e].session \in DOMAIN sessions /\ CurrencyAccepted(sessions[exchanger[e].session].currency)

SessionsInv ==
    /\ sessions \in Seq(Sessions)
    /\ \A s \in DOMAIN sessions : AsPriced(sessions[s])
    /\ \A s \in reported : s \in DOMAIN sessions /\ sessions[s].done

ExchangeInv ==
    /\ inventory \in Inventories /\ DOMAIN exchanger = Exchangers
    /\ \A e \in Exchangers : ExchangerInv(e)
    /\ SessionsInv

LEMMA ExchangerFrame ==
    ASSUME ExchangeInv, NEW e \in Exchangers, NEW new, ExchangerDoes(e, new),
           UNCHANGED <<inventory, sessions>>, new.listed \subseteq Returnable, new.pc # "priced"
    PROVE  DOMAIN exchanger' = Exchangers /\ \A x \in Exchangers : ExchangerInv(x)'
<1>1. DOMAIN exchanger' = Exchangers /\ exchanger'[e] = new
      /\ \A x \in Exchangers \ {e} : exchanger'[x] = exchanger[x]
  BY DEF ExchangeInv, ExchangerDoes
<1> QED BY <1>1 DEF ExchangeInv, ExchangerInv, ExchangerAt

LEMMA InventoryStep == ASSUME ExchangeInv, NEW pages \in Inventories, InventoryChanges(pages) PROVE ExchangeInv'
BY DEF InventoryChanges, ExchangeInv, ExchangerInv, ExchangerAt, SessionsInv

LEMMA ListStep == ASSUME ExchangeInv, NEW e \in Exchangers, ListExchangeable(e) PROVE ExchangeInv'
<1> DEFINE new == [pc |-> "listed", listed |-> Exchangeable(inventory), session |-> Nil]
<1>1. ExchangerDoes(e, new) /\ UNCHANGED <<inventory, sessions, reported>>
  BY DEF ListExchangeable
<1>2. new.listed \subseteq Returnable /\ new.pc # "priced"
  <2>1. inventory \in Inventories
    BY DEF ExchangeInv
  <2> QED BY <2>1 DEF Returnable
<1> HIDE DEF new
<1>3. DOMAIN exchanger' = Exchangers /\ \A x \in Exchangers : ExchangerInv(x)'
  BY <1>1, <1>2, ExchangerFrame
<1>4. SessionsInv'
  BY <1>1 DEF ExchangeInv, SessionsInv
<1> QED BY <1>1, <1>3, <1>4 DEF ExchangeInv

LEMMA EndStep ==
    ASSUME ExchangeInv, NEW e \in Exchangers, EndExchange(e), UNCHANGED <<inventory, sessions>>
    PROVE  DOMAIN exchanger' = Exchangers /\ \A x \in Exchangers : ExchangerInv(x)'
<1> DEFINE new == NoExchange
<1>1. ExchangerDoes(e, new)
  BY DEF EndExchange
<1>2. new.listed \subseteq Returnable /\ new.pc # "priced"
  BY DEF NoExchange
<1> HIDE DEF new
<1> QED BY <1>1, <1>2, ExchangerFrame

LEMMA RefuseStep ==
    ASSUME ExchangeInv, NEW e \in Exchangers, RefuseExchange(e)
    PROVE  ExchangeInv'
<1>1. EndExchange(e) /\ UNCHANGED <<inventory, sessions, reported>>
  BY DEF RefuseExchange
<1>2. DOMAIN exchanger' = Exchangers /\ \A x \in Exchangers : ExchangerInv(x)'
  BY <1>1, EndStep
<1>3. SessionsInv'
  BY <1>1 DEF ExchangeInv, SessionsInv
<1> QED BY <1>1, <1>2, <1>3 DEF ExchangeInv

LEMMA SourcesAreEligible ==
    ASSUME ExchangeInv, NEW e \in Exchangers, NEW sources \in SourceLists(exchanger[e].listed)
    PROVE  sources \in Sold
<1>1. exchanger[e].listed \subseteq Returnable
  BY DEF ExchangeInv, ExchangerInv
<1>2. \A a, b \in Returnable : <<a>> \in Sold /\ <<a, b>> \in Sold
  BY DEF Sold
<1>3. <<>> \in Sold
  BY DEF Sold
<1>4. \/ sources = <<>>
      \/ \E a \in exchanger[e].listed : sources = <<a>>
      \/ \E a \in exchanger[e].listed, b \in exchanger[e].listed : sources = <<a, b>>
  BY DEF SourceLists
<1> QED BY <1>1, <1>2, <1>3, <1>4

LEMMA OneMoreSession ==
    ASSUME ExchangeInv, NEW o \in Sessions, AsPriced(o), sessions' = Append(sessions, o),
           UNCHANGED <<inventory, reported>>
    PROVE  /\ SessionsInv' /\ Len(sessions') \in DOMAIN sessions' /\ sessions'[Len(sessions')] = o
           /\ \A s \in DOMAIN sessions : s \in DOMAIN sessions' /\ sessions'[s] = sessions[s]
<1>1. sessions \in Seq(Sessions)
  BY DEF ExchangeInv, SessionsInv
<1>3. /\ sessions' \in Seq(Sessions)
      /\ DOMAIN sessions' = DOMAIN sessions \cup {Len(sessions')}
      /\ sessions'[Len(sessions')] = o
      /\ \A s \in DOMAIN sessions : sessions'[s] = sessions[s]
  BY <1>1
<1>4. \A s \in DOMAIN sessions' : AsPriced(sessions'[s])
  BY <1>3 DEF ExchangeInv, SessionsInv
<1>5. \A s \in reported' : s \in DOMAIN sessions' /\ sessions'[s].done
  BY <1>3 DEF ExchangeInv, SessionsInv
<1> QED BY <1>3, <1>4, <1>5 DEF SessionsInv

LEMMA CalculateStep ==
    ASSUME ExchangeInv, NEW e \in Exchangers, NEW sources \in SourceLists(exchanger[e].listed),
           NEW targets \in TargetLists, Calculate(e, sources, targets)
    PROVE  ExchangeInv'
<1>1. PICK currency \in {"USD", "EUR", ""} :
         /\ sessions' = Append(sessions, Opened(sources, targets, currency))
         /\ \/ /\ CurrencyAccepted(currency)
               /\ ExchangerDoes(e, [pc |-> "priced", listed |-> {}, session |-> Len(sessions')])
            \/ EndExchange(e)
  BY DEF Calculate
<1> DEFINE o == Opened(sources, targets, currency)
<1>2. UNCHANGED <<inventory, reported>> /\ SourcesValid(sources)
  BY DEF Calculate
<1>3. sources \in Sold
  BY SourcesAreEligible
<1>4. o \in Sessions /\ o.currency = currency
  <2>1. ToPurchase(sources, targets) \in Bought
    <3>1. ToPurchase(sources, targets) \in BoughtFor(sources)
      BY DEF BoughtFor
    <3>2. BoughtFor(sources) \in {BoughtFor(s) : s \in Sold}
      BY <1>3
    <3> QED BY <3>1, <3>2 DEF Bought
  <2> QED BY <1>3, <2>1 DEF Opened, Sessions
<1>5. AsPriced(o)
  BY <1>2 DEF Opened, AsPriced
<1> HIDE DEF o
<1>6. /\ SessionsInv' /\ Len(sessions') \in DOMAIN sessions' /\ sessions'[Len(sessions')] = o
      /\ \A s \in DOMAIN sessions : s \in DOMAIN sessions' /\ sessions'[s] = sessions[s]
  <2>1. sessions' = Append(sessions, o)
    BY <1>1 DEF o
  <2> QED BY <2>1, <1>2, <1>4, <1>5, OneMoreSession
<1>7. /\ DOMAIN exchanger' = Exchangers
      /\ \A x \in Exchangers \ {e} : exchanger'[x] = exchanger[x]
  BY <1>1 DEF ExchangeInv, EndExchange, ExchangerDoes
<1>8. /\ exchanger'[e].listed = {}
      /\ exchanger'[e].pc = "priced" => exchanger'[e].session = Len(sessions') /\ CurrencyAccepted(currency)
  <2>1. CASE EndExchange(e)
    <3>1. exchanger'[e] = NoExchange
      BY <2>1 DEF ExchangeInv, EndExchange, ExchangerDoes
    <3>2. NoExchange.listed = {} /\ NoExchange.pc # "priced"
      BY DEF NoExchange
    <3> QED BY <3>1, <3>2, Zenon
  <2>2. CASE CurrencyAccepted(currency) /\ ExchangerDoes(e, [pc |-> "priced", listed |-> {}, session |-> Len(sessions')])
    <3>1. exchanger'[e] = [pc |-> "priced", listed |-> {}, session |-> Len(sessions')]
      BY <2>2 DEF ExchangeInv, ExchangerDoes
    <3> QED BY <2>2, <3>1 DEF CurrencyAccepted
  <2> QED BY <1>1, <2>1, <2>2
<1>10. ExchangerInv(e)'
  BY <1>4, <1>6, <1>7, <1>8 DEF ExchangerInv, ExchangerAt
<1>11. ASSUME NEW x \in Exchangers, x # e PROVE ExchangerInv(x)'
  BY <1>6, <1>7, <1>11 DEF ExchangeInv, ExchangerInv, ExchangerAt
<1> QED BY <1>2, <1>6, <1>7, <1>10, <1>11 DEF ExchangeInv

LEMMA ExecuteStep ==
    ASSUME ExchangeInv, NEW e \in Exchangers, NEW done \in BOOLEAN, Execute(e, done)
    PROVE  ExchangeInv'
<1> DEFINE k == exchanger[e].session
<1>1. k \in DOMAIN sessions /\ CurrencyAccepted(sessions[k].currency)
  BY DEF ExchangeInv, ExchangerInv, Execute
<1>2. /\ sessions' = [sessions EXCEPT ![k].done = done] /\ (sessions[k].done => done)
      /\ UNCHANGED inventory /\ (EndExchange(e) \/ UNCHANGED exchanger)
  BY DEF Execute
<1>3. reported' = reported \/ (done /\ reported' = reported \cup {k})
  <2>1. ASSUME NEW given \in ExecuteAnswers(FALSE) PROVE ~ExecutionHolds(given)
    BY <2>1 DEF ExecuteAnswers, ExecutionHolds, ExchangeStatusAccepted
  <2>2. PICK given \in ExecuteAnswers(done) :
          reported' = (IF ExecutionHolds(given) THEN reported \cup {k} ELSE reported)
    BY DEF Execute
  <2>3. CASE done = TRUE
    BY <2>2, <2>3
  <2>4. CASE done = FALSE
    BY <2>1, <2>2, <2>4
  <2> QED BY <2>3, <2>4
<1> HIDE DEF k
<1>4. sessions \in Seq(Sessions) /\ \A s \in DOMAIN sessions : AsPriced(sessions[s])
  BY DEF ExchangeInv, SessionsInv
<1>5. sessions[k] \in Sessions
  BY <1>1, <1>4
<1>6. /\ DOMAIN sessions' = DOMAIN sessions /\ \A s \in DOMAIN sessions \ {k} : sessions'[s] = sessions[s]
      /\ sessions'[k] = [sessions[k] EXCEPT !.done = done]
  BY <1>1, <1>2, <1>4
<1>7. /\ sessions'[k].sources = sessions[k].sources /\ sessions'[k].bought = sessions[k].bought
      /\ sessions'[k].currency = sessions[k].currency /\ sessions'[k].done = done
      /\ sessions'[k] \in Sessions
  BY <1>5, <1>6 DEF Sessions
<1>8. sessions' \in Seq(Sessions)
  <2>1. Len(sessions) \in Nat /\ DOMAIN sessions' = 1..Len(sessions)
    BY <1>4, <1>6
  <2>2. \A s \in 1..Len(sessions) : sessions'[s] \in Sessions
    BY <1>4, <1>6, <1>7, <2>1
  <2>3. sessions' = [s \in 1..Len(sessions) |-> sessions'[s]]
    BY <1>2, <1>4, <2>1
  <2> QED BY <2>1, <2>2, <2>3
<1>10. AsPriced(sessions'[k])
  BY <1>1, <1>4, <1>7 DEF AsPriced
<1>11. \A s \in reported' : s \in DOMAIN sessions' /\ sessions'[s].done
  <2>1. \A s \in reported : s \in DOMAIN sessions /\ sessions[s].done
    BY DEF ExchangeInv, SessionsInv
  <2> QED BY <1>1, <1>2, <1>3, <1>6, <1>7, <2>1
<1>12. SessionsInv'
  BY <1>4, <1>6, <1>8, <1>10, <1>11 DEF SessionsInv
<1>13. \A s \in DOMAIN sessions : s \in DOMAIN sessions' /\ sessions'[s].currency = sessions[s].currency
  BY <1>6, <1>7
<1>14. DOMAIN exchanger' = Exchangers /\ \A x \in Exchangers : exchanger'[x] = exchanger[x] \/ exchanger'[x] = NoExchange
  BY <1>2 DEF ExchangeInv, EndExchange, ExchangerDoes
<1>15. ASSUME NEW x \in Exchangers PROVE ExchangerInv(x)'
  <2>1. CASE exchanger'[x] = exchanger[x]
    BY <1>13, <2>1 DEF ExchangeInv, ExchangerInv, ExchangerAt
  <2>2. CASE exchanger'[x] = NoExchange
    BY <2>2 DEF NoExchange, ExchangerInv, ExchangerAt
  <2> QED BY <1>14, <2>1, <2>2
<1> QED BY <1>2, <1>12, <1>14, <1>15 DEF ExchangeInv

LEMMA ExchangeInvHolds == AzureExchangeSpec => []ExchangeInv
<1>1. AzureExchangeInit => ExchangeInv
  <2> SUFFICES ASSUME AzureExchangeInit PROVE ExchangeInv
    OBVIOUS
  <2>1. \A e \in Exchangers : ExchangerInv(e)
    BY DEF AzureExchangeInit, ExchangerInv, ExchangerAt, NoExchange
  <2>2. SessionsInv
    BY DEF AzureExchangeInit, SessionsInv
  <2> QED BY <2>1, <2>2 DEF AzureExchangeInit, ExchangeInv
<1>2. ExchangeInv /\ [AzureExchangeNext]_exchangeVars => ExchangeInv'
  <2> SUFFICES ASSUME ExchangeInv, [AzureExchangeNext]_exchangeVars PROVE ExchangeInv'
    OBVIOUS
  <2>1. CASE UNCHANGED exchangeVars
    <3>1. UNCHANGED <<inventory, exchanger, sessions, reported>>
      BY <2>1 DEF exchangeVars
    <3> QED BY <3>1 DEF ExchangeInv, ExchangerInv, ExchangerAt, SessionsInv
  <2>2. CASE AzureExchangeNext
    BY <2>2, InventoryStep, ListStep, CalculateStep, RefuseStep, ExecuteStep DEF AzureExchangeNext
  <2> QED BY <2>1, <2>2
<1> QED BY <1>1, <1>2, PTL DEF AzureExchangeSpec

(* For any number of callers, reservations and repeated commits: whatever  *)
(* Azure exchanged was priced in US dollars, keeps the scope of all it     *)
(* returns, returns flexible reservations only, and what ExecuteExchange   *)
(* reports as exchanged was (validateExchangeSources, CalculateExchange,   *)
(* exchangeStatusAccepted).                                                *)
THEOREM ExchangedAsPriced == AzureExchangeSpec => []AzureExchangeIsAsPriced
<1>1. ASSUME ExchangeInv PROVE AzureExchangeIsAsPriced
  <2>1. \A s \in reported : sessions[s].done
    BY <1>1 DEF ExchangeInv, SessionsInv
  <2>2. ASSUME NEW s \in DOMAIN sessions, sessions[s].done PROVE sessions[s].currency = "USD"
    BY <1>1, <2>2 DEF ExchangeInv, SessionsInv, AsPriced, CurrencyAccepted
  <2>3. ASSUME NEW s \in DOMAIN sessions, NEW n \in DOMAIN sessions[s].sources, NEW k \in DOMAIN sessions[s].bought
        PROVE  LET source == sessions[s].sources[n]  bought == sessions[s].bought[k]
               IN  /\ source.flexible /\ bought.scopeType = source.scopeType
                   /\ source.scopeType = "Single" => bought.scopes = source.scopes
    <3> DEFINE sources == sessions[s].sources
    <3>1. sources \in Sold
      <4>1. sessions[s] \in Sessions
        BY <1>1 DEF ExchangeInv, SessionsInv
      <4> QED BY <4>1 DEF Sessions
    <3>2. sources[n].flexible
      BY <3>1 DEF Sold, Returnable, Exchangeable, IsExchangeEligible
    <3>3. SameAppliedScope(sources[n], sources[1])
      BY <1>1 DEF ExchangeInv, SessionsInv, AsPriced, SourcesValid
    <3>4. PICK t \in TargetLists : sessions[s].bought = ToPurchase(sources, t)
      BY <1>1 DEF ExchangeInv, SessionsInv, AsPriced
    <3>5. /\ sessions[s].bought[k].scopeType = sources[1].scopeType
          /\ sources[1].scopeType = "Single" => sessions[s].bought[k].scopes = sources[1].scopes
      BY <3>4 DEF ToPurchase
    <3> QED BY <3>2, <3>3, <3>5 DEF SameAppliedScope
  <2> QED BY <2>1, <2>2, <2>3 DEF AzureExchangeIsAsPriced
<1> QED BY <1>1, ExchangeInvHolds, PTL

-----------------------------------------------------------------------------
(* The purchase audit log: records never merge, a success is durable and   *)
(* the lock is released, for every number of processes and power losses.   *)

USE ConstantsAssumption DEF ConstantsAssumption

(* The places of a call that only the holder of the lock can be in.        *)
Transaction ==
    {"late", "parents", "inspect", "repair", "repairsync", "write", "sync",
     "terminate", "terminatesync", "unlock"}

(* The places in which a call is about to write or has written its record. *)
Appending ==
    {"inspect", "repair", "repairsync", "write", "sync", "terminate", "terminatesync"}

Held == \A c \in Calls : pc[c] \in Transaction => holder = c

CleanTail == \A c \in Calls : pc[c] \in {"repairsync", "write"} => ~NeedsRecordSeparator

(* The line of call c is in the log from position i on.                    *)
LineAt(c, i) ==
    /\ file[i] = [by |-> c, part |-> "head"]
    /\ file[i + 1] = [by |-> c, part |-> "tail"]
    /\ file[i + 2] = Newline(c)

Recorded(c) == linked /\ \E i \in 1..(durable - 2) : LineAt(c, i)

(* Where the record of each call is, by the place the call is in.          *)
Durability ==
    \A c \in Calls :
        /\ pc[c] \in Appending => linked
        /\ pc[c] \in {"terminate", "terminatesync"} => failed[c]
        /\ pc[c] = "sync" => Len(file) >= 3 /\ LineAt(c, Len(file) - 2)
        /\ (pc[c] \in {"unlock", "close"} /\ ~failed[c] /\ ~probe[c]) => Recorded(c)
        /\ (result[c] = "success" /\ ~probe[c]) => Recorded(c)
        /\ result[c] # "none" => pc[c] = "done"

Inv == TypeOK /\ Held /\ LockIsReleased /\ CleanTail /\ RecordsNeverMerge /\ Durability

LEMMA InitInv == Init => Inv
<1> SUFFICES ASSUME Init PROVE Inv OBVIOUS
<1>1. TypeOK
  <2>1. file \in Seq(Symbols) /\ Len(file) = 0 /\ durable = 0
    BY DEF Init
  <2>2. /\ pc \in [Calls -> PCs] /\ result \in [Calls -> {"none", "success", "error"}]
        /\ probe \in [Calls -> BOOLEAN] /\ failed \in [Calls -> BOOLEAN]
    BY DEF Init, PCs
  <2>3. holder \in Calls \cup {Free} /\ linked \in BOOLEAN
    BY DEF Init
  <2>4. losses \in 0..MaxLosses
    BY DEF Init
  <2> QED BY <2>1, <2>2, <2>3, <2>4 DEF TypeOK
<1>2. Held /\ LockIsReleased /\ CleanTail /\ RecordsNeverMerge
  BY DEF Init, Held, LockIsReleased, CleanTail, RecordsNeverMerge, Transaction
<1>3. Durability
  BY DEF Init, Durability, Appending
<1> QED BY <1>1, <1>2, <1>3 DEF Inv

-----------------------------------------------------------------------------
(* Lemmas about the content of the log.                                    *)

LEMMA Parts ==
    ASSUME NEW c \in Calls
    PROVE  /\ [by |-> c, part |-> "head"].part = "head"
           /\ Newline(c).part = "newline"
           /\ [[by |-> c, part |-> "head"] EXCEPT !.part = "tail"] = [by |-> c, part |-> "tail"]
BY DEF Newline

(* A newline can follow anything.                                          *)
LEMMA NewlineMergesNothing ==
    ASSUME TypeOK, RecordsNeverMerge, NEW c \in Calls, file' = Append(file, Newline(c))
    PROVE  /\ file' \in Seq(Symbols) /\ Len(file') = Len(file) + 1
           /\ \A i \in 1..Len(file) : file'[i] = file[i]
           /\ RecordsNeverMerge'
<1>1. Newline(c) \in Symbols /\ file \in Seq(Symbols)
  BY DEF Newline, Symbols, TypeOK
<1>2. /\ file' \in Seq(Symbols) /\ Len(file') = Len(file) + 1
      /\ \A i \in 1..Len(file) : file'[i] = file[i]
      /\ file'[Len(file) + 1] = Newline(c)
  BY <1>1
<1>3. file'[Len(file) + 1].part = "newline"
  BY <1>2 DEF Newline
<1>4. RecordsNeverMerge'
  <2> SUFFICES ASSUME NEW i \in 1..(Len(file') - 1),
                      file'[i].part # "newline", file'[i + 1].part # "newline"
               PROVE  file'[i + 1] = [file'[i] EXCEPT !.part = "tail"] /\ file'[i].part = "head"
    BY DEF RecordsNeverMerge
  <2>1. i \in 1..(Len(file) - 1) /\ i + 1 \in 1..Len(file) /\ i \in 1..Len(file)
    BY <1>1, <1>2, <1>3
  <2> QED BY <1>2, <2>1 DEF RecordsNeverMerge
<1> QED BY <1>2, <1>4

LEMMA Prefix ==
    ASSUME NEW S, NEW q \in Seq(S), NEW n \in 0..Len(q)
    PROVE  /\ SubSeq(q, 1, n) \in Seq(S) /\ Len(SubSeq(q, 1, n)) = n
           /\ \A i \in 1..n : SubSeq(q, 1, n)[i] = q[i]
OBVIOUS

(* What a write of the first n symbols of a line adds.                     *)
LEMMA LinePrefix ==
    ASSUME TypeOK, NEW c \in Calls, NEW n \in 0..Len(Line(c)),
           file' = file \o SubSeq(Line(c), 1, n)
    PROVE  /\ n \in 0..3 /\ Len(Line(c)) = 3
           /\ file' \in Seq(Symbols) /\ Len(file') = Len(file) + n
           /\ \A i \in 1..Len(file) : file'[i] = file[i]
           /\ n >= 1 => file'[Len(file) + 1] = [by |-> c, part |-> "head"]
           /\ n >= 2 => file'[Len(file) + 2] = [by |-> c, part |-> "tail"]
           /\ n >= 3 => file'[Len(file) + 3] = Newline(c)
<1>1. /\ Line(c) \in Seq(Symbols) /\ Len(Line(c)) = 3
      /\ Line(c)[1] = [by |-> c, part |-> "head"]
      /\ Line(c)[2] = [by |-> c, part |-> "tail"]
      /\ Line(c)[3] = Newline(c)
  BY DEF Line, Newline, Symbols
<1>2. n \in 0..3
  BY <1>1
<1> DEFINE s == SubSeq(Line(c), 1, n)
<1>3. s \in Seq(Symbols) /\ Len(s) = n /\ \A i \in 1..n : s[i] = Line(c)[i]
  BY <1>1, <1>2, Prefix
<1>4. file \in Seq(Symbols)
  BY DEF TypeOK
<1> HIDE DEF s
<1>5. /\ file \o s \in Seq(Symbols) /\ Len(file \o s) = Len(file) + n
      /\ \A i \in 1..Len(file) : (file \o s)[i] = file[i]
      /\ \A i \in 1..n : (file \o s)[Len(file) + i] = s[i]
  BY <1>2, <1>3, <1>4
<1>6. file' = file \o s
  BY DEF s
<1> QED BY <1>1, <1>2, <1>3, <1>5, <1>6

(* On a clean tail a line, whole or not, merges with nothing.              *)
LEMMA LineMergesNothing ==
    ASSUME TypeOK, RecordsNeverMerge, ~NeedsRecordSeparator, NEW c \in Calls,
           NEW n \in 0..Len(Line(c)), file' = file \o SubSeq(Line(c), 1, n)
    PROVE  RecordsNeverMerge'
<1> SUFFICES ASSUME NEW i \in 1..(Len(file') - 1),
                    file'[i].part # "newline", file'[i + 1].part # "newline"
             PROVE  file'[i + 1] = [file'[i] EXCEPT !.part = "tail"] /\ file'[i].part = "head"
  BY DEF RecordsNeverMerge
<1>1. /\ n \in 0..3
      /\ file' \in Seq(Symbols) /\ Len(file') = Len(file) + n
      /\ \A j \in 1..Len(file) : file'[j] = file[j]
      /\ n >= 1 => file'[Len(file) + 1] = [by |-> c, part |-> "head"]
      /\ n >= 2 => file'[Len(file) + 2] = [by |-> c, part |-> "tail"]
      /\ n >= 3 => file'[Len(file) + 3] = Newline(c)
  BY LinePrefix
<1>2. Len(file) \in Nat /\ i \in Nat /\ i >= 1 /\ i <= Len(file) + n - 1
  BY <1>1 DEF TypeOK
<1>3. CASE i < Len(file)
  <2>1. i \in 1..(Len(file) - 1) /\ i + 1 \in 1..Len(file) /\ i \in 1..Len(file)
    BY <1>2, <1>3
  <2> QED BY <1>1, <2>1 DEF RecordsNeverMerge
<1>4. CASE i = Len(file)
  <2>1. file # <<>> /\ file'[i] = file[Len(file)]
    BY <1>1, <1>2, <1>4
  <2> QED BY <2>1 DEF NeedsRecordSeparator
<1>5. CASE i = Len(file) + 1
  <2>1. n >= 2 /\ i + 1 = Len(file) + 2
    BY <1>1, <1>2, <1>5
  <2>2. /\ file'[i] = [by |-> c, part |-> "head"]
        /\ file'[i + 1] = [by |-> c, part |-> "tail"]
    BY <1>1, <1>5, <2>1
  <2> QED BY <2>2, Parts, Zenon
<1>6. CASE i = Len(file) + 2
  <2>1. n >= 3
    BY <1>1, <1>2, <1>6
  <2>2. i + 1 = Len(file) + 3
    BY <1>2, <1>6
  <2>3. file'[i + 1] = Newline(c)
    BY <1>1, <2>1, <2>2
  <2> QED BY <2>3, Parts
<1>7. i < Len(file) \/ i = Len(file) \/ i = Len(file) + 1 \/ i = Len(file) + 2
  <2>1. n \in 0..3
    BY <1>1
  <2>2. \A k, l \in Nat : \A m \in 0..3 :
          k <= l + m - 1 => k < l \/ k = l \/ k = l + 1 \/ k = l + 2
    OBVIOUS
  <2> QED BY <1>2, <2>1, <2>2, Zenon
<1> QED BY <1>3, <1>4, <1>5, <1>6, <1>7

(* A record that is durable stays where it is as long as the durable part  *)
(* of the log does.                                                        *)
LEMMA RecordedStays ==
    ASSUME TypeOK, NEW c \in Calls, Recorded(c), linked => linked',
           durable' \in Int, durable' >= durable,
           \A i \in 1..durable : file'[i] = file[i]
    PROVE  Recorded(c)'
<1>1. PICK i \in 1..(durable - 2) : LineAt(c, i)
  BY DEF Recorded
<1>2. durable \in Nat
  BY DEF TypeOK
<1>3. i \in 1..durable /\ i + 1 \in 1..durable /\ i + 2 \in 1..durable
  BY <1>1, <1>2
<1>5. i \in 1..(durable' - 2)
  <2>1. \A d, e \in Int : e >= d => \A k \in 1..(d - 2) : k \in 1..(e - 2)
    OBVIOUS
  <2>2. durable \in Int
    BY <1>2
  <2> QED BY <2>1, <2>2, Zenon
<1>4. LineAt(c, i)'
  <2>1. file'[i] = file[i] /\ file'[i + 1] = file[i + 1] /\ file'[i + 2] = file[i + 2]
    BY <1>3
  <2> QED BY <1>1, <2>1, Zenon DEF LineAt, Newline
<1> QED BY <1>4, <1>5 DEF Recorded

-----------------------------------------------------------------------------
(* A step of one call that does not touch the content of the log.          *)
LEMMA QuietInv ==
    ASSUME Inv, NEW c \in Calls, NEW l \in PCs,
           pc' = [pc EXCEPT ![c] = l],
           file' = file, losses' = losses,
           probe' \in [Calls -> BOOLEAN], failed' \in [Calls -> BOOLEAN],
           result' \in [Calls -> {"none", "success", "error"}],
           \A d \in Calls : d # c =>
               probe'[d] = probe[d] /\ failed'[d] = failed[d] /\ result'[d] = result[d],
           durable' \in {durable, Len(file)}, linked' \in {linked, TRUE},
           \/ holder' = holder
           \/ holder = Free /\ holder' = c
           \/ holder = c /\ holder' = Free,
           l \in Transaction => holder' = c,
           holder' = c => l \notin {"idle", "done", "crashed"},
           l \in {"repairsync", "write"} => ~NeedsRecordSeparator,
           l \in Appending => linked',
           l \in {"terminate", "terminatesync"} => failed'[c],
           l # "sync",
           (l \in {"unlock", "close"} /\ ~failed'[c] /\ ~probe'[c]) => Recorded(c)',
           (result'[c] = "success" /\ ~probe'[c]) => Recorded(c)',
           result'[c] # "none" => l = "done"
    PROVE  Inv'
<1>1. pc' \in [Calls -> PCs] /\ pc'[c] = l /\ \A d \in Calls : d # c => pc'[d] = pc[d]
  BY DEF Inv, TypeOK
<1>2. durable' \in 0..Len(file') /\ durable' >= durable /\ durable' \in Int
  BY DEF Inv, TypeOK
<1>3. linked => linked'
  BY Zenon
<1>4. linked' \in BOOLEAN
  BY Zenon DEF Inv, TypeOK
<1>5. holder' \in Calls \cup {Free}
  BY DEF Inv, TypeOK
<1>6. TypeOK'
  BY <1>1, <1>2, <1>4, <1>5 DEF Inv, TypeOK
<1>7. Held'
  BY <1>1 DEF Inv, Held
<1>8. LockIsReleased'
  BY <1>1, <1>5 DEF Inv, LockIsReleased, Running
<1>9. CleanTail' /\ RecordsNeverMerge'
  <2>1. NeedsRecordSeparator' <=> NeedsRecordSeparator
    BY DEF NeedsRecordSeparator
  <2> QED BY <1>1, <2>1 DEF Inv, CleanTail, RecordsNeverMerge
<1>10. \A d \in Calls : Recorded(d) => Recorded(d)'
  <2> SUFFICES ASSUME NEW d \in Calls, Recorded(d) PROVE Recorded(d)' OBVIOUS
  <2>1. \A i \in 1..durable : file'[i] = file[i]
    OBVIOUS
  <2> QED BY <1>2, <1>3, <2>1, RecordedStays DEF Inv
<1>11. Durability'
  <2> SUFFICES ASSUME NEW d \in Calls PROVE Durability!(d)'
    BY DEF Durability
  <2>1. CASE d = c
    BY <1>1, <2>1, Zenon
  <2>2. CASE d # c
    <3>1. /\ pc'[d] = pc[d] /\ probe'[d] = probe[d] /\ failed'[d] = failed[d]
          /\ result'[d] = result[d]
      BY <1>1, <2>2
    <3>2. Len(file') = Len(file)
      OBVIOUS
    <3>3. LineAt(d, Len(file) - 2) => LineAt(d, Len(file) - 2)'
      BY DEF LineAt, Newline
    <3> QED BY <1>3, <1>10, <3>1, <3>2, <3>3, Zenon DEF Inv, Durability
  <2> QED BY <2>1, <2>2
<1> QED BY <1>6, <1>7, <1>8, <1>9, <1>11 DEF Inv

(* The same for a step that only moves the call, its error flag and the    *)
(* lock, before the record could be reported.                              *)
LEMMA MoveInv ==
    ASSUME Inv, NEW c \in Calls, NEW l \in PCs \ {"idle", "sync", "done"},
           pc[c] # "done", pc' = [pc EXCEPT ![c] = l],
           UNCHANGED <<probe, result, file, losses>>,
           failed' = failed \/ failed' = [failed EXCEPT ![c] = TRUE],
           durable' \in {durable, Len(file)}, linked' \in {linked, TRUE},
           \/ holder' = holder
           \/ holder = Free /\ holder' = c
           \/ holder = c /\ holder' = Free,
           l \in Transaction => holder' = c,
           l = "crashed" => holder' # c,
           l \in {"repairsync", "write"} => ~NeedsRecordSeparator,
           l \in Appending => linked',
           l \in {"terminate", "terminatesync"} => failed'[c],
           (l \in {"unlock", "close"} /\ ~failed'[c] /\ ~probe[c]) => Recorded(c)'
    PROVE  Inv'
<1>1. /\ probe' \in [Calls -> BOOLEAN] /\ failed' \in [Calls -> BOOLEAN]
      /\ result' \in [Calls -> {"none", "success", "error"}]
  BY DEF Inv, TypeOK
<1>2. \A d \in Calls : d # c =>
        probe'[d] = probe[d] /\ failed'[d] = failed[d] /\ result'[d] = result[d]
  BY DEF Inv, TypeOK
<1>3. result'[c] = "none" /\ probe'[c] = probe[c]
  BY DEF Inv, Durability
<1> QED BY <1>1, <1>2, <1>3, QuietInv

LEMMA OpenInv == ASSUME Inv, NEW c \in Calls, Open(c) PROVE Inv'
<1>1. PICK p \in BOOLEAN : probe' = [probe EXCEPT ![c] = p]
  BY DEF Open
<1>2. PICK l \in {"lock", "done"} :
        /\ pc' = [pc EXCEPT ![c] = l] /\ failed' = failed
        /\ \/ l = "lock" /\ result' = result
           \/ l = "done" /\ result' = [result EXCEPT ![c] = "error"]
  BY DEF Open, Go, Goto, Return
<1>3. /\ pc[c] = "idle" /\ holder' = holder /\ file' = file /\ durable' = durable
      /\ linked' = linked /\ losses' = losses
  BY DEF Open
<1>4. probe' \in [Calls -> BOOLEAN] /\ failed' \in [Calls -> BOOLEAN]
  BY <1>1, <1>2 DEF Inv, TypeOK
<1>5. /\ result' \in [Calls -> {"none", "success", "error"}]
      /\ \A d \in Calls : d # c => result'[d] = result[d]
  BY <1>2 DEF Inv, TypeOK
<1>6. \A d \in Calls : d # c => probe'[d] = probe[d] /\ failed'[d] = failed[d]
  BY <1>1, <1>2 DEF Inv, TypeOK
<1>7. result[c] = "none" /\ holder # c
  BY <1>3 DEF Inv, Durability, LockIsReleased, Running
<1>8. result'[c] # "success" /\ (result'[c] # "none" => l = "done")
  BY <1>2, <1>7 DEF Inv, TypeOK
<1>9. /\ l \in PCs /\ l \notin Transaction /\ l \notin Appending
      /\ l \notin {"sync", "write", "repairsync", "terminate", "terminatesync", "unlock", "close"}
  BY DEF PCs, Transaction, Appending
<1> QED BY <1>2, <1>3, <1>4, <1>5, <1>6, <1>7, <1>8, <1>9, QuietInv

LEMMA LockInv == ASSUME Inv, NEW c \in Calls, Lock(c) PROVE Inv'
<1>1. /\ pc[c] = "lock" /\ durable' = durable /\ linked' = linked
      /\ UNCHANGED <<probe, result, file, losses>>
  BY DEF Lock
<1>2. CASE \E l \in {"parents", "late"} : Go(c, l) /\ holder = Free /\ holder' = c
  <2>1. PICK l \in {"parents", "late"} : Go(c, l) /\ holder = Free /\ holder' = c
    BY <1>2
  <2>2. l \in PCs \ {"idle", "sync", "done"} /\ l \notin Appending
    BY DEF PCs, Appending
  <2> QED BY <1>1, <2>1, <2>2, MoveInv DEF Go, Goto
<1>3. CASE Fail(c, "close") /\ holder' = holder
  <2>1. "close" \in PCs \ {"idle", "sync", "done"} /\ "close" \notin Appending \cup Transaction
    BY DEF PCs, Appending, Transaction
  <2>2. failed'[c]
    BY <1>3 DEF Fail, Inv, TypeOK
  <2> QED BY <1>1, <1>3, <2>1, <2>2, MoveInv DEF Fail, Goto
<1>4. CASE Go(c, "wait") /\ holder' = holder
  <2>1. "wait" \in PCs \ {"idle", "sync", "done"} /\ "wait" \notin Appending \cup Transaction
    BY DEF PCs, Appending, Transaction
  <2> QED BY <1>1, <1>4, <2>1, MoveInv DEF Go, Goto
<1> QED BY <1>2, <1>3, <1>4 DEF Lock

(* Waiting for the lock touches nothing.                                   *)
LEMMA WaitInv ==
    ASSUME Inv, NEW c \in Calls, Retry(c) \/ Deadline(c) \/ LockTimesOut(c)
    PROVE  Inv'
<1>1. /\ pc[c] \in {"lock", "wait", "expired"}
      /\ UNCHANGED <<probe, result, holder, file, durable, linked, losses>>
  BY DEF Retry, Deadline, LockTimesOut
<1>2. CASE \E l \in {"lock", "expired"} : Go(c, l)
  <2>1. PICK l \in {"lock", "expired"} : Go(c, l)
    BY <1>2
  <2>2. l \in PCs \ {"idle", "sync", "done"} /\ l \notin Appending \cup Transaction
    BY DEF PCs, Appending, Transaction
  <2> QED BY <1>1, <2>1, <2>2, MoveInv DEF Go, Goto
<1>3. CASE Fail(c, "close")
  <2>1. "close" \in PCs \ {"idle", "sync", "done"} /\ "close" \notin Appending \cup Transaction
    BY DEF PCs, Appending, Transaction
  <2>2. failed'[c]
    BY <1>3 DEF Fail, Inv, TypeOK
  <2> QED BY <1>1, <1>3, <2>1, <2>2, MoveInv DEF Fail, Goto
<1> QED BY <1>2, <1>3 DEF Retry, Deadline, LockTimesOut

LEMMA ReleaseLateInv == ASSUME Inv, NEW c \in Calls, ReleaseLate(c) PROVE Inv'
<1>1. holder = c
  BY DEF ReleaseLate, Inv, Held, Transaction
<1>2. "close" \in PCs \ {"idle", "sync", "done"} /\ "close" \notin Appending \cup Transaction
  BY DEF PCs, Appending, Transaction
<1>3. failed'[c]
  BY DEF ReleaseLate, Fail, Inv, TypeOK
<1> QED BY <1>1, <1>2, <1>3, MoveInv DEF ReleaseLate, Fail, Goto

(* Giving up before or after the record leads to the unlock with an error. *)
LEMMA GiveUpInv ==
    ASSUME Inv, NEW c \in Calls, pc[c] \in Transaction, Fail(c, "unlock"),
           UNCHANGED <<probe, result, holder, file, durable, linked, losses>>
    PROVE  Inv'
<1>1. holder = c
  BY DEF Inv, Held
<1>2. /\ "unlock" \in PCs \ {"idle", "sync", "done"} /\ "unlock" \notin Appending
      /\ pc[c] # "done"
  BY DEF PCs, Appending, Transaction
<1>3. failed'[c]
  BY DEF Fail, Inv, TypeOK
<1> QED BY <1>1, <1>2, <1>3, MoveInv DEF Fail, Goto

LEMMA SyncParentsInv == ASSUME Inv, NEW c \in Calls, SyncParents(c) PROVE Inv'
<1>1. pc[c] = "parents" /\ pc[c] \in Transaction
  BY DEF SyncParents, Transaction
<1>2. holder = c
  BY <1>1 DEF Inv, Held
<1>3. CASE Go(c, IF probe[c] THEN "unlock" ELSE "inspect") /\ linked' = TRUE
  <2>1. PICK l \in {"unlock", "inspect"} : Go(c, l) /\ (l = "unlock" => probe[c])
    BY <1>3
  <2>2. l \in PCs \ {"idle", "sync", "done"}
    BY DEF PCs
  <2> QED BY <1>1, <1>2, <1>3, <2>1, <2>2, MoveInv DEF SyncParents, Go, Goto
<1>4. CASE Fail(c, "unlock") /\ linked' = linked
  BY <1>1, <1>4, GiveUpInv DEF SyncParents
<1> QED BY <1>3, <1>4 DEF SyncParents

LEMMA InspectInv == ASSUME Inv, NEW c \in Calls, Inspect(c) PROVE Inv'
<1>1. pc[c] = "inspect" /\ pc[c] \in Transaction /\ pc[c] \in Appending
  BY DEF Inspect, Transaction, Appending
<1>2. holder = c /\ linked
  BY <1>1 DEF Inv, Held, Durability
<1>3. CASE Go(c, IF NeedsRecordSeparator THEN "repair" ELSE "write")
  <2>1. PICK l \in {"repair", "write"} : Go(c, l) /\ (l = "write" => ~NeedsRecordSeparator)
    BY <1>3
  <2>2. l \in PCs \ {"idle", "sync", "done"}
    BY DEF PCs
  <2> QED BY <1>1, <1>2, <2>1, <2>2, MoveInv DEF Inspect, Go, Goto
<1>4. CASE Fail(c, "unlock")
  BY <1>1, <1>4, GiveUpInv DEF Inspect
<1> QED BY <1>3, <1>4 DEF Inspect

LEMMA SyncSeparatorInv ==
    ASSUME Inv, NEW c \in Calls,
           \/ SyncSeparator(c, "repairsync", "write")
           \/ SyncSeparator(c, "terminatesync", "unlock")
    PROVE  Inv'
<1>1. PICK at \in {"repairsync", "terminatesync"}, next \in {"write", "unlock"} :
        /\ SyncSeparator(c, at, next)
        /\ at = "repairsync" <=> next = "write"
  OBVIOUS
<1>2. pc[c] = at /\ pc[c] \in Transaction /\ pc[c] \in Appending
  BY <1>1 DEF SyncSeparator, Transaction, Appending
<1>3. /\ holder = c /\ linked
      /\ next = "write" => ~NeedsRecordSeparator
      /\ next = "unlock" => failed[c]
  BY <1>1, <1>2 DEF Inv, Held, Durability, CleanTail
<1>4. CASE Go(c, next) /\ durable' = Len(file)
  <2>1. next \in PCs \ {"idle", "sync", "done"}
    BY DEF PCs
  <2> QED BY <1>1, <1>2, <1>3, <1>4, <2>1, MoveInv DEF SyncSeparator, Go, Goto
<1>5. CASE Fail(c, "unlock") /\ durable' = durable
  BY <1>1, <1>2, <1>5, GiveUpInv DEF SyncSeparator
<1> QED BY <1>1, <1>4, <1>5 DEF SyncSeparator

LEMMA SyncLineInv == ASSUME Inv, NEW c \in Calls, SyncLine(c) PROVE Inv'
<1>1. pc[c] = "sync" /\ pc[c] \in Transaction /\ pc[c] \in Appending
  BY DEF SyncLine, Transaction, Appending
<1>2. holder = c /\ linked /\ Len(file) >= 3 /\ LineAt(c, Len(file) - 2)
  BY <1>1 DEF Inv, Held, Durability
<1>3. CASE Go(c, "unlock") /\ durable' = Len(file)
  <2>1. "unlock" \in PCs \ {"idle", "sync", "done"} /\ "unlock" \notin Appending
    BY DEF PCs, Appending
  <2>2. Recorded(c)'
    <3>1. Len(file) - 2 \in 1..(durable' - 2)
      BY <1>2, <1>3 DEF Inv, TypeOK
    <3>2. linked' = linked /\ file' = file
      BY DEF SyncLine
    <3>3. file'[Len(file) - 2] = [by |-> c, part |-> "head"]
          /\ file'[Len(file) - 2 + 1] = [by |-> c, part |-> "tail"]
          /\ file'[Len(file) - 2 + 2] = Newline(c)
      BY <1>2, <3>2 DEF LineAt
    <3> QED BY <1>2, <3>1, <3>2, <3>3 DEF Recorded, LineAt, Newline
  <2> QED BY <1>1, <1>2, <1>3, <2>1, <2>2, MoveInv DEF SyncLine, Go, Goto
<1>4. CASE Fail(c, "unlock") /\ durable' = durable
  BY <1>1, <1>4, GiveUpInv DEF SyncLine
<1> QED BY <1>3, <1>4 DEF SyncLine

LEMMA UnlockInv == ASSUME Inv, NEW c \in Calls, Unlock(c) PROVE Inv'
<1>1. pc[c] = "unlock" /\ holder = c
  BY DEF Unlock, Inv, Held, Transaction
<1>2. "close" \in PCs \ {"idle", "sync", "done"} /\ "close" \notin Appending \cup Transaction
  BY DEF PCs, Appending, Transaction
<1>3. (~failed[c] /\ ~probe[c]) => Recorded(c)'
  BY <1>1 DEF Inv, Durability, Recorded, LineAt, Unlock, Newline
<1>4. CASE Go(c, "close") /\ holder' = Free
  BY <1>1, <1>2, <1>3, <1>4, MoveInv DEF Unlock, Go, Goto
<1>5. CASE Fail(c, "close") /\ holder' = holder
  <2>1. failed'[c]
    BY <1>5 DEF Fail, Inv, TypeOK
  <2> QED BY <1>1, <1>2, <1>5, <2>1, MoveInv DEF Unlock, Fail, Goto
<1> QED BY <1>4, <1>5 DEF Unlock

LEMMA KillInv == ASSUME Inv, NEW c \in Calls, Kill(c) PROVE Inv'
<1>1. pc[c] # "done" /\ (holder' = holder \/ (holder = c /\ holder' = Free)) /\ holder' # c
  BY DEF Kill, Running
<1>2. "crashed" \in PCs \ {"idle", "sync", "done"} /\ "crashed" \notin Appending \cup Transaction
  BY DEF PCs, Appending, Transaction
<1> QED BY <1>1, <1>2, MoveInv DEF Kill, Go, Goto

LEMMA CloseInv == ASSUME Inv, NEW c \in Calls, Close(c) PROVE Inv'
<1>1. /\ pc[c] = "close" /\ pc' = [pc EXCEPT ![c] = "done"] /\ failed' = failed
      /\ UNCHANGED <<probe, file, durable, linked, losses>>
      /\ (holder' = holder \/ (holder = c /\ holder' = Free)) /\ holder' # c
  BY DEF Close, Return, Goto
<1>2. PICK r \in {"error", "success"} :
        result' = [result EXCEPT ![c] = r] /\ (r = "success" => ~failed[c])
  BY DEF Close, Return
<1>3. /\ result' \in [Calls -> {"none", "success", "error"}] /\ result'[c] = r
      /\ \A d \in Calls : d # c => result'[d] = result[d]
  BY <1>2 DEF Inv, TypeOK
<1>4. probe' \in [Calls -> BOOLEAN] /\ failed' \in [Calls -> BOOLEAN]
  BY <1>1 DEF Inv, TypeOK
<1>5. (r = "success" /\ ~probe[c]) => Recorded(c)'
  BY <1>1, <1>2 DEF Inv, Durability, Recorded, LineAt, Newline
<1>6. "done" \in PCs /\ "done" \notin Appending \cup Transaction
  BY DEF PCs, Appending, Transaction
<1> QED BY <1>1, <1>3, <1>4, <1>5, <1>6, QuietInv

-----------------------------------------------------------------------------
(* A step of the holder that adds to the log: nobody else is in a          *)
(* transaction, and what is durable stays in place.                        *)
LEMMA GrowInv ==
    ASSUME Inv, NEW c \in Calls, NEW l \in Transaction,
           pc[c] \in Appending, pc' = [pc EXCEPT ![c] = l],
           UNCHANGED <<probe, result, holder, durable, linked, losses>>,
           failed' = failed \/ failed' = [failed EXCEPT ![c] = TRUE],
           file' \in Seq(Symbols), Len(file') >= Len(file),
           \A i \in 1..Len(file) : file'[i] = file[i],
           RecordsNeverMerge',
           l \in {"repairsync", "write"} => ~NeedsRecordSeparator',
           l \in {"terminate", "terminatesync", "unlock"} => failed'[c],
           l = "sync" => (Len(file) >= 3 /\ LineAt(c, Len(file) - 2))'
    PROVE  Inv'
<1>1. /\ l \in PCs \ {"idle", "done", "crashed", "close"}
      /\ pc[c] \in Transaction /\ pc[c] # "done" /\ pc[c] \notin {"idle", "done", "crashed"}
  BY DEF Transaction, PCs, Appending
<1>2. /\ holder = c /\ linked
      /\ \A d \in Calls : d # c => pc[d] \notin Transaction
  BY <1>1 DEF Inv, Held, Durability
<1>3. pc' \in [Calls -> PCs] /\ pc'[c] = l /\ \A d \in Calls : d # c => pc'[d] = pc[d]
  BY <1>1 DEF Inv, TypeOK
<1>4. failed' \in [Calls -> BOOLEAN] /\ \A d \in Calls : d # c => failed'[d] = failed[d]
  BY DEF Inv, TypeOK
<1>5. durable' \in 0..Len(file') /\ durable \in Int /\ durable <= Len(file)
  BY DEF Inv, TypeOK
<1>6. TypeOK'
  BY <1>3, <1>4, <1>5 DEF Inv, TypeOK
<1>7. Held' /\ LockIsReleased'
  BY <1>1, <1>2, <1>3 DEF Inv, Held, LockIsReleased, Running
<1>8. CleanTail'
  <2>1. {"repairsync", "write"} \subseteq Transaction
    BY DEF Transaction
  <2> QED BY <1>2, <1>3, <2>1 DEF CleanTail
<1>9. \A d \in Calls : Recorded(d) => Recorded(d)'
  <2> SUFFICES ASSUME NEW d \in Calls, Recorded(d) PROVE Recorded(d)' OBVIOUS
  <2>1. \A i \in 1..durable : i \in 1..Len(file)
    BY <1>5 DEF Inv, TypeOK
  <2>2. \A i \in 1..durable : file'[i] = file[i]
    BY <2>1
  <2>3. durable' \in Int /\ durable' >= durable
    BY <1>5
  <2> QED BY <2>2, <2>3, RecordedStays DEF Inv
<1>10. Durability'
  <2> SUFFICES ASSUME NEW d \in Calls PROVE Durability!(d)'
    BY DEF Durability
  <2>1. /\ result'[d] = result[d] /\ probe'[d] = probe[d]
        /\ result[c] = "none"
    BY <1>1 DEF Inv, Durability
  <2>2. CASE d = c
    BY <1>1, <1>2, <1>3, <2>1, <2>2, Zenon
  <2>3. CASE d # c
    <3>1. pc'[d] = pc[d] /\ failed'[d] = failed[d]
      BY <1>3, <1>4, <2>3
    <3>2. /\ pc[d] \notin Appending /\ pc[d] # "sync"
          /\ pc[d] \notin {"terminate", "terminatesync"}
      BY <1>2, <2>3 DEF Transaction, Appending
    <3> QED BY <1>9, <2>1, <3>1, <3>2, Zenon DEF Inv, Durability
  <2> QED BY <2>2, <2>3
<1> QED BY <1>6, <1>7, <1>8, <1>10 DEF Inv

LEMMA SeparateInv ==
    ASSUME Inv, NEW c \in Calls,
           \/ Separate(c, "repair", "repairsync")
           \/ Separate(c, "terminate", "terminatesync")
    PROVE  Inv'
<1>1. PICK at \in {"repair", "terminate"}, sync \in {"repairsync", "terminatesync"} :
        /\ Separate(c, at, sync)
        /\ at = "repair" <=> sync = "repairsync"
  OBVIOUS
<1>2. /\ pc[c] = at /\ pc[c] \in Transaction /\ pc[c] \in Appending
      /\ sync \in Transaction /\ sync # "sync" /\ sync # "unlock"
  BY <1>1 DEF Separate, Transaction, Appending
<1>3. sync = "terminatesync" => failed[c]
  BY <1>1, <1>2 DEF Inv, Durability
<1>4. CASE file' = Append(file, Newline(c)) /\ Go(c, sync)
  <2>1. /\ file' \in Seq(Symbols) /\ Len(file') = Len(file) + 1
        /\ \A i \in 1..Len(file) : file'[i] = file[i]
        /\ RecordsNeverMerge'
    BY <1>4, NewlineMergesNothing DEF Inv
  <2>2. ~NeedsRecordSeparator'
    <3>1. file'[Len(file')] = Newline(c)
      BY <1>4, <2>1 DEF Inv, TypeOK
    <3> QED BY <3>1, Parts DEF NeedsRecordSeparator
  <2>3. Len(file') >= Len(file)
    BY <2>1 DEF Inv, TypeOK
  <2> QED BY <1>1, <1>2, <1>3, <1>4, <2>1, <2>2, <2>3, GrowInv DEF Separate, Go, Goto
<1>5. CASE Fail(c, "unlock") /\ file' = file
  BY <1>1, <1>2, <1>5, GiveUpInv DEF Separate
<1> QED BY <1>1, <1>4, <1>5 DEF Separate

LEMMA WriteLineInv == ASSUME Inv, NEW c \in Calls, WriteLine(c) PROVE Inv'
<1>1. /\ pc[c] = "write" /\ pc[c] \in Appending
      /\ UNCHANGED <<probe, result, holder, durable, linked, losses>>
  BY DEF WriteLine, Appending
<1>2. PICK n \in 0..Len(Line(c)) :
        /\ file' = file \o SubSeq(Line(c), 1, n)
        /\ CASE n = Len(Line(c)) -> Go(c, "sync")
             [] n = 0 -> Fail(c, "unlock")
             [] OTHER -> Fail(c, "terminate")
  BY DEF WriteLine
<1>3. /\ n \in 0..3 /\ Len(Line(c)) = 3
      /\ file' \in Seq(Symbols) /\ Len(file') = Len(file) + n
      /\ \A i \in 1..Len(file) : file'[i] = file[i]
      /\ n >= 1 => file'[Len(file) + 1] = [by |-> c, part |-> "head"]
      /\ n >= 2 => file'[Len(file) + 2] = [by |-> c, part |-> "tail"]
      /\ n >= 3 => file'[Len(file) + 3] = Newline(c)
  BY <1>2, LinePrefix DEF Inv
<1>4. RecordsNeverMerge'
  <2>1. ~NeedsRecordSeparator
    BY <1>1 DEF Inv, CleanTail
  <2> QED BY <1>2, <2>1, LineMergesNothing DEF Inv
<1>5. Len(file) \in Nat /\ Len(file') >= Len(file)
  BY <1>3 DEF Inv, TypeOK
<1>6. CASE n = 3 /\ Go(c, "sync")
  <2>1. Len(file') - 2 = Len(file) + 1 /\ Len(file') >= 3
        /\ Len(file') - 2 + 1 = Len(file) + 2 /\ Len(file') - 2 + 2 = Len(file) + 3
    BY <1>3, <1>5, <1>6
  <2>2. LineAt(c, Len(file) - 2)'
    <3>1. /\ file'[Len(file') - 2] = [by |-> c, part |-> "head"]
          /\ file'[Len(file') - 2 + 1] = [by |-> c, part |-> "tail"]
          /\ file'[Len(file') - 2 + 2] = Newline(c)
      BY <1>3, <1>6, <2>1
    <3> QED BY <3>1, Zenon DEF LineAt, Newline
  <2>3. "sync" \in Transaction
    BY DEF Transaction
  <2> QED BY <1>1, <1>3, <1>4, <1>5, <1>6, <2>1, <2>2, <2>3, GrowInv DEF Go, Goto
<1>7. CASE \E l \in {"unlock", "terminate"} : Fail(c, l)
  <2>1. PICK l \in {"unlock", "terminate"} : Fail(c, l)
    BY <1>7
  <2>2. l \in Transaction
    BY DEF Transaction
  <2>3. failed'[c]
    BY <2>1 DEF Fail, Inv, TypeOK
  <2> QED BY <1>1, <1>3, <1>4, <1>5, <2>1, <2>2, <2>3, GrowInv DEF Fail, Goto
<1> QED BY <1>2, <1>3, <1>6, <1>7

(* A power loss ends every call and keeps at least what is durable, or     *)
(* takes a file whose entry nobody synced.                                 *)
LEMMA PowerLossInv == ASSUME Inv, PowerLoss PROVE Inv'
<1>1. /\ \A c \in Calls : pc'[c] = IF Running(c) THEN "crashed" ELSE pc[c]
      /\ pc' \in [Calls -> PCs]
  BY DEF PowerLoss, Inv, TypeOK, PCs
<1>2. \A c \in Calls : pc'[c] \in {"idle", "done", "crashed"}
  BY <1>1 DEF Running
<1>3. /\ holder' = Free /\ UNCHANGED <<probe, failed, result>>
      /\ linked' = linked
  BY DEF PowerLoss
<1>4. losses' \in 0..MaxLosses
  BY DEF PowerLoss, Inv, TypeOK
<1>5. Held' /\ LockIsReleased' /\ CleanTail'
  BY <1>2, <1>3 DEF Held, LockIsReleased, CleanTail, Transaction
<1>6. \A c \in Calls : (result[c] # "none" => pc'[c] = "done")
  BY <1>1 DEF Inv, Durability, Running
<1>7. /\ file' \in Seq(Symbols) /\ durable' \in 0..Len(file')
      /\ RecordsNeverMerge'
      /\ \A c \in Calls : Recorded(c) => Recorded(c)'
  <2>1. CASE \E n \in durable..Len(file) : file' = SubSeq(file, 1, n) /\ durable' = n
    <3>1. PICK n \in durable..Len(file) : file' = SubSeq(file, 1, n) /\ durable' = n
      BY <2>1
    <3>2. n \in 0..Len(file) /\ n >= durable /\ n \in Int
      BY <3>1 DEF Inv, TypeOK
    <3>3. /\ file' \in Seq(Symbols) /\ Len(file') = n
          /\ \A i \in 1..n : file'[i] = file[i]
      BY <3>1, <3>2, Prefix DEF Inv, TypeOK
    <3>4. RecordsNeverMerge'
      <4> SUFFICES ASSUME NEW i \in 1..(Len(file') - 1),
                          file'[i].part # "newline", file'[i + 1].part # "newline"
                   PROVE  /\ file'[i + 1] = [file'[i] EXCEPT !.part = "tail"]
                          /\ file'[i].part = "head"
        BY DEF RecordsNeverMerge
      <4>1. i \in 1..(Len(file) - 1) /\ i \in 1..n /\ i + 1 \in 1..n
        BY <3>2, <3>3 DEF Inv, TypeOK
      <4> QED BY <3>3, <4>1 DEF Inv, RecordsNeverMerge
    <3>5. ASSUME NEW c \in Calls, Recorded(c) PROVE Recorded(c)'
      <4>1. \A i \in 1..durable : i \in 1..n
        BY <3>2 DEF Inv, TypeOK
      <4>2. \A i \in 1..durable : file'[i] = file[i]
        BY <3>3, <4>1
      <4> QED BY <1>3, <3>1, <3>2, <3>5, <4>2, RecordedStays DEF Inv
    <3>6. durable' \in 0..Len(file')
      BY <3>1, <3>2, <3>3
    <3> QED BY <3>3, <3>4, <3>5, <3>6
  <2>2. CASE ~linked /\ file' = <<>> /\ durable' = 0
    <3>1. file' \in Seq(Symbols) /\ Len(file') = 0
      BY <2>2
    <3>2. RecordsNeverMerge'
      BY <3>1 DEF RecordsNeverMerge
    <3>3. \A c \in Calls : ~Recorded(c)
      BY <2>2 DEF Recorded
    <3>4. durable' \in 0..Len(file')
      BY <2>2, <3>1
    <3> QED BY <3>1, <3>2, <3>3, <3>4
  <2> QED BY <2>1, <2>2 DEF PowerLoss
<1>8. TypeOK'
  BY <1>1, <1>3, <1>4, <1>7 DEF Inv, TypeOK
<1>9. Durability'
  <2> SUFFICES ASSUME NEW c \in Calls PROVE Durability!(c)'
    BY DEF Durability
  <2>1. /\ pc'[c] \notin Appending /\ pc'[c] # "sync"
        /\ pc'[c] \notin {"terminate", "terminatesync", "unlock", "close"}
    BY <1>2 DEF Appending
  <2>2. result'[c] = result[c] /\ probe'[c] = probe[c]
    BY <1>3
  <2> QED BY <1>6, <1>7, <2>1, <2>2, Zenon DEF Inv, Durability
<1> QED BY <1>5, <1>7, <1>8, <1>9 DEF Inv

LEMMA NextInv == Inv /\ [Next]_vars => Inv'
<1> SUFFICES ASSUME Inv, [Next]_vars PROVE Inv' OBVIOUS
<1>1. CASE \E c \in Calls : Open(c) \/ Deadline(c) \/ Kill(c)
  BY <1>1, OpenInv, WaitInv, KillInv
<1>2. CASE \E c \in Calls : CallStep(c)
  BY <1>2, LockInv, WaitInv, ReleaseLateInv, SyncParentsInv, InspectInv, SeparateInv,
     SyncSeparatorInv, WriteLineInv, SyncLineInv, UnlockInv, CloseInv DEF CallStep
<1>3. CASE PowerLoss
  BY <1>3, PowerLossInv
<1>4. CASE UNCHANGED vars
  BY <1>4 DEF vars, Inv, TypeOK, Held, LockIsReleased, CleanTail, RecordsNeverMerge,
     Durability, Recorded, LineAt, Newline, Running, NeedsRecordSeparator
<1> QED BY <1>1, <1>2, <1>3, <1>4 DEF Next

LEMMA InvHolds == Spec => []Inv
BY InitInv, NextInv, PTL DEF Spec

(* Type correctness: what is durable is never more than what is there.     *)
THEOREM TypeCorrect == Spec => []TypeOK
<1>1. Inv => TypeOK BY DEF Inv
<1> QED BY <1>1, InvHolds, PTL

(* For any number of writers, kills and power losses no two records share  *)
(* a line of the log (repairAbandonedAuditRecord under the lock).          *)
THEOREM NeverMerge == Spec => []RecordsNeverMerge
<1>1. Inv => RecordsNeverMerge BY DEF Inv
<1> QED BY <1>1, InvHolds, PTL

(* For any number of writers, kills and power losses a record whose        *)
(* WriteAuditRecord returned nil is and stays in the durable log.          *)
THEOREM SuccessSurvives == Spec => []SuccessIsDurable
<1>1. Inv => SuccessIsDurable
  <2> SUFFICES ASSUME Inv, NEW c \in Calls, result[c] = "success", ~probe[c]
               PROVE  linked /\ \E i \in 1..(durable - 2) : SubSeq(file, i, i + 2) = Line(c)
    BY DEF SuccessIsDurable
  <2>1. Recorded(c)
    BY DEF Inv, Durability
  <2>2. PICK i \in 1..(durable - 2) : LineAt(c, i)
    BY <2>1 DEF Recorded
  <2>3. i \in Nat /\ i >= 1 /\ i + 2 <= Len(file) /\ file \in Seq(Symbols)
    BY <2>2 DEF Inv, TypeOK
  <2>4. SubSeq(file, i, i + 2) = <<file[i], file[i + 1], file[i + 2]>>
    <3> DEFINE s == SubSeq(file, i, i + 2)
               w == <<file[i], file[i + 1], file[i + 2]>>
    <3>1. /\ s \in Seq(Symbols) /\ Len(s) = 3
          /\ s[1] = file[i] /\ s[2] = file[i + 1] /\ s[3] = file[i + 2]
      BY <2>3
    <3>2. /\ w \in Seq(Symbols) /\ Len(w) = 3
          /\ w[1] = file[i] /\ w[2] = file[i + 1] /\ w[3] = file[i + 2]
      BY <2>3
    <3> HIDE DEF s, w
    <3>3. \A k \in 1..3 : s[k] = w[k]
      BY <3>1, <3>2
    <3>4. s = w
      BY <3>1, <3>2, <3>3, SeqEqual
    <3> QED BY <3>4 DEF s, w
  <2>5. SubSeq(file, i, i + 2) = Line(c)
    BY <2>2, <2>4 DEF LineAt, Line, Newline
  <2> QED BY <2>1, <2>5 DEF Recorded
<1> QED BY <1>1, InvHolds, PTL

(* For any number of writers the lock is only held by a call inside its    *)
(* transaction: no failure leaves it behind.                               *)
THEOREM LockReleased == Spec => []LockIsReleased
<1>1. Inv => LockIsReleased BY DEF Inv
<1> QED BY <1>1, InvHolds, PTL
=============================================================================
