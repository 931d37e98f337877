------------------------ MODULE AzurePurchaseProofs ------------------------
(***************************************************************************)
(* Proofs about AzurePurchase for every set of calls and tokens and every  *)
(* attempt limit: a currency refusal on its own bought nothing, and under  *)
(* the contract a token never has two orders that exist.                   *)
(***************************************************************************)
EXTENDS AzurePurchase, TLAPS

(* Where a call is fixes its counter and its result.                       *)
Loop(c) ==
    /\ pc[c] = "idle" => token[c] = NoToken
    /\ pc[c] = "wait" => attempt[c] < MaxAttempts
    /\ pc[c] \in {"idle", "lookup"} => attempt[c] = 1
    /\ (result[c] # "none") <=> (pc[c] = "done")
    /\ pc[c] = "lookup" => token[c] # NoToken

(* The attempts a call has not sent yet have no order.                     *)
Unsent(c) ==
    \A a \in Attempts :
        (a > attempt[c] \/ (a = attempt[c] /\ pc[c] \notin {"await", "wait", "done", "crashed"}))
            => order[<<c, a>>] = "none"

Currency(c) == result[c] = "currency" => \A a \in Attempts : order[<<c, a>>] = "none"

(* An order that exists, or that Azure may still make exist.               *)
Hot(n) == order[n] = "inflight" \/ Exists(n)
Shared(m, n) == token[m[1]] = token[n[1]] /\ token[m[1]] # NoToken

(* What the contract brings about: the listing is current, a token has one *)
(* call at work, the only request of the token on its way is the one that  *)
(* call waits for, and none is hot between its lookup and its request.     *)
Current == \A n \in Orders : Exists(n) => n \in listed
OneAtWork ==
    \A c, d \in Calls :
        (Running(c) /\ Running(d) /\ token[c] = token[d] /\ token[c] # NoToken) => c = d
OnlyRequest ==
    \A c \in Calls, n \in Orders :
        (Running(c) /\ order[n] = "inflight" /\ token[n[1]] = token[c] /\ token[c] # NoToken) =>
            n = <<c, attempt[c]>> /\ pc[c] = "await"
ClearToBuy ==
    \A c \in Calls, n \in Orders :
        (pc[c] \in {"calculate", "purchase"} /\ token[n[1]] = token[c] /\ token[c] # NoToken) =>
            ~Hot(n)
OneHot == \A m, n \in Orders : (Shared(m, n) /\ Hot(m) /\ Hot(n)) => m = n

ContractInv == Current /\ OneAtWork /\ OnlyRequest /\ ClearToBuy /\ OneHot

Inv ==
    /\ TypeOK
    /\ \A c \in Calls : Loop(c) /\ Unsent(c) /\ Currency(c)
    /\ UnderContract => ContractInv

USE ConstantsAssumption DEF ConstantsAssumption

LEMMA OrderParts ==
    /\ \A n \in Orders : n[1] \in Calls /\ n[2] \in Attempts /\ n = <<n[1], n[2]>>
    /\ \A c \in Calls, a \in Attempts :
          <<c, a>> \in Orders /\ <<c, a>>[1] = c /\ <<c, a>>[2] = a
BY DEF Orders

-----------------------------------------------------------------------------
(* A call at work that sends nothing: on to l, or back to its caller.      *)
LEMMA MoveInv ==
    ASSUME Inv, NEW c \in Calls, NEW l \in {"calculate", "purchase", "wait", "crashed"},
           NEW r \in Results \ {"none"}, NEW ids \in SUBSET Orders,
           Running(c), UNCHANGED <<world, token, attempt, order, listed>>,
           \/ Goto(c, l) /\ UNCHANGED <<result, adopted>>
           \/ Return(c, r, ids),
           l = "wait" => attempt[c] < MaxAttempts /\ order[<<c, attempt[c]>>] # "inflight",
           l \in {"calculate", "purchase"} => pc[c] \notin {"await", "wait"},
           l = "purchase" => pc[c] = "calculate",
           (l = "calculate" /\ UnderContract /\ token[c] # NoToken) =>
               \A n \in Orders : token[n[1]] = token[c] => ~Hot(n),
           r = "currency" => \A a \in Attempts : order[<<c, a>>] = "none"
    PROVE  Inv'
<1>1. /\ TypeOK /\ Loop(c) /\ Unsent(c) /\ Currency(c)
      /\ pc[c] \notin {"idle", "done", "crashed"} /\ result[c] = "none"
  BY DEF Inv, Running, Loop
<1>2. PICK k \in {"calculate", "purchase", "wait", "crashed", "done"} :
        /\ pc' \in [Calls -> PCs] /\ pc'[c] = k /\ \A d \in Calls \ {c} : pc'[d] = pc[d]
        /\ result' \in [Calls -> Results] /\ adopted' \in [Calls -> SUBSET Orders]
        /\ result'[c] = IF k = "done" THEN r ELSE "none"
        /\ \A d \in Calls \ {c} : result'[d] = result[d]
        /\ k = l \/ k = "done"
  <2>1. CASE Goto(c, l) /\ UNCHANGED <<result, adopted>>
    BY <1>1, <2>1 DEF Goto, TypeOK, PCs
  <2>2. CASE Return(c, r, ids)
    BY <1>1, <2>2 DEF Return, Goto, TypeOK, PCs
  <2> QED BY <2>1, <2>2
<1>3. TypeOK'
  BY <1>1, <1>2 DEF TypeOK
<1>4. Loop(c)'
  BY <1>1, <1>2 DEF Loop
<1>5. Unsent(c)'
  BY <1>1, <1>2 DEF Unsent
<1>6. Currency(c)'
  BY <1>2 DEF Currency
<1>7. \A d \in Calls \ {c} : Loop(d)' /\ Unsent(d)' /\ Currency(d)'
  BY <1>2 DEF Inv, Loop, Unsent, Currency
<1>8. UnderContract' => ContractInv'
  <2> SUFFICES ASSUME UnderContract PROVE ContractInv'
    BY DEF UnderContract
  <2>1. Current' /\ OneHot'
    BY DEF Inv, ContractInv, Current, OneHot, Shared, Hot, Exists
  <2>2. \A d \in Calls : Running(d)' => Running(d)
    BY <1>2 DEF Running
  <2>3. OneAtWork'
    BY <2>2 DEF Inv, ContractInv, OneAtWork
  <2>4. OnlyRequest'
    <3> SUFFICES ASSUME NEW d \in Calls, NEW n \in Orders, Running(d)', order[n] = "inflight",
                        token[n[1]] = token[d], token[d] # NoToken
                 PROVE  n = <<d, attempt[d]>> /\ pc'[d] = "await"
      BY DEF OnlyRequest
    <3>1. n = <<d, attempt[d]>> /\ pc[d] = "await"
      BY <2>2 DEF Inv, ContractInv, OnlyRequest
    <3>2. d # c
      BY <1>2, <3>1 DEF Running
    <3> QED BY <1>2, <3>1, <3>2
  <2>5. ClearToBuy'
    <3> SUFFICES ASSUME NEW d \in Calls, NEW n \in Orders, pc'[d] \in {"calculate", "purchase"},
                        token[n[1]] = token[d], token[d] # NoToken
                 PROVE  ~Hot(n)
      BY DEF ClearToBuy, Hot, Exists
    <3>1. CASE d = c
      BY <1>2, <3>1 DEF Inv, ContractInv, ClearToBuy
    <3>2. CASE d # c
      BY <1>2, <3>2 DEF Inv, ContractInv, ClearToBuy
    <3> QED BY <3>1, <3>2
  <2> QED BY <2>1, <2>3, <2>4, <2>5 DEF ContractInv
<1> QED BY <1>3, <1>4, <1>5, <1>6, <1>7, <1>8 DEF Inv

(* A lookup that lets the call go on has seen that its token has no order  *)
(* that exists, and nothing of the token is on its way.                    *)
LEMMA LookupIsClear ==
    ASSUME Inv, UnderContract, NEW c \in Calls, pc[c] \in {"lookup", "recheck"},
           token[c] # NoToken,
           \A n \in Matches(token[c]) : order[n] = "adopt" /\ world = "nameless",
           NEW n \in Orders, token[n[1]] = token[c]
    PROVE  ~Hot(n)
<1>1. world = "contract" /\ Running(c)
  BY DEF UnderContract, Running
<1>2. order[n] # "inflight"
  BY <1>1 DEF Inv, ContractInv, OnlyRequest
<1>3. Exists(n) => n \in Matches(token[c])
  BY DEF Inv, ContractInv, Current, Matches, CarriesToken
<1> QED BY <1>1, <1>2, <1>3 DEF Hot

LEMMA LookupInv ==
    ASSUME Inv, NEW c \in Calls, NEW a \in Attempts, pc[c] \in {"lookup", "recheck"},
           token[c] # NoToken, Lookup(c, a), UNCHANGED <<world, token, attempt, order, listed>>
    PROVE  Inv'
<1>0. Running(c) /\ "calculate" \in {"calculate", "purchase", "wait", "crashed"}
      /\ "crashed" \in {"calculate", "purchase", "wait", "crashed"}
  BY DEF Running
<1>1. CASE Refuse(c, a, "error")
  <2>1. AfterUncertainAttempt(a, "error") \in Results \ {"none", "currency"}
        /\ {} \in SUBSET Orders
    BY DEF AfterUncertainAttempt, Results
  <2>2. Return(c, AfterUncertainAttempt(a, "error"), {})
    BY <1>1 DEF Refuse
  <2> QED BY <1>0, <2>1, <2>2, MoveInv
<1>2. ASSUME NEW n \in Matches(token[c]), Return(c, "existing", {n}) PROVE Inv'
  <2>1. {n} \in SUBSET Orders /\ "existing" \in Results \ {"none", "currency"}
    BY DEF Matches, Inv, TypeOK, Results
  <2> QED BY <1>0, <1>2, <2>1, MoveInv
<1>3. CASE /\ \A n \in Matches(token[c]) : order[n] = "adopt" /\ world = "nameless"
           /\ Goto(c, "calculate") /\ UNCHANGED <<result, adopted>>
  <2>1. "error" \in Results \ {"none", "currency"} /\ {} \in SUBSET Orders
    BY DEF Results
  <2>2. UnderContract => \A n \in Orders : token[n[1]] = token[c] => ~Hot(n)
    BY <1>3, LookupIsClear
  <2> QED BY <1>0, <1>3, <2>1, <2>2, MoveInv
<1> QED BY <1>1, <1>2, <1>3 DEF Lookup

LEMMA GuardInv ==
    ASSUME Inv, NEW c \in Calls, GuardLookup(c), UNCHANGED world PROVE Inv'
<1>1. 1 \in Attempts /\ token[c] # NoToken
  BY DEF Attempts, GuardLookup, Inv, Loop
<1> QED BY <1>1, LookupInv DEF GuardLookup, azure

LEMMA RecheckInv ==
    ASSUME Inv, NEW c \in Calls, Recheck(c), UNCHANGED world PROVE Inv'
<1>1. CASE token[c] # NoToken
  <2>1. attempt[c] \in Attempts
    BY DEF Inv, TypeOK
  <2> QED BY <1>1, <2>1, LookupInv DEF Recheck, azure
<1>2. CASE token[c] = NoToken
  <2>1. "error" \in Results \ {"none", "currency"} /\ {} \in SUBSET Orders /\ Running(c)
        /\ "calculate" \in {"calculate", "purchase", "wait", "crashed"}
    BY DEF Results, Running, Recheck
  <2> QED BY <1>2, <2>1, MoveInv DEF Recheck, azure
<1> QED BY <1>1, <1>2

LEMMA CalculateInv ==
    ASSUME Inv, NEW c \in Calls, CalculatePrice(c), UNCHANGED world PROVE Inv'
<1>1. /\ Running(c) /\ pc[c] = "calculate" /\ attempt[c] \in Attempts
      /\ UNCHANGED <<world, token, attempt, order, listed>>
      /\ "purchase" \in {"calculate", "purchase", "wait", "crashed"} /\ {} \in SUBSET Orders
  BY DEF CalculatePrice, Running, Inv, TypeOK, azure
<1>2. CASE Goto(c, "purchase") /\ UNCHANGED <<result, adopted>>
  <2>1. "error" \in Results \ {"none", "currency"}
    BY DEF Results
  <2> QED BY <1>1, <1>2, <2>1, MoveInv
<1>3. ASSUME NEW r \in {"error", "currency"}, Refuse(c, attempt[c], r) PROVE Inv'
  <2> DEFINE q == AfterUncertainAttempt(attempt[c], r)
  <2>1. q \in Results \ {"none"} /\ (q = "currency" => attempt[c] = 1)
    BY <1>1 DEF AfterUncertainAttempt, Results, Attempts
  <2>2. q = "currency" => \A a \in Attempts : order[<<c, a>>] = "none"
    BY <1>1, <2>1 DEF Inv, Unsent, Attempts
  <2>3. Return(c, q, {})
    BY <1>3 DEF Refuse
  <2> HIDE DEF q
  <2> QED BY <1>1, <2>1, <2>2, <2>3, MoveInv
<1> QED BY <1>2, <1>3 DEF CalculatePrice

LEMMA AwaitInv ==
    ASSUME Inv, NEW c \in Calls, AwaitPurchase(c), UNCHANGED world PROVE Inv'
<1>1. /\ Running(c) /\ pc[c] = "await" /\ attempt[c] \in Attempts
      /\ UNCHANGED <<world, token, attempt, order, listed>>
      /\ "wait" \in {"calculate", "purchase", "wait", "crashed"}
      /\ "crashed" \in {"calculate", "purchase", "wait", "crashed"} /\ {} \in SUBSET Orders
  BY DEF AwaitPurchase, Running, Inv, TypeOK, azure
<1>2. CASE Return(c, "success", {<<c, attempt[c]>>})
  <2>1. "success" \in Results \ {"none", "currency"} /\ {<<c, attempt[c]>>} \in SUBSET Orders
    BY <1>1, OrderParts DEF Results
  <2> QED BY <1>1, <1>2, <2>1, MoveInv
<1>3. CASE /\ PurchaseIsRetryable(c, attempt[c]) /\ Goto(c, "wait")
           /\ UNCHANGED <<result, adopted>>
  <2>1. "error" \in Results \ {"none", "currency"}
    BY DEF Results
  <2>2. attempt[c] < MaxAttempts /\ order[<<c, attempt[c]>>] # "inflight"
    BY <1>3 DEF PurchaseIsRetryable
  <2> QED BY <1>1, <1>3, <2>1, <2>2, MoveInv
<1>4. CASE Refuse(c, attempt[c], "error")
  <2>1. AfterUncertainAttempt(attempt[c], "error") \in Results \ {"none", "currency"}
    BY DEF AfterUncertainAttempt, Results
  <2> QED BY <1>1, <1>4, <2>1, MoveInv DEF Refuse
<1> QED BY <1>2, <1>3, <1>4 DEF AwaitPurchase

LEMMA CrashInv ==
    ASSUME Inv, NEW c \in Calls, Crash(c), UNCHANGED world PROVE Inv'
<1>1. "error" \in Results \ {"none", "currency"} /\ {} \in SUBSET Orders
      /\ "crashed" \in {"calculate", "purchase", "wait", "crashed"}
  BY DEF Results
<1> QED BY <1>1, MoveInv DEF Crash, azure

(* A wait that ends: the counter moves to an attempt without an order.     *)
LEMMA WaitInv ==
    ASSUME Inv, NEW c \in Calls, WaitBeforeRetry(c), UNCHANGED world PROVE Inv'
<1>1. /\ Running(c) /\ pc[c] = "wait" /\ attempt[c] \in Attempts /\ attempt[c] < MaxAttempts
      /\ TypeOK /\ Loop(c) /\ Unsent(c) /\ Currency(c) /\ result[c] = "none"
      /\ UNCHANGED <<world, token, order, listed>>
  BY DEF WaitBeforeRetry, Running, Inv, TypeOK, Loop, azure
<1>2. CASE Refuse(c, attempt[c] + 1, "error") /\ UNCHANGED attempt
  <2>1. AfterUncertainAttempt(attempt[c] + 1, "error") \in Results \ {"none", "currency"}
        /\ {} \in SUBSET Orders /\ "crashed" \in {"calculate", "purchase", "wait", "crashed"}
    BY DEF AfterUncertainAttempt, Results
  <2> QED BY <1>1, <1>2, <2>1, MoveInv DEF Refuse
<1>3. CASE /\ Goto(c, "recheck") /\ attempt' = [attempt EXCEPT ![c] = @ + 1]
           /\ UNCHANGED <<result, adopted>>
  <2>1. /\ attempt' \in [Calls -> Attempts] /\ attempt'[c] = attempt[c] + 1
        /\ \A d \in Calls \ {c} : attempt'[d] = attempt[d]
    BY <1>1, <1>3 DEF TypeOK, Attempts
  <2>2. /\ pc' \in [Calls -> PCs] /\ pc'[c] = "recheck"
        /\ \A d \in Calls \ {c} : pc'[d] = pc[d]
    BY <1>1, <1>3 DEF TypeOK, Goto, PCs
  <2>3. TypeOK'
    BY <1>1, <1>3, <2>1, <2>2 DEF TypeOK
  <2>4. Loop(c)' /\ Currency(c)'
    BY <1>1, <1>3, <2>1, <2>2 DEF Loop, Currency
  <2>5. Unsent(c)'
    BY <1>1, <2>1, <2>2 DEF Unsent, Attempts
  <2>6. \A d \in Calls \ {c} : Loop(d)' /\ Unsent(d)' /\ Currency(d)'
    BY <1>1, <1>3, <2>1, <2>2 DEF Inv, Loop, Unsent, Currency
  <2>7. UnderContract' => ContractInv'
    <3> SUFFICES ASSUME UnderContract PROVE ContractInv'
      BY <1>1 DEF UnderContract
    <3>1. Current' /\ OneHot'
      BY <1>1 DEF Inv, ContractInv, Current, OneHot, Shared, Hot, Exists
    <3>2. \A d \in Calls : Running(d)' => Running(d)
      BY <1>1, <2>2 DEF Running
    <3>3. OneAtWork'
      BY <1>1, <3>2 DEF Inv, ContractInv, OneAtWork
    <3>4. OnlyRequest'
      <4> SUFFICES ASSUME NEW d \in Calls, NEW n \in Orders, Running(d), order[n] = "inflight",
                          token[n[1]] = token[d], token[d] # NoToken
                   PROVE  n = <<d, attempt'[d]>> /\ pc'[d] = "await"
        BY <1>1, <3>2 DEF OnlyRequest
      <4>1. n = <<d, attempt[d]>> /\ pc[d] = "await"
        BY DEF Inv, ContractInv, OnlyRequest
      <4> QED BY <1>1, <2>1, <2>2, <4>1
    <3>5. ClearToBuy'
      BY <1>1, <2>2 DEF Inv, ContractInv, ClearToBuy, Hot, Exists
    <3> QED BY <3>1, <3>3, <3>4, <3>5 DEF ContractInv
  <2> QED BY <2>3, <2>4, <2>5, <2>6, <2>7 DEF Inv
<1> QED BY <1>2, <1>3 DEF WaitBeforeRetry

(* A dispatch: the call has no orders, and under the contract its token    *)
(* has no other call at work and nothing on its way.                       *)
LEMMA DispatchInv ==
    ASSUME Inv, NEW c \in Calls, NEW t \in Tokens \cup {NoToken}, Dispatch(c, t), UNCHANGED world
    PROVE  Inv'
<1>1. /\ pc[c] = "idle" /\ TypeOK /\ Loop(c) /\ Unsent(c) /\ result[c] = "none"
      /\ attempt[c] = 1 /\ UNCHANGED <<world, result, adopted, order, listed>>
  BY DEF Dispatch, Inv, Loop, azure
<1>2. /\ token' \in [Calls -> Tokens \cup {NoToken}] /\ token'[c] = t
      /\ \A d \in Calls \ {c} : token'[d] = token[d]
  BY <1>1 DEF Dispatch, TypeOK
<1>3. attempt' = attempt
  BY <1>1 DEF Dispatch, TypeOK
<1>4. /\ pc' \in [Calls -> PCs] /\ pc'[c] = (IF t = NoToken THEN "calculate" ELSE "lookup")
      /\ \A d \in Calls \ {c} : pc'[d] = pc[d]
  BY <1>1 DEF Dispatch, TypeOK, Goto, PCs
<1>5. \A a \in Attempts : order[<<c, a>>] = "none"
  BY <1>1 DEF Unsent, Attempts
<1>6. TypeOK'
  BY <1>1, <1>2, <1>3, <1>4 DEF TypeOK
<1>7. Loop(c)' /\ Unsent(c)' /\ Currency(c)'
  BY <1>1, <1>2, <1>3, <1>4, <1>5 DEF Loop, Unsent, Currency
<1>8. \A d \in Calls \ {c} : Loop(d)' /\ Unsent(d)' /\ Currency(d)'
  BY <1>1, <1>2, <1>3, <1>4 DEF Inv, Loop, Unsent, Currency
<1>9. \A n \in Orders : (Hot(n)' <=> Hot(n)) /\ (Hot(n) => token'[n[1]] = token[n[1]])
  <2>1. \A n \in Orders : Hot(n) => n[1] # c /\ n[1] \in Calls
    BY <1>5, OrderParts DEF Hot, Exists
  <2> QED BY <1>1, <1>2, <2>1 DEF Hot, Exists
<1>10. UnderContract' => ContractInv'
  <2> SUFFICES ASSUME UnderContract PROVE ContractInv'
    BY <1>1 DEF UnderContract
  <2>0. ContractInv
    BY DEF Inv
  <2>1. Current'
    BY <1>1, <2>0 DEF ContractInv, Current, Exists
  <2>2. t # NoToken => \A d \in Calls : token[d] = t => ~Running(d)
    BY DEF Dispatch, MayDispatch
  <2>3. t # NoToken => \A n \in Orders : token[n[1]] = t => order[n] # "inflight"
    BY DEF Dispatch, MayDispatch
  <2>4. \A d \in Calls \ {c} : Running(d)' <=> Running(d)
    BY <1>4 DEF Running
  <2>5. OneAtWork'
    <3> SUFFICES ASSUME NEW d \in Calls, NEW e \in Calls, Running(d)', Running(e)',
                        token'[d] = token'[e], token'[d] # NoToken
                 PROVE  d = e
      BY DEF OneAtWork
    <3>1. CASE d # c /\ e # c
      BY <1>2, <2>0, <2>4, <3>1 DEF ContractInv, OneAtWork
    <3>2. CASE d = c \/ e = c
      BY <1>2, <2>2, <2>4, <3>2
    <3> QED BY <3>1, <3>2
  <2>6. OnlyRequest'
    <3> SUFFICES ASSUME NEW d \in Calls, NEW n \in Orders, Running(d)', order[n] = "inflight",
                        token'[n[1]] = token'[d], token'[d] # NoToken
                 PROVE  n = <<d, attempt[d]>> /\ pc'[d] = "await"
      BY <1>1, <1>3 DEF OnlyRequest
    <3>1. Hot(n) /\ token'[n[1]] = token[n[1]]
      BY <1>9 DEF Hot
    <3>2. d # c
      BY <1>2, <2>3, <3>1
    <3> QED BY <1>2, <1>4, <2>0, <2>4, <3>1, <3>2 DEF ContractInv, OnlyRequest
  <2>7. ClearToBuy'
    <3> SUFFICES ASSUME NEW d \in Calls, NEW n \in Orders, pc'[d] \in {"calculate", "purchase"},
                        token'[n[1]] = token'[d], token'[d] # NoToken, Hot(n)
                 PROVE  FALSE
      BY <1>9 DEF ClearToBuy
    <3>1. d # c
      BY <1>2, <1>4
    <3>2. token[n[1]] = token[d] /\ token[d] # NoToken /\ pc[d] \in {"calculate", "purchase"}
      BY <1>2, <1>4, <1>9, <3>1
    <3> QED BY <2>0, <3>2 DEF ContractInv, ClearToBuy
  <2>8. OneHot'
    BY <1>9, <2>0 DEF ContractInv, OneHot, Shared
  <2> QED BY <2>1, <2>5, <2>6, <2>7, <2>8 DEF ContractInv
<1> QED BY <1>6, <1>7, <1>8, <1>10 DEF Inv

(* Writing one order leaves the others alone.                              *)
LEMMA WriteOrder ==
    ASSUME TypeOK, NEW n \in Orders, NEW st \in OrderStates, order' = [order EXCEPT ![n] = st]
    PROVE  /\ order' \in [Orders -> OrderStates] /\ order'[n] = st
           /\ \A m \in Orders : m # n => order'[m] = order[m]
BY DEF TypeOK

(* The request leaves: it is the token's only hot order.                   *)
LEMMA SendInv ==
    ASSUME Inv, NEW c \in Calls, SendPurchase(c), UNCHANGED world PROVE Inv'
<1> DEFINE q == <<c, attempt[c]>>
<1>1. /\ pc[c] = "purchase" /\ Running(c) /\ TypeOK /\ Loop(c) /\ Unsent(c) /\ Currency(c)
      /\ attempt[c] \in Attempts /\ result[c] = "none"
      /\ UNCHANGED <<world, token, attempt, result, adopted, listed>>
  BY DEF SendPurchase, Running, Inv, Loop, TypeOK
<1>2. q \in Orders /\ q[1] = c /\ q[2] = attempt[c]
  BY <1>1, OrderParts
<1>3. order' = [order EXCEPT ![q] = "inflight"] /\ "inflight" \in OrderStates
  BY DEF SendPurchase, OrderStates
<1> HIDE DEF q
<1>4. /\ order' \in [Orders -> OrderStates] /\ order'[q] = "inflight"
      /\ \A m \in Orders : m # q => order'[m] = order[m]
  BY <1>1, <1>2, <1>3, WriteOrder
<1>5. /\ pc' \in [Calls -> PCs] /\ pc'[c] = "await" /\ \A d \in Calls \ {c} : pc'[d] = pc[d]
  BY <1>1 DEF SendPurchase, TypeOK, Goto, PCs
<1>6. TypeOK'
  BY <1>1, <1>4, <1>5 DEF TypeOK
<1>7. \A d \in Calls, a \in Attempts : d # c \/ a # attempt[c] => order'[<<d, a>>] = order[<<d, a>>]
  BY <1>2, <1>4, OrderParts
<1>8. Loop(c)' /\ Unsent(c)' /\ Currency(c)'
  BY <1>1, <1>5, <1>7 DEF Loop, Unsent, Currency, Attempts
<1>9. \A d \in Calls \ {c} : Loop(d)' /\ Unsent(d)' /\ Currency(d)'
  BY <1>1, <1>5, <1>7 DEF Inv, Loop, Unsent, Currency
<1>10. UnderContract' => ContractInv'
  <2> SUFFICES ASSUME UnderContract PROVE ContractInv'
    BY <1>1 DEF UnderContract
  <2>0. ContractInv
    BY DEF Inv
  <2>1. \A m \in Orders : m # q => (Hot(m)' <=> Hot(m)) /\ (Exists(m)' <=> Exists(m))
    BY <1>4 DEF Hot, Exists
  <2>2. Current'
    BY <1>1, <1>4, <2>0, <2>1 DEF ContractInv, Current, Exists
  <2>3. \A d \in Calls : Running(d)' => Running(d)
    BY <1>1, <1>5 DEF Running
  <2>4. OneAtWork'
    BY <1>1, <2>0, <2>3 DEF ContractInv, OneAtWork
  <2>5. \A m \in Orders : (token[m[1]] = token[c] /\ token[c] # NoToken) => ~Hot(m)
    BY <1>1, <2>0 DEF ContractInv, ClearToBuy
  <2>6. OnlyRequest'
    <3> SUFFICES ASSUME NEW d \in Calls, NEW n \in Orders, Running(d), order'[n] = "inflight",
                        token[n[1]] = token[d], token[d] # NoToken
                 PROVE  n = <<d, attempt[d]>> /\ pc'[d] = "await"
      BY <1>1, <2>3 DEF OnlyRequest
    <3>1. CASE n = q
      <4>1. d = c
        BY <1>1, <1>2, <2>0, <3>1 DEF ContractInv, OneAtWork
      <4> QED BY <1>5, <3>1, <4>1 DEF q
    <3>2. CASE n # q
      <4>1. n = <<d, attempt[d]>> /\ pc[d] = "await"
        BY <1>4, <2>0, <3>2 DEF ContractInv, OnlyRequest
      <4> QED BY <1>1, <1>5, <4>1
    <3> QED BY <3>1, <3>2
  <2>7. ClearToBuy'
    <3> SUFFICES ASSUME NEW d \in Calls, NEW n \in Orders, pc'[d] \in {"calculate", "purchase"},
                        token[n[1]] = token[d], token[d] # NoToken
                 PROVE  ~Hot(n)'
      BY <1>1 DEF ClearToBuy
    <3>1. d # c /\ pc[d] \in {"calculate", "purchase"} /\ Running(d)
      BY <1>5 DEF Running
    <3>2. n # q
      BY <1>1, <1>2, <2>0, <3>1 DEF ContractInv, OneAtWork
    <3> QED BY <2>0, <2>1, <3>1, <3>2 DEF ContractInv, ClearToBuy
  <2>8. OneHot'
    <3> SUFFICES ASSUME NEW m \in Orders, NEW n \in Orders, Shared(m, n), Hot(m)', Hot(n)'
                 PROVE  m = n
      BY <1>1 DEF OneHot, Shared
    <3>1. CASE m # q /\ n # q
      BY <2>0, <2>1, <3>1 DEF ContractInv, OneHot
    <3>2. CASE m = q \/ n = q
      BY <1>2, <2>1, <2>5, <3>2 DEF Shared
    <3> QED BY <3>1, <3>2
  <2> QED BY <2>2, <2>4, <2>6, <2>7, <2>8 DEF ContractInv
<1> QED BY <1>6, <1>8, <1>9, <1>10 DEF Inv

(* Azure changes an order that was sent; it makes nothing hot that was not *)
(* and, under the contract, lists what it makes exist.                     *)
LEMMA ServerInv ==
    ASSUME Inv, NEW n \in Orders, NEW st \in OrderStates \ {"none", "inflight"},
           UNCHANGED <<world, pc, token, attempt, result, adopted>>,
           order' = [order EXCEPT ![n] = st], order[n] # "none", Hot(n)' => Hot(n),
           listed' \subseteq Orders, listed \subseteq listed',
           (UnderContract /\ Exists(n)') => n \in listed'
    PROVE  Inv'
<1>1. TypeOK /\ n[1] \in Calls /\ n[2] \in Attempts /\ n = <<n[1], n[2]>>
  BY OrderParts DEF Inv
<1>2. /\ order' \in [Orders -> OrderStates] /\ order'[n] = st
      /\ \A m \in Orders : m # n => order'[m] = order[m]
  BY <1>1, WriteOrder
<1>3. TypeOK'
  BY <1>1, <1>2 DEF TypeOK
<1>4. \A d \in Calls, a \in Attempts : order[<<d, a>>] = "none" => order'[<<d, a>>] = "none"
  BY <1>2, OrderParts
<1>5. \A d \in Calls : Loop(d)' /\ Unsent(d)' /\ Currency(d)'
  BY <1>4 DEF Inv, Loop, Unsent, Currency
<1>6. \A m \in Orders : (Hot(m)' => Hot(m)) /\ (order'[m] = "inflight" => order[m] = "inflight")
  BY <1>2 DEF Hot, Exists
<1>7. UnderContract' => ContractInv'
  <2> SUFFICES ASSUME UnderContract PROVE ContractInv'
    BY DEF UnderContract
  <2>0. ContractInv
    BY DEF Inv
  <2>1. Current'
    BY <1>2, <2>0 DEF ContractInv, Current, Exists
  <2>2. OneAtWork'
    BY <2>0 DEF ContractInv, OneAtWork, Running
  <2>3. OnlyRequest'
    BY <1>6, <2>0 DEF ContractInv, OnlyRequest, Running
  <2>4. ClearToBuy'
    BY <1>6, <2>0 DEF ContractInv, ClearToBuy
  <2>5. OneHot'
    BY <1>6, <2>0 DEF ContractInv, OneHot, Shared
  <2> QED BY <2>1, <2>2, <2>3, <2>4, <2>5 DEF ContractInv
<1> QED BY <1>3, <1>5, <1>7 DEF Inv

LEMMA ServerStepInv ==
    ASSUME Inv, NEW n \in Orders, Process(n) \/ List(n) \/ Progress(n), UNCHANGED world
    PROVE  Inv'
<1>0. TypeOK /\ UNCHANGED <<world, pc, token, attempt, result, adopted>>
  BY DEF Inv, Process, List, Progress
<1>1. ASSUME NEW st \in {"adopt", "blocked", "retryable", "rejected"},
             order' = [order EXCEPT ![n] = st]
      PROVE  st \in OrderStates \ {"none", "inflight"} /\ order'[n] = st
  BY <1>0, <1>1 DEF TypeOK, OrderStates
<1>2. CASE Process(n)
  <2>1. order[n] = "inflight" /\ listed' \subseteq Orders /\ listed \subseteq listed'
    BY <1>0, <1>2 DEF Process, TypeOK
  <2>2. PICK st \in {"adopt", "rejected"} :
          /\ order' = [order EXCEPT ![n] = st]
          /\ (st = "adopt" /\ UnderContract) => n \in listed'
    BY <1>2 DEF Process
  <2>3. Exists(n)' => st = "adopt"
    BY <1>1, <2>2 DEF Exists
  <2>4. st \in {"adopt", "blocked", "retryable", "rejected"} /\ Hot(n)
    BY <2>1 DEF Hot
  <2> QED BY <1>0, <1>1, <2>1, <2>2, <2>3, <2>4, ServerInv
<1>3. CASE Progress(n)
  <2>1. PICK st \in {"adopt", "blocked", "retryable"} :
          Exists(n) /\ order' = [order EXCEPT ![n] = st]
    BY <1>3 DEF Progress
  <2>2. listed' = listed /\ order[n] # "none" /\ Hot(n) /\ listed \subseteq Orders
    BY <1>0, <1>3, <2>1 DEF Progress, Exists, Hot, TypeOK
  <2>3. UnderContract => n \in listed
    BY <2>1 DEF Inv, ContractInv, Current
  <2> QED BY <1>0, <1>1, <2>1, <2>2, <2>3, ServerInv
<1>4. CASE List(n)
  <2>1. Committed(n) /\ order' = order /\ listed' = listed \cup {n}
    BY <1>4 DEF List
  <2>2. TypeOK'
    BY <1>0, <2>1 DEF TypeOK
  <2>3. \A c \in Calls : Loop(c)' /\ Unsent(c)' /\ Currency(c)'
    BY <1>0, <2>1 DEF Inv, Loop, Unsent, Currency
  <2>4. UnderContract' => ContractInv'
    BY <1>0, <2>1 DEF Inv, UnderContract, ContractInv, Current, OneAtWork, OnlyRequest,
                      ClearToBuy, OneHot, Shared, Hot, Exists, Running
  <2> QED BY <2>2, <2>3, <2>4 DEF Inv
<1> QED BY <1>2, <1>3, <1>4

LEMMA InitInv == Init => Inv
<1> SUFFICES ASSUME Init PROVE Inv OBVIOUS
<1>1. TypeOK
  BY DEF Init, TypeOK, PCs, Results, OrderStates, Attempts
<1>2. \A c \in Calls : pc[c] = "idle" /\ token[c] = NoToken /\ attempt[c] = 1 /\ result[c] = "none"
  BY DEF Init
<1>3. \A n \in Orders : order[n] = "none" /\ ~Hot(n)
  BY DEF Init, Hot, Exists
<1>4. \A c \in Calls : Loop(c) /\ Unsent(c) /\ Currency(c)
  BY <1>2, <1>3, OrderParts DEF Loop, Unsent, Currency
<1>5. ContractInv
  BY <1>2, <1>3 DEF ContractInv, Current, OneAtWork, OnlyRequest, ClearToBuy, OneHot, Exists
<1> QED BY <1>1, <1>4, <1>5 DEF Inv

LEMMA NextInv == Inv /\ [Next]_vars => Inv'
<1> SUFFICES ASSUME Inv, [Next]_vars PROVE Inv' OBVIOUS
<1>1. CASE UNCHANGED world /\ \E c \in Calls, t \in Tokens \cup {NoToken} : Dispatch(c, t)
  BY <1>1, DispatchInv
<1>2. CASE UNCHANGED world /\ \E c \in Calls : CallStep(c) \/ Crash(c)
  BY <1>2, GuardInv, CalculateInv, SendInv, AwaitInv, WaitInv, RecheckInv, CrashInv
     DEF CallStep
<1>3. CASE UNCHANGED world /\ \E n \in Orders : Process(n) \/ List(n) \/ Progress(n)
  BY <1>3, ServerStepInv
<1>4. CASE UNCHANGED vars
  BY <1>4 DEF vars, Inv, TypeOK, Loop, Unsent, Currency, UnderContract, ContractInv, Current,
              OneAtWork, OnlyRequest, ClearToBuy, OneHot, Shared, Hot, Exists, Running
<1> QED BY <1>1, <1>2, <1>3, <1>4 DEF Next, Step

LEMMA InvHolds == Spec => []Inv
BY InitInv, NextInv, PTL DEF Spec

(* Type correctness: the loop counter of DoPurchaseTwoStep never passes    *)
(* purchaseMaxAttempts.                                                    *)
THEOREM TypeCorrect == Spec => []TypeOK
<1>1. Inv => TypeOK BY DEF Inv
<1> QED BY <1>1, InvHolds, PTL

(* ErrCurrencyNotAccepted on its own, not wrapped by afterUncertainAttempt, *)
(* means that the call has sent nothing, for every caller and every number *)
(* of attempts.                                                            *)
THEOREM CurrencyIsSafe == Spec => []CurrencyMeansNothingBought
<1>1. Inv => CurrencyMeansNothingBought
  BY DEF Inv, Currency, CurrencyMeansNothingBought
<1> QED BY <1>1, InvHolds, PTL

(* Under the contract a token never has two orders that exist, although    *)
(* every attempt mints a new one: the lookup before the loop and           *)
(* recheckAlreadyPurchased in it see whatever the token has.               *)
THEOREM OwnsOne == Spec => []TokenOwnsOne
<1>1. Inv => TokenOwnsOne
  BY DEF Inv, ContractInv, OneHot, Shared, Hot, TokenOwnsOne
<1> QED BY <1>1, InvHolds, PTL
=============================================================================
