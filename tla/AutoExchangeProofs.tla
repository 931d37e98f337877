------------------------- MODULE AutoExchangeProofs -------------------------
(***************************************************************************)
(* Proofs about AutoExchange for every finite number of runs and           *)
(* recommendations: type correctness, that the ledger covers every exchange*)
(* that took place or still can, that what was paid stays within the daily *)
(* cap, that a run leaves at most one exchange in doubt, and that an RI has*)
(* at most one pending record per origin.                                  *)
(***************************************************************************)
EXTENDS AutoExchange, FiniteSetTheorems, WellFoundedInduction, TLAPS

LEMMA PricesNat == \A p \in Prices : p \in Nat
BY ConstantsAssumption

LEMMA WriteType ==
    ASSUME TypeOK, NEW r \in Runs, NEW x \in RIs, NEW status \in Statuses, NEW amount \in Nat,
           Write(r, x, status, amount) \/ WriteFails(r, x, status, amount)
    PROVE  record' \in [Runs -> [RIs -> Records]]
<1>1. [status |-> status, counted |-> amount] \in Records
  BY DEF Records
<1>2. CASE UNCHANGED record
  BY <1>2 DEF TypeOK
<1>3. CASE Write(r, x, status, amount)
  BY <1>1, <1>3 DEF TypeOK, Write
<1> QED BY <1>2, <1>3 DEF WriteFails

LEMMA LeaveType ==
    ASSUME TypeOK, NEW r \in Runs, NEW l \in PCs, Leave(r, l)
    PROVE  /\ pc' \in [Runs -> PCs] /\ cur' \in [Runs -> SUBSET RIs]
           /\ quote' \in [Runs -> Nat] /\ ceiling' \in [Runs -> Nat] /\ tries' \in [Runs -> Nat]
BY DEF TypeOK, Leave, Goto

LEMMA InitType == Init => TypeOK
BY DEF Init, TypeOK, PCs, Statuses, NoRecord, Records, Accepts

LEMMA NextType == TypeOK /\ [Next]_vars => TypeOK'
<1> SUFFICES ASSUME TypeOK, [Next]_vars PROVE TypeOK' OBVIOUS
<1>p. params' = params
  BY DEF Next, vars
<1> USE <1>p
<1> USE DEF aws, locals, NextRecommendation, Halt
<1>0. {"next", "done", "crashed"} \subseteq PCs
  BY DEF PCs
<1>1. ASSUME NEW r \in Runs, Start(r) PROVE TypeOK'
  BY <1>1 DEF TypeOK, Start, Goto, PCs
<1>2. ASSUME NEW r \in Runs, CancelStalePending(r) PROVE TypeOK'
  <2>1. record' \in [Runs -> [RIs -> Records]]
    BY <1>2 DEF CancelStalePending, CancelPendingByOrigin, TypeOK, Statuses, Records
  <2> QED BY <1>2, <2>1 DEF TypeOK, CancelStalePending, Goto, PCs
<1>3. ASSUME NEW r \in Runs, Finish(r) PROVE TypeOK'
  BY <1>3 DEF TypeOK, Finish, Goto, PCs
<1>4. ASSUME NEW r \in Runs, NEW x \in RIs, Consider(r, x) PROVE TypeOK'
  <2>1. todo' \in [Runs -> SUBSET RIs] /\ UNCHANGED <<record, aws>>
    BY <1>4 DEF Consider, TypeOK
  <2>2. CASE Leave(r, "next")
    BY <1>0, <2>1, <2>2, LeaveType DEF TypeOK
  <2>3. CASE ~Leave(r, "next")
    <3>1. PICK p \in Prices : /\ quote' = [quote EXCEPT ![r] = p]
                             /\ cur' = [cur EXCEPT ![r] = {x}]
                             /\ Goto(r, IF params[r].mode = "manual" THEN "manual" ELSE "reserve")
                             /\ UNCHANGED <<ceiling, tries>>
      BY <1>4, <2>3 DEF Consider
    <3> QED BY <2>1, <3>1, PricesNat DEF TypeOK, Goto, PCs
  <2> QED BY <2>2, <2>3
<1>5. ASSUME NEW r \in Runs, NEW x \in RIs, SaveManual(r, x) PROVE TypeOK'
  <2>1. record' \in [Runs -> [RIs -> Records]]
    <3>1. PICK status \in {"pending", "failed"} : WriteFails(r, x, status, 0)
      BY <1>5 DEF SaveManual
    <3>2. status \in Statuses /\ 0 \in Nat
      BY DEF Statuses
    <3> QED BY <3>1, <3>2, WriteType
  <2> QED BY <1>0, <1>5, <2>1, LeaveType DEF TypeOK, SaveManual
<1>6. ASSUME NEW r \in Runs, NEW x \in RIs, Reserve(r, x) PROVE TypeOK'
  <2>1. CASE UNCHANGED record /\ NextRecommendation(r)
    BY <1>0, <1>6, <2>1, LeaveType DEF TypeOK, Reserve
  <2>2. CASE ~(UNCHANGED record /\ NextRecommendation(r))
    <3>1. PICK c \in 0..PerExchangeCap :
             /\ Write(r, x, "processing", c)
             /\ \/ Leave(r, "next") \/ Leave(r, "done")
                \/ /\ Goto(r, "execute") \/ Goto(r, "bad")
                   /\ ceiling' = [ceiling EXCEPT ![r] = c]
                   /\ UNCHANGED <<cur, quote, tries>>
      BY <1>6, <2>2 DEF Reserve
    <3>2. c \in Nat
      BY ConstantsAssumption
    <3>3. record' \in [Runs -> [RIs -> Records]]
      BY <3>1, <3>2, WriteType DEF Statuses
    <3>4. UNCHANGED <<todo, aws>>
      BY <1>6 DEF Reserve
    <3>5. CASE Leave(r, "next") \/ Leave(r, "done")
      BY <1>0, <3>3, <3>4, <3>5, LeaveType DEF TypeOK
    <3>6. CASE /\ Goto(r, "execute") \/ Goto(r, "bad")
               /\ ceiling' = [ceiling EXCEPT ![r] = c]
               /\ UNCHANGED <<cur, quote, tries>>
      BY <3>2, <3>3, <3>4, <3>6 DEF TypeOK, Goto, PCs
    <3> QED BY <3>1, <3>5, <3>6
  <2> QED BY <2>1, <2>2
<1>7. ASSUME NEW r \in Runs, NEW x \in RIs, BadCeiling(r, x) PROVE TypeOK'
  <2>1. record' \in [Runs -> [RIs -> Records]]
    BY <1>7, WriteType DEF BadCeiling, Statuses
  <2> QED BY <1>0, <1>7, <2>1, LeaveType DEF TypeOK, BadCeiling
<1>8. ASSUME NEW r \in Runs, NEW x \in RIs, InitialQuote(r, x) PROVE TypeOK'
  BY <1>8 DEF TypeOK, InitialQuote, Goto, PCs
<1>9. ASSUME NEW r \in Runs, NEW x \in RIs, ReQuote(r, x) PROVE TypeOK'
  <2>1. quote' \in [Runs -> Nat]
    BY <1>9, PricesNat DEF TypeOK, ReQuote
  <2>2. pc' \in [Runs -> PCs]
    BY <1>9 DEF TypeOK, ReQuote, Goto, PCs
  <2> QED BY <1>9, <2>1, <2>2 DEF TypeOK, ReQuote
<1>10. ASSUME NEW r \in Runs, NEW x \in RIs, SendAccept(r, x) PROVE TypeOK'
  BY <1>10 DEF TypeOK, SendAccept, Accepts, Goto, PCs
<1>11. ASSUME NEW r \in Runs, NEW x \in RIs, AwaitAccept(r, x) PROVE TypeOK'
  <2>1. CASE Leave(r, "done")
    BY <1>0, <1>11, <2>1, LeaveType DEF TypeOK, AwaitAccept
  <2>2. CASE ~Leave(r, "done")
    BY <1>11, <2>2 DEF TypeOK, AwaitAccept, Accepted, Rejected, Goto, PCs
  <2> QED BY <2>1, <2>2
<1>12. ASSUME NEW r \in Runs, NEW x \in RIs, FailRecord(r, x) PROVE TypeOK'
  <2>1. record' \in [Runs -> [RIs -> Records]]
    BY <1>12, WriteType DEF FailRecord, Statuses
  <2> QED BY <1>0, <1>12, <2>1, LeaveType DEF TypeOK, FailRecord
<1>13. ASSUME NEW r \in Runs, NEW x \in RIs, Settle(r, x) PROVE TypeOK'
  <2>1. quote[r] \in Nat /\ tries[r] + 1 \in Nat
    BY DEF TypeOK
  <2>2. record' \in [Runs -> [RIs -> Records]]
    BY <1>13, <2>1, WriteType DEF Settle, Statuses
  <2>3. CASE Leave(r, "next") \/ Leave(r, "done")
    BY <1>0, <1>13, <2>2, <2>3, LeaveType DEF TypeOK, Settle
  <2>4. CASE ~(Leave(r, "next") \/ Leave(r, "done"))
    BY <1>13, <2>1, <2>2, <2>4 DEF TypeOK, Settle
  <2> QED BY <2>3, <2>4
<1>14. ASSUME NEW r \in Runs, Crash(r) PROVE TypeOK'
  BY <1>0, <1>14, LeaveType DEF TypeOK, Crash
<1>15. ASSUME NEW r \in Runs, NEW x \in RIs, ProcessAccept(r, x) PROVE TypeOK'
  <2>1. accept[r][x] \in Accepts
    BY DEF TypeOK
  <2>2. [accept[r][x] EXCEPT !.state = "rejected"]
           \in Accepts
    BY <2>1 DEF Accepts
  <2>3. \A p \in (IF PriceHolds THEN {accept[r][x].amount} ELSE Prices) : p \in Nat
    BY <2>1, PricesNat DEF Accepts
  <2>4. accept' \in [Runs -> [RIs -> Accepts]]
    <3>1. CASE accept' = [accept EXCEPT ![r][x].state = "rejected"]
      BY <3>1, <2>2 DEF TypeOK
    <3>2. CASE \E p \in IF PriceHolds THEN {accept[r][x].amount} ELSE Prices :
                  accept' = [accept EXCEPT ![r][x] = [state |-> "done", amount |-> p]]
      <4>1. PICK p \in Nat :
               accept' = [accept EXCEPT ![r][x] = [state |-> "done", amount |-> p]]
        BY <3>2, <2>3
      <4> QED BY <4>1 DEF TypeOK, Accepts
    <3> QED BY <1>15, <3>1, <3>2 DEF ProcessAccept
  <2> QED BY <1>15, <2>4 DEF TypeOK, ProcessAccept
<1>16. CASE UNCHANGED vars
  BY <1>16 DEF TypeOK, vars
<1> QED
  BY <1>1, <1>2, <1>3, <1>4, <1>5, <1>6, <1>7, <1>8, <1>9, <1>10, <1>11, <1>12, <1>13,
     <1>14, <1>15, <1>16 DEF Next, Step, RunStep

(* The variables of the exchange run and of its ledger keep their types.   *)
THEOREM TypeCorrect == Spec => []TypeOK
<1>1. Init => TypeOK
  BY InitType
<1>2. TypeOK /\ [Next]_vars => TypeOK'
  BY NextType
<1> QED BY <1>1, <1>2, PTL DEF Spec
-----------------------------------------------------------------------------
(* The ledger covers every exchange.                                       *)

(* A run works on one recommendation, which it has taken off its list.     *)
OneAtATime(r) == \A x, y \in RIs : (x \in cur[r] /\ y \in cur[r]) => x = y

(* Nothing was accepted for a recommendation the run has not come to.      *)
Untouched(r, x) == x \in todo[r] => accept[r][x].state = "none" /\ x \notin cur[r]

(* The reservation stands, for the ceiling, until its outcome is known.    *)
Reserved(r, x) == record[r][x].status = "processing" /\ record[r][x].counted = ceiling[r]

(* What the run knows of the exchange it works on, by where it is.         *)
InProgress(r, x) ==
    x \in cur[r] =>
        /\ pc[r] \in {"manual", "reserve", "bad", "execute", "requote", "accept"}
              => accept[r][x].state = "none"
        /\ pc[r] \in {"bad", "execute", "requote", "accept", "await"} => Reserved(r, x)
        /\ pc[r] \in {"accept", "await"} => quote[r] <= ceiling[r]
        /\ pc[r] \in {"await", "settle"} => accept[r][x].amount = quote[r]
        /\ pc[r] = "fail" => accept[r][x].state \in {"none", "rejected"}
        /\ pc[r] = "settle" => /\ accept[r][x].state = "done"
                               /\ record[r][x].status \in {"processing", "completed"}
                               /\ record[r][x].counted >= quote[r]

Covered(r, x) ==
    accept[r][x].state \in {"inflight", "done"} =>
        /\ record[r][x].status \in {"processing", "completed"}
        /\ record[r][x].counted >= accept[r][x].amount

RunInv(r) ==
    /\ OneAtATime(r)
    /\ \A x \in RIs : Untouched(r, x) /\ InProgress(r, x) /\ Covered(r, x)

ExchangeInv == \A r \in Runs : RunInv(r)

(* What a step leaves alone for a run keeps that run's invariant.          *)
LEMMA Frame ==
    ASSUME NEW s \in Runs, RunInv(s),
           UNCHANGED <<pc[s], todo[s], cur[s], quote[s], ceiling[s], record[s], accept[s]>>
    PROVE  RunInv(s)'
BY DEF RunInv, OneAtATime, Untouched, InProgress, Reserved, Covered

(* A run that leaves its recommendation only has its ledger to account for. *)
LEMMA LeaveInv ==
    ASSUME TypeOK, NEW r \in Runs, NEW l \in PCs, RunInv(r), Leave(r, l),
           todo'[r] \subseteq todo[r], UNCHANGED accept, \A x \in RIs : Covered(r, x)'
    PROVE  RunInv(r)'
<1>1. cur'[r] = {}
  BY DEF TypeOK, Leave
<1> QED BY <1>1 DEF RunInv, OneAtATime, Untouched, InProgress

(* A record may be written freely while no accept is alive for it.         *)
LEMMA WriteCovered ==
    ASSUME TypeOK, NEW r \in Runs, NEW x \in RIs, NEW status, NEW amount, RunInv(r),
           Write(r, x, status, amount) \/ WriteFails(r, x, status, amount), UNCHANGED accept,
           accept[r][x].state \notin {"inflight", "done"}
             \/ (status \in {"processing", "completed"} /\ amount >= accept[r][x].amount)
    PROVE  \A y \in RIs : Covered(r, y)'
<1>1. CASE UNCHANGED record
  BY <1>1 DEF RunInv, Covered
<1>2. CASE Write(r, x, status, amount)
  BY <1>2 DEF RunInv, Covered, Write, TypeOK
<1> QED BY <1>1, <1>2 DEF WriteFails

(* Every step of another run leaves this one alone.                        *)
LEMMA WriteFrame ==
    ASSUME TypeOK, NEW r \in Runs, NEW x \in RIs, NEW status, NEW amount,
           Write(r, x, status, amount) \/ WriteFails(r, x, status, amount)
    PROVE  \A s \in Runs \ {r} : record'[s] = record[s]
BY DEF TypeOK, Write, WriteFails

LEMMA NextExchange ==
    ASSUME PriceHolds, TypeOK, TypeOK', ExchangeInv, [Next]_vars PROVE ExchangeInv'
<1> USE DEF aws, locals, NextRecommendation, Halt
<1>0. /\ \A r \in Runs : RunInv(r)
      /\ {"next", "done", "crashed"} \subseteq PCs
  BY DEF ExchangeInv, PCs
<1>1. ASSUME NEW r \in Runs, Start(r) PROVE ExchangeInv'
  <2>1. RunInv(r)'
    BY <1>0, <1>1 DEF RunInv, OneAtATime, Untouched, InProgress, Reserved, Covered, TypeOK, Start, Goto
  <2>2. ASSUME NEW s \in Runs \ {r} PROVE RunInv(s)'
    BY <1>0, <1>1, Frame DEF TypeOK, Start, Goto
  <2> QED BY <2>1, <2>2 DEF ExchangeInv
<1>2. ASSUME NEW r \in Runs, CancelStalePending(r), NEW s \in Runs PROVE RunInv(s)'
  <2>1. \A y \in RIs : \/ record'[s][y] = record[s][y]
                      \/ record[s][y].status = "pending"
    BY <1>2 DEF CancelStalePending, CancelPendingByOrigin, TypeOK
  <2>2. UNCHANGED <<todo, cur, quote, ceiling, accept>>
    BY <1>2 DEF CancelStalePending
  <2>3. pc'[s] = pc[s] \/ pc'[s] \in {"next", "done"}
    BY <1>2 DEF CancelStalePending, Goto, TypeOK
  <2>4. ASSUME NEW y \in RIs PROVE Covered(s, y)' /\ Untouched(s, y)'
    BY <1>0, <2>1, <2>2, <2>4 DEF RunInv, Covered, Untouched
  <2>5. ASSUME NEW y \in RIs PROVE InProgress(s, y)'
    BY <1>0, <2>1, <2>2, <2>3, <2>5 DEF RunInv, InProgress, Reserved
  <2> QED BY <1>0, <2>2, <2>4, <2>5 DEF RunInv, OneAtATime
<1>3. ASSUME NEW r \in Runs, Finish(r) PROVE ExchangeInv'
  <2>1. RunInv(r)'
    BY <1>0, <1>3 DEF RunInv, OneAtATime, Untouched, InProgress, Reserved, Covered, TypeOK, Finish, Goto
  <2>2. ASSUME NEW s \in Runs \ {r} PROVE RunInv(s)'
    BY <1>0, <1>3, Frame DEF TypeOK, Finish, Goto
  <2> QED BY <2>1, <2>2 DEF ExchangeInv
<1>4. ASSUME NEW r \in Runs, NEW x \in RIs, Consider(r, x) PROVE ExchangeInv'
  <2>1. RunInv(r)'
    <3>1. todo'[r] = todo[r] \ {x} /\ UNCHANGED <<record, aws>> /\ x \in todo[r]
      BY <1>4 DEF Consider, TypeOK
    <3>2. \A y \in RIs : Covered(r, y)'
      BY <1>0, <3>1 DEF RunInv, Covered
    <3>3. CASE Leave(r, "next")
      BY <1>0, <3>1, <3>2, <3>3, LeaveInv
    <3>4. CASE ~Leave(r, "next")
      <4>1. pc'[r] \in {"manual", "reserve"} /\ cur'[r] = {x}
        BY <1>4, <3>4 DEF Consider, Goto, TypeOK
      <4>2. accept[r][x].state = "none"
        BY <1>0, <3>1 DEF RunInv, Untouched
      <4> QED BY <1>0, <3>1, <3>2, <4>1, <4>2 DEF RunInv, OneAtATime, Untouched, InProgress
    <3> QED BY <3>3, <3>4
  <2>2. ASSUME NEW s \in Runs \ {r} PROVE RunInv(s)'
    BY <1>0, <1>4, Frame DEF TypeOK, Consider, Leave, Goto
  <2> QED BY <2>1, <2>2 DEF ExchangeInv
<1>5. ASSUME NEW r \in Runs, NEW x \in RIs, SaveManual(r, x) PROVE ExchangeInv'
  <2>1. RunInv(r)'
    <3>1. accept[r][x].state = "none"
      BY <1>0, <1>5 DEF RunInv, InProgress, SaveManual
    <3>2. PICK status \in {"pending", "failed"} : WriteFails(r, x, status, 0)
      BY <1>5 DEF SaveManual
    <3>3. \A y \in RIs : Covered(r, y)'
      BY <1>0, <1>5, <3>1, <3>2, WriteCovered DEF SaveManual
    <3> QED BY <1>0, <1>5, <3>3, LeaveInv DEF SaveManual
  <2>2. ASSUME NEW s \in Runs \ {r} PROVE RunInv(s)'
    BY <1>0, <1>5, Frame, WriteFrame DEF TypeOK, SaveManual, Leave, Goto
  <2> QED BY <2>1, <2>2 DEF ExchangeInv
<1>6. ASSUME NEW r \in Runs, NEW x \in RIs, Reserve(r, x) PROVE ExchangeInv'
  <2>1. RunInv(r)'
    <3>1. accept[r][x].state = "none"
      BY <1>0, <1>6 DEF RunInv, InProgress, Reserve
    <3>2. UNCHANGED <<todo, aws>>
      BY <1>6 DEF Reserve
    <3>3. \A y \in RIs : Covered(r, y)'
      <4>1. CASE UNCHANGED record
        BY <1>0, <3>2, <4>1 DEF RunInv, Covered
      <4>2. CASE \E c \in 0..PerExchangeCap : Write(r, x, "processing", c)
        BY <1>0, <3>1, <3>2, <4>2, WriteCovered
      <4> QED BY <1>6, <4>1, <4>2 DEF Reserve
    <3>4. CASE Leave(r, "next") \/ Leave(r, "done")
      BY <1>0, <3>2, <3>3, <3>4, LeaveInv
    <3>5. CASE ~(Leave(r, "next") \/ Leave(r, "done"))
      <4>1. PICK c \in 0..PerExchangeCap :
               /\ Write(r, x, "processing", c)
               /\ Goto(r, "execute") \/ Goto(r, "bad")
               /\ ceiling' = [ceiling EXCEPT ![r] = c]
               /\ UNCHANGED <<cur, quote, tries>>
        BY <1>6, <3>5 DEF Reserve
      <4>2. Reserved(r, x)' /\ pc'[r] \in {"execute", "bad"} /\ cur'[r] = cur[r] /\ x \in cur[r]
        BY <1>6, <4>1 DEF Reserve, Write, Reserved, Goto, TypeOK
      <4>3. \A y \in RIs : y \in cur[r] => y = x
        BY <1>0, <4>2 DEF RunInv, OneAtATime
      <4> QED BY <1>0, <3>1, <3>2, <3>3, <4>2, <4>3 DEF RunInv, OneAtATime, Untouched, InProgress
    <3> QED BY <3>4, <3>5
  <2>2. ASSUME NEW s \in Runs \ {r} PROVE RunInv(s)'
    BY <1>0, <1>6, Frame, WriteFrame DEF TypeOK, Reserve, Leave, Goto
  <2> QED BY <2>1, <2>2 DEF ExchangeInv
<1>7. ASSUME NEW r \in Runs, NEW x \in RIs, BadCeiling(r, x) PROVE ExchangeInv'
  <2>1. RunInv(r)'
    <3>1. accept[r][x].state = "none"
      BY <1>0, <1>7 DEF RunInv, InProgress, BadCeiling
    <3>2. \A y \in RIs : Covered(r, y)'
      BY <1>0, <1>7, <3>1, WriteCovered DEF BadCeiling
    <3> QED BY <1>0, <1>7, <3>2, LeaveInv DEF BadCeiling
  <2>2. ASSUME NEW s \in Runs \ {r} PROVE RunInv(s)'
    BY <1>0, <1>7, Frame, WriteFrame DEF TypeOK, BadCeiling, Leave, Goto
  <2> QED BY <2>1, <2>2 DEF ExchangeInv
<1>8. ASSUME NEW r \in Runs, NEW x \in RIs, InitialQuote(r, x) PROVE ExchangeInv'
  <2>1. RunInv(r)'
    BY <1>0, <1>8 DEF RunInv, OneAtATime, Untouched, InProgress, Reserved, Covered, TypeOK, InitialQuote, Goto
  <2>2. ASSUME NEW s \in Runs \ {r} PROVE RunInv(s)'
    BY <1>0, <1>8, Frame DEF TypeOK, InitialQuote, Goto
  <2> QED BY <2>1, <2>2 DEF ExchangeInv
<1>9. ASSUME NEW r \in Runs, NEW x \in RIs, ReQuote(r, x) PROVE ExchangeInv'
  <2>1. RunInv(r)'
    BY <1>0, <1>9 DEF RunInv, OneAtATime, Untouched, InProgress, Reserved, Covered, TypeOK, ReQuote, Goto
  <2>2. ASSUME NEW s \in Runs \ {r} PROVE RunInv(s)'
    BY <1>0, <1>9, Frame DEF TypeOK, ReQuote, Goto
  <2> QED BY <2>1, <2>2 DEF ExchangeInv
<1>10. ASSUME NEW r \in Runs, NEW x \in RIs, SendAccept(r, x) PROVE ExchangeInv'
  <2>1. RunInv(r)'
    <3>1. /\ accept'[r][x] = [state |-> "inflight", amount |-> quote[r]]
          /\ \A y \in RIs \ {x} : accept'[r][y] = accept[r][y]
          /\ UNCHANGED <<todo, locals, record>> /\ pc[r] = "accept" /\ x \in cur[r] /\ pc'[r] = "await"
      BY <1>10 DEF SendAccept, Goto, TypeOK
    <3>2. Reserved(r, x) /\ quote[r] <= ceiling[r] /\ quote[r] \in Nat /\ ceiling[r] \in Nat
      BY <1>0, <3>1 DEF RunInv, InProgress, TypeOK
    <3>3. ASSUME NEW y \in RIs PROVE Untouched(r, y)' /\ Covered(r, y)'
      BY <1>0, <3>1, <3>2, <3>3 DEF RunInv, Untouched, Covered, Reserved
    <3>4. ASSUME NEW y \in RIs PROVE InProgress(r, y)'
      BY <1>0, <3>1, <3>2, <3>4 DEF RunInv, OneAtATime, InProgress, Reserved
    <3> QED BY <1>0, <3>1, <3>3, <3>4 DEF RunInv, OneAtATime
  <2>2. ASSUME NEW s \in Runs \ {r} PROVE RunInv(s)'
    BY <1>0, <1>10, Frame DEF TypeOK, SendAccept, Goto
  <2> QED BY <2>1, <2>2 DEF ExchangeInv
<1>11. ASSUME NEW r \in Runs, NEW x \in RIs, AwaitAccept(r, x) PROVE ExchangeInv'
  <2>1. RunInv(r)'
    <3>1. UNCHANGED <<todo, record, aws>> /\ x \in cur[r] /\ pc[r] = "await"
      BY <1>11 DEF AwaitAccept
    <3>2. \A y \in RIs : Covered(r, y)'
      BY <1>0, <3>1 DEF RunInv, Covered
    <3>3. CASE Leave(r, "done")
      BY <1>0, <3>1, <3>2, <3>3, LeaveInv
    <3>4. CASE Accepted(r, x) \/ Rejected(r, x)
      <4>1. /\ UNCHANGED locals
            /\ \/ pc'[r] = "settle" /\ accept[r][x].state = "done"
               \/ pc'[r] = "fail" /\ accept[r][x].state = "rejected"
        BY <3>4 DEF Accepted, Rejected, Goto, TypeOK
      <4>2. Reserved(r, x) /\ quote[r] <= ceiling[r] /\ accept[r][x].amount = quote[r]
        BY <1>0, <3>1 DEF RunInv, InProgress
      <4>3. quote[r] \in Nat /\ ceiling[r] \in Nat
        BY DEF TypeOK
      <4>4. ASSUME NEW y \in RIs PROVE InProgress(r, y)'
        BY <1>0, <3>1, <4>1, <4>2, <4>3, <4>4 DEF RunInv, OneAtATime, InProgress, Reserved
      <4> QED BY <1>0, <3>1, <3>2, <4>1, <4>4 DEF RunInv, OneAtATime, Untouched
    <3> QED BY <1>11, <3>3, <3>4 DEF AwaitAccept
  <2>2. ASSUME NEW s \in Runs \ {r} PROVE RunInv(s)'
    BY <1>0, <1>11, Frame DEF TypeOK, AwaitAccept, Accepted, Rejected, Leave, Goto
  <2> QED BY <2>1, <2>2 DEF ExchangeInv
<1>12. ASSUME NEW r \in Runs, NEW x \in RIs, FailRecord(r, x) PROVE ExchangeInv'
  <2>1. RunInv(r)'
    <3>1. accept[r][x].state \in {"none", "rejected"}
      BY <1>0, <1>12 DEF RunInv, InProgress, FailRecord
    <3>2. \A y \in RIs : Covered(r, y)'
      BY <1>0, <1>12, <3>1, WriteCovered DEF FailRecord
    <3> QED BY <1>0, <1>12, <3>2, LeaveInv DEF FailRecord
  <2>2. ASSUME NEW s \in Runs \ {r} PROVE RunInv(s)'
    BY <1>0, <1>12, Frame, WriteFrame DEF TypeOK, FailRecord, Leave, Goto
  <2> QED BY <2>1, <2>2 DEF ExchangeInv
<1>13. ASSUME NEW r \in Runs, NEW x \in RIs, Settle(r, x) PROVE ExchangeInv'
  <2>1. RunInv(r)'
    <3>1. /\ accept[r][x].state = "done" /\ accept[r][x].amount = quote[r]
          /\ x \in cur[r] /\ pc[r] = "settle" /\ UNCHANGED <<todo, aws>> /\ quote[r] \in Nat
      BY <1>0, <1>13 DEF RunInv, InProgress, Settle, TypeOK
    <3>2. \A y \in RIs : Covered(r, y)'
      BY <1>0, <1>13, <3>1, WriteCovered DEF Settle
    <3>3. CASE Leave(r, "next") \/ Leave(r, "done")
      BY <1>0, <3>1, <3>2, <3>3, LeaveInv
    <3>4. CASE ~(Leave(r, "next") \/ Leave(r, "done"))
      <4>1. UNCHANGED <<pc, cur, quote, ceiling>>
        BY <1>13, <3>4 DEF Settle
      <4>2. ASSUME NEW y \in RIs PROVE InProgress(r, y)'
        BY <1>0, <3>1, <3>2, <4>1, <4>2 DEF RunInv, OneAtATime, InProgress, Covered
      <4> QED BY <1>0, <3>1, <3>2, <4>1, <4>2 DEF RunInv, OneAtATime, Untouched
    <3> QED BY <3>3, <3>4
  <2>2. ASSUME NEW s \in Runs \ {r} PROVE RunInv(s)'
    BY <1>0, <1>13, Frame, WriteFrame DEF TypeOK, Settle, Leave, Goto
  <2> QED BY <2>1, <2>2 DEF ExchangeInv
<1>14. ASSUME NEW r \in Runs, Crash(r) PROVE ExchangeInv'
  <2>1. RunInv(r)'
    <3>1. \A y \in RIs : Covered(r, y)'
      BY <1>0, <1>14 DEF RunInv, Covered, Crash
    <3> QED BY <1>0, <1>14, <3>1, LeaveInv DEF Crash
  <2>2. ASSUME NEW s \in Runs \ {r} PROVE RunInv(s)'
    BY <1>0, <1>14, Frame DEF TypeOK, Crash, Leave, Goto
  <2> QED BY <2>1, <2>2 DEF ExchangeInv
<1>15. ASSUME NEW r \in Runs, NEW x \in RIs, ProcessAccept(r, x) PROVE ExchangeInv'
  <2>1. RunInv(r)'
    <3>1. /\ accept[r][x].state = "inflight" /\ accept[r][x] \in Accepts
          /\ UNCHANGED <<pc, todo, locals, record>>
      BY <1>15 DEF ProcessAccept, TypeOK
    <3>2. /\ accept'[r][x].amount = accept[r][x].amount
          /\ accept'[r][x].state \in {"done", "rejected"}
          /\ \A y \in RIs \ {x} : accept'[r][y] = accept[r][y]
      <4>1. CASE accept' = [accept EXCEPT ![r][x].state = "rejected"]
        BY <4>1, <3>1 DEF TypeOK, Accepts
      <4>2. CASE accept' = [accept EXCEPT ![r][x] = [state |-> "done", amount |-> accept[r][x].amount]]
        BY <4>2 DEF TypeOK
      <4> QED BY <1>15, <4>1, <4>2 DEF ProcessAccept
    <3>3. ASSUME NEW y \in RIs PROVE Untouched(r, y)' /\ Covered(r, y)'
      BY <1>0, <3>1, <3>2, <3>3 DEF RunInv, Untouched, Covered
    <3>4. ASSUME NEW y \in RIs PROVE InProgress(r, y)'
      BY <1>0, <3>1, <3>2, <3>4 DEF RunInv, InProgress, Reserved
    <3> QED BY <1>0, <3>1, <3>3, <3>4 DEF RunInv, OneAtATime
  <2>2. ASSUME NEW s \in Runs \ {r} PROVE RunInv(s)'
    BY <1>0, <1>15, Frame DEF TypeOK, ProcessAccept
  <2> QED BY <2>1, <2>2 DEF ExchangeInv
<1>16. CASE UNCHANGED vars
  BY <1>0, <1>16, Frame DEF ExchangeInv, vars
<1> QED
  BY <1>1, <1>2, <1>3, <1>4, <1>5, <1>6, <1>7, <1>8, <1>9, <1>10, <1>11, <1>12, <1>13,
     <1>14, <1>15, <1>16 DEF Next, Step, RunStep, ExchangeInv

LEMMA InitExchange == Init => ExchangeInv
BY DEF Init, ExchangeInv, RunInv, NoRecord, OneAtATime, Untouched, InProgress, Covered

(* As long as AWS charges what it quoted last, the ledger counts every     *)
(* exchange that took place or still can, for at least what it costs:      *)
(* whatever run died, timed out or failed to settle.                       *)
THEOREM LedgerCovers == ASSUME PriceHolds PROVE Spec => []LedgerCoversMoney
<1>1. Init => TypeOK /\ ExchangeInv
  BY InitType, InitExchange
<1>2. TypeOK /\ ExchangeInv /\ [Next]_vars => (TypeOK /\ ExchangeInv)'
  BY NextType, NextExchange
<1>3. TypeOK /\ ExchangeInv => LedgerCoversMoney
  BY DEF ExchangeInv, RunInv, Covered, LedgerCoversMoney
<1> QED BY <1>1, <1>2, <1>3, PTL DEF Spec
-----------------------------------------------------------------------------
(* Sums over the ledger.  MapThenSumSet picks the elements of a set one by *)
(* one; SumOf(f) is the function it defines on the sets of records, shown to*)
(* exist by induction on their size.  NatStep is that induction, from the  *)
(* well-foundedness of the natural numbers.                                *)
LEMMA NatStep == ASSUME NEW T \in SUBSET Nat, 0 \in T, \A n \in T : n + 1 \in T PROVE T = Nat
<1> SUFFICES ASSUME Nat \ T # {} PROVE FALSE
  OBVIOUS
<1>1. PICK x \in Nat \ T : \A y \in Nat \ T : ~ (<<y, x>> \in OpToRel(<, Nat))
  BY WFMin, NatLessThanWellFounded
<1>2. \A y \in Nat : y < x => <<y, x>> \in OpToRel(<, Nat)
  BY DEF OpToRel
<1>3. x # 0 /\ x - 1 \in Nat /\ x - 1 < x
  OBVIOUS
<1>4. \A y \in Nat \ T : ~ (y < x)
  BY <1>1, <1>2
<1> QED BY <1>3, <1>4

Pick(s) == CHOOSE x \in s : TRUE
Rest(s) == s \ {Pick(s)}
(* F sums f over every set of records, or over those of at most n records. *)
Sums(F, f) == F = [s \in SUBSET Places |-> IF s = {} THEN 0 ELSE f[Pick(s)] + F[Rest(s)]]
Amounts == [Places -> Nat]
UpTo(n) == {s \in SUBSET Places : Cardinality(s) <= n}
SumsTo(F, f, n) == F \in [UpTo(n) -> Nat] /\ \A s \in UpTo(n) : F[s] = IF s = {} THEN 0 ELSE f[Pick(s)] + F[Rest(s)]

LEMMA PlacesFinite == IsFiniteSet(Places)
BY ConstantsAssumption, FS_Product DEF Places

(* What is picked is gone from the rest.                                   *)
LEMMA RestIs ==
    ASSUME NEW s \in SUBSET Places, s # {}
    PROVE  /\ Pick(s) \in s /\ Rest(s) \in SUBSET Places /\ s = Rest(s) \cup {Pick(s)} /\ Pick(s) \notin Rest(s)
           /\ Cardinality(s) \in Nat /\ Cardinality(Rest(s)) \in Nat /\ Cardinality(s) = Cardinality(Rest(s)) + 1
<1>1. Pick(s) \in s
  BY DEF Pick
<1>2. IsFiniteSet(s)
  BY PlacesFinite, FS_Subset
<1>3. Cardinality(s) \in Nat /\ IsFiniteSet(Rest(s)) /\ Cardinality(Rest(s)) = Cardinality(s) - 1
  BY <1>1, <1>2, FS_CardinalityType, FS_RemoveElement DEF Rest
<1>4. Cardinality(Rest(s)) \in Nat
  BY <1>3, FS_CardinalityType
<1> QED BY <1>1, <1>3, <1>4 DEF Rest

LEMMA CardType == \A s \in SUBSET Places : Cardinality(s) \in Nat
BY PlacesFinite, FS_Subset, FS_CardinalityType

LEMMA EmptyIs == Cardinality({}) = 0 /\ \A s \in SUBSET Places : Cardinality(s) = 0 <=> s = {}
<1>1. \A s \in SUBSET Places : IsFiniteSet(s)
  BY PlacesFinite, FS_Subset
<1> QED BY <1>1, FS_EmptySet

LEMMA SumsExistTo == ASSUME NEW f \in Amounts PROVE \A n \in Nat : \E F : SumsTo(F, f, n)
<1> DEFINE T == {n \in Nat : \E F : SumsTo(F, f, n)}
<1>1. 0 \in T
  <2>1. SumsTo([s \in UpTo(0) |-> 0], f, 0)
    BY EmptyIs, RestIs DEF SumsTo, UpTo
  <2> QED BY <2>1
<1>2. ASSUME NEW n \in T PROVE n + 1 \in T
  <2>1. PICK F : SumsTo(F, f, n)
    OBVIOUS
  <2> DEFINE G == [s \in UpTo(n + 1) |-> IF s = {} THEN 0 ELSE f[Pick(s)] + F[Rest(s)]]
  <2>2. \A s \in UpTo(n + 1) : s # {} => Rest(s) \in UpTo(n) /\ f[Pick(s)] \in Nat
    BY RestIs DEF UpTo, Amounts
  <2>3. G \in [UpTo(n + 1) -> Nat]
    BY <2>1, <2>2 DEF SumsTo
  <2>4. UpTo(n) \subseteq UpTo(n + 1)
    <3>1. \A s \in SUBSET Places : Cardinality(s) <= n => Cardinality(s) <= n + 1
      BY CardType
    <3> QED BY <3>1 DEF UpTo
  <2>5. \A s \in UpTo(n) : G[s] = F[s]
    BY <2>1, <2>4 DEF SumsTo
  <2>6. SumsTo(G, f, n + 1)
    BY <2>2, <2>3, <2>5 DEF SumsTo
  <2> QED BY <2>6
<1>3. T = Nat
  <2> HIDE DEF T
  <2> QED BY <1>1, <1>2, NatStep DEF T
<1> QED BY <1>3

LEMMA SumsExist == ASSUME NEW f \in Amounts PROVE \E F : Sums(F, f)
<1>1. Cardinality(Places) \in Nat
  BY PlacesFinite, FS_CardinalityType
<1>2. PICK F : SumsTo(F, f, Cardinality(Places))
  BY <1>1, SumsExistTo
<1>3. UpTo(Cardinality(Places)) = SUBSET Places
  BY PlacesFinite, FS_Subset DEF UpTo
<1>4. F = [s \in SUBSET Places |-> F[s]]
  BY <1>2, <1>3 DEF SumsTo
<1> QED BY <1>2, <1>3, <1>4 DEF Sums, SumsTo

SumOf(f) == CHOOSE F : Sums(F, f)

LEMMA TotalIs == ASSUME NEW f PROVE Total(f) = SumOf(f)[Places]
BY DEF Total, MapThenSumSet, MapThenFoldSet, Sums, Pick, Rest, SumOf

LEMMA SumOfIs ==
    ASSUME NEW f \in Amounts, NEW s \in SUBSET Places
    PROVE  SumOf(f)[s] = IF s = {} THEN 0 ELSE f[Pick(s)] + SumOf(f)[Rest(s)]
<1> DEFINE F == SumOf(f)
<1>1. F = [t \in SUBSET Places |-> IF t = {} THEN 0 ELSE f[Pick(t)] + F[Rest(t)]]
  BY SumsExist DEF SumOf, Sums
<1> HIDE DEF F
<1>2. F[s] = IF s = {} THEN 0 ELSE f[Pick(s)] + F[Rest(s)]
  BY <1>1
<1> QED BY <1>2 DEF F

LEMMA SumType == ASSUME NEW f \in Amounts PROVE \A s \in SUBSET Places : SumOf(f)[s] \in Nat
<1> DEFINE T == {n \in Nat : \A s \in SUBSET Places : Cardinality(s) = n => SumOf(f)[s] \in Nat}
<1>1. 0 \in T
  BY EmptyIs, SumOfIs
<1>2. ASSUME NEW n \in T PROVE n + 1 \in T
  <2>1. ASSUME NEW s \in SUBSET Places, Cardinality(s) = n + 1 PROVE SumOf(f)[s] \in Nat
    <3>1. s # {}
      BY <2>1, EmptyIs
    <3>2. Rest(s) \in SUBSET Places /\ Cardinality(Rest(s)) = n /\ f[Pick(s)] \in Nat
      BY <2>1, <3>1, RestIs DEF Amounts
    <3>3. SumOf(f)[Rest(s)] \in Nat
      BY <3>2
    <3>4. SumOf(f)[s] = f[Pick(s)] + SumOf(f)[Rest(s)]
      BY <3>1, SumOfIs
    <3> QED BY <3>2, <3>3, <3>4
  <2> QED BY <2>1
<1>3. T = Nat
  <2> HIDE DEF T
  <2> QED BY <1>1, <1>2, NatStep DEF T
<1> QED BY <1>3, CardType

(* Larger amounts have a larger sum.                                       *)
LEMMA SumGrows ==
    ASSUME NEW f \in Amounts, NEW g \in Amounts, \A k \in Places : f[k] <= g[k]
    PROVE  Total(f) <= Total(g)
<1> DEFINE T == {n \in Nat : \A s \in SUBSET Places : Cardinality(s) = n => SumOf(f)[s] <= SumOf(g)[s]}
<1>1. 0 \in T
  BY EmptyIs, SumOfIs
<1>2. ASSUME NEW n \in T PROVE n + 1 \in T
  <2>1. ASSUME NEW s \in SUBSET Places, Cardinality(s) = n + 1 PROVE SumOf(f)[s] <= SumOf(g)[s]
    <3>1. s # {}
      BY <2>1, EmptyIs
    <3>2. Rest(s) \in SUBSET Places /\ Cardinality(Rest(s)) = n /\ Pick(s) \in Places
      BY <2>1, <3>1, RestIs
    <3>3. SumOf(f)[Rest(s)] <= SumOf(g)[Rest(s)] /\ SumOf(f)[Rest(s)] \in Nat /\ SumOf(g)[Rest(s)] \in Nat
      BY <3>2, SumType
    <3>4. SumOf(f)[s] = f[Pick(s)] + SumOf(f)[Rest(s)] /\ SumOf(g)[s] = g[Pick(s)] + SumOf(g)[Rest(s)]
      BY <3>1, SumOfIs
    <3>5. f[Pick(s)] \in Nat /\ g[Pick(s)] \in Nat /\ f[Pick(s)] <= g[Pick(s)]
      BY <3>2 DEF Amounts
    <3> QED BY <3>3, <3>4, <3>5
  <2> QED BY <2>1
<1>3. T = Nat
  <2> HIDE DEF T
  <2> QED BY <1>1, <1>2, NatStep DEF T
<1> QED BY <1>3, CardType, TotalIs

(* One amount changes: the sum changes by as much.                         *)
LEMMA SumChanges ==
    ASSUME NEW f \in Amounts, NEW g \in Amounts, NEW k \in Places, \A x \in Places \ {k} : f[x] = g[x]
    PROVE  Total(g) + f[k] = Total(f) + g[k]
<1> DEFINE Off(s) == IF k \in s THEN SumOf(g)[s] + f[k] = SumOf(f)[s] + g[k] ELSE SumOf(g)[s] = SumOf(f)[s]
           T == {n \in Nat : \A s \in SUBSET Places : Cardinality(s) = n => Off(s)}
<1>1. 0 \in T
  BY EmptyIs, SumOfIs
<1>2. ASSUME NEW n \in T PROVE n + 1 \in T
  <2>1. ASSUME NEW s \in SUBSET Places, Cardinality(s) = n + 1 PROVE Off(s)
    <3>1. s # {}
      BY <2>1, EmptyIs
    <3>2. Rest(s) \in SUBSET Places /\ Cardinality(Rest(s)) = n /\ Pick(s) \in Places
          /\ (k \in s <=> k = Pick(s) \/ k \in Rest(s)) /\ ~(k = Pick(s) /\ k \in Rest(s))
      BY <2>1, <3>1, RestIs
    <3>3. Off(Rest(s)) /\ SumOf(f)[Rest(s)] \in Nat /\ SumOf(g)[Rest(s)] \in Nat
      BY <3>2, SumType
    <3>4. SumOf(f)[s] = f[Pick(s)] + SumOf(f)[Rest(s)] /\ SumOf(g)[s] = g[Pick(s)] + SumOf(g)[Rest(s)]
      BY <3>1, SumOfIs
    <3>5. f[Pick(s)] \in Nat /\ g[Pick(s)] \in Nat /\ f[k] \in Nat /\ g[k] \in Nat /\ (Pick(s) # k => f[Pick(s)] = g[Pick(s)])
      BY <3>2 DEF Amounts
    <3> QED BY <3>2, <3>3, <3>4, <3>5
  <2> QED BY <2>1
<1>3. T = Nat
  <2> HIDE DEF T
  <2> QED BY <1>1, <1>2, NatStep DEF T
<1>4. Off(Places)
  BY <1>3, CardType
<1> QED BY <1>4, TotalIs

(* Amounts of zero add up to zero.                                         *)
LEMMA NothingSpent == ASSUME NEW f \in Amounts, \A k \in Places : f[k] = 0 PROVE Total(f) = 0
<1> DEFINE T == {n \in Nat : \A s \in SUBSET Places : Cardinality(s) = n => SumOf(f)[s] = 0}
<1>1. 0 \in T
  BY EmptyIs, SumOfIs
<1>2. ASSUME NEW n \in T PROVE n + 1 \in T
  <2>1. ASSUME NEW s \in SUBSET Places, Cardinality(s) = n + 1 PROVE SumOf(f)[s] = 0
    <3>1. s # {}
      BY <2>1, EmptyIs
    <3>2. Rest(s) \in SUBSET Places /\ Cardinality(Rest(s)) = n /\ Pick(s) \in Places
      BY <2>1, <3>1, RestIs
    <3>3. SumOf(f)[s] = f[Pick(s)] + SumOf(f)[Rest(s)]
      BY <3>1, SumOfIs
    <3> QED BY <3>2, <3>3
  <2> QED BY <2>1
<1>3. T = Nat
  <2> HIDE DEF T
  <2> QED BY <1>1, <1>2, NatStep DEF T
<1> QED BY <1>3, CardType, TotalIs

LEMMA TotalType == ASSUME NEW f \in Amounts PROVE Total(f) \in Nat
BY SumType, TotalIs

-----------------------------------------------------------------------------
(* The daily cap.  A reservation is the only write that counts more than   *)
(* before, and it checks the whole ledger.                                 *)

LEMMA CountedType == TypeOK => Counted \in Amounts /\ Paid \in Amounts
<1> SUFFICES ASSUME TypeOK PROVE Counted \in Amounts /\ Paid \in Amounts
  OBVIOUS
<1>1. ASSUME NEW k \in Places PROVE record[k[1]][k[2]].counted \in Nat /\ accept[k[1]][k[2]].amount \in Nat
  <2>1. k[1] \in Runs /\ k[2] \in RIs
    BY DEF Places
  <2>2. record[k[1]][k[2]] \in Records /\ accept[k[1]][k[2]] \in Accepts
    BY <2>1 DEF TypeOK
  <2> QED BY <2>2 DEF Records, Accepts
<1> QED BY <1>1 DEF Counted, Paid, Amounts

LEMMA CountedTypeNext == (TypeOK => Counted \in Amounts)'
<1>1. TypeOK => Counted \in Amounts
  BY CountedType
<1> QED BY <1>1, PTL

LEMMA KeptSpend == record' = record => Spend' = Spend
BY DEF Spend, Counted

LEMMA WrittenSpend ==
    ASSUME TypeOK, TypeOK', NEW r \in Runs, NEW x \in RIs, NEW status, NEW amount \in Nat,
           Write(r, x, status, amount)
    PROVE  Spend' + record[r][x].counted = Spend + amount
<1> DEFINE f == Counted
           g == Counted'
           k == <<r, x>>
<1>1. f \in Amounts /\ g \in Amounts /\ k \in Places
  BY CountedType, CountedTypeNext DEF Places
<1>2. f[k] = record[r][x].counted /\ g[k] = amount
  <2>1. record'[r][x].counted = amount
    BY DEF Write, TypeOK
  <2> QED BY <1>1, <2>1 DEF Counted
<1>3. ASSUME NEW p \in Places \ {k} PROVE f[p] = g[p]
  <2>1. p[1] \in Runs /\ p[2] \in RIs /\ (p[1] # r \/ p[2] # x)
    BY <1>3 DEF Places
  <2>2. record'[p[1]][p[2]] = record[p[1]][p[2]]
    BY <2>1 DEF Write, TypeOK
  <2> QED BY <2>2 DEF Counted
<1>4. Spend = Total(f) /\ Spend' = Total(g)
  BY DEF Spend
<1> HIDE DEF f, g, k
<1>5. Total(g) + f[k] = Total(f) + g[k]
  BY <1>1, <1>3, SumChanges
<1> QED BY <1>2, <1>4, <1>5

LEMMA LessSpend ==
    ASSUME TypeOK, TypeOK', \A r \in Runs, x \in RIs : record'[r][x].counted <= record[r][x].counted
    PROVE  Spend' <= Spend
<1> DEFINE f == Counted'
           g == Counted
<1>1. f \in Amounts /\ g \in Amounts
  BY CountedType, CountedTypeNext
<1>2. ASSUME NEW k \in Places PROVE f[k] <= g[k]
  BY <1>2 DEF Places, Counted
<1>3. Spend = Total(g) /\ Spend' = Total(f)
  BY DEF Spend
<1> HIDE DEF f, g
<1> QED BY <1>1, <1>2, <1>3, SumGrows

LEMMA SpendType == TypeOK => Spend \in Nat
BY CountedType, TotalType DEF Spend

LEMMA SpendTypeNext == (TypeOK => Spend \in Nat)'
BY SpendType, PTL

(* Writing at most what was counted before does not raise the spend.       *)
LEMMA LowerWrite ==
    ASSUME TypeOK, TypeOK', NEW r \in Runs, NEW x \in RIs, NEW status, NEW amount \in Nat,
           Write(r, x, status, amount) \/ WriteFails(r, x, status, amount),
           amount <= record[r][x].counted
    PROVE  Spend' <= Spend
<1>1. Spend \in Nat /\ Spend' \in Nat /\ record[r][x].counted \in Nat
  BY SpendType, SpendTypeNext DEF TypeOK, Records
<1>2. CASE record' = record
  BY <1>1, <1>2, KeptSpend
<1>3. CASE Write(r, x, status, amount)
  BY <1>1, <1>3, WrittenSpend
<1> QED BY <1>2, <1>3 DEF WriteFails

(* What the ledger counts is within the cap.                               *)
Capped == Spend <= DailyCap

LEMMA NextCapped ==
    ASSUME TypeOK, TypeOK', ExchangeInv, Capped, [Next]_vars PROVE Capped'
<1>1. Spend \in Nat /\ Spend' \in Nat /\ DailyCap \in Nat
  BY SpendType, SpendTypeNext, ConstantsAssumption
<1>2. CASE record' = record
  BY <1>2, KeptSpend DEF Capped
<1>3. CASE Spend' <= Spend
  BY <1>1, <1>3 DEF Capped
<1>4. ASSUME NEW r \in Runs, NEW x \in RIs PROVE record[r][x].counted \in Nat
  BY DEF TypeOK, Records
<1>5. ASSUME NEW r \in Runs, CancelStalePending(r) PROVE Capped'
  <2>1. CASE CancelPendingByOrigin(params[r].origin)
    <3>1. ASSUME NEW s \in Runs, NEW x \in RIs PROVE record'[s][x].counted <= record[s][x].counted
      <4>1. record'[s][x] = [status |-> "canceled", counted |-> 0] \/ record'[s][x] = record[s][x]
        BY <2>1 DEF CancelPendingByOrigin
      <4> QED BY <1>4, <4>1
    <3> QED BY <1>3, <3>1, LessSpend
  <2> QED BY <1>2, <1>5, <2>1 DEF CancelStalePending
<1>6. ASSUME NEW r \in Runs, NEW x \in RIs, SaveManual(r, x) PROVE Capped'
  BY <1>3, <1>4, <1>6, LowerWrite DEF SaveManual
<1>7. ASSUME NEW r \in Runs, NEW x \in RIs, Reserve(r, x) PROVE Capped'
  <2>1. CASE record' = record
    BY <1>2, <2>1
  <2>2. ASSUME NEW c \in 0..PerExchangeCap, Spend + c <= DailyCap, Write(r, x, "processing", c) PROVE Capped'
    <3>1. Spend' + record[r][x].counted = Spend + c
      BY <2>2, WrittenSpend
    <3> QED BY <1>1, <1>4, <2>2, <3>1 DEF Capped
  <2> QED BY <1>7, <2>1, <2>2 DEF Reserve
<1>8. ASSUME NEW r \in Runs, NEW x \in RIs, BadCeiling(r, x) PROVE Capped'
  BY <1>3, <1>4, <1>8, LowerWrite DEF BadCeiling
<1>9. ASSUME NEW r \in Runs, NEW x \in RIs, FailRecord(r, x) PROVE Capped'
  BY <1>3, <1>4, <1>9, LowerWrite DEF FailRecord
<1>10. ASSUME NEW r \in Runs, NEW x \in RIs, Settle(r, x) PROVE Capped'
  <2>1. quote[r] \in Nat /\ quote[r] <= record[r][x].counted
    BY <1>4, <1>10 DEF Settle, TypeOK, ExchangeInv, RunInv, InProgress
  <2> QED BY <1>3, <1>10, <2>1, LowerWrite DEF Settle
<1>11. CASE UNCHANGED vars
  BY <1>2, <1>11 DEF vars
<1>12. ASSUME NEW r \in Runs, Start(r) \/ Finish(r) \/ Crash(r) PROVE Capped'
  BY <1>2, <1>12 DEF Start, Finish, Crash
<1>13. ASSUME NEW r \in Runs, NEW x \in RIs,
              \/ Consider(r, x) \/ InitialQuote(r, x) \/ ReQuote(r, x) \/ SendAccept(r, x)
              \/ AwaitAccept(r, x) \/ ProcessAccept(r, x)
       PROVE  Capped'
  BY <1>2, <1>13 DEF Consider, InitialQuote, ReQuote, SendAccept, AwaitAccept, ProcessAccept
<1> QED
  BY <1>5, <1>6, <1>7, <1>8, <1>9, <1>10, <1>11, <1>12, <1>13 DEF Next, Step, RunStep

LEMMA InitCapped == Init => Capped
<1> SUFFICES ASSUME Init PROVE Capped
  OBVIOUS
<1>1. Counted \in Amounts
  BY InitType, CountedType
<1>2. \A k \in Places : Counted[k] = 0
  BY DEF Init, Counted, Places, NoRecord
<1>3. Spend = 0
  BY <1>1, <1>2, NothingSpent DEF Spend
<1> QED BY <1>3, ConstantsAssumption DEF Capped

(* As long as AWS charges what it quoted last, all that was ever paid is   *)
(* within MaxPaymentDailyUSD, for any number of concurrent, crashed and    *)
(* unsettled runs: the ledger covers every exchange (LedgerCovers), and    *)
(* ReserveRIExchange is the only write that counts more than before.       *)
THEOREM DailyCapHolds == ASSUME PriceHolds PROVE Spec => []WithinDailyCap
<1>1. Init => TypeOK /\ ExchangeInv /\ Capped
  BY InitType, InitExchange, InitCapped
<1>2. TypeOK /\ ExchangeInv /\ Capped /\ [Next]_vars => (TypeOK /\ ExchangeInv /\ Capped)'
  BY NextType, NextExchange, NextCapped
<1>3. TypeOK /\ ExchangeInv /\ Capped => WithinDailyCap
  <2> SUFFICES ASSUME TypeOK, ExchangeInv, Capped PROVE WithinDailyCap
    OBVIOUS
  <2>1. Counted \in Amounts /\ Paid \in Amounts
    BY CountedType
  <2>2. ASSUME NEW k \in Places PROVE Paid[k] <= Counted[k]
    <3>1. k[1] \in Runs /\ k[2] \in RIs
      BY DEF Places
    <3>2. Covered(k[1], k[2]) /\ record[k[1]][k[2]].counted \in Nat
      BY <3>1 DEF ExchangeInv, RunInv, TypeOK, Records
    <3> QED BY <3>2 DEF Covered, Paid, Counted
  <2>3. Total(Paid) <= Spend
    BY <2>1, <2>2, SumGrows DEF Spend
  <2>4. Total(Paid) \in Nat /\ Spend \in Nat /\ DailyCap \in Nat
    BY <2>1, TotalType, SpendType, ConstantsAssumption
  <2> QED BY <2>3, <2>4 DEF Capped, WithinDailyCap
<1> QED BY <1>1, <1>2, <1>3, PTL DEF Spec
-----------------------------------------------------------------------------
(* One exchange in doubt per run.                                          *)

(* The accept was sent and the ledger does not say yet how it ended.       *)
InDoubt(r, x) == accept[r][x].state # "none" /\ record[r][x].status = "processing"

Accepting == {"await", "fail", "settle"}

(* Only the recommendation whose accept the run waits for or settles may   *)
(* be in doubt; a run that goes on to the next one has left none behind.   *)
DoubtInv(r) ==
    /\ OneAtATime(r)
    /\ \A x \in RIs :
         /\ Untouched(r, x)
         /\ (x \in cur[r] /\ pc[r] \notin Accepting) => accept[r][x].state = "none"
         /\ (InDoubt(r, x) /\ pc[r] \notin {"done", "crashed"}) => (x \in cur[r] /\ pc[r] \in Accepting)
    /\ \A x, y \in RIs : (InDoubt(r, x) /\ InDoubt(r, y)) => x = y

AllDoubtInv == \A r \in Runs : DoubtInv(r)

LEMMA DoubtFrame ==
    ASSUME NEW s \in Runs, DoubtInv(s), UNCHANGED <<pc[s], todo[s], cur[s], record[s], accept[s]>>
    PROVE  DoubtInv(s)'
BY DEF DoubtInv, OneAtATime, Untouched, InDoubt

(* A run may leave its recommendation for the next one when that one is    *)
(* not in doubt, and halt or die at any time.                              *)
LEMMA LeaveDoubt ==
    ASSUME TypeOK, NEW r \in Runs, NEW l \in {"next", "done", "crashed"}, DoubtInv(r), Leave(r, l),
           todo'[r] \subseteq todo[r], UNCHANGED accept,
           \A x \in RIs : InDoubt(r, x)' => (InDoubt(r, x) /\ l # "next")
    PROVE  DoubtInv(r)'
<1>1. cur'[r] = {} /\ pc'[r] = l
  BY DEF TypeOK, Leave, Goto
<1> QED BY <1>1 DEF DoubtInv, OneAtATime, Untouched

(* A write that settles the record, or one before the accept was sent,     *)
(* puts nothing in doubt.                                                  *)
LEMMA WriteDoubt ==
    ASSUME TypeOK, NEW r \in Runs, NEW x \in RIs, NEW status, NEW amount,
           Write(r, x, status, amount) \/ WriteFails(r, x, status, amount), UNCHANGED accept,
           status # "processing" \/ accept[r][x].state = "none"
    PROVE  \A y \in RIs : InDoubt(r, y)' => InDoubt(r, y)
<1>1. CASE UNCHANGED record
  BY <1>1 DEF InDoubt
<1>2. CASE Write(r, x, status, amount)
  BY <1>2 DEF InDoubt, Write, TypeOK
<1> QED BY <1>1, <1>2 DEF WriteFails

LEMMA NextDoubt == ASSUME TypeOK, AllDoubtInv, [Next]_vars PROVE AllDoubtInv'
<1> USE DEF aws, locals, NextRecommendation, Halt
<1>0. \A r \in Runs : DoubtInv(r)
  BY DEF AllDoubtInv
<1>1. ASSUME NEW r \in Runs, Start(r), NEW s \in Runs PROVE DoubtInv(s)'
  <2>1. pc'[s] = pc[s] \/ (pc[s] = "idle" /\ pc'[s] \in {"next", "cancel", "done"})
    BY <1>1 DEF Start, Goto, TypeOK
  <2>2. UNCHANGED <<todo, cur, record, accept>>
    BY <1>1 DEF Start
  <2> QED BY <1>0, <2>1, <2>2 DEF DoubtInv, OneAtATime, Untouched, InDoubt, Accepting
<1>2. ASSUME NEW r \in Runs, CancelStalePending(r), NEW s \in Runs PROVE DoubtInv(s)'
  <2>1. ASSUME NEW y \in RIs PROVE record'[s][y] = record[s][y] \/ record'[s][y].status = "canceled"
    BY <1>2, <2>1 DEF CancelStalePending, CancelPendingByOrigin, TypeOK
  <2>2. UNCHANGED <<todo, cur, accept>>
    BY <1>2 DEF CancelStalePending
  <2>3. pc'[s] = pc[s] \/ (pc[s] = "cancel" /\ pc'[s] \in {"next", "done"})
    BY <1>2 DEF CancelStalePending, Goto, TypeOK
  <2> QED BY <1>0, <2>1, <2>2, <2>3 DEF DoubtInv, OneAtATime, Untouched, InDoubt, Accepting
<1>3. ASSUME NEW r \in Runs, Finish(r), NEW s \in Runs PROVE DoubtInv(s)'
  <2>1. pc'[s] = pc[s] \/ (pc[s] = "next" /\ pc'[s] = "done")
    BY <1>3 DEF Finish, Goto, TypeOK
  <2>2. UNCHANGED <<todo, cur, record, accept>>
    BY <1>3 DEF Finish
  <2> QED BY <1>0, <2>1, <2>2 DEF DoubtInv, OneAtATime, Untouched, InDoubt, Accepting
<1>4. ASSUME NEW r \in Runs, NEW x \in RIs, Consider(r, x) PROVE AllDoubtInv'
  <2>1. DoubtInv(r)'
    <3>1. /\ todo'[r] = todo[r] \ {x} /\ UNCHANGED <<record, aws>>
          /\ x \in todo[r] /\ pc[r] = "next"
      BY <1>4 DEF Consider, TypeOK
    <3>2. \A y \in RIs : ~InDoubt(r, y)'
      BY <1>0, <3>1 DEF DoubtInv, InDoubt, Accepting
    <3>3. CASE Leave(r, "next")
      BY <1>0, <3>1, <3>2, <3>3, LeaveDoubt
    <3>4. CASE ~Leave(r, "next")
      <4>1. pc'[r] \in {"manual", "reserve"} /\ cur'[r] = {x}
        BY <1>4, <3>4 DEF Consider, Goto, TypeOK
      <4> QED BY <1>0, <3>1, <3>2, <4>1 DEF DoubtInv, OneAtATime, Untouched
    <3> QED BY <3>3, <3>4
  <2>2. ASSUME NEW s \in Runs \ {r} PROVE DoubtInv(s)'
    BY <1>0, <1>4, DoubtFrame DEF TypeOK, Consider, Leave, Goto
  <2> QED BY <2>1, <2>2 DEF AllDoubtInv
<1>5. ASSUME NEW r \in Runs, NEW x \in RIs, SaveManual(r, x) PROVE AllDoubtInv'
  <2>1. DoubtInv(r)'
    <3>1. PICK status \in {"pending", "failed"} : WriteFails(r, x, status, 0)
      BY <1>5 DEF SaveManual
    <3>2. \A y \in RIs : ~InDoubt(r, y)'
      BY <1>0, <1>5, <3>1, WriteDoubt DEF DoubtInv, SaveManual, Accepting
    <3> QED BY <1>0, <1>5, <3>2, LeaveDoubt DEF SaveManual
  <2>2. ASSUME NEW s \in Runs \ {r} PROVE DoubtInv(s)'
    BY <1>0, <1>5, DoubtFrame, WriteFrame DEF TypeOK, SaveManual, Leave, Goto
  <2> QED BY <2>1, <2>2 DEF AllDoubtInv
<1>6. ASSUME NEW r \in Runs, NEW x \in RIs, Reserve(r, x) PROVE AllDoubtInv'
  <2>1. DoubtInv(r)'
    <3>1. /\ accept[r][x].state = "none" /\ UNCHANGED <<todo, aws>>
          /\ pc[r] = "reserve" /\ x \in cur[r]
      BY <1>0, <1>6 DEF DoubtInv, Reserve, Accepting
    <3>2. \A y \in RIs : ~InDoubt(r, y)'
      <4>1. \A y \in RIs : ~InDoubt(r, y)
        BY <1>0, <3>1 DEF DoubtInv, Accepting
      <4>2. CASE UNCHANGED record
        BY <3>1, <4>1, <4>2 DEF InDoubt
      <4>3. CASE \E c \in 0..PerExchangeCap : Write(r, x, "processing", c)
        BY <3>1, <4>1, <4>3, WriteDoubt
      <4> QED BY <1>6, <4>2, <4>3 DEF Reserve
    <3>3. CASE Leave(r, "next") \/ Leave(r, "done")
      BY <1>0, <3>1, <3>2, <3>3, LeaveDoubt
    <3>4. CASE ~(Leave(r, "next") \/ Leave(r, "done"))
      <4>1. pc'[r] \in {"execute", "bad"} /\ cur' = cur
        BY <1>6, <3>4 DEF Reserve, Goto, TypeOK
      <4> QED BY <1>0, <3>1, <3>2, <4>1 DEF DoubtInv, OneAtATime, Untouched, Accepting
    <3> QED BY <3>3, <3>4
  <2>2. ASSUME NEW s \in Runs \ {r} PROVE DoubtInv(s)'
    BY <1>0, <1>6, DoubtFrame, WriteFrame DEF TypeOK, Reserve, Leave, Goto
  <2> QED BY <2>1, <2>2 DEF AllDoubtInv
<1>7. ASSUME NEW r \in Runs, NEW x \in RIs, BadCeiling(r, x) PROVE AllDoubtInv'
  <2>1. DoubtInv(r)'
    <3>1. \A y \in RIs : InDoubt(r, y)' => InDoubt(r, y)
      BY <1>7, WriteDoubt DEF BadCeiling
    <3> QED BY <1>0, <1>7, <3>1, LeaveDoubt DEF BadCeiling
  <2>2. ASSUME NEW s \in Runs \ {r} PROVE DoubtInv(s)'
    BY <1>0, <1>7, DoubtFrame, WriteFrame DEF TypeOK, BadCeiling, Leave, Goto
  <2> QED BY <2>1, <2>2 DEF AllDoubtInv
<1>8. ASSUME NEW r \in Runs, NEW x \in RIs, InitialQuote(r, x) \/ ReQuote(r, x), NEW s \in Runs
      PROVE DoubtInv(s)'
  <2>1. pc'[s] = pc[s] \/ (pc[s] \in {"execute", "requote"} /\ pc'[s] \in {"requote", "accept", "fail"})
    BY <1>8 DEF InitialQuote, ReQuote, Goto, TypeOK
  <2>2. UNCHANGED <<todo, cur, record, accept>>
    BY <1>8 DEF InitialQuote, ReQuote
  <2> QED BY <1>0, <2>1, <2>2 DEF DoubtInv, OneAtATime, Untouched, InDoubt, Accepting
<1>10. ASSUME NEW r \in Runs, NEW x \in RIs, SendAccept(r, x) PROVE AllDoubtInv'
  <2>1. DoubtInv(r)'
    <3>1. /\ \A y \in RIs \ {x} : accept'[r][y] = accept[r][y]
          /\ UNCHANGED <<todo, locals, record>> /\ pc[r] = "accept" /\ x \in cur[r] /\ pc'[r] = "await"
      BY <1>10 DEF SendAccept, Goto, TypeOK
    <3>2. \A y \in RIs : InDoubt(r, y)' => y = x
      BY <1>0, <3>1 DEF DoubtInv, InDoubt, Accepting
    <3>3. \A y \in RIs : Untouched(r, y)'
      BY <1>0, <3>1 DEF DoubtInv, Untouched
    <3> QED BY <1>0, <3>1, <3>2, <3>3 DEF DoubtInv, OneAtATime, Accepting
  <2>2. ASSUME NEW s \in Runs \ {r} PROVE DoubtInv(s)'
    BY <1>0, <1>10, DoubtFrame DEF TypeOK, SendAccept, Goto
  <2> QED BY <2>1, <2>2 DEF AllDoubtInv
<1>11. ASSUME NEW r \in Runs, NEW x \in RIs, AwaitAccept(r, x) PROVE AllDoubtInv'
  <2>1. DoubtInv(r)'
    <3>1. UNCHANGED <<todo, record, aws>> /\ x \in cur[r] /\ pc[r] = "await"
      BY <1>11 DEF AwaitAccept
    <3>2. CASE Leave(r, "done")
      BY <1>0, <3>1, <3>2, LeaveDoubt DEF InDoubt
    <3>3. CASE Accepted(r, x) \/ Rejected(r, x)
      <4>1. UNCHANGED locals /\ pc'[r] \in Accepting
        BY <3>3 DEF Accepted, Rejected, Goto, TypeOK, Accepting
      <4> QED BY <1>0, <3>1, <4>1 DEF DoubtInv, OneAtATime, Untouched, InDoubt, Accepting
    <3> QED BY <1>11, <3>2, <3>3 DEF AwaitAccept
  <2>2. ASSUME NEW s \in Runs \ {r} PROVE DoubtInv(s)'
    BY <1>0, <1>11, DoubtFrame DEF TypeOK, AwaitAccept, Accepted, Rejected, Leave, Goto
  <2> QED BY <2>1, <2>2 DEF AllDoubtInv
<1>12. ASSUME NEW r \in Runs, NEW x \in RIs, FailRecord(r, x) PROVE AllDoubtInv'
  <2>1. DoubtInv(r)'
    <3>1. \A y \in RIs : InDoubt(r, y)' => InDoubt(r, y)
      BY <1>12, WriteDoubt DEF FailRecord
    <3>2. CASE Write(r, x, "failed", 0) /\ Leave(r, "next")
      <4>1. ~InDoubt(r, x)'
        BY <3>2 DEF Write, InDoubt, TypeOK
      <4>2. \A y \in RIs : InDoubt(r, y) => y = x
        BY <1>0, <1>12 DEF DoubtInv, OneAtATime, FailRecord, Accepting
      <4> QED BY <1>0, <1>12, <3>1, <3>2, <4>1, <4>2, LeaveDoubt DEF FailRecord
    <3>3. CASE Leave(r, "done")
      BY <1>0, <1>12, <3>1, <3>3, LeaveDoubt DEF FailRecord
    <3> QED BY <1>12, <3>2, <3>3 DEF FailRecord
  <2>2. ASSUME NEW s \in Runs \ {r} PROVE DoubtInv(s)'
    BY <1>0, <1>12, DoubtFrame, WriteFrame DEF TypeOK, FailRecord, Leave, Goto
  <2> QED BY <2>1, <2>2 DEF AllDoubtInv
<1>13. ASSUME NEW r \in Runs, NEW x \in RIs, Settle(r, x) PROVE AllDoubtInv'
  <2>1. DoubtInv(r)'
    <3>1. /\ \A y \in RIs : InDoubt(r, y)' => InDoubt(r, y)
          /\ UNCHANGED <<todo, aws>> /\ x \in cur[r] /\ pc[r] = "settle"
      BY <1>13, WriteDoubt DEF Settle
    <3>2. CASE Write(r, x, "completed", quote[r]) /\ Leave(r, "next")
      <4>1. ~InDoubt(r, x)'
        BY <3>2 DEF Write, InDoubt, TypeOK
      <4>2. \A y \in RIs : InDoubt(r, y) => y = x
        BY <1>0, <3>1 DEF DoubtInv, OneAtATime
      <4> QED BY <1>0, <3>1, <3>2, <4>1, <4>2, LeaveDoubt
    <3>3. CASE Leave(r, "done")
      BY <1>0, <3>1, <3>3, LeaveDoubt
    <3>4. CASE UNCHANGED <<pc, cur>>
      BY <1>0, <3>1, <3>4 DEF DoubtInv, OneAtATime, Untouched
    <3> QED BY <1>13, <3>2, <3>3, <3>4 DEF Settle
  <2>2. ASSUME NEW s \in Runs \ {r} PROVE DoubtInv(s)'
    BY <1>0, <1>13, DoubtFrame, WriteFrame DEF TypeOK, Settle, Leave, Goto
  <2> QED BY <2>1, <2>2 DEF AllDoubtInv
<1>14. ASSUME NEW r \in Runs, Crash(r) PROVE AllDoubtInv'
  <2>1. DoubtInv(r)'
    BY <1>0, <1>14, LeaveDoubt DEF Crash, InDoubt
  <2>2. ASSUME NEW s \in Runs \ {r} PROVE DoubtInv(s)'
    BY <1>0, <1>14, DoubtFrame DEF TypeOK, Crash, Leave, Goto
  <2> QED BY <2>1, <2>2 DEF AllDoubtInv
<1>15. ASSUME NEW r \in Runs, NEW x \in RIs, ProcessAccept(r, x), NEW s \in Runs PROVE DoubtInv(s)'
  <2>1. \A y \in RIs : accept'[s][y].state # "none" <=> accept[s][y].state # "none"
    <3>1. CASE accept' = [accept EXCEPT ![r][x].state = "rejected"]
      BY <1>15, <3>1 DEF TypeOK, Accepts, ProcessAccept
    <3>2. CASE \E p \in IF PriceHolds THEN {accept[r][x].amount} ELSE Prices :
                  accept' = [accept EXCEPT ![r][x] = [state |-> "done", amount |-> p]]
      BY <1>15, <3>2 DEF TypeOK, Accepts, ProcessAccept
    <3> QED BY <1>15, <3>1, <3>2 DEF ProcessAccept
  <2>2. UNCHANGED <<pc, todo, cur, record>>
    BY <1>15 DEF ProcessAccept
  <2> QED BY <1>0, <2>1, <2>2 DEF DoubtInv, OneAtATime, Untouched, InDoubt
<1>16. CASE UNCHANGED vars
  BY <1>0, <1>16, DoubtFrame DEF AllDoubtInv, vars
<1> QED
  BY <1>1, <1>2, <1>3, <1>4, <1>5, <1>6, <1>7, <1>8, <1>10, <1>11, <1>12, <1>13,
     <1>14, <1>15, <1>16 DEF Next, Step, RunStep, AllDoubtInv

(* Whatever AWS charges and whatever fails, a run leaves at most one       *)
(* exchange in doubt: executeWithAPI halts it after an unknown outcome and *)
(* completeLedgerRecord after its last failed attempt.                     *)
THEOREM OneInDoubt == Spec => []OneInDoubtPerRun
<1>1. Init => TypeOK /\ AllDoubtInv
  <2>1. Init => AllDoubtInv
    BY DEF Init, AllDoubtInv, DoubtInv, NoRecord, OneAtATime, Untouched, InDoubt
  <2> QED BY <2>1, InitType
<1>2. TypeOK /\ AllDoubtInv /\ [Next]_vars => (TypeOK /\ AllDoubtInv)'
  BY NextType, NextDoubt
<1>3. AllDoubtInv => OneInDoubtPerRun
  BY DEF AllDoubtInv, DoubtInv, InDoubt, OneInDoubtPerRun
<1> QED BY <1>1, <1>2, <1>3, PTL DEF Spec
-----------------------------------------------------------------------------
(* One pending record per source RI and origin.                            *)

SameOrigin(r, s) == params[r].origin = params[s].origin

(* Runs of one origin do not overlap.                                      *)
OneRunning == \A r, s \in Runs : (Running(r) /\ Running(s) /\ SameOrigin(r, s)) => r = s

(* A run that works through its recommendations for real has the only      *)
(* pending records of its origin, if there are any.                        *)
Cleared(r) ==
    (Running(r) /\ pc[r] # "cancel" /\ ~params[r].dryRun) =>
        \A s \in Runs \ {r}, x \in RIs : SameOrigin(r, s) => record[s][x].status # "pending"

PendingInv ==
    /\ OneRunning /\ OnePendingPerSource
    /\ \A r \in Runs : Cleared(r) /\ (pc[r] = "manual" => ~params[r].dryRun)

(* A step of a run that is past the cancellation: it stays past it, writes *)
(* its own records only, and a pending one only from "manual".             *)
Works(r) ==
    /\ Running(r) /\ pc[r] # "cancel"
    /\ \A s \in Runs \ {r} : pc'[s] = pc[s] /\ record'[s] = record[s]
    /\ pc'[r] # "cancel"
    /\ pc'[r] = "manual" => (pc[r] = "manual" \/ ~params[r].dryRun)
    /\ pc[r] = "manual" \/ \A x \in RIs : record'[r][x].status = "pending" => record[r][x].status = "pending"

LEMMA WorksPending ==
    ASSUME TypeOK, PendingInv, NEW r \in Runs, Works(r), UNCHANGED params
    PROVE  PendingInv'
<1>1. \A s \in Runs : Running(s)' => Running(s)
  BY DEF Works, Running
<1>2. OneRunning'
  BY <1>1 DEF PendingInv, OneRunning, SameOrigin
<1>3. ASSUME NEW s \in Runs, NEW x \in RIs, record'[s][x].status = "pending"
      PROVE  record[s][x].status = "pending" \/ (s = r /\ pc[r] = "manual")
  BY <1>3 DEF Works
<1>4. pc[r] = "manual" => \A s \in Runs \ {r}, x \in RIs : SameOrigin(r, s) => record[s][x].status # "pending"
  BY DEF PendingInv, Cleared, Works
<1>5. OnePendingPerSource'
  BY <1>3, <1>4 DEF PendingInv, OnePendingPerSource, SameOrigin
<1>6. ASSUME NEW s \in Runs PROVE Cleared(s)'
  <2>1. CASE s = r
    <3>1. Cleared(r)
      BY DEF PendingInv
    <3> QED BY <2>1, <3>1 DEF Cleared, Works, SameOrigin, Running
  <2>2. CASE s # r
    <3>1. Cleared(s)
      BY DEF PendingInv
    <3>2. Running(s)' => Running(s) /\ ~SameOrigin(s, r)
      BY <1>1, <2>2 DEF PendingInv, OneRunning, Works, SameOrigin
    <3> QED BY <2>2, <3>1, <3>2 DEF Cleared, Works, SameOrigin, Running
  <2> QED BY <2>1, <2>2
<1>7. ASSUME NEW s \in Runs, pc'[s] = "manual" PROVE ~params'[s].dryRun
  BY <1>7 DEF PendingInv, Works
<1> QED BY <1>2, <1>5, <1>6, <1>7 DEF PendingInv

(* A write of another status makes no record pending.                      *)
LEMMA WritePending ==
    ASSUME TypeOK, NEW r \in Runs, NEW x \in RIs, NEW status, NEW amount,
           Write(r, x, status, amount) \/ WriteFails(r, x, status, amount), status # "pending"
    PROVE  \A y \in RIs : record'[r][y].status = "pending" => record[r][y].status = "pending"
<1>1. CASE UNCHANGED record
  BY <1>1
<1>2. CASE Write(r, x, status, amount)
  BY <1>2 DEF TypeOK, Write
<1> QED BY <1>1, <1>2 DEF WriteFails

(* Every step of a run past the cancellation.                              *)
LEMMA RunWorks ==
    ASSUME TypeOK, NEW r \in Runs, pc[r] # "cancel", RunStep(r) \/ Crash(r)
    PROVE  Works(r)
<1> USE DEF aws, locals, NextRecommendation, Halt
<1>1. CASE Finish(r)
  BY <1>1 DEF Finish, Goto, Works, Running, TypeOK
<1>2. CASE Crash(r)
  BY <1>2 DEF Crash, Leave, Goto, Works, Running, TypeOK
<1>3. ASSUME NEW x \in RIs, Consider(r, x) PROVE Works(r)
  <2>1. UNCHANGED record /\ pc[r] = "next" /\ (\A s \in Runs \ {r} : pc'[s] = pc[s])
    BY <1>3 DEF Consider, Leave, Goto, TypeOK
  <2>2. pc'[r] \in {"next", "manual", "reserve"} /\ (pc'[r] = "manual" => ~params[r].dryRun)
    BY <1>3 DEF Consider, Leave, Goto, TypeOK
  <2> QED BY <2>1, <2>2 DEF Works, Running
<1>4. ASSUME NEW x \in RIs, SaveManual(r, x) PROVE Works(r)
  <2>1. \A s \in Runs \ {r} : record'[s] = record[s]
    BY <1>4, WriteFrame DEF SaveManual
  <2> QED BY <1>4, <2>1 DEF SaveManual, Leave, Goto, Works, Running, TypeOK
<1>5. ASSUME NEW x \in RIs, Reserve(r, x) PROVE Works(r)
  <2>1. /\ \A s \in Runs \ {r} : record'[s] = record[s]
        /\ \A y \in RIs : record'[r][y].status = "pending" => record[r][y].status = "pending"
    BY <1>5, WriteFrame, WritePending DEF Reserve
  <2> QED BY <1>5, <2>1 DEF Reserve, Leave, Goto, Works, Running, TypeOK
<1>6. ASSUME NEW x \in RIs, BadCeiling(r, x) \/ FailRecord(r, x) PROVE Works(r)
  <2>1. /\ \A s \in Runs \ {r} : record'[s] = record[s]
        /\ \A y \in RIs : record'[r][y].status = "pending" => record[r][y].status = "pending"
    BY <1>6, WriteFrame, WritePending DEF BadCeiling, FailRecord
  <2> QED BY <1>6, <2>1 DEF BadCeiling, FailRecord, Leave, Goto, Works, Running, TypeOK
<1>7. ASSUME NEW x \in RIs, Settle(r, x) PROVE Works(r)
  <2>1. /\ \A s \in Runs \ {r} : record'[s] = record[s]
        /\ \A y \in RIs : record'[r][y].status = "pending" => record[r][y].status = "pending"
    BY <1>7, WriteFrame, WritePending DEF Settle
  <2>2. /\ \A s \in Runs \ {r} : pc'[s] = pc[s]
        /\ pc[r] = "settle" /\ pc'[r] \in {"next", "settle", "done"}
    BY <1>7 DEF Settle, Leave, Goto, TypeOK
  <2> QED BY <2>1, <2>2 DEF Works, Running
<1>8. ASSUME NEW x \in RIs, InitialQuote(r, x) \/ ReQuote(r, x) \/ SendAccept(r, x) \/ AwaitAccept(r, x)
      PROVE  Works(r)
  <2>1. /\ UNCHANGED record
        /\ pc[r] \in {"execute", "requote", "accept", "await"}
    BY <1>8 DEF InitialQuote, ReQuote, SendAccept, AwaitAccept
  <2>2. /\ \A s \in Runs \ {r} : pc'[s] = pc[s]
        /\ pc'[r] \in {"requote", "accept", "await", "settle", "fail", "done"}
    BY <1>8 DEF InitialQuote, ReQuote, SendAccept, AwaitAccept, Accepted, Rejected, Leave, Goto, TypeOK
  <2> QED BY <2>1, <2>2 DEF Works, Running
<1> QED BY <1>1, <1>2, <1>3, <1>4, <1>5, <1>6, <1>7, <1>8 DEF RunStep, CancelStalePending

LEMMA NextPending == ASSUME TypeOK, PendingInv, [Next]_vars PROVE PendingInv'
<1>0. UNCHANGED params
  BY DEF Next, vars
<1>1. ASSUME NEW r \in Runs, Start(r) PROVE PendingInv'
  <2>1. UNCHANGED record /\ pc[r] = "idle" /\ (\A s \in Runs \ {r} : pc'[s] = pc[s])
    BY <1>1 DEF Start, Goto, TypeOK
  <2>2. pc'[r] \in {"done", "next", "cancel"} /\ (pc'[r] = "next" => params[r].dryRun)
    BY <1>1 DEF Start, Goto, TypeOK
  <2>3. \A s \in Runs : SameOrigin(s, r) => ~Running(s)
    BY <1>1 DEF Start, SameOrigin
  <2>4. OneRunning'
    BY <1>0, <2>1, <2>3 DEF PendingInv, OneRunning, Running, SameOrigin
  <2>5. ASSUME NEW s \in Runs PROVE Cleared(s)' /\ (pc'[s] = "manual" => ~params'[s].dryRun)
    BY <1>0, <2>1, <2>2, <2>5 DEF PendingInv, Cleared, Running, SameOrigin
  <2> QED BY <1>0, <2>1, <2>4, <2>5 DEF PendingInv, OnePendingPerSource
<1>2. ASSUME NEW r \in Runs, CancelStalePending(r) PROVE PendingInv'
  <2>1. /\ pc[r] = "cancel" /\ pc'[r] \in {"next", "done"} /\ (\A s \in Runs \ {r} : pc'[s] = pc[s])
    BY <1>2 DEF CancelStalePending, Goto, TypeOK
  <2>2. \A s \in Runs, x \in RIs : record'[s][x].status = "pending" => record[s][x].status = "pending"
    <3>1. ASSUME NEW s \in Runs, NEW x \in RIs
          PROVE  record'[s][x] = record[s][x] \/ record'[s][x].status = "canceled"
      BY <1>2, <3>1 DEF CancelStalePending, CancelPendingByOrigin, TypeOK
    <3> QED BY <3>1
  <2>3. pc'[r] = "next" => \A s \in Runs, x \in RIs : SameOrigin(r, s) => record'[s][x].status # "pending"
    <3>1. ASSUME pc'[r] = "next" PROVE CancelPendingByOrigin(params[r].origin)
      BY <1>2, <3>1 DEF CancelStalePending, Goto, TypeOK
    <3>2. ASSUME CancelPendingByOrigin(params[r].origin), NEW s \in Runs, NEW x \in RIs, SameOrigin(r, s)
          PROVE  record'[s][x].status # "pending"
      BY <3>2 DEF CancelPendingByOrigin, SameOrigin
    <3> QED BY <3>1, <3>2
  <2>4. OneRunning'
    BY <1>0, <2>1 DEF PendingInv, OneRunning, Running, SameOrigin
  <2>5. OnePendingPerSource'
    BY <1>0, <2>2 DEF PendingInv, OnePendingPerSource
  <2>6. ASSUME NEW s \in Runs PROVE Cleared(s)' /\ (pc'[s] = "manual" => ~params'[s].dryRun)
    <3>1. CASE s = r
      BY <1>0, <2>1, <2>3, <3>1 DEF Cleared, Running, SameOrigin
    <3>2. CASE s # r
      BY <1>0, <2>1, <2>2, <2>6, <3>2 DEF PendingInv, Cleared, Running, SameOrigin
    <3> QED BY <3>1, <3>2
  <2> QED BY <2>4, <2>5, <2>6 DEF PendingInv
<1>3. ASSUME NEW r \in Runs, RunStep(r) \/ Crash(r), ~CancelStalePending(r) PROVE PendingInv'
  <2>1. CASE pc[r] # "cancel"
    BY <1>0, <1>3, <2>1, RunWorks, WorksPending
  <2>2. CASE pc[r] = "cancel"
    <3>1. Crash(r)
      BY <1>3, <2>2 DEF RunStep, Finish, Consider, SaveManual, Reserve, BadCeiling, InitialQuote, ReQuote,
                        SendAccept, AwaitAccept, FailRecord, Settle
    <3>2. UNCHANGED record /\ pc'[r] = "crashed" /\ (\A s \in Runs \ {r} : pc'[s] = pc[s])
      BY <3>1 DEF Crash, Leave, Goto, TypeOK
    <3>3. OneRunning' /\ OnePendingPerSource'
      BY <1>0, <3>2 DEF PendingInv, OneRunning, OnePendingPerSource, Running, SameOrigin
    <3>4. ASSUME NEW s \in Runs PROVE Cleared(s)' /\ (pc'[s] = "manual" => ~params'[s].dryRun)
      BY <1>0, <3>2, <3>4 DEF PendingInv, Cleared, Running, SameOrigin
    <3> QED BY <3>3, <3>4 DEF PendingInv
  <2> QED BY <2>1, <2>2
<1>4. CASE UNCHANGED <<pc, record>>
  BY <1>0, <1>4 DEF PendingInv, OneRunning, OnePendingPerSource, Cleared, Running, SameOrigin
<1>5. ASSUME NEW r \in Runs, NEW x \in RIs, ProcessAccept(r, x) PROVE PendingInv'
  BY <1>4, <1>5 DEF ProcessAccept
<1> QED BY <1>1, <1>2, <1>3, <1>4, <1>5 DEF Next, Step, vars

(* Two pending records for one RI of one origin are never approvable at a  *)
(* time: cancelStalePending ends the run when it cannot cancel the old     *)
(* ones, and a dry run, which cancels nothing, saves nothing.              *)
THEOREM OnePending == Spec => []OnePendingPerSource
<1>1. Init => TypeOK /\ PendingInv
  <2>1. Init => PendingInv
    BY DEF Init, PendingInv, OneRunning, OnePendingPerSource, Cleared, Running, NoRecord
  <2> QED BY <2>1, InitType
<1>2. TypeOK /\ PendingInv /\ [Next]_vars => (TypeOK /\ PendingInv)'
  BY NextType, NextPending
<1>3. PendingInv => OnePendingPerSource
  BY DEF PendingInv
<1> QED BY <1>1, <1>2, <1>3, PTL DEF Spec
=============================================================================
