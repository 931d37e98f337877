----------------------------- MODULE EC2Proofs -----------------------------
(***************************************************************************)
(* Proofs about EC2Purchase for every set of calls, tokens and shapes and  *)
(* every clock: an unmarked error bought nothing, a token re-driven as     *)
(* documented buys one RI at a time, and a Found verdict passes over       *)
(* nothing of the lineage.                                                 *)
(***************************************************************************)
EXTENDS EC2Purchase, FiniteSetTheorems, TLAPS

(* Where a call is fixes what its request and its result can be.           *)
Stage(c) ==
    /\ pc[c] \in {"idle", "lookup", "offer", "send"} => ri[c].state = "none"
    /\ (result[c] # "none") <=> (pc[c] = "done")
    /\ result[c] = "existing" => ri[c].state = "none"
    /\ result[c] \in {"error", "refused"} => ri[c].state \in {"none", "rejected"}
    /\ pc[c] = "idle" => token[c] = NoToken
    /\ pc[c] = "lookup" => token[c] \in Tokens

(* AWS lists what it sold, tags are the buyer's own, and the start time is *)
(* no earlier than the dispatch, up to the drift of the clock.             *)
Sight(c) ==
    /\ ri[c].listed => ri[c].state \in Landed
    /\ ri[c].tag \in {NoToken, token[c]}
    /\ pc[c] # "idle" => requested[c] <= now
    /\ ri[c].state \in Landed => ri[c].start >= requested[c] - Drift

(* The calls of a lineage agree on its first dispatch.                     *)
Lineage ==
    \A c, d \in Calls :
        (token[c] = token[d] /\ token[c] \in Tokens) => requested[c] = requested[d]

(* A call that ended so that its token may be dispatched again.            *)
Settled(d) ==
    /\ ~Running(d) /\ result[d] # "unknown"
    /\ pc[d] = "crashed" => ri[d].state = "none"
    /\ result[d] = "success" => ri[d].tag = token[d] /\ ri[d].listed

(* A call past its lookup, or whose request may be or become an RI.        *)
Hot(c) == pc[c] \in {"offer", "send", "await", "tag"} \/ ri[c].state \in {"inflight"} \cup Live

(* What the documented caller brings about.                                *)
Exclusive ==
    contract => \A c, d \in Calls :
        (c # d /\ token[c] = token[d] /\ token[c] \in Tokens) =>
            (Running(c) => Settled(d)) /\ ~(Hot(c) /\ Hot(d))

(* A call returns RIs of its own token, once.                              *)
OwnReport ==
    \A c \in Calls : \A r \in commit[c] :
        pc[c] = "done" /\ pc[r] # "idle" /\ token[r] = token[c]

Inv == 
    /\ TypeOK
    /\ \A c \in Calls : Stage(c) /\ Sight(c)
    /\ Lineage /\ Exclusive /\ OwnReport

USE ConstantsAssumption DEF ConstantsAssumption

-----------------------------------------------------------------------------
(* Types.                                                                  *)

(* What a return leaves behind.                                            *)
LEMMA ReturnEffect ==
    ASSUME TypeOK, NEW c \in Calls, NEW r \in Results, NEW ids \in SUBSET Calls,
           Return(c, r, ids)
    PROVE  /\ pc' \in [Calls -> PCs] /\ ended' \in [Calls -> 0..MaxTime]
           /\ result' \in [Calls -> Results] /\ commit' \in [Calls -> SUBSET Calls]
           /\ pc'[c] = "done" /\ result'[c] = r /\ commit'[c] = ids
           /\ \A d \in Calls \ {c} :
                 pc'[d] = pc[d] /\ result'[d] = result[d] /\ commit'[d] = commit[d]
BY DEF TypeOK, Return, Goto, PCs

LEMMA GotoEffect ==
    ASSUME TypeOK, NEW c \in Calls, NEW l \in PCs, Goto(c, l)
    PROVE  /\ pc' \in [Calls -> PCs] /\ pc'[c] = l
           /\ \A d \in Calls \ {c} : pc'[d] = pc[d]
BY DEF TypeOK, Goto

(* Writing the RI of one call leaves the others alone.                     *)
LEMMA WriteRI ==
    ASSUME TypeOK, NEW c \in Calls, NEW v \in RIRecords, ri' = [ri EXCEPT ![c] = v]
    PROVE  /\ ri' \in [Calls -> RIRecords] /\ ri'[c] = v
           /\ \A d \in Calls \ {c} : ri'[d] = ri[d]
BY DEF TypeOK

(* The lineage a dispatch joins, and the time it records.                  *)
LEMMA FirstDispatch ==
    ASSUME Inv, NEW c \in Calls, NEW t \in AllTokens, Dispatch(c, t)
    PROVE  \E first \in 0..MaxTime :
              /\ requested' = [requested EXCEPT ![c] = first]
              /\ first <= now
              /\ \A d \in Calls : (token[d] = t /\ t \in Tokens) => requested[d] = first
<1> DEFINE lineage == {requested[d] : d \in {e \in Calls : pc[e] # "idle" /\ token[e] = t}}
           first == IF t = NoToken \/ lineage = {} THEN now
                    ELSE CHOOSE x \in lineage : \A y \in lineage : x <= y
<1>1. requested' = [requested EXCEPT ![c] = first]
  BY DEF Dispatch
<1>2. now \in 0..MaxTime /\ requested \in [Calls -> 0..MaxTime]
  BY DEF Inv, TypeOK
<1>3. \A d \in Calls : (token[d] = t /\ t \in Tokens) => pc[d] # "idle"
  BY DEF Inv, Stage
<1>4. CASE t = NoToken \/ lineage = {}
  <2>1. first = now
    BY <1>4
  <2>2. \A d \in Calls : token[d] = t => t \notin Tokens
    BY <1>3, <1>4
  <2> HIDE DEF first, lineage
  <2>3. now <= now
    BY <1>2
  <2> QED BY <1>1, <1>2, <2>1, <2>2, <2>3
<1>5. CASE t # NoToken /\ lineage # {}
  <2>1. PICK e \in Calls : pc[e] # "idle" /\ token[e] = t
    BY <1>5
  <2>2. t \in Tokens
    BY <1>5 DEF AllTokens
  <2>3. \A d \in Calls : token[d] = t => requested[d] = requested[e]
    BY <2>1, <2>2 DEF Inv, Lineage
  <2>4. lineage = {requested[e]}
    BY <2>1, <2>3
  <2>5. requested[e] \in 0..MaxTime /\ requested[e] <= now
    BY <1>2, <2>1 DEF Inv, Sight
  <2>6. first = requested[e]
    <3>1. first = CHOOSE x \in {requested[e]} : \A y \in {requested[e]} : x <= y
      BY <1>5, <2>4
    <3>2. \E x \in {requested[e]} : \A y \in {requested[e]} : x <= y
      BY <2>5
    <3> HIDE DEF first
    <3>3. first \in {requested[e]}
      BY <3>1, <3>2, Zenon
    <3> QED BY <3>3
  <2> HIDE DEF first
  <2> QED BY <1>1, <2>2, <2>3, <2>5, <2>6
<1> QED BY <1>4, <1>5

-----------------------------------------------------------------------------
(* A step of one call, or of AWS on its RI, seen from the other calls.     *)
Local(c) ==
    /\ UNCHANGED <<contract, token, requested, now>>
    /\ \A d \in Calls \ {c} : /\ pc'[d] = pc[d] /\ result'[d] = result[d]
                              /\ commit'[d] = commit[d] /\ ri'[d] = ri[d]
    /\ pc[c] # "idle" /\ pc'[c] # "idle"
    /\ Stage(c)' /\ Sight(c)'
    /\ Running(c)' => Running(c)
    /\ Settled(c) => Settled(c)'
    /\ (contract /\ token[c] \in Tokens /\ Hot(c)') =>
          Hot(c) \/ \A d \in Calls \ {c} : token[d] = token[c] => ~Hot(d)
    /\ \/ commit'[c] = commit[c] /\ (pc[c] = "done" => pc'[c] = "done")
       \/ /\ commit[c] = {} /\ pc'[c] = "done"
          /\ (ri'[c].state \in Live) = (ri[c].state \in Live)
          /\ \E q \in Calls : commit'[c] = {q} /\ token[q] = token[c] /\ pc[q] # "idle"
    /\ (ri'[c].state \in Live /\ ri[c].state \notin Live) => ri[c].state = "inflight"

LEMMA LocalInv ==
    ASSUME Inv, TypeOK', NEW c \in Calls, Local(c)
    PROVE  Inv'
<1>1. \A d \in Calls \ {c} : Stage(d)' /\ Sight(d)'
  BY DEF Local, Inv, Stage, Sight
<1>2. Lineage'
  BY DEF Local, Inv, Lineage
<1>3. \A d \in Calls \ {c} : (Running(d)' <=> Running(d)) /\ (Settled(d)' <=> Settled(d))
                             /\ (Hot(d)' <=> Hot(d))
  BY DEF Local, Running, Settled, Hot
<1>4. Exclusive'
  <2> SUFFICES ASSUME contract, NEW d \in Calls, NEW e \in Calls, d # e,
                      token[d] = token[e], token[d] \in Tokens
               PROVE  (Running(d)' => Settled(e)') /\ ~(Hot(d)' /\ Hot(e)')
    BY DEF Exclusive, Local
  <2>1. (Running(d) => Settled(e)) /\ (Running(e) => Settled(d)) /\ ~(Hot(d) /\ Hot(e))
    BY DEF Inv, Exclusive
  <2>2. CASE d # c /\ e # c
    BY <1>3, <2>1, <2>2
  <2>3. CASE d = c
    <3>1. e # c
      BY <2>3
    <3>2. Hot(c)' => ~Hot(e)
      BY <2>1, <2>3, <3>1 DEF Local
    <3> QED BY <1>3, <2>1, <2>3, <3>1, <3>2 DEF Local
  <2>4. CASE e = c
    <3>1. d # c
      BY <2>4
    <3>2. Hot(c)' => ~Hot(d)
      BY <2>1, <2>4, <3>1 DEF Local
    <3> QED BY <1>3, <2>1, <2>4, <3>1, <3>2 DEF Local
  <2> QED BY <2>2, <2>3, <2>4
<1>5. \A d \in Calls : pc[d] # "idle" => pc'[d] # "idle"
  BY DEF Local
<1>6. OwnReport'
  <2> SUFFICES ASSUME NEW d \in Calls, NEW r \in commit'[d]
               PROVE  pc'[d] = "done" /\ pc'[r] # "idle" /\ token[r] = token[d]
    BY DEF OwnReport, Local
  <2>1. commit[d] \subseteq Calls
    BY DEF Inv, TypeOK
  <2>2. CASE r \in commit[d]
    <3>1. r \in Calls /\ pc[d] = "done" /\ pc[r] # "idle" /\ token[r] = token[d]
      BY <2>1, <2>2 DEF Inv, OwnReport
    <3>2. pc'[d] = "done"
      BY <2>2, <3>1 DEF Local
    <3> QED BY <1>5, <3>1, <3>2
  <2>3. CASE r \notin commit[d]
    <3>1. d = c /\ pc'[c] = "done"
      BY <2>3 DEF Local
    <3>2. r \in Calls /\ token[r] = token[c] /\ pc[r] # "idle"
      BY <2>3, <3>1 DEF Local
    <3> QED BY <1>5, <3>1, <3>2
  <2> QED BY <2>2, <2>3
<1>7. \A d \in Calls : Stage(d)' /\ Sight(d)'
  BY <1>1 DEF Local
<1> QED BY <1>2, <1>4, <1>6, <1>7 DEF Inv

(* A call that has not returned has reported nothing.                      *)
LEMMA NothingReported ==
    ASSUME Inv, NEW c \in Calls, pc[c] # "done"
    PROVE  commit[c] = {} /\ result[c] = "none"
BY DEF Inv, OwnReport, Stage

(* A call at work that sends nothing: on to l, or back to its caller.      *)
LEMMA MoveLocal ==
    ASSUME Inv, NEW c \in Calls,
           NEW l \in {"offer", "send", "tag", "crashed"}, NEW r \in Results \ {"none"},
           NEW ids \in SUBSET Calls,
           Running(c), UNCHANGED <<contract, token, requested, tries, verdict, ri, now>>,
           \/ Goto(c, l) /\ UNCHANGED <<ended, result, commit>>
           \/ Return(c, r, ids),
           l \in {"offer", "send"} => ri[c].state = "none",
           \/ l = "crashed" \/ Hot(c)
           \/ contract /\ token[c] \in Tokens =>
                 \A d \in Calls \ {c} : token[d] = token[c] => ~Hot(d),
           r = "existing" => ri[c].state = "none",
           r \in {"error", "refused"} => ri[c].state \in {"none", "rejected"},
           \/ ids = {}
           \/ \E q \in Calls : ids = {q} /\ token[q] = token[c] /\ pc[q] # "idle"
    PROVE  TypeOK' /\ Local(c)
<1>1. /\ pc[c] \notin {"idle", "done", "crashed"} /\ commit[c] = {} /\ result[c] = "none"
      /\ TypeOK /\ Stage(c) /\ Sight(c)
  BY NothingReported DEF Running, Inv
<1>2. ~Settled(c)
  BY DEF Settled
<1>3. CASE Goto(c, l) /\ UNCHANGED <<ended, result, commit>>
  <2>1. /\ pc' \in [Calls -> PCs] /\ pc'[c] = l
        /\ \A d \in Calls \ {c} : pc'[d] = pc[d]
    BY <1>1, <1>3, GotoEffect DEF PCs
  <2>2. TypeOK'
    BY <1>1, <1>3, <2>1 DEF TypeOK
  <2>3. Stage(c)' /\ Sight(c)'
    BY <1>1, <1>3, <2>1 DEF Stage, Sight
  <2>4. (contract /\ token[c] \in Tokens /\ Hot(c)') =>
          Hot(c) \/ \A d \in Calls \ {c} : token[d] = token[c] => ~Hot(d)
    BY <2>1 DEF Hot
  <2> QED BY <1>1, <1>2, <1>3, <2>1, <2>2, <2>3, <2>4 DEF Local
<1>4. CASE Return(c, r, ids)
  <2>1. /\ pc' \in [Calls -> PCs] /\ ended' \in [Calls -> 0..MaxTime]
        /\ result' \in [Calls -> Results] /\ commit' \in [Calls -> SUBSET Calls]
        /\ pc'[c] = "done" /\ result'[c] = r /\ commit'[c] = ids
        /\ \A d \in Calls \ {c} :
              pc'[d] = pc[d] /\ result'[d] = result[d] /\ commit'[d] = commit[d]
    BY <1>1, <1>4, ReturnEffect
  <2>2. TypeOK'
    BY <1>1, <2>1 DEF TypeOK
  <2>3. Stage(c)' /\ Sight(c)'
    BY <1>1, <2>1 DEF Stage, Sight
  <2>4. Hot(c)' => Hot(c)
    BY <2>1 DEF Hot
  <2> QED BY <1>1, <1>2, <2>1, <2>2, <2>3, <2>4 DEF Local
<1> QED BY <1>3, <1>4

(* An RI that a lookup shows belongs to the call's token.                  *)
LEMMA TaggedIsOwn ==
    ASSUME Inv, NEW c \in Calls, token[c] \in Tokens, NEW n \in TaggedRIs(token[c])
    PROVE  n \in Calls /\ token[n] = token[c] /\ pc[n] # "idle"
<1>1. n \in Calls /\ ri[n].tag = token[c] /\ Sight(n) /\ Stage(n)
  BY DEF TaggedRIs, Inv
<1> QED BY <1>1 DEF Sight, Stage

(* When the lookup shows no RI of the token, the documented caller has     *)
(* left none that is or may become one.                                    *)
LEMMA NothingShown ==
    ASSUME Inv, NEW c \in Calls, Running(c), token[c] \in Tokens, contract,
           TaggedRIs(token[c]) = {}, NEW d \in Calls \ {c}, token[d] = token[c]
    PROVE  ~Hot(d)
<1>1. Settled(d) /\ Stage(d) /\ Sight(d)
  BY DEF Inv, Exclusive
<1>2. pc[d] \in {"done", "crashed"}
  BY <1>1 DEF Settled, Running, Stage
<1>3. CASE pc[d] = "crashed"
  BY <1>1, <1>3 DEF Settled, Hot, Live
<1>4. CASE pc[d] = "done"
  <2>1. result[d] \in {"success", "existing", "error", "refused"}
    BY <1>1, <1>4 DEF Stage, Settled, Inv, TypeOK, Results
  <2>2. CASE result[d] = "success"
    <3>1. ri[d].tag = token[c] /\ ri[d].listed /\ ri[d].state \in Landed
      BY <1>1, <2>2 DEF Settled, Sight
    <3>2. ri[d].state \notin Live
      BY <3>1 DEF TaggedRIs
    <3> QED BY <1>4, <3>1, <3>2 DEF Hot, Landed, Live
  <2>3. CASE result[d] # "success"
    BY <1>1, <1>4, <2>1, <2>3 DEF Stage, Hot, Live
  <2> QED BY <2>2, <2>3
<1> QED BY <1>2, <1>3, <1>4

LEMMA FindLocal ==
    ASSUME Inv, NEW c \in Calls, FindByToken(c), UNCHANGED contract
    PROVE  TypeOK' /\ Local(c)
<1>1. /\ Running(c) /\ token[c] \in Tokens /\ ri[c].state = "none"
      /\ UNCHANGED <<contract, token, requested, tries, verdict, ri, now>>
  BY DEF FindByToken, Running, Inv, Stage
<1>2. CASE Return(c, "error", {})
  <2>1. "error" \in Results \ {"none"} /\ "crashed" \in {"offer", "send", "tag", "crashed"}
        /\ {} \in SUBSET Calls
    BY DEF Results
  <2> QED BY <1>1, <1>2, <2>1, MoveLocal
<1>3. ASSUME NEW n \in TaggedRIs(token[c]), Return(c, "existing", {n})
      PROVE  TypeOK' /\ Local(c)
  <2>1. "existing" \in Results \ {"none"} /\ "crashed" \in {"offer", "send", "tag", "crashed"}
    BY DEF Results
  <2>2. n \in Calls /\ token[n] = token[c] /\ pc[n] # "idle" /\ {n} \in SUBSET Calls
    BY <1>1, TaggedIsOwn
  <2> QED BY <1>1, <1>3, <2>1, <2>2, MoveLocal
<1>4. CASE TaggedRIs(token[c]) = {} /\ Goto(c, "offer") /\ UNCHANGED <<ended, result, commit>>
  <2>1. "error" \in Results \ {"none"} /\ "offer" \in {"offer", "send", "tag", "crashed"}
        /\ {} \in SUBSET Calls
    BY DEF Results
  <2>2. contract => \A d \in Calls \ {c} : token[d] = token[c] => ~Hot(d)
    BY <1>1, <1>4, NothingShown
  <2> QED BY <1>1, <1>4, <2>1, <2>2, MoveLocal
<1> QED BY <1>2, <1>3, <1>4 DEF FindByToken

LEMMA ResolveLocal ==
    ASSUME Inv, NEW c \in Calls, ResolveOffering(c), UNCHANGED contract
    PROVE  TypeOK' /\ Local(c)
<1>1. /\ Running(c) /\ ri[c].state = "none" /\ Hot(c)
      /\ UNCHANGED <<contract, token, requested, tries, verdict, ri, now>>
  BY DEF ResolveOffering, Running, Inv, Stage, Hot
<1>2. PICK r \in {"error", "refused"} :
        \/ Goto(c, "send") /\ UNCHANGED <<ended, result, commit>>
        \/ Return(c, r, {})
  BY DEF ResolveOffering
<1>3. r \in Results \ {"none"} /\ "send" \in {"offer", "send", "tag", "crashed"}
      /\ {} \in SUBSET Calls
  BY DEF Results
<1> QED BY <1>1, <1>2, <1>3, MoveLocal

LEMMA AwaitLocal ==
    ASSUME Inv, NEW c \in Calls, AwaitPurchase(c), UNCHANGED contract
    PROVE  TypeOK' /\ Local(c)
<1>1. /\ Running(c) /\ Hot(c)
      /\ UNCHANGED <<contract, token, requested, tries, verdict, ri, now>>
  BY DEF AwaitPurchase, Running, Hot
<1>2. PICK r \in {"error", "unknown"} :
        /\ \/ Goto(c, "tag") /\ UNCHANGED <<ended, result, commit>>
           \/ Return(c, r, {})
        /\ r = "error" => ri[c].state = "rejected"
  BY DEF AwaitPurchase
<1>3. r \in Results \ {"none"} /\ "tag" \in {"offer", "send", "tag", "crashed"}
      /\ {} \in SUBSET Calls
  BY DEF Results
<1> QED BY <1>1, <1>2, <1>3, MoveLocal

LEMMA CrashLocal ==
    ASSUME Inv, NEW c \in Calls, Crash(c), UNCHANGED contract
    PROVE  TypeOK' /\ Local(c)
<1>1. "unknown" \in Results \ {"none"} /\ "crashed" \in {"offer", "send", "tag", "crashed"}
      /\ {} \in SUBSET Calls
  BY DEF Results
<1> QED BY <1>1, MoveLocal DEF Crash, call

-----------------------------------------------------------------------------
(* The steps that write an RI.                                             *)
LEMMA SendLocal ==
    ASSUME Inv, NEW c \in Calls, Send(c), UNCHANGED contract
    PROVE  TypeOK' /\ Local(c)
<1> DEFINE v == [ri[c] EXCEPT !.state = "inflight"]
<1>1. /\ pc[c] = "send" /\ TypeOK /\ Stage(c) /\ Sight(c) /\ Goto(c, "await")
      /\ ri[c] \in RIRecords /\ ri[c].state = "none"
      /\ UNCHANGED <<token, requested, ended, tries, result, commit, verdict, now>>
  BY DEF Send, Inv, Stage, TypeOK, call
<1>2. /\ v \in RIRecords /\ v.state = "inflight" /\ v.listed = ri[c].listed
      /\ v.tag = ri[c].tag /\ v.start = ri[c].start
  BY <1>1 DEF RIRecords
<1>3. ri' = [ri EXCEPT ![c] = v]
  BY DEF Send
<1> HIDE DEF v
<1>4. /\ ri' \in [Calls -> RIRecords] /\ ri'[c] = v
      /\ \A d \in Calls \ {c} : ri'[d] = ri[d]
  BY <1>1, <1>2, <1>3, WriteRI
<1>5. /\ pc' \in [Calls -> PCs] /\ pc'[c] = "await"
      /\ \A d \in Calls \ {c} : pc'[d] = pc[d]
  BY <1>1, GotoEffect DEF PCs
<1>6. TypeOK'
  BY <1>1, <1>4, <1>5 DEF TypeOK
<1>7. Stage(c)' /\ Sight(c)'
  BY <1>1, <1>2, <1>4, <1>5 DEF Stage, Sight, Landed, Live
<1>8. Running(c) /\ Hot(c) /\ ~Settled(c) /\ v.state \notin Live
  BY <1>1, <1>2 DEF Running, Hot, Settled, Live
<1> QED BY <1>1, <1>4, <1>5, <1>6, <1>7, <1>8 DEF Local

(* AWS on an RI whose call it leaves alone.                                *)
LEMMA ServerLocal ==
    ASSUME Inv, NEW c \in Calls, NEW v \in RIRecords,
           UNCHANGED <<contract, pc, token, requested, ended, tries, result, commit, verdict, now>>,
           ri' = [ri EXCEPT ![c] = v],
           ri[c].state \in {"inflight"} \cup Landed, v.state \in Landed \cup {"rejected"},
           ri[c].state \in Landed => v.state \in Landed /\ v.start = ri[c].start,
           ri[c].state \notin Live => v.state \notin Live \/ ri[c].state = "inflight",
           v.tag = ri[c].tag, ri[c].listed => v.listed, v.listed => v.state \in Landed,
           ri[c].state = "inflight" => v.state = "rejected" \/ v.start >= requested[c] - Drift
    PROVE  TypeOK' /\ Local(c)
<1>1. TypeOK /\ Stage(c) /\ Sight(c) /\ ri[c].state # "none"
  BY DEF Inv, Landed, Live
<1>2. /\ ri' \in [Calls -> RIRecords] /\ ri'[c] = v
      /\ \A d \in Calls \ {c} : ri'[d] = ri[d]
  BY <1>1, WriteRI
<1>3. TypeOK'
  BY <1>1, <1>2 DEF TypeOK
<1>4. pc[c] \notin {"idle", "lookup", "offer", "send"} /\ result[c] # "existing"
      /\ result[c] \notin {"error", "refused"}
  BY <1>1 DEF Stage, Landed, Live
<1>5. Stage(c)'
  BY <1>1, <1>2, <1>4 DEF Stage
<1>6. v.state \in Landed => v.start >= requested[c] - Drift
  <2>1. ri[c].state \in Landed \/ ri[c].state = "inflight"
    OBVIOUS
  <2>2. "rejected" \notin Landed
    BY DEF Landed, Live
  <2> QED BY <1>1, <2>1, <2>2 DEF Sight
<1>7. Sight(c)'
  BY <1>1, <1>2, <1>6 DEF Sight
<1>8. Hot(c)' => Hot(c)
  BY <1>2 DEF Hot, Landed, Live
<1>9. Settled(c) => Settled(c)'
  BY <1>1, <1>2 DEF Settled, Running
<1>10. Running(c)' => Running(c)
  BY DEF Running
<1> QED BY <1>1, <1>2, <1>3, <1>4, <1>5, <1>7, <1>8, <1>9, <1>10 DEF Local

LEMMA ProcessLocal ==
    ASSUME Inv, NEW c \in Calls, Process(c), UNCHANGED contract
    PROVE  TypeOK' /\ Local(c)
<1>1. /\ ri[c] \in RIRecords /\ ri[c].state = "inflight" /\ now \in 0..MaxTime
      /\ UNCHANGED <<contract, pc, token, requested, ended, tries, result, commit, verdict, now>>
      /\ ri[c].state \notin Landed /\ ~ri[c].listed
      /\ requested[c] <= now /\ requested[c] \in 0..MaxTime
  <2>1. TypeOK /\ Stage(c) /\ Sight(c) /\ ri[c].state = "inflight"
    BY DEF Inv, Process
  <2>2. pc[c] # "idle" /\ ri[c].state \notin Landed
    BY <2>1 DEF Stage, Landed, Live
  <2> QED BY <2>1, <2>2 DEF Process, call, TypeOK, Sight
<1>2. CASE ri' = [ri EXCEPT ![c].state = "rejected"]
  <2> DEFINE v == [ri[c] EXCEPT !.state = "rejected"]
  <2>1. /\ v \in RIRecords /\ v.state = "rejected" /\ v.listed = ri[c].listed
        /\ v.tag = ri[c].tag /\ v.start = ri[c].start
    BY <1>1 DEF RIRecords
  <2>2. ri' = [ri EXCEPT ![c] = v]
    BY <1>2
  <2> HIDE DEF v
  <2> QED BY <1>1, <2>1, <2>2, ServerLocal
<1>3. ASSUME NEW d \in -Drift..Drift,
             ri' = [ri EXCEPT ![c] = [@ EXCEPT !.state = "live", !.start = now + d]]
      PROVE  TypeOK' /\ Local(c)
  <2> DEFINE v == [ri[c] EXCEPT !.state = "live", !.start = now + d]
  <2>1. now + d \in Times /\ now + d >= requested[c] - Drift
    BY <1>1 DEF Times
  <2>2. /\ v \in RIRecords /\ v.state = "live" /\ v.listed = ri[c].listed
        /\ v.tag = ri[c].tag /\ v.start = now + d
    BY <1>1, <2>1 DEF RIRecords, Landed, Live
  <2>3. ri' = [ri EXCEPT ![c] = v]
    BY <1>3
  <2> HIDE DEF v
  <2>4. v.state \in Landed
    BY <2>2 DEF Landed, Live
  <2> QED BY <1>1, <2>1, <2>2, <2>3, <2>4, ServerLocal
<1> QED BY <1>2, <1>3 DEF Process

LEMMA ListRetireLocal ==
    ASSUME Inv, NEW c \in Calls, List(c) \/ Retire(c), UNCHANGED contract
    PROVE  TypeOK' /\ Local(c)
<1>1. /\ ri[c] \in RIRecords /\ ri[c].state \in Landed /\ ri[c].state # "inflight"
      /\ UNCHANGED <<contract, pc, token, requested, ended, tries, result, commit, verdict, now>>
  BY DEF Inv, TypeOK, List, Retire, Landed, Live, call
<1>2. CASE List(c)
  <2> DEFINE v == [ri[c] EXCEPT !.listed = TRUE]
  <2>1. /\ v \in RIRecords /\ v.state = ri[c].state /\ v.listed
        /\ v.tag = ri[c].tag /\ v.start = ri[c].start
    BY <1>1 DEF RIRecords
  <2>2. ri' = [ri EXCEPT ![c] = v]
    BY <1>2 DEF List
  <2> HIDE DEF v
  <2> QED BY <1>1, <2>1, <2>2, ServerLocal
<1>3. CASE Retire(c)
  <2> DEFINE v == [ri[c] EXCEPT !.state = "retired"]
  <2>1. /\ v \in RIRecords /\ v.state = "retired" /\ v.listed = ri[c].listed
        /\ v.tag = ri[c].tag /\ v.start = ri[c].start
    BY <1>1 DEF RIRecords, Landed
  <2>2. ri' = [ri EXCEPT ![c] = v]
    BY <1>3 DEF Retire
  <2> HIDE DEF v
  <2>3. v.state \in Landed /\ v.state \notin Live
    BY <2>1 DEF Landed, Live
  <2> QED BY <1>1, <2>1, <2>2, <2>3, ServerLocal
<1> QED BY <1>2, <1>3

LEMMA TagLocal ==
    ASSUME Inv, NEW c \in Calls, Tag(c), UNCHANGED contract
    PROVE  TypeOK' /\ Local(c)
<1>1. /\ pc[c] = "tag" /\ TypeOK /\ Stage(c) /\ Sight(c) /\ Running(c) /\ Hot(c) /\ ~Settled(c)
      /\ commit[c] = {} /\ result[c] = "none" /\ ri[c] \in RIRecords
      /\ UNCHANGED <<contract, token, requested, verdict, now>>
  BY NothingReported DEF Tag, Inv, Running, Hot, Settled, TypeOK
<1>2. ASSUME NEW v \in RIRecords, ri' = [ri EXCEPT ![c] = v], tries' = tries,
             v.state = ri[c].state, v.listed = ri[c].listed, v.start = ri[c].start,
             v.tag \in {ri[c].tag, token[c]}, Return(c, "success", {c})
      PROVE  TypeOK' /\ Local(c)
  <2>1. /\ ri' \in [Calls -> RIRecords] /\ ri'[c] = v
        /\ \A d \in Calls \ {c} : ri'[d] = ri[d]
    BY <1>1, <1>2, WriteRI
  <2>2. /\ pc' \in [Calls -> PCs] /\ ended' \in [Calls -> 0..MaxTime]
        /\ result' \in [Calls -> Results] /\ commit' \in [Calls -> SUBSET Calls]
        /\ pc'[c] = "done" /\ result'[c] = "success" /\ commit'[c] = {c}
        /\ \A d \in Calls \ {c} :
              pc'[d] = pc[d] /\ result'[d] = result[d] /\ commit'[d] = commit[d]
    <3>1. "success" \in Results /\ {c} \in SUBSET Calls
      BY DEF Results
    <3> QED BY <1>1, <1>2, <3>1, ReturnEffect
  <2>3. TypeOK'
    BY <1>1, <1>2, <2>1, <2>2 DEF TypeOK
  <2>4. Stage(c)' /\ Sight(c)'
    BY <1>1, <1>2, <2>1, <2>2 DEF Stage, Sight
  <2> QED BY <1>1, <1>2, <2>1, <2>2, <2>3, <2>4 DEF Local
<1>3. CASE /\ ri' = [ri EXCEPT ![c].tag = token[c]]
           /\ Return(c, "success", {c}) /\ UNCHANGED tries
  <2> DEFINE v == [ri[c] EXCEPT !.tag = token[c]]
  <2>1. /\ v \in RIRecords /\ v.state = ri[c].state /\ v.listed = ri[c].listed
        /\ v.start = ri[c].start /\ v.tag = token[c]
    BY <1>1 DEF RIRecords, TypeOK
  <2>2. ri' = [ri EXCEPT ![c] = v]
    BY <1>3
  <2> HIDE DEF v
  <2> QED BY <1>2, <1>3, <2>1, <2>2
<1>4. CASE Return(c, "success", {c}) /\ UNCHANGED <<tries, ri>>
  <2>1. ri' = [ri EXCEPT ![c] = ri[c]]
    BY <1>1, <1>4 DEF TypeOK
  <2> QED BY <1>1, <1>2, <1>4, <2>1
<1>5. CASE /\ tries[c] + 1 < TagAttempts /\ tries' = [tries EXCEPT ![c] = tries[c] + 1]
           /\ UNCHANGED <<pc, ended, result, commit, ri>>
  <2>1. tries' \in [Calls -> 0..(TagAttempts - 1)]
    BY <1>1, <1>5 DEF TypeOK
  <2>2. TypeOK'
    BY <1>1, <1>5, <2>1 DEF TypeOK
  <2>3. Stage(c)' /\ Sight(c)'
    BY <1>1, <1>5 DEF Stage, Sight
  <2> QED BY <1>1, <1>5, <2>2, <2>3 DEF Local
<1> QED BY <1>3, <1>4, <1>5 DEF Tag

-----------------------------------------------------------------------------
(* A dispatch: the call joins its lineage, and the documented caller has   *)
(* seen the others settled.                                                *)
LEMMA DispatchInv ==
    ASSUME Inv, NEW c \in Calls, NEW t \in AllTokens, Dispatch(c, t), UNCHANGED contract
    PROVE  Inv' /\ commit' = commit
<1>1. /\ TypeOK /\ Stage(c) /\ Sight(c) /\ pc[c] = "idle" /\ ri[c].state = "none"
      /\ token[c] = NoToken /\ commit[c] = {} /\ result[c] = "none"
      /\ UNCHANGED <<contract, tries, verdict, ri, now>>
  BY NothingReported DEF Dispatch, Inv, Stage
<1>2. PICK first \in 0..MaxTime :
        /\ requested' = [requested EXCEPT ![c] = first]
        /\ first <= now
        /\ \A d \in Calls : (token[d] = t /\ t \in Tokens) => requested[d] = first
  BY FirstDispatch
<1>3. /\ requested' \in [Calls -> 0..MaxTime] /\ requested'[c] = first
      /\ \A d \in Calls \ {c} : requested'[d] = requested[d]
  BY <1>1, <1>2 DEF TypeOK
<1>4. /\ token' \in [Calls -> AllTokens] /\ token'[c] = t
      /\ \A d \in Calls \ {c} : token'[d] = token[d]
  BY <1>1 DEF Dispatch, TypeOK
<1>5. /\ pc' \in [Calls -> PCs] /\ ended' \in [Calls -> 0..MaxTime]
      /\ result' \in [Calls -> Results] /\ commit' = commit
      /\ pc'[c] \in {"offer", "lookup", "done"}
      /\ pc'[c] = "lookup" => t # NoToken
      /\ pc'[c] = "offer" => t = NoToken
      /\ result'[c] = IF pc'[c] = "done" THEN "refused" ELSE "none"
      /\ \A d \in Calls \ {c} : pc'[d] = pc[d] /\ result'[d] = result[d]
  <2> DEFINE l == IF t = NoToken THEN "offer" ELSE "lookup"
  <2>1. CASE Goto(c, l) /\ UNCHANGED <<ended, result, commit>>
    <3>1. l \in PCs
      BY DEF PCs
    <3>2. pc' \in [Calls -> PCs] /\ pc'[c] = l /\ \A d \in Calls \ {c} : pc'[d] = pc[d]
      BY <1>1, <2>1, <3>1, GotoEffect
    <3> QED BY <1>1, <2>1, <3>2 DEF TypeOK
  <2>2. CASE Return(c, "refused", {})
    <3>1. "refused" \in Results /\ {} \in SUBSET Calls
      BY DEF Results
    <3>2. /\ pc' \in [Calls -> PCs] /\ ended' \in [Calls -> 0..MaxTime]
          /\ result' \in [Calls -> Results]
          /\ pc'[c] = "done" /\ result'[c] = "refused"
          /\ \A d \in Calls \ {c} : pc'[d] = pc[d] /\ result'[d] = result[d]
      BY <1>1, <2>2, <3>1, ReturnEffect
    <3>3. commit' = [commit EXCEPT ![c] = {}] /\ commit \in [Calls -> SUBSET Calls]
      BY <1>1, <2>2 DEF Return, TypeOK
    <3> QED BY <1>1, <3>2, <3>3
  <2> QED BY <2>1, <2>2 DEF Dispatch
<1>6. TypeOK'
  BY <1>1, <1>3, <1>4, <1>5 DEF TypeOK
<1>7. \A d \in Calls : Stage(d)' /\ Sight(d)'
  <2> TAKE d \in Calls
  <2>1. CASE d = c
    <3>1. ri[c].listed = FALSE /\ ri[c].tag = NoToken
      BY <1>1 DEF Sight, TypeOK, RIRecords, Landed, Live
    <3>2. ri'[c] = ri[c] /\ ri[c].state \notin Landed
      BY <1>1 DEF Landed, Live
    <3>3. Stage(c)'
      BY <1>1, <1>4, <1>5, <3>2 DEF Stage, AllTokens
    <3>4. Sight(c)'
      BY <1>1, <1>2, <1>3, <1>4, <3>1, <3>2 DEF Sight
    <3> QED BY <2>1, <3>3, <3>4
  <2>2. CASE d # c
    <3>1. Stage(d) /\ Sight(d)
      BY DEF Inv
    <3> QED BY <1>1, <1>3, <1>4, <1>5, <2>2, <3>1 DEF Stage, Sight
  <2> QED BY <2>1, <2>2
<1>8. Lineage'
  <2> SUFFICES ASSUME NEW d \in Calls, NEW e \in Calls,
                      token'[d] = token'[e], token'[d] \in Tokens
               PROVE  requested'[d] = requested'[e]
    BY DEF Lineage
  <2>1. CASE d # c /\ e # c
    BY <1>3, <1>4, <2>1 DEF Inv, Lineage
  <2>2. CASE d = c \/ e = c
    BY <1>2, <1>3, <1>4, <2>2
  <2> QED BY <2>1, <2>2
<1>9. Exclusive'
  <2> SUFFICES ASSUME contract, NEW d \in Calls, NEW e \in Calls, d # e,
                      token'[d] = token'[e], token'[d] \in Tokens
               PROVE  (Running(d)' => Settled(e)') /\ ~(Hot(d)' /\ Hot(e)')
    BY <1>1 DEF Exclusive
  <2>1. \A x \in Calls \ {c} : (Running(x)' <=> Running(x)) /\ (Settled(x)' <=> Settled(x))
                               /\ (Hot(x)' <=> Hot(x))
    BY <1>1, <1>4, <1>5 DEF Running, Settled, Hot
  <2>2. CASE d # c /\ e # c
    BY <1>4, <2>1, <2>2 DEF Inv, Exclusive
  <2>3. CASE d = c \/ e = c
    <3>1. t \in Tokens /\ MayDispatch(t) /\ ~Hot(c)'
      <4>1. t \in Tokens
        BY <1>4, <2>3
      <4> QED BY <1>1, <1>5, <4>1 DEF Dispatch, Hot, Live
    <3>2. \A x \in Calls \ {c} : token[x] = t => Settled(x)
      <4> TAKE x \in Calls \ {c}
      <4> HAVE token[x] = t
      <4>1. pc[x] # "idle"
        BY <3>1 DEF Inv, Stage
      <4> QED BY <3>1, <4>1 DEF MayDispatch, Settled
    <3>3. \A x \in Calls \ {c} : Settled(x) => ~Running(x)
      BY DEF Settled
    <3> QED BY <1>4, <2>1, <2>3, <3>1, <3>2, <3>3
  <2> QED BY <2>2, <2>3
<1>10. OwnReport'
  <2> SUFFICES ASSUME NEW d \in Calls, NEW r \in commit[d]
               PROVE  pc'[d] = "done" /\ pc'[r] # "idle" /\ token'[r] = token'[d]
    BY <1>5 DEF OwnReport
  <2>1. r \in Calls /\ pc[d] = "done" /\ pc[r] # "idle" /\ token[r] = token[d]
    BY DEF Inv, TypeOK, OwnReport
  <2>2. d # c /\ r # c
    BY <1>1, <2>1
  <2> QED BY <1>4, <1>5, <2>1, <2>2
<1> QED BY <1>5, <1>6, <1>7, <1>8, <1>9, <1>10 DEF Inv

(* What a listing shows, and what of it fits, when some fields are omitted. *)
Listing == {n \in Calls : ri[n].listed}
Fits(c, omits, f) == {n \in Listing : RIFit(c, n, n \in omits) = f}
Answer(found) == {[id |-> n, tagged |-> ri[n].tag # NoToken] : n \in found}

LEMMA ReconcileEffect ==
    ASSUME NEW c \in Calls, Reconcile(c)
    PROVE  \E omits \in SUBSET Listing :
              \E found \in Decide(Fits(c, omits, "match"), Fits(c, omits, "uncertain")) :
                 verdict' = [verdict EXCEPT ![c] = Answer(found)]
<1> DEFINE All == IF OmitsFields THEN SUBSET Listing ELSE {{}}
<1>1. \E omits \in All :
        \E found \in Decide(Fits(c, omits, "match"), Fits(c, omits, "uncertain")) :
           verdict' = [verdict EXCEPT ![c] = Answer(found)]
  BY Zenon DEF Reconcile, Fits, Listing, Answer
<1>2. All \subseteq SUBSET Listing
  OBVIOUS
<1> QED BY <1>1, <1>2, Zenon

(* A reconciliation writes its verdict, the clock its time.                *)
LEMMA ObserverInv ==
    ASSUME Inv, UNCHANGED contract, Tick \/ \E c \in Calls : Reconcile(c)
    PROVE  Inv' /\ UNCHANGED <<token, commit, ri>>
<1>1. UNCHANGED <<contract, pc, token, requested, ended, tries, result, commit, ri>>
  BY DEF Tick, Reconcile, call
<1>2. now \in 0..MaxTime /\ now' \in 0..MaxTime /\ now' >= now
  BY DEF Inv, TypeOK, Tick, Reconcile
<1>3. verdict' \in [Calls -> SUBSET [id : Calls, tagged : BOOLEAN]]
  <2>1. verdict \in [Calls -> SUBSET [id : Calls, tagged : BOOLEAN]]
    BY DEF Inv, TypeOK
  <2>2. CASE Tick
    BY <2>1, <2>2 DEF Tick
  <2>3. ASSUME NEW c \in Calls, Reconcile(c)
        PROVE  verdict' \in [Calls -> SUBSET [id : Calls, tagged : BOOLEAN]]
    <3>1. PICK found \in SUBSET Calls :
            verdict' = [verdict EXCEPT ![c] = Answer(found)]
      <4>1. PICK omits \in SUBSET Listing :
              \E found \in Decide(Fits(c, omits, "match"), Fits(c, omits, "uncertain")) :
                 verdict' = [verdict EXCEPT ![c] = Answer(found)]
        BY <2>3, ReconcileEffect
      <4>2. Fits(c, omits, "match") \in SUBSET Calls
        BY DEF Fits, Listing
      <4>3. Decide(Fits(c, omits, "match"), Fits(c, omits, "uncertain")) \subseteq SUBSET Calls
        BY <4>2 DEF Decide
      <4> QED BY <4>1, <4>3
    <3>2. Answer(found) \in SUBSET [id : Calls, tagged : BOOLEAN]
      <4>1. ASSUME NEW n \in found
            PROVE  [id |-> n, tagged |-> ri[n].tag # NoToken] \in [id : Calls, tagged : BOOLEAN]
        <5>1. n \in Calls /\ (ri[n].tag # NoToken) \in BOOLEAN
          BY <3>1
        <5> QED BY <5>1, Zenon
      <4> QED BY <4>1 DEF Answer
    <3> QED BY <2>1, <3>1, <3>2
  <2> QED BY <2>2, <2>3
<1>4. TypeOK'
  BY <1>1, <1>2, <1>3 DEF Inv, TypeOK
<1>5. \A c \in Calls : Stage(c)' /\ Sight(c)'
  <2> TAKE c \in Calls
  <2>1. Stage(c) /\ Sight(c) /\ requested[c] \in 0..MaxTime
    BY DEF Inv, TypeOK
  <2> QED BY <1>1, <1>2, <2>1 DEF Stage, Sight
<1>6. Lineage' /\ Exclusive' /\ OwnReport'
  BY <1>1 DEF Inv, Lineage, Exclusive, OwnReport, Running, Settled, Hot
<1> QED BY <1>1, <1>4, <1>5, <1>6 DEF Inv

-----------------------------------------------------------------------------
(* The refinement.  What the abstract purchase sees of the calls.          *)
LiveRIs ==
    [t \in Tokens |-> {c \in Calls : contract /\ ri[c].state \in Live /\ token[c] = t}]
Reported ==
    [t \in Tokens |-> UNION {commit[c] : c \in {d \in Calls : contract /\ token[d] = t}}]

(* The steps of the promise, as changes of what it sees.                   *)
LEMMA BuyStep ==
    ASSUME NEW t \in Tokens, NEW n \in Calls,
           LiveRIs[t] = {}, \A u \in Tokens : n \notin LiveRIs[u],
           LiveRIs' = [LiveRIs EXCEPT ![t] = {n}], Reported' = Reported
    PROVE  Promise!Next
<1>1. Promise!Buy(t, n)
  BY DEF Promise!Buy, LiveRIs, Reported
<1> QED BY <1>1 DEF Promise!Next

LEMMA LapseStep ==
    ASSUME NEW t \in Tokens, NEW n \in Calls, n \in LiveRIs[t],
           LiveRIs' = [LiveRIs EXCEPT ![t] = @ \ {n}], Reported' = Reported
    PROVE  Promise!Next
<1>1. Promise!Lapse(t, n)
  BY DEF Promise!Lapse, LiveRIs, Reported
<1> QED BY <1>1 DEF Promise!Next

LEMMA ReportStep ==
    ASSUME NEW t \in Tokens, NEW n \in Calls,
           \A u \in Tokens \ {t} : n \notin Reported[u],
           Reported' = [Reported EXCEPT ![t] = @ \cup {n}], LiveRIs' = LiveRIs
    PROVE  Promise!Next
<1>1. Promise!Report(t, n)
  BY DEF Promise!Report, LiveRIs, Reported
<1> QED BY <1>1 DEF Promise!Next

(* A step of one call reports, buys, lapses, or shows nothing.             *)
LEMMA LocalRefines ==
    ASSUME Inv, TypeOK', NEW c \in Calls, Local(c)
    PROVE  Promise!Next \/ UNCHANGED <<LiveRIs, Reported>>
<1>0. contract' = contract /\ token' = token
  BY DEF Local
<1>1. CASE ~contract \/ token[c] \notin Tokens
  <2>1. \A t \in Tokens : {d \in Calls : contract /\ ri'[d].state \in Live /\ token[d] = t} = LiveRIs[t]
    BY <1>1 DEF LiveRIs, Local
  <2>2. \A t \in Tokens :
          UNION {commit'[d] : d \in {e \in Calls : contract /\ token[e] = t}} = Reported[t]
    BY <1>1 DEF Reported, Local
  <2>3. LiveRIs' = LiveRIs
    BY <1>0, <2>1 DEF LiveRIs
  <2>4. Reported' = Reported
    BY <1>0, <2>2 DEF Reported
  <2> QED BY <2>3, <2>4
<1>2. CASE contract /\ token[c] \in Tokens /\ commit'[c] # commit[c]
  <2>1. PICK q \in Calls : commit'[c] = {q} /\ token[q] = token[c] /\ pc[q] # "idle"
    BY <1>2 DEF Local
  <2>2. commit[c] = {} /\ (ri'[c].state \in Live) = (ri[c].state \in Live)
    BY <1>2 DEF Local
  <2>3. LiveRIs' = LiveRIs
    BY <1>0, <2>2 DEF LiveRIs, Local
  <2>4. \A u \in Tokens \ {token[c]} : q \notin Reported[u]
    BY <2>1 DEF Reported, Inv, OwnReport
  <2>5. \A u \in Tokens :
          UNION {commit'[d] : d \in {e \in Calls : contract /\ token[e] = u}} =
            IF u = token[c] THEN Reported[u] \cup {q} ELSE Reported[u]
    BY <1>2, <2>1, <2>2 DEF Reported, Local
  <2>6. Reported' = [Reported EXCEPT ![token[c]] = @ \cup {q}]
    <3>1. Reported' = [u \in Tokens |->
                         UNION {commit'[d] : d \in {e \in Calls : contract /\ token[e] = u}}]
      BY <1>0 DEF Reported
    <3>2. Reported = [u \in Tokens |-> Reported[u]]
      BY DEF Reported
    <3> QED BY <2>5, <3>1, <3>2
  <2> QED BY <1>2, <2>3, <2>4, <2>6, ReportStep
<1>3. CASE contract /\ token[c] \in Tokens /\ commit'[c] = commit[c]
  <2>1. Reported' = Reported
    <3>1. \A d \in Calls : commit'[d] = commit[d]
      BY <1>3 DEF Local
    <3> QED BY <1>0, <3>1 DEF Reported
  <2>2. CASE (ri'[c].state \in Live) = (ri[c].state \in Live)
    <3>1. LiveRIs' = LiveRIs
      BY <1>0, <2>2 DEF LiveRIs, Local
    <3> QED BY <2>1, <3>1
  <2>3. CASE ri'[c].state \in Live /\ ri[c].state \notin Live
    <3>1. Hot(c)
      BY <2>3 DEF Local, Hot
    <3>2. \A d \in Calls : token[d] = token[c] => ri[d].state \notin Live
      BY <1>3, <2>3, <3>1 DEF Inv, Exclusive, Hot
    <3>3. LiveRIs[token[c]] = {} /\ \A u \in Tokens : c \notin LiveRIs[u]
      BY <1>3, <2>3, <3>2 DEF LiveRIs
    <3>4. \A u \in Tokens :
            {d \in Calls : contract /\ ri'[d].state \in Live /\ token[d] = u} =
              IF u = token[c] THEN {c} ELSE LiveRIs[u]
      BY <1>3, <2>3, <3>2 DEF LiveRIs, Local
    <3>5. LiveRIs' = [LiveRIs EXCEPT ![token[c]] = {c}]
      BY <1>0, <3>4 DEF LiveRIs
    <3> QED BY <1>3, <2>1, <3>3, <3>5, BuyStep
  <2>4. CASE ri'[c].state \notin Live /\ ri[c].state \in Live
    <3>1. c \in LiveRIs[token[c]]
      BY <1>3, <2>4 DEF LiveRIs
    <3>2. \A u \in Tokens :
            {d \in Calls : contract /\ ri'[d].state \in Live /\ token[d] = u} =
              IF u = token[c] THEN LiveRIs[u] \ {c} ELSE LiveRIs[u]
      BY <1>3, <2>4 DEF LiveRIs, Local
    <3>3. LiveRIs' = [LiveRIs EXCEPT ![token[c]] = @ \ {c}]
      <4>1. LiveRIs' = [u \in Tokens |->
                          {d \in Calls : contract /\ ri'[d].state \in Live /\ token[d] = u}]
        BY <1>0 DEF LiveRIs
      <4>2. LiveRIs = [u \in Tokens |-> LiveRIs[u]]
        BY DEF LiveRIs
      <4> QED BY <3>2, <4>1, <4>2
    <3> QED BY <1>3, <2>1, <3>1, <3>3, LapseStep
  <2> QED BY <2>2, <2>3, <2>4
<1> QED BY <1>1, <1>2, <1>3

(* Nobody has bought or reported anything for a call that starts.          *)
LEMMA DispatchRefines ==
    ASSUME Inv, NEW c \in Calls, NEW t \in AllTokens, Dispatch(c, t), UNCHANGED contract,
           commit' = commit
    PROVE  UNCHANGED <<LiveRIs, Reported>>
<1>1. /\ ri' = ri /\ ri[c].state \notin Live /\ commit[c] = {}
      /\ \A d \in Calls \ {c} : token'[d] = token[d]
  BY NothingReported DEF Dispatch, Inv, Stage, Live, TypeOK
<1>2. \A u \in Tokens, d \in Calls :
        (ri[d].state \in Live /\ token'[d] = u) <=> (ri[d].state \in Live /\ token[d] = u)
  BY <1>1
<1>3. \A u \in Tokens :
        UNION {commit[d] : d \in {e \in Calls : contract /\ token'[e] = u}} = Reported[u]
  BY <1>1 DEF Reported
<1> QED BY <1>1, <1>2, <1>3 DEF LiveRIs, Reported

LEMMA StepRefines == Inv /\ [Next]_vars => Inv' /\ [Promise!Next]_<<LiveRIs, Reported>>
<1> SUFFICES ASSUME Inv, [Next]_vars
             PROVE  Inv' /\ (Promise!Next \/ UNCHANGED <<LiveRIs, Reported>>)
  OBVIOUS
<1>1. ASSUME NEW c \in Calls, TypeOK' /\ Local(c)
      PROVE  Inv' /\ (Promise!Next \/ UNCHANGED <<LiveRIs, Reported>>)
  BY <1>1, LocalInv, LocalRefines
<1>2. CASE UNCHANGED contract /\ \E c \in Calls, t \in AllTokens : Dispatch(c, t)
  BY <1>2, DispatchInv, DispatchRefines
<1>3. CASE UNCHANGED contract /\ \E c \in Calls : CallStep(c) \/ Crash(c)
  BY <1>1, <1>3, FindLocal, ResolveLocal, SendLocal, AwaitLocal, TagLocal, CrashLocal
     DEF CallStep
<1>4. CASE UNCHANGED contract /\ \E n \in Calls : Process(n) \/ List(n) \/ Retire(n)
  BY <1>1, <1>4, ProcessLocal, ListRetireLocal
<1>5. CASE UNCHANGED contract /\ (Tick \/ \E c \in Calls : Reconcile(c))
  <2>1. Inv' /\ UNCHANGED <<token, commit, ri>>
    BY <1>5, ObserverInv
  <2> QED BY <1>5, <2>1 DEF LiveRIs, Reported
<1>6. CASE UNCHANGED vars
  BY <1>6 DEF vars, Inv, TypeOK, Stage, Sight, Lineage, Exclusive, OwnReport, Running,
              Settled, Hot, LiveRIs, Reported
<1> QED BY <1>2, <1>3, <1>4, <1>5, <1>6 DEF Next, Step

LEMMA InitRefines == Init => Inv /\ Promise!Init
<1> SUFFICES ASSUME Init PROVE Inv /\ Promise!Init OBVIOUS
<1>1. \A c \in Calls : /\ pc[c] = "idle" /\ token[c] = NoToken /\ result[c] = "none"
                       /\ commit[c] = {} /\ requested[c] = 0 /\ ri[c].state = "none"
                       /\ ri[c].listed = FALSE /\ ri[c].tag = NoToken
  BY DEF Init
<1>2. [state |-> "none", start |-> 0, listed |-> FALSE, tag |-> NoToken] \in RIRecords
  BY DEF RIRecords, Times, AllTokens
<1>3. TypeOK
  BY <1>2 DEF Init, TypeOK, PCs, Results, AllTokens
<1>4. \A c \in Calls : Stage(c) /\ Sight(c)
  BY <1>1 DEF Stage, Sight, Landed, Live
<1>5. Lineage /\ Exclusive /\ OwnReport
  BY <1>1 DEF Lineage, Exclusive, OwnReport
<1>6. LiveRIs = [t \in Tokens |-> {}] /\ Reported = [t \in Tokens |-> {}]
  BY <1>1 DEF LiveRIs, Reported, Live
<1> QED BY <1>3, <1>4, <1>5, <1>6 DEF Inv, Promise!Init, LiveRIs, Reported

LEMMA InvHolds == Spec => []Inv
BY InitRefines, StepRefines, PTL DEF Spec

(* Type correctness of the calls, the RIs AWS holds and the verdicts.      *)
THEOREM TypeCorrect == Spec => []TypeOK
<1>1. Inv => TypeOK BY DEF Inv
<1> QED BY <1>1, InvHolds, PTL

(* An error that PurchaseCommitment does not mark ErrOutcomeUnknown bought *)
(* nothing and never will, whatever the caller does (outcome.go).          *)
THEOREM UnmarkedIsSafe == Spec => []UnmarkedMeansNothingBought
<1>1. Inv => UnmarkedMeansNothingBought
  BY DEF Inv, Stage, UnmarkedMeansNothingBought
<1> QED BY <1>1, InvHolds, PTL

(* EC2 purchases implement the promise of AtMostOncePurchase for a caller  *)
(* that re-drives a token only as ErrOutcomeUnknown documents: the tag     *)
(* lookup then sees whatever the token bought (findRIByIdempotencyToken).  *)
THEOREM ImplementsPromise == Spec => BuysAtMostOnce
BY InitRefines, StepRefines, PTL DEF Spec, BuysAtMostOnce, Promise!Spec, LiveRIs, Reported

-----------------------------------------------------------------------------
(* An RI of the call's lineage, listed and bought in time, is a match or   *)
(* in doubt, never ruled out: its start is in the window, its tag, if any, *)
(* is the lineage's, and its attributes are those asked for.               *)
LEMMA LineageFits ==
    ASSUME Inv, Drift <= ClockSkew, NEW c \in Calls, NEW n \in Calls, NEW omitted \in BOOLEAN,
           ri[n].listed, token[n] = token[c], token[c] \in Tokens,
           ri[n].start <= ended[c] + Drift
    PROVE  RIFit(c, n, omitted) \in {"match", "uncertain"}
<1>1. /\ requested[c] \in 0..MaxTime /\ ended[c] \in 0..MaxTime /\ ri[n].start \in Int
      /\ Sight(n) /\ requested[n] = requested[c]
  BY DEF Inv, TypeOK, RIRecords, Times, Lineage
<1>2. ri[n].start >= requested[c] - Drift /\ ri[n].tag \in {NoToken, token[c]}
  BY <1>1 DEF Sight
<1>3. InWindow(c, n)
  BY <1>1, <1>2 DEF InWindow
<1>4. AttrFit(c, n, omitted) \in {"match", "uncertain"}
  BY <1>3 DEF AttrFit
<1>5. CASE ri[n].tag = NoToken
  BY <1>4, <1>5 DEF RIFit
<1>6. CASE ri[n].tag = token[c]
  BY <1>4, <1>6 DEF RIFit
<1> QED BY <1>2, <1>5, <1>6

(* A verdict of Found names all the RIs that fit: there is one.            *)
LEMMA FoundIsAll ==
    ASSUME NEW c \in Calls, NEW omits \in SUBSET Listing,
           NEW found \in Decide(Fits(c, omits, "match"), Fits(c, omits, "uncertain")),
           NEW n \in Fits(c, omits, "match") \cup Fits(c, omits, "uncertain"),
           NEW f \in Answer(found)
    PROVE  n = f.id
<1> DEFINE matches == Fits(c, omits, "match")
<1>1. f.id \in found
  BY DEF Answer
<1>2. found = matches /\ Cardinality(matches) = 1 /\ Fits(c, omits, "uncertain") = {}
  BY <1>1 DEF Decide
<1>3. IsFiniteSet(matches)
  <2>1. matches \subseteq Calls
    BY DEF Fits, Listing
  <2> QED BY <2>1, FS_Subset
<1>4. PICK x : matches = {x}
  BY <1>2, <1>3, FS_Singleton
<1> QED BY <1>1, <1>2, <1>4

(* A Found verdict of ReconcilePurchase passes over no listed RI of the    *)
(* lineage bought before the attempt ended, as long as the window's slack  *)
(* covers the drift of the AWS clock (ReconcileWindow, riFit, Decide).     *)
THEOREM FoundIsComplete ==
    ASSUME Drift <= ClockSkew
    PROVE  Spec => FoundPassesOverNothing
<1> DEFINE Complete(c) ==
        \A f \in verdict'[c] : verdict'[c] # verdict[c] =>
            \A n \in Calls :
               (/\ ri[n].listed /\ token[n] = token[c] /\ token[c] # NoToken
                /\ ri[n].start <= ended[c] + Drift) => n = f.id
<1>1. ASSUME Inv, [Next]_vars, NEW c \in Calls PROVE Complete(c)
  <2>1. CASE verdict' = verdict
    BY <2>1
  <2>2. ASSUME NEW d \in Calls \ {c}, Reconcile(d) PROVE Complete(c)
    <3>1. verdict'[c] = verdict[c]
      BY <2>2, ReconcileEffect, <1>1 DEF Inv, TypeOK
    <3> QED BY <3>1
  <2>3. CASE Reconcile(c)
    <3> SUFFICES ASSUME NEW f \in verdict'[c], NEW n \in Calls,
                        ri[n].listed, token[n] = token[c], token[c] # NoToken,
                        ri[n].start <= ended[c] + Drift
                 PROVE  n = f.id
      OBVIOUS
    <3>1. PICK omits \in SUBSET Listing :
            \E found \in Decide(Fits(c, omits, "match"), Fits(c, omits, "uncertain")) :
               verdict' = [verdict EXCEPT ![c] = Answer(found)]
      BY <2>3, ReconcileEffect
    <3>2. PICK found \in Decide(Fits(c, omits, "match"), Fits(c, omits, "uncertain")) :
             verdict' = [verdict EXCEPT ![c] = Answer(found)]
      BY <3>1
    <3>3. f \in Answer(found)
      BY <1>1, <3>2 DEF Inv, TypeOK
    <3>4. token[c] \in Tokens /\ (n \in omits) \in BOOLEAN
      BY <1>1 DEF Inv, TypeOK, AllTokens
    <3>5. RIFit(c, n, n \in omits) \in {"match", "uncertain"}
      BY <1>1, <3>4, LineageFits
    <3>6. n \in Fits(c, omits, "match") \cup Fits(c, omits, "uncertain")
      BY <3>5 DEF Fits, Listing
    <3> QED BY <3>2, <3>3, <3>6, FoundIsAll
  <2>4. verdict' = verdict \/ \E d \in Calls : Reconcile(d)
    BY <1>1 DEF Next, Step, vars, Dispatch, CallStep, FindByToken, ResolveOffering, Send,
                AwaitPurchase, Tag, Crash, Process, List, Retire, Tick
  <2> QED BY <2>1, <2>2, <2>3, <2>4
<1>2. Inv /\ [Next]_vars => [\A c \in Calls : Complete(c)]_vars
  BY <1>1
<1> QED BY <1>2, InvHolds, PTL DEF Spec, FoundPassesOverNothing
=============================================================================
