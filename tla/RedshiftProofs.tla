--------------------------- MODULE RedshiftProofs ---------------------------
(***************************************************************************)
(* Proofs about RedshiftPurchase for every set of calls, executions,       *)
(* tokens and offerings.  Whatever the caller does: types, and with a      *)
(* journal an execution sends at most one purchase request, every purchase *)
(* is covered by a record and every success is recorded.  Under the caller *)
(* contract: a token owns at most one node and, with a claim reader, the   *)
(* client implements AtMostOncePurchase.                                   *)
(***************************************************************************)
EXTENDS RedshiftPurchase, TLAPS

LEMMA PriorAttemptsType ==
    ASSUME TypeOK, NEW t PROVE PriorAttempts(t) \in SUBSET AttemptRecords
BY DEF PriorAttempts, TypeOK

LEMMA MatchingNodesType ==
    ASSUME NEW c \in Calls, NEW m \in MatchingNodes(c) PROVE m \subseteq Calls
BY DEF MatchingNodes

LEMMA AttemptType ==
    ASSUME TypeOK, NEW c \in Calls, Started(c), NEW n \in Calls \cup {NoNode},
           NEW st \in AttemptStates
    PROVE  /\ Attempt(c, st, n) \in AttemptRecords
           /\ Attempt(c, st, n).exec = exec[c]
           /\ Attempt(c, st, n).state = st
           /\ exec[c] \in Executions
BY DEF Attempt, AttemptRecords, TypeOK

(* A journal write, successful or not, keeps the journal well formed.      *)
LEMMA WriteType ==
    ASSUME TypeOK, NEW c \in Calls, Started(c), NEW n \in Calls \cup {NoNode},
           NEW st \in AttemptStates,
           NotDurable(Attempt(c, st, n)) \/ Committed(Attempt(c, st, n))
    PROVE  /\ journal' \in [Executions -> AttemptRecords]
           /\ \A e \in Executions : journal'[e].exec = e
<1> DEFINE rec == Attempt(c, st, n)
<1>1. rec \in AttemptRecords /\ rec.exec = exec[c] /\ exec[c] \in Executions
  BY AttemptType
<1>2. CASE UNCHANGED journal
  BY <1>2 DEF TypeOK
<1>3. CASE Committed(rec)
  <2> HIDE DEF rec
  <2>1. journal' = [journal EXCEPT ![rec.exec] = rec]
    BY <1>3 DEF Committed
  <2> QED BY <2>1, <1>1 DEF TypeOK
<1> QED BY <1>2, <1>3 DEF NotDurable

LEMMA RecordedType ==
    ASSUME TypeOK, NEW c \in Calls
    PROVE  RecordedReservationIDs(priors[c]) \subseteq Calls \cup {NoNode}
<1>1. \A p \in AttemptRecords : p.node \in Calls \cup {NoNode}
  BY DEF AttemptRecords
<1> QED BY <1>1 DEF RecordedReservationIDs, TypeOK

(* What a call keeps for itself is well typed after every one of its steps.*)
LEMMA InitType == Init => TypeOK
<1> SUFFICES ASSUME Init PROVE TypeOK OBVIOUS
<1>1. journal \in [Executions -> AttemptRecords] /\ \A e \in Executions : journal[e].exec = e
  BY DEF Init, AttemptRecords, AttemptStates
<1>2. node \in [Calls -> NodeRecords]
  BY DEF Init, NodeRecords
<1>3. /\ pc \in [Calls -> PCs] /\ \A c \in Calls : ~Started(c)
      /\ exec \in [Calls -> Executions \cup {NoExecution}]
      /\ offer \in [Calls -> Offerings \cup {NoOffering}]
  BY DEF Init, PCs, Started
<1>4. /\ priors \in [Calls -> SUBSET AttemptRecords]
      /\ found \in [Calls -> SUBSET Calls] /\ commit \in [Calls -> SUBSET Calls]
  BY DEF Init
<1>5. /\ result \in [Calls -> Results]
      /\ request \in [Calls -> {"none", "inflight", "accepted", "rejected"}]
      /\ closed \subseteq Tokens /\ now \in Int /\ contract \in BOOLEAN
      /\ journaled \in BOOLEAN
  BY ConstantsAssumption DEF Init, Results, ConstantsAssumption
<1> QED BY <1>1, <1>2, <1>3, <1>4, <1>5 DEF TypeOK

(* Every step of the client, the caller and AWS keeps the         *)
(* variables well typed.                                                   *)
LEMMA NextType == TypeOK /\ [Next]_vars => TypeOK'
<1> SUFFICES ASSUME TypeOK, [Next]_vars PROVE TypeOK' OBVIOUS
<1>0. contract' = contract /\ journaled' = journaled
  BY DEF Next, vars, caller
<1> USE <1>0 DEF PCs, Results, Goto, End, Forget, callVars, Started
<1>1. ASSUME NEW c \in Calls, ReadPriors(c) PROVE TypeOK'
  BY <1>1, PriorAttemptsType DEF TypeOK, ReadPriors
<1>2. ASSUME NEW c \in Calls, AdoptRecorded(c) PROVE TypeOK'
  BY <1>2, MatchingNodesType, RecordedType DEF TypeOK, AdoptRecorded
<1>3. ASSUME NEW c \in Calls, Scan(c) PROVE TypeOK'
  BY <1>3, MatchingNodesType DEF TypeOK, Scan
<1>4. ASSUME NEW c \in Calls, CheckClaims(c) PROVE TypeOK'
  BY <1>4 DEF TypeOK, CheckClaims, Adopt, Unclaimed
<1>5. ASSUME NEW c \in Calls, CheckApprovedUpfront(c) PROVE TypeOK'
  BY <1>5 DEF TypeOK, CheckApprovedUpfront
<1>6. ASSUME NEW c \in Calls, RecordSending(c) PROVE TypeOK'
  <2>1. journal' \in [Executions -> AttemptRecords] /\ \A e \in Executions : journal'[e].exec = e
    BY <1>6, WriteType DEF RecordSending, AttemptStates
  <2> QED BY <1>6, <2>1 DEF TypeOK, RecordSending
<1>7. ASSUME NEW c \in Calls, Send(c) PROVE TypeOK'
  BY <1>7 DEF TypeOK, Send
<1>8. ASSUME NEW c \in Calls, Await(c) PROVE TypeOK'
  BY <1>8 DEF TypeOK, Await, Adopt
<1>9. ASSUME NEW c \in Calls, Rescan(c) PROVE TypeOK'
  BY <1>9, MatchingNodesType DEF TypeOK, Rescan, NotAdopted
<1>10. ASSUME NEW c \in Calls, RecheckClaims(c) PROVE TypeOK'
  BY <1>10 DEF TypeOK, RecheckClaims, Adopt, NotAdopted
<1>11. ASSUME NEW c \in Calls, RecordPurchased(c) PROVE TypeOK'
  <2>1. PICK n \in commit[c] :
           /\ NotDurable(Attempt(c, "purchased", n)) \/ Committed(Attempt(c, "purchased", n))
           /\ pc[c] = "purchased"
           /\ End(c, "success") \/ End(c, "outcome_unknown")
           /\ UNCHANGED <<callVars, request, node, closed, now>>
    BY <1>11 DEF RecordPurchased
  <2>2. n \in Calls
    BY DEF TypeOK
  <2>3. journal' \in [Executions -> AttemptRecords] /\ \A e \in Executions : journal'[e].exec = e
    BY <2>1, <2>2, WriteType DEF AttemptStates
  <2> QED BY <2>1, <2>3 DEF TypeOK
<1>12. ASSUME NEW c \in Calls, RecordUnknown(c) PROVE TypeOK'
  <2>1. journal' \in [Executions -> AttemptRecords] /\ \A e \in Executions : journal'[e].exec = e
    BY <1>12, WriteType DEF RecordUnknown, AttemptStates
  <2> QED BY <1>12, <2>1 DEF TypeOK, RecordUnknown
<1>13. ASSUME NEW c \in Calls, Crash(c) PROVE TypeOK'
  BY <1>13 DEF TypeOK, Crash, Running
<1>14. ASSUME NEW c \in Calls, AwsStep(c) PROVE TypeOK'
  <2>1. CASE Provision(c)
    <3>1. PICK s \in (now - Skew)..(now + Skew) :
             node' = [node EXCEPT ![c] = [state |-> "owned", listed |-> FALSE,
                                          offering |-> offer[c], start |-> s]]
      BY <2>1 DEF Provision
    <3>2. s \in Int
      OBVIOUS
    <3>3. node' \in [Calls -> NodeRecords]
      BY <3>1, <3>2 DEF TypeOK, NodeRecords
    <3> QED BY <2>1, <3>3 DEF TypeOK, Provision
  <2>2. CASE Reject(c)
    BY <2>2 DEF TypeOK, Reject
  <2>3. CASE List(c)
    <3>0. [node[c] EXCEPT !.listed = TRUE] \in NodeRecords
      <4>1. node[c] \in NodeRecords
        BY DEF TypeOK
      <4> QED BY <4>1 DEF NodeRecords
    <3>1. node' \in [Calls -> NodeRecords]
      BY <2>3, <3>0 DEF TypeOK, List
    <3>2. UNCHANGED <<pc, callVars, result, request, journal, closed, now>>
      BY <2>3 DEF List
    <3> QED BY <3>1, <3>2 DEF TypeOK
  <2>4. CASE Lapse(c)
    <3>0. [node[c] EXCEPT !.state = "lapsed"] \in NodeRecords
      <4>1. node[c] \in NodeRecords
        BY DEF TypeOK
      <4> QED BY <4>1 DEF NodeRecords
    <3>1. node' \in [Calls -> NodeRecords]
      BY <2>4, <3>0 DEF TypeOK, Lapse
    <3>2. UNCHANGED <<pc, callVars, result, request, journal, closed, now>>
      BY <2>4 DEF Lapse
    <3> QED BY <3>1, <3>2 DEF TypeOK
  <2> QED BY <1>14, <2>1, <2>2, <2>3, <2>4 DEF AwsStep
<1>15. ASSUME NEW c \in Calls, NEW e \in Executions, NEW o \in Offerings, Dispatch(c, e, o)
       PROVE TypeOK'
  BY <1>15 DEF TypeOK, Dispatch
<1>16. ASSUME NEW t \in Tokens, Close(t) PROVE TypeOK'
  BY <1>16 DEF TypeOK, Close
<1>17. CASE Tick
  BY <1>17 DEF TypeOK, Tick
<1>18. CASE UNCHANGED vars
  BY <1>18 DEF TypeOK, vars
<1> QED
  BY <1>1, <1>2, <1>3, <1>4, <1>5, <1>6, <1>7, <1>8, <1>9, <1>10, <1>11, <1>12, <1>13,
     <1>14, <1>15, <1>16, <1>17, <1>18 DEF Next, Step, CallStep

(* The variables of the purchase client keep their types.                  *)
THEOREM TypeCorrect == Spec => []TypeOK
<1>1. Init => TypeOK
  BY InitType
<1>2. TypeOK /\ [Next]_vars => TypeOK'
  BY NextType
<1> QED BY <1>1, <1>2, PTL DEF Spec

-----------------------------------------------------------------------------
(* With a journal an execution sends once.                                 *)

(* The call holds the right to send, or has sent.                          *)
Sender(c) == pc[c] = "send" \/ request[c] # "none"

(* The inductive invariant: a sender is covered by its execution's record, *)
(* taken under the sender's offering, and the execution has no other; only *)
(* a call that sent owns a node.                                           *)
CoveredSender(c) ==
    Sender(c) => /\ Started(c)
                 /\ journal[exec[c]].state # "none"
                 /\ journal[exec[c]].offering = offer[c]

OneSender == \A c, d \in Calls : (Sender(c) /\ Sender(d) /\ exec[c] = exec[d]) => c = d

BoughtBySender(c) ==
    node[c].state # "none" => request[c] # "none" /\ node[c].offering = offer[c]

JournalInv ==
    /\ \A c \in Calls : CoveredSender(c)
    /\ OneSender
    /\ \A c \in Calls : BoughtBySender(c)

(* No record disappears and none changes its offering.                     *)
JournalGrows ==
    \A e \in Executions : journal[e].state # "none" =>
        journal'[e].state # "none" /\ journal'[e].offering = journal[e].offering

LEMMA WriteGrows ==
    ASSUME TypeOK, NEW c \in Calls, Started(c), NEW n \in Calls \cup {NoNode},
           NEW st \in AttemptStates,
           NotDurable(Attempt(c, st, n)) \/ Committed(Attempt(c, st, n))
    PROVE  JournalGrows
<1> DEFINE rec == Attempt(c, st, n)
<1>1. rec.exec = exec[c] /\ exec[c] \in Executions
  BY AttemptType
<1>2. CASE UNCHANGED journal
  BY <1>2 DEF JournalGrows
<1>3. CASE Committed(rec)
  <2> HIDE DEF rec
  <2>1. journal' = [journal EXCEPT ![rec.exec] = rec] /\ Allowed(journal[rec.exec], rec)
    BY <1>3 DEF Committed
  <2> QED BY <2>1, <1>1 DEF TypeOK, JournalGrows, Allowed
<1> QED BY <1>2, <1>3 DEF NotDurable

(* A step that gives no call the right to send keeps the invariant.        *)
LEMMA QuietStep ==
    ASSUME TypeOK, JournalInv, JournalGrows,
           UNCHANGED <<exec, offer, request>>,
           \A c \in Calls : pc'[c] = "send" => pc[c] = "send",
           \A c \in Calls : pc[c] # "idle" => pc'[c] # "idle",
           \A c \in Calls : node'[c].state # "none" =>
               node[c].state # "none" /\ node'[c].offering = node[c].offering
    PROVE  JournalInv'
<1>1. \A c \in Calls : Sender(c)' => Sender(c)
  BY DEF Sender
<1>2. \A c \in Calls : CoveredSender(c)'
  BY <1>1 DEF JournalInv, CoveredSender, Started, JournalGrows, TypeOK
<1>3. OneSender'
  BY <1>1 DEF JournalInv, OneSender
<1>4. \A c \in Calls : BoughtBySender(c)'
  BY DEF JournalInv, BoughtBySender
<1> QED BY <1>2, <1>3, <1>4 DEF JournalInv

LEMMA NextJournal ==
    ASSUME journaled, TypeOK, JournalInv, [Next]_vars PROVE JournalInv'
<1> USE DEF Goto, End, Forget, callVars
<1>1. ASSUME NEW c \in Calls, ReadPriors(c) PROVE JournalInv'
  BY <1>1, QuietStep DEF TypeOK, ReadPriors, JournalGrows
<1>2. ASSUME NEW c \in Calls, AdoptRecorded(c) PROVE JournalInv'
  BY <1>2, QuietStep DEF TypeOK, AdoptRecorded, JournalGrows
<1>3. ASSUME NEW c \in Calls, Scan(c) PROVE JournalInv'
  BY <1>3, QuietStep DEF TypeOK, Scan, JournalGrows
<1>4. ASSUME NEW c \in Calls, CheckClaims(c) PROVE JournalInv'
  BY <1>4, QuietStep DEF TypeOK, CheckClaims, Adopt, JournalGrows
<1>5. ASSUME NEW c \in Calls, CheckApprovedUpfront(c) PROVE JournalInv'
  BY <1>5, QuietStep DEF TypeOK, CheckApprovedUpfront, JournalGrows
<1>6. ASSUME NEW c \in Calls, RecordSending(c) PROVE JournalInv'
  <2> DEFINE rec == Attempt(c, "sending", NoNode)
  <2>1. JournalGrows
    BY <1>6, WriteGrows DEF RecordSending, AttemptStates, Started
  <2>2. CASE End(c, "refused")
    BY <1>6, <2>1, <2>2, QuietStep DEF TypeOK, RecordSending
  <2>3. CASE Committed(rec) /\ Goto(c, "send")
    <3>1. /\ rec.exec = exec[c] /\ rec.state = "sending" /\ rec.offering = offer[c]
          /\ exec[c] \in Executions
      BY <1>6, AttemptType DEF RecordSending, Started, AttemptStates, Attempt
    <3> HIDE DEF rec
    <3>2. journal[exec[c]].state = "none" /\ journal' = [journal EXCEPT ![exec[c]] = rec]
      BY <2>3, <3>1 DEF Committed, Allowed
    <3>3. UNCHANGED <<exec, offer, request, node>>
      BY <1>6 DEF RecordSending
    <3>4. \A d \in Calls : Sender(d) => exec[d] # exec[c]
      BY <3>2 DEF JournalInv, CoveredSender
    <3>5. \A d \in Calls : d # c => (Sender(d)' <=> Sender(d))
      BY <2>3, <3>3 DEF Sender, TypeOK
    <3>6. OneSender'
      BY <3>3, <3>4, <3>5 DEF OneSender, JournalInv
    <3>7. ASSUME NEW d \in Calls PROVE CoveredSender(d)'
      <4>1. CASE d = c
        BY <4>1, <2>3, <3>1, <3>2, <3>3 DEF CoveredSender, Started, TypeOK
      <4>2. CASE d # c
        BY <4>2, <2>1, <2>3, <3>3, <3>5 DEF CoveredSender, Started, TypeOK, JournalInv, JournalGrows
      <4> QED BY <4>1, <4>2
    <3>8. \A d \in Calls : BoughtBySender(d)'
      BY <3>3 DEF JournalInv, BoughtBySender
    <3> QED BY <3>6, <3>7, <3>8 DEF JournalInv
  <2> QED BY <1>6, <2>2, <2>3 DEF RecordSending
<1>7. ASSUME NEW c \in Calls, Send(c) PROVE JournalInv'
  <2>1. UNCHANGED <<exec, offer, node, journal>> /\ pc[c] = "send"
    BY <1>7 DEF Send
  <2>2. \A d \in Calls : Sender(d)' <=> Sender(d)
    BY <1>7 DEF Send, Sender, TypeOK
  <2>3. \A d \in Calls : Started(d) => Started(d)'
    BY <1>7 DEF Send, Started, TypeOK
  <2>4. \A d \in Calls : request[d] # "none" => request'[d] # "none"
    BY <1>7 DEF Send, TypeOK
  <2> QED BY <2>1, <2>2, <2>3, <2>4
          DEF JournalInv, CoveredSender, OneSender, BoughtBySender
<1>8. ASSUME NEW c \in Calls, Await(c) PROVE JournalInv'
  BY <1>8, QuietStep DEF TypeOK, Await, Adopt, JournalGrows
<1>9. ASSUME NEW c \in Calls, Rescan(c) PROVE JournalInv'
  BY <1>9, QuietStep DEF TypeOK, Rescan, NotAdopted, JournalGrows
<1>10. ASSUME NEW c \in Calls, RecheckClaims(c) PROVE JournalInv'
  BY <1>10, QuietStep DEF TypeOK, RecheckClaims, Adopt, NotAdopted, JournalGrows
<1>11. ASSUME NEW c \in Calls, RecordPurchased(c) PROVE JournalInv'
  <2>1. PICK n \in commit[c] :
           /\ NotDurable(Attempt(c, "purchased", n)) \/ Committed(Attempt(c, "purchased", n))
           /\ pc[c] = "purchased"
           /\ pc' = [pc EXCEPT ![c] = "done"]
           /\ UNCHANGED <<callVars, request, node, closed, now>>
    BY <1>11 DEF RecordPurchased
  <2>2. n \in Calls
    BY DEF TypeOK
  <2>3. JournalGrows
    BY <2>1, <2>2, WriteGrows DEF AttemptStates, Started
  <2> QED BY <2>1, <2>3, QuietStep DEF TypeOK
<1>12. ASSUME NEW c \in Calls, RecordUnknown(c) PROVE JournalInv'
  <2>1. JournalGrows
    BY <1>12, WriteGrows DEF RecordUnknown, AttemptStates, Started
  <2> QED BY <1>12, <2>1, QuietStep DEF TypeOK, RecordUnknown
<1>13. ASSUME NEW c \in Calls, Crash(c) PROVE JournalInv'
  BY <1>13, QuietStep DEF TypeOK, Crash, Running, JournalGrows
<1>14. ASSUME NEW c \in Calls, AwsStep(c) PROVE JournalInv'
  <2>1. CASE Provision(c)
    <3>1. PICK s \in (now - Skew)..(now + Skew) :
             node' = [node EXCEPT ![c] = [state |-> "owned", listed |-> FALSE,
                                          offering |-> offer[c], start |-> s]]
      BY <2>1 DEF Provision
    <3>2. UNCHANGED <<pc, exec, offer, journal>> /\ request[c] = "inflight"
          /\ request' = [request EXCEPT ![c] = "accepted"]
      BY <2>1 DEF Provision
    <3>3. \A d \in Calls : Sender(d)' <=> Sender(d)
      BY <3>2 DEF Sender, TypeOK
    <3>4. \A d \in Calls : BoughtBySender(d)'
      BY <3>1, <3>2 DEF JournalInv, BoughtBySender, TypeOK
    <3> QED BY <3>2, <3>3, <3>4 DEF JournalInv, CoveredSender, OneSender, Started
  <2>2. CASE Reject(c)
    <3>1. UNCHANGED <<pc, exec, offer, journal, node>> /\ request[c] = "inflight"
          /\ request' = [request EXCEPT ![c] = "rejected"]
      BY <2>2 DEF Reject
    <3>2. \A d \in Calls : Sender(d)' <=> Sender(d)
      BY <3>1 DEF Sender, TypeOK
    <3>3. \A d \in Calls : request[d] # "none" => request'[d] # "none"
      BY <3>1 DEF TypeOK
    <3> QED BY <3>1, <3>2, <3>3 DEF JournalInv, CoveredSender, OneSender, Started, BoughtBySender
  <2>3. CASE List(c)
    <3>1. node[c] \in NodeRecords
      BY DEF TypeOK
    <3> QED BY <2>3, <3>1, QuietStep DEF TypeOK, List, NodeRecords, JournalGrows
  <2>4. CASE Lapse(c)
    <3>1. node[c] \in NodeRecords
      BY DEF TypeOK
    <3> QED BY <2>4, <3>1, QuietStep DEF TypeOK, Lapse, NodeRecords, JournalGrows
  <2> QED BY <1>14, <2>1, <2>2, <2>3, <2>4 DEF AwsStep
<1>15. ASSUME NEW c \in Calls, NEW e \in Executions, NEW o \in Offerings, Dispatch(c, e, o)
       PROVE JournalInv'
  <2>1. /\ pc[c] = "idle" /\ (pc' = [pc EXCEPT ![c] = "priors"] \/ pc' = [pc EXCEPT ![c] = "done"])
        /\ exec' = [exec EXCEPT ![c] = e] /\ offer' = [offer EXCEPT ![c] = o]
        /\ UNCHANGED <<request, node, journal>>
    BY <1>15 DEF Dispatch
  <2>2. ~Sender(c) /\ ~Sender(c)'
    BY <2>1 DEF JournalInv, CoveredSender, Started, Sender, TypeOK
  <2>3. \A d \in Calls : d # c => /\ Sender(d)' <=> Sender(d)
                                 /\ exec'[d] = exec[d] /\ offer'[d] = offer[d]
                                 /\ Started(d)' <=> Started(d)
    BY <2>1 DEF Sender, Started, TypeOK
  <2>4. \A d \in Calls : Sender(d)' => d # c /\ Sender(d)
    BY <2>1, <2>2, <2>3 DEF Sender, TypeOK
  <2>5. \A d \in Calls : node[d].state # "none" => d # c
    BY <2>2 DEF JournalInv, BoughtBySender, Sender
  <2>6. \A d \in Calls : CoveredSender(d)'
    BY <2>1, <2>3, <2>4 DEF JournalInv, CoveredSender
  <2>7. OneSender'
    BY <2>1, <2>3, <2>4 DEF JournalInv, OneSender, Sender, TypeOK
  <2>8. \A d \in Calls : BoughtBySender(d)'
    BY <2>1, <2>3, <2>5 DEF JournalInv, BoughtBySender
  <2> QED BY <2>6, <2>7, <2>8 DEF JournalInv
<1>16. ASSUME NEW t \in Tokens, Close(t) PROVE JournalInv'
  BY <1>16, QuietStep DEF TypeOK, Close, JournalGrows
<1>17. CASE Tick
  BY <1>17, QuietStep DEF TypeOK, Tick, JournalGrows
<1>18. CASE UNCHANGED vars
  BY <1>18, QuietStep DEF TypeOK, vars, JournalGrows
<1> QED
  BY <1>1, <1>2, <1>3, <1>4, <1>5, <1>6, <1>7, <1>8, <1>9, <1>10, <1>11, <1>12, <1>13,
     <1>14, <1>15, <1>16, <1>17, <1>18 DEF Next, Step, CallStep

LEMMA InitJournal == Init => JournalInv
BY DEF Init, JournalInv, CoveredSender, OneSender, BoughtBySender, Sender

LEMMA JournalInvariant == Spec => [](TypeOK /\ (journaled => JournalInv))
<1>1. Init => TypeOK /\ (journaled => JournalInv)
  BY InitType, InitJournal
<1>2. TypeOK /\ (journaled => JournalInv) /\ [Next]_vars => (TypeOK /\ (journaled => JournalInv))'
  <2> SUFFICES ASSUME TypeOK, journaled => JournalInv, [Next]_vars
               PROVE  TypeOK' /\ (journaled' => JournalInv')
    OBVIOUS
  <2>1. journaled' = journaled
    BY DEF Next, vars, caller
  <2> QED BY <2>1, NextType, NextJournal
<1> QED BY <1>1, <1>2, PTL DEF Spec

(* With a journal, an execution sends at most one purchase request         *)
(* (recordSending), for any number of calls and whatever the caller does.  *)
THEOREM SendsOnce == Spec => []ExecutionSendsOnce
<1>1. TypeOK /\ (journaled => JournalInv) => ExecutionSendsOnce
  BY DEF JournalInv, OneSender, Sender, ExecutionSendsOnce
<1>2. Spec => [](TypeOK /\ (journaled => JournalInv))
  BY JournalInvariant
<1> QED BY <1>1, <1>2, PTL

(* With a journal, every node bought is covered by a record of its         *)
(* execution under the same offering.                                      *)
THEOREM BuysAreRecorded == Spec => []EveryBuyIsRecorded
<1>1. TypeOK /\ (journaled => JournalInv) => EveryBuyIsRecorded
  BY DEF JournalInv, CoveredSender, BoughtBySender, Sender, EveryBuyIsRecorded
<1>2. Spec => [](TypeOK /\ (journaled => JournalInv))
  BY JournalInvariant
<1> QED BY <1>1, <1>2, PTL
-----------------------------------------------------------------------------
(* A step of one call.                                                     *)

(* The request is sent by the call's one step from "send"; the node is of  *)
(* the call's offering and starts within the token's window.               *)
BeforeSend == {"idle", "priors", "recorded", "scan", "claims", "approve", "sending", "send"}

Bought(c) ==
    node[c].state # "none" =>
        /\ request[c] = "accepted" /\ node[c].offering = offer[c]
        /\ node[c].start >= RequestedAt[Token(c)] - Skew

Stage(c) ==
    /\ pc[c] \in BeforeSend => request[c] = "none"
    /\ pc[c] = "idle" => priors[c] = {} /\ found[c] = {} /\ commit[c] = {}
    /\ Started(c) => now >= RequestedAt[Token(c)]
    /\ Bought(c)

(* What every step of a running call leaves alone, whatever it reads,      *)
(* decides or writes to the journal.                                       *)
Local(c) ==
    /\ Running(c) /\ Started(c)'
    /\ UNCHANGED <<contract, journaled, exec, offer, node, closed, now>>
    /\ \A d \in Calls \ {c} :
         UNCHANGED <<pc[d], priors[d], found[d], commit[d], result[d], request[d]>>
    /\ request'[c] = request[c] \/ (pc[c] = "send" /\ request'[c] = "inflight" /\ pc'[c] = "await")
    /\ pc'[c] \in BeforeSend => pc[c] \in BeforeSend

LEMMA CallIsLocal ==
    ASSUME TypeOK, NEW c \in Calls, CallStep(c) \/ Crash(c), UNCHANGED caller
    PROVE  Local(c)
<1> USE DEF Goto, End, Forget, callVars, Running, Started, BeforeSend, caller
<1>1. CASE ReadPriors(c)
  BY <1>1 DEF ReadPriors, Local, TypeOK
<1>2. CASE AdoptRecorded(c)
  BY <1>2 DEF AdoptRecorded, Local, TypeOK
<1>3. CASE Scan(c)
  BY <1>3 DEF Scan, Local, TypeOK
<1>4. CASE CheckClaims(c)
  BY <1>4 DEF CheckClaims, Adopt, Local, TypeOK
<1>5. CASE CheckApprovedUpfront(c)
  BY <1>5 DEF CheckApprovedUpfront, Local, TypeOK
<1>6. CASE RecordSending(c)
  BY <1>6 DEF RecordSending, Local, TypeOK
<1>7. CASE Send(c)
  BY <1>7 DEF Send, Local, TypeOK
<1>8. CASE Await(c)
  BY <1>8 DEF Await, Adopt, Local, TypeOK
<1>9. CASE Rescan(c)
  BY <1>9 DEF Rescan, NotAdopted, Local, TypeOK
<1>10. CASE RecheckClaims(c)
  BY <1>10 DEF RecheckClaims, Adopt, NotAdopted, Local, TypeOK
<1>11. CASE RecordPurchased(c)
  BY <1>11 DEF RecordPurchased, Local, TypeOK
<1>12. CASE RecordUnknown(c)
  BY <1>12 DEF RecordUnknown, Local, TypeOK
<1>13. CASE Crash(c)
  BY <1>13 DEF Crash, Local, TypeOK
<1> QED BY <1>1, <1>2, <1>3, <1>4, <1>5, <1>6, <1>7, <1>8, <1>9, <1>10, <1>11, <1>12, <1>13 DEF CallStep

LEMMA LocalStage ==
    ASSUME TypeOK, NEW c \in Calls, Local(c), \A d \in Calls : Stage(d)
    PROVE  \A d \in Calls : Stage(d)'
<1>1. ASSUME NEW d \in Calls, d # c PROVE Stage(d)'
  BY <1>1 DEF Local, Stage, Started, Bought, Token
<1>2. Stage(c)'
  <2>1. Stage(c) /\ Started(c) /\ Started(c)'
    BY DEF Local, Running, Started
  <2>2. pc'[c] \in BeforeSend => request'[c] = "none"
    BY <2>1 DEF Local, Stage, BeforeSend
  <2>3. Bought(c)'
    BY <2>1 DEF Local, Stage, Bought, Token, BeforeSend
  <2> QED BY <2>1, <2>2, <2>3 DEF Local, Stage, Started, Token
<1> QED BY <1>1, <1>2

-----------------------------------------------------------------------------
(* A success on the journal path is durable.                               *)

(* The journal of the call's token names the node as purchased.            *)
Names(c, n) ==
    \E e \in Executions : TokenOf[e] = Token(c) /\ journal[e].state = "purchased" /\ journal[e].node = n

(* What a call read of its token's purchases still stands, since purchased *)
(* is the journal's final state.  A call records the one node it holds.    *)
Recorded(c) ==
    /\ \A p \in priors[c] : p.state = "purchased" =>
         TokenOf[p.exec] = Token(c) /\ journal[p.exec].state = "purchased" /\ journal[p.exec].node = p.node
    /\ pc[c] = "purchased" => \E n \in Calls : commit[c] = {n}
    /\ result[c] = "success" => pc[c] = "done" /\ \E n \in Calls : commit[c] = {n} /\ Names(c, n)

Lasting ==
    \A e \in Executions : journal[e].state = "purchased" =>
        journal'[e].state = "purchased" /\ journal'[e].node = journal[e].node

LEMMA WriteLasts ==
    ASSUME TypeOK, NEW c \in Calls, Started(c), NEW n \in Calls \cup {NoNode},
           NEW st \in AttemptStates,
           NotDurable(Attempt(c, st, n)) \/ Committed(Attempt(c, st, n))
    PROVE  Lasting
<1> DEFINE rec == Attempt(c, st, n)
<1>1. rec.exec = exec[c] /\ exec[c] \in Executions
  BY AttemptType
<1>2. CASE UNCHANGED journal
  BY <1>2 DEF Lasting
<1>3. CASE Committed(rec)
  <2> HIDE DEF rec
  <2>1. journal' = [journal EXCEPT ![rec.exec] = rec] /\ Allowed(journal[rec.exec], rec)
    BY <1>3 DEF Committed
  <2> QED BY <2>1, <1>1 DEF TypeOK, Lasting, Allowed
<1> QED BY <1>2, <1>3 DEF NotDurable

LEMMA NamesLast ==
    ASSUME Lasting, NEW c \in Calls, UNCHANGED exec[c], NEW n \in Calls, Names(c, n) PROVE Names(c, n)'
BY DEF Lasting, Names, Token

LEMMA RecordedFrame ==
    ASSUME TypeOK, NEW d \in Calls, Recorded(d), Lasting,
           UNCHANGED <<pc[d], priors[d], commit[d], result[d], exec[d]>>
    PROVE  Recorded(d)'
<1>1. Token(d)' = Token(d)
  BY DEF Token
<1>2. \A p \in priors[d] : p.exec \in Executions
  BY DEF TypeOK, AttemptRecords
<1>3. \A p \in priors'[d] : p.state = "purchased" =>
         TokenOf[p.exec] = Token(d)' /\ journal'[p.exec].state = "purchased" /\ journal'[p.exec].node = p.node
  BY <1>1, <1>2 DEF Recorded, Lasting
<1>4. result'[d] = "success" => pc'[d] = "done" /\ \E n \in Calls : commit'[d] = {n} /\ Names(d, n)'
  BY NamesLast DEF Recorded
<1>5. pc'[d] = "purchased" => \E n \in Calls : commit'[d] = {n}
  BY DEF Recorded
<1> QED BY <1>1, <1>3, <1>4, <1>5 DEF Recorded

(* A step of the call itself: it reads the journal or forgets what it      *)
(* read, and reports a success only for a node the journal names.          *)
LEMMA RecordedStep ==
    ASSUME TypeOK, NEW c \in Calls, Recorded(c), Lasting, Local(c),
           priors'[c] \in {priors[c], {}, PriorAttempts(Token(c))},
           pc'[c] = "purchased" => \E n \in Calls : commit'[c] = {n},
           result'[c] = result[c]
             \/ (result'[c] = "success" =>
                   pc'[c] = "done" /\ \E n \in Calls : commit'[c] = {n} /\ Names(c, n)')
    PROVE  Recorded(c)'
<1>1. Token(c)' = Token(c)
  BY DEF Local, Token
<1>2. ASSUME NEW p \in priors'[c], p.state = "purchased"
      PROVE  TokenOf[p.exec] = Token(c) /\ journal'[p.exec].state = "purchased" /\ journal'[p.exec].node = p.node
  <2>1. CASE p \in priors[c]
    <3>1. p.exec \in Executions
      BY <2>1 DEF TypeOK, AttemptRecords
    <3> QED BY <1>2, <2>1, <3>1 DEF Recorded, Lasting
  <2>2. CASE p \in PriorAttempts(Token(c))
    <3>1. PICK e \in Executions : TokenOf[e] = Token(c) /\ p = journal[e]
      BY <2>2 DEF PriorAttempts
    <3>2. p.exec = e
      BY <3>1 DEF TypeOK
    <3> QED BY <1>2, <3>1, <3>2 DEF Lasting
  <2> QED BY <2>1, <2>2
<1>3. result[c] # "success"
  BY DEF Recorded, Local, Running
<1>4. result'[c] = "success" => pc'[c] = "done" /\ \E n \in Calls : commit'[c] = {n} /\ Names(c, n)'
  BY <1>3
<1> QED BY <1>1, <1>2, <1>4 DEF Recorded, Names

LEMMA CallRecorded ==
    ASSUME journaled, TypeOK, TypeOK', \A d \in Calls : Recorded(d), NEW c \in Calls, CallStep(c) \/ Crash(c),
           UNCHANGED caller
    PROVE  \A d \in Calls : Recorded(d)'
<1> USE DEF Goto, End, Forget, callVars
<1>0. Local(c) /\ Started(c)
  BY CallIsLocal DEF Local, Running, Started
<1> SUFFICES Lasting /\ Recorded(c)'
  BY <1>0, RecordedFrame DEF Local
<1>j. UNCHANGED journal => Lasting
  BY DEF Lasting
<1>t. /\ \A n \in Calls : n \in Calls \cup {NoNode}
      /\ NoNode \in Calls \cup {NoNode} /\ {"sending", "purchased", "outcome_unknown"} \subseteq AttemptStates
  BY DEF AttemptStates
<1>1. CASE ReadPriors(c)
  <2>1. priors'[c] \in {priors[c], PriorAttempts(Token(c))} /\ UNCHANGED journal
        /\ pc'[c] # "purchased" /\ result'[c] # "success"
    <3>1. result[c] # "success"
      BY <1>1 DEF ReadPriors, Recorded
    <3> QED BY <1>1, <3>1 DEF ReadPriors, TypeOK
  <2> QED BY <1>0, <1>j, <2>1, RecordedStep
<1>2. CASE AdoptRecorded(c)
  <2>1. UNCHANGED journal /\ priors'[c] = {} /\ pc'[c] = "done"
    BY <1>2 DEF AdoptRecorded, TypeOK
  <2>2. ASSUME result'[c] = "success" PROVE \E n \in Calls : commit'[c] = {n} /\ Names(c, n)'
    <3>1. PICK n \in RecordedReservationIDs(priors[c]), m \in MatchingNodes(c) :
             n \in m /\ commit' = [commit EXCEPT ![c] = {n}]
      BY <1>2, <2>2 DEF AdoptRecorded, TypeOK
    <3>2. n \in Calls /\ commit'[c] = {n}
      BY <3>1, MatchingNodesType DEF TypeOK
    <3>3. PICK p \in priors[c] : p.state = "purchased" /\ p.node = n
      BY <3>1 DEF RecordedReservationIDs
    <3>4. p.exec \in Executions
      BY DEF TypeOK, AttemptRecords
    <3>5. Names(c, n)
      BY <3>3, <3>4 DEF Recorded, Names
    <3> QED BY <1>0, <1>j, <2>1, <3>2, <3>5, NamesLast DEF Local
  <2> QED BY <1>0, <1>j, <2>1, <2>2, RecordedStep
<1>3. CASE Scan(c) \/ CheckApprovedUpfront(c) \/ Rescan(c) \/ Send(c) \/ Crash(c)
  <2>1. UNCHANGED journal /\ priors'[c] \in {priors[c], {}} /\ pc'[c] # "purchased"
    BY <1>3 DEF Scan, CheckApprovedUpfront, Rescan, NotAdopted, Send, Crash, TypeOK
  <2>2. result'[c] = result[c] \/ result'[c] # "success"
    BY <1>3 DEF Scan, CheckApprovedUpfront, Rescan, NotAdopted, Send, Crash, TypeOK
  <2> QED BY <1>0, <1>j, <2>1, <2>2, RecordedStep
<1>4. CASE CheckClaims(c) \/ RecheckClaims(c) \/ Await(c)
  <2>1. UNCHANGED journal /\ priors'[c] \in {priors[c], {}}
    BY <1>4 DEF CheckClaims, RecheckClaims, Await, TypeOK
  <2>2. ASSUME NEW n, Adopt(c, n) PROVE pc'[c] = "purchased" /\ commit'[c] = {n} /\ result' = result
    BY <2>2 DEF Adopt, TypeOK
  <2>3. \/ \E n \in Calls : Adopt(c, n)
        \/ pc'[c] # "purchased" /\ result'[c] # "success"
        \/ pc'[c] # "purchased" /\ result' = result
    <3>1. CASE CheckClaims(c)
      <4>1. \A n \in Unclaimed(c) : n \in Calls
        BY DEF Unclaimed, TypeOK
      <4>2. (\E n \in Unclaimed(c) : Adopt(c, n)) \/ (\E r \in {"refused", "error", "outcome_unknown"} : End(c, r))
              \/ Goto(c, "approve")
        BY <3>1 DEF CheckClaims
      <4> QED BY <4>1, <4>2 DEF TypeOK
    <3>2. CASE RecheckClaims(c)
      BY <3>2 DEF RecheckClaims, NotAdopted, TypeOK
    <3>3. CASE Await(c)
      BY <3>3 DEF Await, TypeOK
    <3> QED BY <1>4, <3>1, <3>2, <3>3
  <2> QED BY <1>0, <1>j, <2>1, <2>2, <2>3, RecordedStep
<1>5. CASE RecordSending(c)
  <2>1. Lasting
    BY <1>0, <1>5, <1>t, WriteLasts DEF RecordSending
  <2>2. priors' = priors /\ pc'[c] # "purchased" /\ (result'[c] = result[c] \/ result'[c] # "success")
    BY <1>5 DEF RecordSending, TypeOK
  <2> QED BY <1>0, <2>1, <2>2, RecordedStep
<1>6. CASE RecordUnknown(c)
  <2>1. Lasting
    BY <1>0, <1>6, <1>t, WriteLasts DEF RecordUnknown
  <2>2. priors' = priors /\ pc'[c] # "purchased" /\ result'[c] = result[c]
    BY <1>6 DEF RecordUnknown, TypeOK
  <2> QED BY <1>0, <2>1, <2>2, RecordedStep
<1>7. CASE RecordPurchased(c)
  <2>1. PICK n \in commit[c] :
           /\ pc[c] = "purchased" /\ UNCHANGED callVars
           /\ \/ Committed(Attempt(c, "purchased", n)) /\ End(c, "success")
              \/ NotDurable(Attempt(c, "purchased", n)) /\ End(c, "outcome_unknown")
    BY <1>7 DEF RecordPurchased
  <2>2. n \in Calls /\ commit[c] = {n} /\ commit'[c] = {n}
    BY <2>1 DEF Recorded, TypeOK
  <2>3. Lasting
    BY <1>0, <1>t, <2>1, <2>2, WriteLasts
  <2>4. ASSUME result'[c] = "success" PROVE Names(c, n)'
    <3> DEFINE rec == Attempt(c, "purchased", n)
    <3>1. /\ rec.exec = exec[c] /\ rec.state = "purchased" /\ rec.node = n
          /\ exec[c] \in Executions
      BY <1>0, <1>t, <2>2, AttemptType DEF Attempt
    <3>2. Committed(rec)
      BY <2>1, <2>4 DEF TypeOK
    <3> HIDE DEF rec
    <3>3. journal'[exec[c]] = rec
      BY <3>1, <3>2 DEF Committed, TypeOK
    <3>4. Token(c)' = TokenOf[exec[c]]
      BY <1>0 DEF Local, Token
    <3> QED BY <3>1, <3>3, <3>4 DEF Names
  <2>5. priors' = priors /\ pc'[c] = "done"
    BY <2>1 DEF TypeOK
  <2> QED BY <1>0, <2>2, <2>3, <2>4, <2>5, RecordedStep
<1> QED BY <1>1, <1>2, <1>3, <1>4, <1>5, <1>6, <1>7 DEF CallStep

-----------------------------------------------------------------------------
(* A token owns at most one node, under the caller contract.               *)

(* An attempt that is over: what it bought is visible to the next one.     *)
Settled(d) == ~Running(d) /\ request[d] # "inflight" /\ (node[d].state = "owned" => node[d].listed)

(* The listing may show one's node to the other.                           *)
Share(c, d) == (OmitsOffering \/ offer[c] = offer[d]) /\ (OmitsCount \/ SameCount(c, d))

(* The contract, as it bears on a running call: its lineage is open, the   *)
(* earlier attempts of its token are over, and other lineages whose nodes  *)
(* it may see are given up.                                                *)
Alone(c) ==
    Running(c) =>
        /\ Token(c) \notin closed
        /\ \A d \in Calls \ {c} : Started(d) =>
             IF Token(d) = Token(c) THEN Settled(d) ELSE Share(c, d) => Token(d) \in closed

(* A call only sees and takes nodes the listing may show it.               *)
Sees(c) ==
    Running(c) => \A n \in found[c] \cup commit[c] : Started(n) /\ Share(c, n)

(* A node recorded for another token was bought by a lineage given up.     *)
Attributed(e) ==
    journal[e].state = "purchased" =>
        /\ journal[e].node \in Calls /\ Started(journal[e].node)
        /\ TokenOf[e] = Token(journal[e].node) \/ Token(journal[e].node) \in closed

(* The earlier attempts of a call's token.                                 *)
Earlier(c) == {d \in Calls \ {c} : Started(d) /\ Token(d) = Token(c)}

(* The journal told the call of every earlier attempt that sent, and none  *)
(* of them recorded its purchase.                                          *)
KnowsSends(c) ==
    pc[c] \in {"scan", "claims"} => \A d \in Earlier(c) : request[d] # "none" =>
        \E p \in priors[c] : MayHaveSent(p) /\ p.exec = exec[d] /\ p.offering = offer[d]

(* The scan found every node of an earlier attempt under its offering.     *)
FoundEarlier(c) ==
    pc[c] = "claims" => \A d \in Earlier(c) :
        (node[d].state = "owned" /\ offer[d] = offer[c]) => d \in found[c]

(* A call that may send has seen that the token owns nothing.              *)
ReadyToSend == {"approve", "sending", "send"}
ClearToSend(c) == pc[c] \in ReadyToSend => \A d \in Earlier(c) : node[d].state # "owned"

Alive(c) == request[c] = "inflight" \/ node[c].state = "owned"

OneAlive == \A c, d \in Calls : (Alive(c) /\ Alive(d) /\ Token(c) = Token(d)) => c = d

Resolvable == journaled \/ StableOfferings

ContractInv ==
    /\ \A c \in Calls : Alone(c) /\ Sees(c) /\ FoundEarlier(c)
    /\ \A e \in Executions : Attributed(e)
    /\ journaled => \A c \in Calls : KnowsSends(c)
    /\ Resolvable => OneAlive /\ \A c \in Calls : ClearToSend(c)

(* A step of a call keeps the contract and what the other calls rely on.   *)
LEMMA LocalFrame ==
    ASSUME TypeOK, NEW c \in Calls, Local(c), ContractInv
    PROVE  /\ \A d \in Calls : Running(d)' => Running(d)
           /\ \A d \in Calls : Token(d)' = Token(d) /\ (Started(d)' <=> Started(d)) /\ Earlier(d)' = Earlier(d)
           /\ Resolvable' <=> Resolvable
           /\ \A d \in Calls : Alone(d)'
           /\ \A d \in Calls \ {c} : Sees(d)' /\ FoundEarlier(d)'
           /\ \A d \in Calls \ {c} : KnowsSends(d) => KnowsSends(d)'
           /\ \A d \in Calls \ {c} : ClearToSend(d) => ClearToSend(d)'
<1>1. \A d \in Calls : Running(d)' => Running(d)
  BY DEF Local, Running
<1>2. \A d \in Calls : Token(d)' = Token(d) /\ (Started(d)' <=> Started(d))
  BY DEF Local, Token, Started, Running
<1>3. \A d \in Calls : Earlier(d)' = Earlier(d)
  BY <1>2 DEF Earlier
<1>4. Resolvable' <=> Resolvable
  BY <1>2 DEF Resolvable, StableOfferings, Local
<1>5. ASSUME NEW d \in Calls, Settled(d) PROVE d # c /\ Settled(d)'
  BY <1>5 DEF Settled, Local, Running
<1>6. ASSUME NEW d \in Calls PROVE Alone(d)'
  <2>1. \A x \in Calls : Share(d, x)' <=> Share(d, x)
    BY <1>2 DEF Share, SameCount, Local
  <2>2. closed' = closed
    BY DEF Local
  <2> QED BY <1>1, <1>2, <1>5, <1>6, <2>1, <2>2 DEF Alone, ContractInv
<1>7. ASSUME NEW d \in Calls \ {c} PROVE Sees(d)' /\ FoundEarlier(d)'
  <2>1. \A n \in found[d] \cup commit[d] : n \in Calls
    BY DEF TypeOK
  <2>2. Sees(d)'
    BY <1>1, <1>2, <1>7, <2>1 DEF Sees, ContractInv, Share, SameCount, Local
  <2>3. FoundEarlier(d)'
    BY <1>3, <1>7 DEF FoundEarlier, ContractInv, Local
  <2> QED BY <2>2, <2>3
<1>8. ASSUME NEW d \in Calls \ {c}, KnowsSends(d) PROVE KnowsSends(d)'
  <2>1. ASSUME NEW x \in Earlier(d), pc[d] \in {"scan", "claims"} PROVE request'[x] = request[x]
    <3>1. Settled(x)
      BY <1>8, <2>1 DEF ContractInv, Alone, Earlier, Running
    <3>2. x # c
      BY <1>5, <2>1, <3>1 DEF Earlier
    <3> QED BY <2>1, <3>2 DEF Local, Earlier
  <2> QED BY <1>3, <1>8, <2>1 DEF KnowsSends, Local
<1>9. ASSUME NEW d \in Calls \ {c}, ClearToSend(d) PROVE ClearToSend(d)'
  BY <1>3, <1>9 DEF ClearToSend, Local
<1> QED BY <1>1, <1>2, <1>3, <1>4, <1>6, <1>7, <1>8, <1>9

(* A step that sends nothing, records no purchase and does not bring the   *)
(* call nearer to sending.                                                 *)
NoNewPurchase ==
    \A e \in Executions : journal'[e].state = "purchased" =>
        journal[e].state = "purchased" /\ journal'[e].node = journal[e].node

(* A record of a send, or of an unknown outcome, names no purchase.        *)
LEMMA UnboughtWrite ==
    ASSUME TypeOK, NEW c \in Calls, Local(c), NEW st \in {"sending", "outcome_unknown"},
           NotDurable(Attempt(c, st, NoNode)) \/ Committed(Attempt(c, st, NoNode))
    PROVE  NoNewPurchase
<1> DEFINE rec == Attempt(c, st, NoNode)
<1>1. rec.exec = exec[c] /\ rec.state = st /\ exec[c] \in Executions
  BY AttemptType DEF AttemptStates, Local, Running, Started
<1>2. CASE UNCHANGED journal
  BY <1>2 DEF NoNewPurchase
<1>3. CASE Committed(rec)
  <2> HIDE DEF rec
  <2> QED BY <1>1, <1>3 DEF Committed, NoNewPurchase, TypeOK
<1> QED BY <1>2, <1>3 DEF NotDurable

LEMMA AttributedFrame ==
    ASSUME TypeOK, NEW c \in Calls, Local(c), ContractInv, NoNewPurchase
    PROVE  \A e \in Executions : Attributed(e)'
<1>1. \A d \in Calls : Token(d)' = Token(d) /\ (Started(d)' <=> Started(d))
  BY LocalFrame
<1> QED BY <1>1 DEF Attributed, ContractInv, NoNewPurchase, Local

LEMMA AliveFrame ==
    ASSUME TypeOK, NEW c \in Calls, Local(c), ContractInv, request'[c] = request[c], Resolvable
    PROVE  OneAlive'
<1>1. \A d \in Calls : Alive(d)' <=> Alive(d)
  BY DEF Alive, Local
<1>2. \A d \in Calls : Token(d)' = Token(d)
  BY LocalFrame
<1> QED BY <1>1, <1>2 DEF OneAlive, ContractInv

LEMMA QuietContract ==
    ASSUME TypeOK, NEW c \in Calls, Local(c), ContractInv, NoNewPurchase, request'[c] = request[c],
           pc'[c] \notin {"scan", "claims"}, pc'[c] \in ReadyToSend => pc[c] \in ReadyToSend,
           Running(c)' => \A n \in found'[c] \cup commit'[c] :
               n \in found[c] \cup commit[c] \cup {c} \/ (n \in Calls /\ Started(n) /\ Share(c, n))
    PROVE  ContractInv'
<1>1. Running(c) /\ Earlier(c)' = Earlier(c) /\ UNCHANGED <<node, offer>>
  BY LocalFrame DEF Local
<1>2. FoundEarlier(c)' /\ KnowsSends(c)' /\ (ClearToSend(c) => ClearToSend(c)')
  BY <1>1 DEF FoundEarlier, KnowsSends, ClearToSend
<1>3. Sees(c)'
  <2>1. \A n \in found[c] \cup commit[c] : n \in Calls
    BY DEF TypeOK
  <2>2. \A n \in found[c] \cup commit[c] \cup {c} : n \in Calls /\ Started(n) /\ Share(c, n)
    BY <1>1, <2>1 DEF ContractInv, Sees, Share, SameCount, Running, Started
  <2>3. \A n \in Calls : Started(n) /\ Share(c, n) => Started(n)' /\ Share(c, n)'
    BY <1>1, LocalFrame DEF Share, SameCount
  <2> QED BY <2>2, <2>3 DEF Sees
<1> QED BY <1>2, <1>3, LocalFrame, AttributedFrame, AliveFrame DEF ContractInv, Local

(* What the listing shows a call was bought by a call that has started.    *)
LEMMA MatchesShare ==
    ASSUME TypeOK, \A d \in Calls : Stage(d), NEW c \in Calls, NEW m \in MatchingNodes(c), NEW n \in m
    PROVE  n \in Calls /\ Started(n) /\ Share(c, n)
<1>1. n \in Calls /\ (MustMatch(c, n) \/ MayMatch(c, n))
  BY DEF MatchingNodes
<1>2. /\ node[n].state # "none" /\ (OmitsOffering \/ node[n].offering = offer[c])
      /\ OmitsCount \/ SameCount(c, n)
  BY <1>1 DEF MustMatch, MayMatch
<1>3. request[n] = "accepted" /\ node[n].offering = offer[n]
  BY <1>1, <1>2 DEF Stage, Bought
<1>4. Started(n)
  BY <1>1, <1>3 DEF Stage, BeforeSend, Started
<1> QED BY <1>1, <1>2, <1>3, <1>4 DEF Share

(* No node of an open lineage is recorded for another token.               *)
LEMMA NotTaken ==
    ASSUME TypeOK, ContractInv, NEW c \in Calls, Running(c), NEW d \in Calls, Token(d) = Token(c),
           NEW e \in Executions, journal[e].state = "purchased", journal[e].node = d
    PROVE  TokenOf[e] = Token(c)
BY DEF ContractInv, Attributed, Alone

(* With the journal and the scan behind it, a call that finds no candidate *)
(* and no unresolved attempt knows that its token owns nothing.            *)
LEMMA NothingOwned ==
    ASSUME TypeOK, journaled => JournalInv, \A d \in Calls : Stage(d), ContractInv, Resolvable,
           NEW c \in Calls, pc[c] = "claims", Unclaimed(c) = {}, ~UnresolvedPriors(c), NEW d \in Earlier(c)
    PROVE  node[d].state # "owned"
<1> SUFFICES ASSUME node[d].state = "owned" PROVE FALSE OBVIOUS
<1>1. d \in Calls /\ Started(d) /\ Token(d) = Token(c) /\ request[d] = "accepted" /\ Running(c)
  BY DEF Earlier, Stage, Bought, Running
<1>2. offer[d] = offer[c]
  <2>1. CASE journaled
    <3>1. PICK p \in priors[c] : MayHaveSent(p) /\ p.offering = offer[d]
      BY <1>1, <2>1 DEF ContractInv, KnowsSends
    <3> QED BY <3>1 DEF UnresolvedPriors
  <2>2. CASE ~journaled
    <3>1. StableOfferings /\ Started(c)
      BY <1>1, <2>2 DEF Resolvable, Running, Started
    <3> QED BY <1>1, <3>1 DEF StableOfferings
  <2> QED BY <2>1, <2>2
<1>3. d \in found[c]
  BY <1>2 DEF ContractInv, FoundEarlier
<1>4. d \notin ClaimedByOthers(Token(c), found[c])
  BY <1>1, NotTaken DEF ClaimedByOthers
<1> QED BY <1>3, <1>4 DEF Unclaimed

LEMMA CallContract ==
    ASSUME TypeOK, TypeOK', journaled => JournalInv, \A d \in Calls : Stage(d), ContractInv,
           NEW c \in Calls, CallStep(c) \/ Crash(c), ~RecordPurchased(c), UNCHANGED caller
    PROVE  ContractInv'
<1> USE DEF Goto, End, Forget, callVars
<1>0. Local(c)
  BY CallIsLocal
<1>j. UNCHANGED journal => NoNewPurchase
  BY DEF NoNewPurchase
<1>u. Unclaimed(c) \subseteq found[c]
  BY DEF Unclaimed
<1>1. CASE ReadPriors(c)
  <2>1. CASE pc'[c] # "scan"
    <3>1. /\ pc'[c] \notin {"scan", "claims"} /\ pc'[c] \notin ReadyToSend
          /\ UNCHANGED <<journal, found, commit, request>>
      BY <1>1, <2>1 DEF ReadPriors, TypeOK, ReadyToSend
    <3> QED BY <1>0, <1>j, <3>1, QuietContract
  <2>2. CASE pc'[c] = "scan"
    <3>1. /\ priors'[c] = PriorAttempts(Token(c)) /\ RecordedReservationIDs(PriorAttempts(Token(c))) = {}
          /\ UNCHANGED <<journal, found, commit, request, node, exec, offer>>
      BY <1>1, <2>2 DEF ReadPriors, TypeOK
    <3>2. ASSUME journaled PROVE KnowsSends(c)'
      <4>1. ASSUME NEW d \in Earlier(c), request[d] # "none"
            PROVE  \E p \in PriorAttempts(Token(c)) : MayHaveSent(p) /\ p.exec = exec[d] /\ p.offering = offer[d]
        <5>1. d \in Calls /\ Started(d) /\ Token(d) = Token(c)
          BY DEF Earlier
        <5>2. exec[d] \in Executions /\ journal[exec[d]].state # "none" /\ journal[exec[d]].offering = offer[d]
              /\ journal[exec[d]].exec = exec[d] /\ journal[exec[d]] \in AttemptRecords
          BY <3>2, <4>1, <5>1 DEF JournalInv, CoveredSender, Sender, TypeOK
        <5>3. journal[exec[d]] \in PriorAttempts(Token(c))
          BY <5>1, <5>2 DEF PriorAttempts, Token
        <5>4. journal[exec[d]].state # "purchased"
          BY <3>1, <5>3 DEF RecordedReservationIDs
        <5>5. MayHaveSent(journal[exec[d]])
          BY <5>2, <5>4 DEF MayHaveSent, AttemptRecords, AttemptStates
        <5> QED BY <5>2, <5>3, <5>5
      <4>2. Earlier(c)' = Earlier(c)
        BY <1>0, LocalFrame
      <4> QED BY <3>1, <4>1, <4>2 DEF KnowsSends, MayHaveSent
    <3>3. FoundEarlier(c)' /\ ClearToSend(c)'
      BY <2>2 DEF FoundEarlier, ClearToSend, ReadyToSend
    <3>4. Sees(c)'
      <4>1. \A n \in found[c] \cup commit[c] : n \in Calls
        BY DEF TypeOK
      <4> QED BY <1>0, <3>1, <4>1, LocalFrame DEF ContractInv, Sees, Share, SameCount
    <3> QED BY <1>0, <1>j, <3>1, <3>2, <3>3, <3>4, LocalFrame, AttributedFrame, AliveFrame DEF ContractInv, Local
  <2> QED BY <2>1, <2>2
<1>2. CASE Scan(c)
  <2>1. CASE pc'[c] # "claims"
    <3>1. /\ pc'[c] = "done" /\ UNCHANGED <<journal, found, commit, request>>
      BY <1>2, <2>1 DEF Scan, TypeOK
    <3> QED BY <1>0, <1>j, <3>1, QuietContract DEF ReadyToSend
  <2>2. CASE pc'[c] = "claims"
    <3>1. PICK m \in MatchingNodes(c) : found' = [found EXCEPT ![c] = m]
      BY <1>2, <2>2 DEF Scan, TypeOK
    <3>2. /\ found'[c] = m /\ UNCHANGED <<journal, priors, commit, request, node, exec, offer>> /\ pc[c] = "scan"
      BY <1>2, <3>1 DEF Scan, TypeOK
    <3>3. Earlier(c)' = Earlier(c) /\ Running(c)
      BY <1>0, LocalFrame DEF Local
    <3>4. KnowsSends(c) => KnowsSends(c)'
      BY <3>2, <3>3 DEF KnowsSends
    <3>5. FoundEarlier(c)'
      <4>1. ASSUME NEW d \in Earlier(c), node[d].state = "owned", offer[d] = offer[c] PROVE d \in m
        <5>1. d \in Calls /\ Token(d) = Token(c) /\ node[d].listed
          BY <3>3, <4>1 DEF Earlier, ContractInv, Alone, Settled
        <5>2. MustMatch(c, d)
          BY <4>1, <5>1 DEF MustMatch, SameCount, Stage, Bought
        <5> QED BY <5>1, <5>2 DEF MatchingNodes
      <4> QED BY <3>2, <3>3, <4>1 DEF FoundEarlier
    <3>6. ClearToSend(c)'
      BY <2>2 DEF ClearToSend, ReadyToSend
    <3>7. Sees(c)'
      <4>1. \A n \in found'[c] \cup commit'[c] : n \in Calls /\ Started(n) /\ Share(c, n)
        BY <3>2, <3>3, MatchesShare DEF ContractInv, Sees, TypeOK
      <4> QED BY <1>0, <3>2, <4>1, LocalFrame DEF Sees, Share, SameCount
    <3> QED BY <1>0, <1>j, <3>2, <3>4, <3>5, <3>6, <3>7, LocalFrame, AttributedFrame, AliveFrame DEF ContractInv, Local
  <2> QED BY <2>1, <2>2
<1>3. CASE CheckClaims(c)
  <2>1. /\ found'[c] = {} /\ UNCHANGED <<journal, request, node, exec, offer>> /\ pc[c] = "claims"
        /\ commit'[c] \subseteq commit[c] \cup found[c]
    BY <1>3, <1>u DEF CheckClaims, Adopt, TypeOK
  <2>2. CASE pc'[c] # "approve"
    <3>1. pc'[c] \in {"done", "purchased"}
      BY <1>3, <2>2 DEF CheckClaims, Adopt, TypeOK
    <3> QED BY <1>0, <1>j, <2>1, <3>1, QuietContract DEF ReadyToSend
  <2>3. CASE pc'[c] = "approve"
    <3>1. Unclaimed(c) = {} /\ ~UnresolvedPriors(c)
      BY <1>3, <2>3 DEF CheckClaims, Adopt, TypeOK
    <3>2. Resolvable => ClearToSend(c)'
      BY <1>0, <2>1, <3>1, NothingOwned, LocalFrame DEF ClearToSend
    <3>3. KnowsSends(c)' /\ FoundEarlier(c)'
      BY <2>3 DEF KnowsSends, FoundEarlier
    <3>4. Sees(c)'
      <4>1. \A n \in found'[c] \cup commit'[c] : n \in Calls /\ Started(n) /\ Share(c, n)
        BY <1>0, <2>1 DEF ContractInv, Sees, TypeOK, Local
      <4> QED BY <1>0, <2>1, <4>1, LocalFrame DEF Sees, Share, SameCount
    <3> QED BY <1>0, <1>j, <2>1, <3>2, <3>3, <3>4, LocalFrame, AttributedFrame, AliveFrame DEF ContractInv, Local
  <2> QED BY <2>2, <2>3
<1>4. CASE Send(c)
  <2>1. /\ UNCHANGED <<journal, found, commit, node, exec, offer>> /\ pc[c] = "send" /\ pc'[c] = "await"
        /\ request' = [request EXCEPT ![c] = "inflight"]
    BY <1>4 DEF Send, TypeOK
  <2>2. Resolvable => OneAlive'
    <3> SUFFICES ASSUME Resolvable, NEW d \in Calls, d # c, Alive(d)', Token(d)' = Token(c)'
                 PROVE  FALSE
      <4>1. Resolvable => \A x, y \in Calls \ {c} : (Alive(x)' /\ Alive(y)' /\ Token(x)' = Token(y)') => x = y
        BY <1>0, <2>1, LocalFrame DEF OneAlive, Alive, ContractInv, TypeOK
      <4> QED BY <4>1 DEF OneAlive
    <3>1. Alive(d) /\ Token(d) = Token(c)
      BY <1>0, <2>1, LocalFrame DEF Alive, TypeOK
    <3>2. Started(d)
      BY <3>1 DEF Stage, Alive, Bought, BeforeSend, Started
    <3>3. d \in Earlier(c) /\ Settled(d)
      BY <2>1, <3>1, <3>2 DEF Earlier, ContractInv, Alone, Running
    <3>4. node[d].state # "owned"
      BY <2>1, <3>3 DEF ContractInv, ClearToSend, ReadyToSend
    <3> QED BY <3>1, <3>3, <3>4 DEF Alive, Settled
  <2>3. FoundEarlier(c)' /\ KnowsSends(c)' /\ ClearToSend(c)'
    BY <2>1 DEF FoundEarlier, KnowsSends, ClearToSend, ReadyToSend
  <2>4. Sees(c)'
    <3>1. \A n \in found[c] \cup commit[c] : n \in Calls /\ Started(n) /\ Share(c, n)
      BY <1>0, <2>1 DEF ContractInv, Sees, TypeOK, Local
    <3> QED BY <1>0, <2>1, <3>1, LocalFrame DEF Sees, Share, SameCount
  <2> QED BY <1>0, <1>j, <2>1, <2>2, <2>3, <2>4, LocalFrame, AttributedFrame DEF ContractInv, Local
<1>5. CASE Rescan(c)
  <2>1. /\ UNCHANGED <<journal, request, commit>> /\ pc'[c] \in {"unknown", "done", "reclaims"}
        /\ found'[c] = found[c] \/ found'[c] \in MatchingNodes(c)
    BY <1>5 DEF Rescan, NotAdopted, TypeOK
  <2>2. \A n \in found'[c] : n \in found[c] \/ (n \in Calls /\ Started(n) /\ Share(c, n))
    BY <2>1, MatchesShare
  <2> QED BY <1>0, <1>j, <2>1, <2>2, QuietContract DEF ReadyToSend
<1>6. CASE RecheckClaims(c)
  <2>1. /\ UNCHANGED <<journal, request>> /\ pc'[c] \in {"unknown", "done", "purchased"}
        /\ found'[c] = {} /\ commit'[c] \subseteq commit[c] \cup found[c]
    BY <1>6, <1>u DEF RecheckClaims, Adopt, NotAdopted, TypeOK
  <2> QED BY <1>0, <1>j, <2>1, QuietContract DEF ReadyToSend
<1>7. CASE Await(c)
  <2>1. /\ UNCHANGED <<journal, request, found>> /\ pc'[c] \in {"unknown", "done", "purchased", "rescan"}
        /\ commit'[c] \subseteq commit[c] \cup {c}
    BY <1>7 DEF Await, Adopt, TypeOK
  <2> QED BY <1>0, <1>j, <2>1, QuietContract DEF ReadyToSend
<1>8. CASE CheckApprovedUpfront(c)
  <2>1. /\ UNCHANGED <<journal, request, found, commit>> /\ pc'[c] \in {"done", "send", "sending"} /\ pc[c] = "approve"
    BY <1>8 DEF CheckApprovedUpfront, TypeOK
  <2> QED BY <1>0, <1>j, <2>1, QuietContract DEF ReadyToSend
<1>9. CASE AdoptRecorded(c) \/ Crash(c)
  <2>1. /\ UNCHANGED <<journal, request>> /\ pc'[c] \in {"done", "crashed"}
    BY <1>9 DEF AdoptRecorded, Crash, TypeOK
  <2> QED BY <1>0, <1>j, <2>1, QuietContract DEF ReadyToSend, Running
<1>10. ASSUME RecordSending(c) \/ RecordUnknown(c) PROVE ContractInv'
  <2>1. /\ UNCHANGED <<request, found, commit>> /\ pc'[c] \in {"done", "send"}
        /\ pc'[c] = "send" => pc[c] = "sending"
    BY <1>10 DEF RecordSending, RecordUnknown, TypeOK
  <2>2. PICK st \in {"sending", "outcome_unknown"} :
           NotDurable(Attempt(c, st, NoNode)) \/ Committed(Attempt(c, st, NoNode))
    BY <1>10 DEF RecordSending, RecordUnknown
  <2>3. NoNewPurchase
    BY <1>0, <2>2, UnboughtWrite
  <2> QED BY <1>0, <2>1, <2>3, QuietContract DEF ReadyToSend
<1> QED BY <1>1, <1>2, <1>3, <1>4, <1>5, <1>6, <1>7, <1>8, <1>9, <1>10 DEF CallStep

(* What recordPurchased may have stored, whether it reported an error or   *)
(* not: the call's node in its execution's record.                         *)
LEMMA PurchaseWrite ==
    ASSUME TypeOK, NEW c \in Calls, RecordPurchased(c), Local(c)
    PROVE  /\ pc'[c] = "done" /\ pc[c] = "purchased" /\ UNCHANGED <<request, found, commit>> /\ exec[c] \in Executions
           /\ \E n \in commit[c] : \A e \in Executions : journal'[e].state = "purchased" =>
                 \/ journal[e].state = "purchased" /\ journal'[e].node = journal[e].node
                 \/ e = exec[c] /\ journal'[e].node = n
<1>1. PICK n \in commit[c] :
         /\ pc[c] = "purchased" /\ pc' = [pc EXCEPT ![c] = "done"]
         /\ NotDurable(Attempt(c, "purchased", n)) \/ Committed(Attempt(c, "purchased", n))
         /\ UNCHANGED <<callVars, request>>
  BY DEF RecordPurchased, End
<1> DEFINE rec == Attempt(c, "purchased", n)
<1>2. n \in Calls /\ rec.exec = exec[c] /\ rec.node = n /\ exec[c] \in Executions
  <2>1. n \in Calls
    BY DEF TypeOK
  <2>2. exec[c] \in Executions
    BY DEF Local, Running, TypeOK, Started
  <2> QED BY <2>1, <2>2 DEF Attempt
<1>3. \A e \in Executions : journal'[e].state = "purchased" =>
        \/ journal[e].state = "purchased" /\ journal'[e].node = journal[e].node
        \/ e = exec[c] /\ journal'[e].node = n
  <2>1. CASE UNCHANGED journal
    BY <2>1
  <2>2. CASE Committed(rec)
    <3> HIDE DEF rec
    <3> QED BY <1>2, <2>2 DEF Committed, TypeOK
  <2> QED BY <1>1, <2>1, <2>2 DEF NotDurable
<1> QED BY <1>1, <1>2, <1>3 DEF callVars, TypeOK

LEMMA PurchasedContract ==
    ASSUME TypeOK, ContractInv, NEW c \in Calls, RecordPurchased(c), UNCHANGED caller
    PROVE  ContractInv'
<1>0. Local(c) /\ Running(c)
  BY CallIsLocal DEF CallStep, Local
<1>1. /\ pc'[c] = "done" /\ UNCHANGED <<request, found, commit>>
  BY <1>0, PurchaseWrite
<1>2. PICK n \in commit[c] : \A e \in Executions : journal'[e].state = "purchased" =>
                 \/ journal[e].state = "purchased" /\ journal'[e].node = journal[e].node
                 \/ e = exec[c] /\ journal'[e].node = n
  BY <1>0, PurchaseWrite
<1>3. n \in Calls /\ Started(n) /\ (Token(n) = Token(c) \/ Token(n) \in closed)
  BY <1>0 DEF TypeOK, ContractInv, Sees, Alone
<1>4. ASSUME NEW e \in Executions PROVE Attributed(e)'
  <2>1. \A d \in Calls : Token(d)' = Token(d) /\ (Started(d)' <=> Started(d))
    BY <1>0, LocalFrame
  <2> QED BY <1>0, <1>2, <1>3, <1>4, <2>1 DEF Attributed, ContractInv, Local, Token
<1>5. FoundEarlier(c)' /\ KnowsSends(c)' /\ ClearToSend(c)' /\ Sees(c)'
  BY <1>1 DEF FoundEarlier, KnowsSends, ClearToSend, ReadyToSend, Sees, Running
<1> QED BY <1>0, <1>1, <1>4, <1>5, LocalFrame, AliveFrame DEF ContractInv, Local

-----------------------------------------------------------------------------
(* No node is recorded for two tokens, nor about to be.                    *)

OneName ==
    /\ \A e, f \in Executions :
         (/\ journal[e].state = "purchased" /\ journal[f].state = "purchased"
          /\ journal[e].node = journal[f].node) => TokenOf[e] = TokenOf[f]
    /\ \A c \in Calls, e \in Executions :
         (Running(c) /\ journal[e].state = "purchased" /\ journal[e].node \in commit[c]) => TokenOf[e] = Token(c)

LEMMA QuietName ==
    ASSUME TypeOK, NEW c \in Calls, Local(c), ContractInv, OneName, NoNewPurchase,
           Running(c)' => \A n \in commit'[c], e \in Executions :
               (journal[e].state = "purchased" /\ journal[e].node = n) => TokenOf[e] = Token(c)
    PROVE  OneName'
<1>1. \A d \in Calls : Token(d)' = Token(d) /\ (Running(d)' => Running(d))
  BY LocalFrame
<1>2. ASSUME NEW d \in Calls, NEW e \in Executions,
             Running(d)', journal'[e].state = "purchased", journal'[e].node \in commit'[d]
      PROVE  TokenOf[e] = Token(d)'
  BY <1>1, <1>2 DEF OneName, NoNewPurchase, Local
<1> QED BY <1>2 DEF OneName, NoNewPurchase

LEMMA CallName ==
    ASSUME journaled, ClaimReader, TypeOK, TypeOK', ContractInv, OneName,
           NEW c \in Calls, CallStep(c) \/ Crash(c), UNCHANGED caller
    PROVE  OneName'
<1> USE DEF Goto, End, Forget, callVars
<1>0. Local(c) /\ Running(c)
  BY CallIsLocal DEF Local
<1>j. UNCHANGED journal => NoNewPurchase
  BY DEF NoNewPurchase
<1>u. \A n \in Unclaimed(c), e \in Executions :
        (journal[e].state = "purchased" /\ journal[e].node = n) => TokenOf[e] = Token(c)
  BY DEF Unclaimed, ReadsClaims, ClaimedByOthers
<1>c. \A n \in commit[c], e \in Executions :
        (journal[e].state = "purchased" /\ journal[e].node = n) => TokenOf[e] = Token(c)
  BY <1>0 DEF OneName
<1>1. CASE ReadPriors(c) \/ Scan(c) \/ CheckApprovedUpfront(c) \/ Send(c) \/ Rescan(c) \/ Crash(c)
  <2>1. UNCHANGED <<journal, commit>>
    BY <1>1 DEF ReadPriors, Scan, CheckApprovedUpfront, Send, Rescan, Crash
  <2> QED BY <1>0, <1>j, <1>c, <2>1, QuietName
<1>2. CASE AdoptRecorded(c)
  <2>1. UNCHANGED journal /\ pc'[c] = "done"
    BY <1>2 DEF AdoptRecorded, TypeOK
  <2> QED BY <1>0, <1>j, <2>1, QuietName DEF Running
<1>3. CASE CheckClaims(c) \/ RecheckClaims(c)
  <2>1. UNCHANGED journal /\ (commit'[c] = commit[c] \/ commit'[c] \subseteq Unclaimed(c))
    BY <1>3 DEF CheckClaims, RecheckClaims, Adopt, TypeOK
  <2> QED BY <1>0, <1>j, <1>c, <1>u, <2>1, QuietName
<1>4. CASE Await(c)
  <2>1. UNCHANGED journal /\ (commit'[c] = commit[c] \/ commit'[c] = {c})
    BY <1>4 DEF Await, Adopt, TypeOK
  <2>2. \A e \in Executions : (journal[e].state = "purchased" /\ journal[e].node = c) => TokenOf[e] = Token(c)
    BY <1>0, NotTaken
  <2> QED BY <1>0, <1>j, <1>c, <2>1, <2>2, QuietName
<1>5. ASSUME RecordSending(c) \/ RecordUnknown(c) PROVE OneName'
  <2>1. UNCHANGED commit
    BY <1>5 DEF RecordSending, RecordUnknown
  <2>2. PICK st \in {"sending", "outcome_unknown"} :
           NotDurable(Attempt(c, st, NoNode)) \/ Committed(Attempt(c, st, NoNode))
    BY <1>5 DEF RecordSending, RecordUnknown
  <2>3. NoNewPurchase
    BY <1>0, <2>2, UnboughtWrite
  <2> QED BY <1>0, <1>c, <2>1, <2>3, QuietName
<1>6. CASE RecordPurchased(c)
  <2>1. /\ pc'[c] = "done" /\ UNCHANGED commit /\ exec[c] \in Executions
    BY <1>0, <1>6, PurchaseWrite
  <2>2. PICK n \in commit[c] : \A e \in Executions : journal'[e].state = "purchased" =>
                 \/ journal[e].state = "purchased" /\ journal'[e].node = journal[e].node
                 \/ e = exec[c] /\ journal'[e].node = n
    BY <1>0, <1>6, PurchaseWrite
  <2>3. \A e \in Executions : (journal'[e].state = "purchased" /\ journal'[e].node = n) => TokenOf[e] = Token(c)
    BY <1>c, <2>2 DEF Token
  <2>4. ASSUME NEW e \in Executions, NEW f \in Executions, journal'[e].state = "purchased",
               journal'[f].state = "purchased", journal'[e].node = journal'[f].node
        PROVE  TokenOf[e] = TokenOf[f]
    <3>1. CASE journal'[e].node = n
      BY <2>3, <2>4, <3>1
    <3>2. CASE journal'[e].node # n
      BY <2>2, <2>4, <3>2 DEF OneName
    <3> QED BY <3>1, <3>2
  <2>5. ASSUME NEW d \in Calls, NEW e \in Executions, Running(d)', journal'[e].state = "purchased",
               journal'[e].node \in commit'[d]
        PROVE  TokenOf[e] = Token(d)'
    <3>1. d # c /\ Running(d) /\ Token(d)' = Token(d)
      BY <1>0, <2>1, <2>5, LocalFrame DEF Running
    <3>2. CASE journal[e].state = "purchased" /\ journal'[e].node = journal[e].node
      BY <2>1, <2>5, <3>1, <3>2 DEF OneName
    <3>3. CASE e = exec[c] /\ journal'[e].node = n
      <4>1. n \in Calls /\ n \in commit[d] /\ Share(c, n) /\ Share(d, n) /\ Started(c)
        BY <1>0, <2>1, <2>5, <3>1, <3>3 DEF ContractInv, Sees, TypeOK, Running, Started
      <4>2. Share(d, c)
        BY <4>1 DEF Share, SameCount
      <4>3. Token(d) = Token(c)
        BY <1>0, <3>1, <4>1, <4>2 DEF ContractInv, Alone
      <4> QED BY <3>1, <3>3, <4>3 DEF Token
    <3> QED BY <2>2, <2>5, <3>2, <3>3
  <2> QED BY <2>4, <2>5 DEF OneName
<1> QED BY <1>1, <1>2, <1>3, <1>4, <1>5, <1>6 DEF CallStep

-----------------------------------------------------------------------------
(* AWS serves a request that left, or changes a node of the account.       *)

Serves(c) ==
    /\ UNCHANGED <<contract, journaled, pc, exec, offer, priors, found, commit, result, journal, closed, now>>
    /\ \A d \in Calls \ {c} : UNCHANGED <<request[d], node[d]>>
    /\ \/ /\ request[c] = "inflight" /\ request'[c] \in {"accepted", "rejected"}
          /\ \/ UNCHANGED node[c]
             \/ /\ request'[c] = "accepted" /\ node'[c].state = "owned"
                /\ node'[c].offering = offer[c] /\ node'[c].start >= now - Skew
       \/ /\ UNCHANGED request[c]
          /\ node[c].state = "owned" /\ node'[c].state \in {"owned", "lapsed"}
          /\ node'[c].offering = node[c].offering /\ node'[c].start = node[c].start
          /\ node[c].listed => node'[c].listed

LEMMA AwsServes ==
    ASSUME TypeOK, NEW c \in Calls, AwsStep(c), UNCHANGED caller
    PROVE  Serves(c)
<1> USE DEF callVars, caller
<1>1. CASE Provision(c)
  <2>1. PICK s \in (now - Skew)..(now + Skew) :
           node' = [node EXCEPT ![c] = [state |-> "owned", listed |-> FALSE,
                                        offering |-> offer[c], start |-> s]]
    BY <1>1 DEF Provision
  <2>2. s >= now - Skew /\ node'[c].state = "owned" /\ node'[c].offering = offer[c] /\ node'[c].start = s
        /\ \A d \in Calls \ {c} : node'[d] = node[d]
    BY <2>1, ConstantsAssumption DEF ConstantsAssumption, TypeOK
  <2>3. /\ UNCHANGED <<pc, exec, offer, priors, found, commit, result, journal, closed, now>>
        /\ request[c] = "inflight" /\ request'[c] = "accepted"
        /\ \A d \in Calls \ {c} : request'[d] = request[d]
    BY <1>1 DEF Provision, TypeOK
  <2> QED BY <2>2, <2>3 DEF Serves
<1>2. CASE Reject(c)
  BY <1>2 DEF Reject, Serves, TypeOK
<1>3. CASE List(c) \/ Lapse(c)
  <2>0. node[c] \in NodeRecords /\ node \in [Calls -> NodeRecords]
    BY DEF TypeOK
  <2>1. /\ node[c].state = "owned" /\ node'[c].state \in {"owned", "lapsed"}
        /\ node'[c].offering = node[c].offering /\ node'[c].start = node[c].start
        /\ \A d \in Calls \ {c} : node'[d] = node[d]
    BY <1>3, <2>0 DEF List, Lapse, NodeRecords
  <2>2. node[c].listed => node'[c].listed
    BY <1>3, <2>0 DEF List, Lapse, NodeRecords
  <2>3. UNCHANGED <<pc, exec, offer, priors, found, commit, result, journal, closed, now, request>>
    BY <1>3 DEF List, Lapse
  <2> QED BY <2>1, <2>2, <2>3 DEF Serves
<1> QED BY <1>1, <1>2, <1>3 DEF AwsStep

LEMMA ServesStage ==
    ASSUME TypeOK, TypeOK', NEW c \in Calls, Serves(c), \A d \in Calls : Stage(d)
    PROVE  \A d \in Calls : Stage(d)'
<1>1. ASSUME NEW d \in Calls, d # c PROVE Stage(d)'
  BY <1>1 DEF Serves, Stage, Started, Bought, Token
<1>2. Stage(c)'
  <2>1. Stage(c) /\ Token(c)' = Token(c) /\ (Started(c)' <=> Started(c))
    BY DEF Serves, Token, Started
  <2>2. pc'[c] \in BeforeSend => request'[c] = "none"
    BY <2>1 DEF Serves, Stage, Bought
  <2>3. Bought(c)'
    <3>1. CASE request[c] = "inflight"
      <4>1. Started(c) /\ now >= RequestedAt[Token(c)] /\ node[c].state = "none"
        BY <2>1, <3>1 DEF Stage, BeforeSend, Started, Bought, TypeOK, NodeRecords
      <4>2. now \in Int /\ Skew \in Int /\ RequestedAt[Token(c)] \in Int
        <5>1. exec[c] \in Executions
          BY <4>1 DEF TypeOK
        <5> QED BY <5>1, ConstantsAssumption DEF ConstantsAssumption, TypeOK, Token
      <4>3. ASSUME node'[c].state = "owned", node'[c].start >= now - Skew
            PROVE  node'[c].start >= RequestedAt[Token(c)] - Skew
        <5>1. node'[c].start \in Int
          BY DEF TypeOK, NodeRecords
        <5> QED BY <4>1, <4>2, <4>3, <5>1
      <4> QED BY <2>1, <3>1, <4>1, <4>3 DEF Serves, Bought
    <3>2. CASE request[c] # "inflight"
      BY <2>1, <3>2 DEF Serves, Bought, Stage
    <3> QED BY <3>1, <3>2
  <2> QED BY <2>1, <2>2, <2>3 DEF Serves, Stage
<1> QED BY <1>1, <1>2

(* What a request in flight buys belongs to a token no other call of which *)
(* is running: a re-drive waits until the request has been answered.       *)
LEMMA ServesContract ==
    ASSUME TypeOK, NEW c \in Calls, Serves(c), \A d \in Calls : Stage(d), ContractInv
    PROVE  ContractInv'
<1>1. \A d \in Calls : /\ Token(d)' = Token(d) /\ (Started(d)' <=> Started(d)) /\ (Running(d)' <=> Running(d))
  BY DEF Serves, Token, Started, Running
<1>2. \A d \in Calls : Earlier(d)' = Earlier(d)
  BY <1>1 DEF Earlier
<1>3. Resolvable' <=> Resolvable
  BY <1>1 DEF Resolvable, StableOfferings, Serves
<1>4. ASSUME NEW d \in Calls, Settled(d) PROVE Settled(d)'
  BY <1>1, <1>4 DEF Settled, Serves
<1>5. ASSUME NEW d \in Calls PROVE Alone(d)'
  <2>1. \A x \in Calls : Share(d, x)' <=> Share(d, x)
    BY <1>1 DEF Share, SameCount, Serves
  <2>2. closed' = closed
    BY DEF Serves
  <2> QED BY <1>1, <1>4, <2>1, <2>2 DEF Alone, ContractInv
<1>6. ASSUME NEW d \in Calls PROVE Sees(d)'
  <2>1. \A n \in found[d] \cup commit[d] : n \in Calls
    BY DEF TypeOK
  <2> QED BY <1>1, <2>1 DEF Sees, ContractInv, Share, SameCount, Serves
<1>7. ASSUME NEW d \in Calls, Running(d), NEW x \in Earlier(d)
      PROVE  /\ node'[x].state = "owned" => node[x].state = "owned"
             /\ request'[x] # "none" => request[x] # "none"
  <2>1. x \in Calls /\ Settled(x)
    BY <1>7 DEF ContractInv, Alone, Earlier
  <2> QED BY <2>1 DEF Settled, Serves
<1>8. ASSUME NEW d \in Calls PROVE FoundEarlier(d)' /\ (KnowsSends(d) => KnowsSends(d)') /\ (ClearToSend(d) => ClearToSend(d)')
  <2>0. UNCHANGED <<pc, exec, offer, priors, found>> /\ FoundEarlier(d)
    BY DEF Serves, ContractInv
  <2>1. FoundEarlier(d)'
    BY <1>2, <1>7, <2>0 DEF FoundEarlier, Running
  <2>2. KnowsSends(d) => KnowsSends(d)'
    BY <1>2, <1>7, <2>0 DEF KnowsSends, Running
  <2>3. ClearToSend(d) => ClearToSend(d)'
    BY <1>2, <1>7, <2>0 DEF ClearToSend, Running, ReadyToSend
  <2> QED BY <2>1, <2>2, <2>3
<1>9. \A e \in Executions : Attributed(e)'
  BY <1>1 DEF Attributed, ContractInv, Serves
<1>10. OneAlive => OneAlive'
  <2>1. \A d \in Calls : Alive(d)' => Alive(d)
    BY DEF Alive, Serves
  <2> QED BY <1>1, <2>1 DEF OneAlive
<1> QED BY <1>3, <1>5, <1>6, <1>8, <1>9, <1>10 DEF ContractInv, Serves

-----------------------------------------------------------------------------
(* The caller starts a call or gives a lineage up; time passes.            *)

(* What a dispatch changes: one idle call gets its execution and offering. *)
Starts(c, e, o) ==
    /\ ~Started(c) /\ Started(c)' /\ pc'[c] \in {"priors", "scan", "done"}
    /\ now >= RequestedAt[TokenOf[e]] /\ MayDispatch(e, o)
    /\ exec'[c] = e /\ offer'[c] = o
    /\ result'[c] = result[c] \/ result'[c] # "success"
    /\ \A d \in Calls \ {c} : UNCHANGED <<pc[d], exec[d], offer[d], result[d]>>
    /\ UNCHANGED <<contract, journaled, priors, found, commit, request, node, journal, closed, now>>
    /\ journaled => pc'[c] # "scan"

LEMMA DispatchStarts ==
    ASSUME TypeOK, NEW c \in Calls, NEW e \in Executions, NEW o \in Offerings, Dispatch(c, e, o),
           UNCHANGED caller
    PROVE  Starts(c, e, o)
<1>1. /\ pc[c] = "idle" /\ now >= RequestedAt[TokenOf[e]] /\ MayDispatch(e, o)
      /\ exec' = [exec EXCEPT ![c] = e] /\ offer' = [offer EXCEPT ![c] = o]
      /\ UNCHANGED <<contract, journaled, priors, found, commit, request, node, journal, closed, now>>
  BY DEF Dispatch, caller
<1>2. /\ pc'[c] \in {"priors", "scan", "done"} /\ (journaled => pc'[c] # "scan")
      /\ result'[c] = result[c] \/ result'[c] # "success"
      /\ \A d \in Calls \ {c} : UNCHANGED <<pc[d], result[d]>>
  BY DEF Dispatch, Goto, End, TypeOK
<1> QED BY <1>1, <1>2 DEF Starts, Started, TypeOK

LEMMA StartsStage ==
    ASSUME TypeOK, NEW c \in Calls, NEW e \in Executions, NEW o \in Offerings, Starts(c, e, o),
           \A d \in Calls : Stage(d)
    PROVE  \A d \in Calls : Stage(d)'
<1>1. ASSUME NEW d \in Calls, d # c PROVE Stage(d)'
  BY <1>1 DEF Starts, Stage, Started, Bought, Token
<1>2. Stage(c)'
  BY DEF Starts, Stage, Started, Bought, Token, BeforeSend
<1> QED BY <1>1, <1>2

LEMMA StartsRecorded ==
    ASSUME TypeOK, NEW c \in Calls, NEW e \in Executions, NEW o \in Offerings, Starts(c, e, o),
           \A d \in Calls : Stage(d) /\ Recorded(d)
    PROVE  \A d \in Calls : Recorded(d)'
<1>1. ASSUME NEW d \in Calls, d # c PROVE Recorded(d)'
  <2>1. Lasting
    BY DEF Lasting, Starts
  <2> QED BY <1>1, <2>1, RecordedFrame DEF Starts
<1>2. Recorded(c)'
  <2>1. result[c] # "success" /\ priors[c] = {}
    BY DEF Recorded, Stage, Starts, Started
  <2> QED BY <2>1 DEF Recorded, Starts
<1> QED BY <1>1, <1>2

(* A call starts alone: this is what MayDispatch is for.                   *)
LEMMA StartsContract ==
    ASSUME TypeOK, NEW c \in Calls, NEW e \in Executions, NEW o \in Offerings, Starts(c, e, o),
           contract, \A d \in Calls : Stage(d), ContractInv
    PROVE  ContractInv'
<1>1. \A d \in Calls \ {c} : /\ Token(d)' = Token(d) /\ (Started(d)' <=> Started(d)) /\ (Running(d)' <=> Running(d))
                             /\ offer'[d] = offer[d]
  BY DEF Starts, Token, Started, Running
<1>2. /\ Token(c)' = TokenOf[e] /\ ~Running(c) /\ Started(c)' /\ ~Started(c)
      /\ priors[c] = {} /\ found[c] = {} /\ commit[c] = {} /\ request[c] = "none" /\ node[c].state # "owned"
  BY DEF Starts, Token, Started, Running, Stage, Bought, BeforeSend
<1>3. UNCHANGED <<contract, journaled, priors, found, commit, request, node, journal, closed, now>>
  BY DEF Starts
<1>4. /\ TokenOf[e] \notin closed
      /\ \A d \in Calls : (Started(d) /\ Token(d) = TokenOf[e]) => Settled(d)
      /\ \A d \in Calls : (Started(d) /\ Token(d) # TokenOf[e] /\ Confusable(d, e, o)) => Token(d) \in closed
  BY DEF Starts, MayDispatch, Settled
<1>5. \A d \in Calls \ {c} : Settled(d)' <=> Settled(d)
  BY <1>1, <1>3 DEF Settled
<1>6. Alone(c)'
  <2>1. \A d \in Calls \ {c} : Share(c, d)' <=> Confusable(d, e, o)
    BY <1>1, <1>2 DEF Share, SameCount, Confusable, Starts
  <2> QED BY <1>1, <1>2, <1>3, <1>4, <1>5, <2>1 DEF Alone
<1>7. ASSUME NEW d \in Calls \ {c}, Running(d) PROVE Token(d) # TokenOf[e] /\ ~Confusable(d, e, o)
  <2>1. Started(d) /\ Token(d) \notin closed /\ ~Settled(d)
    BY <1>7 DEF ContractInv, Alone, Running, Started, Settled
  <2> QED BY <1>4, <2>1
<1>8. ASSUME NEW d \in Calls \ {c} PROVE Alone(d)'
  <2> SUFFICES ASSUME Running(d)'
               PROVE  /\ Token(d) \notin closed
                      /\ \A x \in Calls \ {d} : Started(x)' =>
                           IF Token(x)' = Token(d) THEN Settled(x)' ELSE Share(d, x)' => Token(x)' \in closed
    BY <1>1, <1>3 DEF Alone
  <2>1. Running(d) /\ Token(d) \notin closed
    BY <1>1 DEF ContractInv, Alone
  <2>2. Token(c)' # Token(d) /\ ~Share(d, c)'
    BY <1>1, <1>2, <1>7, <2>1 DEF Share, SameCount, Confusable, Starts
  <2>3. ASSUME NEW x \in Calls \ {c, d}, Started(x)'
        PROVE  IF Token(x)' = Token(d) THEN Settled(x)' ELSE Share(d, x)' => Token(x)' \in closed
    BY <1>1, <1>5, <2>1, <2>3 DEF ContractInv, Alone, Share, SameCount
  <2> QED BY <2>1, <2>2, <2>3
<1>9. ASSUME NEW d \in Calls PROVE Sees(d)'
  <2>1. CASE d = c
    BY <1>2, <1>3, <2>1 DEF Sees
  <2>2. CASE d # c
    <3>1. \A n \in found[d] \cup commit[d] : n \in Calls
      BY DEF TypeOK
    <3>2. \A n \in Calls : (Started(n) /\ Share(d, n)) => (Started(n)' /\ Share(d, n)')
      BY <1>1, <1>2, <2>2 DEF Share, SameCount
    <3> QED BY <1>1, <1>3, <2>2, <3>1, <3>2 DEF ContractInv, Sees
  <2> QED BY <2>1, <2>2
<1>10. ASSUME NEW d \in Calls \ {c}, Running(d) PROVE Earlier(d)' = Earlier(d)
  BY <1>1, <1>2, <1>7, <1>10 DEF Earlier
<1>11. ASSUME NEW d \in Calls \ {c}
       PROVE FoundEarlier(d)' /\ (KnowsSends(d) => KnowsSends(d)') /\ (ClearToSend(d) => ClearToSend(d)')
  <2>0. pc'[d] = pc[d] /\ FoundEarlier(d) /\ Earlier(d) \subseteq Calls \ {d}
    BY <1>11 DEF Starts, ContractInv, Earlier
  <2>1. Running(d) => \A x \in Earlier(d) : x # c
    BY <1>2 DEF Earlier
  <2>2. FoundEarlier(d)'
    BY <1>1, <1>3, <1>10, <2>0, <2>1 DEF FoundEarlier, Running
  <2>3. KnowsSends(d) => KnowsSends(d)'
    <3>1. ASSUME Running(d), NEW x \in Earlier(d) PROVE exec'[x] = exec[x] /\ offer'[x] = offer[x]
      BY <2>0, <2>1, <3>1 DEF Starts
    <3> QED BY <1>3, <1>10, <2>0, <3>1 DEF KnowsSends, Running
  <2>4. ClearToSend(d) => ClearToSend(d)'
    BY <1>3, <1>10, <2>0 DEF ClearToSend, Running, ReadyToSend
  <2> QED BY <2>2, <2>3, <2>4
<1>12. FoundEarlier(c)' /\ ClearToSend(c)' /\ (journaled => KnowsSends(c)')
  BY DEF FoundEarlier, ClearToSend, KnowsSends, ReadyToSend, Starts
<1>13. ASSUME NEW f \in Executions PROVE Attributed(f)'
  BY <1>1, <1>2, <1>3 DEF Attributed, ContractInv
<1>14. Resolvable' => Resolvable
  <2>1. \A d \in Calls : Started(d) => d # c
    BY <1>2
  <2> QED BY <1>1, <1>3, <2>1 DEF Resolvable, StableOfferings
<1>15. OneAlive => OneAlive'
  <2>1. \A d \in Calls : Alive(d)' => d # c /\ Alive(d)
    BY <1>2, <1>3 DEF Alive
  <2> QED BY <1>1, <2>1 DEF OneAlive
<1> QED BY <1>3, <1>6, <1>8, <1>9, <1>11, <1>12, <1>13, <1>14, <1>15 DEF ContractInv

LEMMA CloseContract ==
    ASSUME TypeOK, NEW t \in Tokens, Close(t), UNCHANGED caller, ContractInv
    PROVE  ContractInv'
<1> USE DEF callVars, caller
<1>1. /\ UNCHANGED <<contract, journaled, pc, exec, offer, priors, found, commit, result, request, node, journal, now>>
      /\ closed' = closed \cup {t} /\ \A c \in Calls : Running(c) => Token(c) # t
  BY DEF Close, Started, Running
<1>2. \A d \in Calls : /\ Token(d)' = Token(d) /\ (Started(d)' <=> Started(d)) /\ (Running(d)' <=> Running(d))
                       /\ Earlier(d)' = Earlier(d) /\ (Settled(d)' <=> Settled(d))
  BY <1>1 DEF Token, Started, Running, Earlier, Settled
<1>3. ASSUME NEW d \in Calls PROVE Alone(d)'
  BY <1>1, <1>2 DEF Alone, ContractInv, Share, SameCount
<1>4. ASSUME NEW d \in Calls
      PROVE  Sees(d)' /\ FoundEarlier(d)' /\ (KnowsSends(d) => KnowsSends(d)') /\ (ClearToSend(d) => ClearToSend(d)')
  <2>1. \A n \in found[d] \cup commit[d] : n \in Calls
    BY DEF TypeOK
  <2>2. Sees(d)'
    BY <1>1, <1>2, <2>1 DEF ContractInv, Sees, Share, SameCount
  <2>3. FoundEarlier(d)' /\ (KnowsSends(d) => KnowsSends(d)') /\ (ClearToSend(d) => ClearToSend(d)')
    BY <1>1, <1>2 DEF ContractInv, FoundEarlier, KnowsSends, ClearToSend
  <2> QED BY <2>2, <2>3
<1>5. ASSUME NEW f \in Executions PROVE Attributed(f)'
  BY <1>1, <1>2 DEF Attributed, ContractInv
<1>6. Resolvable' <=> Resolvable
  BY <1>1, <1>2 DEF Resolvable, StableOfferings
<1>7. OneAlive => OneAlive'
  BY <1>1, <1>2 DEF OneAlive, Alive
<1> QED BY <1>1, <1>3, <1>4, <1>5, <1>6, <1>7 DEF ContractInv

-----------------------------------------------------------------------------
(* The invariant of the whole component.                                   *)

PurchaseInv ==
    /\ TypeOK
    /\ \A c \in Calls : Stage(c)
    /\ journaled => JournalInv /\ \A c \in Calls : Recorded(c)
    /\ contract => ContractInv
    /\ (contract /\ journaled /\ ClaimReader) => OneName

LEMMA InitInv == Init => PurchaseInv
<1> SUFFICES ASSUME Init PROVE PurchaseInv OBVIOUS
<1>1. TypeOK /\ JournalInv
  BY InitType, InitJournal
<1>2. \A c \in Calls : /\ pc[c] = "idle" /\ result[c] = "none" /\ request[c] = "none" /\ node[c].state = "none"
                       /\ priors[c] = {} /\ found[c] = {} /\ commit[c] = {}
  BY DEF Init
<1>3. \A e \in Executions : journal[e].state = "none"
  BY DEF Init
<1>4. \A c \in Calls : Stage(c) /\ Recorded(c)
  BY <1>2 DEF Stage, Recorded, Bought, Started
<1>5. ContractInv
  BY <1>2, <1>3 DEF ContractInv, Alone, Sees, FoundEarlier, KnowsSends, ClearToSend, ReadyToSend,
                    Attributed, OneAlive, Alive, Running
<1>6. OneName
  BY <1>3 DEF OneName
<1> QED BY <1>1, <1>4, <1>5, <1>6 DEF PurchaseInv

LEMMA NextInv == PurchaseInv /\ [Next]_vars => PurchaseInv'
<1> SUFFICES ASSUME PurchaseInv, [Next]_vars PROVE PurchaseInv' OBVIOUS
<1>0. UNCHANGED caller /\ contract' = contract /\ journaled' = journaled
  BY DEF Next, vars, caller
<1>1. TypeOK /\ TypeOK' /\ (journaled => JournalInv) /\ (journaled => JournalInv')
      /\ (\A c \in Calls : Stage(c)) /\ (journaled => \A c \in Calls : Recorded(c)) /\ (contract => ContractInv)
      /\ ((contract /\ journaled /\ ClaimReader) => OneName)
  BY NextType, NextJournal DEF PurchaseInv
<1>2. ASSUME NEW c \in Calls, CallStep(c) \/ Crash(c) PROVE PurchaseInv'
  <2>1. \A d \in Calls : Stage(d)'
    BY <1>0, <1>1, <1>2, CallIsLocal, LocalStage
  <2>2. journaled => \A d \in Calls : Recorded(d)'
    BY <1>0, <1>1, <1>2, CallRecorded
  <2>3. contract => ContractInv'
    <3>1. CASE RecordPurchased(c)
      BY <1>0, <1>1, <3>1, PurchasedContract
    <3>2. CASE ~RecordPurchased(c)
      BY <1>0, <1>1, <1>2, <3>2, CallContract
    <3> QED BY <3>1, <3>2
  <2>4. (contract /\ journaled /\ ClaimReader) => OneName'
    BY <1>0, <1>1, <1>2, CallName
  <2> QED BY <1>0, <1>1, <2>1, <2>2, <2>3, <2>4 DEF PurchaseInv
<1>3. ASSUME NEW c \in Calls, AwsStep(c) PROVE PurchaseInv'
  <2>0. Serves(c)
    BY <1>0, <1>1, <1>3, AwsServes
  <2>1. \A d \in Calls : Stage(d)'
    BY <1>1, <2>0, ServesStage
  <2>2. Lasting
    BY <2>0 DEF Lasting, Serves
  <2>3. journaled => \A d \in Calls : Recorded(d)'
    BY <1>1, <2>0, <2>2, RecordedFrame DEF Serves
  <2>4. contract => ContractInv'
    BY <1>1, <2>0, ServesContract
  <2>5. OneName => OneName'
    BY <2>0 DEF OneName, Serves, Running, Token
  <2> QED BY <1>0, <1>1, <2>1, <2>3, <2>4, <2>5 DEF PurchaseInv
<1>4. ASSUME NEW c \in Calls, NEW e \in Executions, NEW o \in Offerings, Dispatch(c, e, o) PROVE PurchaseInv'
  <2>0. Starts(c, e, o)
    BY <1>0, <1>1, <1>4, DispatchStarts
  <2>1. \A d \in Calls : Stage(d)'
    BY <1>1, <2>0, StartsStage
  <2>2. journaled => \A d \in Calls : Recorded(d)'
    BY <1>1, <2>0, StartsRecorded
  <2>3. contract => ContractInv'
    BY <1>1, <2>0, StartsContract
  <2>4. OneName => OneName'
    <3>1. commit[c] = {}
      BY <1>1, <2>0 DEF Stage, Starts, Started
    <3>2. \A d \in Calls \ {c} : Token(d)' = Token(d) /\ (Running(d)' <=> Running(d))
      BY <2>0 DEF Starts, Token, Running
    <3>3. UNCHANGED <<journal, commit>>
      BY <2>0 DEF Starts
    <3> QED BY <3>1, <3>2, <3>3 DEF OneName
  <2> QED BY <1>0, <1>1, <2>1, <2>2, <2>3, <2>4 DEF PurchaseInv
<1>5. ASSUME Tick \/ (\E t \in Tokens : Close(t)) \/ UNCHANGED vars PROVE PurchaseInv'
  <2>0. UNCHANGED <<pc, exec, offer, priors, found, commit, result, request, node, journal>>
    BY <1>5 DEF Tick, Close, vars, callVars
  <2>1. \A d \in Calls : Stage(d)'
    <3>1. now' \in Int /\ now \in Int /\ now' >= now
      BY <1>1, <1>5 DEF TypeOK, Tick, Close, vars
    <3>2. ASSUME NEW d \in Calls, Started(d) PROVE RequestedAt[Token(d)] \in Int
      BY <1>1, <3>2, ConstantsAssumption DEF ConstantsAssumption, TypeOK, Token
    <3> QED BY <1>1, <2>0, <3>1, <3>2 DEF Stage, Started, Bought, Token
  <2>2. Lasting
    BY <2>0 DEF Lasting
  <2>3. journaled => \A d \in Calls : Recorded(d)'
    BY <1>1, <2>0, <2>2, RecordedFrame
  <2>4. contract => ContractInv'
    <3>1. CASE \E t \in Tokens : Close(t)
      BY <1>0, <1>1, <3>1, CloseContract
    <3>2. CASE ~\E t \in Tokens : Close(t)
      <4>1. closed' = closed
        BY <1>5, <3>2 DEF Tick, vars
      <4>2. \A d \in Calls : /\ Token(d)' = Token(d) /\ (Started(d)' <=> Started(d)) /\ (Running(d)' <=> Running(d))
                             /\ Earlier(d)' = Earlier(d) /\ (Settled(d)' <=> Settled(d)) /\ (Alive(d)' <=> Alive(d))
        BY <2>0 DEF Token, Started, Running, Earlier, Settled, Alive
      <4>3. \A d \in Calls : /\ (Alone(d)' <=> Alone(d)) /\ (FoundEarlier(d)' <=> FoundEarlier(d))
                             /\ (KnowsSends(d)' <=> KnowsSends(d)) /\ (ClearToSend(d)' <=> ClearToSend(d))
        BY <2>0, <4>1, <4>2 DEF Alone, Share, SameCount, FoundEarlier, KnowsSends, ClearToSend
      <4>4. \A d \in Calls : Sees(d) => Sees(d)'
        BY <1>1, <2>0, <4>2 DEF Sees, Share, SameCount, TypeOK
      <4>5. /\ \A e \in Executions : Attributed(e) => Attributed(e)'
            /\ (OneAlive' <=> OneAlive) /\ (Resolvable' <=> Resolvable)
        BY <1>0, <2>0, <4>1, <4>2 DEF Attributed, OneAlive, Resolvable, StableOfferings
      <4> QED BY <1>0, <1>1, <4>3, <4>4, <4>5 DEF ContractInv
    <3> QED BY <3>1, <3>2
  <2>5. OneName => OneName'
    BY <2>0 DEF OneName, Running, Token
  <2> QED BY <1>0, <1>1, <2>1, <2>3, <2>4, <2>5 DEF PurchaseInv
<1> QED BY <1>2, <1>3, <1>4, <1>5 DEF Next, Step

LEMMA InvHolds == Spec => []PurchaseInv
BY InitInv, NextInv, PTL DEF Spec

(* A success on the journal path is durable: the journal of the call's     *)
(* token names the node it reports (recordPurchased demotes a success it   *)
(* could not record), whatever the caller does.                            *)
THEOREM SuccessIsDurable == Spec => []SuccessIsRecorded
<1>1. PurchaseInv => SuccessIsRecorded
  BY DEF PurchaseInv, Recorded, Names, SuccessIsRecorded
<1> QED BY <1>1, InvHolds, PTL

(* A token owns at most one node when its caller keeps the contract of     *)
(* findMatchingNodes: with a journal, or without one when the offering     *)
(* resolves the same again.                                                *)
THEOREM OwnsOne == Spec => []TokenOwnsOne
<1>1. PurchaseInv => TokenOwnsOne
  BY DEF PurchaseInv, ContractInv, Resolvable, OneAlive, Alive, TokenOwnsOne
<1> QED BY <1>1, InvHolds, PTL

-----------------------------------------------------------------------------
(* The refinement of AtMostOncePurchase.                                   *)

(* The nodes a token owns, and those its calls reported as bought.         *)
LiveNodes ==
    [t \in Tokens |-> {c \in Calls : contract /\ journaled /\ node[c].state = "owned" /\ Token(c) = t}]

Reported ==
    [t \in Tokens |-> UNION {commit[c] : c \in {d \in Calls :
        contract /\ journaled /\ result[d] = "success" /\ Token(d) = t}}]

LEMMA BuyStep ==
    ASSUME NEW t \in Tokens, NEW n \in Calls,
           LiveNodes[t] = {}, \A u \in Tokens : n \notin LiveNodes[u],
           LiveNodes' = [LiveNodes EXCEPT ![t] = {n}], Reported' = Reported
    PROVE  Promise!Next
<1>1. Promise!Buy(t, n)
  BY DEF Promise!Buy, LiveNodes, Reported
<1> QED BY <1>1 DEF Promise!Next

LEMMA LapseStep ==
    ASSUME NEW t \in Tokens, NEW n \in Calls, n \in LiveNodes[t],
           LiveNodes' = [LiveNodes EXCEPT ![t] = @ \ {n}], Reported' = Reported
    PROVE  Promise!Next
<1>1. Promise!Lapse(t, n)
  BY DEF Promise!Lapse, LiveNodes, Reported
<1> QED BY <1>1 DEF Promise!Next

LEMMA ReportStep ==
    ASSUME NEW t \in Tokens, NEW n \in Calls,
           \A u \in Tokens \ {t} : n \notin Reported[u],
           Reported' = [Reported EXCEPT ![t] = @ \cup {n}], LiveNodes' = LiveNodes
    PROVE  Promise!Next
<1>1. Promise!Report(t, n)
  BY DEF Promise!Report, LiveNodes, Reported
<1> QED BY <1>1 DEF Promise!Next

(* A step of a call shows nothing, or reports the node its token's journal *)
(* names, which no other token's journal does.                             *)
LEMMA CallRefines ==
    ASSUME contract, journaled, ClaimReader, PurchaseInv, PurchaseInv', NEW c \in Calls, Local(c)
    PROVE  Promise!Next \/ UNCHANGED <<LiveNodes, Reported>>
<1>0. /\ contract' /\ journaled' /\ result[c] # "success"
      /\ \A d \in Calls : Token(d)' = Token(d)
      /\ \A d \in Calls \ {c} : UNCHANGED <<commit[d], result[d]>>
  BY DEF Local, Token, PurchaseInv, Recorded, Running
<1>1. LiveNodes' = LiveNodes
  BY <1>0 DEF LiveNodes, Local
<1>2. CASE result'[c] # "success"
  <2>1. \A t \in Tokens :
          UNION {commit'[d] : d \in {x \in Calls : result'[x] = "success" /\ Token(x) = t}} = Reported[t]
    BY <1>0, <1>2 DEF Reported
  <2>2. Reported' = [t \in Tokens |-> UNION {commit'[d] : d \in {x \in Calls : result'[x] = "success" /\ Token(x) = t}}]
    BY <1>0 DEF Reported
  <2>3. Reported = [t \in Tokens |-> Reported[t]]
    BY DEF Reported
  <2> QED BY <1>1, <2>1, <2>2, <2>3
<1>3. CASE result'[c] = "success"
  <2> DEFINE k == Token(c)
  <2>1. k \in Tokens
    BY ConstantsAssumption DEF ConstantsAssumption, PurchaseInv, TypeOK, Token, Local, Running, Started
  <2>2. PICK n \in Calls : commit'[c] = {n} /\ Names(c, n)'
    BY <1>0, <1>3 DEF PurchaseInv, Recorded
  <2>3. ASSUME NEW d \in Calls \ {c}, result[d] = "success", n \in commit[d] PROVE Token(d) = k
    <3>1. Names(d, n)'
      BY <1>0, <2>3 DEF PurchaseInv, Recorded
    <3>2. OneName'
      BY <1>0 DEF PurchaseInv
    <3> QED BY <1>0, <2>2, <3>1, <3>2 DEF Names, OneName
  <2>4. \A u \in Tokens \ {k} : n \notin Reported[u]
    BY <1>0, <2>3 DEF Reported
  <2>5. ASSUME NEW t \in Tokens
        PROVE  UNION {commit'[d] : d \in {x \in Calls : result'[x] = "success" /\ Token(x) = t}} =
                 IF t = k THEN Reported[t] \cup {n} ELSE Reported[t]
    BY <1>0, <1>3, <2>2 DEF Reported
  <2>6. Reported' = [t \in Tokens |-> UNION {commit'[d] : d \in {x \in Calls : result'[x] = "success" /\ Token(x) = t}}]
    BY <1>0 DEF Reported
  <2>7. Reported = [t \in Tokens |-> Reported[t]]
    BY DEF Reported
  <2> HIDE DEF k
  <2>8. Reported' = [Reported EXCEPT ![k] = @ \cup {n}]
    BY <2>1, <2>5, <2>6, <2>7
  <2> QED BY <1>1, <2>1, <2>4, <2>8, ReportStep
<1> QED BY <1>2, <1>3

(* AWS buys for a token that owns nothing, since the request was the only  *)
(* thing alive of it.                                                      *)
LEMMA ServesRefines ==
    ASSUME contract, journaled, PurchaseInv, NEW c \in Calls, Serves(c)
    PROVE  Promise!Next \/ UNCHANGED <<LiveNodes, Reported>>
<1> DEFINE k == Token(c)
           owned(t) == {d \in Calls : node'[d].state = "owned" /\ Token(d) = t}
<1>0. /\ contract' /\ journaled'
      /\ \A d \in Calls : Token(d)' = Token(d)
      /\ \A d \in Calls \ {c} : node'[d] = node[d]
  BY DEF Serves, Token
<1>1. Reported' = Reported
  BY <1>0 DEF Reported, Serves
<1>2. LiveNodes' = [t \in Tokens |-> owned(t)] /\ LiveNodes = [t \in Tokens |-> LiveNodes[t]]
  BY <1>0 DEF LiveNodes
<1>3. CASE (node'[c].state = "owned") <=> (node[c].state = "owned")
  <2>1. \A t \in Tokens : owned(t) = LiveNodes[t]
    BY <1>0, <1>3 DEF LiveNodes
  <2> QED BY <1>1, <1>2, <2>1
<1>4. CASE node'[c].state = "owned" /\ node[c].state # "owned"
  <2>1. Alive(c) /\ k \in Tokens
    <3>1. request[c] = "inflight"
      BY <1>4 DEF Serves
    <3>2. Started(c)
      BY <3>1 DEF PurchaseInv, Stage, BeforeSend, Started
    <3> QED BY <3>1, <3>2, ConstantsAssumption DEF Alive, ConstantsAssumption, PurchaseInv, TypeOK, Token
  <2>2. ASSUME NEW d \in Calls, Token(d) = k PROVE node[d].state # "owned"
    BY <1>4, <2>1, <2>2 DEF PurchaseInv, ContractInv, Resolvable, OneAlive, Alive
  <2>3. LiveNodes[k] = {} /\ \A u \in Tokens : c \notin LiveNodes[u]
    BY <1>4, <2>1, <2>2 DEF LiveNodes
  <2>4. \A t \in Tokens : owned(t) = IF t = k THEN {c} ELSE LiveNodes[t]
    BY <1>0, <1>4, <2>2 DEF LiveNodes
  <2> HIDE DEF k, owned
  <2>5. LiveNodes' = [LiveNodes EXCEPT ![k] = {c}]
    BY <1>2, <2>1, <2>4
  <2> QED BY <1>1, <2>1, <2>3, <2>5, BuyStep
<1>5. CASE node'[c].state # "owned" /\ node[c].state = "owned"
  <2>1. k \in Tokens
    <3>1. Started(c)
      BY <1>5 DEF PurchaseInv, Stage, Bought, BeforeSend, Started
    <3> QED BY <3>1, ConstantsAssumption DEF ConstantsAssumption, PurchaseInv, TypeOK, Token
  <2>2. c \in LiveNodes[k]
    BY <1>5, <2>1 DEF LiveNodes
  <2>3. \A t \in Tokens : owned(t) = IF t = k THEN LiveNodes[t] \ {c} ELSE LiveNodes[t]
    BY <1>0, <1>5 DEF LiveNodes
  <2> HIDE DEF k, owned
  <2>4. LiveNodes' = [LiveNodes EXCEPT ![k] = @ \ {c}]
    BY <1>2, <2>1, <2>3
  <2> QED BY <1>1, <2>1, <2>2, <2>4, LapseStep
<1> QED BY <1>3, <1>4, <1>5

LEMMA StartsRefines ==
    ASSUME journaled, PurchaseInv, NEW c \in Calls, NEW e \in Executions, NEW o \in Offerings, Starts(c, e, o)
    PROVE  UNCHANGED <<LiveNodes, Reported>>
<1>1. /\ contract' = contract /\ journaled' = journaled /\ node' = node /\ commit' = commit
      /\ node[c].state # "owned" /\ result[c] # "success" /\ result'[c] # "success"
      /\ \A d \in Calls \ {c} : Token(d)' = Token(d) /\ result'[d] = result[d]
  BY DEF Starts, PurchaseInv, Stage, Bought, BeforeSend, Started, Recorded, Token
<1>2. \A d \in Calls, t \in Tokens :
        /\ (node[d].state = "owned" /\ Token(d)' = t) <=> (node[d].state = "owned" /\ Token(d) = t)
        /\ (result'[d] = "success" /\ Token(d)' = t) <=> (result[d] = "success" /\ Token(d) = t)
  BY <1>1
<1>3. LiveNodes' = LiveNodes
  BY <1>1, <1>2 DEF LiveNodes
<1>4. \A t \in Tokens :
         {d \in Calls : contract' /\ journaled' /\ result'[d] = "success" /\ Token(d)' = t}
       = {d \in Calls : contract /\ journaled /\ result[d] = "success" /\ Token(d) = t}
  BY <1>1, <1>2
<1>5. Reported' = Reported
  BY <1>1, <1>4 DEF Reported
<1> QED BY <1>3, <1>5

LEMMA StepRefines ==
    ASSUME ClaimReader PROVE PurchaseInv /\ [Next]_vars => PurchaseInv' /\ [Promise!Next]_<<LiveNodes, Reported>>
<1> SUFFICES ASSUME PurchaseInv, [Next]_vars
             PROVE  PurchaseInv' /\ (Promise!Next \/ UNCHANGED <<LiveNodes, Reported>>)
  OBVIOUS
<1>0. PurchaseInv' /\ UNCHANGED caller /\ contract' = contract /\ journaled' = journaled /\ TypeOK
  BY NextInv DEF Next, vars, caller, PurchaseInv
<1>1. CASE ~(contract /\ journaled)
  <2>1. LiveNodes' = [t \in Tokens |-> {}] /\ LiveNodes = [t \in Tokens |-> {}]
    BY <1>0, <1>1 DEF LiveNodes
  <2>2. Reported' = [t \in Tokens |-> {}] /\ Reported = [t \in Tokens |-> {}]
    BY <1>0, <1>1 DEF Reported
  <2> QED BY <1>0, <2>1, <2>2
<1>2. CASE contract /\ journaled
  <2>1. ASSUME NEW c \in Calls, CallStep(c) \/ Crash(c) PROVE Promise!Next \/ UNCHANGED <<LiveNodes, Reported>>
    BY <1>0, <1>2, <2>1, CallIsLocal, CallRefines
  <2>2. ASSUME NEW c \in Calls, AwsStep(c) PROVE Promise!Next \/ UNCHANGED <<LiveNodes, Reported>>
    BY <1>0, <1>2, <2>2, AwsServes, ServesRefines
  <2>3. ASSUME NEW c \in Calls, NEW e \in Executions, NEW o \in Offerings, Dispatch(c, e, o)
        PROVE  UNCHANGED <<LiveNodes, Reported>>
    BY <1>0, <1>2, <2>3, DispatchStarts, StartsRefines
  <2>4. ASSUME Tick \/ (\E t \in Tokens : Close(t)) \/ UNCHANGED vars PROVE UNCHANGED <<LiveNodes, Reported>>
    <3>1. UNCHANGED <<exec, commit, result, node>>
      BY <2>4 DEF Tick, Close, vars, callVars
    <3> QED BY <1>0, <3>1 DEF LiveNodes, Reported, Token
  <2> QED BY <1>0, <2>1, <2>2, <2>3, <2>4 DEF Next, Step
<1> QED BY <1>1, <1>2

LEMMA InitRefines == Init => PurchaseInv /\ Promise!Init
<1> SUFFICES ASSUME Init PROVE PurchaseInv /\ Promise!Init OBVIOUS
<1>1. \A c \in Calls : node[c].state = "none" /\ commit[c] = {}
  BY DEF Init
<1>2. LiveNodes = [t \in Tokens |-> {}] /\ Reported = [t \in Tokens |-> {}]
  BY <1>1 DEF LiveNodes, Reported
<1> QED BY <1>2, InitInv DEF Promise!Init, LiveNodes, Reported

(* With a journal that lists the claims of other tokens (ClaimReader) and  *)
(* under the caller contract, PurchaseCommitment implements the promise of *)
(* AtMostOncePurchase: it buys for a token that owns nothing, and reports  *)
(* a node for one token only.                                              *)
THEOREM ImplementsPromise ==
    ASSUME ClaimReader PROVE Spec => BuysAtMostOnce
BY InitRefines, StepRefines, PTL DEF Spec, BuysAtMostOnce, Promise!Spec, LiveNodes, Reported

=============================================================================
