------------------------ MODULE AzureCollectionProofs ------------------------
(***************************************************************************)
(* Proofs about AzureCollection for every set of callers, credentials,     *)
(* subscriptions and services and every number of slots: what callers of   *)
(* the provider are served, whose cancellation they can fail with, how     *)
(* many calls a sweep has in flight, and what its report accounts for.     *)
(***************************************************************************)
EXTENDS AzureCollection, FiniteSetTheorems, TLAPS

-----------------------------------------------------------------------------
(* The provider: the inductive invariant.                                  *)

(* A caller holds nothing before a request; past IsConfigured a credential *)
(* is installed; between taking the singleflight key and the outcome it    *)
(* flies.                                                                  *)
Early == {"start", "once", "resolve", "install", "read", "generation", "do", "wait", "recheck", "snapshot"}
Flying == {"do", "wait", "recheck", "snapshot", "fetch", "publish", "deliver"}
Configured == Flying \cup {"read", "generation", "handle"}

(* The cache never outlives an invalidation.                               *)
CacheInv ==
    /\ cache.kind \in {"none", "list"}
    /\ cache.kind = "list" => cache.gen = gen /\ cache.source \in Sources
    /\ once = "ok" => cred # None

(* Where a caller is says what it holds, and how old that can be.          *)
CallerInv(c) ==
    /\ at[c] \in Early => got[c] = Nothing
    /\ at[c] \in Configured => cred # None
    /\ got[c].kind = "list" => got[c].source \in Sources /\ got[c].gen <= gen
    /\ at[c] \in {"fetch", "publish"} => got[c].kind = "list"
    /\ at[c] = "choose" => got[c].kind = "list" \/ (Op[c] # "accounts" /\ config.pinned # None)
    /\ started[c] <= gen
    /\ at[c] \in Flying => started[c] <= mine[c] /\ mine[c] <= gen
    /\ (at[c] \in {"fetch", "publish", "deliver"} /\ got[c].kind = "list") => got[c].gen >= mine[c]
    /\ (at[c] \in {"handle", "choose"} /\ got[c].kind = "list") => got[c].gen >= started[c]

(* A canceled leader never leads again.                                    *)
Spent(d) == canceled[d] = TRUE /\ (at[d] = "done" \/ (at[d] = "handle" /\ got[d].kind = "ctx"))
OneSpent(c) == \E d \in Callers \ {c} : Spent(d)
TwoSpent(c) == \E d, e \in Callers \ {c} : d # e /\ Spent(d) /\ Spent(e)

(* A cancellation that a caller inherits is its leader's, and the second   *)
(* one is another leader's.                                                *)
CancelInv(c) ==
    /\ retried[c] = TRUE => OneSpent(c)
    /\ (at[c] = "deliver" /\ got[c].kind = "ctx") => canceled[c] = TRUE
    /\ (at[c] = "handle" /\ got[c].kind = "ctx" /\ canceled[c] = FALSE) =>
          OneSpent(c) /\ (retried[c] = TRUE => TwoSpent(c))
    /\ (result[c].kind = "ctx" /\ canceled[c] = FALSE) => TwoSpent(c)

AccountsInv ==
    /\ AccountsTypeOK /\ CacheInv
    /\ \A c \in Callers : CallerInv(c)
    /\ \A c \in Callers : CancelInv(c)

-----------------------------------------------------------------------------
(* The sweep: the inductive invariant.                                     *)

Final == {"ok", "skips", "failed"}
Holding == {k \in Subscriptions \X Calls : call[k[1]][k[2]] = "holding"}

(* Only the targets are swept; a subscription that has not started has no  *)
(* call, one that ended has none open and was merged from its calls, or    *)
(* the sweep was aborted.                                                  *)
SubInv(s) ==
    /\ sub[s] # "out" => s \in Targets
    /\ report.kind = "none" => sub[s] = "out"
    /\ report.kind # "running" => sub[s] \in Final \cup {"out"}
    /\ sub[s] \in {"out", "queued"} => \A v \in Calls : call[s][v] = "off"
    /\ sub[s] \in Final => Ended(s) /\ (sub[s] = MergeServiceResults(s) \/ (aborted = TRUE /\ sub[s] = "failed"))

SweepInv ==
    /\ SweepTypeOK /\ SlotsBoundCalls /\ NothingUnaccounted
    /\ \A s \in Subscriptions : SubInv(s)

Inv == AccountsInv /\ SweepInv

-----------------------------------------------------------------------------
(* The sweep: slots.                                                       *)

LEMMA HoldingFinite == IsFiniteSet(Holding) /\ Cardinality(Holding) \in Nat
<1>1. IsFiniteSet(Services)
  <2>1. IsFiniteSet({"savingsplans", "advisor"})
    <3>1. {"savingsplans", "advisor"} = {"savingsplans"} \cup {"advisor"}
      OBVIOUS
    <3>2. IsFiniteSet({"savingsplans"})
      BY FS_Singleton
    <3> QED BY <3>1, <3>2, FS_AddElement
  <2> QED BY <2>1, SweepAssumption, FS_Union DEF Services, SweepAssumption
<1>2. IsFiniteSet(Calls)
  BY <1>1, FS_AddElement DEF Calls
<1>3. IsFiniteSet(Subscriptions \X Calls)
  BY <1>2, SweepAssumption, FS_Product DEF SweepAssumption
<1>4. Holding \in SUBSET (Subscriptions \X Calls)
  BY DEF Holding
<1>5. IsFiniteSet(Holding)
  BY <1>3, <1>4, FS_Subset
<1> QED BY <1>5, FS_CardinalityType

LEMMA SlotsHolding == SlotsBoundCalls <=> Cardinality(Holding) + slots = Slots
BY DEF SlotsBoundCalls, Holding

(* One call changes.                                                       *)
LEMMA SetCallFrame ==
    ASSUME SweepTypeOK, NEW s \in Subscriptions, NEW v \in Calls, NEW st \in CallStates, SetCall(s, v, st)
    PROVE  /\ call' \in [Subscriptions -> [Calls -> CallStates]]
           /\ call'[s][v] = st
           /\ \A w \in Calls \ {v} : call'[s][w] = call[s][w]
           /\ \A r \in Subscriptions \ {s} : call'[r] = call[r]
BY DEF SetCall, SweepTypeOK

LEMMA HoldMore ==
    ASSUME SweepTypeOK, SlotsBoundCalls, NEW s \in Subscriptions, NEW v \in Calls, call[s][v] # "holding",
           slots > 0, slots' = slots - 1, SetCall(s, v, "holding")
    PROVE  SlotsBoundCalls' /\ slots' \in 0..Slots
<1>1. Holding' = Holding \cup {<<s, v>>} /\ <<s, v>> \notin Holding
  <2>1. "holding" \in CallStates
    BY DEF CallStates
  <2> QED BY <2>1, SetCallFrame DEF Holding
<1>2. Cardinality(Holding') = Cardinality(Holding) + 1
  BY <1>1, HoldingFinite, FS_AddElement
<1>3. Cardinality(Holding) + slots = Slots
  BY SlotsHolding
<1>4. SlotsBoundCalls'
  <2>1. Cardinality(Holding') + slots' = Slots
    BY <1>2, <1>3, HoldingFinite DEF SweepTypeOK
  <2> QED BY <2>1 DEF SlotsBoundCalls, Holding
<1> QED BY <1>4, SweepAssumption DEF SweepTypeOK, SweepAssumption

LEMMA HoldLess ==
    ASSUME SweepTypeOK, SlotsBoundCalls, NEW s \in Subscriptions, NEW v \in Calls, call[s][v] = "holding",
           NEW st \in CallStates \ {"holding"}, slots' = slots + 1, SetCall(s, v, st)
    PROVE  SlotsBoundCalls' /\ slots' \in 0..Slots
<1>1. Holding' = Holding \ {<<s, v>>} /\ <<s, v>> \in Holding
  BY SetCallFrame DEF Holding
<1>2. Cardinality(Holding') = Cardinality(Holding) - 1 /\ Cardinality(Holding') \in Nat
  <2>1. IsFiniteSet(Holding')
    BY <1>1, HoldingFinite, FS_RemoveElement
  <2> QED BY <1>1, <2>1, HoldingFinite, FS_RemoveElement, FS_CardinalityType
<1>3. Cardinality(Holding) + slots = Slots
  BY SlotsHolding
<1>4. Cardinality(Holding') + slots' = Slots
  BY <1>2, <1>3, HoldingFinite DEF SweepTypeOK
<1>5. SlotsBoundCalls'
  BY <1>4 DEF SlotsBoundCalls, Holding
<1>6. slots' \in 0..Slots
  BY <1>2, <1>4, SweepAssumption DEF SweepTypeOK, SweepAssumption
<1> QED BY <1>5, <1>6

LEMMA HoldSame ==
    ASSUME SlotsBoundCalls, slots' = slots,
           \A s \in Subscriptions, v \in Calls : (call[s][v] = "holding") <=> (call'[s][v] = "holding")
    PROVE  SlotsBoundCalls'
<1>1. Holding' = Holding
  BY DEF Holding
<1> QED BY <1>1, SlotsHolding DEF SlotsBoundCalls, Holding

-----------------------------------------------------------------------------
(* The sweep: subscriptions.                                               *)

LEMMA SameTargets == ASSUME UNCHANGED <<scope, filter>> PROVE Targets' = Targets /\ Requested' = Requested
BY DEF Targets, Requested, Multi

LEMMA SubKeeps ==
    ASSUME NEW r \in Subscriptions, SubInv(r), sub'[r] = sub[r], call'[r] = call[r], UNCHANGED <<scope, filter, wanted>>,
           report' = report, aborted = TRUE => aborted' = TRUE
    PROVE  SubInv(r)'
<1>1. Ended(r)' <=> Ended(r)
  BY DEF Ended
<1>2. \A v : Failed(r, v)' <=> Failed(r, v)
  BY DEF Failed
<1>3. MergeServiceResults(r)' = MergeServiceResults(r)
  BY <1>2 DEF MergeServiceResults
<1>4. Targets' = Targets
  BY SameTargets
<1> QED BY <1>1, <1>3, <1>4 DEF SubInv

(* Nothing is reported while the sweep runs.                               *)
LEMMA RunningReportsNothing ==
    ASSUME report.kind = "running", report' = report PROVE NothingUnaccounted'
BY DEF NothingUnaccounted, Reported

(* Whatever is open belongs to a sweep that runs.                          *)
LEMMA OpenMeansRunning ==
    ASSUME SweepInv, NEW s \in Subscriptions
    PROVE  /\ sub[s] \in {"queued", "running", "pricing"} => report.kind = "running"
           /\ \A v \in Calls : call[s][v] \in {"ready", "holding"} =>
                 report.kind = "running" /\ sub[s] \in {"running", "pricing"}
<1>1. SubInv(s) /\ sub[s] \in SubStates
  BY DEF SweepInv, SweepTypeOK
<1>2. ASSUME NEW v \in Calls, call[s][v] \in {"ready", "holding"} PROVE sub[s] \in {"running", "pricing"}
  <2>1. sub[s] \notin Final
    BY <1>1, <1>2 DEF SubInv, Ended
  <2>2. sub[s] \notin {"out", "queued"}
    BY <1>1, <1>2 DEF SubInv
  <2> QED BY <1>1, <2>1, <2>2 DEF SubStates, Final
<1>3. sub[s] \in {"queued", "running", "pricing"} => report.kind = "running"
  BY <1>1 DEF SubInv, Final
<1> QED BY <1>2, <1>3

LEMMA MergeType == ASSUME NEW s PROVE MergeServiceResults(s) \in Final
BY DEF MergeServiceResults, Final

LEMMA LaunchStep ==
    ASSUME SweepInv, NEW s \in Subscriptions, Launch(s) PROVE SweepInv'
<1>1. report.kind = "running" /\ report' = report
  BY OpenMeansRunning DEF Launch
<1>2. \A v \in Calls : call[s][v] = "off"
  BY DEF Launch, SweepInv, SubInv
<1>3. /\ call' \in [Subscriptions -> [Calls -> CallStates]]
      /\ \A v \in Calls : call'[s][v] \in {"ready", "off"}
      /\ \A r \in Subscriptions \ {s} : call'[r] = call[r]
  BY DEF Launch, SweepInv, SweepTypeOK, CallStates
<1>4. sub' \in [Subscriptions -> SubStates] /\ sub'[s] = "running" /\ \A r \in Subscriptions \ {s} : sub'[r] = sub[r]
  BY DEF Launch, SweepInv, SweepTypeOK, SubStates
<1>5. SweepTypeOK'
  BY <1>3, <1>4 DEF Launch, SweepInv, SweepTypeOK
<1>6. SlotsBoundCalls'
  <2>1. ASSUME NEW r \in Subscriptions, NEW v \in Calls
        PROVE  (call[r][v] = "holding") <=> (call'[r][v] = "holding")
    BY <1>2, <1>3
  <2>2. slots' = slots /\ SlotsBoundCalls
    BY DEF Launch, SweepInv
  <2> QED BY <2>1, <2>2, HoldSame
<1>7. NothingUnaccounted'
  BY <1>1, RunningReportsNothing
<1>8. ASSUME NEW r \in Subscriptions PROVE SubInv(r)'
  <2>1. CASE r = s
    BY <1>1, <1>4, <2>1, SameTargets DEF Launch, SweepInv, SubInv, Final
  <2>2. CASE r # s
    BY <1>3, <1>4, <2>2, SubKeeps DEF Launch, SweepInv
  <2> QED BY <2>1, <2>2
<1> QED BY <1>5, <1>6, <1>7, <1>8 DEF SweepInv

(* A step of an open call.                                                 *)
LEMMA OpenCallStep ==
    ASSUME SweepInv, NEW s \in Subscriptions, NEW v \in Calls, call[s][v] \in {"ready", "holding"},
           NEW st \in CallStates, SetCall(s, v, st), SlotsBoundCalls', slots' \in 0..Slots,
           UNCHANGED <<scope, filter, wanted, sub, aborted, report>>
    PROVE  SweepInv'
<1>1. report.kind = "running" /\ sub[s] \in {"running", "pricing"}
  BY OpenMeansRunning
<1>2. SweepTypeOK
  BY DEF SweepInv
<1>3. /\ call' \in [Subscriptions -> [Calls -> CallStates]]
      /\ \A r \in Subscriptions \ {s} : call'[r] = call[r]
  BY <1>2, SetCallFrame
<1>4. SweepTypeOK'
  BY <1>2, <1>3 DEF SweepTypeOK
<1>5. NothingUnaccounted'
  BY <1>1, RunningReportsNothing
<1>6. ASSUME NEW r \in Subscriptions PROVE SubInv(r)'
  <2>1. CASE r = s
    BY <1>1, <2>1, SameTargets DEF SweepInv, SubInv, Final
  <2>2. CASE r # s
    BY <1>3, <2>2, SubKeeps DEF SweepInv
  <2> QED BY <2>1, <2>2
<1> QED BY <1>4, <1>5, <1>6 DEF SweepInv

LEMMA AcquireStep ==
    ASSUME SweepInv, NEW s \in Subscriptions, NEW v \in Calls, Acquire(s, v) PROVE SweepInv'
<1>0. SweepTypeOK /\ SlotsBoundCalls /\ call[s][v] = "ready"
  BY DEF SweepInv, Acquire
<1>1. CASE slots > 0 /\ slots' = slots - 1 /\ SetCall(s, v, "holding")
  <2>1. SlotsBoundCalls' /\ slots' \in 0..Slots
    BY <1>0, <1>1, HoldMore
  <2>2. "holding" \in CallStates
    BY DEF CallStates
  <2> QED BY <1>0, <1>1, <2>1, <2>2, OpenCallStep DEF Acquire
<1>2. CASE aborted /\ UNCHANGED slots /\ SetCall(s, v, "canceled")
  <2>1. "canceled" \in CallStates
    BY DEF CallStates
  <2>2. SlotsBoundCalls'
    <3>1. ASSUME NEW r \in Subscriptions, NEW w \in Calls
          PROVE  (call[r][w] = "holding") <=> (call'[r][w] = "holding")
      BY <1>0, <1>2, <2>1, SetCallFrame
    <3> QED BY <1>0, <1>2, <3>1, HoldSame
  <2>3. slots' \in 0..Slots
    BY <1>0, <1>2 DEF SweepTypeOK
  <2> QED BY <1>0, <1>2, <2>1, <2>2, <2>3, OpenCallStep DEF Acquire
<1> QED BY <1>1, <1>2 DEF Acquire

LEMMA AnswerStep ==
    ASSUME SweepInv, NEW s \in Subscriptions, NEW v \in Calls, Answer(s, v) PROVE SweepInv'
<1>1. SweepTypeOK /\ SlotsBoundCalls /\ call[s][v] = "holding" /\ slots' = slots + 1
  BY DEF SweepInv, Answer
<1>2. PICK st \in CallStates \ {"holding"} : SetCall(s, v, st)
  <2>1. Answers(v) \subseteq CallStates \ {"holding"} /\ "canceled" \in CallStates \ {"holding"}
    BY DEF Answers, CallStates
  <2> QED BY <2>1 DEF Answer
<1>3. SlotsBoundCalls' /\ slots' \in 0..Slots
  BY <1>1, <1>2, HoldLess
<1> QED BY <1>1, <1>2, <1>3, OpenCallStep DEF Answer

(* A subscription whose calls ended ends, or goes on to the pricing.       *)
LEMMA EndsStep ==
    ASSUME SweepInv, NEW s \in Subscriptions, sub[s] \in {"running", "pricing"}, Ended(s),
           \/ sub' = [sub EXCEPT ![s] = MergeServiceResults(s)]
           \/ aborted = TRUE /\ sub' = [sub EXCEPT ![s] = "failed"],
           UNCHANGED <<scope, filter, wanted, call, slots, aborted, report>>
    PROVE  SweepInv'
<1>1. report.kind = "running"
  BY OpenMeansRunning
<1>2. /\ sub' \in [Subscriptions -> SubStates] /\ \A r \in Subscriptions \ {s} : sub'[r] = sub[r]
      /\ sub'[s] = MergeServiceResults(s) \/ (aborted = TRUE /\ sub'[s] = "failed")
      /\ sub'[s] \in Final
  BY MergeType DEF SweepInv, SweepTypeOK, SubStates, Final
<1>3. SweepTypeOK'
  BY <1>2 DEF SweepInv, SweepTypeOK
<1>4. SlotsBoundCalls'
  BY HoldSame DEF SweepInv
<1>5. NothingUnaccounted'
  BY <1>1, RunningReportsNothing
<1>6. ASSUME NEW r \in Subscriptions PROVE SubInv(r)'
  <2>1. CASE r = s
    <3>1. Ended(s)' /\ MergeServiceResults(s)' = MergeServiceResults(s)
      BY DEF Ended, MergeServiceResults, Failed
    <3> QED BY <1>1, <1>2, <2>1, <3>1, SameTargets DEF SweepInv, SubInv, Final
  <2>2. CASE r # s
    BY <1>2, <2>2, SubKeeps DEF SweepInv
  <2> QED BY <2>1, <2>2
<1> QED BY <1>3, <1>4, <1>5, <1>6 DEF SweepInv

LEMMA AfterWaitStep ==
    ASSUME SweepInv, NEW s \in Subscriptions, AfterWait(s) PROVE SweepInv'
<1>0. SweepTypeOK /\ SlotsBoundCalls /\ sub[s] = "running" /\ Ended(s)
  BY DEF SweepInv, AfterWait
<1>1. CASE /\ sub' = [sub EXCEPT ![s] = "pricing"] /\ SetCall(s, "pricing", "ready")
  <2>1. report.kind = "running" /\ report' = report
    BY <1>0, OpenMeansRunning DEF AfterWait
  <2>2. "pricing" \in Calls /\ "ready" \in CallStates
    BY DEF Calls, CallStates
  <2>3. /\ call' \in [Subscriptions -> [Calls -> CallStates]]
        /\ call'[s]["pricing"] = "ready"
        /\ \A w \in Calls \ {"pricing"} : call'[s][w] = call[s][w]
        /\ \A r \in Subscriptions \ {s} : call'[r] = call[r]
    BY <1>0, <1>1, <2>2, SetCallFrame
  <2>4. /\ sub' \in [Subscriptions -> SubStates] /\ \A r \in Subscriptions \ {s} : sub'[r] = sub[r]
        /\ sub'[s] = "pricing"
    BY <1>0, <1>1 DEF SweepTypeOK, SubStates
  <2>5. SweepTypeOK'
    BY <1>0, <2>3, <2>4 DEF AfterWait, SweepTypeOK
  <2>6. SlotsBoundCalls'
    <3>1. ASSUME NEW r \in Subscriptions, NEW w \in Calls
          PROVE  (call[r][w] = "holding") <=> (call'[r][w] = "holding")
      BY <1>0, <2>2, <2>3 DEF Ended
    <3> QED BY <1>0, <3>1, HoldSame DEF AfterWait
  <2>7. NothingUnaccounted'
    BY <2>1, RunningReportsNothing
  <2>8. ASSUME NEW r \in Subscriptions PROVE SubInv(r)'
    <3>1. CASE r = s
      BY <1>0, <2>1, <2>4, <3>1, SameTargets DEF AfterWait, SweepInv, SubInv, Final
    <3>2. CASE r # s
      BY <2>3, <2>4, <3>2, SubKeeps DEF AfterWait, SweepInv
    <3> QED BY <3>1, <3>2
  <2> QED BY <2>5, <2>6, <2>7, <2>8 DEF SweepInv
<1>2. CASE /\ UNCHANGED call
           /\ \/ sub' = [sub EXCEPT ![s] = MergeServiceResults(s)]
              \/ aborted = TRUE /\ sub' = [sub EXCEPT ![s] = "failed"]
  BY <1>0, <1>2, EndsStep DEF AfterWait
<1>3. aborted \in BOOLEAN
  BY <1>0 DEF SweepTypeOK
<1> QED BY <1>1, <1>2, <1>3 DEF AfterWait

LEMMA AfterPricingStep ==
    ASSUME SweepInv, NEW s \in Subscriptions, AfterPricing(s) PROVE SweepInv'
<1>1. aborted \in BOOLEAN
  BY DEF SweepInv, SweepTypeOK
<1>2. CASE aborted = TRUE
  BY <1>2, EndsStep DEF AfterPricing
<1>3. CASE aborted = FALSE
  BY <1>3, EndsStep DEF AfterPricing
<1> QED BY <1>1, <1>2, <1>3

LEMMA AbortStep == ASSUME SweepInv, Abort PROVE SweepInv'
<1>1. SweepTypeOK'
  BY DEF SweepInv, SweepTypeOK, Abort
<1>2. SlotsBoundCalls'
  BY HoldSame DEF SweepInv, Abort
<1>3. NothingUnaccounted'
  BY RunningReportsNothing DEF Abort
<1>4. ASSUME NEW r \in Subscriptions PROVE SubInv(r)'
  BY SubKeeps DEF SweepInv, Abort
<1> QED BY <1>1, <1>2, <1>3, <1>4 DEF SweepInv

-----------------------------------------------------------------------------
(* The sweep: the report.                                                  *)

LEMMA TargetsType ==
    ASSUME SweepTypeOK
    PROVE  /\ Requested \subseteq Subscriptions /\ Targets \subseteq Subscriptions /\ Unmatched \subseteq Subscriptions
           /\ Targets \cup Unmatched = Requested /\ Targets \cap Unmatched = {} /\ Targets \subseteq scope
BY DEF SweepTypeOK, Requested, Targets, Unmatched

(* What mergeSubscriptionResults makes of its parts.                       *)
Merged(bad, data, skips) ==
    IF bad = {} THEN Report(IF skips THEN "skips" ELSE "nil", data, {}, skips)
    ELSE IF data = {} THEN Report("error", {}, {}, FALSE)
    ELSE Report("incomplete", data, bad, skips)

LEMMA MergedFields ==
    ASSUME NEW bad \in SUBSET Subscriptions, NEW data \in SUBSET Subscriptions, NEW skips \in BOOLEAN
    PROVE  /\ Merged(bad, data, skips) \in Reports
           /\ Merged(bad, data, skips).kind \in {"nil", "skips", "incomplete", "error"}
           /\ Merged(bad, data, skips).kind \in {"nil", "skips", "incomplete"} =>
                /\ Merged(bad, data, skips).data = data /\ Merged(bad, data, skips).failed = bad
                /\ Merged(bad, data, skips).skips = skips
                /\ Merged(bad, data, skips).kind # "incomplete" => bad = {}
<1>1. CASE bad = {} /\ skips = TRUE
  BY <1>1 DEF Merged, Report, Reports
<1>2. CASE bad = {} /\ skips = FALSE
  BY <1>2 DEF Merged, Report, Reports
<1>3. CASE bad # {} /\ data = {}
  BY <1>3 DEF Merged, Report, Reports
<1>4. CASE bad # {} /\ data # {}
  BY <1>4 DEF Merged, Report, Reports
<1> QED BY <1>1, <1>2, <1>3, <1>4

LEMMA ErrorReport == Report("error", {}, {}, FALSE) \in Reports /\ Report("error", {}, {}, FALSE).kind = "error"
BY DEF Report, Reports

LEMMA RunningReport == Report("running", {}, {}, FALSE) \in Reports /\ Report("running", {}, {}, FALSE).kind = "running"
BY DEF Report, Reports

(* How a subscription of a sweep that was not aborted ended.               *)
LEMMA EndedAs ==
    ASSUME NEW s, sub[s] = MergeServiceResults(s)
    PROVE  /\ sub[s] = "failed" => \E v \in wanted : Failed(s, v)
           /\ sub[s] # "failed" =>
                /\ wanted \cap Consumption # {} => \E v \in wanted \cap Consumption : ~Failed(s, v)
                /\ (sub[s] = "skips") <=> (\E v \in Calls : call[s][v] = "skips")
<1> DEFINE attempted == wanted \cap Consumption
           failures == {v \in attempted : Failed(s, v)}
           skipped == \E v \in Calls : call[s][v] = "skips"
<1>1. sub[s] = IF failures # {} /\ failures = attempted THEN "failed" ELSE IF skipped THEN "skips" ELSE "ok"
  BY DEF MergeServiceResults
<1>2. failures \subseteq attempted /\ attempted \subseteq wanted /\ \A v \in attempted : v \in failures <=> Failed(s, v)
  OBVIOUS
<1>3. sub[s] = "failed" <=> (failures # {} /\ failures = attempted)
  BY <1>1
<1>4. sub[s] # "failed" => (sub[s] = "skips" <=> skipped)
  BY <1>1
<1>5. sub[s] = "failed" => \E v \in wanted : Failed(s, v)
  BY <1>2, <1>3
<1>6. (sub[s] # "failed" /\ attempted # {}) => \E v \in attempted : ~Failed(s, v)
  BY <1>2, <1>3
<1> QED BY <1>4, <1>5, <1>6

LEMMA ConcludeStep == ASSUME SweepInv, Conclude PROVE SweepInv'
<1> DEFINE bad == {s \in Targets : sub[s] = "failed"} \cup Unmatched
           data == Targets \ bad
           skips == \E s \in data : sub[s] = "skips"
<1>0. SweepTypeOK /\ SlotsBoundCalls /\ report.kind = "running" /\ aborted \in BOOLEAN
      /\ \A s \in Subscriptions : SubInv(s)
  BY DEF SweepInv, SweepTypeOK, Conclude
<1>1. UNCHANGED <<scope, filter, wanted, sub, call, slots, aborted>>
  BY DEF Conclude
<1>2. /\ Targets \subseteq Subscriptions /\ bad \subseteq Subscriptions /\ data \subseteq Subscriptions
      /\ data \cup bad = Requested /\ data \cap bad = {}
  BY <1>0, TargetsType
<1>3. report' = IF aborted THEN Report("error", {}, {}, FALSE) ELSE Merged(bad, data, skips)
  BY DEF Conclude, MergeSubscriptionResults, Merged
<1>4. skips \in BOOLEAN
  OBVIOUS
<1>5. /\ report' \in Reports /\ report'.kind \in {"nil", "skips", "incomplete", "error"}
      /\ report'.kind \in {"nil", "skips", "incomplete"} =>
           /\ aborted = FALSE
           /\ report'.data = data /\ report'.failed = bad /\ report'.skips = skips
           /\ report'.kind # "incomplete" => bad = {}
  <2> HIDE DEF bad, data, skips
  <2>1. CASE aborted = TRUE
    BY <1>3, <2>1, ErrorReport
  <2>2. CASE aborted = FALSE
    BY <1>2, <1>3, <1>4, <2>2, MergedFields
  <2> QED BY <1>0, <2>1, <2>2
<1>6. SweepTypeOK'
  BY <1>0, <1>1, <1>5 DEF SweepTypeOK
<1>7. SlotsBoundCalls'
  BY <1>0, <1>1, HoldSame
<1>8. ASSUME NEW r \in Subscriptions PROVE SubInv(r)'
  <2>1. SubInv(r) /\ sub[r] \in SubStates
    BY <1>0 DEF SweepTypeOK
  <2>2. Ended(r)' = Ended(r) /\ MergeServiceResults(r)' = MergeServiceResults(r)
    BY <1>1 DEF Ended, MergeServiceResults, Failed
  <2>3. sub[r] \in Final \cup {"out"}
    BY <2>1 DEF Conclude, SubInv, Final
  <2>4. Targets' = Targets
    BY <1>1, SameTargets
  <2> QED BY <1>1, <1>5, <2>1, <2>2, <2>3, <2>4 DEF SubInv
<1>9. NothingUnaccounted'
  <2> SUFFICES ASSUME Reported' PROVE NothingUnaccounted'
    BY DEF NothingUnaccounted
  <2>1. /\ aborted = FALSE /\ report'.data = data /\ report'.failed = bad /\ report'.skips = skips
        /\ report'.kind # "incomplete" => bad = {}
    BY <1>5 DEF Reported
  <2>2. ASSUME NEW s \in Targets PROVE sub[s] = MergeServiceResults(s)
    <3>1. SubInv(s) /\ sub[s] \in Final
      BY <1>0, <1>2 DEF Conclude, Final
    <3> QED BY <2>1, <3>1 DEF SubInv
  <2>3. /\ Requested' = Requested /\ scope' = scope /\ wanted' = wanted
        /\ \A s, v : Failed(s, v)' <=> Failed(s, v)
    BY <1>1, SameTargets DEF Failed
  <2>4. \A s \in bad : s \notin scope \/ \E v \in wanted : Failed(s, v)
    BY <2>2, EndedAs DEF Unmatched
  <2>5. \A s \in data :
           wanted \cap Consumption # {} => \E v \in wanted \cap Consumption : ~Failed(s, v)
    BY <2>2, EndedAs
  <2>6. skips <=> \E s \in data, v \in Calls : call[s][v] = "skips"
    <3>1. \A s \in data : (sub[s] = "skips") <=> (\E v \in Calls : call[s][v] = "skips")
      BY <2>2, EndedAs
    <3> QED BY <3>1
  <2> HIDE DEF bad, data, skips
  <2>7. report'.skips <=> \E s \in report'.data, v \in Calls : call'[s][v] = "skips"
    BY <1>1, <2>1, <2>6
  <2>8. \A s \in report'.failed : s \notin scope' \/ \E v \in wanted' : Failed(s, v)'
    BY <2>1, <2>3, <2>4
  <2>9. \A s \in report'.data :
           wanted' \cap Consumption # {} => \E v \in wanted' \cap Consumption : ~Failed(s, v)'
    BY <2>1, <2>3, <2>5
  <2>10. /\ report'.data \cup report'.failed = Requested' /\ report'.data \cap report'.failed = {}
         /\ report'.kind # "incomplete" => report'.failed = {}
    BY <1>2, <2>1, <2>3
  <2> QED BY <2>7, <2>8, <2>9, <2>10 DEF NothingUnaccounted
<1> QED BY <1>6, <1>7, <1>8, <1>9 DEF SweepInv

LEMMA BeginStep ==
    ASSUME SweepInv, NEW subs \in SUBSET Subscriptions, NEW params \in Requests, Begin(subs, params)
    PROVE  SweepInv'
<1>1. SweepTypeOK /\ SlotsBoundCalls /\ report.kind = "none" /\ UNCHANGED <<call, slots, aborted>>
  BY DEF SweepInv, Begin
<1>2. /\ scope' \subseteq Subscriptions /\ filter' \subseteq Subscriptions /\ wanted' \subseteq Services
  BY SweepAssumption DEF Begin, SweepAssumption
<1>3. \A s \in Subscriptions : sub[s] = "out" /\ \A v \in Calls : call[s][v] = "off"
  BY <1>1 DEF SweepInv, SubInv
<1>4. SlotsBoundCalls'
  BY <1>1, HoldSame
<1>5. CASE Targets' = {}
  <2>1. report' \in Reports /\ report'.kind = "error" /\ sub' = sub
    BY <1>5, ErrorReport DEF Begin
  <2>2. SweepTypeOK'
    BY <1>1, <1>2, <2>1 DEF SweepTypeOK
  <2>3. NothingUnaccounted'
    BY <2>1 DEF NothingUnaccounted, Reported
  <2>4. ASSUME NEW r \in Subscriptions PROVE SubInv(r)'
    BY <1>1, <1>3, <2>1 DEF SubInv, Final
  <2> QED BY <1>4, <2>2, <2>3, <2>4 DEF SweepInv
<1>6. CASE Targets' # {}
  <2>1. /\ report' \in Reports /\ report'.kind = "running"
        /\ sub' = [s \in Subscriptions |-> IF s \in Targets' THEN "queued" ELSE "out"]
    BY <1>6, RunningReport DEF Begin
  <2>2. SweepTypeOK'
    BY <1>1, <1>2, <2>1 DEF SweepTypeOK, SubStates
  <2>3. NothingUnaccounted'
    BY <2>1 DEF NothingUnaccounted, Reported
  <2>4. ASSUME NEW r \in Subscriptions PROVE SubInv(r)'
    BY <1>1, <1>3, <2>1 DEF SubInv, Final
  <2> QED BY <1>4, <2>2, <2>3, <2>4 DEF SweepInv
<1> QED BY <1>5, <1>6

LEMMA SweepInitInv == SweepInit => SweepInv
<1> SUFFICES ASSUME SweepInit PROVE SweepInv
  OBVIOUS
<1>1. Slots \in Nat
  BY SweepAssumption DEF SweepAssumption
<1>2. NoReport \in Reports /\ NoReport.kind = "none"
  BY DEF NoReport, Report, Reports
<1>3. SweepTypeOK
  <2>1. /\ scope \subseteq Subscriptions /\ filter \subseteq Subscriptions /\ wanted \subseteq Services
        /\ report \in Reports /\ slots \in 0..Slots
    BY <1>1, <1>2 DEF SweepInit
  <2>2. sub \in [Subscriptions -> SubStates] /\ call \in [Subscriptions -> [Calls -> CallStates]]
    BY DEF SweepInit, SubStates, CallStates
  <2>3. aborted \in BOOLEAN
    BY DEF SweepInit
  <2> QED BY <2>1, <2>2, <2>3 DEF SweepTypeOK
<1>4. SlotsBoundCalls
  <2>1. Holding = {}
    BY DEF SweepInit, Holding
  <2> QED BY <1>1, <2>1, SlotsHolding, FS_EmptySet DEF SweepInit
<1>5. NothingUnaccounted
  BY <1>2 DEF SweepInit, NothingUnaccounted, Reported
<1>6. ASSUME NEW r \in Subscriptions PROVE SubInv(r)
  BY <1>2 DEF SweepInit, SubInv, Final
<1> QED BY <1>3, <1>4, <1>5, <1>6 DEF SweepInv

LEMMA SweepSame == ASSUME SweepInv, UNCHANGED sweepVars PROVE SweepInv'
<1>1. UNCHANGED <<scope, filter, wanted, sub, call, slots, aborted, report>>
  BY DEF sweepVars
<1>2. SweepTypeOK' /\ SlotsBoundCalls'
  BY <1>1, HoldSame DEF SweepInv, SweepTypeOK
<1>3. NothingUnaccounted'
  BY <1>1, SameTargets DEF SweepInv, NothingUnaccounted, Reported, Failed
<1>4. ASSUME NEW r \in Subscriptions PROVE SubInv(r)'
  BY <1>1, SubKeeps DEF SweepInv
<1> QED BY <1>2, <1>3, <1>4 DEF SweepInv

LEMMA SweepStep == ASSUME SweepInv, SweepNext PROVE SweepInv'
BY LaunchStep, AcquireStep, AnswerStep, AfterWaitStep, AfterPricingStep, ConcludeStep, AbortStep
   DEF SweepNext, SubscriptionStep, CallStep


-----------------------------------------------------------------------------
(* The provider: frames.                                                   *)

LEMMA Sentinels ==
    /\ Ambient # None /\ \A k \in Credentials : k # None
    /\ \A s \in Clients : s # None
    /\ Nothing \in Outcomes /\ Error("error") \in Outcomes /\ Error("ctx") \in Outcomes
    /\ Nothing.kind = "none" /\ Error("error").kind = "error" /\ Error("ctx").kind = "ctx"
    /\ NoResult \in Results /\ NoResult.kind = "none"
BY AccountsAssumption DEF AccountsAssumption, Sources, Nothing, Error, Outcomes, NoResult, Results

(* The state of a caller, and a step of one caller.                        *)
SameCaller(d) ==
    /\ at'[d] = at[d] /\ started'[d] = started[d] /\ mine'[d] = mine[d] /\ got'[d] = got[d]
    /\ retried'[d] = retried[d] /\ canceled'[d] = canceled[d] /\ result'[d] = result[d]
OnlyCaller(c) == \A d \in Callers \ {c} : SameCaller(d)

(* The credential is never taken back, the generation never goes back.     *)
ProviderKeeps ==
    /\ gen' \in Generations /\ gen' >= gen /\ config' = config
    /\ cred # None => cred' # None

LEMMA CallerKeeps ==
    ASSUME AccountsTypeOK, ProviderKeeps, NEW d \in Callers, CallerInv(d), SameCaller(d)
    PROVE  CallerInv(d)'
<1>1. gen \in Nat /\ gen' \in Nat /\ started[d] \in Nat /\ mine[d] \in Nat /\ got[d] \in Outcomes
  BY AccountsAssumption DEF AccountsTypeOK, ProviderKeeps, Generations, AccountsAssumption
<1>2. got[d].gen \in Nat
  BY <1>1, AccountsAssumption DEF Outcomes, AccountsAssumption
<1> QED BY <1>1, <1>2 DEF CallerInv, SameCaller, ProviderKeeps

LEMMA CancelKeeps ==
    ASSUME \A e \in Callers : Spent(e) => Spent(e)', NEW d \in Callers, CancelInv(d), SameCaller(d)
    PROVE  CancelInv(d)'
<1>1. OneSpent(d) => OneSpent(d)'
  BY DEF OneSpent
<1>2. TwoSpent(d) => TwoSpent(d)'
  BY DEF TwoSpent
<1> QED BY <1>1, <1>2 DEF CancelInv, SameCaller

LEMMA SpentElsewhere ==
    ASSUME NEW c \in Callers, OnlyCaller(c)
    PROVE  (OneSpent(c) => OneSpent(c)') /\ (TwoSpent(c) => TwoSpent(c)')
<1>1. \A e \in Callers \ {c} : Spent(e) => Spent(e)'
  BY DEF OnlyCaller, SameCaller, Spent
<1> QED BY <1>1 DEF OneSpent, TwoSpent

LEMMA OneCaller ==
    ASSUME AccountsInv, NEW c \in Callers, OnlyCaller(c), ProviderKeeps, AccountsTypeOK', CacheInv',
           Spent(c) => Spent(c)', CallerInv(c)', CancelInv(c)'
    PROVE  AccountsInv'
<1>1. \A e \in Callers : Spent(e) => Spent(e)'
  BY DEF OnlyCaller, SameCaller, Spent
<1>2. ASSUME NEW d \in Callers \ {c} PROVE CallerInv(d)' /\ CancelInv(d)'
  BY <1>1, CallerKeeps, CancelKeeps DEF AccountsInv, OnlyCaller
<1> QED BY <1>2 DEF AccountsInv

(* A caller goes on inside its call.                                       *)
LEMMA GoesOn ==
    ASSUME AccountsInv, NEW c \in Callers, OnlyCaller(c), ProviderKeeps, AccountsTypeOK', CacheInv', CallerInv(c)',
           at[c] \notin {"done", "handle"}, at'[c] # "handle",
           at'[c] = "deliver" => got'[c].kind # "ctx" \/ canceled[c] = TRUE,
           retried'[c] = retried[c], result'[c] = result[c], canceled'[c] = canceled[c]
    PROVE  AccountsInv'
<1>1. ~Spent(c)
  BY DEF Spent
<1>2. CancelInv(c)'
  BY SpentElsewhere DEF AccountsInv, CancelInv
<1> QED BY <1>1, <1>2, OneCaller

(* A caller returns something other than a context error.                  *)
LEMMA GetsResult ==
    ASSUME AccountsInv, NEW c \in Callers, OnlyCaller(c), ProviderKeeps, AccountsTypeOK', CacheInv',
           at'[c] = "done", got'[c] = Nothing, started'[c] = 0, retried'[c] = FALSE, canceled'[c] = canceled[c],
           (result'[c].kind = "ctx" /\ canceled[c] = FALSE) => TwoSpent(c)
    PROVE  AccountsInv'
<1>1. Spent(c) => Spent(c)'
  BY DEF Spent
<1>2. CancelInv(c)'
  BY SpentElsewhere DEF CancelInv
<1>3. CallerInv(c)'
  BY Sentinels DEF CallerInv, ProviderKeeps, Early, Flying, Configured, Generations
<1> QED BY <1>1, <1>2, <1>3, OneCaller

LEMMA ReturnFrame ==
    ASSUME AccountsTypeOK, NEW c \in Callers, NEW kind \in {"none", "error", "ctx", "list", "client"},
           NEW subs \in SUBSET Subscriptions, NEW k \in Sources \cup {None},
           Return(c, kind, subs, k), canceled' = canceled
    PROVE  /\ OnlyCaller(c) /\ at'[c] = "done" /\ got'[c] = Nothing /\ started'[c] = 0 /\ retried'[c] = FALSE
           /\ result'[c].kind = kind
           /\ at' \in [Callers -> Locations] /\ result' \in [Callers -> Results]
           /\ started' \in [Callers -> Generations] /\ mine' \in [Callers -> Generations]
           /\ got' \in [Callers -> Outcomes] /\ retried' \in [Callers -> BOOLEAN]
<1>1. [kind |-> kind, subs |-> subs, cred |-> k] \in Results
  BY DEF Results
<1>2. 0 \in Generations
  BY AccountsAssumption DEF Generations, AccountsAssumption
<1>3. OnlyCaller(c) /\ at'[c] = "done" /\ got'[c] = Nothing /\ started'[c] = 0 /\ retried'[c] = FALSE
  BY DEF Return, OnlyCaller, SameCaller, AccountsTypeOK
<1>4. result'[c].kind = kind
  BY DEF Return, AccountsTypeOK
<1>5. at' \in [Callers -> Locations] /\ result' \in [Callers -> Results]
  BY <1>1 DEF Return, AccountsTypeOK, Locations
<1>6. started' \in [Callers -> Generations] /\ mine' \in [Callers -> Generations]
  BY <1>2 DEF Return, AccountsTypeOK
<1>7. got' \in [Callers -> Outcomes] /\ retried' \in [Callers -> BOOLEAN]
  BY Sentinels DEF Return, AccountsTypeOK
<1> QED BY <1>3, <1>4, <1>5, <1>6, <1>7

LEMMA GotoFrame ==
    ASSUME AccountsTypeOK, NEW c \in Callers, NEW l \in Locations, Goto(c, l)
    PROVE  /\ at' \in [Callers -> Locations] /\ at'[c] = l /\ result' = result
           /\ \A d \in Callers \ {c} : at'[d] = at[d]
BY DEF Goto, AccountsTypeOK

(* The call returns, and the provider is left as it is.                    *)
LEMMA ReturnStep ==
    ASSUME AccountsInv, NEW c \in Callers, NEW kind \in {"none", "error", "ctx", "list", "client"},
           NEW subs \in SUBSET Subscriptions, NEW k \in Sources \cup {None},
           Return(c, kind, subs, k), UNCHANGED <<config, cred, injected, cache, gen, flight, canceled>>,
           once' \in {"new", "running", "ok", "failed"}, once' = "ok" => once = "ok",
           (kind = "ctx" /\ canceled[c] = FALSE) => TwoSpent(c)
    PROVE  AccountsInv'
<1>1. AccountsTypeOK /\ CacheInv
  BY DEF AccountsInv
<1>2. /\ OnlyCaller(c) /\ at'[c] = "done" /\ got'[c] = Nothing /\ started'[c] = 0 /\ retried'[c] = FALSE
      /\ result'[c].kind = kind
      /\ at' \in [Callers -> Locations] /\ result' \in [Callers -> Results]
      /\ started' \in [Callers -> Generations] /\ mine' \in [Callers -> Generations]
      /\ got' \in [Callers -> Outcomes] /\ retried' \in [Callers -> BOOLEAN]
  BY <1>1, ReturnFrame
<1>3. AccountsTypeOK'
  BY <1>1, <1>2 DEF AccountsTypeOK
<1>4. CacheInv'
  BY <1>1 DEF CacheInv
<1>5. ProviderKeeps
  BY <1>1, AccountsAssumption DEF ProviderKeeps, AccountsTypeOK, Generations, AccountsAssumption
<1> QED BY <1>2, <1>3, <1>4, <1>5, GetsResult

-----------------------------------------------------------------------------
(* The provider: the steps of a caller.                                    *)

(* A caller moves, its own locals may change, the provider's generation    *)
(* does not.                                                               *)
Moves(c, l) ==
    /\ Goto(c, l)
    /\ \A d \in Callers \ {c} : started'[d] = started[d] /\ mine'[d] = mine[d] /\ got'[d] = got[d]
    /\ UNCHANGED <<config, injected, gen, retried, canceled>>
    /\ cred' \in Credentials \cup {Ambient, None}
    /\ cred # None => cred' # None
    /\ once' \in {"new", "running", "ok", "failed"}
    /\ cache' \in Outcomes /\ flight' \in [Generations -> Callers \cup {None}]
    /\ started' \in [Callers -> Generations] /\ mine' \in [Callers -> Generations]
    /\ got' \in [Callers -> Outcomes]

LEMMA MovesStep ==
    ASSUME AccountsInv, NEW c \in Callers, NEW l \in Locations \ {"handle"}, Moves(c, l),
           at[c] \notin {"done", "handle"}, l = "deliver" => got'[c].kind # "ctx" \/ canceled[c] = TRUE,
           CacheInv', CallerInv(c)'
    PROVE  AccountsInv'
<1>1. AccountsTypeOK
  BY DEF AccountsInv
<1>2. /\ at' \in [Callers -> Locations] /\ at'[c] = l /\ result' = result
      /\ \A d \in Callers \ {c} : at'[d] = at[d]
  BY <1>1, GotoFrame DEF Moves
<1>3. AccountsTypeOK'
  BY <1>1, <1>2 DEF Moves, AccountsTypeOK
<1>4. OnlyCaller(c)
  BY <1>2 DEF Moves, OnlyCaller, SameCaller
<1>5. ProviderKeeps
  BY <1>1, AccountsAssumption DEF Moves, ProviderKeeps, AccountsTypeOK, Generations, AccountsAssumption
<1> QED BY <1>2, <1>3, <1>4, <1>5, GoesOn DEF Moves

LEMMA GenNat ==
    ASSUME AccountsTypeOK
    PROVE  /\ gen \in Nat /\ \A d \in Callers : started[d] \in Nat /\ mine[d] \in Nat /\ got[d].gen \in Nat
           /\ cache.gen \in Nat /\ Generations \subseteq Nat
<1>1. Generations \subseteq Nat /\ \A o \in Outcomes : o.gen \in Nat
  BY AccountsAssumption DEF Generations, Outcomes, AccountsAssumption
<1> QED BY <1>1 DEF AccountsTypeOK

LEMMA AfterConfiguredWhere ==
    ASSUME NEW c, AfterConfigured(c)
    PROVE  \E l \in {"read", "choose"} : Goto(c, l) /\ (l = "choose" => Op[c] # "accounts" /\ config.pinned # None)
BY DEF AfterConfigured

(* A caller that has nothing yet is where it must be.                      *)
LEMMA EarlyCaller ==
    ASSUME AccountsTypeOK, NEW c \in Callers, got[c] = Nothing, got'[c] = Nothing,
           NEW l \in {"once", "resolve", "install", "read", "generation", "choose"}, at'[c] = l,
           l \in {"read", "generation"} => cred' # None,
           l = "choose" => Op[c] # "accounts" /\ config'.pinned # None, started'[c] <= gen'
    PROVE  CallerInv(c)'
BY Sentinels DEF CallerInv, Early, Flying, Configured

LEMMA CheckConfiguredStep ==
    ASSUME AccountsInv, NEW c \in Callers, CheckConfigured(c) PROVE AccountsInv'
<1>1. AccountsTypeOK /\ CacheInv /\ CallerInv(c) /\ at[c] = "start"
  BY DEF AccountsInv, CheckConfigured
<1>2. got[c] = Nothing /\ got' = got /\ mine' = mine
  BY <1>1 DEF CallerInv, Early, CheckConfigured
<1>3. UNCHANGED <<config, cred, once, injected, cache, gen, flight, retried, canceled>>
  BY DEF CheckConfigured, provider
<1>4. PICK l \in {"once", "read", "choose"} :
         /\ Goto(c, l) /\ (l = "read" => cred # None)
         /\ l = "choose" => Op[c] # "accounts" /\ config.pinned # None
  <2>1. CASE cred # None
    BY <2>1, AfterConfiguredWhere DEF CheckConfigured
  <2>2. CASE cred = None
    BY <2>2 DEF CheckConfigured
  <2> QED BY <2>1, <2>2
<1>5. started' = [started EXCEPT ![c] = gen] /\ started' \in [Callers -> Generations] /\ started'[c] = gen
  BY <1>1 DEF CheckConfigured, AccountsTypeOK
<1>6. Moves(c, l)
  BY <1>1, <1>2, <1>3, <1>4, <1>5 DEF Moves, AccountsTypeOK
<1>7. l \in Locations \ {"handle", "deliver"}
  BY DEF Locations
<1>8. at'[c] = l
  BY <1>1, <1>4, <1>7, GotoFrame
<1>9. CallerInv(c)'
  BY <1>1, <1>2, <1>3, <1>4, <1>5, <1>8, EarlyCaller, GenNat
<1>10. CacheInv'
  BY <1>1, <1>3 DEF CacheInv
<1> QED BY <1>1, <1>6, <1>7, <1>9, <1>10, MovesStep

LEMMA EnterOnceStep ==
    ASSUME AccountsInv, NEW c \in Callers, EnterOnce(c) PROVE AccountsInv'
<1>1. AccountsTypeOK /\ CacheInv /\ CallerInv(c) /\ at[c] = "once"
  BY DEF AccountsInv, EnterOnce
<1>2. UNCHANGED <<config, cred, injected, cache, gen, flight, canceled>>
  BY DEF EnterOnce
<1>3. CASE once = "failed" /\ Return(c, "error", {}, None) /\ UNCHANGED once
  BY <1>1, <1>2, <1>3, ReturnStep DEF AccountsTypeOK
<1>4. CASE UNCHANGED locals /\ once' \in {"running", "ok"} /\ (once' = "ok" => once = "ok")
           /\ \E l \in {"resolve", "read", "choose"} :
                 /\ Goto(c, l) /\ (l # "resolve" => once = "ok")
                 /\ l = "choose" => Op[c] # "accounts" /\ config.pinned # None
  <2>1. PICK l \in {"resolve", "read", "choose"} :
                 /\ Goto(c, l) /\ (l # "resolve" => once = "ok")
                 /\ l = "choose" => Op[c] # "accounts" /\ config.pinned # None
    BY <1>4
  <2>2. started' = started /\ mine' = mine /\ got' = got /\ retried' = retried
    BY <1>4 DEF locals
  <2>3. l \in Locations \ {"handle", "deliver"}
    BY DEF Locations
  <2>4. Moves(c, l)
    BY <1>1, <1>2, <1>4, <2>1, <2>2 DEF Moves, AccountsTypeOK
  <2>5. at'[c] = l
    BY <1>1, <2>1, <2>3, GotoFrame
  <2>6. got[c] = Nothing /\ started[c] <= gen
    BY <1>1 DEF CallerInv, Early
  <2>7. once = "ok" => cred # None
    BY <1>1 DEF CacheInv
  <2>8. CallerInv(c)'
    BY <1>1, <1>2, <2>1, <2>2, <2>5, <2>6, <2>7, EarlyCaller
  <2>9. CacheInv'
    BY <1>1, <1>2, <1>4 DEF CacheInv
  <2> QED BY <1>1, <2>3, <2>4, <2>8, <2>9, MovesStep
<1> QED BY <1>3, <1>4, AfterConfiguredWhere DEF EnterOnce

LEMMA ResolveAmbientStep ==
    ASSUME AccountsInv, NEW c \in Callers, ResolveAmbient(c) PROVE AccountsInv'
<1>1. AccountsTypeOK /\ CacheInv /\ CallerInv(c) /\ at[c] = "resolve"
  BY DEF AccountsInv, ResolveAmbient
<1>2. UNCHANGED <<config, cred, injected, cache, gen, flight, canceled>>
  BY DEF ResolveAmbient
<1>3. CASE once' = "failed" /\ Return(c, "error", {}, None)
  BY <1>1, <1>2, <1>3, ReturnStep
<1>4. CASE Goto(c, "install") /\ UNCHANGED <<once, locals>>
  <2>1. started' = started /\ mine' = mine /\ got' = got /\ retried' = retried
    BY <1>4 DEF locals
  <2>2. Moves(c, "install")
    BY <1>1, <1>2, <1>4, <2>1 DEF Moves, AccountsTypeOK
  <2>3. "install" \in Locations \ {"handle", "deliver"}
    BY DEF Locations
  <2>4. at'[c] = "install"
    BY <1>1, <1>4, <2>3, GotoFrame
  <2>5. got[c] = Nothing /\ started[c] <= gen
    BY <1>1 DEF CallerInv, Early
  <2>6. CallerInv(c)'
    BY <1>1, <1>2, <2>1, <2>4, <2>5, EarlyCaller
  <2>7. CacheInv'
    BY <1>1, <1>2, <1>4 DEF CacheInv
  <2> QED BY <1>1, <2>2, <2>3, <2>6, <2>7, MovesStep
<1> QED BY <1>3, <1>4 DEF ResolveAmbient

LEMMA PublishCredentialStep ==
    ASSUME AccountsInv, NEW c \in Callers, PublishCredential(c) PROVE AccountsInv'
<1>1. AccountsTypeOK /\ CacheInv /\ CallerInv(c) /\ at[c] = "install"
  BY DEF AccountsInv, PublishCredential
<1>2. UNCHANGED <<config, injected, cache, gen, flight, canceled, started, mine, got, retried>>
      /\ cred' = Ambient /\ cred' # None /\ once' = "ok"
  BY Sentinels DEF PublishCredential, locals
<1>3. PICK l \in {"read", "choose"} : Goto(c, l) /\ (l = "choose" => Op[c] # "accounts" /\ config.pinned # None)
  BY AfterConfiguredWhere DEF PublishCredential
<1>4. l \in Locations \ {"handle", "deliver"}
  BY DEF Locations
<1>5. Moves(c, l)
  BY <1>1, <1>2, <1>3 DEF Moves, AccountsTypeOK
<1>6. at'[c] = l
  BY <1>1, <1>3, <1>4, GotoFrame
<1>7. got[c] = Nothing /\ started[c] <= gen
  BY <1>1 DEF CallerInv, Early
<1>8. CallerInv(c)'
  BY <1>1, <1>2, <1>3, <1>6, <1>7, EarlyCaller
<1>9. CacheInv'
  BY <1>1, <1>2 DEF CacheInv
<1> QED BY <1>1, <1>4, <1>5, <1>8, <1>9, MovesStep

(* The steps of a request: only the caller's locals change.                *)
RequestStep(c, l, m, g) ==
    /\ Goto(c, l) /\ UNCHANGED <<config, provider, started, retried, canceled>>
    /\ mine' = [mine EXCEPT ![c] = m] /\ got' = [got EXCEPT ![c] = g]

LEMMA RequestSteps ==
    ASSUME AccountsInv, NEW c \in Callers, NEW l \in Locations \ {"handle"}, NEW m \in Generations, NEW g \in Outcomes,
           RequestStep(c, l, m, g), at[c] \notin {"done", "handle"},
           l = "deliver" => g.kind # "ctx" \/ canceled[c] = TRUE,
           ASSUME at'[c] = l, got'[c] = g, mine'[c] = m, started'[c] = started[c], gen' = gen, cred' = cred,
                  config' = config
           PROVE  CallerInv(c)'
    PROVE  AccountsInv'
<1>1. AccountsTypeOK /\ CacheInv
  BY DEF AccountsInv
<1>2. UNCHANGED <<config, cred, once, injected, cache, gen, flight, started, retried, canceled>> /\ Goto(c, l)
  BY DEF RequestStep, provider
<1>3. /\ mine' \in [Callers -> Generations] /\ got' \in [Callers -> Outcomes] /\ mine'[c] = m /\ got'[c] = g
      /\ \A d \in Callers \ {c} : mine'[d] = mine[d] /\ got'[d] = got[d]
  BY <1>1 DEF RequestStep, AccountsTypeOK
<1>4. Moves(c, l)
  BY <1>1, <1>2, <1>3 DEF Moves, AccountsTypeOK
<1>5. at'[c] = l
  BY <1>1, <1>2, GotoFrame
<1>6. CallerInv(c)'
  BY <1>2, <1>3, <1>5
<1>7. CacheInv'
  BY <1>1, <1>2 DEF CacheInv
<1> QED BY <1>3, <1>4, <1>6, <1>7, MovesStep

(* The caller's locals as the EXCEPT that leaves them alone.               *)
LEMMA Unchanged ==
    ASSUME AccountsTypeOK, NEW c \in Callers
    PROVE  /\ mine = [mine EXCEPT ![c] = mine[c]] /\ mine[c] \in Generations
           /\ got = [got EXCEPT ![c] = got[c]] /\ got[c] \in Outcomes
BY DEF AccountsTypeOK

(* What is in the cache, for a caller that started at started[c].          *)
LEMMA CacheServes ==
    ASSUME AccountsTypeOK, CacheInv, NEW c \in Callers, CallerInv(c), cache.kind = "list"
    PROVE  /\ cache \in Outcomes /\ cache.source \in Sources /\ cache.gen = gen /\ gen \in Nat
           /\ started[c] <= cache.gen /\ cache.gen <= gen
           /\ at[c] \in Flying => mine[c] <= cache.gen
BY GenNat DEF AccountsTypeOK, CacheInv, CallerInv

LEMMA ReadCachedStep ==
    ASSUME AccountsInv, NEW c \in Callers, ReadCachedAccounts(c) PROVE AccountsInv'
<1>1. AccountsTypeOK /\ CacheInv /\ CallerInv(c) /\ at[c] = "read"
  BY DEF AccountsInv, ReadCachedAccounts
<1>2. CASE cache.kind = "list"
  <2>1. RequestStep(c, "choose", mine[c], cache)
    BY <1>1, <1>2, Unchanged DEF ReadCachedAccounts, RequestStep, provider
  <2>2. cred # None /\ started[c] <= gen
    BY <1>1 DEF CallerInv, Configured
  <2>3. ASSUME at'[c] = "choose", got'[c] = cache, mine'[c] = mine[c], started'[c] = started[c], gen' = gen, cred' = cred,
               config' = config
        PROVE  CallerInv(c)'
    BY <1>1, <1>2, <2>2, <2>3, CacheServes DEF CallerInv, Early, Flying, Configured
  <2>4. "choose" \in Locations \ {"handle"} /\ cache \in Outcomes
    BY <1>1 DEF Locations, AccountsTypeOK
  <2> QED BY <1>1, <2>1, <2>3, <2>4, RequestSteps, Unchanged
<1>3. CASE cache.kind # "list"
  <2>1. RequestStep(c, "generation", mine[c], got[c])
    BY <1>1, <1>3, Unchanged DEF ReadCachedAccounts, RequestStep, provider
  <2>2. cred # None /\ started[c] <= gen /\ got[c] = Nothing
    BY <1>1 DEF CallerInv, Configured, Early
  <2>3. ASSUME at'[c] = "generation", got'[c] = got[c], mine'[c] = mine[c], started'[c] = started[c], gen' = gen,
               cred' = cred, config' = config
        PROVE  CallerInv(c)'
    BY <1>1, <2>2, <2>3, EarlyCaller
  <2>4. "generation" \in Locations \ {"handle"}
    BY DEF Locations
  <2> QED BY <1>1, <2>1, <2>3, <2>4, RequestSteps, Unchanged
<1> QED BY <1>2, <1>3

LEMMA ReadGenerationStep ==
    ASSUME AccountsInv, NEW c \in Callers, ReadGeneration(c) PROVE AccountsInv'
<1>1. AccountsTypeOK /\ CacheInv /\ CallerInv(c) /\ at[c] = "generation"
  BY DEF AccountsInv, ReadGeneration
<1>2. RequestStep(c, "do", gen, got[c])
  BY <1>1, Unchanged DEF ReadGeneration, RequestStep, provider
<1>3. cred # None /\ started[c] <= gen /\ got[c] = Nothing
  BY <1>1 DEF CallerInv, Configured, Early
<1>4. ASSUME at'[c] = "do", got'[c] = got[c], mine'[c] = gen, started'[c] = started[c], gen' = gen, cred' = cred,
             config' = config
      PROVE  CallerInv(c)'
  BY <1>1, <1>3, <1>4, GenNat, Sentinels DEF CallerInv, Early, Flying, Configured
<1>5. "do" \in Locations \ {"handle"} /\ gen \in Generations
  BY <1>1 DEF Locations, AccountsTypeOK
<1> QED BY <1>1, <1>2, <1>4, <1>5, RequestSteps, Unchanged

LEMMA DoStep ==
    ASSUME AccountsInv, NEW c \in Callers, Do(c) PROVE AccountsInv'
<1>1. AccountsTypeOK /\ CacheInv /\ CallerInv(c) /\ at[c] = "do"
  BY DEF AccountsInv, Do
<1>2. UNCHANGED <<config, cred, once, injected, cache, gen, canceled, started, mine, got, retried>>
  BY DEF Do, locals
<1>3. flight' \in [Generations -> Callers \cup {None}]
  BY <1>1 DEF Do, AccountsTypeOK, AccountsSFKey
<1>4. PICK l \in {"recheck", "wait"} : Goto(c, l)
  BY DEF Do
<1>5. Moves(c, l)
  BY <1>1, <1>2, <1>3, <1>4 DEF Moves, AccountsTypeOK
<1>6. l \in Locations \ {"handle", "deliver"}
  BY DEF Locations
<1>7. at'[c] = l
  BY <1>1, <1>4, <1>6, GotoFrame
<1>8. CallerInv(c)'
  BY <1>1, <1>2, <1>7, Sentinels DEF CallerInv, Early, Flying, Configured
<1>9. CacheInv'
  BY <1>1, <1>2 DEF CacheInv
<1> QED BY <1>1, <1>5, <1>6, <1>8, <1>9, MovesStep

LEMMA RecheckStep ==
    ASSUME AccountsInv, NEW c \in Callers, Recheck(c) PROVE AccountsInv'
<1>1. AccountsTypeOK /\ CacheInv /\ CallerInv(c) /\ at[c] = "recheck"
  BY DEF AccountsInv, Recheck
<1>2. cred # None /\ started[c] <= gen /\ got[c] = Nothing /\ started[c] <= mine[c] /\ mine[c] <= gen
  BY <1>1 DEF CallerInv, Configured, Early, Flying
<1>3. CASE cache.kind = "list"
  <2>1. RequestStep(c, "deliver", mine[c], cache)
    BY <1>1, <1>3, Unchanged DEF Recheck, RequestStep, provider
  <2>2. ASSUME at'[c] = "deliver", got'[c] = cache, mine'[c] = mine[c], started'[c] = started[c], gen' = gen,
               cred' = cred, config' = config
        PROVE  CallerInv(c)'
    BY <1>1, <1>2, <1>3, <2>2, CacheServes DEF CallerInv, Early, Flying, Configured
  <2>3. "deliver" \in Locations \ {"handle"} /\ cache \in Outcomes
    BY <1>1 DEF Locations, AccountsTypeOK
  <2> QED BY <1>1, <1>3, <2>1, <2>2, <2>3, RequestSteps, Unchanged
<1>4. CASE cache.kind # "list"
  <2>1. RequestStep(c, "snapshot", mine[c], got[c])
    BY <1>1, <1>4, Unchanged DEF Recheck, RequestStep, provider
  <2>2. ASSUME at'[c] = "snapshot", got'[c] = got[c], mine'[c] = mine[c], started'[c] = started[c], gen' = gen,
               cred' = cred, config' = config
        PROVE  CallerInv(c)'
    BY <1>1, <1>2, <2>2, Sentinels DEF CallerInv, Early, Flying, Configured
  <2>3. "snapshot" \in Locations \ {"handle"}
    BY DEF Locations
  <2> QED BY <1>1, <2>1, <2>2, <2>3, RequestSteps, Unchanged
<1> QED BY <1>3, <1>4

(* A list asked for now.                                                   *)
LEMMA SnapshotStep ==
    ASSUME AccountsInv, NEW c \in Callers, Snapshot(c) PROVE AccountsInv'
<1> DEFINE now == [kind |-> "list", source |-> Source, gen |-> gen]
<1>1. AccountsTypeOK /\ CacheInv /\ CallerInv(c) /\ at[c] = "snapshot"
  BY DEF AccountsInv, Snapshot
<1>2. cred # None /\ started[c] <= gen /\ started[c] <= mine[c] /\ mine[c] <= gen
  BY <1>1 DEF CallerInv, Configured, Flying
<1>3. Source \in Sources
  BY <1>1, <1>2 DEF Source, Sources, AccountsTypeOK
<1>4. now \in Outcomes /\ now.kind = "list" /\ now.source \in Sources /\ now.gen = gen
  BY <1>1, <1>3 DEF Outcomes, AccountsTypeOK, Generations
<1>5. RequestStep(c, "fetch", mine[c], now)
  BY <1>1, Unchanged DEF Snapshot, RequestStep, provider
<1> HIDE DEF now
<1>6. ASSUME at'[c] = "fetch", got'[c] = now, mine'[c] = mine[c], started'[c] = started[c], gen' = gen, cred' = cred,
             config' = config
      PROVE  CallerInv(c)'
  BY <1>1, <1>2, <1>4, <1>6, GenNat DEF CallerInv, Early, Flying, Configured
<1>7. "fetch" \in Locations \ {"handle"}
  BY DEF Locations
<1> QED BY <1>1, <1>4, <1>5, <1>6, <1>7, RequestSteps, Unchanged

LEMMA FetchStep ==
    ASSUME AccountsInv, NEW c \in Callers, FetchAccounts(c) PROVE AccountsInv'
<1>1. AccountsTypeOK /\ CacheInv /\ CallerInv(c) /\ at[c] = "fetch" /\ canceled[c] \in BOOLEAN
  BY DEF AccountsInv, FetchAccounts, AccountsTypeOK
<1>2. cred # None /\ started[c] <= gen /\ started[c] <= mine[c] /\ mine[c] <= gen
  BY <1>1 DEF CallerInv, Configured, Flying
<1>3. "publish" \in Locations \ {"handle", "deliver"} /\ "deliver" \in Locations \ {"handle"}
  BY DEF Locations
<1>4. CASE Goto(c, "publish") /\ UNCHANGED got
  <2>1. RequestStep(c, "publish", mine[c], got[c])
    BY <1>1, <1>4, Unchanged DEF FetchAccounts, RequestStep, provider
  <2>2. ASSUME at'[c] = "publish", got'[c] = got[c], mine'[c] = mine[c], started'[c] = started[c], gen' = gen,
               cred' = cred, config' = config
        PROVE  CallerInv(c)'
    BY <1>1, <1>2, <2>2 DEF CallerInv, Early, Flying, Configured
  <2> QED BY <1>1, <1>3, <2>1, <2>2, RequestSteps, Unchanged
<1>5. ASSUME NEW e \in {"error", "ctx"}, got' = [got EXCEPT ![c] = Error(e)], Goto(c, "deliver"),
             e = "ctx" => canceled[c] = TRUE
      PROVE  AccountsInv'
  <2>1. RequestStep(c, "deliver", mine[c], Error(e))
    BY <1>1, <1>5, Unchanged DEF FetchAccounts, RequestStep, provider
  <2>2. Error(e) \in Outcomes /\ Error(e).kind = e /\ e # "list"
    BY Sentinels
  <2>3. ASSUME at'[c] = "deliver", got'[c] = Error(e), mine'[c] = mine[c], started'[c] = started[c], gen' = gen,
               cred' = cred, config' = config
        PROVE  CallerInv(c)'
    BY <1>2, <2>2, <2>3 DEF CallerInv, Early, Flying, Configured
  <2> QED BY <1>1, <1>3, <1>5, <2>1, <2>2, <2>3, RequestSteps, Unchanged
<1> QED BY <1>1, <1>4, <1>5 DEF FetchAccounts

LEMMA PublishStep ==
    ASSUME AccountsInv, NEW c \in Callers, Publish(c) PROVE AccountsInv'
<1>1. AccountsTypeOK /\ CacheInv /\ CallerInv(c) /\ at[c] = "publish"
  BY DEF AccountsInv, Publish
<1>2. /\ cred # None /\ started[c] <= gen /\ started[c] <= mine[c] /\ mine[c] <= gen
      /\ got[c].kind = "list" /\ got[c].source \in Sources /\ got[c].gen <= gen /\ got[c].gen >= mine[c]
  BY <1>1 DEF CallerInv, Configured, Flying
<1>3. "deliver" \in Locations \ {"handle"}
  BY DEF Locations
<1>4. CASE gen = mine[c]
  <2>1. cache' = got[c] /\ UNCHANGED <<config, cred, once, injected, gen, flight, started, mine, retried, canceled, got>>
        /\ Goto(c, "deliver")
    BY <1>4 DEF Publish
  <2>2. Moves(c, "deliver")
    BY <1>1, <2>1 DEF Moves, AccountsTypeOK
  <2>3. at'[c] = "deliver"
    BY <1>1, <1>3, <2>1, GotoFrame
  <2>4. CallerInv(c)'
    BY <1>1, <1>2, <2>1, <2>3 DEF CallerInv, Early, Flying, Configured
  <2>5. got[c].gen = gen
    BY <1>1, <1>2, <1>4, GenNat
  <2>6. CacheInv'
    BY <1>1, <1>2, <2>1, <2>5 DEF CacheInv
  <2> QED BY <1>1, <1>2, <1>3, <2>1, <2>2, <2>4, <2>6, MovesStep
<1>5. CASE gen # mine[c]
  <2>1. RequestStep(c, "deliver", mine[c], Error("error"))
    BY <1>1, <1>5, Unchanged DEF Publish, RequestStep, provider
  <2>2. Error("error") \in Outcomes /\ Error("error").kind = "error"
    BY Sentinels
  <2>3. ASSUME at'[c] = "deliver", got'[c] = Error("error"), mine'[c] = mine[c], started'[c] = started[c], gen' = gen,
               cred' = cred, config' = config
        PROVE  CallerInv(c)'
    BY <1>2, <2>2, <2>3 DEF CallerInv, Early, Flying, Configured
  <2> QED BY <1>1, <1>3, <2>1, <2>2, <2>3, RequestSteps, Unchanged
<1> QED BY <1>4, <1>5

LEMMA DeliverStep ==
    ASSUME AccountsInv, NEW c \in Callers, Deliver(c) PROVE AccountsInv'
<1>1. AccountsTypeOK /\ CacheInv /\ CallerInv(c) /\ CancelInv(c) /\ at[c] = "deliver"
  BY DEF AccountsInv, Deliver
<1>2. UNCHANGED <<config, cred, once, injected, cache, gen, started, mine, retried, canceled, result>>
  BY DEF Deliver
<1>3. \A d \in Callers : d \in Sharing(c) => d = c \/ (at[d] = "wait" /\ mine[d] = mine[c])
  BY DEF Sharing, AccountsSFKey
<1>4. /\ got' = [d \in Callers |-> IF d \in Sharing(c) THEN got[c] ELSE got[d]]
      /\ at' = [d \in Callers |-> IF d \in Sharing(c) THEN "handle" ELSE at[d]]
      /\ c \in Sharing(c)
  BY DEF Deliver, Sharing
<1>5. AccountsTypeOK'
  <2>1. got' \in [Callers -> Outcomes] /\ at' \in [Callers -> Locations]
    BY <1>1, <1>4 DEF AccountsTypeOK, Locations
  <2>2. flight' \in [Generations -> Callers \cup {None}]
    BY <1>1 DEF Deliver, AccountsTypeOK
  <2> QED BY <1>1, <1>2, <2>1, <2>2 DEF AccountsTypeOK
<1>6. CacheInv'
  BY <1>1, <1>2 DEF CacheInv
<1>7. ProviderKeeps
  BY <1>1, <1>2, GenNat DEF ProviderKeeps, AccountsTypeOK
<1>8. \A d \in Callers : d \notin Sharing(c) => SameCaller(d)
  BY <1>2, <1>4 DEF SameCaller
<1>9. \A e \in Callers : Spent(e) => e \notin Sharing(c)
  BY <1>1, <1>3 DEF Spent
<1>10. \A e \in Callers : Spent(e) => Spent(e)'
  BY <1>8, <1>9 DEF Spent, SameCaller
<1>11. ASSUME NEW d \in Callers, d \in Sharing(c) PROVE CallerInv(d)'
  <2>1. at'[d] = "handle" /\ got'[d] = got[c] /\ started'[d] = started[d] /\ gen' = gen /\ cred' = cred
    BY <1>2, <1>4, <1>11
  <2>2. mine[d] = mine[c] /\ at[d] \in {"deliver", "wait"} /\ CallerInv(d)
    BY <1>1, <1>3, <1>11 DEF AccountsInv
  <2>3. cred # None /\ started[d] <= gen /\ started[d] <= mine[c]
    BY <2>2 DEF CallerInv, Configured, Flying
  <2>4. got[c].kind = "list" => got[c].source \in Sources /\ got[c].gen <= gen /\ got[c].gen >= mine[c]
    BY <1>1 DEF CallerInv
  <2>5. got[c].kind = "list" => got[c].gen >= started[d]
    BY <1>1, <2>3, <2>4, GenNat
  <2> QED BY <2>1, <2>3, <2>4, <2>5 DEF CallerInv, Early, Flying, Configured
<1>12. ASSUME NEW d \in Callers, d \in Sharing(c) PROVE CancelInv(d)'
  <2>1. at'[d] = "handle" /\ got'[d] = got[c] /\ retried'[d] = retried[d] /\ canceled'[d] = canceled[d]
        /\ result'[d] = result[d] /\ CancelInv(d)
    BY <1>2, <1>4, <1>12 DEF AccountsInv
  <2>2. (OneSpent(d) => OneSpent(d)') /\ (TwoSpent(d) => TwoSpent(d)')
    BY <1>10 DEF OneSpent, TwoSpent
  <2>3. ASSUME got[c].kind = "ctx", canceled[d] = FALSE
        PROVE  OneSpent(d)' /\ (retried[d] = TRUE => TwoSpent(d)')
    <3>1. canceled[c] = TRUE /\ c # d
      BY <1>1, <2>3 DEF CancelInv
    <3>2. Spent(c)'
      BY <1>2, <1>4, <2>3, <3>1 DEF Spent
    <3>3. ASSUME retried[d] = TRUE PROVE TwoSpent(d)'
      <4>1. PICK e \in Callers \ {d} : Spent(e)
        BY <2>1, <3>3 DEF CancelInv, OneSpent
      <4>2. e # c /\ Spent(e)'
        BY <1>4, <1>9, <1>10, <4>1
      <4> QED BY <3>1, <3>2, <4>1, <4>2 DEF TwoSpent
    <3> QED BY <3>1, <3>2, <3>3 DEF OneSpent
  <2> QED BY <2>1, <2>2, <2>3 DEF CancelInv
<1>13. ASSUME NEW d \in Callers, d \notin Sharing(c) PROVE CallerInv(d)' /\ CancelInv(d)'
  BY <1>1, <1>7, <1>8, <1>10, <1>13, CallerKeeps, CancelKeeps DEF AccountsInv
<1> QED BY <1>5, <1>6, <1>11, <1>12, <1>13 DEF AccountsInv

LEMMA HandleOutcomeStep ==
    ASSUME AccountsInv, NEW c \in Callers, HandleOutcome(c) PROVE AccountsInv'
<1>1. AccountsTypeOK /\ CacheInv /\ CallerInv(c) /\ CancelInv(c) /\ at[c] = "handle"
      /\ canceled[c] \in BOOLEAN /\ retried[c] \in BOOLEAN /\ got[c] \in Outcomes
  BY DEF AccountsInv, AccountsTypeOK, HandleOutcome
<1>2. UNCHANGED <<config, cred, once, injected, cache, gen, flight, canceled>>
  BY DEF HandleOutcome, provider
<1>3. cred # None /\ started[c] <= gen
  BY <1>1 DEF CallerInv, Configured
<1>4. ProviderKeeps /\ CacheInv'
  BY <1>1, <1>2, GenNat DEF ProviderKeeps, AccountsTypeOK, CacheInv
<1>5. CASE got[c].kind = "list" /\ Goto(c, "choose") /\ UNCHANGED locals
  <2>1. UNCHANGED <<started, mine, got, retried>>
    BY <1>5 DEF locals
  <2>2. /\ at' \in [Callers -> Locations] /\ at'[c] = "choose" /\ result' = result
        /\ \A d \in Callers \ {c} : at'[d] = at[d]
    <3>1. "choose" \in Locations
      BY DEF Locations
    <3> QED BY <1>1, <1>5, <3>1, GotoFrame
  <2>3. AccountsTypeOK' /\ OnlyCaller(c)
    BY <1>1, <1>2, <2>1, <2>2 DEF AccountsTypeOK, OnlyCaller, SameCaller
  <2>4. CallerInv(c)'
    BY <1>1, <1>2, <1>3, <1>5, <2>1, <2>2 DEF CallerInv, Early, Flying, Configured
  <2>5. CancelInv(c)'
    BY <1>1, <1>2, <2>1, <2>2, <2>3, SpentElsewhere DEF CancelInv
  <2>6. ~Spent(c)
    BY <1>1, <1>5 DEF Spent
  <2> QED BY <1>4, <2>3, <2>4, <2>5, <2>6, OneCaller
<1>6. CASE /\ got[c].kind = "ctx" /\ canceled[c] = FALSE /\ retried[c] = FALSE /\ Goto(c, "generation")
           /\ retried' = [retried EXCEPT ![c] = TRUE] /\ got' = [got EXCEPT ![c] = Nothing]
           /\ UNCHANGED <<started, mine>>
  <2>1. /\ at' \in [Callers -> Locations] /\ at'[c] = "generation" /\ result' = result
        /\ \A d \in Callers \ {c} : at'[d] = at[d]
    <3>1. "generation" \in Locations
      BY DEF Locations
    <3> QED BY <1>1, <1>6, <3>1, GotoFrame
  <2>2. /\ got' \in [Callers -> Outcomes] /\ got'[c] = Nothing
        /\ \A d \in Callers \ {c} : got'[d] = got[d] /\ retried'[d] = retried[d]
    BY <1>1, <1>6, Sentinels DEF AccountsTypeOK
  <2>3. retried' \in [Callers -> BOOLEAN]
    BY <1>1, <1>6 DEF AccountsTypeOK
  <2>4. AccountsTypeOK' /\ OnlyCaller(c)
    BY <1>1, <1>2, <1>6, <2>1, <2>2, <2>3 DEF AccountsTypeOK, OnlyCaller, SameCaller
  <2>5. CallerInv(c)'
    BY <1>1, <1>2, <1>3, <1>6, <2>1, <2>2, Sentinels DEF CallerInv, Early, Flying, Configured
  <2>6. OneSpent(c)
    BY <1>1, <1>6 DEF CancelInv
  <2>7. CancelInv(c)'
    BY <1>1, <1>2, <2>1, <2>4, <2>6, SpentElsewhere DEF CancelInv
  <2>8. ~Spent(c)
    BY <1>6 DEF Spent
  <2> QED BY <1>4, <2>4, <2>5, <2>7, <2>8, OneCaller
<1>7. CASE /\ Return(c, got[c].kind, {}, None)
           /\ ~(got[c].kind = "ctx" /\ canceled[c] = FALSE /\ retried[c] = FALSE)
  <2>1. got[c].kind \in {"none", "error", "ctx", "list", "client"}
    BY <1>1 DEF Outcomes
  <2>2. (got[c].kind = "ctx" /\ canceled[c] = FALSE) => TwoSpent(c)
    BY <1>1, <1>7 DEF CancelInv
  <2>3. once' \in {"new", "running", "ok", "failed"} /\ (once' = "ok" => once = "ok")
    BY <1>1, <1>2 DEF AccountsTypeOK
  <2>4. {} \in SUBSET Subscriptions /\ None \in Sources \cup {None}
    OBVIOUS
  <2> QED BY <1>2, <1>7, <2>1, <2>2, <2>3, <2>4, ReturnStep
<1> QED BY <1>1, <1>5, <1>6, <1>7 DEF HandleOutcome

LEMMA ScopeType ==
    ASSUME NEW c, NEW subs \in SUBSET Subscriptions PROVE Scope(c, subs) \in SUBSET Subscriptions
<1>1. Default(subs) \subseteq Subscriptions
  BY DEF Default
<1> QED BY <1>1 DEF Scope

LEMMA ChooseStep ==
    ASSUME AccountsInv, NEW c \in Callers, Choose(c) PROVE AccountsInv'
<1>1. AccountsTypeOK /\ CallerInv(c) /\ at[c] = "choose"
  BY DEF AccountsInv, Choose
<1>2. UNCHANGED <<config, cred, once, injected, cache, gen, flight, canceled>>
  BY DEF Choose, provider
<1>3. once' \in {"new", "running", "ok", "failed"} /\ (once' = "ok" => once = "ok")
  BY <1>1, <1>2 DEF AccountsTypeOK
<1>4. cred \in Sources \cup {None}
  BY <1>1 DEF AccountsTypeOK, Sources
<1>5. config.pinned \in Subscriptions \cup {None}
  BY <1>1, AccountsAssumption DEF AccountsTypeOK, AccountsAssumption
<1>6. got[c].kind = "list" => Visible[got[c].source] \in SUBSET Subscriptions
  BY <1>1, AccountsAssumption DEF CallerInv, AccountsAssumption
<1>7. got[c].kind = "list" \/ (Op[c] # "accounts" /\ config.pinned # None)
  BY <1>1 DEF CallerInv
<1>8. ASSUME NEW kind \in {"list", "error", "client"}, NEW subs \in SUBSET Subscriptions, NEW k \in Sources \cup {None},
             Return(c, kind, subs, k)
      PROVE  AccountsInv'
  BY <1>2, <1>3, <1>8, ReturnStep
<1>9. CASE Op[c] = "accounts"
  BY <1>6, <1>7, <1>8, <1>9 DEF Choose
<1>10. CASE Op[c] # "accounts"
  <2> DEFINE subs == IF config.pinned # None THEN {config.pinned} ELSE Scope(c, Visible[got[c].source])
  <2>1. subs \in SUBSET Subscriptions
    BY <1>5, <1>6, <1>7, ScopeType
  <2>2. IF subs = {} THEN Return(c, "error", {}, None) ELSE Return(c, "client", subs, cred)
    BY <1>10 DEF Choose
  <2> HIDE DEF subs
  <2> QED BY <1>4, <1>8, <2>1, <2>2
<1> QED BY <1>9, <1>10

LEMMA CancelStep ==
    ASSUME AccountsInv, NEW c \in Callers, Cancel(c) PROVE AccountsInv'
<1>1. AccountsTypeOK /\ CacheInv /\ CallerInv(c) /\ CancelInv(c) /\ at[c] \in {"wait", "fetch"}
  BY DEF AccountsInv, Cancel
<1>2. UNCHANGED <<config, cred, once, injected, cache, gen, flight, at, started, mine, got, retried, result>>
  BY DEF Cancel, provider, locals
<1>3. /\ canceled' \in [Callers -> BOOLEAN] /\ canceled'[c] = TRUE
      /\ \A d \in Callers \ {c} : canceled'[d] = canceled[d]
  BY <1>1 DEF Cancel, AccountsTypeOK
<1>4. AccountsTypeOK' /\ OnlyCaller(c)
  BY <1>1, <1>2, <1>3 DEF AccountsTypeOK, OnlyCaller, SameCaller
<1>5. ProviderKeeps /\ CacheInv'
  BY <1>1, <1>2, GenNat DEF ProviderKeeps, AccountsTypeOK, CacheInv
<1>6. ~Spent(c)
  BY <1>1 DEF Spent
<1>7. CallerInv(c)'
  BY <1>1, <1>2 DEF CallerInv
<1>8. CancelInv(c)'
  BY <1>1, <1>2, <1>3, <1>4, SpentElsewhere DEF CancelInv
<1> QED BY <1>4, <1>5, <1>6, <1>7, <1>8, OneCaller

(* invalidateAccountsCacheLocked empties the cache and starts a            *)
(* generation.                                                             *)
LEMMA InvalidateStep ==
    ASSUME AccountsInv, Invalidate, UNCHANGED <<config, once, flight, at, locals, canceled, result>>,
           cred' \in Credentials \cup {Ambient, None}, cred # None => cred' # None,
           injected' \in Clients \cup {None}
    PROVE  AccountsInv'
<1>1. AccountsTypeOK /\ CacheInv
  BY DEF AccountsInv
<1>2. UNCHANGED <<started, mine, got, retried>>
  BY DEF locals
<1>3. cache' = Nothing /\ gen' \in Generations /\ gen' >= gen
  BY <1>1, AccountsAssumption DEF Invalidate, AccountsTypeOK, Generations, AccountsAssumption
<1>4. AccountsTypeOK'
  BY <1>1, <1>2, <1>3, Sentinels DEF AccountsTypeOK
<1>5. CacheInv' /\ ProviderKeeps
  BY <1>1, <1>3, Sentinels DEF CacheInv, ProviderKeeps
<1>6. \A d \in Callers : SameCaller(d)
  BY <1>2 DEF SameCaller
<1>7. \A e \in Callers : Spent(e) => Spent(e)'
  BY <1>6 DEF Spent, SameCaller
<1>8. ASSUME NEW d \in Callers PROVE CallerInv(d)' /\ CancelInv(d)'
  BY <1>1, <1>5, <1>6, <1>7, CallerKeeps, CancelKeeps DEF AccountsInv
<1> QED BY <1>4, <1>5, <1>8 DEF AccountsInv

LEMMA AccountsStep == ASSUME AccountsInv, AccountsNext PROVE AccountsInv'
<1>1. ASSUME NEW c \in Callers, CallerStep(c) PROVE AccountsInv'
  BY <1>1, CheckConfiguredStep, EnterOnceStep, ResolveAmbientStep, PublishCredentialStep, ReadCachedStep,
     ReadGenerationStep, DoStep, RecheckStep, SnapshotStep, FetchStep, PublishStep, DeliverStep, HandleOutcomeStep,
     ChooseStep DEF CallerStep
<1>2. cred \in Credentials \cup {Ambient, None} /\ injected \in Clients \cup {None}
  BY DEF AccountsInv, AccountsTypeOK
<1>3. ASSUME NEW k \in Credentials, SetCredential(k) PROVE AccountsInv'
  BY <1>2, <1>3, InvalidateStep, Sentinels DEF SetCredential
<1>4. ASSUME NEW s \in Clients, SetSubscriptionsClient(s) PROVE AccountsInv'
  BY <1>2, <1>4, InvalidateStep DEF SetSubscriptionsClient
<1>5. ASSUME InvalidateAccountsCache PROVE AccountsInv'
  BY <1>2, <1>5, InvalidateStep DEF InvalidateAccountsCache
<1> QED BY <1>1, <1>3, <1>4, <1>5, CancelStep DEF AccountsNext

LEMMA AccountsSame == ASSUME AccountsInv, UNCHANGED accountsVars PROVE AccountsInv'
<1>1. UNCHANGED <<config, cred, once, injected, cache, gen, flight, at, started, mine, got, retried, canceled, result>>
  BY DEF accountsVars, provider, locals
<1>2. AccountsTypeOK' /\ CacheInv' /\ ProviderKeeps
  BY <1>1, GenNat DEF AccountsInv, AccountsTypeOK, CacheInv, ProviderKeeps
<1>3. \A d \in Callers : SameCaller(d)
  BY <1>1 DEF SameCaller
<1>4. \A e \in Callers : Spent(e) => Spent(e)'
  BY <1>3 DEF Spent, SameCaller
<1>5. ASSUME NEW d \in Callers PROVE CallerInv(d)' /\ CancelInv(d)'
  BY <1>2, <1>3, <1>4, CallerKeeps, CancelKeeps DEF AccountsInv
<1> QED BY <1>2, <1>5 DEF AccountsInv

(* Nobody is inside a call, and nothing is cached.                         *)
Quiet(l) ==
    /\ config \in Configs /\ cred \in Credentials \cup {None} /\ once = "new" /\ injected = None
    /\ cache = Nothing /\ gen = 0 /\ flight = [g \in Generations |-> None]
    /\ at = [c \in Callers |-> l]
    /\ started = [c \in Callers |-> 0] /\ mine = [c \in Callers |-> 0]
    /\ got = [c \in Callers |-> Nothing]
    /\ retried = [c \in Callers |-> FALSE] /\ canceled = [c \in Callers |-> FALSE]
    /\ result = [c \in Callers |-> NoResult]

LEMMA QuietInv == ASSUME NEW l \in {"start", "done"}, Quiet(l) PROVE AccountsInv
<1>1. 0 \in Generations
  BY AccountsAssumption DEF Generations, AccountsAssumption
<1>2. AccountsTypeOK
  <2>1. retried \in [Callers -> BOOLEAN] /\ canceled \in [Callers -> BOOLEAN]
    BY DEF Quiet
  <2>2. cache \in Outcomes /\ got \in [Callers -> Outcomes] /\ result \in [Callers -> Results]
    BY Sentinels DEF Quiet
  <2>3. at \in [Callers -> Locations] /\ once \in {"new", "running", "ok", "failed"}
    BY DEF Quiet, Locations
  <2>4. /\ config \in Configs /\ cred \in Credentials \cup {Ambient, None} /\ injected \in Clients \cup {None}
        /\ gen \in Generations /\ flight \in [Generations -> Callers \cup {None}]
        /\ started \in [Callers -> Generations] /\ mine \in [Callers -> Generations]
    BY <1>1 DEF Quiet
  <2> QED BY <2>1, <2>2, <2>3, <2>4 DEF AccountsTypeOK
<1>3. CacheInv
  BY Sentinels DEF Quiet, CacheInv
<1>4. ASSUME NEW c \in Callers PROVE CallerInv(c)
  <2>1. at[c] = l /\ got[c] = Nothing /\ started[c] = 0 /\ gen = 0
    BY DEF Quiet
  <2> QED BY <2>1, Sentinels DEF CallerInv, Early, Flying, Configured
<1>5. ASSUME NEW c \in Callers PROVE CancelInv(c)
  <2>1. at[c] = l /\ retried[c] = FALSE /\ result[c] = NoResult
    BY DEF Quiet
  <2> QED BY <2>1, Sentinels DEF CancelInv
<1> QED BY <1>2, <1>3, <1>4, <1>5 DEF AccountsInv

LEMMA QuietDone == Quiet("done") => AccountsInv
BY QuietInv

-----------------------------------------------------------------------------
(* The provider and the sweep together.                                    *)

LEMMA InitInv == Init => Inv
<1> SUFFICES ASSUME Init PROVE Inv
  OBVIOUS
<1>1. Quiet("start")
  BY AccountsAssumption DEF Init, AccountsInit, Quiet, AccountsAssumption
<1> QED BY <1>1, QuietInv, SweepInitInv DEF Init, Inv

LEMMA StartSweepStep ==
    ASSUME Inv, NEW c \in Callers, StartSweep(c) PROVE Inv'
<1>1. AccountsInv /\ SweepInv
  BY DEF Inv
<1>2. Quiet("done")'
  <2>1. config' \in Configs
    BY <1>1 DEF StartSweep, ForgetProvider, AccountsInv, AccountsTypeOK
  <2> QED BY <2>1 DEF StartSweep, ForgetProvider, Quiet
<1>3. AccountsInv'
  BY <1>2, QuietDone, PTL
<1>4. PICK params \in Requests : Begin(result[c].subs, params)
  BY DEF StartSweep
<1>5. result[c].subs \in SUBSET Subscriptions
  BY <1>1 DEF AccountsInv, AccountsTypeOK, Results
<1> QED BY <1>1, <1>3, <1>4, <1>5, BeginStep DEF Inv

LEMMA NextInv == Inv /\ [Next]_vars => Inv'
<1> SUFFICES ASSUME Inv, [Next]_vars PROVE Inv'
  OBVIOUS
<1>1. CASE AccountsNext /\ UNCHANGED sweepVars
  BY <1>1, AccountsStep, SweepSame DEF Inv
<1>2. CASE \E c \in Callers : StartSweep(c)
  BY <1>2, StartSweepStep
<1>3. CASE SweepNext /\ UNCHANGED accountsVars
  BY <1>3, SweepStep, AccountsSame DEF Inv
<1>4. CASE UNCHANGED vars
  BY <1>4, AccountsSame, SweepSame DEF Inv, vars
<1> QED BY <1>1, <1>2, <1>3, <1>4 DEF Next

LEMMA InvHolds == Spec => []Inv
BY InitInv, NextInv, PTL DEF Spec

(* Type correctness of the provider and of the sweep: no generation is     *)
(* served that does not exist, and a client is scoped to subscriptions its *)
(* source listed (GetRecommendationsClient).                               *)
THEOREM TypeCorrect == Spec => []TypeOK
<1>1. Inv => TypeOK
  BY DEF Inv, AccountsInv, SweepInv, TypeOK
<1> QED BY <1>1, InvHolds, PTL

(* Nobody is served a subscription list older than its call, however many  *)
(* callers share requests and however often the cache is invalidated       *)
(* (getOrFetchAccounts, invalidateAccountsCacheLocked).                    *)
THEOREM ServedFresh == Spec => []FreshAfterInvalidation
<1>1. Inv => FreshAfterInvalidation
  BY DEF Inv, AccountsInv, CallerInv, FreshAfterInvalidation
<1> QED BY <1>1, InvHolds, PTL

(* A live caller of getOrFetchAccounts fails with a context error only     *)
(* when two other callers were canceled.                                   *)
THEOREM OutlivesCancellation == Spec => []OutlivesOneCancellation
<1>1. ASSUME Inv PROVE OutlivesOneCancellation
  <2> SUFFICES ASSUME NEW c \in Callers, result[c].kind = "ctx", ~canceled[c]
               PROVE  Cardinality({d \in Callers \ {c} : canceled[d]}) >= 2
    BY DEF OutlivesOneCancellation
  <2> DEFINE others == {d \in Callers \ {c} : canceled[d]}
  <2>1. CancelInv(c) /\ canceled \in [Callers -> BOOLEAN]
    BY <1>1 DEF Inv, AccountsInv, AccountsTypeOK
  <2>2. canceled[c] = FALSE
    BY <2>1
  <2>3. PICK d, e \in Callers \ {c} : d # e /\ canceled[d] = TRUE /\ canceled[e] = TRUE
    BY <2>1, <2>2 DEF CancelInv, TwoSpent, Spent
  <2>4. others \in SUBSET Callers /\ d \in others /\ e \in others
    BY <2>3
  <2>5. IsFiniteSet(others)
    BY <2>4, AccountsAssumption, FS_Subset DEF AccountsAssumption
  <2> HIDE DEF others
  <2>6. {d, e} \in SUBSET others
    BY <2>4
  <2>7. Cardinality({d, e}) = 2
    <3>1. {d, e} = {d} \cup {e}
      OBVIOUS
    <3>2. IsFiniteSet({d}) /\ Cardinality({d}) = 1
      BY FS_Singleton
    <3>3. e \notin {d}
      BY <2>3
    <3>4. Cardinality({d} \cup {e}) = Cardinality({d}) + 1
      BY <3>2, <3>3, FS_AddElement
    <3> QED BY <3>1, <3>2, <3>4
  <2>8. Cardinality({d, e}) <= Cardinality(others)
    BY <2>5, <2>6, FS_Subset
  <2>9. Cardinality(others) \in Nat
    BY <2>5, FS_CardinalityType
  <2>10. Cardinality(others) >= 2
    BY <2>7, <2>8, <2>9
  <2> QED BY <2>10 DEF others
<1> QED BY <1>1, InvHolds, PTL

(* Calls in flight and free slots always add up to the capacity, for any   *)
(* number of subscriptions and services (slot.Do, concurrency.Acquire).    *)
THEOREM SlotsBound == Spec => []SlotsBoundCalls
<1>1. Inv => SlotsBoundCalls
  BY DEF Inv, SweepInv
<1> QED BY <1>1, InvHolds, PTL

(* A report accounts for every subscription asked for and for every row    *)
(* skipped (mergeServiceResults, mergeSubscriptionResults).                *)
THEOREM ReportAccounts == Spec => []NothingUnaccounted
<1>1. Inv => NothingUnaccounted
  BY DEF Inv, SweepInv
<1> QED BY <1>1, InvHolds, PTL
=============================================================================
