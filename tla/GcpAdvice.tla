------------------------------ MODULE GcpAdvice -----------------------------
(***************************************************************************)
(* What the GCP clients read.  GetRecommendations of the provider adapter  *)
(* asks every region for its commitment recommendations, a few at a time,  *)
(* and merges them; the Compute Engine client converts each one, records   *)
(* the ones it skips in a log all regions share, and prices them from the  *)
(* SKU catalogue.  The other reads of the client end in one answer.        *)
(*                                                                         *)
(* A recommendation is [active, ops, cost]; an operation is                *)
(* [commitment, action, path, resource, machine, kind, value], where path  *)
(* is "/", "amount" (of the resource kind the path filter names) or other, *)
(* and the value of the root path is Nil or [type, plan, resources].       *)
(***************************************************************************)
EXTENDS GcpPurchase, Rationals, SequencesExt

CONSTANTS
    GcpReads,        \* the calls: records with op and its arguments
    RegionLimit,     \* CUDLY_GCP_REGION_PARALLELISM
    MaxCommitments,  \* maxCommitmentsPages (50), counted in commitments
    MaxMachineTypes, \* maxMachineTypeItems (20)
    MaxExactAmount   \* 2^53 - 1

VARIABLES
    read,     \* the member of GcpReads running
    region,   \* where each region is: [state, read, out, cached], out a set of [at, rec]
    skips,    \* recskip.Log: the <<region, position>> of what was skipped
    reply     \* Nil while the call runs, then <<"failed">>, <<"ok", recs>> or <<"partial", recs, skipped>>

gcpReadVars == <<read, region, skips, reply>>

IsList(seq) == Len(seq) \in Nat /\ DOMAIN seq = 1..Len(seq)
ASSUME GcpReadsAssumption ==
    \A call \in GcpReads : call.op = "advise" =>
        \A r \in DOMAIN call.regions :
            /\ Len(call.regions[r]) \in Nat /\ DOMAIN call.regions[r] = 1..Len(call.regions[r])
            /\ \A n \in DOMAIN call.regions[r] :
                 LET raw == call.regions[r][n]
                 IN  /\ raw.active \in BOOLEAN /\ IsList(raw.ops)
                     /\ \A op \in Range(raw.ops) :
                          (op.path = "/" /\ op.value # Nil /\ op.value.resources # Nil) => IsList(op.value.resources)

-----------------------------------------------------------------------------
(* The content of a recommendation.                                        *)

Mutates(op) == op.action \in {"add", "replace"}
BadAmount(amount) == amount = Nil \/ amount <= 0 \/ amount > MaxExactAmount

(* selectRootCommitment: Nil when there is none, an error when the root is *)
(* not the only mutation.                                                  *)
Mutations(ops) == {n \in DOMAIN ops : ops[n].commitment /\ ops[n].action # "test"}
Roots(ops) == {n \in DOMAIN ops : ops[n].commitment /\ Mutates(ops[n]) /\ ops[n].path = "/"}
Compound(ops) == Roots(ops) # {} /\ Cardinality(Mutations(ops)) # 1
Root(ops) == ops[Max(Roots(ops))].value

(* recommendationAmountType: "" for another operation.                     *)
AmountKind(op) ==
    IF ~op.commitment \/ ~Mutates(op) \/ op.path # "amount" THEN ""
    ELSE IF op.kind \in {"MEMORY", "MEMORY_MB"} THEN "MEMORY"
    ELSE IF op.kind \in {"VCPU", "ACCELERATOR", "LOCAL_SSD"} THEN op.kind ELSE "bad"

(* The first fault of a scan decides: "skip" for errBadAmount and          *)
(* errBadPlan, which lose one recommendation, "error" for the rest.        *)
FirstFault(faults) ==
    LET bad == {n \in DOMAIN faults : faults[n] # "none"} IN IF bad = {} THEN "none" ELSE faults[Min(bad)]

(* vcpuCountFromOperationGroups and memoryMBFromOperationGroups.           *)
AmountFault(ops, n, kind) ==
    IF AmountKind(ops[n]) = "bad" THEN "error"
    ELSE IF AmountKind(ops[n]) # kind THEN "none"
    ELSE IF \E k \in 1..(n - 1) : AmountKind(ops[k]) = kind THEN "error"
    ELSE IF BadAmount(ops[n].value) THEN "skip" ELSE "none"
AmountFaults(ops, kind) == FirstFault([n \in DOMAIN ops |-> AmountFault(ops, n, kind)])
AmountsOf(ops, kind) == {n \in DOMAIN ops : AmountKind(ops[n]) = kind}
Amount(ops, kind) == IF AmountsOf(ops, kind) = {} THEN 0 ELSE ops[Min(AmountsOf(ops, kind))].value

(* requireSingleAmountResource.                                            *)
OneResource(ops) ==
    Cardinality({ops[n].resource : n \in AmountsOf(ops, "VCPU") \cup AmountsOf(ops, "MEMORY")}) <= 1

RootFault(resources, n) ==
    IF resources[n].kind \notin {"VCPU", "MEMORY"} THEN "error"
    ELSE IF BadAmount(resources[n].value) THEN "skip"
    ELSE IF \E k \in 1..(n - 1) : resources[k].kind = resources[n].kind THEN "error" ELSE "none"
RootFaults(resources) == FirstFault([n \in DOMAIN resources |-> RootFault(resources, n)])
RootAmount(resources, kind) ==
    LET hits == {n \in DOMAIN resources : resources[n].kind = kind}
    IN  IF hits = {} THEN 0 ELSE resources[Max(hits)].value

(* rootCommitmentDetails: a type that is stated must be concrete.          *)
RootDetailsFault(value) ==
    IF value = Nil \/ value.type = "odd" \/ (value.type # "" /\ ConcreteCommitmentType(value.type) = Nil)
       \/ value.resources = Nil
    THEN "error"
    ELSE FirstFault(<<RootFaults(value.resources),
                      IF RootAmount(value.resources, "VCPU") = 0 \/ RootAmount(value.resources, "MEMORY") = 0
                      THEN "error" ELSE "none">>)

Sized(ops) == \E n \in DOMAIN ops : AmountKind(ops[n]) # ""
ResourceFault(ops) ==
    IF Compound(ops) THEN "error"
    ELSE IF Roots(ops) # {} THEN RootDetailsFault(Root(ops))
    ELSE IF ~OneResource(ops) THEN "error"
    ELSE FirstFault(<<AmountFaults(ops, "VCPU"),
                      IF Sized(ops) /\ Amount(ops, "VCPU") = 0 THEN "error" ELSE "none",
                      AmountFaults(ops, "MEMORY")>>)

(* rootPlanTerm: Nil when there is no plan, a fault for another one.       *)
PlanTerm == [plan \in {"TWELVE_MONTH", "THIRTY_SIX_MONTH"} |-> IF plan = "TWELVE_MONTH" THEN "1yr" ELSE "3yr"]
PlanOf(ops) == IF Roots(ops) = {} THEN "" ELSE Root(ops).plan
PlanFault(ops) ==
    IF Roots(ops) = {} THEN "none"
    ELSE IF Root(ops) = Nil THEN "skip"
    ELSE IF Root(ops).plan # "" /\ Root(ops).plan \notin DOMAIN PlanTerm THEN "skip" ELSE "none"

CanonicalTerm(term) ==
    IF TermPlan(term) = Nil THEN term ELSE IF TermYears(term) = 3 THEN "3yr" ELSE "1yr"

(* resolveRecTerm: [fault, term].                                          *)
TermFound(term) == [fault |-> "none", term |-> term]
NoTerm(fault) == [fault |-> fault, term |-> ""]
(* Mutant: the term asked for wins over the plan of the recommendation.    *)
MutantResolveRecTerm(ops, params) ==
    IF ~params.planTerm THEN TermFound(IF params.term = "" THEN "1yr" ELSE params.term)
    ELSE IF Compound(ops) THEN NoTerm("error")
    ELSE IF PlanFault(ops) # "none" THEN NoTerm(PlanFault(ops))
    ELSE IF params.term = "" THEN TermFound(IF PlanOf(ops) = "" THEN "1yr" ELSE PlanTerm[PlanOf(ops)])
    ELSE TermFound(CanonicalTerm(params.term))

ResolveRecTerm(ops, params) ==
    IF ~params.planTerm THEN TermFound(IF params.term = "" THEN "1yr" ELSE params.term)
    ELSE IF Compound(ops) THEN NoTerm("error")
    ELSE IF PlanFault(ops) # "none" THEN NoTerm(PlanFault(ops))
    ELSE IF PlanOf(ops) = ""
         THEN IF params.term # "" THEN TermFound(CanonicalTerm(params.term))
              ELSE IF Roots(ops) # {} THEN NoTerm("skip") ELSE TermFound("1yr")
    ELSE IF params.term = "" THEN TermFound(PlanTerm[PlanOf(ops)])
    ELSE IF CanonicalTerm(params.term) \notin {"1yr", "3yr"} THEN TermFound(CanonicalTerm(params.term))
    ELSE IF CanonicalTerm(params.term) # PlanTerm[PlanOf(ops)] THEN NoTerm("skip")
    ELSE TermFound(PlanTerm[PlanOf(ops)])

(* extractCostImpactFromRecommendation: a projected cost needs a currency  *)
(* and a duration.                                                         *)
CostFault(cost) ==
    IF cost.amount # 0 /\ (cost.currency # "USD" \/ cost.hours <= 0) THEN "skip" ELSE "none"
Savings(cost) == IF cost.amount = 0 THEN Zero ELSE RQuo(Int2Rat(-cost.amount * 730), Int2Rat(cost.hours))

(* extractResourceTypeFromRecommendation: "" when no path names one.       *)
MachineType(ops) ==
    LET named == {n \in DOMAIN ops : ops[n].machine # ""} IN IF named = {} THEN "" ELSE ops[Min(named)].machine

(* convertGCPRecommendation without the price.                             *)
Fault(raw, params) ==
    FirstFault(<<ResolveRecTerm(raw.ops, params).fault,
                 IF TermPlan(ResolveRecTerm(raw.ops, params).term) = Nil THEN "skip" ELSE "none",
                 CostFault(raw.cost), ResourceFault(raw.ops)>>)
Converted(raw, params) ==
    LET rooted == Roots(raw.ops) # {}
    IN  [count |-> IF rooted THEN RootAmount(Root(raw.ops).resources, "VCPU") ELSE Amount(raw.ops, "VCPU"),
         memory |-> IF rooted THEN RootAmount(Root(raw.ops).resources, "MEMORY") ELSE Amount(raw.ops, "MEMORY"),
         kind |-> IF rooted THEN Root(raw.ops).type ELSE "", term |-> ResolveRecTerm(raw.ops, params).term,
         machine |-> MachineType(raw.ops), savings |-> Savings(raw.cost), monthly |-> Nil, onDemand |-> Zero]

-----------------------------------------------------------------------------
(* Prices (pricing.go).  A SKU is [label, term, usage, ram, price,         *)
(* currency, unit] in the region; term is 0 in an on-demand description.   *)

FamilyLabel(family) == Alias("m1" :> "memory" @@ "m2" :> "memory", family)
CommitLabels(family) == {FamilyLabel(family)} \cup (IF family = "n1" THEN {""} ELSE {})
UsageOf(years) == IF years = 3 THEN "Commit3Yr" ELSE "Commit1Yr"

(* classify: a SKU described as the commitment but filed as another usage  *)
(* is an error.                                                            *)
OnDemandSku(sku, family) == sku.usage = "OnDemand" /\ sku.term = 0 /\ sku.label = FamilyLabel(family)
CommitSku(sku, family, years) == sku.usage # "OnDemand" /\ sku.term = years /\ sku.label \in CommitLabels(family)
Misfiled(sku, family, years) == CommitSku(sku, family, years) /\ sku.usage # UsageOf(years)

(* skuUnitPrice and rateCollector.                                         *)
UnitPriced(sku) == sku.price > 0 /\ sku.currency # "" /\ sku.unit = (IF sku.ram THEN "GiBy.h" ELSE "h")
SlotPrices(skus, ram) == {sku.price : sku \in {k \in skus : k.ram = ram}}
RatesFound(skus, family, years) ==
    LET onDemand == {k \in skus : OnDemandSku(k, family)}
        commit   == {k \in skus : CommitSku(k, family, years)}
    IN  /\ family # "" /\ ~\E k \in skus : Misfiled(k, family, years)
        /\ \A k \in onDemand \cup commit : UnitPriced(k)
        /\ Cardinality({k.currency : k \in onDemand \cup commit}) = 1
        /\ \A ram \in BOOLEAN : Cardinality(SlotPrices(onDemand, ram)) = 1 /\ Cardinality(SlotPrices(commit, ram)) = 1

(* The price per hour of the vCPUs and the GiB of memory.                  *)
HourlyRate(skus, rec) ==
    RAdd(Int2Rat(rec.count * Max(SlotPrices(skus, FALSE))), RMul(Rat(rec.memory, 1024), Int2Rat(Max(SlotPrices(skus, TRUE)))))

(* resourcesFromRecommendation and getComputePricing, over the catalogue   *)
(* or Nil when it cannot be listed.                                        *)
CanPrice(rec, skus) ==
    /\ skus # Nil /\ TermYears(rec.term) # 0 /\ rec.count > 0 /\ rec.memory > 0
    /\ RatesFound(skus, rec.machine, TermYears(rec.term))
CommitmentMonthly(rec, skus) ==
    RMul(Int2Rat(730), HourlyRate({k \in skus : CommitSku(k, rec.machine, TermYears(rec.term))}, rec))
OnDemandMonthly(rec, skus) == RMul(Int2Rat(730), HourlyRate({k \in skus : OnDemandSku(k, rec.machine)}, rec))

(* enrichRecWithPricing: a recommendation without a price stays.           *)
Enriched(rec, skus) ==
    IF rec.machine # "" /\ CanPrice(rec, skus)
    THEN [rec EXCEPT !.monthly = CommitmentMonthly(rec, skus), !.onDemand = OnDemandMonthly(rec, skus)]
    ELSE rec

-----------------------------------------------------------------------------
(* The regions.  Each has a client of its own, with the SKU catalogue it   *)
(* has listed: a listing that fails is tried again for the next one.       *)

Advising == reply = Nil /\ read.op = "advise"
ComputeWanted == read.params.service \in {"", "compute"}
Regions == DOMAIN read.regions
RegionsRunning == {r \in Regions : region[r].state = "running"}
NextRec(r) == read.regions[r][region[r].read + 1]
HasNext(r) == region[r].read < Len(read.regions[r])
Untouched == <<read, reply>>

StartRegion(r) ==
    /\ Advising /\ region[r].state = "waiting" /\ Cardinality(RegionsRunning) < RegionLimit
    /\ region' = [region EXCEPT ![r].state = IF ComputeWanted THEN "running" ELSE "excluded"]
    /\ UNCHANGED <<Untouched, skips>>

(* listComputeSKUs.                                                        *)
Catalogues(r) == IF region[r].cached THEN {read.skus} ELSE {Nil, read.skus}

Reading(r) == Advising /\ region[r].state = "running" /\ HasNext(r)
Here(r) == <<r, region[r].read + 1>>
FaultNext(r) == Fault(NextRec(r), read.params)

PassInactive(r) ==
    /\ Reading(r) /\ ~NextRec(r).active
    /\ region' = [region EXCEPT ![r].read = @ + 1] /\ UNCHANGED <<Untouched, skips>>
RecordSkip(r) ==
    /\ Reading(r) /\ NextRec(r).active /\ FaultNext(r) = "skip"
    /\ region' = [region EXCEPT ![r].read = @ + 1] /\ skips' = skips \cup {Here(r)} /\ UNCHANGED Untouched
RefuseRegion(r) ==
    /\ Reading(r) /\ NextRec(r).active /\ FaultNext(r) = "error"
    /\ region' = [region EXCEPT ![r].state = "failed", ![r].out = {}] /\ UNCHANGED <<Untouched, skips>>
ConvertRec(r) ==
    /\ Reading(r) /\ NextRec(r).active /\ FaultNext(r) = "none"
    /\ \E skus \in Catalogues(r) :
         LET rec == [at |-> Here(r), rec |-> Enriched(Converted(NextRec(r), read.params), skus)]
         IN  region' = [region EXCEPT ![r].out = @ \cup {rec}, ![r].cached = skus # Nil, ![r].read = @ + 1]
    /\ UNCHANGED <<Untouched, skips>>
FinishRegion(r) ==
    /\ Advising /\ region[r].state = "running" /\ ~HasNext(r)
    /\ region' = [region EXCEPT ![r].state = "done"] /\ UNCHANGED <<Untouched, skips>>

(* A slot that is not obtained, a page that fails, the cap on pages.       *)
RegionFails(r) ==
    /\ Advising /\ region[r].state = "running"
    /\ region' = [region EXCEPT ![r].state = "failed", ![r].out = {}] /\ UNCHANGED <<Untouched, skips>>

WithSkips(recs) == IF skips = {} THEN <<"ok", recs>> ELSE <<"partial", recs, skips>>

Attempted == {r \in Regions : region[r].state \in {"done", "failed"}}
AllFailed == Attempted # {} /\ \A r \in Attempted : region[r].state = "failed"
Merged == UNION {region[r].out : r \in Regions}
MergeRegions ==
    /\ Advising /\ \A r \in Regions : region[r].state \in {"done", "failed", "excluded"}
    /\ reply' = (IF AllFailed THEN <<"failed">> ELSE WithSkips(Merged))
    /\ UNCHANGED <<read, region, skips>>

(* The regions cannot be listed, which is no error when GCP denies it, or  *)
(* the caller gives up.                                                    *)
NoRegions ==
    /\ Advising /\ \A r \in Regions : region[r].state = "waiting"
    /\ reply' \in {<<"failed">>, <<"ok", {}>>} /\ UNCHANGED <<read, region, skips>>

-----------------------------------------------------------------------------
(* The other reads of the client.                                          *)

Answered(value) == reply' = value /\ UNCHANGED <<read, region, skips>>

GcpReadFails == reply = Nil /\ Answered(<<"failed">>)

(* commitmentVCPUCount and convertGCPCommitmentToCommon.                   *)
KnownKinds == {"VCPU", "MEMORY", "LOCAL_SSD", "ACCELERATOR"}
ResourcesValid(resources) ==
    /\ \A n \in DOMAIN resources : resources[n].kind \in KnownKinds /\ resources[n].value # Nil
    /\ \A n \in DOMAIN resources : resources[n].value > 0
    /\ \A n, k \in DOMAIN resources : resources[n].kind = resources[k].kind => n = k
    /\ \E n \in DOMAIN resources : resources[n].kind = "VCPU"
Convertible(com) == com.name # "" /\ com.start # Nil /\ com.type # "" /\ ResourcesValid(com.resources)
CommitmentState(status) ==
    Alias("ACTIVE" :> "active" @@ "NOT_YET_ACTIVE" :> "queued" @@ "CREATING" :> "payment-pending", status)
ToCommon(com) ==
    [name |-> com.name, type |-> com.type, state |-> CommitmentState(com.status), count |-> RootAmount(com.resources, "VCPU")]

(* GetExistingCommitments: GCP filters the expired and cancelled ones.     *)
LiveCommitments(commitments) == SelectSeq(commitments, LAMBDA c : c.status \notin {"EXPIRED", "CANCELLED"})
ListCommitments ==
    /\ reply = Nil /\ read.op = "list"
    /\ LET live == LiveCommitments(read.commitments)
       IN  /\ Len(live) <= MaxCommitments /\ \A n \in DOMAIN live : Convertible(live[n])
           /\ Answered(<<"ok", [n \in DOMAIN live |-> ToCommon(live[n])]>>)

(* GetValidResourceTypes: the cap is met before the end of the list is     *)
(* seen.                                                                   *)
ValidTypes ==
    /\ reply = Nil /\ read.op = "types" /\ Len(read.types) < MaxMachineTypes
    /\ LET named == SelectSeq(read.types, LAMBDA t : t # Nil)
       IN  named # <<>> /\ Answered(<<"ok", named>>)

(* GetOfferingDetails: the whole price up front unless it is monthly.      *)
OfferingDetails ==
    /\ reply = Nil /\ read.op = "quote" /\ CanPrice(read.rec, read.skus)
    /\ LET total == RMul(Int2Rat(12 * TermYears(read.rec.term)), CommitmentMonthly(read.rec, read.skus))
           monthly == read.rec.payment \in {"monthly", "no-upfront"}
       IN  Answered(<<"ok", [upfront |-> IF monthly THEN Zero ELSE total,
                             recurring |-> IF monthly THEN CommitmentMonthly(read.rec, read.skus) ELSE Zero,
                             total |-> total]>>)

GcpReadInit ==
    /\ read \in GcpReads /\ skips = {} /\ reply = Nil
    /\ region = [r \in (IF read.op = "advise" THEN Regions ELSE {}) |->
                    [state |-> "waiting", read |-> 0, out |-> {}, cached |-> FALSE]]

GcpReadNext ==
    \/ \E r \in DOMAIN region : StartRegion(r) \/ PassInactive(r) \/ RecordSkip(r) \/ RefuseRegion(r) \/ ConvertRec(r)
                               \/ FinishRegion(r) \/ RegionFails(r)
    \/ MergeRegions \/ NoRegions \/ GcpReadFails \/ ListCommitments \/ ValidTypes \/ OfferingDetails

-----------------------------------------------------------------------------
(* What the operations of a recommendation say, read without the code's    *)
(* scans: the amounts of a kind, the plan and the type.                    *)
Changing(raw) == {n \in DOMAIN raw.ops : raw.ops[n].commitment /\ Mutates(raw.ops[n])}
KindOf(op) == IF op.kind = "MEMORY_MB" THEN "MEMORY" ELSE op.kind
StatedBy(op, n) ==
    IF op.path = "/"
    THEN {[at |-> <<n, i>>, kind |-> op.value.resources[i].kind, value |-> op.value.resources[i].value] :
            i \in DOMAIN op.value.resources}
    ELSE IF op.path = "amount" THEN {[at |-> <<n, 0>>, kind |-> KindOf(op), value |-> op.value]} ELSE {}
Stated(raw, kind) == {s \in UNION {StatedBy(raw.ops[n], n) : n \in Changing(raw)} : s.kind = kind}
Says(raw, kind, value) == \E s \in Stated(raw, kind) : Stated(raw, kind) = {s} /\ s.value = value
BuysAsAdvised(raw, rec) ==
    LET order == [token |-> "", rec |-> rec]
        content == ContentOf(rec)
    IN  Buildable(order) =>
          /\ Says(raw, "VCPU", content.vcpu) /\ Says(raw, "MEMORY", content.memory)
          /\ \A n \in {k \in Changing(raw) : raw.ops[k].path = "/"} :
               LET value == raw.ops[n].value
               IN  /\ (read.params.planTerm /\ value.plan # "") => content.plan = value.plan
                   /\ value.type # "" => content.type = value.type

(* What a call that ended returned and what it named as skipped.           *)
AdviceGiven == reply[2]
AdviceSkipped == IF reply[1] = "partial" THEN reply[3] ELSE {}
PlacesOf(out) == {o.at : o \in out}
AdviceEnded == read.op = "advise" /\ reply # Nil /\ reply[1] # "failed" /\ Attempted # {}

(* Every active recommendation of a region that was read to its end is     *)
(* returned once or named among the skipped ones, none is both.            *)
AllAccounted ==
    /\ \A o, p \in AdviceGiven : o.at = p.at => o = p
    /\ PlacesOf(AdviceGiven) \cap AdviceSkipped = {}
    /\ \A r \in Attempted : region[r].state = "done" =>
         \A n \in DOMAIN read.regions[r] :
            read.regions[r][n].active <=> <<r, n>> \in PlacesOf(AdviceGiven) \cup AdviceSkipped

(* Each active recommendation is accounted for so, and what is returned can*)
(* only be bought with the amounts, the plan and the type GCP recommended  *)
(* (collectRegion, withSkips, convertGCPRecommendation,                    *)
(* buildInsertRequest).                                                    *)
GcpAdviceAccounted ==
    AdviceEnded => AllAccounted /\ \A o \in AdviceGiven : BuysAsAdvised(read.regions[o.at[1]][o.at[2]], o.rec)
=============================================================================
