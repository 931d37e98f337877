------------------------------- MODULE Dedupe -------------------------------
(***************************************************************************)
(* The deduplication of recommendations against recent commitments         *)
(* (pkg/recfilter/dedupe*.go, providers/gcp/services/computeengine/        *)
(* dedupe.go), as operators.  rec and c stand for a recommendation and a   *)
(* commitment, records with the same attributes; the provider is told by   *)
(* the service.  A budget is what the recent commitments can still cover:  *)
(* units by key, and for EC2 what is left of each commitment.              *)
(***************************************************************************)
EXTENDS Names, SequencesExt

CONSTANTS
    LookbackHours   \* DuplicateChecker.LookbackHours

LeastOf(a, b) == IF a <= b THEN a ELSE b

(* isRecentActiveCommitment at time 0: a state nobody knows counts, and a  *)
(* start known to the day counts to the end of that day.                   *)
IsRecentActive(c) ==
    /\ c.state \notin {"retired", "pending-return", "expired", "canceled", "failed"}
    /\ c.start + (IF c.dayOnly THEN 24 ELSE 0) > -LookbackHours

-----------------------------------------------------------------------------
(* Reservations other than EC2.                                            *)

DedupeEngine(x) == NormalizeEngineName(x.engine)

(* rdsFlexKey: a size-flexible RDS reservation is a budget of its family,  *)
(* and a Multi-AZ one is worth two.                                        *)
RdsFlexible(x) ==
    x.service = "rds" /\ RDSSizeFlexibleEngine(DedupeEngine(x)) /\ RDSInstanceNU(x.size) > 0
RdsDeploymentFactor(deployment) == IF deployment = "multiaz" THEN 2 ELSE 1
RdsBudgetDeployment(deployment) == IF deployment \in {"singleaz", "multiaz"} THEN "any az" ELSE deployment

Units(x) ==
    IF RdsFlexible(x)
    THEN RDSInstanceNU(x.size) * RdsDeploymentFactor(NormalizeDeploymentName(x.deployment))
    ELSE 1

DedupeKey(x, engine) ==
    LET deployment == NormalizeDeploymentName(x.deployment)
    IN  IF RdsFlexible(x) THEN <<x.family, "*", x.region, engine, RdsBudgetDeployment(deployment)>>
        ELSE <<x.family, x.size, x.region, engine, deployment>>

(* coveringElastiCacheEngines: four Redis nodes cover five of Valkey, and  *)
(* a reservation whose engine is unknown covers any.                       *)
Cover(engine, nodes, reserved) == [engine |-> engine, nodes |-> nodes, reserved |-> reserved]
Covers(rec) ==
    LET own == Cover(DedupeEngine(rec), 1, Units(rec))
    IN  IF rec.service # "elasticache" \/ own.engine = "" THEN <<own>>
        ELSE IF own.engine = "valkey" THEN <<own, Cover("redis", 5, 4), Cover("", 1, 1)>>
        ELSE <<own, Cover("", 1, 1)>>

Covered(cover, available, want) == LeastOf((available * cover.nodes) \div cover.reserved, want)
Spent(cover, covered) == (covered * cover.reserved + cover.nodes - 1) \div cover.nodes

ExistingMap(cs) ==
    LET keys == {DedupeKey(cs[i], DedupeEngine(cs[i])) : i \in DOMAIN cs}
        Of(k) == {i \in DOMAIN cs : DedupeKey(cs[i], DedupeEngine(cs[i])) = k}
    IN  [k \in keys |-> FoldSet(LAMBDA i, sum : sum + cs[i].count * Units(cs[i]), 0, Of(k))]

(* adjustSingleRecommendation: the count left after every cover in turn.   *)
AdjustSingle(rec, units) ==
    LET Use(acc, cover) ==
            LET key == DedupeKey(rec, cover.engine)
                n   == IF key \in DOMAIN acc.units /\ acc.units[key] > 0
                       THEN Covered(cover, acc.units[key], acc.count) ELSE 0
            IN  IF n = 0 THEN acc
                ELSE [count |-> acc.count - n, units |-> [acc.units EXCEPT ![key] = @ - Spent(cover, n)]]
    IN  IF rec.count <= 0 THEN [count |-> 0, units |-> units]
        ELSE FoldLeft(Use, [count |-> rec.count, units |-> units], Covers(rec))

-----------------------------------------------------------------------------
(* EC2 reserved instances.                                                 *)

ScopeKind(x) ==
    IF x.az # "" \/ NormalizeScopeName(x.scope) = "zonal" THEN "zonal"
    ELSE IF NormalizeScopeName(x.scope) = "regional" THEN "regional" ELSE "unknown"

ScopeCovers(c, rec) ==
    \/ "unknown" \in {ScopeKind(c), ScopeKind(rec)}
    \/ ScopeKind(c) = "regional"
    \/ ScopeKind(rec) = "zonal" /\ (c.az = "" \/ rec.az = "" \/ c.az = rec.az)

Agree(a, b) == a = "" \/ b = "" \/ a = b
EntryCovers(c, rec) ==
    /\ <<c.family, c.size, c.region>> = <<rec.family, rec.size, rec.region>>
    /\ Agree(NormalizePlatformName(c.platform), NormalizePlatformName(rec.platform))
    /\ Agree(NormalizeTenancyName(c.tenancy), NormalizeTenancyName(rec.tenancy))
    /\ ScopeCovers(c, rec)

WildcardCount(c) ==
    Cardinality({w \in {"platform", "tenancy", "scope", "zone"} :
        \/ w = "platform" /\ NormalizePlatformName(c.platform) = ""
        \/ w = "tenancy" /\ NormalizeTenancyName(c.tenancy) = ""
        \/ w = "scope" /\ ScopeKind(c) = "unknown"
        \/ w = "zone" /\ ScopeKind(c) = "zonal" /\ c.az = ""})

(* ec2FlexKey: regional Linux reservations of default tenancy are a budget *)
(* of normalized units for their family.                                   *)
FlexUnits(x) ==
    IF /\ NormalizePlatformName(x.platform) = "linux/unix"
       /\ NormalizeTenancyName(x.tenancy) = "default"
       /\ EC2SizeFlexibleFamily(x.family)
    THEN EC2NormalizationFactor(x.size) ELSE 0
IsFlex(c) == FlexUnits(c) > 0 /\ ScopeKind(c) = "regional"

Entries(cs) == {i \in DOMAIN cs : cs[i].service = "ec2"}
EntryUnits(c) == IF IsFlex(c) THEN FlexUnits(c) ELSE 1
NewLeft(cs) ==
    [i \in Entries(cs) |->
        IF IsFlex(cs[i]) THEN FlexUnits(cs[i]) * (IF cs[i].count > 0 THEN cs[i].count ELSE 0)
        ELSE cs[i].count]

InOrder(indices, cs) ==
    SetToSortSeq(indices, LAMBDA i, j :
        \/ WildcardCount(cs[i]) < WildcardCount(cs[j])
        \/ WildcardCount(cs[i]) = WildcardCount(cs[j]) /\ i < j)

(* Mutant: what the family covers is not taken from its budget.            *)
MutantConsumeFamily(rec, cs, acc) ==
    LET family == {i \in Entries(cs) : IsFlex(cs[i]) /\ cs[i].family = rec.family /\ cs[i].region = rec.region}
        budget == FoldSet(LAMBDA i, sum : sum + acc.left[i], 0, family)
    IN  IF FlexUnits(rec) = 0 \/ acc.count <= 0 THEN acc
        ELSE [acc EXCEPT !.count = @ - LeastOf(budget \div FlexUnits(rec), acc.count)]

(* consumeFamily: whole nodes of the family's remaining units, taken from  *)
(* its commitments in their order.                                         *)
ConsumeFamily(rec, cs, acc) ==
    LET family  == {i \in Entries(cs) : IsFlex(cs[i]) /\ cs[i].family = rec.family /\ cs[i].region = rec.region}
        budget  == FoldSet(LAMBDA i, sum : sum + acc.left[i], 0, family)
        covered == LeastOf(budget \div FlexUnits(rec), acc.count)
        Take(a, i) ==
            LET n == LeastOf(a.left[i], a.need)
            IN  [need |-> a.need - n, left |-> [a.left EXCEPT ![i] = @ - n]]
        taken == FoldLeft(Take, [need |-> covered * FlexUnits(rec), left |-> acc.left],
                          SetToSortSeq(family, LAMBDA i, j : i < j))
    IN  IF FlexUnits(rec) = 0 \/ acc.count <= 0 THEN acc
        ELSE [count |-> acc.count - covered, left |-> taken.left]

(* ec2Dedupe.adjust: the commitments of the same type, the most specific   *)
(* first, then the family.                                                 *)
AdjustEC2(rec, cs, left) ==
    LET Use(acc, i) ==
            LET n == LeastOf(acc.left[i] \div EntryUnits(cs[i]), acc.count)
            IN  IF acc.count <= 0 \/ n <= 0 THEN acc
                ELSE [count |-> acc.count - n, left |-> [acc.left EXCEPT ![i] = @ - n * EntryUnits(cs[i])]]
        exact == InOrder({i \in Entries(cs) : EntryCovers(cs[i], rec)}, cs)
    IN  ConsumeFamily(rec, cs, FoldLeft(Use, [count |-> rec.count, left |-> left], exact))

-----------------------------------------------------------------------------
(* adjustRecommendationsAgainstExisting: the count left of each            *)
(* recommendation, all drawing on one budget.                              *)
CountsLeft(rs, cs) ==
    LET Next1(acc, rec) ==
            IF rec.service = "ec2"
            THEN LET a == AdjustEC2(rec, cs, acc.left)
                 IN  [acc EXCEPT !.counts = Append(@, a.count), !.left = a.left]
            ELSE LET a == AdjustSingle(rec, acc.units)
                 IN  [acc EXCEPT !.counts = Append(@, a.count), !.units = a.units]
    IN  FoldLeft(Next1, [counts |-> <<>>, units |-> ExistingMap(cs), left |-> NewLeft(cs)], rs).counts

(* The GCP client's filter: a pool with a recent commitment defers every   *)
(* recommendation of its account, region and family, and a recommendation  *)
(* or commitment it cannot place fails the whole call.                     *)
ValidCUD(x) == x.service = "gcp-compute" /\ x.account # "" /\ x.region # ""
Pool(x) == <<x.account, x.region, x.family>>
PoolDeferred(rec, cs) == \E i \in DOMAIN cs : Pool(cs[i]) = Pool(rec)
CanFilterPools(rs, cs) == (\A i \in DOMAIN cs : ValidCUD(cs[i])) /\ (\A i \in DOMAIN rs : ValidCUD(rs[i]))
=============================================================================
