----------------------------- MODULE RecFilter ------------------------------
(***************************************************************************)
(* What happens to recommendations between collection and purchase         *)
(* (pkg/recfilter, pkg/scorer, pkg/common/resize.go, breakeven.go): the    *)
(* pool-size filter, the deduplication against recent commitments, the two *)
(* ways of sizing and the scorer.  The caller applies them in an order of  *)
(* its choice, so the stages are actions.  Amounts are exact; a float that *)
(* is not finite is NaN.                                                   *)
(***************************************************************************)
EXTENDS Rationals, Dedupe

CONSTANTS
    NaN,           \* a float that is not finite
    Portfolios,    \* what a caller may start with: recommendations and commitments
    Coverages,     \* percentages given to ApplyCoverage,
    Targets,       \* to ApplyTargetCoverage,
    PoolSizes,     \* Filters.MinPoolSize values
    ScoreConfigs,  \* and configurations of the scorer
    Selections,    \* Filters by region, type and engine
    MaxStages      \* bound on the stages applied

VARIABLES
    portfolio,   \* the member of Portfolios the caller starts with
    recs,        \* the recommendations left
    drops,       \* common.DropSummary: reason -> recommendations
    removed,     \* recommendations a stage returned as filtered
    stages,      \* stages applied so far
    deduped      \* the last deduplication: recommendations, recent commitments
                 \* and the count left of each recommendation

pipelineVars == <<portfolio, recs, drops, removed, stages, deduped>>

DropReasons ==
    {"min-pool-size", "coverage-sized-to-zero", "target-already-met", "target-sized-to-zero",
     "target-input-invalid", "target-coverage-unknown"}
NotDeduped == [recs |-> <<>>, recent |-> <<>>, left |-> <<>>]

(* Money is a number, or not reported; a reading may also be NaN.          *)
IsMoney(amount) == amount = Nil \/ InLowestTerms(amount)
IsReading(amount) == amount = NaN \/ InLowestTerms(amount)
RecFields ==
    {"id", "service", "count", "cost", "onDemand", "savings", "recurring", "hourly", "avg", "use", "covered",
     "breakEven", "projUse", "projCover"}
IsRecommendation(rec) ==
    /\ RecFields \subseteq DOMAIN rec /\ rec.count \in Int
    /\ InLowestTerms(rec.cost) /\ InLowestTerms(rec.onDemand) /\ InLowestTerms(rec.savings)
    /\ IsMoney(rec.recurring) /\ IsMoney(rec.hourly)
    /\ IsReading(rec.avg) /\ IsReading(rec.use) /\ IsReading(rec.covered)

ASSUME FilterAssumption ==
    /\ Nil \notin Int \X Int /\ NaN \notin Int \X Int
    /\ \A p \in Portfolios :
         /\ p.recs \in Seq(Range(p.recs))
         /\ \A i \in DOMAIN p.recs : IsRecommendation(p.recs[i]) /\ p.recs[i].id = i
    /\ Coverages \subseteq Int
    /\ \A target \in Targets : IsReading(target)

IsSavingsPlan(service) == service \in {"savings-plans", "savings-plans-compute", "savingsplans"}

(* ScaleRecommendationCosts: money that was not reported stays so, and the *)
(* hourly commitment of a savings plan scales with the rest.               *)
MoneyFields == {"cost", "onDemand", "savings", "recurring", "hourly"}
Scaled(amount, ratio) == IF amount = Nil THEN Nil ELSE RMul(amount, ratio)
ScaleRecommendationCosts(rec, ratio) ==
    [f \in DOMAIN rec |-> IF f \in MoneyFields THEN Scaled(rec[f], ratio) ELSE rec[f]]

(* ResizeCount, which refuses any count but a smaller one of at least one. *)
CanResize(rec, n) == n \in 1..rec.count
ResizeCount(rec, n) ==
    IF n = rec.count THEN rec
    ELSE [ScaleRecommendationCosts(rec, Rat(n, rec.count)) EXCEPT !.count = n]

-----------------------------------------------------------------------------
(* What a loop over the recommendations appends: the positions in K, in    *)
(* their order.                                                            *)
InTurn(K) ==
    CHOOSE f \in [1..Cardinality(K) -> K] : \A m, n \in 1..Cardinality(K) : m < n => f[m] < f[n]
Kept(s, K) == [n \in 1..Cardinality(K) |-> s[InTurn(K)[n]]]

-----------------------------------------------------------------------------
(* Sizing (sizing.go).  A verdict is the recommendation that stays, or the *)
(* reason why it is dropped.                                               *)

Keep(rec) == [rec |-> rec, reason |-> ""]
Drop(reason) == [rec |-> Nil, reason |-> reason]

CoverageOne(rec, pct) ==
    LET n == (rec.count * pct) \div 100
    IN  IF IsSavingsPlan(rec.service)
        THEN Keep(IF rec.hourly = Nil THEN rec ELSE ScaleRecommendationCosts(rec, Rat(pct, 100)))
        ELSE IF n > 0 THEN Keep([ScaleRecommendationCosts(rec, Rat(n, rec.count)) EXCEPT !.count = n])
        ELSE Drop("coverage-sized-to-zero")

TargetCoverageInputsValid(rec, target) ==
    NaN \notin {rec.avg, rec.covered, target} /\ RLe(Zero, rec.covered)

(* targetCoverageRICount: whole instances inside the gap; the exact        *)
(* percentage is used when it agrees with the float.                       *)
TargetGap(rec, target) == RSub(target, rec.covered)
TargetCount(rec, target) ==
    LET q == RMul(TargetGap(rec, target), RQuo(rec.avg, Int2Rat(100)))
    IN  q[1] \div q[2]

TargetRI(rec, target) ==
    IF ~TargetCoverageInputsValid(rec, target) THEN Drop("target-input-invalid")
    ELSE IF RLe(rec.avg, Zero) THEN Keep(rec)
    ELSE IF ~rec.coverKnown THEN Drop("target-coverage-unknown")
    ELSE IF RLe(TargetGap(rec, target), Zero) THEN Drop("target-already-met")
    ELSE IF TargetCount(rec, target) = 0 THEN Drop("target-sized-to-zero")
    ELSE IF rec.count <= 0 THEN Drop("target-input-invalid")
    ELSE LET n == TargetCount(rec, target)
             share == RMul(RQuo(Int2Rat(n), rec.avg), Int2Rat(100))
         IN  Keep([ScaleRecommendationCosts(rec, Rat(n, rec.count)) EXCEPT
                     !.count = n,
                     !.projUse = RMin(RMul(RQuo(rec.avg, Int2Rat(n)), Int2Rat(100)), Int2Rat(100)),
                     !.projCover = RMin(RAdd(rec.covered, share), Int2Rat(100))])

TargetSP(rec, target) ==
    IF RLe(rec.use, Zero) \/ rec.hourly = Nil \/ RLe(rec.hourly, Zero) THEN rec
    ELSE LET ratio == RQuo(target, Int2Rat(100))
         IN  [ScaleRecommendationCosts(rec, ratio) EXCEPT
                !.projUse = RMin(RQuo(rec.use, ratio), Int2Rat(100))]

TargetOne(rec, target) ==
    IF IsSavingsPlan(rec.service) THEN Keep(IF target = NaN THEN rec ELSE TargetSP(rec, target))
    ELSE IF rec.type = "ri" THEN TargetRI(rec, target)
    ELSE Keep(rec)

(* Filters.IncludesPoolSize: no signal passes, NaN does not.               *)
IncludesPoolSize(rec, minimum) ==
    rec.avg # NaN /\ (RLe(rec.avg, Zero) \/ RLe(minimum, rec.avg))
PoolOne(rec, minimum) == IF IncludesPoolSize(rec, minimum) THEN Keep(rec) ELSE Drop("min-pool-size")

Includes(include, exclude, value) == (include # {} => value \in include) /\ value \notin exclude

-----------------------------------------------------------------------------
(* The scorer.                                                             *)

UpfrontPriceUnknown(rec) == rec.cost = Zero /\ rec.payment \in {"all-upfront", "partial-upfront"}

(* BreakEven, in months; Nil when it is not known, NaN when it never is.   *)
BreakEven(rec) ==
    IF rec.breakEven # Nil /\ RLt(Zero, rec.breakEven) THEN rec.breakEven
    ELSE IF RLt(rec.cost, Zero) THEN Nil
    ELSE IF rec.cost = Zero THEN IF UpfrontPriceUnknown(rec) THEN Nil ELSE Zero
    ELSE IF rec.term \notin {12, 36} THEN Nil
    ELSE LET gross == RAdd(rec.savings, RQuo(rec.cost, Int2Rat(rec.term)))
         IN  IF RLe(gross, Zero) THEN NaN ELSE RQuo(rec.cost, gross)

FilterReason(rec, cfg) ==
    LET months == BreakEven(rec)
    IN  IF cfg.services # {} /\ rec.service \notin cfg.services THEN "service"
        ELSE IF cfg.minSavings # Nil /\ RLt(rec.pct, cfg.minSavings) THEN "savings"
        ELSE IF cfg.maxMonths > 0 /\ (months \in {Nil, NaN} \/ RLt(Int2Rat(cfg.maxMonths), months))
             THEN "break-even"
        ELSE IF rec.type # "savings-plan" /\ rec.count < cfg.minCount THEN "count"
        ELSE ""

(* Score: the recommendations that pass, best savings first, in one of the *)
(* orders sort.Slice may answer.                                           *)
ScoredBefore(a, b) ==
    RLt(b.pct, a.pct) \/ (a.pct = b.pct /\ RLt(b.savings, a.savings))
Passing(rec) ==
    LET months == BreakEven(rec)
    IN  IF months \in {Nil, NaN, Zero} THEN rec ELSE [rec EXCEPT !.breakEven = months]
Score(rs, cfg) ==
    LET passed == {i \in DOMAIN rs : FilterReason(rs[i], cfg) = ""}
        ranks  == 1..Cardinality(passed)
    IN  {[n \in ranks |-> Passing(rs[f[n]])] :
            f \in {g \in [ranks -> passed] : \A m, n \in ranks : m < n => g[m] # g[n] /\ ~ScoredBefore(rs[g[n]], rs[g[m]])}}

-----------------------------------------------------------------------------
(* The stages.                                                             *)

(* Every recommendation is kept as its verdict says or counted as dropped. *)
Because(verdicts, reason) == {i \in DOMAIN verdicts : verdicts[i].reason = reason}
Staying(verdicts) == Kept([i \in DOMAIN verdicts |-> verdicts[i].rec], Because(verdicts, ""))

(* Mutant: a stage's drops replace those counted before it.                *)
MutantJudged(verdicts) ==
    /\ recs' = Staying(verdicts)
    /\ drops' = [r \in DropReasons |-> Cardinality(Because(verdicts, r))]

Judged(verdicts) ==
    /\ recs' = Staying(verdicts)
    /\ drops' = [r \in DropReasons |-> drops[r] + Cardinality(Because(verdicts, r))]

ApplyCoverage(pct) ==
    /\ \/ pct >= 100 /\ UNCHANGED <<recs, drops>>
       \/ pct <= 0 /\ Judged([i \in DOMAIN recs |-> Drop("coverage-sized-to-zero")])
       \/ pct \in 1..99 /\ Judged([i \in DOMAIN recs |-> CoverageOne(recs[i], pct)])
    /\ UNCHANGED <<removed, deduped>>

TargetOutOfRange(target) ==
    target # NaN /\ (RLe(target, Zero) \/ RLt(Int2Rat(100), target))

ApplyTargetCoverage(target) ==
    /\ \/ TargetOutOfRange(target) /\ UNCHANGED <<recs, drops>>
       \/ ~TargetOutOfRange(target) /\ Judged([i \in DOMAIN recs |-> TargetOne(recs[i], target)])
    /\ UNCHANGED <<removed, deduped>>

ApplyMinPoolSize(minimum) ==
    /\ \/ RLe(minimum, Zero) /\ UNCHANGED <<recs, drops>>
       \/ RLt(Zero, minimum) /\ Judged([i \in DOMAIN recs |-> PoolOne(recs[i], minimum)])
    /\ UNCHANGED <<removed, deduped>>

(* The commitments a recommendation is checked against.                    *)
Recent == SelectSeq(portfolio.commitments, IsRecentActive)
StillWanted(rs, left) == {i \in DOMAIN rs : left[i] > 0}

(* Mutant: the recommendation is passed with its old costs.                *)
MutantResized(rs, left) ==
    Kept([i \in DOMAIN rs |-> [rs[i] EXCEPT !.count = left[i]]], StillWanted(rs, left))

Resized(rs, left) == Kept([i \in DOMAIN rs |-> ResizeCount(rs[i], left[i])], StillWanted(rs, left))

(* AdjustRecommendationsForExisting.  When a count cannot be resized it    *)
(* returns no list but an error, and the caller goes on, if at all, with   *)
(* the one it passed in: recs is what the caller holds, and stays as it is *)
(* then, as it does when the listing fails or nothing is recent.           *)
AdjustForExisting ==
    /\ \/ UNCHANGED <<recs, removed, deduped>>
       \/ \E left \in {CountsLeft(recs, Recent)} :
            /\ Recent # <<>> /\ ~portfolio.gcp
            /\ \A i \in StillWanted(recs, left) : CanResize(recs[i], left[i])
            /\ recs' = Resized(recs, left)
            /\ removed' = removed + Len(recs) - Len(recs')
            /\ deduped' = [recs |-> recs, recent |-> Recent, left |-> left]
       \/ /\ Recent # <<>> /\ portfolio.gcp /\ CanFilterPools(recs, Recent)
          /\ recs' = Kept(recs, {i \in DOMAIN recs : ~PoolDeferred(recs[i], Recent)})
          /\ removed' = removed + Len(recs) - Len(recs')
          /\ UNCHANGED deduped
    /\ UNCHANGED drops

(* The caller's selection by Filters: a recommendation without an engine   *)
(* passes only if no engine is asked for; EC2 is selected by platform.     *)
EngineFilterKey(rec) ==
    IF rec.service = "ec2" THEN NormalizePlatformName(rec.platform) ELSE NormalizeEngineName(rec.engine)
IncludesEngine(f, rec) ==
    IF EngineFilterKey(rec) = "" THEN f.engines = {}
    ELSE Includes({NormalizeEngineName(NormalizePlatformName(e)) : e \in f.engines}, f.notEngines, EngineFilterKey(rec))
Select(f) ==
    LET Included(rec) ==
            /\ Includes(f.regions, f.notRegions, rec.region)
            /\ Includes(f.types, f.notTypes, <<rec.family, rec.size>>)
            /\ IncludesEngine(f, rec)
    IN  /\ recs' = Kept(recs, {i \in DOMAIN recs : Included(recs[i])})
        /\ removed' = removed + Len(recs) - Len(recs')
        /\ UNCHANGED <<drops, deduped>>

ApplyScore(cfg) ==
    /\ recs' \in Score(recs, cfg)
    /\ removed' = removed + Cardinality({i \in DOMAIN recs : FilterReason(recs[i], cfg) # ""})
    /\ UNCHANGED <<drops, deduped>>

PipelineInit ==
    /\ portfolio \in Portfolios /\ recs = portfolio.recs
    /\ drops = [r \in DropReasons |-> 0] /\ removed = 0
    /\ stages = 0 /\ deduped = NotDeduped

Stage ==
    \/ \E pct \in Coverages : ApplyCoverage(pct)
    \/ \E target \in Targets : ApplyTargetCoverage(target)
    \/ \E minimum \in PoolSizes : ApplyMinPoolSize(minimum)
    \/ AdjustForExisting
    \/ \E cfg \in ScoreConfigs : ApplyScore(cfg)
    \/ \E f \in Selections : Select(f)

PipelineNext == stages < MaxStages /\ stages' = stages + 1 /\ Stage /\ UNCHANGED portfolio

-----------------------------------------------------------------------------
(* Properties.                                                             *)

(* Whatever stages were applied, in whatever order, the money a            *)
(* recommendation shows is its count times the unit price it was collected *)
(* with, and a savings plan's money follows its hourly commitment          *)
(* (ScaleRecommendationCosts by the ratio of whole counts, ResizeCount).   *)
PricesFollowCounts ==
    \A i \in DOMAIN recs :
        LET r == recs[i]
            o == portfolio.recs[r.id]
            Follows(now, then) ==
                IF then = Nil THEN now = Nil
                ELSE IF ~IsSavingsPlan(r.service)
                THEN RMul(now, Int2Rat(o.count)) = RMul(then, Int2Rat(r.count))
                ELSE o.hourly = Nil \/ RMul(now, o.hourly) = RMul(then, r.hourly)
        IN  /\ Follows(r.cost, o.cost) /\ Follows(r.onDemand, o.onDemand)
            /\ Follows(r.savings, o.savings) /\ Follows(r.recurring, o.recurring)

(* No recommendation disappears without a trace, whatever the stages: each *)
(* is still there once, was returned as filtered, or is counted in the     *)
(* drop summary.                                                           *)
NothingVanishes ==
    /\ Len(portfolio.recs) = Len(recs) + removed + FoldFunction(LAMBDA n, sum : n + sum, 0, drops)
    /\ \A i, j \in DOMAIN recs : recs[i].id = recs[j].id => i = j

(* Units one of x is worth, and what makes two of a family alike.          *)
Worth(x) ==
    IF x.service = "ec2" THEN EC2NormalizationFactor(x.size)
    ELSE IF x.service = "elasticache" THEN (IF DedupeEngine(x) = "valkey" THEN 4 ELSE 5)
    ELSE Units(x)
Attributes(x) ==
    <<x.service, x.family, x.size, x.region, DedupeEngine(x), NormalizePlatformName(x.platform),
      NormalizeTenancyName(x.tenancy), ScopeKind(x), x.az, NormalizeDeploymentName(x.deployment)>>

(* A recent commitment covers what it is worth and once: together the      *)
(* recommendations of a family draw no more units than its recent          *)
(* commitments have, size flexibility, Multi-AZ and the Redis/Valkey ratio *)
(* included, so nothing needed is left unbought.  And where all of a       *)
(* family are alike, all that the commitments hold is used, so nothing is  *)
(* bought twice.                                                           *)
RecentCoverIsSpentOnce ==
    LET rs == deduped.recs
        cs == deduped.recent
        Family(x) == <<x.service, x.family, x.region>>
        Wanted(f) == {i \in DOMAIN rs : Family(rs[i]) = f}
        Held(f) == {i \in DOMAIN cs : Family(cs[i]) = f}
        SumOver(S, Amount(_)) == FoldSet(LAMBDA i, sum : Amount(i) + sum, 0, S)
        Avoided(i) == rs[i].count - deduped.left[i]
    IN  \A f \in {Family(rs[i]) : i \in DOMAIN rs} :
            /\ SumOver(Wanted(f), LAMBDA i : Avoided(i) * Worth(rs[i]))
                 <= SumOver(Held(f), LAMBDA i : cs[i].count * Worth(cs[i]))
            /\ Cardinality({Attributes(rs[i]) : i \in Wanted(f)} \cup {Attributes(cs[i]) : i \in Held(f)}) = 1
               => SumOver(Wanted(f), Avoided)
                    = LeastOf(SumOver(Wanted(f), LAMBDA i : rs[i].count), SumOver(Held(f), LAMBDA i : cs[i].count))
=============================================================================
