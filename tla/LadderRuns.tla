----------------------------- MODULE LadderRuns -----------------------------
(***************************************************************************)
(* The ladder over its life: runs plan tranches, tranches fire as          *)
(* purchases, commitments expire, and later runs see all of it.            *)
(*                                                                         *)
(* The engine that calls the library and stores its tranches is not part   *)
(* of the repository.  It is modelled from what AllocationInput, Tranche   *)
(* and BaselineBasis ask of it: it passes the scheduled tranches with      *)
(* their stored rates, converts what the layers hold to on-demand dollars  *)
(* with the observed rates, and with a residual baseline also passes the   *)
(* commitments the series does not reflect yet.                            *)
(***************************************************************************)
EXTENDS AwsLadder

CONSTANTS
    Settings,     \* the accounts and ladders considered, see below
    Quotes,       \* rates GetSPCommitmentRate may quote, by layer
    Region,       \* Config.Region
    TermDays,     \* the term of a purchase
    MaxDay,       \* bound on the clock
    MaxRuns       \* bound on the ladder runs

VARIABLES
    setting,      \* what does not change during a behaviour
    day,
    runs,         \* ladder runs so far
    tranches,     \* stored tranches that are scheduled
    ris,          \* convertible RIs of the account
    sps,          \* Savings Plans of the account
    plan,         \* the result of the run just made
    reshape       \* the result of the ReshapeBuffer call just made

(* What a run is given: money and rates are exact amounts, prices, fees and*)
(* counts are not negative, and a rate that was paid is above zero.        *)
IsAmount(a) == InLowestTerms(a) /\ RLe(Zero, a)
IsConvertibleRI(c) ==
    /\ c.plan = "convertible-ri" /\ IsAmount(c.recurring) /\ IsAmount(c.fixed)
    /\ c.hours \in Int /\ c.count \in Nat
    /\ InLowestTerms(c.rate) /\ RLt(Zero, c.rate)
IsConfig(c) ==
    /\ c.targetCoveragePct \in Int /\ c.baselinePercentile \in Int /\ c.lookbackDays \in Int
    /\ c.maxActionsPerRun \in Int
    /\ c.bufferFraction # Nil /\ InLowestTerms(c.bufferFraction)
    /\ c.maxHourlyCommitPerRun # Nil => InLowestTerms(c.maxHourlyCommitPerRun)
    /\ c.ramp \in Seq(Range(c.ramp))
    /\ \A i \in DOMAIN c.ramp : InLowestTerms(c.ramp[i].fraction)

ASSUME LadderAssumption ==
    /\ Nil \notin Int \X Int /\ Nil \notin Nat \X LayerType \X Nat
    /\ SPPrecision \in Nat \ {0} /\ MinBaselineSeriesDays \in Nat \ {0} /\ MaxDay \in Nat
    /\ \A s \in Settings :
         /\ IsConfig(s.config) /\ (s.stable # Nil => InLowestTerms(s.stable))
         /\ InLowestTerms(s.blend) /\ RLt(Zero, s.blend)
         /\ IsFiniteSet(s.ris) /\ \A c \in s.ris : IsConvertibleRI(c)
         /\ \A d \in (-s.config.lookbackDays)..MaxDay : IsAmount(s.demand[d])
    /\ \A q \in Quotes : \A l \in RateLayers : q[l] # Nil => InLowestTerms(q[l])

vars == <<setting, day, runs, tranches, ris, sps, plan, reshape>>

demand == setting.demand   \* on-demand-equivalent usage, a function of the day
config == setting.config   \* the ladder's configuration
source == setting.source   \* what the series measures: "aws", "total", "residual"
stable == setting.stable   \* StableUSDPerHour, of a source other than AWS
utils  == setting.utils    \* the utilization Cost Explorer reports, Nil if it fails

NoPlan == [Failed EXCEPT !.ok = TRUE]
NoReshape == [failed |-> <<>>, reported |-> "none"]

-----------------------------------------------------------------------------
(* What the account holds.                                                 *)

Active(cs, d) == {c \in cs : c.start <= d /\ (c.end # Nil => d < c.end)}

(* What a commitment of the layer costs per on-demand dollar of the demand:*)
(* for a Compute SP the quote is a blend over the account's services and   *)
(* regions, which the demand's own rate may differ from.                   *)
TrueRate(l, rate) == IF l = "compute-sp" THEN RQuo(rate, setting.blend) ELSE rate

(* The on-demand usage a commitment covers.                                *)
Cost(c) == IF c.plan = "convertible-ri" THEN RIHourlyCost(c) ELSE c.hourly
OD(c) == RQuo(Cost(c), TrueRate(c.plan, c.rate))
CoveredOn(d) == RSum([c \in Active(ris \cup sps, d) |-> OD(c)])

(* An existing layer state in on-demand dollars, by the observed rate.     *)
Native(l) == RSum([c \in {x \in Active(ris \cup sps, day) : x.plan = l} |-> Cost(c)])
Observed(l) ==
    ObservedRate(Native(l), RSum([c \in {x \in Active(ris \cup sps, day) : x.plan = l} |-> OD(c)]))
ToOD(l, st) ==
    IF Observed(l) = Nil THEN st
    ELSE [st EXCEPT !.existing = RQuo(@, Observed(l)), !.expiring = RQuo(@, Observed(l))]

States ==
    LET native == GetLayerStates(Active(ris, day), Active(sps, day), utils, Region, day)
    IN  [l \in DOMAIN native |-> ToOD(l, native[l])]

(* The usage series: total demand, or what Cost Explorer reports as bought *)
(* on demand, which is what the commitments left uncovered; from the first *)
(* to the last day of the window that is reported.                         *)
Uncovered(d) == RMax(Zero, RSub(demand[d], CoveredOn(d)))
Series(first, last) ==
    [i \in 1..(last - first + 1) |->
        LET d == day - config.lookbackDays + (first + i - 2)
        IN  [day |-> d, usd |-> IF source = "total" THEN demand[d] ELSE Uncovered(d)]]

(* Commitments active now that some day of a residual series predates.     *)
Unreflected == {c \in Active(ris \cup sps, day) : c.start > day - config.lookbackDays}

Scheduled == {[layer |-> t.layer, amount |-> t.amount, rate |-> t.rate, id |-> t.id] : t \in tranches}
InFlight ==
    Scheduled \cup
    (IF source # "residual" THEN {}
     ELSE {[layer |-> c.plan, amount |-> Cost(c), rate |-> c.rate, id |-> c.id] : c \in Unreflected})

-----------------------------------------------------------------------------
(* One ladder run: gather, allocate, build the tranches, store them.       *)

Baseline(points) ==
    CASE source = "aws" -> GetUsageBaseline(points, config.baselinePercentile)
      [] OTHER -> [GetUsageBaseline(points, config.baselinePercentile) EXCEPT
                     !.stable = stable, !.basis = source]

Input(points, quoted) ==
    [config |-> config, layers |-> SupportedLayers, states |-> States,
     rates |-> FetchLayerRates(quoted), inFlight |-> InFlight,
     baseline |-> Baseline(points)]

(* The series as the source may return it: whole, or without its newest or *)
(* its oldest day.                                                         *)
SeriesReturned ==
    LET n == config.lookbackDays IN {Series(1, n), Series(1, n - 1), Series(2, n)}

(* GetUsageBaseline and GetCommitmentRates fail before Allocate is called. *)
Usable(points, quoted) ==
    /\ UsableSeries(points, config.lookbackDays, config.baselinePercentile, day)
    /\ UsableRates(quoted)

Run(in, usable) ==
    /\ runs < MaxRuns
    /\ runs' = runs + 1
    /\ plan' = IF usable THEN Allocate(in) ELSE Failed
    /\ \E newID \in {[s \in Steps(in, plan'.purchases) |-> <<runs, s[1].layer, s[2]>>]} :
         tranches' = tranches \cup
           (IF ValidTrancheInput(in, plan'.purchases) /\ ValidIDs(newID)
            THEN BuildTranches(in, plan'.purchases, newID, runs, day) ELSE {})
    /\ reshape' = NoReshape
    /\ UNCHANGED <<day, ris, sps>>

(* The due tranches of a layer fire: PurchaseLayer buys them, or fails.    *)
Due(l) == {t \in tranches : t.layer = l /\ t.fireAfter <= day}
Bought(t) ==
    [id |-> t.id, plan |-> t.layer, hourly |-> Normalize(t.amount), rate |-> t.rate,
     region |-> Region, start |-> day, end |-> day + TermDays]

Fire(l) ==
    /\ Due(l) # {}
    /\ tranches' = tranches \ Due(l)
    /\ \/ UNCHANGED sps
       \/ sps' = sps \cup {Bought(t) : t \in {x \in Due(l) : MayPurchase(l, x.amount)}}
    /\ plan' = NoPlan /\ reshape' = NoReshape
    /\ UNCHANGED <<day, runs, ris>>

(* ReshapeBuffer for a recommended reshape, with the results of the        *)
(* exchanges it ran (AutoExchange models those).                           *)
ReshapeBuffer(c, completed, failed) ==
    /\ plan.reshapes # {}
    /\ reshape' = [failed |-> failed,
                   reported |-> IF ValidReshapeConfig(c) THEN Summarize(completed, failed) ELSE "refused"]
    /\ plan' = NoPlan
    /\ UNCHANGED <<day, runs, tranches, ris, sps>>

Tick ==
    /\ day < MaxDay
    /\ day' = day + 1
    /\ plan' = NoPlan /\ reshape' = NoReshape
    /\ UNCHANGED <<runs, tranches, ris, sps>>

Init ==
    /\ setting \in Settings
    /\ day = 0 /\ runs = 0
    /\ tranches = {} /\ sps = {}
    /\ ris = setting.ris
    /\ plan = NoPlan /\ reshape = NoReshape

ReshapeConfigs ==
    [perExchangeCap : {1}, dailyCap : {Nil, 1}, threshold : {config.bufferUtilizationThresholdPct},
     lookbackDays : {config.lookbackDays}]

(* The outcomes of the exchanges that failed.                              *)
FailedExchanges == {<<>>, <<"definite">>, <<"definite", "unknown">>}

Step ==
    \/ \E points \in SeriesReturned, quoted \in Quotes :
          \E in \in {Input(points, quoted)} : Run(in, Usable(points, quoted))
    \/ \E l \in LayerType : Fire(l)
    \/ \E c \in ReshapeConfigs, n \in 0..1, failed \in FailedExchanges :
          ReshapeBuffer(c, n, failed)
    \/ Tick

Next == Step /\ UNCHANGED setting

Spec == Init /\ [][Next]_vars

-----------------------------------------------------------------------------
(* Properties.                                                             *)

(* What the account will hold beyond the horizon, in on-demand dollars it  *)
(* really covers: commitments that do not expire, and tranches to fire.    *)
Lasting == {c \in Active(ris \cup sps, day) : ~Expires(c, day)}
Planned ==
    RAdd(RSum([c \in Lasting |-> OD(c)]),
         RSum([t \in tranches |-> RQuo(t.amount, TrueRate(t.layer, t.rate))]))

(* The rate a run nets a commitment at: the average observed on its layer, *)
(* none if nothing usable was observed; against a residual series, which   *)
(* shows what is covered, only a new commitment is netted, as it was quoted.*)
NettedAt(c) ==
    IF source = "residual"
    THEN IF c \in Unreflected THEN c.rate ELSE TrueRate(c.plan, c.rate)
    ELSE IF Observed(c.plan) = Nil THEN One ELSE Observed(c.plan)

(* By how much the rates in use can be above the true ones.                *)
RateError ==
    FoldSet(RMax, One,
        {RQuo(NettedAt(c), TrueRate(c.plan, c.rate)) : c \in Lasting}
          \cup {RQuo(t.rate, TrueRate(t.layer, t.rate)) : t \in tranches})

(* The commitment the configuration asks for, from the total demand: the   *)
(* newest days may not be reported yet.                                    *)
WantedFrom(n) ==
    RMul(NearestRankPercentile([i \in 1..n |-> demand[day - config.lookbackDays + (i - 1)]],
                               config.baselinePercentile),
         Rat(config.targetCoveragePct, 100))
Wanted ==
    LET n == config.lookbackDays - MaxMissingDays
    IN  FoldFunctionOnSet(RMax, Zero, [k \in n..config.lookbackDays |-> WantedFrom(k)],
                          n..config.lookbackDays)

(* Allocate and BuildTranches plan beyond the target only as far as rates  *)
(* are wrong: after a run that schedules anything, what the account keeps  *)
(* and what is in flight cover at most the target share of the low-water   *)
(* usage, times the error of a rate in use, although runs overlap with     *)
(* tranches planned at other rates, purchases fail or are truncated,       *)
(* commitments expire and the series lags behind them.  Where every rate is*)
(* true that is the target itself; where it is not, the comment in         *)
(* GetCommitmentRates accepts the ratio ("can over-buy by r_blend/r_EC2"). *)
OverBuysByRateErrorOnly == plan.purchases # {} => RLe(Planned, RMul(Wanted, RateError))

(* MaxHourlyCommitPerRun and MaxActionsPerRun bound every run, reshapes    *)
(* counted as actions (applyCapGuardrail, truncateToMaxActions).           *)
WithinRunLimits ==
    /\ (plan.purchases # {} /\ config.maxHourlyCommitPerRun # Nil) =>
         RLe(TotalGap(plan.purchases), config.maxHourlyCommitPerRun)
    /\ (plan.purchases # {} \/ plan.reshapes # {}) =>
         Cardinality(plan.purchases) + Cardinality(plan.reshapes) <= config.maxActionsPerRun

(* Every dollar of the gap is bought or held with a reason: the od of the  *)
(* purchases and of the holds add up to the gap, unless the cap shrank     *)
(* them (buildResult: nothing is dropped silently).                        *)
GapIsAccounted ==
    LET quoted == {h \in plan.holds : h.od # Zero}
        total  == RAdd(RSum([a \in plan.purchases |-> a.od]), RSum([h \in quoted |-> h.od]))
    IN  (plan.purchases \cup quoted # {} /\ config.maxHourlyCommitPerRun = Nil) => total = plan.gap

(* BuildTranches schedules exactly what was allocated: the tranches of the *)
(* run just made add up, per layer, to its purchases, whatever the rounding*)
(* of the ramp's fractions.                                                *)
TranchesAddUp ==
    plan # NoPlan =>
        \A l \in LayerType :
            RSum([t \in {x \in tranches : x.run = runs - 1 /\ x.layer = l} |-> t.amount])
              = TotalGap({a \in plan.purchases : a.layer = l})

(* A run that reports the target as met leaves no usage uncovered.  The    *)
(* comment on BaselineBasis says subtracting existing commitment from a    *)
(* series that already excludes it "can claim 'target already met' while   *)
(* usage is still uncovered".                                              *)
TargetMetMeansCovered ==
    (\E h \in plan.holds : h.why = "target met") =>
        RLe(RSub(Wanted, RAdd(Planned, RSum([c \in Active(ris \cup sps, day) \ Lasting |-> OD(c)]))), MinGap)
=============================================================================
