------------------------------ MODULE AwsLadder ------------------------------
(***************************************************************************)
(* The AWS side of the ladder (providers/aws/ladder): it reports the       *)
(* layers' commitments, utilization, usage baseline and commitment rates,  *)
(* buys for a layer and reshapes the buffer.                               *)
(*                                                                         *)
(* A listing that fails is an error of the whole call; the sets and        *)
(* functions here are what a successful call returns.  Dates are days.     *)
(***************************************************************************)
EXTENDS Ladder, SequencesExt

CONSTANTS
    HorizonDays,            \* Config.HorizonDays
    MinBaselineSeriesDays,  \* minBaselineSeriesDays
    MaxMissingDays,         \* maxMissingDays
    MaxSeriesAgeDays,       \* maxSeriesAgeDays
    SPPrecision,            \* a Savings Plan commitment is a multiple of 1/SPPrecision
    SPMinimum               \* minimumHourlyCommitment

SupportedLayers ==
    <<[type |-> "ec2-instance-sp", roles |-> {"base"}],
      [type |-> "compute-sp", roles |-> {"flex"}],
      [type |-> "convertible-ri", roles |-> {"buffer"}]>>

-----------------------------------------------------------------------------
(* layer_states.go, commitments.go                                         *)

(* riHourlyCost: recurring and usage price and the amortised upfront       *)
(* payment, of every instance.                                             *)
RIHourlyCost(ri) ==
    LET upfront == IF ri.hours > 0 THEN RQuo(ri.fixed, Int2Rat(ri.hours)) ELSE Zero
    IN  RMul(RAdd(ri.recurring, upfront), Int2Rat(ri.count))

(* sumRIHourlyCost, sumExpiringRIHourlyCost *)
Expires(c, today) == c.end # Nil /\ c.end <= today + HorizonDays
SumRIHourlyCost(ris) == RSum([ri \in ris |-> RIHourlyCost(ri)])
SumExpiringRIHourlyCost(ris, today) == SumRIHourlyCost({ri \in ris : Expires(ri, today)})

(* CountsAsExistingSP: an EC2 Instance plan covers its own region only.    *)
CountsAsExistingSP(sp, region) == sp.plan = "ec2-instance-sp" => sp.region = region

(* sumSPHourlyCost, sumExpiringSPHourlyCost *)
SumSPHourlyCost(sps, plan) == RSum([sp \in {s \in sps : s.plan = plan} |-> sp.hourly])
SumExpiringSPHourlyCost(sps, plan, today) ==
    SumSPHourlyCost({sp \in sps : Expires(sp, today)}, plan)

(* utilsForConvertibleRIs: the report also covers other offering classes.  *)
UtilsForConvertibleRIs(utils, ris) == {u \in utils : u.ri \in {ri.id : ri \in ris}}

(* computeRIUtilizationPct: hours used of the hours bought, nil for none.  *)
RIUtilizationPct(utils) ==
    LET purchased == SumFunction([u \in utils |-> u.purchased])
        actual    == SumFunction([u \in utils |-> u.actual])
    IN  IF purchased = 0 THEN Nil ELSE (actual * 100) \div purchased

(* riLayerState; a failed utilization report degrades to nil.              *)
RILayerState(ris, utils, today) ==
    [existing |-> SumRIHourlyCost(ris), expiring |-> SumExpiringRIHourlyCost(ris, today),
     utilization |-> IF utils = Nil THEN Nil ELSE RIUtilizationPct(UtilsForConvertibleRIs(utils, ris))]

(* spLayerState; Savings Plan utilization only matters for a buffer.       *)
SPLayerState(sps, plan, today) ==
    [existing |-> SumSPHourlyCost(sps, plan), expiring |-> SumExpiringSPHourlyCost(sps, plan, today),
     utilization |-> Nil]

GetLayerStates(ris, sps, utils, region, today) ==
    LET listed == {sp \in sps : CountsAsExistingSP(sp, region)} IN
    [l \in Types(SupportedLayers) |->
        IF l = "convertible-ri" THEN RILayerState(ris, utils, today)
        ELSE SPLayerState(listed, l, today)]

-----------------------------------------------------------------------------
(* baseline.go                                                             *)

(* validateBaselineArgs *)
ValidBaselineArgs(lookback, percentile) == lookback > 0 /\ Within(percentile, 0, 100)

(* validateSeriesChronology *)
Chronological(points) == \A i \in 2..Len(points) : points[i].day > points[i - 1].day

(* validateInWindowCoverage *)
CoversWindow(points, lookback, today) ==
    /\ Cardinality({i \in DOMAIN points : points[i].day \in (today - lookback)..today})
         >= lookback - MaxMissingDays
    /\ Chronological(points)
    /\ \A i \in DOMAIN points :
        points[i].day < today /\ points[i].day = today - lookback + (i - 1)

(* validateSeriesFreshness *)
Fresh(points, today) == today - Last(points).day <= MaxSeriesAgeDays

(* validateSeries *)
ValidSeries(points) == \A i \in DOMAIN points : Money(points[i].usd)

(* nearestRankPercentile: the value at the rank of the sorted values, the  *)
(* least that as many of them as the rank do not exceed.                   *)
Rank(n, p) ==
    LET rank == (p * n + 99) \div 100
    IN  IF rank < 1 THEN 1 ELSE IF rank > n THEN n ELSE rank
Reaches(values, v, rank) == Cardinality({i \in DOMAIN values : RLe(values[i], v)}) >= rank
NearestRankPercentile(values, p) ==
    LET high == {v \in Range(values) : Reaches(values, v, Rank(Len(values), p))}
    IN  CHOOSE v \in high : \A w \in high : RLe(v, w)

Usd(points) == [i \in DOMAIN points |-> points[i].usd]

(* GetUsageBaseline fails rather than size a purchase from bad data.       *)
UsableSeries(points, lookback, percentile, today) ==
    /\ ValidBaselineArgs(lookback, percentile)
    /\ Len(points) >= MinBaselineSeriesDays
    /\ CoversWindow(points, lookback, today)
    /\ Fresh(points, today)
    /\ ValidSeries(points)

(* The basis is left empty: a total baseline, see BaselineBasis.           *)
GetUsageBaseline(points, percentile) ==
    [lowWater |-> NearestRankPercentile(Usd(points), percentile), stable |-> Nil, basis |-> ""]

-----------------------------------------------------------------------------
(* commitment_rates.go: Savings Plan layers only.  A plan without a rate   *)
(* is left out, an unusable rate fails the call.                           *)

RateLayers == {"ec2-instance-sp", "compute-sp"}
UsableRates(quoted) == \A l \in RateLayers : quoted[l] # Nil => RLt(Zero, quoted[l])
FetchLayerRates(quoted) == [l \in {k \in RateLayers : quoted[k] # Nil} |-> quoted[l]]

(* observed_rates.go: commitment per on-demand dollar actually covered; a  *)
(* layer with nothing to observe, or a ratio outside (0, 1], is left out.  *)
ObservedRate(commitment, onDemand) ==
    IF onDemand = Zero \/ ~ValidRate(RQuo(commitment, onDemand)) THEN Nil
    ELSE RQuo(commitment, onDemand)

-----------------------------------------------------------------------------
(* purchase.go, spcommitment                                               *)

(* spcommitment.Normalize truncates, never rounds up.                      *)
Normalize(amount) == RFloor(amount, SPPrecision)

(* PurchaseLayer refuses an unsupported layer and an amount out of range.  *)
MayPurchase(layer, amount) ==
    /\ layer \in Types(SupportedLayers)
    /\ layer # "convertible-ri" => RLe(SPMinimum, amount)

-----------------------------------------------------------------------------
(* reshape.go                                                              *)

(* requireCap, buildRIExchangeConfig *)
ValidReshapeConfig(c) ==
    /\ c.perExchangeCap # Nil /\ c.perExchangeCap > 0
    /\ c.dailyCap # Nil /\ c.dailyCap > 0
    /\ Within(c.threshold, 0, 100) /\ c.lookbackDays > 0

(* summarizeExchangeResult: any failure is an error; one exchange whose    *)
(* outcome is unknown marks the whole error.                               *)
Summarize(completed, failed) ==
    IF failed = <<>> THEN "reshaped"
    ELSE IF Contains(failed, "unknown") THEN "outcome_unknown" ELSE "failed"
=============================================================================
