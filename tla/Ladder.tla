------------------------------- MODULE Ladder -------------------------------
(***************************************************************************)
(* The commitment ladder's planner (pkg/ladder): Allocate sizes the gap    *)
(* between the commitment an account should hold and what it holds, splits *)
(* it over the layers and applies the run's limits; BuildTranches spreads  *)
(* each allocation over the ramp.                                          *)
(*                                                                         *)
(* Money is exact (big.Rat), in units of the smallest allocatable amount.  *)
(* Sizing is in on-demand dollars (od); what is bought is in commitment    *)
(* dollars, od times the layer's commitment rate.  A pointer that may be   *)
(* nil is Nil.  Actions and allocations name different layers, so a list   *)
(* of them is a set.  The rationale of a hold is the name of the rule that *)
(* made it and the od amount it quotes.                                    *)
(***************************************************************************)
EXTENDS Rationals, Sequences, FiniteSets, Absent

CONSTANT RampSumEpsilon   \* rampSumEpsilon

-----------------------------------------------------------------------------
(* types.go                                                                *)

(* In the order of their names, which breaks ties.                         *)
LayerNames == <<"azure-reservation", "azure-savings-plan", "compute-sp",
                "convertible-ri", "ec2-instance-sp">>
LayerType == {LayerNames[i] : i \in DOMAIN LayerNames}
NameBefore(k, l) ==
    \E i, j \in DOMAIN LayerNames : i < j /\ LayerNames[i] = k /\ LayerNames[j] = l

LayerRole == {"base", "flex", "buffer"}

One == Int2Rat(1)

(* withinExclIncl *)
Within(v, lo, hi) == lo < v /\ v <= hi

(* RampSchedule.Validate *)
ValidRamp(steps) ==
    /\ steps # <<>>
    /\ \A i \in DOMAIN steps :
        /\ steps[i].afterDays > (IF i = 1 THEN -1 ELSE steps[i - 1].afterDays)
        /\ RLt(Zero, steps[i].fraction) /\ RLe(steps[i].fraction, One)
    /\ LET sum == RSum([i \in DOMAIN steps |-> steps[i].fraction])
       IN  RLe(RSub(One, RampSumEpsilon), sum) /\ RLe(sum, RAdd(One, RampSumEpsilon))

(* validateBaselineBounds *)
ValidBaselineBounds(c) ==
    /\ Within(c.targetCoveragePct, 0, 100)
    /\ RLe(Zero, c.bufferFraction) /\ RLt(c.bufferFraction, One)
    /\ Within(c.baselinePercentile, 0, 50)
    /\ c.lookbackDays > 0

(* validateRunLimits *)
ValidRunLimits(c) ==
    /\ c.maxHourlyCommitPerRun # Nil => RLt(Zero, c.maxHourlyCommitPerRun)
    /\ c.maxActionsPerRun > 0
    /\ Within(c.bufferUtilizationThresholdPct, 0, 100)

(* LadderConfig.Validate; the scope, mode and cadence are known names.     *)
ValidConfig(c) == ValidBaselineBounds(c) /\ ValidRamp(c.ramp) /\ ValidRunLimits(c)

(* validateRateRange: a commitment rate is in (0, 1].                      *)
ValidRate(r) == RLt(Zero, r) /\ RLe(r, One)

-----------------------------------------------------------------------------
(* The input of Allocate.                                                  *)

WithRole(layers, role) == {i \in DOMAIN layers : role \in layers[i].roles}
Types(layers) == {layers[i].type : i \in DOMAIN layers}

(* validateLayerUniqueness *)
UniqueLayers(layers) == \A i, j \in DOMAIN layers : layers[i].type = layers[j].type => i = j

(* validateLayerEnums *)
KnownLayer(ls) == ls.type \in LayerType /\ ls.roles \subseteq LayerRole

(* validateLayerRoleCombo: flex stands alone.                              *)
ValidRoleCombo(ls) == "flex" \in ls.roles => ls.roles = {"flex"}

(* validateRoleCounts *)
ValidRoleCounts(layers) ==
    /\ Cardinality(WithRole(layers, "flex")) = 1
    /\ Cardinality(WithRole(layers, "base")) <= 1
    /\ Cardinality(WithRole(layers, "buffer")) <= 1

ValidLayers(layers) ==
    /\ UniqueLayers(layers)
    /\ \A i \in DOMAIN layers : KnownLayer(layers[i]) /\ ValidRoleCombo(layers[i])
    /\ ValidRoleCounts(layers)

(* validateUtilizationPct *)
ValidUtilization(pct) == pct # Nil => pct \in 0..100

(* validateNoUnknownStateKeys *)
NoUnknownState(layers, states) == DOMAIN states \subseteq Types(layers)

ValidLayerStates(layers, states) ==
    /\ \A l \in Types(layers) :
        /\ l \in DOMAIN states
        /\ states[l].existing # Nil /\ states[l].expiring # Nil
        /\ ValidUtilization(states[l].utilization)
    /\ NoUnknownState(layers, states)

Basis == {"", "total", "residual"}
IsResidual(b) == b.basis = "residual"

(* validateAllocateInput *)
ValidInput(in) ==
    /\ in.inFlight # Nil /\ in.rates # Nil
    /\ ValidConfig(in.config)
    /\ in.baseline.basis \in Basis
    /\ in.layers # <<>>
    /\ ValidLayers(in.layers)
    /\ ValidLayerStates(in.layers, in.states)

(* findLayerForRole *)
LayerForRole(layers, role) ==
    IF WithRole(layers, role) = {} THEN Nil ELSE layers[Min(WithRole(layers, role))].type

(* ratFromFloat refuses a negative amount.                                 *)
Money(v) == RLe(Zero, v)

(* computeNetExisting: per layer what is held and will not expire within   *)
(* the horizon; more expiring than existing is an inconsistent snapshot.   *)
NetOf(st) == RSub(st.existing, st.expiring)
ConsistentStates(in) ==
    \A l \in Types(in.layers) :
        Money(in.states[l].existing) /\ Money(in.states[l].expiring) /\ Money(NetOf(in.states[l]))
NetExisting(in) == [l \in Types(in.layers) |-> NetOf(in.states[l])]

(* parseCommitmentRates *)
ValidRates(rates) == \A l \in DOMAIN rates : ValidRate(rates[l])

(* inFlightToOD: a scheduled tranche counts at the rate it was planned     *)
(* with; one whose layer is unknown, or without a rate, is an error.       *)
ValidInFlight(in) ==
    \A t \in in.inFlight :
        t.layer \in Types(in.layers) /\ Money(t.amount) /\ t.rate # Nil /\ ValidRate(t.rate)
TrancheOD(t) == RQuo(t.amount, t.rate)
SumOD(ts) == RSum([t \in ts |-> TrancheOD(t)])

InFlightOD(in, l) == SumOD({t \in in.inFlight : t.layer = l})

-----------------------------------------------------------------------------
(* Reshapes: independent of the gap.                                       *)

BufferLayers(in) ==
    {l \in {in.layers[i].type : i \in WithRole(in.layers, "buffer")} :
        in.states[l].existing # Zero}

(* detectReshapes *)
Reshapes(in) ==
    {l \in BufferLayers(in) :
        /\ in.states[l].utilization # Nil
        /\ in.states[l].utilization < in.config.bufferUtilizationThresholdPct}
MaintenanceHolds(in) ==
    {[layer |-> l, why |-> "utilization unknown", od |-> Zero] :
        l \in {k \in BufferLayers(in) : in.states[k].utilization = Nil}}

-----------------------------------------------------------------------------
(* The gap.                                                                *)

(* minAllocatableGap *)
MinGap == One

(* computeBaselineAndTarget *)
Target(in) == RMul(in.baseline.lowWater, Rat(in.config.targetCoveragePct, 100))

(* existingForBasis: a residual baseline already excludes it.              *)
ExistingForBasis(in) ==
    IF IsResidual(in.baseline) THEN [l \in Types(in.layers) |-> Zero] ELSE NetExisting(in)

(* Mutant: what is already scheduled is planned again. *)
MutantReplans(in) ==
    LET existing == RSum(ExistingForBasis(in))
    IN  RMin(RSub(Target(in), existing), RSub(in.baseline.lowWater, existing))

(* allocate: what is missing, net of the tranches in flight.               *)
Gap(in) ==
    LET existing == RSum(ExistingForBasis(in))
    IN  RSub(RMin(RSub(Target(in), existing), RSub(in.baseline.lowWater, existing)),
             RSum([l \in Types(in.layers) |-> InFlightOD(in, l)]))

(* hasExistingCommitment *)
HasExisting(in) == \E l \in Types(in.layers) : RLt(Zero, in.states[l].existing)

(* residualPartialTargetHold *)
ResidualPartialTarget(in) ==
    /\ IsResidual(in.baseline)
    /\ in.config.targetCoveragePct < 100
    /\ HasExisting(in)

-----------------------------------------------------------------------------
(* The split of the gap over the layers.                                   *)

BufferGap(in, gap) == RMul(gap, in.config.bufferFraction)

(* computeBaseGap: the base layer takes what stable usage leaves it.       *)
BaseGap(in, core) ==
    LET base == LayerForRole(in.layers, "base") IN
    IF base = Nil \/ in.baseline.stable = Nil
    THEN Zero
    ELSE RMin(core, RMax(Zero,
            RSub(in.baseline.stable, RAdd(ExistingForBasis(in)[base], InFlightOD(in, base)))))

(* splitGap and assembleAllocations: base and buffer on one layer merge.   *)
SplitError(in, gap) ==
    \/ BufferGap(in, gap) # Zero /\ LayerForRole(in.layers, "buffer") = Nil
    \/ in.baseline.stable # Nil /\ LayerForRole(in.layers, "base") # Nil /\ ~Money(in.baseline.stable)

(* Mutant: the flex layer gets the whole core gap. *)
MutantShares(in, gap) ==
    LET buffer == BufferGap(in, gap)
        core   == RSub(gap, buffer)
        share(l) ==
            RAdd(IF l = LayerForRole(in.layers, "base") THEN BaseGap(in, core) ELSE Zero,
            RAdd(IF l = LayerForRole(in.layers, "buffer") THEN buffer ELSE Zero,
                 IF l = LayerForRole(in.layers, "flex") THEN core ELSE Zero))
    IN  {[layer |-> l, od |-> share(l)] : l \in {k \in Types(in.layers) : RLt(Zero, share(k))}}

Shares(in, gap) ==
    LET buffer == BufferGap(in, gap)
        core   == RSub(gap, buffer)
        base   == BaseGap(in, core)
        share(l) ==
            RAdd(IF l = LayerForRole(in.layers, "base") THEN base ELSE Zero,
            RAdd(IF l = LayerForRole(in.layers, "buffer") THEN buffer ELSE Zero,
                 IF l = LayerForRole(in.layers, "flex") THEN RSub(core, base) ELSE Zero))
    IN  {[layer |-> l, od |-> share(l)] : l \in {k \in Types(in.layers) : RLt(Zero, share(k))}}

Holds(allocs, rule) == {[layer |-> a.layer, why |-> rule, od |-> a.od] : a \in allocs}

(* holdReshapedBufferAllocations: no purchase for a buffer under reshape.  *)
ReshapedShares(in, shares) ==
    {a \in shares : a.layer \in Reshapes(in) /\
        \E i \in DOMAIN in.layers :
            in.layers[i].type = a.layer /\ "base" \notin in.layers[i].roles}

(* convertAllocations: a layer without a rate is held, never bought 1:1.   *)
RatelessShares(in, shares) == {a \in shares : a.layer \notin DOMAIN in.rates}
Converted(in, shares) ==
    {[layer |-> a.layer, od |-> a.od, gap |-> RMul(a.od, in.rates[a.layer]),
      rate |-> in.rates[a.layer]] : a \in shares}

TotalGap(allocs) == RSum([a \in allocs |-> a.gap])

(* applyCapGuardrail: all allocations shrink in proportion.                *)
Capped(in, allocs) ==
    LET cap == in.config.maxHourlyCommitPerRun
        scale == RQuo(cap, TotalGap(allocs))
    IN  IF cap = Nil \/ allocs = {} \/ RLe(TotalGap(allocs), cap) THEN allocs
        ELSE {[a EXCEPT !.gap = RMul(@, scale), !.od = RMul(@, scale)] : a \in allocs}

(* dropSubMinimumAllocations *)
SubMinimum(allocs) == {a \in allocs : RLt(a.gap, MinGap)}

(* truncateToMaxActions: reshapes go first, the least used of them before  *)
(* the others; then the largest purchases.                                 *)
UtilOrMax(in, l) == IF in.states[l].utilization = Nil THEN 100 ELSE in.states[l].utilization
ReshapeBefore(in, k, l) ==
    \/ UtilOrMax(in, k) < UtilOrMax(in, l)
    \/ UtilOrMax(in, k) = UtilOrMax(in, l) /\ NameBefore(k, l)
KeptReshapes(in) ==
    {l \in Reshapes(in) :
        Cardinality({k \in Reshapes(in) : ReshapeBefore(in, k, l)}) < in.config.maxActionsPerRun}

PurchaseBefore(a, b) == RLt(b.gap, a.gap) \/ (a.gap = b.gap /\ NameBefore(a.layer, b.layer))
KeptPurchases(allocs, n) ==
    {a \in allocs : Cardinality({b \in allocs : PurchaseBefore(b, a)}) < n}

(* Mutant: reshapes do not count as actions. *)
MutantPurchaseCap(in) == in.config.maxActionsPerRun

PurchaseCap(in) ==
    IF Cardinality(Reshapes(in)) >= in.config.maxActionsPerRun THEN 0
    ELSE in.config.maxActionsPerRun - Cardinality(Reshapes(in))

-----------------------------------------------------------------------------
(* Allocate                                                                *)

Failed == [ok |-> FALSE, gap |-> Zero, purchases |-> {}, reshapes |-> {}, holds |-> {}]

(* withMaintenance *)
Held(in, gap, rule) ==
    [ok |-> TRUE, gap |-> gap, purchases |-> {}, reshapes |-> Reshapes(in),
     holds |-> {[layer |-> LayerForRole(in.layers, "flex"), why |-> rule, od |-> Zero]}
                 \cup MaintenanceHolds(in)]

(* buildResult *)
Built(in, gap) ==
    LET shares   == Shares(in, gap)
        reshaped == ReshapedShares(in, shares)
        rateless == RatelessShares(in, shares \ reshaped)
        capped   == Capped(in, Converted(in, shares \ (reshaped \cup rateless)))
        large    == capped \ SubMinimum(capped)
        kept     == KeptPurchases(large, PurchaseCap(in))
    IN  [ok |-> TRUE, gap |-> gap, purchases |-> kept, reshapes |-> KeptReshapes(in),
         holds |-> MaintenanceHolds(in)
              \cup Holds(reshaped, "reshape pending") \cup Holds(rateless, "no rate")
              \cup Holds(SubMinimum(capped), "below minimum")
              \cup Holds(large \ kept, "max actions")
              \cup {[layer |-> l, why |-> "max actions", od |-> Zero] :
                        l \in Reshapes(in) \ KeptReshapes(in)}]

Allocate(in) ==
    IF ~(ValidInput(in) /\ ConsistentStates(in) /\ ValidRates(in.rates) /\ ValidInFlight(in))
    THEN Failed
    ELSE IF in.baseline.lowWater = Nil THEN Held(in, Zero, "baseline unavailable")
    ELSE IF ~Money(in.baseline.lowWater) THEN Failed
    ELSE IF RLe(Gap(in), MinGap) THEN Held(in, Gap(in), "target met")
    ELSE IF ResidualPartialTarget(in) THEN Held(in, Gap(in), "residual partial target")
    ELSE IF SplitError(in, Gap(in)) THEN Failed
    ELSE Built(in, Gap(in))

-----------------------------------------------------------------------------
(* BuildTranches                                                           *)

(* validateTrancheInput and validateInputAllocations; the run, the term    *)
(* and the payment option are set.                                         *)
ValidTrancheInput(in, purchases) ==
    /\ ValidConfig(in.config)
    /\ \A a \in purchases : RLt(Zero, a.gap) /\ ValidRate(a.rate)

(* Mutant: the last step buys its own fraction, like the others. *)
MutantStepAmount(gap, step, isLast, prior) == RMul(gap, step.fraction)

(* computeStepAmount: never more than remains; the last step takes it all. *)
StepAmount(gap, step, isLast, prior) ==
    LET remaining == RMax(Zero, RSub(gap, prior))
    IN  IF isLast THEN remaining ELSE RMin(RMul(gap, step.fraction), remaining)

(* processAllocation: the amount of each ramp step.                        *)
StepAmounts(gap, ramp) ==
    LET n == Len(ramp)
        prior[i \in 0..n] ==
            IF i = 0 THEN Zero
            ELSE RAdd(prior[i - 1], StepAmount(gap, ramp[i], i = n, prior[i - 1]))
    IN  [i \in DOMAIN ramp |-> StepAmount(gap, ramp[i], i = n, prior[i - 1])]

(* buildTrancheResult: one scheduled tranche per step that buys something. *)
Steps(in, purchases) ==
    {s \in purchases \X DOMAIN in.config.ramp : StepAmounts(s[1].gap, in.config.ramp)[s[2]] # Zero}

BuildTranche(in, a, i, id, run, now) ==
    [id |-> id, run |-> run, layer |-> a.layer, step |-> i, status |-> "scheduled",
     amount |-> StepAmounts(a.gap, in.config.ramp)[i], rate |-> a.rate,
     fireAfter |-> now + in.config.ramp[i].afterDays]

(* validateTrancheIDs: newID gives every step an ID of its own.            *)
ValidIDs(newID) == Nil \notin Range(newID) /\ IsInjective(newID)

BuildTranches(in, purchases, newID, run, now) ==
    {BuildTranche(in, s[1], s[2], newID[s], run, now) : s \in DOMAIN newID}
=============================================================================
