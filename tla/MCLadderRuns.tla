---------------------------- MODULE MCLadderRuns ----------------------------
(* A ladder of three days with a dip in the usage, five configurations and *)
(* convertible RIs that are used, unused or expiring, or of two rates, and *)
(* Compute SP quotes that are true or half too high for the demand.        *)
EXTENDS LadderRuns

Flat == [d \in -3..MaxDay |-> Int2Rat(8)]
Dip  == [d \in -3..MaxDay |-> Int2Rat(IF d = -3 THEN 4 ELSE 8)]

Even == <<[afterDays |-> 0, fraction |-> Rat(1, 2)], [afterDays |-> 1, fraction |-> Rat(1, 2)]>>
Over == <<[afterDays |-> 0, fraction |-> Rat(1, 2)], [afterDays |-> 1, fraction |-> Rat(11, 20)],
          [afterDays |-> 2, fraction |-> Rat(1, 20)]>>

Config(target, buffer, cap, actions, ramp) ==
    [targetCoveragePct |-> target, bufferFraction |-> buffer, maxHourlyCommitPerRun |-> cap,
     maxActionsPerRun |-> actions, bufferUtilizationThresholdPct |-> 90, ramp |-> ramp,
     baselinePercentile |-> 5, lookbackDays |-> 3]

Whole  == Config(100, Rat(1, 4), Nil, 3, Over)
Half   == Config(50, Zero, Rat(3, 2), 1, Even)
Capped1 == Config(100, Rat(1, 4), Rat(5, 2), 2, Even)
Plain  == Config(100, Zero, Nil, 3, Even)
Invalid == Config(100, Zero, Nil, 0, Even)

Quote(base, flex) ==
    [l \in RateLayers |-> IF l = "ec2-instance-sp" THEN base ELSE flex]
MCQuotes ==
    {Quote(Rat(1, 2), Rat(2, 3)), Quote(Nil, Int2Rat(1)), Quote(Zero, Rat(3, 2))}

RI(id, end) ==
    [id |-> id, plan |-> "convertible-ri", recurring |-> Rat(1, 2), fixed |-> Int2Rat(1), hours |-> 2,
     count |-> 1, rate |-> Rat(1, 2), start |-> -9, end |-> end]
FullRate(ri) == [ri EXCEPT !.rate = Int2Rat(1)]
Unused == {[ri |-> "ri", purchased |-> 4, actual |-> 2], [ri |-> "standard", purchased |-> 9, actual |-> 9]}
Used   == {[ri |-> "ri", purchased |-> 4, actual |-> 4]}

Setting(src, d, c, st, held, report) ==
    [source |-> src, demand |-> d, config |-> c, stable |-> st, ris |-> held, utils |-> report,
     blend |-> Int2Rat(1)]
Blended(s) == [s EXCEPT !.blend = Rat(3, 2)]

MCSettings ==
    {Setting("total", Flat, Plain, Nil, {}, Nil),
     Blended(Setting("total", Flat, Plain, Nil, {}, Nil)),
     Blended(Setting("residual", Dip, Plain, Nil, {}, Nil)),
     Setting("total", Flat, Plain, Nil, {RI("ri", 9), FullRate(RI("old", 2))}, Nil),
     Setting("total", Dip, Whole, Nil, {RI("ri", 2)}, Nil),
     Setting("total", Dip, Capped1, Int2Rat(3), {RI("ri", 9)}, Unused),
     Setting("total", Dip, Half, Int2Rat(3), {RI("ri", 9)}, Used),
     Setting("residual", Dip, Whole, Int2Rat(3), {RI("ri", 2)}, Used),
     Setting("residual", Flat, Capped1, Nil, {}, Nil),
     Setting("residual", Flat, Half, Nil, {RI("ri", 9)}, Unused),
     Setting("aws", Flat, Whole, Nil, {}, Nil),
     Setting("aws", Dip, Capped1, Nil, {RI("ri", 2)}, Unused),
     Setting("aws", Flat, Invalid, Nil, {}, Nil)}

(* An account on AWS that holds nothing at the start.                      *)
AwsSettings == {Setting("aws", Flat, Whole, Nil, {}, Nil)}

Eps == Rat(1, 10)
Minimum == Rat(1, 4)
=============================================================================
