------------------------------ MODULE Reshape -------------------------------
(***************************************************************************)
(* The analysis of underused convertible RIs (pkg/exchange/reshape.go) and *)
(* its repetition: an RI is analysed, exchanged for what the analysis      *)
(* suggests, used as before and analysed again.  An instance type is       *)
(* <<family, size>>, <<"", "">> when it does not parse.  Normalized units  *)
(* count quarters.  A price or a term that is not known is 0, a pointer    *)
(* that is nil is Nil.                                                     *)
(***************************************************************************)
EXTENDS Rationals, Names, FiniteSets

CONSTANT
    ReshapeCases     \* RI, the units its load needs, threshold, offered types, alternatives

(* Counts, factors and loads are not negative, and an RI is underused below*)
(* a threshold of at most 100 %.                                           *)
ASSUME ReshapeAssumption ==
    /\ \A c \in ReshapeCases :
         /\ c.ri.count \in Nat /\ c.ri.factor \in Nat /\ c.ri.term \in Int /\ IsRational(c.ri.monthly)
         /\ {"type", "count", "factor", "class", "currency", "monthly", "term"} \subseteq DOMAIN c.ri
         /\ IsRational(c.load) /\ c.load[1] >= 0 /\ IsRational(c.threshold) /\ RLe(c.threshold, Int2Rat(100))
         /\ \A t \in c.offered : t = <<t[1], t[2]>>
         /\ \A o \in c.offerings : o.term \in Int /\ IsRational(o.monthly) /\ o.factor \in Int

VARIABLES
    case,      \* the member of ReshapeCases looked at
    held,      \* the RI now held
    advice,    \* the last recommendation, Nil when there is none
    rounds     \* exchanges made

reshapeVars == <<case, held, advice, rounds>>

(* resolveNormFactor *)
NormFactor(ri) == IF ri.factor # 0 THEN ri.factor ELSE EC2NormalizationFactor(ri.type[2])
Purchased(ri) == NormFactor(ri) * ri.count
Used(ri, util) == RMul(Int2Rat(Purchased(ri)), RQuo(util, Int2Rat(100)))

(* The sizes a family is offered in; without a catalog every size below.   *)
SizeOrder == {"nano", "micro", "small", "medium", "large", "xlarge", "2xlarge"}
OfferedSizes(offered, family) ==
    {t[2] : t \in {u \in offered : u[1] = family /\ EC2NormalizationFactor(u[2]) > 0}}
HasLadder(offered, family) == offered = {} \/ OfferedSizes(offered, family) # {}
LadderFor(offered, family) == IF offered = {} THEN SizeOrder ELSE OfferedSizes(offered, family)

(* The ends of a ladder, which the code keeps sorted by factor.            *)
Largest(sizes) == CHOOSE s \in sizes : \A t \in sizes : EC2NormalizationFactor(t) <= EC2NormalizationFactor(s)
Smallest(sizes) == CHOOSE s \in sizes : \A t \in sizes : EC2NormalizationFactor(s) <= EC2NormalizationFactor(t)

(* findBestFit: the largest size not above the use whose whole count still *)
(* fits into what was purchased, else one of the smallest.                 *)
NoFit == <<"", 0>>

(* Mutant: the count is rounded down.                                      *)
MutantCeilDiv(used, nf) == used[1] \div (used[2] * nf)

CeilDiv(used, nf) == -((-used[1]) \div (used[2] * nf))

FitsWhole(used, purchased, nf) == RLe(Int2Rat(nf), used) /\ CeilDiv(used, nf) * nf <= purchased
FindBestFit(used, purchased, ladder) ==
    LET fits  == {s \in ladder : FitsWhole(used, purchased, EC2NormalizationFactor(s))}
        least == EC2NormalizationFactor(Smallest(ladder))
    IN  IF fits # {} THEN <<Largest(fits), CeilDiv(used, EC2NormalizationFactor(Largest(fits)))>>
        ELSE IF RLt(used, Int2Rat(least)) /\ least <= purchased THEN <<Smallest(ladder), 1>>
        ELSE NoFit

(* analyzeRI: Nil, or a recommendation whose target may be empty.          *)
Advice(ri, used, type, count) ==
    [source |-> ri.type, used |-> used, purchased |-> Purchased(ri), type |-> type, count |-> count,
     alternatives |-> <<>>]
NoTarget == <<"", "">>

AnalyzeRI(ri, util, threshold, offered) ==
    LET used == Used(ri, util)
        fit  == FindBestFit(used, Purchased(ri), LadderFor(offered, ri.type[1]))
    IN  IF ri.class # "convertible" \/ util = Nil THEN Nil
        ELSE IF RLe(threshold, util) \/ ri.type[1] = "" THEN Nil
        ELSE IF NormFactor(ri) = 0 \/ RLe(used, Zero) THEN Advice(ri, Zero, NoTarget, 0)
        ELSE IF ~HasLadder(offered, ri.type[1]) THEN Advice(ri, used, NoTarget, 0)
        ELSE IF fit = NoFit THEN Nil
        ELSE IF fit[2] * EC2NormalizationFactor(fit[1]) >= Purchased(ri) THEN Nil
        ELSE Advice(ri, used, <<ri.type[1], fit[1]>>, fit[2])

-----------------------------------------------------------------------------
(* Alternatives of other families.                                         *)

FamilyPrefix(family) ==
    Alias("m5" :> "m" @@ "m6g" :> "m" @@ "c5" :> "c" @@ "c6g" :> "c" @@ "im4gn" :> "im", family)
IsARMFamily(family) == family \in {"m6g", "c6g"}

SourceFactor(ri) == IF ri.factor > 0 THEN ri.factor ELSE EC2NormalizationFactor(ri.type[2])

Agrees(a, b) == a = "" \/ b = "" \/ a = b

(* passesDollarUnitsCheck: AWS accepts a target of at least the source's   *)
(* value; what cannot be compared does not pass.                           *)
PassesDollarUnits(ri, off) ==
    /\ Agrees(ri.currency, off.currency)
    /\ SourceFactor(ri) > 0 /\ RLt(Zero, off.monthly) /\ off.factor > 0
    /\ RLe(RMul(Int2Rat(SourceFactor(ri)), ri.monthly), RMul(Int2Rat(off.factor), off.monthly))
PricingGatePasses(ri, off) == RLe(ri.monthly, Zero) \/ PassesDollarUnits(ri, off)
TermMatchesIfKnown(ri, off) == ri.term <= 0 \/ off.term <= 0 \/ ri.term = off.term
IsCrossFamily(off, family, target) ==
    off.type[1] \notin {"", family} /\ off.type # target

Eligible(rec, off, ri) ==
    /\ IsCrossFamily(off, rec.source[1], rec.type)
    /\ TermMatchesIfKnown(ri, off)
    /\ PricingGatePasses(ri, off)

CostComponent(off, ri) ==
    IF RLe(ri.monthly, Zero) \/ RLe(off.monthly, Zero) THEN Rat(1, 2)
    ELSE RQuo(ri.monthly, RAdd(ri.monthly, off.monthly))
FamilyGenComponent(off, ri) ==
    IF ri.type[1] # "" /\ FamilyPrefix(off.type[1]) = FamilyPrefix(ri.type[1]) THEN Int2Rat(1) ELSE Zero
ArchComponent(off, ri) ==
    IF ri.type[1] = "" THEN Rat(1, 2)
    ELSE IF IsARMFamily(off.type[1]) = IsARMFamily(ri.type[1]) THEN Int2Rat(1) ELSE Zero
ConfidenceComponent(off) ==
    IF off.savings = Nil \/ off.recommendations = 0 THEN Rat(1, 2)
    ELSE IF off.savings >= 200 /\ off.recommendations >= 3 THEN Int2Rat(1)
    ELSE IF off.savings >= 50 THEN Rat(1, 2) ELSE Zero
NFProximityComponent(off, ri) ==
    LET src == SourceFactor(ri)
        deviation == IF off.factor >= src THEN off.factor - src ELSE src - off.factor
    IN  IF src <= 0 \/ off.factor <= 0 THEN Rat(1, 2)
        ELSE IF deviation >= src THEN Zero ELSE Rat(src - deviation, src)

CompositeScore(off, ri) ==
    RAdd(RMul(Rat(12, 20), CostComponent(off, ri)),
    RAdd(RMul(Rat(3, 20), FamilyGenComponent(off, ri)),
    RAdd(RMul(Rat(2, 20), ArchComponent(off, ri)),
    RAdd(RMul(Rat(2, 20), ConfidenceComponent(off)),
         RMul(Rat(1, 20), NFProximityComponent(off, ri))))))

RanksBefore(a, b, ri) ==
    \/ RLt(CompositeScore(b, ri), CompositeScore(a, ri))
    \/ CompositeScore(a, ri) = CompositeScore(b, ri) /\ RLt(a.monthly, b.monthly)

(* What sorting by rank may answer; the instance type, which decides last, *)
(* has no order here.                                                      *)
Ranked(offerings, ri) ==
    {s \in [1..Cardinality(offerings) -> offerings] :
        Range(s) = offerings /\ \A n, m \in DOMAIN s : n < m => ~RanksBefore(s[m], s[n], ri)}

(* AnalyzeReshapingWithRecs, what it may return; a lookup that fails leaves*)
(* the analysis as it is.                                                  *)
FillAlternatives(rec, ri, offerings) ==
    {[rec EXCEPT !.alternatives = s] : s \in Ranked({o \in offerings : Eligible(rec, o, ri)}, ri)}
AnalyzeWithRecs(ri, util, threshold, offered, offerings) ==
    LET rec == AnalyzeRI(ri, util, threshold, offered)
    IN  IF rec = Nil THEN {} ELSE FillAlternatives(rec, ri, offerings)

-----------------------------------------------------------------------------
(* The load of an RI keeps its size; what Cost Explorer reports is its     *)
(* share of what is held.                                                  *)
Utilization == RMin(RQuo(RMul(case.load, Int2Rat(100)), Int2Rat(Purchased(held))), Int2Rat(100))

ReshapeInit == case \in ReshapeCases /\ held = case.ri /\ advice = Nil /\ rounds = 0

Analyze ==
    /\ advice = Nil
    /\ \E util \in (IF Purchased(held) = 0 THEN {Nil, Zero} ELSE {Nil, Utilization}), found \in {{}, case.offerings} :
         advice' \in AnalyzeWithRecs(held, util, case.threshold, case.offered, found)
    /\ UNCHANGED <<case, held, rounds>>

(* The exchange AutoExchange models, of the suggested target.              *)
Exchange ==
    /\ advice # Nil /\ advice.count > 0
    /\ held' = [held EXCEPT !.type = advice.type, !.count = advice.count, !.factor = 0, !.monthly = Zero]
    /\ advice' = Nil /\ rounds' = rounds + 1
    /\ UNCHANGED case

ReshapeNext == Analyze \/ Exchange

-----------------------------------------------------------------------------
(* Properties.                                                             *)

(* However often an RI is reshaped, what is held still carries the load it *)
(* carried (findBestFit rounds up), every target is smaller than what it   *)
(* replaces, so the reshaping ends, and is a size the catalog offers; and  *)
(* every alternative shown is one AWS would take: another family, the term *)
(* of the source, a value not below the source's.                          *)
ReshapeCarriesTheLoad ==
    /\ rounds > 0 => RLe(case.load, Int2Rat(Purchased(held)))
    /\ advice # Nil => \A i \in DOMAIN advice.alternatives :
         LET a == advice.alternatives[i]
         IN  /\ a.type[1] # held.type[1]
             /\ (held.term > 0 /\ a.term > 0) => a.term = held.term
             /\ RLt(Zero, held.monthly) =>
                  RLe(RMul(Int2Rat(SourceFactor(held)), held.monthly), RMul(Int2Rat(a.factor), a.monthly))
    /\ (advice # Nil /\ advice.count > 0) =>
         /\ advice.count * EC2NormalizationFactor(advice.type[2]) < Purchased(held)
         /\ case.offered # {} => advice.type \in case.offered
=============================================================================
