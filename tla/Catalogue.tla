----------------------------- MODULE Catalogue ------------------------------
(***************************************************************************)
(* What the AWS service clients read before they buy: the commitments      *)
(* held, the types on offer, the offering that fits a recommendation, its  *)
(* price against the approved one, its quote.  Every read is a loop over   *)
(* pages that ends at the last page, at a cap, at an error or when the     *)
(* caller gives up.  A call is a record; an item of a page is a record     *)
(* with the fields of all services.  Money counts cents, a duration days,  *)
(* a field that is not reported is Nil.                                    *)
(***************************************************************************)
EXTENDS Names, Sequences, FiniteSets, SequencesExt

CONSTANTS
    CatalogueCalls,  \* [service, op, rec, pages, honoured, region, plan, token]
    ListPages,       \* maxListPages (50), maxCommitmentPages (100)
    OfferingPages,   \* maxOfferingPages (5)
    TargetPages,     \* maxConvertibleOfferingPages (10)
    MaxPlanCalls     \* bound on the calls that buy one savings plan

VARIABLES
    call,      \* the member of CatalogueCalls running
    page,      \* pages read
    found,     \* what the pages of a lookup gave so far
    listed,    \* what a listing kept of its pages so far
    answer,    \* Nil while the call runs, then <<"failed">> or <<"ok", value>>
    plans,     \* savings plans AWS has created: [token, offering]
    planCalls  \* calls made to buy it

catalogueVars == <<call, page, found, listed, answer, plans, planCalls>>

(* The states in which AWS reports a reservation of a service.             *)
EC2States == {"payment-pending", "active", "payment-failed", "retired", "queued", "queued-deleted"}
PlanStates == EC2States \cup {"pending-return", "returned"}
Reported(service, state) ==
    CASE service = "ec2"          -> state \in EC2States
      [] service = "savingsplans" -> state \in PlanStates
      [] OTHER                    -> state \notin {"queued-deleted", "returned"}

Failed == <<"failed">>

ASSUME CatalogueAssumption ==
    /\ Nil # Failed /\ Nil \notin Int
    /\ \A c \in CatalogueCalls :
         /\ Len(c.pages) \in Nat \ {0} /\ DOMAIN c.pages = 1..Len(c.pages)
         /\ \A n \in DOMAIN c.pages : \A i \in Range(c.pages[n]) : Reported(c.service, i.state)

(* What AWS sells: one and three years, at whole cents, the hours of a     *)
(* Redshift node paid by one charge or by the usage price.  MemoryDB alone *)
(* leaves the type to AWS's filter; the unit of a plan's hourly commitment *)
(* is one half of which can be paid upfront.                               *)
Offers(c) == c.op \in {"buy", "quote", "exchange"}
Sellable(o) ==
    /\ {"id", "type", "kind", "days", "tenancy", "zone", "fixed", "usage", "charges"} \subseteq DOMAIN o
    /\ o.days \in {365, 1095} /\ o.usage \in Int /\ (o.fixed # Nil => o.fixed \in Nat)
    /\ Len(o.charges) \in Nat /\ DOMAIN o.charges = 1..Len(o.charges)
    /\ \A n \in DOMAIN o.charges : o.charges[n].amount \in Int
PaidOneWay(o) == Len(o.charges) <= 1 /\ (Len(o.charges) = 1 => o.usage = 0)

ASSUME OfferAssumption ==
    \A c \in {d \in CatalogueCalls : Offers(d)} :
        /\ \A n \in DOMAIN c.pages :
             /\ Len(c.pages[n]) \in Nat /\ DOMAIN c.pages[n] = 1..Len(c.pages[n])
             /\ \A o \in Range(c.pages[n]) : Sellable(o) /\ (c.service = "redshift" => PaidOneWay(o))
        /\ c.service = "memorydb" => c.honoured
        /\ c.rec.count \in Nat /\ (c.rec.approved # Nil => c.rec.approved \in Int)
        /\ c.rec.hourly \in Int /\ c.rec.hourly % 2 = 0

Ok(value) == <<"ok", value>>
Is(service, op) == answer = Nil /\ call.service = service /\ call.op = op
Idle == UNCHANGED <<call, listed, plans, planCalls>>

(* Go strings and durations: purchasecfg's terms, the payment options.     *)
TermMonths(term) == IF term \in {"3yr", "3"} THEN 36 ELSE 12
KnownTerm(term) == term \in {"1yr", "1", "3yr", "3"}
TermDays(term) == 365 * (TermMonths(term) \div 12)
OfferingType ==
    "all-upfront" :> "All Upfront" @@ "partial-upfront" :> "Partial Upfront" @@ "no-upfront" :> "No Upfront"
KnownPayment(option) == option \in DOMAIN OfferingType

IsOwned(state) == state \notin {"retired", "pending-return", "expired", "canceled", "failed", "payment-failed"}
EndDate(item) == IF item.start = Nil \/ item.days <= 0 THEN Nil ELSE item.start + item.days
IsChinaRegion(region) == region = "cn"

-----------------------------------------------------------------------------
(* The paging loops.  AWS returns the page's items its filters let         *)
(* through, or all of them where it does not honour a filter; a lookup     *)
(* takes the first of the positions that suit it.                          *)

Page == call.pages[page + 1]
LastPage == page + 1 = Len(call.pages)
Fits(item, query) == \A f \in DOMAIN query : item[f] = query[f]
LetThrough(item, query) == ~call.honoured \/ Fits(item, query)
Returned(query) == {n \in DOMAIN Page : LetThrough(Page[n], query)}
FirstOf(hits) == Page[Min(hits)]

(* Any call fails when the caller gives up, AWS answers with an error, the *)
(* cap is reached with pages left or the input is refused.                 *)
AnswerFailed == answer = Nil /\ answer' = Failed /\ UNCHANGED <<page, found>> /\ Idle
Answer(value) == answer' = Ok(value) /\ UNCHANGED <<page, found>> /\ Idle
Capped(cap) == page >= cap

(* A listing keeps `kept`, a set, of each page and returns after the last. *)
NextPage(kept) ==
    /\ page < Len(call.pages)
    /\ listed' = listed \cup kept /\ page' = page + 1
    /\ answer' = (IF LastPage THEN Ok(listed') ELSE Nil)
    /\ UNCHANGED <<call, found, plans, planCalls>>

(* Mutant: at the cap what was read so far is returned.                    *)
MutantListTurn(cap, kept) == (Capped(cap) /\ Answer(listed)) \/ (~Capped(cap) /\ NextPage(kept))

ListTurn(cap, kept) == ~Capped(cap) /\ NextPage(kept)

(* A lookup ends with the first page that has a hit.                       *)
FindTurn(cap, hits) ==
    /\ ~Capped(cap) /\ page' = page + 1
    /\ found' = (IF hits # {} THEN <<FirstOf(hits)>> ELSE <<>>)
    /\ answer' = (IF hits = {} /\ LastPage THEN Failed ELSE Nil)
    /\ Idle

(* Lookups run until one offering is chosen.                               *)
Choosing(service) ==
    answer = Nil /\ call.service = service /\ call.op \in {"buy", "quote"} /\ found = <<>>
Chosen(service, op) ==
    Is(service, op) /\ found # <<>> /\ (service \in {"rds", "savingsplans"} => page = Len(call.pages))

-----------------------------------------------------------------------------
(* GetExistingCommitments.                                                 *)

Items == Range(Page)
Owned(items) == {i \in items : IsOwned(i.state)}
Commitment(i, engine, deployment) ==
    [id |-> i.id, type |-> i.type, count |-> i.count, state |-> i.state, engine |-> engine,
     deployment |-> deployment, end |-> EndDate(i)]

RdsCommitment(i) == Commitment(i, i.product, IF i.multiAZ = TRUE THEN "multi-az" ELSE "single-az")
CacheCommitment(i) == Commitment(i, i.product, "")
MemoryDBCommitment(i) == Commitment(i, "redis", "")
SearchCommitment(i) == Commitment(i, "", "")

(* ownedNodeState: Redshift has a spelling of its own.                     *)
NodeState(state) == IF state = "pending-payment" THEN "payment-pending" ELSE state
NodeCommitment(i) == [Commitment(i, "", "") EXCEPT !.state = NodeState(i.state)]

ListRds == Is("rds", "list") /\ ListTurn(ListPages, {RdsCommitment(i) : i \in Owned(Items)})
ListCache == Is("elasticache", "list") /\ ListTurn(ListPages, {CacheCommitment(i) : i \in Owned(Items)})
ListMemoryDB == Is("memorydb", "list") /\ ListTurn(ListPages, {MemoryDBCommitment(i) : i \in Owned(Items)})
ListSearch == Is("opensearch", "list") /\ ListTurn(ListPages, {SearchCommitment(i) : i \in Owned(Items)})
ListRedshift == Is("redshift", "list") /\ ListTurn(ListPages, {NodeCommitment(i) : i \in Owned(Items)})

(* EC2 answers in one page, by state.                                      *)
LiveRIs(items) == {i \in items : i.state \in {"active", "payment-pending", "queued"}}
ListEC2 == Is("ec2", "list") /\ ListTurn(ListPages, {SearchCommitment(i) : i \in LiveRIs(Items)})

(* A savings plan of another type than the client's is not its own, and    *)
(* one without dates fails the listing.                                    *)
LivePlans(items) == {i \in items : i.state \in {"active", "payment-pending", "pending-return", "queued"}}
ToCommitment(items) == {i \in items : i.id # Nil /\ (call.plan = "" \/ i.type = call.plan)}
ListPlans ==
    /\ Is("savingsplans", "list")
    /\ \A i \in ToCommitment(LivePlans(Items)) : i.start # Nil
    /\ ListTurn(ListPages, {SearchCommitment(i) : i \in ToCommitment(LivePlans(Items))})

(* GetValidResourceTypes.                                                  *)
Types(items) == {i.type : i \in items} \ {Nil}
TypesRds == Is("rds", "types") /\ ListTurn(ListPages, Types(Items))
TypesCache == Is("elasticache", "types") /\ ListTurn(ListPages, Types(Items))
TypesMemoryDB == Is("memorydb", "types") /\ ListTurn(ListPages, Types(Items))
TypesRedshift == Is("redshift", "types") /\ ListTurn(ListPages, Types(Items))
TypesEC2 == Is("ec2", "types") /\ ListTurn(ListPages, Types(Items))

-----------------------------------------------------------------------------
(* findOfferingID.                                                         *)

rec == call.rec

(* RDS: an engine whose licence or edition is not known is refused.        *)
RdsEngine(engine) ==
    Alias("MySQL" :> "mysql" @@ "Aurora MySQL" :> "aurora-mysql" @@ "aurora" :> "" @@ "oracle" :> "", engine)
LicensedEngine(name) == name \in {"oracle-se2", "sqlserver-se"}
RdsRefused ==
    \/ rec.az \notin {"single-az", "multi-az"} \/ ~KnownPayment(rec.payment) \/ ~KnownTerm(rec.term)
    \/ RdsEngine(rec.engine) = "" \/ LicensedEngine(RdsEngine(rec.engine))
RdsQuery ==
    [type |-> rec.type, product |-> RdsEngine(rec.engine), multiAZ |-> rec.az = "multi-az",
     days |-> TermDays(rec.term), kind |-> OfferingType[rec.payment]]

(* pickOfferingID over all pages: a second offering is an ambiguity, and a *)
(* cap with pages left proves nothing.                                     *)
PickOffering(offerings) == \A a, b \in offerings : a.id = b.id
RdsHits == {n \in Returned(RdsQuery) : Fits(Page[n], RdsQuery) /\ Page[n].id # Nil}

RdsScan == Is("rds", call.op) /\ call.op \in {"buy", "quote"} /\ page < Len(call.pages)
FindRds ==
    /\ RdsScan /\ ~RdsRefused /\ ~Capped(OfferingPages)
    /\ PickOffering(Range(found) \cup {Page[n] : n \in RdsHits})
    /\ found' = (IF found = <<>> /\ RdsHits # {} THEN <<FirstOf(RdsHits)>> ELSE found) /\ page' = page + 1
    /\ answer' = (IF LastPage /\ found' = <<>> THEN Failed ELSE Nil)
    /\ Idle

(* ElastiCache and MemoryDB trust the filter and check the first offering. *)
CacheRefused == ~KnownPayment(rec.payment) \/ rec.engine = "" \/ ~KnownTerm(rec.term)
CacheQuery ==
    [type |-> rec.type, product |-> rec.engine, days |-> TermDays(rec.term), kind |-> OfferingType[rec.payment]]
CacheMismatch(hits) == hits # {} /\ ~Fits(FirstOf(hits), CacheQuery)
FindCache ==
    /\ Choosing("elasticache") /\ ~CacheRefused /\ ~CacheMismatch(Returned(CacheQuery))
    /\ FindTurn(OfferingPages, Returned(CacheQuery))

MemoryDBTerm(term) == IF term = "12" THEN "1yr" ELSE IF term = "36" THEN "3yr" ELSE term
MemoryDBRefused == ~KnownPayment(rec.payment) \/ ~KnownTerm(MemoryDBTerm(rec.term))
MemoryDBQuery ==
    [type |-> rec.type, days |-> TermDays(MemoryDBTerm(rec.term)), kind |-> OfferingType[rec.payment]]
MemoryDBMismatch(hits) == hits # {} /\ FirstOf(hits).kind # OfferingType[rec.payment]
FindMemoryDB ==
    /\ Choosing("memorydb") /\ ~MemoryDBRefused /\ ~MemoryDBMismatch(Returned(MemoryDBQuery))
    /\ FindTurn(OfferingPages, Returned(MemoryDBQuery))

(* OpenSearch and Redshift filter themselves.                              *)
SearchFits(o) ==
    /\ o.type = rec.type /\ o.kind = OfferingType[rec.payment]
    /\ o.days \div 30 \in (TermMonths(rec.term) - 1)..(TermMonths(rec.term) + 1)
FindSearch ==
    /\ Choosing("opensearch") /\ KnownPayment(rec.payment) /\ KnownTerm(rec.term)
    /\ FindTurn(OfferingPages, {n \in DOMAIN Page : SearchFits(Page[n])})

RecurringRate(o) ==
    LET hourly == {n \in DOMAIN o.charges : o.charges[n].frequency = "Hourly"}
    IN  IF hourly = {} THEN o.usage ELSE o.charges[Min(hourly)].amount
Upfront(o) == IF o.fixed = Nil THEN 0 ELSE o.fixed
PaymentShape(o) ==
    CASE Upfront(o) > 0 /\ RecurringRate(o) <= 0 -> "all-upfront"
      [] Upfront(o) <= 0 /\ RecurringRate(o) > 0 -> "no-upfront"
      [] Upfront(o) > 0 /\ RecurringRate(o) > 0  -> "partial-upfront"
      [] OTHER                                   -> "unknown"
RedshiftSized(o) == o.type = rec.type /\ o.days \div 30 = TermMonths(rec.term)
UnexpectedType(o) == RedshiftSized(o) /\ o.kind \notin {"Regular", "Upgradable"}
RedshiftFits(o) == RedshiftSized(o) /\ rec.payment = PaymentShape(o)

(* scanRedshiftOfferingPage: in order, an unexpected type before the first *)
(* fit is an error.                                                        *)
RedshiftScan == {n \in DOMAIN Page : UnexpectedType(Page[n]) \/ RedshiftFits(Page[n])}
FindRedshift ==
    /\ Choosing("redshift") /\ KnownTerm(rec.term)
    /\ RedshiftScan # {} => ~UnexpectedType(FirstOf(RedshiftScan))
    /\ FindTurn(OfferingPages, RedshiftScan)

-----------------------------------------------------------------------------
(* EC2: findOffering, FindConvertibleOffering and ListTargetOfferings      *)
(* share the comparison of offering_match.go.                              *)

Tenancy(t) == Alias("shared" :> "default", t)
Scope(s) == Alias("region" :> "Region" @@ "availability-zone" :> "Availability Zone", s)
OfferingClass(c) == Alias("" :> "convertible", c)
ZoneRefused(scope, zone) == (scope = "Availability Zone") # (zone # "")
LookupRefused ==
    \/ Tenancy(rec.tenancy) \notin {"default", "dedicated"} \/ Scope(rec.scope) \notin {"Region", "Availability Zone"}
    \/ ZoneRefused(Scope(rec.scope), rec.zone) \/ rec.platform = ""
EC2Refused == ~KnownPayment(rec.payment) \/ ~KnownTerm(rec.term) \/ LookupRefused
OfferingWant(class) ==
    [type |-> rec.type, tenancy |-> Tenancy(rec.tenancy), days |-> TermDays(rec.term), class |-> class,
     kind |-> OfferingType[rec.payment]]
Product(p) == Alias("Linux/UNIX (Amazon VPC)" :> "Linux/UNIX", p)

(* offeringMismatch: an instance type, scope or product AWS leaves out is  *)
(* not a mismatch.                                                         *)
OfferingMatches(o, want) ==
    /\ rec.zone # "" => o.zone = rec.zone
    /\ \A f \in DOMAIN want \ {"type"} : o[f] = want[f]
    /\ "type" \in DOMAIN want => o.type \in {Nil, want.type}
    /\ o.scope \in {Nil, Scope(rec.scope)}
    /\ o.product # Nil => Product(o.product) = Product(rec.platform)

EC2Query == OfferingWant(OfferingClass(rec.class))
FindEC2 ==
    /\ Choosing("ec2") /\ ~EC2Refused /\ OfferingClass(rec.class) \in {"convertible", "standard"}
    /\ FindTurn(OfferingPages, {n \in Returned(EC2Query) : OfferingMatches(Page[n], EC2Query)})

(* The target of an exchange: the payment option of the source, as AWS     *)
(* spells it.                                                              *)
ConvertibleWant ==
    [type |-> rec.type, tenancy |-> Tenancy(rec.tenancy), days |-> rec.days, class |-> "convertible",
     kind |-> rec.payment]
FindConvertible ==
    /\ Is("ec2", "exchange") /\ found = <<>> /\ ~LookupRefused /\ rec.days > 0 /\ rec.type # ""
    /\ \E p \in DOMAIN OfferingType : OfferingType[p] = rec.payment
    /\ FindTurn(TargetPages, {n \in Returned(ConvertibleWant) : OfferingMatches(Page[n], ConvertibleWant)})
TakeConvertible == Is("ec2", "exchange") /\ found # <<>> /\ Answer(found[1])

TargetWant ==
    IF rec.payment = "" THEN [tenancy |-> Tenancy(rec.tenancy), days |-> rec.days, class |-> "convertible"]
    ELSE [tenancy |-> Tenancy(rec.tenancy), days |-> rec.days, class |-> "convertible",
          kind |-> OfferingType[rec.payment]]
TargetOfferings(offerings) == {o \in offerings : OfferingMatches(o, TargetWant) /\ o.id # Nil}
ListTargets ==
    /\ Is("ec2", "targets") /\ ~LookupRefused /\ rec.days > 0 /\ (rec.payment = "" \/ KnownPayment(rec.payment))
    /\ ListTurn(ListPages, TargetOfferings({o \in Items : LetThrough(o, TargetWant)}))

-----------------------------------------------------------------------------
(* Savings plans: every offering of every page is looked at.               *)

PlanType(plan) == Alias("Sagemaker" :> "SageMaker", plan)
KnownPlan(plan) == PlanType(plan) \in {"Compute", "EC2Instance", "SageMaker", "Database"}
PlanRefused ==
    \/ \E r \in {call.region, rec.region, rec.planRegion} : IsChinaRegion(r)
    \/ ~KnownPlan(rec.plan) \/ (call.plan # "" /\ PlanType(rec.plan) # call.plan)
    \/ ~KnownTerm(rec.term) \/ ~KnownPayment(rec.payment)
PlanRegion == IF rec.planRegion # "" THEN rec.planRegion ELSE call.region
PlanQuery ==
    [type |-> PlanType(rec.plan), days |-> TermDays(rec.term), kind |-> OfferingType[rec.payment], currency |-> "USD"]
      @@ (IF PlanType(rec.plan) = "EC2Instance" /\ PlanRegion # "" THEN [region |-> PlanRegion] ELSE <<>>)
      @@ (IF PlanType(rec.plan) = "EC2Instance" /\ rec.family # "" THEN [family |-> rec.family] ELSE <<>>)

(* lookupEC2OfferingIDStrict refuses offerings of two families or regions; *)
(* of several that remain the smallest ID is taken.                        *)
SmallestId(offerings) == <<CHOOSE o \in Range(offerings) : \A x \in Range(offerings) : o.id <= x.id>>
Ambiguous(offerings) ==
    /\ PlanType(rec.plan) = "EC2Instance"
    /\ \E f \in {"family", "region"} : Cardinality({o[f] : o \in Range(offerings)} \ {""}) > 1

PlanScan == Is("savingsplans", call.op) /\ call.op \in {"buy", "quote"} /\ page < Len(call.pages)
FindPlan ==
    /\ PlanScan
    /\ \/ /\ ~PlanRefused /\ rec.offering # Nil   \* Cost Explorer named the offering
          /\ found' = <<rec.offering>> /\ page' = Len(call.pages) /\ UNCHANGED answer /\ Idle
       \/ /\ ~PlanRefused /\ rec.offering = Nil /\ ~Capped(OfferingPages)
          /\ LET all == found \o SelectSeq(Page, LAMBDA o : LetThrough(o, PlanQuery) /\ o.id # Nil)
                 none == LastPage /\ (all = <<>> \/ Ambiguous(all))
             IN  /\ found' = (IF LastPage /\ ~none THEN SmallestId(all) ELSE all) /\ page' = page + 1
                 /\ answer' = (IF none THEN Failed ELSE Nil)
          /\ Idle

(* PurchaseCommitment: AWS creates one plan per client token; the answer   *)
(* may be lost or empty, and the plan's upfront payment is read afterwards.*)
(* Mutant: the token is not sent.                                          *)
MutantClientToken == ""

ClientToken == call.token
Created(offering) ==
    IF \E p \in plans : p.token = ClientToken /\ ClientToken # "" THEN plans
    ELSE plans \cup {[token |-> ClientToken, offering |-> offering, nth |-> planCalls]}

BuyPlan ==
    /\ Chosen("savingsplans", "buy") /\ planCalls < MaxPlanCalls
    /\ \/ answer' = Failed /\ UNCHANGED plans                   \* rejected
       \/ /\ plans' = Created(found[1])
          /\ \/ answer' = Failed                               \* lost or empty
             \/ answer' = Ok([found[1] EXCEPT !.fixed = Nil])  \* the amount could not be read
             \/ answer' = Ok(found[1])
    /\ planCalls' = planCalls + 1
    /\ UNCHANGED <<call, page, found, listed>>

(* The caller repeats a purchase that failed, with the same token.         *)
RepeatPlan ==
    /\ call.service = "savingsplans" /\ call.op = "buy" /\ answer = Failed /\ planCalls \in 1..(MaxPlanCalls - 1)
    /\ answer' = Nil /\ page' = 0 /\ found' = <<>>
    /\ UNCHANGED <<call, listed, plans, planCalls>>

(* GetOfferingDetails prices the commitment itself.                        *)
PlanBreakdown(total, hours) ==
    IF rec.payment = "all-upfront" THEN [upfront |-> total, hourly |-> 0, total |-> total, hours |-> hours]
    ELSE IF rec.payment = "partial-upfront"
    THEN [upfront |-> total \div 2, hourly |-> total \div (2 * hours), total |-> total, hours |-> hours]
    ELSE [upfront |-> 0, hourly |-> total \div hours, total |-> total, hours |-> hours]
QuotePlan ==
    /\ Chosen("savingsplans", "quote")
    /\ LET hours == TermDays(rec.term) * 24
       IN  Answer(PlanBreakdown(rec.hourly * hours, hours))

-----------------------------------------------------------------------------
(* offeringprice: the approved upfront and the price of an offering.       *)

Ceiling(approved) == (105 * approved + 50) \div 100
NoUpfrontApproved == rec.approved # Nil /\ rec.approved <= 0

(* Mutant: the price of one instance is compared.                          *)
MutantCheckUpfront(price) == rec.approved # Nil /\ price <= Ceiling(rec.approved)

CheckUpfront(price) == rec.approved # Nil /\ price * rec.count <= Ceiling(rec.approved)

InUSD(currency) == currency \in {"", "USD"}
ApprovedPrice(o) ==
    InUSD(rec.currency) /\ o.fixed # Nil /\ InUSD(o.currency) /\ CheckUpfront(o.fixed)

(* The offering is read again by its ID, so the price may have changed; an *)
(* offering keeps its payment option.                                      *)
Reread(o) == {o, [o EXCEPT !.fixed = IF @ \in {Nil, 0} THEN @ ELSE @ + 10]}
Approve(o, ok) ==
    /\ answer' = (IF NoUpfrontApproved \/ ok THEN Ok(o) ELSE Failed)
    /\ UNCHANGED <<page, found>> /\ Idle

ApproveRds == Chosen("rds", "buy") /\ \E o \in Reread(found[1]) : Approve(o, ApprovedPrice(o))
ApproveSearch == Chosen("opensearch", "buy") /\ \E o \in Reread(found[1]) : Approve(o, ApprovedPrice(o))
ApproveRedshift == Chosen("redshift", "buy") /\ \E o \in Reread(found[1]) : Approve(o, ApprovedPrice(o))

(* MemoryDB reports no currency: its prices are dollars outside China.     *)
AssumedUSD == ~IsChinaRegion(call.region)
ApproveMemoryDB ==
    /\ Chosen("memorydb", "buy")
    /\ \E o \in Reread(found[1]) :
         Approve(o, /\ InUSD(rec.currency) /\ CheckUpfront(Upfront(o))
                    /\ Upfront(o) = 0 => o.kind = "No Upfront"
                    /\ o.kind # "No Upfront" => AssumedUSD)

(* EC2 compares the offering it found; ElastiCache compares nothing.       *)
ApproveEC2 == Chosen("ec2", "buy") /\ Approve(found[1], ApprovedPrice(found[1]))
TakeCache == Chosen("elasticache", "buy") /\ Answer(found[1])

(* Price: a charge of another frequency, two rates at once, a negative     *)
(* amount or a duration that is not the term's are not priced.             *)
Hourly(o) ==
    LET sum[n \in 0..Len(o.charges)] == IF n = 0 THEN 0 ELSE sum[n - 1] + o.charges[n].amount
    IN  sum[Len(o.charges)]
Priceable(o, term) ==
    /\ KnownTerm(term) /\ o.days = TermDays(term) /\ Upfront(o) >= 0 /\ o.usage >= 0
    /\ \A n \in DOMAIN o.charges : o.charges[n].frequency = "Hourly" /\ o.charges[n].amount >= 0
    /\ Hourly(o) = 0 \/ o.usage = 0
Rate(o) == IF Hourly(o) # 0 THEN Hourly(o) ELSE o.usage
Price(o) ==
    [upfront |-> Upfront(o), hourly |-> Rate(o), total |-> Upfront(o) + Rate(o) * o.days * 24, hours |-> o.days * 24]

Quote(service, billable) ==
    /\ Chosen(service, "quote")
    /\ billable /\ Priceable(found[1], rec.term)
    /\ Answer(Price(found[1]))
QuoteRds == Chosen("rds", "quote") /\ Quote("rds", found[1].currency # "")
QuoteCache == Chosen("elasticache", "quote") /\ Quote("elasticache", AssumedUSD)
QuoteMemoryDB == Chosen("memorydb", "quote") /\ Quote("memorydb", AssumedUSD)
QuoteSearch == Chosen("opensearch", "quote") /\ Quote("opensearch", found[1].currency # "")
QuoteRedshift == Chosen("redshift", "quote") /\ Quote("redshift", found[1].currency # "")
QuoteEC2 == Chosen("ec2", "quote") /\ Quote("ec2", found[1].fixed # Nil /\ found[1].currency # "")

-----------------------------------------------------------------------------
CatalogueInit ==
    /\ call \in CatalogueCalls /\ page = 0 /\ found = <<>> /\ listed = {} /\ answer = Nil
    /\ plans = {} /\ planCalls = 0

CatalogueNext ==
    \/ AnswerFailed
    \/ ListRds \/ ListCache \/ ListMemoryDB \/ ListSearch \/ ListRedshift \/ ListEC2 \/ ListPlans
    \/ TypesRds \/ TypesCache \/ TypesMemoryDB \/ TypesRedshift \/ TypesEC2
    \/ FindRds \/ FindCache \/ FindMemoryDB \/ FindSearch \/ FindRedshift \/ FindEC2 \/ FindPlan
    \/ FindConvertible \/ TakeConvertible \/ ListTargets
    \/ BuyPlan \/ RepeatPlan \/ QuotePlan
    \/ ApproveRds \/ ApproveSearch \/ ApproveRedshift \/ ApproveMemoryDB \/ ApproveEC2 \/ TakeCache
    \/ QuoteRds \/ QuoteCache \/ QuoteMemoryDB \/ QuoteSearch \/ QuoteRedshift \/ QuoteEC2

-----------------------------------------------------------------------------
(* Properties.                                                             *)

(* All AWS has, and the commitments among it that the account still holds  *)
(* and a client answers for: of Savings Plans those of its type, until they*)
(* have been returned.                                                     *)
Everything == UNION {Range(call.pages[n]) : n \in DOMAIN call.pages}
Ended == {"retired", "expired", "canceled", "failed", "payment-failed", "queued-deleted", "returned"}
StillHeld(i) ==
    /\ i.state \notin Ended
    /\ IF call.service = "savingsplans" THEN i.id # Nil /\ call.plan \in {"", i.type} ELSE i.state # "pending-return"
IdsOf(items) == {i.id : i \in items}

(* A listing that is returned is whole: everything AWS holds on all pages, *)
(* in a state in which the account owns it, however many pages, errors and *)
(* caps there are; what the duplicate checks see is never a first part of  *)
(* it (GetExistingCommitments, GetValidResourceTypes, ListTargetOfferings).*)
ReadsAreWhole ==
    (answer # Nil /\ answer # Failed) =>
        /\ call.op = "list" => IdsOf(answer[2]) = IdsOf({i \in Everything : StillHeld(i)})
        /\ call.op = "types" => answer[2] = Types(Everything)
        /\ call.op = "targets" => answer[2] = TargetOfferings(Everything)

(* An offering of the payment option and of the term asked for.            *)
RightKind(o) ==
    IF call.service = "redshift" THEN PaymentShape(o) = rec.payment
    ELSE o.kind \in {rec.payment} \cup (IF KnownPayment(rec.payment) THEN {OfferingType[rec.payment]} ELSE {})
RightTerm(o) == o.days = (IF call.op = "exchange" THEN rec.days ELSE TermDays(MemoryDBTerm(rec.term)))

Suits(o) ==
    /\ o.type \in {Nil, rec.type} /\ RightKind(o) /\ RightTerm(o)
    /\ call.service = "ec2" => o.tenancy = Tenancy(rec.tenancy) /\ (rec.zone # "" => o.zone = rec.zone)

(* The RDS offerings among some items that are of the shape asked for.     *)
OfShape(items) == {y \in items : Fits(y, RdsQuery) /\ y.id # Nil}

WithinApproval(o) ==
    (call.op = "buy" /\ call.service # "elasticache" /\ rec.approved # Nil /\ rec.approved > 0) =>
        100 * Upfront(o) * rec.count <= 105 * rec.approved + 50

AddsUp(q) ==
    /\ q.total = q.upfront + q.hourly * q.hours
    /\ call.service \in {"redshift", "savingsplans"} =>
         (rec.payment = "all-upfront" => q.hourly = 0) /\ (rec.payment = "no-upfront" => q.upfront = 0)

(* What a client goes on to buy is what was approved: an offering of the   *)
(* recommendation's type, term and payment, for RDS the only one AWS has   *)
(* on any page, at no more than 105 % of the approved upfront for the whole*)
(* count (ElastiCache apart, which compares none); and a quote's total is  *)
(* what its parts come to over the term (findOfferingID, checkApproved-    *)
(* Upfront, GetOfferingDetails).                                           *)
BoughtAsApproved ==
    (answer # Nil /\ answer # Failed) =>
        /\ (call.op \in {"buy", "exchange"} /\ call.service # "savingsplans") =>
             /\ Suits(answer[2]) /\ WithinApproval(answer[2])
             /\ call.service = "rds" => IdsOf(OfShape(Everything)) = {answer[2].id}
        /\ call.op = "quote" => AddsUp(answer[2])

(* However often a savings plan purchase is repeated after a failure or a  *)
(* lost answer, one client token buys one plan (PurchaseCommitment sends   *)
(* the token with every attempt).                                          *)
OnePlanPerToken ==
    /\ call.token # "" => Cardinality(plans) <= 1
    /\ (answer # Nil /\ answer # Failed /\ call.service = "savingsplans" /\ call.op = "buy") => plans # {}
=============================================================================
