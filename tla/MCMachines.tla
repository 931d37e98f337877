---------------------------- MODULE MCMachines ------------------------------
EXTENDS RecFilter, Reshape, Catalogue, GcpAdvice, AzureExchange

VARIABLE machine   \* the part of the system a behaviour is about

Blank ==
    [id |-> 1, service |-> "ec2", account |-> "a", region |-> "r", family |-> "m5", size |-> "large", type |-> "ri",
     count |-> 3, cost |-> Int2Rat(30), onDemand |-> Int2Rat(60), savings |-> Int2Rat(12),
     recurring |-> Nil, hourly |-> Nil, engine |-> "", deployment |-> "", platform |-> "Linux",
     tenancy |-> "default", scope |-> "regional", az |-> "", avg |-> Rat(7, 2), use |-> Zero,
     covered |-> Int2Rat(20), coverKnown |-> TRUE, pct |-> Int2Rat(20), breakEven |-> Nil,
     term |-> 12, payment |-> "all-upfront", projUse |-> Zero, projCover |-> Zero]
Rec(id, changes) == changes @@ ("id" :> id) @@ Blank
Held(changes) ==
    changes @@ [state |-> "active", start |-> -1, dayOnly |-> FALSE] @@ Blank
Portfolio(gcp, rs, cs) == [gcp |-> gcp, recs |-> [i \in DOMAIN rs |-> Rec(i, rs[i])], commitments |-> [i \in DOMAIN cs |-> Held(cs[i])]]

MCPortfolios ==
    {Portfolio(FALSE,
        <<[size |-> "xlarge", platform |-> "Linux/UNIX", count |-> 2], [scope |-> "zonal", az |-> "a", recurring |-> Int2Rat(9)],
          [platform |-> "Windows", avg |-> NaN, count |-> 1]>>,
        <<[size |-> "2xlarge", count |-> 1, tenancy |-> "shared"], [scope |-> "", count |-> 1],
          [scope |-> "zonal", az |-> "b", count |-> 5], [size |-> "xlarge", state |-> "expired"]>>),
     Portfolio(FALSE,
        <<[service |-> "rds", family |-> "db.r5", engine |-> "MySQL", deployment |-> "Multi-AZ"],
          [service |-> "rds", family |-> "db.r5", engine |-> "mysql", deployment |-> "Single-AZ", size |-> "xlarge", coverKnown |-> FALSE],
          [service |-> "rds", family |-> "db.r5", engine |-> "oracle-ee", covered |-> Int2Rat(90)]>>,
        <<[service |-> "rds", family |-> "db.r5", engine |-> "mysql", deployment |-> "multi-az", size |-> "xlarge", count |-> 1],
          [service |-> "rds", family |-> "db.r5", engine |-> "oracle-se2", count |-> 2, start |-> -40, dayOnly |-> TRUE]>>),
     Portfolio(FALSE,
        <<[service |-> "elasticache", family |-> "cache.m5", engine |-> "valkey", count |-> 7],
          [service |-> "elasticache", family |-> "cache.m5", engine |-> "Redis", payment |-> "no-upfront", cost |-> Zero],
          [service |-> "savings-plans", type |-> "savings-plan", hourly |-> Int2Rat(2), count |-> 1, use |-> Int2Rat(90)]>>,
        <<[service |-> "elasticache", family |-> "cache.m5", engine |-> "redis", count |-> 5],
          [service |-> "elasticache", family |-> "cache.m5", engine |-> "", count |-> 1]>>),
     Portfolio(FALSE, <<[count |-> 1], [count |-> 4, covered |-> Int2Rat(80)]>>,
        <<[count |-> 2, state |-> "queued"], [count |-> 1, state |-> "whatever"], [count |-> 9, start |-> -24]>>),
     Portfolio(FALSE, <<[size |-> "xlarge", count |-> 2], [count |-> 2]>>, <<[size |-> "2xlarge", count |-> 1]>>),
     Portfolio(TRUE, <<[service |-> "gcp-compute", type |-> "cud", account |-> "p"], [service |-> "gcp-compute", type |-> "cud", account |-> "q"]>>,
        <<[service |-> "gcp-compute", account |-> "p"]>>)}
MCCoverages == {0, 50, 100}
MCTargets == {NaN, Zero, Int2Rat(70), Int2Rat(100)}
MCPools == {Zero, Int2Rat(2)}
MCScore == {[services |-> {}, minSavings |-> Nil, maxMonths |-> 6, minCount |-> 2], [services |-> {"rds", "ec2"}, minSavings |-> Int2Rat(20), maxMonths |-> 0, minCount |-> 0]}
MCSel == {[regions |-> {}, notRegions |-> {}, types |-> {}, notTypes |-> {<<"m5", "xlarge">>}, engines |-> {"Linux", "MySQL"}, notEngines |-> {}]}

Source(changes) ==
    changes @@ [type |-> <<"m5", "xlarge">>, count |-> 2, factor |-> 0, class |-> "convertible",
                currency |-> "USD", monthly |-> Int2Rat(10), term |-> 1]
Offer(changes) ==
    changes @@ [type |-> <<"c5", "large">>, currency |-> "USD", monthly |-> Int2Rat(25), factor |-> 16, term |-> 1,
                savings |-> Nil, recommendations |-> 0]
Alternatives ==
    {Offer([term |-> 3]), Offer([monthly |-> Int2Rat(15)]), Offer([factor |-> 32]), Offer([type |-> <<"m6g", "large">>, savings |-> 300, recommendations |-> 4]),
     Offer([type |-> <<"m5", "large">>]), Offer([currency |-> "EUR"]), Offer([term |-> 0, factor |-> 0])}
MCReshapeCases ==
    {[ri |-> ri, load |-> load, threshold |-> Int2Rat(80), offered |-> offered, offerings |-> Alternatives] :
        ri \in {Source([count |-> 2]), Source([factor |-> 32, count |-> 3]), Source([type |-> <<"m5", "2xlarge">>, count |-> 1, monthly |-> Zero]),
                Source([class |-> "standard"]), Source([type |-> <<"", "">>]), Source([type |-> <<"m5", "large">>, count |-> 7, term |-> 3])},
        load \in {Zero, Rat(5, 2), Int2Rat(17), Rat(61, 2), Int2Rat(60)},
        offered \in {{}, {<<"m5", "large">>, <<"m5", "2xlarge">>, <<"m5", "whatever">>}, {<<"c5", "large">>}}}

(* Catalogue calls.                                                        *)
Item(changes) ==
    changes @@ [id |-> 1, state |-> "active", type |-> "t", product |-> "mysql", multiAZ |-> TRUE, count |-> 1,
                start |-> 5, days |-> 365, kind |-> "All Upfront", fixed |-> 100, usage |-> 0, charges |-> <<>>,
                currency |-> "USD", class |-> "convertible", tenancy |-> "default", scope |-> "Region",
                zone |-> "", family |-> "", region |-> ""]
PageItems(changes, product) == [n \in DOMAIN changes |-> Item(changes[n] @@ [product |-> product])]
Sold(service) == IF service = "ec2" THEN "Linux/UNIX" ELSE "mysql"
Call(service, op, want, pages) ==
    [service |-> service, op |-> op, honoured |-> TRUE, region |-> "us", plan |-> "", token |-> "k",
     pages |-> [n \in DOMAIN pages |-> PageItems(pages[n], Sold(service))],
     rec |-> want @@ [type |-> "t", term |-> "1yr", payment |-> "all-upfront", engine |-> "MySQL", az |-> "multi-az",
                      platform |-> "Linux/UNIX", tenancy |-> "shared", scope |-> "region", zone |-> "", class |-> "",
                      days |-> 365, approved |-> 200, currency |-> "USD", count |-> 2, plan |-> "Compute",
                      planRegion |-> "", family |-> "", region |-> "us", offering |-> Nil, hourly |-> 2]]
Loose(c) == [c EXCEPT !.honoured = FALSE]
NoWant == [type |-> "t"]

HeldPages ==
    {<< <<[id |-> 1], [id |-> 2, state |-> "retired"]>>, <<[id |-> 3, state |-> "payment-pending", multiAZ |-> Nil]>> >>,
     << <<>>, <<[id |-> 1, state |-> "queued"]>>, <<[id |-> 2, days |-> 0]>> >>,
     << <<[id |-> 1, state |-> "payment-failed", start |-> Nil], [id |-> 2]>> >>}
PlanPages ==
    {<< <<[id |-> 1, state |-> "pending-return"], [id |-> 2, start |-> Nil]>> >>,
     << <<[id |-> 1, state |-> "pending-return"], [id |-> 2, type |-> "u"]>>, <<[id |-> 3, state |-> "returned"], [id |-> Nil]>> >>}
ListCalls ==
    {Call(s, "list", NoWant, pages) :
        s \in {"rds", "elasticache", "memorydb", "opensearch", "redshift", "ec2"}, pages \in HeldPages}
    \cup {Call("redshift", "list", NoWant, << <<[state |-> "pending-payment"]>> >>)}
    \cup {[Call("savingsplans", "list", NoWant, pages) EXCEPT !.plan = plan] :
            plan \in {"", "t"}, pages \in HeldPages \cup PlanPages}
    \cup {Call("ec2", "list", NoWant, << <<[id |-> 1, state |-> "queued-deleted"], [id |-> 2]>> >>)}
    \cup {Call(s, "types", NoWant, pages) :
            s \in {"rds", "elasticache", "memorydb", "redshift", "ec2"},
            pages \in {<< <<[type |-> "t"], [type |-> Nil]>>, <<[type |-> "u"], [type |-> "t"]>> >>,
                       << <<[type |-> "t"]>>, <<>>, <<[type |-> "u"]>> >>}}

Mixed ==
    << <<[id |-> 5, kind |-> "No Upfront", fixed |-> 0, usage |-> 1], [id |-> 4, type |-> "u"], [id |-> 3, days |-> 1095]>>,
       <<[id |-> 2]>> >>
OfferPages ==
    {Mixed,
     << <<[id |-> 2]>>, <<[id |-> 1]>> >>,
     << <<[id |-> 2, fixed |-> 105]>> >>,
     << <<[id |-> 2, fixed |-> Nil, currency |-> ""]>> >>,
     << <<>>, <<>>, <<[id |-> 2]>> >>,
     << <<[id |-> 2, charges |-> <<[frequency |-> "Hourly", amount |-> 1]>>, kind |-> "Partial Upfront"]>>,
        <<[id |-> 3, charges |-> <<[frequency |-> "Monthly", amount |-> 1]>>, tenancy |-> "dedicated"]>> >>,
     << <<[id |-> 2, kind |-> "Regular"], [id |-> 3, kind |-> "odd"]>> >>}
OfferWants ==
    {NoWant, [payment |-> "partial-upfront"], [payment |-> "no-upfront", approved |-> 0], [term |-> "12", approved |-> Nil],
     [engine |-> "oracle-se2", currency |-> "EUR", tenancy |-> "host"], [az |-> "", engine |-> "", zone |-> "z"]}
LookupCalls ==
    {Call(s, op, want, pages) :
        s \in {"rds", "elasticache", "memorydb", "opensearch", "redshift", "ec2"}, op \in {"buy", "quote"},
        want \in OfferWants, pages \in OfferPages}
    \cup {Loose(Call(s, "buy", [engine |-> "mysql"], pages)) : s \in {"rds", "elasticache", "opensearch", "redshift", "ec2"}, pages \in OfferPages}
    \cup {Call("elasticache", op, [engine |-> "mysql"], pages) : op \in {"buy", "quote"}, pages \in OfferPages}
    \cup {Call(s, "quote", NoWant, << <<[kind |-> "Regular", fixed |-> 7, usage |-> 2]>>, <<[kind |-> "Upgradable"]>> >>) : s \in {"redshift"}}

ExchangeCalls ==
    {Call("ec2", op, want @@ [payment |-> IF op = "targets" THEN "all-upfront" ELSE "All Upfront"], pages) :
        op \in {"exchange", "targets"},
        want \in {NoWant, [zone |-> "z", scope |-> "availability-zone"], [days |-> 0]},
        pages \in {Mixed,
                   << <<[id |-> 9, zone |-> "y", scope |-> "Availability Zone"], [id |-> 8, zone |-> "z", scope |-> Nil]>> >>,
                   << <<[id |-> 7, product |-> "Linux/UNIX (Amazon VPC)"]>>, <<[id |-> 6, product |-> Nil]>> >>,
                   << <<[id |-> Nil, product |-> Nil]>>, <<[id |-> 4, class |-> "standard"]>>, <<[id |-> 3, product |-> Nil]>> >>}}

PlanCalls ==
    {[Call("savingsplans", op, want, pages) EXCEPT !.token = token, !.plan = plan] :
        op \in {"buy", "quote"}, token \in {"", "k"}, plan \in {"", "Compute"},
        want \in {NoWant, [payment |-> "partial-upfront"], [plan |-> "EC2Instance", family |-> "m5"],
                  [plan |-> "EC2Instance", planRegion |-> "eu"], [offering |-> Item([id |-> 3])], [region |-> "cn"]},
        pages \in {<< <<[id |-> 3, type |-> "Compute"]>>, <<[id |-> 2, type |-> "Compute"]>> >>,
                   << <<[id |-> 5, type |-> "EC2Instance", family |-> "m5", region |-> "us"],
                        [id |-> 4, type |-> "EC2Instance", family |-> "c5", region |-> "eu"],
                        [id |-> 6, type |-> "EC2Instance", family |-> "m5", region |-> "eu"]>> >>}}
MCCatalogueCalls == ListCalls \cup LookupCalls \cup ExchangeCalls \cup PlanCalls

(* GCP purchases and reads.                                                *)
Cud(changes) ==
    changes @@ [count |-> 2, term |-> "1yr", kind |-> "", machine |-> "n2", memory |-> 2048, payment |-> "monthly"]
MCGcpOrders ==
    {[token |-> token, rec |-> Cud([count |-> 2])] : token \in {"a", ""}}
    \cup {[token |-> "a", rec |-> Cud([count |-> 3])], [token |-> "short", rec |-> Cud([count |-> 1])]}
MCGcpRetry == [attempts |-> 2, base |-> 1, max |-> 2, jitter |-> FALSE]

Op(changes) ==
    changes @@ [commitment |-> TRUE, action |-> "add", path |-> "amount", resource |-> "x", machine |-> "", kind |-> "", value |-> 0]
Part(kind, value) == [kind |-> kind, value |-> value]
RootOp(changes) ==
    Op([path |-> "/", value |-> changes @@ [type |-> "GENERAL_PURPOSE_N2", plan |-> "", resources |-> <<Part("VCPU", 4), Part("MEMORY", 4096)>>]])
Machine(family) == Op([commitment |-> FALSE, machine |-> family])
VCPU(n) == Op([kind |-> "VCPU", value |-> n])
MemoryMB(n) == Op([kind |-> "MEMORY_MB", value |-> n])
Free == [amount |-> 0, currency |-> "", hours |-> 0]
Advised(ops) == [active |-> TRUE, ops |-> ops, cost |-> Free]
Good == Advised(<<Machine("n2"), VCPU(2), MemoryMB(2048)>>)
Contents ==
    {<<RootOp([plan |-> "THIRTY_SIX_MONTH"]), Machine("n2")>>, <<Machine("n1"), RootOp([type |-> ""])>>,
     <<RootOp([plan |-> "SIXTY_MONTH"])>>, <<Op([path |-> "/", value |-> Nil])>>, <<RootOp([type |-> "STORAGE_OPTIMIZED_Z3"])>>,
     <<RootOp([resources |-> <<Part("VCPU", 4), Part("VCPU", 6), Part("MEMORY", 4096)>>])>>,
     <<RootOp([resources |-> <<Part("VCPU", 0), Part("MEMORY", 4096)>>])>>, <<RootOp([resources |-> <<Part("VCPU", 4)>>])>>,
     <<RootOp([resources |-> <<Part("VCPU", 4), Part("LOCAL_SSD", 1)>>])>>, <<RootOp([plan |-> "TWELVE_MONTH"]), VCPU(2)>>,
     <<Machine("n1"), VCPU(2), Op([kind |-> "MEMORY", value |-> 1024])>>, <<Machine("m1"), VCPU(2), VCPU(3), MemoryMB(1024)>>,
     <<VCPU(2), MemoryMB(1024), MemoryMB(2048)>>, <<VCPU(2), Op([kind |-> "MEMORY", resource |-> "y", value |-> 1024])>>,
     <<MemoryMB(1024)>>, <<Op([kind |-> "odd", value |-> 1])>>, <<VCPU(Nil)>>, <<VCPU(MaxExactAmount + 1)>>,
     <<Machine("a2"), VCPU(2), Op([kind |-> "ACCELERATOR", value |-> 1]), MemoryMB(1024)>>, <<>>}
Costed(amount, currency, hours) == [Good EXCEPT !.cost = [amount |-> amount, currency |-> currency, hours |-> hours]]
Raws ==
    {Advised(ops) : ops \in Contents}
    \cup {[Good EXCEPT !.active = FALSE], Costed(-730, "USD", 73), Costed(-5, "EUR", 73), Costed(-5, "USD", 0)}

Sku(changes) ==
    changes @@ [label |-> "n2", term |-> 1, usage |-> "Commit1Yr", ram |-> FALSE, price |-> 3, currency |-> "USD",
                unit |-> IF "ram" \in DOMAIN changes THEN "GiBy.h" ELSE "h"]
N2Skus ==
    {Sku([term |-> 0, usage |-> "OnDemand", price |-> 5]), Sku([term |-> 0, usage |-> "OnDemand", ram |-> TRUE, price |-> 2]),
     Sku([price |-> 3]), Sku([ram |-> TRUE, price |-> 1]), Sku([term |-> 3, usage |-> "Commit3Yr", price |-> 2])}
Read(op) == [op |-> op, skus |-> N2Skus]
Params == [service |-> "", term |-> "", planTerm |-> TRUE]
MCGcpReads ==
    {[params |-> params, regions |-> <<<<raw>>, <<Good, Costed(-5, "EUR", 73)>>>>] @@ Read("advise") :
        raw \in Raws,
        params \in {Params, [Params EXCEPT !.term = "12mo"], [Params EXCEPT !.term = "3yr"], [Params EXCEPT !.term = "5yr"],
                    [Params EXCEPT !.planTerm = FALSE, !.service = "compute"], [Params EXCEPT !.service = "other"]}}
    \cup {[commitments |-> coms] @@ Read("list") :
            coms \in {<<[name |-> "n", start |-> 1, type |-> "t", status |-> status, resources |-> resources]>> :
                        status \in {"ACTIVE", "CREATING", "EXPIRED"},
                        resources \in {<<Part("VCPU", 2), Part("MEMORY", 1)>>, <<Part("VCPU", 2), Part("VCPU", 1)>>, <<Part("MEMORY", 1)>>}}}
    \cup {[types |-> types] @@ Read("types") : types \in {<<"n2">>, <<Nil>>, <<"n2", "n1", "m1">>}}
    \cup {[op |-> "quote", skus |-> skus, rec |-> cud] :
            skus \in {Nil, N2Skus, N2Skus \cup {Sku([usage |-> "Commit3Yr"])}, N2Skus \cup {Sku([price |-> 4])}, N2Skus \cup {Sku([ram |-> TRUE, currency |-> "EUR"])}},
            cud \in {Cud([term |-> "1yr"]), Cud([payment |-> "all-upfront"]), Cud([term |-> "3yr"]), Cud([memory |-> 0])}}

(* Azure exchanges.                                                        *)
Reservation(changes) ==
    changes @@ [id |-> "r1", kind |-> "VirtualMachines", state |-> "Succeeded", flexible |-> TRUE, quantity |-> 2,
                scopeType |-> "Single", scopes |-> {"sub1"}]
MCInventories ==
    {<<<<Reservation([id |-> "r1"]), Reservation([id |-> "r2", scopes |-> {"sub2"}])>>, <<Reservation([id |-> "r3", flexible |-> FALSE])>>>>,
     <<<<Reservation([scopeType |-> "Shared", scopes |-> {}]), Reservation([id |-> "r2", scopeType |-> "Shared"])>>, <<Reservation([id |-> "r3", kind |-> "SqlDatabases"])>>>>,
     <<<<Reservation([scopes |-> {"sub1", "sub2"}]), Reservation([id |-> "r2", scopeType |-> "ManagementGroup"])>>>>,
     <<<<Reservation([quantity |-> 0]), Reservation([id |-> ""])>>, <<Reservation([id |-> "r2", state |-> "Expired"])>>>>}
Wish(changes) == changes @@ [sku |-> "D4", location |-> "eu", billing |-> "b", quantity |-> 1, term |-> "P1Y", plan |-> ""]
MCTargetLists == {<<Wish([plan |-> ""]), Wish([plan |-> "Monthly", term |-> "P3Y"])>>, <<Wish([plan |-> "Weekly"])>>, <<>>}

OneOf(S) == CHOOSE x \in S : TRUE
Machines == {"pipeline", "reshape", "catalogue", "gcp purchase", "gcp read", "azure exchange"}

(* A behaviour is about one machine; the others stay in one initial state. *)
Init ==
    /\ machine \in Machines
    /\ machine = "pipeline" \/ (machine # "pipeline" /\ portfolio = OneOf(Portfolios))
    /\ machine = "reshape" \/ (machine # "reshape" /\ case = OneOf(ReshapeCases))
    /\ machine = "catalogue" \/ (machine # "catalogue" /\ call = OneOf(CatalogueCalls))
    /\ machine = "gcp read" \/ (machine # "gcp read" /\ read = OneOf(GcpReads))
    /\ machine = "azure exchange" \/ (machine # "azure exchange" /\ inventory = OneOf(Inventories))
    /\ PipelineInit /\ ReshapeInit /\ CatalogueInit /\ GcpPurchaseInit /\ GcpReadInit /\ AzureExchangeInit

Next ==
    \/ /\ machine = "pipeline" /\ PipelineNext
       /\ UNCHANGED <<machine, reshapeVars, catalogueVars, gcpVars, gcpReadVars, exchangeVars>>
    \/ /\ machine = "reshape" /\ ReshapeNext
       /\ UNCHANGED <<machine, pipelineVars, catalogueVars, gcpVars, gcpReadVars, exchangeVars>>
    \/ /\ machine = "catalogue" /\ CatalogueNext
       /\ UNCHANGED <<machine, pipelineVars, reshapeVars, gcpVars, gcpReadVars, exchangeVars>>
    \/ /\ machine = "gcp purchase" /\ GcpPurchaseNext
       /\ UNCHANGED <<machine, pipelineVars, reshapeVars, catalogueVars, gcpReadVars, exchangeVars>>
    \/ /\ machine = "gcp read" /\ GcpReadNext
       /\ UNCHANGED <<machine, pipelineVars, reshapeVars, catalogueVars, gcpVars, exchangeVars>>
    \/ /\ machine = "azure exchange" /\ AzureExchangeNext
       /\ UNCHANGED <<machine, pipelineVars, reshapeVars, catalogueVars, gcpVars, gcpReadVars>>

Spec ==
    Init /\ [][Next]_<<machine, pipelineVars, reshapeVars, catalogueVars, gcpVars, gcpReadVars, exchangeVars>>
=============================================================================
