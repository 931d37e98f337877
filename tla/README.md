# Verification of cloud-commitments-go

TLA+ specifications of the parts of this library that can spend money twice,
lose track of money spent, or report something that is not so. They are
model-checked with TLC on small instances; the statements that matter most are
proved with TLAPS for every instance. `PROJECT.json` lists the components, the
runs, the mutants that show that each property can fail, the hazards, and the
source lines every definition stands for.

## 1. The system

The library (Go modules `pkg`, `providers/aws`, `providers/azure`,
`providers/gcp`) recommends, buys and exchanges cloud commitments: AWS reserved
instances and savings plans, Azure reservations and GCP committed use
discounts. It keeps no database. What lasts is in three places: the cloud
account (read through an eventually consistent listing), stores and journals
the caller implements, and an append-only audit log.

| component | state | operations | interacts with |
|---|---|---|---|
| Redshift purchase (`services/redshift`) | locals of a call | `PurchaseCommitment`: read the journal, scan, check claims, record, send, rescan, record | AWS listing and purchase API, `AttemptJournal`, `ClaimReader` |
| Attempt journal (`pkg/common/attempt_journal.go`) | one record per execution | `PriorAttempts`, `RecordAttempt`, `ClaimedByOthers` | implemented by the caller, used by Redshift |
| EC2 purchase and reconciliation (`services/ec2`) | locals; tag on the RI | `PurchaseCommitment`, tagging, `ReconcilePurchase` | AWS listing, purchase and tag API, `internal/purchasecfg` |
| RDS, ElastiCache, MemoryDB, OpenSearch purchase | locals; the reservation ID | `PurchaseCommitment`: guard, send, SDK re-sends, recover | AWS listing and purchase API, `internal/purchaseguard` |
| Azure reservation purchase (`reservations/purchase.go`) | locals; marker in the order's name and tags | lookup, calculatePrice, purchase, re-check and retry | Azure reservation API; used by seven service clients |
| RI exchange automation (`pkg/exchange`) | the caller's ledger of exchange records | `RunAutoExchange`: cancel pending, reserve, quote, re-quote, accept, settle | EC2 exchange API, the caller's `Store` |
| Purchase audit log (`pkg/common/audit.go`) | a file, its flock | append a record, probe | other processes with the same log |
| Azure provider (`providers/azure/provider.go`, `accounts_cache.go`) | credential, `sync.Once`, cached subscription list, generation, singleflight | `IsConfigured`, `SetCredential`, `GetAccounts`, `GetServiceClient`, `GetRecommendationsClient`, invalidation | Azure subscriptions API |
| Azure recommendations (`recommendations*.go`, `pkg/concurrency`) | results of a sweep, a shared semaphore | fan-out over subscriptions and services, pricing, two merges | seven readers per subscription |
| Commitment ladder (`pkg/ladder`, `providers/aws/ladder`) | none; tranches in the caller's store | `Allocate`, `BuildTranches`, `GetUsageBaseline`, `GetLayerStates`, purchase and reshape of a layer | Cost Explorer series and rates, the engine that stores and fires tranches |
| Recommendation pipeline (`pkg/recfilter`, `pkg/scorer`, `pkg/common/resize.go`) | the list handed on, the drop summary | filter by selection and pool size, deduplicate, size, score | the account's recent commitments |
| RI reshape analysis (`pkg/exchange/reshape.go`) | none | `AnalyzeReshaping` and its alternatives | what the automation quotes and accepts |
| AWS catalogue reads (all service clients, `internal/offeringprice`) | the pages read so far | list commitments, list types, find an offering, check its price, quote, buy a savings plan | AWS describe APIs, CreateSavingsPlan |
| GCP Compute Engine commitments (`providers/gcp`) | locals; name and request ID from the token | insert, wait, adopt; recommendations of all regions, listings, prices | GCP insert and operations API, recommender, SKU catalogue |
| Azure compute exchange (`services/compute/exchange*.go`) | a session at Azure | list exchangeable, calculate, execute | Azure exchange API |
| Azure savings plans, insurance, registry, AWS Cost Explorer parsers | none or one critical section | | not modelled, section 7 |

`PROJECT.json` "components" names every part, also those left out and why.

What is hard in this code is not the straight path. A purchase request may be
processed although its answer was lost, after the call gave up, or after its
process died. A listing may lag, omit fields, or show someone else's purchase
of the same shape. Two calls of one token, or two runs spending from one daily
cap, may interleave between any two requests. A journal or ledger write may
fail and be stored all the same. The log's writer may die, or the power may
fail, in the middle of a record. A context may be canceled while others wait
for the same answer. A paged read may stop at a cap or an error; a price may
move between its approval and the purchase. A ladder run plans next to tranches
that have not fired yet. The hazards in `PROJECT.json` name the lines.

## 2. How the modules are written

One module per component; its variables are the locals that survive a request
and the state of the outside world; one action per step between two requests,
covering everything the code does in between. Every request to a provider or a
store is a step of its own, its answer another, and the world processes the
request in a third, so that answers can be lost or late. Amounts, names, IDs
and times are members of small sets or small integers. A definition whose name
begins with `Mutant` is a plausible bug of the definition after it and is used
by no specification.

The code asks things of its callers in its comments (for example that a token
is re-driven only after its call ended). Where a property needs that, the
module has a rigid variable (`contract`, `world`, `params`), chosen in `Init`
and never changed; the property is conditioned on it and the other properties
are checked with and without the contract in the same run.

Bounds are constants or guards: `MaxTime`, `MaxAttempts`, `MaxLedgerAttempts`,
`TagAttempts`, `MaxLosses`, `MaxGen`, `MaxDay`, `MaxRuns`, `MaxStages`,
`MaxPlanCalls`, `MaxSeconds`, `MaxGcpCalls`, `MaxSessions`, and the sizes of
the sets. Floats are exact rationals (`Rationals`), or whole cents in the
catalogue; that rounding of IEEE doubles is left out. Calls,
executions and runs are used once each, so that a behaviour ends;
`CHECK_DEADLOCK FALSE` in the configurations says that a system whose calls
have all returned may stop.

### AtMostOncePurchase
The promise of every tokenized purchase: a token has at most one live
commitment at a time, and none is reported for two tokens. RedshiftPurchase,
EC2Purchase and CallerIdPurchase are shown to implement it (`BuysAtMostOnce`,
a refinement mapping that TLC checks on the runs' instances and section 5 proves
for all). The Azure module states the same as `TokenOwnsOne`.

### RedshiftPurchase, RedshiftProofs
`providers/aws/services/redshift/{client,dedupe}.go` and the journal interface.
`pc` follows guardBeforePurchase, the send and the recovery after it:
`Dispatch`, `ReadPriors`, `AdoptRecorded`, `Scan`, `CheckClaims`,
`CheckApprovedUpfront`, `RecordSending`, `Send`, `Await`, `Rescan`,
`RecheckClaims`, `RecordPurchased`, `RecordUnknown`, and `Crash` between any
two. AWS is `Provision` (with its own clock, off by the skew), `Reject`, `List`
and `Lapse`. A journal write that reports an error may have been stored
(`NotDurable`). The caller contract (`MayDispatch`) is the one documented on
findMatchingNodes and AttemptJournal: a token is re-driven when its calls ended
and what they bought is listed, and no two open tokens buy the same offering and
node count. A token stands for one purchase, so its calls ask for one count
(`CountOf`); what a re-drive with another count would do is outside the model
(the scan does not match the earlier node, and refuseUnresolvedPriors,
dedupe.go:327, compares offerings only). A listing may leave out a node's
offering, count or start (`OmitsOffering`, `OmitsCount`, `OmitsStart`), and the
code then takes the node for a match (dedupe.go:41-42, "fail closed"). With such
a listing the rule for tokens of one offering and count is not enough: a call of
another offering can adopt and record a node that this token bought and did not
record, this token's re-drive then excludes the node as claimed by another, and
buys again. The rule is there because matching nodes must not be shared, so the
model's contract is about lineages the listing may confuse (`Confusable`), and
lets one token be open at a time where both offering and count may be left out.
TLC also checks callers that break it: then `ExecutionSendsOnce` and
`EveryBuyIsRecorded` still hold, `TokenOwnsOne` is not claimed.

### EC2Purchase, EC2Proofs
`services/ec2/client.go`, `reconcile.go`, `reconcile_match.go` and
`internal/purchasecfg`. AWS offers neither a client token nor a chosen ID; the
RI is tagged after it was bought. The model has the tag lookup, the
classification of errors into known and unknown outcomes, the retried tagging,
and `Reconcile` at any time after a call ended, with the window, the clock
slack, omitted fields and `Decide`.

### CallerIdPurchase, CallerIdProofs
The four services whose reservation ID is derived from the token. AWS rejects a
second live reservation of one ID, which is what the promise rests on; nothing
is asked of the caller. The SDK may re-send a request (`tries`), only with a
token. Calls without a token use a fresh or a caller-given ID, send once and
must mark an unknown outcome.

### AzurePurchase, AzurePurchaseProofs
`services/internal/reservations/purchase.go`: guard lookup, `calculatePrice`,
purchase, classification, wait, re-check and retry. Every attempt mints a new
order, so one call can buy twice unless the re-check sees the first. Three
worlds: `contract` (the caller waits, the listing is current), `racing` and
`nameless` (orders may be listed without a name, tags are not kept).

### AutoExchange, AutoExchangeProofs
`pkg/exchange/{auto,exchange,outcome}.go`: modes, dry run, cancellation of
stale pending records, the atomic reservation of the daily cap, both quotes,
the accept, its settlement with retries, and the stop after an outcome in
doubt. A behaviour has one parameter set for its runs (`params`). Two runs of
one origin do not overlap (the scheduler's contract); a standalone and a ladder
run do.

### AuditLog (proofs in MachineProofs)
`pkg/common/audit*.go`: open, lock (`Lock`, `Retry`: tried without blocking
until the deadline, which the clock reaches at any time, `Deadline`), sync of
the parent directories, repair of an abandoned tail, write, sync, terminate
after a short write, unlock, close; `Kill` at any step and `PowerLoss`, which
keeps any prefix of the file beyond the synced one, and takes the file if its
directory entry was not synced. A record is three symbols: a head, a tail and a
newline. A process that is not `Live` may stop for good anywhere, with the lock
too.

### AzureAccounts, AzureSweep, AzureCollection (with AzureScope), AzureCollectionProofs
AzureAccounts: `IsConfigured` with its `sync.Once`, the accounts cache with
generation and singleflight key, the retry of a caller whose leader was
canceled, and the scope that GetServiceClient and GetRecommendationsClient
choose. AzureSweep: GetRecommendations over one or several subscriptions, the
services of a subscription, a semaphore slot around every outbound call,
pricing, mergeServiceResults and mergeSubscriptionResults. AzureCollection
composes them: a client that a caller got sweeps the scope it was given. The
client never goes back to the provider, so the sweep starts once the callers
are done and the provider's state is forgotten (this only saves states).

### Ladder, AwsLadder, LadderRuns (with Rationals, Absent; proofs in AmountProofs)
Ladder is `pkg/ladder`: validation, netting of what expires, the gap for a total
and a residual baseline, the split into buffer, base and flex layers, both
guardrails, holds with their reasons, reshapes, and the tranches of a ramp with
the rounding of each step. AwsLadder is the adapter: coverage and freshness of
the usage series and its percentile, layer states, observed rates, the sizing of
a savings plan purchase (four decimals, a minimum) and the summary of a buffer
reshape. LadderRuns drives them over days. The engine that calls the library is
not in the repository; it is modelled from what AllocationInput, Tranche and
BaselineBasis ask of it: it passes scheduled tranches with their stored rates,
converts layer states with the observed rates and, with a residual baseline,
also passes the commitments the series does not reflect yet. A setting (source
of the series, demand, configuration, held RIs, utilization report, error of the
Compute SP quote) is rigid. A quote need not be what a commitment costs per
on-demand dollar of this demand: the Compute SP rate is a blend over the
account's services and regions, and commitment_rates.go:41-46 says that a
regional EC2 gap the run "can over-buy by r_blend/r_EC2. Accepted by the owner",
bounded only by MaxHourlyCommitPerRun. The model keeps both: plans are made at
quoted rates, and what commitments cover is counted at true ones (`TrueRate`, off
by the setting's `blend`).
Rationals are in lowest terms, as `big.Rat` keeps
them, so that equal amounts are equal values; a value that is not there
(`Absent`) is no number.

### Names, Dedupe, RecFilter (proofs in AmountProofs)
The stages between collection and purchase, as actions in any order, because
the caller chooses it: Filters by region, type, engine and pool size,
AdjustRecommendationsForExisting, ApplyCoverage, ApplyTargetCoverage, the
scorer. A stage judges every recommendation (`Judged`), and those that stay keep
their order (`Kept`, the loops' appends). ResizeCount refuses a count that is
not smaller and positive (`CanResize`); the deduplication then fails as a whole.
`Score` is the set of the orders sort.Slice may answer: it is not stable, so
equal scores may come either way round. Dedupe has the exact match, the
size-flexible families of EC2 and RDS (Multi-AZ counts twice), the Redis/Valkey
ratio, scopes, platforms and the GCP accounts. Names holds the normalizations
all modules share.

### Reshape (proofs in AmountProofs)
AnalyzeReshaping for one RI, repeated: the RI is exchanged for what was
suggested and analysed again under the same load.

### Catalogue (proofs in MachineProofs)
What the seven AWS clients read before they buy. A call is one of list, types,
buy, quote, exchange (FindConvertibleOffering) and targets
(ListTargetOfferings); a step reads one page, fails or gives up. AWS may honour
the filters of a request or return more (`honoured`), and a price that is read
again may have moved (`Reread`). CreateSavingsPlan is repeated with its client
token, and its answer may be lost. ElastiCache compares no approved price, and
the property says so. What a listing keeps is a set (`listed`): its order is
left out. Page caps are scaled: 50 and 100 to `ListPages` = 2, 5 to
`OfferingPages` = 2, 10 to `TargetPages` = 2.

### Retry, GcpPurchase, GcpAdvice (proofs in MachineProofs)
PurchaseCommitment of the Compute Engine client by concurrent drivers: the
request is built (name and request ID from the token, or a name from the second
of the clock), inserted with retries, its operation awaited, and on a name
conflict the commitment under the name is adopted if plan, type and amounts are
those asked for. GCP may lose answers, forget request IDs, and give up a
creation. Two things the code does that the properties do not rule out: an
adopted commitment is not waited for and its status is not looked at; and a
request ID GCP remembers is answered with the earlier operation whatever the
body, so that a call that was resized and awaited reports what was bought first.
GcpAdvice reads recommendations region by region with a limit, one skip log for
all; a failed region only shows in the log unless all fail. What a region
returns is a set, the order of the merge is left out. It also has listing,
machine types (the cap is met before the end of the list) and quotes.

### AzureExchange (proofs in MachineProofs)
ListExchangeableReservations, CalculateExchange and ExecuteExchange of the
compute client, by concurrent callers over an inventory with mixed scopes that
changes at any time, also between a listing and the exchange of what it listed.
An answer of Azure is assumed to carry an accepted status, or none, only when
the exchange was carried out.

## 3. Runs

| run | shows |
|---|---|
| `redshift_purchase` | Two instances, chosen at the start. Two executions of one token, journal or not, contract or not, crashes, late processing, lag, skew, omitted fields, a changed offering: a token owns one node under the contract; with a journal an execution sends once and every node is covered by a record. Three calls of two tokens with overlapping windows and a claim reader: every success is recorded, and the client implements AtMostOncePurchase, so that no node is reported for both. |
| `ec2_purchase` | Two calls of equal attributes with two tokens or none. An unmarked error bought nothing; a reconciliation that says Found passes over no own RI. Implements AtMostOncePurchase under the contract. |
| `ec2_reconcile` | Violation, finding 2. |
| `callerid_purchase` | Two concurrent calls, re-sends, colliding IDs, retirements. Implements AtMostOncePurchase without a contract; a token owns one reservation; without a token an unmarked error bought nothing. |
| `azure_purchase` | Two calls of a token or none, retries that committed. One order per token under the contract; a currency refusal alone means nothing was bought, in the racing and the nameless world too. |
| `azure_unmarked` | Violation, finding 1. |
| `exchange` | Two runs over two RIs. The money stays within the daily cap; the ledger counts every exchange that took place or still can; a run leaves one exchange in doubt at most; one pending record per RI and origin. |
| `auditlog` | Two processes, two power losses. Records never merge, a success is durable, the lock is released, and a live call returns although the other may hold the lock for ever. |
| `azure_collection` | Three callers and a sweep of two subscriptions with one slot. No list from before an invalidation is served after it; a canceled leader does not fail those who joined it; slots bound the calls; every subscription asked for and every skipped row shows in the report, and one whose services all failed is not reported as data. |
| `ladder` | Three runs over three days in thirteen settings: a dip in usage, missing days, total, residual and AWS series, quotes that change or are missing, a quote that is half too high for the demand, an RI that is used, unused or expiring, a layer that holds two rates, tranches that fire, fail, are truncated and overlap with the next run. What is kept and planned stays within the target, times the error of a rate in use; cap and action limit bound each run; the gap is bought or held with a reason; tranches add up to the allocation. |
| `ladder_basis` | Violation, finding 3. |
| `machines` | One of six machines, chosen at the start (`machine`). *pipeline*: three stages of any kind on six portfolios; money follows counts, nothing vanishes unreported, recent cover is spent once. *reshape*: however often, the load is carried and every suggestion is one AWS takes. *catalogue*: a read that is returned is whole; what is bought is of the approved kind and price; one token buys one savings plan. *gcp purchase*: one commitment per token, and a success is the caller's. *gcp read*: every active recommendation is returned or named. *azure exchange*: what is exchanged was priced in dollars, of flexible sources, with their scope. |

**Why the bounds are enough.** The hazards are races of two: two calls of a
token, an attempt and its retry, a run and a concurrent run, a writer and the
next. Two of each give every order of their steps; a third appears where the
property needs one (a second token next to a re-driven one; a caller joining a
request whose leader and next leader are both canceled). Two attempts reach the
first retry and the limit. Time has as many values as the window has edges. A
third symbol in an audit record gives a place to be cut in the middle of the
text and one before the newline. Two pages and a third give a cap that is met
with and without pages left. Three stages are enough for a recommendation to be
sized, deduplicated and sized again. Three ladder runs and a third day give a
run that plans next to tranches not yet fired, one after a commitment expired,
and one that plans while a layer holds Savings Plans of two rates.
The portfolios, calls, recommendations and inventories of `MCMachines` are
listed there; each has a member for every branch of the operators it feeds.
Symmetry is used only in runs without
liveness, over interchangeable calls, tokens and executions.

**Fairness.** `CallsReturn` (audit log) assumes weak fairness of the steps of a
live call and of its clock (`FairSpec`): its process goes on, its system calls
return with an answer or an error, and time passes. Nothing is assumed of the
other processes, one of which may hold the lock for ever, nor of who gets the
lock: every attempt may fail or be interrupted. What ends the loop is the
deadline, which the property would miss if it were set anew for each attempt.
Unlock repeats an interrupted flock(LOCK_UN) without a bound
(audit_lock_flock.go:74-82); an interruption changes nothing, and that the
release is not interrupted for ever is assumed: the code has nothing to end it.

## 4. Findings

1. `azure_unmarked` — the documentation of ErrOutcomeUnknown says that it marks
   a purchase whose request may have reached the provider. The Azure flow marks
   errors from the second attempt on; a first attempt whose answer is lost
   returns an unmarked error, and the order may exist.
2. `ec2_reconcile` — reconciliation says Found only without doubt. A purchase
   that never landed is reported Found with the RI another token has bought and
   not yet tagged.
3. `ladder_basis` — BaselineBasis says that an empty basis is all demand,
   covered or not, and that subtracting commitments from a series that already
   excludes them can claim the target met while usage is uncovered. The AWS
   adapter takes its series from on-demand usage only, which is what commitments
   left uncovered, and returns a baseline with an empty basis; a run then
   reports exactly that.

More divergences met while reading, without a run: publishCredential says that
no list of a previous credential can be cached, but IsConfigured installs the
ambient credential without looking again and overwrites a SetCredential in
between; recommendations.go leaves savings plans out of the all-failed guard as
a stub that never fails, but its client makes real calls; the
single-subscription Azure client ignores `AccountFilter`, which the comment of
selectSubscriptions says the Azure path must honour; and getOrFetchAccounts says
its retry is made "as leader", while it may join another leader, so that two
cancellations of others fail a live caller. `OutlivesOneCancellation` states the
bound that holds.

## 5. Proofs

A theorem holds for every value of its module's constants that satisfies the
named `ASSUME`s there: any number of calls, tokens, runs, callers, pages. What
these ask is that the sentinel names differ from the values, that counts are
natural numbers, and that the sets whose members are counted or summed over (EC2
calls, callers of the accounts cache, subscriptions, services, exchange runs and
RIs) are finite. Of the AWS reads they ask that an item is in a state its
service has (`Reported`), of the GCP ones that a page is a sequence of rows and
what a row lists is a list. What `OfferAssumption`, `ReshapeAssumption`,
`LadderAssumption` and `FilterAssumption` ask is said below. An assumption
beyond these stands in the theorem. Hardly any of the properties is inductive by
itself; every module states the inductive invariant its theorems are proved
from.

**RedshiftProofs.** All from `PurchaseInv`.
- `SendsOnce`, `BuysAreRecorded`, for any caller: neither says where the right
  to send comes from. `JournalInv` does: a call at or past the send is covered
  by its execution's record under its offering (`CoveredSender`), the execution
  has no other such call (`OneSender`), only a call that sent owns a node
  (`BoughtBySender`). The journal never loses a record nor changes its offering
  (`WriteGrows`).
- `SuccessIsDurable`, for any caller: a purchased record is final (`Lasting`),
  so the prior a call read is still what the journal says (`Recorded`).
- `OwnsOne`, under the contract: when a call runs, the earlier calls of its
  token have ended and what they bought is listed (`Alone`), the journal told it
  of each that sent (`KnowsSends`), the scan found each node (`FoundEarlier`),
  so one that may send has seen that the token owns nothing (`ClearToSend`).
- `ImplementsPromise` also needs that no node is recorded for two tokens, nor
  about to be (`OneName`). That takes a journal that can be asked for claims:
  the theorem assumes `ClaimReader`.

**EC2Proofs.** `TypeCorrect`; `UnmarkedIsSafe`, from what each place in the call
implies (`Stage`); `ImplementsPromise`, from what the documented caller brings
about: a call runs only when the others of its token are settled, and no two of
them can have or get an RI at once (`Exclusive`). `FoundIsComplete` is an action
property about the moment a reconciliation says Found. It assumes `Drift <=
ClockSkew`: AWS stamps an RI at most the slack before the dispatch, as the code
takes for granted (without it the window can miss the RI).

**CallerIdProofs.** `TypeCorrect`, `OwnsOne`, `UnmarkedIsSafe` and
`ImplementsPromise` without a contract: requests not yet counted do not exist
(`UnsentIsNone`), a token's calls, and no others, send the ID derived from it
(`DerivedID`, `OwnID`), and AWS has one live reservation per ID (`UniqueID`).

**AzurePurchaseProofs.** `TypeCorrect`; `CurrencyIsSafe`, since a refusal ends
the first attempt before anything was sent (`Unsent`, `Currency`); `OwnsOne`
under the contract, for any number of attempts that committed: the only request
of a token under way is the one its only running call waits for (`OnlyRequest`),
and none is under way or exists when a call goes on to purchase (`ClearToBuy`).

**AutoExchangeProofs.** `TypeCorrect`. `LedgerCovers`, assuming that AWS charges
what it quoted last (`PriceHolds`): per run at most one current RI, nothing
accepted for an RI still to come, the reservation for the ceiling until the
outcome is known. `OneInDoubt`: only the recommendation whose accept the run
waits for or settles may be in doubt (`DoubtInv`). `OnePending`: a run past its
cancellation has the only pending records of its origin (`Cleared`), because
runs of one origin do not overlap. `DailyCapHolds`, again from `PriceHolds`:
what the ledger counts (`Counted`: completed payments and reservations) is
within the cap (`Capped`), since no step but the reservation, which checks the
cap under the lock, makes it count more (`NextCapped`), and by `LedgerCovers`
what was paid is at most what is counted. The two are sums over the ledger;
`SumGrows` and `SumChanges` say how a sum moves with its terms, proved by
induction on the number of records (`NatStep`, first-order: the least
counterexample).

**AzureCollectionProofs.** `TypeCorrect`. `ServedFresh`: what is cached is of
the current generation (`CacheInv`) and what a caller holds is no older than the
key it flies under, which is no older than its own start (`CallerInv`).
`OutlivesCancellation`: a canceled leader never leads again (`Spent`), so the
second cancellation a caller inherits is another leader's (`CancelInv`).
`SlotsBound`, `ReportAccounts`: a subscription that ended has no open call and
was merged from its calls, or the sweep was aborted (`SubInv`).

**MachineProofs.** The audit log, and machines of the `machines` run, which
never runs two in one behaviour; each theorem is about one component's
specification.
- `TypeCorrect`, `NeverMerge`, `SuccessSurvives`, `LockReleased` (AuditLog):
  only the holder is inside the transaction (`Held`), a writer past the repair
  finds a complete line before it (`CleanTail`), and where each call's record is
  by its place (`Durability`).
- `TokenBuysOne`, `SuccessIsOwn` (GcpPurchase): names and request IDs come from
  the token (`CudsInv`, `NameTellsToken`), and no later call can report as its
  own what a call without a token reported (`SuccessInv`).
- `AdviceIsWhole` (GcpAdvice): `AllAccounted`, the half of `GcpAdviceAccounted`
  about the fan-out. What a region has read so far it returns or has named
  (`Accounted`), for any number of regions and rows. `AdviceIsAccounted` is the
  whole of it: what is returned also carries the amounts, plan and type of the
  row it was converted from, whatever operations that row lists.
- `TokenBuysOnePlan` (Catalogue): every plan there is has the token of the call,
  though its answer was lost (`PlanInv`).
- `ListingsAreWhole` (Catalogue): what a listing keeps is whole for the pages
  read (`Whole`), and it returns after the last only (`ListingInv`). That each
  client's own filter keeps what the account still holds (`ReservationsHeld`,
  `LiveHeld`) rests on the states AWS reports.
- `PurchasesAreApproved` (Catalogue): what a client buys or quotes is the first
  hit of the pages read, has the shape asked for and passed the price check with
  the price that is paid, and the parts of a quote add up, for any catalogue.
- `ExchangedAsPriced` (AzureExchange): a session keeps the sources it was
  checked with, and only one priced in dollars is handed to a caller
  (`ExchangeInv`).

`OfferAssumption` says what `PurchasesAreApproved` takes from AWS. Offerings
have a term of one or three years. A Redshift offering is paid for by one hourly
charge or by a usage price, not both: `offeringRecurringRate` takes the first
charge and `Price` the sum of all, or the usage price when that sum is zero, and
the two differ where there are several. MemoryDB's offerings are those that
AWS's filter lets through, since its client compares less than the others. Half
of a plan's hourly commitment is a whole unit of the model's money.

**AmountProofs.** What is computed with exact amounts. Its first part is the
arithmetic of `Rationals`, proved once: results are in lowest terms, two forms
of an amount are one value (`RatEq`), the order is total, sums and products
associate and distribute. What a sum over a set is follows from how it changes
with one member (`PartTakes`), by an induction that is first-order: a set of
numbers that has 0 and every successor is Nat (`UpFromZero`, `FiniteInduct`).
- `ReshapedCarriesTheLoad` (Reshape): what is held carries the load after the
  first round, and a pending advice would carry it too (`ReshapeInv`), because
  `CeilDiv` rounds up. That a target is smaller than what it replaces follows
  from a threshold of 100 % at most: an RI is only advised away below it.
- `RunsAreLimited`, `NoDollarIsDropped`, `TranchesBuyThePlan` (LadderRuns): from
  `LadderInv`, which says of the account that stored tranches and plans have
  amounts that are not negative and rates above zero (`AccountOK`), and of the
  last plan that it is limited and accounted for (`PlanOK`). That an allocation
  is both is proved as the code makes it: split into layers, cap, action limit,
  each a lemma about one step. The tranches of a layer add up because the last
  rung takes what the earlier ones left.
- `NoneVanishes`, `PricesKeepPace` (RecFilter): from `FilterInv`. Each
  recommendation left stands for one that was collected, no two for the same,
  and its money over its count, or over a plan's hourly commitment, is what it
  was then (`Tracks`); those left, those returned as filtered and those counted
  as dropped make the number collected (`AllThere`). The stages are any of the
  six, in any order and number, over any list.

`ReshapeAssumption`, `LadderAssumption` and `FilterAssumption` type what is
given: counts are whole numbers, amounts are in lowest terms or absent, lists
are lists; for the ladder prices, fees and usage are not negative and a rate
that was paid, and the ratio of a quote to the true rate, are above zero; for
the reshape a count, a factor and the load are not negative and the threshold is
100 % at most. Configurations and sizing targets may be invalid: the code's own
validation is part of the model.

**Only model-checked.** Of the safety properties two. `OverBuysByRateErrorOnly`
says that a plan exceeds the target by the largest ratio of a rate in use to the
true one at most. The bound is needed twice: for a Compute SP quote above the
demand's own rate, which the code accepts, and because a run nets a layer of two
rates at their average, while the commitments that outlast the horizon may be
those of the lower rate. It is not claimed for all constants: the usage series
lags what is bought, and a low-water mark need not grow with what is covered.
`RecentCoverIsSpentOnce` is about three nested folds over sequences, which the
provers cannot unfold. Beyond these: the liveness of `CallsReturn`. Out of the
prover's reach are liveness under fairness and ENABLED; the library's induction
theorems, whose operator parameters it cannot instantiate (hence what a fold or
a recursive definition computes for every input, but for the sums that the
lemmas above treat member by member); and modules with RECURSIVE operators,
which the modules with theorems do without. No run checks a type invariant:
`TypeCorrect` proves it for the modules above that state one.

## 6. Assumptions about the outside

- AWS: a Redshift or EC2 purchase sent once takes effect at most once; a
  caller-chosen reservation ID is unique among live reservations; a listing is
  complete once read to its last page (page caps and failures are modelled as
  failures) but may lag; CreateSavingsPlan honours its client token. Azure: an
  order ID is used once. GCP: a commitment name is unique while the commitment
  exists, and a request ID it remembers is answered with the earlier operation.
- The journal and the exchange store are linearizable, and a write that returned
  an error may or may not be stored.
- The kernel releases a flock when its process dies; fsync makes durable.
- Clocks differ by no more than the slack the code allows for.

## 7. Not modelled

Transport, logging, rendering, conversions of provider rows and test tooling:
they keep no state, or fail in the way the models' failing calls do. In the
purchase modules an offering is a choice of one or a failure; Catalogue models
the search. The audit log's protection against a path replaced by someone else
is left out; its binding of the parents is a step that succeeds or fails. The
Azure service clients other than compute build request bodies for the flow
AzurePurchase models. The AWS Cost Explorer parsers and rate limiter, the
insurance quotes and the provider registry are functions or single critical
sections with no question of their own. Rounding of floats is left out wherever
rationals stand for them.

## 8. Plan

Done: purchase clients and their promise (Redshift, EC2, caller-ID, Azure, GCP,
AWS Savings Plans); RI exchange automation; audit log; Azure provider and
recommendations; ladder and its AWS adapter; recommendation pipeline; reshape;
AWS catalogue reads; GCP recommendations; Azure exchange; theorems for all but
two of the safety properties. Left, in this order:

1. A theorem for `RecentCoverIsSpentOnce`, which needs the deduplication stated
   without folds, for instance by what each recommendation is given.
2. The conditions on series under which `OverBuysByRateErrorOnly` holds for
   every setting, and the theorem under them.
3. The rate limiter and the retried fetches of the AWS recommendations; Azure
   savings plans.
