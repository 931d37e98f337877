SPECIFICATION Spec
CONSTANTS Nil = Nil NaN = NaN LookbackHours = 24 MaxStages = 3
Portfolios <- MCPortfolios
Coverages <- MCCoverages
Targets <- MCTargets
PoolSizes <- MCPools
ScoreConfigs <- MCScore
Selections <- MCSel
ReshapeCases <- MCReshapeCases
CatalogueCalls <- MCCatalogueCalls
ListPages = 2 OfferingPages = 2 TargetPages = 2 MaxPlanCalls = 3
Drivers = {d1, d2}
GcpOrders <- MCGcpOrders
GcpRetry <- MCGcpRetry
MaxSeconds = 1 MaxGcpCalls = 3
GcpReads <- MCGcpReads
RegionLimit = 2 MaxCommitments = 2 MaxMachineTypes = 3 MaxExactAmount = 9999
Exchangers = {e1, e2}
Inventories <- MCInventories
TargetLists <- MCTargetLists
InventoryPages = 2 MaxSessions = 2
INVARIANTS PricesFollowCounts NothingVanishes RecentCoverIsSpentOnce ReshapeCarriesTheLoad ReadsAreWhole BoughtAsApproved OnePlanPerToken GcpTokenBuysOne GcpSuccessIsOwn GcpAdviceAccounted AzureExchangeIsAsPriced
CHECK_DEADLOCK FALSE
