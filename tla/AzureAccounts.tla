---------------------------- MODULE AzureAccounts ----------------------------
(***************************************************************************)
(* The Azure provider's credential and subscription list                   *)
(* (providers/azure: provider.go, accounts_cache.go).                      *)
(*                                                                         *)
(* Concurrent callers resolve the subscriptions of the installed           *)
(* credential through a cache that is filled by one shared request per     *)
(* cache generation, while other goroutines install a credential, inject a *)
(* subscriptions client or invalidate the cache, and while callers' own    *)
(* contexts are canceled.  A step of a caller is what it does under one    *)
(* lock, or one call that leaves the process.                              *)
(***************************************************************************)
EXTENDS AzureScope, Naturals, FiniteSets

CONSTANTS
    Callers,
    Op,             \* what each caller calls: "accounts" (GetAccounts), "service"
                    \* (GetServiceClient, GetRegions) or "recs" (GetRecommendationsClient)
    Credentials,    \* what SetCredential may install
    Ambient,        \* the credential NewDefaultAzureCredential finds
    Clients,        \* subscriptions clients SetSubscriptionsClient may inject
    Visible,        \* the subscriptions each credential or injected client lists
    Configs,        \* configurations of the provider
    None,
    MaxGen          \* bound on the cache generations

Sources == Credentials \cup {Ambient} \cup Clients

ASSUME AccountsAssumption ==
    /\ IsFiniteSet(Callers)
    /\ Op \in [Callers -> {"accounts", "service", "recs"}]
    /\ None \notin Sources \cup Subscriptions \cup Callers
    /\ Visible \in [Sources -> SUBSET Subscriptions]
    /\ Configs \subseteq [pinned : Subscriptions \cup {None}, env : Subscriptions \cup {None},
                          cred : Credentials \cup {None}]
    /\ MaxGen \in Nat

VARIABLES
    config,     \* Config: the pinned subscription, AZURE_SUBSCRIPTION_ID, the credential
    cred,       \* the installed credential
    once,       \* credOnce and credErr
    injected,   \* subscriptionsClient
    cache,      \* cachedAccounts: where the list came from, and when
    gen,        \* accountsGen
    flight,     \* accountsSF: the leader of the request in flight for a generation
    at,         \* where each caller is
    started,    \* the generation when the call started
    mine,       \* the generation the caller took its singleflight key from
    got,        \* the list or the error a caller holds
    retried,    \* whether the caller is in its second attempt
    canceled,   \* whether the caller's context is canceled
    result      \* what the call returned

provider == <<cred, once, injected, cache, gen, flight>>
locals == <<started, mine, got, retried>>
accountsVars == <<config, provider, at, locals, canceled, result>>

Locations == {"start", "once", "resolve", "install", "read", "generation", "do", "wait",
              "recheck", "snapshot", "fetch", "publish", "deliver", "handle", "choose", "done"}

(* A subscription list, or an error, with the source it was asked from and *)
(* the generation of that moment.                                          *)
Outcomes == [kind : {"none", "list", "ctx", "error"}, source : Sources \cup {None}, gen : 0..MaxGen]
Nothing == [kind |-> "none", source |-> None, gen |-> 0]
Error(kind) == [kind |-> kind, source |-> None, gen |-> 0]

Results == [kind : {"none", "error", "ctx", "list", "client"}, subs : SUBSET Subscriptions,
            cred : Sources \cup {None}]
NoResult == [kind |-> "none", subs |-> {}, cred |-> None]

Generations == 0..MaxGen

-----------------------------------------------------------------------------
Goto(c, l) == at' = [at EXCEPT ![c] = l] /\ UNCHANGED result

(* The call returns and its locals go out of scope.                        *)
Return(c, kind, subs, withCred) ==
    /\ at' = [at EXCEPT ![c] = "done"]
    /\ result' = [result EXCEPT ![c] = [kind |-> kind, subs |-> subs, cred |-> withCred]]
    /\ started' = [started EXCEPT ![c] = 0]
    /\ mine' = [mine EXCEPT ![c] = 0]
    /\ got' = [got EXCEPT ![c] = Nothing]
    /\ retried' = [retried EXCEPT ![c] = FALSE]

(* credentialAndSubscriptionsClient: whom a fetch asks.                    *)
Source == IF injected # None THEN injected ELSE cred

(* A pinned subscription needs no list.                                    *)
AfterConfigured(c) ==
    Goto(c, IF Op[c] # "accounts" /\ config.pinned # None THEN "choose" ELSE "read")

(* IsConfigured: an installed credential skips the sync.Once.              *)
CheckConfigured(c) ==
    /\ at[c] = "start"
    /\ started' = [started EXCEPT ![c] = gen]
    /\ IF cred # None THEN AfterConfigured(c) ELSE Goto(c, "once")
    /\ UNCHANGED <<config, provider, mine, got, retried, canceled>>

(* credOnce.Do: one caller resolves the ambient credential, the others     *)
(* wait for it, and a failure is remembered.                               *)
EnterOnce(c) ==
    /\ at[c] = "once"
    /\ \/ once = "new" /\ once' = "running" /\ Goto(c, "resolve") /\ UNCHANGED locals
       \/ once = "failed" /\ Return(c, "error", {}, None) /\ UNCHANGED once
       \/ once = "ok" /\ AfterConfigured(c) /\ UNCHANGED <<once, locals>>
    /\ UNCHANGED <<config, cred, injected, cache, gen, flight, canceled>>

ResolveAmbient(c) ==
    /\ at[c] = "resolve"
    /\ \/ Goto(c, "install") /\ UNCHANGED <<once, locals>>
       \/ once' = "failed" /\ Return(c, "error", {}, None)
    /\ UNCHANGED <<config, cred, injected, cache, gen, flight, canceled>>

(* publishCredential does not invalidate the list.                         *)
PublishCredential(c) ==
    /\ at[c] = "install"
    /\ cred' = Ambient /\ once' = "ok"
    /\ AfterConfigured(c)
    /\ UNCHANGED <<config, injected, cache, gen, flight, locals, canceled>>

(* getOrFetchAccounts: the fast path. *)
ReadCachedAccounts(c) ==
    /\ at[c] = "read"
    /\ IF cache.kind = "list"
       THEN got' = [got EXCEPT ![c] = cache] /\ Goto(c, "choose")
       ELSE Goto(c, "generation") /\ UNCHANGED got
    /\ UNCHANGED <<config, provider, started, mine, retried, canceled>>

ReadGeneration(c) ==
    /\ at[c] = "generation"
    /\ mine' = [mine EXCEPT ![c] = gen]
    /\ Goto(c, "do")
    /\ UNCHANGED <<config, provider, started, got, retried, canceled>>

(* Mutant: one key for all generations. *)
MutantOneKey(g) == 0

(* accountsSFKey prints the generation: distinct keys for distinct ones.    *)
AccountsSFKey(g) == g

(* singleflight Do: lead the request for the key, or wait for its leader.  *)
Do(c) ==
    /\ at[c] = "do"
    /\ IF flight[AccountsSFKey(mine[c])] = None
       THEN flight' = [flight EXCEPT ![AccountsSFKey(mine[c])] = c] /\ Goto(c, "recheck")
       ELSE Goto(c, "wait") /\ UNCHANGED flight
    /\ UNCHANGED <<config, cred, once, injected, cache, gen, locals, canceled>>

Recheck(c) ==
    /\ at[c] = "recheck"
    /\ IF cache.kind = "list"
       THEN got' = [got EXCEPT ![c] = cache] /\ Goto(c, "deliver")
       ELSE Goto(c, "snapshot") /\ UNCHANGED got
    /\ UNCHANGED <<config, provider, started, mine, retried, canceled>>

Snapshot(c) ==
    /\ at[c] = "snapshot"
    /\ got' = [got EXCEPT ![c] = [kind |-> "list", source |-> Source, gen |-> gen]]
    /\ Goto(c, "fetch")
    /\ UNCHANGED <<config, provider, started, mine, retried, canceled>>

(* fetchAccounts: the pages of subscriptions.List under the leader's       *)
(* context.                                                                *)
FetchAccounts(c) ==
    /\ at[c] = "fetch"
    /\ \/ Goto(c, "publish") /\ UNCHANGED got
       \/ got' = [got EXCEPT ![c] = Error("error")] /\ Goto(c, "deliver")
       \/ canceled[c] /\ got' = [got EXCEPT ![c] = Error("ctx")] /\ Goto(c, "deliver")
    /\ UNCHANGED <<config, provider, started, mine, retried, canceled>>

(* A generation bump since ReadGeneration makes the list stale.            *)
Publish(c) ==
    /\ at[c] = "publish"
    /\ IF gen = mine[c]
       THEN cache' = got[c] /\ UNCHANGED got
       ELSE got' = [got EXCEPT ![c] = Error("error")] /\ UNCHANGED cache
    /\ Goto(c, "deliver")
    /\ UNCHANGED <<config, cred, once, injected, gen, flight, started, mine, retried, canceled>>

(* The key is forgotten and the outcome goes to everyone who joined.       *)
Sharing(c) ==
    {c} \cup {d \in Callers : at[d] = "wait" /\ AccountsSFKey(mine[d]) = AccountsSFKey(mine[c])}

Deliver(c) ==
    /\ at[c] = "deliver"
    /\ flight' = [flight EXCEPT ![AccountsSFKey(mine[c])] = None]
    /\ got' = [d \in Callers |-> IF d \in Sharing(c) THEN got[c] ELSE got[d]]
    /\ at' = [d \in Callers |-> IF d \in Sharing(c) THEN "handle" ELSE at[d]]
    /\ UNCHANGED <<config, cred, once, injected, cache, gen, started, mine, retried, canceled, result>>

(* Mutant: an inherited cancellation is returned at once. *)
MutantNoRetry(c) ==
    /\ at[c] = "handle"
    /\ \/ got[c].kind = "list" /\ Goto(c, "choose") /\ UNCHANGED locals
       \/ got[c].kind # "list" /\ Return(c, got[c].kind, {}, None)
    /\ UNCHANGED <<config, provider, canceled>>

(* getOrFetchAccounts: another caller's cancellation is retried once.      *)
HandleOutcome(c) ==
    /\ at[c] = "handle"
    /\ LET again == got[c].kind = "ctx" /\ ~canceled[c] /\ ~retried[c]
       IN  \/ got[c].kind = "list" /\ Goto(c, "choose") /\ UNCHANGED locals
           \/ /\ again /\ Goto(c, "generation")
              /\ retried' = [retried EXCEPT ![c] = TRUE]
              /\ got' = [got EXCEPT ![c] = Nothing]
              /\ UNCHANGED <<started, mine>>
           \/ got[c].kind # "list" /\ ~again /\ Return(c, got[c].kind, {}, None)
    /\ UNCHANGED <<config, provider, canceled>>

-----------------------------------------------------------------------------
(* resolveDefaultSubscription marks the configured subscription when it is *)
(* visible, and else a lone visible one.                                   *)
Target == IF config.pinned # None THEN config.pinned ELSE config.env

Default(subs) ==
    IF Target \in subs THEN {Target} ELSE IF Cardinality(subs) = 1 THEN subs ELSE {}

(* resolveSubscriptionIDFromCtx and the steps of GetRecommendationsClient: *)
(* the configured target, else the default, else all for recommendations.  *)
(* Nothing is an error.                                                    *)
Scope(c, subs) ==
    CASE Target # None         -> {Target} \cap subs
      [] Default(subs) # {}    -> Default(subs)
      [] Op[c] = "recs"        -> subs
      [] OTHER                 -> {}

(* GetAccounts returns the list; the others pair a scope with the          *)
(* credential that is installed now.                                       *)
Choose(c) ==
    /\ at[c] = "choose"
    /\ IF Op[c] = "accounts" THEN Return(c, "list", Visible[got[c].source], None)
       ELSE LET subs == IF config.pinned # None THEN {config.pinned}
                        ELSE Scope(c, Visible[got[c].source])
            IN  IF subs = {} THEN Return(c, "error", {}, None) ELSE Return(c, "client", subs, cred)
    /\ UNCHANGED <<config, provider, canceled>>

(* The context only matters to a leader that fetches and to a caller that  *)
(* waits for one.                                                          *)
Cancel(c) ==
    /\ at[c] \in {"wait", "fetch"} /\ ~canceled[c]
    /\ canceled' = [canceled EXCEPT ![c] = TRUE]
    /\ UNCHANGED <<config, provider, at, locals, result>>

-----------------------------------------------------------------------------
(* invalidateAccountsCacheLocked *)
Invalidate == gen < MaxGen /\ cache' = Nothing /\ gen' = gen + 1

SetCredential(k) ==
    /\ Invalidate
    /\ cred' = k
    /\ UNCHANGED <<config, once, injected, flight, at, locals, canceled, result>>

SetSubscriptionsClient(s) ==
    /\ Invalidate
    /\ injected' = s
    /\ UNCHANGED <<config, cred, once, flight, at, locals, canceled, result>>

InvalidateAccountsCache ==
    /\ Invalidate
    /\ UNCHANGED <<config, cred, once, injected, flight, at, locals, canceled, result>>

-----------------------------------------------------------------------------
(* NewAzureProvider *)
AccountsInit ==
    /\ config \in Configs
    /\ cred = config.cred
    /\ once = "new"
    /\ injected = None
    /\ cache = Nothing
    /\ gen = 0
    /\ flight = [g \in Generations |-> None]
    /\ at = [c \in Callers |-> "start"]
    /\ started = [c \in Callers |-> 0]
    /\ mine = [c \in Callers |-> 0]
    /\ got = [c \in Callers |-> Nothing]
    /\ retried = [c \in Callers |-> FALSE]
    /\ canceled = [c \in Callers |-> FALSE]
    /\ result = [c \in Callers |-> NoResult]

CallerStep(c) ==
    \/ CheckConfigured(c) \/ EnterOnce(c) \/ ResolveAmbient(c) \/ PublishCredential(c)
    \/ ReadCachedAccounts(c) \/ ReadGeneration(c) \/ Do(c) \/ Recheck(c) \/ Snapshot(c)
    \/ FetchAccounts(c) \/ Publish(c) \/ Deliver(c) \/ HandleOutcome(c) \/ Choose(c)

AccountsNext ==
    \/ \E c \in Callers : CallerStep(c) \/ Cancel(c)
    \/ \E k \in Credentials : SetCredential(k)
    \/ \E s \in Clients : SetSubscriptionsClient(s)
    \/ InvalidateAccountsCache

-----------------------------------------------------------------------------
(* Properties.                                                             *)

AccountsTypeOK ==
    /\ config \in Configs
    /\ cred \in Credentials \cup {Ambient, None}
    /\ once \in {"new", "running", "ok", "failed"}
    /\ injected \in Clients \cup {None}
    /\ cache \in Outcomes
    /\ gen \in Generations
    /\ flight \in [Generations -> Callers \cup {None}]
    /\ at \in [Callers -> Locations]
    /\ started \in [Callers -> Generations] /\ mine \in [Callers -> Generations]
    /\ got \in [Callers -> Outcomes]
    /\ retried \in [Callers -> BOOLEAN] /\ canceled \in [Callers -> BOOLEAN]
    /\ result \in [Callers -> Results]

(* No caller is served a list that was asked for before an invalidation,   *)
(* SetCredential or SetSubscriptionsClient that returned before its call.  *)
FreshAfterInvalidation ==
    \A c \in Callers : at[c] = "choose" /\ got[c].kind = "list" => got[c].gen >= started[c]

(* A caller whose context is live fails with a context error only when two *)
(* other callers were canceled, one after the other, as its leaders.       *)
OutlivesOneCancellation ==
    \A c \in Callers : result[c].kind = "ctx" /\ ~canceled[c] =>
        Cardinality({d \in Callers \ {c} : canceled[d]}) >= 2
=============================================================================
