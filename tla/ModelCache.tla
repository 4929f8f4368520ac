----------------------------- MODULE ModelCache ------------------------------
(***************************************************************************)
(* The model catalog cache of internal/provider: discoverModels (models.go)*)
(* called concurrently by requests, Configure and Shutdown (service.go).   *)
(* The lock is held for the lookup and for the store, not for the fetch    *)
(* between them, and Configure takes two locks one after the other, so all *)
(* of these interleave.                                                    *)
(*                                                                         *)
(* A catalog is a set of models; a policy is the pair of an account's      *)
(* allow and deny rules, as sets of models.  The configuration is its      *)
(* cache TTL, the part of it that the cache depends on.                    *)
(***************************************************************************)
EXTENDS Naturals, FiniteSets

CONSTANTS
    Calls,      \* concurrent calls of discoverModels
    Accounts,   \* storage.ID of the accounts
    Models,     \* models Cursor may offer
    Catalogs,   \* the catalogs Cursor may serve
    Policies,   \* the policies an account may be given
    TTLs,       \* model_cache_ttl_seconds a configuration may set
    MaxTime     \* model bound on the clock

PolicyType == [allowed : SUBSET Models, denied : SUBSET Models]

ASSUME ModelCacheAssumption ==
    /\ Accounts # {}
    /\ Catalogs \subseteq SUBSET Models
    /\ Policies \subseteq PolicyType
    /\ TTLs \subseteq Nat
    /\ MaxTime \in Nat

VARIABLES
    now,        \* the clock
    catalog,    \* what Cursor would return now
    policy,     \* the policy in each account's auth file
    ttl,        \* the current configuration
    configuring,\* Configure has stored the configuration, not yet cleared the cache
    cache,      \* account -> entry, or NoEntry
    call        \* call -> where it is and its locals

cacheVars == <<now, catalog, policy, ttl, configuring, cache, call>>

NoEntry == [models |-> {}, readAt |-> 0, expiresAt |-> 0]

Idle == [at |-> "idle", account |-> CHOOSE a \in Accounts : TRUE,
         policy |-> [allowed |-> {}, denied |-> {}],
         started |-> 0, readAt |-> 0, models |-> {}]

-----------------------------------------------------------------------------
(* filterModels: an empty allow list allows everything; deny always wins. *)
FilterModels(models, p) ==
    {m \in models : (p.allowed = {} \/ m \in p.allowed) /\ m \notin p.denied}

Init ==
    /\ now = 0
    /\ catalog \in Catalogs /\ ttl \in TTLs
    /\ policy \in [Accounts -> Policies]
    /\ configuring = FALSE
    /\ cache = [a \in Accounts |-> NoEntry]
    /\ call = [c \in Calls |-> Idle]

(* The call arrives with the account's storage; the clock is read and the  *)
(* cache consulted under modelMu.                                          *)
Lookup(c, a) ==
    /\ call[c].at = "idle"
    /\ LET entry == cache[a]
           hit   == entry # NoEntry /\ entry.expiresAt > now
       IN  call' = [call EXCEPT ![c] =
                       [at |-> IF hit THEN "served" ELSE "fetching", account |-> a,
                        policy |-> policy[a], started |-> now,
                        readAt |-> IF hit THEN entry.readAt ELSE now,
                        models |-> IF hit THEN entry.models ELSE {}]]
    /\ UNCHANGED <<now, catalog, policy, ttl, configuring, cache>>

(* fetchAvailableModels answers and the result is filtered; nothing left   *)
(* after the filter is an error, and is not cached.                        *)
FetchReturns(c) ==
    /\ call[c].at = "fetching"
    /\ LET models == FilterModels(catalog, call[c].policy) IN
       call' = [call EXCEPT ![c].at = IF models = {} THEN "failed" ELSE "storing",
                            ![c].readAt = now, ![c].models = models]
    /\ UNCHANGED <<now, catalog, policy, ttl, configuring, cache>>

FetchFails(c) ==
    /\ call[c].at = "fetching"
    /\ call' = [call EXCEPT ![c].at = "failed"]
    /\ UNCHANGED <<now, catalog, policy, ttl, configuring, cache>>

(* The expiry counts from the clock read before the fetch, with the TTL of *)
(* the configuration at the time of the store.                             *)
Store(c) ==
    /\ call[c].at = "storing"
    /\ cache' = [cache EXCEPT ![call[c].account] =
                    [models |-> call[c].models, readAt |-> call[c].readAt,
                     expiresAt |-> call[c].started + ttl]]
    /\ call' = [call EXCEPT ![c].at = "served"]
    /\ UNCHANGED <<now, catalog, policy, ttl, configuring>>

Return(c) ==
    /\ call[c].at \in {"served", "failed"}
    /\ call' = [call EXCEPT ![c] = Idle]
    /\ UNCHANGED <<now, catalog, policy, ttl, configuring, cache>>

-----------------------------------------------------------------------------
(* Configure: first the configuration under configMu, ... *)
ConfigureSets(t) ==
    /\ ~configuring
    /\ ttl' = t /\ configuring' = TRUE
    /\ UNCHANGED <<now, catalog, policy, cache, call>>

(* Mutated form: the cache is kept. *)
ConfigureKeepsCache ==
    /\ configuring
    /\ configuring' = FALSE
    /\ UNCHANGED <<now, catalog, policy, ttl, cache, call>>

(* ... then an empty cache under modelMu. *)
ConfigureClears ==
    /\ configuring
    /\ configuring' = FALSE
    /\ cache' = [a \in Accounts |-> NoEntry]
    /\ UNCHANGED <<now, catalog, policy, ttl, call>>

(* Mutated form: the cache is left nil. *)
ShutdownToNil ==
    /\ cache' = [a \in {} |-> NoEntry]
    /\ UNCHANGED <<now, catalog, policy, ttl, configuring, call>>

(* Shutdown clears the cache whatever is in flight. *)
Shutdown ==
    /\ cache' = [a \in Accounts |-> NoEntry]
    /\ UNCHANGED <<now, catalog, policy, ttl, configuring, call>>

(* The world: time passes, Cursor's catalog changes, an account is edited. *)
Tick ==
    /\ now < MaxTime
    /\ now' = now + 1
    /\ UNCHANGED <<catalog, policy, ttl, configuring, cache, call>>

CatalogChanges ==
    /\ catalog' \in Catalogs
    /\ UNCHANGED <<now, policy, ttl, configuring, cache, call>>

EditPolicy(a, p) ==
    /\ policy' = [policy EXCEPT ![a] = p]
    /\ UNCHANGED <<now, catalog, ttl, configuring, cache, call>>

-----------------------------------------------------------------------------
CallStep(c) ==
    \/ \E a \in Accounts : Lookup(c, a)
    \/ FetchReturns(c) \/ FetchFails(c) \/ Store(c) \/ Return(c)

Next ==
    \/ \E c \in Calls : CallStep(c)
    \/ \E t \in TTLs : ConfigureSets(t)
    \/ ConfigureClears
    \/ Shutdown
    \/ Tick
    \/ CatalogChanges
    \/ \E a \in Accounts, p \in Policies : EditPolicy(a, p)

Spec == Init /\ [][Next]_cacheVars

-----------------------------------------------------------------------------
EntryType == [models : SUBSET Models, readAt : Nat, expiresAt : Nat]

CallType == [at : {"idle", "fetching", "storing", "served", "failed"}, account : Accounts,
             policy : PolicyType, started : Nat, readAt : Nat,
             models : SUBSET Models]

(* Type invariant. *)
TypeOK ==
    /\ now \in Nat /\ ttl \in Nat /\ configuring \in BOOLEAN
    /\ catalog \in SUBSET Models
    /\ policy \in [Accounts -> PolicyType]
    /\ cache \in [Accounts -> EntryType]
    /\ call \in [Calls -> CallType]

(* Once Configure has returned, no entry outlives the TTL it set, counted  *)
(* from Cursor's answer: however long fetch and store took, in whichever   *)
(* order fetches of an account return, and even for a fetch in flight      *)
(* across Configure, since the new configuration is in place before the    *)
(* cache is cleared, and a store uses the TTL it finds.                    *)
TTLInForce ==
    ~configuring => \A a \in Accounts : cache[a].expiresAt <= cache[a].readAt + ttl

(* README: "Account allow/deny rules still apply to the catalog variant    *)
(* IDs": no call is served a model that its own account rules exclude.     *)
ServedModelsArePermitted ==
    \A c \in Calls : call[c].at = "served" =>
        call[c].models = FilterModels(call[c].models, call[c].policy)

=============================================================================
