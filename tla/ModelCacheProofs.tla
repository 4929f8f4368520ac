--------------------------- MODULE ModelCacheProofs ---------------------------
(***************************************************************************)
(* The catalog cache, for any number of calls, accounts, catalogs and      *)
(* configurations: no reconfiguration, shutdown or slow fetch leaves an    *)
(* entry that is older than the TTL in force allows.                       *)
(***************************************************************************)
EXTENDS ModelCache, TLAPS

(* The clock of a call: it was read before the fetch, and the fetch was    *)
(* answered after that.  A store counts from the first.                    *)
FetchesTakeTime ==
    \A c \in Calls :
        /\ call[c].at = "fetching" => call[c].started <= now
        /\ call[c].at = "storing"  => call[c].started <= call[c].readAt

CacheInv == TypeOK /\ FetchesTakeTime /\ TTLInForce

-----------------------------------------------------------------------------
LEMMA FilteredModels ==
    ASSUME NEW models \in SUBSET Models, NEW p
    PROVE  FilterModels(models, p) \in SUBSET Models
  BY DEF FilterModels

LEMMA IdleCall == Idle \in CallType
<1>1. (CHOOSE a \in Accounts : TRUE) \in Accounts
  BY ModelCacheAssumption
<1> QED
  BY <1>1 DEF Idle, CallType, PolicyType

LEMMA CacheInit == Init => CacheInv
<1> SUFFICES ASSUME Init PROVE CacheInv
  OBVIOUS
<1> USE ModelCacheAssumption DEF Init
<1>1. ttl \in Nat /\ catalog \in SUBSET Models /\ policy \in [Accounts -> PolicyType]
  OBVIOUS
<1>2. cache \in [Accounts -> EntryType]
  BY DEF NoEntry, EntryType
<1>3. call \in [Calls -> CallType]
  BY IdleCall
<1>4. FetchesTakeTime
  BY DEF FetchesTakeTime, Idle
<1>5. TTLInForce
  BY <1>1 DEF TTLInForce, NoEntry
<1> QED
  BY <1>1, <1>2, <1>3, <1>4, <1>5 DEF CacheInv, TypeOK

(* A step of a call disturbs only that call, and the entry it stores. *)
LEMMA CallStepInv ==
    ASSUME CacheInv, NEW c \in Calls, CallStep(c)
    PROVE  CacheInv'
<1> USE DEF CacheInv, TypeOK, FetchesTakeTime, TTLInForce
<1>1. ASSUME NEW a \in Accounts, Lookup(c, a)
      PROVE  CacheInv'
  <2>1. cache[a] \in EntryType /\ policy[a] \in PolicyType
    OBVIOUS
  <2>2. call'[c] \in CallType
    BY <1>1, <2>1 DEF Lookup, CallType, EntryType
  <2>3. call' \in [Calls -> CallType]
    BY <1>1, <2>2 DEF Lookup
  <2>4. FetchesTakeTime'
    BY <1>1 DEF Lookup
  <2> QED
    BY <1>1, <2>3, <2>4 DEF Lookup
<1>2. CASE FetchReturns(c)
  <2>1. FilterModels(catalog, call[c].policy) \in SUBSET Models
    BY FilteredModels
  <2>2. call'[c] \in CallType
    BY <1>2, <2>1 DEF FetchReturns, CallType
  <2>3. call' \in [Calls -> CallType]
    BY <1>2, <2>2 DEF FetchReturns
  <2>4. FetchesTakeTime'
    BY <1>2 DEF FetchReturns, CallType
  <2> QED
    BY <1>2, <2>3, <2>4 DEF FetchReturns
<1>3. CASE FetchFails(c)
  <2>1. call' \in [Calls -> CallType]
    BY <1>3 DEF FetchFails, CallType
  <2>2. FetchesTakeTime'
    BY <1>3 DEF FetchFails, CallType
  <2> QED
    BY <1>3, <2>1, <2>2 DEF FetchFails
<1>4. CASE Store(c)
  <2> DEFINE a     == call[c].account
             entry == [models |-> call[c].models, readAt |-> call[c].readAt,
                       expiresAt |-> call[c].started + ttl]
  <2>1. a \in Accounts /\ call[c].started \in Nat /\ call[c].readAt \in Nat
    BY DEF CallType
  <2>2. entry \in EntryType
    BY <2>1 DEF CallType, EntryType
  <2>3. cache' \in [Accounts -> EntryType]
    BY <1>4, <2>1, <2>2 DEF Store
  <2>4. entry.expiresAt <= entry.readAt + ttl
    BY <1>4, <2>1 DEF Store
  <2>5. \A b \in Accounts : cache'[b] = IF b = a THEN entry ELSE cache[b]
    BY <1>4, <2>1 DEF Store
  <2>6. TTLInForce'
    BY <1>4, <2>4, <2>5 DEF Store
  <2>7. call' \in [Calls -> CallType]
    BY <1>4 DEF Store, CallType
  <2>8. FetchesTakeTime'
    BY <1>4 DEF Store, CallType
  <2> QED
    BY <1>4, <2>3, <2>6, <2>7, <2>8 DEF Store
<1>5. CASE Return(c)
  <2>1. call' \in [Calls -> CallType]
    BY <1>5, IdleCall DEF Return
  <2>2. FetchesTakeTime'
    BY <1>5 DEF Return, Idle
  <2> QED
    BY <1>5, <2>1, <2>2 DEF Return
<1> QED
  BY <1>1, <1>2, <1>3, <1>4, <1>5 DEF CallStep

LEMMA CacheStep ==
    ASSUME CacheInv, [Next]_cacheVars
    PROVE  CacheInv'
<1> USE DEF CacheInv, TypeOK, FetchesTakeTime, TTLInForce
<1>1. ASSUME NEW c \in Calls, CallStep(c)
      PROVE  CacheInv'
  BY <1>1, CallStepInv
<1>2. ASSUME NEW t \in TTLs, ConfigureSets(t)
      PROVE  CacheInv'
  BY <1>2, ModelCacheAssumption DEF ConfigureSets
<1>3. CASE ConfigureClears \/ Shutdown
  <2>1. cache' = [a \in Accounts |-> NoEntry] /\ UNCHANGED <<now, catalog, policy, ttl, call>>
    BY <1>3 DEF ConfigureClears, Shutdown
  <2>2. cache' \in [Accounts -> EntryType]
    BY <2>1 DEF NoEntry, EntryType
  <2>3. TTLInForce'
    BY <2>1 DEF NoEntry
  <2>4. configuring' \in BOOLEAN
    BY <1>3 DEF ConfigureClears, Shutdown
  <2> QED
    BY <2>1, <2>2, <2>3, <2>4
<1>4. CASE Tick
  <2>1. now' \in Nat /\ now <= now'
    BY <1>4 DEF Tick
  <2>2. FetchesTakeTime'
    BY <1>4, <2>1 DEF Tick, CallType
  <2> QED
    BY <1>4, <2>1, <2>2 DEF Tick
<1>5. CASE CatalogChanges
  BY <1>5, ModelCacheAssumption DEF CatalogChanges
<1>6. ASSUME NEW a \in Accounts, NEW p \in Policies, EditPolicy(a, p)
      PROVE  CacheInv'
  <2>1. policy' \in [Accounts -> PolicyType]
    BY <1>6, ModelCacheAssumption DEF EditPolicy
  <2> QED
    BY <1>6, <2>1 DEF EditPolicy
<1>7. CASE UNCHANGED cacheVars
  BY <1>7 DEF cacheVars
<1> QED
  BY <1>1, <1>2, <1>3, <1>4, <1>5, <1>6, <1>7 DEF Next

LEMMA CacheInvariance == Spec => []CacheInv
  BY CacheInit, CacheStep, PTL DEF Spec

(* Calls, entries and the configuration keep their shape, whatever overlaps *)
(* (discoverModels, Configure, Shutdown).                                   *)
THEOREM CacheTypeCorrect == Spec => []TypeOK
<1>1. CacheInv => TypeOK
  BY DEF CacheInv
<1> QED
  BY <1>1, CacheInvariance, PTL

(* Once Configure has returned, every entry expires within the TTL it set, *)
(* counted from Cursor's answer, including those of fetches that were      *)
(* under way across Configure or overtook each other.                      *)
THEOREM EntriesKeepToTheTTL == Spec => []TTLInForce
<1>1. CacheInv => TTLInForce
  BY DEF CacheInv
<1> QED
  BY <1>1, CacheInvariance, PTL

=============================================================================
