-------------------------- MODULE RoutesCacheProofs --------------------------
(***************************************************************************)
(* Theorems about RoutesCache, for every set of requests, lookups and      *)
(* Results and every cache.  That the cache itself keeps its invariants is *)
(* taken from CacheProofs: each step of CachedRoute is a step of Cache.    *)
(***************************************************************************)
EXTENDS RoutesCache, TLAPS

CP == INSTANCE CacheProofs

CacheInv == C!TypeOK /\ C!CapRespected /\ C!PassesSpaced /\ C!SingleOwner

(* Where a request is in CachedRoute says which Results it has. *)
Has(r) ==
  /\ src[r] = NoValue <=> pc[r] \in {"idle", "search", "use"}
  /\ dst[r] = NoValue <=> pc[r] \notin {"copy", "use"}

(* A Result that a request is about to store is in no other hands: the      *)
(* cache may take it.                                                       *)
OwnsNew(r) ==
  pc[r] = "set" =>
    /\ src[r] \notin pool \cup C!Held
    /\ \A q \in Req : dst[q] # src[r]
    /\ \A q \in Req \ {r} : pc[q] = "set" => src[q] # src[r]

(* The pool's promise, inductive with what requests have.  It holds         *)
(* whatever the clock does.                                                 *)
OwnInv ==
  /\ TypeOK
  /\ CacheInv
  /\ \A r \in Req : Has(r) /\ OwnsNew(r)
  /\ PoolExclusive

------------------------------------------------------------------------------
(* The cache in the terms of CacheProofs *)

LEMMA CacheAssumed == CP!ConfigAssumption /\ CP!ClockAssumption
BY CacheAssumption
   DEF C!ConfigAssumption, CP!ConfigAssumption, C!ClockAssumption, CP!ClockAssumption

LEMMA SameCount ==
  ASSUME NEW S
  PROVE  /\ C!Cardinality(S) = CP!Cardinality(S)
         /\ C!IsFiniteSet(S) <=> CP!IsFiniteSet(S)
BY DEF C!Cardinality, CP!Cardinality, C!IsFiniteSet, CP!IsFiniteSet

LEMMA SameInv == CacheInv <=> CP!IInv
<1>1. C!Len = CP!Len
  BY SameCount DEF C!Len, CP!Len
<1>2. C!TypeOK <=> CP!TypeOK
  BY SameCount DEF C!TypeOK, CP!TypeOK, C!Entry, CP!Entry
<1>3. C!CapRespected <=> CP!CapRespected
  BY <1>1 DEF C!CapRespected, CP!CapRespected
<1>4. /\ C!PassesSpaced <=> CP!PassesSpaced
      /\ C!SingleOwner <=> CP!SingleOwner
  BY DEF C!PassesSpaced, CP!PassesSpaced, C!SingleOwner, CP!SingleOwner
<1>5. QED BY <1>2, <1>3, <1>4 DEF CacheInv, CP!IInv

LEMMA SameEvict ==
  ASSUME NEW t
  PROVE  C!Evict(t) <=> CP!Evict(t)
<1>1. C!Expired(t) = CP!Expired(t)
  BY DEF C!Expired, CP!Expired
<1>2. C!Restrict(store, DOMAIN store \ C!Expired(t))
        = CP!Restrict(store, DOMAIN store \ CP!Expired(t))
  BY <1>1 DEF C!Restrict, CP!Restrict
<1>3. C!Dispatch(C!Expired(t)) <=> CP!Dispatch(CP!Expired(t))
  BY <1>1, SameCount DEF C!Dispatch, CP!Dispatch
<1>4. QED BY <1>2, <1>3 DEF C!Evict, CP!Evict

(* The steps of the cache that CachedRoute takes. *)
CacheStep ==
  \/ \E k \in Key : C!GetHit(k) \/ C!GetMiss(k) \/ C!SetDropped(k)
  \/ \E k \in Key, v \in Value \ C!Held : C!SetStored(k, v)
  \/ C!OnRelease(TRUE)
  \/ \E t \in passes : C!Evict(t)
  \/ \E v \in Value : C!RunRelease(v)
  \/ \E d \in ClockDelta : C!ClockStep(d)
  \/ UNCHANGED C!vars

LEMMA SameStep == CacheStep => [CP!Next]_(CP!vars)
<1> USE DEF C!ScheduleEvictLocked, CP!ScheduleEvictLocked, C!vars, CP!vars,
            C!cacheVars, CP!cacheVars
<1>1. \A k : C!GetHit(k) => CP!GetHit(k)
  BY DEF C!GetHit, CP!GetHit
<1>2. \A k : C!GetMiss(k) => CP!GetMiss(k)
  BY DEF C!GetMiss, CP!GetMiss
<1>3. C!Full <=> CP!Full
  BY SameCount DEF C!Full, CP!Full, C!Len, CP!Len
<1>4. \A k : C!SetDropped(k) => CP!SetDropped(k)
  BY <1>3 DEF C!SetDropped, CP!SetDropped
<1>5. \A k, v : C!SetStored(k, v) => CP!SetStored(k, v)
  BY <1>3 DEF C!SetStored, CP!SetStored, C!Put, CP!Put
<1>6. C!Held = CP!Held
  BY DEF C!Held, CP!Held
<1>7. C!OnRelease(TRUE) => CP!OnRelease(TRUE)
  BY DEF C!OnRelease, CP!OnRelease
<1>8. \A t : C!Evict(t) => CP!Evict(t)
  BY SameEvict
<1>9. \A v : C!RunRelease(v) => CP!RunRelease(v)
  BY DEF C!RunRelease, CP!RunRelease
<1>10. \A d : C!ClockStep(d) => CP!ClockStep(d)
  BY DEF C!ClockStep, CP!ClockStep
<1>11. QED
  BY <1>1, <1>2, <1>4, <1>5, <1>6, <1>7, <1>8, <1>9, <1>10 DEF CacheStep, CP!Next

LEMMA CacheInvKept ==
  ASSUME CacheInv, CacheStep
  PROVE  CacheInv'
<1>1. CP!IInv /\ [CP!Next]_(CP!vars) => CP!IInv'
  BY CacheAssumed, CP!NextIInv
<1>2. CacheInv' <=> CP!IInv'
  BY SameInv, PTL
<1>3. QED BY <1>1, <1>2, SameInv, SameStep

LEMMA CacheInvInit == C!Init => CacheInv
<1>1. C!Init => CP!Init
  BY DEF C!Init, CP!Init
<1>2. CP!Init => CP!IInv
  BY CacheAssumed, CP!InitIInv
<1>3. QED BY <1>1, <1>2, SameInv

------------------------------------------------------------------------------
(* What the cache's steps do to the Results it holds *)

(* Reading an entry keeps the values and moves its time to now. *)
LEMMA GetHitHolds ==
  ASSUME CacheInv, NEW k \in Key, C!GetHit(k)
  PROVE  /\ C!Held' = C!Held
         /\ DOMAIN store' = DOMAIN store
         /\ \A j \in DOMAIN store : store'[j].value = store[j].value
         /\ k \in DOMAIN store /\ store'[k].peek = now
         /\ \A j \in DOMAIN store : j # k => store'[j] = store[j]
         /\ releases' = releases /\ now' = now /\ passes' \subseteq passes \cup {now}
<1>1. \A j \in DOMAIN store : store[j] \in [value : Value, peek : Nat]
  BY DEF CacheInv, C!TypeOK, C!Entry
<1>2. /\ k \in DOMAIN store /\ store' = [store EXCEPT ![k].peek = now]
      /\ releases' = releases /\ now' = now /\ passes' \subseteq passes \cup {now}
  BY DEF C!GetHit, C!ScheduleEvictLocked
<1>3. /\ DOMAIN store' = DOMAIN store
      /\ \A j \in DOMAIN store : store'[j].value = store[j].value
      /\ store'[k].peek = now
      /\ \A j \in DOMAIN store : j # k => store'[j] = store[j]
  BY <1>1, <1>2
<1>4. QED BY <1>2, <1>3 DEF C!Held

(* Storing a value adds it to what the cache holds, at now. *)
LEMMA SetHolds ==
  ASSUME CacheInv, NEW k \in Key, NEW v \in Value,
         C!SetStored(k, v) \/ C!SetDropped(k)
  PROVE  /\ C!Held' \subseteq C!Held \cup {v}
         /\ \A j \in DOMAIN store' :
              \/ j \in DOMAIN store /\ store'[j] = store[j]
              \/ j = k /\ store'[j] = [value |-> v, peek |-> now]
         /\ releases' = releases /\ now' = now /\ passes' \subseteq passes \cup {now}
<1>1. /\ releases' = releases /\ now' = now /\ passes' \subseteq passes \cup {now}
      /\ \/ store' = store
         \/ store' = [j \in DOMAIN store \cup {k} |->
                        IF j = k THEN [value |-> v, peek |-> now] ELSE store[j]]
  BY DEF C!SetStored, C!SetDropped, C!Put, C!ScheduleEvictLocked
<1>2. QED BY <1>1 DEF C!Held

(* A pass only takes entries away; a callback it launches is for one.      *)
LEMMA EvictHolds ==
  ASSUME CacheInv, NEW t \in passes, C!Evict(t)
  PROVE  /\ C!Held' \subseteq C!Held
         /\ DOMAIN store' \subseteq DOMAIN store
         /\ \A j \in DOMAIN store' : store'[j] = store[j]
         /\ \A v \in Value :
              releases'[v] = releases[v]
                \/ \E k \in C!Expired(t) : store[k].value = v
         /\ now' = now /\ passes' \subseteq passes
<1>1. CP!TypeOK /\ CP!SingleOwner
  BY SameInv DEF CP!IInv
<1>2. CP!Evict(t)
  BY SameEvict
<1>3. CP!Expired(t) \in SUBSET DOMAIN store /\ CP!Expired(t) = C!Expired(t)
  BY DEF CP!Expired, C!Expired
<1>4. /\ releases' \in [Value -> Nat]
      /\ \A v \in Value :
           \/ releases'[v] = releases[v]
           \/ \E k \in C!Expired(t) : store[k].value = v
  <2>1. CP!Dispatch(CP!Expired(t))
    BY <1>2 DEF CP!Evict
  <2>2. /\ releases' \in [Value -> Nat]
        /\ \A v \in Value :
             \/ releases'[v] = releases[v]
             \/ /\ releases[v] = 0
                /\ releases'[v] = 1
                /\ \E k \in CP!Expired(t) : store[k].value = v
    BY <1>1, <1>3, <2>1, CacheAssumed, CP!DispatchOnce
  <2>3. QED BY <1>3, <2>2
<1>5. /\ DOMAIN store' \subseteq DOMAIN store
      /\ \A j \in DOMAIN store' : store'[j] = store[j]
      /\ now' = now /\ passes' \subseteq passes
  BY <1>2 DEF CP!Evict, CP!Restrict
<1>6. \A k \in C!Expired(t) : k \in DOMAIN store
  BY <1>3
<1>7. C!Held' \subseteq C!Held
  BY <1>4, <1>5, <1>6 DEF C!Held
<1>8. QED BY <1>4, <1>5, <1>7

(* When its callback runs, the cache is done with a value. *)
LEMMA ReleaseHolds ==
  ASSUME CacheInv, NEW v \in Value, C!RunRelease(v)
  PROVE  /\ C!Held' \subseteq C!Held \ {v}
         /\ v \in C!Held /\ releases[v] > 0
         /\ releases' \in [Value -> Nat]
         /\ \A w \in Value : releases'[w] <= releases[w]
         /\ \A k \in DOMAIN store : store[k].value # v
         /\ store' = store /\ now' = now /\ passes' = passes
<1>1. /\ releases[v] > 0 /\ releases' = [releases EXCEPT ![v] = @ - 1]
      /\ store' = store /\ now' = now /\ passes' = passes
      /\ releases \in [Value -> Nat]
  BY DEF C!RunRelease, CacheInv, C!TypeOK
<1>2. /\ releases' \in [Value -> Nat]
      /\ releases'[v] = 0
      /\ \A w \in Value : releases'[w] <= releases[w]
  BY <1>1 DEF CacheInv, C!SingleOwner
<1>3. \A k \in DOMAIN store : store[k].value # v
  BY <1>1 DEF CacheInv, C!SingleOwner
<1>4. C!Held' \subseteq C!Held
  <2>1. \A w \in Value : releases'[w] > 0 => releases[w] > 0
    BY <1>1, <1>2
  <2>2. QED BY <1>1, <2>1 DEF C!Held
<1>5. v \notin C!Held'
  BY <1>1, <1>2, <1>3 DEF C!Held
<1>6. QED BY <1>1, <1>2, <1>3, <1>4, <1>5 DEF C!Held

------------------------------------------------------------------------------
(* Every step of CachedRoute, of a pass and of a callback is a step of the  *)
(* cache, or leaves it alone: Store has a Result the cache does not hold.   *)
LEMMA StepOfCache == OwnInv /\ [Next]_vars => CacheStep
<1> SUFFICES ASSUME OwnInv, [Next]_vars PROVE CacheStep
  OBVIOUS
<1>1. \A q \in Lookup : KeyOf(q) \in Key
  BY DEF Key
<1>2. ASSUME UNCHANGED <<cacheVars, now>> PROVE CacheStep
  BY <1>2 DEF cacheVars, CacheStep, C!vars, C!cacheVars
<1>3. ASSUME NEW r \in Req, Request(r) PROVE CacheStep
  <2>1. ASSUME NEW q \in Lookup, LookupHit(r, q) \/ LookupMiss(r, q) PROVE CacheStep
    BY <1>1, <2>1 DEF LookupHit, LookupMiss, CacheStep
  <2>2. ASSUME Store(r) PROVE CacheStep
    <3>1. pc[r] = "set" /\ KeyOf(asked[r]) \in Key
      BY <1>1, <2>2 DEF Store, OwnInv, TypeOK
    <3>2. src[r] \in Value /\ src[r] \notin C!Held
      BY <3>1 DEF OwnInv, TypeOK, Has, OwnsNew
    <3>3. QED BY <2>2, <3>1, <3>2 DEF Store, CacheStep
  <2>3. ASSUME Copy(r) \/ Done(r) \/ \E v \in Value : Search(r, v) \/ AcquireCopy(r, v)
        PROVE  CacheStep
    BY <1>2, <2>3 DEF Copy, Done, Search, AcquireCopy
  <2>4. QED BY <1>3, <2>1, <2>2, <2>3 DEF Request
<1>4. QED
  BY <1>2, <1>3 DEF Next, NewRoutes, Evict, OnResultReleased, ClockStep, vars, CacheStep

(* What an action leaves to the requests it does not belong to. *)
LEMMA OthersOwn ==
  ASSUME OwnInv, NEW r \in Req,
         \A q \in Req \ {r} : UNCHANGED <<pc[q], src[q], dst[q]>>,
         pool' \subseteq pool, C!Held' \subseteq C!Held,
         pc'[r] # "set" \/ (pc'[r] = pc[r] /\ src'[r] = src[r]),
         dst'[r] = dst[r] \/ dst'[r] = NoValue
  PROVE  /\ \A q \in Req \ {r} : (Has(q) /\ OwnsNew(q))'
         /\ PoolExclusive'
<1>1. \A q \in Req : src[q] \in Value \cup {NoValue} /\ dst[q] \in Value \cup {NoValue}
  BY DEF OwnInv, TypeOK
<1>2. \A q \in Req \ {r} : Has(q)'
  BY DEF OwnInv, Has
<1>3. ASSUME NEW q \in Req \ {r}, pc'[q] = "set"
      PROVE  /\ src'[q] \notin pool' \cup C!Held'
             /\ \A p \in Req : dst'[p] # src'[q]
             /\ \A p \in Req \ {q} : pc'[p] = "set" => src'[p] # src'[q]
  <2>1. pc[q] = "set" /\ src'[q] = src[q] /\ src[q] # NoValue
    BY <1>3 DEF OwnInv, Has
  <2>2. QED BY <2>1 DEF OwnInv, OwnsNew
<1>4. NoValue \notin pool' \cup C!Held'
  <2>1. pool \subseteq Value
    BY DEF OwnInv, TypeOK
  <2>2. C!Held \subseteq Value
    BY DEF OwnInv, CacheInv, C!TypeOK, C!Entry, C!Held
  <2>3. QED BY <2>1, <2>2, RoutesAssumption
<1>5. PoolExclusive'
  BY <1>4 DEF OwnInv, PoolExclusive
<1>6. QED BY <1>2, <1>3, <1>5 DEF OwnsNew

LEMMA HeldValues == OwnInv => /\ pool \subseteq Value /\ NoValue \notin pool
                              /\ C!Held \subseteq Value /\ NoValue \notin C!Held
BY RoutesAssumption DEF OwnInv, TypeOK, CacheInv, C!TypeOK, C!Entry, C!Held

LEMMA HitOwns ==
  ASSUME OwnInv, NEW r \in Req, NEW q \in Lookup, LookupHit(r, q), CacheInv'
  PROVE  OwnInv'
<1> DEFINE k == KeyOf(q)
<1>1. k \in Key /\ k \in DOMAIN store /\ C!GetHit(k)
  BY DEF LookupHit, C!GetHit, Key
<1>2. C!Held' = C!Held
  BY <1>1, GetHitHolds DEF OwnInv
<1>3. store[k].value \in C!Held /\ store[k].value \in Value
  BY <1>1, HeldValues DEF C!Held
<1>4. /\ pc' = [pc EXCEPT ![r] = "acquire"] /\ pc[r] = "idle"
      /\ src' = [src EXCEPT ![r] = store[k].value]
      /\ dst' = dst /\ pool' = pool /\ content' = content
      /\ asked' = [asked EXCEPT ![r] = q] /\ since' = [since EXCEPT ![r] = now]
  BY DEF LookupHit, resultVars
<1>5. now \in 0 .. MaxNow
  BY DEF OwnInv, CacheInv, C!TypeOK
<1>6. TypeOK'
  BY <1>3, <1>4, <1>5 DEF OwnInv, TypeOK, CacheInv
<1>7. pc'[r] = "acquire" /\ src'[r] # NoValue /\ dst'[r] = NoValue
        /\ \A p \in Req \ {r} : UNCHANGED <<pc[p], src[p], dst[p]>>
  BY <1>3, <1>4, RoutesAssumption DEF OwnInv, TypeOK, Has
<1>8. Has(r)' /\ OwnsNew(r)'
  BY <1>7 DEF Has, OwnsNew
<1>9. dst'[r] = dst[r] /\ pool' \subseteq pool /\ C!Held' \subseteq C!Held
  BY <1>2, <1>4
<1>10. PoolExclusive' /\ \A p \in Req \ {r} : (Has(p) /\ OwnsNew(p))'
  BY <1>7, <1>9, OthersOwn
<1>11. QED BY <1>6, <1>8, <1>10 DEF OwnInv

LEMMA MissOwns ==
  ASSUME OwnInv, NEW r \in Req, NEW q \in Lookup, LookupMiss(r, q), CacheInv'
  PROVE  OwnInv'
<1>1. /\ pc' = [pc EXCEPT ![r] = "search"] /\ pc[r] = "idle"
      /\ src' = src /\ dst' = dst /\ pool' = pool /\ content' = content
      /\ asked' = [asked EXCEPT ![r] = q] /\ since' = since
  BY DEF LookupMiss, resultVars
<1>2. C!Held' = C!Held
  BY DEF LookupMiss, C!GetMiss, C!vars, C!cacheVars, C!Held
<1>3. TypeOK'
  BY <1>1 DEF OwnInv, TypeOK, CacheInv
<1>4. pc'[r] = "search" /\ src'[r] = NoValue /\ dst'[r] = NoValue
        /\ \A p \in Req \ {r} : UNCHANGED <<pc[p], src[p], dst[p]>>
  BY <1>1 DEF OwnInv, TypeOK, Has
<1>5. Has(r)' /\ OwnsNew(r)'
  BY <1>4 DEF Has, OwnsNew
<1>6. dst'[r] = dst[r] /\ pool' \subseteq pool /\ C!Held' \subseteq C!Held
  BY <1>1, <1>2
<1>7. PoolExclusive' /\ \A p \in Req \ {r} : (Has(p) /\ OwnsNew(p))'
  BY <1>4, <1>6, OthersOwn
<1>8. QED BY <1>3, <1>5, <1>7 DEF OwnInv

(* A Result from the pool, or one that no one can reach, is in no hands     *)
(* that write to it.                                                        *)
LEMMA FreshResult ==
  ASSUME OwnInv, NEW v \in Value, v \in pool \/ v \notin Reachable
  PROVE  /\ v \notin C!Held
         /\ \A q \in Req : dst[q] # v
         /\ \A q \in Req : pc[q] = "set" => src[q] # v
<1>1. CASE v \in pool
  BY <1>1 DEF OwnInv, PoolExclusive, OwnsNew
<1>2. CASE v \notin Reachable
  <2>1. \A q \in Req : q \in DOMAIN src /\ q \in DOMAIN dst
    BY DEF OwnInv, TypeOK
  <2>2. v \notin C!Held /\ v \notin Range(src) /\ v \notin Range(dst)
    BY <1>2 DEF Reachable
  <2>3. QED BY <2>1, <2>2 DEF Range
<1>3. QED BY <1>1, <1>2

LEMMA SearchOwns ==
  ASSUME OwnInv, NEW r \in Req, NEW v \in Value, Search(r, v), CacheInv'
  PROVE  OwnInv'
<1>1. /\ pc' = [pc EXCEPT ![r] = "set"] /\ pc[r] = "search"
      /\ src' = [src EXCEPT ![r] = v] /\ dst' = dst
      /\ pool' = pool \ {v} /\ content' = [content EXCEPT ![v] = asked[r]]
      /\ asked' = asked /\ since' = since
      /\ v \in pool \/ v \notin Reachable
  <2>1. v \notin Reachable => pool = pool \ {v}
    BY DEF Reachable
  <2>2. QED BY <2>1 DEF Search, AcquireFor
<1>2. C!Held' = C!Held
  BY DEF Search, cacheVars, C!Held
<1>3. /\ v \notin C!Held
      /\ \A q \in Req : dst[q] # v
      /\ \A q \in Req : pc[q] = "set" => src[q] # v
  BY <1>1, FreshResult
<1>4. TypeOK'
  BY <1>1 DEF OwnInv, TypeOK, CacheInv
<1>5. pc'[r] = "set" /\ src'[r] = v /\ dst'[r] = NoValue /\ v # NoValue
        /\ \A p \in Req \ {r} : UNCHANGED <<pc[p], src[p], dst[p]>>
  BY <1>1, RoutesAssumption DEF OwnInv, TypeOK, Has
<1>6. \A p \in Req : Has(p)'
  BY <1>5 DEF OwnInv, Has
<1>7. PoolExclusive'
  BY <1>1, <1>2 DEF OwnInv, PoolExclusive
<1>8. OwnsNew(r)'
  BY <1>1, <1>2, <1>3, <1>5 DEF OwnsNew
<1>9. \A p \in Req \ {r} : OwnsNew(p)'
  BY <1>1, <1>2, <1>3, <1>5 DEF OwnInv, OwnsNew
<1>10. QED BY <1>4, <1>6, <1>7, <1>8, <1>9 DEF OwnInv

LEMMA StoreOwns ==
  ASSUME OwnInv, NEW r \in Req, Store(r), CacheInv'
  PROVE  OwnInv'
<1>1. /\ pc' = [pc EXCEPT ![r] = "acquire"] /\ pc[r] = "set"
      /\ src' = src /\ dst' = dst /\ pool' = pool /\ content' = content
      /\ asked' = asked /\ since' = [since EXCEPT ![r] = now]
  BY DEF Store, resultVars
<1>2. src[r] \in Value /\ KeyOf(asked[r]) \in Key
  BY <1>1 DEF OwnInv, TypeOK, Has, Key
<1>3. C!Held' \subseteq C!Held \cup {src[r]}
  BY <1>2, SetHolds DEF Store, OwnInv
<1>4. /\ src[r] \notin pool \cup C!Held
      /\ \A q \in Req : dst[q] # src[r]
      /\ \A q \in Req \ {r} : pc[q] = "set" => src[q] # src[r]
  BY <1>1 DEF OwnInv, OwnsNew
<1>5. now \in 0 .. MaxNow
  BY DEF OwnInv, CacheInv, C!TypeOK
<1>6. TypeOK'
  BY <1>1, <1>5 DEF OwnInv, TypeOK, CacheInv
<1>7. pc'[r] = "acquire" /\ \A p \in Req \ {r} : pc'[p] = pc[p]
  BY <1>1 DEF OwnInv, TypeOK
<1>8. \A p \in Req : Has(p)'
  BY <1>1, <1>7 DEF OwnInv, Has
<1>9. \A p \in Req : OwnsNew(p)'
  BY <1>1, <1>3, <1>4, <1>7 DEF OwnInv, OwnsNew
<1>10. PoolExclusive'
  BY <1>1, <1>3, <1>4 DEF OwnInv, PoolExclusive
<1>11. QED BY <1>6, <1>8, <1>9, <1>10 DEF OwnInv

LEMMA AcquireCopyOwns ==
  ASSUME OwnInv, NEW r \in Req, NEW v \in Value, AcquireCopy(r, v), CacheInv'
  PROVE  OwnInv'
<1>1. /\ pc' = [pc EXCEPT ![r] = "copy"] /\ pc[r] = "acquire"
      /\ src' = src /\ dst' = [dst EXCEPT ![r] = v] /\ pool' = pool \ {v}
      /\ content' = content \/ content' = [content EXCEPT ![v] = Blank]
      /\ asked' = asked /\ since' = since
      /\ v \in pool \/ v \notin Reachable
  <2>1. v \notin Reachable => pool = pool \ {v}
    BY DEF Reachable
  <2>2. QED BY <2>1 DEF AcquireCopy, Acquire
<1>2. C!Held' = C!Held
  BY DEF AcquireCopy, cacheVars, C!Held
<1>3. /\ v \notin C!Held
      /\ \A q \in Req : dst[q] # v
      /\ \A q \in Req : pc[q] = "set" => src[q] # v
  BY <1>1, FreshResult
<1>4. TypeOK'
  BY <1>1 DEF OwnInv, TypeOK, CacheInv
<1>5. pc'[r] = "copy" /\ dst'[r] = v /\ v # NoValue
        /\ \A p \in Req \ {r} : pc'[p] = pc[p] /\ dst'[p] = dst[p]
  BY <1>1, RoutesAssumption DEF OwnInv, TypeOK
<1>6. \A p \in Req : Has(p)'
  BY <1>1, <1>5 DEF OwnInv, Has
<1>7. \A p \in Req : OwnsNew(p)'
  BY <1>1, <1>2, <1>3, <1>5 DEF OwnInv, OwnsNew
<1>8. PoolExclusive'
  BY <1>1, <1>2, <1>3, <1>5 DEF OwnInv, PoolExclusive
<1>9. QED BY <1>4, <1>6, <1>7, <1>8 DEF OwnInv

LEMMA CopyOwns ==
  ASSUME OwnInv, NEW r \in Req, Copy(r), CacheInv'
  PROVE  OwnInv'
<1>1. /\ pc' = [pc EXCEPT ![r] = "use"] /\ pc[r] = "copy"
      /\ src' = [src EXCEPT ![r] = NoValue] /\ dst' = dst /\ pool' = pool
      /\ content' = [content EXCEPT ![dst[r]] = content[src[r]]]
      /\ asked' = asked /\ since' = since
  BY DEF Copy
<1>2. C!Held' = C!Held
  BY DEF Copy, cacheVars, C!Held
<1>3. src[r] \in Value /\ dst[r] \in Value
  BY <1>1 DEF OwnInv, TypeOK, Has
<1>4. TypeOK'
  BY <1>1, <1>3 DEF OwnInv, TypeOK, CacheInv
<1>5. pc'[r] = "use" /\ src'[r] = NoValue /\ dst'[r] = dst[r] /\ dst[r] # NoValue
        /\ \A p \in Req \ {r} : UNCHANGED <<pc[p], src[p], dst[p]>>
  BY <1>1, <1>3, RoutesAssumption DEF OwnInv, TypeOK
<1>6. Has(r)' /\ OwnsNew(r)'
  BY <1>5 DEF Has, OwnsNew
<1>7. pool' \subseteq pool /\ C!Held' \subseteq C!Held
  BY <1>1, <1>2
<1>8. PoolExclusive' /\ \A p \in Req \ {r} : (Has(p) /\ OwnsNew(p))'
  BY <1>5, <1>7, OthersOwn
<1>9. QED BY <1>4, <1>6, <1>8 DEF OwnInv

LEMMA DoneOwns ==
  ASSUME OwnInv, NEW r \in Req, Done(r), CacheInv'
  PROVE  OwnInv'
<1>1. /\ pc' = [pc EXCEPT ![r] = "idle"] /\ pc[r] = "use"
      /\ src' = src /\ dst' = [dst EXCEPT ![r] = NoValue] /\ pool' = pool \cup {dst[r]}
      /\ content' = [content EXCEPT ![dst[r]] = Blank]
      /\ asked' = asked /\ since' = since
  BY DEF Done, Release
<1>2. C!Held' = C!Held
  BY DEF Done, cacheVars, C!Held
<1>3. /\ dst[r] \in Value /\ dst[r] \notin C!Held
      /\ \A q \in Req \ {r} : dst[q] # dst[r]
  BY <1>1 DEF OwnInv, TypeOK, Has, PoolExclusive
<1>4. TypeOK'
  BY <1>1, <1>3 DEF OwnInv, TypeOK, CacheInv
<1>5. pc'[r] = "idle" /\ dst'[r] = NoValue
        /\ \A p \in Req \ {r} : pc'[p] = pc[p] /\ dst'[p] = dst[p]
  BY <1>1 DEF OwnInv, TypeOK
<1>6. \A p \in Req : Has(p)'
  BY <1>1, <1>5 DEF OwnInv, Has
<1>7. \A p \in Req : pc[p] = "set" => src[p] # NoValue
  BY DEF OwnInv, Has
<1>8. \A p \in Req : OwnsNew(p)'
  BY <1>1, <1>2, <1>3, <1>5, <1>7 DEF OwnInv, OwnsNew
<1>9. dst[r] # NoValue /\ NoValue \notin pool /\ NoValue \notin C!Held
  BY <1>3, HeldValues, RoutesAssumption
<1>10. PoolExclusive'
  BY <1>1, <1>2, <1>3, <1>5, <1>9 DEF OwnInv, PoolExclusive
<1>11. QED BY <1>4, <1>6, <1>8, <1>10 DEF OwnInv

LEMMA ReleasedOwns ==
  ASSUME OwnInv, NEW v \in Value, OnResultReleased(v), CacheInv'
  PROVE  OwnInv'
<1>1. /\ UNCHANGED <<pc, src, dst, asked, since>> /\ pool' = pool \cup {v}
      /\ content' = [content EXCEPT ![v] = Blank]
  BY DEF OnResultReleased, Release, reqVars
<1>2. C!Held' \subseteq C!Held \ {v} /\ v \in C!Held
  BY ReleaseHolds DEF OwnInv, OnResultReleased
<1>3. TypeOK'
  BY <1>1 DEF OwnInv, TypeOK, CacheInv
<1>4. \A p \in Req : Has(p)'
  BY <1>1 DEF OwnInv, Has
<1>5. \A p \in Req : OwnsNew(p)'
  BY <1>1, <1>2 DEF OwnInv, OwnsNew
<1>6. PoolExclusive'
  BY <1>1, <1>2 DEF OwnInv, PoolExclusive
<1>7. QED BY <1>3, <1>4, <1>5, <1>6 DEF OwnInv

(* The steps of the cache alone never add to what it holds. *)
LEMMA RestOwns ==
  ASSUME OwnInv, UNCHANGED <<resultVars, reqVars>>, C!Held' \subseteq C!Held, CacheInv'
  PROVE  OwnInv'
<1>1. UNCHANGED <<pc, src, dst, asked, since, pool, content>>
  BY DEF resultVars, reqVars
<1>2. TypeOK'
  BY <1>1 DEF OwnInv, TypeOK, CacheInv
<1>3. \A p \in Req : Has(p)' /\ OwnsNew(p)'
  BY <1>1 DEF OwnInv, Has, OwnsNew
<1>4. PoolExclusive'
  BY <1>1 DEF OwnInv, PoolExclusive
<1>5. QED BY <1>2, <1>3, <1>4 DEF OwnInv

LEMMA InitOwns == Init => OwnInv
<1> SUFFICES ASSUME Init PROVE OwnInv
  OBVIOUS
<1>1. CacheInv
  BY CacheInvInit DEF Init
<1>2. C!Held = {}
  BY DEF Init, C!Init, C!Held
<1>3. 0 \in 0 .. MaxNow
  BY CacheAssumption DEF C!ClockAssumption
<1>4. TypeOK
  BY <1>1, <1>3 DEF Init, TypeOK, CacheInv
<1>5. \A r \in Req : Has(r) /\ OwnsNew(r)
  BY DEF Init, Has, OwnsNew
<1>6. PoolExclusive
  BY <1>2 DEF Init, PoolExclusive
<1>7. QED BY <1>1, <1>4, <1>5, <1>6 DEF OwnInv

LEMMA NextOwns == OwnInv /\ [Next]_vars => OwnInv'
<1> SUFFICES ASSUME OwnInv, [Next]_vars PROVE OwnInv'
  OBVIOUS
<1>1. CacheInv'
  BY StepOfCache, CacheInvKept DEF OwnInv
<1>2. ASSUME NEW r \in Req, Request(r) PROVE OwnInv'
  BY <1>1, <1>2, HitOwns, MissOwns, SearchOwns, StoreOwns, AcquireCopyOwns, CopyOwns,
     DoneOwns DEF Request
<1>3. ASSUME NEW v \in Value, OnResultReleased(v) PROVE OwnInv'
  BY <1>1, <1>3, ReleasedOwns
<1>4. ASSUME NEW t \in passes, Evict(t) PROVE OwnInv'
  <2>1. C!Held' \subseteq C!Held
    BY <1>4, EvictHolds DEF Evict, OwnInv
  <2>2. QED BY <1>1, <1>4, <2>1, RestOwns DEF Evict
<1>5. ASSUME UNCHANGED <<store, releases, resultVars, reqVars>> PROVE OwnInv'
  <2>1. C!Held' = C!Held
    BY <1>5 DEF C!Held
  <2>2. QED BY <1>1, <1>5, <2>1, RestOwns
<1>6. CASE NewRoutes
  BY <1>5, <1>6 DEF NewRoutes, C!OnRelease
<1>7. ASSUME NEW d \in ClockDelta, ClockStep(d) PROVE OwnInv'
  BY <1>5, <1>7 DEF ClockStep, C!ClockStep, C!cacheVars
<1>8. CASE UNCHANGED vars
  BY <1>5, <1>8 DEF vars, cacheVars
<1>9. QED BY <1>2, <1>3, <1>4, <1>6, <1>7, <1>8 DEF Next

(* Every reachable state is well typed, the cache's part included. *)
THEOREM RoutesTypeCorrect == Spec => []TypeOK
<1>1. OwnInv => TypeOK
  BY DEF OwnInv
<1>2. QED BY InitOwns, NextOwns, <1>1, PTL DEF Spec

(* The pool only holds Results nobody else has, and no two requests ever    *)
(* work with the same one, whatever the clock does and however long a       *)
(* request is suspended.                                                    *)
THEOREM PoolTheorem == Spec => []PoolExclusive
<1>1. OwnInv => PoolExclusive
  BY DEF OwnInv
<1>2. QED BY InitOwns, NextOwns, <1>1, PTL DEF Spec

(* CachedRoute, the passes and the callbacks together are a behaviour of    *)
(* module Cache: every theorem of CacheProofs holds of them.                *)
THEOREM CacheTheorem == Spec => CacheSpec
<1>1. CacheStep => [C!Next]_(C!vars)
  BY DEF CacheStep, C!Next
<1>2. OwnInv /\ [Next]_vars => [C!Next]_(C!vars)
  BY StepOfCache, <1>1
<1>3. Init => C!Init
  BY DEF Init
<1>4. QED BY InitOwns, NextOwns, <1>2, <1>3, PTL DEF Spec, CacheSpec, C!Spec
------------------------------------------------------------------------------
(* Use after release.  Nothing in the code keeps a Result while a request   *)
(* copies from it but the time: it was read or stored a moment ago, and an  *)
(* entry is not evicted before it has been idle for Expire.                 *)
Copies(r) == pc[r] \in {"acquire", "copy"}

KeepsSource(r) ==
  Copies(r) =>
    /\ src[r] \notin pool
    /\ \A q \in Req : dst[q] # src[r]
    /\ releases[src[r]] = 0
    /\ \A q \in Req : pc[q] = "set" => src[q] # src[r]
    /\ \A k \in DOMAIN store : store[k].value = src[r] => store[k].peek >= since[r]
    /\ since[r] <= now
    /\ now - since[r] <= MaxPause

UseInv ==
  /\ OwnInv
  /\ \A t \in passes : t <= now
  /\ \A r \in Req : KeepsSource(r)

LEMMA Times ==
  ASSUME OwnInv
  PROVE  /\ now \in Nat /\ passes \subseteq Nat
         /\ \A r \in Req : since[r] \in Nat
         /\ \A k \in DOMAIN store : store[k].peek \in Nat /\ store[k].value \in Value
         /\ \A v \in Value : releases[v] \in Nat
<1>1. now \in Nat
  BY CacheAssumption DEF OwnInv, CacheInv, C!TypeOK, C!ClockAssumption
<1>2. \A r \in Req : since[r] \in Nat
  BY CacheAssumption DEF OwnInv, TypeOK, C!ClockAssumption
<1>3. QED BY <1>1, <1>2 DEF OwnInv, CacheInv, C!TypeOK, C!Entry

LEMMA HitKeeps ==
  ASSUME UseInv, NEW r \in Req, NEW q \in Lookup, LookupHit(r, q)
  PROVE  \A p \in Req : KeepsSource(p)'
<1> DEFINE k == KeyOf(q)
<1>1. k \in Key /\ k \in DOMAIN store /\ C!GetHit(k)
  BY DEF LookupHit, C!GetHit, Key
<1>2. /\ DOMAIN store' = DOMAIN store
      /\ \A j \in DOMAIN store : store'[j].value = store[j].value
      /\ store'[k].peek = now
      /\ \A j \in DOMAIN store : j # k => store'[j] = store[j]
      /\ releases' = releases /\ now' = now
  BY <1>1, GetHitHolds DEF UseInv, OwnInv
<1>3. /\ pc' = [pc EXCEPT ![r] = "acquire"]
      /\ src' = [src EXCEPT ![r] = store[k].value]
      /\ dst' = dst /\ pool' = pool
      /\ since' = [since EXCEPT ![r] = now]
  BY DEF LookupHit, resultVars
<1>4. /\ pc'[r] = "acquire" /\ src'[r] = store[k].value /\ since'[r] = now
      /\ \A p \in Req \ {r} : UNCHANGED <<pc[p], src[p], since[p]>>
  BY <1>3 DEF UseInv, OwnInv, TypeOK
<1>5. store[k].value \in C!Held
  BY <1>1 DEF C!Held
<1>6. KeepsSource(r)'
  <2>1. src'[r] \notin pool' /\ \A p \in Req : dst'[p] # src'[r]
    BY <1>3, <1>4, <1>5 DEF UseInv, OwnInv, PoolExclusive
  <2>2. releases'[src'[r]] = 0
    BY <1>1, <1>2, <1>4 DEF UseInv, OwnInv, CacheInv, C!SingleOwner
  <2>3. \A p \in Req : pc'[p] = "set" => src'[p] # src'[r]
    BY <1>4, <1>5 DEF UseInv, OwnInv, OwnsNew
  <2>4. \A j \in DOMAIN store' : store'[j].value = src'[r] => store'[j].peek >= since'[r]
    <3>1. \A j \in DOMAIN store' : store'[j].value = src'[r] => j = k
      BY <1>1, <1>2, <1>4 DEF UseInv, OwnInv, CacheInv, C!SingleOwner
    <3>2. QED BY <1>2, <1>4, <3>1, Times DEF UseInv
  <2>5. since'[r] <= now' /\ now' - since'[r] <= MaxPause
    BY <1>2, <1>4, Times, RoutesAssumption DEF UseInv
  <2>6. QED BY <2>1, <2>2, <2>3, <2>4, <2>5 DEF KeepsSource
<1>7. ASSUME NEW p \in Req \ {r}, Copies(p) PROVE KeepsSource(p)'
  <2>1. \A j \in DOMAIN store' : store'[j].value = src[p] => store'[j].peek >= since[p]
    BY <1>2, <1>7, Times DEF UseInv, KeepsSource
  <2>2. \A o \in Req : pc'[o] = "set" => src'[o] # src[p]
    BY <1>4, <1>7 DEF UseInv, KeepsSource
  <2>3. QED BY <1>2, <1>3, <1>4, <1>7, <2>1, <2>2 DEF UseInv, KeepsSource
<1>8. QED BY <1>4, <1>6, <1>7 DEF KeepsSource, Copies

(* With that, a Result acquired is not the source of any copy either. *)
LEMMA FreshSource ==
  ASSUME UseInv, NEW v \in Value, v \in pool \/ v \notin Reachable
  PROVE  \A q \in Req : Copies(q) => src[q] # v
<1>1. CASE v \in pool
  BY <1>1 DEF UseInv, KeepsSource
<1>2. CASE v \notin Reachable
  BY <1>2 DEF Reachable, Range, UseInv, OwnInv, TypeOK
<1>3. QED BY <1>1, <1>2

LEMMA StoreKeeps ==
  ASSUME UseInv, NEW r \in Req, Store(r)
  PROVE  \A p \in Req : KeepsSource(p)'
<1> DEFINE k == KeyOf(asked[r])
<1>1. /\ pc' = [pc EXCEPT ![r] = "acquire"] /\ pc[r] = "set"
      /\ src' = src /\ dst' = dst /\ pool' = pool
      /\ since' = [since EXCEPT ![r] = now]
  BY DEF Store, resultVars
<1>2. src[r] \in Value /\ k \in Key
  BY <1>1 DEF UseInv, OwnInv, TypeOK, Has, Key
<1>3. /\ \A j \in DOMAIN store' :
           \/ j \in DOMAIN store /\ store'[j] = store[j]
           \/ j = k /\ store'[j] = [value |-> src[r], peek |-> now]
      /\ releases' = releases /\ now' = now
  BY <1>2, SetHolds DEF Store, UseInv, OwnInv
<1>4. /\ src[r] \notin pool \cup C!Held
      /\ \A q \in Req : dst[q] # src[r]
      /\ \A q \in Req \ {r} : pc[q] = "set" => src[q] # src[r]
  BY <1>1 DEF UseInv, OwnInv, OwnsNew
<1>5. /\ pc'[r] = "acquire" /\ since'[r] = now
      /\ \A p \in Req \ {r} : pc'[p] = pc[p] /\ since'[p] = since[p]
  BY <1>1 DEF UseInv, OwnInv, TypeOK
<1>6. KeepsSource(r)'
  <2>1. releases'[src'[r]] = 0
    BY <1>1, <1>2, <1>3, <1>4, Times DEF C!Held, UseInv
  <2>2. \A j \in DOMAIN store : store[j].value # src[r]
    BY <1>4 DEF C!Held
  <2>3. \A j \in DOMAIN store' : store'[j].value = src'[r] => store'[j].peek >= since'[r]
    BY <1>1, <1>3, <1>5, <2>2, Times DEF UseInv
  <2>4. since'[r] <= now' /\ now' - since'[r] <= MaxPause
    BY <1>3, <1>5, Times, RoutesAssumption DEF UseInv
  <2>5. QED BY <1>1, <1>4, <1>5, <2>1, <2>3, <2>4 DEF KeepsSource
<1>7. ASSUME NEW p \in Req \ {r}, Copies(p) PROVE KeepsSource(p)'
  <2>1. src[p] # src[r]
    BY <1>1, <1>7 DEF UseInv, KeepsSource
  <2>2. \A j \in DOMAIN store' : store'[j].value = src[p] => store'[j].peek >= since[p]
    BY <1>3, <1>7, <2>1 DEF UseInv, KeepsSource
  <2>3. \A o \in Req : pc'[o] = "set" => src'[o] # src[p]
    BY <1>1, <1>5, <1>7 DEF UseInv, KeepsSource
  <2>4. QED BY <1>1, <1>3, <1>5, <1>7, <2>2, <2>3 DEF UseInv, KeepsSource
<1>8. QED BY <1>5, <1>6, <1>7 DEF KeepsSource, Copies

(* The steps that work on Results and leave the cache alone. *)
LEMMA ResultsKeep ==
  ASSUME UseInv, UNCHANGED <<cacheVars, now, since>>, NEW r \in Req, NEW v \in Value,
         \A p \in Req : Copies(p) => src[p] # v,
         \A p \in Req \ {r} : UNCHANGED <<pc[p], src[p], dst[p]>>,
         pool' \subseteq pool \cup {v},
         dst'[r] \in {dst[r], v, NoValue},
         Copies(r)' => Copies(r) /\ src'[r] = src[r],
         pc'[r] = "set" => src'[r] = v
  PROVE  \A p \in Req : KeepsSource(p)'
<1>1. ASSUME NEW p \in Req, Copies(p)' PROVE KeepsSource(p)'
  <2>1. Copies(p) /\ src'[p] = src[p] /\ src[p] # v
    BY <1>1 DEF Copies
  <2>2. src[p] # NoValue
    BY <2>1 DEF UseInv, OwnInv, Has, Copies
  <2>3. UNCHANGED <<store, releases, now, since>>
    BY DEF cacheVars
  <2>4. \A q \in Req : dst'[q] # src[p]
    BY <2>1, <2>2 DEF UseInv, KeepsSource
  <2>5. \A q \in Req : pc'[q] = "set" => src'[q] # src[p]
    BY <2>1 DEF UseInv, KeepsSource
  <2>6. src[p] \notin pool'
    BY <2>1 DEF UseInv, KeepsSource
  <2>7. QED BY <2>1, <2>3, <2>4, <2>5, <2>6 DEF UseInv, KeepsSource
<1>2. QED BY <1>1 DEF KeepsSource

LEMMA ReleasedKeeps ==
  ASSUME UseInv, NEW v \in Value, OnResultReleased(v)
  PROVE  \A p \in Req : KeepsSource(p)'
<1>1. UNCHANGED <<pc, src, dst, since, store, now>> /\ pool' = pool \cup {v}
  BY DEF OnResultReleased, Release, reqVars, C!RunRelease
<1>2. /\ releases[v] > 0 /\ \A w \in Value : releases'[w] <= releases[w]
      /\ releases' \in [Value -> Nat]
  BY ReleaseHolds DEF UseInv, OwnInv, OnResultReleased
<1>3. ASSUME NEW p \in Req, Copies(p) PROVE KeepsSource(p)'
  <2>1. src[p] \in Value /\ releases[src[p]] = 0
    BY <1>3 DEF UseInv, OwnInv, TypeOK, Has, Copies, KeepsSource
  <2>2. src[p] # v /\ releases'[src[p]] = 0
    BY <1>2, <2>1
  <2>3. QED BY <1>1, <1>3, <2>2 DEF UseInv, KeepsSource
<1>4. QED BY <1>1, <1>3 DEF KeepsSource, Copies

(* The heart of it: a pass evicts entries idle for more than Expire, and    *)
(* the entry a request copies from was used at most MaxPause ago.           *)
LEMMA EvictKeepsSource ==
  ASSUME UseInv, MaxPause <= Expire, NEW t \in passes, Evict(t)
  PROVE  \A p \in Req : KeepsSource(p)'
<1>1. UNCHANGED <<pc, src, dst, since, pool, now>>
  BY DEF Evict, C!Evict, resultVars, reqVars
<1>2. /\ DOMAIN store' \subseteq DOMAIN store
      /\ \A j \in DOMAIN store' : store'[j] = store[j]
      /\ \A v \in Value :
           releases'[v] = releases[v] \/ \E k \in C!Expired(t) : store[k].value = v
  BY EvictHolds DEF UseInv, OwnInv, Evict
<1>3. ASSUME NEW p \in Req, Copies(p) PROVE KeepsSource(p)'
  <2>1. src[p] \in Value /\ releases[src[p]] = 0
    BY <1>3 DEF UseInv, OwnInv, TypeOK, Has, Copies, KeepsSource
  <2>2. ASSUME NEW k \in C!Expired(t) PROVE store[k].value # src[p]
    <3>1. k \in DOMAIN store /\ t - store[k].peek > Expire
      BY DEF C!Expired
    <3>2. t <= now /\ t \in Nat /\ now \in Nat /\ since[p] \in Nat /\ store[k].peek \in Nat
      BY <3>1, Times DEF UseInv
    <3>3. now - since[p] <= MaxPause
      BY <1>3 DEF UseInv, KeepsSource
    <3>4. store[k].peek < since[p]
      BY <3>1, <3>2, <3>3, RoutesAssumption, CacheAssumption DEF C!ConfigAssumption
    <3>5. QED BY <1>3, <3>1, <3>2, <3>4 DEF UseInv, KeepsSource
  <2>3. releases'[src[p]] = 0
    BY <1>2, <2>1, <2>2
  <2>4. QED BY <1>1, <1>2, <1>3, <2>3 DEF UseInv, KeepsSource
<1>4. QED BY <1>1, <1>3 DEF KeepsSource, Copies

LEMMA NextKeeps ==
  ASSUME ClockDelta \subseteq Nat, MaxPause <= Expire, UseInv, [Next]_vars
  PROVE  \A p \in Req : KeepsSource(p)'
<1>1. ASSUME NEW r \in Req, Request(r) PROVE \A p \in Req : KeepsSource(p)'
  <2>1. ASSUME NEW q \in Lookup, LookupHit(r, q) PROVE \A p \in Req : KeepsSource(p)'
    BY <2>1, HitKeeps
  <2>2. ASSUME NEW q \in Lookup, LookupMiss(r, q) PROVE \A p \in Req : KeepsSource(p)'
    <3>1. /\ pc' = [pc EXCEPT ![r] = "search"] /\ pc[r] = "idle"
          /\ UNCHANGED <<src, dst, pool, since, store, releases, now>>
      BY <2>2 DEF LookupMiss, resultVars, C!GetMiss, C!vars, C!cacheVars
    <3>2. /\ pc'[r] = "search" /\ \A p \in Req \ {r} : pc'[p] = pc[p]
      BY <3>1 DEF UseInv, OwnInv, TypeOK
    <3>3. QED BY <3>1, <3>2 DEF UseInv, KeepsSource, Copies
  <2>3. ASSUME NEW v \in Value, Search(r, v) PROVE \A p \in Req : KeepsSource(p)'
    <3>1. /\ v \in pool \/ v \notin Reachable
          /\ UNCHANGED <<cacheVars, now, since, dst>> /\ pool' \subseteq pool
          /\ pc' = [pc EXCEPT ![r] = "set"] /\ src' = [src EXCEPT ![r] = v]
      BY <2>3 DEF Search, AcquireFor
    <3>2. /\ pc'[r] = "set" /\ src'[r] = v
          /\ \A p \in Req \ {r} : UNCHANGED <<pc[p], src[p], dst[p]>>
      BY <3>1 DEF UseInv, OwnInv, TypeOK
    <3>3. \A p \in Req : Copies(p) => src[p] # v
      BY <3>1, FreshSource
    <3>4. ~Copies(r)'
      BY <3>2 DEF Copies
    <3>5. dst'[r] = dst[r] /\ pool' \subseteq pool \cup {v}
      BY <3>1
    <3>6. QED BY <3>1, <3>2, <3>3, <3>4, <3>5, ResultsKeep
  <2>4. ASSUME NEW v \in Value, AcquireCopy(r, v) PROVE \A p \in Req : KeepsSource(p)'
    <3>1. /\ v \in pool \/ v \notin Reachable
          /\ UNCHANGED <<cacheVars, now, since, src>> /\ pool' \subseteq pool
          /\ pc[r] = "acquire"
          /\ pc' = [pc EXCEPT ![r] = "copy"] /\ dst' = [dst EXCEPT ![r] = v]
      BY <2>4 DEF AcquireCopy, Acquire
    <3>2. /\ pc'[r] = "copy" /\ dst'[r] = v /\ src'[r] = src[r]
          /\ \A p \in Req \ {r} : UNCHANGED <<pc[p], src[p], dst[p]>>
      BY <3>1 DEF UseInv, OwnInv, TypeOK
    <3>3. \A p \in Req : Copies(p) => src[p] # v
      BY <3>1, FreshSource
    <3>4. Copies(r) /\ pool' \subseteq pool \cup {v}
      BY <3>1 DEF Copies
    <3>5. QED BY <3>1, <3>2, <3>3, <3>4, ResultsKeep
  <2>5. CASE Store(r)
    BY <2>5, StoreKeeps
  <2>6. ASSUME Copy(r) \/ Done(r) PROVE \A p \in Req : KeepsSource(p)'
    <3>1. /\ UNCHANGED <<cacheVars, now, since>> /\ pc[r] \in {"copy", "use"}
          /\ pool' \subseteq pool \cup {dst[r]}
          /\ pc' = [pc EXCEPT ![r] = "use"] \/ pc' = [pc EXCEPT ![r] = "idle"]
          /\ src' = src \/ src' = [src EXCEPT ![r] = NoValue]
          /\ dst' = dst \/ dst' = [dst EXCEPT ![r] = NoValue]
      BY <2>6 DEF Copy, Done, Release
    <3>2. dst[r] \in Value
      BY <3>1 DEF UseInv, OwnInv, TypeOK, Has
    <3>3. /\ ~Copies(r)' /\ pc'[r] # "set" /\ dst'[r] \in {dst[r], NoValue}
          /\ \A p \in Req \ {r} : UNCHANGED <<pc[p], src[p], dst[p]>>
      BY <3>1 DEF UseInv, OwnInv, TypeOK, Copies
    <3>4. \A p \in Req : Copies(p) => src[p] # dst[r]
      BY DEF UseInv, KeepsSource
    <3>5. QED BY <3>1, <3>2, <3>3, <3>4, ResultsKeep
  <2>7. QED BY <1>1, <2>1, <2>2, <2>3, <2>4, <2>5, <2>6 DEF Request
<1>2. ASSUME NEW v \in Value, OnResultReleased(v) PROVE \A p \in Req : KeepsSource(p)'
  BY <1>2, ReleasedKeeps
<1>3. ASSUME NEW t \in passes, Evict(t) PROVE \A p \in Req : KeepsSource(p)'
  BY <1>3, EvictKeepsSource
<1>4. ASSUME NEW d \in ClockDelta, ClockStep(d) PROVE \A p \in Req : KeepsSource(p)'
  <2>1. /\ UNCHANGED <<pc, src, dst, since, pool, store, releases>> /\ now' = now + d
        /\ \A r \in Req : Copies(r) => now + d - since[r] <= MaxPause
    BY <1>4 DEF ClockStep, C!ClockStep, C!cacheVars, resultVars, reqVars, Copies
  <2>2. d \in Nat /\ now \in Nat /\ \A r \in Req : since[r] \in Nat
    BY Times DEF UseInv
  <2>3. ASSUME NEW p \in Req, Copies(p)
        PROVE  since'[p] <= now' /\ now' - since'[p] <= MaxPause
    BY <2>1, <2>2, <2>3 DEF UseInv, KeepsSource
  <2>4. QED BY <2>1, <2>3 DEF UseInv, KeepsSource, Copies
<1>5. ASSUME UNCHANGED <<pc, src, dst, since, pool, store, releases, now>>
      PROVE  \A p \in Req : KeepsSource(p)'
  BY <1>5 DEF UseInv, KeepsSource, Copies
<1>6. QED
  BY <1>1, <1>2, <1>3, <1>4, <1>5
     DEF Next, NewRoutes, C!OnRelease, vars, cacheVars, resultVars, reqVars

LEMMA NextPast ==
  ASSUME ClockDelta \subseteq Nat, UseInv, [Next]_vars
  PROVE  \A t \in passes' : t <= now'
<1>1. now \in Nat /\ passes \subseteq Nat /\ \A t \in passes : t <= now
  BY Times DEF UseInv
<1>2. passes' \subseteq passes \cup {now}
  BY StepOfCache DEF UseInv, CacheStep, C!GetHit, C!GetMiss, C!SetDropped, C!SetStored,
     C!OnRelease, C!Evict, C!RunRelease, C!ClockStep, C!ScheduleEvictLocked, C!vars, C!cacheVars
<1>3. now' = now \/ \E d \in ClockDelta : now' = now + d
  BY StepOfCache DEF UseInv, CacheStep, C!GetHit, C!GetMiss, C!SetDropped, C!SetStored,
     C!OnRelease, C!Evict, C!RunRelease, C!ClockStep, C!vars, C!cacheVars
<1>4. now <= now' /\ now' \in Nat
  BY <1>1, <1>3
<1>5. QED BY <1>1, <1>2, <1>4

LEMMA InitUse == Init => UseInv
<1> SUFFICES ASSUME Init PROVE UseInv
  OBVIOUS
<1>1. passes = {}
  BY DEF Init, C!Init
<1>2. \A r \in Req : KeepsSource(r)
  BY DEF Init, KeepsSource, Copies
<1>3. QED BY <1>1, <1>2, InitOwns DEF UseInv

LEMMA NextUse ==
  ASSUME ClockDelta \subseteq Nat, MaxPause <= Expire
  PROVE  UseInv /\ [Next]_vars => UseInv'
<1> SUFFICES ASSUME UseInv, [Next]_vars PROVE UseInv'
  OBVIOUS
<1>1. OwnInv'
  BY NextOwns DEF UseInv
<1>2. QED BY <1>1, NextKeeps, NextPast DEF UseInv

(* No request copies from a Result that is back in the pool, acquired by    *)
(* another request, or due to be released: if the clock is not set back and *)
(* no request is suspended in CachedRoute for more than Expire.  The code   *)
(* has nothing else to rely on.                                             *)
THEOREM ReleaseTheorem ==
  ASSUME ClockDelta \subseteq Nat, MaxPause <= Expire
  PROVE  Spec => []NoUseAfterRelease
<1>1. UseInv => NoUseAfterRelease
  BY DEF UseInv, NoUseAfterRelease, KeepsSource, Copies
<1>2. QED BY InitUse, NextUse, <1>1, PTL DEF Spec

------------------------------------------------------------------------------
(* The right result.  A Result stored under a key was routed for a lookup   *)
(* with that key, and keys tell lookups apart.                              *)
RightInv ==
  /\ \A r \in Req : pc[r] \in {"set", "acquire", "copy"} => content[src[r]] = asked[r]
  /\ RightResult
  /\ \A k \in DOMAIN store :
       /\ content[store[k].value] \in Lookup
       /\ KeyOf(content[store[k].value]) = k

LEMMA KeyInjective ==
  ASSUME NEW p \in Lookup, NEW q \in Lookup, KeyOf(p) = KeyOf(q)
  PROVE  p = q
BY DEF Lookup, KeyOf

LEMMA HitRight ==
  ASSUME UseInv, RightInv, NEW r \in Req, NEW q \in Lookup, LookupHit(r, q)
  PROVE  RightInv'
<1> DEFINE k == KeyOf(q)
<1>1. k \in Key /\ k \in DOMAIN store /\ C!GetHit(k)
  BY DEF LookupHit, C!GetHit, Key
<1>2. /\ DOMAIN store' = DOMAIN store
      /\ \A j \in DOMAIN store : store'[j].value = store[j].value
  BY <1>1, GetHitHolds DEF UseInv, OwnInv
<1>3. /\ pc' = [pc EXCEPT ![r] = "acquire"]
      /\ src' = [src EXCEPT ![r] = store[k].value] /\ dst' = dst
      /\ content' = content /\ asked' = [asked EXCEPT ![r] = q]
  BY DEF LookupHit, resultVars
<1>4. /\ pc'[r] = "acquire" /\ src'[r] = store[k].value /\ asked'[r] = q
      /\ \A p \in Req \ {r} : UNCHANGED <<pc[p], src[p], asked[p]>>
  BY <1>3 DEF UseInv, OwnInv, TypeOK
<1>5. content[store[k].value] = q
  BY <1>1, KeyInjective DEF RightInv
<1>6. QED BY <1>2, <1>3, <1>4, <1>5 DEF RightInv, RightResult

(* A Result that no request uses and the cache does not hold may be written. *)
LEMMA WriteRight ==
  ASSUME UseInv, RightInv, NEW v \in Value, UNCHANGED store,
         \A w \in Value \ {v} : content'[w] = content[w],
         v \notin {store[k].value : k \in DOMAIN store},
         NEW r \in Req, UNCHANGED asked,
         \A p \in Req \ {r} : UNCHANGED <<pc[p], src[p], dst[p]>>,
         \A p \in Req \ {r} : pc[p] = "use" => dst[p] # v,
         \A p \in Req \ {r} : pc[p] = "set" \/ Copies(p) => src[p] # v,
         pc'[r] \in {"set", "acquire", "copy"} => content'[src'[r]] = asked'[r],
         pc'[r] = "use" => content'[dst'[r]] = asked'[r]
  PROVE  RightInv'
<1>1. \A k \in DOMAIN store : store[k].value \in Value \ {v}
  BY Times DEF UseInv
<1>2. ASSUME NEW p \in Req \ {r}, pc[p] \in {"set", "acquire", "copy"}
      PROVE  content'[src'[p]] = asked'[p]
  <2>1. src[p] \in Value \ {v}
    BY <1>2 DEF UseInv, OwnInv, TypeOK, Has, Copies
  <2>2. QED BY <1>2, <2>1 DEF RightInv
<1>3. ASSUME NEW p \in Req \ {r}, pc[p] = "use"
      PROVE  content'[dst'[p]] = asked'[p]
  <2>1. dst[p] \in Value \ {v}
    BY <1>3 DEF UseInv, OwnInv, TypeOK, Has
  <2>2. QED BY <1>3, <2>1 DEF RightInv, RightResult
<1>4. QED BY <1>1, <1>2, <1>3 DEF RightInv, RightResult

LEMMA StoreRight ==
  ASSUME UseInv, RightInv, NEW r \in Req, Store(r)
  PROVE  RightInv'
<1> DEFINE k == KeyOf(asked[r])
<1>1. /\ pc' = [pc EXCEPT ![r] = "acquire"] /\ pc[r] = "set"
      /\ UNCHANGED <<src, dst, content, asked>>
  BY DEF Store, resultVars
<1>2. src[r] \in Value /\ k \in Key /\ asked[r] \in Lookup /\ content[src[r]] = asked[r]
  BY <1>1 DEF UseInv, OwnInv, TypeOK, Has, Key, RightInv
<1>3. \A j \in DOMAIN store' :
        \/ j \in DOMAIN store /\ store'[j] = store[j]
        \/ j = k /\ store'[j] = [value |-> src[r], peek |-> now]
  BY <1>2, SetHolds DEF Store, UseInv, OwnInv
<1>4. \A j \in DOMAIN store' : /\ content[store'[j].value] \in Lookup
                               /\ KeyOf(content[store'[j].value]) = j
  BY <1>2, <1>3 DEF RightInv
<1>5. \A p \in Req : pc'[p] = pc[p] \/ (pc[p] = "set" /\ pc'[p] = "acquire")
  BY <1>1 DEF UseInv, OwnInv, TypeOK
<1>6. QED BY <1>1, <1>4, <1>5 DEF RightInv, RightResult

LEMMA NextRight == UseInv /\ RightInv /\ [Next]_vars => RightInv'
<1> SUFFICES ASSUME UseInv, RightInv, [Next]_vars PROVE RightInv'
  OBVIOUS
<1>1. ASSUME NEW v \in Value, v \notin C!Held
      PROVE  v \notin {store[k].value : k \in DOMAIN store}
  BY <1>1 DEF C!Held
<1>2. ASSUME NEW r \in Req, Request(r) PROVE RightInv'
  <2>1. ASSUME NEW q \in Lookup, LookupHit(r, q) PROVE RightInv'
    BY <2>1, HitRight
  <2>2. ASSUME NEW q \in Lookup, LookupMiss(r, q) PROVE RightInv'
    <3>1. /\ pc' = [pc EXCEPT ![r] = "search"]
          /\ UNCHANGED <<src, dst, content, store>> /\ asked' = [asked EXCEPT ![r] = q]
      BY <2>2 DEF LookupMiss, resultVars, C!GetMiss, C!vars, C!cacheVars
    <3>2. /\ pc'[r] = "search" /\ \A p \in Req \ {r} : UNCHANGED <<pc[p], asked[p]>>
      BY <3>1 DEF UseInv, OwnInv, TypeOK
    <3>3. QED BY <3>1, <3>2 DEF RightInv, RightResult
  <2>3. ASSUME NEW v \in Value, Search(r, v) PROVE RightInv'
    <3>1. /\ v \in pool \/ v \notin Reachable
          /\ UNCHANGED <<store, dst, asked>>
          /\ content' = [content EXCEPT ![v] = asked[r]]
          /\ pc' = [pc EXCEPT ![r] = "set"] /\ src' = [src EXCEPT ![r] = v]
      BY <2>3 DEF Search, AcquireFor, cacheVars
    <3>2. /\ pc'[r] = "set" /\ src'[r] = v /\ content'[v] = asked[r]
          /\ \A w \in Value \ {v} : content'[w] = content[w]
          /\ \A p \in Req \ {r} : UNCHANGED <<pc[p], src[p], dst[p]>>
      BY <3>1 DEF UseInv, OwnInv, TypeOK
    <3>3. /\ \A p \in Req : pc[p] = "set" \/ Copies(p) => src[p] # v
          /\ \A p \in Req : dst[p] # v
          /\ v \notin C!Held
      BY <3>1, FreshSource, FreshResult DEF UseInv
    <3>4. pc'[r] \in {"set", "acquire", "copy"} => content'[src'[r]] = asked'[r]
      BY <3>1, <3>2
    <3>5. pc'[r] = "use" => content'[dst'[r]] = asked'[r]
      BY <3>2
    <3>6. v \notin {store[k].value : k \in DOMAIN store}
      BY <1>1, <3>3
    <3>7. QED BY <3>1, <3>2, <3>3, <3>4, <3>5, <3>6, WriteRight
  <2>4. ASSUME NEW v \in Value, AcquireCopy(r, v) PROVE RightInv'
    <3>1. /\ v \in pool \/ v \notin Reachable
          /\ UNCHANGED <<store, src, asked>> /\ pc[r] = "acquire"
          /\ content' = content \/ content' = [content EXCEPT ![v] = Blank]
          /\ pc' = [pc EXCEPT ![r] = "copy"] /\ dst' = [dst EXCEPT ![r] = v]
      BY <2>4 DEF AcquireCopy, Acquire, cacheVars
    <3>2. /\ pc'[r] = "copy"
          /\ \A w \in Value \ {v} : content'[w] = content[w]
          /\ \A p \in Req \ {r} : UNCHANGED <<pc[p], src[p], dst[p]>>
      BY <3>1 DEF UseInv, OwnInv, TypeOK
    <3>3. /\ \A p \in Req : pc[p] = "set" \/ Copies(p) => src[p] # v
          /\ \A p \in Req : dst[p] # v
          /\ v \notin C!Held
      BY <3>1, FreshSource, FreshResult DEF UseInv
    <3>4. content'[src'[r]] = asked'[r]
      <4>1. src[r] \in Value \ {v}
        BY <3>1, <3>3 DEF UseInv, OwnInv, TypeOK, Has, Copies
      <4>2. QED BY <3>1, <3>2, <4>1 DEF RightInv
    <3>5. v \notin {store[k].value : k \in DOMAIN store}
      BY <1>1, <3>3
    <3>6. pc'[r] # "use"
      BY <3>2
    <3>7. QED BY <3>1, <3>2, <3>3, <3>4, <3>5, <3>6, WriteRight
  <2>5. CASE Store(r)
    BY <2>5, StoreRight
  <2>6. CASE Copy(r)
    <3>1. /\ UNCHANGED <<store, dst, asked>> /\ pc[r] = "copy"
          /\ content' = [content EXCEPT ![dst[r]] = content[src[r]]]
          /\ pc' = [pc EXCEPT ![r] = "use"] /\ src' = [src EXCEPT ![r] = NoValue]
      BY <2>6 DEF Copy, cacheVars
    <3>2. /\ dst[r] \in Value /\ dst[r] \notin C!Held
          /\ \A p \in Req \ {r} : dst[p] # dst[r]
          /\ \A p \in Req : pc[p] = "set" \/ Copies(p) => src[p] # dst[r]
      BY <3>1 DEF UseInv, OwnInv, TypeOK, Has, PoolExclusive, OwnsNew, KeepsSource
    <3>3. /\ pc'[r] = "use" /\ content'[dst[r]] = content[src[r]]
          /\ \A w \in Value \ {dst[r]} : content'[w] = content[w]
          /\ \A p \in Req \ {r} : UNCHANGED <<pc[p], src[p], dst[p]>>
      BY <3>1, <3>2 DEF UseInv, OwnInv, TypeOK
    <3>4. content[src[r]] = asked[r]
      BY <3>1 DEF RightInv
    <3>5. pc'[r] = "use" => content'[dst'[r]] = asked'[r]
      BY <3>1, <3>3, <3>4
    <3>6. dst[r] \notin {store[k].value : k \in DOMAIN store}
      BY <1>1, <3>2
    <3>7. pc'[r] \notin {"set", "acquire", "copy"}
      BY <3>3
    <3>8. QED BY <3>1, <3>2, <3>3, <3>5, <3>6, <3>7, WriteRight
  <2>7. CASE Done(r)
    <3>1. /\ UNCHANGED <<store, src, asked>> /\ pc[r] = "use"
          /\ content' = [content EXCEPT ![dst[r]] = Blank]
          /\ pc' = [pc EXCEPT ![r] = "idle"] /\ dst' = [dst EXCEPT ![r] = NoValue]
      BY <2>7 DEF Done, Release, cacheVars
    <3>2. /\ dst[r] \in Value /\ dst[r] \notin C!Held
          /\ \A p \in Req \ {r} : dst[p] # dst[r]
          /\ \A p \in Req : pc[p] = "set" \/ Copies(p) => src[p] # dst[r]
      BY <3>1 DEF UseInv, OwnInv, TypeOK, Has, PoolExclusive, OwnsNew, KeepsSource
    <3>3. /\ pc'[r] = "idle"
          /\ \A w \in Value \ {dst[r]} : content'[w] = content[w]
          /\ \A p \in Req \ {r} : UNCHANGED <<pc[p], src[p], dst[p]>>
      BY <3>1, <3>2 DEF UseInv, OwnInv, TypeOK
    <3>4. dst[r] \notin {store[k].value : k \in DOMAIN store}
      BY <1>1, <3>2
    <3>5. pc'[r] \notin {"set", "acquire", "copy", "use"}
      BY <3>3
    <3>6. QED BY <3>1, <3>2, <3>3, <3>4, <3>5, WriteRight
  <2>8. QED BY <1>2, <2>1, <2>2, <2>3, <2>4, <2>5, <2>6, <2>7 DEF Request
<1>3. ASSUME NEW v \in Value, OnResultReleased(v) PROVE RightInv'
  <2>1. /\ UNCHANGED <<pc, src, dst, asked>> /\ content' = [content EXCEPT ![v] = Blank]
    BY <1>3 DEF OnResultReleased, Release, reqVars
  <2>2. store' = store /\ v \in C!Held /\ releases[v] > 0
          /\ \A k \in DOMAIN store : store[k].value # v
    BY <1>3, ReleaseHolds DEF UseInv, OwnInv, OnResultReleased
  <2>3. ASSUME NEW w \in Value, w # v PROVE content'[w] = content[w]
    BY <2>1, <2>3 DEF UseInv, OwnInv, TypeOK
  <2>4. ASSUME NEW p \in Req, pc[p] \in {"set", "acquire", "copy"}
        PROVE  content'[src'[p]] = asked'[p]
    <3>1. src[p] \in Value /\ src[p] # v
      BY <2>2, <2>4 DEF UseInv, OwnInv, TypeOK, Has, OwnsNew, KeepsSource, Copies
    <3>2. QED BY <2>1, <2>3, <2>4, <3>1 DEF RightInv
  <2>5. ASSUME NEW p \in Req, pc[p] = "use" PROVE content'[dst'[p]] = asked'[p]
    <3>1. dst[p] \in Value /\ dst[p] # v
      BY <2>2, <2>5 DEF UseInv, OwnInv, TypeOK, Has, PoolExclusive
    <3>2. QED BY <2>1, <2>3, <2>5, <3>1 DEF RightInv, RightResult
  <2>6. \A k \in DOMAIN store : content'[store[k].value] = content[store[k].value]
    BY <2>2, <2>3, Times DEF UseInv
  <2>7. QED BY <2>1, <2>2, <2>4, <2>5, <2>6 DEF RightInv, RightResult
<1>4. ASSUME NEW t \in passes, Evict(t) PROVE RightInv'
  <2>1. UNCHANGED <<pc, src, dst, asked, content>>
    BY <1>4 DEF Evict, resultVars, reqVars
  <2>2. DOMAIN store' \subseteq DOMAIN store /\ \A j \in DOMAIN store' : store'[j] = store[j]
    BY <1>4, EvictHolds DEF UseInv, OwnInv, Evict
  <2>3. QED BY <2>1, <2>2 DEF RightInv, RightResult
<1>5. ASSUME UNCHANGED <<pc, src, dst, asked, content, store>> PROVE RightInv'
  BY <1>5 DEF RightInv, RightResult
<1>6. QED
  BY <1>2, <1>3, <1>4, <1>5
     DEF Next, NewRoutes, C!OnRelease, ClockStep, C!ClockStep, C!cacheVars,
         vars, cacheVars, resultVars, reqVars

(* Under the same conditions each request works with the result routed for *)
(* its own method, path and offset.                                         *)
THEOREM RightTheorem ==
  ASSUME ClockDelta \subseteq Nat, MaxPause <= Expire
  PROVE  Spec => []RightResult
<1>1. Init => RightInv
  BY DEF Init, C!Init, RightInv, RightResult
<1>2. RightInv => RightResult
  BY DEF RightInv
<1>3. QED BY InitUse, NextUse, NextRight, <1>1, <1>2, PTL DEF Spec
==============================================================================
