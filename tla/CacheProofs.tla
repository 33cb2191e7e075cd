----------------------------- MODULE CacheProofs -----------------------------
(***************************************************************************)
(* Theorems about Cache, for every set of keys and values, every cap, and  *)
(* every behaviour of the wall clock (OnlyIdleEvicted alone asks that it   *)
(* is never set back).                                                     *)
(***************************************************************************)
EXTENDS Cache, FiniteSetTheorems, TLAPS

(* The invariants of the CacheSafety run are inductive together: the cap    *)
(* needs the finiteness of the domain, SingleOwner the counts' types.       *)
IInv == TypeOK /\ CapRespected /\ PassesSpaced /\ SingleOwner

(* A pass is never ahead of a clock that is not set back. *)
PassesPast == \A t \in passes : t <= now

------------------------------------------------------------------------------
(* Launching a callback per removed key gives each value at most one, and   *)
(* only to a value that is being removed (Dispatch, cache.go 237-239, 290). *)
LEMMA DispatchOnce ==
  ASSUME TypeOK, SingleOwner, NEW keys \in SUBSET DOMAIN store, Dispatch(keys)
  PROVE  /\ releases' \in [Value -> Nat]
         /\ \A v \in Value :
              \/ releases'[v] = releases[v]
              \/ /\ releases[v] = 0
                 /\ releases'[v] = 1
                 /\ \E k \in keys : store[k].value = v
<1>1. CASE ~onRelease
  BY <1>1 DEF Dispatch, TypeOK
<1>2. CASE onRelease
  <2> DEFINE With(v) == {k \in keys : store[k].value = v}
  <2>1. releases' = [v \in Value |-> releases[v] + Cardinality(With(v))]
    BY <1>2 DEF Dispatch
  <2>2. ASSUME NEW v \in Value
        PROVE  \/ Cardinality(With(v)) = 0
               \/ /\ Cardinality(With(v)) = 1
                  /\ \E k \in keys : store[k].value = v
    <3>1. CASE With(v) = {}
      BY <3>1, FS_EmptySet
    <3>2. CASE With(v) # {}
      <4>1. PICK k \in keys : store[k].value = v
        BY <3>2
      <4>2. With(v) = {k}
        BY <4>1 DEF SingleOwner
      <4>3. QED BY <4>1, <4>2, FS_Singleton
    <3>3. QED BY <3>1, <3>2
  <2>3. ASSUME NEW v \in Value, NEW k \in keys, store[k].value = v
        PROVE  releases[v] = 0
    BY <2>3 DEF SingleOwner
  <2> HIDE DEF With
  <2>4. ASSUME NEW v \in Value
        PROVE  /\ releases'[v] = releases[v] + Cardinality(With(v))
               /\ releases[v] \in Nat
    BY <2>1 DEF TypeOK
  <2>5. ASSUME NEW v \in Value
        PROVE  /\ releases'[v] \in Nat
               /\ \/ releases'[v] = releases[v]
                  \/ /\ releases[v] = 0
                     /\ releases'[v] = 1
                     /\ \E k \in keys : store[k].value = v
    <3>1. CASE Cardinality(With(v)) = 0
      BY <2>4, <3>1
    <3>2. CASE Cardinality(With(v)) = 1 /\ \E k \in keys : store[k].value = v
      BY <2>3, <2>4, <3>2
    <3>3. QED BY <2>2, <3>1, <3>2
  <2>6. releases' = [v \in Value |-> releases'[v]]
    BY <2>1
  <2>7. QED BY <2>5, <2>6
<1>3. QED BY <1>1, <1>2 DEF TypeOK

(* Removing keys, with their callbacks, keeps every entry well typed and    *)
(* owned once, and the map within the cap (Del and evict).                  *)
LEMMA RemovalSafe ==
  ASSUME TypeOK, CapRespected, SingleOwner,
         NEW keys \in SUBSET DOMAIN store,
         store' = Restrict(store, DOMAIN store \ keys),
         Dispatch(keys)
  PROVE  /\ DOMAIN store' \subseteq Key
         /\ IsFiniteSet(DOMAIN store')
         /\ \A k \in DOMAIN store' : store'[k] \in Entry
         /\ releases' \in [Value -> Nat]
         /\ CapRespected'
         /\ SingleOwner'
<1>1. /\ DOMAIN store' = DOMAIN store \ keys
      /\ \A k \in DOMAIN store' : store'[k] = store[k]
  BY DEF Restrict
<1>2. /\ DOMAIN store' \subseteq Key
      /\ \A k \in DOMAIN store' : store'[k] \in Entry
  BY <1>1 DEF TypeOK
<1>3. /\ IsFiniteSet(DOMAIN store')
      /\ Cardinality(DOMAIN store') <= Cardinality(DOMAIN store)
  BY <1>1, FS_Subset DEF TypeOK
<1>4. CapRespected'
  BY <1>3, FS_CardinalityType, ConfigAssumption DEF TypeOK, CapRespected, Len
<1>5. /\ releases' \in [Value -> Nat]
      /\ \A v \in Value :
           \/ releases'[v] = releases[v]
           \/ /\ releases[v] = 0
              /\ releases'[v] = 1
              /\ \E k \in keys : store[k].value = v
  BY DispatchOnce
<1>6. \A v \in Value : releases'[v] <= 1
  BY <1>5 DEF SingleOwner
<1>7. ASSUME NEW k \in DOMAIN store'
      PROVE  releases'[store'[k].value] = 0
  <2>1. /\ k \in DOMAIN store
        /\ k \notin keys
        /\ store'[k] = store[k]
        /\ store[k].value \in Value
    BY <1>1 DEF TypeOK, Entry
  <2>2. \A j \in keys : store[j].value # store[k].value
    BY <2>1 DEF SingleOwner
  <2>3. QED BY <1>5, <2>1, <2>2 DEF SingleOwner
<1>8. SingleOwner'
  BY <1>1, <1>6, <1>7 DEF SingleOwner
<1>9. QED BY <1>2, <1>3, <1>4, <1>5, <1>8

(* Launching a pass keeps the passes Interval apart: the deadline is never  *)
(* less than Interval after the last launch (scheduleEvictLocked).          *)
LEMMA ScheduleSafe ==
  ASSUME TypeOK, PassesSpaced, ScheduleEvictLocked
  PROVE  next' \in Nat /\ passes' \subseteq Nat /\ PassesSpaced'
<1>1. CASE UNCHANGED <<next, passes>>
  BY <1>1 DEF TypeOK, PassesSpaced
<1>2. CASE now >= next /\ next' = now + Interval /\ passes' = passes \cup {now}
  <2>1. now \in Nat
    BY ClockAssumption DEF TypeOK
  <2>2. next' \in Nat /\ passes' \subseteq Nat
    BY <1>2, <2>1, ConfigAssumption DEF TypeOK
  <2>3. \A t \in passes : t \in Nat /\ t + Interval <= now
    BY <1>2, <2>1, ConfigAssumption DEF TypeOK, PassesSpaced
  <2>4. PassesSpaced'
    BY <1>2, <2>1, <2>3, ConfigAssumption DEF TypeOK, PassesSpaced
  <2>5. QED BY <2>2, <2>4
<1>3. QED BY <1>1, <1>2 DEF ScheduleEvictLocked

(* Reading or writing an entry (Get, Set) keeps the map within the cap and  *)
(* every value owned once, given that the value written is the old one or   *)
(* one the cache does not hold.                                             *)
LEMMA GetHitSafe ==
  ASSUME IInv, NEW k \in Key, GetHit(k)
  PROVE  IInv'
<1>1. /\ DOMAIN store' = DOMAIN store
      /\ \A j \in DOMAIN store : /\ store'[j] \in Entry
                                 /\ store'[j].value = store[j].value
  <2>1. k \in DOMAIN store /\ store' = [store EXCEPT ![k].peek = now]
    BY DEF GetHit
  <2>2. now \in Nat
    BY ClockAssumption DEF IInv, TypeOK
  <2>3. QED BY <2>1, <2>2 DEF IInv, TypeOK, Entry
<1>2. next' \in Nat /\ passes' \subseteq Nat /\ PassesSpaced'
  BY ScheduleSafe DEF IInv, GetHit
<1>3. UNCHANGED <<onRelease, releases, now>>
  BY DEF GetHit
<1>4. TypeOK'
  BY <1>1, <1>2, <1>3 DEF IInv, TypeOK
<1>5. CapRespected'
  BY <1>1 DEF IInv, CapRespected, Len
<1>6. SingleOwner'
  BY <1>1, <1>3 DEF IInv, SingleOwner
<1>7. QED BY <1>2, <1>4, <1>5, <1>6 DEF IInv

LEMMA SetStoredSafe ==
  ASSUME IInv, NEW k \in Key, NEW v \in Value \ Held, SetStored(k, v)
  PROVE  IInv'
<1> DEFINE e == [value |-> v, peek |-> now]
<1>1. /\ DOMAIN store' = DOMAIN store \cup {k}
      /\ store'[k] = e
      /\ \A j \in DOMAIN store' : j # k => /\ j \in DOMAIN store
                                           /\ store'[j] = store[j]
  BY DEF SetStored, Put
<1>2. e \in Entry
  BY ClockAssumption DEF IInv, TypeOK, Entry
<1>3. next' \in Nat /\ passes' \subseteq Nat /\ PassesSpaced'
  BY ScheduleSafe DEF IInv, SetStored
<1>4. UNCHANGED <<onRelease, releases, now>>
  BY DEF SetStored
<1>5. /\ IsFiniteSet(DOMAIN store')
      /\ Cardinality(DOMAIN store') =
           IF k \in DOMAIN store THEN Len ELSE Len + 1
  BY <1>1, FS_AddElement DEF IInv, TypeOK, Len
<1>6. TypeOK'
  BY <1>1, <1>2, <1>3, <1>4, <1>5 DEF IInv, TypeOK
<1>7. CapRespected'
  <2>1. Len \in Nat
    BY FS_CardinalityType DEF IInv, TypeOK, Len
  <2>2. k \in DOMAIN store \/ ~(MaxEntries > 0 /\ Len >= MaxEntries)
    BY DEF SetStored, Full
  <2>3. QED BY <1>5, <2>1, <2>2, ConfigAssumption DEF IInv, CapRespected, Len
<1>8. /\ releases[v] = 0
      /\ \A j \in DOMAIN store : store[j].value # v
  BY DEF Held, IInv, TypeOK
<1>9. SingleOwner'
  <2>1. \A j \in DOMAIN store' : store'[j].value = v => j = k
    BY <1>1, <1>8
  <2>2. QED BY <1>1, <1>4, <1>8, <2>1 DEF IInv, SingleOwner
<1>10. QED BY <1>3, <1>6, <1>7, <1>9 DEF IInv

LEMMA SetDroppedSafe ==
  ASSUME IInv, NEW k \in Key, SetDropped(k)
  PROVE  IInv'
<1>1. next' \in Nat /\ passes' \subseteq Nat /\ PassesSpaced'
  BY ScheduleSafe DEF IInv, SetDropped
<1>2. UNCHANGED <<store, onRelease, releases, now>>
  BY DEF SetDropped
<1>3. TypeOK'
  BY <1>1, <1>2 DEF IInv, TypeOK
<1>4. CapRespected' /\ SingleOwner'
  BY <1>2 DEF IInv, CapRespected, SingleOwner, Len
<1>5. QED BY <1>1, <1>3, <1>4 DEF IInv

(* Init establishes, and every step keeps, the inductive invariant. *)
LEMMA InitIInv == Init => IInv
<1> SUFFICES ASSUME Init PROVE IInv
  OBVIOUS
<1>0. DOMAIN store = {}
  BY DEF Init
<1>1. TypeOK
  <2>1. IsFiniteSet(DOMAIN store)
    BY <1>0, FS_EmptySet
  <2>2. now \in 0 .. MaxNow /\ next \in Nat
    BY ConfigAssumption, ClockAssumption DEF Init
  <2>3. releases \in [Value -> Nat] /\ passes \subseteq Nat /\ onRelease \in BOOLEAN
    BY DEF Init
  <2>4. QED BY <1>0, <2>1, <2>2, <2>3 DEF TypeOK
<1>2. CapRespected
  BY <1>0, ConfigAssumption, FS_EmptySet DEF CapRespected, Len
<1>3. PassesSpaced /\ SingleOwner
  BY <1>0 DEF Init, PassesSpaced, SingleOwner
<1>4. QED BY <1>1, <1>2, <1>3 DEF IInv

LEMMA NextIInv == IInv /\ [Next]_vars => IInv'
<1> SUFFICES ASSUME IInv, [Next]_vars PROVE IInv'
  OBVIOUS
<1>1. ASSUME NEW k \in Key, GetHit(k) PROVE IInv'
  BY <1>1, GetHitSafe
<1>2. CASE UNCHANGED vars
  BY <1>2 DEF IInv, TypeOK, CapRespected, PassesSpaced, SingleOwner, Len,
              vars, cacheVars
<1>3. ASSUME NEW k \in Key, Del(k) PROVE IInv'
  <2>1. PassesSpaced'
    BY <1>3 DEF Del, IInv, PassesSpaced
  <2>2. {k} \in SUBSET DOMAIN store
    BY <1>3 DEF Del
  <2>3. /\ DOMAIN store' \subseteq Key
        /\ IsFiniteSet(DOMAIN store')
        /\ \A j \in DOMAIN store' : store'[j] \in Entry
        /\ releases' \in [Value -> Nat]
        /\ CapRespected'
        /\ SingleOwner'
    BY <1>3, <2>2, RemovalSafe DEF Del, IInv
  <2>4. QED BY <1>3, <2>1, <2>3 DEF Del, IInv, TypeOK
<1>4. ASSUME NEW k \in Key, SetDropped(k) PROVE IInv'
  BY <1>4, SetDroppedSafe
<1>5. ASSUME NEW k \in Key, NEW v \in Value \ Held, SetStored(k, v) PROVE IInv'
  BY <1>5, SetStoredSafe
<1>6. ASSUME NEW cb \in BOOLEAN, OnRelease(cb) PROVE IInv'
  BY <1>6 DEF OnRelease, IInv, TypeOK, CapRespected, PassesSpaced, SingleOwner, Len
<1>7. ASSUME NEW t \in passes, Evict(t) PROVE IInv'
  <2>1. PassesSpaced' /\ passes' \subseteq Nat
    BY <1>7 DEF Evict, IInv, TypeOK, PassesSpaced
  <2>2. Expired(t) \in SUBSET DOMAIN store
    BY DEF Expired
  <2>3. /\ DOMAIN store' \subseteq Key
        /\ IsFiniteSet(DOMAIN store')
        /\ \A j \in DOMAIN store' : store'[j] \in Entry
        /\ releases' \in [Value -> Nat]
        /\ CapRespected'
        /\ SingleOwner'
    BY <1>7, <2>2, RemovalSafe DEF Evict, IInv
  <2>4. QED BY <1>7, <2>1, <2>3 DEF Evict, IInv, TypeOK
<1>8. ASSUME NEW v \in Value, RunRelease(v) PROVE IInv'
  <2>1. /\ releases' \in [Value -> Nat]
        /\ \A w \in Value : releases'[w] <= releases[w]
    BY <1>8 DEF RunRelease, IInv, TypeOK
  <2>2. UNCHANGED <<store, next, onRelease, passes, now>>
    BY <1>8 DEF RunRelease
  <2>3. TypeOK' /\ CapRespected' /\ PassesSpaced'
    BY <2>1, <2>2 DEF IInv, TypeOK, CapRespected, PassesSpaced, Len
  <2>4. SingleOwner'
    <3>1. \A w \in Value : releases'[w] <= 1
      BY <2>1 DEF IInv, TypeOK, SingleOwner
    <3>2. \A k \in DOMAIN store : store[k].value \in Value
      BY DEF IInv, TypeOK, Entry
    <3>3. \A k \in DOMAIN store : releases'[store[k].value] = 0
      BY <2>1, <3>2 DEF IInv, TypeOK, SingleOwner
    <3>4. QED BY <2>2, <3>1, <3>3 DEF IInv, SingleOwner
  <2>5. QED BY <2>3, <2>4 DEF IInv
<1>9. ASSUME NEW d \in ClockDelta, ClockStep(d) PROVE IInv'
  BY <1>9 DEF ClockStep, cacheVars, IInv, TypeOK, CapRespected, PassesSpaced,
              SingleOwner, Len
<1>10. QED
  BY <1>1, <1>2, <1>3, <1>4, <1>5, <1>6, <1>7, <1>8, <1>9 DEF Next, GetMiss

(* Every reachable state of the cache is well typed. *)
THEOREM CacheTypeCorrect == Spec => []TypeOK
<1>1. IInv => TypeOK
  BY DEF IInv
<1>2. QED BY InitIInv, NextIInv, <1>1, PTL DEF Spec

(* The map never outgrows a positive MaxEntries. *)
THEOREM CapTheorem == Spec => []CapRespected
<1>1. IInv => CapRespected
  BY DEF IInv
<1>2. QED BY InitIInv, NextIInv, <1>1, PTL DEF Spec

(* Eviction passes are launched at least Interval apart, whatever the wall *)
(* clock does.                                                              *)
THEOREM SpacingTheorem == Spec => []PassesSpaced
<1>1. IInv => PassesSpaced
  BY DEF IInv
<1>2. QED BY InitIInv, NextIInv, <1>1, PTL DEF Spec

(* No value is released twice, or released while a key still maps to it.    *)
THEOREM OwnershipTheorem == Spec => []SingleOwner
<1>1. IInv => SingleOwner
  BY DEF IInv
<1>2. QED BY InitIInv, NextIInv, <1>1, PTL DEF Spec

------------------------------------------------------------------------------
(* With a clock that is not set back, a pass never runs ahead of it.        *)
LEMMA PassesPastInv ==
  ASSUME ClockDelta \subseteq Nat
  PROVE  /\ Init => PassesPast
         /\ IInv /\ PassesPast /\ [Next]_vars => PassesPast'
<1>1. Init => PassesPast
  BY DEF Init, PassesPast
<1>2. ASSUME IInv, PassesPast, [Next]_vars PROVE PassesPast'
  <2>1. now \in Nat /\ now' >= now
    <3>1. now \in Nat
      BY <1>2, ClockAssumption DEF IInv, TypeOK
    <3>2. now' = now \/ \E d \in ClockDelta : now' = now + d
      BY <1>2 DEF Next, GetHit, GetMiss, Del, SetDropped, SetStored, OnRelease,
                  Evict, RunRelease, ClockStep, vars, cacheVars
    <3>3. QED BY <3>1, <3>2
  <2>2. passes' \subseteq passes \cup {now}
    BY <1>2 DEF Next, GetHit, GetMiss, Del, SetDropped, SetStored, OnRelease,
                Evict, RunRelease, ClockStep, ScheduleEvictLocked, vars, cacheVars
  <2>3. passes \subseteq Nat
    BY <1>2 DEF IInv, TypeOK
  <2>4. now' \in Nat
    BY <1>2, NextIInv, ClockAssumption DEF IInv, TypeOK
  <2>5. QED BY <1>2, <2>1, <2>2, <2>3, <2>4 DEF PassesPast
<1>3. QED BY <1>1, <1>2

(* An entry read or written within the last Expire milliseconds is never    *)
(* evicted, however late the pass that looks at it runs.                    *)
THEOREM IdleTheorem ==
  ASSUME ClockDelta \subseteq Nat
  PROVE  Spec => OnlyIdleEvicted
<1> DEFINE Step == \A t \in passes \ passes' : \A k \in DOMAIN store \ DOMAIN store' :
                      now - store[k].peek > Expire
<1>1. IInv /\ PassesPast /\ [Next]_vars => [Step]_vars
  <2> SUFFICES ASSUME IInv, PassesPast, Next, NEW t \in passes \ passes',
                      NEW k \in DOMAIN store \ DOMAIN store'
               PROVE  now - store[k].peek > Expire
    OBVIOUS
  <2>1. PICK s \in passes : Evict(s)
    BY DEF Next, GetHit, GetMiss, Del, SetDropped, SetStored, OnRelease,
           RunRelease, ClockStep, ScheduleEvictLocked, vars, cacheVars
  <2>2. k \in Expired(s)
    BY <2>1 DEF Evict, Restrict
  <2>3. s \in Nat /\ s <= now /\ now \in Nat /\ store[k].peek \in Nat
    BY ClockAssumption DEF IInv, TypeOK, PassesPast, Entry
  <2>4. QED BY <2>2, <2>3, ConfigAssumption DEF Expired
<1>2. QED
  BY InitIInv, NextIInv, PassesPastInv, <1>1, PTL DEF Spec, OnlyIdleEvicted
==============================================================================
