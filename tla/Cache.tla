-------------------------------- MODULE Cache --------------------------------
(***************************************************************************)
(* pkg/util/cache.go: the expiring map behind the routes cache.            *)
(*                                                                         *)
(* Every exported operation runs under c.mutex and is one action.  Two     *)
(* things outlive the critical section and are actions of their own: an    *)
(* eviction pass launched by scheduleEvictLocked ("go c.evict(now)", which *)
(* keeps the time it was launched at and may run arbitrarily later) and a  *)
(* callback launched by Del or by a pass ("go onRelease(k, v)").           *)
(*                                                                         *)
(* Values are the objects a caller hands over; the cache never looks into  *)
(* them.  The key argument of onRelease is left out: its only client,      *)
(* route.onResultReleased, ignores it.  Mutexes are not modelled apart     *)
(* from the atomicity they give.                                           *)
(***************************************************************************)
EXTENDS Integers, FiniteSets, Functions

CONSTANTS
  Key,          \* cache keys (64-bit hashes in the code)
  Value,        \* objects a caller may hand to Set
  Expire,       \* c.expire, milliseconds
  Interval,     \* c.interval, milliseconds
  MaxEntries,   \* c.max; zero or negative: unbounded
  ClockDelta,   \* how far one step of the wall clock may move
  MaxNow        \* bound: the clock stays in 0 .. MaxNow

\* NewCache replaces a non-positive Expire or Interval by a positive default.
ASSUME ConfigAssumption ==
  /\ Expire \in Nat \ {0}
  /\ Interval \in Nat \ {0}
  /\ MaxEntries \in Int

ASSUME ClockAssumption ==
  /\ ClockDelta \subseteq Int
  /\ MaxNow \in Nat

VARIABLES
  store,        \* c.store: a function from the stored keys to cacheValue
  next,         \* c.next: no pass is launched before this time
  onRelease,    \* whether c.onRelease is set
  passes,       \* launch times of the eviction goroutines still to run
  releases,     \* value -> callback goroutines still to run with it
  now           \* cacheNow(), the wall clock

cacheVars == <<store, next, onRelease, passes, releases>>
vars == <<cacheVars, now>>

Entry == [value : Value, peek : Nat]

\* Values the cache still answers for: stored, or waiting for their callback.
Held == {store[k].value : k \in DOMAIN store} \cup {v \in Value : releases[v] > 0}

Put(f, k, e) == [x \in DOMAIN f \cup {k} |-> IF x = k THEN e ELSE f[x]]

Len == Cardinality(DOMAIN store)

FullLate == MaxEntries > 0 /\ Len > MaxEntries   \* variant: off by one

Full == MaxEntries > 0 /\ Len >= MaxEntries

\* One goroutine per removed key, and none when no callback is set.
Dispatch(keys) ==
  releases' = IF onRelease
              THEN [v \in Value |->
                      releases[v] + Cardinality({k \in keys : store[k].value = v})]
              ELSE releases

------------------------------------------------------------------------------
Init ==
  /\ store = [k \in {} |-> 0]
  /\ now = 0
  /\ next = now + Interval
  /\ onRelease = FALSE
  /\ passes = {}
  /\ releases = [v \in Value |-> 0]

\* Variant: the interval is added to the old deadline instead of to the time.
ScheduleDrifting ==
  \/ /\ now < next
     /\ UNCHANGED <<next, passes>>
  \/ /\ now >= next
     /\ next' = next + Interval
     /\ passes' = passes \cup {now}

\* Variant: the pass is given the deadline, not the time it is launched at.
ScheduleAtNext ==
  \/ /\ now < next
     /\ UNCHANGED <<next, passes>>
  \/ /\ now >= next
     /\ next' = now + Interval
     /\ passes' = passes \cup {next'}

\* The caller holds c.mutex.
ScheduleEvictLocked ==
  \/ /\ now < next
     /\ UNCHANGED <<next, passes>>
  \/ /\ now >= next
     /\ next' = now + Interval
     /\ passes' = passes \cup {now}

GetHit(k) ==
  /\ k \in DOMAIN store
  /\ store' = [store EXCEPT ![k].peek = now]
  /\ ScheduleEvictLocked
  /\ UNCHANGED <<onRelease, releases, now>>

\* A miss returns before the clock is read: it launches no pass.
GetMiss(k) ==
  /\ k \notin DOMAIN store
  /\ UNCHANGED vars

\* An overwritten value is forgotten: no callback runs for it.
SetStored(k, v) ==
  /\ k \in DOMAIN store \/ ~Full
  /\ store' = Put(store, k, [value |-> v, peek |-> now])
  /\ ScheduleEvictLocked
  /\ UNCHANGED <<onRelease, releases, now>>

\* At the cap a new key is dropped, but a pass may still be launched.
SetDropped(k) ==
  /\ k \notin DOMAIN store
  /\ Full
  /\ ScheduleEvictLocked
  /\ UNCHANGED <<store, onRelease, releases, now>>

Set(k, v) == SetStored(k, v) \/ SetDropped(k)

Del(k) ==
  /\ k \in DOMAIN store
  /\ store' = Restrict(store, DOMAIN store \ {k})
  /\ Dispatch({k})
  /\ UNCHANGED <<next, onRelease, passes, now>>

OnRelease(cb) ==
  /\ onRelease' = cb
  /\ UNCHANGED <<store, next, passes, releases, now>>

\* The keys a pass launched at t finds expired when it gets the lock.
Expired(t) == {k \in DOMAIN store : t - store[k].peek > Expire}

\* Variant: a pass stops at the first expired entry it meets.
EvictFirst(t) ==
  /\ t \in passes
  /\ passes' = passes \ {t}
  /\ LET gone == IF Expired(t) = {} THEN {} ELSE {CHOOSE k \in Expired(t) : TRUE}
     IN  store' = Restrict(store, DOMAIN store \ gone) /\ Dispatch(gone)
  /\ UNCHANGED <<next, onRelease, now>>

\* Variant: the expired entries are released but stay in the map.
EvictKeeps(t) ==
  /\ t \in passes
  /\ passes' = passes \ {t}
  /\ Dispatch(Expired(t))
  /\ UNCHANGED <<store, next, onRelease, now>>

Evict(t) ==
  /\ t \in passes
  /\ passes' = passes \ {t}
  /\ store' = Restrict(store, DOMAIN store \ Expired(t))
  /\ Dispatch(Expired(t))
  /\ UNCHANGED <<next, onRelease, now>>

\* Variant: a callback that was never launched.
RunReleaseUnasked(v) ==
  /\ releases' = [releases EXCEPT ![v] = @ - 1]
  /\ UNCHANGED <<store, next, onRelease, passes, now>>

\* A callback goroutine runs; what it does with v is the client's business.
RunRelease(v) ==
  /\ releases[v] > 0
  /\ releases' = [releases EXCEPT ![v] = @ - 1]
  /\ UNCHANGED <<store, next, onRelease, passes, now>>

\* time.Now().UnixMilli() is the wall clock: an adjustment may set it back.
ClockStep(d) ==
  /\ now + d \in 0 .. MaxNow
  /\ now' = now + d
  /\ UNCHANGED cacheVars

\* Callers hand over objects they own: CachedRoute sets only a Result it has
\* just acquired, never one the cache still holds.
Next ==
  \/ \E k \in Key : GetHit(k) \/ GetMiss(k) \/ Del(k) \/ SetDropped(k)
  \/ \E k \in Key, v \in Value \ Held : SetStored(k, v)
  \/ \E cb \in BOOLEAN : OnRelease(cb)
  \/ \E t \in passes : Evict(t)
  \/ \E v \in Value : RunRelease(v)
  \/ \E d \in ClockDelta : ClockStep(d)

Spec == Init /\ [][Next]_vars

\* The Go scheduler eventually runs every launched goroutine.
Fairness ==
  /\ \A t \in 0 .. MaxNow : WF_vars(Evict(t))
  /\ \A v \in Value : WF_vars(RunRelease(v))

FairSpec == Spec /\ Fairness

------------------------------------------------------------------------------
(* The types of the variables (cache.go 138-146). *)
TypeOK ==
  /\ DOMAIN store \subseteq Key
  /\ IsFiniteSet(DOMAIN store)
  /\ \A k \in DOMAIN store : store[k] \in Entry
  /\ next \in Nat
  /\ onRelease \in BOOLEAN
  /\ passes \subseteq Nat
  /\ releases \in [Value -> Nat]
  /\ now \in 0 .. MaxNow

(* "MaxEntries caps the number of stored entries" (cache.go 163-166): no    *)
(* sequence of Set, Get, Del and passes takes the map beyond the cap.       *)
CapRespected == MaxEntries > 0 => Len <= MaxEntries

(* "Interval is the minimum gap between background eviction passes"         *)
(* (cache.go 160-161): however late they run, two passes in flight were     *)
(* launched at least Interval apart, and so will the next one be, even when *)
(* the wall clock is set back in between.                                   *)
PassesSpaced ==
  /\ \A s, t \in passes : s < t => s + Interval <= t
  /\ \A t \in passes : t + Interval <= next

(* A value has one owner: it is stored under at most one key, has at most   *)
(* one callback pending, and none while it is stored (cache.go 228-240,     *)
(* 278-300).  The client's callback puts the value back into a pool, so     *)
(* breaking this hands one object to two requests.                          *)
SingleOwner ==
  /\ \A j, k \in DOMAIN store : store[j].value = store[k].value => j = k
  /\ \A v \in Value : releases[v] <= 1
  /\ \A k \in DOMAIN store : releases[store[k].value] = 0

(* "Get ... extends its expiration" (cache.go 192): a pass may run long     *)
(* after its launch, but an entry it removes has not been read or written   *)
(* for more than Expire milliseconds of the present clock.  Holds of a      *)
(* clock that is never set back.                                            *)
OnlyIdleEvicted ==
  [][\A t \in passes \ passes' : \A k \in DOMAIN store \ DOMAIN store' :
        now - store[k].peek > Expire]_vars

(* "An entry whose peek timestamp is older than Expire is removed on the    *)
(* next eviction pass" (cache.go 156-158): once a pass is launched, every   *)
(* entry that was idle for too long at the launch is removed or touched     *)
(* again; none slips through.                                               *)
IdleIsEvicted ==
  \A k \in Key, p \in 0 .. MaxNow :
    LET Untouched == k \in DOMAIN store /\ store[k].peek = p
    IN  (Untouched /\ \E t \in passes : t - p > Expire) ~> ~Untouched
==============================================================================
