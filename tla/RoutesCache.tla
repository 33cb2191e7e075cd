----------------------------- MODULE RoutesCache -----------------------------
(***************************************************************************)
(* pkg/route: CachedRoute over the cache of pkg/util and the pool of       *)
(* Results, run by concurrent requests.                                    *)
(*                                                                         *)
(* A Result is an object of Value; its fields are abstracted to the lookup *)
(* they were routed for, or Blank after Reset.  The cache is an instance   *)
(* of module Cache on the same variables.  CachedRoute takes the object    *)
(* out of the cache under the cache's mutex and copies it after the mutex  *)
(* is released; the pool may meanwhile get the object back from the        *)
(* cache's release callback, onResultReleased.                             *)
(***************************************************************************)
EXTENDS Integers, FiniteSets, Functions

CONSTANTS
  Value, Expire, Interval, MaxEntries, ClockDelta, MaxNow,   \* module Cache
  Method, Path, Offset,   \* what CachedRoute is called with
  Req,        \* concurrent requests
  NoValue,    \* a nil *Result
  Blank,      \* the content of a Result after Reset
  MaxPause    \* how long a request may be suspended in CachedRoute

VARIABLES
  store, next, onRelease, passes, releases, now,   \* module Cache
  pool,       \* resultPool: Results free to be acquired
  content,    \* Result -> the lookup it was routed for, or Blank
  pc,         \* where each request is in CachedRoute
  asked,      \* its lookup
  src,        \* the Result it copies from
  dst,        \* the Result it copies to, and then works with
  since       \* when it last left the cache's critical section

cacheVars == <<store, next, onRelease, passes, releases>>
resultVars == <<pool, content>>
reqVars == <<pc, asked, src, dst, since>>
vars == <<cacheVars, now, resultVars, reqVars>>

Lookup == [method : Method, path : Path, off : Offset]

\* Variant: the offset is not written to the key.
KeyNoOffset(q) == <<q.method, q.path>>

\* The fields of a CacheKey, each with its length, so that none runs into the
\* next; that two keys do not hash to the same 64 bits is assumed.
KeyOf(q) == <<q.off, q.method, q.path>>

Key == {KeyOf(q) : q \in Lookup}

C == INSTANCE Cache

ASSUME CacheAssumption == C!ConfigAssumption /\ C!ClockAssumption

ASSUME RoutesAssumption ==
  /\ NoValue \notin Value
  /\ Blank \notin Lookup
  /\ MaxPause \in Nat

------------------------------------------------------------------------------
\* A Result no one can reach is garbage: the allocator may use it again.
Reachable == pool \cup C!Held \cup Range(src) \cup Range(dst)

\* AcquireResult: sync.Pool may return any pooled object, or nil, in which
\* case a zero Result is allocated.
Acquire(v) ==
  \/ /\ v \in pool
     /\ pool' = pool \ {v}
     /\ content' = content
  \/ /\ v \in Value \ Reachable
     /\ pool' = pool
     /\ content' = [content EXCEPT ![v] = Blank]

\* AcquireResult followed by writes that make it the result for q.
AcquireFor(v, q) ==
  \/ /\ v \in pool
     /\ pool' = pool \ {v}
     /\ content' = [content EXCEPT ![v] = q]
  \/ /\ v \in Value \ Reachable
     /\ pool' = pool
     /\ content' = [content EXCEPT ![v] = q]

\* Result.Release: Reset, then resultPool.Put.
Release(v) ==
  /\ content' = [content EXCEPT ![v] = Blank]
  /\ pool' = pool \cup {v}

Init ==
  /\ C!Init
  /\ pool = {}
  /\ content = [v \in Value |-> Blank]
  /\ pc = [r \in Req |-> "idle"]
  /\ asked \in [Req -> Lookup]
  /\ src = [r \in Req |-> NoValue]
  /\ dst = [r \in Req |-> NoValue]
  /\ since = [r \in Req |-> 0]

\* NewRoutes registers onResultReleased before any request is served.
NewRoutes ==
  /\ ~onRelease
  /\ C!OnRelease(TRUE)
  /\ UNCHANGED <<resultVars, reqVars>>

\* Variant: on a hit the request works with the cached Result itself.
LookupHitShares(r, q) ==
  /\ onRelease
  /\ pc[r] = "idle"
  /\ C!GetHit(KeyOf(q))
  /\ asked' = [asked EXCEPT ![r] = q]
  /\ dst' = [dst EXCEPT ![r] = store[KeyOf(q)].value]
  /\ pc' = [pc EXCEPT ![r] = "use"]
  /\ UNCHANGED <<resultVars, src, since>>

\* rs.cache.Get(key) returns a Result.
LookupHit(r, q) ==
  /\ onRelease
  /\ pc[r] = "idle"
  /\ C!GetHit(KeyOf(q))
  /\ asked' = [asked EXCEPT ![r] = q]
  /\ src' = [src EXCEPT ![r] = store[KeyOf(q)].value]
  /\ since' = [since EXCEPT ![r] = now]
  /\ pc' = [pc EXCEPT ![r] = "acquire"]
  /\ UNCHANGED <<resultVars, dst>>

LookupMiss(r, q) ==
  /\ onRelease
  /\ pc[r] = "idle"
  /\ C!GetMiss(KeyOf(q))
  /\ asked' = [asked EXCEPT ![r] = q]
  /\ pc' = [pc EXCEPT ![r] = "search"]
  /\ UNCHANGED <<resultVars, src, dst, since>>

\* result := rs.Route(method, path, off).
Search(r, v) ==
  /\ pc[r] = "search"
  /\ AcquireFor(v, asked[r])
  /\ src' = [src EXCEPT ![r] = v]
  /\ pc' = [pc EXCEPT ![r] = "set"]
  /\ UNCHANGED <<cacheVars, now, asked, dst, since>>

\* Variant: a Result the full cache drops is released at once.
StoreOrRelease(r) ==
  /\ pc[r] = "set"
  /\ \/ C!SetStored(KeyOf(asked[r]), src[r]) /\ UNCHANGED resultVars
     \/ C!SetDropped(KeyOf(asked[r])) /\ Release(src[r])
  /\ since' = [since EXCEPT ![r] = now]
  /\ pc' = [pc EXCEPT ![r] = "acquire"]
  /\ UNCHANGED <<asked, src, dst>>

\* rs.cache.Set(key, result).
Store(r) ==
  /\ pc[r] = "set"
  /\ C!SetStored(KeyOf(asked[r]), src[r]) \/ C!SetDropped(KeyOf(asked[r]))
  /\ since' = [since EXCEPT ![r] = now]
  /\ pc' = [pc EXCEPT ![r] = "acquire"]
  /\ UNCHANGED <<resultVars, asked, src, dst>>

\* The argument of result.CopyTo(AcquireResult()).
AcquireCopy(r, v) ==
  /\ pc[r] = "acquire"
  /\ Acquire(v)
  /\ dst' = [dst EXCEPT ![r] = v]
  /\ pc' = [pc EXCEPT ![r] = "copy"]
  /\ UNCHANGED <<cacheVars, now, asked, src, since>>

\* CopyTo reads src with no lock held.
Copy(r) ==
  /\ pc[r] = "copy"
  /\ content' = [content EXCEPT ![dst[r]] = content[src[r]]]
  /\ src' = [src EXCEPT ![r] = NoValue]
  /\ pc' = [pc EXCEPT ![r] = "use"]
  /\ UNCHANGED <<cacheVars, now, pool, asked, dst, since>>

\* Handle has dealt with the result: result.Release().
Done(r) ==
  /\ pc[r] = "use"
  /\ Release(dst[r])
  /\ dst' = [dst EXCEPT ![r] = NoValue]
  /\ pc' = [pc EXCEPT ![r] = "idle"]
  /\ UNCHANGED <<cacheVars, now, asked, src, since>>

\* A pass of the cache runs in its own goroutine.
Evict(t) ==
  /\ C!Evict(t)
  /\ UNCHANGED <<resultVars, reqVars>>

\* go onRelease(k, v), that is onResultReleased.
OnResultReleased(v) ==
  /\ C!RunRelease(v)
  /\ Release(v)
  /\ UNCHANGED reqVars

\* Time passes, but no request is suspended between the cache and the end of
\* its copy for more than MaxPause.
ClockStep(d) ==
  /\ \A r \in Req : pc[r] \in {"acquire", "copy"} => now + d - since[r] <= MaxPause
  /\ C!ClockStep(d)
  /\ UNCHANGED <<resultVars, reqVars>>

Request(r) ==
  \/ \E q \in Lookup : LookupHit(r, q) \/ LookupMiss(r, q)
  \/ \E v \in Value : Search(r, v) \/ AcquireCopy(r, v)
  \/ Store(r) \/ Copy(r) \/ Done(r)

Next ==
  \/ NewRoutes
  \/ \E r \in Req : Request(r)
  \/ \E t \in passes : Evict(t)
  \/ \E v \in Value : OnResultReleased(v)
  \/ \E d \in ClockDelta : ClockStep(d)

Spec == Init /\ [][Next]_vars

------------------------------------------------------------------------------
(* The types of the variables (route.go 203-233, result.go 11-23). *)
TypeOK ==
  /\ C!TypeOK
  /\ pool \subseteq Value
  /\ content \in [Value -> Lookup \cup {Blank}]
  /\ pc \in [Req -> {"idle", "search", "set", "acquire", "copy", "use"}]
  /\ asked \in [Req -> Lookup]
  /\ src \in [Req -> Value \cup {NoValue}]
  /\ dst \in [Req -> Value \cup {NoValue}]
  /\ since \in [Req -> 0 .. MaxNow]

(* "Do not access the released Result object" (result.go 99): no request is *)
(* about to copy from a Result that is back in the pool, that another       *)
(* request has acquired, or that is due to be released.                     *)
NoUseAfterRelease ==
  \A r \in Req : pc[r] \in {"acquire", "copy"} =>
    /\ src[r] \notin pool
    /\ \A q \in Req : dst[q] # src[r]
    /\ releases[src[r]] = 0

(* Each request works with the result that was routed for its own method,   *)
(* path and offset, whatever is cached, evicted or pooled meanwhile.        *)
RightResult ==
  \A r \in Req : pc[r] = "use" => content[dst[r]] = asked[r]

(* The pool only holds Results nobody else has: none that the cache still   *)
(* maps a key to or will release again, and none a request works with; two  *)
(* requests never work with the same one.                                   *)
PoolExclusive ==
  /\ pool \cap C!Held = {}
  /\ \A r \in Req : dst[r] \notin pool \cup C!Held
  /\ \A q, r \in Req : q # r /\ dst[q] = dst[r] => dst[q] = NoValue

(* CachedRoute is a well-behaved client of the cache: it only ever sets     *)
(* Results the cache does not hold (route.go 230-231).                      *)
CacheSpec == C!Spec
==============================================================================
