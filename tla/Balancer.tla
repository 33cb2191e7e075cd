------------------------------ MODULE Balancer ------------------------------
(***************************************************************************)
(* pkg/handler/proxy.go: a proxy handler with several backends.  Requests  *)
(* pick a backend, one atomic load at a time, while the goroutine of the   *)
(* health check sends a HEAD to each backend in turn and swaps its flag.   *)
(*                                                                         *)
(* Backends are numbered as in b.backends.  A HEAD takes time: what it     *)
(* learns may be old when the flag is swapped, and it may fail although    *)
(* the backend is up (a timeout).  The counter of round-robin has 64 bits  *)
(* in the code and CounterMod values here.                                 *)
(***************************************************************************)
EXTENDS Integers, FiniteSets, FiniteSetsExt

CONSTANTS
  N,             \* len(b.backends)
  CounterMod,    \* 2^64
  Request,       \* requests
  Hash,          \* request -> hash of the client's address, without its port
  HealthCheck,   \* whether healthCheckInterval > 0
  MaxFaults      \* bound: changes of a backend, and HEADs lost although it is up

\* len(b.backends) is an int, so twice of it fits a uint64.
ASSUME BalancerAssumption ==
  /\ N \in Nat \ {0}
  /\ CounterMod \in Nat /\ CounterMod >= 2 * N
  /\ Hash \in [Request -> 0 .. CounterMod - 1]
  /\ HealthCheck \in BOOLEAN
  /\ MaxFaults \in Nat

Backend == 0 .. N - 1
None == N
BackendState == {"up", "down", "silent"}

VARIABLES
  algorithm,  \* b.algorithm
  state,      \* backend -> whether it answers, refuses, or accepts and is silent
  faults,     \* changes of state and lost HEADs left
  \* proxyBalancer
  alive,      \* backends whose flag is set
  counter,    \* b.counter
  \* the health check
  checking,   \* the backend being checked, or N between two ticks
  answer,     \* "none", or what headBackend returned
  \* requests
  pc,         \* where each request is
  start,      \* its start
  i,          \* its loop counter
  picked,     \* the backend it picked, or None
  answered,   \* the status it is answered with, or 0
  \* history
  steady,     \* request -> backends alive all through its pick
  allAlive    \* no backend was ever marked down

envVars == <<state, faults>>
checkVars == <<checking, answer>>
pickVars == <<pc, start, i, picked, answered>>
vars == <<algorithm, envVars, alive, counter, checkVars, pickVars, steady, allAlive>>

Init ==
  /\ algorithm \in {"round-robin", "random", "ip-hash"}
  /\ state \in [Backend -> BackendState]
  /\ faults = MaxFaults
  /\ alive = Backend
  /\ counter = 0
  /\ checking = None
  /\ answer = "none"
  /\ pc = [r \in Request |-> "arrives"]
  /\ start = [r \in Request |-> 0]
  /\ i = [r \in Request |-> 0]
  /\ picked = [r \in Request |-> None]
  /\ answered = [r \in Request |-> 0]
  /\ steady = [r \in Request |-> {}]
  /\ allAlive = TRUE

------------------------------------------------------------------------------
(* pick and ServeHTTP *)

BeginsAt(r, s) ==
  /\ start' = [start EXCEPT ![r] = s]
  /\ steady' = [steady EXCEPT ![r] = alive]
  /\ pc' = [pc EXCEPT ![r] = "loop"]
  /\ UNCHANGED <<algorithm, envVars, alive, checkVars, i, picked, answered, allAlive>>

\* Variant: the counter is loaded and stored as two operations.
RoundRobinSplit(r) ==
  /\ algorithm = "round-robin"
  /\ \/ /\ pc[r] = "arrives"
        /\ start' = [start EXCEPT ![r] = counter]
        /\ pc' = [pc EXCEPT ![r] = "store"]
        /\ UNCHANGED <<algorithm, envVars, alive, counter, checkVars, i, picked, answered,
                       steady, allAlive>>
     \/ /\ pc[r] = "store"
        /\ counter' = (start[r] + 1) % CounterMod
        /\ BeginsAt(r, start[r])

\* start = b.counter.Add(1) - 1
RoundRobin(r) ==
  /\ algorithm = "round-robin"
  /\ pc[r] = "arrives"
  /\ counter' = (counter + 1) % CounterMod
  /\ BeginsAt(r, counter)

\* start = rand.Uint64N(n)
Random(r) ==
  /\ algorithm = "random"
  /\ pc[r] = "arrives"
  /\ \E s \in Backend : BeginsAt(r, s)
  /\ UNCHANGED counter

\* Variant: the port, new for each connection, is hashed too.
IPHashAndPort(r) ==
  /\ algorithm = "ip-hash"
  /\ pc[r] = "arrives"
  /\ \E port \in Backend : BeginsAt(r, (Hash[r] + port) % N)
  /\ UNCHANGED counter

\* start = hashClientIP(r) % n
IPHash(r) ==
  /\ algorithm = "ip-hash"
  /\ pc[r] = "arrives"
  /\ BeginsAt(r, Hash[r] % N)
  /\ UNCHANGED counter

\* b.backends[(start+i)%n]: start + i is a uint64.
Candidate(s, j) == ((s + j) % CounterMod) % N

\* Variant: the loop ends one backend early.
LoadAliveShort(r) ==
  /\ pc[r] = "loop"
  /\ IF Candidate(start[r], i[r]) \in alive
     THEN /\ picked' = [picked EXCEPT ![r] = Candidate(start[r], i[r])]
          /\ pc' = [pc EXCEPT ![r] = "forward"]
          /\ UNCHANGED i
     ELSE /\ i' = [i EXCEPT ![r] = @ + 1]
          /\ pc' = [pc EXCEPT ![r] = IF i[r] + 1 < N - 1 THEN "loop" ELSE "forward"]
          /\ UNCHANGED picked
  /\ UNCHANGED <<algorithm, envVars, alive, counter, checkVars, start, answered, steady, allAlive>>

\* Variant: the loop goes on until it finds a backend.
LoadAliveForever(r) ==
  /\ pc[r] = "loop"
  /\ IF Candidate(start[r], i[r]) \in alive
     THEN /\ picked' = [picked EXCEPT ![r] = Candidate(start[r], i[r])]
          /\ pc' = [pc EXCEPT ![r] = "forward"]
          /\ UNCHANGED i
     ELSE /\ i' = [i EXCEPT ![r] = (@ + 1) % N]
          /\ UNCHANGED <<picked, pc>>
  /\ UNCHANGED <<algorithm, envVars, alive, counter, checkVars, start, answered, steady, allAlive>>

\* One round of the loop: be.alive.Load()
LoadAlive(r) ==
  /\ pc[r] = "loop"
  /\ IF Candidate(start[r], i[r]) \in alive
     THEN /\ picked' = [picked EXCEPT ![r] = Candidate(start[r], i[r])]
          /\ pc' = [pc EXCEPT ![r] = "forward"]
          /\ UNCHANGED i
     ELSE /\ i' = [i EXCEPT ![r] = @ + 1]
          /\ pc' = [pc EXCEPT ![r] = IF i[r] + 1 < N THEN "loop" ELSE "forward"]
          /\ UNCHANGED picked
  /\ UNCHANGED <<algorithm, envVars, alive, counter, checkVars, start, answered, steady, allAlive>>

Answers(r, status) ==
  /\ pc[r] = "forward"
  /\ answered' = [answered EXCEPT ![r] = status]
  /\ pc' = [pc EXCEPT ![r] = "answered"]
  /\ UNCHANGED <<algorithm, envVars, alive, counter, checkVars, start, i, picked, steady, allAlive>>

\* pick returned nil.
Unavailable(r) == picked[r] = None /\ Answers(r, 503)

\* The reverse proxy answers what the backend does, or 502 when it refuses.  It
\* has no timeout: nothing happens as long as the backend is silent.
Forward(r) ==
  /\ picked[r] # None
  /\ state[picked[r]] # "silent"
  /\ Answers(r, IF state[picked[r]] = "up" THEN 200 ELSE 502)

ServeHTTP(r) == Unavailable(r) \/ Forward(r)

Handle(r) == RoundRobin(r) \/ Random(r) \/ IPHash(r) \/ LoadAlive(r) \/ ServeHTTP(r)

------------------------------------------------------------------------------
(* runHealthCheck *)

\* for range tick: the first backend is next.
Tick ==
  /\ HealthCheck
  /\ checking = None
  /\ checking' = 0
  /\ UNCHANGED <<algorithm, envVars, alive, counter, answer, pickVars, steady, allAlive>>

\* headBackend: the backend answers, or it refuses, or the HEAD times out.
HeadBackend ==
  /\ checking \in Backend
  /\ answer = "none"
  /\ \/ answer' = (IF state[checking] = "up" THEN "ok" ELSE "error") /\ UNCHANGED faults
     \/ /\ state[checking] = "up"
        /\ faults > 0
        /\ answer' = "error"
        /\ faults' = faults - 1
  /\ UNCHANGED <<algorithm, state, alive, counter, checking, pickVars, steady, allAlive>>

\* The picks under way lose the backends whose flag is cleared.
Steady == [r \in Request |-> IF pc[r] = "loop" THEN steady[r] \cap alive' ELSE steady[r]]

\* Variant: backends that are marked down are not asked again.
SwapDownOnly ==
  /\ checking \in Backend
  /\ answer # "none"
  /\ alive' = IF answer = "ok" THEN alive ELSE alive \ {checking}
  /\ steady' = Steady
  /\ allAlive' = (allAlive /\ alive' = Backend)
  /\ checking' = checking + 1
  /\ answer' = "none"
  /\ UNCHANGED <<algorithm, envVars, counter, pickVars>>

\* be.alive.Swap(alive), and on to the next backend.
Swap ==
  /\ checking \in Backend
  /\ answer # "none"
  /\ alive' = IF answer = "ok" THEN alive \cup {checking} ELSE alive \ {checking}
  /\ steady' = Steady
  /\ allAlive' = (allAlive /\ alive' = Backend)
  /\ checking' = checking + 1
  /\ answer' = "none"
  /\ UNCHANGED <<algorithm, envVars, counter, pickVars>>

RunHealthCheck == Tick \/ HeadBackend \/ Swap

\* A backend goes down, falls silent or comes back.
Change(b) ==
  /\ faults > 0
  /\ faults' = faults - 1
  /\ \E st \in BackendState \ {state[b]} : state' = [state EXCEPT ![b] = st]
  /\ UNCHANGED <<algorithm, alive, counter, checkVars, pickVars, steady, allAlive>>

Next ==
  \/ \E r \in Request : Handle(r)
  \/ RunHealthCheck
  \/ \E b \in Backend : Change(b)

Spec == Init /\ [][Next]_vars

\* The ticker ticks, a HEAD ends (its timeout is at most five seconds), and the
\* goroutines of the health check and of the requests run.  Nothing is assumed of
\* the backend a request is forwarded to.
Fairness ==
  /\ WF_vars(RunHealthCheck)
  /\ \A r \in Request : WF_vars(LoadAlive(r)) /\ WF_vars(Unavailable(r))

FairSpec == Spec /\ Fairness

------------------------------------------------------------------------------
(* The types of the variables (proxy.go 36-47, 80-100, 146-160). *)
TypeOK ==
  /\ algorithm \in {"round-robin", "random", "ip-hash"}
  /\ state \in [Backend -> BackendState]
  /\ faults \in 0 .. MaxFaults
  /\ alive \subseteq Backend
  /\ counter \in 0 .. CounterMod - 1
  /\ checking \in 0 .. N
  /\ answer \in {"none", "ok", "error"}
  /\ pc \in [Request -> {"arrives", "loop", "forward", "answered"}]
  /\ start \in [Request -> 0 .. CounterMod - 1]
  /\ i \in [Request -> 0 .. N]
  /\ picked \in [Request -> 0 .. N]
  /\ answered \in [Request -> {0, 200, 502, 503}]
  /\ steady \in [Request -> SUBSET Backend]
  /\ allAlive \in BOOLEAN

(* "pick returns the next alive backend ..., skipping backends that are     *)
(* currently marked down" (proxy.go 75-76) while the flags change under it: *)
(* a backend that was alive all through a pick is not passed over, neither  *)
(* for one that comes after it nor for a 503 (proxy.go 91-97, 101-106).     *)
SkipsOnlyDown ==
  \A r \in Request : \A b \in steady[r] :
    pc[r] \in {"forward", "answered"} =>
      /\ picked[r] # None
      /\ (picked[r] - start[r]) % N <= (b - start[r]) % N

(* A client keeps its backend under ip-hash: two picks of one client, at    *)
(* any time and whatever the flags of other backends do, agree if the       *)
(* backend of each was alive all through the other (proxy.go 86-97,         *)
(* 109-117).                                                                *)
Sticky ==
  algorithm = "ip-hash" =>
    \A r, s \in Request :
      Hash[r] = Hash[s] /\ picked[r] \in steady[s] /\ picked[s] \in steady[r] =>
        picked[r] = picked[s]

(* "successive picks under round-robin cycle through every backend before   *)
(* repeating" (proxy_test.go 98-99), however the picks interleave: as long  *)
(* as no backend was marked down, no backend is two picks ahead of another  *)
(* once no pick is under way (proxy.go 89, 91-97).                          *)
Rotates ==
  algorithm = "round-robin" /\ allAlive
      /\ (\A r \in Request : pc[r] \in {"arrives", "forward", "answered"}) =>
    \A b, c \in Backend :
      Cardinality({r \in Request : picked[r] = b})
        <= 1 + Cardinality({r \in Request : picked[r] = c})

(* The health check finds out: once a backend keeps answering and HEADs are *)
(* no longer lost, its flag ends up saying so for good; and once it keeps   *)
(* refusing or is silent, which only the timeout of a HEAD notices, the     *)
(* flag is cleared for good; although a swap may be of an old answer        *)
(* (proxy.go 146-160).                                                      *)
Converges ==
  HealthCheck =>
    \A b \in Backend :
      /\ <>[](state[b] = "up") => <>[](b \in alive)
      /\ <>[](state[b] # "up") => <>[](b \notin alive)

(* Every pick ends, even when no backend is ever alive again, and one that  *)
(* has found none is answered with 503 (proxy.go 91-106).  A request that   *)
(* is forwarded may wait for ever: the reverse proxy has no timeout.        *)
PickEnds ==
  \A r \in Request :
    /\ pc[r] = "loop" ~> pc[r] = "forward"
    /\ pc[r] = "forward" /\ picked[r] = None ~> answered[r] = 503
==============================================================================
