---------------------------- MODULE BalancerProofs ----------------------------
(***************************************************************************)
(* Theorems about Balancer, for every number of backends and requests,     *)
(* every width of the counter and every behaviour of the backends.         *)
(***************************************************************************)
EXTENDS Balancer, FiniteSetTheorems, TLAPS

(* The loop of a pick sees the sums start + i as they are, modulo N: either *)
(* none of them passes the counter's end, or N divides its range.           *)
Unwrapped(s) == s + N <= CounterMod \/ CounterMod % N = 0

(* Where backend b comes in a pick that starts at s. *)
Turn(b, s) == (b - s) % N

(* A pick under way has nothing picked; the backends steady for it are      *)
(* alive, and it has not passed any of them.                                *)
LoopInv(r) ==
  pc[r] = "loop" =>
    /\ picked[r] = None
    /\ i[r] < N
    /\ steady[r] \subseteq alive
    /\ Unwrapped(start[r]) => \A b \in steady[r] : Turn(b, start[r]) >= i[r]

(* A pick that is over has no steady backend before the one it picked. *)
PickedInv(r) ==
  pc[r] \in {"forward", "answered"} /\ Unwrapped(start[r]) =>
    \A b \in steady[r] :
      picked[r] # None /\ Turn(picked[r], start[r]) <= Turn(b, start[r])

(* Before it picks, a request has nothing, and is steady with nothing. *)
FreshInv(r) ==
  pc[r] = "arrives" => picked[r] = None /\ i[r] = 0 /\ steady[r] = {}

(* Only round-robin starts beyond the backends; ip-hash at the client's. *)
StartInv(r) ==
  pc[r] \in {"loop", "forward", "answered"} =>
    /\ algorithm # "round-robin" => start[r] < N
    /\ algorithm = "ip-hash" => start[r] = Hash[r] % N

PickInv ==
  \A r \in Request :
    /\ pc[r] # "store"
    /\ LoopInv(r)
    /\ PickedInv(r)
    /\ FreshInv(r)
    /\ StartInv(r)

IInv == TypeOK /\ PickInv

------------------------------------------------------------------------------
(* Arithmetic modulo N *)

LEMMA ModRange ==
  ASSUME NEW a \in Int, NEW n \in Nat \ {0}
  PROVE  a % n \in 0 .. n - 1
OBVIOUS

LEMMA ModDefined ==
  ASSUME NEW a \in Int, NEW n \in Nat \ {0}
  PROVE  a \div n \in Int /\ a = ((a \div n) * n) + (a % n)
OBVIOUS

LEMMA ModUnique ==
  ASSUME NEW n \in Nat \ {0}, NEW q \in Int, NEW r \in 0 .. n - 1
  PROVE  ((q * n) + r) % n = r
OBVIOUS

(* Whole turns may be dropped from a sum. *)
LEMMA ModPlus ==
  ASSUME NEW n \in Nat \ {0}, NEW a \in Int, NEW q \in Int
  PROVE  ((q * n) + a) % n = a % n
<1> DEFINE p == a \div n
<1>1. p \in Int /\ a = (p * n) + (a % n)
  BY ModDefined
<1>2. a % n \in 0 .. n - 1
  BY ModRange
<1> HIDE DEF p
<1>3. (q + p) * n = (q * n) + (p * n)
  BY <1>1
<1>4. (q * n) + a = ((q + p) * n) + (a % n)
  BY <1>1, <1>2, <1>3
<1>5. q + p \in Int
  BY <1>1
<1>6. (((q + p) * n) + (a % n)) % n = a % n
  BY <1>2, <1>5, ModUnique
<1>7. QED BY <1>4, <1>6

(* A counter that wraps at a multiple of n counts modulo n. *)
LEMMA ModMod ==
  ASSUME NEW n \in Nat \ {0}, NEW c \in Nat \ {0}, NEW a \in Int, c % n = 0
  PROVE  (a % c) % n = a % n
<1> DEFINE m == c \div n
           q == a \div c
           t == a % c
<1>1. m \in Int /\ c = m * n
  BY ModDefined
<1>2. q \in Int /\ a = (q * c) + t
  BY ModDefined
<1>3. t \in Int
  BY ModRange
<1> HIDE DEF m, q, t
<1>4. q * m \in Int /\ (q * m) * n = q * c
  BY <1>1, <1>2
<1>5. (((q * m) * n) + t) % n = t % n
  BY <1>3, <1>4, ModPlus
<1>6. a % n = t % n
  BY <1>2, <1>4, <1>5
<1>7. QED BY <1>6 DEF t

(* The candidate at distance k from s has its turn at k. *)
LEMMA TurnOfCandidate ==
  ASSUME NEW n \in Nat \ {0}, NEW s \in Int, NEW k \in 0 .. n - 1
  PROVE  (((s + k) % n) - s) % n = k
<1> DEFINE q == (s + k) \div n
           c == (s + k) % n
<1>1. q \in Int /\ s + k = (q * n) + c
  BY ModDefined
<1>2. c \in Int
  BY ModRange
<1> HIDE DEF q, c
<1>3. (-q) * n = -(q * n) /\ -q \in Int
  BY <1>1
<1>4. c - s = ((-q) * n) + k
  BY <1>1, <1>2, <1>3
<1>5. (((-q) * n) + k) % n = k
  BY <1>3, ModUnique
<1>6. (c - s) % n = k
  BY <1>4, <1>5
<1>7. QED BY <1>6 DEF c

(* Two backends never have the same turn. *)
LEMMA TurnInjective ==
  ASSUME NEW n \in Nat \ {0}, NEW s \in Int,
         NEW b \in 0 .. n - 1, NEW c \in 0 .. n - 1,
         (b - s) % n = (c - s) % n
  PROVE  b = c
<1> DEFINE q == (b - s) \div n
           p == (c - s) \div n
           t == (b - s) % n
<1>1. q \in Int /\ b - s = (q * n) + t
  BY ModDefined
<1>2. p \in Int /\ c - s = (p * n) + t
  BY ModDefined
<1>3. t \in Int
  BY ModRange
<1> HIDE DEF q, p, t
<1>4. (q - p) * n = (q * n) - (p * n) /\ q - p \in Int
  BY <1>1, <1>2
<1>5. b = ((q - p) * n) + c
  BY <1>1, <1>2, <1>3, <1>4
<1>6. (((q - p) * n) + c) % n = c /\ ((0 * n) + b) % n = b
  BY <1>4, ModUnique
<1>7. QED BY <1>5, <1>6

------------------------------------------------------------------------------
(* The candidate of a round of the loop is the backend whose turn it is. *)
LEMMA CandidateTurn ==
  ASSUME NEW s \in 0 .. CounterMod - 1, NEW j \in 0 .. N - 1
  PROVE  /\ Candidate(s, j) \in Backend
         /\ Unwrapped(s) => Turn(Candidate(s, j), s) = j
<1>0. CounterMod \in Nat \ {0} /\ N \in Nat \ {0} /\ s + j \in Nat
  BY BalancerAssumption
<1>1. (s + j) % CounterMod \in Int
  BY <1>0, ModRange
<1>2. Candidate(s, j) \in Backend
  BY <1>0, <1>1, ModRange DEF Candidate, Backend
<1>3. ASSUME s + N <= CounterMod PROVE Candidate(s, j) = (s + j) % N
  <2>1. s + j \in 0 .. CounterMod - 1
    BY <1>0, <1>3
  <2>2. (s + j) % CounterMod = s + j
    BY <1>0, <2>1
  <2>3. QED BY <2>2 DEF Candidate
<1>4. ASSUME CounterMod % N = 0 PROVE Candidate(s, j) = (s + j) % N
  <2>1. s + j \in Int /\ CounterMod \in Nat \ {0} /\ N \in Nat \ {0}
    BY <1>0
  <2>2. QED BY <1>4, <2>1, ModMod DEF Candidate
<1>5. (((s + j) % N) - s) % N = j
  <2>1. s \in Int /\ N \in Nat \ {0} /\ j \in 0 .. N - 1
    BY <1>0
  <2>2. QED BY <2>1, TurnOfCandidate, Zenon
<1>6. QED BY <1>2, <1>3, <1>4, <1>5 DEF Unwrapped, Turn

LEMMA TurnRange ==
  ASSUME NEW b \in Backend, NEW s \in Int
  PROVE  Turn(b, s) \in 0 .. N - 1
BY BalancerAssumption, ModRange DEF Turn, Backend

------------------------------------------------------------------------------
(* The types hold in every state. *)
LEMMA InitType == Init => TypeOK
<1> USE BalancerAssumption
<1> SUFFICES ASSUME Init PROVE TypeOK
  OBVIOUS
<1>1. counter \in 0 .. CounterMod - 1 /\ 0 \in 0 .. CounterMod - 1 /\ 0 \in 0 .. N
  BY DEF Init
<1>2. start \in [Request -> 0 .. CounterMod - 1] /\ i \in [Request -> 0 .. N]
  BY <1>1 DEF Init
<1>3. faults \in 0 .. MaxFaults /\ checking \in 0 .. N /\ picked \in [Request -> 0 .. N]
  BY DEF Init, None
<1>4. QED BY <1>1, <1>2, <1>3 DEF Init, TypeOK

LEMMA BeginsType ==
  ASSUME TypeOK, NEW r \in Request, NEW s \in 0 .. CounterMod - 1, BeginsAt(r, s),
         counter' \in 0 .. CounterMod - 1
  PROVE  TypeOK'
BY DEF BeginsAt, TypeOK, envVars, checkVars

LEMMA NextType == IInv /\ [Next]_vars => TypeOK'
<1> SUFFICES ASSUME TypeOK, PickInv, [Next]_vars PROVE TypeOK'
  BY DEF IInv
<1>0. N \in Nat \ {0} /\ CounterMod \in Nat \ {0} /\ CounterMod >= N
  BY BalancerAssumption
<1>1. ASSUME NEW r \in Request, RoundRobin(r) PROVE TypeOK'
  <2>1. counter \in 0 .. CounterMod - 1 /\ counter + 1 \in Int
    BY DEF TypeOK
  <2>2. (counter + 1) % CounterMod \in 0 .. CounterMod - 1
    BY <1>0, <2>1, ModRange
  <2>3. QED BY <1>1, <2>1, <2>2, BeginsType DEF RoundRobin
<1>2. ASSUME NEW r \in Request, Random(r) PROVE TypeOK'
  <2>1. PICK s \in Backend : BeginsAt(r, s)
    BY <1>2 DEF Random
  <2>2. s \in 0 .. CounterMod - 1
    BY <1>0 DEF Backend
  <2>3. counter' \in 0 .. CounterMod - 1
    BY <1>2 DEF Random, TypeOK
  <2>4. QED BY <2>1, <2>2, <2>3, BeginsType
<1>3. ASSUME NEW r \in Request, IPHash(r) PROVE TypeOK'
  <2>1. Hash[r] \in Int
    BY BalancerAssumption
  <2>2. Hash[r] % N \in 0 .. N - 1
    BY <1>0, <2>1, ModRange
  <2>3. Hash[r] % N \in 0 .. CounterMod - 1
    BY <1>0, <2>2
  <2>4. counter' \in 0 .. CounterMod - 1
    BY <1>3 DEF IPHash, TypeOK
  <2>5. QED BY <1>3, <2>3, <2>4, BeginsType DEF IPHash
<1>4. ASSUME NEW r \in Request, LoadAlive(r) PROVE TypeOK'
  <2>1. UNCHANGED <<algorithm, state, faults, alive, counter, checking, answer, start,
                    answered, steady, allAlive>>
    BY <1>4 DEF LoadAlive, envVars, checkVars
  <2>2. CASE Candidate(start[r], i[r]) \in alive
    <3>1. Candidate(start[r], i[r]) \in 0 .. N
      <4>1. Candidate(start[r], i[r]) \in Backend
        BY <2>2, Zenon DEF TypeOK
      <4>2. QED BY <1>0, <4>1 DEF Backend
    <3>2. picked' \in [Request -> 0 .. N] /\ i' = i
      BY <1>4, <2>2, <3>1 DEF LoadAlive, TypeOK
    <3>3. pc' \in [Request -> {"arrives", "loop", "forward", "answered"}]
      BY <1>4, <2>2 DEF LoadAlive, TypeOK
    <3>4. QED BY <2>1, <3>2, <3>3 DEF TypeOK
  <2>3. CASE Candidate(start[r], i[r]) \notin alive
    <3>1. i[r] + 1 \in 0 .. N
      BY <1>0, <1>4 DEF LoadAlive, TypeOK, PickInv, LoopInv
    <3>2. picked' = picked /\ i' \in [Request -> 0 .. N]
      BY <1>4, <2>3, <3>1 DEF LoadAlive, TypeOK
    <3>3. pc' \in [Request -> {"arrives", "loop", "forward", "answered"}]
      BY <1>4, <2>3 DEF LoadAlive, TypeOK
    <3>4. QED BY <2>1, <3>2, <3>3 DEF TypeOK
  <2>4. QED BY <2>2, <2>3
<1>5. ASSUME NEW r \in Request, ServeHTTP(r) PROVE TypeOK'
  <2>1. \E st \in {200, 502, 503} : Answers(r, st)
    BY <1>5 DEF ServeHTTP, Unavailable, Forward
  <2>2. QED BY <2>1 DEF Answers, TypeOK, envVars, checkVars
<1>6. CASE Tick
  BY <1>0, <1>6 DEF Tick, TypeOK, envVars, pickVars
<1>7. CASE HeadBackend
  BY BalancerAssumption, <1>7 DEF HeadBackend, TypeOK, pickVars
<1>8. CASE Swap
  <2>1. alive' \subseteq Backend /\ checking' \in 0 .. N
    BY <1>0, <1>8 DEF Swap, TypeOK, Backend
  <2>2. steady' \in [Request -> SUBSET Backend]
    BY <1>8 DEF Swap, Steady, TypeOK
  <2>3. allAlive' \in BOOLEAN /\ answer' = "none"
    BY <1>8 DEF Swap, TypeOK
  <2>4. QED BY <1>8, <2>1, <2>2, <2>3 DEF Swap, TypeOK, envVars, pickVars
<1>9. ASSUME NEW b \in Backend, Change(b) PROVE TypeOK'
  <2>1. state' \in [Backend -> BackendState]
    BY <1>9 DEF Change, TypeOK
  <2>2. faults' \in 0 .. MaxFaults
    BY <1>9, BalancerAssumption DEF Change, TypeOK
  <2>3. QED BY <1>9, <2>1, <2>2 DEF Change, TypeOK, checkVars, pickVars
<1>10. CASE UNCHANGED vars
  BY <1>10 DEF TypeOK, vars, envVars, checkVars, pickVars
<1>11. QED
  BY <1>1, <1>2, <1>3, <1>4, <1>5, <1>6, <1>7, <1>8, <1>9, <1>10
     DEF Next, Handle, RunHealthCheck

------------------------------------------------------------------------------
(* What every step leaves to a pick it does not belong to. *)
LEMMA OtherPick ==
  ASSUME IInv, NEW r \in Request,
         UNCHANGED <<algorithm, alive, pc[r], start[r], i[r], picked[r], steady[r]>>
  PROVE  /\ pc'[r] # "store"
         /\ LoopInv(r)' /\ PickedInv(r)' /\ FreshInv(r)' /\ StartInv(r)'
BY DEF IInv, PickInv, LoopInv, PickedInv, FreshInv, StartInv, Turn, Unwrapped

(* A pick that begins is steady with the backends alive now. *)
LEMMA BeginsPick ==
  ASSUME IInv, NEW r \in Request, pc[r] = "arrives",
         NEW s \in 0 .. CounterMod - 1, BeginsAt(r, s),
         algorithm # "round-robin" => s < N,
         algorithm = "ip-hash" => s = Hash[r] % N
  PROVE  PickInv'
<1>1. ASSUME NEW q \in Request, q # r
      PROVE  UNCHANGED <<algorithm, alive, pc[q], start[q], i[q], picked[q], steady[q]>>
  BY <1>1 DEF BeginsAt, IInv, TypeOK
<1>2. /\ pc'[r] = "loop" /\ start'[r] = s /\ steady'[r] = alive
      /\ i'[r] = 0 /\ picked'[r] = None /\ alive' = alive /\ algorithm' = algorithm
  BY DEF BeginsAt, IInv, TypeOK, PickInv, FreshInv
<1>3. \A b \in alive : Turn(b, s) >= 0
  BY TurnRange DEF IInv, TypeOK
<1>4. LoopInv(r)'
  BY <1>2, <1>3, BalancerAssumption DEF LoopInv, Turn, Unwrapped, None
<1>5. PickedInv(r)' /\ FreshInv(r)' /\ StartInv(r)'
  BY <1>2 DEF PickedInv, FreshInv, StartInv
<1>6. QED BY <1>1, <1>2, <1>4, <1>5, OtherPick DEF PickInv

(* A round of the loop picks a backend that no steady one comes before, or  *)
(* passes one that is not steady.                                           *)
LEMMA RoundPick ==
  ASSUME IInv, NEW r \in Request, LoadAlive(r)
  PROVE  PickInv'
<1> DEFINE s == start[r]
           c == Candidate(start[r], i[r])
<1>1. ASSUME NEW q \in Request, q # r
      PROVE  UNCHANGED <<algorithm, alive, pc[q], start[q], i[q], picked[q], steady[q]>>
  BY <1>1 DEF LoadAlive, IInv, TypeOK
<1>2. /\ pc[r] = "loop" /\ start'[r] = s /\ steady'[r] = steady[r]
      /\ alive' = alive /\ algorithm' = algorithm
  BY DEF LoadAlive
<1>3. /\ s \in 0 .. CounterMod - 1 /\ i[r] \in 0 .. N - 1 /\ N \in Nat \ {0}
      /\ steady[r] \subseteq alive /\ picked[r] = None /\ alive \subseteq Backend
  BY <1>2, BalancerAssumption DEF IInv, TypeOK, PickInv, LoopInv
<1>4. c \in Backend /\ (Unwrapped(s) => Turn(c, s) = i[r])
  BY <1>3, CandidateTurn
<1>5. Unwrapped(s) => \A b \in steady[r] : Turn(b, s) >= i[r]
  BY <1>2 DEF IInv, PickInv, LoopInv
<1>6. StartInv(r)'
  BY <1>2 DEF IInv, PickInv, StartInv
<1>7. \A b \in steady[r] : Turn(b, s) \in 0 .. N - 1 /\ b \in Backend
  BY <1>3, TurnRange
<1>8. CASE c \in alive
  <2>1. pc'[r] = "forward" /\ picked'[r] = c /\ c # None
    BY <1>3, <1>4, <1>8 DEF LoadAlive, IInv, TypeOK, Backend, None
  <2>2. PickedInv(r)'
    BY <1>2, <1>4, <1>5, <2>1 DEF PickedInv, Unwrapped, Turn, None
  <2>3. LoopInv(r)' /\ FreshInv(r)'
    BY <2>1 DEF LoopInv, FreshInv
  <2>4. QED BY <1>1, <1>6, <2>1, <2>2, <2>3, OtherPick DEF PickInv
<1>9. CASE c \notin alive
  <2>1. /\ i'[r] = i[r] + 1 /\ picked'[r] = None
        /\ pc'[r] = IF i[r] + 1 < N THEN "loop" ELSE "forward"
    BY <1>3, <1>9 DEF LoadAlive, IInv, TypeOK
  <2>2. ASSUME Unwrapped(s), NEW b \in steady[r]
        PROVE  Turn(b, s) >= i[r] + 1
    <3>1. b # c /\ b \in Backend
      BY <1>3, <1>9
    <3>2. Turn(b, s) # Turn(c, s)
      <4>1. N \in Nat \ {0} /\ s \in Int /\ b \in 0 .. N - 1 /\ c \in 0 .. N - 1
        BY <1>3, <1>4, <3>1 DEF Backend
      <4>2. (b - s) % N = (c - s) % N => b = c
        BY <4>1, TurnInjective, Zenon
      <4>3. QED BY <3>1, <4>2 DEF Turn
    <3>3. QED BY <1>3, <1>4, <1>5, <1>7, <2>2, <3>2
  <2>3. CASE i[r] + 1 < N
    <3>1. LoopInv(r)'
      BY <1>2, <1>3, <2>1, <2>2, <2>3 DEF LoopInv, Unwrapped, Turn, None
    <3>2. PickedInv(r)' /\ FreshInv(r)' /\ pc'[r] = "loop"
      BY <2>1, <2>3 DEF PickedInv, FreshInv
    <3>3. QED BY <1>1, <1>6, <3>1, <3>2, OtherPick DEF PickInv
  <2>4. CASE ~(i[r] + 1 < N)
    <3>1. Unwrapped(s) => steady[r] = {}
      BY <1>3, <1>7, <2>2, <2>4
    <3>2. PickedInv(r)' /\ LoopInv(r)' /\ FreshInv(r)' /\ pc'[r] = "forward"
      BY <1>2, <2>1, <2>4, <3>1 DEF PickedInv, LoopInv, FreshInv, Unwrapped
    <3>3. QED BY <1>1, <1>6, <3>2, OtherPick DEF PickInv
  <2>5. QED BY <2>3, <2>4
<1>10. QED BY <1>8, <1>9

(* A flag that is cleared takes the backend from the picks under way. *)
LEMMA SwapPick ==
  ASSUME IInv, Swap
  PROVE  PickInv'
<1> SUFFICES ASSUME NEW r \in Request
             PROVE  /\ pc'[r] # "store"
                    /\ LoopInv(r)' /\ PickedInv(r)' /\ FreshInv(r)' /\ StartInv(r)'
  BY DEF PickInv
<1>1. UNCHANGED <<algorithm, pc, start, i, picked>>
  BY DEF Swap, pickVars
<1>2. steady'[r] = IF pc[r] = "loop" THEN steady[r] \cap alive' ELSE steady[r]
  BY DEF Swap, Steady
<1>3. LoopInv(r)'
  BY <1>1, <1>2 DEF IInv, PickInv, LoopInv, Turn, Unwrapped, None
<1>4. PickedInv(r)' /\ FreshInv(r)' /\ StartInv(r)' /\ pc'[r] # "store"
  BY <1>1, <1>2 DEF IInv, PickInv, PickedInv, FreshInv, StartInv, Turn, Unwrapped, None
<1>5. QED BY <1>3, <1>4

LEMMA InitPick == Init => PickInv
BY DEF Init, PickInv, LoopInv, PickedInv, FreshInv, StartInv

LEMMA NextPick == IInv /\ [Next]_vars => PickInv'
<1> SUFFICES ASSUME IInv, [Next]_vars PROVE PickInv'
  OBVIOUS
<1>0. N \in Nat \ {0} /\ CounterMod \in Nat \ {0} /\ CounterMod >= N
  BY BalancerAssumption
<1>1. ASSUME NEW r \in Request, RoundRobin(r) PROVE PickInv'
  BY <1>1, BeginsPick DEF RoundRobin, IInv, TypeOK
<1>2. ASSUME NEW r \in Request, Random(r) PROVE PickInv'
  <2>1. PICK s \in Backend : BeginsAt(r, s)
    BY <1>2 DEF Random
  <2>2. s \in 0 .. CounterMod - 1 /\ s < N
    BY <1>0 DEF Backend
  <2>3. QED BY <1>2, <2>1, <2>2, BeginsPick DEF Random
<1>3. ASSUME NEW r \in Request, IPHash(r) PROVE PickInv'
  <2>1. Hash[r] \in Int
    BY BalancerAssumption
  <2>2. Hash[r] % N \in 0 .. N - 1
    BY <1>0, <2>1, ModRange
  <2>3. Hash[r] % N \in 0 .. CounterMod - 1 /\ Hash[r] % N < N
    BY <1>0, <2>2
  <2>4. QED BY <1>3, <2>3, BeginsPick DEF IPHash
<1>4. ASSUME NEW r \in Request, LoadAlive(r) PROVE PickInv'
  BY <1>4, RoundPick
<1>5. ASSUME NEW r \in Request, ServeHTTP(r) PROVE PickInv'
  <2>1. UNCHANGED <<algorithm, alive, start, i, picked, steady>>
    BY <1>5 DEF ServeHTTP, Unavailable, Forward, Answers
  <2>2. pc[r] = "forward" /\ pc' = [pc EXCEPT ![r] = "answered"]
    BY <1>5 DEF ServeHTTP, Unavailable, Forward, Answers
  <2>3. PickedInv(r)' /\ LoopInv(r)' /\ FreshInv(r)' /\ StartInv(r)' /\ pc'[r] # "store"
    BY <2>1, <2>2 DEF IInv, TypeOK, PickInv, PickedInv, LoopInv, FreshInv, StartInv,
                      Turn, Unwrapped
  <2>4. ASSUME NEW q \in Request, q # r
        PROVE  UNCHANGED <<algorithm, alive, pc[q], start[q], i[q], picked[q], steady[q]>>
    BY <2>1, <2>2, <2>4 DEF IInv, TypeOK
  <2>5. QED BY <2>3, <2>4, OtherPick DEF PickInv
<1>6. CASE Swap
  BY <1>6, SwapPick
<1>7. ASSUME UNCHANGED <<algorithm, alive, pickVars, steady>> PROVE PickInv'
  <2>1. ASSUME NEW q \in Request
        PROVE  UNCHANGED <<algorithm, alive, pc[q], start[q], i[q], picked[q], steady[q]>>
    BY <1>7 DEF pickVars
  <2>2. QED BY <2>1, OtherPick DEF PickInv
<1>8. QED
  BY <1>1, <1>2, <1>3, <1>4, <1>5, <1>6, <1>7
     DEF Next, Handle, RunHealthCheck, Tick, HeadBackend, Change, vars

(* The range of the flags and the counter, and for every pick what it has   *)
(* seen so far: the invariant the theorems on single picks rest on.         *)
THEOREM BalancerInvariant == Spec => []IInv
<1>1. Init => IInv
  BY InitType, InitPick DEF IInv
<1>2. IInv /\ [Next]_vars => IInv'
  BY NextType, NextPick DEF IInv
<1>3. QED BY <1>1, <1>2, PTL DEF Spec

(* Every reachable state is well typed. *)
THEOREM BalancerTypeCorrect == Spec => []TypeOK
<1>1. IInv => TypeOK
  BY DEF IInv
<1>2. QED BY BalancerInvariant, <1>1, PTL

(* A backend that is alive all through a pick is never passed over, with   *)
(* any interleaving of picks and health checks, as long as no pick under    *)
(* round-robin starts so near to the end of the 64-bit counter that         *)
(* start + i wraps (or N divides its range, and wrapping does no harm).      *)
THEOREM SkipsTheorem ==
  Spec => []((\A r \in Request : Unwrapped(start[r])) => SkipsOnlyDown)
<1>1. IInv => ((\A r \in Request : Unwrapped(start[r])) => SkipsOnlyDown)
  BY DEF IInv, PickInv, PickedInv, SkipsOnlyDown, Turn
<1>2. QED BY BalancerInvariant, <1>1, PTL

(* Without round-robin there is no such condition. *)
THEOREM SkipsUnlessRoundRobin ==
  Spec => [](algorithm # "round-robin" => SkipsOnlyDown)
<1>1. IInv /\ algorithm # "round-robin" => SkipsOnlyDown
  <2> SUFFICES ASSUME IInv, algorithm # "round-robin",
                      NEW r \in Request, NEW b \in steady[r],
                      pc[r] \in {"forward", "answered"}
               PROVE  /\ picked[r] # None
                      /\ Turn(picked[r], start[r]) <= Turn(b, start[r])
    BY DEF SkipsOnlyDown, Turn
  <2>1. start[r] + N <= CounterMod
    BY BalancerAssumption DEF IInv, TypeOK, PickInv, StartInv
  <2>2. QED BY <2>1 DEF IInv, PickInv, PickedInv, Unwrapped
<1>2. QED BY BalancerInvariant, <1>1, PTL

(* Under ip-hash two picks of one client agree whenever the backend of each *)
(* was alive all through the other.                                         *)
THEOREM StickyTheorem == Spec => []Sticky
<1>1. IInv => Sticky
  <2> SUFFICES ASSUME IInv, algorithm = "ip-hash",
                      NEW r \in Request, NEW s \in Request, Hash[r] = Hash[s],
                      picked[r] \in steady[s], picked[s] \in steady[r]
               PROVE  picked[r] = picked[s]
    BY DEF Sticky
  <2>1. picked[r] \in Backend /\ picked[s] \in Backend
    BY DEF IInv, TypeOK
  <2>2. picked[r] # None /\ picked[s] # None
    BY <2>1, BalancerAssumption DEF Backend, None
  <2>3. pc[r] \in {"forward", "answered"} /\ pc[s] \in {"forward", "answered"}
    BY <2>2 DEF IInv, TypeOK, PickInv, LoopInv, FreshInv
  <2>4. start[r] = start[s] /\ start[r] \in Nat /\ start[r] + N <= CounterMod
    BY <2>3, BalancerAssumption DEF IInv, TypeOK, PickInv, StartInv
  <2>5. /\ Turn(picked[r], start[r]) <= Turn(picked[s], start[r])
        /\ Turn(picked[s], start[r]) <= Turn(picked[r], start[r])
    BY <2>3, <2>4 DEF IInv, PickInv, PickedInv, Unwrapped
  <2>6. Turn(picked[r], start[r]) = Turn(picked[s], start[r])
    BY <2>1, <2>4, <2>5, TurnRange
  <2>7. N \in Nat \ {0} /\ start[r] \in Int /\ picked[r] \in 0 .. N - 1
          /\ picked[s] \in 0 .. N - 1
    BY <2>1, <2>4, BalancerAssumption DEF Backend
  <2>8. QED BY <2>6, <2>7, TurnInjective, Zenon DEF Turn
<1>2. QED BY BalancerInvariant, <1>1, PTL
------------------------------------------------------------------------------
(* Rotation.  The picks that have begun are counted per backend they start  *)
(* at; backend b has had its share of k picks when it has had as many as    *)
(* there are numbers below k that leave b modulo N.                         *)
Started == {r \in Request : pc[r] # "arrives"}
StartedAt(b) == {r \in Started : start[r] % N = b}
Share(c, k, b) == c * N <= k + N - 1 - b /\ k + N - 1 - b < (c + 1) * N

(* The picks have not used up the counter, or N divides its range. *)
Rolls == CounterMod % N = 0 \/ Cardinality(Started) <= CounterMod

RotationInv ==
  /\ IsFiniteSet(Started)
  /\ algorithm = "round-robin" =>
       /\ counter = Cardinality(Started) % CounterMod
       /\ Rolls => \A b \in Backend :
            Share(Cardinality(StartedAt(b)), Cardinality(Started), b)

(* While no backend was marked down, a pick takes the first one it loads. *)
StraightInv ==
  allAlive =>
    /\ alive = Backend
    /\ \A r \in Request :
         /\ pc[r] = "loop" => i[r] = 0
         /\ pc[r] \in {"forward", "answered"} => picked[r] = start[r] % N

RInv == IInv /\ RotationInv /\ StraightInv

LEMMA MulMono ==
  ASSUME NEW n \in Nat \ {0}, NEW p \in Int, NEW q \in Int, p <= q
  PROVE  p * n <= q * n
OBVIOUS

(* One more pick goes to backend k % N, whose share it then is. *)
LEMMA ShareStep ==
  ASSUME NEW c \in Nat, NEW k \in Nat, NEW b \in 0 .. N - 1, N \in Nat \ {0},
         Share(c, k, b)
  PROVE  Share(IF k % N = b THEN c + 1 ELSE c, k + 1, b)
<1> DEFINE q == k \div N
<1>1. q \in Int /\ k = (q * N) + (k % N)
  BY ModDefined
<1> HIDE DEF q
<1>2. /\ (c + 1) * N = (c * N) + N /\ (q + 1) * N = (q * N) + N
      /\ (c + 2) * N = (c * N) + N + N /\ c * N \in Int /\ q * N \in Int
  BY <1>1
<1>3. c * N <= k + N - 1 - b /\ k + N - 1 - b < (c * N) + N
  BY <1>2 DEF Share
<1>4. CASE k % N = b
  <2>1. k = (q * N) + b
    BY <1>1, <1>4
  <2>2. c * N < (q + 1) * N /\ q * N < (c + 1) * N
    <3>1. k + N - 1 - b = (q * N) + N - 1
      BY <1>2, <2>1
    <3>2. QED BY <1>2, <1>3, <3>1
  <2>3. c <= q
    BY <1>1, <2>2, MulMono
  <2>4. q <= c
    BY <1>1, <2>2, MulMono
  <2>5. q = c
    BY <1>1, <2>3, <2>4
  <2>6. (c + 1) * N <= k + 1 + N - 1 - b /\ k + 1 + N - 1 - b < (c + 2) * N
    BY <1>2, <2>1, <2>5
  <2>7. c + 1 + 1 = c + 2
    OBVIOUS
  <2>8. QED BY <1>4, <2>6, <2>7 DEF Share
<1>5. CASE k % N # b
  <2>1. k # (c * N) + b
    <3>1. ((c * N) + b) % N = b
      BY ModUnique, SMTT(30)
    <3>2. QED BY <1>5, <3>1
  <2>2. c * N <= k + 1 + N - 1 - b /\ k + 1 + N - 1 - b < (c + 1) * N
    BY <1>2, <1>3, <2>1
  <2>3. QED BY <1>5, <2>2 DEF Share
<1>6. QED BY <1>4, <1>5

(* Two shares of the same picks differ by at most one. *)
LEMMA SharesAreClose ==
  ASSUME NEW c \in Nat, NEW d \in Nat, NEW k \in Nat, N \in Nat \ {0},
         NEW a \in 0 .. N - 1, NEW b \in 0 .. N - 1, Share(c, k, a), Share(d, k, b)
  PROVE  c <= 1 + d
<1> SUFFICES ASSUME d + 2 <= c PROVE FALSE
  OBVIOUS
<1>1. (d + 2) * N <= c * N
  BY MulMono
<1>2. (d + 2) * N = (d * N) + N + N /\ (d + 1) * N = (d * N) + N
  OBVIOUS
<1>3. c * N <= k + N - 1 - a /\ k + N - 1 - b < (d * N) + N
  BY <1>2 DEF Share
<1>4. QED BY <1>1, <1>2, <1>3

(* A request that begins joins the started ones, at its start modulo N. *)
LEMMA BeginsCount ==
  ASSUME RInv, NEW r \in Request, pc[r] = "arrives", NEW s \in Nat, BeginsAt(r, s)
  PROVE  /\ IsFiniteSet(Started')
         /\ Cardinality(Started') = Cardinality(Started) + 1
         /\ \A b \in Backend : Cardinality(StartedAt(b)') =
              IF s % N = b THEN Cardinality(StartedAt(b)) + 1 ELSE Cardinality(StartedAt(b))
<1>1. pc' = [pc EXCEPT ![r] = "loop"] /\ start' = [start EXCEPT ![r] = s]
  BY DEF BeginsAt
<1>2. Started' = Started \cup {r} /\ r \notin Started
  BY <1>1 DEF Started, RInv, IInv, TypeOK
<1>3. ASSUME NEW b \in Backend
      PROVE  /\ s % N = b => StartedAt(b)' = StartedAt(b) \cup {r}
             /\ s % N # b => StartedAt(b)' = StartedAt(b)
             /\ r \notin StartedAt(b)
  <2>1. r \notin StartedAt(b)
    BY <1>2 DEF StartedAt
  <2>2. start'[r] = s /\ \A q \in Started : start'[q] = start[q]
    BY <1>1, <1>2 DEF Started, RInv, IInv, TypeOK
  <2>3. QED BY <1>2, <2>1, <2>2 DEF StartedAt
<1>4. IsFiniteSet(Started)
  BY DEF RInv, RotationInv
<1>5. ASSUME NEW b \in Backend PROVE IsFiniteSet(StartedAt(b))
  BY <1>4, FS_Subset DEF StartedAt
<1>6. QED BY <1>2, <1>3, <1>4, <1>5, FS_AddElement, SMTT(30)

LEMMA CountTypes ==
  ASSUME RotationInv
  PROVE  /\ Cardinality(Started) \in Nat
         /\ \A b \in Backend : Cardinality(StartedAt(b)) \in Nat
<1>1. IsFiniteSet(Started)
  BY DEF RotationInv
<1>2. \A b \in Backend : IsFiniteSet(StartedAt(b))
  BY <1>1, FS_Subset DEF StartedAt
<1>3. QED BY <1>1, <1>2, FS_CardinalityType

(* A step that begins no pick keeps the counts. *)
LEMMA SameCount ==
  ASSUME RInv, UNCHANGED <<algorithm, counter, start>>,
         \A r \in Request : pc[r] = "arrives" <=> pc'[r] = "arrives"
  PROVE  RotationInv'
<1>1. Started' = Started
  BY DEF Started
<1>2. \A b : StartedAt(b)' = StartedAt(b)
  BY <1>1 DEF StartedAt
<1>3. QED BY <1>1, <1>2 DEF RInv, RotationInv, Rolls

LEMMA RoundRobinCount ==
  ASSUME RInv, NEW r \in Request, RoundRobin(r)
  PROVE  RotationInv'
<1> DEFINE k == Cardinality(Started)
<1>0. N \in Nat \ {0} /\ CounterMod \in Nat \ {0} /\ CounterMod >= N
  BY BalancerAssumption
<1>1. /\ pc[r] = "arrives" /\ BeginsAt(r, counter) /\ counter \in Nat /\ k \in Nat
      /\ \A b \in Backend : Cardinality(StartedAt(b)) \in Nat
  BY CountTypes DEF RoundRobin, RInv, IInv, TypeOK
<1>2. /\ IsFiniteSet(Started')
      /\ Cardinality(Started') = k + 1
      /\ \A b \in Backend : Cardinality(StartedAt(b)') =
           IF counter % N = b THEN Cardinality(StartedAt(b)) + 1 ELSE Cardinality(StartedAt(b))
  BY <1>1, BeginsCount
<1>3. /\ algorithm = "round-robin" /\ algorithm' = algorithm
      /\ counter = k % CounterMod /\ counter' = (counter + 1) % CounterMod
  BY DEF RoundRobin, BeginsAt, RInv, RotationInv
<1>4. Rolls' => Rolls /\ counter % N = k % N
  <2>1. CASE CounterMod % N = 0
    <3>1. (k % CounterMod) % N = k % N
      BY <1>0, <1>1, <2>1, ModMod
    <3>2. QED BY <1>3, <2>1, <3>1 DEF Rolls
  <2>2. CASE CounterMod % N # 0
    <3>1. Rolls' => k + 1 <= CounterMod
      BY <1>2, <2>2 DEF Rolls
    <3>2. k + 1 <= CounterMod => k % CounterMod = k
      BY <1>0, <1>1
    <3>3. k + 1 <= CounterMod => k <= CounterMod
      BY <1>0, <1>1
    <3>4. QED BY <1>3, <3>1, <3>2, <3>3 DEF Rolls
  <2>3. QED BY <2>1, <2>2
<1>5. Rolls' => \A b \in Backend : Share(Cardinality(StartedAt(b)'), k + 1, b)
  <2> SUFFICES ASSUME Rolls', NEW b \in Backend
               PROVE  Share(Cardinality(StartedAt(b)'), k + 1, b)
    OBVIOUS
  <2> DEFINE c == Cardinality(StartedAt(b))
  <2>1. Share(c, k, b) /\ c \in Nat
    BY <1>1, <1>3, <1>4 DEF RInv, RotationInv
  <2>2. b \in 0 .. N - 1
    BY DEF Backend
  <2>3. Share(IF k % N = b THEN c + 1 ELSE c, k + 1, b)
    BY <1>0, <1>1, <2>1, <2>2, ShareStep
  <2>4. Cardinality(StartedAt(b)') = IF k % N = b THEN c + 1 ELSE c
    BY <1>2, <1>4
  <2>5. QED BY <2>3, <2>4
<1>6. counter' = (k + 1) % CounterMod
  <2> DEFINE q == k \div CounterMod
  <2> HIDE DEF k
  <2>1. q \in Int /\ k = (q * CounterMod) + counter
    <3>1. k \in Int
      BY <1>1
    <3>2. q \in Int /\ k = (q * CounterMod) + (k % CounterMod)
      BY <1>0, <3>1, ModDefined
    <3>3. QED BY <1>3, <3>2
  <2> HIDE DEF q
  <2>2. k + 1 = (q * CounterMod) + (counter + 1) /\ counter + 1 \in Int
    BY <1>0, <1>1, <2>1
  <2>3. ((q * CounterMod) + (counter + 1)) % CounterMod = (counter + 1) % CounterMod
    BY <1>0, <2>1, <2>2, ModPlus
  <2>4. QED BY <1>3, <2>2, <2>3
<1>7. QED BY <1>2, <1>3, <1>5, <1>6 DEF RotationInv

LEMMA NextRotation == RInv /\ [Next]_vars => RotationInv'
<1> SUFFICES ASSUME RInv, [Next]_vars PROVE RotationInv'
  OBVIOUS
<1>1. ASSUME NEW r \in Request, RoundRobin(r) PROVE RotationInv'
  BY <1>1, RoundRobinCount
<1>2. ASSUME NEW r \in Request, NEW s \in Nat, BeginsAt(r, s), pc[r] = "arrives",
             algorithm # "round-robin"
      PROVE  RotationInv'
  <2>1. IsFiniteSet(Started') /\ algorithm' = algorithm
    BY <1>2, BeginsCount DEF BeginsAt
  <2>2. QED BY <1>2, <2>1 DEF RotationInv
<1>3. ASSUME NEW r \in Request, Random(r) PROVE RotationInv'
  <2>1. PICK s \in Backend : BeginsAt(r, s)
    BY <1>3 DEF Random
  <2>2. s \in Nat
    BY BalancerAssumption DEF Backend
  <2>3. QED BY <1>2, <1>3, <2>1, <2>2 DEF Random
<1>4. ASSUME NEW r \in Request, IPHash(r) PROVE RotationInv'
  <2>1. Hash[r] \in Int /\ N \in Nat \ {0}
    BY BalancerAssumption
  <2>2. Hash[r] % N \in 0 .. N - 1
    BY <2>1, ModRange
  <2>3. Hash[r] % N \in Nat
    BY <2>1, <2>2
  <2>4. QED BY <1>2, <1>4, <2>3 DEF IPHash
<1>5. ASSUME NEW r \in Request, LoadAlive(r) \/ ServeHTTP(r) PROVE RotationInv'
  <2>1. UNCHANGED <<algorithm, counter, start>>
    BY <1>5 DEF LoadAlive, ServeHTTP, Unavailable, Forward, Answers
  <2>2. /\ pc[r] # "arrives" /\ pc'[r] # "arrives"
        /\ \A q \in Request \ {r} : pc'[q] = pc[q]
    BY <1>5 DEF LoadAlive, ServeHTTP, Unavailable, Forward, Answers, RInv, IInv, TypeOK
  <2>3. QED BY <2>1, <2>2, SameCount
<1>6. ASSUME UNCHANGED <<algorithm, counter, pickVars>> PROVE RotationInv'
  BY <1>6, SameCount DEF pickVars
<1>7. QED
  BY <1>1, <1>3, <1>4, <1>5, <1>6
     DEF Next, Handle, RunHealthCheck, Tick, HeadBackend, Swap, Change, vars

LEMMA NextStraight == RInv /\ [Next]_vars => StraightInv'
<1> SUFFICES ASSUME RInv, [Next]_vars PROVE StraightInv'
  OBVIOUS
<1>1. ASSUME NEW r \in Request, NEW s \in Nat, BeginsAt(r, s), pc[r] = "arrives"
      PROVE  StraightInv'
  BY <1>1 DEF BeginsAt, RInv, IInv, TypeOK, PickInv, FreshInv, StraightInv
<1>2. ASSUME NEW r \in Request, LoadAlive(r) PROVE StraightInv'
  <2>1. UNCHANGED <<alive, allAlive, start>> /\ pc[r] = "loop"
    BY <1>2 DEF LoadAlive
  <2>2. CASE ~allAlive
    BY <2>1, <2>2 DEF StraightInv
  <2>3. CASE allAlive
    <3>1. alive = Backend /\ i[r] = 0 /\ start[r] \in 0 .. CounterMod - 1
      BY <2>1, <2>3 DEF RInv, IInv, TypeOK, StraightInv
    <3>2. Candidate(start[r], 0) = start[r] % N
      BY <3>1, BalancerAssumption DEF Candidate
    <3>3. Candidate(start[r], 0) \in Backend
      BY <3>1, CandidateTurn, BalancerAssumption
    <3>4. picked' = [picked EXCEPT ![r] = start[r] % N] /\ i' = i
            /\ pc' = [pc EXCEPT ![r] = "forward"]
      BY <1>2, <3>1, <3>2, <3>3 DEF LoadAlive
    <3>5. QED BY <2>1, <3>4 DEF RInv, IInv, TypeOK, StraightInv
  <2>4. QED BY <2>2, <2>3
<1>3. ASSUME NEW r \in Request, ServeHTTP(r) PROVE StraightInv'
  <2>1. UNCHANGED <<alive, allAlive, start, i, picked>>
    BY <1>3 DEF ServeHTTP, Unavailable, Forward, Answers
  <2>2. pc[r] = "forward" /\ pc' = [pc EXCEPT ![r] = "answered"]
    BY <1>3 DEF ServeHTTP, Unavailable, Forward, Answers
  <2>3. QED BY <2>1, <2>2 DEF RInv, IInv, TypeOK, StraightInv
<1>4. CASE Swap
  BY <1>4 DEF Swap, pickVars, RInv, StraightInv
<1>5. ASSUME UNCHANGED <<alive, allAlive, pickVars>> PROVE StraightInv'
  BY <1>5 DEF pickVars, RInv, StraightInv
<1>6. ASSUME NEW r \in Request, RoundRobin(r) PROVE StraightInv'
  BY <1>1, <1>6 DEF RoundRobin, RInv, IInv, TypeOK
<1>7. ASSUME NEW r \in Request, Random(r) PROVE StraightInv'
  BY <1>1, <1>7, BalancerAssumption DEF Random, Backend
<1>8. ASSUME NEW r \in Request, IPHash(r) PROVE StraightInv'
  <2>1. Hash[r] \in Int /\ N \in Nat \ {0}
    BY BalancerAssumption
  <2>2. Hash[r] % N \in 0 .. N - 1
    BY <2>1, ModRange
  <2>3. Hash[r] % N \in Nat
    BY <2>1, <2>2
  <2>4. QED BY <1>1, <1>8, <2>3 DEF IPHash
<1>9. QED
  BY <1>2, <1>3, <1>4, <1>5, <1>6, <1>7, <1>8
     DEF Next, Handle, RunHealthCheck, Tick, HeadBackend, Change, vars

(* While no backend was marked down, no backend is two picks ahead of       *)
(* another under round-robin: for any number of requests, unless they use   *)
(* up the 64-bit counter and N does not divide its range.                   *)
THEOREM RotatesTheorem == Spec => [](Rolls => Rotates)
<1>1. Init => RInv
  <2> SUFFICES ASSUME Init PROVE RInv
    OBVIOUS
  <2>1. Started = {} /\ \A b : StartedAt(b) = {}
    BY DEF Init, Started, StartedAt
  <2>2. IsFiniteSet(Started) /\ Cardinality(Started) = 0
          /\ \A b : Cardinality(StartedAt(b)) = 0
    BY <2>1, FS_EmptySet
  <2>3. \A b \in Backend : Share(0, 0, b)
    BY BalancerAssumption DEF Share, Backend
  <2>4. 0 % CounterMod = 0
    BY BalancerAssumption
  <2>5. counter = 0
    BY DEF Init
  <2>6. RotationInv
    BY <2>2, <2>3, <2>4, <2>5 DEF RotationInv
  <2>7. StraightInv
    BY DEF Init, StraightInv
  <2>8. QED BY <2>6, <2>7, InitType, InitPick DEF RInv, IInv
<1>2. RInv /\ [Next]_vars => RInv'
  BY NextType, NextPick, NextRotation, NextStraight DEF RInv, IInv
<1>3. RInv => (Rolls => Rotates)
  <2> SUFFICES ASSUME RInv, Rolls, algorithm = "round-robin", allAlive,
                      \A r \in Request : pc[r] \in {"arrives", "forward", "answered"},
                      NEW b \in Backend, NEW c \in Backend
               PROVE  Cardinality({r \in Request : picked[r] = b})
                        <= 1 + Cardinality({r \in Request : picked[r] = c})
    BY DEF Rotates
  <2>1. ASSUME NEW d \in Backend
        PROVE  {r \in Request : picked[r] = d} = StartedAt(d)
    <3>1. d # None
      BY BalancerAssumption DEF Backend, None
    <3>2. \A r \in Request : pc[r] = "arrives" => picked[r] = None
      BY DEF RInv, IInv, PickInv, FreshInv
    <3>3. \A r \in Request : pc[r] # "arrives" => picked[r] = start[r] % N
      BY DEF RInv, StraightInv
    <3>4. QED BY <3>1, <3>2, <3>3 DEF StartedAt, Started
  <2>2. Share(Cardinality(StartedAt(b)), Cardinality(Started), b)
          /\ Share(Cardinality(StartedAt(c)), Cardinality(Started), c)
    BY DEF RInv, RotationInv
  <2>3. /\ Cardinality(StartedAt(b)) \in Nat /\ Cardinality(StartedAt(c)) \in Nat
        /\ Cardinality(Started) \in Nat
        /\ b \in 0 .. N - 1 /\ c \in 0 .. N - 1 /\ N \in Nat \ {0}
    BY CountTypes, BalancerAssumption DEF RInv, Backend
  <2>4. Cardinality(StartedAt(b)) <= 1 + Cardinality(StartedAt(c))
    BY <2>2, <2>3, SharesAreClose
  <2>5. QED BY <2>1, <2>4
<1>4. QED BY <1>1, <1>2, <1>3, PTL DEF Spec
==============================================================================
