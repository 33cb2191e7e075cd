--------------------------- MODULE FastHttpdProofs ---------------------------
(***************************************************************************)
(* Theorems about FastHttpd, for every finite set of listen addresses and  *)
(* every bound on requests and signals.                                    *)
(***************************************************************************)
EXTENDS FastHttpd, TLAPS, FiniteSetTheorems

(* Where the loop of run is says which servers have a goroutine.            *)
StartInv ==
  /\ \A l \in todo : serve[l] = "none"
  /\ main \in {"listen", "append", "appendTimeout", "go"} => cur \notin todo /\ serve[cur] = "none"
  /\ main \in {"loop", "wait"} => \A l \in Listen \ todo : serve[l] # "none"
  /\ main \in {"listen", "append", "appendTimeout", "go"} =>
       \A l \in Listen \ (todo \cup {cur}) : serve[l] # "none"
  /\ main \in {"start", "hup"} => todo = Listen
  /\ main = "wait" => todo = {}

(* d.shutdownTimeouts is as long as d.servers, except between the two       *)
(* appends; both are no longer than the loop has come.                      *)
TimeoutsInv ==
  /\ timeouts <= Len(servers)
  /\ main \notin {"appendTimeout", "exited"} => timeouts = Len(servers)
  /\ main = "appendTimeout" => timeouts = Len(servers) - 1
  /\ Len(servers) + Cardinality(todo) <= Cardinality(Listen)
  /\ main \in {"listen", "append"} => Len(servers) + Cardinality(todo) < Cardinality(Listen)

(* run returns when every server has returned, or before every server was   *)
(* started; where a panic of Shutdown ends the process instead, a server    *)
(* that was started still has its host.                                     *)
OpenedInv == \A l \in Listen : serve[l] # "none" => l \in Range(opened)
Started == main \notin {"return", "exited"}
ReturnInv ==
  /\ Started => OpenedInv /\ (main \in {"listen", "append", "appendTimeout", "go"} =>
                               cur \in Range(opened))
  /\ ~Started =>
       \/ \A l \in Listen : serve[l] = "returned"
       \/ \E l \in Listen : serve[l] = "none"
       \/ main = "exited" /\ OpenedInv

(* Shutdown ranges over servers that d.servers has, and only after the      *)
(* signal; a signal that is not early finds every server up for good, and   *)
(* errs gets a place for each.                                              *)
ShutdownInv ==
  /\ main = "start" => shut = "none"
  /\ shut \in {"make", "range", "wait", "done"} => term
  /\ shut \in {"none", "waiting", "make", "range"} => stopper = <<>>
  /\ Len(stopper) <= Len(servers)
  /\ term /\ ~early => Up
  /\ shut \in {"range", "wait", "done"} /\ ~early => slots = Len(servers)
  /\ panicked => term /\ early

IInv == TypeOK /\ StartInv /\ TimeoutsInv /\ ReturnInv /\ ShutdownInv
------------------------------------------------------------------------------
Phase == {"timeout", "call", "drain", "done"}

LEMMA AppendRange ==
  ASSUME NEW s \in Seq(Listen), NEW l \in Listen
  PROVE  Append(s, l) \in Seq(Listen) /\ Range(Append(s, l)) = Range(s) \cup {l}
<1>1. /\ Len(Append(s, l)) = Len(s) + 1 /\ Append(s, l)[Len(s) + 1] = l
      /\ DOMAIN Append(s, l) = 1 .. Len(s) + 1 /\ DOMAIN s = 1 .. Len(s)
      /\ \A k \in 1 .. Len(s) : Append(s, l)[k] = s[k]
  OBVIOUS
<1>2. QED BY <1>1 DEF Range

(* A goroutine of Shutdown that moves leaves as many of them.               *)
LEMMA StopperMoves ==
  ASSUME NEW s \in Seq(Phase), NEW i \in DOMAIN s, NEW p \in Phase
  PROVE  [s EXCEPT ![i] = p] \in Seq(Phase) /\ Len([s EXCEPT ![i] = p]) = Len(s)
OBVIOUS

LEMMA InitIInv == Init => IInv
<1> SUFFICES ASSUME Init PROVE IInv
  OBVIOUS
<1>1. Cardinality(Listen) \in Nat
  BY LifecycleAssumption, FS_CardinalityType
<1>2. TypeOK
  <2>1. /\ opened \in Seq(Listen) /\ servers \in Seq(Listen)
        /\ stopper \in Seq({"timeout", "call", "drain", "done"})
    BY DEF Init
  <2>2. timeouts \in 0 .. Cardinality(Listen) /\ inflight \in [Listen -> 0 .. MaxInFlight]
        /\ hupBuf \in 0 .. 1 /\ hupLeft \in 0 .. MaxHup
    BY <1>1, LifecycleAssumption DEF Init
  <2>3. QED BY <2>1, <2>2 DEF Init, TypeOK
<1>3. StartInv /\ TimeoutsInv /\ ReturnInv /\ ShutdownInv
  BY <1>1 DEF Init, StartInv, TimeoutsInv, ReturnInv, ShutdownInv, OpenedInv, Started
<1>4. QED BY <1>2, <1>3 DEF IInv

(* Every step of run, of a server, of Shutdown and of the signals.          *)
LEMMA NextIInv == IInv /\ [Next]_vars => IInv'
<1> SUFFICES ASSUME IInv, [Next]_vars PROVE IInv'
  OBVIOUS
<1>c. Cardinality(Listen) \in Nat /\ Cardinality(todo) \in Nat /\ (todo = {} <=> Cardinality(todo) = 0)
  BY LifecycleAssumption, FS_CardinalityType, FS_Subset, FS_EmptySet DEF IInv, TypeOK
<1> USE DEF IInv, OpenedInv, Started, startVars, serverVars, serveVars, shutVars, hupVars, termVars
<1>1. CASE NotifyContext
  <2>1. TypeOK'
    BY <1>1, <1>c DEF NotifyContext, TypeOK
  <2>2. StartInv'
    BY <1>1 DEF NotifyContext, TypeOK, StartInv
  <2>3. TimeoutsInv'
    BY <1>1, <1>c DEF NotifyContext, TypeOK, TimeoutsInv
  <2>4. ReturnInv' /\ ShutdownInv'
    <3>1. /\ main = "start" /\ main' = "hup" /\ shut' = "waiting" /\ stopper = <<>>
          /\ UNCHANGED <<serve, servers, term, early, panicked, slots, stopper, opened, cur>>
      BY <1>1 DEF NotifyContext, TypeOK, ShutdownInv
    <3>2. Up' <=> Up
      BY <3>1 DEF Up, Registered
    <3>3. QED BY <3>1, <3>2 DEF ReturnInv, ShutdownInv
  <2>5. QED BY <2>1, <2>2, <2>3, <2>4
<1>2. CASE HandleHUP
  <2>1. TypeOK'
    BY <1>2, <1>c DEF HandleHUP, TypeOK
  <2>2. StartInv'
    BY <1>2 DEF HandleHUP, TypeOK, StartInv
  <2>3. TimeoutsInv'
    BY <1>2, <1>c DEF HandleHUP, TypeOK, TimeoutsInv
  <2>4. ReturnInv' /\ ShutdownInv'
    BY <1>2 DEF HandleHUP, TypeOK, StartInv, ReturnInv, ShutdownInv, Up, Registered
  <2>5. QED BY <2>1, <2>2, <2>3, <2>4
<1>3. CASE NewServerHandler
  <2>0. PICK l \in todo : cur' = l /\ opened' = Append(opened, l)
    BY <1>3 DEF NewServerHandler
  <2>r. opened' \in Seq(Listen) /\ Range(opened') = Range(opened) \cup {l}
    BY <2>0, AppendRange DEF TypeOK
  <2>1. TypeOK'
    BY <1>3, <1>c, <2>0, <2>r DEF NewServerHandler, TypeOK
  <2>2. StartInv'
    BY <1>3 DEF NewServerHandler, TypeOK, StartInv
  <2>3. TimeoutsInv'
    <3>1. PICK k \in todo : todo' = todo \ {k}
      BY <1>3 DEF NewServerHandler
    <3>2. Cardinality(todo') = Cardinality(todo) - 1
      BY <3>1, FS_RemoveElement, FS_Subset, LifecycleAssumption DEF TypeOK
    <3>3. QED BY <1>3, <1>c, <3>2 DEF NewServerHandler, TypeOK, TimeoutsInv
  <2>4. ReturnInv' /\ ShutdownInv'
    BY <1>3, <2>0, <2>r DEF NewServerHandler, TypeOK, StartInv, ReturnInv, ShutdownInv, Up, Registered
  <2>5. QED BY <2>1, <2>2, <2>3, <2>4
<1>4. CASE Bind
  <2>1. TypeOK'
    BY <1>4, <1>c DEF Bind, TypeOK
  <2>2. StartInv'
    BY <1>4 DEF Bind, TypeOK, StartInv
  <2>3. TimeoutsInv'
    BY <1>4, <1>c DEF Bind, TypeOK, TimeoutsInv
  <2>4. ReturnInv' /\ ShutdownInv'
    BY <1>4 DEF Bind, TypeOK, StartInv, ReturnInv, ShutdownInv, Up, Registered
  <2>5. QED BY <2>1, <2>2, <2>3, <2>4
<1>5. CASE StartupFails
  <2>1. TypeOK'
    BY <1>5, <1>c DEF StartupFails, TypeOK
  <2>2. StartInv'
    BY <1>5 DEF StartupFails, TypeOK, StartInv
  <2>3. TimeoutsInv'
    BY <1>5, <1>c DEF StartupFails, TypeOK, TimeoutsInv
  <2>4. ReturnInv' /\ ShutdownInv'
    BY <1>5 DEF StartupFails, TypeOK, StartInv, ReturnInv, ShutdownInv, Up, Registered
  <2>5. QED BY <2>1, <2>2, <2>3, <2>4
<1>6. CASE AppendServer
  <2>1. TypeOK'
    BY <1>6, <1>c DEF AppendServer, TypeOK
  <2>2. StartInv'
    BY <1>6 DEF AppendServer, TypeOK, StartInv
  <2>3. TimeoutsInv'
    BY <1>6, <1>c DEF AppendServer, TypeOK, TimeoutsInv
  <2>4. ReturnInv' /\ ShutdownInv'
    <3>1. /\ main = "append" /\ main' = "appendTimeout" /\ Len(servers') = Len(servers) + 1
          /\ UNCHANGED <<cur, opened, serve, term, early, shut, slots, stopper, panicked>>
      BY <1>6 DEF AppendServer, TypeOK
    <3>2. (Up' <=> Up) /\ ~Up
      BY <3>1 DEF Up, Registered, StartInv, TypeOK
    <3>3. shut \in {"range", "wait", "done"} => early
      BY <3>2 DEF ShutdownInv
    <3>4. QED BY <3>1, <3>2, <3>3 DEF TypeOK, ReturnInv, ShutdownInv
  <2>5. QED BY <2>1, <2>2, <2>3, <2>4
<1>7. CASE AppendTimeout
  <2>1. TypeOK'
    BY <1>7, <1>c DEF AppendTimeout, TypeOK, TimeoutsInv
  <2>2. StartInv'
    BY <1>7 DEF AppendTimeout, TypeOK, StartInv
  <2>3. TimeoutsInv'
    BY <1>7, <1>c DEF AppendTimeout, TypeOK, TimeoutsInv
  <2>4. ReturnInv' /\ ShutdownInv'
    BY <1>7 DEF AppendTimeout, TypeOK, StartInv, ReturnInv, ShutdownInv, Up, Registered
  <2>5. QED BY <2>1, <2>2, <2>3, <2>4
<1>8. CASE GoServe
  <2>1. TypeOK'
    BY <1>8, <1>c DEF GoServe, TypeOK
  <2>2. StartInv'
    BY <1>8 DEF GoServe, TypeOK, StartInv
  <2>3. TimeoutsInv'
    BY <1>8, <1>c DEF GoServe, TypeOK, TimeoutsInv
  <2>4. ReturnInv' /\ ShutdownInv'
    BY <1>8 DEF GoServe, TypeOK, StartInv, ReturnInv, ShutdownInv, Up, Registered
  <2>5. QED BY <2>1, <2>2, <2>3, <2>4
<1>9. CASE LoopDone
  <2>1. TypeOK'
    BY <1>9, <1>c DEF LoopDone, TypeOK
  <2>2. StartInv'
    BY <1>9 DEF LoopDone, TypeOK, StartInv
  <2>3. TimeoutsInv'
    BY <1>9, <1>c DEF LoopDone, TypeOK, TimeoutsInv
  <2>4. ReturnInv' /\ ShutdownInv'
    BY <1>9 DEF LoopDone, TypeOK, StartInv, ReturnInv, ShutdownInv, Up, Registered
  <2>5. QED BY <2>1, <2>2, <2>3, <2>4
<1>10. CASE AllReturned
  <2>1. TypeOK'
    BY <1>10, <1>c DEF AllReturned, TypeOK
  <2>2. StartInv'
    BY <1>10 DEF AllReturned, TypeOK, StartInv
  <2>3. TimeoutsInv'
    BY <1>10, <1>c DEF AllReturned, TypeOK, TimeoutsInv
  <2>4. ReturnInv' /\ ShutdownInv'
    BY <1>10 DEF AllReturned, TypeOK, StartInv, ReturnInv, ShutdownInv, Up, Registered
  <2>5. QED BY <2>1, <2>2, <2>3, <2>4
<1>11. CASE CloseHandler
  <2>1. TypeOK'
    <3>1. Front(opened) \in Seq(Listen)
      BY <1>11 DEF CloseHandler, TypeOK, Front
    <3>2. QED BY <1>11, <3>1 DEF CloseHandler, TypeOK
  <2>2. StartInv'
    BY <1>11 DEF CloseHandler, TypeOK, StartInv
  <2>3. TimeoutsInv'
    BY <1>11, <1>c DEF CloseHandler, TypeOK, TimeoutsInv
  <2>4. ReturnInv' /\ ShutdownInv'
    BY <1>11 DEF CloseHandler, TypeOK, StartInv, ReturnInv, ShutdownInv, Up, Registered
  <2>5. QED BY <2>1, <2>2, <2>3, <2>4
<1>12. CASE Exit
  <2>1. TypeOK'
    BY <1>12, <1>c DEF Exit, TypeOK
  <2>2. StartInv'
    BY <1>12 DEF Exit, TypeOK, StartInv
  <2>3. TimeoutsInv'
    BY <1>12, <1>c DEF Exit, TypeOK, TimeoutsInv
  <2>4. ReturnInv' /\ ShutdownInv'
    BY <1>12 DEF Exit, TypeOK, StartInv, ReturnInv, ShutdownInv, Up, Registered
  <2>5. QED BY <2>1, <2>2, <2>3, <2>4
<1>13. ASSUME NEW l \in Listen, ServeRegisters(l) PROVE IInv'
  <2>1. TypeOK'
    BY <1>13, LifecycleAssumption DEF ServeRegisters, TypeOK
  <2>2. StartInv'
    BY <1>13 DEF ServeRegisters, TypeOK, StartInv
  <2>3. TimeoutsInv'
    BY <1>13 DEF ServeRegisters, TypeOK, TimeoutsInv
  <2>4. ReturnInv' /\ ShutdownInv'
    BY <1>13 DEF ServeRegisters, TypeOK, ReturnInv, ShutdownInv, Up, Registered, Alive
  <2>5. QED BY <2>1, <2>2, <2>3, <2>4
<1>14. ASSUME NEW l \in Listen, RequestArrives(l) PROVE IInv'
  <2>1. TypeOK'
    BY <1>14, LifecycleAssumption DEF RequestArrives, TypeOK
  <2>2. StartInv'
    BY <1>14 DEF RequestArrives, TypeOK, StartInv
  <2>3. TimeoutsInv'
    BY <1>14 DEF RequestArrives, TypeOK, TimeoutsInv
  <2>4. ReturnInv' /\ ShutdownInv'
    BY <1>14 DEF RequestArrives, TypeOK, ReturnInv, ShutdownInv, Up, Registered, Alive
  <2>5. QED BY <2>1, <2>2, <2>3, <2>4
<1>15. ASSUME NEW l \in Listen, RequestEnds(l) PROVE IInv'
  <2>1. TypeOK'
    BY <1>15, LifecycleAssumption DEF RequestEnds, TypeOK
  <2>2. StartInv'
    BY <1>15 DEF RequestEnds, TypeOK, StartInv
  <2>3. TimeoutsInv'
    BY <1>15 DEF RequestEnds, TypeOK, TimeoutsInv
  <2>4. ReturnInv' /\ ShutdownInv'
    BY <1>15 DEF RequestEnds, TypeOK, ReturnInv, ShutdownInv, Up, Registered, Alive
  <2>5. QED BY <2>1, <2>2, <2>3, <2>4
<1>16. ASSUME NEW l \in Listen, ServeReturns(l) PROVE IInv'
  <2>1. TypeOK'
    BY <1>16, LifecycleAssumption DEF ServeReturns, TypeOK
  <2>2. StartInv'
    BY <1>16 DEF ServeReturns, TypeOK, StartInv
  <2>3. TimeoutsInv'
    BY <1>16 DEF ServeReturns, TypeOK, TimeoutsInv
  <2>4. ReturnInv' /\ ShutdownInv'
    BY <1>16 DEF ServeReturns, TypeOK, ReturnInv, ShutdownInv, Up, Registered, Alive
  <2>5. QED BY <2>1, <2>2, <2>3, <2>4
<1>17. ASSUME NEW l \in Listen, ServeFails(l) PROVE IInv'
  <2>1. TypeOK'
    BY <1>17, LifecycleAssumption DEF ServeFails, TypeOK
  <2>2. StartInv'
    BY <1>17 DEF ServeFails, TypeOK, StartInv
  <2>3. TimeoutsInv'
    BY <1>17 DEF ServeFails, TypeOK, TimeoutsInv
  <2>4. ReturnInv' /\ ShutdownInv'
    BY <1>17 DEF ServeFails, TypeOK, ReturnInv, ShutdownInv, Up, Registered, Alive
  <2>5. QED BY <2>1, <2>2, <2>3, <2>4
<1>18. CASE Terminate
  <2>1. TypeOK'
    BY <1>18, LifecycleAssumption DEF Terminate, TypeOK
  <2>2. StartInv' /\ TimeoutsInv' /\ ReturnInv'
    BY <1>18 DEF Terminate, TypeOK, StartInv, TimeoutsInv, ReturnInv
  <2>3. ShutdownInv'
    <3>1. Up' <=> Up
      BY <1>18 DEF Terminate, Up, Registered
    <3>2. term' /\ (early' <=> ~Up) /\ UNCHANGED <<main, servers, shut, slots, stopper, panicked>>
      BY <1>18 DEF Terminate
    <3>3. ~panicked /\ shut \notin {"make", "range", "wait", "done"}
      BY <1>18 DEF Terminate, ShutdownInv
    <3>4. QED BY <3>1, <3>2, <3>3 DEF ShutdownInv
  <2>4. QED BY <2>1, <2>2, <2>3
<1>19. CASE StopHUP
  <2>1. TypeOK'
    BY <1>19, LifecycleAssumption DEF StopHUP, TypeOK
  <2>2. StartInv' /\ TimeoutsInv' /\ ReturnInv'
    BY <1>19 DEF StopHUP, TypeOK, StartInv, TimeoutsInv, ReturnInv
  <2>3. ShutdownInv'
    BY <1>19 DEF StopHUP, TypeOK, StartInv, TimeoutsInv, ShutdownInv, Up, Registered
  <2>4. QED BY <2>1, <2>2, <2>3
<1>20. CASE RangeServers
  <2>1. TypeOK'
    <3>1. SeenLen \subseteq Nat
      BY DEF TypeOK, TimeoutsInv, SeenLen
    <3>2. ASSUME NEW n \in Nat
          PROVE  [i \in 1 .. n |-> "timeout"] \in Seq({"timeout", "call", "drain", "done"})
      OBVIOUS
    <3>3. stopper' \in Seq({"timeout", "call", "drain", "done"}) /\ main' \in {main, "exited"}
          /\ shut' \in {"range", "wait"} /\ panicked' \in BOOLEAN
      BY <1>20, <3>1, <3>2 DEF RangeServers, TypeOK
    <3>4. QED BY <1>20, <3>3 DEF RangeServers, TypeOK
  <2>2. StartInv' /\ TimeoutsInv' /\ ReturnInv'
    BY <1>20 DEF RangeServers, TypeOK, StartInv, TimeoutsInv, ReturnInv
  <2>3. ShutdownInv'
    <3>1. /\ UNCHANGED <<servers, serve, term, early, slots>> /\ term
          /\ main # "start" /\ main' # "start" /\ shut' \in {"range", "wait"}
      BY <1>20 DEF RangeServers, ShutdownInv
    <3>2. Up' <=> Up
      BY <3>1 DEF Up, Registered
    <3>3. Len(stopper') <= Len(servers) /\ (shut' = "range" => stopper' = <<>>)
      BY <1>20 DEF RangeServers, SeenLen, TypeOK, TimeoutsInv, ShutdownInv
    <3>4. panicked' => early
      <4>1. main = "appendTimeout" => ~Up
        BY DEF StartInv, TypeOK, Up, Registered
      <4>2. QED BY <1>20, <3>1, <4>1 DEF RangeServers, ShutdownInv
    <3>5. QED BY <1>20, <3>1, <3>2, <3>3, <3>4 DEF RangeServers, ShutdownInv
  <2>4. QED BY <2>1, <2>2, <2>3
<1>21. CASE ShutdownReturns
  <2>1. TypeOK'
    BY <1>21, LifecycleAssumption DEF ShutdownReturns, TypeOK
  <2>2. StartInv' /\ TimeoutsInv' /\ ReturnInv'
    BY <1>21 DEF ShutdownReturns, TypeOK, StartInv, TimeoutsInv, ReturnInv
  <2>3. ShutdownInv'
    BY <1>21 DEF ShutdownReturns, TypeOK, StartInv, TimeoutsInv, ShutdownInv, Up, Registered
  <2>4. QED BY <2>1, <2>2, <2>3
<1>22. CASE SendHUP
  <2>1. TypeOK'
    BY <1>22, LifecycleAssumption DEF SendHUP, TypeOK
  <2>2. StartInv' /\ TimeoutsInv' /\ ReturnInv'
    BY <1>22 DEF SendHUP, TypeOK, StartInv, TimeoutsInv, ReturnInv
  <2>3. ShutdownInv'
    BY <1>22 DEF SendHUP, TypeOK, StartInv, TimeoutsInv, ShutdownInv, Up, Registered
  <2>4. QED BY <2>1, <2>2, <2>3
<1>23. CASE ReceiveHUP
  <2>1. TypeOK'
    <3>1. /\ hupBuf' = 0 /\ hupAsked' = FALSE /\ hupLoop' = "rotating"
          /\ UNCHANGED <<main, startVars, serverVars, serveVars, termVars, shutVars, hupCh, hupLeft>>
      BY <1>23, Zenon DEF ReceiveHUP
    <3>2. hupAsked' \in BOOLEAN
      BY <3>1, Zenon
    <3>3. QED
      <4> HIDE DEF IInv
      <4>1. TypeOK
        BY DEF IInv
      <4>2. QED BY <3>1, <3>2, <4>1 DEF TypeOK
  <2>2. StartInv' /\ TimeoutsInv' /\ ReturnInv'
    BY <1>23 DEF ReceiveHUP, TypeOK, StartInv, TimeoutsInv, ReturnInv
  <2>3. ShutdownInv'
    BY <1>23 DEF ReceiveHUP, TypeOK, StartInv, TimeoutsInv, ShutdownInv, Up, Registered
  <2>4. QED BY <2>1, <2>2, <2>3
<1>24. CASE RotateShared
  <2>1. TypeOK'
    BY <1>24, LifecycleAssumption DEF RotateShared, TypeOK
  <2>2. StartInv' /\ TimeoutsInv' /\ ReturnInv'
    BY <1>24 DEF RotateShared, TypeOK, StartInv, TimeoutsInv, ReturnInv
  <2>3. ShutdownInv'
    BY <1>24 DEF RotateShared, TypeOK, StartInv, TimeoutsInv, ShutdownInv, Up, Registered
  <2>4. QED BY <2>1, <2>2, <2>3
<1>25. CASE HupLoopEnds
  <2>1. TypeOK'
    BY <1>25, LifecycleAssumption DEF HupLoopEnds, TypeOK
  <2>2. StartInv' /\ TimeoutsInv' /\ ReturnInv'
    BY <1>25 DEF HupLoopEnds, TypeOK, StartInv, TimeoutsInv, ReturnInv
  <2>3. ShutdownInv'
    BY <1>25 DEF HupLoopEnds, TypeOK, StartInv, TimeoutsInv, ShutdownInv, Up, Registered
  <2>4. QED BY <2>1, <2>2, <2>3
<1>26. ASSUME NEW i \in DOMAIN stopper, ReadTimeout(i) PROVE IInv'
  <2>1. TypeOK'
    <3>1. /\ stopper' \in Seq({"timeout", "call", "drain", "done"}) /\ main' \in {main, "exited"}
          /\ panicked' \in BOOLEAN
      BY <1>26, StopperMoves DEF ReadTimeout, TypeOK, Phase
    <3>2. QED BY <1>26, <3>1 DEF ReadTimeout, TypeOK
  <2>2. StartInv' /\ TimeoutsInv' /\ ReturnInv'
    <3>1. CASE i <= timeouts
      BY <1>26, <3>1 DEF ReadTimeout, StartInv, TimeoutsInv, ReturnInv
    <3>2. CASE ~(i <= timeouts)
      <4>1. main = "appendTimeout"
        BY <1>26, <3>2 DEF ReadTimeout, TypeOK, Alive, TimeoutsInv, ShutdownInv
      <4>2. main' = "exited" /\ UNCHANGED <<todo, cur, opened, servers, timeouts, serve>>
        BY <1>26, <3>2 DEF ReadTimeout
      <4>3. serve[cur] = "none"
        BY <4>1 DEF StartInv
      <4>4. QED BY <4>1, <4>2, <4>3 DEF StartInv, TimeoutsInv, ReturnInv, TypeOK
    <3>3. QED BY <3>1, <3>2
  <2>3. ShutdownInv'
    <3>1. UNCHANGED <<servers, serve, term, early, shut, slots>>
      BY <1>26 DEF ReadTimeout
    <3>s. stopper # <<>> /\ Alive
      BY <1>26 DEF ReadTimeout, TypeOK
    <3>w. term /\ shut \notin {"none", "waiting", "make", "range"}
      BY <3>s DEF TypeOK, ShutdownInv
    <3>2. Up' <=> Up
      BY <3>1 DEF Up, Registered
    <3>3. main' \in {main, "exited"} /\ Len(stopper') = Len(stopper)
      BY <1>26, StopperMoves DEF ReadTimeout, TypeOK, Phase
    <3>4. panicked' => early
      <4>1. CASE i <= timeouts
        BY <1>26, <4>1 DEF ReadTimeout, ShutdownInv
      <4>2. CASE ~(i <= timeouts)
        <5>1. main = "appendTimeout"
          BY <1>26, <4>2 DEF ReadTimeout, TypeOK, Alive, TimeoutsInv, ShutdownInv
        <5>2. ~Up
          BY <5>1 DEF StartInv, TypeOK, Up, Registered
        <5>3. QED BY <3>w, <5>2 DEF ShutdownInv
      <4>3. QED BY <4>1, <4>2
    <3>5. QED BY <3>1, <3>2, <3>s, <3>w, <3>3, <3>4 DEF ShutdownInv, Alive
  <2>4. QED BY <2>1, <2>2, <2>3
<1>27. ASSUME NEW i \in DOMAIN stopper, ShutdownServer(i) PROVE IInv'
  <2>1. TypeOK'
    <3>1. /\ stopper' \in Seq({"timeout", "call", "drain", "done"})
          /\ listener' \in [Listen -> {"none", "open", "closed"}]
      BY <1>27, StopperMoves, ZenonT(30) DEF ShutdownServer, TypeOK, Phase
    <3>2. QED BY <1>27, <3>1 DEF ShutdownServer, TypeOK
  <2>2. StartInv' /\ TimeoutsInv' /\ ReturnInv'
    BY <1>27 DEF ShutdownServer, TypeOK, StartInv, TimeoutsInv, ReturnInv
  <2>3. ShutdownInv'
    BY <1>27 DEF ShutdownServer, TypeOK, StartInv, TimeoutsInv, ShutdownInv, Up, Registered, Alive
  <2>4. QED BY <2>1, <2>2, <2>3
<1>28. ASSUME NEW i \in DOMAIN stopper, Drained(i) PROVE IInv'
  <2>1. TypeOK'
    BY <1>28, LifecycleAssumption DEF Drained, TypeOK
  <2>2. StartInv' /\ TimeoutsInv' /\ ReturnInv'
    BY <1>28 DEF Drained, TypeOK, StartInv, TimeoutsInv, ReturnInv
  <2>3. ShutdownInv'
    BY <1>28 DEF Drained, TypeOK, StartInv, TimeoutsInv, ShutdownInv, Up, Registered, Alive
  <2>4. QED BY <2>1, <2>2, <2>3
<1>29. ASSUME NEW i \in DOMAIN stopper, DeadlineExceeded(i) PROVE IInv'
  <2>0. /\ main' \in {main, "exited"} /\ main # "exited" /\ stopper # <<>>
        /\ UNCHANGED <<todo, cur, opened, servers, timeouts, serve, term, early, shut, slots>>
    BY <1>29 DEF DeadlineExceeded, Alive, TypeOK
  <2>1. TypeOK'
    <3>1. /\ stopper' \in Seq({"timeout", "call", "drain", "done"})
          /\ expired' \subseteq HasDeadline /\ panicked' \in BOOLEAN
      BY <1>29, StopperMoves DEF DeadlineExceeded, TypeOK, Phase
    <3>2. QED BY <1>29, <2>0, <3>1 DEF DeadlineExceeded, TypeOK
  <2>2. StartInv' /\ TimeoutsInv' /\ ReturnInv'
    BY <2>0 DEF TypeOK, StartInv, TimeoutsInv, ReturnInv
  <2>3. ShutdownInv'
    <3>1. Up' <=> Up
      BY <2>0 DEF Up, Registered
    <3>2. term /\ shut \notin {"none", "waiting", "make", "range"}
      BY <2>0 DEF TypeOK, ShutdownInv
    <3>3. Len(stopper') = Len(stopper)
      BY <1>29, StopperMoves DEF DeadlineExceeded, TypeOK, Phase
    <3>4. panicked' => early
      <4>1. i <= Len(servers)
        BY DEF TypeOK, ShutdownInv
      <4>2. ~early => slots = Len(servers)
        BY <3>2 DEF ShutdownInv, TypeOK
      <4>3. QED BY <1>29, <4>1, <4>2 DEF DeadlineExceeded, ShutdownInv, TypeOK
    <3>5. QED BY <2>0, <3>1, <3>2, <3>3, <3>4 DEF ShutdownInv, TypeOK
  <2>4. QED BY <2>1, <2>2, <2>3
<1>30. CASE MakeErrs
  <2>0. SeenLen \subseteq Nat
    BY DEF TypeOK, TimeoutsInv, SeenLen
  <2>1. TypeOK'
    BY <1>30, <2>0 DEF MakeErrs, TypeOK
  <2>2. StartInv' /\ TimeoutsInv' /\ ReturnInv'
    BY <1>30 DEF MakeErrs, TypeOK, StartInv, TimeoutsInv, ReturnInv
  <2>3. ShutdownInv'
    <3>1. /\ shut = "make" /\ shut' = "range" /\ term /\ main # "start"
          /\ UNCHANGED <<main, servers, serve, term, early, stopper, panicked>>
      BY <1>30 DEF MakeErrs, ShutdownInv
    <3>2. Up' <=> Up
      BY <3>1 DEF Up, Registered
    <3>3. ~early => slots' = Len(servers)
      <4>1. main = "appendTimeout" => ~Up
        BY DEF StartInv, TypeOK, Up, Registered
      <4>2. QED BY <1>30, <3>1, <4>1 DEF MakeErrs, SeenLen, ShutdownInv
    <3>4. stopper' = <<>> /\ Len(stopper') <= Len(servers')
      BY <3>1 DEF TypeOK, ShutdownInv
    <3>5. (term' /\ ~early' => Up') /\ (panicked' => term' /\ early')
      BY <3>1, <3>2 DEF ShutdownInv
    <3>6. ~early' => slots' = Len(servers')
      BY <3>1, <3>3
    <3>7. QED BY <3>1, <3>4, <3>5, <3>6 DEF ShutdownInv
  <2>4. QED BY <2>1, <2>2, <2>3
<1>31. CASE UNCHANGED vars
  BY <1>31 DEF vars, TypeOK, StartInv, TimeoutsInv, ReturnInv, ShutdownInv, Up, Registered
<1>32. QED
  BY <1>1, <1>2, <1>3, <1>4, <1>5, <1>6, <1>7, <1>8, <1>9, <1>10, <1>11, <1>12, <1>13, <1>14, <1>15, <1>16, <1>17, <1>18, <1>19, <1>20, <1>21, <1>22, <1>23, <1>24, <1>25, <1>26, <1>27, <1>28, <1>29, <1>30, <1>31
     DEF Next, Run, Stopping

(* The loop of run, the lengths of the two slices Shutdown reads and the    *)
(* ways run can return, for every interleaving with the signal's goroutine. *)
THEOREM LifecycleInvariant == Spec => []IInv
BY InitIInv, NextIInv, PTL DEF Spec

(* The types of the variables: among them, that d.shutdownTimeouts is never *)
(* longer than there are listen addresses (fasthttpd.go 65-79, 203-205).    *)
THEOREM LifecycleTypeCorrect == Spec => []TypeOK
<1>1. IInv => TypeOK
  BY DEF IInv
<1>2. QED BY <1>1, LifecycleInvariant, PTL

(* Once every server was started, no host is closed while its server        *)
(* accepts, for any number of servers and whichever of them fails, and      *)
(* whatever ends the process (fasthttpd.go 192, 213-218).                   *)
THEOREM ClosedTheorem == Spec => []ClosedAfterServe
<1>1. IInv => ClosedAfterServe
  BY DEF IInv, ReturnInv, Started, OpenedInv, ClosedAfterServe
<1>2. QED BY <1>1, LifecycleInvariant, PTL

(* A signal that comes when every server is up never makes Shutdown go past *)
(* d.servers, d.shutdownTimeouts or its errs, for any number of servers     *)
(* (fasthttpd.go 204-205, 262-274).                                         *)
THEOREM PanicTheorem == Spec => []NoPanic
<1>1. IInv => NoPanic
  BY DEF IInv, ShutdownInv, NoPanic
<1>2. QED BY <1>1, LifecycleInvariant, PTL
==============================================================================
