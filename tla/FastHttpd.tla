------------------------------ MODULE FastHttpd ------------------------------
(***************************************************************************)
(* pkg/cmd/fasthttpd.go: the life of the process.  The main goroutine      *)
(* (run) starts one server per listen address and waits for all of them;   *)
(* a second goroutine waits for SIGINT or SIGTERM and calls Shutdown; a    *)
(* third rotates the logs on SIGHUP; each server accepts and serves        *)
(* requests in goroutines of its own.                                      *)
(*                                                                         *)
(* fasthttp.Server is modelled from how this code uses it: Serve registers *)
(* its listener when its goroutine first runs, and returns as soon as the  *)
(* listener is closed; ShutdownWithContext returns at once when no         *)
(* listener is registered, otherwise closes it and waits for the open      *)
(* requests or the deadline.  The process ends when run has returned,      *)
(* whatever the other goroutines are doing.                                *)
(***************************************************************************)
EXTENDS Integers, Sequences, FiniteSets, SequencesExt

CONSTANTS
  Listen,         \* the listen addresses, one server each
  HasDeadline,    \* those whose shutdownTimeout is positive
  MaxInFlight,    \* bound: requests in flight per server
  MaxHup,         \* bound: SIGHUPs sent
  StartupMayFail, \* whether NewServerHandler or listen may fail
  AcceptMayFail   \* whether accepting a connection may fail for good

ASSUME LifecycleAssumption ==
  /\ IsFiniteSet(Listen)
  /\ HasDeadline \subseteq Listen
  /\ MaxInFlight \in Nat
  /\ MaxHup \in Nat
  /\ StartupMayFail \in BOOLEAN
  /\ AcceptMayFail \in BOOLEAN

VARIABLES
  main,       \* where run is; "exited": the process is gone
  todo,       \* listen addresses the loop has still to start
  cur,        \* the address the loop is starting
  opened,     \* the deferred h.Close calls, in the order they were deferred
  servers,    \* d.servers
  timeouts,   \* len(d.shutdownTimeouts)
  serve,      \* the goroutine of each server
  listener,   \* whether each address accepts connections
  inflight,   \* requests being handled by each server
  term,       \* ctx is done: SIGINT or SIGTERM has arrived
  shut,       \* the goroutine that calls Shutdown
  slots,      \* the length of its errs
  stopper,    \* its goroutines, one per server it found
  hupCh,      \* d.hupCh
  hupBuf,     \* signals buffered in it
  hupLoop,    \* the goroutine ranging over it
  hupLeft,    \* SIGHUPs the environment may still send
  \* history
  early,      \* the signal came before every server was up
  panicked,   \* Shutdown used an index past the end of a slice
  expired,    \* servers whose shutdown deadline has passed
  hupAsked    \* a SIGHUP has arrived since the last rotation began

startVars == <<todo, cur, opened>>
serverVars == <<servers, timeouts>>
serveVars == <<serve, listener, inflight>>
shutVars == <<shut, slots, stopper, panicked, expired>>
hupVars == <<hupCh, hupBuf, hupLoop, hupLeft, hupAsked>>
termVars == <<term, early>>
vars == <<main, startVars, serverVars, serveVars, termVars, shutVars, hupVars>>

Alive == main # "exited"
\* The server knows its listener (s.ln # nil).
Registered(l) == serve[l] \in {"accepting", "returned"}

Up == \A l \in Listen : Registered(l)

Init ==
  /\ main = "start"
  /\ todo = Listen
  /\ cur \in Listen
  /\ opened = <<>>
  /\ servers = <<>>
  /\ timeouts = 0
  /\ serve = [l \in Listen |-> "none"]
  /\ listener = [l \in Listen |-> "none"]
  /\ inflight = [l \in Listen |-> 0]
  /\ term = FALSE
  /\ early = FALSE
  /\ shut = "none"
  /\ slots = 0
  /\ stopper = <<>>
  /\ hupCh = "nil"
  /\ hupBuf = 0
  /\ hupLoop = "none"
  /\ hupLeft = MaxHup
  /\ panicked = FALSE
  /\ expired = {}
  /\ hupAsked = FALSE

------------------------------------------------------------------------------
(* run *)

\* signal.NotifyContext, and the goroutine waiting for it.
NotifyContext ==
  /\ main = "start"
  /\ shut' = "waiting"
  /\ main' = "hup"
  /\ UNCHANGED <<startVars, serverVars, serveVars, termVars, slots, stopper, panicked, expired, hupVars>>

HandleHUP ==
  /\ main = "hup"
  /\ hupCh' = "open"
  /\ hupLoop' = "receiving"
  /\ main' = "loop"
  /\ UNCHANGED <<startVars, serverVars, serveVars, termVars, shutVars, hupBuf, hupLeft, hupAsked>>

\* The loop ranges over a map: any order.
NewServerHandler ==
  /\ main = "loop"
  /\ \E l \in todo :
       /\ cur' = l
       /\ todo' = todo \ {l}
       /\ opened' = Append(opened, l)
  /\ main' = "listen"
  /\ UNCHANGED <<serverVars, serveVars, termVars, shutVars, hupVars>>

Bind ==
  /\ main = "listen"
  /\ listener' = [listener EXCEPT ![cur] = "open"]
  /\ main' = "append"
  /\ UNCHANGED <<startVars, serverVars, serve, inflight, termVars, shutVars, hupVars>>

\* An error of NewServerHandler or of listen: run returns it.
StartupFails ==
  /\ StartupMayFail
  /\ \/ main = "listen"
     \/ main = "loop" /\ todo # {}
  /\ main' = "return"
  /\ UNCHANGED <<startVars, serverVars, serveVars, termVars, shutVars, hupVars>>

AppendServer ==
  /\ main = "append"
  /\ servers' = Append(servers, cur)
  /\ main' = "appendTimeout"
  /\ UNCHANGED <<startVars, timeouts, serveVars, termVars, shutVars, hupVars>>

\* Variant: the timeouts are appended only for servers that have one.
AppendSomeTimeouts ==
  /\ main = "appendTimeout"
  /\ timeouts' = IF cur \in HasDeadline THEN timeouts + 1 ELSE timeouts
  /\ main' = "go"
  /\ UNCHANGED <<startVars, servers, serveVars, termVars, shutVars, hupVars>>

AppendTimeout ==
  /\ main = "appendTimeout"
  /\ timeouts' = timeouts + 1
  /\ main' = "go"
  /\ UNCHANGED <<startVars, servers, serveVars, termVars, shutVars, hupVars>>

GoServe ==
  /\ main = "go"
  /\ serve' = [serve EXCEPT ![cur] = "spawned"]
  /\ main' = "loop"
  /\ UNCHANGED <<startVars, serverVars, listener, inflight, termVars, shutVars, hupVars>>

LoopDone ==
  /\ main = "loop"
  /\ todo = {}
  /\ main' = "wait"
  /\ UNCHANGED <<startVars, serverVars, serveVars, termVars, shutVars, hupVars>>

\* Variant: run returns with the first server that does.
FirstReturned ==
  /\ main = "wait"
  /\ \E l \in Listen : serve[l] = "returned"
  /\ main' = "return"
  /\ UNCHANGED <<startVars, serverVars, serveVars, termVars, shutVars, hupVars>>

\* One value of errChs per server.
AllReturned ==
  /\ main = "wait"
  /\ \A l \in Listen : serve[l] = "returned"
  /\ main' = "return"
  /\ UNCHANGED <<startVars, serverVars, serveVars, termVars, shutVars, hupVars>>

\* The deferred h.Close calls, last opened first.
CloseHandler ==
  /\ main = "return"
  /\ opened # <<>>
  /\ opened' = Front(opened)
  /\ UNCHANGED <<main, todo, cur, serverVars, serveVars, termVars, shutVars, hupVars>>

\* stop(), then main returns.
Exit ==
  /\ main = "return"
  /\ opened = <<>>
  /\ main' = "exited"
  /\ UNCHANGED <<startVars, serverVars, serveVars, termVars, shutVars, hupVars>>

Run ==
  \/ NotifyContext \/ HandleHUP \/ NewServerHandler \/ Bind \/ AppendServer
  \/ AppendTimeout \/ GoServe \/ LoopDone \/ AllReturned \/ CloseHandler \/ Exit

------------------------------------------------------------------------------
(* fasthttp.Server *)

ServeRegisters(l) ==
  /\ Alive
  /\ serve[l] = "spawned"
  /\ serve' = [serve EXCEPT ![l] = "accepting"]
  /\ UNCHANGED <<main, startVars, serverVars, listener, inflight, termVars, shutVars, hupVars>>

RequestArrives(l) ==
  /\ Alive
  /\ serve[l] = "accepting"
  /\ listener[l] = "open"
  /\ inflight[l] < MaxInFlight
  /\ inflight' = [inflight EXCEPT ![l] = @ + 1]
  /\ UNCHANGED <<main, startVars, serverVars, serve, listener, termVars, shutVars, hupVars>>

RequestEnds(l) ==
  /\ Alive
  /\ inflight[l] > 0
  /\ inflight' = [inflight EXCEPT ![l] = @ - 1]
  /\ UNCHANGED <<main, startVars, serverVars, serve, listener, termVars, shutVars, hupVars>>

\* The listener was closed: Serve does not wait for the requests in flight.
ServeReturns(l) ==
  /\ Alive
  /\ serve[l] = "accepting"
  /\ listener[l] = "closed"
  /\ serve' = [serve EXCEPT ![l] = "returned"]
  /\ UNCHANGED <<main, startVars, serverVars, listener, inflight, termVars, shutVars, hupVars>>

\* Accepting fails for another reason; the listener is left as it is.
ServeFails(l) ==
  /\ Alive
  /\ AcceptMayFail
  /\ serve[l] = "accepting"
  /\ listener[l] = "open"
  /\ serve' = [serve EXCEPT ![l] = "returned"]
  /\ UNCHANGED <<main, startVars, serverVars, listener, inflight, termVars, shutVars, hupVars>>

------------------------------------------------------------------------------
(* Signals and Shutdown *)

Terminate ==
  /\ Alive
  /\ shut # "none"
  /\ ~term
  /\ term' = TRUE
  /\ early' = ~Up
  /\ UNCHANGED <<main, startVars, serverVars, serveVars, shutVars, hupVars>>

\* d.stopHUP(): signal.Stop returns only when no more signals can be sent to
\* the channel, so closing it is safe.
StopHUP ==
  /\ Alive
  /\ shut = "waiting"
  /\ term
  /\ shut' = "make"
  /\ hupCh' = IF hupCh = "open" THEN "closed" ELSE hupCh
  /\ UNCHANGED <<main, startVars, serverVars, serveVars, termVars, slots, stopper, panicked, expired,
                 hupBuf, hupLoop, hupLeft, hupAsked>>

\* What a read of len(d.servers) may give.  Nothing orders it after the append of
\* run: next to it, the old length may be seen.
SeenLen == {Len(servers)} \cup (IF main = "appendTimeout" THEN {Len(servers) - 1} ELSE {})

\* errs := make([]error, len(d.servers))
MakeErrs ==
  /\ Alive
  /\ shut = "make"
  /\ slots' \in SeenLen
  /\ shut' = "range"
  /\ UNCHANGED <<main, startVars, serverVars, serveVars, termVars, stopper, panicked, expired,
                 hupVars>>

\* for i, server := range d.servers: another read, which sees no older length
\* than the one before.  The new length with the old array ends the process.
RangeServers ==
  /\ Alive
  /\ shut = "range"
  /\ \/ \E n \in SeenLen :
          /\ n >= slots
          /\ stopper' = [i \in 1 .. n |-> "timeout"]
          /\ shut' = "wait"
          /\ UNCHANGED <<main, panicked>>
     \/ /\ main = "appendTimeout"
        /\ panicked' = TRUE
        /\ main' = "exited"
        /\ UNCHANGED <<shut, stopper>>
  /\ UNCHANGED <<startVars, serverVars, serveVars, termVars, slots, expired, hupVars>>

\* d.shutdownTimeouts[i]: an index out of range ends the process.
ReadTimeout(i) ==
  /\ Alive
  /\ stopper[i] = "timeout"
  /\ IF i <= timeouts
     THEN /\ stopper' = [stopper EXCEPT ![i] = "call"]
          /\ UNCHANGED <<main, panicked>>
     ELSE /\ panicked' = TRUE
          /\ main' = "exited"
          /\ UNCHANGED stopper
  /\ UNCHANGED <<startVars, serverVars, serveVars, termVars, shut, slots, expired, hupVars>>

\* Variant: the requests are waited for before the listener is closed.
ShutdownKeepsListener(i) ==
  /\ Alive
  /\ stopper[i] = "call"
  /\ stopper' = [stopper EXCEPT ![i] = "drain"]
  /\ UNCHANGED <<main, startVars, serverVars, serveVars, termVars, shut, slots,
                 panicked, expired, hupVars>>

\* server.ShutdownWithContext(ctx) up to its wait.
ShutdownServer(i) ==
  /\ Alive
  /\ stopper[i] = "call"
  /\ IF Registered(servers[i])
     THEN /\ stopper' = [stopper EXCEPT ![i] = "drain"]
          /\ listener' = [listener EXCEPT ![servers[i]] = "closed"]
     ELSE /\ stopper' = [stopper EXCEPT ![i] = "done"]
          /\ UNCHANGED listener
  /\ UNCHANGED <<main, startVars, serverVars, serve, inflight, termVars, shut, slots,
                 panicked, expired, hupVars>>

Drained(i) ==
  /\ Alive
  /\ stopper[i] = "drain"
  /\ inflight[servers[i]] = 0
  /\ stopper' = [stopper EXCEPT ![i] = "done"]
  /\ UNCHANGED <<main, startVars, serverVars, serveVars, termVars, shut, slots, panicked, expired, hupVars>>

\* context.DeadlineExceeded, stored in errs[i]: an index out of range, of a server
\* appended after errs was made, ends the process.
DeadlineExceeded(i) ==
  /\ Alive
  /\ stopper[i] = "drain"
  /\ servers[i] \in HasDeadline
  /\ expired' = expired \cup {servers[i]}
  /\ IF i <= slots
     THEN /\ stopper' = [stopper EXCEPT ![i] = "done"]
          /\ UNCHANGED <<main, panicked>>
     ELSE /\ panicked' = TRUE
          /\ main' = "exited"
          /\ UNCHANGED stopper
  /\ UNCHANGED <<startVars, serverVars, serveVars, termVars, shut, slots, hupVars>>

ShutdownReturns ==
  /\ Alive
  /\ shut = "wait"
  /\ \A i \in DOMAIN stopper : stopper[i] = "done"
  /\ shut' = "done"
  /\ UNCHANGED <<main, startVars, serverVars, serveVars, termVars, slots, stopper, panicked, expired, hupVars>>

------------------------------------------------------------------------------
(* SIGHUP *)

\* Variant: an unbuffered channel, which only a waiting receiver can be sent
\* to.
SendUnbuffered ==
  /\ Alive
  /\ hupLeft > 0
  /\ hupCh = "open"
  /\ hupLeft' = hupLeft - 1
  /\ hupBuf' = IF hupLoop = "receiving" THEN 1 ELSE hupBuf
  /\ hupAsked' = TRUE
  /\ UNCHANGED <<main, startVars, serverVars, serveVars, termVars, shutVars, hupCh, hupLoop>>

\* os/signal sends without blocking to a channel of capacity 1.
SendHUP ==
  /\ Alive
  /\ hupLeft > 0
  /\ hupCh = "open"
  /\ hupLeft' = hupLeft - 1
  /\ hupBuf' = 1
  /\ hupAsked' = TRUE
  /\ UNCHANGED <<main, startVars, serverVars, serveVars, termVars, shutVars, hupCh, hupLoop>>

\* for range ch, up to the call of logger.RotateShared.
ReceiveHUP ==
  /\ Alive
  /\ hupLoop = "receiving"
  /\ hupBuf = 1
  /\ hupBuf' = 0
  /\ hupLoop' = "rotating"
  /\ hupAsked' = FALSE
  /\ UNCHANGED <<main, startVars, serverVars, serveVars, termVars, shutVars, hupCh, hupLeft>>

RotateShared ==
  /\ Alive
  /\ hupLoop = "rotating"
  /\ hupLoop' = "receiving"
  /\ UNCHANGED <<main, startVars, serverVars, serveVars, termVars, shutVars,
                 hupCh, hupBuf, hupLeft, hupAsked>>

\* A closed channel is drained before the loop ends.
HupLoopEnds ==
  /\ Alive
  /\ hupLoop = "receiving"
  /\ hupCh = "closed"
  /\ hupBuf = 0
  /\ hupLoop' = "ended"
  /\ UNCHANGED <<main, startVars, serverVars, serveVars, termVars, shutVars,
                 hupCh, hupBuf, hupLeft, hupAsked>>

------------------------------------------------------------------------------
Stopping ==
  \/ StopHUP \/ MakeErrs \/ RangeServers \/ ShutdownReturns
  \/ \E i \in DOMAIN stopper : ReadTimeout(i) \/ ShutdownServer(i)

Next ==
  \/ Run \/ StartupFails
  \/ \E l \in Listen : ServeRegisters(l) \/ RequestArrives(l) \/ RequestEnds(l) \/ ServeReturns(l)
  \/ \E l \in Listen : ServeFails(l)
  \/ Terminate \/ Stopping
  \/ \E i \in DOMAIN stopper : Drained(i) \/ DeadlineExceeded(i)
  \/ SendHUP \/ ReceiveHUP \/ RotateShared \/ HupLoopEnds

Spec == Init /\ [][Next]_vars

\* Goroutines that can run eventually do.  Nothing is assumed of signals,
\* of the arrival and the end of requests, or of deadlines.
Fairness ==
  /\ WF_vars(Run)
  /\ WF_vars(Stopping)
  /\ \A l \in Listen : WF_vars(ServeRegisters(l)) /\ WF_vars(ServeReturns(l))
  /\ WF_vars(ReceiveHUP) /\ WF_vars(RotateShared) /\ WF_vars(HupLoopEnds)

FairSpec == Spec /\ Fairness

------------------------------------------------------------------------------
(* The types of the variables (fasthttpd.go 65-79). *)
TypeOK ==
  /\ main \in {"start", "hup", "loop", "listen", "append", "appendTimeout", "go",
               "wait", "return", "exited"}
  /\ todo \subseteq Listen
  /\ cur \in Listen
  /\ opened \in Seq(Listen)
  /\ servers \in Seq(Listen)
  /\ timeouts \in 0 .. Cardinality(Listen)
  /\ serve \in [Listen -> {"none", "spawned", "accepting", "returned"}]
  /\ listener \in [Listen -> {"none", "open", "closed"}]
  /\ inflight \in [Listen -> 0 .. MaxInFlight]
  /\ term \in BOOLEAN /\ early \in BOOLEAN
  /\ shut \in {"none", "waiting", "make", "range", "wait", "done"}
  /\ slots \in Nat
  /\ stopper \in Seq({"timeout", "call", "drain", "done"})
  /\ hupCh \in {"nil", "open", "closed"}
  /\ hupBuf \in 0 .. 1
  /\ hupLoop \in {"none", "receiving", "rotating", "ended"}
  /\ hupLeft \in 0 .. MaxHup
  /\ panicked \in BOOLEAN
  /\ expired \subseteq HasDeadline
  /\ hupAsked \in BOOLEAN

(* A host's handler, and with it its access log, is closed only when its    *)
(* server no longer accepts (fasthttpd.go 192, 213-218), given that every   *)
(* server was started.                                                      *)
ClosedAfterServe ==
  (\A l \in Listen : serve[l] # "none") =>
    \A l \in Listen :
      main \in {"return", "exited"} /\ l \notin Range(opened) => serve[l] = "returned"

(* Shutdown never goes past the end of d.servers, d.shutdownTimeouts or its *)
(* errs, which it makes before it ranges over the servers and writes after  *)
(* a deadline (fasthttpd.go 204-205, 262-274), given that the signal comes  *)
(* when every server is up.                                                 *)
NoPanic == panicked => early

(* A signal that comes when every server is up shuts every server down and  *)
(* ends the process, however many requests are in flight and however long   *)
(* they take (fasthttpd.go 177-182, 258-278).                               *)
TermExits == (term /\ ~early) ~> main = "exited"

(* "the process exits" (docs/configuration.md 531) after SIGINT or SIGTERM, *)
(* whenever the signal comes (fasthttpd.go 177-182, 261-264).               *)
TermAlwaysExits == term ~> main = "exited"

(* Every SIGHUP is followed by a rotation that begins after it, also when   *)
(* it arrives during one (fasthttpd.go 226, 234), unless the process ends   *)
(* first.                                                                   *)
HupRotates == hupAsked ~> (~hupAsked \/ main = "exited")

(* "shutdownTimeout bounds how long the server waits for in-flight requests *)
(* to finish after receiving SIGINT or SIGTERM" (docs/configuration.md      *)
(* 531): after a signal that comes when every server is up, the process     *)
(* ends with a request in flight only when its server's deadline has passed *)
(* (fasthttpd.go 213-222).                                                  *)
WaitsForRequests ==
  term /\ ~early /\ main = "exited" =>
    \A l \in Listen : inflight[l] > 0 => l \in expired
==============================================================================
