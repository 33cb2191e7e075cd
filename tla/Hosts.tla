-------------------------------- MODULE Hosts --------------------------------
(***************************************************************************)
(* The life of the hosts of a process: FastHttpd.run builds the hosts of   *)
(* one listener after the other (pkg/handler/server.go, pkg/logger), lets  *)
(* each listener accept as soon as its hosts are ready, and closes what it *)
(* has deferred to close when it returns, after an error of startup as     *)
(* well.  The access logs, and the files they share with each other and    *)
(* with the error logs, are those of module AccessLog.                     *)
(*                                                                         *)
(* What makes Serve return, and whether requests are left then, is the     *)
(* business of module FastHttpd.                                           *)
(***************************************************************************)
EXTENDS AccessLog

CONSTANTS
  Listen,        \* listen addresses
  HostsOf,       \* listen address -> its hosts, in the order of the file
  LogOutput,     \* host -> the file named by its log.output, or NoFile
  NoFile         \* an empty log.output

ASSUME HostsAssumption ==
  /\ HostsOf \in [Listen -> Seq(Host)]
  /\ LogOutput \in [Host -> File \cup {NoFile}]
  /\ NoFile \notin File
  /\ IsFiniteSet(Host) /\ IsFiniteSet(Listen)
  \* run groups the configurations by their listen address.
  /\ \A l \in Listen : HostsOf[l] # <<>>
  /\ \A l, k \in Listen : \A i \in DOMAIN HostsOf[l], j \in DOMAIN HostsOf[k] :
       HostsOf[l][i] = HostsOf[k][j] => l = k /\ i = j

VARIABLES
  stage,       \* where run is
  groups,      \* addresses still to be served, in the order of the map range
  built,       \* hosts of Head(groups) that are ready
  deferred,    \* hosts whose Close is deferred, in the order of the calls
  accepting,   \* hosts whose listener has begun to accept
  loggers,     \* hosts whose error log has been opened
  drained      \* whether Serve returns only after the last Log

hostVars == <<stage, groups, built, deferred, accepting, loggers, drained>>
vars == <<logVars, hostVars>>

Building == HostsOf[Head(groups)][built + 1]

Init ==
  /\ InitLogs
  /\ groups \in SetToSeqs(Listen)
  /\ stage = IF groups = <<>> THEN "serving" ELSE "logger"
  /\ built = 0
  /\ deferred = <<>>
  /\ accepting = {}
  /\ loggers = {}
  /\ drained \in BOOLEAN

------------------------------------------------------------------------------
(* newHostHandler, for one host after the other *)

\* logger.NewLogger: the nil logger has no file.
NewLogger ==
  /\ stage = "logger"
  /\ IF LogOutput[Building] = NoFile
     THEN UNCHANGED <<sharedRotators, shared, loggers>>
     ELSE Share(LogOutput[Building]) /\ loggers' = loggers \cup {Building}
  /\ stage' = "accessLog"
  /\ UNCHANGED <<fileVars, rotations, bufferVars, closeVars, looping, pc, order,
                 groups, built, deferred, accepting, drained>>

OpenAccessLog ==
  /\ stage = "accessLog"
  /\ NewAccessLog(Building)
  /\ stage' = "ready"
  /\ UNCHANGED <<groups, built, deferred, accepting, loggers, drained>>

\* Variant: a listener is served once its first host is ready.
HostReadyFirst ==
  /\ stage = "ready"
  /\ built' = 0
  /\ stage' = "listen"
  /\ deferred' = HostsOf[Head(groups)] \o deferred
  /\ UNCHANGED <<logVars, groups, accepting, loggers, drained>>

\* Filters, handlers and routes are fine.  After the last host of a listener
\* run defers the Close of all of them, virtualHandler.Close or
\* hostHandler.Close; the last that is deferred is called first.
HostReady ==
  /\ stage = "ready"
  /\ IF built + 1 < Len(HostsOf[Head(groups)])
     THEN /\ built' = built + 1
          /\ stage' = "logger"
          /\ UNCHANGED deferred
     ELSE /\ built' = 0
          /\ stage' = "listen"
          /\ deferred' = HostsOf[Head(groups)] \o deferred
  /\ UNCHANGED <<logVars, groups, accepting, loggers, drained>>

\* Each error log of the listener says that the server starts; Serve.
StartServer ==
  LET hosts == Range(HostsOf[Head(groups)])
  IN  /\ stage = "listen"
      /\ open' = [f \in File |-> open[f] \/ \E h \in hosts : LogOutput[h] = f]
      /\ accepting' = accepting \cup hosts
      /\ groups' = Tail(groups)
      /\ stage' = IF Tail(groups) = <<>> THEN "serving" ELSE "logger"
      /\ UNCHANGED <<sharedRotators, shared, written, faults, rotations, bufferVars, closeVars, looping,
                     pc, order, built, deferred, loggers, drained>>

\* An error of NewLogger or NewAccessLog gives back the file it has just
\* shared; what the hosts of an unfinished listener have opened stays open.
StartupFails ==
  /\ stage \in {"logger", "accessLog", "ready", "listen"}
  /\ toClose' = deferred
  /\ stage' = "closing"
  /\ UNCHANGED <<rotatorVars, bufferVars, closed, usable, closing, looping, pc, order,
                 groups, built, deferred, accepting, loggers, drained>>

\* Every Serve has returned.
RunReturns ==
  /\ stage = "serving"
  /\ drained => \A r \in Request : pc[r] \notin {"append", "write", "rest"}
  /\ toClose' = deferred
  /\ stage' = "closing"
  /\ UNCHANGED <<rotatorVars, bufferVars, closed, usable, closing, looping, pc, order,
                 groups, built, deferred, accepting, loggers, drained>>

\* The last deferred call has returned, and main with it.
Exit ==
  /\ stage = "closing"
  /\ toClose = <<>>
  /\ stage' = "exited"
  /\ UNCHANGED <<logVars, groups, built, deferred, accepting, loggers, drained>>

------------------------------------------------------------------------------
\* hostHandler.Handle comes to its end for a request of this host.
Logs(r) ==
  /\ stage # "exited"
  /\ HostOf[r] \in accepting
  /\ pc[r] = "handling" /\ drained => stage # "closing"
  /\ Log(r)
  /\ UNCHANGED hostVars

FlushLoop(h) ==
  /\ stage # "exited"
  /\ FlushTick(h) \/ FlushLoopEnds(h)
  /\ UNCHANGED hostVars

HandleHUP ==
  /\ stage # "exited"
  /\ RotateShared
  /\ UNCHANGED hostVars

CloseHosts ==
  /\ stage = "closing"
  /\ drained => \A r \in Request : pc[r] \notin {"append", "write", "rest"}
  /\ Close
  /\ UNCHANGED hostVars

Next ==
  \/ NewLogger \/ OpenAccessLog \/ HostReady \/ StartServer \/ StartupFails
  \/ RunReturns \/ CloseHosts \/ Exit
  \/ \E r \in Request : Logs(r)
  \/ \E h \in Host : FlushLoop(h)
  \/ HandleHUP

Spec == Init /\ [][Next]_vars

\* Launched goroutines run, the ticker keeps ticking and a Close that has begun
\* goes on; nothing makes a request, a SIGHUP or the end of run happen.
Fairness ==
  /\ \A h \in Host : WF_vars(FlushLoop(h))
  /\ WF_vars(closing # "no" /\ CloseHosts)

FairSpec == Spec /\ Fairness

------------------------------------------------------------------------------
(* The types of the variables (server.go 54-74, 122-185, rotator.go 41-49). *)
TypeOK ==
  /\ LogTypeOK
  /\ stage \in {"logger", "accessLog", "ready", "listen", "serving", "closing", "exited"}
  /\ groups \in Seq(Listen) /\ deferred \in Seq(Host)
  /\ built \in Nat
  /\ stage \in {"logger", "accessLog", "ready"} => Building \in Host
  /\ accepting \subseteq Host /\ loggers \subseteq Host
  /\ drained \in BOOLEAN

Users(f) ==
  Cardinality({h \in loggers : LogOutput[h] = f})
    + Cardinality({h \in Host : usable[h] /\ Output[h] = f})

(* A file is counted once for each log that was opened on it and not closed *)
(* since, and is in the map, where SIGHUP finds it, as long as the count is *)
(* not zero: whether the logs are of one host or of several, of listeners   *)
(* that serve, fail or close (rotator.go 53-99).  It leaves the map before  *)
(* it is closed, so that a SIGHUP does not open it again for good.          *)
CountsUsers ==
  \A f \in File :
    /\ shared[f] = Users(f)
    /\ shared[f] > 0 => f \in sharedRotators
    /\ f \in sharedRotators /\ shared[f] = 0 =>
         closing = "remove" /\ f = Output[Head(toClose)]

(* What run leaves behind when no request is left at its end, be it that    *)
(* startup failed: every line is in its file, the hosts' whose file failed  *)
(* excepted, and no file is open but those                                  *)
(* of error logs, which are never closed, and of hosts that were not ready  *)
(* when startup failed (server.go 122-185, 263-275, accesslog.go 118-140).  *)
ClosedIsComplete ==
  stage = "exited" /\ drained =>
    /\ \A h \in Host : failed[h] \/ (bw[h] = <<>> /\ rest[h] = <<>>)
    /\ \A f \in File : open[f] => Users(f) > 0

(* A request finds its log in place from the moment its listener accepts,   *)
(* that is appendLine is not nil, unless it overlaps with Close             *)
(* (accesslog.go 131, 165-174, fasthttpd.go 187-211).                       *)
LogIsReady ==
  drained => \A r \in Request : pc[r] # "panicked"

(* "Maximum time the buffer may sit unflushed" (docs/configuration.md 273): *)
(* a buffered line does not stay in the buffer forever, unless its request  *)
(* overlaps with Close or a write to the file has failed.                   *)
EventuallyFlushed ==
  \A h \in Host : drained /\ bw[h] # <<>> ~> failed[h] \/ bw[h] = <<>>
==============================================================================
