------------------------------ MODULE AccessLog ------------------------------
(***************************************************************************)
(* pkg/logger/accesslog/accesslog.go over pkg/logger/rotator.go: the       *)
(* buffered access logs of the hosts of a process, the files they share,   *)
(* and the goroutines that touch them: requests (Log), one flush loop per  *)
(* log, the SIGHUP goroutine (RotateShared) and the main goroutine, which  *)
(* opens the logs and closes them one after the other when run returns.    *)
(* Module Hosts puts these actions together with the construction of the   *)
(* hosts.                                                                  *)
(*                                                                         *)
(* A line is a sequence of cells, short or longer than the buffer of its   *)
(* host, which a bufio.Writer cuts where its buffer is full; what it says  *)
(* is left out.  The file may refuse a write, or take a part of it: a      *)
(* bufio.Writer does nothing more after its first error.  Closing a        *)
(* lumberjack file closes its descriptor; a later write or rotation opens  *)
(* the file again.                                                         *)
(***************************************************************************)
EXTENDS Integers, Sequences, FiniteSets, SequencesExt

CONSTANTS
  Host,          \* virtual hosts, each with an access log
  File,          \* log files
  Output,        \* host -> the file named by its accessLog.output
  Request,       \* requests: one line each
  HostOf,        \* request -> host
  LineLength,    \* request -> cells of its line
  BufferSize,    \* host -> cells its bufio.Writer holds
  MaxRotations,  \* bound: SIGHUPs
  MaxFaults      \* bound: writes that fail

ASSUME LogAssumption ==
  /\ Output \in [Host -> File]
  /\ HostOf \in [Request -> Host]
  /\ LineLength \in [Request -> Nat \ {0}]
  /\ BufferSize \in [Host -> Nat \ {0}]
  /\ MaxRotations \in Nat /\ MaxFaults \in Nat

VARIABLES
  \* rotator.go
  sharedRotators,  \* the files in the map
  shared,          \* file -> r.shared, 0 without a rotator
  open,            \* file -> whether its descriptor is open
  written,         \* file -> cells written to it, rotated parts included
  rotations,       \* SIGHUPs left
  faults,          \* failing writes left
  \* accesslog.go
  bw,              \* host -> cells buffered
  failed,          \* host -> bw.err # nil
  rest,            \* host -> cells that a bw.Write between two writes to the file
                   \* is still to write; it holds l.mu
  closed,          \* host -> l.closed, and l.done is closed
  usable,          \* host -> l.appendLine # nil
  looping,         \* host -> the flush loop runs
  closing,         \* where Close is, for the host being closed
  toClose,         \* hosts that Close is still to be called for
  \* requests
  pc,              \* where each request is in Log
  order            \* history: host -> lines in the order bw.Write got them

fileVars == <<open, written, faults>>
rotatorVars == <<sharedRotators, shared, fileVars, rotations>>
bufferVars == <<bw, failed, rest>>
closeVars == <<closed, usable, closing, toClose>>
logVars == <<rotatorVars, bufferVars, closeVars, looping, pc, order>>

------------------------------------------------------------------------------
(* rotator.go *)

\* SharedRotator: the rotator of the map, or a new one, gets one more user.
Share(f) ==
  /\ sharedRotators' = sharedRotators \cup {f}
  /\ shared' = [shared EXCEPT ![f] = IF f \in sharedRotators THEN @ + 1 ELSE 1]

\* lumberjack.Logger.Write by way of the shared rotator takes n of the cells.
WriteOut(f, cells, n) ==
  /\ written' = [written EXCEPT ![f] = @ \o SubSeq(cells, 1, n)]
  /\ open' = [open EXCEPT ![f] = TRUE]

\* RotateShared, under sharedMutex: every file in the map is rotated.
RotateShared ==
  /\ rotations > 0
  /\ rotations' = rotations - 1
  /\ open' = [f \in File |-> open[f] \/ f \in sharedRotators]
  /\ UNCHANGED <<sharedRotators, shared, written, faults, bufferVars, closeVars, looping, pc, order>>

------------------------------------------------------------------------------
(* Opening, Log and the flush loop *)

InitLogs ==
  /\ sharedRotators = {}
  /\ shared = [f \in File |-> 0]
  /\ open = [f \in File |-> FALSE]
  /\ written = [f \in File |-> <<>>]
  /\ rotations = MaxRotations
  /\ faults = MaxFaults
  /\ bw = [h \in Host |-> <<>>]
  /\ failed = [h \in Host |-> FALSE]
  /\ rest = [h \in Host |-> <<>>]
  /\ closed = [h \in Host |-> FALSE]
  /\ usable = [h \in Host |-> FALSE]
  /\ looping = [h \in Host |-> FALSE]
  /\ closing = "no"
  /\ toClose = <<>>
  /\ pc = [r \in Request |-> "handling"]
  /\ order = [h \in Host |-> <<>>]

\* NewAccessLog: the file is shared, appendLine is set, the flush loop starts.
NewAccessLog(h) ==
  /\ Share(Output[h])
  /\ usable' = [usable EXCEPT ![h] = TRUE]
  /\ looping' = [looping EXCEPT ![h] = TRUE]
  /\ UNCHANGED <<fileVars, rotations, bufferVars, closed, closing, toClose, pc, order>>

\* The buffer, full or flushed, is written, or a line directly when the buffer is
\* empty: bw.err is nil so far.  After an error the buffer holds what the file
\* did not take of it, and what was to follow is dropped.
WriteBuffer(h, cells, buffered, left) ==
  \/ /\ WriteOut(Output[h], cells, Len(cells))
     /\ bw' = [bw EXCEPT ![h] = buffered]
     /\ rest' = [rest EXCEPT ![h] = left]
     /\ UNCHANGED <<failed, faults>>
  \/ /\ faults > 0
     /\ faults' = faults - 1
     /\ failed' = [failed EXCEPT ![h] = TRUE]
     /\ rest' = [rest EXCEPT ![h] = <<>>]
     /\ \E n \in 0 .. Len(cells) - 1 :
          /\ WriteOut(Output[h], cells, n)
          /\ bw' = [bw EXCEPT ![h] = IF @ = <<>> THEN <<>> ELSE SubSeq(cells, n + 1, Len(cells))]

\* bufio.Writer.Flush; its error is ignored.
Flush(h) ==
  IF failed[h] \/ bw[h] = <<>> THEN UNCHANGED <<fileVars, bufferVars>>
  ELSE WriteBuffer(h, bw[h], <<>>, <<>>)

\* if l.closed { return }: read without the mutex.
LogCheck(r) ==
  /\ pc[r] = "handling"
  /\ pc' = [pc EXCEPT ![r] = IF closed[HostOf[r]] THEN "returned" ELSE "append"]
  /\ UNCHANGED <<rotatorVars, bufferVars, closeVars, looping, order>>

\* l.appendLine(buf, ctx): a call of nil panics.
LogAppendLine(r) ==
  /\ pc[r] = "append"
  /\ pc' = [pc EXCEPT ![r] = IF usable[HostOf[r]] THEN "write" ELSE "panicked"]
  /\ UNCHANGED <<rotatorVars, bufferVars, closeVars, looping, order>>

\* The cells of a line.
LineOf(r) == [k \in 1 .. LineLength[r] |-> <<r, k>>]

\* A bw.Write of this host is between two writes to the file.
Held(h) == rest[h] # <<>>

\* Variant: what is longer than the buffer is written past it.
BufferLineDirect(h, p) ==
  IF failed[h] THEN UNCHANGED <<fileVars, bufferVars>>
  ELSE IF Len(p) <= BufferSize[h] - Len(bw[h])
    THEN bw' = [bw EXCEPT ![h] = @ \o p] /\ UNCHANGED <<fileVars, failed, rest>>
  ELSE WriteOut(Output[h], p, Len(p)) /\ UNCHANGED <<faults, bufferVars>>

\* bufio.Writer.Write of p, up to its next write to the file: what finds room is
\* copied; otherwise the buffer is filled and written, or p itself when the buffer
\* is empty, and what then remains is copied, or is to be written in its turn.
BufferLine(h, p) ==
  LET room == BufferSize[h] - Len(bw[h])
      n == IF bw[h] = <<>> THEN Len(p) ELSE room
      after == SubSeq(p, n + 1, Len(p))
  IN  IF failed[h] THEN UNCHANGED <<fileVars, bufferVars>>
      ELSE IF Len(p) <= room
        THEN /\ bw' = [bw EXCEPT ![h] = @ \o p]
             /\ rest' = [rest EXCEPT ![h] = <<>>]
             /\ UNCHANGED <<fileVars, failed>>
      ELSE IF Len(after) <= BufferSize[h]
        THEN WriteBuffer(h, bw[h] \o SubSeq(p, 1, n), after, <<>>)
        ELSE WriteBuffer(h, bw[h] \o SubSeq(p, 1, n), <<>>, after)

\* l.bw.Write(buf) under l.mu; its error is ignored.
LogWrite(r) ==
  LET h == HostOf[r]
  IN  /\ pc[r] = "write"
      /\ ~Held(h)
      /\ BufferLine(h, LineOf(r))
      /\ order' = [order EXCEPT ![h] = Append(@, r)]
      /\ pc' = [pc EXCEPT ![r] = IF rest'[h] = <<>> THEN "returned" ELSE "rest"]
      /\ UNCHANGED <<sharedRotators, shared, rotations, closeVars, looping>>

\* Its second write to the file, under l.mu still.
LogRest(r) ==
  LET h == HostOf[r]
  IN  /\ pc[r] = "rest"
      /\ BufferLine(h, rest[h])
      /\ pc' = [pc EXCEPT ![r] = "returned"]
      /\ UNCHANGED <<sharedRotators, shared, rotations, closeVars, looping, order>>

\* case <-ticker.C: with l.done closed too, select may take either case.
FlushTick(h) ==
  /\ looping[h]
  /\ bw[h] # <<>> /\ ~failed[h] /\ ~Held(h)
  /\ Flush(h)
  /\ UNCHANGED <<sharedRotators, shared, rotations, closeVars, looping,
                 pc, order>>

\* case <-l.done
FlushLoopEnds(h) ==
  /\ looping[h]
  /\ closed[h]
  /\ looping' = [looping EXCEPT ![h] = FALSE]
  /\ UNCHANGED <<rotatorVars, bufferVars, closeVars, pc, order>>

------------------------------------------------------------------------------
(* accessLog.Close, called for one host after the other *)

\* l.closed = true; close(l.done)
CloseMark ==
  /\ closing = "no"
  /\ toClose # <<>>
  /\ closed' = [closed EXCEPT ![Head(toClose)] = TRUE]
  /\ closing' = "flush"
  /\ UNCHANGED <<rotatorVars, bufferVars, usable, toClose, looping, pc, order>>

\* Variant: Close relies on the flush loop.
CloseNoFlush ==
  /\ closing = "flush"
  /\ closing' = "drop"
  /\ UNCHANGED <<rotatorVars, bufferVars, closed, usable, toClose, looping, pc, order>>

CloseFlush ==
  /\ closing = "flush"
  /\ ~Held(Head(toClose))
  /\ Flush(Head(toClose))
  /\ closing' = "drop"
  /\ UNCHANGED <<sharedRotators, shared, rotations, closed, usable,
                 toClose, looping, pc, order>>

\* Variant: the first host to close takes the file with it.
CloseDropLast ==
  /\ closing = "drop"
  /\ usable' = [usable EXCEPT ![Head(toClose)] = FALSE]
  /\ shared' = [shared EXCEPT ![Output[Head(toClose)]] = @ - 1]
  /\ closing' = "remove"
  /\ UNCHANGED <<sharedRotators, fileVars, rotations, bufferVars, closed, toClose,
                 looping, pc, order>>

\* l.appendLine = nil, and the count of the shared rotator goes down.
CloseDrop ==
  LET h == Head(toClose)
      f == Output[h]
  IN  /\ closing = "drop"
      /\ usable' = [usable EXCEPT ![h] = FALSE]
      /\ shared' = [shared EXCEPT ![f] = @ - 1]
      /\ IF shared[f] > 1
         THEN closing' = "no" /\ toClose' = Tail(toClose)
         ELSE closing' = "remove" /\ UNCHANGED toClose
      /\ UNCHANGED <<sharedRotators, fileVars, rotations, bufferVars, closed,
                     looping, pc, order>>

\* removeSharedRotator, under sharedMutex.
CloseRemove ==
  /\ closing = "remove"
  /\ sharedRotators' = sharedRotators \ {Output[Head(toClose)]}
  /\ closing' = "file"
  /\ UNCHANGED <<shared, fileVars, rotations, bufferVars, closed, usable,
                 toClose, looping, pc, order>>

\* r.Rotator.Close()
CloseFile ==
  /\ closing = "file"
  /\ open' = [open EXCEPT ![Output[Head(toClose)]] = FALSE]
  /\ closing' = "no"
  /\ toClose' = Tail(toClose)
  /\ UNCHANGED <<sharedRotators, shared, written, faults, rotations, bufferVars, closed,
                 usable, looping, pc, order>>

Close == CloseMark \/ CloseFlush \/ CloseDrop \/ CloseRemove \/ CloseFile

Log(r) == LogCheck(r) \/ LogAppendLine(r) \/ LogWrite(r) \/ LogRest(r)

------------------------------------------------------------------------------
Cell == Request \X Nat

LogTypeOK ==
  /\ sharedRotators \subseteq File
  /\ shared \in [File -> Nat]
  /\ open \in [File -> BOOLEAN]
  /\ written \in [File -> Seq(Cell)]
  /\ rotations \in 0 .. MaxRotations
  /\ faults \in 0 .. MaxFaults
  /\ bw \in [Host -> Seq(Cell)]
  /\ \A h \in Host : Len(bw[h]) <= BufferSize[h]
  /\ rest \in [Host -> Seq(Cell)]
  /\ failed \in [Host -> BOOLEAN]
  /\ closed \in [Host -> BOOLEAN]
  /\ usable \in [Host -> BOOLEAN] /\ looping \in [Host -> BOOLEAN]
  /\ closing \in {"no", "flush", "drop", "remove", "file"}
  /\ toClose \in Seq(Host)
  /\ pc \in [Request -> {"handling", "append", "write", "rest", "returned", "panicked"}]
  /\ order \in [Host -> Seq(Request)]

\* The cells of a file that are of a host.
Own(h, cells) ==
  LET own[n \in 0 .. Len(cells)] ==
        IF n = 0 THEN <<>>
        ELSE IF HostOf[cells[n][1]] = h THEN Append(own[n - 1], cells[n])
        ELSE own[n - 1]
  IN  own[Len(cells)]

\* What a host's log was given, and what has become of it.
Given(h) == FlattenSeq([i \in DOMAIN order[h] |-> LineOf(order[h][i])])
Kept(h) == Own(h, written[Output[h]]) \o (bw[h] \o rest[h])

(* Each host's lines reach its file once, in the order they were logged,    *)
(* and what is missing is in its buffer or being written, wherever the      *)
(* buffer cuts a line or the line passes it by, whoever flushes, rotates or *)
(* closes meanwhile and however many hosts share the file.  A write that    *)
(* fails costs the host the lines from then on, none before them and none   *)
(* of another host (accesslog.go 118-182).                                  *)
NothingLost ==
  \A h \in Host : IsPrefix(Kept(h), Given(h)) /\ (failed[h] \/ Kept(h) = Given(h))
==============================================================================
