----------------------------- MODULE HostService -----------------------------
(***************************************************************************)
(* What a host promises a request, apart from how it finds a route: routes *)
(* take their turns in the order of the table, a later one only after a    *)
(* 404; a request may be turned away for good at any of them; the status   *)
(* given is the one of the last turn, and an error comes with a body.      *)
(* Module HostHandler is shown to implement this.                          *)
(***************************************************************************)
EXTENDS Integers

VARIABLES
  ordered,   \* whether the order is promised for this table
  phase,     \* "open", "answered" by a route, "declined", or "given"
  turn,      \* the route that answered last, counted from 0, or -1
  status,    \* the status of the answer, 0 while open
  hasBody    \* whether the answer has a body

vars == <<ordered, phase, turn, status, hasBody>>

Init ==
  /\ ordered \in BOOLEAN
  /\ phase = "open"
  /\ turn = -1
  /\ status = 0
  /\ hasBody = FALSE

TakeTurn ==
  /\ phase = "open"
  /\ phase' = "answered"
  /\ ordered => turn' > turn
  /\ status' \in 100 .. 599
  /\ hasBody' \in BOOLEAN
  /\ UNCHANGED ordered

\* A filter rejects the request, or no route is left.
Decline ==
  /\ phase = "open"
  /\ phase' = "declined"
  /\ status' \in 400 .. 499
  /\ hasBody'
  /\ UNCHANGED <<ordered, turn>>

PassOn ==
  /\ phase = "answered"
  /\ status = 404
  /\ phase' = "open"
  /\ status' = 0
  /\ hasBody' = FALSE
  /\ UNCHANGED <<ordered, turn>>

Give ==
  /\ phase \in {"answered", "declined"}
  /\ phase' = "given"
  /\ status \in 400 .. 599 => hasBody
  /\ UNCHANGED <<ordered, turn, status, hasBody>>

\* A request that could not be read.
Refuse ==
  /\ phase = "open"
  /\ turn = -1
  /\ phase' = "given"
  /\ status' \in 400 .. 499
  /\ hasBody'
  /\ UNCHANGED <<ordered, turn>>

Next == TakeTurn \/ Decline \/ PassOn \/ Give \/ Refuse

Spec == Init /\ [][Next]_vars
==============================================================================
