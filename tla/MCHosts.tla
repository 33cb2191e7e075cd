------------------------------- MODULE MCHosts -------------------------------
(* Hosts with a virtual listener of two hosts and a listener of one, whose  *)
(* access log goes to the file of the second host; the access log and the   *)
(* error log of the first host go to one file too.  The lines of the second *)
(* host are shorter and longer than its buffer: the longer one is written   *)
(* past the buffer, after filling what the shorter one left of it.          *)
EXTENDS Hosts

CONSTANTS h1, h2, h3, f1, f2, r1, r3, r4, web, api, none

AllHosts == {h1, h2, h3}
Files == {f1, f2}
Outputs == [h \in AllHosts |-> IF h = h1 THEN f2 ELSE f1]
LogOutputs == [h \in AllHosts |-> IF h = h1 THEN f2 ELSE none]
Listens == {web, api}
Groups == [l \in Listens |-> IF l = web THEN <<h1, h2>> ELSE <<h3>>]
Requests == {r1, r3, r4}
Hosting == [r \in Requests |-> IF r = r4 THEN h3 ELSE h2]
Sizes == [h \in AllHosts |-> 2]
Lengths == [r \in Requests |-> IF r = r1 THEN 1 ELSE IF r = r3 THEN 4 ELSE 2]
==============================================================================
