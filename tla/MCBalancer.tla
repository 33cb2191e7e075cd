---------------------------- MODULE MCBalancer ----------------------------
(* Balancer with two requests of one client.                               *)
EXTENDS Balancer

CONSTANTS q1, q2

Requests == {q1, q2}
OneClient == [q \in Requests |-> 5]

\* Bound: every backend answers or refuses at first; one may fall silent later.
AnsweringAtFirst == Init /\ \A b \in Backend : state[b] # "silent"

FewSpec == AnsweringAtFirst /\ [][Next]_vars /\ Fairness
===========================================================================
