---------------------------- MODULE MCErrorPages ----------------------------
(* ErrorPages with the statuses 403, 404 and 500 and two error pages. *)
EXTENDS ErrorPages, TLC

CONSTANTS p404, p4xx, q1, q2

S403 == <<"4", "0", "3">>
S404 == <<"4", "0", "4">>
S500 == <<"5", "0", "0">>

Pages == {p404, p4xx}
Statuses == {S403, S404, S500}

\* 403 has the page of its class, 404 its own, 500 none.
Table == S404 :> p404 @@ <<"4", "x", "x">> :> p4xx

Requests == {q1, q2}
Maybe == {TRUE, FALSE}

Symmetric == Permutations(Request)
=============================================================================
