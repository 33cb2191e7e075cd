----------------------------- MODULE MCFastHttpd -----------------------------
(* FastHttpd with two servers, one of them without a shutdown deadline. *)
EXTENDS FastHttpd

CONSTANTS l1, l2

Addresses == {l1, l2}
Deadlines == {l1}
==============================================================================
