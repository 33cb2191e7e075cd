------------------------------- MODULE Content -------------------------------
(***************************************************************************)
(* pkg/handler/content.go: the content handler, a list of conditions with  *)
(* a response each and a default response.  The query string of a request  *)
(* and the random number drawn for a percentage are left open.             *)
(***************************************************************************)
EXTENDS Integers, Sequences

CONSTANT ContentPath    \* paths a condition may name

\* What a response sets; the headers are those of the handler when a condition
\* has none of its own, and are left out.
ContentResponse == [hasBody : BOOLEAN, status : {0} \cup 100 .. 599]

Condition == [kind : {"none", "path", "query", "percentage"},
              path : ContentPath,
              percentage : 0 .. 100,
              response : ContentResponse]

ContentConfig == [conditions : Seq(Condition), default : ContentResponse]

\* rand.Intn(100) <= percentage: one value more than the percentage says.
DrawHolds(draw, percentage) == draw <= percentage

\* Whether a condition may hold for a request, and whether it may fail to.
MayHold(cond, path) ==
  \/ cond.kind = "path" /\ cond.path = path
  \/ cond.kind = "query"
  \/ cond.kind = "percentage" /\ \E draw \in 0 .. 99 : DrawHolds(draw, cond.percentage)

MayFail(cond, path) ==
  \/ cond.kind = "none"
  \/ cond.kind = "path" /\ cond.path # path
  \/ cond.kind = "query"
  \/ cond.kind = "percentage" /\ \E draw \in 0 .. 99 : ~DrawHolds(draw, cond.percentage)

\* The responses Handle may give: that of the first condition that holds, or
\* the default one.
ContentResponses(c, path) ==
  LET last == Len(c.conditions)
      Reached(i) == \A j \in 1 .. i - 1 : MayFail(c.conditions[j], path)
      Answers(i) == Reached(i) /\ (i <= last => MayHold(c.conditions[i], path))
      Response(i) == IF i <= last THEN c.conditions[i].response ELSE c.default
  IN  {Response(i) : i \in {j \in 1 .. last + 1 : Answers(j)}}
==============================================================================
