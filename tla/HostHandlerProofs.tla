-------------------------- MODULE HostHandlerProofs --------------------------
(***************************************************************************)
(* Theorems about HostHandler, for every set of route tables, filters,     *)
(* handlers and formats.                                                   *)
(***************************************************************************)
EXTENDS HostHandler, TLAPS

W == INSTANCE WellFoundedInduction

(* Before a pass has answered, the response is as fasthttp made it: nothing *)
(* of an earlier pass is left in it.                                        *)
FreshInv ==
  pc \in {"start", "route", "filter", "answer"} =>
    status = 200 /\ body = "none" /\ stamped = {}

(* Once it has answered, an error has a body.                               *)
AnswerInv == pc \in {"next", "done"} /\ status \in ErrorStatus => body # "none"

(* Collect has seen the path as it arrived, before any rewrite.             *)
CollectInv ==
  /\ format \in LogFormat
  /\ arrived \in Path
  /\ pc = "start" => path = arrived /\ original = "-"
  /\ pc \notin {"start", "done"} =>
       original = IF CollectRequestURI(format) THEN arrived ELSE "-"
  /\ pc # "done" => line = NoLine

LogInv == CollectInv /\ LogsWhatHappened

IInv == FreshInv /\ AnswerInv /\ LogInv

------------------------------------------------------------------------------
(* ErrorPages.Handle leaves no error without a body.                        *)
LEMMA ErrorPagesBody ==
  ASSUME NEW st, NEW bd, ErrorPagesHandle(st, bd), st \in ErrorStatus
  PROVE  body' # "none"
BY DEF ErrorPagesHandle

LEMMA InitIInv == Init => IInv
BY HandlerAssumption DEF Init, IInv, FreshInv, AnswerInv, LogInv, CollectInv, LogsWhatHappened

(* The line that Finish writes has arrived for %r, the path as it stands    *)
(* for the other fields with a URI, and the status for %s.                  *)
LEMMA FinishLogs == CollectInv /\ Finish => LogsWhatHappened'
<1> SUFFICES ASSUME CollectInv, Finish PROVE LogsWhatHappened'
  OBVIOUS
<1>1. /\ line' = Line(format, original, path, status)
      /\ UNCHANGED <<format, original, arrived, path, status>>
      /\ original = IF CollectRequestURI(format) THEN arrived ELSE "-"
  BY DEF Finish, CollectInv, request
<1>2. DOMAIN line' = DOMAIN Fields(format)
  BY <1>1 DEF Line
<1>3. ASSUME NEW k \in DOMAIN Fields(format), Fields(format)[k] = "r"
      PROVE  CollectRequestURI(format)
  <2>1. Fields(format) = format.directives
    BY <1>3 DEF CollectInv, LogFormat, Fields, JSONFields, LTSVFields
  <2>2. QED BY <1>3, <2>1 DEF CollectRequestURI, Range
<1>4. ASSUME NEW k \in DOMAIN Fields(format)
      PROVE  /\ Fields(format)[k] = "r" => line'[k] = arrived
             /\ Fields(format)[k] \in {"U", "uri"} => line'[k] = path
             /\ Fields(format)[k] = "s" => line'[k] = status
  BY <1>1, <1>3 DEF Line
<1>5. original # "-" => line' # NoLine
  <2> SUFFICES ASSUME original # "-", line' = NoLine PROVE FALSE
    OBVIOUS
  <2>1. PICK k \in DOMAIN format.directives : format.directives[k] = "r"
    BY <1>1 DEF CollectRequestURI, Range
  <2>2. Fields(format) = format.directives
    BY <2>1 DEF CollectInv, LogFormat, Fields
  <2>3. line'[k] = arrived /\ k \in DOMAIN line'
    BY <1>2, <1>4, <2>1, <2>2
  <2>4. arrived = "none"
    BY <2>3 DEF NoLine
  <2>5. QED BY <2>4, HandlerAssumption DEF CollectInv
<1>6. QED BY <1>1, <1>2, <1>4, <1>5 DEF LogsWhatHappened

LEMMA NextLogInv == LogInv /\ [Next]_vars => LogInv'
<1> SUFFICES ASSUME LogInv, [Next]_vars PROVE LogInv'
  OBVIOUS
<1> USE DEF LogInv, request, logVars
<1>1. CASE HandleError
  BY <1>1 DEF HandleError, CollectInv, LogsWhatHappened
<1>2. CASE Collect
  BY <1>2 DEF Collect, CollectInv, LogsWhatHappened
<1>3. CASE RouteRequest
  BY <1>3 DEF RouteRequest, CollectInv, LogsWhatHappened
<1>4. CASE HandleRouteResult
  BY <1>4 DEF HandleRouteResult, FilterAccepts, FilterRejects, FiltersDone, Redirect,
              AnswerStatus, CallHandler, CollectInv, LogsWhatHappened
<1>5. CASE FallThrough
  BY <1>5 DEF FallThrough, CollectInv, LogsWhatHappened
<1>6. CASE Finish
  <2>1. CollectInv'
    BY <1>6 DEF Finish, CollectInv
  <2>2. QED BY <1>6, <2>1, FinishLogs
<1>7. CASE UNCHANGED vars
  BY <1>7 DEF vars, CollectInv, LogsWhatHappened
<1>8. QED BY <1>1, <1>2, <1>3, <1>4, <1>5, <1>6, <1>7 DEF Next

LEMMA NextAnswerInv == FreshInv /\ AnswerInv /\ [Next]_vars => (FreshInv /\ AnswerInv)'
<1> SUFFICES ASSUME FreshInv, AnswerInv, [Next]_vars PROVE (FreshInv /\ AnswerInv)'
  OBVIOUS
<1> USE DEF FreshInv, AnswerInv
<1>1. CASE HandleError
  BY <1>1, ErrorPagesBody DEF HandleError
<1>2. CASE Collect \/ RouteRequest \/ FilterAccepts \/ FiltersDone \/ FallThrough \/ Finish
  BY <1>2 DEF Collect, RouteRequest, FilterAccepts, FiltersDone, FallThrough, Finish
<1>3. CASE FilterRejects
  BY <1>3, ErrorPagesBody DEF FilterRejects
<1>4. CASE Redirect
  BY <1>4 DEF Redirect, IsHttpStatusRedirect, ErrorStatus
<1>5. CASE AnswerStatus
  BY <1>5, ErrorPagesBody DEF AnswerStatus
<1>6. CASE CallHandler
  <2>1. pc' = "next"
    BY <1>6 DEF CallHandler
  <2>2. \E bd : ErrorPagesHandle(status', bd)
    BY <1>6 DEF CallHandler
  <2>3. QED BY <2>1, <2>2, ErrorPagesBody
<1>7. CASE UNCHANGED vars
  BY <1>7 DEF vars
<1>8. QED BY <1>1, <1>2, <1>3, <1>4, <1>5, <1>6, <1>7 DEF Next, HandleRouteResult

(* What a request is answered and what is logged of it, in every pass of    *)
(* the loop of Handle.                                                      *)
THEOREM HandlerInvariant == Spec => []IInv
<1>1. IInv /\ [Next]_vars => IInv'
  BY NextAnswerInv, NextLogInv DEF IInv
<1>2. QED BY <1>1, InitIInv, PTL DEF Spec

(* Every error leaves with a body, whatever route, filter or handler gave   *)
(* it (errorpages.go 47-58, 129-148).                                       *)
THEOREM ErrorBodyTheorem == Spec => []ErrorHasBody
<1>1. IInv => ErrorHasBody
  BY DEF IInv, AnswerInv, ErrorHasBody
<1>2. QED BY <1>1, HandlerInvariant, PTL

(* The log line has, for every format and however often the request was     *)
(* rewritten, the URI the client sent where the format says %r, the URI as  *)
(* last rewritten where it says %U or is json or ltsv, and the status the   *)
(* request was given (server.go 199-218, accesslog.go 142-147).             *)
THEOREM LogTheorem == Spec => []LogsWhatHappened
<1>1. IInv => LogsWhatHappened
  BY DEF IInv, LogInv
<1>2. QED BY <1>1, HandlerInvariant, PTL

------------------------------------------------------------------------------
LEMMA Least == ASSUME NEW S \in SUBSET Nat, S # {} PROVE \E n \in S : \A m \in S : n <= m
<1> DEFINE Below == {ss \in Nat \X Nat : ss[1] < ss[2]}
<1>1. W!IsWellFoundedOn(Below, Nat)
  BY W!NatLessThanWellFounded DEF W!OpToRel
<1>2. PICK n \in S : \A m \in S : ~ (<<m, n>> \in Below)
  <2> HIDE DEF Below
  <2>1. QED BY <1>1, W!WFMin
<1>3. ASSUME NEW m \in S PROVE n <= m
  <2>1. ~(<<m, n>> \in Below)
    BY <1>2
  <2>2. ~(m < n)
    BY <2>1
  <2>3. QED BY <2>2
<1>4. QED BY <1>3

LEMMA Induction ==
  ASSUME NEW N \in Nat, NEW S, 0 \in S, \A n \in 0 .. N - 1 : n \in S => n + 1 \in S
  PROVE  \A n \in 0 .. N : n \in S
<1> DEFINE T == {n \in 0 .. N : n \notin S}
<1> SUFFICES ASSUME T # {} PROVE FALSE
  OBVIOUS
<1>1. PICK n \in T : \A m \in T : n <= m
  <2>1. T \in SUBSET Nat
    OBVIOUS
  <2> HIDE DEF T
  <2>2. QED BY <2>1, Least
<1>2. n # 0 /\ n - 1 \in 0 .. N - 1 /\ n - 1 \notin T
  BY <1>1
<1>3. n - 1 \in S
  BY <1>2
<1>4. (n - 1) + 1 \in S
  BY <1>2, <1>3
<1>5. QED BY <1>4

Recurs(g, N, X, c, Step) ==
  /\ g \in [0 .. N -> X]
  /\ g[0] = c
  /\ \A i \in 1 .. N : g[i] = Step[<<i, g[i - 1]>>]

LEMMA Recursion ==
  ASSUME NEW N \in Nat, NEW X, NEW c \in X, NEW Step \in [(1 .. N) \X X -> X]
  PROVE  \E g : Recurs(g, N, X, c, Step)
<1> DEFINE Good(n, g) == g \in [0 .. n -> X] /\ g[0] = c
                         /\ \A i \in 1 .. n : g[i] = Step[<<i, g[i - 1]>>]
           S == {n \in 0 .. N : \E g : Good(n, g)}
<1>1. 0 \in S
  <2>1. Good(0, [i \in 0 .. 0 |-> c])
    OBVIOUS
  <2> HIDE DEF Good
  <2>2. QED BY <2>1
<1>2. ASSUME NEW n \in 0 .. N - 1, n \in S PROVE n + 1 \in S
  <2>1. PICK g : Good(n, g)
    BY <1>2
  <2> DEFINE h == [i \in 0 .. n + 1 |-> IF i = n + 1 THEN Step[<<n + 1, g[n]>>] ELSE g[i]]
  <2>2. n + 1 \in 1 .. N /\ g[n] \in X /\ Step[<<n + 1, g[n]>>] \in X
    BY <2>1
  <2>3. h \in [0 .. n + 1 -> X] /\ h[0] = c
    BY <2>1, <2>2
  <2>4. ASSUME NEW i \in 1 .. n + 1 PROVE h[i] = Step[<<i, h[i - 1]>>]
    <3>1. i - 1 \in 0 .. n /\ h[i - 1] = g[i - 1]
      OBVIOUS
    <3>2. CASE i = n + 1
      BY <3>1, <3>2, SMTT(30)
    <3>3. CASE i # n + 1
      BY <3>1, <3>3, <2>1
    <3>4. QED BY <3>2, <3>3
  <2>5. Good(n + 1, h)
    BY <2>3, <2>4
  <2> HIDE DEF Good, h
  <2>6. QED BY <2>2, <2>5
<1> HIDE DEF S
<1>3. N \in S
  BY <1>1, <1>2, Induction
<1>4. QED BY <1>3 DEF S, Recurs

LEMMA AppendRange ==
  ASSUME NEW F, NEW s \in Seq(F), NEW e \in F
  PROVE  /\ Append(s, e) \in Seq(F) /\ Len(Append(s, e)) = Len(s) + 1
         /\ \A k \in 1 .. Len(s) : Append(s, e)[k] = s[k]
         /\ Range(Append(s, e)) = Range(s) \cup {e}
         /\ IsInjective(s) /\ e \notin Range(s) => IsInjective(Append(s, e))
<1> DEFINE a == Append(s, e)
<1>1. /\ a \in Seq(F) /\ Len(a) = Len(s) + 1 /\ a[Len(s) + 1] = e
      /\ \A k \in 1 .. Len(s) : a[k] = s[k]
      /\ DOMAIN a = 1 .. Len(s) + 1 /\ DOMAIN s = 1 .. Len(s)
  OBVIOUS
<1> HIDE DEF a
<1>2. Range(a) = Range(s) \cup {e}
  BY <1>1 DEF Range
<1>3. IsInjective(s) /\ e \notin Range(s) => IsInjective(a)
  BY <1>1 DEF IsInjective, Range
<1>4. QED BY <1>1, <1>2, <1>3 DEF a

IsNew(ss, values, i) ==
  /\ values[i] \notin Range(ss)
  /\ \A j \in 1 .. i - 1 : values[j] # values[i]

Keep(ss, values, i, kept) == IF IsNew(ss, values, i) THEN Append(kept, values[i]) ELSE kept

LEMMA AppendNewRecursion ==
  ASSUME NEW F, NEW ss \in Seq(F), NEW values \in Seq(F)
  PROVE  \E kept : /\ kept[0] = ss
                   /\ \A i \in 1 .. Len(values) : kept[i] = Keep(ss, values, i, kept[i - 1])
                   /\ AppendNew(ss, values) = kept[Len(values)]
<1> DEFINE N == Len(values)
           Rec(g) == g = [i \in 0 .. N |-> IF i = 0 THEN ss ELSE Keep(ss, values, i, g[i - 1])]
<1>1. AppendNew(ss, values) = (CHOOSE g : Rec(g))[N]
  BY DEF AppendNew, Keep, IsNew
<1>2. N \in Nat /\ \A i \in 1 .. N : values[i] \in F
  OBVIOUS
<1> HIDE DEF N
<1>3. \E g : Rec(g)
  <2> DEFINE Step == [p \in (1 .. N) \X Seq(F) |-> Keep(ss, values, p[1], p[2])]
  <2>1. Step \in [(1 .. N) \X Seq(F) -> Seq(F)]
    BY <1>2 DEF Keep
  <2>2. \A i \in 1 .. N, v \in Seq(F) : Step[<<i, v>>] = Keep(ss, values, i, v)
    OBVIOUS
  <2> HIDE DEF Step
  <2>3. PICK g \in [0 .. N -> Seq(F)] : g[0] = ss /\ \A i \in 1 .. N : g[i] = Step[<<i, g[i - 1]>>]
    <3>1. \E g : Recurs(g, N, Seq(F), ss, Step)
      BY <1>2, <2>1, Recursion
    <3>2. QED BY <3>1 DEF Recurs
  <2>4. ASSUME NEW i \in 1 .. N PROVE g[i] = Keep(ss, values, i, g[i - 1])
    <3>1. g[i - 1] \in Seq(F)
      BY <1>2, <2>3
    <3>2. QED BY <2>2, <2>3, <3>1
  <2>5. Rec(g)
    BY <1>2, <2>3, <2>4
  <2> HIDE DEF Rec
  <2>6. QED BY <2>5
<1>4. PICK kept : Rec(kept) /\ AppendNew(ss, values) = kept[N]
  <2> HIDE DEF Rec
  <2>1. QED BY <1>1, <1>3
<1>5. QED BY <1>2, <1>4 DEF N

(* StringSet.Append keeps what is there, adds what is missing and nothing   *)
(* twice.                                                                   *)
LEMMA AppendNewLemma ==
  ASSUME NEW F, NEW ss \in Seq(F), NEW values \in Seq(F)
  PROVE  LET a == AppendNew(ss, values)
         IN  /\ a \in Seq(F)
             /\ Len(ss) <= Len(a)
             /\ \A k \in 1 .. Len(ss) : a[k] = ss[k]
             /\ Range(a) = Range(ss) \cup Range(values)
             /\ IsInjective(ss) => IsInjective(a)
<1>1. PICK kept : /\ kept[0] = ss
                  /\ \A i \in 1 .. Len(values) : kept[i] = Keep(ss, values, i, kept[i - 1])
                  /\ AppendNew(ss, values) = kept[Len(values)]
  BY AppendNewRecursion
<1> DEFINE N == Len(values)
           V(i) == {values[j] : j \in 1 .. i}
           P(i) == /\ kept[i] \in Seq(F)
                   /\ Len(ss) <= Len(kept[i])
                   /\ \A k \in 1 .. Len(ss) : kept[i][k] = ss[k]
                   /\ Range(kept[i]) = Range(ss) \cup V(i)
                   /\ IsInjective(ss) => IsInjective(kept[i])
           S == {i \in 0 .. N : P(i)}
<1>2. N \in Nat /\ \A i \in 1 .. N : values[i] \in F
  OBVIOUS
<1>3. Range(values) = V(N)
  BY DEF Range
<1>4. 0 \in S
  BY <1>1, <1>2
<1>5. ASSUME NEW i \in 0 .. N - 1, i \in S PROVE i + 1 \in S
  <2>1. P(i) /\ i + 1 \in 1 .. N
    BY <1>2, <1>5
  <2>2. kept[i + 1] = Keep(ss, values, i + 1, kept[i])
    BY <1>1, <1>2, <2>1
  <2>3. V(i + 1) = V(i) \cup {values[i + 1]} /\ values[i + 1] \in F
    <3>1. values[i + 1] \in F
      BY <1>2, <2>1
    <3>2. \A j : j \in 1 .. i + 1 <=> j \in 1 .. i \/ j = i + 1
      BY <2>1
    <3>3. QED BY <3>1, <3>2
  <2>4. CASE IsNew(ss, values, i + 1)
    <3>1. kept[i + 1] = Append(kept[i], values[i + 1])
      BY <2>2, <2>4 DEF Keep
    <3>2. values[i + 1] \notin Range(kept[i])
      BY <2>1, <2>4 DEF IsNew
    <3>3. /\ Append(kept[i], values[i + 1]) \in Seq(F)
          /\ Len(Append(kept[i], values[i + 1])) = Len(kept[i]) + 1
          /\ \A k \in 1 .. Len(kept[i]) : Append(kept[i], values[i + 1])[k] = kept[i][k]
          /\ Range(Append(kept[i], values[i + 1])) = Range(kept[i]) \cup {values[i + 1]}
          /\ IsInjective(kept[i]) /\ values[i + 1] \notin Range(kept[i]) =>
               IsInjective(Append(kept[i], values[i + 1]))
      BY <2>1, <2>3, AppendRange
    <3> HIDE DEF V
    <3>4. P(i + 1)
      BY <2>1, <2>3, <3>1, <3>2, <3>3
    <3>5. QED BY <3>4, <2>1
  <2>5. CASE ~IsNew(ss, values, i + 1)
    <3>1. kept[i + 1] = kept[i]
      BY <2>2, <2>5 DEF Keep
    <3>2. values[i + 1] \in Range(ss) \cup V(i)
      BY <2>1, <2>5 DEF IsNew
    <3> HIDE DEF V
    <3>3. P(i + 1)
      BY <2>1, <2>3, <3>1, <3>2
    <3>4. QED BY <3>3, <2>1
  <2>6. QED BY <2>4, <2>5
<1>6. N \in S
  <2> HIDE DEF S, N
  <2>1. \A n \in 0 .. N : n \in S
    BY <1>2, <1>4, <1>5, Induction, Zenon
  <2>2. QED BY <1>2, <2>1
<1>7. QED BY <1>1, <1>3, <1>6

------------------------------------------------------------------------------
WalkState == [found : BOOLEAN, path : Path, result : Result]

Begins(u) == [found |-> FALSE, path |-> u, result |-> EmptyResult]

LEMMA BeginsType == ASSUME NEW u \in Path PROVE Begins(u) \in WalkState
BY DEF Begins, WalkState, EmptyResult, Result, Status

LEMMA AdoptType ==
  ASSUME NEW res \in Result, NEW r \in Route, NEW i \in Nat
  PROVE  /\ Adopt(res, r, i) \in Result
         /\ Adopt(res, r, i).filters = AppendNew(res.filters, r.filters)
         /\ Adopt(res, r, i).routeIndex = i
         /\ Adopt(res, r, i).status = r.status
         /\ Adopt(res, r, i).handler = r.handler
         /\ Adopt(res, r, i).rewriteUri = res.rewriteUri
         /\ Adopt(res, r, i).redirectUri = res.redirectUri
<1>1. AppendNew(res.filters, r.filters) \in Seq(Filter)
  BY AppendNewLemma DEF Result, Route
<1>2. QED BY <1>1 DEF Adopt, Result, Route

LEMMA VisitType ==
  ASSUME NEW w \in WalkState, NEW r \in Route, NEW i \in Nat, NEW m
  PROVE  Visit(w, r, i, m) \in WalkState
<1>1. r.rewrite[w.path] \in Path \cup AbsoluteUri \cup {NoUri}
  BY DEF WalkState, Route
<1>2. Adopt(w.result, r, i) \in Result
  BY AdoptType DEF WalkState
<1>3. QED BY <1>1, <1>2, ZenonT(30) DEF Visit, WalkState, Result, IsHttpOrHttps

(* The search is one turn of the loop for each route from off on.           *)
LEMMA WalkLemma ==
  ASSUME NEW t \in Seq(Route), NEW m, NEW u \in Path, NEW o \in 0 .. Len(t)
  PROVE  LET w == Walk(t, m, u, o)
         IN  /\ w[0] = Begins(u)
             /\ \A n \in 0 .. Len(t) - o : w[n] \in WalkState
             /\ \A n \in 1 .. Len(t) - o : w[n] = Visit(w[n - 1], t[o + n], n - 1, m)
<1> DEFINE N == Len(t) - o
           Rec(g) == g = [n \in 0 .. N |-> IF n = 0 THEN Begins(u)
                                           ELSE Visit(g[n - 1], t[o + n], n - 1, m)]
<1>1. Walk(t, m, u, o) = CHOOSE g : Rec(g)
  BY DEF Walk, Begins
<1>2. N \in Nat /\ \A n \in 1 .. N : t[o + n] \in Route /\ n - 1 \in Nat
  OBVIOUS
<1> HIDE DEF N
<1>3. \E g : Rec(g)
  <2> DEFINE Step == [p \in (1 .. N) \X WalkState |-> Visit(p[2], t[o + p[1]], p[1] - 1, m)]
  <2>1. Step \in [(1 .. N) \X WalkState -> WalkState]
    BY <1>2, VisitType
  <2>2. \A n \in 1 .. N, v \in WalkState : Step[<<n, v>>] = Visit(v, t[o + n], n - 1, m)
    OBVIOUS
  <2> HIDE DEF Step
  <2>3. PICK g : Recurs(g, N, WalkState, Begins(u), Step)
    BY <1>2, <2>1, BeginsType, Recursion
  <2>4. /\ g \in [0 .. N -> WalkState] /\ g[0] = Begins(u)
        /\ \A n \in 1 .. N : g[n] = Step[<<n, g[n - 1]>>]
    BY <2>3 DEF Recurs
  <2>5. ASSUME NEW n \in 1 .. N PROVE g[n] = Visit(g[n - 1], t[o + n], n - 1, m)
    <3>1. g[n - 1] \in WalkState
      BY <1>2, <2>4
    <3>2. QED BY <2>2, <2>4, <3>1
  <2>6. Rec(g)
    BY <1>2, <2>4, <2>5
  <2> HIDE DEF Rec
  <2>7. QED BY <2>6
<1>4. PICK w : Rec(w) /\ Walk(t, m, u, o) = w
  <2> HIDE DEF Rec
  <2>1. QED BY <1>1, <1>3
<1>5. w[0] = Begins(u) /\ \A n \in 1 .. N : w[n] = Visit(w[n - 1], t[o + n], n - 1, m)
  BY <1>2, <1>4
<1>6. \A n \in 0 .. N : w[n] \in WalkState
  <2> DEFINE S == {n \in 0 .. N : w[n] \in WalkState}
  <2>1. 0 \in S
    BY <1>2, <1>5, BeginsType
  <2>2. ASSUME NEW n \in 0 .. N - 1, n \in S PROVE n + 1 \in S
    <3>1. n + 1 \in 1 .. N /\ (n + 1) - 1 = n /\ w[n] \in WalkState
      BY <1>2, <2>2
    <3>2. w[n + 1] = Visit(w[n], t[o + (n + 1)], n, m) /\ t[o + (n + 1)] \in Route /\ n \in Nat
      BY <1>2, <1>5, <3>1
    <3>3. QED BY <3>1, <3>2, VisitType
  <2> HIDE DEF S
  <2>3. \A n \in 0 .. N : n \in S
    BY <1>2, <2>1, <2>2, Induction, Zenon
  <2>4. QED BY <2>3 DEF S
<1>7. QED BY <1>4, <1>5, <1>6 DEF N

NextShown(r, m, u) ==
  IF Match(r, m, u) /\ r.rewrite[u] \in Path /\ ~IsHttpStatusRedirect(r.status)
  THEN r.rewrite[u] ELSE u

(* A path for each route from o on: u at first, then what the last rewrite  *)
(* has made of it.                                                          *)
IsShown(p, t, m, u, o) ==
  /\ p \in [o .. Len(t) -> Path]
  /\ p[o] = u
  /\ \A i \in o .. Len(t) - 1 : p[i + 1] = NextShown(t[i + 1], m, p[i])

(* The paths that the routes are shown exist.                               *)
LEMMA ShownLemma ==
  ASSUME NEW t \in Seq(Route), NEW m, NEW u \in Path, NEW o \in 0 .. Len(t)
  PROVE  IsShown(Shown(t, m, u, o), t, m, u, o)
<1> DEFINE N == Len(t) - o
           Follows(p) == /\ p[o] = u
                         /\ \A i \in o .. Len(t) - 1 : p[i + 1] = NextShown(t[i + 1], m, p[i])
<1>1. Shown(t, m, u, o) = CHOOSE p \in [o .. Len(t) -> Path] : Follows(p)
  BY DEF Shown, NextShown
<1>2. N \in Nat /\ Len(t) = o + N /\ \A n \in 1 .. N : t[o + n] \in Route
  OBVIOUS
<1>3. \E p \in [o .. Len(t) -> Path] : Follows(p)
  <2> HIDE DEF N
  <2> DEFINE Step == [p \in (1 .. N) \X Path |-> NextShown(t[o + p[1]], m, p[2])]
  <2>1. Step \in [(1 .. N) \X Path -> Path]
    BY DEF NextShown
  <2>2. \A n \in 1 .. N, v \in Path : Step[<<n, v>>] = NextShown(t[o + n], m, v)
    OBVIOUS
  <2> HIDE DEF Step
  <2>3. PICK g : Recurs(g, N, Path, u, Step)
    BY <1>2, <2>1, Recursion
  <2>4. /\ g \in [0 .. N -> Path] /\ g[0] = u
        /\ \A n \in 1 .. N : g[n] = Step[<<n, g[n - 1]>>]
    BY <2>3 DEF Recurs
  <2> DEFINE p == [i \in o .. Len(t) |-> g[i - o]]
  <2>5. p \in [o .. Len(t) -> Path] /\ p[o] = u
    BY <1>2, <2>4
  <2>6. ASSUME NEW i \in o .. Len(t) - 1 PROVE p[i + 1] = NextShown(t[i + 1], m, p[i])
    <3> DEFINE n == (i - o) + 1
    <3>1. n \in 1 .. N /\ o + n = i + 1 /\ n - 1 = i - o /\ i - o \in 0 .. N
      BY <1>2
    <3>2. p[i + 1] = g[n] /\ p[i] = g[n - 1] /\ g[n - 1] \in Path
      BY <1>2, <2>4, <3>1
    <3> HIDE DEF n, p
    <3>3. g[n] = Step[<<n, g[n - 1]>>]
      BY <2>4, <3>1
    <3>4. QED BY <2>2, <3>1, <3>2, <3>3
  <2>7. Follows(p)
    BY <2>5, <2>6
  <2> HIDE DEF Follows, p
  <2>8. QED BY <2>5, <2>7
<1>4. Shown(t, m, u, o) \in [o .. Len(t) -> Path] /\ Follows(Shown(t, m, u, o))
  <2> HIDE DEF Follows
  <2>1. QED BY <1>1, <1>3
<1>5. QED BY <1>4 DEF IsShown

------------------------------------------------------------------------------
(* fs has the filters F[i] of the routes K, each once and in the order of   *)
(* the routes.                                                              *)
Gathers(fs, K, F) ==
  /\ Range(fs) = UNION {F[i] : i \in K}
  /\ IsInjective(fs)
  /\ \A a, b \in 1 .. Len(fs) : a < b =>
       \E i \in K : fs[a] \in F[i] /\ \A j \in K : j < i => fs[b] \notin F[j]

LEMMA GathersNext ==
  ASSUME NEW fs \in Seq(Filter), NEW vs \in Seq(Filter), NEW K \in SUBSET Int, NEW k \in Int,
         \A i \in K : i < k,
         NEW F, F[k] = Range(vs), Gathers(fs, K, F)
  PROVE  Gathers(AppendNew(fs, vs), K \cup {k}, F)
<1> DEFINE a == AppendNew(fs, vs)
<1>1. /\ a \in Seq(Filter) /\ Len(fs) <= Len(a)
      /\ \A n \in 1 .. Len(fs) : a[n] = fs[n]
      /\ Range(a) = Range(fs) \cup Range(vs)
      /\ IsInjective(a)
  BY AppendNewLemma DEF Gathers
<1> HIDE DEF a
<1>2. Range(a) = UNION {F[i] : i \in K \cup {k}}
  BY <1>1 DEF Gathers
<1>3. ASSUME NEW x \in 1 .. Len(a), NEW y \in 1 .. Len(a), x < y
      PROVE  \E i \in K \cup {k} : a[x] \in F[i] /\ \A j \in K \cup {k} : j < i => a[y] \notin F[j]
  <2>1. CASE y <= Len(fs)
    <3>1. x \in 1 .. Len(fs) /\ y \in 1 .. Len(fs) /\ a[x] = fs[x] /\ a[y] = fs[y]
      BY <1>1, <1>3, <2>1
    <3>2. PICK i \in K : fs[x] \in F[i] /\ \A j \in K : j < i => fs[y] \notin F[j]
      BY <1>3, <3>1 DEF Gathers
    <3>3. \A j \in K \cup {k} : j < i => j \in K
      OBVIOUS
    <3>4. QED BY <3>1, <3>2, <3>3
  <2>2. CASE ~(y <= Len(fs))
    <3>1. a[y] \notin Range(fs)
      <4> SUFFICES ASSUME NEW n \in 1 .. Len(fs), a[y] = fs[n] PROVE FALSE
        BY DEF Range
      <4>1. a[n] = a[y] /\ n \in DOMAIN a /\ y \in DOMAIN a /\ n # y
        BY <1>1, <2>2
      <4>2. QED BY <4>1, <1>1 DEF IsInjective
    <3>2. \A j \in K : a[y] \notin F[j]
      BY <3>1 DEF Gathers
    <3>3. CASE a[x] \in Range(fs)
      <4>1. PICK i \in K : a[x] \in F[i]
        BY <3>3 DEF Gathers
      <4>2. \A j \in K \cup {k} : j < i => j \in K
        OBVIOUS
      <4>3. QED BY <4>1, <4>2, <3>2
    <3>4. CASE a[x] \notin Range(fs)
      <4>1. a[x] \in F[k]
        <5>1. a[x] \in Range(a)
          BY <1>1 DEF Range
        <5>2. QED BY <1>1, <3>4, <5>1
      <4>2. \A j \in K \cup {k} : j < k => j \in K
        OBVIOUS
      <4>3. QED BY <4>1, <4>2, <3>2
    <3>5. QED BY <3>3, <3>4
  <2>3. QED BY <2>1, <2>2
<1>4. QED BY <1>1, <1>2, <1>3 DEF Gathers, a

------------------------------------------------------------------------------
(* How far the walk has come after the routes before k: K are the routes    *)
(* met, shown the paths they were shown.                                    *)
MetBefore(met, k) == {i \in met : i < k}

Rewriting(t, shown, K) ==
  {i \in K : t[i + 1].rewrite[shown[i]] # NoUri /\ ~Redirects(t[i + 1], shown[i])}

(* A search that goes on has met no route that ends it; one that has ended  *)
(* carries what that route gives.                                           *)
EndInv(w, t, shown, o, K, k) ==
  IF w.found
  THEN \E e \in K : /\ Ends(t[e + 1], shown[e])
                    /\ w.result.routeIndex = e - o
                    /\ w.result.status = t[e + 1].status
                    /\ w.result.handler = t[e + 1].handler
                    /\ (w.result.redirectUri # NoUri <=> Redirects(t[e + 1], shown[e]))
                    /\ ~Redirects(t[e + 1], shown[e]) => w.path = shown[e + 1]
  ELSE /\ w.path = shown[k]
       /\ \A i \in K : ~Ends(t[i + 1], shown[i])
       /\ w.result.redirectUri = NoUri
       /\ w.result.status = 0
       /\ w.result.handler = NoHandler

RewriteInv(w, t, shown, K) ==
  LET rewriting == Rewriting(t, shown, K)
  IN  /\ (w.result.rewriteUri = NoUri <=> rewriting = {})
      /\ \A i \in rewriting : (\A j \in rewriting : j <= i) => w.result.rewriteUri = shown[i + 1]

PathInv(w, shown, o, k) ==
  /\ w.path = IF w.result.rewriteUri # NoUri THEN w.result.rewriteUri ELSE shown[o]
  /\ w.result.routeIndex <= k - o

FilterSets(t) == [i \in 0 .. Len(t) - 1 |-> Range(t[i + 1].filters)]

WalkInv(w, t, shown, o, K, k) ==
  /\ EndInv(w, t, shown, o, K, k)
  /\ Gathers(w.result.filters, K, FilterSets(t))
  /\ RewriteInv(w, t, shown, K)
  /\ PathInv(w, shown, o, k)

(* A route that matches is met.                                             *)
LEMMA VisitMeets ==
  ASSUME NEW t \in Seq(Route), NEW m, NEW o \in 0 .. Len(t), NEW k \in o .. Len(t) - 1,
         NEW shown \in [o .. Len(t) -> Path], NEW K \in SUBSET (o .. k - 1),
         shown[k + 1] = NextShown(t[k + 1], m, shown[k]),
         NEW w \in WalkState, ~w.found, WalkInv(w, t, shown, o, K, k),
         Match(t[k + 1], m, shown[k])
  PROVE  WalkInv(Visit(w, t[k + 1], k - o, m), t, shown, o, K \cup {k}, k + 1)
<1> DEFINE r == t[k + 1]
           v == Visit(w, r, k - o, m)
           ad == Adopt(w.result, r, k - o)
           uri == r.rewrite[shown[k]]
           terminal == r.status > 0 \/ r.handler # NoHandler
<1>1. r \in Route /\ k - o \in Nat /\ w.path = shown[k] /\ w.result \in Result /\ k \in Nat
  BY DEF WalkInv, EndInv, WalkState
<1>2. /\ ad \in Result
      /\ ad.filters = AppendNew(w.result.filters, r.filters)
      /\ ad.routeIndex = k - o /\ ad.status = r.status /\ ad.handler = r.handler
      /\ ad.rewriteUri = w.result.rewriteUri /\ ad.redirectUri = NoUri
  BY <1>1, AdoptType DEF WalkInv, EndInv
<1>3. \/ /\ uri = NoUri
         /\ v.found = terminal /\ v.path = w.path /\ v.result = ad
      \/ /\ Redirects(r, shown[k])
         /\ v.found /\ v.path = w.path /\ v.result.redirectUri = uri /\ v.result.rewriteUri = ad.rewriteUri
         /\ v.result.filters = ad.filters /\ v.result.routeIndex = ad.routeIndex
         /\ v.result.status = ad.status /\ v.result.handler = ad.handler
      \/ /\ uri \in Path /\ uri # NoUri /\ ~Redirects(r, shown[k])
         /\ v.found = terminal /\ v.path = uri /\ v.result.rewriteUri = uri
         /\ v.result.redirectUri = ad.redirectUri
         /\ v.result.filters = ad.filters /\ v.result.routeIndex = ad.routeIndex
         /\ v.result.status = ad.status /\ v.result.handler = ad.handler
  <2>1. uri \in Path \cup AbsoluteUri \cup {NoUri}
    BY <1>1 DEF Route
  <2>2. CASE uri = NoUri
    <3>1. v = [w EXCEPT !.found = terminal, !.result = ad]
      BY <1>1, <2>2 DEF Visit
    <3>2. QED BY <2>2, <3>1 DEF WalkState
  <2>3. CASE uri # NoUri /\ (IsHttpOrHttps(uri) \/ IsHttpStatusRedirect(r.status))
    <3>1. v = [w EXCEPT !.found = TRUE, !.result = [ad EXCEPT !.redirectUri = uri]]
      BY <1>1, <2>3 DEF Visit
    <3>2. Redirects(r, shown[k])
      BY <2>3 DEF Redirects, IsHttpOrHttps
    <3> HIDE DEF ad, uri
    <3>3. QED BY <1>2, <3>1, <3>2, ZenonT(30) DEF WalkState, Result
  <2>4. CASE uri # NoUri /\ ~(IsHttpOrHttps(uri) \/ IsHttpStatusRedirect(r.status))
    <3>1. v = [found |-> terminal, path |-> uri, result |-> [ad EXCEPT !.rewriteUri = uri]]
      BY <1>1, <2>4 DEF Visit
    <3>2. ~Redirects(r, shown[k]) /\ uri \in Path
      BY <2>1, <2>4 DEF Redirects, IsHttpOrHttps
    <3> HIDE DEF ad, uri, terminal
    <3>3. QED BY <1>2, <2>4, <3>1, <3>2 DEF Result
  <2>5. QED BY <2>2, <2>3, <2>4
<1> HIDE DEF v, ad, uri
<1>4. r.status \in Nat /\ (terminal \/ (r.status = 0 /\ r.handler = NoHandler))
  <2>1. r.status \in Status
    BY <1>1 DEF Route
  <2>2. r.status \in Nat
    BY <2>1, SMTT(30) DEF Status
  <2> HIDE DEF r
  <2>3. QED BY <2>2
<1>5. /\ Ends(r, shown[k]) <=> Redirects(r, shown[k]) \/ terminal
      /\ Redirects(r, shown[k]) => uri # NoUri
      /\ uri \in Path /\ uri # NoUri /\ ~Redirects(r, shown[k]) => shown[k + 1] = uri
      /\ uri = NoUri => shown[k + 1] = shown[k]
  BY HandlerAssumption DEF Ends, Redirects, NextShown, uri
<1> HIDE DEF terminal
<1>6. \A i \in K : i < k /\ i # k
  OBVIOUS
<1>7. EndInv(v, t, shown, o, K \cup {k}, k + 1)
  <2>1. \A i \in K : ~Ends(t[i + 1], shown[i])
    BY DEF WalkInv, EndInv
  <2>2. CASE v.found
    <3>1. Ends(r, shown[k])
      BY <1>3, <1>5, <2>2
    <3>2. /\ v.result.routeIndex = k - o /\ v.result.status = r.status
          /\ v.result.handler = r.handler
          /\ (v.result.redirectUri # NoUri <=> Redirects(r, shown[k]))
          /\ ~Redirects(r, shown[k]) => v.path = shown[k + 1]
      <4> HIDE DEF r
      <4>1. CASE Redirects(r, shown[k])
        BY <1>2, <1>3, <1>5, <4>1
      <4>2. CASE ~Redirects(r, shown[k])
        BY <1>1, <1>2, <1>3, <1>5, <4>2
      <4>3. QED BY <4>1, <4>2
    <3>3. QED BY <2>2, <3>1, <3>2 DEF EndInv
  <2>3. CASE ~v.found
    <3>1. ~terminal /\ ~Redirects(r, shown[k])
      <4> HIDE DEF r
      <4>1. QED BY <1>3, <1>5, <2>3
    <3>2. /\ v.path = shown[k + 1] /\ ~Ends(r, shown[k]) /\ v.result.redirectUri = NoUri
          /\ v.result.status = 0 /\ v.result.handler = NoHandler
      <4> HIDE DEF r
      <4>1. QED BY <1>1, <1>2, <1>3, <1>4, <1>5, <2>3, <3>1
    <3>3. QED BY <2>1, <2>3, <3>2 DEF EndInv
  <2>4. QED BY <2>2, <2>3
<1>8. Gathers(v.result.filters, K \cup {k}, FilterSets(t))
  <2>1. /\ FilterSets(t)[k] = Range(r.filters)
        /\ r.filters \in Seq(Filter) /\ w.result.filters \in Seq(Filter)
    BY <1>1 DEF FilterSets, Route, Result
  <2>2. v.result.filters = AppendNew(w.result.filters, r.filters)
    BY <1>2, <1>3
  <2>3. K \in SUBSET Int /\ k \in Int
    OBVIOUS
  <2>4. Gathers(w.result.filters, K, FilterSets(t))
    BY DEF WalkInv
  <2> HIDE DEF r
  <2>5. QED BY <1>6, <2>1, <2>2, <2>3, <2>4, GathersNext, ZenonT(30)
<1>9. RewriteInv(v, t, shown, K \cup {k})
  <2>1. RewriteInv(w, t, shown, K)
    BY DEF WalkInv
  <2>2. \A i : i \in Rewriting(t, shown, K \cup {k}) <=>
               \/ i \in Rewriting(t, shown, K)
               \/ i = k /\ uri # NoUri /\ ~Redirects(r, shown[k])
    BY DEF Rewriting, uri
  <2>3. Rewriting(t, shown, K) \subseteq K
    BY DEF Rewriting
  <2>4. CASE uri # NoUri /\ ~Redirects(r, shown[k])
    <3>1. v.result.rewriteUri = shown[k + 1] /\ v.result.rewriteUri # NoUri
      BY <1>3, <1>5, <2>4
    <3> DEFINE R == Rewriting(t, shown, K \cup {k})
    <3>2. k \in R /\ \A i \in R : i <= k
      <4> HIDE DEF r
      <4>1. \A i \in R : i = k \/ i \in K
        BY <2>2, <2>3
      <4>2. k \in R
        BY <2>2, <2>4
      <4>3. \A i \in K \cup {k} : i <= k
        BY <1>1
      <4> HIDE DEF R
      <4>4. QED BY <4>1, <4>2, <4>3
    <3>3. R # {} /\ \A i \in R : (\A j \in R : j <= i) => i = k
      <4>1. R \subseteq K \cup {k} /\ K \cup {k} \subseteq Int
        <5> HIDE DEF r
        <5>1. \A i \in R : i = k \/ i \in K
          BY <2>2, <2>3
        <5> HIDE DEF R
        <5>2. QED BY <1>1, <5>1
      <4> HIDE DEF R
      <4>2. QED BY <3>2, <4>1
    <3> HIDE DEF R
    <3>4. QED BY <3>1, <3>3 DEF RewriteInv, R
  <2>5. CASE ~(uri # NoUri /\ ~Redirects(r, shown[k]))
    <3>1. v.result.rewriteUri = w.result.rewriteUri
      BY <1>2, <1>3, <2>5
    <3>2. Rewriting(t, shown, K \cup {k}) = Rewriting(t, shown, K)
      BY <2>2, <2>5
    <3>3. QED BY <2>1, <3>1, <3>2 DEF RewriteInv
  <2>6. QED BY <2>4, <2>5
<1>10. PathInv(v, shown, o, k + 1)
  <2>1. PathInv(w, shown, o, k)
    BY DEF WalkInv
  <2>2. k - o <= (k + 1) - o
    BY <1>1
  <2> HIDE DEF r
  <2>3. QED BY <1>2, <1>3, <2>1, <2>2 DEF PathInv
<1>11. QED BY <1>7, <1>8, <1>9, <1>10 DEF WalkInv, v

(* The routes met are those that match with no ending route before them.    *)
IsMet(met, t, m, shown, o) ==
  \A i : i \in met <=>
    /\ i \in o .. Len(t) - 1
    /\ Match(t[i + 1], m, shown[i])
    /\ \A j \in o .. i - 1 : Match(t[j + 1], m, shown[j]) => ~Ends(t[j + 1], shown[j])

LEMMA MetLemma ==
  ASSUME NEW t \in Seq(Route), NEW m, NEW u, NEW o \in 0 .. Len(t)
  PROVE  IsMet(Met(t, m, u, o), t, m, Shown(t, m, u, o), o)
BY DEF IsMet, Met

(* A route that matches is met unless a route met before it ends the search. *)
LEMMA MetNext ==
  ASSUME NEW t \in Seq(Route), NEW m, NEW o \in 0 .. Len(t), NEW k \in o .. Len(t) - 1,
         NEW shown, NEW met, IsMet(met, t, m, shown, o), Match(t[k + 1], m, shown[k]),
         \A i \in MetBefore(met, k) : ~Ends(t[i + 1], shown[i])
  PROVE  k \in met
<1> DEFINE S == {j \in o .. k - 1 : Match(t[j + 1], m, shown[j]) /\ Ends(t[j + 1], shown[j])}
<1>1. S \in SUBSET Nat
  OBVIOUS
<1>2. ASSUME S # {} PROVE FALSE
  <2>1. PICK j \in S : \A i \in S : j <= i
    <3> HIDE DEF S
    <3>1. QED BY <1>1, <1>2, Least
  <2>2. j \in met
    BY <2>1 DEF IsMet
  <2>3. QED BY <2>1, <2>2 DEF MetBefore
<1>3. QED BY <1>2 DEF IsMet

LEMMA WalkMeets ==
  ASSUME NEW t \in Seq(Route), NEW m, NEW u \in Path, NEW o \in 0 .. Len(t)
  PROVE  \A n \in 0 .. Len(t) - o :
           WalkInv(Walk(t, m, u, o)[n], t, Shown(t, m, u, o), o,
                   MetBefore(Met(t, m, u, o), o + n), o + n)
<1> DEFINE N == Len(t) - o
           w == Walk(t, m, u, o)
           shown == Shown(t, m, u, o)
           met == Met(t, m, u, o)
           S == {n \in 0 .. N : WalkInv(w[n], t, shown, o, MetBefore(met, o + n), o + n)}
<1>1. /\ w[0] = Begins(u)
      /\ \A n \in 0 .. N : w[n] \in WalkState
      /\ \A n \in 1 .. N : w[n] = Visit(w[n - 1], t[o + n], n - 1, m)
  BY WalkLemma
<1>2. /\ shown \in [o .. Len(t) -> Path]
      /\ shown[o] = u
      /\ \A i \in o .. Len(t) - 1 : shown[i + 1] = NextShown(t[i + 1], m, shown[i])
  <2>1. IsShown(shown, t, m, u, o)
    BY ShownLemma
  <2> HIDE DEF shown
  <2>2. QED BY <2>1 DEF IsShown
<1>3. IsMet(met, t, m, shown, o)
  BY MetLemma
<1> HIDE DEF w, shown, met
<1>4. 0 \in S
  <2>1. MetBefore(met, o + 0) = {}
    BY <1>3 DEF MetBefore, IsMet
  <2>2. Begins(u) = [found |-> FALSE, path |-> u, result |-> EmptyResult]
    BY DEF Begins
  <2>3. EndInv(w[0], t, shown, o, {}, o)
    BY <1>1, <1>2, <2>2 DEF EndInv, EmptyResult
  <2>4. Gathers(w[0].result.filters, {}, FilterSets(t))
    BY <1>1, <2>2 DEF Gathers, EmptyResult, Range, IsInjective
  <2>5. RewriteInv(w[0], t, shown, {})
    BY <1>1, <2>2 DEF RewriteInv, Rewriting, EmptyResult
  <2>6. WalkInv(w[0], t, shown, o, {}, o)
    <3>1. PathInv(w[0], shown, o, o)
      BY <1>1, <1>2, <2>2 DEF PathInv, EmptyResult
    <3>2. QED BY <2>3, <2>4, <2>5, <3>1 DEF WalkInv
  <2>7. o + 0 = o /\ 0 \in 0 .. N
    OBVIOUS
  <2>8. WalkInv(w[0], t, shown, o, MetBefore(met, o + 0), o + 0)
    BY <2>1, <2>6, <2>7
  <2>9. QED BY <2>7, <2>8
<1>5. ASSUME NEW n \in 0 .. N - 1, n \in S PROVE n + 1 \in S
  <2> DEFINE k == o + n
             K == MetBefore(met, k)
             Next1 == MetBefore(met, k + 1)
             r == t[k + 1]
  <2>1. /\ k \in o .. Len(t) - 1 /\ k - o = n /\ o + (n + 1) = k + 1 /\ n + 1 \in 1 .. N
        /\ (n + 1) - 1 = n
    OBVIOUS
  <2>2. WalkInv(w[n], t, shown, o, K, k) /\ w[n] \in WalkState
    BY <1>1, <1>5
  <2>3. w[n + 1] = Visit(w[n], r, n, m)
    BY <1>1, <2>1
  <2>4. shown[k + 1] = NextShown(r, m, shown[k])
    BY <1>2, <2>1
  <2>5. Next1 = IF k \in met THEN K \cup {k} ELSE K
    BY <1>3, <2>1 DEF MetBefore, IsMet
  <2>6. K \in SUBSET (o .. k - 1)
    BY <1>3, <2>1 DEF MetBefore, IsMet
  <2> HIDE DEF k, S
  <2>7. CASE w[n].found
    <3>1. w[n + 1] = w[n]
      BY <2>3, <2>7 DEF Visit
    <3>2. PICK e \in K : Ends(t[e + 1], shown[e])
      BY <2>2, <2>7 DEF WalkInv, EndInv
    <3>3. k \notin met
      BY <1>3, <3>2, <2>6, <2>1 DEF IsMet, MetBefore
    <3>4. Next1 = K
      BY <2>5, <3>3
    <3> HIDE DEF K, Next1
    <3>5. PathInv(w[n + 1], shown, o, k + 1)
      BY <2>1, <2>2, <3>1 DEF WalkInv, PathInv, WalkState, Result
    <3>6. WalkInv(w[n + 1], t, shown, o, Next1, k + 1)
      BY <2>2, <2>7, <3>1, <3>4, <3>5 DEF WalkInv, EndInv
    <3>7. QED BY <2>1, <3>6 DEF S, Next1
  <2>8. CASE ~w[n].found /\ ~Match(r, m, shown[k])
    <3>1. w[n].path = shown[k]
      BY <2>2, <2>8 DEF WalkInv, EndInv
    <3>2. w[n + 1] = w[n]
      BY <2>3, <2>8, <3>1 DEF Visit
    <3>3. k \notin met
      BY <1>3, <2>8 DEF IsMet
    <3>4. Next1 = K
      BY <2>5, <3>3
    <3>5. shown[k + 1] = shown[k]
      BY <2>4, <2>8 DEF NextShown
    <3> HIDE DEF K, Next1
    <3>6. PathInv(w[n + 1], shown, o, k + 1)
      BY <2>1, <2>2, <3>2 DEF WalkInv, PathInv, WalkState, Result
    <3>7. WalkInv(w[n + 1], t, shown, o, Next1, k + 1)
      BY <2>2, <2>8, <3>2, <3>4, <3>5, <3>6 DEF WalkInv, EndInv
    <3>8. QED BY <2>1, <3>7 DEF S, Next1
  <2>9. CASE ~w[n].found /\ Match(r, m, shown[k])
    <3>1. \A i \in K : ~Ends(t[i + 1], shown[i])
      BY <2>2, <2>9 DEF WalkInv, EndInv
    <3>2. k \in met
      BY <1>3, <2>1, <2>9, <3>1, MetNext
    <3>3. Next1 = K \cup {k}
      BY <2>5, <3>2
    <3> HIDE DEF K, Next1
    <3>4. WalkInv(Visit(w[n], r, k - o, m), t, shown, o, K \cup {k}, k + 1)
      BY <1>2, <2>1, <2>2, <2>4, <2>6, <2>9, VisitMeets
    <3>5. WalkInv(w[n + 1], t, shown, o, Next1, k + 1)
      BY <2>1, <2>3, <3>3, <3>4
    <3>6. QED BY <2>1, <3>5 DEF S, Next1
  <2>10. QED BY <2>7, <2>8, <2>9
<1>6. \A n \in 0 .. N : n \in S
  <2>1. N \in Nat
    OBVIOUS
  <2> HIDE DEF S, N
  <2>2. QED BY <2>1, <1>4, <1>5, Induction, Zenon
<1>7. QED BY <1>6 DEF w, shown, met

(* Find returns the Result of the last state of the walk, with 404 when no  *)
(* route has ended it.                                                      *)
FoundBy(w, found) ==
  /\ w \in WalkState
  /\ found = IF w.found THEN w.result ELSE [w.result EXCEPT !.status = NotFound]

LEMMA FoundLemma ==
  ASSUME NEW t \in Seq(Route), NEW m, NEW u \in Path, NEW o \in 0 .. Len(t)
  PROVE  FoundBy(Walk(t, m, u, o)[Len(t) - o], Find(t, m, u, o))
<1> DEFINE N == Len(t) - o
           w == Walk(t, m, u, o)[N]
           found == Find(t, m, u, o)
<1>1. N \in 0 .. N /\ o + N = Len(t)
  OBVIOUS
<1>2. w \in WalkState /\ (o = Len(t) => w = Begins(u))
  <2>1. /\ Walk(t, m, u, o)[0] = Begins(u)
        /\ \A n \in 0 .. N : Walk(t, m, u, o)[n] \in WalkState
    BY WalkLemma
  <2>2. o = Len(t) => N = 0
    OBVIOUS
  <2> HIDE DEF N
  <2>3. QED BY <1>1, <2>1, <2>2
<1>3. found = IF w.found THEN w.result ELSE [w.result EXCEPT !.status = NotFound]
  <2>1. CASE o >= Len(t)
    <3>1. found = [EmptyResult EXCEPT !.status = NotFound] /\ w = Begins(u)
      BY <1>2, <2>1 DEF Find
    <3>2. QED BY <3>1 DEF Begins
  <2>2. CASE ~(o >= Len(t))
    BY <2>2 DEF Find
  <2>3. QED BY <2>1, <2>2
<1>4. QED BY <1>2, <1>3 DEF FoundBy

(* What Find returns is what the table promises (route.go 166-200).         *)
LEMMA FindLemma ==
  ASSUME NEW t \in Seq(Route), NEW m, NEW u \in Path, NEW o \in 0 .. Len(t)
  PROVE  LET found == Find(t, m, u, o)
         IN  /\ EndedBy(t, m, u, o, found)
             /\ FilteredBy(t, m, u, o, found)
             /\ RewrittenBy(t, m, u, o, found)
             /\ found \in Result
             /\ found.routeIndex <= Len(t) - o
<1> DEFINE N == Len(t) - o
           found == Find(t, m, u, o)
           w == Walk(t, m, u, o)[N]
           shown == Shown(t, m, u, o)
           met == Met(t, m, u, o)
<1>1. N \in 0 .. N /\ o + N = Len(t)
  OBVIOUS
<1>2. MetBefore(met, Len(t)) = met
  BY MetLemma DEF MetBefore, IsMet
<1>3. WalkInv(w, t, shown, o, met, Len(t))
  BY <1>1, <1>2, WalkMeets
<1>4. FoundBy(w, found)
  BY FoundLemma
<1>5. w \in WalkState /\ found = IF w.found THEN w.result ELSE [w.result EXCEPT !.status = NotFound]
  BY <1>4 DEF FoundBy
<1> HIDE DEF found, w
<1>6. /\ w.result \in Result
      /\ found.filters = w.result.filters /\ found.rewriteUri = w.result.rewriteUri
      /\ found.redirectUri = w.result.redirectUri /\ found.handler = w.result.handler
      /\ w.found => found = w.result
      /\ ~w.found => found.status = NotFound
  BY <1>5 DEF WalkState, Result
<1>7. found \in Result
  BY <1>5, <1>6 DEF Result, Status, NotFound
<1>8. EndedBy(t, m, u, o, found)
  <2>1. EndInv(w, t, shown, o, met, Len(t))
    BY <1>3 DEF WalkInv
  <2>2. \A i : i \in Ending(t, m, u, o) <=> i \in met /\ Ends(t[i + 1], shown[i])
    BY DEF Ending
  <2> HIDE DEF shown, met
  <2>3. CASE w.found
    <3>1. PICK e \in met : /\ Ends(t[e + 1], shown[e])
                           /\ found.routeIndex = e - o
                           /\ found.status = t[e + 1].status
                           /\ found.handler = t[e + 1].handler
                           /\ (found.redirectUri # NoUri <=> Redirects(t[e + 1], shown[e]))
      BY <1>6, <2>1, <2>3 DEF EndInv
    <3>2. (found.redirectUri # NoUri) = Redirects(t[e + 1], shown[e])
      BY <3>1 DEF Redirects
    <3>3. e \in Ending(t, m, u, o)
      BY <2>2, <3>1
    <3>4. QED BY <3>1, <3>2, <3>3 DEF EndedBy, shown
  <2>4. CASE ~w.found
    <3>1. Ending(t, m, u, o) = {}
      BY <2>1, <2>2, <2>4 DEF EndInv
    <3>2. found.status = NotFound /\ found.handler = NoHandler /\ found.redirectUri = NoUri
      BY <1>6, <2>1, <2>4 DEF EndInv
    <3>3. QED BY <3>1, <3>2 DEF EndedBy
  <2>5. QED BY <2>3, <2>4
<1>9. FilteredBy(t, m, u, o, found)
  <2>1. Gathers(found.filters, met, FilterSets(t))
    BY <1>3, <1>6 DEF WalkInv
  <2>2. \A i \in met : FilterSets(t)[i] = Range(t[i + 1].filters)
    BY MetLemma DEF IsMet, FilterSets
  <2> HIDE DEF met
  <2>3. UNION {FilterSets(t)[i] : i \in met} = UNION {Range(t[i + 1].filters) : i \in met}
    BY <2>2
  <2>4. QED BY <2>1, <2>2, <2>3 DEF FilteredBy, Gathers, met
<1>10. RewrittenBy(t, m, u, o, found)
  <2> DEFINE R == Rewriting(t, shown, met)
  <2>1. /\ found.rewriteUri = NoUri <=> R = {}
        /\ \A i \in R : (\A j \in R : j <= i) => found.rewriteUri = shown[i + 1]
    BY <1>3, <1>6 DEF WalkInv, RewriteInv
  <2>2. R = {i \in met : /\ t[i + 1].rewrite[shown[i]] # NoUri
                          /\ ~Redirects(t[i + 1], shown[i])}
    BY DEF Rewriting
  <2> HIDE DEF R, shown, met
  <2>3. (found.rewriteUri = NoUri) = (R = {})
    BY <2>1
  <2>4. RewrittenBy(t, m, u, o, found) <=>
          /\ (found.rewriteUri = NoUri) = (R = {})
          /\ \A i \in R : (\A j \in R : j <= i) => found.rewriteUri = shown[i + 1]
    BY <2>2 DEF RewrittenBy, shown, met
  <2>5. QED BY <2>1, <2>3, <2>4
<1>11. found.routeIndex <= Len(t) - o
  BY <1>3, <1>5, <1>6 DEF WalkInv, PathInv, Result
<1>12. QED BY <1>7, <1>8, <1>9, <1>10, <1>11 DEF found

(* The request that the search is asked about is one of the program.        *)
RequestInv ==
  /\ routes \in Seq(Route)
  /\ pc = "start" => path \in Path

LEMMA NextRequestInv == RequestInv /\ [Next]_vars => RequestInv'
BY DEF RequestInv, Next, vars, request, HandleError, Collect, RouteRequest, HandleRouteResult,
       FilterAccepts, FilterRejects, FiltersDone, Redirect, AnswerStatus, CallHandler,
       FallThrough, Finish

(* Routes.Route ends where the documentation says, from every route on and  *)
(* in every table: at the first match with a status, a handler or a         *)
(* redirect, with the filters of the routes met on the way, each once and   *)
(* in order, and the last internal rewrite (route.go 166-200).              *)
THEOREM SearchTheorem == Spec => []SearchAsRead
<1>1. Init => RequestInv
  BY HandlerAssumption DEF Init, RequestInv
<1>2. RequestInv => SearchAsRead
  <2> SUFFICES ASSUME RequestInv, pc = "start", NEW o \in 0 .. Len(routes)
               PROVE  LET found == Find(routes, method, path, o)
                      IN  /\ EndedBy(routes, method, path, o, found)
                          /\ FilteredBy(routes, method, path, o, found)
                          /\ RewrittenBy(routes, method, path, o, found)
    BY DEF SearchAsRead
  <2>1. routes \in Seq(Route) /\ path \in Path
    BY DEF RequestInv
  <2>2. QED BY <2>1, FindLemma
<1>3. QED BY <1>1, <1>2, NextRequestInv, PTL DEF Spec

------------------------------------------------------------------------------
(* The path that a request has when it falls through is the one that the    *)
(* next route would have been shown: the last rewrite up to the route that  *)
(* ended the search, itself included.                                       *)
Onward(t, m, u, o, found, e) ==
  /\ e \in Met(t, m, u, o)
  /\ Ends(t[e + 1], Shown(t, m, u, o)[e])
  /\ found.routeIndex = e - o
  /\ found.status = t[e + 1].status
  /\ found.handler = t[e + 1].handler
  /\ found.redirectUri = NoUri =>
       Shown(t, m, u, o)[e + 1] = IF found.rewriteUri # NoUri THEN found.rewriteUri ELSE u

LEMMA OnwardLemma ==
  ASSUME NEW t \in Seq(Route), NEW m, NEW u \in Path, NEW o \in 0 .. Len(t)
  PROVE  LET found == Find(t, m, u, o)
         IN  \/ \E e \in o .. Len(t) - 1 : Onward(t, m, u, o, found, e)
             \/ /\ found.status = NotFound
                /\ found.redirectUri = NoUri
<1> DEFINE N == Len(t) - o
           found == Find(t, m, u, o)
           w == Walk(t, m, u, o)[N]
           shown == Shown(t, m, u, o)
           met == Met(t, m, u, o)
<1>1. N \in 0 .. N /\ o + N = Len(t)
  OBVIOUS
<1>2. MetBefore(met, Len(t)) = met /\ met \subseteq o .. Len(t) - 1
  BY MetLemma DEF MetBefore, IsMet
<1>3. WalkInv(w, t, shown, o, met, Len(t)) /\ shown[o] = u
  <2>1. IsShown(shown, t, m, u, o)
    BY ShownLemma
  <2>2. QED BY <1>1, <1>2, <2>1, WalkMeets DEF IsShown
<1>4. FoundBy(w, found)
  BY FoundLemma
<1> HIDE DEF w, shown, met, found
<1>5. QED BY <1>2, <1>3, <1>4 DEF FoundBy, WalkState, Result, WalkInv, EndInv, PathInv, Onward, shown, met, found

------------------------------------------------------------------------------
(* A search that starts later shows its routes the same paths, if it starts *)
(* with the path the route there was shown.                                 *)
Resumes(p, q, o, t) == \A i \in o .. Len(t) : q[i] = p[i]

LEMMA ShownAgain ==
  ASSUME NEW t \in Seq(Route), NEW m, NEW u \in Path, NEW o \in 0 .. Len(t)
  PROVE  Resumes(Shown(t, m, u, 0), Shown(t, m, Shown(t, m, u, 0)[o], o), o, t)
<1> DEFINE N == Len(t) - o
           p == Shown(t, m, u, 0)
           q == Shown(t, m, p[o], o)
           S == {n \in 0 .. N : q[o + n] = p[o + n]}
<1>1. N \in Nat /\ Len(t) \in Nat /\ 0 \in 0 .. Len(t)
  OBVIOUS
<1>2. IsShown(p, t, m, u, 0)
  BY <1>1, ShownLemma
<1>3. p[o] \in Path
  <2> HIDE DEF p
  <2>1. QED BY <1>2 DEF IsShown
<1>4. IsShown(q, t, m, p[o], o)
  <2> HIDE DEF p
  <2>1. QED BY <1>3, ShownLemma
<1> HIDE DEF p, q
<1>5. 0 \in S
  BY <1>1, <1>4 DEF IsShown
<1>6. ASSUME NEW n \in 0 .. N - 1, n \in S PROVE n + 1 \in S
  <2>1. o + n \in o .. Len(t) - 1 /\ o + n \in 0 .. Len(t) - 1 /\ o + (n + 1) = (o + n) + 1
        /\ n + 1 \in 0 .. N /\ q[o + n] = p[o + n]
    BY <1>6
  <2>2. q[(o + n) + 1] = NextShown(t[(o + n) + 1], m, q[o + n])
    BY <1>4, <2>1 DEF IsShown
  <2>3. p[(o + n) + 1] = NextShown(t[(o + n) + 1], m, p[o + n])
    BY <1>2, <2>1 DEF IsShown
  <2>4. QED BY <2>1, <2>2, <2>3
<1>7. \A n \in 0 .. N : n \in S
  <2> HIDE DEF S, N
  <2>1. QED BY <1>1, <1>5, <1>6, Induction, Zenon
<1>8. ASSUME NEW i \in o .. Len(t) PROVE q[i] = p[i]
  <2>1. i - o \in 0 .. N /\ o + (i - o) = i
    OBVIOUS
  <2>2. i - o \in S
    BY <1>7, <2>1
  <2>3. QED BY <2>1, <2>2
<1>9. QED BY <1>8 DEF Resumes, p, q

(* A search that a route e ends has met every route up to e that matches.   *)
Reaches(t, m, u, o, found, e) ==
  /\ e \in o .. Len(t) - 1
  /\ found.routeIndex = e - o
  /\ found.status = t[e + 1].status
  /\ found.handler = t[e + 1].handler
  /\ found.redirectUri = NoUri =>
       Shown(t, m, u, 0)[e + 1] = IF found.rewriteUri # NoUri THEN found.rewriteUri
                                  ELSE Shown(t, m, u, 0)[o]
  /\ \A i \in o .. e : Match(t[i + 1], m, Shown(t, m, u, 0)[i]) =>
       Range(t[i + 1].filters) \subseteq Range(found.filters)

LEMMA ReachLemma ==
  ASSUME NEW t \in Seq(Route), NEW m, NEW u \in Path, NEW o \in 0 .. Len(t), NEW found,
         found = Find(t, m, Shown(t, m, u, 0)[o], o), found.status # NotFound
  PROVE  \E e : Reaches(t, m, u, o, found, e)
<1> DEFINE p == Shown(t, m, u, 0)
           q == Shown(t, m, p[o], o)
           met == Met(t, m, p[o], o)
<1>1. Len(t) \in Nat /\ 0 \in 0 .. Len(t)
  OBVIOUS
<1>2. p[o] \in Path
  <2>1. IsShown(p, t, m, u, 0)
    BY <1>1, ShownLemma
  <2> HIDE DEF p
  <2>2. QED BY <2>1 DEF IsShown
<1>3. Resumes(p, q, o, t)
  BY ShownAgain
<1> HIDE DEF p
<1>4. PICK e \in o .. Len(t) - 1 : Onward(t, m, p[o], o, found, e)
  BY <1>2, OnwardLemma DEF p
<1>5. FilteredBy(t, m, p[o], o, found)
  BY <1>2, FindLemma DEF p
<1>6. IsMet(met, t, m, q, o)
  BY MetLemma
<1>7. q[e] = p[e] /\ q[e + 1] = p[e + 1]
  BY <1>3 DEF Resumes
<1> HIDE DEF q, met
<1>8. ASSUME NEW i \in o .. e, Match(t[i + 1], m, p[i])
      PROVE  Range(t[i + 1].filters) \subseteq Range(found.filters)
  <2>1. q[i] = p[i]
    BY <1>3 DEF Resumes
  <2>2. e \in met
    BY <1>4 DEF Onward, met
  <2>3. i \in met
    BY <1>6, <1>8, <2>1, <2>2 DEF IsMet
  <2>4. Range(found.filters) = UNION {Range(t[j + 1].filters) : j \in met}
    BY <1>5 DEF FilteredBy, met
  <2>5. QED BY <2>3, <2>4
<1>9. /\ found.routeIndex = e - o
      /\ found.status = t[e + 1].status
      /\ found.handler = t[e + 1].handler
      /\ found.redirectUri = NoUri =>
           p[e + 1] = IF found.rewriteUri # NoUri THEN found.rewriteUri ELSE p[o]
  BY <1>4, <1>7 DEF Onward, q
<1>10. Reaches(t, m, u, o, found, e)
  BY <1>8, <1>9 DEF Reaches, p
<1>11. QED BY <1>10

FindsRoute(found, t, o) ==
  /\ found \in Result
  /\ o + found.routeIndex <= Len(t)
  /\ found.status # NotFound \/ found.redirectUri # NoUri => o + found.routeIndex < Len(t)

LEMMA FindType ==
  ASSUME NEW t \in Seq(Route), NEW m, NEW u \in Path, NEW o \in 0 .. Len(t)
  PROVE  FindsRoute(Find(t, m, u, o), t, o)
<1> DEFINE found == Find(t, m, u, o)
<1>1. Len(t) \in Nat
  OBVIOUS
<1>2. found \in Result /\ found.routeIndex <= Len(t) - o
  BY FindLemma
<1>3. \/ \E e \in o .. Len(t) - 1 : Onward(t, m, u, o, found, e)
      \/ found.status = NotFound /\ found.redirectUri = NoUri
  BY OnwardLemma
<1> HIDE DEF found
<1>4. found.routeIndex \in Nat
  BY <1>2 DEF Result
<1>5. QED BY <1>1, <1>2, <1>3, <1>4 DEF FindsRoute, Onward, found

------------------------------------------------------------------------------
(* The paths that the routes are shown, whichever pass asks them.           *)
shownAll == Shown(routes, method, arrived, 0)

(* The Result in hand is that of a search from off, which names a route of  *)
(* the table when there is one.                                             *)
ResultInv == pc \in {"filter", "answer", "next"} => FindsRoute(result, routes, off)

(* Only a handler answers 404 in a pass that goes on, and it is called only *)
(* after every filter of the Result.                                        *)
TurnInv ==
  /\ pc = "start" => off = 0 /\ last = -1 /\ path = arrived
  /\ pc = "filter" => \A k \in 1 .. passed : result.filters[k] \in accepted
  /\ pc = "answer" => Range(result.filters) \subseteq accepted
  /\ pc = "next" /\ status = NotFound /\ result.status # NotFound =>
       /\ last = Answering
       /\ result.status = 0 /\ result.handler # NoHandler /\ result.redirectUri = NoUri
       /\ Range(result.filters) \subseteq accepted

(* A request falls through from at most one route; up to where a pass       *)
(* starts, its filters have been asked and its path is the one the table    *)
(* shows.                                                                   *)
AskedBefore(o) ==
  \A i \in 0 .. o - 1 :
    Match(routes[i + 1], method, shownAll[i]) => Range(routes[i + 1].filters) \subseteq accepted

PassInv ==
  FallsThroughOnce(routes) /\ pc # "done" =>
    /\ off = 0 \/ routes[off].nextIfNotFound
    /\ pc # "next" => last < off
    /\ pc \in {"start", "route"} => path = shownAll[off]
    /\ pc \in {"filter", "answer", "next"} =>
         /\ result = Find(routes, method, shownAll[off], off)
         /\ path = IF result.rewriteUri # NoUri THEN result.rewriteUri ELSE shownAll[off]
    /\ AskedBefore(off)

HInv == TypeOK /\ ResultInv /\ TurnInv /\ PassInv

LEMMA InitHInv == Init => HInv
<1> SUFFICES ASSUME Init PROVE HInv
  OBVIOUS
<1>1. TypeOK
  <2>1. routes \in Seq(Route) /\ Len(routes) \in Nat
    BY HandlerAssumption DEF Init
  <2>2. result \in Result /\ result.filters = <<>>
    BY DEF Init, EmptyResult, Result, Status
  <2>3. QED BY <2>1, <2>2 DEF Init, TypeOK, NoLine
<1>2. ResultInv /\ TurnInv
  BY DEF Init, ResultInv, TurnInv
<1>3. PassInv
  <2>1. IsShown(shownAll, routes, method, arrived, 0)
    BY <1>1, HandlerAssumption, ShownLemma DEF shownAll, TypeOK
  <2>2. shownAll[0] = arrived
    BY <2>1 DEF IsShown
  <2>3. QED BY <2>2 DEF Init, PassInv, AskedBefore
<1>4. QED BY <1>1, <1>2, <1>3 DEF HInv

LEMMA ContentType ==
  ASSUME NEW c \in ContentConfig, NEW p
  PROVE  ContentResponses(c, p) \subseteq ContentResponse
<1>1. c.conditions \in Seq(Condition) /\ c.default \in ContentResponse /\ Len(c.conditions) \in Nat
  BY DEF ContentConfig
<1>2. ASSUME NEW i \in 1 .. Len(c.conditions) PROVE c.conditions[i].response \in ContentResponse
  <2>1. c.conditions[i] \in Condition
    BY <1>1
  <2>2. QED BY <2>1 DEF Condition
<1>3. QED BY <1>1, <1>2 DEF ContentResponses

LEMMA FieldsType == ASSUME NEW f \in LogFormat PROVE Fields(f) \in Seq(Directive \cup {"uri"})
<1>1. CASE f.preset = "ncsa"
  <2>1. Fields(f) = f.directives /\ f.directives \in Seq(Directive)
    BY <1>1 DEF LogFormat, Fields
  <2> HIDE DEF Directive
  <2>2. QED BY <2>1
<1>2. CASE f.preset = "json"
  BY <1>2 DEF Fields, JSONFields, Directive
<1>3. CASE f.preset = "ltsv"
  BY <1>3 DEF Fields, LTSVFields, Directive
<1>4. CASE f.preset = "nil"
  BY <1>4 DEF Fields
<1>5. QED BY <1>1, <1>2, <1>3, <1>4 DEF LogFormat

LEMMA NextTypeOK == TypeOK /\ ResultInv /\ [Next]_vars => TypeOK'
<1> SUFFICES ASSUME TypeOK, ResultInv, [Next]_vars PROVE TypeOK'
  OBVIOUS
<1>1. routes \in Seq(Route) /\ Len(routes) \in Nat
  BY HandlerAssumption DEF TypeOK
<1> USE DEF TypeOK
<1>2. CASE HandleError
  BY <1>2 DEF HandleError, request, logVars, ErrorPagesHandle
<1>3. CASE Collect
  BY <1>3 DEF Collect, request
<1>4. CASE RouteRequest
  <2>1. FindsRoute(result', routes, off)
    BY <1>1, <1>4, FindType DEF RouteRequest
  <2>2. result' \in Result /\ path' \in Path /\ passed' \in 0 .. Len(result'.filters)
    BY <1>4, <2>1 DEF RouteRequest, FindsRoute, Result
  <2>3. QED BY <1>4, <2>2 DEF RouteRequest, request, logVars
<1>5. CASE FilterAccepts
  <2>1. result.filters \in Seq(Filter)
    BY DEF Result
  <2>2. Asked \in Filter /\ passed' \in 0 .. Len(result'.filters)
    BY <1>5, <2>1 DEF FilterAccepts, Asked
  <2>3. authorization' \in Authorization
    BY <1>5 DEF FilterAccepts, AfterRequest, Authorization
  <2>4. QED BY <1>5, <2>2, <2>3 DEF FilterAccepts, request, logVars
<1>6. CASE FilterRejects
  BY <1>6 DEF FilterRejects, request, logVars, ErrorPagesHandle, Rejection
<1>7. CASE FiltersDone
  BY <1>7 DEF FiltersDone, request, logVars
<1>8. CASE Redirect
  <2>1. Answering \in -1 .. Len(routes) - 1
    BY <1>1, <1>8 DEF Redirect, ResultInv, FindsRoute, Answering, Result
  <2>2. QED BY <1>8, <2>1 DEF Redirect, request, logVars, IsHttpStatusRedirect
<1>9. CASE AnswerStatus
  <2>1. result.status # NotFound => Answering \in -1 .. Len(routes) - 1
    BY <1>1, <1>9 DEF AnswerStatus, ResultInv, FindsRoute, Answering, Result
  <2>2. status' \in 100 .. 599
    BY <1>9, SMTT(30) DEF AnswerStatus, Result, Status
  <2>3. stamped' \subseteq Filter
    BY <1>9 DEF AnswerStatus, ResponseFilters, Result, Range
  <2>4. QED BY <1>9, <2>1, <2>2, <2>3 DEF AnswerStatus, request, logVars, ErrorPagesHandle
<1>10. CASE CallHandler
  <2>1. Answering \in -1 .. Len(routes) - 1
    BY <1>1, <1>10 DEF CallHandler, ResultInv, FindsRoute, Answering, Result, NotFound
  <2>2. status' \in 100 .. 599 /\ body' \in {"none", "filter", "handler", "page"}
    <3>1. CASE result.handler \in DOMAIN ContentOf
      <4>1. PICK response \in ContentResponses(ContentOf[result.handler], path) :
              /\ status' = IF response.status = 0 THEN status ELSE response.status
              /\ ErrorPagesHandle(status', IF response.hasBody THEN "handler" ELSE body)
        BY <1>10, <3>1 DEF CallHandler
      <4>2. ContentOf[result.handler] \in ContentConfig
        BY <3>1, HandlerAssumption
      <4>3. response \in ContentResponse
        BY <4>1, <4>2, ContentType
      <4>4. response.status = 0 \/ response.status \in 100 .. 599
        BY <4>3 DEF ContentResponse
      <4>5. QED BY <4>1, <4>4 DEF ErrorPagesHandle
    <3>2. CASE result.handler \notin DOMAIN ContentOf
      BY <1>10, <3>2, HandlerAssumption DEF CallHandler, ErrorPagesHandle
    <3>3. QED BY <3>1, <3>2
  <2>3. stamped' \subseteq Filter
    BY <1>10 DEF CallHandler, ResponseFilters, Result, Range
  <2>4. QED BY <1>10, <2>1, <2>2, <2>3 DEF CallHandler, request, logVars
<1>11. CASE FallThrough
  BY <1>1, <1>11 DEF FallThrough, request, logVars, IsNextIfNotFound, Result
<1>12. CASE Finish
  <2>1. off' \in 0 .. Len(routes)
    BY <1>1, <1>12 DEF Finish, ResultInv, FindsRoute, Result
  <2>2. Len(line') = Len(Fields(format))
    <3>1. Fields(format) \in Seq(Directive \cup {"uri"})
      BY HandlerAssumption, FieldsType
    <3>2. DOMAIN line' = 1 .. Len(Fields(format)) /\ Len(Fields(format)) \in Nat
      BY <1>12, <3>1 DEF Finish, Line
    <3>3. QED BY <3>2
  <2>3. QED BY <1>12, <2>1, <2>2 DEF Finish, request
<1>13. CASE UNCHANGED vars
  BY <1>13 DEF vars, request, logVars
<1>14. QED BY <1>2, <1>3, <1>4, <1>5, <1>6, <1>7, <1>8, <1>9, <1>10, <1>11, <1>12, <1>13
           DEF Next, HandleRouteResult

LEMMA NextResultInv == TypeOK /\ ResultInv /\ [Next]_vars => ResultInv'
<1> SUFFICES ASSUME TypeOK, ResultInv, [Next]_vars PROVE ResultInv'
  OBVIOUS
<1>1. CASE RouteRequest
  <2>1. FindsRoute(result', routes, off)
    BY <1>1, FindType, HandlerAssumption DEF RouteRequest, TypeOK
  <2>2. QED BY <1>1, <2>1 DEF RouteRequest, ResultInv, request
<1>2. CASE HandleRouteResult
  <2>1. UNCHANGED <<routes, off, result>> /\ pc \in {"filter", "answer"}
    BY <1>2 DEF HandleRouteResult, FilterAccepts, FilterRejects, FiltersDone, Redirect,
                AnswerStatus, CallHandler, request
  <2>2. QED BY <2>1 DEF ResultInv
<1>3. CASE HandleError \/ Collect \/ FallThrough \/ Finish
  BY <1>3 DEF HandleError, Collect, FallThrough, Finish, ResultInv
<1>4. CASE UNCHANGED vars
  BY <1>4 DEF vars, request, ResultInv
<1>5. QED BY <1>1, <1>2, <1>3, <1>4 DEF Next

LEMMA NextTurnInv == TypeOK /\ TurnInv /\ [Next]_vars => TurnInv'
<1> SUFFICES ASSUME TypeOK, TurnInv, [Next]_vars PROVE TurnInv'
  OBVIOUS
<1>1. CASE RouteRequest
  BY <1>1 DEF RouteRequest, TurnInv
<1>2. CASE FilterAccepts
  <2>1. \A k \in 1 .. passed : result.filters[k] \in accepted
    BY <1>2 DEF FilterAccepts, TurnInv
  <2>2. /\ passed' = passed + 1 /\ result' = result /\ pc' = "filter"
        /\ accepted' = accepted \cup {result.filters[passed + 1]} /\ passed \in Nat
    BY <1>2 DEF FilterAccepts, Asked, TypeOK
  <2>3. ASSUME NEW k \in 1 .. passed' PROVE result'.filters[k] \in accepted'
    <3>1. CASE k = passed + 1
      BY <2>2, <3>1
    <3>2. CASE k # passed + 1
      BY <2>1, <2>2, <3>2
    <3>3. QED BY <3>1, <3>2
  <2>4. QED BY <2>2, <2>3 DEF TurnInv
<1>3. CASE FiltersDone
  <2>1. Range(result.filters) \subseteq accepted
    <3>1. result.filters \in Seq(Filter)
      BY DEF TypeOK, Result
    <3>2. QED BY <1>3, <3>1 DEF FiltersDone, TurnInv, Range
  <2>2. QED BY <1>3, <2>1 DEF FiltersDone, TurnInv
<1>4. CASE FilterRejects
  BY <1>4 DEF FilterRejects, TurnInv, Rejection, NotFound
<1>5. CASE Redirect
  BY <1>5 DEF Redirect, TurnInv, IsHttpStatusRedirect, NotFound
<1>6. CASE AnswerStatus
  BY <1>6 DEF AnswerStatus, TurnInv
<1>7. CASE CallHandler
  <2>1. /\ pc' = "next" /\ UNCHANGED <<off, result, accepted>> /\ last' = Answering
        /\ result.status = 0 /\ result.handler # NoHandler /\ result.redirectUri = NoUri
        /\ Range(result.filters) \subseteq accepted
    BY <1>7 DEF CallHandler, TurnInv
  <2>2. QED BY <2>1 DEF TurnInv, Answering
<1>8. CASE HandleError \/ Collect \/ FallThrough \/ Finish
  BY <1>8 DEF HandleError, Collect, FallThrough, Finish, TurnInv, Answering
<1>9. CASE UNCHANGED vars
  BY <1>9 DEF vars, request, TurnInv, Answering
<1>10. QED BY <1>1, <1>2, <1>3, <1>4, <1>5, <1>6, <1>7, <1>8, <1>9 DEF Next, HandleRouteResult

(* A request falls through from the first pass only, and finds the table as *)
(* a search of the whole table would have shown it.                         *)
LEMMA FallThroughPass ==
  TypeOK /\ ResultInv /\ TurnInv /\ PassInv /\ FallsThroughOnce(routes) /\ FallThrough =>
    /\ off = 0
    /\ off' = result.routeIndex + 1 /\ off' \in 1 .. Len(routes)
    /\ routes[off'].nextIfNotFound
    /\ last < off'
    /\ path = shownAll[off']
    /\ AskedBefore(off')
<1> SUFFICES ASSUME TypeOK, ResultInv, TurnInv, PassInv, FallsThroughOnce(routes), FallThrough
             PROVE  /\ off = 0
                    /\ off' = result.routeIndex + 1 /\ off' \in 1 .. Len(routes)
                    /\ routes[off'].nextIfNotFound
                    /\ last < off'
                    /\ path = shownAll[off']
                    /\ AskedBefore(off')
  OBVIOUS
<1>1. routes \in Seq(Route) /\ Len(routes) \in Nat /\ arrived \in Path /\ off \in 0 .. Len(routes)
  BY HandlerAssumption DEF TypeOK
<1>2. /\ off' = result.routeIndex + 1 /\ result.routeIndex \in Nat
      /\ result.routeIndex < Len(routes) /\ routes[result.routeIndex + 1].nextIfNotFound
  BY DEF FallThrough, IsNextIfNotFound, TypeOK, Result
<1>3. /\ last = off + result.routeIndex /\ result.status = 0 /\ result.status # NotFound
      /\ result.handler # NoHandler /\ result.redirectUri = NoUri
      /\ Range(result.filters) \subseteq accepted
  BY DEF FallThrough, TurnInv, Answering
<1>4. /\ off = 0 \/ routes[off].nextIfNotFound
      /\ result = Find(routes, method, shownAll[off], off)
      /\ path = IF result.rewriteUri # NoUri THEN result.rewriteUri ELSE shownAll[off]
      /\ AskedBefore(off)
  BY DEF FallThrough, PassInv
<1>5. PICK e : Reaches(routes, method, arrived, off, result, e)
  BY <1>1, <1>3, <1>4, ReachLemma DEF shownAll
<1>6. /\ e \in off .. Len(routes) - 1 /\ result.routeIndex = e - off
      /\ routes[e + 1].status = 0 /\ routes[e + 1].handler # NoHandler
      /\ shownAll[e + 1] = path
      /\ \A i \in off .. e : Match(routes[i + 1], method, shownAll[i]) =>
           Range(routes[i + 1].filters) \subseteq accepted
  BY <1>3, <1>4, <1>5 DEF Reaches, shownAll
<1>7. off = 0
  <2> SUFFICES ASSUME off # 0 PROVE FALSE
    OBVIOUS
  <2> DEFINE g == result.routeIndex + 1
  <2>1. off \in 1 .. Len(routes) /\ g \in 1 .. Len(routes) /\ off + g = e + 1 /\ off + g <= Len(routes)
    BY <1>1, <1>2, <1>6
  <2>2. routes[off].nextIfNotFound /\ routes[g].nextIfNotFound
    BY <1>2, <1>4
  <2> HIDE DEF g
  <2>3. routes[off + g].handler = NoHandler \/ routes[off + g].status > 0
    BY <2>1, <2>2 DEF FallsThroughOnce
  <2>4. QED BY <1>6, <2>1, <2>3
<1>8. off' = e + 1 /\ last = e
  BY <1>2, <1>3, <1>6, <1>7
<1>9. AskedBefore(e + 1)
  <2>1. \A i \in 0 .. (e + 1) - 1 : i \in off .. e
    BY <1>6, <1>7
  <2>2. QED BY <1>6, <2>1 DEF AskedBefore
<1>10. QED BY <1>1, <1>2, <1>6, <1>7, <1>8, <1>9

LEMMA NextPassInv == HInv /\ [Next]_vars => PassInv'
<1> SUFFICES ASSUME HInv, [Next]_vars PROVE PassInv'
  OBVIOUS
<1>1. UNCHANGED <<routes, method, arrived>> /\ shownAll' = shownAll
  BY DEF Next, vars, request, HandleError, Collect, RouteRequest, HandleRouteResult,
         FilterAccepts, FilterRejects, FiltersDone, Redirect, AnswerStatus, CallHandler,
         FallThrough, Finish, shownAll
<1>2. accepted \subseteq accepted'
  BY DEF Next, vars, HandleError, Collect, RouteRequest, HandleRouteResult,
         FilterAccepts, FilterRejects, FiltersDone, Redirect, AnswerStatus, CallHandler,
         FallThrough, Finish
<1> SUFFICES ASSUME FallsThroughOnce(routes), pc' # "done"
             PROVE  /\ off' = 0 \/ routes[off'].nextIfNotFound
                    /\ pc' # "next" => last' < off'
                    /\ pc' \in {"start", "route"} => path' = shownAll[off']
                    /\ pc' \in {"filter", "answer", "next"} =>
                         /\ result' = Find(routes, method, shownAll[off'], off')
                         /\ path' = IF result'.rewriteUri # NoUri THEN result'.rewriteUri
                                    ELSE shownAll[off']
                    /\ \A i \in 0 .. off' - 1 : Match(routes[i + 1], method, shownAll[i]) =>
                         Range(routes[i + 1].filters) \subseteq accepted'
  BY <1>1 DEF PassInv, AskedBefore
<1>3. pc # "done"
  BY DEF Next, vars, HandleError, Collect, RouteRequest, HandleRouteResult,
         FilterAccepts, FilterRejects, FiltersDone, Redirect, AnswerStatus, CallHandler,
         FallThrough, Finish
<1>4. /\ off = 0 \/ routes[off].nextIfNotFound
      /\ pc # "next" => last < off
      /\ pc \in {"start", "route"} => path = shownAll[off]
      /\ pc \in {"filter", "answer", "next"} =>
           /\ result = Find(routes, method, shownAll[off], off)
           /\ path = IF result.rewriteUri # NoUri THEN result.rewriteUri ELSE shownAll[off]
      /\ AskedBefore(off)
  BY <1>3 DEF HInv, PassInv
<1>5. CASE FallThrough
  <2>1. /\ routes[off'].nextIfNotFound /\ last < off' /\ path = shownAll[off'] /\ AskedBefore(off')
    BY <1>5, FallThroughPass DEF HInv
  <2>2. pc' = "route" /\ path' = path /\ last' = last
    BY <1>5 DEF FallThrough
  <2>3. QED BY <1>2, <2>1, <2>2 DEF AskedBefore
<1>6. CASE ~FallThrough
  <2>1. off' = off
    BY <1>3, <1>6 DEF Next, vars, HandleError, Collect, RouteRequest, HandleRouteResult,
         FilterAccepts, FilterRejects, FiltersDone, Redirect, AnswerStatus, CallHandler, Finish
  <2>2. AskedBefore(off)
    BY <1>4
  <2>3. \A i \in 0 .. off' - 1 : Match(routes[i + 1], method, shownAll[i]) =>
           Range(routes[i + 1].filters) \subseteq accepted'
    BY <1>2, <2>1, <2>2 DEF AskedBefore
  <2>4. CASE Collect
    BY <1>4, <2>1, <2>3, <2>4 DEF Collect
  <2>5. CASE RouteRequest
    BY <1>4, <2>1, <2>3, <2>5 DEF RouteRequest
  <2>6. CASE HandleRouteResult
    <3>1. /\ pc \in {"filter", "answer"} /\ pc' \in {"filter", "answer", "next"}
          /\ result' = result /\ path' = path
          /\ pc' # "next" => last' = last
      BY <2>6 DEF HandleRouteResult, FilterAccepts, FilterRejects, FiltersDone, Redirect,
                  AnswerStatus, CallHandler
    <3>2. /\ off = 0 \/ routes[off].nextIfNotFound
          /\ last < off
          /\ result = Find(routes, method, shownAll[off], off)
          /\ path = IF result.rewriteUri # NoUri THEN result.rewriteUri ELSE shownAll[off]
      BY <1>4, <3>1
    <3>3. pc' # "next" => last' < off'
      BY <2>1, <3>1, <3>2
    <3>4. pc' \notin {"start", "route"}
      BY <3>1
    <3>5. /\ off' = 0 \/ routes[off'].nextIfNotFound
          /\ result' = Find(routes, method, shownAll[off'], off')
          /\ path' = IF result'.rewriteUri # NoUri THEN result'.rewriteUri ELSE shownAll[off']
      BY <2>1, <3>1, <3>2
    <3>6. QED BY <2>3, <3>3, <3>4, <3>5
  <2>7. CASE UNCHANGED vars
    BY <1>4, <2>1, <2>3, <2>7 DEF vars
  <2>8. QED BY <1>3, <1>6, <2>4, <2>5, <2>6, <2>7 DEF Next, HandleError, Finish
<1>7. QED BY <1>5, <1>6

(* Where a pass of the loop stands in the table and what the request has    *)
(* been asked by then.                                                      *)
THEOREM PassInvariant == Spec => []HInv
<1>1. HInv /\ [Next]_vars => HInv'
  BY NextTypeOK, NextResultInv, NextTurnInv, NextPassInv DEF HInv
<1>2. QED BY <1>1, InitHInv, PTL DEF Spec

(* The types of Handle's state, for every table, handler and filter.        *)
THEOREM HandlerTypeCorrect == Spec => []TypeOK
<1>1. HInv => TypeOK
  BY DEF HInv
<1>2. QED BY <1>1, PassInvariant, PTL

(* The marks a response is to have: those of all filters of its route, when *)
(* they have accepted the request and it is not redirected.                 *)
Marks ==
  IF passed = Len(result.filters) /\ result.redirectUri = NoUri
  THEN {f \in Range(result.filters) : Stamps(f)} ELSE {}

(* A route only answers when all its filters have accepted, and once it has *)
(* answered, or a filter has rejected, the marks are those.                 *)
StampInv ==
  /\ pc = "start" => result = EmptyResult /\ passed = 0
  /\ pc = "answer" => passed = Len(result.filters)
  /\ pc \in {"next", "done"} => stamped = Marks

LEMMA NextStampInv == TypeOK /\ FreshInv /\ StampInv /\ [Next]_vars => StampInv'
<1> SUFFICES ASSUME TypeOK, FreshInv, StampInv, [Next]_vars PROVE StampInv'
  OBVIOUS
<1> USE DEF StampInv, Marks
<1>1. CASE HandleError
  BY <1>1 DEF HandleError, FreshInv, EmptyResult, Range
<1>2. CASE Collect \/ RouteRequest \/ FilterAccepts \/ FallThrough
  BY <1>2 DEF Collect, RouteRequest, FilterAccepts, FallThrough
<1>3. CASE FiltersDone \/ Finish
  BY <1>3 DEF FiltersDone, Finish
<1>4. CASE FilterRejects
  <2>1. passed # Len(result.filters)
    BY <1>4 DEF FilterRejects, TypeOK
  <2>2. QED BY <1>4, <2>1 DEF FilterRejects, FreshInv
<1>5. CASE Redirect
  BY <1>5 DEF Redirect, FreshInv
<1>6. CASE AnswerStatus
  BY <1>6 DEF AnswerStatus, ResponseFilters
<1>7. CASE CallHandler
  <2>1. /\ pc = "answer" /\ result.redirectUri = NoUri /\ pc' = "next"
        /\ UNCHANGED <<result, passed>>
        /\ stamped' = stamped \cup {f \in Range(result.filters) : Stamps(f)}
    BY <1>7 DEF CallHandler, ResponseFilters
  <2>2. QED BY <2>1 DEF FreshInv
<1>8. CASE UNCHANGED vars
  BY <1>8 DEF vars
<1>9. QED BY <1>1, <1>2, <1>3, <1>4, <1>5, <1>6, <1>7, <1>8 DEF Next, HandleRouteResult

(* The logged response carries the marks of every response filter of the    *)
(* route whose status or handler gave it, and no others; a rejection or a   *)
(* redirect carries none (server.go 211, 224-248).                          *)
THEOREM StampedTheorem == Spec => []StampedByFinal
<1>1. Init => StampInv
  BY DEF Init, StampInv
<1>2. TypeOK /\ IInv /\ StampInv /\ [Next]_vars => StampInv'
  BY NextStampInv DEF IInv
<1>3. StampInv => StampedByFinal
  BY DEF StampInv, StampedByFinal, Marks
<1>4. QED BY <1>1, <1>2, <1>3, HandlerTypeCorrect, HandlerInvariant, PTL DEF Spec

(* No route answers before the filters of every earlier route that the      *)
(* request matches have accepted it, in every table from which a request    *)
(* falls through once (server.go 224-229, route.go 173-179).                *)
THEOREM GateTheorem == Spec => []FilterGate
<1>1. HInv => FilterGate
  <2> SUFFICES ASSUME HInv, FallsThroughOnce(routes), pc = "answer", result.status # NotFound,
                      NEW i \in 0 .. Answering, Match(routes[i + 1], method, shownAll[i])
               PROVE  Range(routes[i + 1].filters) \subseteq accepted
    BY DEF FilterGate, shownAll
  <2>1. routes \in Seq(Route) /\ Len(routes) \in Nat /\ arrived \in Path /\ off \in 0 .. Len(routes)
    BY HandlerAssumption DEF HInv, TypeOK
  <2>2. result = Find(routes, method, shownAll[off], off) /\ AskedBefore(off)
    BY DEF HInv, PassInv
  <2>3. Range(result.filters) \subseteq accepted
    BY DEF HInv, TurnInv
  <2>4. PICK e : Reaches(routes, method, arrived, off, result, e)
    BY <2>1, <2>2, ReachLemma DEF shownAll
  <2>5. /\ e \in off .. Len(routes) - 1 /\ Answering = e
        /\ \A j \in off .. e : Match(routes[j + 1], method, shownAll[j]) =>
             Range(routes[j + 1].filters) \subseteq Range(result.filters)
    BY <2>1, <2>4 DEF Reaches, shownAll, Answering
  <2>6. CASE i < off
    BY <2>1, <2>2, <2>6 DEF AskedBefore
  <2>7. CASE ~(i < off)
    BY <2>1, <2>3, <2>5, <2>7
  <2>8. QED BY <2>6, <2>7
<1>2. QED BY <1>1, PassInvariant, PTL

------------------------------------------------------------------------------
(* Steps before the answer change nothing of what is promised.              *)
LEMMA OpenStep ==
  ASSUME pc \in {"start", "route", "filter", "answer"},
         pc' \in {"start", "route", "filter", "answer"},
         UNCHANGED <<routes, last>>
  PROVE  UNCHANGED H!vars
BY DEF H!vars, Phase, Decided

(* A route that answers takes its turn.                                     *)
LEMMA TurnStep ==
  ASSUME HInv, HInv', pc \in {"filter", "answer"}, pc' = "next", UNCHANGED routes,
         Phase' = "answered", FallsThroughOnce(routes) => last' > last
  PROVE  H!TakeTurn
<1>1. ~Decided /\ Decided' /\ Phase = "open"
  BY DEF Decided, Phase
<1>2. status' \in 100 .. 599
  BY DEF HInv, TypeOK
<1>3. FallsThroughOnce(routes)' = FallsThroughOnce(routes)
  BY DEF FallsThroughOnce
<1> HIDE DEF HInv, Phase, FallsThroughOnce, Decided
<1>4. QED BY <1>1, <1>2, <1>3 DEF H!TakeTurn

(* The next turn is later than the last one.                                *)
LEMMA LaterTurn ==
  ASSUME HInv, pc \in {"filter", "answer"}, FallsThroughOnce(routes)
  PROVE  Answering > last
<1>1. last < off
  BY DEF HInv, PassInv
<1>2. result.routeIndex \in Nat /\ off \in Nat /\ last \in Int
  BY HandlerAssumption DEF HInv, TypeOK, Result
<1>3. QED BY <1>1, <1>2 DEF Answering

(* Every step of Handle is one that a host promises, or none of them.       *)
LEMMA ServiceStep ==
  ASSUME HInv, IInv, HInv', IInv', [Next]_vars
  PROVE  H!Next \/ UNCHANGED H!vars
<1>1. CASE HandleError
  <2>1. /\ pc = "start" /\ pc' = "done" /\ UNCHANGED <<routes, last>> /\ last = -1
        /\ status' \in 400 .. 499
    BY <1>1 DEF HandleError, request, HInv, TurnInv
  <2>2. body' # "none"
    BY <1>1, ErrorPagesBody DEF HandleError, ErrorStatus
  <2>3. H!Refuse
    BY <2>1, <2>2 DEF H!Refuse, Phase, Decided
  <2>4. QED BY <2>3 DEF H!Next
<1>2. CASE Collect \/ RouteRequest \/ FilterAccepts \/ FiltersDone
  <2>1. /\ pc \in {"start", "route", "filter", "answer"}
        /\ pc' \in {"start", "route", "filter", "answer"}
        /\ UNCHANGED <<routes, last>>
    BY <1>2 DEF Collect, RouteRequest, FilterAccepts, FiltersDone, request
  <2>2. QED BY <2>1, OpenStep
<1>3. CASE FilterRejects
  <2>1. /\ pc = "filter" /\ pc' = "next" /\ UNCHANGED <<routes, off, result, last>>
        /\ status' \in 400 .. 499
    BY <1>3 DEF FilterRejects, request, Rejection
  <2>2. body' # "none"
    <3>1. ErrorPagesHandle(status', Rejection(authorization).body)
      BY <1>3 DEF FilterRejects
    <3>2. status' \in ErrorStatus
      BY <2>1 DEF ErrorStatus
    <3>3. QED BY <3>1, <3>2, ErrorPagesBody
  <2>3. CASE Phase' = "answered"
    <3>1. last = Answering
      BY <2>1, <2>3 DEF Phase, Answering
    <3>2. ~FallsThroughOnce(routes)
      <4>1. ~(last > last)
        BY HandlerAssumption DEF HInv, TypeOK
      <4>2. QED BY <2>1, <3>1, <4>1, LaterTurn
    <3>3. QED BY <2>1, <2>3, <3>2, TurnStep DEF H!Next
  <2>4. CASE Phase' # "answered"
    <3>1. Phase' = "declined" /\ Phase = "open" /\ ~Decided /\ Decided'
      BY <2>1, <2>4 DEF Phase, Decided
    <3>2. H!Decline
      BY <2>1, <2>2, <3>1 DEF H!Decline
    <3>3. QED BY <3>2 DEF H!Next
  <2>5. QED BY <2>3, <2>4
<1>4. CASE Redirect
  <2>1. /\ pc = "answer" /\ pc' = "next" /\ UNCHANGED <<routes, off, result>>
        /\ last' = Answering /\ result.redirectUri # NoUri
    BY <1>4 DEF Redirect, request
  <2>2. Phase' = "answered"
    BY <2>1 DEF Phase, Answering
  <2>3. QED BY <2>1, <2>2, LaterTurn, TurnStep DEF H!Next
<1>5. CASE AnswerStatus
  <2>1. /\ pc = "answer" /\ pc' = "next" /\ UNCHANGED <<routes, off, result>>
        /\ result.redirectUri = NoUri /\ status' = result.status
        /\ last' = IF result.status = NotFound THEN last ELSE Answering
    BY <1>5 DEF AnswerStatus, request
  <2>2. CASE result.status = NotFound
    <3>1. body' # "none"
      BY <1>5, <2>1, <2>2, ErrorPagesBody DEF AnswerStatus, ErrorStatus, NotFound
    <3>2. Phase' = "declined" /\ Phase = "open" /\ ~Decided /\ Decided'
      BY <2>1, <2>2 DEF Phase, Decided
    <3>3. H!Decline
      BY <2>1, <2>2, <3>1, <3>2 DEF H!Decline, NotFound
    <3>4. QED BY <3>3 DEF H!Next
  <2>3. CASE result.status # NotFound
    <3>1. Phase' = "answered" /\ last' = Answering
      BY <2>1, <2>3 DEF Phase, Answering
    <3>2. QED BY <2>1, <3>1, LaterTurn, TurnStep DEF H!Next
  <2>4. QED BY <2>2, <2>3
<1>6. CASE CallHandler
  <2>1. /\ pc = "answer" /\ pc' = "next" /\ UNCHANGED <<routes, off, result>>
        /\ last' = Answering /\ result.status = 0
    BY <1>6 DEF CallHandler, request
  <2>2. Phase' = "answered"
    BY <2>1 DEF Phase, Answering, NotFound
  <2>3. QED BY <2>1, <2>2, LaterTurn, TurnStep DEF H!Next
<1>7. CASE FallThrough
  <2>1. /\ pc = "next" /\ pc' = "route" /\ UNCHANGED <<routes, last>>
        /\ status = NotFound /\ result.status # NotFound
    BY <1>7 DEF FallThrough, request
  <2>2. last = Answering
    BY <2>1 DEF HInv, TurnInv
  <2>3. Phase = "answered" /\ Phase' = "open" /\ Decided /\ ~Decided'
    BY <2>1, <2>2 DEF Phase, Decided
  <2>4. H!PassOn
    BY <2>1, <2>3 DEF H!PassOn, NotFound
  <2>5. QED BY <2>4 DEF H!Next
<1>8. CASE Finish
  <2>1. pc = "next" /\ pc' = "done" /\ UNCHANGED <<routes, last, status, body>>
    BY <1>8 DEF Finish, request
  <2>2. Phase \in {"answered", "declined"} /\ Phase' = "given" /\ Decided /\ Decided'
    BY <2>1 DEF Phase, Decided
  <2>3. status \in 400 .. 599 => body # "none"
    BY <2>1 DEF IInv, AnswerInv, ErrorStatus
  <2>4. H!Give
    BY <2>1, <2>2, <2>3 DEF H!Give
  <2>5. QED BY <2>4 DEF H!Next
<1>9. CASE UNCHANGED vars
  BY <1>9 DEF vars, request, H!vars, Phase, Decided, Answering
<1>10. QED BY <1>1, <1>2, <1>3, <1>4, <1>5, <1>6, <1>7, <1>8, <1>9 DEF Next, HandleRouteResult

(* The loop of Handle implements HostService, for every table: each route   *)
(* that answers does so after a 404 of the one before, in the order of the  *)
(* table if a request falls through once, and a decided answer stays        *)
(* (server.go 197-249).                                                     *)
THEOREM ServesTheorem == Spec => ServesAsPromised
<1>1. Init => H!Init
  BY DEF Init, H!Init, Phase, Decided, FallsThroughOnce
<1>2. HInv /\ IInv /\ HInv' /\ IInv' /\ [Next]_vars => [H!Next]_(H!vars)
  BY ServiceStep
<1>3. QED BY <1>1, <1>2, PassInvariant, HandlerInvariant, PTL DEF Spec, ServesAsPromised, H!Spec
==============================================================================
