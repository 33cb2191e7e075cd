----------------------------- MODULE HostHandler -----------------------------
(***************************************************************************)
(* pkg/handler/server.go: hostHandler.Handle, from the arrival of one      *)
(* request to its access-log line.                                         *)
(*                                                                         *)
(* Requests of one host share no state that Handle itself changes, so one  *)
(* request per behaviour is enough; the route table, the method and the    *)
(* path it arrives with are chosen initially.  CachedRouteCtx is           *)
(* Routes.Route: that the cache in front of it hands out the same Result   *)
(* is the business of module RoutesCache.  Filters are those of module     *)
(* Filters; a handler is a content handler (module Content) or code the    *)
(* host only calls (fs, balancer, expvar, pprof), which sets one of        *)
(* HandlerStatus.  Filters leave the header Original-Request-URI alone.    *)
(***************************************************************************)
EXTENDS RouteSearch, Filters, Content, LogFormat

CONSTANTS
  Tables,          \* bound: the route tables considered
  ContentOf,       \* content handler -> its configuration
  HandlerStatus,   \* the statuses the other handlers answer with
  Formats          \* bound: the formats of the access log considered

ASSUME HandlerAssumption ==
  /\ Tables \subseteq Seq(Route)
  /\ Path \cap {"none", "-"} = {}      \* a path begins with a slash
  /\ NoUri \notin Path \cup AbsoluteUri /\ NoHandler \notin Handler
  /\ HandlerStatus \subseteq 100 .. 599
  /\ DOMAIN FilterConfig = Filter
  /\ DOMAIN ContentOf \subseteq Handler
  /\ ContentOf \in [DOMAIN ContentOf -> ContentConfig]
  /\ Formats \subseteq LogFormat

VARIABLES
  routes, method,  \* the host's table and the request's method
  arrived,         \* the path the request arrived with
  path,            \* ctx.Path(): the path as rewritten so far
  authorization,   \* the request's Authorization header
  pc,              \* where Handle is
  off,             \* the local variable off
  result,          \* the Result in hand
  passed,          \* how many of result.Filters have accepted in this pass
  status,          \* ctx.Response.StatusCode()
  body,            \* where the response body comes from
  format,          \* the format of the host's access log
  original,        \* the header Original-Request-URI, "-" without one
  line,            \* the line of the access log, NoLine before Log
  \* history
  accepted,        \* filters whose Request has accepted this request
  stamped,         \* filters whose Response has run on the present response
  last             \* the route (counted from 0) that answered last, or -1

request == <<routes, method, arrived>>
logVars == <<format, original, line>>
vars == <<request, path, authorization, pc, off, result, passed, status, body,
          logVars, accepted, stamped, last>>

NoLine == <<"none">>

\* The route the Result in hand stands for.
Answering == off + result.routeIndex

ErrorStatus == 400 .. 599

\* ErrorPages.Handle, which may replace the body of an error by a configured
\* page and gives one without a body the default page.
ErrorPagesHandle(st, bd) ==
  IF st \notin ErrorStatus THEN body' = bd
  ELSE IF bd = "none" THEN body' = "page"
  ELSE body' \in {bd, "page"}

------------------------------------------------------------------------------
Init ==
  /\ routes \in Tables
  /\ method \in Method
  /\ arrived \in Path
  /\ path = arrived
  /\ authorization \in Authorization
  /\ pc = "start"
  /\ off = 0
  /\ result = EmptyResult
  /\ passed = 0
  /\ status = 200
  /\ body = "none"
  /\ format \in Formats
  /\ original = "-"
  /\ line = NoLine
  /\ accepted = {}
  /\ stamped = {}
  /\ last = -1

\* HandleError: fasthttp could not read the request.
HandleError ==
  /\ pc = "start"
  /\ status' \in {431, 408, 400}
  /\ ErrorPagesHandle(status', body)
  /\ pc' = "done"
  /\ UNCHANGED <<request, logVars, path, authorization, off, result, passed, accepted, stamped, last>>

\* accessLog.Collect, then off := 0.
Collect ==
  /\ pc = "start"
  /\ original' = IF CollectRequestURI(format) THEN path ELSE original
  /\ pc' = "route"
  /\ UNCHANGED <<request, format, line, path, authorization, off, result, passed, status, body, accepted, stamped, last>>

\* Variant: the URI is collected in each pass, after the rewrite.
RouteRequestCollects ==
  /\ pc = "route"
  /\ result' = Find(routes, method, path, off)
  /\ path' = IF result'.rewriteUri # NoUri THEN result'.rewriteUri ELSE path
  /\ original' = IF CollectRequestURI(format) THEN path' ELSE original
  /\ passed' = 0
  /\ pc' = "filter"
  /\ UNCHANGED <<request, format, line, authorization, off, status, body, accepted, stamped, last>>

\* CachedRouteCtx(ctx, off), then the rewrite that begins handleRouteResult.
RouteRequest ==
  /\ pc = "route"
  /\ result' = Find(routes, method, path, off)
  /\ path' = IF result'.rewriteUri # NoUri THEN result'.rewriteUri ELSE path
  /\ passed' = 0
  /\ pc' = "filter"
  /\ UNCHANGED <<request, logVars, authorization, off, status, body, accepted, stamped, last>>

\* The filter that is asked next.
Asked == result.filters[passed + 1]

FilterAccepts ==
  /\ pc = "filter"
  /\ passed < Len(result.filters)
  /\ Accepts(Asked, authorization)
  /\ authorization' = AfterRequest(Asked, authorization)
  /\ passed' = passed + 1
  /\ accepted' = accepted \cup {Asked}
  /\ UNCHANGED <<request, logVars, path, pc, off, result, status, body, stamped, last>>

\* Variant: a rejected request gets no error page.
FilterRejectsBare ==
  /\ pc = "filter"
  /\ passed < Len(result.filters)
  /\ ~Accepts(Asked, authorization)
  /\ status' = Rejection(authorization).status
  /\ body' = Rejection(authorization).body
  /\ pc' = "next"
  /\ UNCHANGED <<request, logVars, path, authorization, off, result, passed, accepted, stamped, last>>

\* A rejected request gets its error page but no response filter.
FilterRejects ==
  /\ pc = "filter"
  /\ passed < Len(result.filters)
  /\ ~Accepts(Asked, authorization)
  /\ status' = Rejection(authorization).status
  /\ ErrorPagesHandle(status', Rejection(authorization).body)
  /\ pc' = "next"
  /\ UNCHANGED <<request, logVars, path, authorization, off, result, passed, accepted, stamped, last>>

FiltersDone ==
  /\ pc = "filter"
  /\ passed = Len(result.filters)
  /\ pc' = "answer"
  /\ UNCHANGED <<request, logVars, path, authorization, off, result, passed, status, body, accepted, stamped, last>>

\* Variant: the first filter's Response ends the loop.
ResponseFiltersFirst(before) ==
  stamped' = before \cup {f \in Range(result.filters) : Stamps(f) /\ f = result.filters[1]}

\* Response of every filter: none of them stops the others.
ResponseFilters(before) ==
  stamped' = before \cup {f \in Range(result.filters) : Stamps(f)}

\* ctx.RedirectBytes turns a status that is no redirect into 302.
Redirect ==
  /\ pc = "answer"
  /\ result.redirectUri # NoUri
  /\ status' = IF IsHttpStatusRedirect(result.status) THEN result.status ELSE 302
  /\ last' = Answering
  /\ pc' = "next"
  /\ UNCHANGED <<request, logVars, path, authorization, off, result, passed, body, accepted, stamped>>

\* ctx.Response.Reset(), then the status of the route.
AnswerStatus ==
  /\ pc = "answer"
  /\ result.redirectUri = NoUri
  /\ result.status > 0
  /\ status' = result.status
  /\ ErrorPagesHandle(status', "none")
  /\ ResponseFilters({})
  /\ last' = IF result.status = NotFound THEN last ELSE Answering
  /\ pc' = "next"
  /\ UNCHANGED <<request, logVars, path, authorization, off, result, passed, accepted>>

CallHandler ==
  /\ pc = "answer"
  /\ result.redirectUri = NoUri
  /\ result.status = 0
  /\ result.handler # NoHandler
  /\ IF result.handler \in DOMAIN ContentOf
     THEN \E response \in ContentResponses(ContentOf[result.handler], path) :
            /\ status' = IF response.status = 0 THEN status ELSE response.status
            /\ ErrorPagesHandle(status', IF response.hasBody THEN "handler" ELSE body)
     ELSE /\ status' \in HandlerStatus
          /\ \E bd \in {"none", "handler"} : ErrorPagesHandle(status', bd)
  /\ ResponseFilters(stamped)
  /\ last' = Answering
  /\ pc' = "next"
  /\ UNCHANGED <<request, logVars, path, authorization, off, result, passed, accepted>>

\* Variant: the index is not advanced past the route that answered.
FallThroughInPlace ==
  /\ pc = "next"
  /\ result.status # NotFound
  /\ status = NotFound
  /\ IsNextIfNotFound(routes, result.routeIndex)
  /\ off' = result.routeIndex
  /\ status' = 200
  /\ body' = "none"
  /\ stamped' = {}
  /\ pc' = "route"
  /\ UNCHANGED <<request, logVars, path, authorization, result, passed, accepted, last>>

\* Variant: the search starts after the next route.
FallThroughSkips ==
  /\ pc = "next"
  /\ result.status # NotFound
  /\ status = NotFound
  /\ IsNextIfNotFound(routes, result.routeIndex)
  /\ off' = result.routeIndex + 2
  /\ status' = 200
  /\ body' = "none"
  /\ stamped' = {}
  /\ pc' = "route"
  /\ UNCHANGED <<request, logVars, path, authorization, result, passed, accepted, last>>

\* The handler found nothing and the route allows the next one to try.  The
\* index is the one the Result carries, counted from the off of this pass.
FallThrough ==
  /\ pc = "next"
  /\ result.status # NotFound
  /\ status = NotFound
  /\ IsNextIfNotFound(routes, result.routeIndex)
  /\ off' = result.routeIndex + 1
  /\ status' = 200
  /\ body' = "none"
  /\ stamped' = {}
  /\ pc' = "route"
  /\ UNCHANGED <<request, logVars, path, authorization, result, passed, accepted, last>>

\* accessLog.Log ends Handle.
Finish ==
  /\ pc = "next"
  /\ \/ result.status = NotFound
     \/ status # NotFound
     \/ ~IsNextIfNotFound(routes, result.routeIndex)
  /\ off' = result.routeIndex
  /\ line' = Line(format, original, path, status)
  /\ pc' = "done"
  /\ UNCHANGED <<request, format, original, path, authorization, result, passed, status, body, accepted, stamped, last>>

HandleRouteResult ==
  FilterAccepts \/ FilterRejects \/ FiltersDone \/ Redirect \/ AnswerStatus \/ CallHandler

Next ==
  HandleError \/ Collect \/ RouteRequest \/ HandleRouteResult \/ FallThrough \/ Finish

Spec == Init /\ [][Next]_vars

------------------------------------------------------------------------------
(* The types of Handle's state (server.go 122-131, 198-249). *)
TypeOK ==
  /\ routes \in Tables
  /\ method \in Method
  /\ arrived \in Path
  /\ path \in Path
  /\ authorization \in Authorization
  /\ pc \in {"start", "route", "filter", "answer", "next", "done"}
  /\ off \in 0 .. Len(routes)
  /\ result \in Result
  /\ passed \in 0 .. Len(result.filters)
  /\ status \in 100 .. 599
  /\ body \in {"none", "filter", "handler", "page"}
  /\ format \in Formats
  /\ original \in Path \cup {"-"}
  /\ line = NoLine \/ Len(line) = Len(Fields(format))
  /\ accepted \subseteq Filter
  /\ stamped \subseteq Filter
  /\ last \in -1 .. Len(routes) - 1

(* Routes.Route, called from any route on, ends at the first route with a   *)
(* status, a handler or a redirect that matches the path as rewritten so    *)
(* far, with 404 when there is none; its filters are those of every route   *)
(* that matched on the way, each once and in table order; and the request   *)
(* is rewritten to the last path the search was shown, also when it falls   *)
(* off the end of the table (route.go 166-200, util/strings.go 22-37).      *)
SearchAsRead ==
  pc = "start" =>
    \A o \in 0 .. Len(routes) :
      LET found == Find(routes, method, path, o)
      IN  /\ EndedBy(routes, method, path, o, found)
          /\ FilteredBy(routes, method, path, o, found)
          /\ RewrittenBy(routes, method, path, o, found)

\* result.RouteIndex counts from off: after a 404 of route f and then of
\* route f + g, the code looks at nextIfNotFound of route g (counting from 1).
\* In these tables no handler can be called there, so a request falls through
\* once; pkg/config/testdata/full.yaml is one of them.
FallsThroughOnce(t) ==
  \A f, g \in 1 .. Len(t) :
    t[f].nextIfNotFound /\ t[g].nextIfNotFound /\ f + g <= Len(t) =>
      t[f + g].handler = NoHandler \/ t[f + g].status > 0

(* No handler runs, and no status or redirect is sent, before the filters   *)
(* of every earlier route that the request matches have accepted it, in     *)
(* either pass of the loop (server.go 224-229, route.go 173-179): falling   *)
(* through to a later route never skips an authentication filter.  Where a  *)
(* request falls through more than once (RoutesInOrder), a route that       *)
(* rewrites it again may keep it from a filter it matched.                  *)
FilterGate ==
  FallsThroughOnce(routes) /\ pc = "answer" /\ result.status # NotFound =>
    \A i \in 0 .. Answering :
      Match(routes[i + 1], method, Shown(routes, method, arrived, 0)[i]) =>
        Range(routes[i + 1].filters) \subseteq accepted

(* "Routes are processed in sequence and interrupted when `status` or       *)
(* `handler` is specified" (docs/configuration.md 468): each route that     *)
(* answers comes after the one that answered before it.                     *)
RoutesInOrder ==
  pc = "answer" /\ result.status # NotFound => Answering > last

\* What is promised is kept: the route that is found takes its turn when it
\* answers, a redirect included, and a 404 that no handler gave declines.
Phase ==
  CASE pc = "done" -> "given"
    [] pc = "next" -> IF /\ last = Answering
                         /\ result.status = NotFound => result.redirectUri # NoUri
                      THEN "answered" ELSE "declined"
    [] OTHER -> "open"

Decided == pc \in {"next", "done"}

H == INSTANCE HostService WITH
  ordered <- FallsThroughOnce(routes),
  phase <- Phase,
  turn <- last,
  status <- IF Decided THEN status ELSE 0,
  hasBody <- Decided /\ body # "none"

(* A host keeps what HostService promises a request: routes answer in the   *)
(* order of the table, each after a 404 of the one before and at most once, *)
(* for every table from which a request falls through once; a rejection is  *)
(* final; and nothing changes the answer once it is decided (server.go      *)
(* 197-249, route.go 180).                                                  *)
ServesAsPromised == H!Spec

(* The line of the access log tells what happened to the request, in every  *)
(* format: %r is the URI the client sent, whatever rewrote it since; the    *)
(* URI of %U and of json and ltsv is the one the last pass left; and the    *)
(* status is the one the request is given after that pass.  A request whose *)
(* URI was collected has a line, rejected or not (server.go 199-218,        *)
(* accesslog.go 142-147, ncsa.go 86-88, 297-309, json.go, ltsv.go).         *)
LogsWhatHappened ==
  pc = "done" =>
    /\ original # "-" => line # NoLine
    /\ line # NoLine =>
         /\ DOMAIN line = DOMAIN Fields(format)
         /\ \A k \in DOMAIN line :
              /\ Fields(format)[k] = "r" => line[k] = arrived
              /\ Fields(format)[k] \in {"U", "uri"} => line[k] = path
              /\ Fields(format)[k] = "s" => line[k] = status

(* The response that is logged carries the marks of every response filter   *)
(* of the route whose status or handler gave it, and none of a route that   *)
(* was passed over.  A redirect leaves before the response filters run, and *)
(* so does the rejection by a filter, which may come after filters that     *)
(* mark: these carry no mark at all (server.go 211, 224-248).               *)
StampedByFinal ==
  pc = "done" =>
    stamped = IF passed = Len(result.filters) /\ result.redirectUri = NoUri
              THEN {f \in Range(result.filters) : Stamps(f)}
              ELSE {}

(* Every error response leaves with a body: the handler's own, a configured *)
(* page or the default one (errorpages.go 47-58, 129-148; called from every *)
(* way out of handleRouteResult that can carry an error).                   *)
ErrorHasBody ==
  pc = "done" /\ status \in ErrorStatus => body # "none"
==============================================================================
