-------------------------------- MODULE Routes --------------------------------
(***************************************************************************)
(* pkg/route/route.go: how a route table turns a method and a path into a  *)
(* Result.                                                                 *)
(*                                                                         *)
(* A route table is a sequence of route records; the code counts routes    *)
(* from 0, so route i of the code is routes[i + 1] here.  The pattern of a *)
(* route is the set of paths it matches (prefix, equal or regexp alike),   *)
(* and its rewrite a function of the path, since a regexp rewrite expands  *)
(* the groups it matched.  URIs are paths without their query string, or   *)
(* absolute http(s) URIs.                                                  *)
(***************************************************************************)
EXTENDS Integers, Sequences, SequencesExt

CONSTANTS
  Method, Path,
  AbsoluteUri,   \* rewrite targets that begin with http:// or https://
  Filter,        \* names of filters
  Handler,       \* names of handlers
  NoUri,         \* an empty rewrite or URI
  NoHandler      \* an empty handler name

NotFound == 404

Status == {0, 200, 301, 302, 303, 307, 308, 401, 403, 404, 405, 500}

Route == [methods : SUBSET Method,
          paths : SUBSET Path,
          filters : Seq(Filter),
          status : Status,
          handler : Handler \cup {NoHandler},
          rewrite : [Path -> Path \cup AbsoluteUri \cup {NoUri}],
          nextIfNotFound : BOOLEAN]

Result == [status : Status,
           handler : Handler \cup {NoHandler},
           filters : Seq(Filter),
           rewriteUri : Path \cup {NoUri},
           redirectUri : Path \cup AbsoluteUri \cup {NoUri},
           routeIndex : Nat]

EmptyResult == [status |-> 0, handler |-> NoHandler, filters |-> <<>>,
                rewriteUri |-> NoUri, redirectUri |-> NoUri, routeIndex |-> 0]

\* No methods in the configuration: every method matches.
Match(r, method, path) ==
  /\ r.methods = {} \/ method \in r.methods
  /\ path \in r.paths

IsHttpOrHttps(uri) == uri \in AbsoluteUri
IsHttpStatusRedirect(status) == status \in {301, 302, 303, 307, 308}

\* StringSet.Append: values already present are not added again.
AppendNew(ss, values) ==
  LET New(i) == /\ values[i] \notin Range(ss)
                /\ \A j \in 1 .. i - 1 : values[j] # values[i]
      Kept[i \in 0 .. Len(values)] ==
        IF i = 0 THEN ss
        ELSE IF New(i) THEN Append(Kept[i - 1], values[i]) ELSE Kept[i - 1]
  IN  Kept[Len(values)]

\* Route matched: its part of the result.
Adopt(result, r, i) ==
  [result EXCEPT !.filters = AppendNew(@, r.filters),
                 !.routeIndex = i,
                 !.status = r.status,
                 !.handler = r.handler]

\* One turn of the loop of Routes.Route over routes[off:]: route r is the
\* i-th from off.  A redirect, a status or a handler ends the search, and an
\* internal rewrite changes the path that the routes after it see.
Visit(walk, r, i, method) ==
  LET uri == r.rewrite[walk.path]
      adopted == Adopt(walk.result, r, i)
      redirects == IsHttpOrHttps(uri) \/ IsHttpStatusRedirect(r.status)
      terminal == r.status > 0 \/ r.handler # NoHandler
  IN  IF walk.found \/ ~Match(r, method, walk.path) THEN walk
      ELSE IF uri = NoUri
        THEN [walk EXCEPT !.found = terminal, !.result = adopted]
      ELSE IF redirects
        THEN [walk EXCEPT !.found = TRUE,
                          !.result = [adopted EXCEPT !.redirectUri = uri]]
      ELSE [found |-> terminal,
            path |-> uri,
            result |-> [adopted EXCEPT !.rewriteUri = uri]]

\* Variant: the routes after a rewrite still see the old path.
WalkOldPath(routes, method, path, off) ==
  LET walk[n \in 0 .. Len(routes) - off] ==
        IF n = 0
        THEN [found |-> FALSE, path |-> path, result |-> EmptyResult]
        ELSE Visit([walk[n - 1] EXCEPT !.path = path], routes[off + n], n - 1, method)
  IN  walk

\* The state of the search after the first n routes from off on.
Walk(routes, method, path, off) ==
  LET walk[n \in 0 .. Len(routes) - off] ==
        IF n = 0
        THEN [found |-> FALSE, path |-> path, result |-> EmptyResult]
        ELSE Visit(walk[n - 1], routes[off + n], n - 1, method)
  IN  walk

\* Routes.Route(method, path, off).
Find(routes, method, path, off) ==
  IF off >= Len(routes) THEN [EmptyResult EXCEPT !.status = NotFound]
  ELSE LET last == Walk(routes, method, path, off)[Len(routes) - off]
       IN  IF last.found THEN last.result
           ELSE [last.result EXCEPT !.status = NotFound]

IsNextIfNotFound(routes, i) ==
  i < Len(routes) /\ routes[i + 1].nextIfNotFound
==============================================================================
