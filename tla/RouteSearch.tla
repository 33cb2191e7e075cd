----------------------------- MODULE RouteSearch -----------------------------
(***************************************************************************)
(* What the documentation promises of Routes.Route: "Routes are processed  *)
(* in sequence and interrupted when `status` or `handler` is specified"    *)
(* (docs/configuration.md 468), read as a statement about a table, a       *)
(* request and an offset, without the loop.  Routes count from 0.          *)
(***************************************************************************)
EXTENDS Routes

\* The path that route i is shown if nothing from off on ends the search
\* before it: the last internal rewrite up to it.
Shown(routes, method, path, off) ==
  CHOOSE p \in [off .. Len(routes) -> Path] :
    /\ p[off] = path
    /\ \A i \in off .. Len(routes) - 1 :
         LET r == routes[i + 1]
         IN  p[i + 1] = IF Match(r, method, p[i]) /\ r.rewrite[p[i]] \in Path
                           /\ ~IsHttpStatusRedirect(r.status)
                        THEN r.rewrite[p[i]] ELSE p[i]

\* A route that redirects a request for path p.
Redirects(r, p) ==
  /\ r.rewrite[p] # NoUri
  /\ r.rewrite[p] \in AbsoluteUri \/ IsHttpStatusRedirect(r.status)

Ends(r, p) == Redirects(r, p) \/ r.status > 0 \/ r.handler # NoHandler

\* The matching routes the search meets, and the one that ends it.
Met(routes, method, path, off) ==
  LET shown == Shown(routes, method, path, off)
      Matching == {i \in off .. Len(routes) - 1 : Match(routes[i + 1], method, shown[i])}
  IN  {i \in Matching : \A j \in Matching : j < i => ~Ends(routes[j + 1], shown[j])}

Ending(routes, method, path, off) ==
  {i \in Met(routes, method, path, off) :
     Ends(routes[i + 1], Shown(routes, method, path, off)[i])}

\* The route that ends the search gives its status, handler and redirect;
\* without one the answer is 404.
EndedBy(routes, method, path, off, result) ==
  LET shown == Shown(routes, method, path, off)
      ending == Ending(routes, method, path, off)
  IN  \/ \E i \in ending :
           /\ result.routeIndex = i - off
           /\ result.status = routes[i + 1].status
           /\ result.handler = routes[i + 1].handler
           /\ (result.redirectUri # NoUri) = Redirects(routes[i + 1], shown[i])
      \/ /\ ending = {}
         /\ result.status = NotFound
         /\ result.handler = NoHandler
         /\ result.redirectUri = NoUri

\* The filters of every route met, each once and in table order.
FilteredBy(routes, method, path, off, result) ==
  LET met == Met(routes, method, path, off)
  IN  /\ Range(result.filters) = UNION {Range(routes[i + 1].filters) : i \in met}
      /\ IsInjective(result.filters)
      /\ \A m, n \in 1 .. Len(result.filters) : m < n =>
           \E i \in met :
             /\ result.filters[m] \in Range(routes[i + 1].filters)
             /\ \A j \in met : j < i => result.filters[n] \notin Range(routes[j + 1].filters)

\* The last internal rewrite met.
RewrittenBy(routes, method, path, off, result) ==
  LET shown == Shown(routes, method, path, off)
      rewriting == {i \in Met(routes, method, path, off) :
                      /\ routes[i + 1].rewrite[shown[i]] # NoUri
                      /\ ~Redirects(routes[i + 1], shown[i])}
  IN  /\ (result.rewriteUri = NoUri) = (rewriting = {})
      /\ \A i \in rewriting : (\A j \in rewriting : j <= i) =>
           result.rewriteUri = shown[i + 1]
==============================================================================
