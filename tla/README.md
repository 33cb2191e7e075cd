# fasthttpd in TLA+

TLA+ models of [fasthttpd](../src/README.md), an HTTP server on top of
`valyala/fasthttp`, with TLC configurations that check them on small instances
and TLAPS proofs that hold for every size. Every definition is translated from the Go
code under `src/`; `PROJECT.json` (`map`) names the lines each one stands for.

Run a model with `tlc -config Cache.cfg MCCache` (the configuration and the
module of every run are listed below), and check proofs with `tlapm CacheProofs.tla`
(the proofs about a module `X` are in `XProofs`).

## 1. Inventory

### How the parts fit together

```
Main -> testOrDump | run --- LoadTreeMaps (includes) -> Edit -> Validate -> FromTreeMaps
          |  per listen address: NewServerHandler -> hosts, listen, append, go Serve
          |  defer h.Close()           signal goroutines: SIGINT/SIGTERM -> Shutdown
          |                                               SIGHUP -> RotateShared
          v
fasthttp.Server -> (virtualHandler ->) hostHandler.Handle
          accessLog.Collect
          loop: CachedRouteCtx -> Result      (cache + pool of Results)
                filters' Request -> redirect | status | handler -> error pages -> filters' Response
                404 and nextIfNotFound: reset, off++, again
          accessLog.Log -> bufio.Writer -> shared rotator -> file
```

| part | state | operations | what makes it hard | what makes it correct |
|---|---|---|---|---|
| cache (`util/cache.go`) | the map, `next`, the callback; eviction and callback goroutines in flight | Get, Set, Del, Len, OnRelease, scheduled passes | passes and callbacks outlive the critical section; the wall clock | the cap; spacing of passes; one owner of each value; only idle entries go, and all of them |
| routes (`route/route.go`) | the table | Match, Route, IsNextIfNotFound | rewriting changes what later routes see; indices relative to the offset | first terminal route; filters of all routes passed; the last rewrite |
| routes cache, result pool (`route/route.go`, `result.go`) | the cache, `resultPool`, pooled objects | CachedRoute, Acquire, CopyTo, Release | a cached Result is copied without a lock while it may be evicted and pooled | nobody works with another's Result; the right one for method, path and offset |
| host handler (`handler/server.go`) | the request, `off` | Handle, HandleError, handleRouteResult | several passes over one table | no handler unfiltered; nothing of an abandoned answer survives; routes in order; an end; a log line that tells what happened |
| virtual handler | the hosts of a listener | handler, Close | partial failure while hosts are built; names with ports | the host that is named answers; every host of a listener that came up is closed |
| filters (`filter`) | configuration | Request, Response | a request header deleted for a later pass | an authentication that is never skipped |
| content, fs, expvar, pprof handlers | configuration | Handle | percentage at its boundary | the first condition that holds |
| error pages (`handler/errorpages.go`) | `errorPaths`, a memo written by requests without a lock | Handle | a data race on slices; what is memoised after one failure | a body for every error, never another status's page, the page when it is there |
| proxy balancer (`handler/proxy.go`) | `alive` flags, the counter | pick (round-robin, random, ip-hash), ServeHTTP, health check | flags change during a pick; picks share a counter | no live backend skipped; rotation; a client sticks to its backend; flags converge |
| access logs (`logger/accesslog`), rotators (`logger/rotator.go`), error logs (`logger/logger.go`) | a buffer per log with its first error, use counts per file | Log, flush loop, Close, SharedRotator, RotateShared | files shared by hosts and by kinds of log; rotation and flushes in between; buffers that cut lines; writes that fail; Close against Log | no line lost, in order; a file closed by its last user; lines do not stay buffered |
| log formats (`ncsa.go`, `json.go`, `ltsv.go`) | `collectRequestURI` | Collect, one function per directive | the request has been rewritten when the line is made | what was asked and what was answered |
| process (`cmd/fasthttpd.go`) | flags, `servers`, `shutdownTimeouts`, channels | Main, run, Shutdown, handleHUP, stopHUP | signals at any time, also during startup | hosts closed after their servers; a signal ends the process; SIGHUPs are not lost |
| configuration (`config`) | the slice of files being loaded; documents, which edits change in place | LoadTreeMaps, Edit, ValidateTreeMaps, FromTreeMaps, Normalize | recursion whose calls share an array; schema, decoder and Normalize each check a part | cycles found, nothing else taken for one; documents in order; refused exactly when something in force is at fault |
| dump (`cmd/dump.go`) | a snapshot | testOrDump | edits are in place | as written next to as served |
| listeners (`net`) | certificates and managers of an address | MultiTLSConfig, GetCertificate, Accept | documents with and without certificates on one address | a certificate for the name whenever there is one |

The hazards, each at its line with the properties that cover it, are in
`PROJECT.json` (`hazards`).

### Not modelled, and why

* Text: escaping and dates of log lines, `strftime`, byte helpers, the two output
  formats of the dump, messages. They keep no state and nothing else depends on them.
* `GetNetwork`, keep-alive settings, the protocols a listener offers: set-up calls.
* The schemas of single handlers and filters, and the fields of `Config` beyond one
  of each kind that schema and decoder tell apart.
* `fs`, `expvar`, `pprof`: adapters of library handlers; in `HostHandler` they
  answer with any of a set of statuses.
* `Rotate` and `Write` of a single access log: the program never calls them.
* Outside `src/` and modelled as external, from the way the code uses it:
  `fasthttp.Server.Serve` and `ShutdownWithContext`, `fasthttp.FS`, `bufio.Writer`,
  lumberjack, `time.ParseDuration`, autocert, backends, the file system, the garbage
  collector.

## 2. Modules

| module | models | correspondence |
|---|---|---|
| `Cache` | `util/cache.go` | One action per method under `c.mutex` (`GetHit`, `GetMiss`, `SetStored`, `SetDropped`, `Del`, `OnRelease`); `Evict(t)` is the goroutine launched at `t`, `RunRelease(v)` a callback goroutine; `ClockStep` the wall clock. |
| `CacheProofs`, `RoutesCacheProofs`, `HostHandlerProofs`, `HostsProofs`, `BalancerProofs`, `ErrorPagesProofs`, `FastHttpdProofs`, `ConfigProofs` | theorems about the module they are named after, and about the operators and modules it is built from (`ConfigProofs`: also `ConfigLoad` and `Listeners`) | section 5 |
| `RoutesCache` | `CachedRoute`, `Result` | `C == INSTANCE Cache` on the same variables. A request goes idle, (search, set,) acquire, copy, use; `Evict` and `OnResultReleased` interleave. A Result's fields are the lookup they were routed for. |
| `Routes` | `route.go`, `StringSet.Append`, `http.go` | Operators only: `Visit` is one turn of the loop of `Routes.Route`, `Walk` the loop, `Find` its result. A pattern is the set of paths it matches. |
| `RouteSearch` | the abstract reading of a table | `Shown`, `Met`, `Ending`, and what a Result owes to them: `EndedBy`, `FilteredBy`, `RewrittenBy`. It is a definition for `Find` to be compared with, not a translation. |
| `Filters`, `Content` | `pkg/filter`, `handler/content.go` | Operators: the verdict and the effect of a filter, the responses a content handler may give. |
| `LogFormat` | `ncsa.go`, `json.go`, `ltsv.go` | Operators: the fields of a line by what they are taken from, and whether `Collect` keeps the URI. |
| `HostService` | what a host promises | The abstract specification: routes take turns, pass on, decline, and one answer is given. |
| `HostHandler` | `hostHandler.Handle`, `HandleError` | One request; `pc` says where in the loop it is. `RouteRequest` calls `Find`, `FilterAccepts`/`FilterRejects` ask `Filters`, `CallHandler` asks `Content`, `FallThrough` goes round, `Finish` logs. `H == INSTANCE HostService WITH ...` is the refinement mapping. |
| `AccessLog` | `accesslog.go`, `rotator.go` | An action library: the steps of `Log`, of the flush loop, of `Close` between its critical sections, `Share`, `RotateShared`. A line is a sequence of cells, so that a buffer can cut it. `BufferLine` is `bufio.Writer.Write` up to its next write to the file: the line is copied, or cut where the buffer is full, or written past an empty buffer; `rest` is what is still to write then (`LogRest`). `WriteBuffer` is a write meeting an error after any number of cells, with everything refused from then on. |
| `Hosts` | construction and end of hosts in `server.go`, `logger.go` and `run` | Extends `AccessLog`: `NewLogger`, `OpenAccessLog`, `HostReady` per host, `StartServer` per listener, `StartupFails`, `RunReturns`, `CloseHosts`, `Exit`. The hosts to close are a sequence, in the order of the deferred calls. |
| `Balancer` | `proxy.go` | `RoundRobin`, `Random` and `IPHash` take the start, `LoadAlive` is one turn of `pick`'s loop, `ServeHTTP` the 503 (`Unavailable`) or the reverse proxy (`Forward`), which waits as long as its backend is silent; `Tick`, `HeadBackend`, `Swap` the health check. |
| `ErrorPages` | `errorpages.go` | The racy memo: a slice is two words (pointer and length), loaded and stored one at a time. |
| `FastHttpd` | `cmd/fasthttpd.go` | `run` step by step, one `Serve` goroutine per listener, `Shutdown` with a goroutine per server, the SIGHUP goroutine. `MakeErrs` and `RangeServers` are the two reads of `d.servers` in `Shutdown`, next to which `run` may append. |
| `ConfigLoad` | `config/load.go` | The recursion as a stack of calls, and the slice handed down it over a heap of arrays. |
| `Listeners` | `virtualHandler.handler`, `net/tls.go` | Operators on the documents of one address: which answers a Host header, which certificate a name is shown. |
| `Config` | `Main`, `testOrDump`, the start of `run`, and `Edit`, `ValidateTreeMaps`, `FromTreeMaps` | Extends `ConfigLoad` and `Listeners`. `Main` reads the flags, `LoadTreeMaps` runs the loader, `EditOne` applies one expression to documents in place, `Decide` is schema, decoder, defaults and `Normalize` (a null value passes the first two and leaves the default), then `Report`, or `Start` and one `Listen` per address. |

`MCx` gives `x` its instance. An operator whose comment begins with "Variant"
is a faulty form of the definition after it; `PROJECT.json` (`mutants`) says
which property it has to break.

Composition: `RoutesCache` instantiates `Cache`; `HostHandler` extends
`RouteSearch` (and so `Routes`), `Filters`, `Content` and `LogFormat`; `Hosts` extends
`AccessLog`; `Config` extends `ConfigLoad` and `Listeners`, and ends where `Hosts` and
`FastHttpd` begin, with documents grouped by address; `FastHttpd` leaves to `Hosts` what a host does, and `Hosts` leaves to
`FastHttpd` when `Serve` returns. `HostHandler` calls `Find` directly: that the
cache in front of it hands out the same Result is `RoutesCache!RightResult`.

Refinement: `ServesAsPromised` says that `HostHandler` implements `HostService`. The
mapping hides the search: a request is open until it is about to be passed on or
given, `turn` is the route that answered last, and an answer is one of the route
in hand or, for a 404 that no route gave, declined. The order of turns is promised
only for tables from which a request falls through once, since the code does not
keep it for others (divergence 1). `CacheSpec` says that `RoutesCache`, seen through the cache's
variables, implements the specification of `Cache`, in particular its assumption
that callers only set objects they own; it is checked as a property. `SearchAsRead`
compares `Find` with `RouteSearch`, and `ConfigLoad!Expanded` compares the loader with a recursive definition of the
expansion.

## 3. Runs

| run | instance | shows |
|---|---|---|
| `Cache` | 3 keys, 3 values, cap 2, expire 1, interval 2, clock 0..5 | `CapRespected`, `PassesSpaced`, `SingleOwner`; `OnlyIdleEvicted` (a late pass removes nothing that is in use); `IdleIsEvicted` (liveness) |
| `RoutesCache` | 2 requests, 2 offsets for one method and path, 5 Results, cap 1, clock 0..3 | `NoUseAfterRelease`, `RightResult`, `PoolExclusive`, and the refinement `CacheSpec` |
| `HostHandler` | every table of up to 4 routes of 4 kinds, and of up to 3 routes of 11 kinds; 2 methods, 2 paths, 3 filters, 4 states of Authorization; formats with and without `%r` | the search against `RouteSearch` (`SearchAsRead`), `FilterGate`, `StampedByFinal` (exactly the marks of the answering route's filters), `ErrorHasBody`, `LogsWhatHappened`; the refinement `ServesAsPromised`, and with it that `Handle` ends, for tables that fall through once |
| `HostHandlerOrder` | the same | **violated**: `RoutesInOrder` (divergence 1) |
| `Hosts` | a listener of two hosts and one of one host, two files, one of them shared by two access logs, the other by an access log and an error log; 3 requests with lines of 1, 2 and 4 cells, buffers of 2, 1 failing write, 1 SIGHUP | `NothingLost`, `CountsUsers`, `ClosedIsComplete`, `LogIsReady`, `EventuallyFlushed` |
| `Balancer` | 3 backends that answer or refuse at first, 2 requests, counter modulo 8, 1 change of a backend (it may fall silent) or lost HEAD, the three algorithms | `SkipsOnlyDown`, `Rotates`, `Sticky`; `Converges`, `PickEnds` (liveness) |
| `ErrorPages` | statuses 403, 404, 500, two pages, 2 requests, 1 change of a file | `HasBody`, `NoForeignPage`, `PagesServed` |
| `ErrorPagesConditional` | the same, no change of a file | **violated**: `PagesReturn` (divergence 4) |
| `Lifecycle` | 2 servers, one without a deadline, 1 request in flight each, 2 SIGHUPs, startup and Serve may fail | `ClosedAfterServe`, `NoPanic`, `TermExits`, `HupRotates` |
| `LifecycleDrain` | the same, nothing fails | **violated**: `WaitsForRequests` (divergence 2) |
| `LifecycleEarly` | the same, nothing fails | **violated**: `TermAlwaysExits` (divergence 3) |
| `ConfigLoad` | 5 files, one of them under two names, in 3380 ways to include each other; then none to three documents out of 7 and 14 kinds, with null values and a size beyond an int64, up to 2 of 9 expressions, and the flags | `ChainExact`, `Expanded`; `AsConfigured`, `DumpAsWritten`, `RightHost`, `RightCertificate`; `Terminates` |

Type invariants: the run of `Cache` checks `TypeOK`. Those of the other modules
are proved (section 5), most of them as the first conjunct of an inductive invariant;
no run spends time on them.

### Why the bounds are enough

* `Cache`: three keys against a cap of two give a full map, a dropped key and an
  overwritten one at once; the clock reaches two scheduled passes and entries
  older and younger than them. The theorems cover every size.
* `RoutesCache`: with two requests each race has its two sides (lookup against
  eviction, two misses of one key, release against acquire), and five Results
  are one more than the requests, the cache and a callback can hold.
* `HostHandler`: an authentication, a rewrite, a fall-through and a handler in
  any order need four routes; kinds that only matter next to one or two others
  appear in tables of three.
* `Hosts`: the smallest instance in which one file has two users of one
  listener's kind and one of another's, and a listener accepts while the
  next one is being built. A line of four cells passes a buffer
  of two by, in one write when the buffer is empty and in two when a line of one cell is in
  it. Lines of which the buffer takes the rest need a third line of one host, which
  takes too long; the theorem covers them (`LostTheorem`).
* `Balancer`: three backends are the fewest for which passing over a live one
  differs from wrapping round; one change makes
  a HEAD's answer old, and backends that are down at first lose their flags, all of
  them if all are. `AnsweringAtFirst` names the bound that none is silent at first.
  The counter's width only matters at its wrap, which the instance stays below.
* `ErrorPages`: a status with its own page, one with the page of its class and
  one with none; two requests are enough for each torn combination of words.
* `FastHttpd`: two servers make "some but not all" possible at every step; two
  SIGHUPs let one arrive during the rotation for the other.
* `ConfigLoad`: append reallocates at lengths 0, 1 and 2 and has room at 3, so
  the includes of the third file of a chain share an array. `MaxDepth` is above
  the number of files: it only matters if the check for cycles fails (`DepthTheorem`). For the rest
  of `Config`, two documents that differ and a third that repeats one are enough for a
  pair of hosts on one address and another on its own; two expressions for one to
  override the other; an int64 is below 64 and K and M multiply by 4 and 16, so that
  of the sizes, durations and integers in the instance some fit and some do not.

### Fairness

* `Cache`, `Hosts`, `FastHttpd`, `Balancer`: a goroutine that was launched runs
  (weak fairness of its steps). Tickers tick. A HEAD of the health check ends,
  since its client has a timeout. Nothing is assumed of requests that come or
  end, of signals, deadlines, rotations, or of backends: of a request to the balancer only
  the pick, and the 503 when it found none, is fair.
* `Config`: one goroutine runs `Main`; it goes on.
* `HostHandler`, `ErrorPages` and `RoutesCache` have safety properties only.

### Assumptions of single properties

* `OnlyIdleEvicted` needs a clock that is not set back; the run's clock is not,
  and the theorem has it as a hypothesis.
* `RoutesCache`: a request is not suspended between the cache's lock and the end
  of its copy for longer than `MaxPause`, here the expiry. Without that bound the
  eviction may reset and pool the Result it is about to copy; nothing in the
  code rules it out, but the default expiry is five minutes.
* `NoPanic`, `TermExits`: the signal comes when every server is up (`~early`).
* `LogIsReady`, `ClosedIsComplete`, `EventuallyFlushed`: no request is left in
  `Log` when the access log is closed (`drained`). Otherwise a request may leave
  a line in a buffer nobody flushes, or call an `appendLine` that Close has set
  to nil; both are behaviours of the model.
* `FilterGate`: for tables from which a request falls through once (`FallsThroughOnce`).
  In others the search may go back over a rewrite it has done, now on another
  path, so that a route answers although an earlier one, whose filters
  were never asked, matches what that rewrite shows (divergence 1).
* `ServesAsPromised`: the order of routes, for tables from which a request falls
  through once (`FallsThroughOnce`), like every table in the documentation.
* `NothingLost`: every line until a write of the host's log fails; after that, what
  was written before it. `EventuallyFlushed`: unless a write failed.
* `ClosedAfterServe`: every server was started. A startup that fails closes the hosts whose
  servers accept already.
* `PickEnds`: nothing. A request that is forwarded to a backend which accepts and never
  answers waits for ever (`proxy.go` 62, 106), and no property says otherwise.
* `Sticky`: the backend of each pick was alive during the other one.
* `AsConfigured`: a size that no int64 holds is kept as it is less a multiple of 2^64 (a
  duration beyond it is refused).
* `Config`: an expression that names a document names one that is there. What
  `tree.Edit` does with others is not in `src/`.

## 4. Divergences between the code and its documentation

1. `Routes.Route` reports an index relative to the offset of the search, and
   `Handle` takes it for an absolute one (`route.go` 180, `server.go` 204-212).
   From the second fall-through on, the search goes back to an earlier route or
   goes round without end; "Routes are processed in sequence"
   (`docs/configuration.md` 468). Run `HostHandlerOrder`. A rewrite that is met
   again rewrites the rewritten path, which is why `FilterGate` is stated for the
   other tables only.
2. `run` returns when every `Serve` has returned, which is when `Shutdown` closes
   the listeners, not when connections are drained (`fasthttpd.go` 213-222);
   `shutdownTimeout` "bounds how long the server waits for in-flight requests"
   (531). Run `LifecycleDrain`.
3. A SIGTERM during startup shuts down the servers that exist then; those started
   later stay, and further signals are consumed (`fasthttpd.go` 177-182,
   261-264). Run `LifecycleEarly`.
4. An error response to a request with `If-Modified-Since` makes the file server
   answer 304 for the error page, which memoises that there is no such page, for
   every later request (`errorpages.go` 95-112). Run `ErrorPagesConditional`.

Seen while modelling. The models show them or leave them out as text; none has a run,
since no document speaks of them or a run could only restate one line:

* Requests: the reverse proxy of a balancer has no response timeout (`proxy.go` 62, 106); a
  percentage of `p` holds for `p + 1` of 100 draws (`content.go` 182).
  Error pages named like `4x4` are never looked up (`errorpages.go` 60-82). Requests
  that `HandleError` answers are not logged (`server.go` 252-261). A Host header that is
  an IPv6 literal is cut at its first colon, names no host, and goes to the first
  document (`server.go` 75). The round-robin counter wraps unevenly at 2^64.
* Logs: `json` and `ltsv` log the rewritten URI, `%r` the one asked (`json.go` 162).
  One failed write ends a host's log until the process is restarted, since
  `bufio.Writer` keeps its error (`accesslog.go` 177). `RotateShared` does not flush, so a
  line that a buffer has cut is in two files. Error logs are never closed, and the
  logs of hosts that fail to start stay open (`server.go` 133-185, 263-275).
  The minutes of a zone are always `00` in `%t` and `%z` (`strftime.go` 217), and the week
  that contains New Year has a different `%U` and `%W` on its two sides (`strftime.go` 173-201).
* Configuration: an `include` that matches nothing is ignored (`load.go` 66-70); if nothing
  else is there, `-t` succeeds and the server exits at once without an error. Numbers
  with a fraction pass the schema for sizes and durations (`schema.go` 198) and are refused
  by the decoder, although `FromTreeMap` says that what the schema passes has a
  compatible type. A size with a suffix is shifted without a check (`config.go` 101-108): one that no
  int64 holds, `9007199254740992K`, is accepted and becomes 0, negative or another size, which
  `AsConfigured` pins down. Handlers of an
  unregistered type pass `-t`. `cacheDuration: 10s` of an `fs` handler passes the schema
  (`fs.go` 52) while `tree.UnmarshalViaJSON` decodes into a `time.Duration`. YAML dumps
  are one list, where a comment says one document each (`dump.go` 180-190).
* TLS: a document with `certFile` and no `keyFile` is served in the clear (`tls.go` 38). A
  static certificate that covers a name goes before autocert's, also in the
  authority's own validation handshakes (`tls.go` 87-96). A keep-alive option that fails on one
  connection is returned from `Accept` and ends `Serve` (`tcp.go` 36).

## 5. Proofs

Each `XProofs` proves its theorems for every value of the constants of `X` that
meets the assumptions `X` names; TLC evaluates the same assumptions in every run.
Every inductive invariant was checked by TLC first, on the instance of its module's run;
where one speaks of any function that solves an equation (`ExpandInv`), that function
was computed from the files, and the instance is the first of the two families of
`MCConfigLoad`, where files include each other.

| theorem | says |
|---|---|
| `Cache`: `CacheTypeCorrect`, `CapTheorem`, `SpacingTheorem`, `OwnershipTheorem` | `[]TypeOK`, `[]CapRespected`, `[]PassesSpaced` whatever the clock does, `[]SingleOwner` |
| `Cache`: `IdleTheorem` | `OnlyIdleEvicted`, if `ClockDelta \subseteq Nat` |
| `RoutesCache`: `RoutesTypeCorrect`, `PoolTheorem` | `[]TypeOK`, `[]PoolExclusive`, whatever the clock does and however long a request is suspended |
| `RoutesCache`: `CacheTheorem` | the refinement `CacheSpec`: its steps are steps of `Cache` or stutter |
| `RoutesCache`: `ReleaseTheorem`, `RightTheorem` | `[]NoUseAfterRelease`, `[]RightResult`, if `ClockDelta \subseteq Nat` and `MaxPause <= Expire` |
| `HostHandler`: `SearchTheorem` | `[]SearchAsRead`: `Find` is what `RouteSearch` reads from the table |
| `HostHandler`: `HandlerTypeCorrect`, `StampedTheorem`, `ErrorBodyTheorem`, `LogTheorem` | `[]TypeOK`, `[]StampedByFinal`, `[]ErrorHasBody`, `[]LogsWhatHappened` for every format |
| `HostHandler`: `GateTheorem`, `ServesTheorem` | `[]FilterGate`; the refinement `ServesAsPromised` |
| `Hosts`: `HostsTypeCorrect`, `CountTheorem`, `ReadyTheorem`, `CompleteTheorem` | `[]TypeOK`, `[]CountsUsers`, `[]LogIsReady`, `[]ClosedIsComplete` |
| `AccessLog` in `Hosts`: `LostTheorem` | `[]NothingLost`, for lines and buffers of any length, whichever is longer |
| `Balancer`: `BalancerTypeCorrect`, `StickyTheorem` | `[]TypeOK`, `[]Sticky` |
| `Balancer`: `SkipsTheorem`, `SkipsUnlessRoundRobin`, `RotatesTheorem` | `SkipsOnlyDown` while no start is so near the end of the counter that it wraps (`Unwrapped`), and always for random and ip-hash; `Rotates` while the counter lasts (`Rolls`) |
| `ErrorPages`: `ForeignTheorem`, `BodyTheorem`, `ServedTheorem` | `[]NoForeignPage`, `[]HasBody`, `[]PagesServed` |
| `ConfigLoad`: `LoadTypeCorrect`, `ChainTheorem`, `ExpandedTheorem` | `[]LoadTypeOK`, `[]ChainExact`, `[]Expanded` |
| `ConfigLoad`: `DepthTheorem` | there are never more calls in progress than files |
| `Config`: `ConfigTypeCorrect`, `ConfiguredTheorem`, `DumpTheorem` | `[]TypeOK`, `[]AsConfigured`, `[]DumpAsWritten` |
| `Config` with `Listeners`: `HostTheorem`, `CertificateTheorem` | `[]RightHost`, `[]RightCertificate` |
| `FastHttpd`: `LifecycleTypeCorrect`, `ClosedTheorem`, `PanicTheorem` | `[]TypeOK`, `[]ClosedAfterServe`, `[]NoPanic` |

### The arguments

**Cache.** `IInv == TypeOK /\ CapRespected /\ PassesSpaced /\ SingleOwner`. That a value
gets at most one callback (`SingleOwner`) rests on the stored values being distinct
and on no callback being pending for a stored one; the count of `CapRespected` needs the
finiteness in `TypeOK`; `PassesSpaced` is inductive only with its second conjunct, that
every pass keeps its distance to `next`. `IdleTheorem` adds `PassesPast`: with a
clock that is not set back no pass was launched in the future, so `t - peek > Expire` at
the launch time `t` implies it at the present.

**RoutesCache.** `OwnInv` adds to the cache's invariant what a request owns at each
`pc` (the Result it has taken from the pool or the allocator is neither pooled, nor
stored, nor another's). It is what discharges the assumption of `Cache` on its
callers, so the lemmas of `CacheProofs` are used through an instance (`CP`), and
`CacheTheorem` comes with it. `UseInv` adds what keeps the Result a
request is about to copy (`KeepsSource`): it has no other holder and no callback pending,
its entry, if it is still there, has a `peek` no older than the lookup, and the
lookup is at most `MaxPause` ago. A pass can then not find it idle: this is where the two hypotheses
of `ReleaseTheorem` come in, and without them the property is false (section 3). `RightInv` adds that what is stored under a key was routed for
a lookup with that key.

**HostHandler.** `SearchAsRead` is about a recursive function. `Walk` is defined over
indices; the least place at which a statement about it could fail exists, since the
indices are well-founded, and nothing fails there (lemmas `Least`, `Induction`): the
induction is stated for the set of places where the statement holds, so that no
operator is a parameter. `Recursion` then gives `Walk`'s equation, and one
lemma per part of `RouteSearch` (where the search ends, whose filters, which rewrite) goes along
the walk. For the request, `IInv` says what is true of body, marks and log between
the steps (nothing of an abandoned answer survives: `FreshInv`). `StampInv` says that all filters of the
route in hand have accepted when it answers, and that the marks are then those of its filters. `HInv` adds what a
turn has established: the filters asked so far have accepted (`TurnInv`), and, in a table
from which a request falls through once, the pass at `off` continues the reading from 0:
all filters of matching routes before `off` were asked (`PassInv`). `ServesTheorem` shows, per
action, the step of `HostService` it is.

**Hosts.** `IInv` is `TypeOK`, `BuildInv` (which logs of which hosts are there at each stage of
construction: none of the hosts to come, all of those served), `CloseInv` (hosts
yet to close are distinct and whole), `CountInv` (`CountsUsers` in the middle of `Close` too),
`ReadyInv` (who is in `Log` is a host whose listener accepts), `BufferInv` (a line in a
buffer belongs to a host whose last flush is still to come), `OpenInv` (a file
without users is just being closed) and `HeldInv` (a line between two writes leaves its
buffer empty, and has a request that holds the mutex and writes on). `CountsUsers` counts a set of uses, and its lemmas say
what one more or one less does to the count. That a file is closed by its last
user needs that each host is closed once, which is why `HostsAssumption` says that a
host has one place: `run` makes a new host for each document, and puts each document
under one address.

`NothingLost` rests on `KeptInv`: the cells of a host that its file holds (`Own`),
followed by those in its buffer and by the rest of a line that is being written, are a beginning of the cells of the lines it was given,
and all of them as long as its writer has no error. `BufferLineTakes` says what a
`bw.Write` of any length does to them: cells go from the front of the line to the end of the buffer or,
when the buffer is empty, of the file, and from the front of the buffer to the end of the
file; which of them, and in how many writes, changes nothing. That the cells of another host, written to the same file, change
nothing is a statement about filtering a sequence of any length (`OwnConcat`, `OwnAll`,
`OwnNone`), and that a new line extends what was given is one about flattening it
(`FlattenAppend`). Both are shown for the set of places up to which they hold, as for `Walk`
above.

**Balancer.** `Turn(b, s)` is the turn at which a pick that starts at `s` reaches `b`; the lemma
behind `LoopInv` is that `(start + j) % N`, for `j` below `N`, reaches each backend at its turn.
It holds as long as `start + j` does not wrap; a counter whose range is
not a multiple of `N` (2^64 and three backends) breaks it once, at the wrap: there
a pick may look at one backend twice and not at another. `Unwrapped` and `Rolls` name
exactly this. For `Rotates`, `RotationInv` relates the counter to the number of picks and
each backend's share of them.

**ErrorPages.** The slices a race can leave in the memo have a pointer and a
length of the same status (`OwnSlices`), torn or not; `NoForeignPage` and `HasBody` follow. `PagesServed`
needs `PInv`: as long as the file server has not failed a status, its memo is not yet
looked up, or points to its page, or is being written by requests still under way, and a
request that overlaps with none of them finds it whole.

**FastHttpd.** `StartInv` says which listeners `run` has still to start, `TimeoutsInv` that
`shutdownTimeouts` is at most one shorter than `servers` and only between the two appends,
`ShutdownInv` that a panic needs a signal during startup, since one that comes later finds the
length of `servers` settled before either of the two reads; `ReturnInv` that `run` is only past its wait
when every `Serve` has returned, or startup failed.

**ConfigLoad.** Calls at one depth share arrays, and each may write behind the elements it
was handed. `ChainInv` is what survives: the slice of the call at depth `i` has length `i`, its first `i` cells are
the chain, and a call only ever writes behind the elements of the slice it was handed, which
belongs to the innermost one. `AppendPathAppends` is the lemma about append (the new slice extends the old one,
and no array loses one of its first `len` cells, whether it was reallocated or not).

`Expanded` compares a loop over a stack with a recursion over files. First, a step is
reduced to what it does to the calls in progress: `Pushes` one, takes one document
(`TakesOne`), `Pops` one into its caller, or `Finishes`; arrays are gone from there on.
Then `ExpandInv` has four parts.

* `LinkInv`: the chain starts at the root, every file on it is included by the one before
  and is there once, and what a call has still to do is part of its file. Hence a
  cycle that is reported is one (`CircularIsCyclic`), and, since `File` is finite, a
  chain is no longer than there are files (`ChainFits`, which is `DepthTheorem`).
* `ValueInv(g)`, for every `g` that gives each file its documents at each level
  (`Expands(g)`): what a call has gathered, followed by what the call above it stands
  for and by what it has still to do, is what its file stands for (`Stands`). The call
  at depth `i` has level `MaxDepth - i + 1`, so a return hands over a value of the
  level below. On a cycle the values differ from level to level, but no call returns from one.
* `SettleInv(G)`, for the `G` that has at level `k` the files whose includes are all
  readable and end within `k` steps (`Settles(G)`): whatever a call includes and has no longer
  to do is settled. When the root is, it needs no unreadable file and
  no cycle (`SettledNoCycle`): the file of least level on a cycle would need one of a lower level.
* A reported cycle is one.

That `g` and `G` exist (`ExpansionLevels`, `SettlesExists`) is shown by `Recursion`, so nothing is
assumed of the recursive definition that `Expanded` compares with.

**Config.** `PlacesInv` has the documents at places `1 .. Count` and the clones behind them, so an
edit, which goes through `ms`, reaches no clone. `EditsInv` says of each document what it
is after the expressions applied so far: the last one applied to a key is in
force, the others are gone (`Follow`). With all of them applied it is what
`Meant` says (`FinalDocument`), and `AcceptedIsAcceptable` shows that the three checks in a row (schema,
decoder, `Normalize`) refuse exactly what is not acceptable: a number with a fraction
is refused by the second only, a route to a missing handler by the third. `DecodedMeans` has the
arithmetic: two's complement is the identity below the limit, and takes off a multiple of 2^64
above it (`WrappedMeans`). Null passes all three and leaves the default on both sides. `ConfigTypeCorrect` follows: the
places of `PlacesInv` are in memory, and by `EditsInv` the expressions left are the last ones given
(`SuffixByPlaces`). A command that was refused keeps both, without the rest of `MainInv`
(`StepMapsTyped`).

**Listeners.** The documents of an address are picked by a loop (`Selected`); `SelectedIsSelection`, by the
induction used for `Walk`, says that there is an increasing map from the places of the group onto those that were
picked. Through it "first in the group" is "first of the documents of the address"
(`FirstAnswers`), and the certificates of a group are those of its static documents (`CertificatesAreOwn`).

### Assumptions on constants

`BalancerAssumption`: twice the number of backends fits the counter (an `int` against a
`uint64`). `HandlerAssumption`: tables are sequences of routes, a path is none of the
placeholders of the log. `ErrorPagesAssumption`: a page's name is none of the model's names for other
bodies. `HostsAssumption`: as above, and no address without a document, since the
addresses are the keys of a map of documents. `ConfigAssumption`: limits and units are positive, the default
of `shutdownTimeout` is a duration, and a Host header has a part before its first
colon, if an empty one. `InputAssumption`: what YAML tags as an integer is one, and a text for a size or a
duration is a number with a suffix. `LoadAssumption`: types, and
finitely many files. `CacheAssumption`, `RoutesAssumption`,
`LifecycleAssumption` and `LogAssumption`: types, and disjoint names; a line and a buffer have a cell at
least, in no relation to each other.

### Only model-checked

Every invariant and every action property that a run checks is proved, `OnlyIdleEvicted`,
`NoUseAfterRelease`, `RightResult`, `SkipsOnlyDown` and `Rotates` under the hypotheses of the table.
Only liveness (`IdleIsEvicted`, `EventuallyFlushed`, `Converges`, `PickEnds`, `TermExits`,
`HupRotates`, `Terminates`) and the absence of deadlock where a run checks it stay with TLC: the
first is beyond TLAPS, and the second is about ENABLED. Of `Terminates`, `DepthTheorem` is the half
that is safety.

## 6. Plan

Done: the cache, routes and the routes cache, one host's requests with
filters, content and their log lines, the abstract host and its refinement, hosts and
their logs with write errors, the balancer with its three algorithms, error pages, the
process, and the configuration from the command line to the listen addresses with its
hosts and certificates; the proofs of section 5.

Open:

1. The parts that are modelled partly: further fields of `Config` and the rules of single
   handlers and filters, the output of the dump, escaping and dates of log lines.
2. The hazards no property covers: the panic of a `Log` that `Close` overtakes, the share of
   requests that a percentage lets through, the connection whose failure ends its listener, the size
   that is shifted out of range, and the weeks around New Year.
3. Liveness for every size.
