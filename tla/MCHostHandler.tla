---------------------------- MODULE MCHostHandler ----------------------------
(***************************************************************************)
(* HostHandler over every table of up to four routes of four kinds, and of *)
(* up to three routes of eleven.                                           *)
(***************************************************************************)
EXTENDS HostHandler

CONSTANTS GET, PUT, pa, pb, ext, auth, strip, cors, static, backend, page, noUri, noHandler

Methods == {GET, PUT}
Paths == {pa, pb}

NoRewrite == [p \in Paths |-> noUri]

Plain == [methods |-> {}, paths |-> Paths, filters |-> <<>>, status |-> 0,
          handler |-> noHandler, rewrite |-> NoRewrite, nextIfNotFound |-> FALSE]

\* cors marks the response, strip takes Authorization away.
FilterConfigs ==
  [f \in {auth, strip, cors} |->
     [type |-> IF f = auth THEN "basicAuth" ELSE "header",
      delAuthorization |-> f = strip, stamps |-> f = cors]]

\* Teapot for one path, else 404 for some, else a page.
Teapot == [hasBody |-> FALSE, status |-> 418]
Missing == [hasBody |-> FALSE, status |-> 404]
Default == [hasBody |-> TRUE, status |-> 0]
PageContent ==
  [conditions |-> << [kind |-> "path", path |-> pb, percentage |-> 0, response |-> Teapot],
                     [kind |-> "percentage", path |-> pb, percentage |-> 10, response |-> Missing] >>,
   default |-> Default]
Contents == [h \in {page} |-> PageContent]

Authenticate == [Plain EXCEPT !.filters = <<auth>>]
View == [Plain EXCEPT !.paths = {pa}, !.rewrite = [p \in Paths |-> pb]]
Static == [Plain EXCEPT !.paths = {pa}, !.handler = static, !.filters = <<cors>>,
                        !.nextIfNotFound = TRUE]
Backend == [Plain EXCEPT !.handler = backend]
Forbidden == [Plain EXCEPT !.paths = {pb}, !.status = 403]
External == [Plain EXCEPT !.paths = {pb}, !.rewrite = [p \in Paths |-> ext]]

NotAllowed == [Plain EXCEPT !.methods = {PUT}, !.status = 405]
Both == [Plain EXCEPT !.paths = {pb}, !.filters = <<cors, auth>>]
Page == [Plain EXCEPT !.filters = <<strip, cors>>, !.handler = page, !.nextIfNotFound = TRUE]
Away == [External EXCEPT !.status = NotFound]
Moved == [Plain EXCEPT !.rewrite = [p \in Paths |-> pa], !.status = 302]

Kinds == {Authenticate, View, Static, Backend}
MoreKinds == Kinds \cup {Forbidden, External, NotAllowed, Both, Page, Away, Moved}

\* %r %s, then %U; the preset whose line has the URI as it stands.
NCSA == [preset |-> "ncsa", directives |-> <<"r", "other", "s", "U">>]
JSON == [preset |-> "json", directives |-> <<>>]
AllFormats == {NCSA, JSON}

TablesUpTo(n, kinds) == UNION {[1 .. l -> kinds] : l \in 0 .. n}

AllTables == TablesUpTo(4, Kinds) \cup TablesUpTo(3, MoreKinds)
==============================================================================
