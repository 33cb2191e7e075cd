------------------------------ MODULE LogFormat ------------------------------
(***************************************************************************)
(* pkg/logger/accesslog/ncsa.go, json.go and ltsv.go: which parts of a     *)
(* request and its response a line of the access log is made of.           *)
(*                                                                         *)
(* A format is none (no accessLog.output), a preset, or a sequence of NCSA *)
(* directives.  Kept are the request line, the URI and the status, which   *)
(* the host handler changes while it serves a request; every other         *)
(* directive, plain text included, is "other", and its value "-".          *)
(***************************************************************************)
EXTENDS Sequences, SequencesExt

\* %r, %U or %f, %s or %>s, anything else.
Directive == {"r", "U", "s", "other"}

LogFormat == {[preset |-> p, directives |-> <<>>] : p \in {"nil", "json", "ltsv"}}
               \cup [preset : {"ncsa"}, directives : Seq(Directive)]

\* appendJSONLog: what comes before the URI, between it and the status, and after.
JSONFields == <<"other", "uri", "other", "s", "other">>

\* appendLTSVLog: the URI is part of req, between the method and the protocol.
LTSVFields == <<"other", "uri", "other", "s", "other">>

\* What a line is made of; parseNCSAFormat has an entry for each directive.
\* "uri" is ctx.RequestURI().
Fields(format) ==
  CASE format.preset = "json" -> JSONFields
    [] format.preset = "ltsv" -> LTSVFields
    [] format.preset = "ncsa" -> format.directives
    [] format.preset = "nil" -> <<>>

\* l.collectRequestURI, set while the format is parsed.
CollectRequestURI(format) == "r" \in Range(format.directives)

\* The line that Log appends: original is the header Collect has set, "-"
\* without one, and uri the request's as it stands now.
Line(format, original, uri, status) ==
  LET Value(field) == CASE field = "r" -> original
                        [] field \in {"U", "uri"} -> uri
                        [] field = "s" -> status
                        [] field = "other" -> "-"
  IN  [k \in DOMAIN Fields(format) |-> Value(Fields(format)[k])]
==============================================================================
