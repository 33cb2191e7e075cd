------------------------------- MODULE Filters -------------------------------
(***************************************************************************)
(* pkg/filter: the two filters the program has, basicAuth and header, as   *)
(* what they make of a request.  Of the headers of a request only          *)
(* Authorization matters to another part of the program: it names a user   *)
(* of the filter ("user"), someone else ("stranger"), is of another scheme *)
(* ("other"), or is missing ("none").  What a header filter writes is left *)
(* out, but for whether it removes Authorization and whether it marks the  *)
(* response.                                                               *)
(***************************************************************************)
CONSTANT FilterConfig    \* filter -> its configuration

Authorization == {"none", "user", "stranger", "other"}

FilterType == [type : {"basicAuth", "header"},
               delAuthorization : BOOLEAN,    \* request.del names Authorization
               stamps : BOOLEAN]              \* response sets or adds a header

ASSUME FilterAssumption == FilterConfig \in [DOMAIN FilterConfig -> FilterType]

\* Request of a filter: whether it returns true.
Accepts(f, authorization) ==
  FilterConfig[f].type = "basicAuth" => authorization = "user"

\* The Authorization header after an accepting Request.
AfterRequest(f, authorization) ==
  IF FilterConfig[f].type = "header" /\ FilterConfig[f].delAuthorization
  THEN "none" ELSE authorization

\* The status and the body of a rejecting basicAuth: ctx.Error or
\* unauthorized.
Rejection(authorization) ==
  IF authorization = "other" THEN [status |-> 400, body |-> "filter"]
                             ELSE [status |-> 401, body |-> "none"]

\* Response of a filter: header marks the response, basicAuth does nothing,
\* and both return true.
Stamps(f) == FilterConfig[f].type = "header" /\ FilterConfig[f].stamps
==============================================================================
