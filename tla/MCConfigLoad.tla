----------------------------- MODULE MCConfigLoad -----------------------------
(***************************************************************************)
(* Two families of commands.  In the first, files include each other: a    *)
(* includes b and b includes c, so that the files c includes share an      *)
(* array of four cells, and c, d and e hold anything of a few documents.   *)
(* In the second, a holds a document and includes b, and the documents,    *)
(* the flags and the expressions are anything of a few.                    *)
(***************************************************************************)
EXTENDS Config

CONSTANTS a, b, c, d, e, dotA    \* dotA: "./a"

Files == {a, b, c, d, e}
Names == Files \cup {dotA}
Abs == [n \in Names |-> IF n = dotA THEN a ELSE n]

Holds(names) ==
  {Unreadable, Malformed, <<Plain>>, <<BadPattern>>, <<<<>>, Plain>>}
    \cup {<<<<x>>, Plain>> : x \in names}
    \cup {<<Plain, <<x, y>>>> : x \in names, y \in names}
    \cup {<<<<x>>, <<x>>>> : x \in names}

Graphs ==
  {(a :> <<<<b>>, Plain>>) @@ (b :> <<Plain, <<c>>>>) @@ (c :> x) @@ (d :> y) @@ (e :> z) :
     x \in Holds({d, e}), y \in Holds({c, e, dotA}), z \in Holds({b, d})}

\* No document at all, one, two, and three of which the last two are alike.
Simple ==
  {[f \in Files |-> IF f = a THEN x ELSE <<Plain>>] :
     x \in {<<<<>>>>, <<Plain>>, <<Plain, <<b>>>>, <<<<b>>, Plain, Plain>>}}
NoDocument == [f \in Files |-> IF f = a THEN <<<<>>>> ELSE <<Plain>>]

------------------------------------------------------------------------------
Whole(n) == [tag |-> "int", is |-> n]
Fraction(n) == [tag |-> "float", is |-> n]
Mapping(f) == [tag |-> "map", is |-> f]
Routes(names) == [tag |-> "seq", is |-> names]

A == <<"a">>
B == <<"b">>
Star == <<"*">>

ServedBy(type) == [handlers |-> Mapping([h |-> type]), routes |-> Routes(<<"h">>)]
Files1 == Mapping([NoSSL EXCEPT !.certFile = "a.crt", !.keyFile = TRUE])
Files2 == Mapping([NoSSL EXCEPT !.certFile = "b.crt", !.keyFile = TRUE])
NoKey == Mapping([NoSSL EXCEPT !.certFile = "a.crt"])
Bad == Mapping([NoSSL EXCEPT !.certFile = "bad.crt", !.keyFile = TRUE])
Auto == Mapping([NoSSL EXCEPT !.autoCert = TRUE])
AutoDir == Mapping([NoSSL EXCEPT !.autoCert = TRUE, !.autoCertCacheDir = "dir"])

First ==
  {[host |-> Str(A), listen |-> Str(":1"), shutdownTimeout |-> Str(<<>>)],
   [host |-> Str(A), readBufferSize |-> Str(<<3, "K">>)] @@ ServedBy("fs"),
   [host |-> Str(A), readBufferSize |-> Str(<<40, "K">>), readTimeout |-> Whole(5)],
   [host |-> Str(A), ssl |-> Files1, readTimeout |-> Str(<<2, "s">>)],
   [host |-> Str(A), ssl |-> Auto],
   [host |-> Null, ssl |-> Null, readTimeout |-> Null] @@ ServedBy("fs"),
   [readBufferSize |-> Fraction(<<1, ".5">>)]}

Second ==
  {[host |-> Str(B), listen |-> Str(":1"), shutdownTimeout |-> Str(<<1, "m">>)],
   [host |-> Str(B), ssl |-> Files2] @@ ServedBy("unregistered"),
   [host |-> Str(A), ssl |-> Files2, shutdownTimeout |-> Str(<<1, "?">>)],
   [host |-> Str(B), ssl |-> AutoDir, readTimeout |-> Str(<<20, "m">>)],
   [host |-> Str(B), ssl |-> AutoDir],
   [host |-> Str(A), readBufferSize |-> Whole(64)],
   [host |-> Str(B), ssl |-> NoKey, readBufferSize |-> Str(<<3, "?">>)],
   [host |-> Str(B), ssl |-> Bad],
   [host |-> Str(Star), ssl |-> Auto],
   [host |-> Str(A), routes |-> Routes(<<"h">>)],
   [host |-> Str(B), handlers |-> Mapping([h |-> ""]), readBufferSize |-> Whole(7)],
   [host |-> Str(B), handlers |-> Mapping([h |-> "null"]), readBufferSize |-> Null],
   [host |-> Str(A), handlers |-> Null, routes |-> Routes(<<"h">>), ssl |-> Files2],
   [misspelt |-> Null]}

Expressions ==
  {BadExpr,
   [at |-> 0, key |-> "host", value |-> Str(B)],
   [at |-> 0, key |-> "listen", value |-> Str(":2")],
   [at |-> 1, key |-> "listen", value |-> Str(":3")],
   [at |-> 0, key |-> "readBufferSize", value |-> Str(<<5, "">>)],
   [at |-> 1, key |-> "readBufferSize", value |-> Fraction(<<1, ".5">>)],
   [at |-> 0, key |-> "ssl", value |-> NoKey],
   [at |-> 0, key |-> "ssl", value |-> Null],
   [at |-> 0, key |-> "routes", value |-> Routes(<<"">>)]}

EditLists == {<<>>} \cup {<<x>> : x \in Expressions} \cup {<<x, y>> : x \in Expressions, y \in Expressions}
ForAll == {edits \in EditLists : \A i \in DOMAIN edits : edits[i] = BadExpr \/ edits[i].at = 0}

Hold(x, y) == [f \in Files |-> IF f = a THEN x ELSE y]
Command(flags, file, edits, home) == [flags |-> flags, file |-> file, edits |-> edits, home |-> home]
Plainest == Hold([host |-> Str(A)], [host |-> Str(B)])

\* What the commands of the second family are given.
Edited(content_) ==
  {<<Command(flags, TRUE, edits, home), Hold(x, y)>> :
     flags \in {{}, {"T"}}, home \in BOOLEAN, x \in First, y \in Second,
     edits \in IF content_ = NoDocument THEN ForAll ELSE EditLists}
Others ==
  {<<Command(flags, file, edits, TRUE), Plainest>> :
     flags \in {{}, {"v"}, {"h", "t"}, {"t"}, {"t", "T"}}, file \in BOOLEAN, edits \in ForAll}

Invocation(content_) ==
  IF content_ \in Simple THEN Edited(content_) \cup Others
  ELSE {<<Command({"t"}, TRUE, <<>>, TRUE), Plainest>>}

AllContents == Graphs \cup Simple

Headers == {A, B, <<"a", "1">>, <<"c", "1">>, <<"[", "", "1]">>}
Units == [s \in {"", "K", "M"} |-> IF s = "" THEN 1 ELSE IF s = "K" THEN 4 ELSE 16]
Times == [s |-> 1, m |-> 4]
Types == {"fs"}
CertificateHosts == [f \in {"a.crt", "b.crt", "bad.crt"} |-> IF f = "a.crt" THEN {A} ELSE {B}]
BadFiles == {"bad.crt"}
Wildcards == {Star}
==============================================================================
