------------------------------- MODULE Config -------------------------------
(***************************************************************************)
(* From the command line to the listen addresses: Main, testOrDump and the *)
(* beginning of run (pkg/cmd/fasthttpd.go, dump.go) with the steps they    *)
(* take through pkg/config: LoadTreeMaps, Edit, ValidateTreeMaps and       *)
(* FromTreeMaps.                                                           *)
(*                                                                         *)
(* A tree.Map is changed in place, so documents are places in `maps`.  A   *)
(* document is the function from its keys to values; a value has the tag   *)
(* the YAML decoder gives it.  The keys are one field of each kind that    *)
(* the schema and the decoder tell apart.                                  *)
(***************************************************************************)
EXTENDS ConfigLoad, Listeners

CONSTANTS
  Invocations(_),  \* bound: <<command, written>> for a content of the files
  BadExpr,         \* an expression that is none
  Header,          \* Host headers of requests
  IntLimit,        \* 2^63: every int64 is below it
  UnitSize,        \* suffix of a size -> what its shift multiplies by
  TimeUnit,        \* suffix of a duration -> nanoseconds
  Registered,      \* types with a registered handler
  DefaultDir       \* the cache directory of autocert in UserCacheDir

ASSUME ConfigAssumption ==
  /\ IntLimit \in Nat \ {0}
  /\ \A unit \in DOMAIN UnitSize : UnitSize[unit] \in Nat \ {0}
  /\ \A unit \in DOMAIN TimeUnit : TimeUnit[unit] \in Nat \ {0}
  /\ "s" \in DOMAIN TimeUnit /\ 30 * TimeUnit["s"] < IntLimit
  /\ \A header \in Header : header \in Seq(STRING) /\ header # <<>>

VARIABLES
  command,     \* the flags, whether -f is given, the -e expressions, and whether
               \* there is a home directory
  written,     \* file -> the document without `include` that it holds
  stage,       \* where Main is
  maps,        \* the tree.Maps in memory
  ms,          \* the documents, as places in maps
  preEdit,     \* those kept for the dump
  exprs,       \* expressions still to apply
  configs,     \* what FromTreeMaps returned
  listening,   \* listen addresses that are served
  dump         \* what -T wrote

mapVars == <<maps, ms, preEdit, exprs>>
inputVars == <<command, written>>
outputVars == <<configs, listening, dump>>
vars == <<loadVars, inputVars, stage, mapVars, outputVars>>

Final == {"told", "rejected", "tested", "dumped", "failed", "serving", "exited"}

NoDump == [preEdit |-> <<>>, configs |-> <<>>]

Init ==
  /\ LoadInit
  /\ \E given \in Invocations(content) : command = given[1] /\ written = given[2]
  /\ stage = "flags"
  /\ maps = <<>>
  /\ ms = <<>>
  /\ preEdit = <<>>
  /\ exprs = <<>>
  /\ configs = <<>>
  /\ listening = {}
  /\ dump = NoDump

------------------------------------------------------------------------------
(* Sizes and durations *)

\* n in two's complement.
Wrapped(n) == ((n + IntLimit) % (2 * IntLimit)) - IntLimit

IsInt64(n) == -IntLimit <= n /\ n < IntLimit

\* The text of a size or a duration is its number and its suffix.
IsSize(text) == text[2] \in DOMAIN UnitSize /\ text[1] < IntLimit
IsDuration(text) == text[2] \in DOMAIN TimeUnit /\ text[1] * TimeUnit[text[2]] < IntLimit

\* parseSize: a shift, whatever it loses.
ParseSize(text) == Wrapped(text[1] * UnitSize[text[2]])
ParseDuration(text) == text[1] * TimeUnit[text[2]]

Str(v) == [tag |-> "str", is |-> v]
Null == [tag |-> "null", is |-> <<>>]

------------------------------------------------------------------------------
(* The schema, and what the decoder makes of a value *)

\* Field of Config -> the kind of its rule (SchemaFromStruct, rootRules).
Kind == [host |-> "string", listen |-> "string", shutdownTimeout |-> "string",
         readBufferSize |-> "size", readTimeout |-> "duration",
         handlers |-> "handlers", routes |-> "routes", ssl |-> "ssl"]

\* A size or a duration is an integer, or a number and a text after it.
IsValue(key, value) ==
  key \in DOMAIN Kind /\ Kind[key] \in {"size", "duration"} =>
    /\ value.tag = "int" => value.is \in Int
    /\ value.tag \in {"str", "float"} => value.is \in Nat \X STRING

ASSUME InputAssumption ==
  \A files \in Contents : \A given \in Invocations(files) :
    /\ given[1].edits \in Seq(Range(given[1].edits))
    /\ \A n \in DOMAIN given[1].edits :
         LET expr == given[1].edits[n]
         IN  expr # BadExpr => /\ expr.at \in Nat
                               /\ expr.key \in DOMAIN Kind \cup {"misspelt"}
                               /\ IsValue(expr.key, expr.value)
    /\ \A f \in File : \A key \in DOMAIN given[2][f] : IsValue(key, given[2][f][key])

\* A handler of type "null" is a null entry: it passes, and no handler has its type.
HasType(type) == type # ""

\* The rule of each kind; null passes every rule.
Follows(kind, value) ==
  \/ value.tag = "null"
  \/ kind = "string" /\ value.tag = "str"
  \/ kind = "size" /\ value.tag = "str" /\ IsSize(value.is)
  \/ kind = "duration" /\ value.tag = "str" /\ IsDuration(value.is)
  \/ kind \in {"size", "duration"} /\ value.tag \in {"int", "float"}
  \/ kind = "handlers" /\ value.tag = "map" /\ \A name \in DOMAIN value.is : HasType(value.is[name])
  \/ kind = "routes" /\ value.tag = "seq"
  \/ kind = "ssl" /\ value.tag = "map"

\* Variant: keys that the schema does not know are let through.
ValidOpen(document) ==
  \A key \in DOMAIN document \cap DOMAIN Kind : Follows(Kind[key], document[key])

\* One document passes the schema.
Valid(document) ==
  \A key \in DOMAIN document : key \in DOMAIN Kind /\ Follows(Kind[key], document[key])

\* UnmarshalYAML of Size and Duration refuses everything else; it is not called
\* for null.
Decodable(document) ==
  \A key \in DOMAIN document \cap DOMAIN Kind :
    Kind[key] \in {"size", "duration"} =>
      \/ document[key].tag \in {"str", "null"}
      \/ document[key].tag = "int" /\ IsInt64(document[key].is)

Decoded(kind, value) ==
  IF value.tag # "str" THEN value.is
  ELSE IF kind = "size" THEN ParseSize(value.is)
  ELSE IF kind = "duration" THEN ParseDuration(value.is)
  ELSE value.is

NoSSL == [autoCert |-> FALSE, autoCertCacheDir |-> NoFile, certFile |-> NoFile, keyFile |-> FALSE]

\* Config.SetDefaults.
Defaults == [host |-> <<"">>, listen |-> ":8080", shutdownTimeout |-> <<30, "s">>,
             readBufferSize |-> 0, readTimeout |-> 0, handlers |-> <<>>,
             routes |-> <<>>, ssl |-> NoSSL]

\* The decoder leaves a field as it is for null.
IsSet(document, key) == key \in DOMAIN document /\ document[key].tag # "null"

Decode(document) ==
  [key \in DOMAIN Kind |->
     IF IsSet(document, key) THEN Decoded(Kind[key], document[key]) ELSE Defaults[key]]

\* Config.Normalize returns no error.
Normal(cfg) ==
  /\ cfg.ssl.autoCert /\ cfg.ssl.autoCertCacheDir = NoFile => command.home
  /\ cfg.shutdownTimeout # <<>> => IsDuration(cfg.shutdownTimeout)
  /\ \A i \in DOMAIN cfg.routes :
       cfg.routes[i] # "" => cfg.routes[i] \in DOMAIN cfg.handlers

Normalize(cfg) ==
  IF cfg.ssl.autoCert /\ cfg.ssl.autoCertCacheDir = NoFile
  THEN [cfg EXCEPT !.ssl.autoCertCacheDir = DefaultDir]
  ELSE cfg

------------------------------------------------------------------------------
(* Main *)

Dumps == "T" \in command.flags
Tests == command.flags \cap {"t", "T"} # {}

\* Main after the flags are parsed; usage is printed when there is nothing to do.
Main ==
  /\ stage = "flags"
  /\ stage' = IF \/ command.flags \cap {"v", "h"} # {}
                 \/ ~Tests /\ ~command.file /\ command.edits = <<>>
              THEN "told"
              ELSE "load"
  /\ UNCHANGED <<loadVars, inputVars, mapVars, outputVars>>

\* minimalTreeMap.
Minimal == [host |-> Str(<<"localhost">>), handlers |-> [tag |-> "map", is |-> [static |-> "fs"]],
            routes |-> [tag |-> "seq", is |-> <<"static">>]]

LoadTreeMaps ==
  /\ stage = "load"
  /\ command.file
  /\ LoadNext
  /\ UNCHANGED <<inputVars, stage, mapVars, outputVars>>

LoadFails ==
  /\ stage = "load"
  /\ outcome \in {"circular", "failed"}
  /\ stage' = "rejected"
  /\ UNCHANGED <<loadVars, inputVars, mapVars, outputVars>>

\* Variant: the places, not what is there.
CloneNot(documents) == [i \in DOMAIN documents |-> i]

\* cloneTreeMaps: the clones are put behind the documents.
Clone(documents) == [i \in DOMAIN documents |-> Len(documents) + i]

\* What loadTreeMaps returned, and testOrDump's snapshot of it.
Loaded ==
  /\ stage = "load"
  /\ IF command.file THEN outcome = "loaded" ELSE outcome = "none"
  /\ LET documents == IF command.file THEN [i \in DOMAIN loaded |-> written[loaded[i]]]
                      ELSE <<Minimal>>
         kept == Dumps /\ command.edits # <<>>
     IN  /\ maps' = documents \o (IF kept THEN documents ELSE <<>>)
         /\ ms' = [i \in DOMAIN documents |-> i]
         /\ preEdit' = IF kept THEN Clone(documents) ELSE <<>>
  /\ exprs' = command.edits
  /\ stage' = "edit"
  /\ UNCHANGED <<loadVars, inputVars, outputVars>>

\* An expression whose value is neither quoted nor a literal gets quotes; a
\* number is a literal only without a fraction.
Literal(value) == IF value.tag = "float" THEN Str(value.is) ELSE value

\* The documents an expression is applied to: all, unless it names one.  (Bound:
\* it names one that is there.  What tree.Edit does with others is not in src/.)
Targets(expr) == IF expr.at = 0 THEN DOMAIN ms ELSE {expr.at}

\* tree.Edit of one document.
Put(document, key, value) ==
  [k \in DOMAIN document \cup {key} |-> IF k = key THEN value ELSE document[k]]

EditFails ==
  /\ stage = "edit"
  /\ exprs # <<>>
  /\ Head(exprs) = BadExpr
  /\ stage' = "rejected"
  /\ UNCHANGED <<loadVars, inputVars, mapVars, outputVars>>

EditOne ==
  /\ stage = "edit"
  /\ exprs # <<>>
  /\ Head(exprs) # BadExpr
  /\ Targets(Head(exprs)) \subseteq DOMAIN ms
  /\ LET expr == Head(exprs)
         places == {ms[i] : i \in Targets(expr)}
     IN  maps' = [p \in DOMAIN maps |->
                    IF p \in places THEN Put(maps[p], expr.key, Literal(expr.value)) ELSE maps[p]]
  /\ exprs' = Tail(exprs)
  /\ UNCHANGED <<loadVars, inputVars, stage, ms, preEdit, outputVars>>

\* ValidateTreeMaps and FromTreeMaps.
Decide ==
  /\ stage = "edit"
  /\ exprs = <<>>
  /\ LET documents == [i \in DOMAIN ms |-> maps[ms[i]]]
         decoded == [i \in DOMAIN ms |-> Decode(documents[i])]
     IN  IF /\ \A i \in DOMAIN ms : Valid(documents[i]) /\ Decodable(documents[i])
            /\ \A i \in DOMAIN ms : Normal(decoded[i])
         THEN /\ configs' = [i \in DOMAIN ms |-> Normalize(decoded[i])]
              /\ stage' = "decided"
         ELSE stage' = "rejected" /\ configs' = configs
  /\ UNCHANGED <<loadVars, inputVars, mapVars, listening, dump>>

\* testOrDump: what it reports.
Report ==
  /\ stage = "decided"
  /\ Tests
  /\ IF Dumps
     THEN /\ dump' = [preEdit |-> [i \in DOMAIN preEdit |-> maps[preEdit[i]]], configs |-> configs]
          /\ stage' = "dumped"
     ELSE stage' = "tested" /\ dump' = dump
  /\ UNCHANGED <<loadVars, inputVars, mapVars, configs, listening>>

------------------------------------------------------------------------------
(* run *)

Addresses == {configs[i].listen : i \in DOMAIN configs}

\* listenedCfgs[address].
Group(address) == Selected(configs, {i \in DOMAIN configs : configs[i].listen = address})

\* newHostHandler of each knows the types of its handlers.
Builds(group) ==
  \A i \in DOMAIN group : \A name \in DOMAIN group[i].handlers :
    group[i].handlers[name] \in Registered

\* The loop over listenedCfgs ends; without an address run returns at once.
Start ==
  /\ stage = "decided"
  /\ ~Tests
  /\ stage' = IF Addresses = {} THEN "exited" ELSE "starting"
  /\ UNCHANGED <<loadVars, inputVars, mapVars, outputVars>>

Listen ==
  /\ stage = "starting"
  /\ \E address \in Addresses \ listening :
       IF Builds(Group(address)) /\ ~CannotSecure(Group(address))
       THEN /\ listening' = listening \cup {address}
            /\ stage' = IF listening' = Addresses THEN "serving" ELSE stage
       ELSE stage' = "failed" /\ listening' = listening
  /\ UNCHANGED <<loadVars, inputVars, mapVars, configs, dump>>

\* The address is taken.
BindFails ==
  /\ stage = "starting"
  /\ stage' = "failed"
  /\ UNCHANGED <<loadVars, inputVars, mapVars, outputVars>>

Next == Main \/ LoadTreeMaps \/ LoadFails \/ Loaded \/ EditFails \/ EditOne \/ Decide
          \/ Report \/ Start \/ Listen \/ BindFails

\* One goroutine runs Main.
Spec == Init /\ [][Next]_vars /\ WF_vars(Next)
------------------------------------------------------------------------------
\* The documents as the files hold them, in the order they are included.
AsWritten == IF command.file THEN [i \in DOMAIN loaded |-> written[loaded[i]]] ELSE <<Minimal>>

\* What is to hold for a key of the i-th document: the last expression that
\* names it, or else what is written.
Edits(i, key) ==
  {n \in DOMAIN command.edits :
     command.edits[n].key = key /\ command.edits[n].at \in {0, i}}
Keys(i) == DOMAIN AsWritten[i] \cup {key \in DOMAIN Kind \cup {"misspelt"} : Edits(i, key) # {}}
Meant(i, key) ==
  IF Edits(i, key) # {} THEN Literal(command.edits[Max(Edits(i, key))].value)
  ELSE AsWritten[i][key]

\* The i-th document gives the key a value, null being none.
IsGiven(i, key) == key \in Keys(i) /\ Meant(i, key).tag # "null"

\* The bytes a size with a suffix stands for.
Bytes(text) == text[1] * UnitSize[text[2]]

\* n is what a size or a duration in force means: itself, but for a size that no
\* int64 holds, of which a shift loses whole multiples of 2^64.
IsMeant(key, value, n) ==
  IF value.tag = "int" THEN n = value.is
  ELSE IF key = "readTimeout" THEN n = value.is[1] * TimeUnit[value.is[2]]
  ELSE /\ IsInt64(n)
       /\ \E lost \in 0 .. Bytes(value.is) : n = Bytes(value.is) - lost * (2 * IntLimit)

\* The ssl section in force, with the directory of the certificates.
Secured(ssl) ==
  IF ssl.autoCert /\ ssl.autoCertCacheDir = NoFile
  THEN [ssl EXCEPT !.autoCertCacheDir = DefaultDir] ELSE ssl

Acceptable(i) ==
  LET handlers == IF IsGiven(i, "handlers") THEN Meant(i, "handlers").is ELSE <<>>
  IN  /\ Keys(i) \subseteq DOMAIN Kind
      /\ \A key \in Keys(i) : Follows(Kind[key], Meant(i, key))
      /\ \A key \in {"readBufferSize", "readTimeout"} \cap Keys(i) :
           /\ Meant(i, key).tag # "float"
           /\ Meant(i, key).tag = "int" => IsInt64(Meant(i, key).is)
      /\ IsGiven(i, "shutdownTimeout") =>
           LET text == Meant(i, "shutdownTimeout").is
           IN  text = <<>> \/ IsDuration(text)
      /\ IsGiven(i, "routes") =>
           Range(Meant(i, "routes").is) \subseteq DOMAIN handlers \cup {""}
      /\ IsGiven(i, "ssl") /\ Meant(i, "ssl").is.autoCert =>
           command.home \/ Meant(i, "ssl").is.autoCertCacheDir # NoFile

Accepting == stage \notin {"flags", "load", "edit", "told", "rejected"}

(* -t, -T and a start agree on what a configuration is and means: it is     *)
(* refused exactly when a file, an expression or a value in force is at     *)
(* fault, and otherwise every document is the one written, each of its keys *)
(* as the last expression for it says and the default where that is nothing *)
(* or null; a size that no int64 holds is what a shift leaves of it, and    *)
(* autocert without a directory gets the user's (dump.go 69-97,             *)
(* fasthttpd.go 153-168, load.go 85-173, config.go 48-160,                  *)
(* schema.go 154-229; README.md:152-154).                                   *)
AsConfigured ==
  LET faulty == \/ outcome \in {"circular", "failed"}
                \/ BadExpr \in Range(command.edits)
                \/ \E i \in DOMAIN AsWritten : ~Acceptable(i)
      Says(i, key, v) ==
        IF ~IsGiven(i, key) THEN v = Defaults[key]
        ELSE IF Kind[key] \in {"size", "duration"} THEN IsMeant(key, Meant(i, key), v)
        ELSE IF key = "ssl" THEN v = Secured(Meant(i, key).is)
        ELSE v = Meant(i, key).is
  IN  /\ stage = "rejected" => faulty
      /\ Accepting =>
           /\ ~faulty
           /\ DOMAIN configs = DOMAIN AsWritten
           /\ \A i \in DOMAIN configs : \A key \in DOMAIN Kind : Says(i, key, configs[i][key])

(* The dump pairs the documents as written with what would be served: an    *)
(* edit changes documents in place, and the snapshot must not follow        *)
(* (dump.go 75-78, 99-109; README.md:160-163).                              *)
DumpAsWritten ==
  stage = "dumped" =>
    /\ dump.preEdit = IF command.edits = <<>> THEN <<>> ELSE AsWritten
    /\ dump.configs = configs

(* A request is answered by the first document of its address with the host *)
(* it names, with a port or without, and by the first of the address when   *)
(* none has it, whichever files the documents came from and whatever the    *)
(* expressions made of their hosts and addresses (server.go 73-86,          *)
(* fasthttpd.go 169-172).                                                   *)
RightHost ==
  \A address \in listening : \A header \in Header :
    LET here == {i \in DOMAIN configs : configs[i].listen = address}
        named == {i \in here : configs[i].host = SubSeq(header, 1, 1)}
    IN  Group(address)[Answering(Group(address), header)]
          = configs[Min(IF named = {} THEN here ELSE named)]

(* A client that names a host is shown a certificate for it whenever a      *)
(* document of the address has one, in its file or from the authority, and  *)
(* no document with a certificate is served in the clear (tls.go 22-77,     *)
(* 85-102).                                                                 *)
RightCertificate ==
  \A address \in listening :
    LET here == {i \in DOMAIN configs : configs[i].listen = address}
        hosts == {configs[i].host : i \in DOMAIN configs}
        Has(i, host, issuing) ==
          IF configs[i].ssl.autoCert THEN configs[i].host = host /\ host \in issuing
          ELSE IsStatic(configs[i].ssl) /\ host \in Covers[configs[i].ssl.certFile]
    IN  \A host \in hosts : \A issuing \in SUBSET hosts :
          (\E i \in here : Has(i, host, issuing)) =>
            /\ IsTLS(Group(address))
            /\ LET shown == GetCertificate(Group(address), host, issuing)
                   own == {configs[i].ssl.certFile : i \in {k \in here : IsStatic(configs[k].ssl)}}
               IN  \/ shown = Issued(host) /\ host \in issuing
                   \/ \E file \in own : shown = Own(file) /\ host \in Covers[file]

(* The types of the command's state (fasthttpd.go 153-300, dump.go 69-97).  *)
TypeOK ==
  /\ LoadTypeOK
  /\ stage \in Final \cup {"flags", "load", "edit", "decided", "starting"}
  /\ Range(ms) \cup Range(preEdit) \subseteq DOMAIN maps
  /\ IsSuffix(exprs, command.edits)
  /\ listening \subseteq Addresses

(* The command ends, or serves every address (fasthttpd.go 280-300).        *)
Terminates == <>(stage \in Final)
=============================================================================
