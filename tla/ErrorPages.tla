----------------------------- MODULE ErrorPages -----------------------------
(***************************************************************************)
(* pkg/handler/errorpages.go: the error pages of a virtual host and the    *)
(* memo errorPaths, which requests read and write without a lock.          *)
(*                                                                         *)
(* A status is the tuple of its digits, a key of statusToPath a tuple of   *)
(* digits and "x".  An element of errorPaths is a slice: a pointer and a   *)
(* length that are stored, and loaded, one after the other in whatever     *)
(* order, so that two requests may see, or leave, one word of each.  The   *)
(* file server is external: of what it does, whether it answers 200 counts *)
(* and the text it leaves in the body.                                     *)
(***************************************************************************)
EXTENDS Integers, Sequences, FiniteSets, SequencesExt

CONSTANTS
  Status,         \* statuses answered, from 400 to 599
  Page,           \* paths of error pages
  StatusToPath,   \* key -> page
  Request,        \* requests
  Conditional,    \* values If-Modified-Since may have: TRUE makes a file 304
  MaxChanges      \* bound: times a page's file is removed or put back

ASSUME ErrorPagesAssumption ==
  /\ StatusToPath \in [DOMAIN StatusToPath -> Page]
  /\ Page \cap {"nil", "empty", "dash", "none", "own", "default", "fs"} = {}
  /\ Conditional \subseteq BOOLEAN
  /\ MaxChanges \in Nat

VARIABLES
  errorPaths,   \* status -> slice
  exists,       \* pages whose file exists
  changes,      \* changes of exists left
  pc,           \* request -> where it is
  status,       \* request -> its status
  conditional,  \* request -> whether it makes the file server answer 304
  path,         \* request -> slice it has loaded, or stores
  words,        \* request -> words of that slice still to load or store
  body,         \* request -> the body of its response
  alone,        \* history: no other request has been under way with it
  intact,       \* history: no file has changed since it began
  broken        \* history: statuses the file server has failed a page for

vars == <<errorPaths, exists, changes, pc, status, conditional, path, words, body,
          alone, intact, broken>>

Word == {"ptr", "len"}
Nil == [ptr |-> "nil", len |-> 0]
Empty == [ptr |-> "empty", len |-> 0]
Dash == [ptr |-> "dash", len |-> 1]
PathSlice(p) == [ptr |-> p, len |-> 2]     \* 2: longer than one byte

Slice == [ptr : Page \cup {"nil", "empty", "dash"}, len : 0 .. 2]

\* The keys handleStatus looks up for a status: 404, 40x, 4xx, xxx.
Candidates(s) ==
  [l \in 1 .. Len(s) + 1 |-> [d \in 1 .. Len(s) |-> IF d <= Len(s) + 1 - l THEN s[d] ELSE "x"]]

Known(s) == SelectSeq(Candidates(s), LAMBDA key : key \in DOMAIN StatusToPath)

\* What handleStatus stores for a status.
Lookup(s) == IF Known(s) = <<>> THEN Empty ELSE PathSlice(StatusToPath[Known(s)[1]])

\* SendDefaultError
DefaultError(b) == IF b = "none" THEN "default" ELSE b

------------------------------------------------------------------------------
Init ==
  /\ errorPaths = [s \in Status |-> Nil]
  /\ exists \in {Page} \cup (IF MaxChanges > 0 THEN {{}} ELSE {})
  /\ changes = MaxChanges
  /\ pc = [r \in Request |-> "arrives"]
  /\ status \in [Request -> Status]
  /\ conditional \in [Request -> Conditional]
  /\ path = [r \in Request |-> Nil]
  /\ words = [r \in Request |-> {}]
  /\ body \in [Request -> {"none", "own"}]
  /\ alone = [r \in Request |-> FALSE]
  /\ intact = [r \in Request |-> TRUE]
  /\ broken = {}

UnderWay(r) == pc[r] \notin {"arrives", "answered"}

Begin(r) ==
  /\ pc[r] = "arrives"
  /\ pc' = [pc EXCEPT ![r] = "load"]
  /\ words' = [words EXCEPT ![r] = Word]
  /\ alone' = [q \in Request |-> IF q = r THEN \A o \in Request : ~UnderWay(o)
                                         ELSE alone[q] /\ ~UnderWay(q)]
  /\ intact' = [intact EXCEPT ![r] = TRUE]
  /\ UNCHANGED <<errorPaths, exists, changes, status, conditional, path, body,
                 broken>>

\* path := p.errorPaths[status-errorPagesStatusOffset]
LoadWord(r, w) ==
  /\ pc[r] = "load"
  /\ w \in words[r]
  /\ path' = [path EXCEPT ![r][w] = errorPaths[status[r]][w]]
  /\ words' = [words EXCEPT ![r] = @ \ {w}]
  /\ UNCHANGED <<errorPaths, exists, changes, pc, status, conditional, body, alone, intact, broken>>

Loaded(r) == pc[r] = "load" /\ words[r] = {}

\* path != nil compares the pointer.
Memoised(r) ==
  /\ Loaded(r)
  /\ path[r].ptr # "nil"
  /\ pc' = [pc EXCEPT ![r] = "send"]
  /\ UNCHANGED <<errorPaths, exists, changes, status, conditional, path, words, body,
                 alone, intact, broken>>

HandleStatus(r) ==
  /\ Loaded(r)
  /\ path[r].ptr = "nil"
  /\ path' = [path EXCEPT ![r] = Lookup(status[r])]
  /\ words' = [words EXCEPT ![r] = Word]
  /\ pc' = [pc EXCEPT ![r] = "memo"]
  /\ UNCHANGED <<errorPaths, exists, changes, status, conditional, body, alone, intact, broken>>

\* Variant: the memo is one for all statuses.
StoreWordAll(r, w) ==
  /\ pc[r] \in {"memo", "fail"}
  /\ w \in words[r]
  /\ errorPaths' = [s \in Status |-> [errorPaths[s] EXCEPT ![w] = path[r][w]]]
  /\ words' = [words EXCEPT ![r] = @ \ {w}]
  /\ UNCHANGED <<exists, changes, pc, status, conditional, path, body, alone, intact, broken>>

\* p.errorPaths[status-errorPagesStatusOffset] = path, or {'-'} after a failure
StoreWord(r, w) ==
  /\ pc[r] \in {"memo", "fail"}
  /\ w \in words[r]
  /\ errorPaths' = [errorPaths EXCEPT ![status[r]][w] = path[r][w]]
  /\ words' = [words EXCEPT ![r] = @ \ {w}]
  /\ UNCHANGED <<exists, changes, pc, status, conditional, path, body, alone, intact, broken>>

Stored(r) ==
  /\ pc[r] = "memo"
  /\ words[r] = {}
  /\ pc' = [pc EXCEPT ![r] = "send"]
  /\ UNCHANGED <<errorPaths, exists, changes, status, conditional, path, words, body,
                 alone, intact, broken>>

------------------------------------------------------------------------------
(* sendError *)

Answer(r, b) ==
  /\ body' = [body EXCEPT ![r] = b]
  /\ pc' = [pc EXCEPT ![r] = "answered"]

\* len(path) == 0 keeps the body the handler left, '-' does not.
SendDefault(r) ==
  /\ pc[r] = "send"
  /\ \/ path[r].len = 0 /\ Answer(r, DefaultError(body[r]))
     \/ path[r] = Dash /\ Answer(r, "default")
  /\ UNCHANGED <<errorPaths, exists, changes, status, conditional, path, words, alone, intact, broken>>

\* The bytes of the slice name a page: a path cut after its first byte is the
\* directory "/", which the file server refuses, and '-' with the length of a
\* path is no path at all.
Found(slice) == slice.len = 2 /\ slice.ptr \in exists

CallsFS(r) == pc[r] = "send" /\ path[r].len > 0 /\ path[r] # Dash

\* p.fs(ctx) answers 200; the status and the URI are put back.
ServePage(r) ==
  /\ CallsFS(r)
  /\ Found(path[r])
  /\ ~conditional[r]
  /\ Answer(r, path[r].ptr)
  /\ UNCHANGED <<errorPaths, exists, changes, status, conditional, path, words, alone, intact, broken>>

\* 304 leaves no body, any other failure a text.
PageFails(r) ==
  /\ CallsFS(r)
  /\ ~Found(path[r]) \/ conditional[r]
  /\ body' = [body EXCEPT ![r] = IF Found(path[r]) THEN "none" ELSE "fs"]
  /\ path' = [path EXCEPT ![r] = Dash]
  /\ words' = [words EXCEPT ![r] = Word]
  /\ pc' = [pc EXCEPT ![r] = "fail"]
  /\ broken' = broken \cup {status[r]}
  /\ UNCHANGED <<errorPaths, exists, changes, status, conditional, alone, intact>>

\* Variant: the text of the file server is left in the body.
FailedKeepsBody(r) ==
  /\ pc[r] = "fail"
  /\ words[r] = {}
  /\ Answer(r, DefaultError(body[r]))
  /\ UNCHANGED <<errorPaths, exists, changes, status, conditional, path, words, alone, intact, broken>>

\* ctx.Response.SetBody(nil); SendDefaultError(ctx)
Failed(r) ==
  /\ pc[r] = "fail"
  /\ words[r] = {}
  /\ Answer(r, "default")
  /\ UNCHANGED <<errorPaths, exists, changes, status, conditional, path, words, alone, intact, broken>>

Handle(r) ==
  \/ Begin(r) \/ Memoised(r) \/ HandleStatus(r) \/ Stored(r)
  \/ \E w \in Word : LoadWord(r, w) \/ StoreWord(r, w)
  \/ SendDefault(r) \/ ServePage(r) \/ PageFails(r) \/ Failed(r)

\* A page is removed, or put in place.
ChangeFile(p) ==
  /\ changes > 0
  /\ changes' = changes - 1
  /\ exists' = IF p \in exists THEN exists \ {p} ELSE exists \cup {p}
  /\ intact' = [r \in Request |-> FALSE]
  /\ UNCHANGED <<errorPaths, pc, status, conditional, path, words, body, alone,
                 broken>>

Next ==
  \/ \E r \in Request : Handle(r)
  \/ \E p \in Page : ChangeFile(p)

Spec == Init /\ [][Next]_vars

------------------------------------------------------------------------------
Answered(r) == pc[r] = "answered"

(* An error is answered with the page of its own status, with the default   *)
(* error or with the handler's text, whatever the other requests memoise    *)
(* meanwhile (errorpages.go 54-80): "Path to the custom error page."        *)
(* (docs/configuration.md 290).                                             *)
NoForeignPage ==
  \A r \in Request :
    Answered(r) => body[r] \in {Lookup(status[r]).ptr, "default", "own", "none", "fs"}

(* No error is answered without a body, nor with the text of the file       *)
(* server for the page it could not serve (errorpages.go 102-112).          *)
HasBody ==
  \A r \in Request : Answered(r) => body[r] \notin {"none", "fs"}

\* A request that overlaps with no other, of a status whose page is there.
OwedPage(r) ==
  /\ Answered(r) /\ alone[r] /\ ~conditional[r] /\ intact[r]
  /\ Lookup(status[r]).ptr \in exists

(* A request that overlaps with no other gets the page of its status, if    *)
(* the page's file is there all the time and the file server has never      *)
(* failed a request of this status, whatever the requests before it left in *)
(* errorPaths (errorpages.go 47-80).                                        *)
PagesServed ==
  \A r \in Request :
    OwedPage(r) /\ status[r] \notin broken => body[r] = Lookup(status[r]).ptr

(* "Path to the custom error page." (docs/configuration.md 290): the same,  *)
(* whether or not an earlier request of this status has been failed         *)
(* (errorpages.go 95-112).                                                  *)
PagesReturn ==
  \A r \in Request : OwedPage(r) => body[r] = Lookup(status[r]).ptr
==============================================================================
