-------------------------- MODULE ErrorPagesProofs --------------------------
(***************************************************************************)
(* Theorems about ErrorPages, for every set of statuses, pages and         *)
(* requests and every table of pages.                                      *)
(***************************************************************************)
EXTENDS ErrorPages, TLAPS

(* What a torn slice of a status can be made of: words of nil, of '-' and   *)
(* of what handleStatus stores for that status.                             *)
SliceOf(s) == [ptr : {"nil", "dash", Lookup(s).ptr}, len : 0 .. 2]

(* The words of every slice belong to the status it is kept for.            *)
OwnSlices ==
  /\ errorPaths \in [Status -> UNION {SliceOf(s) : s \in Status}]
  /\ path \in [Request -> UNION {SliceOf(s) : s \in Status}]
  /\ \A s \in Status : errorPaths[s] \in SliceOf(s)
  /\ \A r \in Request : path[r] \in SliceOf(status[r])

(* What the body can be where a request is.                                 *)
BodyInv(r) ==
  /\ pc[r] \in {"arrives", "load", "memo", "send"} => body[r] \in {"none", "own"}
  /\ pc[r] = "answered" =>
       \/ body[r] \in {"own", "default"}
       \/ body[r] = Lookup(status[r]).ptr /\ body[r] \in Page

IInv ==
  /\ exists \subseteq Page
  /\ pc \in [Request -> {"arrives", "load", "memo", "send", "fail", "answered"}]
  /\ status \in [Request -> Status]
  /\ words \in [Request -> SUBSET Word]
  /\ body \in [Request -> Page \cup {"none", "own", "default", "fs"}]
  /\ OwnSlices
  /\ \A r \in Request : BodyInv(r)

------------------------------------------------------------------------------
(* What handleStatus stores is the empty slice or the whole path of a page. *)
LEMMA LookupSlice ==
  ASSUME NEW s
  PROVE  /\ Lookup(s) = [ptr |-> Lookup(s).ptr, len |-> Lookup(s).len]
         /\ Lookup(s).len \in {0, 2}
         /\ Lookup(s).ptr \in Page => Lookup(s).len = 2
BY ErrorPagesAssumption DEF Lookup, Empty, PathSlice

(* Slice a after word w of slice b has been stored in it.                   *)
Tear(a, w, b) == [a EXCEPT ![w] = b[w]]

Torn(c, a, w, b, s) ==
  /\ c \in SliceOf(s)
  /\ c[w] = b[w]
  /\ \A v \in Word \ {w} : c[v] = a[v]

(* Storing one word of a slice of a status leaves a slice of that status.   *)
LEMMA TornSlice ==
  ASSUME NEW s, NEW a \in SliceOf(s), NEW b \in SliceOf(s), NEW w \in Word
  PROVE  Torn(Tear(a, w, b), a, w, b, s)
<1>1. CASE w = "ptr"
  BY <1>1 DEF SliceOf, Word, Tear, Torn
<1>2. CASE w = "len"
  BY <1>2 DEF SliceOf, Word, Tear, Torn
<1>3. QED BY <1>1, <1>2 DEF Word

LEMMA LookupOwn ==
  ASSUME NEW s
  PROVE  Lookup(s) \in SliceOf(s) /\ Nil \in SliceOf(s) /\ Dash \in SliceOf(s)
BY LookupSlice DEF SliceOf, Nil, Dash

(* Only the status's page can be found through its slices.                  *)
LEMMA FoundOwn ==
  ASSUME NEW s, NEW a \in SliceOf(s), exists \subseteq Page, Found(a)
  PROVE  a.ptr = Lookup(s).ptr /\ a.ptr \in Page
BY ErrorPagesAssumption DEF SliceOf, Found

LEMMA InitIInv == Init => IInv
<1> SUFFICES ASSUME Init PROVE IInv
  OBVIOUS
<1>1. exists \subseteq Page /\ status \in [Request -> Status]
  BY DEF Init
<1>2. OwnSlices
  BY <1>1, LookupOwn DEF Init, OwnSlices
<1>3. QED BY <1>1, <1>2 DEF Init, IInv, BodyInv, Word

(* Every step keeps the slices of each status apart; only the memo and the  *)
(* loaded slices, and the body at the end, are disturbed.                   *)
LEMMA NextIInv == IInv /\ [Next]_vars => IInv'
<1> SUFFICES ASSUME IInv, [Next]_vars PROVE IInv'
  OBVIOUS
<1> USE DEF IInv
<1>1. ASSUME NEW r \in Request, Begin(r) PROVE IInv'
  BY <1>1 DEF Begin, OwnSlices, BodyInv
<1>2. ASSUME NEW r \in Request, NEW w \in Word, LoadWord(r, w) PROVE IInv'
  <2> DEFINE new == Tear(path[r], w, errorPaths[status[r]])
  <2>1. /\ path' = [path EXCEPT ![r] = new]
        /\ words' = [words EXCEPT ![r] = @ \ {w}]
        /\ UNCHANGED <<errorPaths, exists, pc, status, body>>
    BY <1>2 DEF LoadWord, Tear
  <2>2. new \in SliceOf(status[r]) /\ status[r] \in Status
    BY TornSlice DEF OwnSlices, Torn
  <2> HIDE DEF new
  <2>3. OwnSlices'
    BY <2>1, <2>2 DEF OwnSlices
  <2>4. QED BY <2>1, <2>3 DEF BodyInv
<1>3. ASSUME NEW r \in Request, Memoised(r) PROVE IInv'
  BY <1>3 DEF Memoised, Loaded, OwnSlices, BodyInv
<1>4. ASSUME NEW r \in Request, HandleStatus(r) PROVE IInv'
  <2>1. OwnSlices'
    BY <1>4, LookupOwn DEF HandleStatus, OwnSlices
  <2>2. QED BY <1>4, <2>1 DEF HandleStatus, Loaded, BodyInv
<1>5. ASSUME NEW r \in Request, NEW w \in Word, StoreWord(r, w) PROVE IInv'
  <2> DEFINE new == Tear(errorPaths[status[r]], w, path[r])
  <2>1. /\ errorPaths' = [errorPaths EXCEPT ![status[r]] = new]
        /\ words' = [words EXCEPT ![r] = @ \ {w}]
        /\ UNCHANGED <<path, exists, pc, status, body>>
    BY <1>5 DEF StoreWord, Tear
  <2>2. new \in SliceOf(status[r]) /\ status[r] \in Status
    BY TornSlice DEF OwnSlices, Torn
  <2> HIDE DEF new
  <2>3. OwnSlices'
    BY <2>1, <2>2 DEF OwnSlices
  <2>4. QED BY <2>1, <2>3 DEF BodyInv
<1>6. ASSUME NEW r \in Request, Stored(r) PROVE IInv'
  BY <1>6 DEF Stored, OwnSlices, BodyInv
<1>7. ASSUME NEW r \in Request, SendDefault(r) PROVE IInv'
  BY <1>7 DEF SendDefault, Answer, DefaultError, OwnSlices, BodyInv
<1>8. ASSUME NEW r \in Request, ServePage(r) PROVE IInv'
  <2>1. path[r].ptr = Lookup(status[r]).ptr /\ path[r].ptr \in Page
    BY <1>8, FoundOwn DEF ServePage, OwnSlices
  <2>2. QED BY <1>8, <2>1 DEF ServePage, CallsFS, Answer, OwnSlices, BodyInv
<1>9. ASSUME NEW r \in Request, PageFails(r) PROVE IInv'
  <2>1. OwnSlices'
    BY <1>9, LookupOwn DEF PageFails, OwnSlices
  <2>2. QED BY <1>9, <2>1 DEF PageFails, CallsFS, BodyInv
<1>10. ASSUME NEW r \in Request, Failed(r) PROVE IInv'
  BY <1>10 DEF Failed, Answer, OwnSlices, BodyInv
<1>11. ASSUME NEW p \in Page, ChangeFile(p) PROVE IInv'
  BY <1>11 DEF ChangeFile, OwnSlices, BodyInv
<1>12. CASE UNCHANGED vars
  BY <1>12 DEF vars, OwnSlices, BodyInv
<1>13. QED
  BY <1>1, <1>2, <1>3, <1>4, <1>5, <1>6, <1>7, <1>8, <1>9, <1>10, <1>11, <1>12
     DEF Next, Handle

(* The slices of the memo, however they are torn, stay with their status:   *)
(* the invariant the two theorems on answers rest on.                       *)
THEOREM ErrorPagesInvariant == Spec => []IInv
BY InitIInv, NextIInv, PTL DEF Spec

(* An error is answered with the page of its own status, with the default   *)
(* error or with the handler's text, for every number of requests that      *)
(* store the memo's words in between (errorpages.go 54-80).                 *)
THEOREM ForeignTheorem == Spec => []NoForeignPage
<1>1. IInv => NoForeignPage
  BY DEF IInv, NoForeignPage, BodyInv, Answered
<1>2. QED BY <1>1, ErrorPagesInvariant, PTL

(* No error is answered without a body, nor with the file server's text     *)
(* (errorpages.go 102-112).                                                 *)
THEOREM BodyTheorem == Spec => []HasBody
<1>1. IInv => HasBody
  BY ErrorPagesAssumption DEF IInv, HasBody, BodyInv, Answered
<1>2. QED BY <1>1, ErrorPagesInvariant, PTL

------------------------------------------------------------------------------
(* For PagesServed *)

Paged(s) == Lookup(s).ptr \in Page

(* Until the file server fails a page of a status, errorPaths has nil or    *)
(* the status's slice, or a request is storing that slice.                  *)
MemoInv(s) ==
  /\ \A w \in Word : errorPaths[s][w] \in {Nil[w], Lookup(s)[w]}
  /\ \/ errorPaths[s] \in {Nil, Lookup(s)}
     \/ \E q \in Request : status[q] = s /\ pc[q] = "memo" /\ words[q] # {}

(* What a request has loaded or stored so far.                              *)
StoreInv(r) ==
  pc[r] = "memo" =>
    /\ path[r] = Lookup(status[r])
    /\ \A w \in Word \ words[r] : errorPaths[status[r]][w] = Lookup(status[r])[w]

(* A request that has been alone so far and is under way still is.          *)
AloneInv(r) ==
  alone[r] /\ UnderWay(r) => \A o \in Request \ {r} : ~UnderWay(o)

(* Alone, it sends the page of its status, and nothing but it.              *)
ServedInv(r) ==
  alone[r] =>
    /\ pc[r] = "load" =>
         \A w \in Word \ words[r] : path[r][w] = errorPaths[status[r]][w]
    /\ pc[r] = "send" => path[r] = Lookup(status[r])
    /\ pc[r] = "answered" => body[r] = Lookup(status[r]).ptr

PInv ==
  /\ alone \in [Request -> BOOLEAN]
  /\ \A r \in Request : pc[r] = "fail" => status[r] \in broken
  /\ \A r \in Request : AloneInv(r)
  /\ \A s \in Status \ broken : Paged(s) => MemoInv(s)
  /\ \A r \in Request : status[r] \notin broken /\ Paged(status[r]) => StoreInv(r) /\ ServedInv(r)

LEMMA SameSlice ==
  ASSUME NEW s, NEW a \in SliceOf(s), NEW b \in SliceOf(s),
         \A w \in Word : a[w] = b[w]
  PROVE  a = b
<1>1. a.ptr = b.ptr /\ a.len = b.len
  BY DEF Word
<1>2. QED BY <1>1 DEF SliceOf

LEMMA InitPInv == Init => PInv
BY DEF Init, PInv, AloneInv, MemoInv, StoreInv, ServedInv, UnderWay

LEMMA NextPInv == IInv /\ PInv /\ [Next]_vars => PInv'
<1> SUFFICES ASSUME IInv, PInv, [Next]_vars PROVE PInv'
  OBVIOUS
<1> USE DEF PInv
<1>t. /\ pc \in [Request -> {"arrives", "load", "memo", "send", "fail", "answered"}]
      /\ status \in [Request -> Status]
      /\ words \in [Request -> SUBSET Word]
      /\ body \in [Request -> Page \cup {"none", "own", "default", "fs"}]
      /\ exists \subseteq Page
      /\ OwnSlices
  BY DEF IInv
<1>1. ASSUME NEW r \in Request, Begin(r) PROVE PInv'
  <2>1. \A q \in Request : AloneInv(q)'
    BY <1>1, <1>t DEF Begin, AloneInv, UnderWay
  <2>2. \A s \in Status \ broken : Paged(s) => MemoInv(s)'
    BY <1>1, <1>t DEF Begin, MemoInv
  <2>3. \A q \in Request : status[q] \notin broken /\ Paged(status[q]) => StoreInv(q)' /\ ServedInv(q)'
    BY <1>1, <1>t DEF Begin, StoreInv, ServedInv
  <2>4. QED BY <1>1, <1>t, <2>1, <2>2, <2>3 DEF Begin, Paged
<1>2. ASSUME NEW r \in Request, NEW w \in Word, LoadWord(r, w) PROVE PInv'
  <2> DEFINE new == Tear(path[r], w, errorPaths[status[r]])
  <2>1. /\ path' = [path EXCEPT ![r] = new]
        /\ words' = [words EXCEPT ![r] = @ \ {w}]
        /\ UNCHANGED <<errorPaths, pc, status, body, alone, broken>>
        /\ pc[r] = "load"
    BY <1>2 DEF LoadWord, Tear
  <2>2. /\ new[w] = errorPaths[status[r]][w]
        /\ \A v \in Word \ {w} : new[v] = path[r][v]
    <3>1. /\ errorPaths[status[r]] \in SliceOf(status[r])
          /\ path[r] \in SliceOf(status[r])
      BY <1>t DEF OwnSlices
    <3>2. Torn(new, path[r], w, errorPaths[status[r]], status[r])
      BY <3>1, TornSlice
    <3>3. QED BY <3>2 DEF Torn
  <2> HIDE DEF new
  <2>3. \A q \in Request : AloneInv(q)'
    BY <2>1 DEF AloneInv, UnderWay
  <2>4. \A s \in Status \ broken : Paged(s) => MemoInv(s)'
    BY <2>1, <1>t DEF MemoInv
  <2>5. \A q \in Request : status[q] \notin broken /\ Paged(status[q]) => StoreInv(q)' /\ ServedInv(q)'
    BY <2>1, <2>2, <1>t DEF StoreInv, ServedInv, OwnSlices
  <2>6. QED BY <2>1, <2>3, <2>4, <2>5 DEF Paged
<1>3. ASSUME NEW r \in Request, Memoised(r) PROVE PInv'
  <2>1. \A q \in Request : AloneInv(q)'
    BY <1>3, <1>t DEF Memoised, Loaded, AloneInv, UnderWay
  <2>2. \A s \in Status \ broken : Paged(s) => MemoInv(s)'
    BY <1>3, <1>t DEF Memoised, Loaded, MemoInv
  <2>3. ASSUME status[r] \notin broken, Paged(status[r]), alone[r]
        PROVE  path[r] = Lookup(status[r])
    <3>1. errorPaths[status[r]] \in {Nil, Lookup(status[r])}
      BY <1>3, <1>t, <2>3 DEF Memoised, Loaded, MemoInv, AloneInv, UnderWay
    <3>2. \A v \in Word : path[r][v] = errorPaths[status[r]][v]
      BY <1>3, <2>3 DEF Memoised, Loaded, ServedInv
    <3>3. path[r] = errorPaths[status[r]]
      BY <3>2, <1>t, SameSlice DEF OwnSlices
    <3>4. QED BY <1>3, <3>1, <3>3 DEF Memoised, Nil
  <2>4. \A q \in Request : status[q] \notin broken /\ Paged(status[q]) => StoreInv(q)' /\ ServedInv(q)'
    BY <1>3, <1>t, <2>3 DEF Memoised, Loaded, StoreInv, ServedInv
  <2>5. QED BY <1>3, <1>t, <2>1, <2>2, <2>4 DEF Memoised, Paged
<1>4. ASSUME NEW r \in Request, HandleStatus(r) PROVE PInv'
  <2>1. \A q \in Request : AloneInv(q)'
    BY <1>4, <1>t DEF HandleStatus, Loaded, AloneInv, UnderWay
  <2>2. \A s \in Status \ broken : Paged(s) => MemoInv(s)'
    BY <1>4, <1>t DEF HandleStatus, Loaded, MemoInv
  <2>3. \A q \in Request : status[q] \notin broken /\ Paged(status[q]) => StoreInv(q)' /\ ServedInv(q)'
    BY <1>4, <1>t DEF HandleStatus, Loaded, StoreInv, ServedInv, OwnSlices
  <2>4. QED BY <1>4, <1>t, <2>1, <2>2, <2>3 DEF HandleStatus, Loaded, Paged
<1>5. ASSUME NEW r \in Request, NEW w \in Word, StoreWord(r, w) PROVE PInv'
  <2> DEFINE s0 == status[r]
             new == Tear(errorPaths[s0], w, path[r])
  <2>1. /\ errorPaths' = [errorPaths EXCEPT ![s0] = new]
        /\ words' = [words EXCEPT ![r] = @ \ {w}]
        /\ UNCHANGED <<path, pc, status, body, alone, broken>>
        /\ pc[r] \in {"memo", "fail"}
    BY <1>5 DEF StoreWord, Tear
  <2>2. /\ new[w] = path[r][w]
        /\ \A v \in Word \ {w} : new[v] = errorPaths[s0][v]
        /\ new \in SliceOf(s0) /\ s0 \in Status
    <3>1. /\ errorPaths[s0] \in SliceOf(s0) /\ s0 \in Status
          /\ path[r] \in SliceOf(s0)
      BY <1>t DEF OwnSlices
    <3>2. Torn(new, errorPaths[s0], w, path[r], s0)
      BY <3>1, TornSlice
    <3>3. QED BY <3>1, <3>2 DEF Torn
  <2>3. errorPaths'[s0] = new /\ \A s \in Status \ {s0} : errorPaths'[s] = errorPaths[s]
    BY <2>1, <2>2, <1>t DEF OwnSlices
  <2> HIDE DEF new
  <2>4. \A q \in Request : AloneInv(q)'
    BY <2>1 DEF AloneInv, UnderWay
  <2>5. ASSUME NEW s \in Status \ broken, Paged(s) PROVE MemoInv(s)'
    <3>1. CASE s # s0
      <4>1. \A v \in Word : errorPaths'[s][v] \in {Nil[v], Lookup(s)[v]}
        BY <2>3, <2>5, <3>1 DEF MemoInv
      <4>2. \/ errorPaths'[s] \in {Nil, Lookup(s)}
            \/ \E q \in Request : status'[q] = s /\ pc'[q] = "memo" /\ words'[q] # {}
        BY <2>1, <2>3, <2>5, <3>1, <1>t DEF MemoInv
      <4>3. QED BY <4>1, <4>2 DEF MemoInv
    <3>2. CASE s = s0
      <4>1. pc[r] = "memo" /\ StoreInv(r)
        BY <2>1, <2>5, <3>2
      <4>2. new[w] = Lookup(s)[w] /\ \A v \in Word \ words[r] : errorPaths[s][v] = Lookup(s)[v]
        BY <4>1, <2>2, <3>2 DEF StoreInv
      <4>3. \A v \in Word : errorPaths'[s][v] \in {Nil[v], Lookup(s)[v]}
        BY <2>3, <2>2, <2>5, <3>2, <4>2 DEF MemoInv
      <4>4. CASE words'[r] # {}
        BY <2>1, <4>1, <4>3, <4>4, <3>2 DEF MemoInv
      <4>5. CASE words'[r] = {}
        <5>1. \A v \in Word : new[v] = Lookup(s)[v]
          BY <2>1, <2>2, <4>2, <4>5, <3>2, <1>t
        <5>2. new = Lookup(s)
          BY <5>1, <2>2, <3>2, SameSlice, LookupOwn
        <5>3. QED BY <5>2, <2>3, <3>2, <4>3 DEF MemoInv
      <4>6. QED BY <4>4, <4>5
    <3>3. QED BY <3>1, <3>2
  <2>6. ASSUME NEW q \in Request, status[q] \notin broken, Paged(status[q])
        PROVE  StoreInv(q)' /\ ServedInv(q)'
    <3>1. StoreInv(q) /\ ServedInv(q)
      BY <2>6
    <3>2. CASE status[q] # s0
      BY <2>1, <2>3, <3>1, <3>2, <1>t DEF StoreInv, ServedInv
    <3>3. CASE status[q] = s0
      <4>1. pc[r] = "memo" /\ new[w] = Lookup(s0)[w]
        BY <2>1, <2>2, <2>6, <3>3 DEF StoreInv
      <4>2. StoreInv(q)'
        BY <2>1, <2>2, <2>3, <3>1, <3>3, <4>1, <1>t DEF StoreInv
      <4>3. alone[q] => pc[q] # "load"
        BY <4>1 DEF AloneInv, UnderWay
      <4>4. ServedInv(q)'
        BY <2>1, <3>1, <4>3 DEF ServedInv
      <4>5. QED BY <4>2, <4>4
    <3>4. QED BY <3>2, <3>3
  <2>7. QED BY <2>1, <2>4, <2>5, <2>6 DEF Paged
<1>6. ASSUME NEW r \in Request, Stored(r) PROVE PInv'
  <2>1. \A q \in Request : AloneInv(q)'
    BY <1>6, <1>t DEF Stored, AloneInv, UnderWay
  <2>2. \A s \in Status \ broken : Paged(s) => MemoInv(s)'
    BY <1>6, <1>t DEF Stored, MemoInv
  <2>3. \A q \in Request : status[q] \notin broken /\ Paged(status[q]) => StoreInv(q)' /\ ServedInv(q)'
    BY <1>6, <1>t DEF Stored, StoreInv, ServedInv
  <2>4. QED BY <1>6, <1>t, <2>1, <2>2, <2>3 DEF Stored, Paged
<1>7. ASSUME NEW r \in Request, SendDefault(r) \/ ServePage(r) \/ Failed(r) PROVE PInv'
  <2>1. /\ pc' = [pc EXCEPT ![r] = "answered"]
        /\ pc[r] \in {"send", "fail"}
        /\ UNCHANGED <<errorPaths, status, path, words, alone, broken>>
        /\ \A q \in Request \ {r} : body'[q] = body[q]
    BY <1>7, <1>t DEF SendDefault, ServePage, CallsFS, Failed, Answer
  <2>2. \A q \in Request : AloneInv(q)'
    BY <2>1, <1>t DEF AloneInv, UnderWay
  <2>3. \A s \in Status \ broken : Paged(s) => MemoInv(s)'
    BY <2>1, <1>t DEF MemoInv
  <2>4. ASSUME status[r] \notin broken, Paged(status[r]), alone[r]
        PROVE  body'[r] = Lookup(status[r]).ptr
    <3>1. pc[r] = "send" /\ path[r] = Lookup(status[r])
      BY <2>1, <2>4 DEF ServedInv
    <3>2. path[r].len = 2
      BY <3>1, <2>4, LookupSlice DEF Paged
    <3>3. ServePage(r)
      BY <1>7, <3>1, <3>2 DEF SendDefault, Failed, Dash
    <3>4. QED BY <3>1, <3>3, <1>t DEF ServePage, Answer
  <2>5. \A q \in Request : status[q] \notin broken /\ Paged(status[q]) => StoreInv(q)' /\ ServedInv(q)'
    BY <2>1, <2>4, <1>t DEF StoreInv, ServedInv
  <2>6. QED BY <2>1, <2>2, <2>3, <2>5, <1>t DEF Paged
<1>8. ASSUME NEW r \in Request, PageFails(r) PROVE PInv'
  <2>1. /\ pc' = [pc EXCEPT ![r] = "fail"] /\ pc[r] = "send"
        /\ UNCHANGED <<errorPaths, status, alone>>
        /\ broken' = broken \cup {status[r]}
        /\ \A q \in Request \ {r} :
             body'[q] = body[q] /\ path'[q] = path[q] /\ words'[q] = words[q]
    BY <1>8, <1>t DEF PageFails, CallsFS, OwnSlices
  <2>2. \A q \in Request : AloneInv(q)'
    BY <2>1, <1>t DEF AloneInv, UnderWay
  <2>3. \A s \in Status \ broken' : Paged(s) => MemoInv(s)'
    BY <2>1, <1>t DEF MemoInv
  <2>4. \A q \in Request : status[q] \notin broken' /\ Paged(status[q]) => StoreInv(q)' /\ ServedInv(q)'
    BY <2>1, <1>t DEF StoreInv, ServedInv
  <2>5. QED BY <2>1, <2>2, <2>3, <2>4, <1>t DEF Paged
<1>9. ASSUME NEW p \in Page, ChangeFile(p) PROVE PInv'
  BY <1>9 DEF ChangeFile, AloneInv, MemoInv, StoreInv, ServedInv, UnderWay, Paged
<1>10. CASE UNCHANGED vars
  BY <1>10 DEF vars, AloneInv, MemoInv, StoreInv, ServedInv, UnderWay, Paged
<1>11. QED
  BY <1>1, <1>2, <1>3, <1>4, <1>5, <1>6, <1>7, <1>8, <1>9, <1>10 DEF Next, Handle

(* A request that overlaps with no other gets the page of its status, as    *)
(* long as the file server has never failed that status, whatever torn      *)
(* words the requests before it left in errorPaths (errorpages.go 47-80).   *)
THEOREM ServedTheorem == Spec => []PagesServed
<1>1. IInv /\ PInv => PagesServed
  BY DEF IInv, PInv, ServedInv, PagesServed, OwedPage, Answered, Paged
<1>2. Init => IInv /\ PInv
  BY InitIInv, InitPInv
<1>3. (IInv /\ PInv) /\ [Next]_vars => (IInv /\ PInv)'
  BY NextIInv, NextPInv
<1>4. QED BY <1>1, <1>2, <1>3, PTL DEF Spec
=============================================================================
