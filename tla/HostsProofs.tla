----------------------------- MODULE HostsProofs -----------------------------
(***************************************************************************)
(* Theorems about Hosts, for every set of hosts, listeners, files and      *)
(* requests, and every length of line and buffer.                          *)
(***************************************************************************)
EXTENDS Hosts, SequenceTheorems, FiniteSetTheorems, TLAPS

W == INSTANCE WellFoundedInduction

Starting == stage \in {"logger", "accessLog", "ready", "listen"}
Constructing == stage \in {"logger", "accessLog", "ready"}
Closing == stage \in {"closing", "exited"}

(* The listener whose hosts are being built, and how many of them have an   *)
(* access log and an error log.                                             *)
Current == HostsOf[Head(groups)]
accessLogs == IF stage = "ready" THEN built + 1 ELSE built
errorLogs == IF stage = "logger" THEN built ELSE built + 1

Untouched(h) == ~usable[h] /\ h \notin loggers /\ h \notin Range(deferred)

(* The hosts of the listeners that are served have their logs, those of the *)
(* listeners to come have none, and of those that are being built the first *)
(* ones have.                                                               *)
ServedHosts ==
  \A h \in Range(deferred) : usable[h] /\ (LogOutput[h] # NoFile => h \in loggers)

HostsToCome ==
  \A l \in Range(Tail(groups)) : \A h \in Range(HostsOf[l]) : Untouched(h)

HostsBeingBuilt ==
  \A j \in 1 .. Len(Current) :
    /\ Current[j] \notin Range(deferred)
    /\ usable[Current[j]] <=> j <= accessLogs
    /\ Current[j] \in loggers <=> j <= errorLogs /\ LogOutput[Current[j]] # NoFile

(* Every host is built once, and has its logs from then until it closes.    *)
BuildInv ==
  /\ IsInjective(deferred)
  /\ ~Closing => toClose = <<>> /\ closing = "no" /\ accepting \subseteq Range(deferred) /\ ServedHosts
  /\ Starting => groups # <<>> /\ IsInjective(groups) /\ HostsToCome
  /\ Constructing => built < Len(Current) /\ HostsBeingBuilt
  /\ stage = "listen" => built = 0 /\ Range(Current) \subseteq Range(deferred)

(* The hosts still to be closed have their logs; the one that is being      *)
(* closed has its log until the count of its file is taken back.            *)
CloseInv ==
  /\ closing # "no" => stage = "closing" /\ toClose # <<>>
  /\ stage = "exited" => toClose = <<>>
  /\ IsInjective(toClose)
  /\ toClose # <<>> => \A h \in Range(Tail(toClose)) : usable[h]
  /\ toClose # <<>> /\ closing \notin {"remove", "file"} => usable[Head(toClose)]

(* A file that no log uses leaves the map before it is closed.              *)
CountInv ==
  /\ CountsUsers
  /\ closing \in {"remove", "file"} => shared[Output[Head(toClose)]] = 0
  /\ closing = "remove" => Output[Head(toClose)] \in sharedRotators

(* When run drains, Close begins after the last request that logs.          *)
Logging == \E r \in Request : pc[r] \in {"append", "write", "rest"}

ReadyInv ==
  /\ \A r \in Request : pc[r] \in {"append", "write", "rest"} => HostOf[r] \in accepting
  /\ drained /\ Closing /\ Logging => closing = "no" /\ accepting \subseteq Range(toClose)
  /\ LogIsReady

(* A line in a buffer is of a host that accepts and has not been closed.    *)
Flushable(h) == bw[h] # <<>> /\ ~failed[h]

BufferInv ==
  \A h \in Host : Flushable(h) =>
    /\ h \in accepting
    /\ drained /\ Closing =>
         h \in Range(toClose) /\ (h = Head(toClose) => closing \in {"no", "flush"})

OpenInv ==
  drained => \A f \in File : open[f] =>
    \/ shared[f] > 0
    \/ closing \in {"remove", "file"} /\ f = Output[Head(toClose)]

(* A line that is cut between two writes leaves the buffer empty, and has a *)
(* request that writes on.                                                  *)
HeldInv ==
  \A h \in Host : Held(h) =>
    /\ bw[h] = <<>> /\ ~failed[h]
    /\ \E r \in Request : HostOf[r] = h /\ pc[r] = "rest"

IInv == TypeOK /\ BuildInv /\ CloseInv /\ CountInv /\ ReadyInv /\ BufferInv /\ OpenInv /\ HeldInv

------------------------------------------------------------------------------
(* Sequences *)

(* The elements of a sequence are those at its positions.                   *)
LEMMA Elements ==
  ASSUME NEW S, NEW s \in Seq(S)
  PROVE  Range(s) = {s[i] : i \in 1 .. Len(s)}
  <1>1. DOMAIN s = 1 .. Len(s)
    BY LenProperties
  <1>2. Range(s) = {s[i] : i \in 1 .. Len(s)}
    BY <1>1 DEF Range
  <1> QED BY <1>2

LEMMA InRange ==
  ASSUME NEW S, NEW s \in Seq(S)
  PROVE  \A i \in 1 .. Len(s) : s[i] \in Range(s)
  BY Elements

LEMMA RangeType ==
  ASSUME NEW S, NEW s \in Seq(S)
  PROVE  Range(s) \subseteq S
  BY Elements, ElementOfSeq

LEMMA AtSomePlace ==
  ASSUME NEW S, NEW s \in Seq(S), NEW x
  PROVE  x \in Range(s) <=> \E i \in 1 .. Len(s) : s[i] = x
  BY Elements

(* A sequence is its head and its tail.                                     *)
LEMMA HeadAndTail ==
  ASSUME NEW S, NEW s \in Seq(S), s # <<>>
  PROVE  /\ Head(s) \in S /\ Tail(s) \in Seq(S)
         /\ Len(s) > 0 /\ Head(s) = s[1]
         /\ Len(Tail(s)) = Len(s) - 1
         /\ \A i \in 1 .. Len(Tail(s)) : Tail(s)[i] = s[i + 1]
         /\ Range(s) = {Head(s)} \cup Range(Tail(s))
  <1>1. /\ Head(s) \in S /\ Tail(s) \in Seq(S)
        /\ Len(s) \in Nat /\ Len(s) > 0 /\ Head(s) = s[1]
        /\ Len(Tail(s)) = Len(s) - 1
        /\ \A i \in 1 .. Len(Tail(s)) : Tail(s)[i] = s[i + 1]
    BY HeadTailProperties, EmptySeq
  <1>2. ASSUME NEW x
        PROVE  x \in Range(s) <=> x = Head(s) \/ x \in Range(Tail(s))
    <2>1. x \in Range(s) <=> \E i \in 1 .. Len(s) : s[i] = x
      BY AtSomePlace
    <2>2. x \in Range(Tail(s)) <=> \E i \in 1 .. Len(s) - 1 : s[i + 1] = x
      <3>1. x \in Range(Tail(s)) <=> \E i \in 1 .. Len(Tail(s)) : Tail(s)[i] = x
        BY <1>1, AtSomePlace, ZenonT(30)
      <3> QED BY <1>1, <3>1
    <2>3. (\E i \in 1 .. Len(s) : s[i] = x) <=> x = s[1] \/ \E i \in 1 .. Len(s) - 1 : s[i + 1] = x
      <3>1. ASSUME NEW i \in 1 .. Len(s), s[i] = x, i # 1
            PROVE  i - 1 \in 1 .. Len(s) - 1 /\ s[(i - 1) + 1] = x
        BY <1>1, <3>1
      <3>2. ASSUME NEW i \in 1 .. Len(s) - 1, s[i + 1] = x
            PROVE  i + 1 \in 1 .. Len(s) /\ s[i + 1] = x
        BY <1>1, <3>2
      <3>3. 1 \in 1 .. Len(s)
        BY <1>1
      <3>4. ASSUME \E i \in 1 .. Len(s) : s[i] = x
            PROVE  x = s[1] \/ \E i \in 1 .. Len(s) - 1 : s[i + 1] = x
        <4>1. PICK i \in 1 .. Len(s) : s[i] = x
          BY <3>4
        <4>2. CASE i = 1
          BY <4>1, <4>2
        <4>3. CASE i # 1
          BY <3>1, <4>1, <4>3
        <4> QED BY <4>2, <4>3
      <3> QED BY <3>2, <3>3, <3>4
    <2> QED BY <1>1, <2>1, <2>2, <2>3
  <1> QED BY <1>1, <1>2

(* The tail of a sequence without repetitions has none, nor its head.       *)
LEMMA TailInjective ==
  ASSUME NEW S, NEW s \in Seq(S), s # <<>>, IsInjective(s)
  PROVE  IsInjective(Tail(s)) /\ Head(s) \notin Range(Tail(s))
  <1>1. \A i, j \in 1 .. Len(s) : s[i] = s[j] => i = j
    BY DEF IsInjective
  <1>2. /\ Len(s) \in Nat /\ Len(s) > 0 /\ Head(s) = s[1] /\ Tail(s) \in Seq(S)
        /\ Len(Tail(s)) = Len(s) - 1
        /\ \A i \in 1 .. Len(Tail(s)) : Tail(s)[i] = s[i + 1]
    BY HeadAndTail
  <1>3. \A i, j \in 1 .. Len(Tail(s)) : Tail(s)[i] = Tail(s)[j] => i = j
    BY <1>1, <1>2
  <1>4. \A i \in 1 .. Len(Tail(s)) : Tail(s)[i] # Head(s)
    BY <1>1, <1>2
  <1>5. DOMAIN Tail(s) = 1 .. Len(Tail(s)) /\ Range(Tail(s)) = {Tail(s)[i] : i \in 1 .. Len(Tail(s))}
    BY <1>2, Elements, LenProperties
  <1> QED BY <1>3, <1>4, <1>5 DEF IsInjective

(* Two sequences without repetitions and without a common element, one      *)
(* after the other.                                                         *)
LEMMA ConcatInjective ==
  ASSUME NEW S, NEW s \in Seq(S), NEW t \in Seq(S)
  PROVE  /\ s \o t \in Seq(S)
         /\ Range(s \o t) = Range(s) \cup Range(t)
         /\ IsInjective(s) /\ IsInjective(t) /\ Range(s) \cap Range(t) = {} => IsInjective(s \o t)
  <1>1. /\ s \o t \in Seq(S)
        /\ Len(s) \in Nat /\ Len(t) \in Nat /\ Len(s \o t) = Len(s) + Len(t)
        /\ \A i \in 1 .. Len(s) + Len(t) : (s \o t)[i] = IF i <= Len(s) THEN s[i] ELSE t[i - Len(s)]
    BY ConcatProperties
  <1>2. \A i \in 1 .. Len(s) : i \in 1 .. Len(s) + Len(t) /\ (s \o t)[i] = s[i]
    BY <1>1
  <1>3. \A i \in 1 .. Len(t) : i + Len(s) \in 1 .. Len(s) + Len(t) /\ (s \o t)[i + Len(s)] = t[i]
    BY <1>1
  <1>4. \A i \in 1 .. Len(s) + Len(t) : i \in 1 .. Len(s) \/ i - Len(s) \in 1 .. Len(t)
    BY <1>1
  <1>5. ASSUME NEW x
        PROVE  x \in Range(s \o t) <=> x \in Range(s) \/ x \in Range(t)
    <2>1. /\ x \in Range(s \o t) <=> \E i \in 1 .. Len(s) + Len(t) : (s \o t)[i] = x
          /\ x \in Range(s) <=> \E i \in 1 .. Len(s) : s[i] = x
          /\ x \in Range(t) <=> \E i \in 1 .. Len(t) : t[i] = x
      BY <1>1, AtSomePlace
    <2>2. ASSUME NEW i \in 1 .. Len(s) + Len(t), (s \o t)[i] = x
          PROVE  (\E k \in 1 .. Len(s) : s[k] = x) \/ (\E k \in 1 .. Len(t) : t[k] = x)
      BY <1>1, <1>4, <2>2
    <2> QED BY <1>2, <1>3, <2>1, <2>2
  <1>6. ASSUME IsInjective(s), IsInjective(t), Range(s) \cap Range(t) = {}
        PROVE  IsInjective(s \o t)
    <2>1. /\ \A i, j \in 1 .. Len(s) : s[i] = s[j] => i = j
          /\ \A i, j \in 1 .. Len(t) : t[i] = t[j] => i = j
      BY <1>6 DEF IsInjective
    <2>2. \A i \in 1 .. Len(s), j \in 1 .. Len(t) : s[i] # t[j]
      <3>1. /\ \A i \in 1 .. Len(s) : s[i] \in Range(s)
            /\ \A j \in 1 .. Len(t) : t[j] \in Range(t)
        BY InRange
      <3> QED BY <1>6, <3>1
    <2>3. ASSUME NEW i \in 1 .. Len(s) + Len(t), NEW j \in 1 .. Len(s) + Len(t),
                 (s \o t)[i] = (s \o t)[j]
          PROVE  i = j
      <3>1. CASE i <= Len(s) /\ j <= Len(s)
        BY <1>1, <2>1, <2>3, <3>1
      <3>2. CASE i > Len(s) /\ j > Len(s)
        BY <1>1, <2>1, <2>3, <3>2
      <3>3. CASE i <= Len(s) /\ j > Len(s)
        BY <1>1, <2>2, <2>3, <3>3
      <3>4. CASE i > Len(s) /\ j <= Len(s)
        BY <1>1, <2>2, <2>3, <3>4
      <3> QED BY <1>1, <3>1, <3>2, <3>3, <3>4
    <2> QED BY <1>1, <2>3 DEF IsInjective
  <1> QED BY <1>1, <1>5, <1>6

------------------------------------------------------------------------------
(* The hosts of the listeners *)

(* A listener has hosts, each of them once.                                 *)
LEMMA OwnHosts ==
  ASSUME NEW l \in Listen
  PROVE  /\ HostsOf[l] \in Seq(Host) /\ Len(HostsOf[l]) \in Nat \ {0}
         /\ IsInjective(HostsOf[l])
         /\ \A i, j \in 1 .. Len(HostsOf[l]) : HostsOf[l][i] = HostsOf[l][j] => i = j
  <1>1. HostsOf[l] \in Seq(Host) /\ HostsOf[l] # <<>>
    BY HostsAssumption
  <1>2. Len(HostsOf[l]) \in Nat \ {0}
    BY <1>1, EmptySeq
  <1>3. \A i, j \in 1 .. Len(HostsOf[l]) : HostsOf[l][i] = HostsOf[l][j] => i = j
    BY <1>1, HostsAssumption
  <1> QED BY <1>1, <1>2, <1>3 DEF IsInjective

(* No host is of two listeners.                                             *)
LEMMA OtherHosts ==
  ASSUME NEW l \in Listen, NEW k \in Listen, l # k
  PROVE  Range(HostsOf[l]) \cap Range(HostsOf[k]) = {}
  <1>1. HostsOf[l] \in Seq(Host) /\ HostsOf[k] \in Seq(Host)
    BY HostsAssumption
  <1>2. \A i \in 1 .. Len(HostsOf[l]), j \in 1 .. Len(HostsOf[k]) : HostsOf[l][i] # HostsOf[k][j]
    BY <1>1, HostsAssumption
  <1>3. /\ Range(HostsOf[l]) = {HostsOf[l][i] : i \in 1 .. Len(HostsOf[l])}
        /\ Range(HostsOf[k]) = {HostsOf[k][i] : i \in 1 .. Len(HostsOf[k])}
    BY <1>1, Elements
  <1> QED BY <1>2, <1>3


------------------------------------------------------------------------------
(* Counting the users of a file *)

Logged(hosts, f) == {h \in hosts : LogOutput[h] = f}
Opened(u, f) == {h \in Host : u[h] /\ Output[h] = f}

LEMMA CountType ==
  ASSUME NEW hosts \in SUBSET Host, NEW u, NEW f
  PROVE  /\ IsFiniteSet(Logged(hosts, f)) /\ Cardinality(Logged(hosts, f)) \in Nat
         /\ IsFiniteSet(Opened(u, f)) /\ Cardinality(Opened(u, f)) \in Nat
  <1>1. IsFiniteSet(Host)
    BY HostsAssumption
  <1>2. Logged(hosts, f) \in SUBSET Host /\ Opened(u, f) \in SUBSET Host
    BY DEF Logged, Opened
  <1>3. IsFiniteSet(Logged(hosts, f)) /\ IsFiniteSet(Opened(u, f))
    BY <1>1, <1>2, FS_Subset
  <1> QED BY <1>3, FS_CardinalityType

(* One more error log, or one more access log.                              *)
LEMMA CountLogged ==
  ASSUME NEW hosts \in SUBSET Host, NEW h \in Host, h \notin hosts, NEW f
  PROVE  Cardinality(Logged(hosts \cup {h}, f)) =
           IF LogOutput[h] = f THEN Cardinality(Logged(hosts, f)) + 1 ELSE Cardinality(Logged(hosts, f))
  <1>1. CASE LogOutput[h] = f
    <2>1. Logged(hosts \cup {h}, f) = Logged(hosts, f) \cup {h} /\ h \notin Logged(hosts, f)
      BY <1>1 DEF Logged
    <2>2. IsFiniteSet(Logged(hosts, f))
      BY CountType
    <2> QED BY <1>1, <2>1, <2>2, FS_AddElement
  <1>2. CASE LogOutput[h] # f
    <2>1. Logged(hosts \cup {h}, f) = Logged(hosts, f)
      BY <1>2 DEF Logged
    <2> QED BY <1>2, <2>1
  <1> QED BY <1>1, <1>2

LEMMA CountOpened ==
  ASSUME NEW u \in [Host -> BOOLEAN], NEW h \in Host, ~u[h], NEW f
  PROVE  Cardinality(Opened([u EXCEPT ![h] = TRUE], f)) =
           IF Output[h] = f THEN Cardinality(Opened(u, f)) + 1 ELSE Cardinality(Opened(u, f))
  <1>1. CASE Output[h] = f
    <2>1. Opened([u EXCEPT ![h] = TRUE], f) = Opened(u, f) \cup {h} /\ h \notin Opened(u, f)
      BY <1>1 DEF Opened
    <2>2. IsFiniteSet(Opened(u, f))
      BY CountType
    <2> QED BY <1>1, <2>1, <2>2, FS_AddElement
  <1>2. CASE Output[h] # f
    <2>1. Opened([u EXCEPT ![h] = TRUE], f) = Opened(u, f)
      BY <1>2 DEF Opened
    <2> QED BY <1>2, <2>1
  <1> QED BY <1>1, <1>2

(* One access log less.                                                     *)
LEMMA CountDropped ==
  ASSUME NEW u \in [Host -> BOOLEAN], NEW h \in Host, u[h], NEW f
  PROVE  Cardinality(Opened([u EXCEPT ![h] = FALSE], f)) =
           IF Output[h] = f THEN Cardinality(Opened(u, f)) - 1 ELSE Cardinality(Opened(u, f))
  <1>1. CASE Output[h] = f
    <2>1. Opened([u EXCEPT ![h] = FALSE], f) = Opened(u, f) \ {h} /\ h \in Opened(u, f)
      BY <1>1 DEF Opened
    <2>2. IsFiniteSet(Opened(u, f))
      BY CountType
    <2> QED BY <1>1, <2>1, <2>2, FS_RemoveElement
  <1>2. CASE Output[h] # f
    <2>1. Opened([u EXCEPT ![h] = FALSE], f) = Opened(u, f)
      BY <1>2 DEF Opened
    <2> QED BY <1>2, <2>1
  <1> QED BY <1>1, <1>2

(* The count of a file is the number of its users, and a log counts.        *)
LEMMA UsersCount ==
  ASSUME TypeOK
  PROVE  \A f \in File :
           /\ Users(f) = Cardinality(Logged(loggers, f)) + Cardinality(Opened(usable, f))
           /\ Cardinality(Logged(loggers, f)) \in Nat /\ Cardinality(Opened(usable, f)) \in Nat
           /\ \A h \in Host : h \in loggers /\ LogOutput[h] = f => Users(f) > 0
           /\ \A h \in Host : usable[h] /\ Output[h] = f => Users(f) > 0
  <1> SUFFICES ASSUME NEW f \in File
      PROVE  /\ Users(f) = Cardinality(Logged(loggers, f)) + Cardinality(Opened(usable, f))
             /\ Cardinality(Logged(loggers, f)) \in Nat /\ Cardinality(Opened(usable, f)) \in Nat
             /\ \A h \in Host : h \in loggers /\ LogOutput[h] = f => Users(f) > 0
             /\ \A h \in Host : usable[h] /\ Output[h] = f => Users(f) > 0
    OBVIOUS
  <1>1. loggers \in SUBSET Host
    BY DEF TypeOK
  <1>2. /\ IsFiniteSet(Logged(loggers, f)) /\ Cardinality(Logged(loggers, f)) \in Nat
        /\ IsFiniteSet(Opened(usable, f)) /\ Cardinality(Opened(usable, f)) \in Nat
    BY <1>1, CountType
  <1>3. Users(f) = Cardinality(Logged(loggers, f)) + Cardinality(Opened(usable, f))
    BY DEF Users, Logged, Opened
  <1>4. ASSUME NEW h \in Host, h \in loggers, LogOutput[h] = f
        PROVE  Cardinality(Logged(loggers, f)) > 0
    <2>1. h \in Logged(loggers, f)
      BY <1>4 DEF Logged
    <2>2. Cardinality(Logged(loggers, f)) # 0
      BY <1>2, <2>1, FS_EmptySet
    <2> QED BY <1>2, <2>2
  <1>5. ASSUME NEW h \in Host, usable[h], Output[h] = f
        PROVE  Cardinality(Opened(usable, f)) > 0
    <2>1. h \in Opened(usable, f)
      BY <1>5 DEF Opened
    <2>2. Cardinality(Opened(usable, f)) # 0
      BY <1>2, <2>1, FS_EmptySet
    <2> QED BY <1>2, <2>2
  <1> QED BY <1>2, <1>3, <1>4, <1>5


------------------------------------------------------------------------------
(* The initial states *)

LEMMA InitIInv ==
  ASSUME Init
  PROVE  IInv
  <1>0. /\ built = 0 /\ deferred = <<>> /\ accepting = {} /\ loggers = {} /\ drained \in BOOLEAN
        /\ shared = [f \in File |-> 0] /\ sharedRotators = {} /\ open = [f \in File |-> FALSE]
        /\ usable = [h \in Host |-> FALSE] /\ bw = [h \in Host |-> <<>>]
        /\ closing = "no" /\ toClose = <<>> /\ pc = [r \in Request |-> "handling"]
    BY DEF Init, InitLogs
  <1>1. groups \in Seq(Listen) /\ IsInjective(groups)
    <2>1. Cardinality(Listen) \in Nat
      BY HostsAssumption, FS_CardinalityType
    <2>2. /\ groups \in [1 .. Cardinality(Listen) -> Listen]
          /\ \A i, j \in 1 .. Cardinality(Listen) : i # j => groups[i] # groups[j]
      BY DEF Init, SetToSeqs
    <2>3. groups \in Seq(Listen)
      BY <2>1, <2>2
    <2>4. DOMAIN groups = 1 .. Cardinality(Listen)
      BY <2>2
    <2> QED BY <2>2, <2>3, <2>4 DEF IsInjective
  <1>2. /\ deferred = <<>> /\ toClose = <<>> /\ Range(deferred) = {} /\ Range(toClose) = {}
        /\ IsInjective(deferred) /\ IsInjective(toClose)
    BY <1>0 DEF Range, IsInjective
  <1>3. ~Closing /\ (stage = "logger" \/ stage = "serving") /\ (Starting => stage = "logger" /\ groups # <<>>)
    BY DEF Init, Closing, Starting
  <1>4. stage = "logger" =>
          /\ Head(groups) \in Listen
          /\ \A l \in Range(Tail(groups)) : l \in Listen
          /\ Current \in Seq(Host) /\ 0 < Len(Current)
    <2> SUFFICES ASSUME stage = "logger"
        PROVE  /\ Head(groups) \in Listen
               /\ \A l \in Range(Tail(groups)) : l \in Listen
               /\ Current \in Seq(Host) /\ 0 < Len(Current)
      OBVIOUS
    <2>1. groups # <<>>
      BY <1>3 DEF Starting
    <2>2. Head(groups) \in Listen /\ Tail(groups) \in Seq(Listen)
      BY <1>1, <2>1, HeadAndTail
    <2>3. Range(Tail(groups)) \subseteq Listen
      BY <2>2, RangeType
    <2> QED BY <2>2, <2>3, OwnHosts DEF Current
  <1>5. BuildInv
    <2>1. \A h \in Host : Untouched(h)
      BY <1>0, <1>2 DEF Untouched
    <2>2. ASSUME NEW l \in Listen
          PROVE  \A h \in Range(HostsOf[l]) : Untouched(h)
      BY <2>1, OwnHosts, RangeType
    <2>3. stage = "logger" => HostsToCome /\ \A j \in 1 .. Len(Current) : Untouched(Current[j])
      <3>1. stage = "logger" => \A j \in 1 .. Len(Current) : Current[j] \in Host
        <4> HAVE stage = "logger"
        <4>1. Current \in Seq(Host)
          BY <1>4
        <4> QED BY <4>1, ElementOfSeq
      <3> QED BY <1>4, <2>1, <2>2, <3>1 DEF HostsToCome
    <2>4. Constructing => HostsBeingBuilt
      <3>1. Constructing => stage = "logger" /\ accessLogs = 0 /\ errorLogs = 0
        BY <1>0, <1>3 DEF Constructing, accessLogs, errorLogs
      <3>2. \A j \in 1 .. Len(Current) : ~(j <= 0)
        BY <1>4
      <3> QED BY <1>0, <2>3, <3>1, <3>2 DEF Untouched, HostsBeingBuilt
    <2>5. ~Closing => toClose = <<>> /\ closing = "no" /\ accepting \subseteq Range(deferred) /\ ServedHosts
      BY <1>0, <1>2 DEF ServedHosts
    <2>6. Starting => groups # <<>> /\ IsInjective(groups) /\ HostsToCome
      BY <1>1, <1>3, <2>3
    <2>7. (Constructing => built < Len(Current)) /\ stage # "listen"
      BY <1>0, <1>3, <1>4 DEF Constructing
    <2> QED BY <1>2, <2>4, <2>5, <2>6, <2>7 DEF BuildInv
  <1>6. CloseInv
    BY <1>0, <1>2, <1>3 DEF CloseInv, Closing
  <1>7. TypeOK
    <2>1. LogTypeOK
      <3>1. LogAssumption
        BY LogAssumption
      <3>2. \A S : <<>> \in Seq(S) /\ Len(<<>>) = 0
        OBVIOUS
      <3> QED BY <3>1, <3>2 DEF Init, InitLogs, LogTypeOK, LogAssumption
    <2>2. stage \in {"logger", "accessLog", "ready"} => Building \in Host
      <3>1. stage = "logger" => Current[0 + 1] \in Host
        <4> HAVE stage = "logger"
        <4>1. Current \in Seq(Host) /\ 0 + 1 \in 1 .. Len(Current)
          BY <1>4
        <4> QED BY <4>1, ElementOfSeq
      <3> QED BY <1>0, <1>3, <3>1 DEF Building, Current
    <2> QED BY <1>0, <1>1, <1>3, <2>1, <2>2 DEF TypeOK
  <1>8. CountInv
    <2>1. \A f \in File : Logged(loggers, f) = {} /\ Opened(usable, f) = {}
      BY <1>0 DEF Logged, Opened
    <2>2. \A f \in File : Users(f) = 0
      <3>1. Cardinality({}) = 0
        BY FS_EmptySet
      <3>2. \A f \in File : Users(f) = Cardinality(Logged(loggers, f)) + Cardinality(Opened(usable, f))
        BY <1>7, UsersCount
      <3> QED BY <2>1, <3>1, <3>2
    <2> QED BY <1>0, <2>2 DEF CountInv, CountsUsers
  <1>9. ReadyInv
    BY <1>0, <1>3 DEF ReadyInv, LogIsReady, Closing
  <1>10. BufferInv /\ OpenInv /\ HeldInv
    <2>1. \A h \in Host : rest[h] = <<>>
      BY DEF Init, InitLogs
    <2> QED BY <1>0, <2>1 DEF BufferInv, Flushable, OpenInv, HeldInv, Held
  <1> QED BY <1>5, <1>6, <1>7, <1>8, <1>9, <1>10 DEF IInv


------------------------------------------------------------------------------
(* Building the hosts *)

(* The listener that is being built, while run starts.                      *)
LEMMA WhileStarting ==
  ASSUME IInv, Starting
  PROVE  /\ Head(groups) \in Listen /\ Tail(groups) \in Seq(Listen) /\ IsInjective(Tail(groups))
         /\ Current \in Seq(Host) /\ Len(Current) \in Nat \ {0} /\ IsInjective(Current)
         /\ \A i, j \in 1 .. Len(Current) : Current[i] = Current[j] => i = j
         /\ \A i \in 1 .. Len(Current) : Current[i] \in Host /\ Current[i] \in Range(Current)
         /\ Range(Current) \subseteq Host
         /\ \A l \in Range(Tail(groups)) : l \in Listen /\ Range(HostsOf[l]) \cap Range(Current) = {}
  <1>1. groups \in Seq(Listen) /\ groups # <<>> /\ IsInjective(groups)
    BY DEF IInv, BuildInv, TypeOK
  <1>2. /\ Head(groups) \in Listen /\ Tail(groups) \in Seq(Listen)
        /\ IsInjective(Tail(groups)) /\ Head(groups) \notin Range(Tail(groups))
    BY <1>1, HeadAndTail, TailInjective
  <1>3. /\ Current \in Seq(Host) /\ Len(Current) \in Nat \ {0} /\ IsInjective(Current)
        /\ \A i, j \in 1 .. Len(Current) : Current[i] = Current[j] => i = j
    BY <1>2, OwnHosts DEF Current
  <1>4. /\ \A i \in 1 .. Len(Current) : Current[i] \in Host /\ Current[i] \in Range(Current)
        /\ Range(Current) \subseteq Host
    BY <1>3, ElementOfSeq, InRange, RangeType
  <1>5. ASSUME NEW l \in Range(Tail(groups))
        PROVE  l \in Listen /\ Range(HostsOf[l]) \cap Range(Current) = {}
    <2>1. l \in Listen /\ l # Head(groups)
      BY <1>2, RangeType
    <2> QED BY <1>2, <2>1, OtherHosts DEF Current
  <1> QED BY <1>2, <1>3, <1>4, <1>5

(* The host that is being built is new.                                     *)
LEMMA WhileConstructing ==
  ASSUME IInv, Constructing
  PROVE  /\ Starting /\ ~Closing
         /\ built \in Nat /\ built + 1 \in 1 .. Len(Current)
         /\ Building = Current[built + 1] /\ Building \in Host /\ Building \in Range(Current)
         /\ Building \notin Range(deferred)
         /\ stage # "ready" => ~usable[Building]
         /\ stage = "logger" => Building \notin loggers
  <1>1. /\ Starting /\ ~Closing /\ built \in Nat /\ built < Len(Current) /\ HostsBeingBuilt
        /\ Building = Current[built + 1]
    BY DEF IInv, TypeOK, BuildInv, Constructing, Starting, Closing, Building, Current
  <1>2. built + 1 \in 1 .. Len(Current) /\ Current[built + 1] \in Host /\ Current[built + 1] \in Range(Current)
    BY <1>1, WhileStarting
  <1>3. ~(built + 1 <= built)
    BY <1>1
  <1>4. /\ stage # "ready" => accessLogs = built
        /\ stage = "logger" => errorLogs = built
    BY DEF accessLogs, errorLogs
  <1> QED BY <1>1, <1>2, <1>3, <1>4 DEF HostsBeingBuilt


LEMMA BuildNewLogger ==
  ASSUME IInv, NewLogger
  PROVE  BuildInv'
  <1>1. /\ stage = "logger" /\ stage' = "accessLog"
        /\ groups' = groups /\ built' = built /\ deferred' = deferred /\ accepting' = accepting
        /\ usable' = usable /\ toClose' = toClose /\ closing' = closing
        /\ loggers' = IF LogOutput[Building] = NoFile THEN loggers ELSE loggers \cup {Building}
    BY DEF NewLogger, closeVars
  <1>2. Constructing /\ Starting /\ ~Closing
    BY <1>1 DEF Constructing, Starting, Closing
  <1>3. /\ IsInjective(deferred) /\ toClose = <<>> /\ closing = "no" /\ accepting \subseteq Range(deferred)
        /\ ServedHosts /\ groups # <<>> /\ IsInjective(groups) /\ HostsToCome
        /\ built < Len(Current) /\ HostsBeingBuilt
    BY <1>2 DEF IInv, BuildInv
  <1>4. /\ built \in Nat /\ built + 1 \in 1 .. Len(Current) /\ Building = Current[built + 1]
        /\ Building \in Range(Current) /\ Building \notin loggers
    BY <1>1, <1>2, WhileConstructing
  <1>5. ServedHosts'
    BY <1>1, <1>3 DEF ServedHosts
  <1>6. HostsToCome'
    <2>1. \A l \in Range(Tail(groups)) : Building \notin Range(HostsOf[l])
      BY <1>2, <1>4, WhileStarting
    <2> QED BY <1>1, <1>3, <2>1 DEF HostsToCome, Untouched
  <1>7. HostsBeingBuilt'
    <2>1. accessLogs' = accessLogs /\ errorLogs = built /\ errorLogs' = built + 1 /\ Current' = Current
      BY <1>1 DEF accessLogs, errorLogs, Current
    <2>2. ASSUME NEW j \in 1 .. Len(Current)
          PROVE  Current[j] \in loggers' <=> j <= built + 1 /\ LogOutput[Current[j]] # NoFile
      <3>1. Current[j] \in loggers <=> j <= built /\ LogOutput[Current[j]] # NoFile
        BY <1>3, <2>1 DEF HostsBeingBuilt
      <3>2. Current[j] = Building <=> j = built + 1
        BY <1>2, <1>4, WhileStarting
      <3>3. CASE j = built + 1
        BY <1>1, <1>4, <3>2, <3>3
      <3>4. CASE j # built + 1
        BY <1>1, <1>4, <3>1, <3>2, <3>4
      <3> QED BY <3>3, <3>4
    <2> QED BY <1>1, <1>3, <2>1, <2>2 DEF HostsBeingBuilt
  <1>8. Current' = Current
    BY <1>1 DEF Current
  <1> QED BY <1>1, <1>3, <1>5, <1>6, <1>7, <1>8 DEF BuildInv

LEMMA BuildOpenAccessLog ==
  ASSUME IInv, OpenAccessLog
  PROVE  BuildInv'
  <1>1. /\ stage = "accessLog" /\ stage' = "ready"
        /\ groups' = groups /\ built' = built /\ deferred' = deferred /\ accepting' = accepting
        /\ loggers' = loggers /\ toClose' = toClose /\ closing' = closing
        /\ usable' = [usable EXCEPT ![Building] = TRUE]
    BY DEF OpenAccessLog, NewAccessLog
  <1>2. Constructing /\ Starting /\ ~Closing
    BY <1>1 DEF Constructing, Starting, Closing
  <1>3. /\ IsInjective(deferred) /\ toClose = <<>> /\ closing = "no" /\ accepting \subseteq Range(deferred)
        /\ ServedHosts /\ groups # <<>> /\ IsInjective(groups) /\ HostsToCome
        /\ built < Len(Current) /\ HostsBeingBuilt
    BY <1>2 DEF IInv, BuildInv
  <1>4. /\ built \in Nat /\ built + 1 \in 1 .. Len(Current) /\ Building = Current[built + 1]
        /\ Building \in Range(Current) /\ Building \in Host /\ Building \notin Range(deferred)
        /\ usable \in [Host -> BOOLEAN] /\ Range(deferred) \subseteq Host
    <2>1. deferred \in Seq(Host) /\ usable \in [Host -> BOOLEAN]
      BY DEF IInv, TypeOK, LogTypeOK
    <2> QED BY <1>2, <2>1, WhileConstructing, RangeType
  <1>5. ServedHosts'
    BY <1>1, <1>3, <1>4 DEF ServedHosts
  <1>6. HostsToCome'
    <2>1. \A l \in Range(Tail(groups)) : Building \notin Range(HostsOf[l]) /\ Range(HostsOf[l]) \subseteq Host
      <3>1. \A l \in Range(Tail(groups)) : l \in Listen /\ Range(HostsOf[l]) \cap Range(Current) = {}
        BY <1>2, WhileStarting
      <3>2. \A l \in Listen : Range(HostsOf[l]) \subseteq Host
        BY OwnHosts, RangeType
      <3> QED BY <1>4, <3>1, <3>2
    <2> QED BY <1>1, <1>3, <1>4, <2>1 DEF HostsToCome, Untouched
  <1>7. HostsBeingBuilt'
    <2>1. accessLogs = built /\ accessLogs' = built + 1 /\ errorLogs' = errorLogs /\ Current' = Current
      BY <1>1 DEF accessLogs, errorLogs, Current
    <2>2. ASSUME NEW j \in 1 .. Len(Current)
          PROVE  usable'[Current[j]] <=> j <= built + 1
      <3>1. usable[Current[j]] <=> j <= built
        BY <1>3, <2>1 DEF HostsBeingBuilt
      <3>2. /\ Current[j] = Building <=> j = built + 1
            /\ Current[j] \in Host
        BY <1>2, <1>4, WhileStarting
      <3>3. CASE j = built + 1
        BY <1>1, <1>4, <3>2, <3>3
      <3>4. CASE j # built + 1
        BY <1>1, <1>4, <3>1, <3>2, <3>4
      <3> QED BY <3>3, <3>4
    <2> QED BY <1>1, <1>3, <2>1, <2>2 DEF HostsBeingBuilt
  <1>8. Current' = Current
    BY <1>1 DEF Current
  <1> QED BY <1>1, <1>3, <1>5, <1>6, <1>7, <1>8 DEF BuildInv

LEMMA BuildHostReady ==
  ASSUME IInv, HostReady
  PROVE  BuildInv'
  <1>1. /\ stage = "ready" /\ groups' = groups /\ accepting' = accepting /\ loggers' = loggers
        /\ usable' = usable /\ toClose' = toClose /\ closing' = closing
    BY DEF HostReady, logVars, closeVars
  <1>2. Constructing /\ Starting /\ ~Closing
    BY <1>1 DEF Constructing, Starting, Closing
  <1>3. /\ IsInjective(deferred) /\ toClose = <<>> /\ closing = "no" /\ accepting \subseteq Range(deferred)
        /\ ServedHosts /\ groups # <<>> /\ IsInjective(groups) /\ HostsToCome
        /\ built < Len(Current) /\ HostsBeingBuilt
    BY <1>2 DEF IInv, BuildInv
  <1>4. /\ Current' = Current /\ accessLogs = built + 1 /\ errorLogs = built + 1
    BY <1>1 DEF Current, accessLogs, errorLogs
  <1>5. built \in Nat /\ Len(Current) \in Nat \ {0} /\ Current \in Seq(Host) /\ deferred \in Seq(Host)
    BY <1>2, WhileStarting DEF IInv, TypeOK
  <1>6. CASE built + 1 < Len(Current)
    <2>1. stage' = "logger" /\ built' = built + 1 /\ deferred' = deferred
      BY <1>6 DEF HostReady, Current
    <2>2. accessLogs' = accessLogs /\ errorLogs' = errorLogs
      BY <1>4, <2>1 DEF accessLogs, errorLogs
    <2>3. ServedHosts' /\ HostsToCome' /\ HostsBeingBuilt'
      BY <1>1, <1>3, <1>4, <2>1, <2>2 DEF ServedHosts, HostsToCome, HostsBeingBuilt, Untouched
    <2> QED BY <1>1, <1>3, <1>4, <1>6, <2>1, <2>3 DEF BuildInv
  <1>7. CASE ~(built + 1 < Len(Current))
    <2>1. stage' = "listen" /\ built' = 0 /\ deferred' = Current \o deferred
      BY <1>7 DEF HostReady, Current
    <2>2. \A h \in Range(Current) : h \notin Range(deferred) /\ usable[h] /\ (LogOutput[h] # NoFile => h \in loggers)
      <3> SUFFICES ASSUME NEW h \in Range(Current)
          PROVE  h \notin Range(deferred) /\ usable[h] /\ (LogOutput[h] # NoFile => h \in loggers)
        OBVIOUS
      <3>1. PICK j \in 1 .. Len(Current) : Current[j] = h
        BY <1>5, AtSomePlace
      <3>2. j <= built + 1
        BY <1>5, <1>7
      <3> QED BY <1>3, <1>4, <3>1, <3>2 DEF HostsBeingBuilt
    <2>3. Range(Current) \cap Range(deferred) = {}
      BY <2>2
    <2>4. IsInjective(deferred') /\ Range(deferred') = Range(Current) \cup Range(deferred)
      BY <1>2, <1>3, <1>5, <2>1, <2>3, WhileStarting, ConcatInjective
    <2>5. ServedHosts'
      BY <1>1, <1>3, <2>2, <2>4 DEF ServedHosts
    <2>6. HostsToCome'
      <3>1. \A l \in Range(Tail(groups)) : Range(HostsOf[l]) \cap Range(Current) = {}
        BY <1>2, WhileStarting
      <3> QED BY <1>1, <1>3, <2>4, <3>1 DEF HostsToCome, Untouched
    <2>7. ~Constructing'
      BY <2>1 DEF Constructing
    <2> QED BY <1>1, <1>3, <1>4, <2>1, <2>4, <2>5, <2>6, <2>7 DEF BuildInv
  <1> QED BY <1>6, <1>7


LEMMA BuildStartServer ==
  ASSUME IInv, StartServer
  PROVE  BuildInv'
  <1>1. /\ stage = "listen" /\ groups' = Tail(groups) /\ built' = built /\ deferred' = deferred
        /\ stage' = IF Tail(groups) = <<>> THEN "serving" ELSE "logger"
        /\ accepting' = accepting \cup Range(Current) /\ loggers' = loggers
        /\ usable' = usable /\ toClose' = toClose /\ closing' = closing
    BY DEF StartServer, closeVars, Current
  <1>2. Starting /\ ~Closing
    BY <1>1 DEF Starting, Closing
  <1>3. /\ IsInjective(deferred) /\ toClose = <<>> /\ closing = "no" /\ accepting \subseteq Range(deferred)
        /\ ServedHosts /\ groups # <<>> /\ IsInjective(groups) /\ HostsToCome
        /\ built = 0 /\ Range(Current) \subseteq Range(deferred)
    BY <1>1, <1>2 DEF IInv, BuildInv
  <1>4. ServedHosts' /\ accepting' \subseteq Range(deferred')
    BY <1>1, <1>3 DEF ServedHosts
  <1>5. CASE Tail(groups) = <<>>
    <2>1. ~Starting' /\ ~Constructing' /\ stage' # "listen"
      BY <1>1, <1>5 DEF Starting, Constructing
    <2> QED BY <1>1, <1>3, <1>4, <2>1 DEF BuildInv
  <1>6. CASE Tail(groups) # <<>>
    <2>1. stage' = "logger" /\ accessLogs' = 0 /\ errorLogs' = 0
      BY <1>1, <1>3, <1>6 DEF accessLogs, errorLogs
    <2>2. /\ Tail(groups) \in Seq(Listen) /\ IsInjective(Tail(groups))
          /\ Range(Tail(groups)) = {Head(Tail(groups))} \cup Range(Tail(Tail(groups)))
      BY <1>2, <1>6, WhileStarting, HeadAndTail
    <2>3. HostsToCome'
      BY <1>1, <1>3, <2>2 DEF HostsToCome, Untouched
    <2>4. /\ Current' = HostsOf[Head(Tail(groups))] /\ Head(Tail(groups)) \in Range(Tail(groups))
          /\ Head(Tail(groups)) \in Listen
      BY <1>1, <2>2, <1>6, HeadAndTail DEF Current
    <2>5. /\ Current' \in Seq(Host) /\ Len(Current') \in Nat \ {0}
          /\ \A j \in 1 .. Len(Current') : Current'[j] \in Range(Current')
      BY <2>4, OwnHosts, InRange
    <2>6. \A h \in Range(Current') : Untouched(h)
      BY <1>3, <2>4 DEF HostsToCome
    <2>7. HostsBeingBuilt'
      <3>1. \A j \in 1 .. Len(Current') : ~(j <= 0)
        BY <2>5
      <3>2. \A h \in Range(Current') : ~usable'[h] /\ h \notin loggers' /\ h \notin Range(deferred')
        BY <1>1, <2>6 DEF Untouched
      <3> QED BY <2>1, <2>5, <3>1, <3>2 DEF HostsBeingBuilt
    <2> QED BY <1>1, <1>3, <1>4, <1>6, <2>1, <2>2, <2>3, <2>5, <2>7 DEF BuildInv
  <1> QED BY <1>5, <1>6

(* The actions that build nothing. *)
BuildFrame ==
  UNCHANGED <<stage, groups, built, deferred, accepting, loggers, usable, toClose, closing>>

LEMMA BuildUnchanged ==
  ASSUME IInv, BuildFrame
  PROVE  BuildInv'
  <1> USE DEF BuildFrame
  <1>1. /\ Starting' <=> Starting
        /\ Constructing' <=> Constructing
        /\ Closing' <=> Closing
        /\ Current' = Current /\ accessLogs' = accessLogs /\ errorLogs' = errorLogs
    BY DEF Starting, Constructing, Closing, Current, accessLogs, errorLogs
  <1>2. /\ ServedHosts' <=> ServedHosts
        /\ HostsToCome' <=> HostsToCome
        /\ HostsBeingBuilt' <=> HostsBeingBuilt
    BY <1>1 DEF ServedHosts, HostsToCome, HostsBeingBuilt, Untouched
  <1>3. BuildInv
    BY DEF IInv
  <1> QED BY <1>1, <1>2, <1>3 DEF BuildInv

(* Nothing is built once run closes what it has built.                      *)
LEMMA BuildEnds ==
  ASSUME IInv, stage' \in {"closing", "exited"}, deferred' = deferred
  PROVE  BuildInv'
  <1>1. Closing' /\ ~Starting' /\ ~Constructing' /\ stage' # "listen"
    BY DEF Closing, Starting, Constructing
  <1> QED BY <1>1 DEF IInv, BuildInv

LEMMA BuildStep ==
  ASSUME IInv, [Next]_vars
  PROVE  BuildInv'
  <1>1. CASE NewLogger
    BY <1>1, BuildNewLogger
  <1>2. CASE OpenAccessLog
    BY <1>2, BuildOpenAccessLog
  <1>3. CASE HostReady
    BY <1>3, BuildHostReady
  <1>4. CASE StartServer
    BY <1>4, BuildStartServer
  <1>5. CASE StartupFails \/ RunReturns \/ CloseHosts \/ Exit
    <2>1. stage' \in {"closing", "exited"} /\ deferred' = deferred
      BY <1>5 DEF StartupFails, RunReturns, CloseHosts, Exit, hostVars
    <2> QED BY <2>1, BuildEnds
  <1>6. CASE (\E r \in Request : Logs(r)) \/ (\E h \in Host : FlushLoop(h)) \/ HandleHUP \/ UNCHANGED vars
    <2>1. BuildFrame
      BY <1>6 DEF BuildFrame, Logs, Log, LogCheck, LogAppendLine, LogWrite, LogRest, FlushLoop, FlushTick, FlushLoopEnds,
                  HandleHUP, RotateShared, vars, hostVars, logVars, closeVars
    <2> QED BY <2>1, BuildUnchanged
  <1> QED BY <1>1, <1>2, <1>3, <1>4, <1>5, <1>6 DEF Next


------------------------------------------------------------------------------
(* Closing the hosts *)

(* Before run closes anything.                                              *)
LEMMA BeforeClosing ==
  ASSUME IInv, ~Closing
  PROVE  /\ toClose = <<>> /\ closing = "no"
         /\ accepting \subseteq Range(deferred) /\ IsInjective(deferred) /\ deferred \in Seq(Host)
         /\ \A h \in Range(deferred) : h \in Host /\ usable[h] /\ (LogOutput[h] # NoFile => h \in loggers)
  <1>1. deferred \in Seq(Host)
    BY DEF IInv, TypeOK
  <1> QED BY <1>1, RangeType DEF IInv, BuildInv, ServedHosts

(* The host that is being closed.                                           *)
LEMMA WhileClosing ==
  ASSUME IInv, toClose # <<>>
  PROVE  /\ Closing /\ stage = "closing" /\ toClose \in Seq(Host) /\ IsInjective(toClose)
         /\ Head(toClose) \in Host /\ Output[Head(toClose)] \in File
         /\ closing \in {"flush", "drop"} => usable[Head(toClose)]
         /\ Tail(toClose) \in Seq(Host) /\ IsInjective(Tail(toClose))
         /\ Range(toClose) = {Head(toClose)} \cup Range(Tail(toClose))
         /\ Head(toClose) \notin Range(Tail(toClose))
         /\ \A h \in Range(Tail(toClose)) : h \in Host /\ usable[h]
  <1>1. Closing /\ stage = "closing"
    BY DEF IInv, BuildInv, CloseInv, Closing
  <1>2. toClose \in Seq(Host) /\ IsInjective(toClose)
    BY DEF IInv, TypeOK, LogTypeOK, CloseInv
  <1>3. /\ Head(toClose) \in Host /\ Tail(toClose) \in Seq(Host)
        /\ Range(toClose) = {Head(toClose)} \cup Range(Tail(toClose))
    BY <1>2, HeadAndTail
  <1>4. IsInjective(Tail(toClose)) /\ Head(toClose) \notin Range(Tail(toClose))
    BY <1>2, TailInjective
  <1>5. Output[Head(toClose)] \in File
    BY <1>3, LogAssumption DEF LogAssumption
  <1>6. closing \in {"flush", "drop"} => usable[Head(toClose)]
    BY DEF IInv, CloseInv
  <1>7. \A h \in Range(Tail(toClose)) : h \in Host /\ usable[h]
    BY <1>3, RangeType DEF IInv, CloseInv
  <1> QED BY <1>1, <1>2, <1>3, <1>4, <1>5, <1>6, <1>7

LEMMA CloseUnchanged ==
  ASSUME IInv, UNCHANGED <<closing, toClose, usable, stage>>
  PROVE  CloseInv'
  <1>1. CloseInv
    BY DEF IInv
  <1> QED BY <1>1 DEF CloseInv

(* While run has closed nothing, CloseInv says nothing.                     *)
LEMMA CloseNotYet ==
  ASSUME IInv, ~Closing, ~Closing', toClose' = toClose, closing' = closing
  PROVE  CloseInv'
  <1>1. toClose = <<>> /\ closing = "no" /\ stage' # "exited"
    BY BeforeClosing DEF Closing
  <1> QED BY <1>1 DEF CloseInv, IInv

LEMMA CloseBegins ==
  ASSUME IInv, StartupFails \/ RunReturns
  PROVE  CloseInv'
  <1>1. /\ ~Closing /\ stage' = "closing" /\ toClose' = deferred /\ closing' = closing /\ usable' = usable
    BY DEF StartupFails, RunReturns, Closing
  <1>2. /\ closing = "no" /\ IsInjective(deferred) /\ deferred \in Seq(Host)
        /\ \A h \in Range(deferred) : usable[h]
    BY <1>1, BeforeClosing
  <1>3. deferred # <<>> => Range(deferred) = {Head(deferred)} \cup Range(Tail(deferred))
    BY <1>2, HeadAndTail
  <1> QED BY <1>1, <1>2, <1>3 DEF CloseInv

LEMMA CloseGoesOn ==
  ASSUME IInv, CloseHosts
  PROVE  CloseInv'
  <1>1. stage = "closing" /\ stage' = "closing"
    BY DEF CloseHosts, hostVars
  <1>2. toClose # <<>>
    BY DEF CloseHosts, Close, CloseMark, CloseFlush, CloseDrop, CloseRemove, CloseFile, IInv, CloseInv
  <1>3. /\ toClose \in Seq(Host) /\ IsInjective(toClose) /\ Tail(toClose) \in Seq(Host)
        /\ IsInjective(Tail(toClose)) /\ Head(toClose) \notin Range(Tail(toClose))
        /\ Head(toClose) \in Host /\ usable \in [Host -> BOOLEAN]
        /\ \A h \in Range(Tail(toClose)) : h \in Host /\ usable[h]
        /\ closing \in {"flush", "drop"} => usable[Head(toClose)]
        /\ closing = "no" => usable[Head(toClose)]
    BY <1>2, WhileClosing DEF IInv, TypeOK, LogTypeOK, CloseInv
  <1>4. Tail(toClose) # <<>> => Range(Tail(toClose)) = {Head(Tail(toClose))} \cup Range(Tail(Tail(toClose)))
    BY <1>3, HeadAndTail
  <1>5. CASE CloseMark \/ CloseFlush
    <2>1. toClose' = toClose /\ usable' = usable /\ closing' \in {"flush", "drop"} /\ closing \in {"no", "flush"}
      BY <1>5 DEF CloseMark, CloseFlush
    <2> QED BY <1>1, <1>2, <1>3, <2>1 DEF CloseInv
  <1>6. CASE CloseDrop
    <2>1. usable' = [usable EXCEPT ![Head(toClose)] = FALSE]
      BY <1>6 DEF CloseDrop
    <2>2. \A h \in Range(Tail(toClose)) : usable'[h]
      BY <1>3, <2>1
    <2>3. CASE closing' = "no" /\ toClose' = Tail(toClose)
      BY <1>1, <1>3, <1>4, <2>2, <2>3 DEF CloseInv
    <2>4. CASE closing' = "remove" /\ toClose' = toClose
      BY <1>1, <1>2, <1>3, <2>2, <2>4 DEF CloseInv
    <2> QED BY <1>6, <2>3, <2>4 DEF CloseDrop
  <1>7. CASE CloseRemove
    <2>1. toClose' = toClose /\ usable' = usable /\ closing' = "file"
      BY <1>7 DEF CloseRemove
    <2> QED BY <1>1, <1>2, <1>3, <2>1 DEF CloseInv
  <1>8. CASE CloseFile
    <2>1. toClose' = Tail(toClose) /\ usable' = usable /\ closing' = "no"
      BY <1>8 DEF CloseFile
    <2> QED BY <1>1, <1>3, <1>4, <2>1 DEF CloseInv
  <1> QED BY <1>5, <1>6, <1>7, <1>8 DEF CloseHosts, Close

LEMMA CloseStep ==
  ASSUME IInv, [Next]_vars
  PROVE  CloseInv'
  <1>1. CASE NewLogger \/ OpenAccessLog \/ HostReady \/ StartServer
    <2>1. toClose' = toClose /\ closing' = closing /\ ~Closing /\ ~Closing'
      BY <1>1 DEF NewLogger, OpenAccessLog, NewAccessLog, HostReady, StartServer, closeVars, logVars, Closing
    <2> QED BY <2>1, CloseNotYet
  <1>2. CASE StartupFails \/ RunReturns
    BY <1>2, CloseBegins
  <1>3. CASE CloseHosts
    BY <1>3, CloseGoesOn
  <1>4. CASE Exit
    <2>1. toClose = <<>> /\ toClose' = toClose /\ closing' = closing /\ stage' = "exited"
      BY <1>4 DEF Exit, logVars, closeVars
    <2> QED BY <2>1 DEF IInv, CloseInv
  <1>5. CASE (\E r \in Request : Logs(r)) \/ (\E h \in Host : FlushLoop(h)) \/ HandleHUP \/ UNCHANGED vars
    <2>1. UNCHANGED <<closing, toClose, usable, stage>>
      BY <1>5 DEF Logs, Log, LogCheck, LogAppendLine, LogWrite, LogRest, FlushLoop, FlushTick, FlushLoopEnds,
                  HandleHUP, RotateShared, vars, hostVars, logVars, closeVars
    <2> QED BY <2>1, CloseUnchanged
  <1> QED BY <1>1, <1>2, <1>3, <1>4, <1>5 DEF Next


------------------------------------------------------------------------------
(* The counts *)

(* What is true of the counts of a state of the invariant.                  *)
LEMMA CountFacts ==
  ASSUME IInv
  PROVE  /\ shared \in [File -> Nat]
         /\ \A f \in File :
              /\ shared[f] = Cardinality(Logged(loggers, f)) + Cardinality(Opened(usable, f))
              /\ Cardinality(Logged(loggers, f)) \in Nat /\ Cardinality(Opened(usable, f)) \in Nat
              /\ shared[f] > 0 => f \in sharedRotators
              /\ f \in sharedRotators /\ shared[f] = 0 => closing = "remove" /\ f = Output[Head(toClose)]
              /\ \A h \in Host : h \in loggers /\ LogOutput[h] = f => shared[f] > 0
              /\ \A h \in Host : usable[h] /\ Output[h] = f => shared[f] > 0
         /\ closing \in {"remove", "file"} => shared[Output[Head(toClose)]] = 0
         /\ closing = "remove" => Output[Head(toClose)] \in sharedRotators
  <1>1. TypeOK /\ CountInv /\ CountsUsers
    BY DEF IInv, CountInv
  <1>2. \A f \in File :
           /\ Users(f) = Cardinality(Logged(loggers, f)) + Cardinality(Opened(usable, f))
           /\ Cardinality(Logged(loggers, f)) \in Nat /\ Cardinality(Opened(usable, f)) \in Nat
           /\ \A h \in Host : h \in loggers /\ LogOutput[h] = f => Users(f) > 0
           /\ \A h \in Host : usable[h] /\ Output[h] = f => Users(f) > 0
    BY <1>1, UsersCount
  <1>3. shared \in [File -> Nat]
    BY <1>1 DEF TypeOK, LogTypeOK
  <1> QED BY <1>1, <1>2, <1>3 DEF CountInv, CountsUsers

(* A log shares the file f: f has one user more.                            *)
LEMMA CountShare ==
  ASSUME IInv, ~Closing, closing' = closing, NEW f \in File, Share(f),
         \A g \in File : Users(g)' = IF g = f THEN shared[g] + 1 ELSE shared[g]
  PROVE  CountInv'
  <1>1. closing = "no"
    BY BeforeClosing
  <1>2. /\ shared \in [File -> Nat]
        /\ \A g \in File : shared[g] > 0 => g \in sharedRotators
        /\ \A g \in File : g \in sharedRotators => shared[g] # 0
    BY <1>1, CountFacts
  <1>3. sharedRotators' = sharedRotators \cup {f}
    BY DEF Share
  <1>4. \A g \in File : shared'[g] = IF g = f THEN shared[g] + 1 ELSE shared[g]
    <2>1. f \notin sharedRotators => shared[f] = 0
      BY <1>2
    <2> QED BY <1>2, <2>1 DEF Share
  <1>5. CountsUsers'
    <2> SUFFICES ASSUME NEW g \in File
        PROVE  /\ shared'[g] = Users(g)'
               /\ shared'[g] > 0 => g \in sharedRotators'
               /\ g \in sharedRotators' => shared'[g] # 0
      BY DEF CountsUsers
    <2>1. CASE g = f
      BY <1>2, <1>3, <1>4, <2>1
    <2>2. CASE g # f
      BY <1>2, <1>3, <1>4, <2>2
    <2> QED BY <2>1, <2>2
  <1> QED BY <1>1, <1>5 DEF CountInv

LEMMA CountNewLogger ==
  ASSUME IInv, NewLogger
  PROVE  CountInv'
  <1>1. /\ Constructing /\ ~Closing /\ usable' = usable /\ closing' = closing /\ toClose' = toClose
    BY DEF NewLogger, closeVars, Constructing, Closing
  <1>2. Building \in Host /\ Building \notin loggers /\ loggers \in SUBSET Host
    BY <1>1, WhileConstructing DEF NewLogger, IInv, TypeOK
  <1>3. CASE LogOutput[Building] = NoFile
    <2>1. loggers' = loggers /\ shared' = shared /\ sharedRotators' = sharedRotators
      BY <1>3 DEF NewLogger
    <2>2. CountInv
      BY DEF IInv
    <2> QED BY <1>1, <2>1, <2>2 DEF CountInv, CountsUsers, Users
  <1>4. CASE LogOutput[Building] # NoFile
    <2>1. Share(LogOutput[Building]) /\ loggers' = loggers \cup {Building}
      BY <1>4 DEF NewLogger
    <2>2. LogOutput[Building] \in File
      BY <1>2, <1>4, HostsAssumption
    <2>3. ASSUME NEW g \in File
          PROVE  Users(g)' = IF g = LogOutput[Building] THEN shared[g] + 1 ELSE shared[g]
      <3>1. Users(g)' = Cardinality(Logged(loggers', g)) + Cardinality(Opened(usable, g))
        BY <1>1 DEF Users, Logged, Opened
      <3>2. Cardinality(Logged(loggers', g)) =
              IF LogOutput[Building] = g THEN Cardinality(Logged(loggers, g)) + 1
              ELSE Cardinality(Logged(loggers, g))
        BY <1>2, <2>1, CountLogged
      <3>3. /\ shared[g] = Cardinality(Logged(loggers, g)) + Cardinality(Opened(usable, g))
            /\ Cardinality(Logged(loggers, g)) \in Nat /\ Cardinality(Opened(usable, g)) \in Nat
        BY CountFacts
      <3> QED BY <3>1, <3>2, <3>3
    <2> QED BY <1>1, <2>1, <2>2, <2>3, CountShare
  <1> QED BY <1>3, <1>4

LEMMA CountOpenAccessLog ==
  ASSUME IInv, OpenAccessLog
  PROVE  CountInv'
  <1>1. /\ Constructing /\ ~Closing /\ stage # "ready" /\ loggers' = loggers /\ closing' = closing
        /\ toClose' = toClose /\ Share(Output[Building]) /\ usable' = [usable EXCEPT ![Building] = TRUE]
    BY DEF OpenAccessLog, NewAccessLog, Constructing, Closing
  <1>2. /\ Building \in Host /\ ~usable[Building] /\ usable \in [Host -> BOOLEAN]
        /\ Output[Building] \in File
    BY <1>1, WhileConstructing, LogAssumption DEF IInv, TypeOK, LogTypeOK, LogAssumption
  <1>3. ASSUME NEW g \in File
        PROVE  Users(g)' = IF g = Output[Building] THEN shared[g] + 1 ELSE shared[g]
    <2>1. Users(g)' = Cardinality(Logged(loggers, g)) + Cardinality(Opened(usable', g))
      BY <1>1 DEF Users, Logged, Opened
    <2>2. Cardinality(Opened(usable', g)) =
            IF Output[Building] = g THEN Cardinality(Opened(usable, g)) + 1
            ELSE Cardinality(Opened(usable, g))
      BY <1>1, <1>2, CountOpened
    <2>3. /\ shared[g] = Cardinality(Logged(loggers, g)) + Cardinality(Opened(usable, g))
          /\ Cardinality(Logged(loggers, g)) \in Nat /\ Cardinality(Opened(usable, g)) \in Nat
      BY CountFacts
    <2> QED BY <2>1, <2>2, <2>3
  <1> QED BY <1>1, <1>2, <1>3, CountShare

LEMMA CountCloseDrop ==
  ASSUME IInv, CloseDrop, loggers' = loggers
  PROVE  CountInv'
  <1> DEFINE h == Head(toClose)
             f == Output[h]
  <1>1. /\ closing = "drop" /\ usable' = [usable EXCEPT ![h] = FALSE] /\ loggers' = loggers
        /\ shared' = [shared EXCEPT ![f] = @ - 1] /\ sharedRotators' = sharedRotators
    BY DEF CloseDrop
  <1>2. toClose # <<>>
    BY <1>1 DEF IInv, CloseInv
  <1>3. h \in Host /\ f \in File /\ usable[h] /\ usable \in [Host -> BOOLEAN]
    BY <1>1, <1>2, WhileClosing DEF IInv, TypeOK, LogTypeOK
  <1>4. /\ shared \in [File -> Nat] /\ shared[f] > 0
        /\ \A g \in File : shared[g] > 0 => g \in sharedRotators
        /\ \A g \in File : g \in sharedRotators => shared[g] # 0
    BY <1>1, <1>3, CountFacts
  <1>5. \A g \in File : shared'[g] = IF g = f THEN shared[g] - 1 ELSE shared[g]
    BY <1>1, <1>3, <1>4
  <1>6. ASSUME NEW g \in File
        PROVE  shared'[g] = Users(g)'
    <2>1. Users(g)' = Cardinality(Logged(loggers, g)) + Cardinality(Opened(usable', g))
      BY <1>1 DEF Users, Logged, Opened
    <2>2. Cardinality(Opened(usable', g)) =
            IF f = g THEN Cardinality(Opened(usable, g)) - 1 ELSE Cardinality(Opened(usable, g))
      BY <1>1, <1>3, CountDropped
    <2>3. /\ shared[g] = Cardinality(Logged(loggers, g)) + Cardinality(Opened(usable, g))
          /\ Cardinality(Logged(loggers, g)) \in Nat /\ Cardinality(Opened(usable, g)) \in Nat
      BY CountFacts
    <2> QED BY <1>5, <2>1, <2>2, <2>3
  <1>7. /\ shared[f] > 1 => closing' = "no"
        /\ ~(shared[f] > 1) => closing' = "remove" /\ toClose' = toClose
    BY DEF CloseDrop
  <1>8. CountsUsers'
    <2> SUFFICES ASSUME NEW g \in File
        PROVE  /\ shared'[g] = Users(g)'
               /\ shared'[g] > 0 => g \in sharedRotators'
               /\ g \in sharedRotators' /\ shared'[g] = 0 => closing' = "remove" /\ g = Output[Head(toClose')]
      BY DEF CountsUsers
    <2>1. shared'[g] > 0 => g \in sharedRotators'
      BY <1>1, <1>3, <1>4, <1>5
    <2>2. g \in sharedRotators' /\ shared'[g] = 0 => g = f /\ ~(shared[f] > 1)
      BY <1>1, <1>3, <1>4, <1>5
    <2> QED BY <1>6, <1>7, <2>1, <2>2
  <1>9. closing' \in {"remove", "file"} =>
          shared'[Output[Head(toClose')]] = 0 /\ Output[Head(toClose')] \in sharedRotators'
    <2> HAVE closing' \in {"remove", "file"}
    <2>1. toClose' = toClose /\ shared[f] = 1
      BY <1>3, <1>4, <1>7
    <2> QED BY <1>1, <1>3, <1>4, <1>5, <2>1
  <1> QED BY <1>8, <1>9 DEF CountInv

LEMMA CountStep ==
  ASSUME IInv, [Next]_vars
  PROVE  CountInv'
  <1>1. CASE NewLogger
    BY <1>1, CountNewLogger
  <1>2. CASE OpenAccessLog
    BY <1>2, CountOpenAccessLog
  <1>3. CASE HostReady \/ StartServer \/ StartupFails \/ RunReturns
    <2>1. /\ UNCHANGED <<shared, sharedRotators, loggers, usable, closing>> /\ ~Closing
      BY <1>3 DEF HostReady, StartServer, StartupFails, RunReturns, closeVars, logVars, rotatorVars, Closing
    <2>2. closing = "no"
      BY <2>1, BeforeClosing
    <2>3. CountInv
      BY DEF IInv
    <2> QED BY <2>1, <2>2, <2>3 DEF CountInv, CountsUsers, Users
  <1>4. CASE CloseHosts
    <2>1. CASE CloseDrop
      BY <1>4, <2>1, CountCloseDrop DEF CloseHosts, hostVars
    <2>2. CASE CloseMark \/ CloseFlush
      <3>1. /\ UNCHANGED <<shared, sharedRotators, loggers, usable, toClose>>
            /\ closing \in {"no", "flush"} /\ closing' \in {"flush", "drop"}
        BY <1>4, <2>2 DEF CloseHosts, hostVars, CloseMark, CloseFlush, rotatorVars
      <3>2. CountInv
        BY DEF IInv
      <3> QED BY <3>1, <3>2 DEF CountInv, CountsUsers, Users
    <2>3. CASE CloseRemove
      <3>1. /\ UNCHANGED <<shared, loggers, usable, toClose>> /\ closing = "remove" /\ closing' = "file"
            /\ sharedRotators' = sharedRotators \ {Output[Head(toClose)]}
        BY <1>4, <2>3 DEF CloseHosts, hostVars, CloseRemove
      <3>2. CountInv
        BY DEF IInv
      <3> QED BY <3>1, <3>2 DEF CountInv, CountsUsers, Users
    <2>4. CASE CloseFile
      <3>1. /\ UNCHANGED <<shared, sharedRotators, loggers, usable>> /\ closing = "file" /\ closing' = "no"
        BY <1>4, <2>4 DEF CloseHosts, hostVars, CloseFile
      <3>2. CountInv
        BY DEF IInv
      <3> QED BY <3>1, <3>2 DEF CountInv, CountsUsers, Users
    <2> QED BY <1>4, <2>1, <2>2, <2>3, <2>4 DEF CloseHosts, Close
  <1>5. CASE Exit \/ (\E r \in Request : Logs(r)) \/ (\E h \in Host : FlushLoop(h)) \/ HandleHUP \/ UNCHANGED vars
    <2>1. UNCHANGED <<shared, sharedRotators, loggers, usable, toClose, closing>>
      BY <1>5 DEF Exit, Logs, Log, LogCheck, LogAppendLine, LogWrite, LogRest, FlushLoop, FlushTick, FlushLoopEnds,
                  HandleHUP, RotateShared, vars, hostVars, logVars, closeVars, rotatorVars
    <2>2. CountInv
      BY DEF IInv
    <2> QED BY <2>1, <2>2 DEF CountInv, CountsUsers, Users
  <1> QED BY <1>1, <1>2, <1>3, <1>4, <1>5 DEF Next


------------------------------------------------------------------------------
(* The buffers *)

(* What a write of the buffer of a host may change, and what it leaves.     *)
WriteTypes ==
  /\ open' \in [File -> BOOLEAN] /\ written' \in [File -> Seq(Cell)] /\ faults' \in 0 .. MaxFaults
  /\ bw' \in [Host -> Seq(Cell)] /\ failed' \in [Host -> BOOLEAN] /\ rest' \in [Host -> Seq(Cell)]
  /\ \A k \in Host : Len(bw'[k]) <= BufferSize[k]

WritesOnly(h) ==
  /\ \A k \in Host : k # h => bw'[k] = bw[k] /\ failed'[k] = failed[k] /\ rest'[k] = rest[k]
  /\ \A f \in File : f # Output[h] => open'[f] = open[f]

LEMMA WriteBufferStep ==
  ASSUME TypeOK, NEW h \in Host,
         NEW cells \in Seq(Cell), NEW buffered \in Seq(Cell), NEW left \in Seq(Cell),
         bw[h] # <<>> => Len(cells) <= BufferSize[h], Len(buffered) <= BufferSize[h],
         WriteBuffer(h, cells, buffered, left)
  PROVE  /\ WriteTypes /\ WritesOnly(h)
         /\ buffered = <<>> => failed'[h] \/ bw'[h] = <<>>
         /\ rest'[h] # <<>> => rest'[h] = left /\ bw'[h] = buffered /\ failed'[h] = failed[h]
  <1>1. /\ Output[h] \in File /\ MaxFaults \in Nat /\ \A k \in Host : BufferSize[k] \in Nat
        /\ open \in [File -> BOOLEAN] /\ written \in [File -> Seq(Cell)] /\ faults \in 0 .. MaxFaults
        /\ bw \in [Host -> Seq(Cell)] /\ failed \in [Host -> BOOLEAN] /\ rest \in [Host -> Seq(Cell)]
        /\ \A k \in Host : Len(bw[k]) <= BufferSize[k]
        /\ <<>> \in Seq(Cell) /\ Len(<<>>) = 0
    BY LogAssumption DEF LogAssumption, TypeOK, LogTypeOK
  <1>2. Len(cells) \in Nat /\ \A k \in 1 .. Len(cells) : cells[k] \in Cell
    BY LenProperties, ElementOfSeq
  <1>3. ASSUME NEW n \in 0 .. Len(cells), WriteOut(Output[h], cells, n)
        PROVE  /\ open' \in [File -> BOOLEAN] /\ written' \in [File -> Seq(Cell)]
               /\ \A f \in File : f # Output[h] => open'[f] = open[f]
    <2>1. n \in Int /\ \A k \in 1 .. n : cells[k] \in Cell
      BY <1>2
    <2>2. SubSeq(cells, 1, n) \in Seq(Cell)
      BY <2>1, SubSeqProperties
    <2>3. written[Output[h]] \o SubSeq(cells, 1, n) \in Seq(Cell)
      BY <1>1, <2>2, ConcatProperties
    <2> QED BY <1>1, <1>3, <2>3 DEF WriteOut
  <1>4. CASE /\ WriteOut(Output[h], cells, Len(cells)) /\ bw' = [bw EXCEPT ![h] = buffered]
             /\ rest' = [rest EXCEPT ![h] = left] /\ UNCHANGED <<failed, faults>>
    <2>1. Len(cells) \in 0 .. Len(cells)
      BY <1>2
    <2> QED BY <1>1, <1>3, <1>4, <2>1 DEF WriteTypes, WritesOnly
  <1>5. CASE /\ faults > 0 /\ faults' = faults - 1 /\ failed' = [failed EXCEPT ![h] = TRUE]
             /\ rest' = [rest EXCEPT ![h] = <<>>]
             /\ \E n \in 0 .. Len(cells) - 1 :
                  /\ WriteOut(Output[h], cells, n)
                  /\ bw' = [bw EXCEPT ![h] = IF @ = <<>> THEN <<>> ELSE SubSeq(cells, n + 1, Len(cells))]
    <2>1. PICK n \in 0 .. Len(cells) - 1 :
                  /\ WriteOut(Output[h], cells, n)
                  /\ bw' = [bw EXCEPT ![h] = IF @ = <<>> THEN <<>> ELSE SubSeq(cells, n + 1, Len(cells))]
      BY <1>5
    <2>2. n \in 0 .. Len(cells) /\ n + 1 \in Int /\ Len(cells) \in Int /\ \A k \in n + 1 .. Len(cells) : cells[k] \in Cell
      BY <1>2
    <2>3. /\ SubSeq(cells, n + 1, Len(cells)) \in Seq(Cell)
          /\ Len(SubSeq(cells, n + 1, Len(cells))) =
               IF n + 1 <= Len(cells) THEN Len(cells) - (n + 1) + 1 ELSE 0
      BY <2>2, SubSeqProperties
    <2>4. bw[h] # <<>> => Len(SubSeq(cells, n + 1, Len(cells))) <= BufferSize[h]
      BY <1>1, <1>2, <2>2, <2>3
    <2>5. bw'[h] \in Seq(Cell) /\ Len(bw'[h]) <= BufferSize[h]
      BY <1>1, <2>1, <2>3, <2>4
    <2>6. /\ bw' \in [Host -> Seq(Cell)] /\ \A k \in Host : k # h => bw'[k] = bw[k]
          /\ \A k \in Host : Len(bw'[k]) <= BufferSize[k]
      BY <1>1, <2>1, <2>3, <2>5
    <2>7. failed'[h] /\ rest'[h] = <<>>
      BY <1>1, <1>5
    <2>8. open' \in [File -> BOOLEAN] /\ written' \in [File -> Seq(Cell)] /\ \A f \in File : f # Output[h] => open'[f] = open[f]
      BY <1>3, <2>1, <2>2
    <2> QED BY <1>1, <1>5, <2>6, <2>7, <2>8 DEF WriteTypes, WritesOnly
  <1> QED BY <1>4, <1>5 DEF WriteBuffer

(* Nothing is written.                                                      *)
LEMMA WritesNothing ==
  ASSUME TypeOK, UNCHANGED <<fileVars, bufferVars>>, NEW h \in Host
  PROVE  WriteTypes /\ WritesOnly(h)
  BY DEF TypeOK, LogTypeOK, WriteTypes, WritesOnly, fileVars, bufferVars

LEMMA FlushStep ==
  ASSUME TypeOK, NEW h \in Host, Flush(h)
  PROVE  /\ WriteTypes /\ WritesOnly(h)
         /\ failed'[h] \/ bw'[h] = <<>>
         /\ rest[h] = <<>> => rest'[h] = <<>>
         /\ failed[h] \/ bw[h] = <<>> => open' = open
  <1>1. CASE failed[h] \/ bw[h] = <<>>
    BY <1>1, WritesNothing DEF Flush, fileVars, bufferVars
  <1>2. CASE ~(failed[h] \/ bw[h] = <<>>)
    <2>1. WriteBuffer(h, bw[h], <<>>, <<>>)
      BY <1>2 DEF Flush
    <2>2. /\ bw[h] \in Seq(Cell) /\ Len(bw[h]) <= BufferSize[h]
          /\ <<>> \in Seq(Cell) /\ Len(<<>>) <= BufferSize[h]
      BY LogAssumption DEF TypeOK, LogTypeOK, LogAssumption
    <2> QED BY <1>2, <2>1, <2>2, WriteBufferStep
  <1> QED BY <1>1, <1>2

LEMMA Association == \A a, b, c \in Seq(Cell) : (a \o b) \o c = a \o (b \o c)
  <1> SUFFICES ASSUME NEW a \in Seq(Cell), NEW b \in Seq(Cell), NEW c \in Seq(Cell)
      PROVE  (a \o b) \o c = a \o (b \o c)
    OBVIOUS
  <1>1. QED BY ConcatAssociative

LEMMA AssociationOfFour ==
  \A a, b, c, d \in Seq(Cell) : ((a \o b) \o c) \o d = a \o (b \o (c \o d))
  <1> SUFFICES ASSUME NEW a \in Seq(Cell), NEW b \in Seq(Cell), NEW c \in Seq(Cell), NEW d \in Seq(Cell)
      PROVE  ((a \o b) \o c) \o d = a \o (b \o (c \o d))
    OBVIOUS
  <1>1. (a \o b) \in Seq(Cell) /\ c \o d \in Seq(Cell)
    BY ConcatProperties
  <1>2. ((a \o b) \o c) \o d = (a \o b) \o (c \o d)
    BY <1>1, ConcatAssociative
  <1>3. (a \o b) \o (c \o d) = a \o (b \o (c \o d))
    BY <1>1, ConcatAssociative
  <1> QED BY <1>2, <1>3

(* What a write does with a line: it finds room, or the buffer is filled    *)
(* and written, the line itself if the buffer is empty; what follows is     *)
(* buffered or, longer than the buffer, left to the next write.             *)
LEMMA BufferLineParts ==
  ASSUME TypeOK, NEW h \in Host, NEW p \in Seq(Cell), ~failed[h], BufferLine(h, p)
  PROVE  \/ /\ bw[h] \o p \in Seq(Cell) /\ Len(bw[h] \o p) <= BufferSize[h]
            /\ bw' = [bw EXCEPT ![h] = bw[h] \o p] /\ rest' = [rest EXCEPT ![h] = <<>>]
            /\ UNCHANGED <<fileVars, failed>>
         \/ \E cells, buffered, left \in Seq(Cell) :
              /\ WriteBuffer(h, cells, buffered, left)
              /\ cells \o (buffered \o left) = bw[h] \o p
              /\ bw[h] # <<>> => Len(cells) <= BufferSize[h]
              /\ Len(buffered) <= BufferSize[h]
              /\ left # <<>> => buffered = <<>> /\ bw[h] # <<>> /\ p # <<>>
  <1> DEFINE room == BufferSize[h] - Len(bw[h])
             n == IF bw[h] = <<>> THEN Len(p) ELSE room
             before == SubSeq(p, 1, n)
             after == SubSeq(p, n + 1, Len(p))
             cells == bw[h] \o before
  <1>1. /\ bw \in [Host -> Seq(Cell)] /\ bw[h] \in Seq(Cell) /\ BufferSize[h] \in Nat \ {0}
        /\ Len(bw[h]) <= BufferSize[h]
    BY LogAssumption DEF LogAssumption, TypeOK, LogTypeOK
  <1>2. Len(bw[h]) \in Nat /\ Len(p) \in Nat /\ \A i \in 1 .. Len(p) : p[i] \in Cell
    BY <1>1, LenProperties, ElementOfSeq
  <1>3. bw[h] \o p \in Seq(Cell) /\ Len(bw[h] \o p) = Len(bw[h]) + Len(p)
    BY <1>1, ConcatProperties
  <1>4. CASE Len(p) <= room
    <2>1. bw' = [bw EXCEPT ![h] = @ \o p] /\ rest' = [rest EXCEPT ![h] = <<>>] /\ UNCHANGED <<fileVars, failed>>
      BY <1>4 DEF BufferLine
    <2>2. bw' = [bw EXCEPT ![h] = bw[h] \o p]
      BY <1>1, <2>1
    <2>3. Len(bw[h] \o p) <= BufferSize[h]
      BY <1>1, <1>2, <1>3, <1>4
    <2> QED BY <1>3, <2>1, <2>2, <2>3
  <1>5. CASE ~(Len(p) <= room)
    <2>1. n \in 0 .. Len(p) /\ (bw[h] # <<>> => n = BufferSize[h] - Len(bw[h])) /\ (bw[h] = <<>> => n = Len(p))
      BY <1>1, <1>2, <1>5
    <2>2. /\ Len(after) <= BufferSize[h] => WriteBuffer(h, cells, after, <<>>)
          /\ ~(Len(after) <= BufferSize[h]) => WriteBuffer(h, cells, <<>>, after)
      BY <1>5 DEF BufferLine
    <2> HIDE DEF room, n
    <2>3. /\ n \in Int /\ n + 1 \in Int /\ Len(p) \in Int
          /\ \A i \in 1 .. n : p[i] \in Cell
          /\ \A i \in n + 1 .. Len(p) : p[i] \in Cell
      BY <1>2, <2>1
    <2>4. before \in Seq(Cell) /\ Len(before) = n
      BY <2>1, <2>3, SubSeqProperties
    <2>5. after \in Seq(Cell) /\ Len(after) = Len(p) - n
      BY <1>2, <2>1, <2>3, SubSeqProperties
    <2>6. before \o after = p
      <3>1. before \o after = SubSeq(p, 1, Len(p))
        <4>1. 1 \in 1 .. Len(p) + 1 /\ n \in 1 - 1 .. Len(p) /\ Len(p) \in n .. Len(p)
          BY <1>2, <2>1
        <4>2. QED BY <4>1, ConcatAdjacentSubSeq
      <3>2. QED BY <3>1, SubSeqFull
    <2> HIDE DEF before, after
    <2>7. cells \in Seq(Cell) /\ Len(cells) = Len(bw[h]) + n
      BY <1>1, <2>4, ConcatProperties
    <2>8. bw[h] # <<>> => Len(cells) <= BufferSize[h]
      BY <1>1, <1>2, <2>1, <2>7
    <2>9. cells \o after = bw[h] \o p
      BY <1>1, <2>4, <2>5, <2>6, Association
    <2> HIDE DEF cells
    <2>10. /\ <<>> \in Seq(Cell) /\ Len(<<>>) = 0
           /\ after \o <<>> = after /\ <<>> \o after = after
      BY <2>5, ConcatEmptySeq
    <2>11. CASE Len(after) <= BufferSize[h]
      BY <2>2, <2>5, <2>7, <2>8, <2>9, <2>10, <2>11
    <2>12. CASE ~(Len(after) <= BufferSize[h])
      <3>1. bw[h] # <<>> /\ p # <<>>
        <4>1. Len(after) > 0
          BY <1>1, <1>2, <2>1, <2>5, <2>12
        <4>2. bw[h] # <<>>
          BY <1>2, <2>1, <2>5, <4>1
        <4>3. Len(p) > 0
          BY <1>2, <2>1, <2>5, <4>1
        <4> QED BY <4>2, <4>3, <2>10
      <3>2. Len(<<>>) <= BufferSize[h]
        BY <1>1, <2>10
      <3> QED BY <2>2, <2>5, <2>7, <2>8, <2>9, <2>10, <2>12, <3>1, <3>2
    <2> QED BY <2>11, <2>12
  <1> QED BY <1>4, <1>5

LEMMA BufferLineStep ==
  ASSUME TypeOK, NEW h \in Host, NEW p \in Seq(Cell), BufferLine(h, p)
  PROVE  /\ WriteTypes /\ WritesOnly(h)
         /\ rest'[h] # <<>> =>
              \/ failed[h] /\ rest'[h] = rest[h]
              \/ ~failed'[h] /\ bw'[h] = <<>> /\ bw[h] # <<>> /\ p # <<>>
  <1>1. CASE failed[h]
    BY <1>1, WritesNothing DEF BufferLine, bufferVars
  <1>2. CASE /\ ~failed[h] /\ bw[h] \o p \in Seq(Cell) /\ Len(bw[h] \o p) <= BufferSize[h]
             /\ bw' = [bw EXCEPT ![h] = bw[h] \o p] /\ rest' = [rest EXCEPT ![h] = <<>>]
             /\ UNCHANGED <<fileVars, failed>>
    <2> DEFINE cells == bw[h] \o p
    <2>1. cells \in Seq(Cell) /\ Len(cells) <= BufferSize[h] /\ bw' = [bw EXCEPT ![h] = cells]
      BY <1>2
    <2> HIDE DEF cells
    <2>2. /\ TypeOK /\ <<>> \in Seq(Cell) /\ rest' = [rest EXCEPT ![h] = <<>>]
          /\ UNCHANGED <<fileVars, failed>>
      BY <1>2
    <2>3. rest'[h] = <<>>
      BY <2>2 DEF TypeOK, LogTypeOK
    <2> QED BY <2>1, <2>2, <2>3 DEF WriteTypes, WritesOnly, TypeOK, LogTypeOK, fileVars
  <1>3. CASE /\ ~failed[h]
             /\ \E cells, buffered, left \in Seq(Cell) :
                  /\ WriteBuffer(h, cells, buffered, left)
                  /\ bw[h] # <<>> => Len(cells) <= BufferSize[h]
                  /\ Len(buffered) <= BufferSize[h]
                  /\ left # <<>> => buffered = <<>> /\ bw[h] # <<>> /\ p # <<>>
    BY <1>3, WriteBufferStep
  <1> QED BY <1>1, <1>2, <1>3, BufferLineParts

(* The cells of a line.                                                     *)
LEMMA LineCells ==
  ASSUME NEW r \in Request
  PROVE  LineOf(r) \in Seq(Cell) /\ \A i \in 1 .. Len(LineOf(r)) : LineOf(r)[i][1] = r
  <1>1. LineLength[r] \in Nat /\ \A k \in 1 .. LineLength[r] : <<r, k>> \in Cell
    BY LogAssumption DEF LogAssumption, Cell
  <1>2. LineOf(r) \in Seq(Cell) /\ Len(LineOf(r)) = LineLength[r]
    BY <1>1 DEF LineOf
  <1>3. QED BY <1>2 DEF LineOf

(* Both writes of a line.                                                   *)
LEMMA LogLineStep ==
  ASSUME TypeOK, NEW r \in Request, LogWrite(r) \/ LogRest(r)
  PROVE  /\ WriteTypes /\ WritesOnly(HostOf[r])
         /\ rest'[HostOf[r]] # <<>> =>
              \/ failed[HostOf[r]] /\ rest'[HostOf[r]] = rest[HostOf[r]]
              \/ /\ ~failed'[HostOf[r]] /\ bw'[HostOf[r]] = <<>> /\ bw[HostOf[r]] # <<>>
                 /\ LogRest(r) => rest[HostOf[r]] # <<>>
  <1>1. HostOf[r] \in Host /\ rest[HostOf[r]] \in Seq(Cell)
    BY LogAssumption DEF LogAssumption, TypeOK, LogTypeOK
  <1>2. CASE LogWrite(r)
    <2>1. BufferLine(HostOf[r], LineOf(r)) /\ ~LogRest(r)
      BY <1>2 DEF LogWrite, LogRest
    <2> QED BY <1>1, <2>1, BufferLineStep, LineCells
  <1>3. CASE LogRest(r)
    <2>1. BufferLine(HostOf[r], rest[HostOf[r]])
      BY <1>3 DEF LogRest
    <2> QED BY <1>1, <2>1, BufferLineStep
  <1> QED BY <1>2, <1>3


------------------------------------------------------------------------------
(* The requests *)

(* A log is in place as long as its host is not being closed, once it       *)
(* accepts.                                                                 *)
LEMMA InPlace ==
  ASSUME IInv, NEW h \in accepting,
         Closing => h \in Range(toClose) /\ (h = Head(toClose) => closing \in {"no", "flush"})
  PROVE  h \in Host /\ usable[h]
  <1>1. CASE ~Closing
    BY <1>1, BeforeClosing
  <1>2. CASE Closing
    <2>1. toClose # <<>>
      BY <1>2 DEF Range
    <2>2. CASE h = Head(toClose)
      BY <1>2, <2>1, <2>2, WhileClosing DEF IInv, CloseInv
    <2>3. CASE h # Head(toClose)
      BY <1>2, <2>1, <2>3, WhileClosing
    <2> QED BY <2>2, <2>3
  <1> QED BY <1>1, <1>2

LEMMA ReadyLogs ==
  ASSUME IInv, NEW r \in Request, Logs(r)
  PROVE  ReadyInv'
  <1> DEFINE h == HostOf[r]
  <1>1. /\ UNCHANGED <<stage, accepting, drained, toClose, closing>> /\ h \in accepting
        /\ pc[r] = "handling" /\ drained => ~Closing
    BY DEF Logs, Log, LogCheck, LogAppendLine, LogWrite, LogRest, hostVars, closeVars, Closing
  <1>2. /\ pc \in [Request -> {"handling", "append", "write", "rest", "returned", "panicked"}]
        /\ \A q \in Request : pc[q] \in {"append", "write", "rest"} => HostOf[q] \in accepting
        /\ drained /\ Closing /\ Logging => closing = "no" /\ accepting \subseteq Range(toClose)
        /\ drained => \A q \in Request : pc[q] # "panicked"
    BY DEF IInv, ReadyInv, LogIsReady, TypeOK, LogTypeOK
  <1>3. PICK p \in {"append", "write", "rest", "returned", "panicked"} : pc' = [pc EXCEPT ![r] = p]
    BY DEF Logs, Log, LogCheck, LogAppendLine, LogWrite, LogRest
  <1>4. \A q \in Request : pc'[q] = IF q = r THEN p ELSE pc[q]
    BY <1>2, <1>3
  <1>5. \A q \in Request : pc'[q] \in {"append", "write", "rest"} => HostOf[q] \in accepting'
    BY <1>1, <1>2, <1>4
  <1>6. drained /\ Closing => pc[r] \in {"append", "write", "rest"}
    BY <1>1, <1>2 DEF Logs, Log, LogCheck, LogAppendLine, LogWrite, LogRest
  <1>7. drained /\ Closing => closing = "no" /\ accepting \subseteq Range(toClose)
    BY <1>2, <1>6 DEF Logging
  <1>8. drained => usable[h]
    <2> HAVE drained
    <2> QED BY <1>1, <1>7, InPlace
  <1>9. drained => p # "panicked"
    <2> SUFFICES ASSUME drained, p = "panicked" PROVE FALSE
      OBVIOUS
    <2>1. pc'[r] = "panicked"
      BY <1>4
    <2>2. LogAppendLine(r)
      BY <1>2, <2>1 DEF Logs, Log, LogCheck, LogAppendLine, LogWrite, LogRest
    <2>3. pc' = [pc EXCEPT ![r] = "write"]
      BY <1>8, <2>2 DEF LogAppendLine
    <2> QED BY <1>2, <2>1, <2>3
  <1>10. Closing' <=> Closing
    BY <1>1 DEF Closing
  <1> QED BY <1>1, <1>2, <1>4, <1>5, <1>7, <1>9, <1>10 DEF ReadyInv, LogIsReady

LEMMA ReadyStep ==
  ASSUME IInv, [Next]_vars
  PROVE  ReadyInv'
  <1>1. ReadyInv
    BY DEF IInv
  <1>2. CASE NewLogger \/ OpenAccessLog \/ HostReady \/ StartServer
    <2>1. /\ pc' = pc /\ drained' = drained /\ ~Closing' /\ accepting \subseteq accepting'
      BY <1>2 DEF NewLogger, OpenAccessLog, NewAccessLog, HostReady, StartServer, logVars, Closing
    <2> QED BY <1>1, <2>1 DEF ReadyInv, LogIsReady, Logging
  <1>3. CASE StartupFails \/ RunReturns
    <2>1. /\ pc' = pc /\ drained' = drained /\ ~Closing /\ accepting' = accepting
          /\ toClose' = deferred /\ closing' = closing
      BY <1>3 DEF StartupFails, RunReturns, Closing
    <2>2. closing = "no" /\ accepting \subseteq Range(deferred)
      BY <2>1, BeforeClosing
    <2> QED BY <1>1, <2>1, <2>2 DEF ReadyInv, LogIsReady, Logging
  <1>4. CASE CloseHosts
    <2>1. /\ pc' = pc /\ UNCHANGED hostVars
          /\ drained => ~Logging
      BY <1>4 DEF CloseHosts, Close, CloseMark, CloseFlush, CloseDrop, CloseRemove, CloseFile, Logging
    <2> QED BY <1>1, <2>1 DEF ReadyInv, LogIsReady, Logging, hostVars
  <1>5. CASE Exit
    <2>1. /\ UNCHANGED <<pc, drained, accepting, toClose, closing>> /\ Closing
      BY <1>5 DEF Exit, logVars, closeVars, Closing
    <2> QED BY <1>1, <2>1 DEF ReadyInv, LogIsReady, Logging
  <1>6. CASE \E r \in Request : Logs(r)
    BY <1>6, ReadyLogs
  <1>7. CASE (\E h \in Host : FlushLoop(h)) \/ HandleHUP \/ UNCHANGED vars
    <2>1. UNCHANGED <<pc, stage, drained, accepting, toClose, closing>>
      BY <1>7 DEF FlushLoop, FlushTick, FlushLoopEnds, HandleHUP, RotateShared, vars, hostVars, logVars, closeVars
    <2> QED BY <1>1, <2>1 DEF ReadyInv, LogIsReady, Logging, Closing
  <1> QED BY <1>2, <1>3, <1>4, <1>5, <1>6, <1>7 DEF Next

------------------------------------------------------------------------------
(* What is buffered, and what is open *)

(* A request that logs has the log of its host in place; so has the flush   *)
(* loop when it writes.                                                     *)
LEMMA LogWriteInPlace ==
  ASSUME IInv, drained, NEW r \in Request, pc[r] \in {"append", "write", "rest"}
  PROVE  /\ HostOf[r] \in accepting /\ HostOf[r] \in Host /\ usable[HostOf[r]]
         /\ Closing => closing = "no" /\ HostOf[r] \in Range(toClose)
  <1>1. /\ HostOf[r] \in accepting
        /\ Closing => closing = "no" /\ HostOf[r] \in Range(toClose)
    BY DEF IInv, ReadyInv, Logging
  <1> QED BY <1>1, InPlace

LEMMA FlushInPlace ==
  ASSUME IInv, drained, NEW h \in Host, Flushable(h)
  PROVE  usable[h]
  <1>1. /\ h \in accepting
        /\ Closing => h \in Range(toClose) /\ (h = Head(toClose) => closing \in {"no", "flush"})
    BY DEF IInv, BufferInv, Flushable
  <1> QED BY <1>1, InPlace


LEMMA BufferCloses ==
  ASSUME IInv, CloseHosts
  PROVE  BufferInv'
  <1>1. /\ BufferInv /\ TypeOK /\ UNCHANGED hostVars /\ (Closing' <=> Closing) /\ Closing
    BY DEF IInv, CloseHosts, hostVars, Closing
  <1>2. toClose # <<>>
    BY DEF CloseHosts, Close, CloseMark, CloseFlush, CloseDrop, CloseRemove, CloseFile, IInv, CloseInv
  <1>3. /\ Head(toClose) \in Host /\ Head(toClose) \notin Range(Tail(toClose))
        /\ Range(toClose) = {Head(toClose)} \cup Range(Tail(toClose))
    BY <1>2, WhileClosing
  <1>4. CASE CloseMark
    <2>1. UNCHANGED <<bw, failed, toClose>> /\ closing' = "flush"
      BY <1>4 DEF CloseMark, bufferVars
    <2> QED BY <1>1, <2>1 DEF BufferInv, Flushable, hostVars
  <1>5. CASE CloseFlush
    <2>1. Flush(Head(toClose)) /\ toClose' = toClose
      BY <1>5 DEF CloseFlush
    <2>2. WritesOnly(Head(toClose)) /\ (failed'[Head(toClose)] \/ bw'[Head(toClose)] = <<>>)
      BY <1>1, <1>3, <2>1, FlushStep
    <2>3. \A h \in Host : Flushable(h)' => h # Head(toClose) /\ Flushable(h)
      BY <2>2 DEF WritesOnly, Flushable
    <2> QED BY <1>1, <2>1, <2>3 DEF BufferInv, hostVars
  <1>6. CASE CloseDrop \/ CloseRemove \/ CloseFile
    <2>1. /\ UNCHANGED <<bw, failed>> /\ closing \in {"drop", "remove", "file"}
          /\ (toClose' = Tail(toClose) /\ closing' = "no") \/ toClose' = toClose
      BY <1>6 DEF CloseDrop, CloseRemove, CloseFile, bufferVars
    <2>2. \A h \in Host : drained /\ Flushable(h) => h \in accepting /\ h # Head(toClose) /\ h \in Range(Tail(toClose))
      BY <1>1, <1>3, <2>1 DEF BufferInv
    <2> QED BY <1>1, <1>3, <2>1, <2>2 DEF BufferInv, Flushable, hostVars
  <1> QED BY <1>4, <1>5, <1>6 DEF CloseHosts, Close

LEMMA BufferStep ==
  ASSUME IInv, [Next]_vars
  PROVE  BufferInv'
  <1>1. BufferInv /\ TypeOK
    BY DEF IInv
  <1>2. CASE NewLogger \/ OpenAccessLog \/ HostReady \/ StartServer
    <2>1. /\ UNCHANGED <<bw, failed, drained>> /\ ~Closing' /\ accepting \subseteq accepting'
      BY <1>2 DEF NewLogger, OpenAccessLog, NewAccessLog, HostReady, StartServer, logVars, bufferVars, Closing
    <2> QED BY <1>1, <2>1 DEF BufferInv, Flushable
  <1>3. CASE StartupFails \/ RunReturns
    <2>1. /\ UNCHANGED <<bw, failed, drained, accepting>> /\ ~Closing
          /\ toClose' = deferred /\ closing' = closing
      BY <1>3 DEF StartupFails, RunReturns, bufferVars, Closing
    <2>2. closing = "no" /\ accepting \subseteq Range(deferred)
      BY <2>1, BeforeClosing
    <2> QED BY <1>1, <2>1, <2>2 DEF BufferInv, Flushable
  <1>4. CASE CloseHosts
    BY <1>4, BufferCloses
  <1>5. CASE Exit
    <2>1. /\ UNCHANGED <<bw, failed, drained, accepting, toClose, closing>> /\ Closing
      BY <1>5 DEF Exit, logVars, closeVars, bufferVars, Closing
    <2> QED BY <1>1, <2>1 DEF BufferInv, Flushable
  <1>6. CASE \E r \in Request : Logs(r)
    <2>1. PICK r \in Request : Logs(r)
      BY <1>6
    <2>2. UNCHANGED <<stage, drained, accepting, toClose, closing>> /\ HostOf[r] \in accepting /\ HostOf[r] \in Host
      BY <2>1, LogAssumption DEF LogAssumption, Logs, Log, LogCheck, LogAppendLine, LogWrite, LogRest, hostVars, closeVars
    <2>3. CASE LogCheck(r) \/ LogAppendLine(r)
      <3>1. UNCHANGED <<bw, failed>>
        BY <2>3 DEF LogCheck, LogAppendLine, bufferVars
      <3> QED BY <1>1, <2>2, <3>1 DEF BufferInv, Flushable, Closing
    <2>4. CASE LogWrite(r) \/ LogRest(r)
      <3>1. pc[r] \in {"write", "rest"}
        BY <2>4 DEF LogWrite, LogRest
      <3>2. WritesOnly(HostOf[r])
        BY <1>1, <2>4, LogLineStep
      <3>3. drained /\ Closing => closing = "no" /\ HostOf[r] \in Range(toClose)
        BY <3>1, LogWriteInPlace
      <3>4. \A h \in Host : Flushable(h)' => h = HostOf[r] \/ Flushable(h)
        BY <3>2 DEF WritesOnly, Flushable
      <3> QED BY <1>1, <2>2, <3>3, <3>4 DEF BufferInv, Closing
    <2> QED BY <2>1, <2>3, <2>4 DEF Logs, Log
  <1>7. CASE \E h \in Host : FlushLoop(h)
    <2>1. PICK h \in Host : FlushLoop(h)
      BY <1>7
    <2>2. UNCHANGED <<stage, drained, accepting, toClose, closing>>
      BY <2>1 DEF FlushLoop, FlushTick, FlushLoopEnds, hostVars, closeVars
    <2>3. \A k \in Host : Flushable(k)' => Flushable(k)
      <3>1. CASE FlushTick(h)
        <4>1. WritesOnly(h) /\ (failed'[h] \/ bw'[h] = <<>>)
          BY <1>1, <3>1, FlushStep DEF FlushTick
        <4> QED BY <4>1 DEF WritesOnly, Flushable
      <3>2. CASE FlushLoopEnds(h)
        BY <3>2 DEF FlushLoopEnds, bufferVars, Flushable
      <3> QED BY <2>1, <3>1, <3>2 DEF FlushLoop
    <2> QED BY <1>1, <2>2, <2>3 DEF BufferInv, Closing
  <1>8. CASE HandleHUP \/ UNCHANGED vars
    <2>1. UNCHANGED <<bw, failed, stage, drained, accepting, toClose, closing>>
      BY <1>8 DEF HandleHUP, RotateShared, vars, hostVars, logVars, closeVars, bufferVars
    <2> QED BY <1>1, <2>1 DEF BufferInv, Flushable, Closing
  <1> QED BY <1>2, <1>3, <1>4, <1>5, <1>6, <1>7, <1>8 DEF Next

LEMMA OpenStep ==
  ASSUME IInv, [Next]_vars
  PROVE  OpenInv'
  <1>1. /\ OpenInv /\ TypeOK /\ CountInv' /\ shared \in [File -> Nat] /\ open \in [File -> BOOLEAN]
        /\ closing \in {"remove", "file"} => toClose # <<>>
    BY CountStep DEF IInv, TypeOK, LogTypeOK, CloseInv
  <1>2. CASE NewLogger \/ OpenAccessLog
    <2>1. UNCHANGED <<open, drained>> /\ ~Closing
      BY <1>2 DEF NewLogger, OpenAccessLog, NewAccessLog, fileVars, Closing
    <2>2. closing = "no"
      BY <2>1, BeforeClosing
    <2>3. shared' = shared \/ \E g : shared' = [shared EXCEPT ![g] = IF g \in sharedRotators THEN @ + 1 ELSE 1]
      BY <1>2 DEF NewLogger, OpenAccessLog, NewAccessLog, Share
    <2>4. \A f \in File : shared[f] > 0 => shared'[f] > 0
      BY <1>1, <2>3
    <2> QED BY <1>1, <2>1, <2>2, <2>4 DEF OpenInv
  <1>3. CASE HostReady \/ StartupFails \/ RunReturns
    <2>1. /\ UNCHANGED <<open, drained, shared, closing>> /\ ~Closing
      BY <1>3 DEF HostReady, StartupFails, RunReturns, logVars, rotatorVars, fileVars, closeVars, Closing
    <2>2. closing = "no"
      BY <2>1, BeforeClosing
    <2> QED BY <1>1, <2>1, <2>2 DEF OpenInv
  <1>4. CASE StartServer
    <2>1. /\ UNCHANGED <<drained, shared, closing>> /\ ~Closing /\ stage = "listen"
          /\ open' = [f \in File |-> open[f] \/ \E h \in Range(Current) : LogOutput[h] = f]
      BY <1>4 DEF StartServer, closeVars, Closing, Current
    <2>2. closing = "no" /\ \A h \in Range(deferred) : h \in Host /\ (LogOutput[h] # NoFile => h \in loggers)
      BY <2>1, BeforeClosing
    <2>3. Range(Current) \subseteq Range(deferred)
      BY <2>1 DEF IInv, BuildInv
    <2>4. ASSUME NEW f \in File, NEW h \in Range(Current), LogOutput[h] = f
          PROVE  shared[f] > 0
      <3>1. f # NoFile
        BY HostsAssumption
      <3>2. h \in Host /\ h \in loggers
        BY <2>2, <2>3, <2>4, <3>1
      <3> QED BY <2>4, <3>2, CountFacts
    <2> QED BY <1>1, <2>1, <2>2, <2>4 DEF OpenInv
  <1>5. CASE CloseHosts
    <2>1. drained' = drained
      BY <1>5 DEF CloseHosts, hostVars
    <2>2. CASE CloseMark
      BY <1>1, <2>1, <2>2 DEF CloseMark, rotatorVars, fileVars, OpenInv
    <2>3. CASE CloseFlush
      <3>1. closing = "flush" /\ closing' = "drop" /\ shared' = shared /\ Flush(Head(toClose)) /\ toClose # <<>>
        BY <2>3 DEF CloseFlush, IInv, CloseInv
      <3>2. Head(toClose) \in Host /\ usable[Head(toClose)] /\ Output[Head(toClose)] \in File
        BY <3>1, WhileClosing
      <3>3. \A f \in File : f # Output[Head(toClose)] => open'[f] = open[f]
        BY <1>1, <3>1, <3>2, FlushStep DEF WritesOnly
      <3>4. shared[Output[Head(toClose)]] > 0
        BY <3>2, CountFacts
      <3> QED BY <1>1, <2>1, <3>1, <3>3, <3>4 DEF OpenInv
    <2>4. CASE CloseDrop
      <3>1. /\ closing = "drop" /\ open' = open /\ toClose # <<>>
            /\ shared' = [shared EXCEPT ![Output[Head(toClose)]] = @ - 1]
            /\ shared[Output[Head(toClose)]] > 1 \/ (closing' = "remove" /\ toClose' = toClose)
        BY <2>4 DEF CloseDrop, fileVars, IInv, CloseInv
      <3>2. Output[Head(toClose)] \in File
        BY <3>1, WhileClosing
      <3> QED BY <1>1, <2>1, <3>1, <3>2 DEF OpenInv
    <2>5. CASE CloseRemove
      BY <1>1, <2>1, <2>5 DEF CloseRemove, fileVars, OpenInv
    <2>6. CASE CloseFile
      BY <1>1, <2>1, <2>6 DEF CloseFile, OpenInv
    <2> QED BY <1>5, <2>2, <2>3, <2>4, <2>5, <2>6 DEF CloseHosts, Close
  <1>6. CASE \E r \in Request : Logs(r)
    <2>1. PICK r \in Request : Logs(r)
      BY <1>6
    <2>2. UNCHANGED <<drained, toClose, closing, shared>> /\ HostOf[r] \in Host
      BY <2>1, LogAssumption DEF LogAssumption, Logs, Log, LogCheck, LogAppendLine, LogWrite, LogRest, hostVars, closeVars, rotatorVars
    <2>3. CASE LogCheck(r) \/ LogAppendLine(r)
      BY <1>1, <2>2, <2>3 DEF LogCheck, LogAppendLine, rotatorVars, fileVars, OpenInv
    <2>4. CASE LogWrite(r) \/ LogRest(r)
      <3>1. pc[r] \in {"write", "rest"}
        BY <2>4 DEF LogWrite, LogRest
      <3>2. \A f \in File : f # Output[HostOf[r]] => open'[f] = open[f]
        BY <1>1, <2>4, LogLineStep DEF WritesOnly
      <3>3. drained => \A f \in File : f = Output[HostOf[r]] => shared[f] > 0
        <4> HAVE drained
        <4>1. usable[HostOf[r]]
          BY <3>1, LogWriteInPlace
        <4> QED BY <2>2, <4>1, CountFacts
      <3> QED BY <1>1, <2>2, <3>2, <3>3 DEF OpenInv
    <2> QED BY <2>1, <2>3, <2>4 DEF Logs, Log
  <1>7. CASE \E h \in Host : FlushLoop(h)
    <2>1. PICK h \in Host : FlushLoop(h)
      BY <1>7
    <2>2. UNCHANGED <<drained, toClose, closing, shared>>
      BY <2>1 DEF FlushLoop, FlushTick, FlushLoopEnds, hostVars, closeVars, rotatorVars
    <2>3. CASE FlushTick(h)
      <3>1. Flushable(h) /\ Flush(h)
        BY <2>3 DEF FlushTick, Flushable
      <3>2. \A f \in File : f # Output[h] => open'[f] = open[f]
        BY <1>1, <3>1, FlushStep DEF WritesOnly
      <3>3. drained => \A f \in File : f = Output[h] => shared[f] > 0
        <4> HAVE drained
        <4>1. usable[h]
          BY <3>1, FlushInPlace
        <4> QED BY <4>1, CountFacts
      <3> QED BY <1>1, <2>2, <3>2, <3>3 DEF OpenInv
    <2>4. CASE FlushLoopEnds(h)
      BY <1>1, <2>2, <2>4 DEF FlushLoopEnds, rotatorVars, fileVars, OpenInv
    <2> QED BY <2>1, <2>3, <2>4 DEF FlushLoop
  <1>8. CASE HandleHUP
    <2>1. /\ UNCHANGED <<drained, toClose, closing, shared>>
          /\ open' = [f \in File |-> open[f] \/ f \in sharedRotators]
      BY <1>8 DEF HandleHUP, RotateShared, hostVars, closeVars
    <2>2. \A f \in File : f \in sharedRotators =>
            shared[f] > 0 \/ (closing \in {"remove", "file"} /\ f = Output[Head(toClose)])
      BY <1>1, CountFacts
    <2> QED BY <1>1, <2>1, <2>2 DEF OpenInv
  <1>9. CASE Exit \/ UNCHANGED vars
    BY <1>1, <1>9 DEF Exit, vars, hostVars, logVars, closeVars, rotatorVars, fileVars, OpenInv
  <1> QED BY <1>2, <1>3, <1>4, <1>5, <1>6, <1>7, <1>8, <1>9 DEF Next


(* Who writes a line on holds the mutex, and ends with his second write.    *)
LEMMA HeldStep ==
  ASSUME IInv, [Next]_vars
  PROVE  HeldInv'
  <1>1. HeldInv /\ TypeOK /\ pc \in [Request -> {"handling", "append", "write", "rest", "returned", "panicked"}]
    BY DEF IInv, TypeOK, LogTypeOK
  <1>2. CASE UNCHANGED <<bw, failed, rest, pc>>
    BY <1>1, <1>2 DEF HeldInv, Held
  <1>3. ASSUME NEW h \in Host, Flush(h), ~Held(h), pc' = pc
        PROVE  HeldInv'
    <2>1. WritesOnly(h) /\ rest'[h] = <<>>
      BY <1>1, <1>3, FlushStep DEF Held
    <2> QED BY <1>1, <1>3, <2>1 DEF HeldInv, Held, WritesOnly
  <1>4. CASE NewLogger \/ OpenAccessLog \/ HostReady \/ StartServer \/ StartupFails \/ RunReturns
             \/ Exit \/ HandleHUP \/ UNCHANGED vars
    <2>1. UNCHANGED <<bw, failed, rest, pc>>
      BY <1>4 DEF NewLogger, OpenAccessLog, NewAccessLog, HostReady, StartServer, StartupFails, RunReturns,
                  Exit, HandleHUP, RotateShared, logVars, bufferVars, vars
    <2> QED BY <1>2, <2>1
  <1>5. CASE CloseHosts
    <2>1. CASE CloseMark \/ CloseDrop \/ CloseRemove \/ CloseFile
      <3>1. UNCHANGED <<bw, failed, rest, pc>>
        BY <2>1 DEF CloseMark, CloseDrop, CloseRemove, CloseFile, bufferVars
      <3> QED BY <1>2, <3>1
    <2>2. CASE CloseFlush
      <3>1. Flush(Head(toClose)) /\ ~Held(Head(toClose)) /\ pc' = pc /\ toClose # <<>>
        BY <2>2 DEF CloseFlush, IInv, CloseInv
      <3>2. Head(toClose) \in Host
        BY <3>1, WhileClosing
      <3> QED BY <1>3, <3>1, <3>2
    <2> QED BY <1>5, <2>1, <2>2 DEF CloseHosts, Close
  <1>6. CASE \E r \in Request : Logs(r)
    <2>1. PICK r \in Request : Log(r)
      BY <1>6 DEF Logs
    <2>2. \A q \in Request : q # r => pc'[q] = pc[q]
      BY <1>1, <2>1 DEF Log, LogCheck, LogAppendLine, LogWrite, LogRest
    <2>3. HostOf[r] \in Host
      BY LogAssumption DEF LogAssumption
    <2>4. CASE LogCheck(r) \/ LogAppendLine(r)
      <3>1. UNCHANGED <<bw, failed, rest>> /\ pc[r] # "rest"
        BY <2>4 DEF LogCheck, LogAppendLine, bufferVars
      <3> QED BY <1>1, <2>2, <3>1 DEF HeldInv, Held
    <2>5. ASSUME WritesOnly(HostOf[r]),
                 rest'[HostOf[r]] # <<>> => bw'[HostOf[r]] = <<>> /\ ~failed'[HostOf[r]] /\ pc'[r] = "rest"
          PROVE  HeldInv'
      <3> SUFFICES ASSUME NEW k \in Host, Held(k)'
          PROVE  /\ bw'[k] = <<>> /\ ~failed'[k]
                 /\ \E q \in Request : HostOf[q] = k /\ pc'[q] = "rest"
        BY DEF HeldInv
      <3>1. CASE k = HostOf[r]
        BY <2>5, <3>1 DEF Held
      <3>2. CASE k # HostOf[r]
        <4>1. bw'[k] = bw[k] /\ failed'[k] = failed[k] /\ rest'[k] = rest[k]
          BY <2>5, <3>2 DEF WritesOnly
        <4>2. PICK q \in Request : HostOf[q] = k /\ pc[q] = "rest"
          BY <1>1, <4>1 DEF HeldInv, Held
        <4>3. pc'[q] = "rest"
          BY <2>2, <3>2, <4>2
        <4> QED BY <1>1, <4>1, <4>2, <4>3 DEF HeldInv, Held
      <3> QED BY <3>1, <3>2
    <2>6. CASE LogWrite(r)
      <3>1. rest'[HostOf[r]] # <<>> => pc'[r] = "rest"
        BY <1>1, <2>6 DEF LogWrite
      <3>2. rest[HostOf[r]] = <<>>
        BY <2>6 DEF LogWrite, Held
      <3> QED BY <1>1, <2>5, <2>6, <3>1, <3>2, LogLineStep
    <2>7. CASE LogRest(r)
      <3>1. rest[HostOf[r]] # <<>> => bw[HostOf[r]] = <<>> /\ ~failed[HostOf[r]]
        BY <1>1, <2>3 DEF HeldInv, Held
      <3>2. WritesOnly(HostOf[r]) /\ rest'[HostOf[r]] = <<>>
        BY <1>1, <2>7, <3>1, LogLineStep
      <3> QED BY <2>5, <3>2
    <2> QED BY <2>1, <2>4, <2>6, <2>7 DEF Log
  <1>7. CASE \E h \in Host : FlushLoop(h)
    <2>1. PICK h \in Host : FlushTick(h) \/ FlushLoopEnds(h)
      BY <1>7 DEF FlushLoop
    <2>2. CASE FlushTick(h)
      BY <1>3, <2>2 DEF FlushTick
    <2>3. CASE FlushLoopEnds(h)
      BY <1>2, <2>3 DEF FlushLoopEnds, bufferVars
    <2> QED BY <2>1, <2>2, <2>3
  <1> QED BY <1>4, <1>5, <1>6, <1>7 DEF Next

------------------------------------------------------------------------------
(* Types *)

(* The host that is being built, in the next state as well.                 *)
LEMMA BuildingType ==
  ASSUME groups \in Seq(Listen), built \in Nat, BuildInv, Constructing
  PROVE  Building \in Host
  <1>1. groups # <<>> /\ built < Len(Current)
    BY DEF BuildInv, Constructing, Starting
  <1>2. Head(groups) \in Listen
    BY <1>1, HeadAndTail
  <1>3. Current \in Seq(Host) /\ Len(Current) \in Nat
    BY <1>2, OwnHosts DEF Current
  <1>4. built + 1 \in 1 .. Len(Current)
    BY <1>1, <1>3
  <1> QED BY <1>3, <1>4, ElementOfSeq DEF Building, Current

(* The types of the hosts' variables, and those of the logs.                *)
HostTypes ==
  /\ stage \in {"logger", "accessLog", "ready", "listen", "serving", "closing", "exited"}
  /\ groups \in Seq(Listen) /\ deferred \in Seq(Host)
  /\ built \in Nat
  /\ accepting \subseteq Host /\ loggers \subseteq Host
  /\ drained \in BOOLEAN

LEMMA HostTypesStep ==
  ASSUME IInv, [Next]_vars
  PROVE  HostTypes'
  <1>1. HostTypes
    BY DEF IInv, TypeOK, HostTypes
  <1>2. CASE NewLogger
    <2>1. Building \in Host
      BY <1>2, WhileConstructing DEF NewLogger, Constructing
    <2> QED BY <1>1, <1>2, <2>1 DEF NewLogger, HostTypes
  <1>3. CASE HostReady
    <2>1. Constructing /\ Starting
      BY <1>3 DEF HostReady, Constructing, Starting
    <2>2. Current \o deferred \in Seq(Host)
      BY <1>1, <2>1, WhileStarting, ConcatProperties DEF HostTypes
    <2>3. /\ UNCHANGED <<groups, accepting, loggers, drained>>
          /\ stage' \in {"logger", "listen"}
          /\ deferred' = deferred \/ deferred' = Current \o deferred
          /\ built' = built + 1 \/ built' = 0
      BY <1>3 DEF HostReady, Current
    <2>4. deferred' \in Seq(Host)
      BY <1>1, <2>2, <2>3 DEF HostTypes
    <2>5. built' \in Nat
      BY <1>1, <2>3 DEF HostTypes
    <2> QED BY <1>1, <2>3, <2>4, <2>5 DEF HostTypes
  <1>4. CASE StartServer
    <2>1. Starting
      BY <1>4 DEF StartServer, Starting
    <2>2. Tail(groups) \in Seq(Listen) /\ Range(Current) \subseteq Host
      BY <2>1, WhileStarting
    <2> QED BY <1>1, <1>4, <2>2 DEF StartServer, HostTypes, Current
  <1>5. CASE OpenAccessLog \/ StartupFails \/ RunReturns \/ Exit
    BY <1>1, <1>5 DEF OpenAccessLog, StartupFails, RunReturns, Exit, HostTypes
  <1>6. CASE CloseHosts \/ (\E r \in Request : Logs(r)) \/ (\E h \in Host : FlushLoop(h)) \/ HandleHUP \/ UNCHANGED vars
    <2>1. UNCHANGED hostVars
      BY <1>6 DEF CloseHosts, Logs, FlushLoop, HandleHUP, vars
    <2> QED BY <1>1, <2>1 DEF HostTypes, hostVars
  <1> QED BY <1>2, <1>3, <1>4, <1>5, <1>6 DEF Next

LEMMA LogTypesStep ==
  ASSUME IInv, [Next]_vars
  PROVE  LogTypeOK'
  <1>1. TypeOK /\ LogTypeOK
    BY DEF IInv, TypeOK
  <1>2. CASE NewLogger \/ OpenAccessLog
    <2>1. Building \in Host /\ (LogOutput[Building] # NoFile => LogOutput[Building] \in File) /\ Output[Building] \in File
      BY <1>2, WhileConstructing, LogAssumption, HostsAssumption
         DEF LogAssumption, NewLogger, OpenAccessLog, Constructing
    <2>2. \/ UNCHANGED <<sharedRotators, shared>>
          \/ \E f \in File : Share(f)
      BY <1>2, <2>1 DEF NewLogger, OpenAccessLog, NewAccessLog
    <2>3. sharedRotators' \subseteq File /\ shared' \in [File -> Nat]
      <3>1. sharedRotators \subseteq File /\ shared \in [File -> Nat]
        BY <1>1 DEF LogTypeOK
      <3>2. ASSUME NEW f \in File, Share(f)
            PROVE  sharedRotators' \subseteq File /\ shared' \in [File -> Nat]
        BY <3>1, <3>2 DEF Share
      <3> QED BY <2>2, <3>1, <3>2
    <2>4. usable' \in [Host -> BOOLEAN] /\ looping' \in [Host -> BOOLEAN]
      BY <1>1, <1>2 DEF LogTypeOK, NewLogger, OpenAccessLog, NewAccessLog, closeVars
    <2>5. UNCHANGED <<fileVars, rotations, bufferVars, closed, closing, toClose, pc, order>>
      BY <1>2 DEF NewLogger, OpenAccessLog, NewAccessLog, closeVars
    <2> QED BY <1>1, <2>3, <2>4, <2>5 DEF LogTypeOK, fileVars, bufferVars
  <1>3. CASE HostReady \/ Exit \/ UNCHANGED vars
    BY <1>1, <1>3 DEF HostReady, Exit, vars, LogTypeOK, logVars, rotatorVars, fileVars, bufferVars, closeVars
  <1>4. CASE StartServer
    BY <1>1, <1>4 DEF StartServer, LogTypeOK, bufferVars, closeVars
  <1>5. CASE StartupFails \/ RunReturns
    <2>1. deferred \in Seq(Host)
      BY <1>1 DEF TypeOK
    <2> QED BY <1>1, <1>5, <2>1 DEF StartupFails, RunReturns, LogTypeOK, rotatorVars, fileVars, bufferVars
  <1>6. CASE CloseHosts
    <2>1. toClose # <<>>
      BY <1>6 DEF CloseHosts, Close, CloseMark, CloseFlush, CloseDrop, CloseRemove, CloseFile, IInv, CloseInv
    <2>2. Head(toClose) \in Host /\ Output[Head(toClose)] \in File /\ Tail(toClose) \in Seq(Host)
      BY <2>1, WhileClosing
    <2>3. CASE CloseMark
      BY <1>1, <2>2, <2>3 DEF CloseMark, LogTypeOK, rotatorVars, fileVars, bufferVars
    <2>4. CASE CloseFlush
      <3>1. WriteTypes
        BY <1>1, <2>2, <2>4, FlushStep DEF CloseFlush
      <3> QED BY <1>1, <2>4, <3>1 DEF CloseFlush, WriteTypes, LogTypeOK
    <2>5. CASE CloseDrop
      <3>1. usable[Head(toClose)] /\ closing = "drop"
        BY <2>1, <2>5, WhileClosing DEF CloseDrop
      <3>2. shared[Output[Head(toClose)]] > 0 /\ shared \in [File -> Nat]
        BY <2>2, <3>1, CountFacts
      <3>3. shared' = [shared EXCEPT ![Output[Head(toClose)]] = @ - 1]
        BY <2>5 DEF CloseDrop
      <3>4. shared' \in [File -> Nat]
        BY <2>2, <3>2, <3>3
      <3> QED BY <1>1, <2>2, <2>5, <3>4 DEF CloseDrop, LogTypeOK, fileVars, bufferVars
    <2>6. CASE CloseRemove
      BY <1>1, <2>6 DEF CloseRemove, LogTypeOK, fileVars, bufferVars
    <2>7. CASE CloseFile
      BY <1>1, <2>2, <2>7 DEF CloseFile, LogTypeOK, bufferVars
    <2> QED BY <1>6, <2>3, <2>4, <2>5, <2>6, <2>7 DEF CloseHosts, Close
  <1>7. CASE \E r \in Request : Logs(r)
    <2>1. PICK r \in Request : Log(r)
      BY <1>7 DEF Logs
    <2>2. HostOf[r] \in Host
      BY LogAssumption DEF LogAssumption
    <2>3. CASE LogCheck(r) \/ LogAppendLine(r)
      BY <1>1, <2>3 DEF LogCheck, LogAppendLine, LogTypeOK, rotatorVars, fileVars, bufferVars, closeVars
    <2>4. CASE LogWrite(r)
      <3>1. WriteTypes
        BY <1>1, <2>4, LogLineStep
      <3>2. order' \in [Host -> Seq(Request)]
        BY <1>1, <2>2, <2>4 DEF LogWrite, LogTypeOK
      <3>3. pc' = [pc EXCEPT ![r] = "returned"] \/ pc' = [pc EXCEPT ![r] = "rest"]
        BY <2>4 DEF LogWrite
      <3>4. pc' \in [Request -> {"handling", "append", "write", "rest", "returned", "panicked"}]
        BY <1>1, <3>3 DEF LogTypeOK
      <3> QED BY <1>1, <2>4, <3>1, <3>2, <3>4 DEF LogWrite, WriteTypes, LogTypeOK, closeVars
    <2>5. CASE LogRest(r)
      <3>1. WriteTypes
        BY <1>1, <2>5, LogLineStep
      <3>2. pc' \in [Request -> {"handling", "append", "write", "rest", "returned", "panicked"}]
        BY <1>1, <2>5 DEF LogRest, LogTypeOK
      <3> QED BY <1>1, <2>5, <3>1, <3>2 DEF LogRest, WriteTypes, LogTypeOK, closeVars
    <2> QED BY <2>1, <2>3, <2>4, <2>5 DEF Log
  <1>8. CASE \E h \in Host : FlushLoop(h)
    <2>1. PICK h \in Host : FlushTick(h) \/ FlushLoopEnds(h)
      BY <1>8 DEF FlushLoop
    <2>2. CASE FlushTick(h)
      <3>1. WriteTypes
        BY <1>1, <2>2, FlushStep DEF FlushTick
      <3> QED BY <1>1, <2>2, <3>1 DEF FlushTick, WriteTypes, LogTypeOK, closeVars
    <2>3. CASE FlushLoopEnds(h)
      BY <1>1, <2>3 DEF FlushLoopEnds, LogTypeOK, rotatorVars, fileVars, bufferVars, closeVars
    <2> QED BY <2>1, <2>2, <2>3
  <1>9. CASE HandleHUP
    <2>1. rotations' \in 0 .. MaxRotations
      BY <1>1, <1>9, LogAssumption DEF LogAssumption, HandleHUP, RotateShared, LogTypeOK
    <2> QED BY <1>1, <1>9, <2>1 DEF HandleHUP, RotateShared, LogTypeOK, bufferVars, closeVars
  <1> QED BY <1>2, <1>3, <1>4, <1>5, <1>6, <1>7, <1>8, <1>9 DEF Next


LEMMA TypeStep ==
  ASSUME IInv, [Next]_vars
  PROVE  TypeOK'
  <1>1. LogTypeOK' /\ HostTypes' /\ BuildInv'
    BY LogTypesStep, HostTypesStep, BuildStep
  <1>2. (groups \in Seq(Listen) /\ built \in Nat /\ BuildInv /\ Constructing => Building \in Host)'
    BY BuildingType, PTL
  <1> QED BY <1>1, <1>2 DEF TypeOK, HostTypes, Constructing

------------------------------------------------------------------------------
(* Places of a sequence *)

(* A set of natural numbers has a least element.                            *)
LEMMA LeastOf == ASSUME NEW S \in SUBSET Nat, S # {} PROVE \E n \in S : \A m \in S : n <= m
  <1> DEFINE Below == {ss \in Nat \X Nat : ss[1] < ss[2]}
  <1>1. W!IsWellFoundedOn(Below, Nat)
    BY W!NatLessThanWellFounded DEF W!OpToRel
  <1>2. PICK n \in S : \A m \in S : ~(<<m, n>> \in Below)
    <2> HIDE DEF Below
    <2>1. QED BY <1>1, W!WFMin
  <1>3. ASSUME NEW m \in S PROVE n <= m
    <2>1. ~(<<m, n>> \in Below)
      BY <1>2
    <2>2. QED BY <2>1
  <1>4. QED BY <1>3

(* Induction over places, with the set of those where a statement holds.    *)
LEMMA Induction ==
  ASSUME NEW N \in Nat, NEW S, 0 \in S, \A n \in 0 .. N - 1 : n \in S => n + 1 \in S
  PROVE  \A n \in 0 .. N : n \in S
  <1> DEFINE T == {n \in 0 .. N : n \notin S}
  <1> SUFFICES ASSUME T # {} PROVE FALSE
    OBVIOUS
  <1>1. PICK n \in T : \A m \in T : n <= m
    <2>1. T \in SUBSET Nat
      OBVIOUS
    <2> HIDE DEF T
    <2>2. QED BY <2>1, LeastOf
  <1>2. n # 0 /\ n - 1 \in 0 .. N - 1 /\ n - 1 \notin T
    BY <1>1
  <1>3. n - 1 \in S
    BY <1>2
  <1>4. (n - 1) + 1 \in S
    BY <1>2, <1>3
  <1>5. QED BY <1>4

Recurs(g, N, X, c, Step) ==
  /\ g \in [0 .. N -> X]
  /\ g[0] = c
  /\ \A i \in 1 .. N : g[i] = Step[<<i, g[i - 1]>>]

(* A recursive function exists.                                             *)
LEMMA Recursion ==
  ASSUME NEW N \in Nat, NEW X, NEW c \in X, NEW Step \in [(1 .. N) \X X -> X]
  PROVE  \E g : Recurs(g, N, X, c, Step)
  <1> DEFINE Good(n, g) == g \in [0 .. n -> X] /\ g[0] = c
                           /\ \A i \in 1 .. n : g[i] = Step[<<i, g[i - 1]>>]
             S == {n \in 0 .. N : \E g : Good(n, g)}
  <1>1. 0 \in S
    <2>1. Good(0, [i \in 0 .. 0 |-> c])
      OBVIOUS
    <2> HIDE DEF Good
    <2>2. QED BY <2>1
  <1>2. ASSUME NEW n \in 0 .. N - 1, n \in S PROVE n + 1 \in S
    <2>1. PICK g : Good(n, g)
      BY <1>2
    <2> DEFINE h == [i \in 0 .. n + 1 |-> IF i = n + 1 THEN Step[<<n + 1, g[n]>>] ELSE g[i]]
    <2>2. n + 1 \in 1 .. N /\ g[n] \in X /\ Step[<<n + 1, g[n]>>] \in X
      BY <2>1
    <2>3. h \in [0 .. n + 1 -> X] /\ h[0] = c
      BY <2>1, <2>2
    <2>4. ASSUME NEW i \in 1 .. n + 1 PROVE h[i] = Step[<<i, h[i - 1]>>]
      <3>1. i - 1 \in 0 .. n /\ h[i - 1] = g[i - 1]
        OBVIOUS
      <3>2. CASE i = n + 1
        BY <3>1, <3>2, SMTT(30)
      <3>3. CASE i # n + 1
        BY <3>1, <3>3, <2>1
      <3>4. QED BY <3>2, <3>3
    <2>5. Good(n + 1, h)
      BY <2>3, <2>4
    <2> HIDE DEF Good, h
    <2>6. QED BY <2>2, <2>5
  <1> HIDE DEF S
  <1>3. N \in S
    BY <1>1, <1>2, Induction
  <1>4. QED BY <1>3 DEF S, Recurs
(* The partial results of FlattenSeq.                                       *)
Flattens(g, ss) ==
  /\ g[1] = ss[1]
  /\ \A i \in 2 .. Len(ss) : g[i] = g[i - 1] \o ss[i]

LEMMA FlattenParts ==
  ASSUME NEW S, NEW ss \in Seq(Seq(S)), ss # <<>>
  PROVE  \E g \in [1 .. Len(ss) -> Seq(S)] : Flattens(g, ss) /\ FlattenSeq(ss) = g[Len(ss)]
  <1> DEFINE N == Len(ss)
             Rec(g) == g = [i \in 1 .. N |-> IF i = 1 THEN ss[i] ELSE g[i - 1] \o ss[i]]
  <1>1. N \in Nat \ {0} /\ \A i \in 1 .. N : ss[i] \in Seq(S)
    BY LenProperties, ElementOfSeq
  <1>2. FlattenSeq(ss) = (CHOOSE g : Rec(g))[N]
    BY <1>1 DEF FlattenSeq
  <1> HIDE DEF N
  <1>3. \E g : Rec(g)
    <2> DEFINE Step == [p \in (1 .. N) \X Seq(S) |-> IF p[1] = 1 THEN ss[1] ELSE p[2] \o ss[p[1]]]
    <2>1. Step \in [(1 .. N) \X Seq(S) -> Seq(S)]
      <3> SUFFICES ASSUME NEW i \in 1 .. N, NEW t \in Seq(S) PROVE t \o ss[i] \in Seq(S)
        BY <1>1
      <3>1. QED BY <1>1, ConcatProperties
    <2>2. \A i \in 1 .. N, t \in Seq(S) : Step[<<i, t>>] = IF i = 1 THEN ss[1] ELSE t \o ss[i]
      OBVIOUS
    <2> HIDE DEF Step
    <2>3. PICK k : Recurs(k, N, Seq(S), <<>>, Step)
      <3>1. <<>> \in Seq(S) /\ N \in Nat
        BY <1>1
      <3>2. QED BY <2>1, <3>1, Recursion
    <2> DEFINE g == [i \in 1 .. N |-> k[i]]
    <2>4. ASSUME NEW i \in 1 .. N PROVE g[i] = IF i = 1 THEN ss[i] ELSE g[i - 1] \o ss[i]
      <3>1. k[i - 1] \in Seq(S) /\ k[i] = Step[<<i, k[i - 1]>>]
        BY <1>1, <2>3 DEF Recurs
      <3>2. k[i] = IF i = 1 THEN ss[1] ELSE k[i - 1] \o ss[i]
        BY <2>2, <3>1
      <3>3. i # 1 => i - 1 \in 1 .. N
        BY <1>1
      <3>4. QED BY <3>2, <3>3
    <2>5. Rec(g)
      BY <2>4
    <2> HIDE DEF Rec
    <2>6. QED BY <2>5
  <1>4. PICK g : Rec(g) /\ FlattenSeq(ss) = g[N]
    <2> HIDE DEF Rec
    <2>1. QED BY <1>2, <1>3
  <1>5. Flattens(g, ss)
    <2>1. Len(ss) = N
      BY DEF N
    <2>2. g[1] = ss[1] /\ \A i \in 2 .. N : g[i] = g[i - 1] \o ss[i]
      <3>1. 1 \in 1 .. N /\ \A i \in 2 .. N : i \in 1 .. N /\ i # 1
        BY <1>1
      <3>2. QED BY <1>4, <3>1
    <2>3. QED BY <2>1, <2>2 DEF Flattens
  <1>6. g \in [1 .. N -> Seq(S)]
    <2> DEFINE T == {n \in 0 .. N : n = 0 \/ g[n] \in Seq(S)}
    <2>1. 0 \in T
      BY <1>1
    <2>2. ASSUME NEW n \in 0 .. N - 1, n \in T PROVE n + 1 \in T
      <3>1. n + 1 \in 1 .. N /\ (n + 1) - 1 = n
        BY <1>1
      <3>2. g[n + 1] = IF n + 1 = 1 THEN ss[n + 1] ELSE g[n] \o ss[n + 1]
        BY <1>4, <3>1
      <3>3. ss[n + 1] \in Seq(S)
        BY <1>1, <3>1
      <3>4. n # 0 => g[n] \o ss[n + 1] \in Seq(S)
        BY <2>2, <3>3, ConcatProperties
      <3>5. g[n + 1] \in Seq(S)
        <4>1. CASE n = 0
          BY <3>2, <3>3, <4>1
        <4>2. CASE n # 0
          <5>1. n + 1 # 1
            BY <4>2
          <5>2. QED BY <3>2, <3>4, <4>2, <5>1
        <4>3. QED BY <4>1, <4>2
      <3>6. QED BY <3>1, <3>5
    <2> HIDE DEF T
    <2>3. \A n \in 0 .. N : n \in T
      BY <1>1, <2>1, <2>2, Induction
    <2>4. \A n \in 1 .. N : g[n] \in Seq(S)
      BY <1>1, <2>3 DEF T
    <2>5. g = [i \in 1 .. N |-> g[i]]
      BY <1>4
    <2>6. QED BY <2>4, <2>5
  <1>7. QED BY <1>4, <1>5, <1>6 DEF N

(* What is appended to the parts is appended to the whole.                  *)
LEMMA FlattenAppend ==
  ASSUME NEW S, NEW ss \in Seq(Seq(S)), NEW t \in Seq(S)
  PROVE  FlattenSeq(ss) \in Seq(S) /\ FlattenSeq(Append(ss, t)) = FlattenSeq(ss) \o t
  <1> DEFINE tt == Append(ss, t)
             N == Len(ss)
  <1>1. /\ N \in Nat /\ tt \in Seq(Seq(S)) /\ tt # <<>> /\ Len(tt) = N + 1 /\ tt[N + 1] = t
        /\ \A i \in 1 .. N : tt[i] = ss[i]
    BY AppendProperties, LenProperties
  <1> HIDE DEF tt
  <1>2. PICK k \in [1 .. Len(tt) -> Seq(S)] : Flattens(k, tt) /\ FlattenSeq(tt) = k[Len(tt)]
    BY <1>1, FlattenParts
  <1>3. k \in [1 .. N + 1 -> Seq(S)] /\ FlattenSeq(tt) = k[N + 1]
        /\ k[1] = tt[1] /\ \A i \in 2 .. N + 1 : k[i] = k[i - 1] \o tt[i]
    BY <1>1, <1>2 DEF Flattens
  <1>4. CASE ss = <<>>
    <2>1. N = 0 /\ FlattenSeq(ss) = <<>>
      BY <1>4 DEF FlattenSeq
    <2>2. FlattenSeq(tt) = t
      BY <1>1, <1>3, <2>1
    <2>3. <<>> \o t = t /\ <<>> \in Seq(S)
      BY ConcatEmptySeq
    <2>4. QED BY <2>1, <2>2, <2>3 DEF tt
  <1>5. CASE ss # <<>>
    <2>1. PICK g \in [1 .. Len(ss) -> Seq(S)] : Flattens(g, ss) /\ FlattenSeq(ss) = g[Len(ss)]
      BY <1>5, FlattenParts
    <2>2. N # 0
      BY <1>5, EmptySeq
    <2>3. g \in [1 .. N -> Seq(S)] /\ FlattenSeq(ss) = g[N]
          /\ g[1] = ss[1] /\ \A i \in 2 .. N : g[i] = g[i - 1] \o ss[i]
      BY <2>1 DEF Flattens
    <2> HIDE DEF N
    <2> DEFINE T == {n \in 0 .. N : n # 0 => k[n] = g[n]}
    <2>4. 0 \in T
      BY <1>1
    <2>5. ASSUME NEW n \in 0 .. N - 1, n \in T PROVE n + 1 \in T
      <3>1. n + 1 \in 1 .. N /\ n + 1 \in 1 .. N + 1 /\ (n + 1) - 1 = n
        BY <1>1
      <3>2. CASE n = 0
        <4>1. k[1] = g[1]
          BY <1>1, <1>3, <2>3, <3>1, <3>2
        <4>2. QED BY <3>1, <3>2, <4>1
      <3>3. CASE n # 0
        <4>1. n + 1 \in 2 .. N /\ n + 1 \in 2 .. N + 1
          BY <1>1, <3>3
        <4>2. k[n + 1] = k[(n + 1) - 1] \o tt[n + 1] /\ g[n + 1] = g[(n + 1) - 1] \o ss[n + 1]
          BY <1>3, <2>3, <4>1
        <4>3. k[n] = g[n] /\ tt[n + 1] = ss[n + 1]
          BY <1>1, <2>5, <3>1, <3>3
        <4>4. k[n + 1] = g[n + 1]
          BY <3>1, <4>2, <4>3
        <4>5. QED BY <3>1, <4>4
      <3>4. QED BY <3>2, <3>3
    <2> HIDE DEF T
    <2>6. \A n \in 0 .. N : n \in T
      BY <1>1, <2>4, <2>5, Induction
    <2>7. k[N] = g[N]
      BY <1>1, <2>2, <2>6 DEF T
    <2>8. k[N + 1] = k[N] \o tt[N + 1]
      <3>1. N + 1 \in 2 .. N + 1 /\ (N + 1) - 1 = N
        BY <1>1, <2>2
      <3>2. QED BY <1>3, <3>1
    <2>9. g[N] \in Seq(S)
      BY <1>1, <2>2, <2>3
    <2>10. QED BY <1>1, <1>3, <2>3, <2>7, <2>8, <2>9 DEF tt
  <1>6. QED BY <1>4, <1>5

------------------------------------------------------------------------------
(* The cells of a host                                                      *)
OwnNext(h, t, cell) == IF HostOf[cell[1]] = h THEN Append(t, cell) ELSE t

(* The partial results of Own.                                              *)
Owns(g, h, s) ==
  /\ g \in [0 .. Len(s) -> Seq(Cell)]
  /\ g[0] = <<>>
  /\ \A n \in 1 .. Len(s) : g[n] = OwnNext(h, g[n - 1], s[n])

LEMMA OwnParts ==
  ASSUME NEW h, NEW s \in Seq(Cell)
  PROVE  \E g : Owns(g, h, s) /\ Own(h, s) = g[Len(s)]
  <1> DEFINE N == Len(s)
             Rec(g) == g = [n \in 0 .. N |-> IF n = 0 THEN <<>> ELSE OwnNext(h, g[n - 1], s[n])]
  <1>1. N \in Nat /\ \A n \in 1 .. N : s[n] \in Cell
    BY LenProperties, ElementOfSeq
  <1>2. Own(h, s) = (CHOOSE g : Rec(g))[N]
    BY DEF Own, OwnNext
  <1>3. Len(s) = N
    OBVIOUS
  <1> HIDE DEF N
  <1> DEFINE Step == [p \in (1 .. N) \X Seq(Cell) |-> OwnNext(h, p[2], s[p[1]])]
  <1>4. Step \in [(1 .. N) \X Seq(Cell) -> Seq(Cell)]
    <2> SUFFICES ASSUME NEW n \in 1 .. N, NEW t \in Seq(Cell) PROVE OwnNext(h, t, s[n]) \in Seq(Cell)
      OBVIOUS
    <2>1. QED BY <1>1, AppendProperties DEF OwnNext
  <1>5. \A n \in 1 .. N, t \in Seq(Cell) : Step[<<n, t>>] = OwnNext(h, t, s[n])
    OBVIOUS
  <1> HIDE DEF Step
  <1>6. \E g : Rec(g)
    <2>1. PICK g : Recurs(g, N, Seq(Cell), <<>>, Step)
      <3>1. <<>> \in Seq(Cell)
        OBVIOUS
      <3>2. QED BY <1>1, <1>4, <3>1, Recursion
    <2>2. g \in [0 .. N -> Seq(Cell)] /\ g[0] = <<>>
      BY <2>1 DEF Recurs
    <2>3. ASSUME NEW n \in 1 .. N PROVE g[n] = OwnNext(h, g[n - 1], s[n])
      <3>1. g[n - 1] \in Seq(Cell)
        BY <1>1, <2>2
      <3>2. g[n] = Step[<<n, g[n - 1]>>]
        BY <2>1 DEF Recurs
      <3>3. QED BY <1>5, <3>1, <3>2
    <2>4. Rec(g)
      BY <1>1, <2>2, <2>3
    <2> HIDE DEF Rec
    <2>5. QED BY <2>4
  <1>7. PICK g : Rec(g) /\ Own(h, s) = g[N]
    <2> HIDE DEF Rec
    <2>1. QED BY <1>2, <1>6
  <1>8. /\ g[0] = <<>>
        /\ \A n \in 1 .. N : g[n] = OwnNext(h, g[n - 1], s[n])
        /\ g = [n \in 0 .. N |-> g[n]]
    BY <1>1, <1>7
  <1> HIDE DEF Rec
  <1>9. \A n \in 0 .. N : g[n] \in Seq(Cell)
    <2> DEFINE T == {n \in 0 .. N : g[n] \in Seq(Cell)}
    <2>1. 0 \in T
      BY <1>1, <1>8
    <2>2. ASSUME NEW n \in 0 .. N - 1, n \in T PROVE n + 1 \in T
      <3>1. n + 1 \in 1 .. N /\ (n + 1) - 1 = n
        BY <1>1
      <3>2. g[n + 1] = OwnNext(h, g[(n + 1) - 1], s[n + 1])
        BY <1>8, <3>1
      <3>3. g[n + 1] = OwnNext(h, g[n], s[n + 1]) /\ g[n] \in Seq(Cell) /\ s[n + 1] \in Cell
        BY <1>1, <2>2, <3>1, <3>2
      <3>4. g[n + 1] \in Seq(Cell)
        BY <3>3, AppendProperties DEF OwnNext
      <3>5. QED BY <3>1, <3>4
    <2> HIDE DEF T
    <2>3. \A n \in 0 .. N : n \in T
      BY <1>1, <2>1, <2>2, Induction
    <2>4. QED BY <2>3 DEF T
  <1>10. g \in [0 .. N -> Seq(Cell)]
    BY <1>8, <1>9
  <1>11. QED BY <1>3, <1>7, <1>8, <1>10 DEF Owns

LEMMA AppendToConcat ==
  \A s, t \in Seq(Cell), x \in Cell : Append(s \o t, x) = s \o Append(t, x)
  <1> SUFFICES ASSUME NEW s \in Seq(Cell), NEW t \in Seq(Cell), NEW x \in Cell
      PROVE  Append(s \o t, x) = s \o Append(t, x)
    OBVIOUS
  <1>1. Append(s \o t, x) = (s \o t) \o <<x>> /\ Append(t, x) = t \o <<x>>
    BY AppendIsConcat, ConcatProperties
  <1>2. <<x>> \in Seq(Cell)
    OBVIOUS
  <1>3. (s \o t) \o <<x>> = s \o (t \o <<x>>)
    BY <1>2, ConcatAssociative
  <1>4. QED BY <1>1, <1>3

(* The cells of a host in two parts of a file, one after the other.         *)
LEMMA OwnConcat ==
  ASSUME NEW h, NEW s \in Seq(Cell), NEW t \in Seq(Cell)
  PROVE  Own(h, s) \in Seq(Cell) /\ Own(h, s \o t) = Own(h, s) \o Own(h, t)
  <1> DEFINE u == s \o t
             M == Len(s)
             N == Len(t)
  <1>1. /\ M \in Nat /\ N \in Nat /\ u \in Seq(Cell) /\ Len(u) = M + N
        /\ \A n \in 1 .. M : u[n] = s[n]
        /\ \A n \in 1 .. N : u[M + n] = t[n] /\ t[n] \in Cell
    <2>1. M \in Nat /\ N \in Nat /\ u \in Seq(Cell) /\ Len(u) = M + N
          /\ \A i \in 1 .. M + N : u[i] = IF i <= M THEN s[i] ELSE t[i - M]
      BY ConcatProperties, LenProperties
    <2>2. \A n \in 1 .. M : n \in 1 .. M + N /\ n <= M
      BY <2>1
    <2>3. \A n \in 1 .. N : M + n \in 1 .. M + N /\ ~(M + n <= M) /\ (M + n) - M = n
      BY <2>1
    <2>4. \A n \in 1 .. N : t[n] \in Cell
      BY ElementOfSeq
    <2> HIDE DEF u, M, N
    <2>5. \A n \in 1 .. N : u[M + n] = t[n]
      BY <2>1, <2>3
    <2>6. QED BY <2>1, <2>2, <2>4, <2>5
  <1>2. PICK a : Owns(a, h, s) /\ Own(h, s) = a[M]
    BY OwnParts
  <1>3. PICK b : Owns(b, h, t) /\ Own(h, t) = b[N]
    BY OwnParts
  <1> HIDE DEF u
  <1>4. PICK c : Owns(c, h, u) /\ Own(h, u) = c[Len(u)]
    BY <1>1, OwnParts
  <1>5. /\ a \in [0 .. M -> Seq(Cell)] /\ a[0] = <<>>
        /\ \A n \in 1 .. M : a[n] = OwnNext(h, a[n - 1], s[n])
    BY <1>2 DEF Owns
  <1>6. /\ b \in [0 .. N -> Seq(Cell)] /\ b[0] = <<>>
        /\ \A n \in 1 .. N : b[n] = OwnNext(h, b[n - 1], t[n])
    BY <1>3 DEF Owns
  <1>7. /\ c \in [0 .. M + N -> Seq(Cell)] /\ c[0] = <<>>
        /\ \A n \in 1 .. M + N : c[n] = OwnNext(h, c[n - 1], u[n])
        /\ Own(h, u) = c[M + N]
    BY <1>1, <1>4 DEF Owns
  <1> HIDE DEF M, N
  <1>8. c[M] = a[M]
    <2> DEFINE T == {n \in 0 .. M : c[n] = a[n]}
    <2>1. 0 \in T
      BY <1>1, <1>5, <1>7
    <2>2. ASSUME NEW n \in 0 .. M - 1, n \in T PROVE n + 1 \in T
      <3>1. n + 1 \in 1 .. M /\ n + 1 \in 1 .. M + N /\ (n + 1) - 1 = n
        BY <1>1
      <3>2. /\ a[n + 1] = OwnNext(h, a[(n + 1) - 1], s[n + 1])
            /\ c[n + 1] = OwnNext(h, c[(n + 1) - 1], u[n + 1])
            /\ u[n + 1] = s[n + 1]
        BY <1>1, <1>5, <1>7, <3>1
      <3>3. c[n + 1] = a[n + 1]
        BY <2>2, <3>1, <3>2
      <3>4. QED BY <3>1, <3>3
    <2> HIDE DEF T
    <2>3. \A n \in 0 .. M : n \in T
      BY <1>1, <2>1, <2>2, Induction
    <2>4. QED BY <1>1, <2>3 DEF T
  <1>9. a[M] \in Seq(Cell)
    BY <1>1, <1>5
  <1>10. c[M + N] = a[M] \o b[N]
    <2> DEFINE T == {n \in 0 .. N : c[M + n] = a[M] \o b[n]}
    <2>1. 0 \in T
      <3>1. a[M] \o <<>> = a[M] /\ M + 0 = M /\ 0 \in 0 .. N
        BY <1>1, <1>9, ConcatEmptySeq
      <3>2. QED BY <1>6, <1>8, <3>1
    <2>2. ASSUME NEW n \in 0 .. N - 1, n \in T PROVE n + 1 \in T
      <3>1. /\ n + 1 \in 1 .. N /\ (n + 1) - 1 = n /\ n \in 0 .. N
            /\ M + (n + 1) \in 1 .. M + N /\ (M + (n + 1)) - 1 = M + n
        BY <1>1
      <3>2. /\ b[n + 1] = OwnNext(h, b[(n + 1) - 1], t[n + 1])
            /\ c[M + (n + 1)] = OwnNext(h, c[(M + (n + 1)) - 1], u[M + (n + 1)])
            /\ u[M + (n + 1)] = t[n + 1] /\ t[n + 1] \in Cell /\ b[n] \in Seq(Cell)
        BY <1>1, <1>6, <1>7, <3>1
      <3>3. /\ b[n + 1] = OwnNext(h, b[n], t[n + 1])
            /\ c[M + (n + 1)] = OwnNext(h, a[M] \o b[n], t[n + 1])
        BY <2>2, <3>1, <3>2
      <3>4. Append(a[M] \o b[n], t[n + 1]) = a[M] \o Append(b[n], t[n + 1])
        BY <1>9, <3>2, AppendToConcat
      <3>5. c[M + (n + 1)] = a[M] \o b[n + 1]
        BY <3>3, <3>4 DEF OwnNext
      <3>6. n + 1 \in 0 .. N
        BY <3>1
      <3>7. QED BY <3>5, <3>6
    <2>3. N \in Nat /\ N \in 0 .. N
      BY <1>1
    <2>4. \A n \in T : c[M + n] = a[M] \o b[n]
      OBVIOUS
    <2> HIDE DEF T
    <2>5. N \in T
      BY <2>1, <2>2, <2>3, Induction
    <2>6. QED BY <2>4, <2>5
  <1>11. Own(h, s) = a[M] /\ Own(h, t) = b[N]
    BY <1>2, <1>3 DEF M, N
  <1>12. QED BY <1>7, <1>9, <1>10, <1>11 DEF u

(* All of the cells are of the host, or none is.                            *)
LEMMA OwnAll ==
  ASSUME NEW h, NEW s \in Seq(Cell), \A n \in 1 .. Len(s) : HostOf[s[n][1]] = h
  PROVE  Own(h, s) = s
  <1> DEFINE N == Len(s)
  <1>1. PICK g : Owns(g, h, s) /\ Own(h, s) = g[N]
    BY OwnParts
  <1>2. /\ N \in Nat /\ g \in [0 .. N -> Seq(Cell)] /\ g[0] = <<>>
        /\ \A n \in 1 .. N : g[n] = Append(g[n - 1], s[n]) /\ s[n] \in Cell
    BY <1>1, LenProperties, ElementOfSeq DEF Owns, OwnNext
  <1>3. Len(s) = N
    OBVIOUS
  <1> HIDE DEF N
  <1> DEFINE Same(n) == Len(g[n]) = n /\ \A i \in 1 .. n : g[n][i] = s[i]
             T == {n \in 0 .. N : Same(n)}
  <1>4. 0 \in T
    BY <1>2
  <1>5. ASSUME NEW n \in 0 .. N - 1, n \in T PROVE n + 1 \in T
    <2>1. n + 1 \in 1 .. N /\ n + 1 \in 0 .. N /\ n \in 0 .. N /\ (n + 1) - 1 = n
      BY <1>2
    <2>2. g[n + 1] = Append(g[(n + 1) - 1], s[n + 1]) /\ s[n + 1] \in Cell /\ g[n] \in Seq(Cell)
      BY <1>2, <2>1
    <2>3. Same(n) /\ g[n + 1] = Append(g[n], s[n + 1])
      BY <1>5, <2>1, <2>2
    <2>4. /\ Len(Append(g[n], s[n + 1])) = n + 1
          /\ \A i \in 1 .. n : Append(g[n], s[n + 1])[i] = s[i]
          /\ Append(g[n], s[n + 1])[n + 1] = s[n + 1]
      BY <2>2, <2>3, AppendProperties
    <2>5. \A i \in 1 .. n + 1 : i \in 1 .. n \/ i = n + 1
      BY <2>1
    <2>6. Same(n + 1)
      BY <2>3, <2>4, <2>5
    <2> HIDE DEF Same
    <2>7. QED BY <2>1, <2>6
  <1>6. N \in 0 .. N /\ \A n \in T : Same(n)
    BY <1>2
  <1> HIDE DEF T
  <1>7. Same(N)
    <2>1. N \in T
      BY <1>2, <1>4, <1>5, <1>6, Induction
    <2>2. QED BY <1>6, <2>1
  <1>8. g[N] \in Seq(Cell)
    BY <1>2, <1>6
  <1>9. g[N] = s
    BY <1>3, <1>7, <1>8, SeqEqual
  <1>10. QED BY <1>1, <1>9 DEF N

LEMMA OwnNone ==
  ASSUME NEW h, NEW s \in Seq(Cell), \A n \in 1 .. Len(s) : HostOf[s[n][1]] # h
  PROVE  Own(h, s) = <<>>
  <1> DEFINE N == Len(s)
  <1>1. PICK g : Owns(g, h, s) /\ Own(h, s) = g[N]
    BY OwnParts
  <1>2. /\ N \in Nat /\ g[0] = <<>>
        /\ \A n \in 1 .. N : g[n] = g[n - 1]
    BY <1>1, LenProperties DEF Owns, OwnNext
  <1> HIDE DEF N
  <1> DEFINE T == {n \in 0 .. N : g[n] = <<>>}
  <1>3. 0 \in T
    BY <1>2
  <1>4. ASSUME NEW n \in 0 .. N - 1, n \in T PROVE n + 1 \in T
    <2>1. n + 1 \in 1 .. N /\ n + 1 \in 0 .. N /\ (n + 1) - 1 = n
      BY <1>2
    <2>2. g[n + 1] = g[(n + 1) - 1]
      BY <1>2, <2>1
    <2>3. QED BY <1>4, <2>1, <2>2
  <1>5. N \in 0 .. N /\ \A n \in T : g[n] = <<>>
    BY <1>2
  <1> HIDE DEF T
  <1>6. N \in T
    BY <1>2, <1>3, <1>4, <1>5, Induction
  <1>7. QED BY <1>1, <1>5, <1>6 DEF N

------------------------------------------------------------------------------
(* Nothing is lost *)

OfHost(h, s) == \A n \in 1 .. Len(s) : HostOf[s[n][1]] = h

(* A buffer, and the rest of a line, hold cells of their host only; what the *)
(* host was given is what is kept and what a failure cost it.               *)
KeptInv ==
  \A h \in Host :
    /\ OfHost(h, bw[h]) /\ OfHost(h, rest[h])
    /\ \E lost \in Seq(Cell) : Given(h) = Kept(h) \o lost /\ (failed[h] \/ lost = <<>>)

LEMMA OfHostConcat ==
  ASSUME NEW h, NEW s \in Seq(Cell), NEW t \in Seq(Cell)
  PROVE  OfHost(h, s \o t) <=> OfHost(h, s) /\ OfHost(h, t)
  <1> DEFINE u == s \o t
  <1>1. /\ Len(s) \in Nat /\ Len(t) \in Nat /\ Len(u) = Len(s) + Len(t)
        /\ \A i \in 1 .. Len(s) + Len(t) : u[i] = IF i <= Len(s) THEN s[i] ELSE t[i - Len(s)]
    BY LenProperties, ConcatProperties
  <1> HIDE DEF u
  <1>2. \A i \in 1 .. Len(s) : i \in 1 .. Len(u) /\ u[i] = s[i]
    BY <1>1
  <1>3. ASSUME NEW i \in 1 .. Len(t)
        PROVE  Len(s) + i \in 1 .. Len(u) /\ u[Len(s) + i] = t[i]
    <2>1. /\ Len(s) + i \in 1 .. Len(s) + Len(t)
          /\ ~(Len(s) + i <= Len(s)) /\ (Len(s) + i) - Len(s) = i
      BY <1>1
    <2>2. u[Len(s) + i] = t[(Len(s) + i) - Len(s)]
      BY <1>1, <2>1
    <2> QED BY <1>1, <2>1, <2>2
  <1>4. ASSUME NEW i \in 1 .. Len(u)
        PROVE  \/ i \in 1 .. Len(s) /\ u[i] = s[i]
               \/ i - Len(s) \in 1 .. Len(t) /\ u[i] = t[i - Len(s)]
    <2>1. i \in Int /\ i \in 1 .. Len(s) + Len(t)
      BY <1>1
    <2>2. CASE i <= Len(s)
      BY <1>1, <2>1, <2>2
    <2>3. CASE ~(i <= Len(s))
      BY <1>1, <2>1, <2>3
    <2> QED BY <2>2, <2>3
  <1>5. ASSUME OfHost(h, u) PROVE OfHost(h, s) /\ OfHost(h, t)
    <2>1. \A i \in 1 .. Len(s) : HostOf[s[i][1]] = h
      BY <1>2, <1>5 DEF OfHost
    <2>2. \A i \in 1 .. Len(t) : HostOf[t[i][1]] = h
      BY <1>3, <1>5 DEF OfHost
    <2> QED BY <2>1, <2>2 DEF OfHost
  <1>6. ASSUME OfHost(h, s), OfHost(h, t) PROVE OfHost(h, u)
    <2>1. ASSUME NEW i \in 1 .. Len(u) PROVE HostOf[u[i][1]] = h
      BY <1>4, <1>6 DEF OfHost
    <2> QED BY <2>1 DEF OfHost
  <1> QED BY <1>5, <1>6 DEF u

(* What is written for one host is nothing of another.                      *)
LEMMA WriteOutKeeps ==
  ASSUME TypeOK, NEW h \in Host, NEW cells \in Seq(Cell), OfHost(h, cells),
         written' = [written EXCEPT ![Output[h]] = @ \o cells]
  PROVE  /\ Own(h, written'[Output[h]]) = Own(h, written[Output[h]]) \o cells
         /\ \A k \in Host \ {h} : Own(k, written'[Output[k]]) = Own(k, written[Output[k]])
  <1>1. Output \in [Host -> File] /\ written \in [File -> Seq(Cell)]
    BY LogAssumption DEF LogAssumption, TypeOK, LogTypeOK
  <1>2. written[Output[h]] \in Seq(Cell) /\ written'[Output[h]] = written[Output[h]] \o cells
    BY <1>1
  <1>3. Own(h, cells) = cells
    BY OwnAll DEF OfHost
  <1>4. ASSUME NEW k \in Host \ {h}
        PROVE  Own(k, written'[Output[k]]) = Own(k, written[Output[k]])
    <2>1. CASE Output[k] # Output[h]
      <3>1. written'[Output[k]] = written[Output[k]]
        BY <1>1, <2>1
      <3>2. QED BY <3>1
    <2>2. CASE Output[k] = Output[h]
      <3>1. \A n \in 1 .. Len(cells) : HostOf[cells[n][1]] # k
        BY DEF OfHost
      <3>2. Own(k, cells) = <<>>
        BY <3>1, OwnNone
      <3>3. Own(k, written[Output[h]]) \in Seq(Cell)
            /\ Own(k, written[Output[h]] \o cells) = Own(k, written[Output[h]]) \o Own(k, cells)
        BY <1>2, OwnConcat
      <3>4. Own(k, written[Output[h]]) \o <<>> = Own(k, written[Output[h]])
        BY <3>3, ConcatEmptySeq
      <3>5. QED BY <1>2, <2>2, <3>2, <3>3, <3>4
    <2>3. QED BY <2>1, <2>2
  <1>5. Own(h, written[Output[h]] \o cells) = Own(h, written[Output[h]]) \o Own(h, cells)
    BY <1>2, OwnConcat
  <1>6. QED BY <1>2, <1>3, <1>4, <1>5

(* The effect of a write after which a log has these cells to account for.  *)
Takes(h, cells) ==
  /\ \A k \in Host \ {h} : bw'[k] = bw[k] /\ failed'[k] = failed[k] /\ rest'[k] = rest[k]
                           /\ Own(k, written'[Output[k]]) = Own(k, written[Output[k]])
  /\ OfHost(h, bw'[h]) /\ OfHost(h, rest'[h])
  /\ \E lost \in Seq(Cell) :
       /\ (Own(h, written'[Output[h]]) \o (bw'[h] \o rest'[h])) \o lost = Own(h, written[Output[h]]) \o cells
       /\ failed'[h] \/ lost = <<>>

LEMMA WriteBufferTakes ==
  ASSUME TypeOK, NEW h \in Host,
         NEW cells \in Seq(Cell), NEW buffered \in Seq(Cell), NEW left \in Seq(Cell),
         OfHost(h, cells), OfHost(h, buffered), OfHost(h, left),
         WriteBuffer(h, cells, buffered, left)
  PROVE  Takes(h, cells \o (buffered \o left))
  <1> DEFINE N == Len(cells)
             kept == Own(h, written[Output[h]])
             next == buffered \o left
  <1> SUFFICES Takes(h, cells \o next)
    OBVIOUS
  <1>1. /\ Output[h] \in File /\ bw \in [Host -> Seq(Cell)] /\ failed \in [Host -> BOOLEAN]
        /\ written[Output[h]] \in Seq(Cell) /\ rest \in [Host -> Seq(Cell)]
        /\ <<>> \in Seq(Cell) /\ OfHost(h, <<>>)
    BY LogAssumption DEF LogAssumption, TypeOK, LogTypeOK, OfHost
  <1>2. kept \in Seq(Cell)
    BY <1>1, OwnConcat
  <1>3. N \in Nat /\ \A i \in 1 .. N : cells[i] \in Cell
    BY LenProperties, ElementOfSeq
  <1>4. next \in Seq(Cell)
    BY ConcatProperties
  <1>5. /\ \A k \in Host \ {h} : bw'[k] = bw[k] /\ failed'[k] = failed[k] /\ rest'[k] = rest[k]
        /\ \E n \in 0 .. N : WriteOut(Output[h], cells, n)
    BY <1>1, <1>3 DEF WriteBuffer
  <1>6. ASSUME NEW n \in 0 .. N, WriteOut(Output[h], cells, n),
               bw'[h] \in Seq(Cell), OfHost(h, bw'[h]), rest'[h] \in Seq(Cell), OfHost(h, rest'[h]),
               NEW lost \in Seq(Cell), SubSeq(cells, 1, n) \o ((bw'[h] \o rest'[h]) \o lost) = cells \o next,
               failed'[h] \/ lost = <<>>
        PROVE  Takes(h, cells \o next)
    <2> DEFINE taken == SubSeq(cells, 1, n)
               held == bw'[h] \o rest'[h]
    <2>1. n \in Int /\ \A i \in 1 .. n : cells[i] \in Cell
      BY <1>3
    <2>2. taken \in Seq(Cell) /\ Len(taken) = n /\ \A i \in 1 .. n : taken[i] = cells[i]
      BY <1>3, <2>1, SubSeqProperties
    <2>3. OfHost(h, taken)
      BY <1>3, <2>2 DEF OfHost
    <2>4. written' = [written EXCEPT ![Output[h]] = @ \o taken]
      BY <1>6 DEF WriteOut
    <2>5. held \in Seq(Cell)
      BY <1>6, ConcatProperties
    <2>6. taken \o (held \o lost) = cells \o next
      BY <1>6
    <2> HIDE DEF taken, held, next
    <2>7. /\ Own(h, written'[Output[h]]) = kept \o taken
          /\ \A k \in Host \ {h} : Own(k, written'[Output[k]]) = Own(k, written[Output[k]])
      BY <2>2, <2>3, <2>4, WriteOutKeeps
    <2>8. ((kept \o taken) \o held) \o lost = kept \o (taken \o (held \o lost))
      <3> HIDE DEF kept
      <3>1. kept \in Seq(Cell) /\ taken \in Seq(Cell) /\ held \in Seq(Cell) /\ lost \in Seq(Cell)
        BY <1>2, <2>2, <2>5
      <3>2. \A b, c, d \in Seq(Cell) : ((kept \o b) \o c) \o d = kept \o (b \o (c \o d))
        BY <3>1, AssociationOfFour
      <3>3. \A c, d \in Seq(Cell) : ((kept \o taken) \o c) \o d = kept \o (taken \o (c \o d))
        BY <3>1, <3>2
      <3>4. \A d \in Seq(Cell) : ((kept \o taken) \o held) \o d = kept \o (taken \o (held \o d))
        BY <3>1, <3>3
      <3>5. QED BY <3>1, <3>4
    <2>9. (Own(h, written'[Output[h]]) \o (bw'[h] \o rest'[h])) \o lost = kept \o (cells \o next)
      BY <2>6, <2>7, <2>8 DEF held
    <2>10. QED BY <1>5, <1>6, <2>7, <2>9 DEF Takes
  <1> HIDE DEF next
  <1>7. CASE /\ WriteOut(Output[h], cells, N) /\ bw' = [bw EXCEPT ![h] = buffered]
             /\ rest' = [rest EXCEPT ![h] = left] /\ UNCHANGED <<failed, faults>>
    <2>1. SubSeq(cells, 1, N) = cells
      BY SubSeqFull
    <2>2. N \in 0 .. N /\ next \o <<>> = next
      BY <1>3, <1>4, ConcatEmptySeq
    <2>3. bw'[h] = buffered /\ rest'[h] = left
      BY <1>1, <1>7
    <2>4. SubSeq(cells, 1, N) \o ((bw'[h] \o rest'[h]) \o <<>>) = cells \o next
      BY <2>1, <2>2, <2>3 DEF next
    <2> HIDE DEF kept, N
    <2>5. QED BY <1>1, <1>6, <1>7, <2>2, <2>3, <2>4
  <1>8. CASE /\ faults > 0 /\ faults' = faults - 1 /\ failed' = [failed EXCEPT ![h] = TRUE]
             /\ rest' = [rest EXCEPT ![h] = <<>>]
             /\ \E n \in 0 .. N - 1 :
                  /\ WriteOut(Output[h], cells, n)
                  /\ bw' = [bw EXCEPT ![h] = IF @ = <<>> THEN <<>> ELSE SubSeq(cells, n + 1, N)]
    <2>1. PICK n \in 0 .. N - 1 :
                  /\ WriteOut(Output[h], cells, n)
                  /\ bw' = [bw EXCEPT ![h] = IF @ = <<>> THEN <<>> ELSE SubSeq(cells, n + 1, N)]
      BY <1>8
    <2> DEFINE taken == SubSeq(cells, 1, n)
               refused == SubSeq(cells, n + 1, N)
    <2>2. n \in Int /\ n \in 0 .. N /\ n + 1 \in Int /\ N \in Int
      BY <1>3
    <2>3. (\A i \in 1 .. n : cells[i] \in Cell) /\ \A i \in n + 1 .. N : cells[i] \in Cell
      BY <1>3
    <2>4. taken \in Seq(Cell)
      BY <1>3, <2>2, <2>3, SubSeqProperties
    <2>5. refused \in Seq(Cell) /\ Len(refused) = N - n /\ \A i \in 1 .. N - n : refused[i] = cells[n + 1 + i - 1]
      BY <1>3, <2>2, <2>3, SubSeqProperties
    <2>6. OfHost(h, refused)
      <3>1. \A i \in 1 .. N - n : n + 1 + i - 1 \in 1 .. N
        BY <1>3, <2>2
      <3>2. QED BY <2>5, <3>1 DEF OfHost
    <2>7. taken \o refused = cells
      <3>1. taken \o refused = SubSeq(cells, 1, N)
        <4>1. 1 \in 1 .. N + 1 /\ n \in 1 - 1 .. N /\ N \in n .. N
          BY <1>3, <2>2
        <4>2. QED BY <4>1, ConcatAdjacentSubSeq
      <3>2. QED BY <3>1, SubSeqFull
    <2>8. taken \o (refused \o next) = cells \o next
      <3> HIDE DEF taken, refused
      <3>1. (taken \o refused) \o next = taken \o (refused \o next)
        BY <1>4, <2>4, <2>5, Association
      <3>2. QED BY <2>7, <3>1
    <2>9. refused \o next \in Seq(Cell)
      <3> HIDE DEF refused
      <3>1. QED BY <1>4, <2>5, ConcatProperties
    <2>10. failed'[h] /\ rest'[h] = <<>> /\ bw'[h] = IF bw[h] = <<>> THEN <<>> ELSE refused
      BY <1>1, <1>8, <2>1
    <2>11. CASE bw[h] = <<>>
      <3>1. bw'[h] = <<>> /\ (<<>> \o <<>>) \o (refused \o next) = refused \o next
        BY <1>1, <2>9, <2>10, <2>11, ConcatEmptySeq
      <3>2. SubSeq(cells, 1, n) \o ((bw'[h] \o rest'[h]) \o (refused \o next)) = cells \o next
        BY <2>8, <2>10, <3>1 DEF taken
      <3> HIDE DEF kept, N, taken, refused
      <3>3. QED BY <1>1, <1>6, <2>1, <2>2, <2>9, <2>10, <3>1, <3>2
    <2>12. CASE bw[h] # <<>>
      <3>1. bw'[h] = refused /\ refused \o <<>> = refused
        BY <2>5, <2>10, <2>12, ConcatEmptySeq
      <3>2. SubSeq(cells, 1, n) \o ((bw'[h] \o rest'[h]) \o next) = cells \o next
        BY <2>8, <2>10, <3>1 DEF taken
      <3> HIDE DEF kept, N, taken, refused
      <3>3. QED BY <1>1, <1>4, <1>6, <2>1, <2>2, <2>5, <2>6, <2>10, <3>1, <3>2
    <2>13. QED BY <2>11, <2>12
  <1>9. QED BY <1>7, <1>8 DEF WriteBuffer

(* The write of a line, or of the rest of one.                              *)
LEMMA BufferLineTakes ==
  ASSUME TypeOK, NEW h \in Host, NEW p \in Seq(Cell), ~failed[h], BufferLine(h, p),
         OfHost(h, bw[h]), OfHost(h, p)
  PROVE  Takes(h, bw[h] \o p)
  <1> DEFINE all == bw[h] \o p
             kept == Own(h, written[Output[h]])
  <1>1. /\ bw \in [Host -> Seq(Cell)] /\ rest \in [Host -> Seq(Cell)] /\ bw[h] \in Seq(Cell)
        /\ written[Output[h]] \in Seq(Cell) /\ <<>> \in Seq(Cell)
    BY LogAssumption DEF LogAssumption, TypeOK, LogTypeOK
  <1>2. all \in Seq(Cell) /\ OfHost(h, all) /\ OfHost(h, <<>>)
    <2>1. all \in Seq(Cell) /\ OfHost(h, all)
      BY <1>1, ConcatProperties, OfHostConcat
    <2> QED BY <2>1 DEF OfHost
  <1>3. \/ /\ all \in Seq(Cell) /\ Len(all) <= BufferSize[h]
           /\ bw' = [bw EXCEPT ![h] = all] /\ rest' = [rest EXCEPT ![h] = <<>>]
           /\ UNCHANGED <<fileVars, failed>>
        \/ \E cells, buffered, left \in Seq(Cell) :
             /\ WriteBuffer(h, cells, buffered, left)
             /\ cells \o (buffered \o left) = all
             /\ bw[h] # <<>> => Len(cells) <= BufferSize[h]
             /\ Len(buffered) <= BufferSize[h]
             /\ left # <<>> => buffered = <<>> /\ bw[h] # <<>> /\ p # <<>>
    BY BufferLineParts
  <1> SUFFICES Takes(h, all)
    OBVIOUS
  <1> HIDE DEF all
  <1>4. CASE /\ bw' = [bw EXCEPT ![h] = all] /\ rest' = [rest EXCEPT ![h] = <<>>]
             /\ UNCHANGED <<fileVars, failed>>
    <2>1. /\ written' = written /\ failed' = failed /\ bw'[h] = all /\ rest'[h] = <<>>
          /\ \A k \in Host \ {h} : bw'[k] = bw[k] /\ rest'[k] = rest[k]
      BY <1>1, <1>4 DEF fileVars
    <2>2. kept \in Seq(Cell)
      BY <1>1, OwnConcat
    <2>3. (kept \o (all \o <<>>)) \o <<>> = kept \o all
      <3> HIDE DEF kept
      <3>1. all \o <<>> = all /\ kept \o all \in Seq(Cell)
        BY <1>2, <2>2, ConcatEmptySeq, ConcatProperties
      <3>2. (kept \o all) \o <<>> = kept \o all
        BY <3>1, ConcatEmptySeq
      <3> QED BY <3>1, <3>2
    <2>4. (Own(h, written'[Output[h]]) \o (bw'[h] \o rest'[h])) \o <<>> = kept \o all
      BY <2>1, <2>3
    <2> QED BY <1>1, <1>2, <2>1, <2>4 DEF Takes
  <1>5. ASSUME NEW cells \in Seq(Cell), NEW buffered \in Seq(Cell), NEW left \in Seq(Cell),
               WriteBuffer(h, cells, buffered, left), cells \o (buffered \o left) = all
        PROVE  Takes(h, all)
    <2>1. buffered \o left \in Seq(Cell)
      BY ConcatProperties
    <2>2. OfHost(h, cells) /\ OfHost(h, buffered \o left)
      BY <1>2, <1>5, <2>1, OfHostConcat
    <2>3. OfHost(h, buffered) /\ OfHost(h, left)
      BY <2>2, OfHostConcat
    <2>4. Takes(h, cells \o (buffered \o left))
      BY <1>5, <2>2, <2>3, WriteBufferTakes
    <2> QED BY <1>5, <2>4
  <1> QED BY <1>3, <1>4, <1>5

LEMMA KeptSame == ASSUME KeptInv, UNCHANGED <<bw, failed, rest, written, order>> PROVE KeptInv'
  BY DEF KeptInv, Given, Kept

LEMMA KeptType ==
  ASSUME TypeOK, NEW h \in Host
  PROVE  /\ bw[h] \in Seq(Cell) /\ rest[h] \in Seq(Cell) /\ bw[h] \o rest[h] \in Seq(Cell)
         /\ Own(h, written[Output[h]]) \in Seq(Cell) /\ Kept(h) \in Seq(Cell)
  <1>1. bw[h] \in Seq(Cell) /\ rest[h] \in Seq(Cell) /\ written[Output[h]] \in Seq(Cell)
    BY LogAssumption DEF LogAssumption, TypeOK, LogTypeOK
  <1>2. Own(h, written[Output[h]]) \in Seq(Cell) /\ bw[h] \o rest[h] \in Seq(Cell)
    BY <1>1, OwnConcat, ConcatProperties
  <1> QED BY <1>1, <1>2, ConcatProperties DEF Kept

(* A log takes the cells of a line; a flush or a second write, none.        *)
LEMMA KeptTakes ==
  ASSUME TypeOK, KeptInv, NEW h \in Host, NEW line \in Seq(Cell), ~failed[h],
         Takes(h, (bw[h] \o rest[h]) \o line), Given(h)' = Given(h) \o line,
         \A k \in Host \ {h} : Given(k)' = Given(k)
  PROVE  KeptInv'
  <1> DEFINE kept == Own(h, written[Output[h]])
             held == bw[h] \o rest[h]
  <1>1. held \in Seq(Cell) /\ kept \in Seq(Cell)
    BY KeptType
  <1>2. Given(h) = kept \o held
    <2>1. PICK lost \in Seq(Cell) : Given(h) = Kept(h) \o lost /\ (failed[h] \/ lost = <<>>)
      BY DEF KeptInv
    <2>2. Given(h) = (kept \o held) \o <<>>
      BY <2>1 DEF Kept
    <2> HIDE DEF kept, held
    <2>3. kept \o held \in Seq(Cell)
      BY <1>1, ConcatProperties
    <2>4. QED BY <2>2, <2>3, ConcatEmptySeq
  <1>3. PICK lost \in Seq(Cell) :
          /\ (Own(h, written'[Output[h]]) \o (bw'[h] \o rest'[h])) \o lost = kept \o (held \o line)
          /\ failed'[h] \/ lost = <<>>
    BY DEF Takes
  <1>4. Given(h)' = kept \o (held \o line)
    <2> HIDE DEF kept, held
    <2>1. (kept \o held) \o line = kept \o (held \o line)
      BY <1>1, Association
    <2>2. Given(h)' = (kept \o held) \o line
      BY <1>2
    <2>3. QED BY <2>1, <2>2
  <1>5. Given(h)' = Kept(h)' \o lost
    BY <1>3, <1>4 DEF Kept
  <1>6. ASSUME NEW k \in Host \ {h}
        PROVE  /\ OfHost(k, bw[k])' /\ OfHost(k, rest[k])'
               /\ \E l \in Seq(Cell) : Given(k)' = Kept(k)' \o l /\ (failed'[k] \/ l = <<>>)
    <2>1. Kept(k)' = Kept(k) /\ failed'[k] = failed[k] /\ bw'[k] = bw[k] /\ rest'[k] = rest[k]
      BY DEF Takes, Kept
    <2>2. /\ OfHost(k, bw[k]) /\ OfHost(k, rest[k])
          /\ \E l \in Seq(Cell) : Given(k) = Kept(k) \o l /\ (failed[k] \/ l = <<>>)
      BY DEF KeptInv
    <2>3. QED BY <2>1, <2>2 DEF OfHost
  <1>7. OfHost(h, bw[h])' /\ OfHost(h, rest[h])'
    BY DEF Takes, OfHost
  <1>8. QED BY <1>3, <1>5, <1>6, <1>7 DEF KeptInv

(* What a log was given, while it is given nothing more.                    *)
LEMMA GivenSame ==
  ASSUME TypeOK, KeptInv, NEW h \in Host, order' = order
  PROVE  Given(h)' = Given(h) \o <<>> /\ \A k \in Host \ {h} : Given(k)' = Given(k)
  <1>1. \A k \in Host : Given(k)' = Given(k)
    BY DEF Given
  <1>2. PICK lost \in Seq(Cell) : Given(h) = Kept(h) \o lost /\ (failed[h] \/ lost = <<>>)
    BY DEF KeptInv
  <1>3. Given(h) \in Seq(Cell)
    BY <1>2, KeptType, ConcatProperties
  <1> QED BY <1>1, <1>3, ConcatEmptySeq

(* Flush, of whoever calls it.                                              *)
LEMMA KeptFlush ==
  ASSUME TypeOK, KeptInv, NEW h \in Host, Flush(h), rest[h] = <<>>, order' = order
  PROVE  KeptInv'
  <1>1. CASE failed[h] \/ bw[h] = <<>>
    BY <1>1, KeptSame DEF Flush, fileVars, bufferVars
  <1>2. CASE ~(failed[h] \/ bw[h] = <<>>)
    <2>1. WriteBuffer(h, bw[h], <<>>, <<>>)
      BY <1>2 DEF Flush
    <2>2. bw[h] \in Seq(Cell) /\ <<>> \in Seq(Cell)
      BY KeptType
    <2>3. OfHost(h, bw[h]) /\ OfHost(h, <<>>)
      BY DEF KeptInv, OfHost
    <2>4. Takes(h, bw[h] \o (<<>> \o <<>>))
      BY <2>1, <2>2, <2>3, WriteBufferTakes
    <2>5. (bw[h] \o rest[h]) \o <<>> = bw[h] \o (<<>> \o <<>>)
      BY <2>2, Association
    <2>6. QED BY <1>2, <2>2, <2>4, <2>5, GivenSame, KeptTakes
  <1>3. QED BY <1>1, <1>2

LEMMA LineType == ASSUME NEW r \in Request PROVE LineOf(r) \in Seq(Cell) /\ OfHost(HostOf[r], LineOf(r))
  BY LineCells DEF OfHost

(* What a log is given grows by the line.                                   *)
LEMMA GivenGrows ==
  ASSUME TypeOK, NEW r \in Request, order' = [order EXCEPT ![HostOf[r]] = Append(@, r)]
  PROVE  /\ Given(HostOf[r]) \in Seq(Cell)
         /\ Given(HostOf[r])' = Given(HostOf[r]) \o LineOf(r)
         /\ \A k \in Host \ {HostOf[r]} : Given(k)' = Given(k)
  <1> DEFINE h == HostOf[r]
             s == order[h]
             lines == [i \in DOMAIN s |-> LineOf(s[i])]
             more == [i \in DOMAIN Append(s, r) |-> LineOf(Append(s, r)[i])]
  <1>1. h \in Host /\ order \in [Host -> Seq(Request)]
    BY LogAssumption DEF LogAssumption, TypeOK, LogTypeOK
  <1>2. s \in Seq(Request) /\ order'[h] = Append(s, r) /\ \A k \in Host \ {h} : order'[k] = order[k]
    BY <1>1
  <1>3. /\ Len(s) \in Nat /\ DOMAIN s = 1 .. Len(s) /\ \A i \in 1 .. Len(s) : s[i] \in Request
        /\ DOMAIN Append(s, r) = 1 .. Len(s) + 1 /\ Append(s, r)[Len(s) + 1] = r
        /\ \A i \in 1 .. Len(s) : Append(s, r)[i] = s[i]
    BY <1>2, LenProperties, ElementOfSeq, AppendProperties
  <1>4. lines \in Seq(Seq(Cell)) /\ Len(lines) = Len(s)
    <2>1. \A i \in 1 .. Len(s) : LineOf(s[i]) \in Seq(Cell)
      BY <1>3, LineType
    <2>2. QED BY <1>3, <2>1, IsASeq
  <1>5. more = Append(lines, LineOf(r))
    <2> DEFINE both == Append(lines, LineOf(r))
    <2>1. LineOf(r) \in Seq(Cell)
      BY LineType
    <2>2. /\ both \in Seq(Seq(Cell)) /\ Len(both) = Len(s) + 1 /\ both[Len(s) + 1] = LineOf(r)
          /\ \A i \in 1 .. Len(s) : both[i] = lines[i]
      BY <1>4, <2>1, AppendProperties
    <2>3. \A i \in 1 .. Len(s) : lines[i] = LineOf(s[i])
      BY <1>3
    <2> HIDE DEF both, lines
    <2>4. both = [i \in 1 .. Len(s) + 1 |-> both[i]]
      BY <2>2, LenProperties
    <2>5. \A i \in 1 .. Len(s) + 1 : both[i] = LineOf(Append(s, r)[i])
      <3>1. \A i \in 1 .. Len(s) + 1 : i \in 1 .. Len(s) \/ i = Len(s) + 1
        BY <1>3
      <3>2. QED BY <1>3, <2>2, <2>3, <3>1
    <2>6. more = [i \in 1 .. Len(s) + 1 |-> LineOf(Append(s, r)[i])]
      BY <1>3
    <2>7. QED BY <2>4, <2>5, <2>6 DEF both
  <1>6. LineOf(r) \in Seq(Cell)
    BY LineType
  <1>7. Given(h) = FlattenSeq(lines) /\ Given(h)' = FlattenSeq(more)
    BY <1>2 DEF Given
  <1> HIDE DEF lines, more
  <1>8. FlattenSeq(lines) \in Seq(Cell) /\ FlattenSeq(more) = FlattenSeq(lines) \o LineOf(r)
    BY <1>4, <1>5, <1>6, FlattenAppend
  <1>9. \A k \in Host \ {h} : Given(k)' = Given(k)
    BY <1>2 DEF Given
  <1>10. QED BY <1>7, <1>8, <1>9

LEMMA KeptLogWrite ==
  ASSUME TypeOK, KeptInv, NEW r \in Request, LogWrite(r)
  PROVE  KeptInv'
  <1> DEFINE h == HostOf[r]
             line == LineOf(r)
  <1>1. h \in Host /\ rest[h] = <<>>
    BY LogAssumption DEF LogAssumption, LogWrite, Held
  <1>2. line \in Seq(Cell) /\ OfHost(h, line)
    BY LineType
  <1>3. /\ BufferLine(h, line)
        /\ Given(h) \in Seq(Cell) /\ Given(h)' = Given(h) \o line
        /\ \A k \in Host \ {h} : Given(k)' = Given(k)
    BY GivenGrows DEF LogWrite
  <1>4. bw[h] \in Seq(Cell) /\ OfHost(h, bw[h])
    BY <1>1, KeptType DEF KeptInv
  <1> HIDE DEF line
  <1>5. CASE failed[h]
    <2>1. UNCHANGED <<written, bw, failed, rest>>
      BY <1>3, <1>5 DEF BufferLine, fileVars, bufferVars
    <2>2. ASSUME NEW k \in Host
          PROVE  /\ OfHost(k, bw[k])' /\ OfHost(k, rest[k])'
                 /\ \E l \in Seq(Cell) : Given(k)' = Kept(k)' \o l /\ (failed'[k] \/ l = <<>>)
      <3>1. PICK lost \in Seq(Cell) : Given(k) = Kept(k) \o lost /\ (failed[k] \/ lost = <<>>)
        BY DEF KeptInv
      <3>2. Kept(k)' = Kept(k) /\ OfHost(k, bw[k])' /\ OfHost(k, rest[k])'
        BY <2>1 DEF Kept, OfHost, KeptInv
      <3>3. CASE k # h
        BY <1>3, <2>1, <3>1, <3>2, <3>3
      <3>4. CASE k = h
        <4>1. Kept(k) \in Seq(Cell)
          BY KeptType
        <4>2. Given(k)' = (Kept(k) \o lost) \o line
          BY <1>3, <3>1, <3>4
        <4>3. (Kept(k) \o lost) \o line = Kept(k) \o (lost \o line) /\ lost \o line \in Seq(Cell)
          BY <1>2, <4>1, ConcatAssociative, ConcatProperties
        <4>4. Given(k)' = Kept(k)' \o (lost \o line)
          BY <3>2, <4>2, <4>3
        <4>5. failed'[k]
          BY <1>5, <2>1, <3>4
        <4>6. QED BY <3>2, <4>3, <4>4, <4>5
      <3>5. QED BY <3>3, <3>4
    <2>3. QED BY <2>2 DEF KeptInv
  <1>6. CASE ~failed[h]
    <2>1. Takes(h, bw[h] \o line)
      BY <1>1, <1>2, <1>3, <1>4, <1>6, BufferLineTakes
    <2>2. (bw[h] \o rest[h]) \o line = bw[h] \o line
      BY <1>1, <1>4, ConcatEmptySeq
    <2>3. QED BY <1>1, <1>2, <1>3, <1>6, <2>1, <2>2, KeptTakes
  <1>7. QED BY <1>5, <1>6

LEMMA KeptLogRest ==
  ASSUME TypeOK, KeptInv, NEW r \in Request, LogRest(r)
  PROVE  KeptInv'
  <1> DEFINE h == HostOf[r]
  <1>1. h \in Host /\ BufferLine(h, rest[h]) /\ order' = order
    BY LogAssumption DEF LogAssumption, LogRest
  <1>2. bw[h] \in Seq(Cell) /\ rest[h] \in Seq(Cell) /\ OfHost(h, bw[h]) /\ OfHost(h, rest[h])
    BY <1>1, KeptType DEF KeptInv
  <1>3. CASE failed[h]
    BY <1>1, <1>3, KeptSame DEF BufferLine, fileVars, bufferVars
  <1>4. CASE ~failed[h]
    <2>1. Takes(h, bw[h] \o rest[h])
      BY <1>1, <1>2, <1>4, BufferLineTakes
    <2>2. (bw[h] \o rest[h]) \o <<>> = bw[h] \o rest[h] /\ <<>> \in Seq(Cell)
      BY <1>1, KeptType, ConcatEmptySeq
    <2>3. QED BY <1>1, <1>4, <2>1, <2>2, GivenSame, KeptTakes
  <1>5. QED BY <1>3, <1>4

LEMMA KeptStep ==
  ASSUME IInv, KeptInv, [Next]_vars
  PROVE  KeptInv'
  <1>0. TypeOK
    BY DEF IInv
  <1>1. CASE NewLogger \/ OpenAccessLog \/ HostReady \/ StartServer
    <2>1. UNCHANGED <<bw, failed, rest, written, order>>
      BY <1>1 DEF NewLogger, OpenAccessLog, NewAccessLog, HostReady, StartServer, logVars, bufferVars,
                  fileVars, rotatorVars
    <2>2. QED BY <2>1, KeptSame
  <1>2. CASE StartupFails \/ RunReturns \/ Exit \/ HandleHUP \/ UNCHANGED vars
    <2>1. UNCHANGED <<bw, failed, rest, written, order>>
      BY <1>2 DEF StartupFails, RunReturns, Exit, HandleHUP, RotateShared, logVars, bufferVars, fileVars,
                  rotatorVars, vars
    <2>2. QED BY <2>1, KeptSame
  <1>3. CASE CloseHosts
    <2>1. CASE CloseMark \/ CloseDrop \/ CloseRemove \/ CloseFile
      <3>1. UNCHANGED <<bw, failed, rest, written, order>>
        BY <2>1 DEF CloseMark, CloseDrop, CloseRemove, CloseFile, bufferVars, fileVars, rotatorVars
      <3>2. QED BY <3>1, KeptSame
    <2>2. CASE CloseFlush
      <3>1. Flush(Head(toClose)) /\ rest[Head(toClose)] = <<>> /\ order' = order
        BY <2>2 DEF CloseFlush, Held
      <3>2. toClose # <<>>
        BY <2>2 DEF CloseFlush, IInv, CloseInv
      <3>3. Head(toClose) \in Host
        BY <3>2, WhileClosing
      <3>4. QED BY <1>0, <3>1, <3>3, KeptFlush
    <2>3. QED BY <1>3, <2>1, <2>2 DEF CloseHosts, Close
  <1>4. CASE \E r \in Request : Logs(r)
    <2>1. PICK r \in Request : Logs(r)
      BY <1>4
    <2>2. CASE LogCheck(r) \/ LogAppendLine(r)
      <3>1. UNCHANGED <<bw, failed, rest, written, order>>
        BY <2>2 DEF LogCheck, LogAppendLine, bufferVars, fileVars, rotatorVars
      <3>2. QED BY <3>1, KeptSame
    <2>3. QED BY <1>0, <2>1, <2>2, KeptLogWrite, KeptLogRest DEF Logs, Log
  <1>5. CASE \E h \in Host : FlushLoop(h)
    <2>1. PICK h \in Host : FlushLoop(h)
      BY <1>5
    <2>2. CASE FlushTick(h)
      <3>1. Flush(h) /\ rest[h] = <<>> /\ order' = order
        BY <2>2 DEF FlushTick, Held
      <3>2. QED BY <1>0, <3>1, KeptFlush
    <2>3. CASE FlushLoopEnds(h)
      <3>1. UNCHANGED <<bw, failed, rest, written, order>>
        BY <2>3 DEF FlushLoopEnds, bufferVars, fileVars, rotatorVars
      <3>2. QED BY <3>1, KeptSame
    <2>4. QED BY <2>1, <2>2, <2>3 DEF FlushLoop
  <1>6. QED BY <1>1, <1>2, <1>3, <1>4, <1>5 DEF Next

LEMMA InitKept == Init => KeptInv
  <1> SUFFICES ASSUME Init, NEW h \in Host
      PROVE  OfHost(h, bw[h]) /\ OfHost(h, rest[h]) /\ \E lost \in Seq(Cell) : Given(h) = Kept(h) \o lost /\ (failed[h] \/ lost = <<>>)
    BY DEF KeptInv
  <1>1. bw[h] = <<>> /\ rest[h] = <<>> /\ written[Output[h]] = <<>> /\ order[h] = <<>>
    BY LogAssumption DEF LogAssumption, Init, InitLogs
  <1>2. Given(h) = <<>>
    BY <1>1 DEF Given, FlattenSeq
  <1>3. <<>> \in Seq(Cell) /\ <<>> \o <<>> = <<>>
    OBVIOUS
  <1>4. Own(h, <<>>) = <<>>
    <2>1. \A n \in 1 .. Len(<<>>) : HostOf[<<>>[n][1]] # h
      OBVIOUS
    <2>2. QED BY <1>3, <2>1, OwnNone
  <1>5. Kept(h) = <<>>
    BY <1>1, <1>3, <1>4 DEF Kept
  <1>6. OfHost(h, bw[h]) /\ OfHost(h, rest[h])
    BY <1>1 DEF OfHost
  <1>7. QED BY <1>2, <1>3, <1>5, <1>6

------------------------------------------------------------------------------
(* The theorems *)

(* The invariant of the hosts of a process holds in every state.            *)
THEOREM HostsInvariant == Spec => []IInv
  <1>1. Init => IInv
    BY InitIInv
  <1>2. IInv /\ [Next]_vars => IInv'
    <2> SUFFICES ASSUME IInv, [Next]_vars PROVE IInv'
      OBVIOUS
    <2>1. TypeOK' /\ BuildInv' /\ CloseInv' /\ CountInv'
      BY TypeStep, BuildStep, CloseStep, CountStep
    <2>2. ReadyInv' /\ BufferInv' /\ OpenInv' /\ HeldInv'
      BY ReadyStep, BufferStep, OpenStep, HeldStep
    <2> QED BY <2>1, <2>2 DEF IInv
  <1> QED BY <1>1, <1>2, PTL DEF Spec

(* The variables have their types.                                          *)
THEOREM HostsTypeCorrect == Spec => []TypeOK
  <1>1. IInv => TypeOK
    BY DEF IInv
  <1> QED BY <1>1, HostsInvariant, PTL

(* A shared file is counted once for each log that was opened on it and not *)
(* closed since, whatever the hosts and the listeners that share it, and is *)
(* in the map of the rotators for as long (rotator.go 53-99).               *)
THEOREM CountTheorem == Spec => []CountsUsers
  <1>1. IInv => CountsUsers
    BY DEF IInv, CountInv
  <1> QED BY <1>1, HostsInvariant, PTL

(* A request finds the log of its host in place, Close included when run    *)
(* drains (accesslog.go 131, 165-174).                                      *)
THEOREM ReadyTheorem == Spec => []LogIsReady
  <1>1. IInv => LogIsReady
    BY DEF IInv, ReadyInv
  <1> QED BY <1>1, HostsInvariant, PTL

(* When run has returned and had drained, no line is left in a buffer, but  *)
(* those of a log whose file failed, and no file is open without a user     *)
(* (server.go 122-185, 263-275, accesslog.go 118-140).                      *)
THEOREM CompleteTheorem == Spec => []ClosedIsComplete
  <1>1. IInv => ClosedIsComplete
    <2> SUFFICES ASSUME IInv, stage = "exited", drained
        PROVE  /\ \A h \in Host : failed[h] \/ (bw[h] = <<>> /\ rest[h] = <<>>)
               /\ \A f \in File : open[f] => Users(f) > 0
      BY DEF ClosedIsComplete
    <2>1. Closing /\ toClose = <<>> /\ closing = "no"
      BY DEF IInv, CloseInv, Closing
    <2>2. Range(toClose) = {}
      BY <2>1 DEF Range
    <2>3. \A h \in Host : ~Flushable(h)
      BY <2>1, <2>2 DEF IInv, BufferInv
    <2>4. \A f \in File : open[f] => shared[f] > 0
      BY <2>1 DEF IInv, OpenInv
    <2>5. \A f \in File : shared[f] = Users(f)
      BY DEF IInv, CountInv, CountsUsers
    <2>6. \A h \in Host : rest[h] = <<>>
      <3> SUFFICES ASSUME NEW h \in Host, Held(h) PROVE FALSE
        BY DEF Held
      <3>1. PICK r \in Request : HostOf[r] = h /\ pc[r] = "rest"
        BY DEF IInv, HeldInv
      <3>2. h \in accepting /\ accepting \subseteq Range(toClose)
        BY <2>1, <3>1 DEF IInv, ReadyInv, Logging
      <3> QED BY <2>2, <3>2
    <2> QED BY <2>3, <2>4, <2>5, <2>6 DEF Flushable
  <1> QED BY <1>1, HostsInvariant, PTL

(* Each host's lines reach its file in the order they were logged, and      *)
(* nothing of them is missing but what is buffered or was refused           *)
(* (accesslog.go 118-182).                                                  *)
THEOREM LostTheorem == Spec => []NothingLost
  <1>1. TypeOK /\ KeptInv => NothingLost
    <2> SUFFICES ASSUME TypeOK, KeptInv, NEW h \in Host
        PROVE  IsPrefix(Kept(h), Given(h)) /\ (failed[h] \/ Kept(h) = Given(h))
      BY DEF NothingLost
    <2>1. PICK lost \in Seq(Cell) : Given(h) = Kept(h) \o lost /\ (failed[h] \/ lost = <<>>)
      BY DEF KeptInv
    <2>2. Kept(h) \in Seq(Cell)
      <3>1. QED BY KeptType
    <2> DEFINE a == Kept(h)
               b == Given(h)
    <2>3. lost = <<>> => a = b
      BY <2>1, <2>2, ConcatEmptySeq
    <2>4. /\ b \in Seq(Cell) /\ Len(a) \in Nat /\ Len(b) \in Nat /\ Len(a) <= Len(b)
          /\ SubSeq(b, 1, Len(a)) = a
      BY <2>1, <2>2, ConcatProperties, LenProperties, SubSeqOfConcat1, SubSeqFull
    <2>5. SubSeq(a, 1, Len(a)) = a
      BY <2>2, SubSeqFull
    <2>6. IsPrefix(a, b)
      BY <2>4, <2>5 DEF IsPrefix
    <2>7. QED BY <2>1, <2>3, <2>6
  <1>2. IInv /\ KeptInv /\ [Next]_vars => KeptInv'
    BY KeptStep
  <1>3. QED BY <1>1, <1>2, InitKept, HostsInvariant, HostsTypeCorrect, PTL DEF Spec

==============================================================================
